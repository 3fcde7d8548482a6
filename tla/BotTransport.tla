--------------------------- MODULE BotTransport ---------------------------
(***************************************************************************)
(* SCSI commands over USB Bulk-Only Transport: bot_execute_command and the *)
(* scsi_cmd_ functions (usb_host_msc/src/msc_scsi_bot.c), the transfers,   *)
(* clear_feature and reset recovery under them (usb_host_msc/src/          *)
(* msc_host.c), issued by one task.                                        *)
(*                                                                         *)
(* A command is a frame on `stack': recovery calls commands, which may     *)
(* recover in turn. A command is known by its tag and its direction; data  *)
(* are known by the command they belong to.                                *)
(*                                                                         *)
(* The drive is external. It answers a CBW with a sequence of items for    *)
(* the bulk IN endpoint (data, CSW, or a stall that stays until its halt   *)
(* is cleared), so what the host leaves unread is found by its next        *)
(* transfer. Every deviation from the nominal answer is a fault; faults    *)
(* are counted and their kinds remembered.                                 *)
(***************************************************************************)
EXTENDS Naturals, Sequences, FiniteSets

CONSTANTS
  FaultKinds,   \* the faults that may happen
  MaxFaults,    \* bound: how many of them
  MaxTrials,    \* trials of msc_wait_for_ready_state (50 in the code)
  TagMod,       \* modulus of cbw_tag (2^32)
  Recovers      \* whether the task calls msc_host_reset_recovery itself

AllFaults == {"status_stall", "csw_failed", "data_stall", "timeout", "xfer_error", "control"}

ASSUME BotConstants ==
  /\ FaultKinds \subseteq AllFaults
  /\ Recovers \in BOOLEAN
  /\ MaxFaults \in Nat /\ MaxTrials \in Nat \ {0} /\ TagMod \in Nat \ {0}

VARIABLES
  stack,     \* the calls in progress, innermost first
  ret,       \* what the last call returned
  cbw_tag,   \* the static tag counter
  halted,    \* host side: bulk pipes that refuse transfers
  fifo,      \* drive: items waiting on its IN endpoint
  takes,     \* drive: what it takes from OUT next, a CBW or the data of a tag
  faults,    \* number of faults so far
  seen       \* and their kinds

vars == <<stack, ret, cbw_tag, halted, fifo, takes, faults, seen>>
hostVars == <<stack, ret, cbw_tag>>
driveVars == <<fifo, takes>>
faultVars == <<faults, seen>>

\* read10 stands for every command with data IN (read_capacity, inquiry,
\* mode_sense), unit_ready for those without data (prevent_removal).
Commands == {"read10", "write10", "unit_ready"}
Codes == {"OK", "STALL", "INVALID_STATE", "INTERNAL", "FAIL"}
Tags == 0..(TagMod - 1)

Item(kind, t, ok) == [kind |-> kind, tag |-> t, ok |-> ok]
Stall == Item("stall", 0, FALSE)
Nothing == Item("none", 0, FALSE)
AwaitCbw == [what |-> "cbw", tag |-> 0]

\* A call: of a command, with what its data phase brought in, or of the recovery.
Call(fn, t, pc) ==
  [fn |-> fn, tag |-> t, pc |-> pc, err |-> "OK", got |-> Nothing, trials |-> 0]

HasDataIn(c) == c.fn \in {"read10", "sense"}
HasDataOut(c) == c.fn = "write10"
Top == Head(stack)
Running(pc) == stack # << >> /\ Top.pc = pc

BotInit ==
  /\ stack = << >> /\ ret = "OK" /\ cbw_tag = 0
  /\ halted = {}
  /\ fifo = << >> /\ takes = AwaitCbw
  /\ faults = 0 /\ seen = {}

-----------------------------------------------------------------------------
(* The drive (external).                                                    *)

Fault(kind) ==
  /\ kind \in FaultKinds /\ faults < MaxFaults
  /\ faults' = faults + 1
  /\ seen' = seen \cup {kind}

NoFault == UNCHANGED faultVars

DataItem(c) == IF HasDataIn(c) THEN <<Item("data", c.tag, TRUE)>> ELSE << >>
CswItem(c, ok) == <<Item("csw", c.tag, ok)>>

Sends(items) == fifo' = fifo \o items

\* It answers command c, after the data phase if that is OUT; late, when the
\* host has given the transfer up as timed out although it was carried out.
Answered(c, clean, late) ==
  \/ /\ Sends(DataItem(c) \o CswItem(c, clean))
     /\ IF late THEN Fault("timeout") ELSE NoFault
  \/ /\ ~late
     /\ \/ Sends(DataItem(c) \o CswItem(c, FALSE)) /\ Fault("csw_failed")
        \/ Sends(DataItem(c) \o <<Stall>> \o CswItem(c, clean)) /\ Fault("status_stall")
        \/ Sends(DataItem(c) \o <<Stall, Stall>> \o CswItem(c, clean)) /\ Fault("status_stall")
        \/ HasDataIn(c) /\ Sends(<<Stall>> \o CswItem(c, FALSE)) /\ Fault("data_stall")

\* It takes a CBW if it waits for one and has not much left to send.
TakesCbw == takes = AwaitCbw /\ Len(fifo) <= 1

CbwTaken(c, late) ==
  IF HasDataOut(c)
  THEN /\ takes' = [what |-> "data", tag |-> c.tag] /\ fifo' = fifo
       /\ IF late THEN Fault("timeout") ELSE NoFault
  ELSE takes' = takes /\ Answered(c, TRUE, late)

\* Whatever comes in place of the data is taken for it: a CBW is too short.
DataTaken(own, late) ==
  /\ takes' = AwaitCbw
  /\ Answered(Call("write10", takes.tag, "cbw"), own, late)

\* It does not take data without a command.
Refuses(payload) == takes = AwaitCbw /\ (payload = "data" \/ ~TakesCbw)

Taken(c, payload, late) ==
  /\ ~Refuses(payload)
  /\ IF takes = AwaitCbw THEN CbwTaken(c, late) ELSE DataTaken(payload = "data", late)

-----------------------------------------------------------------------------
(* msc_bulk_transfer: each outcome with its effect on pipes and drive. The  *)
(* result is handed to the caller's step, r, and for IN the item received.  *)

Submitted(ep) == ep \notin halted
NotSubmitted(ep) == ep \in halted /\ UNCHANGED <<halted, driveVars, faultVars>>

\* wait_for_transfer_done halts, flushes and clears the pipe after a timeout;
\* the transfer may have been carried out meanwhile. Any other error halts it.
BulkOut(c, payload, r) ==
  \/ r = "INVALID_STATE" /\ NotSubmitted("out")
  \/ r = "OK" /\ Submitted("out") /\ Taken(c, payload, FALSE) /\ UNCHANGED halted
  \/ /\ r = "INTERNAL" /\ Submitted("out") /\ Refuses(payload)
     /\ UNCHANGED <<halted, driveVars, faultVars>>
  \/ r = "INTERNAL" /\ Submitted("out") /\ Taken(c, payload, TRUE) /\ UNCHANGED halted
  \/ r = "INTERNAL" /\ Submitted("out") /\ Fault("timeout") /\ UNCHANGED <<halted, driveVars>>
  \/ /\ r = "INTERNAL" /\ Submitted("out") /\ Fault("xfer_error")
     /\ halted' = halted \cup {"out"} /\ UNCHANGED driveVars
  \/ /\ r = "STALL" /\ Submitted("out") /\ payload = "data" /\ takes.what = "data"
     /\ Fault("data_stall")
     /\ halted' = halted \cup {"out"}
     /\ takes' = AwaitCbw /\ Sends(<<Item("csw", takes.tag, FALSE)>>)

\* What is left of the items once call c has received the first one: data it
\* did not ask for may be longer than its buffer.
Left(c) ==
  LET own == c.pc = "data" /\ (c.fn = "read10" \/ Head(fifo).tag = c.tag)
  IN  IF Head(fifo).kind = "data" /\ ~own THEN {fifo, Tail(fifo)} ELSE {Tail(fifo)}

Available == fifo # << >> /\ Head(fifo) # Stall

BulkIn(c, r, item) ==
  \/ r = "INVALID_STATE" /\ item = Nothing /\ NotSubmitted("in")
  \/ /\ r = "OK" /\ Submitted("in") /\ Available
     /\ item = Head(fifo) /\ fifo' \in Left(c)
     /\ UNCHANGED <<halted, takes, faultVars>>
  \/ /\ r = "STALL" /\ item = Nothing /\ Submitted("in") /\ fifo # << >> /\ Head(fifo) = Stall
     /\ halted' = halted \cup {"in"}
     /\ UNCHANGED <<driveVars, faultVars>>
  \/ /\ r = "INTERNAL" /\ item = Nothing /\ Submitted("in") /\ fifo = << >>
     /\ UNCHANGED <<halted, driveVars, faultVars>>
  \/ /\ r = "INTERNAL" /\ item = Nothing /\ Submitted("in") /\ Fault("timeout")
     /\ fifo' \in {fifo} \cup (IF Available THEN Left(c) ELSE {})
     /\ UNCHANGED <<halted, takes>>
  \/ /\ r = "INTERNAL" /\ item = Nothing /\ Submitted("in") /\ Fault("xfer_error")
     /\ halted' = halted \cup {"in"} /\ UNCHANGED driveVars

ItemsIn == {Nothing} \cup {fifo[i] : i \in DOMAIN fifo}

\* clear_feature: the pipe is halted, flushed and cleared, then the drive told.
\* The comments there say that a pipe without a stall cannot be flushed.
clear_feature(ep, r) ==
  \/ /\ r = "OK"
     /\ halted' = halted \ {ep}
     /\ fifo' = IF ep = "in" /\ fifo # << >> /\ Head(fifo) = Stall THEN Tail(fifo) ELSE fifo
     /\ UNCHANGED <<takes, faultVars>>
  \/ /\ r = "INTERNAL" /\ Fault("control")
     /\ halted' = halted \ {ep} /\ UNCHANGED driveVars
  \/ /\ r = "INVALID_STATE" /\ ep \notin halted
     /\ UNCHANGED <<halted, driveVars, faultVars>>

\* msc_mass_reset: the drive drops the command and keeps its stalls.
msc_mass_reset(r) ==
  \/ /\ r = "OK" /\ takes' = AwaitCbw
     /\ fifo' = IF fifo # << >> /\ Head(fifo) = Stall THEN <<Stall>> ELSE << >>
     /\ UNCHANGED <<halted, faultVars>>
  \/ /\ r = "INTERNAL" /\ Fault("control") /\ UNCHANGED <<halted, driveVars>>

-----------------------------------------------------------------------------
(* Calls.                                                                   *)

NextTag == (cbw_tag + 1) % TagMod

Goto(pc) == stack' = <<[Top EXCEPT !.pc = pc]>> \o Tail(stack) /\ UNCHANGED <<ret, cbw_tag>>

\* Call a command; the caller, if any, resumes at pc.
Push(fn, caller) ==
  /\ cbw_tag' = NextTag
  /\ stack' = <<Call(fn, NextTag, "cbw")>> \o caller
  /\ ret' = ret

\* Call msc_host_reset_recovery.
Recover(caller) ==
  /\ stack' = <<[Call("recovery", 0, "reset") EXCEPT !.trials = MaxTrials]>> \o caller
  /\ UNCHANGED <<ret, cbw_tag>>

Pop(r) == stack' = Tail(stack) /\ ret' = r /\ UNCHANGED cbw_tag

\* bot_execute_command returns e: a failed command asks for the sense data.
BotReturn(e) ==
  IF e = "OK" \/ Top.fn = "sense" THEN Pop(e)
  ELSE Push("sense", <<[Top EXCEPT !.pc = "sensed", !.err = e]>> \o Tail(stack))

\* Stages 1 to 3 of bot_execute_command.
CommandTransport ==
  /\ Running("cbw")
  /\ \E r \in Codes :
       /\ BulkOut(Top, "cbw", r)
       /\ IF r # "OK" THEN BotReturn(r)
          ELSE Goto(IF HasDataIn(Top) \/ HasDataOut(Top) THEN "data" ELSE "csw")

DataOutTransport ==
  /\ Running("data") /\ HasDataOut(Top)
  /\ \E r \in Codes :
       /\ BulkOut(Top, "data", r)
       /\ IF r = "OK" THEN Goto("csw") ELSE BotReturn(r)

DataInTransport ==
  /\ Running("data") /\ HasDataIn(Top)
  /\ \E r \in Codes, item \in ItemsIn :
       /\ BulkIn(Top, r, item)
       /\ IF r # "OK" THEN BotReturn(r)
          ELSE /\ stack' = <<[Top EXCEPT !.pc = "csw", !.got = item]>> \o Tail(stack)
               /\ UNCHANGED <<ret, cbw_tag>>

\* Mutant: any CSW that reports success will do.
check_csw_untagged(item, t) ==
  IF item.kind = "csw" /\ item.ok THEN "OK" ELSE "FAIL"

\* Signature, tag, residue and status.
check_csw(item, t) ==
  IF item.kind = "csw" /\ item.tag = t /\ item.ok THEN "OK" ELSE "FAIL"

\* Mutant: a stall is an error like any other.
StatusTransport_uncleared ==
  /\ Running("csw")
  /\ \E r \in Codes, item \in ItemsIn :
       BulkIn(Top, r, item) /\ BotReturn(IF r = "OK" THEN check_csw(item, Top.tag) ELSE r)

StatusTransport ==
  /\ Running("csw")
  /\ \E r \in Codes, item \in ItemsIn :
       /\ BulkIn(Top, r, item)
       /\ IF r = "OK" THEN BotReturn(check_csw(item, Top.tag))
          ELSE IF r = "STALL" THEN Goto("clear") ELSE BotReturn(r)

\* 3.1: clear the stall and read the status once more ...
ClearStatusStall ==
  /\ Running("clear") /\ Top.fn # "recovery"
  /\ \E r \in Codes :
       /\ clear_feature("in", r)
       /\ IF r = "OK" THEN Goto("csw2") ELSE BotReturn(r)

\* Mutant: no recovery after the second failure.
StatusAgain_unrecovered ==
  /\ Running("csw2")
  /\ \E r \in Codes, item \in ItemsIn :
       BulkIn(Top, r, item) /\ BotReturn(IF r = "OK" THEN check_csw(item, Top.tag) ELSE r)

\* ... and if that fails too, recover; the command has failed either way.
StatusAgain ==
  /\ Running("csw2")
  /\ \E r \in Codes, item \in ItemsIn :
       /\ BulkIn(Top, r, item)
       /\ IF r = "OK" THEN BotReturn(check_csw(item, Top.tag))
          ELSE Recover(<<[Top EXCEPT !.pc = "recovered", !.err = r]>> \o Tail(stack))

Recovered ==
  /\ Running("recovered")
  /\ BotReturn(Top.err)
  /\ UNCHANGED <<halted, driveVars, faultVars>>

\* A scsi_cmd_ function returns its own error once it has the sense data.
Sensed ==
  /\ Running("sensed")
  /\ Pop(IF ret = "OK" THEN Top.err ELSE ret)
  /\ UNCHANGED <<halted, driveVars, faultVars>>

-----------------------------------------------------------------------------
(* msc_host_reset_recovery and msc_wait_for_ready_state.                    *)

RecoveryReset ==
  /\ Running("reset")
  /\ \E r \in Codes : msc_mass_reset(r) /\ IF r = "OK" THEN Goto("clear_in") ELSE Pop(r)

RecoveryClear ==
  \/ Running("clear_in") /\ (\E r \in Codes : clear_feature("in", r)) /\ Goto("clear_out")
  \/ Running("clear_out") /\ (\E r \in Codes : clear_feature("out", r)) /\ Goto("ready")

ReadyPoll ==
  /\ Running("ready")
  /\ Push("unit_ready", <<[Top EXCEPT !.pc = "polled"]>> \o Tail(stack))
  /\ UNCHANGED <<halted, driveVars, faultVars>>

\* Mutant: the outcome of TEST UNIT READY is ignored.
ReadyPolled_lenient ==
  /\ Running("polled")
  /\ Pop("OK")
  /\ UNCHANGED <<halted, driveVars, faultVars>>

ReadyPolled ==
  /\ Running("polled")
  /\ IF ret = "OK" THEN Pop("OK")
     ELSE Push("sense", <<[Top EXCEPT !.pc = "keyed", !.err = ret]>> \o Tail(stack))
  /\ UNCHANGED <<halted, driveVars, faultVars>>

PollAgain ==
  /\ stack' = <<[Top EXCEPT !.pc = "ready", !.trials = @ - 1]>> \o Tail(stack)
  /\ UNCHANGED <<ret, cbw_tag>>

\* Mutant: the trials are not counted down to an end.
ReadyKeyed_endless ==
  /\ Running("keyed")
  /\ \/ ret = "OK" /\ PollAgain
     \/ ret # "OK" /\ Pop(ret)
  /\ UNCHANGED <<halted, driveVars, faultVars>>

\* The sense key allows another trial, or not.
ReadyKeyed ==
  /\ Running("keyed")
  /\ \/ ret = "OK" /\ Top.trials > 0 /\ PollAgain
     \/ ret = "OK" /\ Top.trials = 0 /\ Pop(Top.err)
     \/ ret = "OK" /\ Pop("INTERNAL")
     \/ ret # "OK" /\ Pop(ret)
  /\ UNCHANGED <<halted, driveVars, faultVars>>

-----------------------------------------------------------------------------
\* The task issues its next command.
Issue(c) ==
  /\ stack = << >>
  /\ Push(c, << >>)
  /\ UNCHANGED <<halted, driveVars, faultVars>>

\* It may also recover the drive, as the error_recovery tests do.
IssueRecovery ==
  /\ Recovers /\ stack = << >>
  /\ Recover(<< >>)
  /\ UNCHANGED <<halted, driveVars, faultVars>>

BotStep ==
  \/ CommandTransport \/ DataOutTransport \/ DataInTransport
  \/ StatusTransport \/ ClearStatusStall \/ StatusAgain \/ Recovered \/ Sensed
  \/ RecoveryReset \/ RecoveryClear \/ ReadyPoll \/ ReadyPolled \/ ReadyKeyed

BotNext == BotStep \/ IssueRecovery \/ \E c \in Commands : Issue(c)

\* The task goes on: every transfer ends (it has a timeout), every command is
\* followed by another one.
BotSpec == BotInit /\ [][BotNext]_vars /\ WF_vars(BotNext)

-----------------------------------------------------------------------------
(* Properties.                                                              *)

Items == [kind : {"data", "csw", "stall", "none"}, tag : Tags, ok : BOOLEAN]
Callers == {"sensed", "recovered", "polled", "keyed"}

\* Type invariant: only the innermost call is at work, the others wait for it.
BotTypeOK ==
  /\ \A i \in DOMAIN stack :
       /\ stack[i].fn \in Commands \cup {"sense", "recovery"}
       /\ stack[i].tag \in Tags /\ stack[i].err \in Codes /\ stack[i].got \in Items
       /\ stack[i].trials \in 0..MaxTrials
       /\ i > 1 => stack[i].pc \in Callers
  /\ ret \in Codes /\ cbw_tag \in Tags
  /\ halted \subseteq {"in", "out"}
  /\ \A i \in DOMAIN fifo : fifo[i] \in Items
  /\ takes.what \in {"cbw", "data"} /\ takes.tag \in Tags
  /\ faults \in 0..MaxFaults /\ seen \subseteq FaultKinds

\* The outermost command has just returned ESP_OK.
ReturnsOk == Len(stack) = 1 /\ stack' = << >> /\ ret' = "OK"

\* ESP_OK is the command's own: its data phase brought in the data of this very
\* command, although anything an earlier one left behind may come first, and the
\* drive is in step again for the next (check_csw pairing tag and CSW).
OkIsOwn ==
  [][ReturnsOk => /\ Top.fn = "read10" => Top.got.kind = "data" /\ Top.got.tag = Top.tag
                  /\ takes' = AwaitCbw /\ fifo' = << >> /\ halted' = {}]_vars

\* A recovery that returns ESP_OK, "The device was recovered from reset" in
\* msc_host.h, has: no pipe is halted, nothing is left of what went before, and the
\* drive takes a CBW, although msc_host_reset_recovery ignores both clear_feature.
RecoveryRestores ==
  [][stack # << >> /\ Top.fn = "recovery" /\ stack' = Tail(stack) /\ ret' = "OK" =>
       halted' = {} /\ fifo' = << >> /\ takes' = AwaitCbw]_vars

StatusFaults == {"status_stall", "csw_failed"}

\* A stalled or failed status phase leaves nothing behind: once the command has
\* returned, pipes and drive are ready for the next one, whether the second try
\* or the reset recovery did it, and whatever failed within the recovery.
StatusFaultsLeaveSync ==
  stack = << >> /\ seen \subseteq StatusFaults =>
    halted = {} /\ fifo = << >> /\ takes = AwaitCbw

\* The drive's errors do not persist: commands succeed again and again once the
\* drive behaves, as README says of "persistent USB errors".
CommandsSucceedAgain == []<>(stack = << >> /\ ret = "OK")

\* So it is when nothing but the status phase fails.
StatusFaultsPass == [](seen \subseteq StatusFaults) => CommandsSucceedAgain
=============================================================================
