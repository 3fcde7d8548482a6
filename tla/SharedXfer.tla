----------------------------- MODULE SharedXfer -----------------------------
(***************************************************************************)
(* Two tasks of the firmware with a command to the same drive at the same  *)
(* time: main reads the capacity of the drive it has just opened, and has  *)
(* already published its handle, while the SPI task executes a request of  *)
(* the master on the other core (bot_execute_command of                    *)
(* usb_host_msc/src/msc_scsi_bot.c over msc_bulk_transfer of               *)
(* usb_host_msc/src/msc_host.c). Nothing keeps them apart: they share the  *)
(* counter cbw_tag, and the transfer and the semaphore of the device.      *)
(*                                                                         *)
(* The drive (external) is faultless: it takes a CBW when it owes nothing, *)
(* and answers with the data and the CSW of that command. Commands have a  *)
(* data IN phase; data and CBW are known by the task they belong to.       *)
(***************************************************************************)
EXTENDS Naturals, Sequences

CONSTANTS
  Tasks,    \* the tasks, one command each
  TagMod    \* modulus of cbw_tag (2^32)

VARIABLES
  cbw_tag,       \* the static counter
  xfer,          \* device->xfer: endpoint and buffer
  in_flight,     \* the library has the transfer
  transfer_done, \* the semaphore
  fifo,          \* drive: what it has to send
  pc, phase,     \* of each task: where in a transfer, and which one
  tag,           \* of each task: the tag of its command
  data, csw,     \* of each task: its buffers
  result         \* of each task: what its command returned

sharedVars == <<xfer, in_flight, transfer_done, fifo>>
taskVars == <<pc, phase, tag, data, csw, result>>
xvars == <<cbw_tag, sharedVars, taskVars>>

Item(kind, owner, t) == [kind |-> kind, owner |-> owner, tag |-> t]
Nothing == Item("none", "nobody", 0)
EpOf(ph) == IF ph = "cbw" THEN "out" ELSE "in"

SharedInit ==
  /\ cbw_tag = 0
  /\ xfer = [ep |-> "in", buffer |-> Nothing] /\ in_flight = FALSE /\ transfer_done = FALSE
  /\ fifo = << >>
  /\ pc = [t \in Tasks |-> "tag"] /\ phase = [t \in Tasks |-> "cbw"]
  /\ tag = [t \in Tasks |-> 0]
  /\ data = [t \in Tasks |-> Nothing] /\ csw = [t \in Tasks |-> Nothing]
  /\ result = [t \in Tasks |-> "none"]

Goto(t, l) == pc' = [pc EXCEPT ![t] = l]
Return(t, r) == Goto(t, "done") /\ result' = [result EXCEPT ![t] = r]

\* ++cbw_tag of CBW_BASE_INIT: the load, then the store.
LoadTag(t) ==
  /\ pc[t] = "tag"
  /\ tag' = [tag EXCEPT ![t] = (cbw_tag + 1) % TagMod]
  /\ Goto(t, "store")
  /\ UNCHANGED <<cbw_tag, sharedVars, phase, data, csw, result>>

StoreTag(t) ==
  /\ pc[t] = "store"
  /\ cbw_tag' = tag[t]
  /\ Goto(t, "fill")
  /\ UNCHANGED <<sharedVars, phase, tag, data, csw, result>>

\* msc_bulk_transfer fills the transfer in, for OUT with the CBW ...
Fill(t) ==
  /\ pc[t] = "fill"
  /\ xfer' = [ep |-> EpOf(phase[t]),
              buffer |-> IF phase[t] = "cbw" THEN Item("cbw", t, tag[t]) ELSE xfer.buffer]
  /\ Goto(t, "submit")
  /\ UNCHANGED <<cbw_tag, in_flight, transfer_done, fifo, phase, tag, data, csw, result>>

\* ... and submits it, which the library refuses while it has it.
Submit(t) ==
  /\ pc[t] = "submit"
  /\ IF in_flight THEN Return(t, "NOT_FINISHED") /\ UNCHANGED in_flight
     ELSE Goto(t, "wait") /\ in_flight' = TRUE /\ UNCHANGED result
  /\ UNCHANGED <<cbw_tag, xfer, transfer_done, fifo, phase, tag, data, csw>>

\* The transfer completes and transfer_callback gives the semaphore.
Complete ==
  /\ in_flight /\ in_flight' = FALSE /\ transfer_done' = TRUE
  /\ \/ /\ xfer.ep = "out" /\ fifo = << >> /\ xfer.buffer.kind = "cbw"
        /\ fifo' = <<Item("data", xfer.buffer.owner, 0), Item("csw", "nobody", xfer.buffer.tag)>>
        /\ UNCHANGED xfer
     \/ /\ xfer.ep = "in" /\ fifo # << >>
        /\ xfer' = [xfer EXCEPT !.buffer = Head(fifo)] /\ fifo' = Tail(fifo)
  /\ UNCHANGED <<cbw_tag, taskVars>>

check_csw(c, t) == c.kind = "csw" /\ c.tag = t

\* wait_for_transfer_done: one of the waiting tasks gets the semaphore, and with
\* it whatever is in the buffer; then the next phase.
Wake(t) ==
  /\ pc[t] = "wait" /\ transfer_done /\ transfer_done' = FALSE
  /\ CASE phase[t] = "cbw" -> /\ phase' = [phase EXCEPT ![t] = "data"]
                              /\ Goto(t, "fill") /\ UNCHANGED <<data, csw, result>>
       [] phase[t] = "data" -> /\ phase' = [phase EXCEPT ![t] = "csw"]
                               /\ data' = [data EXCEPT ![t] = xfer.buffer]
                               /\ Goto(t, "fill") /\ UNCHANGED <<csw, result>>
       [] phase[t] = "csw" -> /\ csw' = [csw EXCEPT ![t] = xfer.buffer]
                              /\ Return(t, IF check_csw(xfer.buffer, tag[t]) THEN "OK" ELSE "FAIL")
                              /\ UNCHANGED <<phase, data>>
  /\ UNCHANGED <<cbw_tag, xfer, in_flight, fifo, tag>>

\* After 5 s the endpoint is flushed, which completes the transfer if the library
\* has one; if not, the second wait has no end.
TimeOut(t) ==
  /\ pc[t] = "wait" /\ ~transfer_done
  /\ IF in_flight THEN in_flight' = FALSE /\ Return(t, "INTERNAL")
     ELSE Goto(t, "stuck") /\ UNCHANGED <<in_flight, result>>
  /\ UNCHANGED <<cbw_tag, xfer, transfer_done, fifo, phase, tag, data, csw>>

SharedNext ==
  \/ Complete
  \/ \E t \in Tasks : LoadTag(t) \/ StoreTag(t) \/ Fill(t) \/ Submit(t) \/ Wake(t) \/ TimeOut(t)

SharedSpec == SharedInit /\ [][SharedNext]_xvars

\* msc_scsi_bot.c says of cbw_tag that it is a "Unique number based on which MSC
\* protocol pairs request and response": a command that returns ESP_OK has got
\* the data of its own request.
OkIsPaired == \A t \in Tasks : result[t] = "OK" => data[t] = Item("data", t, 0)
=============================================================================
