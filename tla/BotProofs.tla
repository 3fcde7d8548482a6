----------------------------- MODULE BotProofs -----------------------------
(***************************************************************************)
(* Proofs about BotTransport.                                              *)
(*                                                                         *)
(* Two invariants go beyond the types. InStep says, for every point of     *)
(* every call, what is on the drive's IN endpoint and which pipes are      *)
(* halted as long as only the status phase has failed. TagInv says how     *)
(* what is on the IN endpoint relates to the tag of the command under way, *)
(* whatever has failed, as long as cbw_tag has not wrapped around.         *)
(***************************************************************************)
EXTENDS BotTransport, SequenceTheorems, TLAPS

CommandPcs == {"cbw", "data", "csw", "clear", "csw2", "sensed", "recovered"}
RecoveryPcs == {"reset", "clear_in", "clear_out", "ready", "polled", "keyed"}

\* A call that has failed already and will not return ESP_OK any more.
Failed == {"sensed", "recovered", "keyed"}

Records == [fn : Commands \cup {"sense", "recovery"}, tag : Tags, pc : CommandPcs \cup RecoveryPcs,
            err : Codes, got : Items, trials : 0..MaxTrials]

Frames == {f \in Records : /\ f.fn = "recovery" <=> f.pc \in RecoveryPcs
                           /\ f.pc \in Failed => f.err # "OK"}
Waiting == {f \in Frames : f.pc \in Callers}

StackOK == stack \in Seq(Frames) /\ (stack # << >> => Tail(stack) \in Seq(Waiting))

HostTyped == StackOK /\ ret \in Codes /\ cbw_tag \in Tags

DriveTyped ==
  /\ halted \subseteq {"in", "out"}
  /\ fifo \in Seq(Items)
  /\ takes \in {AwaitCbw} \cup [what : {"data"}, tag : Tags]
  /\ faults \in 0..MaxFaults /\ seen \subseteq FaultKinds

BotInv == HostTyped /\ DriveTyped

-----------------------------------------------------------------------------
\* Pipes and drive are ready for a command.
Synced == halted = {} /\ fifo = << >> /\ takes = AwaitCbw

\* Data of the command with tag t.
DataOf(t) == Item("data", t, TRUE)

\* From position k on there are at most n stalls, and the CSW after them.
StatusFrom(k, n) ==
  /\ Len(fifo) \in k..(k + n)
  /\ fifo[Len(fifo)].kind = "csw"
  /\ \A i \in k..(Len(fifo) - 1) : fifo[i] = Stall

\* What call c finds when nothing but the status phase has failed.
InPhase(c) ==
  /\ c.pc \in Callers \cup {"cbw", "clear_out", "ready"} => Synced
  /\ c.pc = "data" /\ HasDataOut(c) =>
       halted = {} /\ fifo = << >> /\ takes = [what |-> "data", tag |-> c.tag]
  /\ c.pc = "data" /\ HasDataIn(c) =>
       /\ halted = {} /\ takes = AwaitCbw
       /\ StatusFrom(2, 2) /\ fifo[1] = DataOf(c.tag)
  /\ c.pc = "csw" => halted = {} /\ takes = AwaitCbw /\ StatusFrom(1, 2)
  /\ c.pc = "clear" => halted = {"in"} /\ takes = AwaitCbw /\ StatusFrom(1, 2) /\ Len(fifo) > 1
  /\ c.pc = "csw2" => halted = {} /\ takes = AwaitCbw /\ StatusFrom(1, 1)
  /\ c.pc = "reset" =>
       \/ Synced
       \/ halted = {"in"} /\ takes = AwaitCbw /\ fifo # << >> /\ Head(fifo) = Stall
  /\ c.pc = "clear_in" =>
       \/ Synced
       \/ halted = {"in"} /\ takes = AwaitCbw /\ fifo = <<Stall>>

InStep == seen \subseteq StatusFaults => IF stack = << >> THEN Synced ELSE InPhase(Top)

-----------------------------------------------------------------------------
Working == {"cbw", "data", "csw", "clear", "csw2"}

\* Position i holds data, or the CSW, of the command with tag t.
OwnData(t, i) == fifo[i].kind = "data" /\ fifo[i].tag = t
OwnCsw(t, i) == fifo[i].kind = "csw" /\ fifo[i].tag = t

\* No tag there is above t, that of the last command; a CSW of that command is the
\* last item, and the drive has taken all of the command.
TagsUpTo(t) ==
  /\ \A i \in DOMAIN fifo : fifo[i].tag <= t
  /\ takes.tag <= t
  /\ \A i \in DOMAIN fifo : OwnCsw(t, i) => i = Len(fifo) /\ takes = AwaitCbw

\* A command that has not been sent has left no trace yet.
Unsent(t) ==
  /\ \A i \in DOMAIN fifo : ~OwnData(t, i) /\ ~OwnCsw(t, i)
  /\ takes.what = "data" => takes.tag # t

\* A CSW that reports success for the command with tag t comes with its data.
DataThere(t) ==
  (\E i \in DOMAIN fifo : OwnCsw(t, i) /\ fifo[i].ok) => \E i \in DOMAIN fifo : OwnData(t, i)

\* The data of a read come before its CSW: they are there or have been received.
DataFirst(c) ==
  DataThere(c.tag) \/ (c.pc # "data" /\ c.got.kind = "data" /\ c.got.tag = c.tag)

OwnTrace(c) ==
  /\ c.pc \in Working => c.tag = cbw_tag
  /\ c.pc = "cbw" => Unsent(c.tag)
  /\ c.pc \in Working \ {"cbw"} => "out" \notin halted
  /\ c.pc \in Working \ {"cbw"} /\ c.fn = "read10" => DataFirst(c)
  /\ c.pc = "polled" /\ ret = "OK" => Synced

TagInv == TagsUpTo(cbw_tag) /\ (stack # << >> => OwnTrace(Top))

\* The steps of a task whose tags have not been used up yet.
UnwrappedNext == BotNext /\ cbw_tag + 1 < TagMod
UnwrappedSpec == BotInit /\ [][UnwrappedNext]_vars

-----------------------------------------------------------------------------
(* Calls.                                                                   *)

\* The innermost call returns e.
Returns(e) ==
  /\ stack # << >> /\ stack' = Tail(stack) /\ (stack' # << >> => Top' \in Waiting)
  /\ ret' = e /\ cbw_tag' = cbw_tag

\* A command is called.
Starts(fn) ==
  /\ stack' # << >> /\ Top' = Call(fn, NextTag, "cbw") /\ Len(stack') > Len(stack)
  /\ cbw_tag' = NextTag /\ ret' = ret

\* The call at the top becomes f.
Becomes(f) ==
  /\ stack' # << >> /\ Top' = f /\ Len(stack') = Len(stack)
  /\ cbw_tag' = cbw_tag /\ ret' = ret

\* The recovery is called.
Enters ==
  /\ stack' # << >> /\ Top' \in Frames /\ Top'.pc = "reset" /\ Len(stack') > Len(stack)
  /\ cbw_tag' = cbw_tag /\ ret' = ret

\* Tags are numbers below TagMod, zero among them, and NextTag is one.
LEMMA TagFacts ==
  ASSUME cbw_tag \in Tags
  PROVE  /\ NextTag \in Tags /\ 0 \in Tags /\ Tags \subseteq Nat
         /\ cbw_tag + 1 < TagMod => NextTag = cbw_tag + 1
<1>1. TagMod \in Nat /\ TagMod # 0
  BY BotConstants
<1> QED BY <1>1 DEF NextTag, Tags

\* Items are made of a kind, a tag and a flag.
LEMMA ItemFacts ==
  /\ Nothing \in Items /\ Stall \in Items
  /\ \A k \in {"data", "csw"}, t \in Tags, b \in BOOLEAN : Item(k, t, b) \in Items
<1>1. 0 \in Tags
  BY BotConstants DEF Tags
<1> QED BY <1>1 DEF Items, Item, Nothing, Stall

\* A call of a command is a frame.
LEMMA CallIsFrame ==
  ASSUME NEW fn \in Commands \cup {"sense"}, NEW t \in Tags
  PROVE  Call(fn, t, "cbw") \in Frames
<1>1. MaxTrials \in Nat
  BY BotConstants
<1>2. Call(fn, t, "cbw") \in Records
  BY <1>1, ItemFacts DEF Call, Records, CommandPcs, Codes
<1> QED BY <1>2 DEF Call, Frames, RecoveryPcs, Failed, Commands

\* So is a call of the recovery.
LEMMA RecoveryIsFrame == [Call("recovery", 0, "reset") EXCEPT !.trials = MaxTrials] \in Frames
<1>1. MaxTrials \in Nat /\ 0 \in Tags
  BY BotConstants DEF Tags
<1>2. [Call("recovery", 0, "reset") EXCEPT !.trials = MaxTrials] \in Records
  BY <1>1, ItemFacts DEF Call, Records, RecoveryPcs, Codes
<1> QED BY <1>2 DEF Call, Frames, RecoveryPcs, Failed

\* A frame moved to another point of the same function is a frame ...
LEMMA FrameGoto ==
  ASSUME NEW f \in Frames, NEW p \in CommandPcs \cup RecoveryPcs,
         p \notin Failed, p \in RecoveryPcs <=> f.pc \in RecoveryPcs
  PROVE  [f EXCEPT !.pc = p] \in Frames
<1>1. f \in Records
  BY DEF Frames
<1>2. [f EXCEPT !.pc = p] \in Records
  BY <1>1 DEF Records
<1> QED BY <1>1, <1>2 DEF Records, Frames

\* ... and so it is with an error at a point where that has happened.
LEMMA FrameFails ==
  ASSUME NEW f \in Frames, NEW p \in Failed, NEW e \in Codes \ {"OK"},
         p \in RecoveryPcs <=> f.pc \in RecoveryPcs
  PROVE  [f EXCEPT !.pc = p, !.err = e] \in Waiting
<1>1. f \in Records /\ p \in CommandPcs \cup RecoveryPcs /\ p \in Callers
  BY DEF Frames, Failed, CommandPcs, RecoveryPcs, Callers
<1>2. [f EXCEPT !.pc = p, !.err = e] \in Records
  BY <1>1 DEF Records
<1> QED BY <1>1, <1>2 DEF Records, Frames, Waiting

\* The calls under the innermost one all wait.
LEMMA TailWaits ==
  ASSUME StackOK, stack # << >>
  PROVE  /\ Tail(stack) \in Seq(Waiting) /\ Tail(stack) \in Seq(Frames)
         /\ Len(stack) \in Nat /\ Len(Tail(stack)) = Len(stack) - 1
<1>1. stack \in Seq(Frames) /\ Tail(stack) \in Seq(Waiting)
  BY DEF StackOK
<1> QED BY <1>1

\* The stack after the innermost call has moved on.
LEMMA StackBecomes ==
  ASSUME StackOK, stack # << >>, NEW f \in Frames, stack' = <<f>> \o Tail(stack)
  PROVE  StackOK' /\ stack' # << >> /\ Top' = f /\ Len(stack') = Len(stack)
<1>1. PICK t \in Seq(Frames) : t = Tail(stack) /\ Len(t) = Len(stack) - 1 /\ t \in Seq(Waiting)
  BY TailWaits
<1>2. stack' \in Seq(Frames) /\ stack' # << >> /\ Head(stack') = f /\ Tail(stack') = t
      /\ Len(stack') = Len(t) + 1
  BY <1>1
<1>3. Len(stack') = Len(stack)
  BY <1>1, <1>2, TailWaits
<1>4. StackOK'
  BY <1>1, <1>2 DEF StackOK
<1> QED BY <1>2, <1>3, <1>4 DEF Top

\* The stack after a call, with those that wait for it.
LEMMA StackCalls ==
  ASSUME NEW w \in Seq(Waiting), NEW f \in Frames, stack' = <<f>> \o w
  PROVE  StackOK' /\ stack' # << >> /\ Top' = f /\ Len(stack') = Len(w) + 1
<1>1. Waiting \subseteq Frames
  BY DEF Waiting
<1>2. w \in Seq(Frames)
  BY <1>1
<1>3. stack' \in Seq(Frames) /\ stack' # << >> /\ Head(stack') = f /\ Tail(stack') = w
      /\ Len(stack') = Len(w) + 1
  BY <1>2
<1> QED BY <1>3 DEF StackOK, Top

\* Those that wait after the innermost call has called.
LEMMA StackSuspends ==
  ASSUME StackOK, stack # << >>, NEW f \in Waiting
  PROVE  <<f>> \o Tail(stack) \in Seq(Waiting) /\ Len(<<f>> \o Tail(stack)) = Len(stack)
<1>1. PICK t \in Seq(Waiting) : t = Tail(stack) /\ Len(t) = Len(stack) - 1
  BY TailWaits
<1>2. <<f>> \o t \in Seq(Waiting) /\ Len(<<f>> \o t) = Len(t) + 1
  OBVIOUS
<1>3. Len(stack) \in Nat
  BY DEF StackOK
<1> QED BY <1>1, <1>2, <1>3

\* The stack after a return.
LEMMA StackReturns ==
  ASSUME StackOK, stack # << >>, stack' = Tail(stack)
  PROVE  StackOK' /\ Len(stack') < Len(stack) /\ (stack' # << >> => Top' \in Waiting)
<1>1. PICK t \in Seq(Waiting) : t = Tail(stack) /\ Len(t) = Len(stack) - 1
  BY TailWaits
<1>2. t \in Seq(Frames)
  BY <1>1 DEF Waiting
<1>3. t # << >> => Head(t) \in Waiting /\ Tail(t) \in Seq(Waiting)
  OBVIOUS
<1>4. Len(stack) \in Nat
  BY DEF StackOK
<1> QED BY <1>1, <1>2, <1>3, <1>4 DEF StackOK, Top

\* The call at the top is a frame.
LEMMA TopIsFrame ==
  ASSUME HostTyped, stack # << >>
  PROVE  Top \in Frames /\ Top \in Records
BY DEF HostTyped, StackOK, Top, Frames

\* Goto.
LEMMA GotoBecomes ==
  ASSUME HostTyped, stack # << >>, NEW p \in CommandPcs \cup RecoveryPcs,
         p \notin Failed, p \in RecoveryPcs <=> Top.pc \in RecoveryPcs, Goto(p)
  PROVE  HostTyped' /\ Becomes([Top EXCEPT !.pc = p])
<1>1. [Top EXCEPT !.pc = p] \in Frames
  BY TopIsFrame, FrameGoto
<1>2. stack' = <<[Top EXCEPT !.pc = p]>> \o Tail(stack) /\ UNCHANGED <<ret, cbw_tag>>
  BY DEF Goto
<1> QED BY <1>1, <1>2, StackBecomes DEF HostTyped, Becomes

\* Push, by a call that waits at the point it resumes.
LEMMA PushStarts ==
  ASSUME HostTyped, stack # << >>, NEW fn \in Commands \cup {"sense"}, NEW f \in Waiting,
         Push(fn, <<f>> \o Tail(stack))
  PROVE  HostTyped' /\ Starts(fn)
<1>1. PICK w \in Seq(Waiting) : w = <<f>> \o Tail(stack) /\ Len(w) = Len(stack)
  BY StackSuspends DEF HostTyped
<1>2. cbw_tag' = NextTag /\ ret' = ret /\ stack' = <<Call(fn, NextTag, "cbw")>> \o w
  BY <1>1 DEF Push
<1>3. NextTag \in Tags /\ Call(fn, NextTag, "cbw") \in Frames
  BY TagFacts, CallIsFrame DEF HostTyped
<1>4. StackOK' /\ stack' # << >> /\ Top' = Call(fn, NextTag, "cbw") /\ Len(stack') = Len(w) + 1
  BY <1>2, <1>3, StackCalls
<1>5. Len(w) \in Nat
  OBVIOUS
<1> QED BY <1>1, <1>2, <1>3, <1>4, <1>5 DEF HostTyped, Starts

\* Pop.
LEMMA PopReturns ==
  ASSUME HostTyped, stack # << >>, NEW e \in Codes, Pop(e)
  PROVE  HostTyped' /\ Returns(e)
BY StackReturns DEF HostTyped, Returns, Pop

\* BotReturn: the command returns, or has failed and asks for the sense data.
LEMMA BotReturnMoves ==
  ASSUME HostTyped, stack # << >>, Top.pc \notin RecoveryPcs, NEW e \in Codes, BotReturn(e)
  PROVE  HostTyped' /\ (Returns(e) \/ (e # "OK" /\ Starts("sense")))
<1>1. CASE e = "OK" \/ Top.fn = "sense"
  BY <1>1, PopReturns DEF BotReturn
<1>2. CASE ~(e = "OK" \/ Top.fn = "sense")
  <2>1. Push("sense", <<[Top EXCEPT !.pc = "sensed", !.err = e]>> \o Tail(stack))
    BY <1>2 DEF BotReturn
  <2>2. [Top EXCEPT !.pc = "sensed", !.err = e] \in Waiting
    BY <1>2, TopIsFrame, FrameFails DEF Failed, RecoveryPcs
  <2> QED BY <1>2, <2>1, <2>2, PushStarts
<1> QED BY <1>1, <1>2

-----------------------------------------------------------------------------
(* The drive's answers.                                                     *)

\* An answer to command c ends with its CSW. What comes before is data of c or a
\* stall, and with a CSW that reports success it begins with the data, if any.
Answer(c, s) ==
  /\ s \in Seq(Items) /\ Len(s) >= 1
  /\ s[Len(s)].kind = "csw" /\ s[Len(s)].tag = c.tag
  /\ \A i \in 1..(Len(s) - 1) : s[i] = Stall \/ s[i] = DataOf(c.tag)
  /\ HasDataIn(c) /\ s[Len(s)].ok => Len(s) > 1 /\ s[1] = DataOf(c.tag)

\* In an answer whose data phase is as it should be, only stalls come between.
CleanAnswer(c, s) ==
  /\ HasDataIn(c) =>
       Len(s) \in 2..4 /\ s[1] = DataOf(c.tag) /\ \A i \in 2..(Len(s) - 1) : s[i] = Stall
  /\ ~HasDataIn(c) => Len(s) \in 1..3 /\ \A i \in 1..(Len(s) - 1) : s[i] = Stall

\* What happens to the faults: they grow, and stay typed.
FaultsGrow == faults' \in 0..MaxFaults /\ seen' \subseteq FaultKinds /\ seen \subseteq seen'

\* Sequences of items put together from short ones.
LEMMA JoinTwo ==
  ASSUME NEW a \in Items, NEW w \in Items
  PROVE  \E s \in Seq(Items) : s = <<a>> \o <<w>> /\ Len(s) = 2 /\ s[1] = a /\ s[2] = w
<1>1. LET s == <<a>> \o <<w>> IN s \in Seq(Items) /\ Len(s) = 2 /\ s[1] = a /\ s[2] = w
  OBVIOUS
<1> QED BY <1>1

\* One more item at the end.
LEMMA JoinLast ==
  ASSUME NEW t \in Seq(Items), NEW w \in Items
  PROVE  \E s \in Seq(Items) : /\ s = t \o <<w>> /\ Len(s) = Len(t) + 1 /\ s[Len(t) + 1] = w
                               /\ \A i \in 1..Len(t) : s[i] = t[i]
<1>1. LET s == t \o <<w>>
      IN  /\ s \in Seq(Items) /\ Len(s) = Len(t) + 1 /\ s[Len(t) + 1] = w
          /\ \A i \in 1..Len(t) : s[i] = t[i]
  OBVIOUS
<1> QED BY <1>1

\* Two stalls and one more.
LEMMA JoinPair ==
  ASSUME NEW z \in Items, NEW w \in Items
  PROVE  \E s \in Seq(Items) : /\ s = <<z, z>> \o <<w>> /\ Len(s) = 3
                               /\ s[1] = z /\ s[2] = z /\ s[3] = w
<1>1. LET s == <<z, z>> \o <<w>>
      IN  s \in Seq(Items) /\ Len(s) = 3 /\ s[1] = z /\ s[2] = z /\ s[3] = w
  OBVIOUS
<1> QED BY <1>1

\* One item, two stalls and one more.
LEMMA JoinFour ==
  ASSUME NEW a \in Items, NEW z \in Items, NEW w \in Items
  PROVE  \E s \in Seq(Items) : /\ s = <<a>> \o <<z, z>> \o <<w>> /\ Len(s) = 4
                               /\ s[1] = a /\ s[2] = z /\ s[3] = z /\ s[4] = w
<1>1. LET s == <<a>> \o <<z, z>> \o <<w>>
      IN  s \in Seq(Items) /\ Len(s) = 4 /\ s[1] = a /\ s[2] = z /\ s[3] = z /\ s[4] = w
  OBVIOUS
<1> QED BY <1>1

\* The three answers with the data phase as it should be.
LEMMA CleanShapes ==
  ASSUME NEW c, c.tag \in Tags, NEW ok \in BOOLEAN
  PROVE  /\ Answer(c, DataItem(c) \o CswItem(c, ok))
         /\ CleanAnswer(c, DataItem(c) \o CswItem(c, ok))
         /\ Answer(c, DataItem(c) \o <<Stall>> \o CswItem(c, ok))
         /\ CleanAnswer(c, DataItem(c) \o <<Stall>> \o CswItem(c, ok))
         /\ Answer(c, DataItem(c) \o <<Stall, Stall>> \o CswItem(c, ok))
         /\ CleanAnswer(c, DataItem(c) \o <<Stall, Stall>> \o CswItem(c, ok))
<1>1. PICK w \in Items : w = Item("csw", c.tag, ok) /\ w.kind = "csw" /\ w.tag = c.tag
  BY ItemFacts DEF Item
<1>2. PICK d \in Items : d = DataOf(c.tag)
  BY ItemFacts DEF DataOf
<1>3. PICK z \in Items : z = Stall
  BY ItemFacts
<1>4. CswItem(c, ok) = <<w>>
  BY <1>1 DEF CswItem
<1>5. CASE HasDataIn(c)
  <2>1. DataItem(c) = <<d>>
    BY <1>2, <1>5 DEF DataItem, DataOf
  <2>2. Answer(c, <<d>> \o <<w>>) /\ CleanAnswer(c, <<d>> \o <<w>>)
    <3>1. PICK s \in Seq(Items) : s = <<d>> \o <<w>> /\ Len(s) = 2 /\ s[1] = d /\ s[2] = w
      BY JoinTwo
    <3>2. Answer(c, s) /\ CleanAnswer(c, s)
      BY <1>1, <1>2, <1>3, <1>5, <3>1 DEF Answer, CleanAnswer
    <3> QED BY <3>1, <3>2
  <2>3. Answer(c, <<d>> \o <<z>> \o <<w>>) /\ CleanAnswer(c, <<d>> \o <<z>> \o <<w>>)
    <3>1. PICK t \in Seq(Items) : t = <<d>> \o <<z>> /\ Len(t) = 2 /\ t[1] = d /\ t[2] = z
      BY JoinTwo
    <3>2. PICK s \in Seq(Items) : /\ s = t \o <<w>> /\ Len(s) = Len(t) + 1 /\ s[Len(t) + 1] = w
                                 /\ \A i \in 1..Len(t) : s[i] = t[i]
      BY JoinLast
    <3>3. Len(t) = 2 /\ t[1] = d /\ t[2] = z
      BY <3>1, Zenon
    <3>4. Len(s) = 3 /\ s[1] = d /\ s[2] = z /\ s[3] = w
      BY <3>2, <3>3
    <3>5. Answer(c, s) /\ CleanAnswer(c, s)
      BY <1>1, <1>2, <1>3, <1>5, <3>4 DEF Answer, CleanAnswer
    <3> QED BY <3>1, <3>2, <3>5
  <2>4. Answer(c, <<d>> \o <<z, z>> \o <<w>>) /\ CleanAnswer(c, <<d>> \o <<z, z>> \o <<w>>)
    <3>1. PICK s \in Seq(Items) : s = <<d>> \o <<z, z>> \o <<w>> /\ Len(s) = 4 /\ s[1] = d /\ s[2] = z /\ s[3] = z /\ s[4] = w
      BY JoinFour
    <3>2. Answer(c, s) /\ CleanAnswer(c, s)
      BY <1>1, <1>2, <1>3, <1>5, <3>1 DEF Answer, CleanAnswer
    <3> QED BY <3>1, <3>2
  <2> QED BY <1>3, <1>4, <2>1, <2>2, <2>3, <2>4
<1>6. CASE ~HasDataIn(c)
  <2>1. DataItem(c) = << >>
    BY <1>6 DEF DataItem
  <2>2. << >> \o <<w>> = <<w>> /\ << >> \o <<z>> = <<z>> /\ << >> \o <<z, z>> = <<z, z>>
    OBVIOUS
  <2>3. Answer(c, <<w>>) /\ CleanAnswer(c, <<w>>)
    BY <1>1, <1>2, <1>3, <1>6 DEF Answer, CleanAnswer
  <2>4. Answer(c, <<z>> \o <<w>>) /\ CleanAnswer(c, <<z>> \o <<w>>)
    <3>1. PICK s \in Seq(Items) : s = <<z>> \o <<w>> /\ Len(s) = 2 /\ s[1] = z /\ s[2] = w
      BY JoinTwo
    <3>2. Answer(c, s) /\ CleanAnswer(c, s)
      BY <1>1, <1>2, <1>3, <1>6, <3>1 DEF Answer, CleanAnswer
    <3> QED BY <3>1, <3>2
  <2>5. Answer(c, <<z, z>> \o <<w>>) /\ CleanAnswer(c, <<z, z>> \o <<w>>)
    <3>1. PICK s \in Seq(Items) : s = <<z, z>> \o <<w>> /\ Len(s) = 3 /\ s[1] = z /\ s[2] = z /\ s[3] = w
      BY JoinPair
    <3>2. Answer(c, s) /\ CleanAnswer(c, s)
      BY <1>1, <1>2, <1>3, <1>6, <3>1 DEF Answer, CleanAnswer
    <3> QED BY <3>1, <3>2
  <2> QED BY <1>3, <1>4, <2>1, <2>2, <2>3, <2>4, <2>5
<1> QED BY <1>5, <1>6

\* The answer with a stall in place of the data.
LEMMA StalledShape ==
  ASSUME NEW c, c.tag \in Tags
  PROVE  Answer(c, <<Stall>> \o CswItem(c, FALSE))
<1>1. PICK w \in Items : w = Item("csw", c.tag, FALSE) /\ w.kind = "csw" /\ w.tag = c.tag /\ ~w.ok
  BY ItemFacts DEF Item
<1>2. PICK z \in Items : z = Stall
  BY ItemFacts
<1>3. PICK s \in Seq(Items) : s = <<z>> \o <<w>> /\ Len(s) = 2 /\ s[1] = z /\ s[2] = w
  BY JoinTwo
<1>4. Len(s) = 2 /\ s[1] = z /\ s[2] = w
  BY <1>3, Zenon
<1>5. ~s[Len(s)].ok
  BY <1>1, <1>4, Zenon
<1>6. Len(s) >= 1
  BY <1>4
<1>7. s[Len(s)].kind = "csw" /\ s[Len(s)].tag = c.tag
  BY <1>1, <1>4, Zenon
<1>8. \A i \in 1..(Len(s) - 1) : s[i] = Stall
  BY <1>2, <1>4
<1>9. Answer(c, s)
  BY <1>5, <1>6, <1>7, <1>8, Zenon DEF Answer
<1> QED BY <1>1, <1>2, <1>3, <1>9 DEF CswItem

\* A fault is counted, and is of its kind.
LEMMA FaultGrows ==
  ASSUME DriveTyped, NEW k \in AllFaults
  PROVE  /\ Fault(k) => FaultsGrow /\ k \in seen'
         /\ NoFault => FaultsGrow
<1>1. MaxFaults \in Nat
  BY BotConstants
<1> QED BY <1>1 DEF DriveTyped, Fault, NoFault, FaultsGrow, faultVars

\* What the drive answers.
LEMMA AnsweredItems ==
  ASSUME DriveTyped, NEW c, c.tag \in Tags, NEW clean \in BOOLEAN, NEW late \in BOOLEAN,
         Answered(c, clean, late)
  PROVE  /\ FaultsGrow
         /\ \E s \in Seq(Items) : /\ fifo' = fifo \o s /\ Answer(c, s)
                                  /\ seen' \subseteq StatusFaults => CleanAnswer(c, s)
<1> DEFINE Sent(s) == fifo' = fifo \o s /\ Answer(c, s)
                      /\ (seen' \subseteq StatusFaults => CleanAnswer(c, s))
<1>1. \A k \in AllFaults : (Fault(k) => FaultsGrow /\ k \in seen') /\ (NoFault => FaultsGrow)
  BY FaultGrows
<1>2. \A s : Answer(c, s) => s \in Seq(Items)
  BY DEF Answer
<1>3. CASE Sends(DataItem(c) \o CswItem(c, clean)) /\ IF late THEN Fault("timeout") ELSE NoFault
  <2>1. Sent(DataItem(c) \o CswItem(c, clean))
    BY <1>3, CleanShapes DEF Sends
  <2>2. FaultsGrow
    BY <1>1, <1>3 DEF AllFaults
  <2> QED BY <1>2, <2>1, <2>2
<1>4. CASE Sends(DataItem(c) \o CswItem(c, FALSE)) /\ Fault("csw_failed")
  <2>1. Sent(DataItem(c) \o CswItem(c, FALSE))
    BY <1>4, CleanShapes DEF Sends
  <2>2. FaultsGrow
    BY <1>1, <1>4 DEF AllFaults
  <2> QED BY <1>2, <2>1, <2>2
<1>5. CASE Sends(DataItem(c) \o <<Stall>> \o CswItem(c, clean)) /\ Fault("status_stall")
  <2>1. Sent(DataItem(c) \o <<Stall>> \o CswItem(c, clean))
    BY <1>5, CleanShapes DEF Sends
  <2>2. FaultsGrow
    BY <1>1, <1>5 DEF AllFaults
  <2> QED BY <1>2, <2>1, <2>2
<1>6. CASE Sends(DataItem(c) \o <<Stall, Stall>> \o CswItem(c, clean)) /\ Fault("status_stall")
  <2>1. Sent(DataItem(c) \o <<Stall, Stall>> \o CswItem(c, clean))
    BY <1>6, CleanShapes DEF Sends
  <2>2. FaultsGrow
    BY <1>1, <1>6 DEF AllFaults
  <2> QED BY <1>2, <2>1, <2>2
<1>7. CASE Sends(<<Stall>> \o CswItem(c, FALSE)) /\ Fault("data_stall")
  <2>1. FaultsGrow /\ "data_stall" \in seen'
    BY <1>1, <1>7 DEF AllFaults
  <2>2. ~(seen' \subseteq StatusFaults)
    BY <2>1 DEF StatusFaults
  <2>3. Sent(<<Stall>> \o CswItem(c, FALSE))
    BY <1>7, <2>2, StalledShape DEF Sends
  <2> QED BY <1>2, <2>1, <2>3
<1> QED BY <1>3, <1>4, <1>5, <1>6, <1>7 DEF Answered

-----------------------------------------------------------------------------
(* The operations on pipes and drive.                                       *)

\* The drive adds an answer to call c to what it has to send.
Adds(c) ==
  \E s \in Seq(Items) : /\ fifo' = fifo \o s /\ Answer(c, s)
                        /\ seen' \subseteq StatusFaults => CleanAnswer(c, s)

\* The command whose data the drive waits for.
Owed == Call("write10", takes.tag, "cbw")

\* A bulk OUT transfer that the drive took for the CBW of c.
CommandSent(c, payload, r) ==
  /\ payload = "cbw" /\ takes = AwaitCbw
  /\ "out" \notin halted /\ halted' = halted
  /\ seen' \subseteq StatusFaults => r = "OK"
  /\ HasDataOut(c) => takes' = [what |-> "data", tag |-> c.tag] /\ fifo' = fifo
  /\ ~HasDataOut(c) => takes' = takes /\ Adds(c)

\* One that it took for the data it waited for, or stalled.
DataSent(r) ==
  /\ takes.what = "data" /\ takes' = AwaitCbw /\ Adds(Owed)
  /\ "out" \notin halted /\ (r = "OK" => halted' = halted)
  /\ seen' \subseteq StatusFaults => r = "OK"

\* One that did not reach it.
NotSent(payload, r) ==
  /\ r # "OK" /\ takes' = takes /\ fifo' = fifo
  /\ seen' \subseteq StatusFaults =>
       halted' = halted /\ ("out" \in halted \/ Refuses(payload))

\* The drive answers a command by adding to what it has to send.
LEMMA AnsweredAdds ==
  ASSUME DriveTyped, NEW c, c.tag \in Tags, NEW clean \in BOOLEAN, NEW late \in BOOLEAN,
         Answered(c, clean, late)
  PROVE  /\ FaultsGrow /\ Adds(c) /\ fifo' \in Seq(Items)
         /\ late => "timeout" \in seen'
<1>1. FaultsGrow /\ Adds(c)
  BY AnsweredItems DEF Adds
<1>2. fifo' \in Seq(Items)
  BY <1>1 DEF Adds, DriveTyped
<1>3. late => "timeout" \in seen'
  BY FaultGrows DEF Answered, AllFaults
<1> QED BY <1>1, <1>2, <1>3

\* A transfer that the drive takes.
LEMMA TakenMoves ==
  ASSUME DriveTyped, NEW c \in Records, NEW payload \in {"cbw", "data"}, NEW late \in BOOLEAN,
         Taken(c, payload, late)
  PROVE  /\ FaultsGrow /\ fifo' \in Seq(Items)
         /\ late => "timeout" \in seen'
         /\ \/ /\ payload = "cbw" /\ takes = AwaitCbw
               /\ HasDataOut(c) => takes' = [what |-> "data", tag |-> c.tag] /\ fifo' = fifo
               /\ ~HasDataOut(c) => takes' = takes /\ Adds(c)
            \/ takes.what = "data" /\ takes' = AwaitCbw /\ Adds(Owed)
<1>1. c.tag \in Tags
  BY DEF Records
<1>2. CASE takes = AwaitCbw /\ HasDataOut(c)
  <2>1. /\ payload = "cbw" /\ takes' = [what |-> "data", tag |-> c.tag] /\ fifo' = fifo
        /\ IF late THEN Fault("timeout") ELSE NoFault
    BY <1>2 DEF Taken, CbwTaken, Refuses
  <2>2. FaultsGrow /\ (late => "timeout" \in seen')
    BY <2>1, FaultGrows DEF AllFaults
  <2> QED BY <1>2, <2>1, <2>2 DEF DriveTyped
<1>3. CASE takes = AwaitCbw /\ ~HasDataOut(c)
  <2>1. payload = "cbw" /\ takes' = takes /\ Answered(c, TRUE, late)
    BY <1>3 DEF Taken, CbwTaken, Refuses
  <2> QED BY <1>1, <1>3, <2>1, AnsweredAdds
<1>4. CASE takes # AwaitCbw
  <2>1. takes' = AwaitCbw /\ Answered(Owed, payload = "data", late)
    BY <1>4 DEF Taken, DataTaken, Owed
  <2>2. takes.what = "data" /\ takes.tag \in Tags
    BY <1>4 DEF DriveTyped
  <2>3. Owed.tag \in Tags
    BY <2>2 DEF Owed, Call
  <2>4. (payload = "data") \in BOOLEAN
    OBVIOUS
  <2> QED BY <2>1, <2>2, <2>3, <2>4, AnsweredAdds
<1> QED BY <1>2, <1>3, <1>4

\* Nothing happens to pipes, drive and faults.
LEMMA NothingMoves ==
  ASSUME DriveTyped, UNCHANGED <<halted, driveVars, faultVars>>
  PROVE  DriveTyped' /\ seen' = seen /\ halted' = halted /\ fifo' = fifo /\ takes' = takes
BY DEF DriveTyped, driveVars, faultVars

\* A CSW is an answer by itself to a command without data IN.
LEMMA CswIsAnswer ==
  ASSUME DriveTyped, takes.what = "data"
  PROVE  \E s \in Seq(Items) : s = <<Item("csw", takes.tag, FALSE)>> /\ Answer(Owed, s)
<1>1. takes.tag \in Tags
  BY DEF DriveTyped, AwaitCbw
<1>2. PICK w \in Items : w = Item("csw", takes.tag, FALSE) /\ w.kind = "csw" /\ w.tag = takes.tag
  BY <1>1, ItemFacts DEF Item
<1>3. Owed.tag = takes.tag /\ ~HasDataIn(Owed)
  BY DEF Owed, Call, HasDataIn
<1>4. w.kind = "csw" /\ w.tag = Owed.tag
  BY <1>2, <1>3, Zenon
<1>5. <<w>> \in Seq(Items) /\ Answer(Owed, <<w>>)
  BY <1>3, <1>4 DEF Answer
<1> QED BY <1>2, <1>5, Zenon

\* msc_bulk_transfer, OUT.
LEMMA BulkOutMoves ==
  ASSUME DriveTyped, NEW c \in Records, NEW payload \in {"cbw", "data"}, NEW r \in Codes,
         BulkOut(c, payload, r)
  PROVE  /\ DriveTyped' /\ seen \subseteq seen'
         /\ CommandSent(c, payload, r) \/ DataSent(r) \/ NotSent(payload, r)
<1>0. ~("timeout" \in StatusFaults) /\ ~("xfer_error" \in StatusFaults) /\ ~("data_stall" \in StatusFaults)
  BY DEF StatusFaults
<1>1. \A k \in AllFaults : Fault(k) => FaultsGrow /\ k \in seen'
  BY FaultGrows
<1>2. CASE r = "INVALID_STATE" /\ NotSubmitted("out")
  BY <1>2, NothingMoves DEF NotSubmitted, NotSent
<1>3. CASE r = "INTERNAL" /\ Refuses(payload) /\ UNCHANGED <<halted, driveVars, faultVars>>
  BY <1>3, NothingMoves DEF NotSent
<1>4. ASSUME NEW late \in BOOLEAN, Submitted("out"), Taken(c, payload, late), UNCHANGED halted,
             late \/ r = "OK"
      PROVE  /\ DriveTyped' /\ seen \subseteq seen'
             /\ CommandSent(c, payload, r) \/ DataSent(r)
  <2>1. FaultsGrow /\ fifo' \in Seq(Items) /\ (late => "timeout" \in seen')
    BY <1>4, TakenMoves
  <2>2. seen' \subseteq StatusFaults => r = "OK"
    BY <1>0, <1>4, <2>1
  <2>3. CASE /\ payload = "cbw" /\ takes = AwaitCbw
             /\ HasDataOut(c) => takes' = [what |-> "data", tag |-> c.tag] /\ fifo' = fifo
             /\ ~HasDataOut(c) => takes' = takes /\ Adds(c)
    <3>1. takes' \in {AwaitCbw} \cup [what : {"data"}, tag : Tags]
      BY <2>3 DEF Records
    <3> QED BY <1>4, <2>1, <2>2, <2>3, <3>1 DEF DriveTyped, FaultsGrow, CommandSent, Submitted
  <2>4. CASE takes.what = "data" /\ takes' = AwaitCbw /\ Adds(Owed)
    BY <1>4, <2>1, <2>2, <2>4 DEF DriveTyped, FaultsGrow, DataSent, Submitted
  <2> QED BY <1>4, <2>3, <2>4, TakenMoves
<1>5. CASE r = "INTERNAL" /\ Fault("timeout") /\ UNCHANGED <<halted, driveVars>>
  <2>1. FaultsGrow /\ ~(seen' \subseteq StatusFaults)
    BY <1>0, <1>1, <1>5 DEF AllFaults
  <2> QED BY <1>5, <2>1 DEF DriveTyped, FaultsGrow, NotSent, driveVars
<1>6. CASE /\ r = "INTERNAL" /\ Fault("xfer_error")
           /\ halted' = halted \cup {"out"} /\ UNCHANGED driveVars
  <2>1. FaultsGrow /\ ~(seen' \subseteq StatusFaults)
    BY <1>0, <1>1, <1>6 DEF AllFaults
  <2> QED BY <1>6, <2>1 DEF DriveTyped, FaultsGrow, NotSent, driveVars
<1>7. CASE /\ r = "STALL" /\ Submitted("out") /\ takes.what = "data"
           /\ Fault("data_stall") /\ halted' = halted \cup {"out"}
           /\ takes' = AwaitCbw /\ Sends(<<Item("csw", takes.tag, FALSE)>>)
  <2>1. FaultsGrow /\ ~(seen' \subseteq StatusFaults)
    BY <1>0, <1>1, <1>7 DEF AllFaults
  <2>2. PICK s \in Seq(Items) : fifo' = fifo \o s /\ Answer(Owed, s)
    BY <1>7, CswIsAnswer DEF Sends
  <2>3. fifo' \in Seq(Items) /\ Adds(Owed)
    BY <2>1, <2>2 DEF Adds, DriveTyped
  <2>4. DriveTyped'
    BY <1>7, <2>1, <2>3 DEF DriveTyped, FaultsGrow
  <2> QED BY <1>7, <2>1, <2>3, <2>4 DEF FaultsGrow, DataSent, Submitted
<1>8. r = "OK" /\ Submitted("out") /\ Taken(c, payload, FALSE) /\ UNCHANGED halted
        => /\ DriveTyped' /\ seen \subseteq seen'
           /\ CommandSent(c, payload, r) \/ DataSent(r)
  BY <1>4
<1>9. r = "INTERNAL" /\ Submitted("out") /\ Taken(c, payload, TRUE) /\ UNCHANGED halted
        => /\ DriveTyped' /\ seen \subseteq seen'
           /\ CommandSent(c, payload, r) \/ DataSent(r)
  BY <1>4
<1> QED BY <1>2, <1>3, <1>5, <1>6, <1>7, <1>8, <1>9 DEF BulkOut

\* A bulk IN transfer that brought item in.
Received(c, r, item) ==
  /\ r = "OK" /\ "in" \notin halted /\ halted' = halted
  /\ fifo # << >> /\ item = fifo[1] /\ item # Stall
  /\ fifo' = Tail(fifo) \/ (fifo' = fifo /\ item.kind = "data" /\ ~(c.pc = "data" /\ c.fn = "read10"))
  /\ c.pc = "data" /\ item.tag = c.tag => fifo' = Tail(fifo)

\* One that brought in nothing, or nothing the host got to see.
NotReceived(r) ==
  /\ r # "OK"
  /\ fifo' = fifo \/ (fifo # << >> /\ fifo' = Tail(fifo))
  /\ r = "STALL" => fifo # << >> /\ fifo[1] = Stall /\ fifo' = fifo /\ halted' = halted \cup {"in"}
  /\ "out" \in halted' => "out" \in halted
  /\ seen' \subseteq StatusFaults /\ r # "STALL" => "in" \in halted \/ fifo = << >>

\* What is left of the items.
LEMMA LeftItems ==
  ASSUME NEW c \in Records, fifo \in Seq(Items), fifo # << >>, NEW q \in Left(c)
  PROVE  /\ q \in Seq(Items) /\ fifo[1] = Head(fifo)
         /\ q = Tail(fifo) \/ (/\ q = fifo /\ fifo[1].kind = "data"
                               /\ ~(c.pc = "data" /\ c.fn = "read10"))
         /\ c.pc = "data" /\ fifo[1].tag = c.tag => q = Tail(fifo)
<1>1. fifo[1] = Head(fifo) /\ Tail(fifo) \in Seq(Items)
  OBVIOUS
<1>2. q \in {fifo, Tail(fifo)}
  BY DEF Left
<1> QED BY <1>1, <1>2 DEF Left

\* msc_bulk_transfer, IN.
LEMMA BulkInMoves ==
  ASSUME DriveTyped, NEW c \in Records, NEW r \in Codes, NEW item \in ItemsIn, BulkIn(c, r, item)
  PROVE  /\ DriveTyped' /\ seen \subseteq seen' /\ takes' = takes /\ item \in Items
         /\ Received(c, r, item) \/ NotReceived(r)
<1>0. ~("timeout" \in StatusFaults) /\ ~("xfer_error" \in StatusFaults)
  BY DEF StatusFaults
<1>1. \A k \in AllFaults : Fault(k) => FaultsGrow /\ k \in seen'
  BY FaultGrows
<1>2. item \in Items
  BY ItemFacts DEF ItemsIn, DriveTyped
<1>3. CASE r = "INVALID_STATE" /\ NotSubmitted("in")
  BY <1>2, <1>3, NothingMoves DEF NotSubmitted, NotReceived
<1>4. CASE /\ r = "OK" /\ Submitted("in") /\ Available /\ item = Head(fifo) /\ fifo' \in Left(c)
           /\ UNCHANGED <<halted, takes, faultVars>>
  <2>1. fifo # << >> /\ fifo \in Seq(Items)
    BY <1>4 DEF Available, DriveTyped
  <2>2. Received(c, r, item) /\ fifo' \in Seq(Items)
    BY <1>4, <2>1, LeftItems DEF Received, Available, Submitted
  <2>3. DriveTyped'
    BY <1>4, <2>2 DEF DriveTyped, faultVars
  <2> QED BY <1>2, <1>4, <2>2, <2>3 DEF faultVars
<1>5. CASE /\ r = "STALL" /\ fifo # << >> /\ Head(fifo) = Stall
           /\ halted' = halted \cup {"in"} /\ UNCHANGED <<driveVars, faultVars>>
  <2>1. fifo[1] = Stall
    BY <1>5 DEF DriveTyped
  <2>2. DriveTyped'
    BY <1>5 DEF DriveTyped, driveVars, faultVars
  <2> QED BY <1>2, <1>5, <2>1, <2>2 DEF NotReceived, driveVars, faultVars
<1>6. CASE r = "INTERNAL" /\ fifo = << >> /\ UNCHANGED <<halted, driveVars, faultVars>>
  BY <1>2, <1>6, NothingMoves DEF NotReceived
<1>7. CASE /\ r = "INTERNAL" /\ Fault("timeout")
           /\ fifo' \in {fifo} \cup (IF Available THEN Left(c) ELSE {})
           /\ UNCHANGED <<halted, takes>>
  <2>1. FaultsGrow /\ ~(seen' \subseteq StatusFaults)
    BY <1>0, <1>1, <1>7 DEF AllFaults
  <2>2. fifo' \in Seq(Items) /\ (fifo' = fifo \/ (fifo # << >> /\ fifo' = Tail(fifo)))
    BY <1>7, LeftItems DEF DriveTyped, Available
  <2>3. DriveTyped'
    BY <1>7, <2>1, <2>2 DEF DriveTyped, FaultsGrow
  <2> QED BY <1>2, <1>7, <2>1, <2>2, <2>3 DEF NotReceived, FaultsGrow
<1>8. CASE /\ r = "INTERNAL" /\ Fault("xfer_error")
           /\ halted' = halted \cup {"in"} /\ UNCHANGED driveVars
  <2>1. FaultsGrow /\ ~(seen' \subseteq StatusFaults)
    BY <1>0, <1>1, <1>8 DEF AllFaults
  <2>2. DriveTyped'
    BY <1>8, <2>1 DEF DriveTyped, FaultsGrow, driveVars
  <2> QED BY <1>2, <1>8, <2>1, <2>2 DEF NotReceived, FaultsGrow, driveVars
<1> QED BY <1>3, <1>4, <1>5, <1>6, <1>7, <1>8 DEF BulkIn

\* clear_feature.
LEMMA ClearMoves ==
  ASSUME DriveTyped, NEW ep \in {"in", "out"}, NEW r \in Codes, clear_feature(ep, r)
  PROVE  /\ DriveTyped' /\ seen \subseteq seen' /\ takes' = takes
         /\ halted' \subseteq halted
         /\ fifo' = fifo \/ (ep = "in" /\ fifo # << >> /\ fifo[1] = Stall /\ fifo' = Tail(fifo))
         /\ r = "OK" => /\ halted' = halted \ {ep} /\ seen' = seen
                        /\ ep = "in" /\ fifo # << >> /\ fifo[1] = Stall => fifo' = Tail(fifo)
         /\ seen' \subseteq StatusFaults /\ r # "OK" => ep \notin halted /\ halted' = halted /\ fifo' = fifo
<1>1. fifo # << >> => fifo[1] = Head(fifo) /\ Tail(fifo) \in Seq(Items)
  BY DEF DriveTyped
<1>2. CASE /\ r = "OK" /\ halted' = halted \ {ep}
           /\ fifo' = IF ep = "in" /\ fifo # << >> /\ Head(fifo) = Stall THEN Tail(fifo) ELSE fifo
           /\ UNCHANGED <<takes, faultVars>>
  <2>1. fifo' \in Seq(Items)
    BY <1>1, <1>2 DEF DriveTyped
  <2>2. DriveTyped'
    BY <1>2, <2>1 DEF DriveTyped, faultVars
  <2> QED BY <1>1, <1>2, <2>2 DEF faultVars
<1>3. CASE r = "INTERNAL" /\ Fault("control") /\ halted' = halted \ {ep} /\ UNCHANGED driveVars
  <2>1. FaultsGrow /\ ~(seen' \subseteq StatusFaults)
    BY <1>3, FaultGrows DEF AllFaults, StatusFaults
  <2>2. DriveTyped'
    BY <1>3, <2>1 DEF DriveTyped, FaultsGrow, driveVars
  <2> QED BY <1>3, <2>1, <2>2 DEF FaultsGrow, driveVars
<1>4. CASE r = "INVALID_STATE" /\ ep \notin halted /\ UNCHANGED <<halted, driveVars, faultVars>>
  BY <1>4, NothingMoves
<1> QED BY <1>2, <1>3, <1>4 DEF clear_feature

\* msc_mass_reset.
LEMMA ResetMoves ==
  ASSUME DriveTyped, NEW r \in Codes, msc_mass_reset(r)
  PROVE  /\ DriveTyped' /\ seen \subseteq seen' /\ halted' = halted
         /\ r = "OK" => /\ takes' = AwaitCbw /\ fifo' \in {<< >>, <<Stall>>}
                        /\ fifo' = <<Stall>> => fifo # << >> /\ Head(fifo) = Stall
                        /\ fifo' = << >> => ~(fifo # << >> /\ Head(fifo) = Stall)
         /\ r # "OK" => takes' = takes /\ fifo' = fifo /\ ~(seen' \subseteq StatusFaults)
<1>1. CASE /\ r = "OK" /\ takes' = AwaitCbw
           /\ fifo' = IF fifo # << >> /\ Head(fifo) = Stall THEN <<Stall>> ELSE << >>
           /\ UNCHANGED <<halted, faultVars>>
  <2>1. fifo' \in Seq(Items) /\ <<Stall>> # << >>
    BY <1>1, ItemFacts
  <2>2. DriveTyped'
    BY <1>1, <2>1 DEF DriveTyped, faultVars
  <2> QED BY <1>1, <2>1, <2>2 DEF faultVars
<1>2. CASE r = "INTERNAL" /\ Fault("control") /\ UNCHANGED <<halted, driveVars>>
  <2>1. FaultsGrow /\ ~(seen' \subseteq StatusFaults)
    BY <1>2, FaultGrows DEF AllFaults, StatusFaults
  <2>2. DriveTyped'
    BY <1>2, <2>1 DEF DriveTyped, FaultsGrow, driveVars
  <2> QED BY <1>2, <2>1, <2>2 DEF FaultsGrow, driveVars
<1> QED BY <1>1, <1>2 DEF msc_mass_reset

-----------------------------------------------------------------------------
(* The steps: how the calls move, and that everything keeps its type.       *)

\* A call that fails with e returns it, or asks for the sense data first.
Fails(e) == e # "OK" /\ (Returns(e) \/ Starts("sense"))

\* The call at the top is c, at point pc.
At(c, pc) == stack # << >> /\ c \in Frames /\ c \in Records /\ c = Top /\ c.pc = pc

\* What a step does to the call c at the top when check_csw gets item.
Checked(c, item) ==
  \/ check_csw(item, c.tag) = "OK" /\ Returns("OK")
  \/ check_csw(item, c.tag) = "FAIL" /\ Fails("FAIL")

\* The call at the top.
LEMMA RunningAt ==
  ASSUME HostTyped, NEW pc, Running(pc)
  PROVE  \E c \in Frames : At(c, pc)
BY TopIsFrame DEF Running, At

\* BotReturn, in the terms above.
LEMMA BotReturnFails ==
  ASSUME HostTyped, NEW pc, pc \notin RecoveryPcs, NEW c \in Frames, At(c, pc),
         NEW e \in Codes, BotReturn(e)
  PROVE  HostTyped' /\ (e = "OK" => Returns("OK")) /\ (e # "OK" => Fails(e))
BY BotReturnMoves DEF At, Fails

\* BotReturn of what check_csw says.
LEMMA CheckedReturns ==
  ASSUME HostTyped, NEW pc, pc \notin RecoveryPcs, NEW c \in Frames, At(c, pc),
         NEW item, BotReturn(check_csw(item, c.tag))
  PROVE  HostTyped' /\ Checked(c, item)
<1>1. PICK e \in Codes : e = check_csw(item, c.tag) /\ e \in {"OK", "FAIL"}
  BY DEF check_csw, Codes
<1>2. HostTyped' /\ (e = "OK" => Returns("OK")) /\ (e # "OK" => Fails(e))
  BY <1>1, BotReturnFails
<1> QED BY <1>1, <1>2 DEF Checked

\* The CBW is sent (bot_execute_command, stage 1).
LEMMA CommandMoves ==
  ASSUME BotInv, CommandTransport
  PROVE  /\ BotInv'
         /\ \E c \in Frames, r \in Codes :
              /\ At(c, "cbw") /\ BulkOut(c, "cbw", r)
              /\ \/ /\ r = "OK"
                    /\ Becomes([c EXCEPT !.pc = IF HasDataIn(c) \/ HasDataOut(c) THEN "data" ELSE "csw"])
                 \/ Fails(r)
<1>0. HostTyped /\ DriveTyped /\ "cbw" \notin RecoveryPcs
  BY DEF BotInv, RecoveryPcs
<1>1. PICK c \in Frames : At(c, "cbw")
  BY <1>0, RunningAt DEF CommandTransport
<1>2. PICK r \in Codes : /\ BulkOut(c, "cbw", r)
                         /\ IF r # "OK" THEN BotReturn(r)
                            ELSE Goto(IF HasDataIn(c) \/ HasDataOut(c) THEN "data" ELSE "csw")
  BY <1>1 DEF CommandTransport, At
<1>3. DriveTyped'
  BY <1>0, <1>1, <1>2, BulkOutMoves DEF At
<1>4. CASE r = "OK"
  <2>1. PICK p \in {"data", "csw"} : p = IF HasDataIn(c) \/ HasDataOut(c) THEN "data" ELSE "csw"
    OBVIOUS
  <2>2. Goto(p) /\ p \in CommandPcs /\ p \notin Failed /\ p \notin RecoveryPcs
    BY <1>2, <1>4, <2>1 DEF CommandPcs, Failed, RecoveryPcs
  <2>3. HostTyped' /\ Becomes([c EXCEPT !.pc = p])
    BY <1>0, <1>1, <2>2, GotoBecomes DEF At
  <2> QED BY <1>1, <1>2, <1>3, <1>4, <2>1, <2>3 DEF BotInv
<1>5. CASE r # "OK"
  <2>1. HostTyped' /\ Fails(r)
    BY <1>0, <1>1, <1>2, <1>5, BotReturnFails
  <2> QED BY <1>1, <1>2, <1>3, <2>1 DEF BotInv
<1> QED BY <1>4, <1>5

\* The data are sent (stage 2).
LEMMA DataOutMoves ==
  ASSUME BotInv, DataOutTransport
  PROVE  /\ BotInv'
         /\ \E c \in Frames, r \in Codes :
              /\ At(c, "data") /\ HasDataOut(c) /\ BulkOut(c, "data", r)
              /\ \/ r = "OK" /\ Becomes([c EXCEPT !.pc = "csw"])
                 \/ Fails(r)
<1>0. HostTyped /\ DriveTyped /\ "data" \notin RecoveryPcs
  BY DEF BotInv, RecoveryPcs
<1>1. PICK c \in Frames : At(c, "data")
  BY <1>0, RunningAt DEF DataOutTransport
<1>2. PICK r \in Codes : /\ HasDataOut(c) /\ BulkOut(c, "data", r)
                         /\ IF r = "OK" THEN Goto("csw") ELSE BotReturn(r)
  BY <1>1 DEF DataOutTransport, At
<1>3. DriveTyped'
  BY <1>0, <1>1, <1>2, BulkOutMoves DEF At
<1>4. CASE r = "OK"
  <2>1. "csw" \in CommandPcs /\ "csw" \notin Failed /\ "csw" \notin RecoveryPcs
    BY DEF CommandPcs, Failed, RecoveryPcs
  <2>2. HostTyped' /\ Becomes([c EXCEPT !.pc = "csw"])
    BY <1>0, <1>1, <1>2, <1>4, <2>1, GotoBecomes DEF At
  <2> QED BY <1>1, <1>2, <1>3, <1>4, <2>2 DEF BotInv
<1>5. CASE r # "OK"
  <2>1. HostTyped' /\ Fails(r)
    BY <1>0, <1>1, <1>2, <1>5, BotReturnFails
  <2> QED BY <1>1, <1>2, <1>3, <2>1 DEF BotInv
<1> QED BY <1>4, <1>5

\* A frame that has received its data.
LEMMA FrameGot ==
  ASSUME NEW f \in Frames, f.pc = "data", NEW item \in Items
  PROVE  [f EXCEPT !.pc = "csw", !.got = item] \in Frames
<1>1. f \in Records
  BY DEF Frames
<1>2. [f EXCEPT !.pc = "csw", !.got = item] \in Records
  BY <1>1 DEF Records, CommandPcs
<1> QED BY <1>1, <1>2 DEF Records, Frames, Failed, RecoveryPcs

\* The data are received (stage 2).
LEMMA DataInMoves ==
  ASSUME BotInv, DataInTransport
  PROVE  /\ BotInv'
         /\ \E c \in Frames, r \in Codes, item \in ItemsIn :
              /\ At(c, "data") /\ HasDataIn(c) /\ BulkIn(c, r, item)
              /\ \/ r = "OK" /\ Becomes([c EXCEPT !.pc = "csw", !.got = item])
                 \/ Fails(r)
<1>0. HostTyped /\ DriveTyped /\ "data" \notin RecoveryPcs
  BY DEF BotInv, RecoveryPcs
<1>1. PICK c \in Frames : At(c, "data")
  BY <1>0, RunningAt DEF DataInTransport
<1>2. PICK r \in Codes, item \in ItemsIn :
        /\ HasDataIn(c) /\ BulkIn(c, r, item)
        /\ IF r # "OK" THEN BotReturn(r)
           ELSE /\ stack' = <<[c EXCEPT !.pc = "csw", !.got = item]>> \o Tail(stack)
                /\ UNCHANGED <<ret, cbw_tag>>
  BY <1>1 DEF DataInTransport, At
<1>3. DriveTyped' /\ item \in Items
  BY <1>0, <1>1, <1>2, BulkInMoves DEF At
<1>4. CASE r = "OK"
  <2>1. [c EXCEPT !.pc = "csw", !.got = item] \in Frames
    BY <1>1, <1>3, FrameGot DEF At
  <2>2. HostTyped' /\ Becomes([c EXCEPT !.pc = "csw", !.got = item])
    BY <1>0, <1>1, <1>2, <1>4, <2>1, StackBecomes DEF HostTyped, Becomes, At
  <2> QED BY <1>1, <1>2, <1>3, <1>4, <2>2 DEF BotInv
<1>5. CASE r # "OK"
  <2>1. HostTyped' /\ Fails(r)
    BY <1>0, <1>1, <1>2, <1>5, BotReturnFails
  <2> QED BY <1>1, <1>2, <1>3, <2>1 DEF BotInv
<1> QED BY <1>4, <1>5

\* The CSW is received (stage 3).
LEMMA StatusMoves ==
  ASSUME BotInv, StatusTransport
  PROVE  /\ BotInv'
         /\ \E c \in Frames, r \in Codes, item \in ItemsIn :
              /\ At(c, "csw") /\ BulkIn(c, r, item)
              /\ \/ r = "OK" /\ Checked(c, item)
                 \/ r = "STALL" /\ Becomes([c EXCEPT !.pc = "clear"])
                 \/ r # "STALL" /\ Fails(r)
<1>0. HostTyped /\ DriveTyped /\ "csw" \notin RecoveryPcs
  BY DEF BotInv, RecoveryPcs
<1>1. PICK c \in Frames : At(c, "csw")
  BY <1>0, RunningAt DEF StatusTransport
<1>2. PICK r \in Codes, item \in ItemsIn :
        /\ BulkIn(c, r, item)
        /\ IF r = "OK" THEN BotReturn(check_csw(item, c.tag))
           ELSE IF r = "STALL" THEN Goto("clear") ELSE BotReturn(r)
  BY <1>1 DEF StatusTransport, At
<1>3. DriveTyped'
  BY <1>0, <1>1, <1>2, BulkInMoves DEF At
<1>4. CASE r = "OK"
  <2>1. HostTyped' /\ Checked(c, item)
    BY <1>0, <1>1, <1>2, <1>4, CheckedReturns
  <2> QED BY <1>1, <1>2, <1>3, <1>4, <2>1 DEF BotInv
<1>5. CASE r = "STALL"
  <2>1. "clear" \in CommandPcs /\ "clear" \notin Failed /\ "clear" \notin RecoveryPcs
    BY DEF CommandPcs, Failed, RecoveryPcs
  <2>2. HostTyped' /\ Becomes([c EXCEPT !.pc = "clear"])
    BY <1>0, <1>1, <1>2, <1>5, <2>1, GotoBecomes DEF At
  <2> QED BY <1>1, <1>2, <1>3, <1>5, <2>2 DEF BotInv
<1>6. CASE r # "OK" /\ r # "STALL"
  <2>1. HostTyped' /\ Fails(r)
    BY <1>0, <1>1, <1>2, <1>6, BotReturnFails
  <2> QED BY <1>1, <1>2, <1>3, <1>6, <2>1 DEF BotInv
<1> QED BY <1>4, <1>5, <1>6

\* The stall of the status phase is cleared (3.1).
LEMMA ClearStallMoves ==
  ASSUME BotInv, ClearStatusStall
  PROVE  /\ BotInv'
         /\ \E c \in Frames, r \in Codes :
              /\ At(c, "clear") /\ clear_feature("in", r)
              /\ \/ r = "OK" /\ Becomes([c EXCEPT !.pc = "csw2"])
                 \/ Fails(r)
<1>0. HostTyped /\ DriveTyped /\ "clear" \notin RecoveryPcs
  BY DEF BotInv, RecoveryPcs
<1>1. PICK c \in Frames : At(c, "clear")
  BY <1>0, RunningAt DEF ClearStatusStall
<1>2. PICK r \in Codes : clear_feature("in", r) /\ IF r = "OK" THEN Goto("csw2") ELSE BotReturn(r)
  BY <1>1 DEF ClearStatusStall
<1>3. DriveTyped'
  BY <1>0, <1>2, ClearMoves
<1>4. CASE r = "OK"
  <2>1. "csw2" \in CommandPcs /\ "csw2" \notin Failed /\ "csw2" \notin RecoveryPcs
    BY DEF CommandPcs, Failed, RecoveryPcs
  <2>2. HostTyped' /\ Becomes([c EXCEPT !.pc = "csw2"])
    BY <1>0, <1>1, <1>2, <1>4, <2>1, GotoBecomes DEF At
  <2> QED BY <1>1, <1>2, <1>3, <1>4, <2>2 DEF BotInv
<1>5. CASE r # "OK"
  <2>1. HostTyped' /\ Fails(r)
    BY <1>0, <1>1, <1>2, <1>5, BotReturnFails
  <2> QED BY <1>1, <1>2, <1>3, <2>1 DEF BotInv
<1> QED BY <1>4, <1>5

\* Recover, by a call that waits at the point it resumes.
LEMMA RecoverEnters ==
  ASSUME HostTyped, NEW w \in Seq(Waiting), Len(w) = Len(stack), Recover(w)
  PROVE  HostTyped' /\ Enters
<1> DEFINE f == [Call("recovery", 0, "reset") EXCEPT !.trials = MaxTrials]
<1>1. f \in Frames /\ f.pc = "reset"
  BY RecoveryIsFrame DEF Call
<1>2. stack' = <<f>> \o w /\ UNCHANGED <<ret, cbw_tag>>
  BY DEF Recover
<1>3. StackOK' /\ stack' # << >> /\ Top' = f /\ Len(stack') = Len(w) + 1
  BY <1>1, <1>2, StackCalls
<1>4. Len(w) \in Nat
  OBVIOUS
<1> QED BY <1>1, <1>2, <1>3, <1>4 DEF HostTyped, Enters

\* The CSW is received at the second try, or the recovery is called (3.2).
LEMMA StatusAgainMoves ==
  ASSUME BotInv, StatusAgain
  PROVE  /\ BotInv'
         /\ \E c \in Frames, r \in Codes, item \in ItemsIn :
              /\ At(c, "csw2") /\ BulkIn(c, r, item)
              /\ (r = "OK" /\ Checked(c, item)) \/ (r # "OK" /\ Enters)
<1>0. HostTyped /\ DriveTyped /\ "csw2" \notin RecoveryPcs
  BY DEF BotInv, RecoveryPcs
<1>1. PICK c \in Frames : At(c, "csw2")
  BY <1>0, RunningAt DEF StatusAgain
<1>2. PICK r \in Codes, item \in ItemsIn :
        /\ BulkIn(c, r, item)
        /\ IF r = "OK" THEN BotReturn(check_csw(item, c.tag))
           ELSE Recover(<<[c EXCEPT !.pc = "recovered", !.err = r]>> \o Tail(stack))
  BY <1>1 DEF StatusAgain, At
<1>3. DriveTyped'
  BY <1>0, <1>1, <1>2, BulkInMoves DEF At
<1>4. CASE r = "OK"
  <2>1. HostTyped' /\ Checked(c, item)
    BY <1>0, <1>1, <1>2, <1>4, CheckedReturns
  <2> QED BY <1>1, <1>2, <1>3, <1>4, <2>1 DEF BotInv
<1>5. CASE r # "OK"
  <2>1. "recovered" \in Failed /\ "recovered" \notin RecoveryPcs
    BY DEF Failed, RecoveryPcs
  <2>2. [c EXCEPT !.pc = "recovered", !.err = r] \in Waiting
    BY <1>0, <1>1, <1>5, <2>1, FrameFails DEF At
  <2>3. PICK w \in Seq(Waiting) : /\ w = <<[c EXCEPT !.pc = "recovered", !.err = r]>> \o Tail(stack)
                                  /\ Len(w) = Len(stack)
    BY <1>0, <1>1, <2>2, StackSuspends DEF HostTyped, At
  <2>4. HostTyped' /\ Enters
    BY <1>0, <1>2, <1>5, <2>3, RecoverEnters
  <2> QED BY <1>1, <1>2, <1>3, <1>5, <2>4 DEF BotInv
<1> QED BY <1>4, <1>5

\* The command fails after the recovery.
LEMMA RecoveredMoves ==
  ASSUME BotInv, Recovered
  PROVE  /\ BotInv' /\ UNCHANGED <<halted, driveVars, faultVars>>
         /\ \E c \in Frames, e \in Codes : At(c, "recovered") /\ Fails(e)
<1>0. HostTyped /\ DriveTyped /\ "recovered" \notin RecoveryPcs
  BY DEF BotInv, RecoveryPcs
<1>1. PICK c \in Frames : At(c, "recovered")
  BY <1>0, RunningAt DEF Recovered
<1>2. PICK e \in Codes : e # "OK" /\ e = c.err
  BY <1>1 DEF At, Frames, Records, Failed
<1>3. HostTyped' /\ Fails(e)
  BY <1>0, <1>1, <1>2, BotReturnFails DEF Recovered, At
<1>4. DriveTyped'
  BY <1>0, NothingMoves DEF Recovered
<1> QED BY <1>1, <1>3, <1>4 DEF BotInv, Recovered

\* A scsi_cmd_ function returns its error after the sense data.
LEMMA SensedMoves ==
  ASSUME BotInv, Sensed
  PROVE  /\ BotInv' /\ UNCHANGED <<halted, driveVars, faultVars>>
         /\ \E c \in Frames, e \in Codes : At(c, "sensed") /\ Fails(e)
<1>0. HostTyped /\ DriveTyped
  BY DEF BotInv
<1>1. PICK c \in Frames : At(c, "sensed")
  BY <1>0, RunningAt DEF Sensed
<1>2. c.err \in Codes /\ c.err # "OK"
  BY <1>1 DEF At, Frames, Records, Failed
<1>3. PICK e \in Codes : e # "OK" /\ e = IF ret = "OK" THEN c.err ELSE ret
  BY <1>0, <1>2 DEF HostTyped
<1>4. HostTyped' /\ Returns(e)
  BY <1>0, <1>1, <1>3, PopReturns DEF Sensed, At
<1>5. DriveTyped'
  BY <1>0, NothingMoves DEF Sensed
<1> QED BY <1>1, <1>3, <1>4, <1>5 DEF BotInv, Sensed, Fails

\* msc_host_reset_recovery resets the drive.
LEMMA ResetStepMoves ==
  ASSUME BotInv, RecoveryReset
  PROVE  /\ BotInv'
         /\ \E c \in Frames, r \in Codes :
              /\ At(c, "reset") /\ msc_mass_reset(r)
              /\ (r = "OK" /\ Becomes([c EXCEPT !.pc = "clear_in"])) \/ Fails(r)
<1>0. HostTyped /\ DriveTyped
  BY DEF BotInv
<1>1. PICK c \in Frames : At(c, "reset")
  BY <1>0, RunningAt DEF RecoveryReset
<1>2. PICK r \in Codes : msc_mass_reset(r) /\ IF r = "OK" THEN Goto("clear_in") ELSE Pop(r)
  BY DEF RecoveryReset
<1>3. DriveTyped'
  BY <1>0, <1>2, ResetMoves
<1>4. CASE r = "OK"
  <2>1. "clear_in" \in RecoveryPcs /\ "clear_in" \notin Failed /\ "reset" \in RecoveryPcs
    BY DEF Failed, RecoveryPcs
  <2>2. HostTyped' /\ Becomes([c EXCEPT !.pc = "clear_in"])
    BY <1>0, <1>1, <1>2, <1>4, <2>1, GotoBecomes DEF At
  <2> QED BY <1>1, <1>2, <1>3, <1>4, <2>2 DEF BotInv
<1>5. CASE r # "OK"
  <2>1. HostTyped' /\ Fails(r)
    BY <1>0, <1>1, <1>2, <1>5, PopReturns DEF At, Fails
  <2> QED BY <1>1, <1>2, <1>3, <2>1 DEF BotInv
<1> QED BY <1>4, <1>5

\* It clears both pipes.
LEMMA RecoveryClearMoves ==
  ASSUME BotInv, RecoveryClear
  PROVE  /\ BotInv'
         /\ \E c \in Frames, r \in Codes :
              \/ At(c, "clear_in") /\ clear_feature("in", r) /\ Becomes([c EXCEPT !.pc = "clear_out"])
              \/ At(c, "clear_out") /\ clear_feature("out", r) /\ Becomes([c EXCEPT !.pc = "ready"])
<1>0. HostTyped /\ DriveTyped
  BY DEF BotInv
<1>1. {"clear_in", "clear_out", "ready"} \cap Failed = {} /\ {"clear_in", "clear_out", "ready"} \subseteq RecoveryPcs
  BY DEF Failed, RecoveryPcs
<1>2. CASE Running("clear_in") /\ (\E r \in Codes : clear_feature("in", r)) /\ Goto("clear_out")
  <2>1. PICK c \in Frames : At(c, "clear_in")
    BY <1>0, <1>2, RunningAt
  <2>2. PICK r \in Codes : clear_feature("in", r)
    BY <1>2
  <2>3. DriveTyped'
    BY <1>0, <2>2, ClearMoves
  <2>4. HostTyped' /\ Becomes([c EXCEPT !.pc = "clear_out"])
    BY <1>0, <1>1, <1>2, <2>1, GotoBecomes DEF At
  <2> QED BY <2>1, <2>2, <2>3, <2>4 DEF BotInv
<1>3. CASE Running("clear_out") /\ (\E r \in Codes : clear_feature("out", r)) /\ Goto("ready")
  <2>1. PICK c \in Frames : At(c, "clear_out")
    BY <1>0, <1>3, RunningAt
  <2>2. PICK r \in Codes : clear_feature("out", r)
    BY <1>3
  <2>3. DriveTyped'
    BY <1>0, <2>2, ClearMoves
  <2>4. HostTyped' /\ Becomes([c EXCEPT !.pc = "ready"])
    BY <1>0, <1>1, <1>3, <2>1, GotoBecomes DEF At
  <2> QED BY <2>1, <2>2, <2>3, <2>4 DEF BotInv
<1> QED BY <1>2, <1>3 DEF RecoveryClear

\* msc_wait_for_ready_state sends TEST UNIT READY.
LEMMA PollMoves ==
  ASSUME BotInv, ReadyPoll
  PROVE  /\ BotInv' /\ UNCHANGED <<halted, driveVars, faultVars>>
         /\ \E c \in Frames : At(c, "ready") /\ Starts("unit_ready")
<1>0. HostTyped /\ DriveTyped
  BY DEF BotInv
<1>1. PICK c \in Frames : At(c, "ready")
  BY <1>0, RunningAt DEF ReadyPoll
<1>2. "polled" \in RecoveryPcs /\ "ready" \in RecoveryPcs /\ "polled" \notin Failed /\ "polled" \in Callers
  BY DEF RecoveryPcs, Failed, Callers
<1>3. [c EXCEPT !.pc = "polled"] \in Frames
  BY <1>1, <1>2, FrameGoto DEF At
<1>4. [c EXCEPT !.pc = "polled"].pc = "polled"
  BY <1>1 DEF At, Records
<1>5. [c EXCEPT !.pc = "polled"] \in Waiting
  BY <1>2, <1>3, <1>4 DEF Waiting
<1>6. Push("unit_ready", <<[c EXCEPT !.pc = "polled"]>> \o Tail(stack))
  BY <1>1 DEF ReadyPoll, At
<1>7. HostTyped' /\ Starts("unit_ready")
  BY <1>0, <1>1, <1>5, <1>6, PushStarts DEF At, Commands
<1>8. DriveTyped'
  BY <1>0, NothingMoves DEF ReadyPoll
<1> QED BY <1>1, <1>7, <1>8 DEF BotInv, ReadyPoll

\* The unit is ready, or its sense data are asked for.
LEMMA PolledMoves ==
  ASSUME BotInv, ReadyPolled
  PROVE  /\ BotInv' /\ UNCHANGED <<halted, driveVars, faultVars>>
         /\ \E c \in Frames : At(c, "polled") /\ ((ret = "OK" /\ Returns("OK")) \/ Starts("sense"))
<1>0. HostTyped /\ DriveTyped
  BY DEF BotInv
<1>1. PICK c \in Frames : At(c, "polled")
  BY <1>0, RunningAt DEF ReadyPolled
<1>2. DriveTyped'
  BY <1>0, NothingMoves DEF ReadyPolled
<1>3. CASE ret = "OK"
  <2>1. HostTyped' /\ Returns("OK")
    BY <1>0, <1>1, <1>3, PopReturns DEF ReadyPolled, At, Codes
  <2> QED BY <1>1, <1>2, <1>3, <2>1 DEF BotInv, ReadyPolled
<1>4. CASE ret # "OK"
  <2>1. "keyed" \in Failed /\ "keyed" \in RecoveryPcs /\ "polled" \in RecoveryPcs
    BY DEF Failed, RecoveryPcs
  <2>2. [c EXCEPT !.pc = "keyed", !.err = ret] \in Waiting
    BY <1>0, <1>1, <1>4, <2>1, FrameFails DEF At, HostTyped
  <2>3. Push("sense", <<[c EXCEPT !.pc = "keyed", !.err = ret]>> \o Tail(stack))
    BY <1>1, <1>4 DEF ReadyPolled, At
  <2>4. HostTyped' /\ Starts("sense")
    BY <1>0, <1>1, <2>2, <2>3, PushStarts DEF At
  <2> QED BY <1>1, <1>2, <2>4 DEF BotInv, ReadyPolled
<1> QED BY <1>3, <1>4

\* The sense key decides whether there is another trial.
LEMMA KeyedMoves ==
  ASSUME BotInv, ReadyKeyed
  PROVE  /\ BotInv' /\ UNCHANGED <<halted, driveVars, faultVars>>
         /\ \E c \in Frames : /\ At(c, "keyed")
                              /\ \/ \E f \in Frames : f.pc = "ready" /\ Becomes(f)
                                 \/ \E e \in Codes : Fails(e)
<1>0. HostTyped /\ DriveTyped
  BY DEF BotInv
<1>1. PICK c \in Frames : At(c, "keyed")
  BY <1>0, RunningAt DEF ReadyKeyed
<1>2. DriveTyped'
  BY <1>0, NothingMoves DEF ReadyKeyed
<1>3. c.err \in Codes /\ c.err # "OK"
  BY <1>1 DEF At, Frames, Records, Failed
<1>4. CASE Top.trials > 0 /\ PollAgain
  <2>1. PICK d \in 0..MaxTrials : d = c.trials - 1
    BY <1>1, <1>4, BotConstants DEF At, Records
  <2>2. c \in Records /\ "ready" \in RecoveryPcs /\ "keyed" \in RecoveryPcs /\ "ready" \notin Failed
    BY <1>1 DEF At, RecoveryPcs, Failed
  <2>3. PICK f \in Records : f = [c EXCEPT !.pc = "ready", !.trials = d] /\ f.pc = "ready" /\ f.fn = c.fn
    <3>1. [c EXCEPT !.pc = "ready", !.trials = d] \in Records
      BY <2>2 DEF Records
    <3>2. LET f == [c EXCEPT !.pc = "ready", !.trials = d] IN f.pc = "ready" /\ f.fn = c.fn
      BY <2>2 DEF Records
    <3> QED BY <3>1, <3>2
  <2>4. f \in Frames
    BY <1>1, <2>2, <2>3 DEF At, Frames
  <2>5. stack' = <<f>> \o Tail(stack) /\ UNCHANGED <<ret, cbw_tag>>
    BY <1>1, <1>4, <2>1, <2>3 DEF PollAgain, At
  <2>6. HostTyped' /\ Becomes(f)
    BY <1>0, <1>1, <2>4, <2>5, StackBecomes DEF HostTyped, Becomes, At
  <2> QED BY <1>1, <1>2, <2>3, <2>4, <2>6 DEF BotInv, ReadyKeyed
<1>5. ASSUME NEW e \in Codes, e # "OK", Pop(e)
      PROVE  HostTyped' /\ Fails(e)
  BY <1>0, <1>1, <1>5, PopReturns DEF At, Fails
<1>6. CASE Pop(Top.err) \/ Pop("INTERNAL") \/ (ret # "OK" /\ Pop(ret))
  <2>1. PICK e \in Codes : e # "OK" /\ Pop(e)
    BY <1>0, <1>1, <1>3, <1>6 DEF At, HostTyped, Codes
  <2>2. HostTyped' /\ Fails(e)
    BY <1>5, <2>1
  <2> QED BY <1>1, <1>2, <2>2 DEF BotInv, ReadyKeyed
<1> QED BY <1>4, <1>6 DEF ReadyKeyed

\* A call by the task itself.
LEMMA IssueMoves ==
  ASSUME BotInv, stack = << >>
  PROVE  /\ \A c \in Commands : Issue(c) => /\ BotInv' /\ UNCHANGED <<halted, driveVars, faultVars>>
                                            /\ Starts(c)
         /\ IssueRecovery => BotInv' /\ UNCHANGED <<halted, driveVars, faultVars>> /\ Enters
<1>0. HostTyped /\ DriveTyped
  BY DEF BotInv
<1>1. PICK w \in Seq(Waiting) : w = << >> /\ Len(w) = 0 /\ Len(stack) = 0
  <2>1. << >> \in Seq(Waiting) /\ Len(<< >>) = 0
    OBVIOUS
  <2> QED BY <2>1
<1>2. ASSUME NEW c \in Commands, Issue(c)
      PROVE  BotInv' /\ UNCHANGED <<halted, driveVars, faultVars>> /\ Starts(c)
  <2>1. cbw_tag' = NextTag /\ ret' = ret /\ stack' = <<Call(c, NextTag, "cbw")>> \o w
    BY <1>1, <1>2 DEF Issue, Push
  <2>2. NextTag \in Tags /\ Call(c, NextTag, "cbw") \in Frames
    BY <1>0, TagFacts, CallIsFrame DEF HostTyped
  <2>3. StackOK' /\ stack' # << >> /\ Top' = Call(c, NextTag, "cbw") /\ Len(stack') = 0 + 1
    BY <1>1, <2>1, <2>2, StackCalls
  <2>4. DriveTyped'
    BY <1>0, <1>2, NothingMoves DEF Issue
  <2> QED BY <1>0, <1>1, <1>2, <2>1, <2>2, <2>3, <2>4 DEF BotInv, HostTyped, Starts, Issue
<1>3. ASSUME IssueRecovery
      PROVE  BotInv' /\ UNCHANGED <<halted, driveVars, faultVars>> /\ Enters
  <2>1. HostTyped' /\ Enters
    BY <1>0, <1>1, <1>3, RecoverEnters DEF IssueRecovery
  <2>2. DriveTyped'
    BY <1>0, <1>3, NothingMoves DEF IssueRecovery
  <2> QED BY <1>3, <2>1, <2>2 DEF BotInv, IssueRecovery
<1> QED BY <1>2, <1>3

\* Every step keeps the types.
LEMMA BotInvStep == BotInv /\ [BotNext]_vars => BotInv'
<1> SUFFICES ASSUME BotInv, [BotNext]_vars PROVE BotInv'
  OBVIOUS
<1>1. CASE BotStep
  BY <1>1, CommandMoves, DataOutMoves, DataInMoves, StatusMoves, ClearStallMoves, StatusAgainMoves,
     RecoveredMoves, SensedMoves, ResetStepMoves, RecoveryClearMoves, PollMoves, PolledMoves,
     KeyedMoves DEF BotStep
<1>2. CASE IssueRecovery
  BY <1>2, IssueMoves DEF IssueRecovery
<1>3. CASE \E c \in Commands : Issue(c)
  BY <1>3, IssueMoves DEF Issue
<1>4. CASE UNCHANGED vars
  BY <1>4 DEF vars, BotInv, HostTyped, StackOK, DriveTyped
<1> QED BY <1>1, <1>2, <1>3, <1>4 DEF BotNext

\* They hold at first.
LEMMA BotInvInit == BotInit => BotInv
<1>1. 0 \in Tags /\ MaxFaults \in Nat
  BY BotConstants DEF Tags
<1>2. BotInit => HostTyped
  BY <1>1 DEF BotInit, HostTyped, StackOK, Codes
<1>3. BotInit => DriveTyped
  BY <1>1 DEF BotInit, DriveTyped
<1> QED BY <1>2, <1>3 DEF BotInv

-----------------------------------------------------------------------------
(* What a failed status phase leaves behind.                                *)

\* The points of a call where pipes and drive are ready.
SyncedPcs == Callers \cup {"cbw", "clear_out", "ready"}

\* At these points that is all a call needs.
LEMMA SyncedPhase ==
  ASSUME NEW f, f.pc \in SyncedPcs, Synced'
  PROVE  InPhase(f)'
BY DEF InPhase, SyncedPcs, Callers

\* After a step at the end of which the call f is at the top.
LEMMA InStepAt ==
  ASSUME NEW f, stack' # << >>, Top' = f, seen' \subseteq StatusFaults => InPhase(f)'
  PROVE  InStep'
BY DEF InStep

\* After a return or a call with pipes and drive ready.
LEMMA InStepSynced ==
  ASSUME seen' \subseteq StatusFaults => Synced', NEW e, NEW fn, Returns(e) \/ Starts(fn)
  PROVE  InStep'
<1>1. CASE stack' = << >>
  BY <1>1 DEF InStep
<1>2. CASE stack' # << >>
  <2>1. PICK f : f = Top'
    OBVIOUS
  <2>2. f.pc \in SyncedPcs
    BY <1>2, <2>1 DEF Returns, Starts, Waiting, Call, SyncedPcs
  <2>3. seen' \subseteq StatusFaults => InPhase(f)'
    BY <2>2, SyncedPhase
  <2> QED BY <1>2, <2>1, <2>3, InStepAt
<1> QED BY <1>1, <1>2

\* So also if the call fails.
LEMMA InStepFails ==
  ASSUME seen' \subseteq StatusFaults => Synced', NEW e, Fails(e)
  PROVE  InStep'
BY InStepSynced DEF Fails

\* A step that leaves pipes and drive alone.
LEMMA SyncedStays ==
  ASSUME Synced, UNCHANGED <<halted, driveVars, faultVars>>
  PROVE  Synced' /\ seen' = seen
BY DEF Synced, driveVars, faultVars

\* What a call finds at its point.
LEMMA PhaseNow ==
  ASSUME InStep, NEW c, NEW pc, At(c, pc), seen \subseteq StatusFaults
  PROVE  InPhase(c) /\ c.pc = pc /\ (pc \in SyncedPcs => Synced)
BY DEF InStep, At, InPhase, SyncedPcs

\* An answer on an empty IN endpoint.
LEMMA AnswerAlone ==
  ASSUME NEW c, DriveTyped, fifo = << >>, Adds(c), seen' \subseteq StatusFaults
  PROVE  /\ HasDataIn(c) => StatusFrom(2, 2)' /\ fifo'[1] = DataOf(c.tag)
         /\ ~HasDataIn(c) => StatusFrom(1, 2)'
<1>1. PICK s \in Seq(Items) : fifo' = fifo \o s /\ Answer(c, s) /\ CleanAnswer(c, s)
  BY DEF Adds
<1>2. fifo' = s
  BY <1>1
<1>3. s[Len(s)].kind = "csw"
  BY <1>1 DEF Answer
<1> QED BY <1>1, <1>2, <1>3 DEF CleanAnswer, StatusFrom

\* A call that has moved on is otherwise what it was.
LEMMA MovedCall ==
  ASSUME NEW c \in Records, NEW p, NEW item
  PROVE  /\ LET f == [c EXCEPT !.pc = p]
            IN  f.pc = p /\ f.fn = c.fn /\ f.tag = c.tag /\ f.got = c.got
         /\ LET f == [c EXCEPT !.pc = p, !.got = item]
            IN  f.pc = p /\ f.fn = c.fn /\ f.tag = c.tag /\ f.got = item
BY DEF Records

\* What is left after the first item.
LEMMA FirstTaken ==
  ASSUME fifo \in Seq(Items), fifo # << >>, fifo' = Tail(fifo)
  PROVE  /\ Len(fifo) \in Nat \ {0} /\ Len(fifo') = Len(fifo) - 1 /\ DOMAIN fifo' = 1..(Len(fifo) - 1)
         /\ \A i \in 1..(Len(fifo) - 1) : fifo'[i] = fifo[i + 1]
OBVIOUS

\* Without its first item, the status phase begins one position earlier.
LEMMA StatusTail ==
  ASSUME fifo \in Seq(Items), fifo # << >>, fifo' = Tail(fifo),
         NEW k \in {1, 2}, NEW n \in {1, 2}, StatusFrom(k, n), Len(fifo) > 1
  PROVE  IF k = 2 THEN StatusFrom(1, n)' ELSE StatusFrom(1, n - 1)'
<1>1. /\ Len(fifo) \in Nat /\ Len(fifo') = Len(fifo) - 1
      /\ \A i \in 1..(Len(fifo) - 1) : fifo'[i] = fifo[i + 1]
  BY FirstTaken
<1>2. fifo'[Len(fifo')] = fifo[Len(fifo)]
  BY <1>1
<1>3. CASE k = 2
  BY <1>1, <1>2, <1>3 DEF StatusFrom
<1>4. CASE k = 1
  BY <1>1, <1>2, <1>4 DEF StatusFrom
<1> QED BY <1>3, <1>4

\* A CBW reaches the drive and its answer has the shape the next stage expects.
LEMMA CommandInStep ==
  ASSUME BotInv, InStep, CommandTransport
  PROVE  InStep'
<1>1. PICK c \in Frames, r \in Codes :
        /\ At(c, "cbw") /\ BulkOut(c, "cbw", r)
        /\ \/ /\ r = "OK"
              /\ Becomes([c EXCEPT !.pc = IF HasDataIn(c) \/ HasDataOut(c) THEN "data" ELSE "csw"])
           \/ Fails(r)
  BY CommandMoves
<1>2. c \in Records /\ DriveTyped
  BY <1>1 DEF At, BotInv
<1>3. /\ seen \subseteq seen'
      /\ CommandSent(c, "cbw", r) \/ DataSent(r) \/ NotSent("cbw", r)
  BY <1>1, <1>2, BulkOutMoves
<1>4. PICK p \in {"data", "csw"} : p = IF HasDataIn(c) \/ HasDataOut(c) THEN "data" ELSE "csw"
  OBVIOUS
<1>5. PICK f \in Records : /\ f = [c EXCEPT !.pc = p] /\ f.pc = p /\ f.tag = c.tag
                           /\ HasDataIn(f) <=> HasDataIn(c)
                           /\ HasDataOut(f) <=> HasDataOut(c)
  <2>1. [c EXCEPT !.pc = p] \in Records
    BY <1>2 DEF Records, CommandPcs
  <2>2. LET f == [c EXCEPT !.pc = p] IN f.pc = p /\ f.tag = c.tag /\ f.fn = c.fn
    BY <1>2 DEF Records
  <2> QED BY <2>1, <2>2 DEF HasDataIn, HasDataOut
<1>6. ASSUME seen' \subseteq StatusFaults
      PROVE  r = "OK" /\ InPhase(f)'
  <2>1. Synced
    BY <1>1, <1>3, <1>6, PhaseNow DEF SyncedPcs
  <2>2. ~DataSent(r)
    BY <2>1 DEF Synced, DataSent, AwaitCbw
  <2>3. ~NotSent("cbw", r)
    BY <1>6, <2>1 DEF Synced, NotSent, Refuses, TakesCbw
  <2>4. CommandSent(c, "cbw", r)
    BY <1>3, <2>2, <2>3
  <2>5. r = "OK" /\ halted' = {}
    BY <1>6, <2>1, <2>4 DEF CommandSent, Synced
  <2>6. CASE HasDataOut(c)
    <3>1. ~HasDataIn(c)
      BY <2>6 DEF HasDataIn, HasDataOut
    <3>2. takes' = [what |-> "data", tag |-> f.tag] /\ fifo' = << >>
      BY <1>5, <2>1, <2>4, <2>6 DEF CommandSent, Synced
    <3>3. f.pc = "data" /\ HasDataOut(f) /\ ~HasDataIn(f)
      BY <1>4, <1>5, <2>6, <3>1
    <3> QED BY <2>5, <3>2, <3>3 DEF InPhase, Callers
  <2>7. CASE ~HasDataOut(c)
    <3>1. takes' = AwaitCbw /\ Adds(c)
      BY <2>1, <2>4, <2>7 DEF CommandSent, Synced
    <3>2. /\ HasDataIn(c) => StatusFrom(2, 2)' /\ fifo'[1] = DataOf(f.tag)
          /\ ~HasDataIn(c) => StatusFrom(1, 2)'
      BY <1>2, <1>5, <1>6, <2>1, <3>1, AnswerAlone DEF Synced
    <3>3. ~HasDataOut(f) /\ f.pc = IF HasDataIn(c) THEN "data" ELSE "csw"
      BY <1>4, <1>5, <2>7
    <3> QED BY <1>5, <2>5, <3>1, <3>2, <3>3 DEF InPhase, Callers
  <2> QED BY <2>5, <2>6, <2>7
<1>7. CASE r = "OK" /\ Becomes(f)
  BY <1>6, <1>7, InStepAt DEF Becomes
<1>8. CASE Fails(r)
  BY <1>6, <1>8, InStepFails DEF Fails
<1> QED BY <1>1, <1>4, <1>5, <1>7, <1>8

\* So it is with the data of a write.
LEMMA DataOutInStep ==
  ASSUME BotInv, InStep, DataOutTransport
  PROVE  InStep'
<1>1. PICK c \in Frames, r \in Codes :
        /\ At(c, "data") /\ HasDataOut(c) /\ BulkOut(c, "data", r)
        /\ \/ r = "OK" /\ Becomes([c EXCEPT !.pc = "csw"])
           \/ Fails(r)
  BY DataOutMoves
<1>2. c \in Records /\ DriveTyped
  BY <1>1 DEF At, BotInv
<1>3. /\ seen \subseteq seen'
      /\ CommandSent(c, "data", r) \/ DataSent(r) \/ NotSent("data", r)
  BY <1>1, <1>2, BulkOutMoves
<1>4. PICK f : f = [c EXCEPT !.pc = "csw"] /\ f.pc = "csw"
  <2>1. [c EXCEPT !.pc = "csw"].pc = "csw"
    BY <1>2, MovedCall
  <2> QED BY <2>1
<1>5. ASSUME seen' \subseteq StatusFaults
      PROVE  r = "OK" /\ InPhase(f)'
  <2>1. halted = {} /\ fifo = << >> /\ takes.what = "data"
    BY <1>1, <1>3, <1>5, PhaseNow DEF InPhase
  <2>2. ~CommandSent(c, "data", r)
    BY DEF CommandSent
  <2>3. ~NotSent("data", r)
    BY <1>5, <2>1 DEF NotSent, Refuses, AwaitCbw
  <2>4. DataSent(r)
    BY <1>3, <2>2, <2>3
  <2>5. r = "OK" /\ halted' = {} /\ takes' = AwaitCbw /\ Adds(Owed)
    BY <1>5, <2>1, <2>4 DEF DataSent
  <2>6. ~HasDataIn(Owed)
    BY DEF Owed, Call, HasDataIn
  <2>7. StatusFrom(1, 2)'
    BY <1>2, <1>5, <2>1, <2>5, <2>6, AnswerAlone
  <2> QED BY <1>4, <2>5, <2>7 DEF InPhase, Callers
<1>6. CASE r = "OK" /\ Becomes(f)
  BY <1>5, <1>6, InStepAt DEF Becomes
<1>7. CASE Fails(r)
  BY <1>5, <1>7, InStepFails DEF Fails
<1> QED BY <1>1, <1>4, <1>6, <1>7

\* The data come first and leave the status phase.
LEMMA DataInInStep ==
  ASSUME BotInv, InStep, DataInTransport
  PROVE  InStep'
<1>1. PICK c \in Frames, r \in Codes, item \in ItemsIn :
        /\ At(c, "data") /\ HasDataIn(c) /\ BulkIn(c, r, item)
        /\ \/ r = "OK" /\ Becomes([c EXCEPT !.pc = "csw", !.got = item])
           \/ Fails(r)
  BY DataInMoves
<1>2. c \in Records /\ DriveTyped
  BY <1>1 DEF At, BotInv
<1>3. /\ seen \subseteq seen' /\ takes' = takes
      /\ Received(c, r, item) \/ NotReceived(r)
  BY <1>1, <1>2, BulkInMoves
<1>4. PICK f : f = [c EXCEPT !.pc = "csw", !.got = item] /\ f.pc = "csw"
  <2>1. [c EXCEPT !.pc = "csw", !.got = item].pc = "csw"
    BY <1>2, MovedCall
  <2> QED BY <2>1
<1>5. ASSUME seen' \subseteq StatusFaults
      PROVE  r = "OK" /\ InPhase(f)'
  <2>1. /\ halted = {} /\ takes = AwaitCbw
        /\ StatusFrom(2, 2) /\ fifo[1] = DataOf(c.tag)
    BY <1>1, <1>3, <1>5, PhaseNow DEF InPhase
  <2>2. fifo[1] # Stall /\ fifo[1].tag = c.tag
    BY <2>1 DEF DataOf, Item, Stall
  <2>3. fifo \in Seq(Items) /\ fifo # << >>
    BY <1>2, <2>1 DEF DriveTyped, StatusFrom
  <2>4. ~NotReceived(r)
    BY <1>5, <2>1, <2>2, <2>3 DEF NotReceived
  <2>5. r = "OK" /\ halted' = {} /\ fifo' = Tail(fifo)
    BY <1>1, <1>3, <2>1, <2>2, <2>4 DEF Received, At
  <2>6. Len(fifo) > 1
    <3>1. Len(fifo) \in 2..(2 + 2)
      BY <2>1, Zenon DEF StatusFrom
    <3> QED BY <3>1
  <2>7. StatusFrom(1, 2)'
    BY <2>1, <2>3, <2>5, <2>6, StatusTail
  <2> QED BY <1>3, <1>4, <2>1, <2>5, <2>7 DEF InPhase, Callers
<1>6. CASE r = "OK" /\ Becomes(f)
  BY <1>5, <1>6, InStepAt DEF Becomes
<1>7. CASE Fails(r)
  BY <1>5, <1>7, InStepFails DEF Fails
<1> QED BY <1>1, <1>4, <1>6, <1>7

\* The CSW, received: nothing is left.
LEMMA StatusReceived ==
  ASSUME DriveTyped, NEW c \in Records, c.pc \in {"csw", "csw2"}, NEW r \in Codes, NEW item \in ItemsIn,
         Received(c, r, item), takes' = takes,
         halted = {}, takes = AwaitCbw, NEW n \in {1, 2}, StatusFrom(1, n)
  PROVE  Synced'
<1>1. fifo \in Seq(Items) /\ Len(fifo) \in 1..(1 + n) /\ fifo # << >> /\ item = fifo[1] /\ item # Stall
  BY DEF DriveTyped, StatusFrom, Received
<1>2. Len(fifo) = 1
  <2>1. PICK m \in Nat : m = Len(fifo) /\ m # 0
    BY <1>1
  <2>2. ASSUME m > 1 PROVE FALSE
    <3>1. 1 \in 1..(m - 1)
      BY <2>2
    <3>2. fifo[1] = Stall
      BY <2>1, <3>1 DEF StatusFrom
    <3> QED BY <1>1, <3>2
  <2>3. m = 1
    BY <2>1, <2>2
  <2> QED BY <2>1, <2>3
<1>3. item.kind = "csw"
  BY <1>1, <1>2 DEF StatusFrom
<1>4. fifo' = Tail(fifo)
  BY <1>3 DEF Received
<1>5. fifo' = << >>
  BY <1>1, <1>2, <1>4
<1> QED BY <1>5 DEF Synced, Received

\* A stall in place of the CSW.
LEMMA StatusStalled ==
  ASSUME DriveTyped, NEW r \in Codes, NotReceived(r), seen' \subseteq StatusFaults,
         halted = {}, NEW n \in {1, 2}, StatusFrom(1, n)
  PROVE  /\ r = "STALL" /\ halted' = {"in"} /\ fifo' = fifo /\ StatusFrom(1, n)' /\ Len(fifo') > 1
         /\ fifo' # << >> /\ Head(fifo') = Stall
<1>1. fifo \in Seq(Items) /\ Len(fifo) \in 1..(1 + n) /\ fifo # << >>
  BY DEF DriveTyped, StatusFrom
<1>2. r = "STALL"
  BY <1>1 DEF NotReceived
<1>3. fifo[1] = Stall /\ fifo' = fifo /\ halted' = {"in"}
  BY <1>2 DEF NotReceived
<1>4. Len(fifo) # 1
  BY <1>3 DEF StatusFrom, Stall, Item
<1>5. StatusFrom(1, n)'
  BY <1>3 DEF StatusFrom
<1>6. Len(fifo') > 1 /\ fifo' # << >> /\ Head(fifo') = Stall
  <2>1. fifo \in Seq(Items) /\ fifo # << >> /\ fifo[1] = Stall /\ Len(fifo) # 1
    BY <1>1, <1>3, <1>4
  <2>2. Head(fifo) = Stall
    BY <2>1
  <2>3. PICK m \in Nat : m = Len(fifo) /\ m # 0
    BY <1>1
  <2>4. m > 1
    BY <2>3, <1>4
  <2> QED BY <1>3, <2>1, <2>2, <2>3, <2>4
<1> QED BY <1>2, <1>3, <1>5, <1>6

\* The CSW comes last, or a stall is in its place.
LEMMA StatusInStep ==
  ASSUME BotInv, InStep, StatusTransport
  PROVE  InStep'
<1>1. PICK c \in Frames, r \in Codes, item \in ItemsIn :
        /\ At(c, "csw") /\ BulkIn(c, r, item)
        /\ \/ r = "OK" /\ Checked(c, item)
           \/ r = "STALL" /\ Becomes([c EXCEPT !.pc = "clear"])
           \/ r # "STALL" /\ Fails(r)
  BY StatusMoves
<1>2. c \in Records /\ c.pc = "csw" /\ DriveTyped
  BY <1>1 DEF At, BotInv
<1>3. /\ seen \subseteq seen' /\ takes' = takes
      /\ Received(c, r, item) \/ NotReceived(r)
  BY <1>1, <1>2, BulkInMoves
<1>4. PICK f : f = [c EXCEPT !.pc = "clear"] /\ f.pc = "clear"
  <2>1. [c EXCEPT !.pc = "clear"].pc = "clear"
    BY <1>2, MovedCall
  <2> QED BY <2>1
<1>5. seen' \subseteq StatusFaults => halted = {} /\ takes = AwaitCbw /\ StatusFrom(1, 2)
  BY <1>1, <1>3, PhaseNow DEF InPhase
<1>6. CASE r = "OK" /\ Checked(c, item)
  <2>1. Received(c, r, item)
    BY <1>3, <1>6 DEF NotReceived
  <2>2. seen' \subseteq StatusFaults => Synced'
    BY <1>2, <1>3, <1>5, <2>1, StatusReceived
  <2> QED BY <1>6, <2>2, InStepSynced, InStepFails DEF Checked
<1>7. CASE r # "OK"
  <2>1. NotReceived(r)
    BY <1>3, <1>7 DEF Received
  <2>2. seen' \subseteq StatusFaults =>
          r = "STALL" /\ halted' = {"in"} /\ StatusFrom(1, 2)' /\ Len(fifo') > 1
    BY <1>2, <1>5, <2>1, StatusStalled
  <2>3. CASE r = "STALL" /\ Becomes(f)
    <3>1. seen' \subseteq StatusFaults => InPhase(f)'
      BY <1>3, <1>4, <1>5, <2>2 DEF InPhase, Callers
    <3> QED BY <2>3, <3>1, InStepAt DEF Becomes
  <2>4. CASE r # "STALL" /\ Fails(r)
    BY <2>2, <2>4, InStepFails
  <2> QED BY <1>1, <1>4, <1>7, <2>3, <2>4
<1> QED BY <1>1, <1>6, <1>7 DEF Fails

\* One stall less.
LEMMA ClearInStep ==
  ASSUME BotInv, InStep, ClearStatusStall
  PROVE  InStep'
<1>1. PICK c \in Frames, r \in Codes :
        /\ At(c, "clear") /\ clear_feature("in", r)
        /\ (r = "OK" /\ Becomes([c EXCEPT !.pc = "csw2"])) \/ Fails(r)
  BY ClearStallMoves
<1>2. c \in Records /\ DriveTyped
  BY <1>1 DEF At, BotInv
<1>3. /\ seen \subseteq seen' /\ takes' = takes
      /\ r = "OK" => /\ halted' = halted \ {"in"}
                     /\ fifo # << >> /\ fifo[1] = Stall => fifo' = Tail(fifo)
      /\ seen' \subseteq StatusFaults /\ r # "OK" => "in" \notin halted
  BY <1>1, <1>2, ClearMoves
<1>4. PICK f : f = [c EXCEPT !.pc = "csw2"] /\ f.pc = "csw2"
  <2>1. [c EXCEPT !.pc = "csw2"].pc = "csw2"
    BY <1>2, MovedCall
  <2> QED BY <2>1
<1>5. ASSUME seen' \subseteq StatusFaults
      PROVE  r = "OK" /\ InPhase(f)'
  <2>1. halted = {"in"} /\ takes = AwaitCbw /\ StatusFrom(1, 2) /\ Len(fifo) > 1
    BY <1>1, <1>3, <1>5, PhaseNow DEF InPhase
  <2>2. r = "OK" /\ halted' = {}
    BY <1>3, <1>5, <2>1
  <2>3. fifo \in Seq(Items) /\ Len(fifo) \in Nat /\ fifo # << >>
    BY <1>2, <2>1 DEF DriveTyped
  <2>4. 1 \in 1..(Len(fifo) - 1)
    BY <2>1, <2>3
  <2>5. fifo[1] = Stall
    BY <2>1, <2>4 DEF StatusFrom
  <2>6. fifo' = Tail(fifo)
    BY <1>3, <2>2, <2>3, <2>5
  <2>7. StatusFrom(1, 2 - 1)'
    BY <2>1, <2>3, <2>6, StatusTail
  <2>8. StatusFrom(1, 1)'
    BY <2>7
  <2> QED BY <1>3, <1>4, <2>1, <2>2, <2>8 DEF InPhase, Callers
<1>6. CASE r = "OK" /\ Becomes(f)
  BY <1>5, <1>6, InStepAt DEF Becomes
<1>7. CASE Fails(r)
  BY <1>5, <1>7, InStepFails DEF Fails
<1> QED BY <1>1, <1>4, <1>6, <1>7

\* A second stall leads to the recovery with the pipe halted.
LEMMA StatusAgainInStep ==
  ASSUME BotInv, InStep, StatusAgain
  PROVE  InStep'
<1>1. PICK c \in Frames, r \in Codes, item \in ItemsIn :
        /\ At(c, "csw2") /\ BulkIn(c, r, item)
        /\ (r = "OK" /\ Checked(c, item)) \/ (r # "OK" /\ Enters)
  BY StatusAgainMoves
<1>2. c \in Records /\ c.pc = "csw2" /\ DriveTyped
  BY <1>1 DEF At, BotInv
<1>3. /\ seen \subseteq seen' /\ takes' = takes
      /\ Received(c, r, item) \/ NotReceived(r)
  BY <1>1, <1>2, BulkInMoves
<1>4. seen' \subseteq StatusFaults => halted = {} /\ takes = AwaitCbw /\ StatusFrom(1, 1)
  BY <1>1, <1>3, PhaseNow DEF InPhase
<1>5. CASE r = "OK" /\ Checked(c, item)
  <2>1. Received(c, r, item)
    BY <1>3, <1>5 DEF NotReceived
  <2>2. seen' \subseteq StatusFaults => Synced'
    BY <1>2, <1>3, <1>4, <2>1, StatusReceived
  <2> QED BY <1>5, <2>2, InStepSynced, InStepFails DEF Checked
<1>6. CASE r # "OK" /\ Enters
  <2>1. NotReceived(r)
    BY <1>3, <1>6 DEF Received
  <2>2. PICK f : f = Top' /\ f.pc = "reset"
    BY <1>6 DEF Enters
  <2>3. seen' \subseteq StatusFaults => halted' = {"in"} /\ fifo' # << >> /\ Head(fifo') = Stall
    BY <1>2, <1>4, <2>1, StatusStalled
  <2>4. seen' \subseteq StatusFaults => InPhase(f)'
    BY <1>3, <1>4, <2>2, <2>3 DEF InPhase, Callers
  <2> QED BY <1>6, <2>2, <2>4, InStepAt DEF Enters
<1> QED BY <1>1, <1>5, <1>6

\* The reset keeps the stall only.
LEMMA ResetInStep ==
  ASSUME BotInv, InStep, RecoveryReset
  PROVE  InStep'
<1>1. PICK c \in Frames, r \in Codes :
        /\ At(c, "reset") /\ msc_mass_reset(r)
        /\ (r = "OK" /\ Becomes([c EXCEPT !.pc = "clear_in"])) \/ Fails(r)
  BY ResetStepMoves
<1>2. c \in Records /\ DriveTyped
  BY <1>1 DEF At, BotInv
<1>3. /\ seen \subseteq seen' /\ halted' = halted
      /\ r = "OK" => /\ takes' = AwaitCbw /\ fifo' \in {<< >>, <<Stall>>}
                     /\ fifo' = <<Stall>> => fifo # << >> /\ Head(fifo) = Stall
                     /\ fifo' = << >> => ~(fifo # << >> /\ Head(fifo) = Stall)
      /\ r # "OK" => ~(seen' \subseteq StatusFaults)
  BY <1>1, <1>2, ResetMoves
<1>4. PICK f : f = [c EXCEPT !.pc = "clear_in"] /\ f.pc = "clear_in"
  <2>1. [c EXCEPT !.pc = "clear_in"].pc = "clear_in"
    BY <1>2, MovedCall
  <2> QED BY <2>1
<1>5. ASSUME seen' \subseteq StatusFaults
      PROVE  r = "OK" /\ InPhase(f)'
  <2>1. \/ Synced
        \/ halted = {"in"} /\ takes = AwaitCbw /\ fifo # << >> /\ Head(fifo) = Stall
    BY <1>1, <1>3, <1>5, PhaseNow DEF InPhase
  <2>2. r = "OK"
    BY <1>3, <1>5
  <2>3. Synced' \/ (halted' = {"in"} /\ takes' = AwaitCbw /\ fifo' = <<Stall>>)
    BY <1>3, <2>1, <2>2 DEF Synced
  <2> QED BY <1>4, <2>2, <2>3 DEF InPhase, Callers
<1>6. CASE r = "OK" /\ Becomes(f)
  BY <1>5, <1>6, InStepAt DEF Becomes
<1>7. CASE Fails(r)
  BY <1>5, <1>7, InStepFails DEF Fails
<1> QED BY <1>1, <1>4, <1>6, <1>7

\* clear_feature of the IN pipe removes it: it succeeds where the pipe is halted.
LEMMA RecoveryClearInStep ==
  ASSUME BotInv, InStep, RecoveryClear
  PROVE  InStep'
<1>0. DriveTyped
  BY DEF BotInv
<1>1. PICK c \in Frames, r \in Codes :
        \/ At(c, "clear_in") /\ clear_feature("in", r) /\ Becomes([c EXCEPT !.pc = "clear_out"])
        \/ At(c, "clear_out") /\ clear_feature("out", r) /\ Becomes([c EXCEPT !.pc = "ready"])
  BY RecoveryClearMoves
<1>2. CASE At(c, "clear_in") /\ clear_feature("in", r) /\ Becomes([c EXCEPT !.pc = "clear_out"])
  <2>1. c \in Records
    BY <1>2 DEF At
  <2>2. PICK f : f = [c EXCEPT !.pc = "clear_out"] /\ f.pc = "clear_out"
    <3>1. [c EXCEPT !.pc = "clear_out"].pc = "clear_out"
      BY <2>1, MovedCall
    <3> QED BY <3>1
  <2>3. /\ seen \subseteq seen' /\ takes' = takes /\ halted' \subseteq halted
        /\ fifo' = fifo \/ (fifo # << >> /\ fifo' = Tail(fifo))
        /\ r = "OK" => /\ halted' = halted \ {"in"}
                       /\ fifo # << >> /\ fifo[1] = Stall => fifo' = Tail(fifo)
        /\ seen' \subseteq StatusFaults /\ r # "OK" => "in" \notin halted
    BY <1>0, <1>2, ClearMoves
  <2>4. ASSUME seen' \subseteq StatusFaults
        PROVE  Synced'
    <3>1. Synced \/ (halted = {"in"} /\ takes = AwaitCbw /\ fifo = <<Stall>>)
      BY <1>2, <2>3, <2>4, PhaseNow DEF InPhase
    <3>2. CASE Synced
      BY <2>3, <3>2 DEF Synced
    <3>3. CASE halted = {"in"} /\ takes = AwaitCbw /\ fifo = <<Stall>>
      <4>1. fifo # << >> /\ fifo[1] = Stall /\ Tail(fifo) = << >>
        BY <3>3
      <4> QED BY <2>3, <2>4, <3>3, <4>1 DEF Synced
    <3> QED BY <3>1, <3>2, <3>3
  <2>5. seen' \subseteq StatusFaults => InPhase(f)'
    BY <2>2, <2>4, SyncedPhase DEF SyncedPcs
  <2> QED BY <1>2, <2>2, <2>5, InStepAt DEF Becomes
<1>3. CASE At(c, "clear_out") /\ clear_feature("out", r) /\ Becomes([c EXCEPT !.pc = "ready"])
  <2>1. c \in Records
    BY <1>3 DEF At
  <2>2. PICK f : f = [c EXCEPT !.pc = "ready"] /\ f.pc = "ready"
    <3>1. [c EXCEPT !.pc = "ready"].pc = "ready"
      BY <2>1, MovedCall
    <3> QED BY <3>1
  <2>3. seen \subseteq seen' /\ takes' = takes /\ halted' \subseteq halted /\ fifo' = fifo
    BY <1>0, <1>3, ClearMoves
  <2>4. seen' \subseteq StatusFaults => Synced
    BY <1>3, <2>3, PhaseNow DEF SyncedPcs
  <2>5. seen' \subseteq StatusFaults => Synced'
    BY <2>3, <2>4 DEF Synced
  <2>6. seen' \subseteq StatusFaults => InPhase(f)'
    BY <2>2, <2>5, SyncedPhase DEF SyncedPcs
  <2> QED BY <1>3, <2>2, <2>6, InStepAt DEF Becomes
<1> QED BY <1>1, <1>2, <1>3

\* The steps that leave pipes and drive alone start where these are ready.
LEMMA QuietInStep ==
  ASSUME BotInv, InStep, Recovered \/ Sensed \/ ReadyPoll \/ ReadyPolled \/ ReadyKeyed
  PROVE  InStep'
<1>1. PICK c \in Frames, pc \in {"recovered", "sensed", "ready", "polled", "keyed"} :
        /\ At(c, pc) /\ UNCHANGED <<halted, driveVars, faultVars>>
        /\ \/ \E e : Fails(e) \/ Returns(e)
           \/ \E fn : Starts(fn)
           \/ \E f \in Frames : f.pc = "ready" /\ Becomes(f)
  BY RecoveredMoves, SensedMoves, PollMoves, PolledMoves, KeyedMoves
<1>2. seen' \subseteq StatusFaults => Synced'
  <2>1. seen' = seen
    BY <1>1 DEF faultVars
  <2>2. pc \in SyncedPcs
    BY DEF SyncedPcs, Callers
  <2> QED BY <1>1, <2>1, <2>2, PhaseNow, SyncedStays
<1>3. CASE \E f \in Frames : f.pc = "ready" /\ Becomes(f)
  <2>1. PICK f \in Frames : f.pc = "ready" /\ Becomes(f)
    BY <1>3
  <2>2. seen' \subseteq StatusFaults => InPhase(f)'
    BY <1>2, <2>1, SyncedPhase DEF SyncedPcs
  <2> QED BY <2>1, <2>2, InStepAt DEF Becomes
<1>4. CASE \E e : Fails(e)
  BY <1>2, <1>4, InStepFails
<1>5. CASE (\E e : Returns(e)) \/ (\E fn : Starts(fn))
  BY <1>2, <1>5, InStepSynced
<1> QED BY <1>1, <1>3, <1>4, <1>5

\* So does a call by the task.
LEMMA IssueInStep ==
  ASSUME BotInv, InStep, IssueRecovery \/ \E c \in Commands : Issue(c)
  PROVE  InStep'
<1>1. stack = << >>
  BY DEF IssueRecovery, Issue
<1>2. /\ UNCHANGED <<halted, driveVars, faultVars>>
      /\ Enters \/ \E c \in Commands : Starts(c)
  BY <1>1, IssueMoves
<1>3. seen' \subseteq StatusFaults => Synced'
  BY <1>1, <1>2, SyncedStays DEF InStep, faultVars
<1>4. CASE Enters
  <2>1. PICK f : f = Top' /\ f.pc = "reset"
    BY <1>4 DEF Enters
  <2>2. seen' \subseteq StatusFaults => InPhase(f)'
    BY <1>3, <2>1 DEF InPhase, Callers
  <2> QED BY <1>4, <2>1, <2>2, InStepAt DEF Enters
<1>5. CASE \E c \in Commands : Starts(c)
  BY <1>3, <1>5, InStepSynced
<1> QED BY <1>2, <1>4, <1>5

\* Every step keeps InStep.
LEMMA InStepStep == BotInv /\ InStep /\ [BotNext]_vars => InStep'
<1> SUFFICES ASSUME BotInv, InStep, [BotNext]_vars PROVE InStep'
  OBVIOUS
<1>1. CASE BotStep
  BY <1>1, CommandInStep, DataOutInStep, DataInInStep, StatusInStep, ClearInStep, StatusAgainInStep,
     ResetInStep, RecoveryClearInStep, QuietInStep DEF BotStep
<1>2. CASE IssueRecovery \/ \E c \in Commands : Issue(c)
  BY <1>2, IssueInStep
<1>3. CASE UNCHANGED vars
  BY <1>3 DEF vars, InStep, Top, InPhase, Synced, StatusFrom
<1> QED BY <1>1, <1>2, <1>3 DEF BotNext

-----------------------------------------------------------------------------
(* The invariants of BotSpec.                                               *)

\* BotInv implies the type invariant.
LEMMA BotInvTypes == BotInv => BotTypeOK
<1> SUFFICES ASSUME BotInv PROVE BotTypeOK
  OBVIOUS
<1>1. \A i \in DOMAIN stack : stack[i] \in Frames /\ (i > 1 => stack[i] \in Waiting)
  <2>1. stack \in Seq(Frames)
    BY DEF BotInv, HostTyped, StackOK
  <2>2. ASSUME NEW i \in DOMAIN stack, i > 1
        PROVE  stack[i] \in Waiting
    <3>1. stack # << >> /\ i - 1 \in 1..Len(Tail(stack)) /\ Tail(stack)[i - 1] = stack[i]
      BY <2>1, <2>2
    <3>2. Tail(stack) \in Seq(Waiting)
      BY <3>1 DEF BotInv, HostTyped, StackOK
    <3> QED BY <3>1, <3>2
  <2> QED BY <2>1, <2>2
<1>2. takes.what \in {"cbw", "data"} /\ takes.tag \in Tags
  <2>1. 0 \in Tags
    BY BotConstants DEF Tags
  <2> QED BY <2>1 DEF BotInv, DriveTyped, AwaitCbw
<1>3. \A f \in Frames : /\ f.fn \in Commands \cup {"sense", "recovery"}
                        /\ f.tag \in Tags /\ f.err \in Codes /\ f.got \in Items
                        /\ f.trials \in 0..MaxTrials
  BY DEF Frames, Records
<1>4. \A f \in Waiting : f.pc \in Callers
  BY DEF Waiting
<1>5. \A i \in DOMAIN fifo : fifo[i] \in Items
  BY DEF BotInv, DriveTyped
<1> QED BY <1>1, <1>2, <1>3, <1>4, <1>5 DEF BotTypeOK, BotInv, HostTyped, DriveTyped

\* Types and phases hold throughout, whatever the constants.
THEOREM BotInvariance == BotSpec => [](BotInv /\ InStep)
<1>1. BotInit => InStep
  BY DEF BotInit, InStep, Synced
<1> QED BY <1>1, BotInvInit, BotInvStep, InStepStep, PTL DEF BotSpec

\* Type correctness of the transport: only the innermost call is at work, those
\* that called it wait where they resume.
THEOREM BotTypeCorrect == BotSpec => []BotTypeOK
BY BotInvariance, BotInvTypes, PTL

\* However often the status phase stalls or fails, also within the recovery, the
\* next command finds pipes and drive ready (bot_execute_command, 3.1 and 3.2).
THEOREM StatusFaultsTheorem == BotSpec => []StatusFaultsLeaveSync
<1>1. BotInv /\ InStep => StatusFaultsLeaveSync
  BY DEF InStep, Synced, StatusFaultsLeaveSync
<1> QED BY <1>1, BotInvariance, PTL

-----------------------------------------------------------------------------
(* What a command finds of the others, as long as no tag is used twice.     *)

\* After a return that is not a success, or leaves pipes and drive ready.
LEMMA TagsReturn ==
  ASSUME NEW t, t = cbw_tag, TagsUpTo(t)', NEW e, Returns(e), e = "OK" => Synced'
  PROVE  TagInv'
<1>1. TagsUpTo(cbw_tag)'
  BY DEF Returns, TagsUpTo, OwnCsw
<1>2. CASE stack' # << >>
  <2>1. PICK f : f = Top' /\ f.pc \in Callers
    BY <1>2 DEF Returns, Waiting
  <2>2. OwnTrace(f)'
    BY <2>1 DEF OwnTrace, Callers, Working, Returns
  <2> QED BY <1>1, <2>1, <2>2 DEF TagInv
<1> QED BY <1>1, <1>2 DEF TagInv

\* The next tag is above all tags there are.
LEMMA TagsStart ==
  ASSUME HostTyped, DriveTyped', cbw_tag + 1 < TagMod, NEW t, t = cbw_tag, TagsUpTo(t)',
         NEW fn, Starts(fn)
  PROVE  TagInv'
<1>1. PICK n \in Nat : n = t + 1 /\ n = cbw_tag' /\ n = NextTag /\ t \in Nat
  BY TagFacts DEF HostTyped, Starts
<1>2. PICK f : f = Top' /\ f.pc = "cbw" /\ f.tag = n
  BY <1>1 DEF Starts, Call
<1>3. \A i \in DOMAIN fifo' : fifo'[i].tag \in Nat /\ fifo'[i].tag <= t
  <2>1. Tags \subseteq Nat
    BY DEF Tags
  <2>2. \A i \in DOMAIN fifo' : fifo'[i].tag \in Tags
    <3>1. \A i \in DOMAIN fifo' : fifo'[i] \in Items
      BY DEF DriveTyped
    <3> QED BY <3>1 DEF Items
  <2> QED BY <2>1, <2>2 DEF TagsUpTo
<1>4. takes'.tag \in Nat /\ takes'.tag <= t
  BY TagFacts DEF HostTyped, DriveTyped, TagsUpTo, AwaitCbw
<1>5. \A i \in DOMAIN fifo' : fifo'[i].tag <= n /\ fifo'[i].tag # n
  BY <1>1, <1>3
<1>6. takes'.tag <= n /\ takes'.tag # n
  BY <1>1, <1>4
<1>7. TagsUpTo(n)'
  BY <1>5, <1>6 DEF TagsUpTo, OwnCsw
<1>8. Unsent(n)'
  BY <1>5, <1>6 DEF Unsent, OwnData, OwnCsw
<1>9. OwnTrace(f)'
  BY <1>1, <1>2, <1>8 DEF OwnTrace, Working
<1>10. TagsUpTo(cbw_tag)'
  BY <1>1, <1>7 DEF TagsUpTo, OwnCsw
<1> QED BY <1>2, <1>9, <1>10 DEF TagInv

\* After a failure.
LEMMA TagsFail ==
  ASSUME HostTyped, DriveTyped', cbw_tag + 1 < TagMod, NEW t, t = cbw_tag, TagsUpTo(t)',
         NEW e, Fails(e)
  PROVE  TagInv'
BY TagsReturn, TagsStart DEF Fails

\* After a step at the end of which the call f, of an older tag or none, is at the top.
LEMMA TagsBecome ==
  ASSUME NEW t, t = cbw_tag, TagsUpTo(t)', NEW f, stack' # << >>, Top' = f, cbw_tag' = cbw_tag,
         OwnTrace(f)'
  PROVE  TagInv'
BY DEF TagInv, TagsUpTo, OwnCsw

\* A call that is not at work on a command finds nothing in particular.
LEMMA TraceElsewhere ==
  ASSUME NEW f, f.pc \notin Working, f.pc # "polled"
  PROVE  OwnTrace(f)'
BY DEF OwnTrace, Working

\* An answer keeps the tags in order, if the last command has no CSW there yet.
LEMMA AddsTags ==
  ASSUME DriveTyped, NEW t \in Nat, TagsUpTo(t), NEW c, Adds(c), c.tag \in Nat, c.tag <= t,
         \A i \in DOMAIN fifo : ~OwnCsw(t, i), takes' = AwaitCbw
  PROVE  /\ TagsUpTo(t)'
         /\ c.tag # t => \A i \in DOMAIN fifo' : ~OwnCsw(t, i)'
<1>1. PICK s \in Seq(Items) : fifo' = fifo \o s /\ Answer(c, s)
  BY DEF Adds
<1>2. PICK m \in Nat, l \in Nat : m = Len(fifo) /\ l = Len(s) /\ l >= 1 /\ fifo \in Seq(Items)
  BY <1>1 DEF DriveTyped, Answer
<1>3. /\ DOMAIN fifo' = 1..(m + l) /\ Len(fifo') = m + l
      /\ \A i \in 1..m : fifo'[i] = fifo[i]
      /\ \A i \in 1..(m + l) : i > m => i - m \in 1..l /\ fifo'[i] = s[i - m]
  BY <1>1, <1>2
<1>4. s[l].kind = "csw" /\ s[l].tag = c.tag
  BY <1>1, <1>2 DEF Answer
<1>5. \A j \in 1..l : j # l => s[j].kind # "csw" /\ (s[j].tag = 0 \/ s[j].tag = c.tag)
  <2>1. \A j \in 1..l : j # l => j \in 1..(l - 1)
    BY <1>2
  <2>2. \A j \in 1..(l - 1) : s[j] = Stall \/ s[j] = DataOf(c.tag)
    BY <1>1, <1>2 DEF Answer
  <2>3. Stall.kind # "csw" /\ Stall.tag = 0 /\ DataOf(c.tag).kind # "csw" /\ DataOf(c.tag).tag = c.tag
    BY DEF Stall, DataOf, Item
  <2> QED BY <2>1, <2>2, <2>3
<1>6. \A i \in DOMAIN fifo' : fifo'[i].tag <= t
  <2>1. \A j \in 1..l : s[j].tag <= t
    BY <1>4, <1>5
  <2>2. \A i \in 1..m : fifo[i].tag <= t
    BY <1>2 DEF TagsUpTo
  <2>3. \A i \in 1..(m + l) : i \in 1..m \/ i > m
    BY <1>2
  <2> QED BY <1>3, <2>1, <2>2, <2>3
<1>7. \A i \in DOMAIN fifo' : OwnCsw(t, i)' => i = m + l /\ c.tag = t
  <2>1. ASSUME NEW i \in 1..(m + l), OwnCsw(t, i)'
        PROVE  i = m + l /\ c.tag = t
    <3>1. fifo'[i].kind = "csw" /\ fifo'[i].tag = t
      BY <2>1 DEF OwnCsw
    <3>2. CASE i \in 1..m
      <4>1. OwnCsw(t, i) /\ i \in DOMAIN fifo
        BY <1>2, <1>3, <3>1, <3>2 DEF OwnCsw
      <4> QED BY <4>1
    <3>3. CASE i > m
      <4>1. i - m \in 1..l /\ fifo'[i] = s[i - m]
        BY <1>3, <3>3
      <4>2. i - m = l
        BY <1>5, <3>1, <4>1
      <4>3. c.tag = t
        BY <1>4, <3>1, <4>1, <4>2
      <4>4. i = m + l
        BY <1>2, <4>2
      <4> QED BY <4>3, <4>4
    <3>4. i \in 1..m \/ i > m
      BY <1>2
    <3> QED BY <3>2, <3>3, <3>4
  <2> QED BY <1>3, <2>1
<1>8. takes'.tag <= t
  BY DEF AwaitCbw
<1> QED BY <1>3, <1>6, <1>7, <1>8 DEF TagsUpTo

\* So does taking the first item, or none.
LEMMA TakesTags ==
  ASSUME DriveTyped, NEW t \in Nat, TagsUpTo(t), takes' = takes,
         fifo' = fifo \/ (fifo # << >> /\ fifo' = Tail(fifo))
  PROVE  TagsUpTo(t)'
<1>1. CASE fifo' = fifo
  BY <1>1 DEF TagsUpTo, OwnCsw
<1>2. CASE fifo # << >> /\ fifo' = Tail(fifo)
  <2>1. PICK m \in Nat \ {0} : /\ m = Len(fifo) /\ Len(fifo') = m - 1 /\ DOMAIN fifo' = 1..(m - 1)
                               /\ \A i \in 1..(m - 1) : fifo'[i] = fifo[i + 1]
                               /\ DOMAIN fifo = 1..m
    <3>1. fifo \in Seq(Items) /\ DOMAIN fifo = 1..Len(fifo)
      BY DEF DriveTyped
    <3>2. /\ Len(fifo) \in Nat \ {0} /\ Len(fifo') = Len(fifo) - 1 /\ DOMAIN fifo' = 1..(Len(fifo) - 1)
          /\ \A i \in 1..(Len(fifo) - 1) : fifo'[i] = fifo[i + 1]
      BY <1>2, <3>1, FirstTaken
    <3> QED BY <3>1, <3>2
  <2>2. ASSUME NEW i \in DOMAIN fifo'
        PROVE  fifo'[i].tag <= t /\ (OwnCsw(t, i)' => i = Len(fifo') /\ takes' = AwaitCbw)
    <3>1. i + 1 \in DOMAIN fifo /\ fifo'[i] = fifo[i + 1]
      BY <2>1
    <3>2. OwnCsw(t, i)' => OwnCsw(t, i + 1)
      BY <3>1 DEF OwnCsw
    <3>3. i + 1 = m => i = m - 1
      BY <2>1
    <3> QED BY <2>1, <3>1, <3>2, <3>3 DEF TagsUpTo
  <2> QED BY <2>2 DEF TagsUpTo
<1> QED BY <1>1, <1>2

\* The tag of the last command is a number.
LEMMA TagIsNat ==
  ASSUME BotInv
  PROVE  \E t \in Nat : t = cbw_tag /\ t \in Tags
BY TagFacts DEF BotInv, HostTyped

\* msc_bulk_transfer OUT, of a command that has not been sent.
LEMMA CommandTags ==
  ASSUME DriveTyped, NEW c \in Records, NEW r \in Codes, NEW t \in Nat, c.tag = t, TagsUpTo(t), Unsent(t),
         CommandSent(c, "cbw", r) \/ DataSent(r) \/ NotSent("cbw", r)
  PROVE  /\ TagsUpTo(t)'
         /\ HasDataIn(c) => DataThere(t)'
<1>0. /\ \A i \in DOMAIN fifo : ~OwnData(t, i) /\ ~OwnCsw(t, i)
      /\ takes.what = "data" => takes.tag # t
  BY DEF Unsent
<1>1. CASE NotSent("cbw", r)
  <2>1. r # "OK" /\ takes' = takes /\ fifo' = fifo
    BY <1>1 DEF NotSent
  <2>2. TagsUpTo(t)'
    BY <2>1 DEF TagsUpTo, OwnCsw
  <2>3. DataThere(t)'
    BY <1>0, <2>1 DEF DataThere, OwnCsw
  <2> QED BY <2>2, <2>3
<1>2. CASE DataSent(r)
  <2>1. takes.what = "data" /\ takes' = AwaitCbw /\ Adds(Owed)
    BY <1>2 DEF DataSent
  <2>2. Owed.tag = takes.tag
    BY DEF Owed, Call
  <2>3. Owed.tag \in Nat /\ Owed.tag <= t /\ Owed.tag # t
    BY <1>0, <2>1, <2>2 DEF DriveTyped, TagsUpTo, Tags, AwaitCbw
  <2>4. TagsUpTo(t)' /\ \A i \in DOMAIN fifo' : ~OwnCsw(t, i)'
    BY <1>0, <2>1, <2>3, AddsTags
  <2> QED BY <2>4 DEF DataThere
<1>3. CASE CommandSent(c, "cbw", r) /\ HasDataOut(c)
  <2>1. takes' = [what |-> "data", tag |-> t] /\ fifo' = fifo
    BY <1>3 DEF CommandSent
  <2>2. ~HasDataIn(c)
    BY <1>3 DEF HasDataIn, HasDataOut
  <2>3. TagsUpTo(t)'
    BY <1>0, <2>1 DEF TagsUpTo, OwnCsw
  <2> QED BY <2>2, <2>3
<1>4. CASE CommandSent(c, "cbw", r) /\ ~HasDataOut(c)
  <2>1. takes' = AwaitCbw /\ Adds(c)
    BY <1>4 DEF CommandSent
  <2>2. t <= t
    OBVIOUS
  <2>3. TagsUpTo(t)'
    BY <1>0, <2>1, <2>2, AddsTags
  <2>4. ASSUME HasDataIn(c), NEW i \in DOMAIN fifo', OwnCsw(t, i)', fifo'[i].ok
        PROVE  \E j \in DOMAIN fifo' : OwnData(t, j)'
    <3>1. PICK s \in Seq(Items) : fifo' = fifo \o s /\ Answer(c, s)
      BY <2>1 DEF Adds
    <3>2. PICK m \in Nat, l \in Nat : m = Len(fifo) /\ l = Len(s) /\ l >= 1 /\ fifo \in Seq(Items)
      BY <3>1 DEF DriveTyped, Answer
    <3>3. /\ DOMAIN fifo' = 1..(m + l) /\ Len(fifo') = m + l
          /\ fifo'[m + l] = s[l] /\ fifo'[m + 1] = s[1]
      BY <3>1, <3>2
    <3>4. i = m + l
      BY <2>3, <2>4, <3>3 DEF TagsUpTo
    <3>5. s[l].ok
      BY <2>4, <3>3, <3>4, Zenon
    <3>6. s[1] = DataOf(t)
      BY <2>4, <3>1, <3>2, <3>5 DEF Answer
    <3>7. OwnData(t, m + 1)' /\ m + 1 \in DOMAIN fifo'
      BY <3>2, <3>3, <3>6 DEF OwnData, DataOf, Item
    <3> QED BY <3>7
  <2>5. HasDataIn(c) => DataThere(t)'
    BY <2>4 DEF DataThere
  <2> QED BY <2>3, <2>5
<1> QED BY <1>1, <1>2, <1>3, <1>4

\* A CBW reaches the drive, or is taken for what an older command owes it.
LEMMA CommandTagInv ==
  ASSUME BotInv, TagInv, CommandTransport, cbw_tag + 1 < TagMod
  PROVE  TagInv'
<1>1. PICK c \in Frames, r \in Codes :
        /\ At(c, "cbw") /\ BulkOut(c, "cbw", r)
        /\ \/ /\ r = "OK"
              /\ Becomes([c EXCEPT !.pc = IF HasDataIn(c) \/ HasDataOut(c) THEN "data" ELSE "csw"])
           \/ Fails(r)
  BY CommandMoves
<1>2. c \in Records /\ DriveTyped /\ HostTyped
  BY <1>1 DEF At, BotInv
<1>3. /\ DriveTyped'
      /\ CommandSent(c, "cbw", r) \/ DataSent(r) \/ NotSent("cbw", r)
  BY <1>1, <1>2, BulkOutMoves
<1>4. PICK t \in Nat : t = cbw_tag /\ t \in Tags
  BY TagIsNat
<1>5. c.tag = t /\ TagsUpTo(t) /\ Unsent(t)
  BY <1>1, <1>4 DEF At, TagInv, OwnTrace, Working
<1>6. TagsUpTo(t)' /\ (HasDataIn(c) => DataThere(t)')
  BY <1>2, <1>3, <1>4, <1>5, CommandTags
<1>7. CASE Fails(r)
  BY <1>2, <1>3, <1>4, <1>6, <1>7, TagsFail
<1>8. CASE /\ r = "OK"
           /\ Becomes([c EXCEPT !.pc = IF HasDataIn(c) \/ HasDataOut(c) THEN "data" ELSE "csw"])
  <2>1. PICK p \in {"data", "csw"} : p = IF HasDataIn(c) \/ HasDataOut(c) THEN "data" ELSE "csw"
    OBVIOUS
  <2>2. PICK f : /\ f = [c EXCEPT !.pc = p]
                 /\ f.pc = p /\ f.fn = c.fn /\ f.tag = c.tag /\ f.got = c.got
    <3>1. LET f == [c EXCEPT !.pc = p] IN f.pc = p /\ f.fn = c.fn /\ f.tag = c.tag /\ f.got = c.got
      BY <1>2, MovedCall
    <3> QED BY <3>1
  <2>3. "out" \notin halted'
    BY <1>3, <1>8 DEF CommandSent, DataSent, NotSent
  <2>4. f.fn = "read10" => DataFirst(f)'
    <3>1. f.fn = "read10" => HasDataIn(c)
      BY <2>2 DEF HasDataIn
    <3>2. f.fn = "read10" => DataThere(f.tag)'
      BY <1>5, <1>6, <2>2, <3>1
    <3> QED BY <3>2 DEF DataFirst
  <2>5. Becomes(f)
    BY <1>8, <2>1, <2>2
  <2>6. OwnTrace(f)'
    BY <1>4, <1>5, <2>2, <2>3, <2>4, <2>5 DEF OwnTrace, Working, Becomes
  <2> QED BY <1>4, <1>6, <2>5, <2>6, TagsBecome DEF Becomes
<1> QED BY <1>1, <1>7, <1>8

\* The data of a write.
LEMMA DataOutTagInv ==
  ASSUME BotInv, TagInv, DataOutTransport, cbw_tag + 1 < TagMod
  PROVE  TagInv'
<1>1. PICK c \in Frames, r \in Codes :
        /\ At(c, "data") /\ HasDataOut(c) /\ BulkOut(c, "data", r)
        /\ \/ r = "OK" /\ Becomes([c EXCEPT !.pc = "csw"])
           \/ Fails(r)
  BY DataOutMoves
<1>2. c \in Records /\ DriveTyped /\ HostTyped
  BY <1>1 DEF At, BotInv
<1>3. /\ DriveTyped'
      /\ CommandSent(c, "data", r) \/ DataSent(r) \/ NotSent("data", r)
  BY <1>1, <1>2, BulkOutMoves
<1>4. PICK t \in Nat : t = cbw_tag /\ t \in Tags
  BY TagIsNat
<1>5. c.tag = t /\ TagsUpTo(t)
  BY <1>1, <1>4 DEF At, TagInv, OwnTrace, Working
<1>6. TagsUpTo(t)'
  <2>1. CASE DataSent(r)
    <3>1. takes.what = "data" /\ takes' = AwaitCbw /\ Adds(Owed)
      BY <2>1 DEF DataSent
    <3>2. Owed.tag = takes.tag
      BY DEF Owed, Call
    <3>3. Owed.tag \in Nat /\ Owed.tag <= t
      BY <1>2, <1>5, <3>1, <3>2 DEF DriveTyped, TagsUpTo, Tags, AwaitCbw
    <3>4. \A i \in DOMAIN fifo : ~OwnCsw(t, i)
      BY <1>5, <3>1 DEF TagsUpTo, AwaitCbw
    <3> QED BY <1>2, <1>5, <3>1, <3>3, <3>4, AddsTags
  <2>2. CASE NotSent("data", r)
    BY <1>5, <2>2 DEF NotSent, TagsUpTo, OwnCsw
  <2> QED BY <1>3, <2>1, <2>2 DEF CommandSent
<1>7. CASE Fails(r)
  BY <1>2, <1>3, <1>4, <1>6, <1>7, TagsFail
<1>8. CASE r = "OK" /\ Becomes([c EXCEPT !.pc = "csw"])
  <2>1. PICK f : f = [c EXCEPT !.pc = "csw"] /\ f.pc = "csw" /\ f.fn = c.fn /\ f.tag = c.tag
    <3>1. LET f == [c EXCEPT !.pc = "csw"] IN f.pc = "csw" /\ f.fn = c.fn /\ f.tag = c.tag
      BY <1>2, MovedCall
    <3> QED BY <3>1
  <2>2. "out" \notin halted'
    BY <1>3, <1>8 DEF CommandSent, DataSent, NotSent
  <2>3. f.fn # "read10"
    BY <1>1, <2>1 DEF HasDataOut
  <2>4. OwnTrace(f)'
    BY <1>4, <1>5, <1>8, <2>1, <2>2, <2>3 DEF OwnTrace, Working, Becomes
  <2> QED BY <1>4, <1>6, <1>8, <2>1, <2>4, TagsBecome DEF Becomes
<1> QED BY <1>1, <1>7, <1>8

\* What a call at work on a command finds.
LEMMA TraceNow ==
  ASSUME TagInv, NEW c, NEW pc \in Working \ {"cbw"}, At(c, pc), NEW t, t = cbw_tag
  PROVE  /\ c.pc = pc /\ c.tag = t /\ TagsUpTo(t) /\ "out" \notin halted
         /\ c.fn = "read10" => DataFirst(c)
BY DEF At, TagInv, OwnTrace

\* A first item that is not the data sought leaves the data there.
LEMMA DataStays ==
  ASSUME DriveTyped, NEW t, DataThere(t),
         fifo' = fifo \/ (fifo # << >> /\ fifo' = Tail(fifo) /\ ~OwnData(t, 1))
  PROVE  DataThere(t)'
<1>1. CASE fifo' = fifo
  BY <1>1 DEF DataThere, OwnCsw, OwnData
<1>2. CASE fifo # << >> /\ fifo' = Tail(fifo) /\ ~OwnData(t, 1)
  <2>1. fifo \in Seq(Items) /\ DOMAIN fifo = 1..Len(fifo)
    BY DEF DriveTyped
  <2>2. /\ Len(fifo) \in Nat \ {0} /\ DOMAIN fifo' = 1..(Len(fifo) - 1)
        /\ \A i \in 1..(Len(fifo) - 1) : fifo'[i] = fifo[i + 1]
    BY <1>2, <2>1, FirstTaken
  <2>3. ASSUME NEW i \in DOMAIN fifo', OwnCsw(t, i)', fifo'[i].ok
        PROVE  \E j \in DOMAIN fifo' : OwnData(t, j)'
    <3>1. i + 1 \in DOMAIN fifo /\ fifo'[i] = fifo[i + 1]
      BY <2>1, <2>2
    <3>2. OwnCsw(t, i + 1)
      BY <2>3, <3>1 DEF OwnCsw
    <3>3. fifo[i + 1].ok
      BY <2>3, <3>1, Zenon
    <3>4. PICK j \in DOMAIN fifo : OwnData(t, j)
      BY <3>1, <3>2, <3>3, Zenon DEF DataThere
    <3>5. j # 1
      BY <1>2, <3>4
    <3>6. j - 1 \in DOMAIN fifo' /\ fifo'[j - 1] = fifo[j]
      BY <2>1, <2>2, <3>5
    <3>7. OwnData(t, j - 1)'
      BY <3>4, <3>6 DEF OwnData
    <3> QED BY <3>6, <3>7
  <2> QED BY <2>3 DEF DataThere
<1> QED BY <1>1, <1>2

\* A read takes the first item for its data.
LEMMA DataInTagInv ==
  ASSUME BotInv, TagInv, DataInTransport, cbw_tag + 1 < TagMod
  PROVE  TagInv'
<1>1. PICK c \in Frames, r \in Codes, item \in ItemsIn :
        /\ At(c, "data") /\ HasDataIn(c) /\ BulkIn(c, r, item)
        /\ \/ r = "OK" /\ Becomes([c EXCEPT !.pc = "csw", !.got = item])
           \/ Fails(r)
  BY DataInMoves
<1>2. c \in Records /\ DriveTyped /\ HostTyped
  BY <1>1 DEF At, BotInv
<1>3. /\ DriveTyped' /\ takes' = takes
      /\ Received(c, r, item) \/ NotReceived(r)
  BY <1>1, <1>2, BulkInMoves
<1>4. PICK t \in Nat : t = cbw_tag /\ t \in Tags
  BY TagIsNat
<1>5. /\ c.pc = "data" /\ c.tag = t /\ TagsUpTo(t) /\ "out" \notin halted
      /\ c.fn = "read10" => DataFirst(c)
  BY <1>1, <1>4, TraceNow DEF Working
<1>6. fifo' = fifo \/ (fifo # << >> /\ fifo' = Tail(fifo))
  BY <1>3 DEF Received, NotReceived
<1>7. TagsUpTo(t)'
  BY <1>2, <1>3, <1>4, <1>5, <1>6, TakesTags
<1>8. CASE Fails(r)
  BY <1>2, <1>3, <1>4, <1>7, <1>8, TagsFail
<1>9. CASE r = "OK" /\ Becomes([c EXCEPT !.pc = "csw", !.got = item])
  <2>1. PICK f : /\ f = [c EXCEPT !.pc = "csw", !.got = item]
                 /\ f.pc = "csw" /\ f.fn = c.fn /\ f.tag = c.tag /\ f.got = item
    <3>1. LET f == [c EXCEPT !.pc = "csw", !.got = item]
          IN  f.pc = "csw" /\ f.fn = c.fn /\ f.tag = c.tag /\ f.got = item
      BY <1>2, MovedCall
    <3> QED BY <3>1
  <2>2. Received(c, r, item)
    BY <1>3, <1>9 DEF NotReceived
  <2>3. "out" \notin halted'
    BY <1>5, <2>2 DEF Received
  <2>4. ASSUME f.fn = "read10"
        PROVE  DataFirst(f)'
    <3>1. fifo # << >> /\ fifo' = Tail(fifo) /\ item = fifo[1]
      BY <1>5, <2>1, <2>2, <2>4 DEF Received
    <3>2. DataThere(t)
      BY <1>5, <2>1, <2>4 DEF DataFirst
    <3>3. CASE OwnData(t, 1)
      BY <1>5, <2>1, <3>1, <3>3 DEF OwnData, DataFirst
    <3>4. CASE ~OwnData(t, 1)
      <4>1. DataThere(t)'
        BY <1>2, <3>1, <3>2, <3>4, DataStays
      <4> QED BY <1>5, <2>1, <4>1 DEF DataFirst
    <3> QED BY <3>3, <3>4
  <2>5. OwnTrace(f)'
    BY <1>4, <1>5, <1>9, <2>1, <2>3, <2>4 DEF OwnTrace, Working, Becomes
  <2> QED BY <1>4, <1>7, <1>9, <2>1, <2>5, TagsBecome DEF Becomes
<1> QED BY <1>1, <1>8, <1>9

\* The CSW that check_csw accepts is the only item there, and the data of a read
\* have been received before it.
LEMMA CswAccepted ==
  ASSUME DriveTyped, TagInv, NEW c \in Records, NEW pc \in {"csw", "csw2"}, At(c, pc),
         NEW r \in Codes, NEW item \in ItemsIn, Received(c, r, item), takes' = takes,
         check_csw(item, c.tag) = "OK"
  PROVE  Synced' /\ (c.fn = "read10" => c.got.kind = "data" /\ c.got.tag = c.tag)
<1>1. PICK t : t = cbw_tag
  OBVIOUS
<1>2. /\ c.pc = pc /\ c.tag = t /\ TagsUpTo(t) /\ "out" \notin halted
      /\ c.fn = "read10" => DataFirst(c)
  BY <1>1, TraceNow DEF Working
<1>3. item.kind = "csw" /\ item.tag = t
  BY <1>2 DEF check_csw
<1>4. item.ok
  BY Zenon DEF check_csw
<1>5. fifo \in Seq(Items) /\ fifo # << >> /\ item = fifo[1] /\ fifo' = Tail(fifo)
  BY <1>3 DEF DriveTyped, Received
<1>6. 1 \in DOMAIN fifo
  BY <1>5
<1>7. OwnCsw(t, 1)
  BY <1>3, <1>5 DEF OwnCsw
<1>8. Len(fifo) = 1 /\ takes = AwaitCbw
  BY <1>2, <1>6, <1>7 DEF TagsUpTo
<1>9. fifo' = << >> /\ DOMAIN fifo = {1}
  BY <1>5, <1>8
<1>10. halted' = {}
  BY <1>2 DEF Received, DriveTyped
<1>11. Synced'
  BY <1>8, <1>9, <1>10 DEF Synced
<1>12. ASSUME c.fn = "read10"
       PROVE  c.got.kind = "data" /\ c.got.tag = c.tag
  <2>1. ~\E i \in DOMAIN fifo : OwnData(t, i)
    BY <1>7, <1>9 DEF OwnData, OwnCsw
  <2>2. \E i \in DOMAIN fifo : OwnCsw(t, i) /\ fifo[i].ok
    BY <1>4, <1>5, <1>6, <1>7, Zenon
  <2>3. ~DataThere(t)
    BY <2>1, <2>2, Zenon DEF DataThere
  <2> QED BY <1>2, <1>12, <2>3 DEF DataFirst
<1> QED BY <1>11, <1>12

\* A CSW is received.
LEMMA CheckedTags ==
  ASSUME BotInv, DriveTyped', TagInv, cbw_tag + 1 < TagMod, NEW c \in Records,
         NEW pc \in {"csw", "csw2"}, At(c, pc),
         NEW r \in Codes, NEW item \in ItemsIn, Received(c, r, item), takes' = takes,
         Checked(c, item), NEW t, t = cbw_tag, TagsUpTo(t)'
  PROVE  TagInv'
<1>1. DriveTyped /\ HostTyped
  BY DEF BotInv
<1>2. CASE check_csw(item, c.tag) = "OK" /\ Returns("OK")
  <2>1. Synced'
    BY <1>1, <1>2, CswAccepted
  <2> QED BY <1>2, <2>1, TagsReturn
<1>3. CASE Fails("FAIL")
  BY <1>1, <1>3, TagsFail
<1> QED BY <1>2, <1>3 DEF Checked

\* The status phase.
LEMMA StatusTagInv ==
  ASSUME BotInv, TagInv, StatusTransport, cbw_tag + 1 < TagMod
  PROVE  TagInv'
<1>1. PICK c \in Frames, r \in Codes, item \in ItemsIn :
        /\ At(c, "csw") /\ BulkIn(c, r, item)
        /\ \/ r = "OK" /\ Checked(c, item)
           \/ r = "STALL" /\ Becomes([c EXCEPT !.pc = "clear"])
           \/ r # "STALL" /\ Fails(r)
  BY StatusMoves
<1>2. c \in Records /\ DriveTyped /\ HostTyped
  BY <1>1 DEF At, BotInv
<1>3. /\ DriveTyped' /\ takes' = takes
      /\ Received(c, r, item) \/ NotReceived(r)
  BY <1>1, <1>2, BulkInMoves
<1>4. PICK t \in Nat : t = cbw_tag /\ t \in Tags
  BY TagIsNat
<1>5. /\ c.pc = "csw" /\ c.tag = t /\ TagsUpTo(t) /\ "out" \notin halted
      /\ c.fn = "read10" => DataFirst(c)
  BY <1>1, <1>4, TraceNow DEF Working
<1>6. fifo' = fifo \/ (fifo # << >> /\ fifo' = Tail(fifo))
  BY <1>3 DEF Received, NotReceived
<1>7. TagsUpTo(t)'
  BY <1>2, <1>3, <1>4, <1>5, <1>6, TakesTags
<1>8. CASE Fails(r)
  BY <1>2, <1>3, <1>4, <1>7, <1>8, TagsFail
<1>9. CASE r = "OK" /\ Checked(c, item)
  <2>1. Received(c, r, item)
    BY <1>3, <1>9 DEF NotReceived
  <2> QED BY <1>1, <1>2, <1>3, <1>4, <1>7, <1>9, <2>1, CheckedTags
<1>10. CASE r = "STALL" /\ Becomes([c EXCEPT !.pc = "clear"])
  <2>1. PICK f : /\ f = [c EXCEPT !.pc = "clear"]
                 /\ f.pc = "clear" /\ f.fn = c.fn /\ f.tag = c.tag /\ f.got = c.got
    <3>1. LET f == [c EXCEPT !.pc = "clear"]
          IN  f.pc = "clear" /\ f.fn = c.fn /\ f.tag = c.tag /\ f.got = c.got
      BY <1>2, MovedCall
    <3> QED BY <3>1
  <2>2. NotReceived(r)
    BY <1>3, <1>10 DEF Received
  <2>3. fifo' = fifo /\ "out" \notin halted'
    BY <1>5, <1>10, <2>2 DEF NotReceived
  <2>4. DataThere(t) => DataThere(t)'
    BY <1>2, <2>3, DataStays
  <2>5. f.fn = "read10" => DataFirst(f)'
    BY <1>5, <2>1, <2>4 DEF DataFirst
  <2>6. OwnTrace(f)'
    BY <1>4, <1>5, <1>10, <2>1, <2>3, <2>5 DEF OwnTrace, Working, Becomes
  <2> QED BY <1>4, <1>7, <1>10, <2>1, <2>6, TagsBecome DEF Becomes
<1> QED BY <1>1, <1>8, <1>9, <1>10

\* Clearing the stall removes neither data nor a CSW.
LEMMA ClearTagInv ==
  ASSUME BotInv, TagInv, ClearStatusStall, cbw_tag + 1 < TagMod
  PROVE  TagInv'
<1>1. PICK c \in Frames, r \in Codes :
        /\ At(c, "clear") /\ clear_feature("in", r)
        /\ (r = "OK" /\ Becomes([c EXCEPT !.pc = "csw2"])) \/ Fails(r)
  BY ClearStallMoves
<1>2. c \in Records /\ DriveTyped /\ HostTyped
  BY <1>1 DEF At, BotInv
<1>3. /\ DriveTyped' /\ takes' = takes /\ halted' \subseteq halted
      /\ fifo' = fifo \/ (fifo # << >> /\ fifo[1] = Stall /\ fifo' = Tail(fifo))
  BY <1>1, <1>2, ClearMoves
<1>4. PICK t \in Nat : t = cbw_tag /\ t \in Tags
  BY TagIsNat
<1>5. /\ c.pc = "clear" /\ c.tag = t /\ TagsUpTo(t) /\ "out" \notin halted
      /\ c.fn = "read10" => DataFirst(c)
  BY <1>1, <1>4, TraceNow DEF Working
<1>6. TagsUpTo(t)'
  BY <1>2, <1>3, <1>4, <1>5, TakesTags
<1>7. CASE Fails(r)
  BY <1>2, <1>3, <1>4, <1>6, <1>7, TagsFail
<1>8. CASE r = "OK" /\ Becomes([c EXCEPT !.pc = "csw2"])
  <2>1. PICK f : /\ f = [c EXCEPT !.pc = "csw2"]
                 /\ f.pc = "csw2" /\ f.fn = c.fn /\ f.tag = c.tag /\ f.got = c.got
    <3>1. LET f == [c EXCEPT !.pc = "csw2"]
          IN  f.pc = "csw2" /\ f.fn = c.fn /\ f.tag = c.tag /\ f.got = c.got
      BY <1>2, MovedCall
    <3> QED BY <3>1
  <2>2. fifo[1] = Stall => ~OwnData(t, 1)
    BY DEF OwnData, Stall, Item
  <2>3. DataThere(t) => DataThere(t)'
    BY <1>2, <1>3, <2>2, DataStays
  <2>4. f.fn = "read10" => DataFirst(f)'
    BY <1>5, <2>1, <2>3 DEF DataFirst
  <2>5. "out" \notin halted'
    BY <1>3, <1>5
  <2>6. OwnTrace(f)'
    BY <1>4, <1>5, <1>8, <2>1, <2>4, <2>5 DEF OwnTrace, Working, Becomes
  <2> QED BY <1>4, <1>6, <1>8, <2>1, <2>6, TagsBecome DEF Becomes
<1> QED BY <1>1, <1>7, <1>8

\* The status phase, second try.
LEMMA StatusAgainTagInv ==
  ASSUME BotInv, TagInv, StatusAgain, cbw_tag + 1 < TagMod
  PROVE  TagInv'
<1>1. PICK c \in Frames, r \in Codes, item \in ItemsIn :
        /\ At(c, "csw2") /\ BulkIn(c, r, item)
        /\ (r = "OK" /\ Checked(c, item)) \/ (r # "OK" /\ Enters)
  BY StatusAgainMoves
<1>2. c \in Records /\ DriveTyped /\ HostTyped
  BY <1>1 DEF At, BotInv
<1>3. /\ DriveTyped' /\ takes' = takes
      /\ Received(c, r, item) \/ NotReceived(r)
  BY <1>1, <1>2, BulkInMoves
<1>4. PICK t \in Nat : t = cbw_tag /\ t \in Tags
  BY TagIsNat
<1>5. TagsUpTo(t)
  BY <1>4 DEF TagInv
<1>6. fifo' = fifo \/ (fifo # << >> /\ fifo' = Tail(fifo))
  BY <1>3 DEF Received, NotReceived
<1>7. TagsUpTo(t)'
  BY <1>2, <1>3, <1>4, <1>5, <1>6, TakesTags
<1>8. CASE r = "OK" /\ Checked(c, item)
  <2>1. Received(c, r, item)
    BY <1>3, <1>8 DEF NotReceived
  <2> QED BY <1>1, <1>2, <1>3, <1>4, <1>7, <1>8, <2>1, CheckedTags
<1>9. CASE Enters
  <2>1. PICK f : f = Top' /\ f.pc = "reset"
    BY <1>9 DEF Enters
  <2>2. OwnTrace(f)'
    BY <2>1, TraceElsewhere DEF Working
  <2> QED BY <1>4, <1>7, <1>9, <2>1, <2>2, TagsBecome DEF Enters
<1> QED BY <1>1, <1>8, <1>9

\* The steps of the recovery that reset the drive and clear the pipes.
LEMMA RecoveryTagInv ==
  ASSUME BotInv, TagInv, RecoveryReset \/ RecoveryClear, cbw_tag + 1 < TagMod
  PROVE  TagInv'
<1>0. DriveTyped /\ HostTyped
  BY DEF BotInv
<1>1. PICK t \in Nat : t = cbw_tag /\ t \in Tags
  BY TagIsNat
<1>2. TagsUpTo(t)
  BY <1>1 DEF TagInv
<1>3. CASE RecoveryReset
  <2>1. PICK c \in Frames, r \in Codes :
          /\ At(c, "reset") /\ msc_mass_reset(r)
          /\ (r = "OK" /\ Becomes([c EXCEPT !.pc = "clear_in"])) \/ Fails(r)
    BY <1>3, ResetStepMoves
  <2>2. /\ DriveTyped'
        /\ r = "OK" => takes' = AwaitCbw /\ fifo' \in {<< >>, <<Stall>>}
        /\ r # "OK" => takes' = takes /\ fifo' = fifo
    BY <1>0, <2>1, ResetMoves
  <2>3. TagsUpTo(t)'
    <3>1. CASE r # "OK"
      BY <1>2, <2>2, <3>1 DEF TagsUpTo, OwnCsw
    <3>2. CASE r = "OK"
      <4>1. \A i \in DOMAIN fifo' : fifo'[i] = Stall
        BY <2>2, <3>2
      <4>2. Stall.tag = 0 /\ Stall.kind # "csw" /\ AwaitCbw.tag = 0 /\ 0 <= t
        BY DEF Stall, Item, AwaitCbw
      <4> QED BY <2>2, <3>2, <4>1, <4>2 DEF TagsUpTo, OwnCsw
    <3> QED BY <3>1, <3>2
  <2>4. CASE Becomes([c EXCEPT !.pc = "clear_in"])
    <3>1. PICK f : f = [c EXCEPT !.pc = "clear_in"] /\ f.pc = "clear_in"
      <4>1. [c EXCEPT !.pc = "clear_in"].pc = "clear_in"
        BY <2>1, MovedCall DEF At
      <4> QED BY <4>1
    <3>2. OwnTrace(f)'
      BY <3>1, TraceElsewhere DEF Working
    <3> QED BY <1>1, <2>3, <2>4, <3>1, <3>2, TagsBecome DEF Becomes
  <2>5. CASE Fails(r)
    BY <1>0, <1>1, <2>2, <2>3, <2>5, TagsFail
  <2> QED BY <2>1, <2>4, <2>5
<1>4. CASE RecoveryClear
  <2>1. PICK c \in Frames, r \in Codes, ep \in {"in", "out"}, p \in {"clear_out", "ready"} :
          c \in Records /\ clear_feature(ep, r) /\ Becomes([c EXCEPT !.pc = p])
    BY <1>4, RecoveryClearMoves DEF At
  <2>2. takes' = takes /\ (fifo' = fifo \/ (fifo # << >> /\ fifo' = Tail(fifo)))
    BY <1>0, <2>1, ClearMoves
  <2>3. TagsUpTo(t)'
    BY <1>0, <1>1, <1>2, <2>2, TakesTags
  <2>4. PICK f : f = [c EXCEPT !.pc = p] /\ f.pc = p
    <3>1. [c EXCEPT !.pc = p].pc = p
      BY <2>1, MovedCall
    <3> QED BY <3>1
  <2>5. OwnTrace(f)'
    BY <2>4, TraceElsewhere DEF Working
  <2> QED BY <1>1, <2>1, <2>3, <2>4, <2>5, TagsBecome DEF Becomes
<1> QED BY <1>3, <1>4

\* The steps that leave pipes and drive alone.
LEMMA QuietTagInv ==
  ASSUME BotInv, TagInv, cbw_tag + 1 < TagMod,
         Recovered \/ Sensed \/ ReadyPoll \/ ReadyPolled \/ ReadyKeyed
  PROVE  TagInv'
<1>0. HostTyped
  BY DEF BotInv
<1>1. PICK t \in Nat : t = cbw_tag /\ t \in Tags
  BY TagIsNat
<1>2. BotInv' /\ UNCHANGED <<halted, driveVars, faultVars>>
  BY RecoveredMoves, SensedMoves, PollMoves, PolledMoves, KeyedMoves
<1>3. DriveTyped' /\ fifo' = fifo /\ takes' = takes /\ halted' = halted
  BY <1>2 DEF BotInv, driveVars
<1>4. TagsUpTo(t)'
  BY <1>1, <1>3 DEF TagInv, TagsUpTo, OwnCsw
<1>5. \/ \E e : Fails(e)
      \/ \E fn : Starts(fn)
      \/ \E c \in Frames : At(c, "polled") /\ ret = "OK" /\ Returns("OK")
      \/ \E f \in Frames : f.pc = "ready" /\ Becomes(f)
  BY RecoveredMoves, SensedMoves, PollMoves, PolledMoves, KeyedMoves
<1>6. CASE \E e : Fails(e)
  BY <1>0, <1>1, <1>3, <1>4, <1>6, TagsFail
<1>7. CASE \E fn : Starts(fn)
  BY <1>0, <1>1, <1>3, <1>4, <1>7, TagsStart
<1>8. CASE \E c \in Frames : At(c, "polled") /\ ret = "OK" /\ Returns("OK")
  <2>1. Synced
    BY <1>8 DEF At, TagInv, OwnTrace
  <2>2. Synced'
    BY <1>3, <2>1 DEF Synced
  <2> QED BY <1>1, <1>4, <1>8, <2>2, TagsReturn
<1>9. CASE \E f \in Frames : f.pc = "ready" /\ Becomes(f)
  <2>1. PICK f \in Frames : f.pc = "ready" /\ Becomes(f)
    BY <1>9
  <2>2. OwnTrace(f)'
    BY <2>1, TraceElsewhere DEF Working
  <2> QED BY <1>1, <1>4, <2>1, <2>2, TagsBecome DEF Becomes
<1> QED BY <1>5, <1>6, <1>7, <1>8, <1>9

\* A call by the task.
LEMMA IssueTagInv ==
  ASSUME BotInv, TagInv, cbw_tag + 1 < TagMod, IssueRecovery \/ \E c \in Commands : Issue(c)
  PROVE  TagInv'
<1>0. HostTyped
  BY DEF BotInv
<1>1. PICK t \in Nat : t = cbw_tag /\ t \in Tags
  BY TagIsNat
<1>2. stack = << >>
  BY DEF IssueRecovery, Issue
<1>3. /\ BotInv' /\ UNCHANGED <<halted, driveVars, faultVars>>
      /\ Enters \/ \E c \in Commands : Starts(c)
  BY <1>2, IssueMoves
<1>4. DriveTyped' /\ fifo' = fifo /\ takes' = takes
  BY <1>3 DEF BotInv, driveVars
<1>5. TagsUpTo(t)'
  BY <1>1, <1>4 DEF TagInv, TagsUpTo, OwnCsw
<1>6. CASE Enters
  <2>1. PICK f : f = Top' /\ f.pc = "reset"
    BY <1>6 DEF Enters
  <2>2. OwnTrace(f)'
    BY <2>1, TraceElsewhere DEF Working
  <2> QED BY <1>1, <1>5, <1>6, <2>1, <2>2, TagsBecome DEF Enters
<1>7. CASE \E c \in Commands : Starts(c)
  BY <1>0, <1>1, <1>4, <1>5, <1>7, TagsStart
<1> QED BY <1>3, <1>6, <1>7

\* Every step of UnwrappedNext keeps TagInv.
LEMMA TagInvStep == BotInv /\ TagInv /\ [UnwrappedNext]_vars => TagInv'
<1> SUFFICES ASSUME BotInv, TagInv, [UnwrappedNext]_vars PROVE TagInv'
  OBVIOUS
<1>1. CASE BotStep /\ cbw_tag + 1 < TagMod
  BY <1>1, CommandTagInv, DataOutTagInv, DataInTagInv, StatusTagInv, ClearTagInv, StatusAgainTagInv,
     RecoveryTagInv, QuietTagInv DEF BotStep
<1>2. CASE (IssueRecovery \/ \E c \in Commands : Issue(c)) /\ cbw_tag + 1 < TagMod
  BY <1>2, IssueTagInv
<1>3. CASE UNCHANGED vars
  BY <1>3 DEF vars, TagInv, Top, OwnTrace, TagsUpTo, Unsent, OwnData, OwnCsw, DataFirst, DataThere, Synced
<1> QED BY <1>1, <1>2, <1>3 DEF UnwrappedNext, BotNext

-----------------------------------------------------------------------------
(* What ESP_OK means.                                                       *)

\* A call that returns ESP_OK leaves pipes and drive ready, and if it was a read,
\* the data it received were its own.
LEMMA OkReturns ==
  ASSUME BotInv, TagInv, BotNext, stack # << >>, stack' = Tail(stack), ret' = "OK"
  PROVE  Synced' /\ (Top.fn = "read10" => Top.got.kind = "data" /\ Top.got.tag = Top.tag)
<1>0. DriveTyped /\ HostTyped
  BY DEF BotInv
<1>1. Len(stack') < Len(stack)
  BY <1>0, StackReturns DEF HostTyped
<1>2. Len(stack) \in Nat /\ Len(stack') \in Nat
  BY <1>0, TailWaits DEF HostTyped
<1>3. \A f : ~Becomes(f)
  BY <1>1, <1>2 DEF Becomes
<1>4. (\A fn : ~Starts(fn)) /\ ~Enters
  BY <1>1, <1>2 DEF Starts, Enters
<1>5. \A e : ~Fails(e)
  BY <1>4 DEF Fails, Returns
<1>6. ASSUME NEW c \in Frames, NEW pc \in {"csw", "csw2"}, NEW r \in Codes, NEW item \in ItemsIn,
             At(c, pc), BulkIn(c, r, item), r = "OK", Checked(c, item)
      PROVE  Synced' /\ (Top.fn = "read10" => Top.got.kind = "data" /\ Top.got.tag = Top.tag)
  <2>1. c \in Records /\ c = Top
    BY <1>6 DEF At
  <2>2. takes' = takes /\ Received(c, r, item)
    BY <1>0, <1>6, <2>1, BulkInMoves DEF NotReceived
  <2>3. check_csw(item, c.tag) = "OK"
    BY <1>5, <1>6 DEF Checked
  <2> QED BY <1>0, <1>6, <2>1, <2>2, <2>3, CswAccepted
<1>7. CASE StatusTransport
  BY <1>3, <1>5, <1>6, <1>7, StatusMoves
<1>8. CASE StatusAgain
  BY <1>4, <1>6, <1>8, StatusAgainMoves
<1>9. CASE ReadyPolled
  <2>1. PICK c \in Frames : At(c, "polled") /\ ret = "OK" /\ UNCHANGED <<halted, driveVars, faultVars>>
    BY <1>4, <1>9, PolledMoves
  <2>2. Synced
    BY <2>1 DEF At, TagInv, OwnTrace
  <2>3. Synced'
    BY <2>1, <2>2, SyncedStays
  <2>4. Top.fn # "read10"
    BY <2>1 DEF At, Frames, RecoveryPcs
  <2> QED BY <2>3, <2>4
<1>10. ~CommandTransport /\ ~DataOutTransport /\ ~DataInTransport /\ ~ClearStatusStall
  BY <1>3, <1>5, CommandMoves, DataOutMoves, DataInMoves, ClearStallMoves
<1>11. ~Recovered /\ ~Sensed /\ ~RecoveryReset /\ ~RecoveryClear /\ ~ReadyPoll /\ ~ReadyKeyed
  BY <1>3, <1>4, <1>5, RecoveredMoves, SensedMoves, ResetStepMoves, RecoveryClearMoves, PollMoves, KeyedMoves
<1>12. ~IssueRecovery /\ ~\E c \in Commands : Issue(c)
  BY DEF IssueRecovery, Issue
<1> QED BY <1>7, <1>8, <1>9, <1>10, <1>11, <1>12 DEF BotNext, BotStep

\* The tags keep their order until cbw_tag is about to wrap around.
THEOREM UnwrappedInvariance == UnwrappedSpec => [](BotInv /\ TagInv)
<1>1. BotInit => TagInv
  BY DEF BotInit, TagInv, TagsUpTo, AwaitCbw
<1>2. [UnwrappedNext]_vars => [BotNext]_vars
  BY DEF UnwrappedNext
<1> QED BY <1>1, <1>2, BotInvInit, BotInvStep, TagInvStep, PTL DEF UnwrappedSpec

\* Until cbw_tag wraps around, a command that returns ESP_OK returns its own data
\* and leaves the drive in step, whatever went wrong before it and however often:
\* check_csw refuses every CSW that an earlier command left behind.
THEOREM OkIsOwnTheorem == UnwrappedSpec => OkIsOwn
<1>1. /\ BotInv /\ TagInv /\ [UnwrappedNext]_vars
      => [ReturnsOk => /\ Top.fn = "read10" => Top.got.kind = "data" /\ Top.got.tag = Top.tag
                       /\ takes' = AwaitCbw /\ fifo' = << >> /\ halted' = {}]_vars
  <2> SUFFICES ASSUME BotInv, TagInv, UnwrappedNext, ReturnsOk
               PROVE  /\ Top.fn = "read10" => Top.got.kind = "data" /\ Top.got.tag = Top.tag
                      /\ takes' = AwaitCbw /\ fifo' = << >> /\ halted' = {}
    OBVIOUS
  <2>1. stack \in Seq(Frames) /\ Len(stack) = 1 /\ stack' = << >> /\ ret' = "OK"
    BY DEF ReturnsOk, BotInv, HostTyped, StackOK
  <2>2. stack # << >> /\ stack' = Tail(stack)
    <3>1. stack # << >>
      BY <2>1
    <3>2. Tail(stack) \in Seq(Frames) /\ Len(Tail(stack)) = 0
      BY <2>1, <3>1
    <3>3. Tail(stack) = << >>
      BY <3>2, EmptySeq
    <3> QED BY <2>1, <3>1, <3>3
  <2>3. Synced' /\ (Top.fn = "read10" => Top.got.kind = "data" /\ Top.got.tag = Top.tag)
    BY <2>1, <2>2, OkReturns DEF UnwrappedNext
  <2> QED BY <2>3 DEF Synced
<1> QED BY <1>1, UnwrappedInvariance, PTL DEF UnwrappedSpec, OkIsOwn

\* Until then a recovery that returns ESP_OK has recovered the drive, although
\* msc_host_reset_recovery looks at neither clear_feature.
THEOREM RecoveryTheorem == UnwrappedSpec => RecoveryRestores
<1>1. /\ BotInv /\ TagInv /\ [UnwrappedNext]_vars
      => [stack # << >> /\ Top.fn = "recovery" /\ stack' = Tail(stack) /\ ret' = "OK" =>
            halted' = {} /\ fifo' = << >> /\ takes' = AwaitCbw]_vars
  BY OkReturns DEF UnwrappedNext, Synced
<1> QED BY <1>1, UnwrappedInvariance, PTL DEF UnwrappedSpec, RecoveryRestores
=============================================================================
