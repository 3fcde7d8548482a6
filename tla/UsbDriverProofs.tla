-------------------------- MODULE UsbDriverProofs --------------------------
(***************************************************************************)
(* Hotplug keeps its device objects apart, for any number of devices and   *)
(* attempts and any interleaving of the tasks; and, where the priorities   *)
(* of the tasks are relied on, loses none and caches no other's capacity.  *)
(***************************************************************************)
EXTENDS UsbDriver, SequenceTheorems, TLAPS

-----------------------------------------------------------------------------
(* The inductive invariant for free interleaving.                           *)

Events == [kind : {"new", "gone"}, dev : Ids]

\* What UsbTypeOK leaves open: evq is a sequence, attempts are counted down from
\* one that is left, and the address being opened is that of an installation.
UsbTyped ==
  /\ UsbTypeOK
  /\ evq \in Seq(Events)
  /\ mpc = "install" => retries >= 0
  /\ addr # NoDev <=> mpc = "install"

\* A handler has the event that its place in client_event_cb is about.
EventAtHand ==
  \A t \in Tasks :
    /\ hpc[t] = "none" <=> hev[t] = NoEvent
    /\ hpc[t] = "probe" <=> hev[t].kind = "new"
    /\ hev[t] # NoEvent => hev[t] \in Events

\* Event e is queued or being handled.
Around(e) == (\E i \in DOMAIN evq : evq[i] = e) \/ (\E t \in Tasks : hev[t] = e)

\* No event is queued or handled twice: the two tasks share one queue.
EventsOnce ==
  /\ \A i, j \in DOMAIN evq : evq[i] = evq[j] => i = j
  /\ \A i \in DOMAIN evq, t \in Tasks : evq[i] # hev[t]
  /\ \A t, u \in Tasks : hev[t] = hev[u] /\ hev[t] # NoEvent => t = u

\* NEW_DEV precedes everything else that happens to a device.
NewIsFirst ==
  \A d \in Ids : Around(Event("new", d)) => heap[d] = "none" /\ d \notin {pending, addr}

\* DEV_GONE is of a device that is not, or no longer, on the bus.
GoneIsGone ==
  \A d \in Ids : Around(Event("gone", d)) /\ bus.id = d => bus.gone

\* A device is probed while it is open, hence on the bus.
ProbedIsOnBus ==
  \A t \in Tasks : hpc[t] = "probe" => bus.id = hev[t].dev /\ "probe" \in bus.openers

\* A device object in use has its device open, hence on the bus; it is the one
\* the driver is about, and is not being opened once the device is gone.
LiveIsOnBus ==
  \A d \in Ids : heap[d] = "live" =>
    /\ bus.id = d /\ "dev" \in bus.openers
    /\ handle \in {NoDev, d} /\ pending \in {NoDev, d} /\ addr \in {NoDev, d}
    /\ pending = d => addr = d
    /\ addr = d => ~bus.gone

\* An address to be opened excludes a handle.
OpeningHasNoHandle == pending # NoDev \/ addr # NoDev => handle = NoDev

\* A DISCONNECTED handler that has not closed anything yet finds its device.
ClosingIsLive == \A t \in Tasks : hpc[t] = "close" => heap[hev[t].dev] = "live"

UsbInv ==
  /\ UsbTyped /\ EventAtHand /\ EventsOnce /\ NewIsFirst /\ GoneIsGone
  /\ ProbedIsOnBus /\ LiveIsOnBus /\ OpeningHasNoHandle /\ ClosingIsLive
  /\ HandleDanglesOnlyInClose

-----------------------------------------------------------------------------
(* With the priorities of the tasks.                                        *)

\* Main goes on only when the one event it has posted is handled.
OneEvent ==
  /\ mpc # "msc" => evq = << >> /\ \A t \in Tasks : hpc[t] = "none"
  /\ Len(evq) <= 1
  /\ evq # << >> => \A t \in Tasks : hpc[t] = "none"
  /\ hpc["main"] = "none" \/ hpc["bg"] = "none"

\* Once close_device has freed the device no object is in use.
ClosedIsLast == \A t \in Tasks : hpc[t] = "null" => \A d \in Ids : heap[d] # "live"

\* A capacity about to be cached is that of the drive at hand, if there is one.
StoreIsCurrent ==
  spc = "store" => /\ bus.id \in {NoDev, sdev} /\ handle \in {NoDev, sdev}
                   /\ pending \in {NoDev, sdev} /\ addr \in {NoDev, sdev}

\* The cached capacity of a drive to be opened is its own.
CapacityOfPending ==
  /\ pending # NoDev => cap \in {NoDev, pending}
  /\ addr # NoDev => cap \in {NoDev, addr}

\* The power is off only while main sleeps in power_cycle_usb, without a device.
OffIsPower ==
  ~powered => mpc = "power" /\ handle = NoDev /\ \A d \in Ids : heap[d] # "live"

\* A SCSI command of the SPI task is on a handle.
ScsiHasHandle == spc # "idle" => sdev \in Ids

PromptInv ==
  /\ OneEvent /\ ClosedIsLast /\ StoreIsCurrent /\ CapacityOfPending /\ OffIsPower
  /\ ScsiHasHandle /\ NoOrphan /\ CapacityIsOfHandle

-----------------------------------------------------------------------------
(* Events on their way through the queue and the handlers.                  *)

\* Posting an event that is not around adds it, and nothing else.
LEMMA Posted ==
  ASSUME UsbTyped, EventAtHand, EventsOnce, NEW e \in Events, ~Around(e),
         evq' = Append(evq, e), hev' = hev
  PROVE  /\ evq' \in Seq(Events) /\ EventsOnce'
         /\ \A f \in Events : Around(f)' => Around(f) \/ f = e
<1>1. evq \in Seq(Events)
  BY DEF UsbTyped
<1>2. /\ evq' \in Seq(Events) /\ Len(evq') = Len(evq) + 1 /\ evq'[Len(evq) + 1] = e
      /\ \A i \in 1..Len(evq) : evq'[i] = evq[i]
  BY <1>1, AppendProperties
<1>3. DOMAIN evq = 1..Len(evq) /\ DOMAIN evq' = 1..(Len(evq) + 1) /\ Len(evq) \in Nat
  BY <1>1, <1>2
<1>4. \A i \in DOMAIN evq' : (i \in DOMAIN evq /\ evq'[i] = evq[i]) \/ (i = Len(evq) + 1 /\ evq'[i] = e)
  BY <1>2, <1>3
<1>5. (\A i \in DOMAIN evq : evq[i] # e) /\ (\A t \in Tasks : hev[t] # e)
  BY DEF Around
<1>6. EventsOnce'
  BY <1>4, <1>5 DEF EventsOnce
<1>7. \A f \in Events : Around(f)' => Around(f) \/ f = e
  BY <1>4 DEF Around
<1> QED BY <1>2, <1>6, <1>7

\* Taking the first event, to handle it or to drop it, makes none appear.
LEMMA Taken ==
  ASSUME UsbTyped, EventAtHand, EventsOnce, evq # << >>, evq' = Tail(evq),
         NEW t \in Tasks, hpc[t] = "none",
         hev' = hev \/ hev' = [hev EXCEPT ![t] = Head(evq)]
  PROVE  /\ evq' \in Seq(Events) /\ EventsOnce'
         /\ Head(evq) \in Events /\ Around(Head(evq))
         /\ \A f \in Events : Around(f)' => Around(f)
<1>1. evq \in Seq(Events) /\ hev[t] = NoEvent /\ hev \in [Tasks -> [kind : {"none", "new", "gone"}, dev : MaybeId]]
  BY DEF UsbTyped, EventAtHand, UsbTypeOK
<1>2. evq' \in Seq(Events) /\ Len(evq) \in Nat \ {0} /\ DOMAIN evq = 1..Len(evq)
      /\ Head(evq) = evq[1] /\ Head(evq) \in Events
  BY <1>1
<1>3. \A i \in DOMAIN evq' : i + 1 \in DOMAIN evq /\ evq'[i] = evq[i + 1] /\ i \in Nat /\ i + 1 # 1
  BY <1>1, <1>2
<1>4. 1 \in DOMAIN evq
  BY <1>2
<1>5. \A u \in Tasks : hev'[u] = hev[u] \/ (u = t /\ hev'[u] = evq[1])
  BY <1>1, <1>2
<1>6. EventsOnce'
  <2>1. \A i, j \in DOMAIN evq' : evq'[i] = evq'[j] => i = j
    BY <1>3 DEF EventsOnce
  <2>2. \A i \in DOMAIN evq', u \in Tasks : evq'[i] # hev'[u]
    BY <1>3, <1>4, <1>5 DEF EventsOnce
  <2>3. \A u, v \in Tasks : hev'[u] = hev'[v] /\ hev'[u] # NoEvent => u = v
    BY <1>4, <1>5 DEF EventsOnce
  <2> QED BY <2>1, <2>2, <2>3 DEF EventsOnce
<1>7. Around(Head(evq))
  BY <1>2, <1>4 DEF Around
<1>8. \A f \in Events : Around(f)' => Around(f)
  BY <1>3, <1>4, <1>5 DEF Around
<1> QED BY <1>2, <1>6, <1>7, <1>8

\* Finishing with an event takes it away.
LEMMA Finished ==
  ASSUME UsbTyped, EventsOnce, NEW t \in Tasks, Finish(t), evq' = evq
  PROVE  /\ EventsOnce'
         /\ \A f \in Events : Around(f)' => Around(f)
<1>1. \A u \in Tasks : hev'[u] = IF u = t THEN NoEvent ELSE hev[u]
  BY DEF Finish, UsbTyped, UsbTypeOK
<1>2. \A f \in Events : f # NoEvent
  BY DEF Events, NoEvent, Event
<1>3. \A i \in DOMAIN evq : evq[i] \in Events
  BY DEF UsbTyped
<1>4. \A f \in Events : Around(f)' => Around(f)
  BY <1>1, <1>2 DEF Around
<1>5. EventsOnce'
  BY <1>1, <1>2, <1>3 DEF EventsOnce
<1> QED BY <1>4, <1>5

-----------------------------------------------------------------------------
(* The invariant is inductive.                                              *)

\* The invariant holds at first.
LEMMA UsbInitInv == UsbInit => UsbInv
<1> SUFFICES ASSUME UsbInit PROVE UsbInv
  OBVIOUS
<1>1. UsbTyped
  <2>1. UsbTypeOK
    BY UsbConstants DEF UsbInit, UsbTypeOK, MaybeId, NoBus, NoEvent, Event, NoDev
  <2> QED BY <2>1 DEF UsbInit, UsbTyped, Events
<1>2. \A e \in Events : ~Around(e)
  BY DEF UsbInit, Around, Events, NoEvent, Event
<1>3. EventAtHand /\ EventsOnce /\ ProbedIsOnBus /\ ClosingIsLive
  BY DEF UsbInit, EventAtHand, EventsOnce, ProbedIsOnBus, ClosingIsLive, NoEvent, Event
<1>4. NewIsFirst /\ GoneIsGone
  BY <1>2 DEF NewIsFirst, GoneIsGone, Event, Events
<1>5. LiveIsOnBus /\ OpeningHasNoHandle /\ HandleDanglesOnlyInClose
  BY DEF UsbInit, LiveIsOnBus, OpeningHasNoHandle, HandleDanglesOnlyInClose
<1> QED BY <1>1, <1>3, <1>4, <1>5 DEF UsbInv

\* A step that leaves the events, the objects and the driver alone, and of the
\* bus changes at most whether the device answers.
Quiet ==
  /\ UNCHANGED <<evq, heap, pending, retries, handle, addr, hpc, hev>>
  /\ bus' = bus \/ bus' = [bus EXCEPT !.alive = FALSE]
  /\ mpc' = "install" <=> mpc = "install"

\* Such a step keeps the invariant.
LEMMA QuietInv ==
  ASSUME UsbInv, Quiet,
         plugged' \in BOOLEAN, powered' \in BOOLEAN, cap' \in MaybeId, sdev' \in MaybeId,
         since' \in {"none", "young", "old"}, spc' \in {"idle", "scsi", "store"},
         mpc' \in {"lib", "msc", "open", "install", "refresh", "watch", "power"}
  PROVE  UsbInv'
<1>1. /\ bus'.id = bus.id /\ bus'.gone = bus.gone /\ bus'.openers = bus.openers
      /\ bus' \in [id : MaybeId, gone : BOOLEAN, alive : BOOLEAN, openers : SUBSET {"dev", "probe"}]
  BY DEF Quiet, UsbInv, UsbTyped, UsbTypeOK
<1>2. UsbTyped'
  BY <1>1 DEF Quiet, UsbInv, UsbTyped, UsbTypeOK
<1>3. EventAtHand' /\ EventsOnce'
  BY DEF Quiet, UsbInv, EventAtHand, EventsOnce
<1>4. NewIsFirst' /\ GoneIsGone'
  BY <1>1 DEF Quiet, UsbInv, NewIsFirst, GoneIsGone, Around
<1>5. ProbedIsOnBus' /\ LiveIsOnBus'
  BY <1>1 DEF Quiet, UsbInv, ProbedIsOnBus, LiveIsOnBus
<1>6. OpeningHasNoHandle' /\ ClosingIsLive' /\ HandleDanglesOnlyInClose'
  BY DEF Quiet, UsbInv, OpeningHasNoHandle, ClosingIsLive, HandleDanglesOnlyInClose
<1> QED BY <1>2, <1>3, <1>4, <1>5, <1>6 DEF UsbInv

\* The steps of which only that much is to be said: the user, the SPI task, time,
\* and most of poll.
LEMMA QuietSteps ==
  ASSUME UsbInv,
         Plug \/ Unplug \/ TwoSeconds \/ ScsiBegin \/ ScsiEnd \/ CapacityStore
         \/ PollMscDone \/ OpenSkip \/ OpenRefresh \/ Watch \/ PowerOff \/ PowerOn
  PROVE  UsbInv'
<1> USE DEF UsbInv, UsbTyped, UsbTypeOK, Quiet, MaybeId
<1>1. CASE Plug \/ Unplug \/ TwoSeconds
  <2>1. Quiet /\ UNCHANGED <<powered, cap, mpc, spiVars>>
    BY <1>1 DEF Plug, Unplug, TwoSeconds, driverVars, handlerVars, spiVars, worldVars
  <2>2. plugged' \in BOOLEAN /\ since' \in {"none", "young", "old"}
    BY <1>1 DEF Plug, Unplug, TwoSeconds, worldVars
  <2> QED BY <2>1, <2>2, QuietInv DEF spiVars
<1>2. CASE ScsiBegin \/ ScsiEnd \/ CapacityStore
  BY <1>2, QuietInv DEF ScsiBegin, ScsiEnd, CapacityStore, driverVars, handlerVars, worldVars
<1>3. CASE PollMscDone \/ OpenSkip \/ OpenRefresh
  BY <1>3, QuietInv DEF PollMscDone, OpenSkip, OpenRefresh, MainAt, driverVars, handlerVars,
                        spiVars, worldVars
<1>4. CASE Watch \/ PowerOff \/ PowerOn
  BY <1>4, QuietInv DEF Watch, PowerOff, PowerOn, MainAt, driverVars, handlerVars, spiVars, worldVars
<1> QED BY <1>1, <1>2, <1>3, <1>4

-----------------------------------------------------------------------------
(* The host library's part of poll.                                         *)

\* The bus as a record: what EXCEPT and Closed do to its fields.
LEMMA BusFields ==
  ASSUME UsbTyped
  PROVE  /\ bus \in [id : MaybeId, gone : BOOLEAN, alive : BOOLEAN, openers : SUBSET {"dev", "probe"}]
         /\ NoBus \in [id : MaybeId, gone : BOOLEAN, alive : BOOLEAN, openers : SUBSET {"dev", "probe"}]
         /\ NoBus.id = NoDev /\ NoBus.gone = FALSE /\ NoBus.openers = {}
  BY DEF UsbTyped, UsbTypeOK, NoBus, MaybeId

\* A device that was in use and does not answer is gone, and DEV_GONE is posted.
LEMMA LostInv == ASSUME UsbInv, PollLib, LibDeviceLost PROVE UsbInv'
<1>1. /\ mpc = "lib" /\ mpc' = "msc" /\ bus.id # NoDev /\ ~bus.gone /\ heap' = heap
      /\ UNCHANGED <<plugged, powered, pending, retries, handle, cap, since, addr, hpc, hev, spc, sdev>>
  BY DEF PollLib, LibDeviceLost, MainAt, worldVars, driverVars, handlerVars, spiVars
<1>2. addr = NoDev /\ bus.id \in Ids /\ UsbTyped /\ EventAtHand /\ EventsOnce
  BY <1>1 DEF UsbInv, UsbTyped, UsbTypeOK, MaybeId
<1>3. CASE bus.openers = {}
  <2>1. bus' = NoBus /\ evq' = evq
    BY <1>3 DEF LibDeviceLost
  <2>2. UsbTyped'
    BY <1>1, <1>2, <2>1, BusFields DEF UsbTyped, UsbTypeOK
  <2>3. \A d \in Ids : heap[d] # "live"
    BY <1>3 DEF UsbInv, LiveIsOnBus
  <2>4. \A t \in Tasks : hpc[t] # "probe"
    BY <1>3 DEF UsbInv, ProbedIsOnBus
  <2>5. EventAtHand' /\ EventsOnce' /\ NewIsFirst'
    BY <1>1, <2>1 DEF UsbInv, EventAtHand, EventsOnce, NewIsFirst, Around
  <2>6. GoneIsGone'
    BY <2>1, BusFields, <1>2, UsbConstants DEF GoneIsGone, NoDev
  <2> QED BY <1>1, <2>2, <2>3, <2>4, <2>5, <2>6
          DEF UsbInv, ProbedIsOnBus, LiveIsOnBus, OpeningHasNoHandle, ClosingIsLive,
              HandleDanglesOnlyInClose
<1>4. CASE bus.openers # {}
  <2> DEFINE e == Event("gone", bus.id)
  <2>1. bus' = [bus EXCEPT !.gone = TRUE] /\ evq' = Append(evq, e)
    BY <1>4 DEF LibDeviceLost
  <2>2. e \in Events /\ ~Around(e)
    BY <1>1, <1>2 DEF UsbInv, GoneIsGone, Events, Event
  <2>3. evq' \in Seq(Events) /\ EventsOnce' /\ \A f \in Events : Around(f)' => Around(f) \/ f = e
    BY <1>1, <1>2, <2>1, <2>2, Posted
  <2>4. bus'.id = bus.id /\ bus'.gone = TRUE /\ bus'.openers = bus.openers
        /\ bus' \in [id : MaybeId, gone : BOOLEAN, alive : BOOLEAN, openers : SUBSET {"dev", "probe"}]
    BY <1>2, <2>1, BusFields
  <2>5. UsbTyped'
    <3>1. \A i \in DOMAIN evq' : evq'[i] \in Events
      BY <2>3
    <3> QED BY <1>1, <1>2, <2>3, <2>4, <3>1 DEF UsbTyped, UsbTypeOK, Events
  <2>6. NewIsFirst' /\ GoneIsGone'
    <3>1. \A d \in Ids : /\ Event("new", d) \in Events /\ Event("new", d) # e
                         /\ Event("gone", d) \in Events
                         /\ (Event("gone", d) = e => d = bus.id)
      BY DEF Event, Events
    <3> QED BY <1>1, <2>3, <2>4, <3>1 DEF UsbInv, NewIsFirst, GoneIsGone
  <2> QED BY <1>1, <1>2, <2>3, <2>4, <2>5, <2>6
          DEF UsbInv, EventAtHand, ProbedIsOnBus, LiveIsOnBus, OpeningHasNoHandle, ClosingIsLive,
              HandleDanglesOnlyInClose
<1> QED BY <1>3, <1>4

\* A device is enumerated under an identity nothing refers to.
LEMMA FoundInv == ASSUME UsbInv, PollLib, LibDeviceFound PROVE UsbInv'
<1>1. /\ mpc = "lib" /\ mpc' = "msc" /\ bus.id = NoDev
      /\ UNCHANGED <<plugged, powered, pending, retries, handle, cap, since, addr, hpc, hev, spc, sdev>>
  BY DEF PollLib, LibDeviceFound, Enumerates, MainAt, worldVars, driverVars, handlerVars, spiVars
<1>2. PICK d \in Ids : /\ Unused(d)
                       /\ bus' = [id |-> d, gone |-> FALSE, alive |-> TRUE, openers |-> {}]
                       /\ evq' = Append(evq, Event("new", d))
                       /\ heap' = [heap EXCEPT ![d] = "none"]
  BY DEF LibDeviceFound
<1>3. UsbTyped /\ EventAtHand /\ EventsOnce /\ d # NoDev /\ heap \in [Ids -> {"none", "live", "freed", "leaked", "twice"}]
  BY UsbConstants DEF UsbInv, UsbTyped, UsbTypeOK
<1>4. Event("new", d) \in Events /\ ~Around(Event("new", d)) /\ ~Around(Event("gone", d))
  BY <1>2 DEF Unused, Around, Event, Events
<1>5. /\ evq' \in Seq(Events) /\ EventsOnce'
      /\ \A f \in Events : Around(f)' => Around(f) \/ f = Event("new", d)
  BY <1>1, <1>2, <1>3, <1>4, Posted
<1>6. \A x \in Ids : heap[x] # "live" /\ heap'[x] # "live" /\ (x # d => heap'[x] = heap[x])
  BY <1>1, <1>2, <1>3, UsbConstants DEF UsbInv, LiveIsOnBus
<1>7. \A t \in Tasks : hpc[t] \notin {"probe", "close"}
  <2>1. \A t \in Tasks : hpc[t] # "none" => hev[t].dev \in Ids
    BY <1>3 DEF EventAtHand, Events
  <2> QED BY <1>1, <1>6, <2>1, UsbConstants DEF UsbInv, ProbedIsOnBus, ClosingIsLive
<1>8. UsbTyped'
  BY <1>1, <1>2, <1>3, <1>5 DEF UsbTyped, UsbTypeOK, Events, MaybeId
<1>9. NewIsFirst'
  <2> SUFFICES ASSUME NEW x \in Ids, Around(Event("new", x))'
               PROVE  heap'[x] = "none" /\ x \notin {pending, addr}
    BY <1>1 DEF NewIsFirst
  <2>1. CASE x = d
    BY <1>2, <1>3, <2>1 DEF Unused
  <2>2. CASE x # d
    BY <1>5, <1>6, <2>2 DEF UsbInv, NewIsFirst, Event, Events
  <2> QED BY <2>1, <2>2
<1>10. GoneIsGone'
  BY <1>2, <1>4, <1>5 DEF GoneIsGone, Event, Events
<1>11. HandleDanglesOnlyInClose'
  <2>1. handle # d
    BY <1>2 DEF Unused
  <2> QED BY <1>1, <1>2, <1>3, <1>6, <2>1 DEF UsbInv, HandleDanglesOnlyInClose, UsbTyped, UsbTypeOK, MaybeId
<1> QED BY <1>1, <1>3, <1>5, <1>6, <1>7, <1>8, <1>9, <1>10, <1>11
        DEF UsbInv, EventAtHand, ProbedIsOnBus, LiveIsOnBus, OpeningHasNoHandle, ClosingIsLive

\* The library call of poll.
LEMMA PollLibInv == ASSUME UsbInv, PollLib PROVE UsbInv'
<1>1. CASE LibNothing
  BY <1>1, QuietInv DEF PollLib, LibNothing, MainAt, Quiet, worldVars, driverVars, handlerVars,
                        spiVars, UsbInv, UsbTyped, UsbTypeOK
<1> QED BY <1>1, LostInv, FoundInv DEF PollLib

-----------------------------------------------------------------------------
(* try_open_and_mount.                                                      *)

\* A device that is there is opened: its object comes into use.
LEMMA OpenBeginInv == ASSUME UsbInv, OpenBegin PROVE UsbInv'
<1>1. /\ mpc = "open" /\ mpc' = "install" /\ pending # NoDev /\ retries > 0 /\ addr' = pending
      /\ UNCHANGED <<plugged, powered, evq, pending, retries, handle, cap, since, hpc, hev, spc, sdev>>
  BY DEF OpenBegin, MainAt, worldVars, driverVars, handlerVars, spiVars
<1>2. /\ addr = NoDev /\ handle = NoDev /\ pending \in Ids
      /\ UsbTyped /\ heap \in [Ids -> {"none", "live", "freed", "leaked", "twice"}]
  BY <1>1 DEF UsbInv, UsbTyped, UsbTypeOK, MaybeId, OpeningHasNoHandle
<1>3. ~Around(Event("new", pending))
  BY <1>2 DEF UsbInv, NewIsFirst
<1>4. EventAtHand' /\ EventsOnce' /\ OpeningHasNoHandle' /\ \A e : Around(e)' <=> Around(e)
  BY <1>1, <1>2 DEF UsbInv, EventAtHand, EventsOnce, OpeningHasNoHandle, Around
<1>5. CASE bus.id = pending /\ ~bus.gone
  <2>1. /\ bus' = [bus EXCEPT !.openers = @ \cup {"dev"}] /\ heap' = [heap EXCEPT ![pending] = "live"]
    BY <1>5 DEF OpenBegin
  <2>2. /\ bus'.id = bus.id /\ bus'.gone = bus.gone /\ bus'.openers = bus.openers \cup {"dev"}
        /\ bus' \in [id : MaybeId, gone : BOOLEAN, alive : BOOLEAN, openers : SUBSET {"dev", "probe"}]
    BY <1>2, <2>1, BusFields
  <2>3. UsbTyped'
    BY <1>1, <1>2, <2>1, <2>2 DEF UsbTyped, UsbTypeOK, MaybeId
  <2>4. NewIsFirst' /\ GoneIsGone'
    BY <1>1, <1>2, <1>3, <1>4, <2>1, <2>2 DEF UsbInv, NewIsFirst, GoneIsGone
  <2>5. ProbedIsOnBus' /\ LiveIsOnBus'
    BY <1>1, <1>2, <1>5, <2>1, <2>2 DEF UsbInv, ProbedIsOnBus, LiveIsOnBus
  <2>6. ClosingIsLive' /\ HandleDanglesOnlyInClose'
    BY <1>1, <1>2, <2>1 DEF UsbInv, ClosingIsLive, HandleDanglesOnlyInClose
  <2> QED BY <1>4, <2>3, <2>4, <2>5, <2>6 DEF UsbInv
<1>6. CASE ~(bus.id = pending /\ ~bus.gone)
  <2>1. bus' = bus /\ heap' = heap
    BY <1>6 DEF OpenBegin
  <2>2. UsbTyped'
    BY <1>1, <1>2, <2>1 DEF UsbTyped, UsbTypeOK, MaybeId
  <2>3. NewIsFirst' /\ GoneIsGone' /\ ProbedIsOnBus' /\ ClosingIsLive' /\ HandleDanglesOnlyInClose'
    BY <1>1, <1>3, <1>4, <2>1
       DEF UsbInv, NewIsFirst, GoneIsGone, ProbedIsOnBus, ClosingIsLive, HandleDanglesOnlyInClose
  <2>4. LiveIsOnBus'
    BY <1>1, <1>2, <1>6, <2>1 DEF UsbInv, LiveIsOnBus
  <2> QED BY <1>4, <2>2, <2>3, <2>4 DEF UsbInv
<1> QED BY <1>5, <1>6

\* The device is ready: its handle is published.
LEMMA OpenOkInv == ASSUME UsbInv, OpenOk PROVE UsbInv'
<1>1. /\ mpc = "install" /\ mpc' = "refresh" /\ heap[addr] = "live"
      /\ handle' = addr /\ pending' = NoDev /\ retries' = 0 /\ addr' = NoDev
      /\ UNCHANGED <<plugged, powered, bus, evq, heap, cap, since, hpc, hev, spc, sdev>>
  BY DEF OpenOk, MainAt, worldVars, handlerVars, spiVars
<1>2. addr \in Ids /\ NoDev \notin Ids
  BY <1>1, UsbConstants DEF UsbInv, UsbTyped, UsbTypeOK, MaybeId
<1>3. UsbTyped'
  BY <1>1, <1>2, UsbConstants DEF UsbInv, UsbTyped, UsbTypeOK, MaybeId
<1>4. EventAtHand' /\ EventsOnce' /\ ClosingIsLive' /\ OpeningHasNoHandle' /\ ProbedIsOnBus'
  BY <1>1 DEF UsbInv, EventAtHand, EventsOnce, ClosingIsLive, OpeningHasNoHandle, ProbedIsOnBus
<1>5. NewIsFirst' /\ GoneIsGone'
  BY <1>1, <1>2 DEF UsbInv, NewIsFirst, GoneIsGone, Around
<1>6. LiveIsOnBus' /\ HandleDanglesOnlyInClose'
  BY <1>1, <1>2 DEF UsbInv, LiveIsOnBus, HandleDanglesOnlyInClose
<1> QED BY <1>3, <1>4, <1>5, <1>6 DEF UsbInv

\* The fail path gives back what OpenBegin had acquired.
LEMMA OpenFailInv == ASSUME UsbInv, OpenInvalidState \/ OpenFatal PROVE UsbInv'
<1>1. /\ mpc = "install" /\ mpc' = "watch" /\ InstallFailed /\ addr' = NoDev
      /\ pending' \in {NoDev, pending} /\ retries' \in {0, retries - 1}
      /\ UNCHANGED <<plugged, powered, evq, handle, cap, since, hpc, hev, spc, sdev>>
  BY DEF OpenInvalidState, OpenFatal, MainAt, worldVars, handlerVars, spiVars
<1>2. /\ addr \in Ids /\ NoDev \notin Ids /\ handle = NoDev /\ retries \in 0..RETRY_COUNT
      /\ UsbTyped /\ heap \in [Ids -> {"none", "live", "freed", "leaked", "twice"}]
  BY <1>1, UsbConstants DEF UsbInv, UsbTyped, UsbTypeOK, MaybeId, OpeningHasNoHandle
<1>3. retries' \in -1..RETRY_COUNT /\ pending' \in MaybeId
  BY <1>1, <1>2, UsbConstants DEF UsbTyped, UsbTypeOK, MaybeId
<1>4. EventAtHand' /\ EventsOnce' /\ OpeningHasNoHandle' /\ \A e : Around(e)' <=> Around(e)
  BY <1>1, <1>2 DEF UsbInv, EventAtHand, EventsOnce, OpeningHasNoHandle, Around
<1>5. CASE heap[addr] = "live"
  <2>1. bus' = Closed(bus, "dev") /\ heap' = [heap EXCEPT ![addr] = "freed"]
    BY <1>1, <1>5 DEF InstallFailed
  <2>2. bus.id = addr /\ ~bus.gone
    BY <1>2, <1>5 DEF UsbInv, LiveIsOnBus
  <2>3. /\ bus'.id = bus.id /\ bus'.gone = bus.gone /\ bus'.openers = bus.openers \ {"dev"}
        /\ bus' \in [id : MaybeId, gone : BOOLEAN, alive : BOOLEAN, openers : SUBSET {"dev", "probe"}]
    BY <1>2, <2>1, <2>2, BusFields DEF Closed
  <2>4. UsbTyped'
    BY <1>1, <1>2, <1>3, <2>1, <2>3 DEF UsbTyped, UsbTypeOK, MaybeId
  <2>5. \A d \in Ids : heap'[d] # "live"
    BY <1>2, <2>1, <2>2 DEF UsbInv, LiveIsOnBus
  <2>6. NewIsFirst' /\ GoneIsGone'
    BY <1>1, <1>2, <1>4, <2>1, <2>3 DEF UsbInv, NewIsFirst, GoneIsGone
  <2>7. ProbedIsOnBus'
    BY <1>1, <2>3 DEF UsbInv, ProbedIsOnBus
  <2>8. ClosingIsLive'
    <3> SUFFICES ASSUME NEW t \in Tasks, hpc[t] = "close" PROVE FALSE
      BY <1>1 DEF ClosingIsLive
    <3>1. hev[t].dev \in Ids /\ heap[hev[t].dev] = "live" /\ hev[t].kind # "new"
      BY DEF UsbInv, ClosingIsLive, EventAtHand, Events
    <3>2. hev[t] = Event("gone", bus.id) /\ bus.id \in Ids
      BY <3>1 DEF UsbInv, LiveIsOnBus, EventAtHand, Events, Event
    <3> QED BY <2>2, <3>2 DEF UsbInv, GoneIsGone, Around
  <2>9. HandleDanglesOnlyInClose'
    BY <1>1, <1>2, <2>1 DEF UsbInv, HandleDanglesOnlyInClose
  <2> QED BY <1>4, <2>4, <2>5, <2>6, <2>7, <2>8, <2>9 DEF UsbInv, LiveIsOnBus
<1>6. CASE heap[addr] # "live"
  <2>1. bus' = bus /\ heap' = heap
    BY <1>1, <1>6 DEF InstallFailed
  <2>2. UsbTyped'
    BY <1>1, <1>2, <1>3, <2>1 DEF UsbTyped, UsbTypeOK, MaybeId
  <2>3. \A d \in Ids : heap[d] # "live"
    BY <1>2, <1>6 DEF UsbInv, LiveIsOnBus
  <2>4. NewIsFirst' /\ GoneIsGone'
    BY <1>1, <1>2, <1>4, <2>1 DEF UsbInv, NewIsFirst, GoneIsGone
  <2> QED BY <1>1, <1>4, <2>1, <2>2, <2>3, <2>4
          DEF UsbInv, ProbedIsOnBus, LiveIsOnBus, ClosingIsLive, HandleDanglesOnlyInClose
<1> QED BY <1>5, <1>6

-----------------------------------------------------------------------------
(* client_event_cb and handle_raw_event, in either task.                    *)

Heaps == [Ids -> {"none", "live", "freed", "leaked", "twice"}]

\* The types of what the handlers read and write.
LEMMA HandlerFacts ==
  ASSUME UsbInv
  PROVE  /\ hpc \in [Tasks -> {"none", "probe", "close", "null", "reset"}]
         /\ hev \in [Tasks -> [kind : {"none", "new", "gone"}, dev : MaybeId]]
         /\ heap \in Heaps /\ handle \in MaybeId /\ NoDev \notin Ids
         /\ UsbTyped /\ EventAtHand /\ EventsOnce
         /\ \A d \in Ids : /\ Event("new", d) \in Events /\ Event("gone", d) \in Events
                           /\ Event("new", d).dev = d /\ Event("gone", d).dev = d
         /\ \A e \in Events : /\ e = Event(e.kind, e.dev) /\ e.dev \in Ids /\ e # NoEvent
                              /\ e.kind \in {"new", "gone"}
<1>1. UsbTyped /\ EventAtHand /\ EventsOnce
  BY DEF UsbInv
<1>2. /\ hpc \in [Tasks -> {"none", "probe", "close", "null", "reset"}]
      /\ hev \in [Tasks -> [kind : {"none", "new", "gone"}, dev : MaybeId]]
      /\ heap \in Heaps /\ handle \in MaybeId
  BY <1>1 DEF UsbTyped, UsbTypeOK, Heaps
<1>3. NoDev \notin Ids
  BY UsbConstants
<1>4. \A d \in Ids : /\ Event("new", d) \in Events /\ Event("gone", d) \in Events
                    /\ Event("new", d).dev = d /\ Event("gone", d).dev = d
  BY DEF Event, Events
<1>5. \A e \in Events : /\ e = Event(e.kind, e.dev) /\ e.dev \in Ids /\ e # NoEvent
                       /\ e.kind \in {"new", "gone"}
  BY DEF Event, Events, NoEvent
<1> QED BY <1>1, <1>2, <1>3, <1>4, <1>5

\* The first event is NEW_DEV: the device is opened if it is there.
LEMMA TakeNewDevInv == ASSUME UsbInv, NEW t \in Tasks, TakeNewDev(t) PROVE UsbInv'
<1> DEFINE here == bus.id = Head(evq).dev /\ ~bus.gone
<1>1. /\ evq # << >> /\ Head(evq).kind = "new" /\ hpc[t] = "none" /\ evq' = Tail(evq)
      /\ hpc' = [hpc EXCEPT ![t] = IF here THEN "probe" ELSE "none"]
      /\ UNCHANGED <<plugged, powered, heap, pending, retries, handle, cap, since, mpc, addr, spc, sdev>>
  BY DEF TakeNewDev, Handler, worldVars, driverVars, spiVars
<1>2. IF here THEN bus' = [bus EXCEPT !.openers = @ \cup {"probe"}] /\ hev' = [hev EXCEPT ![t] = Head(evq)]
      ELSE bus' = bus /\ hev' = hev
  BY DEF TakeNewDev
<1>3. /\ evq' \in Seq(Events) /\ EventsOnce' /\ Head(evq) \in Events
      /\ \A e \in Events : Around(e)' => Around(e)
  BY <1>1, <1>2, HandlerFacts, Taken
<1>4. \A i \in DOMAIN evq' : evq'[i] \in Events
  BY <1>3
<1>5. /\ bus'.id = bus.id /\ bus'.gone = bus.gone /\ bus.openers \subseteq bus'.openers
      /\ here => "probe" \in bus'.openers
      /\ bus' \in [id : MaybeId, gone : BOOLEAN, alive : BOOLEAN, openers : SUBSET {"dev", "probe"}]
  BY <1>2, BusFields, HandlerFacts
<1>6. /\ hpc' \in [Tasks -> {"none", "probe", "close", "null", "reset"}]
      /\ hev' \in [Tasks -> [kind : {"none", "new", "gone"}, dev : MaybeId]]
      /\ \A u \in Tasks : \/ hpc'[u] = hpc[u] /\ hev'[u] = hev[u]
                          \/ u = t /\ here /\ hpc'[u] = "probe" /\ hev'[u] = Head(evq)
  <2>1. Head(evq) \in [kind : {"none", "new", "gone"}, dev : MaybeId]
    BY <1>3 DEF Events, MaybeId
  <2>4. /\ hpc \in [Tasks -> {"none", "probe", "close", "null", "reset"}]
        /\ hev \in [Tasks -> [kind : {"none", "new", "gone"}, dev : MaybeId]]
    BY HandlerFacts
  <2>2. CASE here
    <3>1. hpc' = [hpc EXCEPT ![t] = "probe"] /\ hev' = [hev EXCEPT ![t] = Head(evq)]
      BY <1>1, <1>2, <2>2
    <3> QED BY <2>1, <2>2, <2>4, <3>1
  <2>3. CASE ~here
    <3>1. hpc' = [hpc EXCEPT ![t] = "none"] /\ hev' = hev
      BY <1>1, <1>2, <2>3
    <3> QED BY <1>1, <2>4, <3>1
  <2> QED BY <2>2, <2>3
<1>7. UsbTyped'
  BY <1>1, <1>3, <1>4, <1>5, <1>6 DEF UsbInv, UsbTyped, UsbTypeOK, Events
<1>8. EventAtHand'
  BY <1>1, <1>3, <1>6, HandlerFacts DEF EventAtHand
<1>9. NewIsFirst' /\ GoneIsGone'
  BY <1>1, <1>3, <1>5, HandlerFacts DEF UsbInv, NewIsFirst, GoneIsGone
<1>10. ProbedIsOnBus' /\ LiveIsOnBus'
  BY <1>1, <1>5, <1>6 DEF UsbInv, ProbedIsOnBus, LiveIsOnBus
<1>11. OpeningHasNoHandle' /\ ClosingIsLive' /\ HandleDanglesOnlyInClose'
  BY <1>1, <1>6 DEF UsbInv, OpeningHasNoHandle, ClosingIsLive, HandleDanglesOnlyInClose
<1> QED BY <1>3, <1>7, <1>8, <1>9, <1>10, <1>11 DEF UsbInv

\* The device was probed: it is closed, and its address is to be opened.
LEMMA ConnectedInv == ASSUME UsbInv, NEW t \in Tasks, Connected(t) PROVE UsbInv'
<1> DEFINE d == hev[t].dev
<1>1. /\ hpc[t] = "probe" /\ hpc' = [hpc EXCEPT ![t] = "none"] /\ bus' = Closed(bus, "probe")
      /\ pending' = d /\ retries' = RETRY_COUNT /\ handle' = NoDev /\ cap' = NoDev /\ Finish(t)
      /\ UNCHANGED <<plugged, powered, evq, heap, since, mpc, addr, spc, sdev>>
  BY DEF Connected, Handler, worldVars, spiVars
<1>2. /\ d \in Ids /\ hev[t] = Event("new", d) /\ bus.id = d /\ heap[d] = "none" /\ addr # d
  BY <1>1, HandlerFacts DEF UsbInv, EventAtHand, ProbedIsOnBus, NewIsFirst, Around
<1>3. EventsOnce' /\ \A e \in Events : Around(e)' => Around(e)
  BY <1>1, HandlerFacts, Finished
<1>4. /\ bus' = NoBus \/ (bus'.id = bus.id /\ bus'.gone = bus.gone /\ bus'.openers = bus.openers \ {"probe"})
      /\ bus' \in [id : MaybeId, gone : BOOLEAN, alive : BOOLEAN, openers : SUBSET {"dev", "probe"}]
  BY <1>1, BusFields, HandlerFacts DEF Closed
<1>5. /\ hpc' \in [Tasks -> {"none", "probe", "close", "null", "reset"}]
      /\ hev' \in [Tasks -> [kind : {"none", "new", "gone"}, dev : MaybeId]]
      /\ \A u \in Tasks : IF u = t THEN hpc'[u] = "none" /\ hev'[u] = NoEvent
                                   ELSE hpc'[u] = hpc[u] /\ hev'[u] = hev[u]
  BY <1>1, HandlerFacts DEF Finish, NoEvent, Event, MaybeId
<1>6. UsbTyped'
  BY <1>1, <1>2, <1>4, <1>5, UsbConstants DEF UsbInv, UsbTyped, UsbTypeOK, MaybeId
<1>7. EventAtHand'
  BY <1>5 DEF UsbInv, EventAtHand, NoEvent, Event
<1>8. \A x \in Ids : heap[x] # "live"
  BY <1>2 DEF UsbInv, LiveIsOnBus
<1>9. \A x \in Ids : x = d => ~Around(Event("new", x))'
  <2> SUFFICES ASSUME NEW x \in Ids, x = d, Around(Event("new", x))' PROVE FALSE
    OBVIOUS
  <2>1. hev[t] = Event("new", x) /\ hev[t] # NoEvent
    BY <1>2, HandlerFacts
  <2>2. (\E i \in DOMAIN evq : evq[i] = hev[t]) \/ (\E u \in Tasks : hev'[u] = hev[t])
    BY <1>1, <2>1 DEF Around
  <2>3. EventsOnce
    BY DEF UsbInv
  <2>4. \A i \in DOMAIN evq : evq[i] # hev[t]
    BY <2>3 DEF EventsOnce
  <2>5. \A u \in Tasks : hev[u] = hev[t] => u = t
    BY <2>1, <2>3 DEF EventsOnce
  <2> QED BY <1>5, <2>1, <2>2, <2>4, <2>5
<1>10. NewIsFirst'
  <2> SUFFICES ASSUME NEW x \in Ids, Around(Event("new", x))'
               PROVE  heap[x] = "none" /\ x \notin {d, addr}
    BY <1>1 DEF NewIsFirst
  <2>1. Around(Event("new", x)) /\ x # d
    BY <1>3, <1>9, HandlerFacts
  <2> QED BY <2>1 DEF UsbInv, NewIsFirst
<1>11. GoneIsGone'
  BY <1>2, <1>3, <1>4, BusFields, HandlerFacts DEF UsbInv, GoneIsGone
<1>12. ProbedIsOnBus'
  <2> SUFFICES ASSUME NEW u \in Tasks, u # t, hpc[u] = "probe" PROVE FALSE
    BY <1>5 DEF ProbedIsOnBus
  <2>1. hev[u] = Event("new", d) /\ hev[u] # NoEvent
    BY <1>2, HandlerFacts DEF UsbInv, EventAtHand, ProbedIsOnBus
  <2> QED BY <1>2, <2>1 DEF UsbInv, EventsOnce
<1>13. LiveIsOnBus' /\ ClosingIsLive' /\ OpeningHasNoHandle' /\ HandleDanglesOnlyInClose'
  BY <1>1, <1>5, <1>8 DEF UsbInv, LiveIsOnBus, ClosingIsLive, OpeningHasNoHandle, HandleDanglesOnlyInClose
<1> QED BY <1>3, <1>6, <1>7, <1>10, <1>11, <1>12, <1>13 DEF UsbInv

\* The first event is DEV_GONE: it is handled if the device has an object.
LEMMA TakeDevGoneInv == ASSUME UsbInv, NEW t \in Tasks, TakeDevGone(t) PROVE UsbInv'
<1> DEFINE known == heap[Head(evq).dev] = "live"
<1>1. /\ evq # << >> /\ Head(evq).kind = "gone" /\ hpc[t] = "none" /\ evq' = Tail(evq)
      /\ hpc' = [hpc EXCEPT ![t] = IF known THEN "close" ELSE "none"]
      /\ hev' = IF known THEN [hev EXCEPT ![t] = Head(evq)] ELSE hev
      /\ UNCHANGED <<plugged, powered, bus, heap, pending, retries, handle, cap, since, mpc, addr, spc, sdev>>
  BY DEF TakeDevGone, Handler, worldVars, driverVars, spiVars
<1>2. /\ evq' \in Seq(Events) /\ EventsOnce' /\ Head(evq) \in Events
      /\ \A e \in Events : Around(e)' => Around(e)
  BY <1>1, HandlerFacts, Taken
<1>3. \A i \in DOMAIN evq' : evq'[i] \in Events
  BY <1>2
<1>4. /\ hpc' \in [Tasks -> {"none", "probe", "close", "null", "reset"}]
      /\ hev' \in [Tasks -> [kind : {"none", "new", "gone"}, dev : MaybeId]]
      /\ \A u \in Tasks : \/ hpc'[u] = hpc[u] /\ hev'[u] = hev[u]
                          \/ u = t /\ known /\ hpc'[u] = "close" /\ hev'[u] = Head(evq)
  <2>1. Head(evq) \in [kind : {"none", "new", "gone"}, dev : MaybeId]
    BY <1>2 DEF Events, MaybeId
  <2>4. /\ hpc \in [Tasks -> {"none", "probe", "close", "null", "reset"}]
        /\ hev \in [Tasks -> [kind : {"none", "new", "gone"}, dev : MaybeId]]
    BY HandlerFacts
  <2>2. CASE known
    <3>1. hpc' = [hpc EXCEPT ![t] = "close"] /\ hev' = [hev EXCEPT ![t] = Head(evq)]
      BY <1>1, <2>2
    <3> QED BY <2>1, <2>2, <2>4, <3>1
  <2>3. CASE ~known
    <3>1. hpc' = [hpc EXCEPT ![t] = "none"] /\ hev' = hev
      BY <1>1, <2>3
    <3> QED BY <1>1, <2>4, <3>1
  <2> QED BY <2>2, <2>3
<1>5. UsbTyped'
  BY <1>1, <1>2, <1>3, <1>4 DEF UsbInv, UsbTyped, UsbTypeOK, Events
<1>6. EventAtHand'
  BY <1>1, <1>2, <1>4, HandlerFacts DEF EventAtHand
<1>7. NewIsFirst' /\ GoneIsGone'
  BY <1>1, <1>2, HandlerFacts DEF UsbInv, NewIsFirst, GoneIsGone
<1>8. ProbedIsOnBus' /\ LiveIsOnBus' /\ OpeningHasNoHandle'
  BY <1>1, <1>4 DEF UsbInv, ProbedIsOnBus, LiveIsOnBus, OpeningHasNoHandle
<1>9. ClosingIsLive' /\ HandleDanglesOnlyInClose'
  BY <1>1, <1>4 DEF UsbInv, ClosingIsLive, HandleDanglesOnlyInClose
<1> QED BY <1>2, <1>5, <1>6, <1>7, <1>8, <1>9 DEF UsbInv

\* What a DISCONNECTED handler is about to close is the device of its event, and
\* the other handler is not about to close anything.
LEMMA Closing ==
  ASSUME UsbInv, NEW t \in Tasks, hpc[t] = "close"
  PROVE  /\ hev[t].dev \in Ids /\ heap[hev[t].dev] = "live" /\ bus.id = hev[t].dev
         /\ handle \in {NoDev, hev[t].dev}
         /\ \A u \in Tasks : hpc[u] = "close" => u = t
<1>1. \A u \in Tasks : hpc[u] = "close" =>
        /\ hev[u].dev \in Ids /\ heap[hev[u].dev] = "live" /\ hev[u] = Event("gone", hev[u].dev)
        /\ hev[u] # NoEvent
  BY HandlerFacts DEF UsbInv, EventAtHand, ClosingIsLive
<1>2. \A u \in Tasks : hpc[u] = "close" => bus.id = hev[u].dev /\ handle \in {NoDev, hev[u].dev}
  BY <1>1 DEF UsbInv, LiveIsOnBus
<1>3. \A u \in Tasks : hpc[u] = "close" => hev[u] = hev[t]
  BY <1>1, <1>2
<1> QED BY <1>1, <1>2, <1>3 DEF UsbInv, EventsOnce

\* close_device frees the object of the handle, or leaks it.
LEMMA CloseDeviceInv == ASSUME UsbInv, NEW t \in Tasks, CloseDevice(t) PROVE UsbInv'
<1>1. /\ hpc[t] = "close" /\ hpc' = [hpc EXCEPT ![t] = "null"]
      /\ UNCHANGED <<plugged, powered, evq, pending, retries, handle, cap, since, mpc, addr, hev, spc, sdev>>
  BY DEF CloseDevice, Handler, worldVars, driverVars, spiVars
<1>2. /\ hpc' \in [Tasks -> {"none", "probe", "close", "null", "reset"}] /\ hpc'[t] = "null"
      /\ \A u \in Tasks : u # t => hpc'[u] = hpc[u] /\ hpc[u] # "close"
  BY <1>1, HandlerFacts, Closing
<1>3. EventAtHand' /\ EventsOnce' /\ \A e : Around(e)' <=> Around(e)
  BY <1>1, <1>2 DEF UsbInv, EventAtHand, EventsOnce, Around, NoEvent, Event
<1>4. ClosingIsLive' /\ OpeningHasNoHandle'
  BY <1>1, <1>2 DEF UsbInv, ClosingIsLive, OpeningHasNoHandle
<1>5. CASE bus' = bus /\ heap' = heap
  <2>1. UsbTyped'
    BY <1>1, <1>2, <1>5 DEF UsbInv, UsbTyped, UsbTypeOK
  <2>2. NewIsFirst' /\ GoneIsGone' /\ ProbedIsOnBus' /\ LiveIsOnBus' /\ HandleDanglesOnlyInClose'
    BY <1>1, <1>2, <1>3, <1>5
       DEF UsbInv, NewIsFirst, GoneIsGone, ProbedIsOnBus, LiveIsOnBus, HandleDanglesOnlyInClose
  <2> QED BY <1>3, <1>4, <2>1, <2>2 DEF UsbInv
<1>6. CASE /\ handle # NoDev /\ bus' \in {bus, Closed(bus, "dev")}
           /\ heap' = [heap EXCEPT ![handle] = "freed"] \/ heap' = [heap EXCEPT ![handle] = "leaked"]
  <2>1. handle \in Ids /\ heap[handle] = "live" /\ bus.id = handle /\ pending # handle
    BY <1>1, <1>6, HandlerFacts, Closing DEF UsbInv, OpeningHasNoHandle
  <2>2. /\ bus' = NoBus \/ (bus'.id = bus.id /\ bus'.gone = bus.gone /\ bus.openers \ {"dev"} \subseteq bus'.openers)
        /\ bus' \in [id : MaybeId, gone : BOOLEAN, alive : BOOLEAN, openers : SUBSET {"dev", "probe"}]
    BY <1>6, HandlerFacts, BusFields DEF Closed
  <2>3. heap' \in Heaps /\ \A d \in Ids : /\ heap'[d] # "live" /\ heap'[d] # "twice"
                                          /\ (heap'[d] = heap[d] \/ d = handle)
    BY <1>6, <2>1, HandlerFacts DEF Heaps, UsbInv, LiveIsOnBus, HandleDanglesOnlyInClose
  <2>4. UsbTyped'
    BY <1>1, <1>2, <2>2, <2>3 DEF UsbInv, UsbTyped, UsbTypeOK, Heaps
  <2>5. ~Around(Event("new", handle))
    BY <2>1 DEF UsbInv, NewIsFirst
  <2>6. NewIsFirst' /\ GoneIsGone'
    BY <1>1, <1>3, <2>2, <2>3, <2>5, BusFields, HandlerFacts DEF UsbInv, NewIsFirst, GoneIsGone
  <2>7. ProbedIsOnBus'
    <3> SUFFICES ASSUME NEW u \in Tasks, hpc[u] = "probe" PROVE FALSE
      BY <1>2 DEF ProbedIsOnBus
    <3>1. hev[u] = Event("new", handle)
      BY <2>1, HandlerFacts DEF UsbInv, EventAtHand, ProbedIsOnBus
    <3> QED BY <2>5, <3>1 DEF Around
  <2> QED BY <1>2, <1>3, <1>4, <2>3, <2>4, <2>6, <2>7
          DEF UsbInv, LiveIsOnBus, HandleDanglesOnlyInClose
<1>7. handle # NoDev => heap[handle] = "live"
  BY <1>1, Closing
<1> QED BY <1>5, <1>6, <1>7, HandlerFacts DEF CloseDevice, Heaps, MaybeId

\* ... clears the handle ...
LEMMA ClearHandleInv == ASSUME UsbInv, NEW t \in Tasks, ClearHandle(t) PROVE UsbInv'
<1>1. /\ hpc[t] = "null" /\ hpc' = [hpc EXCEPT ![t] = "reset"] /\ handle' = NoDev
      /\ UNCHANGED <<plugged, powered, bus, evq, heap, pending, retries, cap, since, mpc, addr, hev, spc, sdev>>
  BY DEF ClearHandle, Handler, worldVars, spiVars
<1>2. /\ hpc' \in [Tasks -> {"none", "probe", "close", "null", "reset"}] /\ hpc'[t] = "reset"
      /\ \A u \in Tasks : u # t => hpc'[u] = hpc[u]
  BY <1>1, HandlerFacts
<1>3. UsbTyped'
  BY <1>1, <1>2 DEF UsbInv, UsbTyped, UsbTypeOK, MaybeId
<1>4. EventAtHand' /\ EventsOnce' /\ NewIsFirst' /\ GoneIsGone'
  BY <1>1, <1>2 DEF UsbInv, EventAtHand, EventsOnce, NewIsFirst, GoneIsGone, Around, NoEvent, Event
<1>5. ProbedIsOnBus' /\ LiveIsOnBus' /\ OpeningHasNoHandle' /\ ClosingIsLive' /\ HandleDanglesOnlyInClose'
  BY <1>1, <1>2 DEF UsbInv, ProbedIsOnBus, LiveIsOnBus, OpeningHasNoHandle, ClosingIsLive,
                    HandleDanglesOnlyInClose
<1> QED BY <1>3, <1>4, <1>5 DEF UsbInv

\* ... and the rest of the driver's state is reset.
LEMMA DisconnectedInv == ASSUME UsbInv, NEW t \in Tasks, Disconnected(t) PROVE UsbInv'
<1>1. /\ hpc[t] = "reset" /\ hpc' = [hpc EXCEPT ![t] = "none"] /\ Finish(t)
      /\ pending' = NoDev /\ retries' = 0 /\ cap' = NoDev
      /\ UNCHANGED <<plugged, powered, bus, evq, heap, handle, since, mpc, addr, spc, sdev>>
  BY DEF Disconnected, Handler, worldVars, spiVars
<1>2. EventsOnce' /\ \A e \in Events : Around(e)' => Around(e)
  BY <1>1, HandlerFacts, Finished
<1>3. /\ hpc' \in [Tasks -> {"none", "probe", "close", "null", "reset"}]
      /\ hev' \in [Tasks -> [kind : {"none", "new", "gone"}, dev : MaybeId]]
      /\ \A u \in Tasks : IF u = t THEN hpc'[u] = "none" /\ hev'[u] = NoEvent
                                   ELSE hpc'[u] = hpc[u] /\ hev'[u] = hev[u]
  BY <1>1, HandlerFacts DEF Finish, NoEvent, Event, MaybeId
<1>4. UsbTyped'
  BY <1>1, <1>3, UsbConstants DEF UsbInv, UsbTyped, UsbTypeOK, MaybeId
<1>5. EventAtHand'
  BY <1>3 DEF UsbInv, EventAtHand, NoEvent, Event
<1>6. NewIsFirst' /\ GoneIsGone'
  BY <1>1, <1>2, HandlerFacts DEF UsbInv, NewIsFirst, GoneIsGone
<1>7. ProbedIsOnBus' /\ LiveIsOnBus' /\ OpeningHasNoHandle' /\ ClosingIsLive' /\ HandleDanglesOnlyInClose'
  BY <1>1, <1>3 DEF UsbInv, ProbedIsOnBus, LiveIsOnBus, OpeningHasNoHandle, ClosingIsLive,
                    HandleDanglesOnlyInClose
<1> QED BY <1>2, <1>4, <1>5, <1>6, <1>7 DEF UsbInv

\* Every step keeps the invariant.
LEMMA UsbNextInv == UsbInv /\ [UsbNext]_vars => UsbInv'
<1> SUFFICES ASSUME UsbInv, [UsbNext]_vars PROVE UsbInv'
  OBVIOUS
<1>1. CASE MainStep
  BY <1>1, QuietSteps, PollLibInv, OpenBeginInv, OpenOkInv, OpenFailInv DEF MainStep
<1>2. ASSUME NEW t \in Tasks, HandleEvent(t) PROVE UsbInv'
  BY <1>2, TakeNewDevInv, ConnectedInv, TakeDevGoneInv, CloseDeviceInv, ClearHandleInv, DisconnectedInv
     DEF HandleEvent
<1>3. CASE ScsiBegin \/ ScsiEnd \/ CapacityStore \/ Plug \/ Unplug \/ TwoSeconds
  BY <1>3, QuietSteps
<1>4. CASE UNCHANGED vars
  BY <1>4, QuietInv DEF vars, Quiet, UsbInv, UsbTyped, UsbTypeOK
<1> QED BY <1>1, <1>2, <1>3, <1>4 DEF UsbNext

\* The inductive invariant holds whatever main, background task, SPI task, user and
\* drive do, in whatever order.
THEOREM UsbInvariance == UsbSpec => []UsbInv
  BY UsbInitInv, UsbNextInv, PTL DEF UsbSpec

\* Type correctness; retries_left in particular stays within -1 and RETRY_COUNT.
THEOREM UsbTypeCorrect == UsbSpec => []UsbTypeOK
<1>1. UsbInv => UsbTypeOK
  BY DEF UsbInv, UsbTyped
<1> QED BY <1>1, UsbInvariance, PTL

\* No device object is freed twice, and the driver's handle dangles only between
\* the two statements of close_device.
THEOREM HandleDanglesTheorem == UsbSpec => []HandleDanglesOnlyInClose
<1>1. UsbInv => HandleDanglesOnlyInClose
  BY DEF UsbInv
<1> QED BY <1>1, UsbInvariance, PTL

\* A DISCONNECTED handler closes the device of its event although it closes
\* whatever handle the driver has.
THEOREM ClosesTheGoneTheorem == UsbSpec => []ClosesTheGoneDevice
<1>1. UsbInv => ClosesTheGoneDevice
  BY Closing DEF ClosesTheGoneDevice
<1> QED BY <1>1, UsbInvariance, PTL

-----------------------------------------------------------------------------
(* With the priorities of the tasks.                                        *)

\* PromptInv holds at first.
LEMMA PromptInitInv == UsbInit => PromptInv
<1> SUFFICES ASSUME UsbInit PROVE PromptInv
  OBVIOUS
<1>1. OneEvent /\ ClosedIsLast /\ StoreIsCurrent
  BY DEF UsbInit, OneEvent, ClosedIsLast, StoreIsCurrent, Tasks
<1>2. CapacityOfPending /\ OffIsPower /\ NoOrphan /\ ScsiHasHandle /\ CapacityIsOfHandle
  BY DEF UsbInit, CapacityOfPending, OffIsPower, NoOrphan, ScsiHasHandle, CapacityIsOfHandle
<1> QED BY <1>1, <1>2 DEF PromptInv

\* Main runs only between events.
LEMMA MainBetweenEvents ==
  ASSUME Prompt, UsbInv, PromptInv, MainStep
  PROVE  /\ evq = << >> /\ \A t \in Tasks : hpc[t] = "none"
         /\ UNCHANGED <<hpc, hev, spc, sdev, plugged>>
<1>1. Scheduled /\ UNCHANGED <<hpc, hev, spc, sdev, plugged>>
  BY DEF MainStep, PollLib, PollMscDone, OpenSkip, OpenBegin, OpenOk, OpenInvalidState, OpenFatal,
         OpenRefresh, Watch, PowerOff, PowerOn, MainAt, handlerVars, spiVars, worldVars
<1>2. evq = << >> /\ hpc["bg"] = "none"
  BY <1>1 DEF Scheduled
<1>3. mpc # "msc" \/ hpc["main"] = "none"
  BY DEF MainStep, PollLib, PollMscDone, OpenSkip, OpenBegin, OpenOk, OpenInvalidState, OpenFatal,
         OpenRefresh, Watch, PowerOff, PowerOn, MainAt
<1> QED BY <1>1, <1>2, <1>3 DEF PromptInv, OneEvent, Tasks

\* Enumeration waits for a capacity that is about to be cached.
LEMMA PollLibPrompt == ASSUME Prompt, UsbInv, PromptInv, PollLib PROVE PromptInv'
<1>1. /\ evq = << >> /\ (\A t \in Tasks : hpc[t] = "none") /\ mpc = "lib" /\ mpc' = "msc"
      /\ UNCHANGED <<hpc, hev, spc, sdev, plugged, powered, pending, retries, handle, cap, since, addr>>
  BY MainBetweenEvents DEF MainStep, PollLib, MainAt, worldVars, driverVars, handlerVars, spiVars
<1>2. /\ bus'.id \in {bus.id, NoDev} \/ spc # "store"
      /\ \A d \in Ids : heap'[d] = "live" => heap[d] = "live"
      /\ Len(evq') <= 1
  <2>1. UsbTyped /\ heap \in Heaps
    BY HandlerFacts
  <2>2. CASE LibDeviceLost
    <3>1. bus' = NoBus \/ bus' = [bus EXCEPT !.gone = TRUE]
      BY <2>2 DEF LibDeviceLost
    <3>2. bus'.id \in {bus.id, NoDev}
      BY <2>1, <3>1, BusFields
    <3>3. heap' = heap /\ (evq' = evq \/ evq' = Append(evq, Event("gone", bus.id)))
      BY <2>2 DEF LibDeviceLost
    <3>4. bus.id \in Ids /\ evq \in Seq(Events) /\ Len(evq) = 0
      BY <1>1, <2>1, <2>2 DEF LibDeviceLost, UsbTyped, UsbTypeOK, MaybeId
    <3>5. Len(evq') <= 1
      BY <3>3, <3>4, HandlerFacts
    <3> QED BY <3>2, <3>3, <3>5
  <2>3. CASE LibDeviceFound
    BY <1>1, <2>1, <2>3 DEF LibDeviceFound, Enumerates, Heaps
  <2>4. CASE LibNothing
    BY <1>1, <2>4 DEF LibNothing
  <2> QED BY <2>2, <2>3, <2>4 DEF PollLib
<1>3. OneEvent' /\ ClosedIsLast'
  BY <1>1, <1>2 DEF OneEvent, ClosedIsLast, Tasks
<1>4. StoreIsCurrent' /\ CapacityOfPending' /\ OffIsPower' /\ CapacityIsOfHandle'
  BY <1>1, <1>2 DEF PromptInv, StoreIsCurrent, CapacityOfPending, OffIsPower, CapacityIsOfHandle
<1>5. NoOrphan' /\ ScsiHasHandle'
  BY <1>1, <1>2 DEF PromptInv, NoOrphan, ScsiHasHandle
<1> QED BY <1>3, <1>4, <1>5 DEF PromptInv

\* Opening: the object goes from the installation to the handle, or is freed.
LEMMA OpenPrompt ==
  ASSUME Prompt, UsbInv, PromptInv, OpenBegin \/ OpenOk \/ OpenInvalidState \/ OpenFatal
  PROVE  PromptInv'
<1>1. /\ evq = << >> /\ (\A t \in Tasks : hpc[t] = "none") /\ mpc \in {"open", "install"}
      /\ UNCHANGED <<hpc, hev, spc, sdev, plugged, powered, evq, cap>>
      /\ mpc' # "msc"
  BY MainBetweenEvents DEF MainStep, OpenBegin, OpenOk, OpenInvalidState, OpenFatal, MainAt,
                           worldVars, driverVars
<1>2. powered
  BY <1>1 DEF PromptInv, OffIsPower
<1>3. OneEvent' /\ ClosedIsLast' /\ OffIsPower' /\ ScsiHasHandle'
  BY <1>1, <1>2 DEF PromptInv, OneEvent, ClosedIsLast, OffIsPower, ScsiHasHandle, Tasks
<1>4. UsbTyped /\ heap \in Heaps /\ NoDev \notin Ids
  BY HandlerFacts
<1>5. CASE OpenBegin
  <2>1. /\ addr' = pending /\ UNCHANGED <<pending, handle>> /\ addr = NoDev /\ pending \in Ids
        /\ bus'.id = bus.id
        /\ \A d \in Ids : heap'[d] = "live" => heap[d] = "live" \/ d = pending
    BY <1>1, <1>4, <1>5, BusFields DEF OpenBegin, MainAt, driverVars, UsbTyped, UsbTypeOK, MaybeId, Heaps
  <2> QED BY <1>1, <1>3, <1>4, <2>1
          DEF PromptInv, StoreIsCurrent, CapacityOfPending, NoOrphan, CapacityIsOfHandle
<1>6. CASE OpenOk
  <2>1. /\ handle' = addr /\ addr' = NoDev /\ pending' = NoDev /\ UNCHANGED <<bus, heap>>
        /\ addr \in Ids /\ heap[addr] = "live"
    BY <1>4, <1>6 DEF OpenOk, MainAt, UsbTyped, UsbTypeOK, MaybeId
  <2>2. \A d \in Ids : heap[d] = "live" => d = addr
    BY <2>1 DEF UsbInv, LiveIsOnBus
  <2> QED BY <1>1, <1>3, <2>1, <2>2
          DEF PromptInv, StoreIsCurrent, CapacityOfPending, NoOrphan, CapacityIsOfHandle
<1>7. CASE OpenInvalidState \/ OpenFatal
  <2>1. /\ addr' = NoDev /\ pending' \in {NoDev, pending} /\ handle' = handle /\ handle = NoDev
        /\ addr \in Ids /\ InstallFailed
    BY <1>4, <1>7 DEF OpenInvalidState, OpenFatal, MainAt, UsbInv, UsbTyped, UsbTypeOK, MaybeId,
                      OpeningHasNoHandle
  <2>2. bus'.id \in {bus.id, NoDev} /\ \A d \in Ids : heap'[d] # "live"
    <3>1. CASE heap[addr] = "live"
      BY <1>4, <2>1, <3>1, BusFields DEF InstallFailed, Closed, UsbInv, LiveIsOnBus, Heaps
    <3>2. CASE heap[addr] # "live"
      BY <1>4, <2>1, <3>2 DEF InstallFailed, UsbInv, LiveIsOnBus
    <3> QED BY <3>1, <3>2
  <2> QED BY <1>1, <1>3, <2>1, <2>2
          DEF PromptInv, StoreIsCurrent, CapacityOfPending, NoOrphan, CapacityIsOfHandle
<1> QED BY <1>5, <1>6, <1>7

\* The rest of poll: the watchdog cuts the power only if nothing is in use.
LEMMA PollPrompt ==
  ASSUME Prompt, UsbInv, PromptInv,
         PollMscDone \/ OpenSkip \/ OpenRefresh \/ Watch \/ PowerOff \/ PowerOn
  PROVE  PromptInv'
<1>1. /\ evq = << >> /\ (\A t \in Tasks : hpc[t] = "none")
      /\ UNCHANGED <<hpc, hev, spc, sdev, plugged, evq, heap, pending, handle, addr>>
      /\ mpc' # "msc"
  BY MainBetweenEvents DEF MainStep, PollMscDone, OpenSkip, OpenRefresh, Watch, PowerOff, PowerOn,
                           MainAt, driverVars
<1>2. bus'.id = bus.id
  BY HandlerFacts, BusFields DEF PollMscDone, OpenSkip, OpenRefresh, Watch, PowerOff, PowerOn
<1>3. cap' = cap \/ (cap' = handle /\ handle # NoDev)
  BY DEF PollMscDone, OpenSkip, OpenRefresh, Watch, PowerOff, PowerOn, driverVars
<1>4. OneEvent' /\ ClosedIsLast' /\ StoreIsCurrent' /\ NoOrphan' /\ ScsiHasHandle'
  BY <1>1, <1>2 DEF PromptInv, OneEvent, ClosedIsLast, StoreIsCurrent, NoOrphan, ScsiHasHandle, Tasks
<1>5. CapacityOfPending' /\ CapacityIsOfHandle'
  BY <1>1, <1>3 DEF PromptInv, CapacityOfPending, CapacityIsOfHandle, UsbInv, OpeningHasNoHandle
<1>6. OffIsPower'
  <2>1. CASE PowerOff
    <3>1. mpc' = "power" /\ handle = NoDev /\ addr = NoDev
      BY <2>1 DEF PowerOff, MainAt, NoDevice, UsbInv, UsbTyped
    <3>2. \A d \in Ids : heap[d] # "live"
      BY <3>1, HandlerFacts DEF PromptInv, NoOrphan
    <3> QED BY <1>1, <3>1, <3>2 DEF OffIsPower
  <2>2. CASE PowerOn
    BY <2>2 DEF PowerOn, OffIsPower
  <2>3. CASE PollMscDone \/ OpenSkip \/ OpenRefresh \/ Watch
    <3>1. powered' = powered /\ mpc # "power"
      BY <2>3 DEF PollMscDone, OpenSkip, OpenRefresh, Watch, MainAt, worldVars
    <3> QED BY <1>1, <3>1 DEF PromptInv, OffIsPower
  <2> QED BY <2>1, <2>2, <2>3
<1> QED BY <1>4, <1>5, <1>6 DEF PromptInv

\* User, time and SPI task: what is cached was read from the drive at hand.
LEMMA OthersPrompt ==
  ASSUME Prompt, UsbInv, PromptInv,
         Plug \/ Unplug \/ TwoSeconds \/ ScsiBegin \/ ScsiEnd \/ CapacityStore
  PROVE  PromptInv'
<1>1. UNCHANGED <<powered, evq, heap, pending, handle, mpc, addr, hpc>>
  BY DEF Plug, Unplug, TwoSeconds, ScsiBegin, ScsiEnd, CapacityStore, worldVars, driverVars, handlerVars
<1>2. bus'.id = bus.id
  BY HandlerFacts, BusFields DEF Plug, Unplug, TwoSeconds, ScsiBegin, ScsiEnd, CapacityStore
<1>3. OneEvent' /\ ClosedIsLast' /\ NoOrphan' /\ OffIsPower'
  BY <1>1 DEF PromptInv, OneEvent, ClosedIsLast, NoOrphan, OffIsPower
<1>4. StoreIsCurrent' /\ ScsiHasHandle'
  <2>1. CASE ScsiBegin
    BY <1>1, <1>2, <2>1, HandlerFacts DEF ScsiBegin, StoreIsCurrent, ScsiHasHandle, MaybeId
  <2>2. CASE ScsiEnd
    BY <1>1, <1>2, <2>2, HandlerFacts
       DEF ScsiEnd, PromptInv, StoreIsCurrent, ScsiHasHandle, UsbInv, LiveIsOnBus
  <2>3. CASE CapacityStore
    BY <2>3 DEF CapacityStore, StoreIsCurrent, ScsiHasHandle
  <2>4. CASE Plug \/ Unplug \/ TwoSeconds
    BY <1>1, <1>2, <2>4 DEF Plug, Unplug, TwoSeconds, spiVars, PromptInv, StoreIsCurrent, ScsiHasHandle
  <2> QED BY <2>1, <2>2, <2>3, <2>4
<1>5. CapacityOfPending' /\ CapacityIsOfHandle'
  <2>1. cap' = cap \/ (spc = "store" /\ cap' = sdev)
    BY DEF Plug, Unplug, TwoSeconds, ScsiBegin, ScsiEnd, CapacityStore, driverVars
  <2> QED BY <1>1, <2>1 DEF PromptInv, CapacityOfPending, CapacityIsOfHandle, StoreIsCurrent
<1> QED BY <1>3, <1>4, <1>5 DEF PromptInv

\* A handler has the one event there is, and main waits for it.
LEMMA OnlyHandler ==
  ASSUME Prompt, UsbInv, PromptInv, NEW t \in Tasks, HandleEvent(t)
  PROVE  /\ mpc = "msc" /\ addr = NoDev /\ powered
         /\ (\A u \in Tasks : u # t => hpc[u] = "none")
         /\ hpc[t] # "none" => evq = << >>
         /\ hpc[t] = "none" => evq # << >>
         /\ UNCHANGED <<powered, mpc, addr, spc, sdev, plugged>>
<1>1. evq # << >> \/ hpc[t] # "none"
  BY DEF HandleEvent, TakeNewDev, TakeDevGone, Connected, CloseDevice, ClearHandle, Disconnected, Handler
<1>2. mpc = "msc" /\ addr = NoDev /\ powered
  BY <1>1 DEF PromptInv, OneEvent, OffIsPower, UsbInv, UsbTyped
<1>3. UNCHANGED <<powered, mpc, addr, spc, sdev, plugged>>
  BY DEF HandleEvent, TakeNewDev, TakeDevGone, Connected, CloseDevice, ClearHandle, Disconnected,
         worldVars, spiVars
<1>4. /\ \A u \in Tasks : u # t => hpc[u] = "none"
      /\ hpc[t] # "none" => evq = << >>
  BY <1>1 DEF PromptInv, OneEvent, Tasks
<1> QED BY <1>1, <1>2, <1>3, <1>4

\* Connection and disconnection, one event at a time.
LEMMA HandlerPrompt ==
  ASSUME Prompt, UsbInv, PromptInv, NEW t \in Tasks, HandleEvent(t)
  PROVE  PromptInv'
<1>1. /\ mpc' = "msc" /\ addr = NoDev /\ powered'
      /\ (\A u \in Tasks : u # t => hpc[u] = "none")
      /\ UNCHANGED <<mpc, addr, spc, sdev>>
  BY OnlyHandler
<1>2. /\ hpc \in [Tasks -> {"none", "probe", "close", "null", "reset"}] /\ NoDev \notin Ids
      /\ UsbTyped /\ heap \in Heaps /\ handle \in MaybeId
  BY HandlerFacts
<1>3. hpc' = [hpc EXCEPT ![t] = hpc'[t]]
  BY <1>2 DEF HandleEvent, TakeNewDev, TakeDevGone, Connected, CloseDevice, ClearHandle,
              Disconnected, Handler
<1>4. \A u \in Tasks : u # t => hpc'[u] = "none"
  BY <1>1, <1>2, <1>3
<1>5. OffIsPower' /\ ScsiHasHandle'
  BY <1>1 DEF PromptInv, OffIsPower, ScsiHasHandle
<1>6. OneEvent'
  <2>1. evq' = << >>
    <3>1. CASE hpc[t] # "none"
      BY <3>1, OnlyHandler DEF HandleEvent, TakeNewDev, TakeDevGone, Connected, CloseDevice,
                               ClearHandle, Disconnected, Handler
    <3>2. CASE hpc[t] = "none"
      <4>1. evq' = Tail(evq) /\ evq # << >>
        BY <3>2 DEF HandleEvent, TakeNewDev, TakeDevGone, Connected, CloseDevice, ClearHandle,
                    Disconnected, Handler
      <4>2. evq \in Seq(Events) /\ Len(evq) <= 1
        BY <1>2 DEF UsbTyped, PromptInv, OneEvent
      <4>3. Len(evq) \in Nat \ {0}
        BY <4>1, <4>2, EmptySeq, Zenon
      <4>4. \A n \in Nat \ {0} : n <= 1 => n = 1
        OBVIOUS
      <4>5. Len(evq) = 1
        BY <4>2, <4>3, <4>4, Zenon
      <4>6. Tail(evq) \in Seq(Events) /\ Len(Tail(evq)) = 0
        BY <4>2, <4>5
      <4>7. Tail(evq) = << >>
        BY <4>6, EmptySeq, Zenon
      <4> QED BY <4>1, <4>7
    <3> QED BY <3>1, <3>2
  <2> QED BY <1>1, <1>4, <2>1 DEF OneEvent, Tasks
<1>7. CASE TakeNewDev(t) \/ TakeDevGone(t)
  <2>1. UNCHANGED <<heap, pending, handle, cap>> /\ hpc'[t] # "null"
    BY <1>2, <1>7 DEF TakeNewDev, TakeDevGone, Handler, driverVars
  <2>2. bus'.id = bus.id
    BY <1>2, <1>7, BusFields DEF TakeNewDev, TakeDevGone
  <2> QED BY <1>1, <1>4, <1>5, <1>6, <2>1, <2>2
          DEF PromptInv, ClosedIsLast, StoreIsCurrent, CapacityOfPending, NoOrphan, CapacityIsOfHandle
<1>8. CASE Connected(t)
  <2>1. /\ hpc[t] = "probe" /\ hpc'[t] = "none" /\ pending' = hev[t].dev /\ handle' = NoDev /\ cap' = NoDev
        /\ heap' = heap /\ bus' = Closed(bus, "probe")
    BY <1>2, <1>8 DEF Connected, Handler
  <2>2. /\ bus.id = hev[t].dev /\ bus.id \in Ids /\ heap[bus.id] = "none"
    BY <2>1, HandlerFacts DEF UsbInv, ProbedIsOnBus, EventAtHand, NewIsFirst, Around
  <2>3. \A d \in Ids : heap[d] # "live"
    BY <2>2 DEF UsbInv, LiveIsOnBus
  <2>4. bus'.id \in {bus.id, NoDev}
    BY <1>2, <2>1, BusFields DEF Closed
  <2>5. StoreIsCurrent'
    BY <1>1, <1>2, <2>1, <2>2, <2>4 DEF PromptInv, StoreIsCurrent
  <2> QED BY <1>1, <1>4, <1>5, <1>6, <2>1, <2>3, <2>5
          DEF PromptInv, ClosedIsLast, CapacityOfPending, NoOrphan, CapacityIsOfHandle
<1>9. CASE CloseDevice(t)
  <2>1. hpc[t] = "close" /\ UNCHANGED <<pending, handle, cap>>
    BY <1>9 DEF CloseDevice, Handler, driverVars
  <2>2. handle = hev[t].dev /\ handle \in Ids
    BY <1>1, <2>1, Closing, HandlerFacts DEF PromptInv, NoOrphan
  <2>3. \A d \in Ids : heap'[d] # "live"
    <3>1. \/ heap' = [heap EXCEPT ![handle] = IF @ = "live" THEN "freed" ELSE "twice"]
          \/ heap' = [heap EXCEPT ![handle] = "leaked"]
      BY <1>2, <1>9, <2>2 DEF CloseDevice
    <3>2. \A d \in Ids : heap[d] = "live" => d = handle
      BY <1>2, <2>1, <2>2, Closing DEF UsbInv, LiveIsOnBus
    <3> QED BY <1>2, <2>2, <3>1, <3>2 DEF Heaps
  <2>4. bus'.id \in {bus.id, NoDev}
    BY <1>2, <1>9, BusFields DEF CloseDevice, Closed
  <2> QED BY <1>1, <1>5, <1>6, <2>1, <2>3, <2>4
          DEF PromptInv, ClosedIsLast, StoreIsCurrent, CapacityOfPending, NoOrphan, CapacityIsOfHandle
<1>10. CASE ClearHandle(t)
  <2>1. /\ hpc[t] = "null" /\ hpc'[t] = "reset" /\ handle' = NoDev
        /\ UNCHANGED <<bus, heap, pending, cap>>
    BY <1>2, <1>10 DEF ClearHandle, Handler
  <2>2. \A d \in Ids : heap[d] # "live"
    BY <2>1 DEF PromptInv, ClosedIsLast
  <2> QED BY <1>1, <1>5, <1>6, <2>1, <2>2
          DEF PromptInv, ClosedIsLast, StoreIsCurrent, CapacityOfPending, NoOrphan, CapacityIsOfHandle
<1>11. CASE Disconnected(t)
  <2>1. /\ hpc[t] = "reset" /\ hpc'[t] = "none" /\ pending' = NoDev /\ cap' = NoDev
        /\ UNCHANGED <<bus, heap, handle>>
    BY <1>2, <1>11 DEF Disconnected, Handler
  <2> QED BY <1>1, <1>4, <1>5, <1>6, <2>1
          DEF PromptInv, ClosedIsLast, StoreIsCurrent, CapacityOfPending, NoOrphan, CapacityIsOfHandle
<1> QED BY <1>7, <1>8, <1>9, <1>10, <1>11 DEF HandleEvent

\* With the priorities, the second invariant holds as well.
THEOREM PromptInvariance == ASSUME Prompt PROVE UsbSpec => []PromptInv
<1>1. UsbInv /\ PromptInv /\ [UsbNext]_vars => PromptInv'
  <2> SUFFICES ASSUME UsbInv, PromptInv, [UsbNext]_vars PROVE PromptInv'
    OBVIOUS
  <2>1. CASE MainStep
    BY <2>1, PollLibPrompt, OpenPrompt, PollPrompt DEF MainStep
  <2>2. ASSUME NEW t \in Tasks, HandleEvent(t) PROVE PromptInv'
    BY <2>2, HandlerPrompt
  <2>3. CASE ScsiBegin \/ ScsiEnd \/ CapacityStore \/ Plug \/ Unplug \/ TwoSeconds
    BY <2>3, OthersPrompt
  <2>4. CASE UNCHANGED vars
    BY <2>4 DEF vars, PromptInv, OneEvent, ClosedIsLast, StoreIsCurrent, CapacityOfPending,
                OffIsPower, ScsiHasHandle, NoOrphan, CapacityIsOfHandle
  <2> QED BY <2>1, <2>2, <2>3, <2>4 DEF UsbNext
<1> QED BY <1>1, PromptInitInv, UsbInvariance, PTL DEF UsbSpec

\* With the priorities no device object is lost: neither the CONNECTED handler,
\* which overwrites the handle, nor an error path of the installation forgets one.
THEOREM NoOrphanTheorem == ASSUME Prompt PROVE UsbSpec => []NoOrphan
<1>1. PromptInv => NoOrphan
  BY DEF PromptInv
<1> QED BY <1>1, PromptInvariance, PTL

\* With the priorities the cached capacity is never that of another drive.
THEOREM CapacityTheorem == ASSUME Prompt PROVE UsbSpec => []CapacityIsOfHandle
<1>1. PromptInv => CapacityIsOfHandle
  BY DEF PromptInv
<1> QED BY <1>1, PromptInvariance, PTL

\* With the priorities the watchdog cuts the power of no device in use.
THEOREM PowerTheorem == ASSUME Prompt PROVE UsbSpec => []PowerCutsNothingInUse
<1>1. PromptInv => PowerCutsNothingInUse
  BY DEF PromptInv, OffIsPower, ScsiHasHandle, PowerCutsNothingInUse
<1> QED BY <1>1, PromptInvariance, PTL
=============================================================================
