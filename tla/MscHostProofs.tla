--------------------------- MODULE MscHostProofs ---------------------------
(***************************************************************************)
(* The class driver for any number of addresses, objects and descriptors   *)
(* and any interleaving of the application with the handler: what it holds *)
(* is given back, the handler never outlives the driver, and the devices   *)
(* that are gone are reported.                                             *)
(***************************************************************************)
EXTENDS MscHost, SequenceTheorems, FiniteSetTheorems, WellFoundedInduction, TLAPS

-----------------------------------------------------------------------------
(* The inductive invariant.                                                 *)

DevPcs == {"device", "remove", "release"}
Events == [kind : {"new", "gone"}, addr : Addrs]
AnyDesc == Descs \cup {<< >>}
Driven == {d \in AnyDesc : find_msc_interface(d) # 0 /\ Supported(d)}
Configs == {NoConfig} \cup {extract_config(d) : d \in Driven}
Devices == [addr : Addrs \cup {NoAddr}, has : SUBSET Resources, config : Configs]

\* What HostTypeOK leaves open: the functions, the event queue, and whose object
\* the application and whose device or object the handler works on.
FlagsTyped ==
  /\ prompt \in BOOLEAN /\ s_msc_driver \in BOOLEAN /\ sem \in BOOLEAN
  /\ ending \in BOOLEAN /\ started \in BOOLEAN /\ unblocked \in BOOLEAN
SetsTyped ==
  /\ drv \in SUBSET Driver /\ known \in SUBSET Addrs /\ told \in SUBSET Objs
  /\ opened \in SUBSET Addrs /\ claimed \in SUBSET Addrs
AppTyped ==
  /\ app \in [pc : AppPcs, obj : Objs \cup {NoObj}]
  /\ app.pc \in DevPcs <=> app.obj \in Objs
HandlerTyped ==
  /\ hpc \in Inside \cup {"off", "enter"}
  /\ hpc = "probe" => hev \in Addrs
  /\ hpc = "callback" => hev \in Objs
  /\ hpc \notin {"probe", "callback"} => hev = NoObj
BusTyped ==
  /\ conn \in [Addrs -> {"absent", "present", "gone"}] /\ desc \in [Addrs -> AnyDesc]
  /\ plugs \in 0..MaxPlugs
QueueTyped == evq \in Seq(Events) /\ Len(evq) <= MaxEvents
DevTyped == dev \in [Objs -> Devices]

HostTyped ==
  /\ FlagsTyped /\ SetsTyped /\ AppTyped /\ HandlerTyped /\ BusTyped /\ QueueTyped /\ DevTyped

\* What the driver holds at each point of the application's calls.
DriverHeld ==
  /\ app.pc = "idle" => drv = IF s_msc_driver THEN Driver ELSE {}
  /\ app.pc \in {"task", "uninstall", "take", "free"} \cup DevPcs => s_msc_driver /\ drv = Driver
  /\ app.pc = "clear" => drv = {}
  /\ app.pc = "install" =>
       ~s_msc_driver /\ "mem" \in drv /\ ("client" \in drv => "sem" \in drv)

\* When msc_host_uninstall ends the handling of events, and how the handler tells.
EndingIsUninstall ==
  /\ app.pc \in {"idle", "task"} \cup DevPcs /\ s_msc_driver => ~ending
  /\ app.pc = "install" => ~ending
  /\ app.pc \in {"uninstall", "take"} => ending
  /\ sem => ending /\ hpc = "off"

\* The handler runs only while the driver is there and nobody frees it; it is
\* there when devices are; once started it runs until it is told to end.
HandlerHasDriver ==
  /\ hpc # "off" => app.pc \in {"idle", "uninstall", "take"} \cup DevPcs /\ s_msc_driver
  /\ app.pc \in DevPcs => hpc # "off"
  /\ ~started => hpc \in {"off", "enter", "mark"}
  /\ s_msc_driver /\ started /\ ~ending => hpc # "off"
  /\ app.pc = "install" => ~started
  /\ app.pc = "uninstall" => started \/ hpc = "off"
  /\ app.pc = "uninstall" /\ started => sem \/ hpc # "off"

Control == DriverHeld /\ EndingIsUninstall /\ HandlerHasDriver /\ UninstallIsAwaited

\* What msc_host_install_device has acquired after n steps.
Acquired(n) == {DevStages[i] : i \in 1..n}
Stages == {Acquired(n) : n \in 1..8}

\* A device that was opened can be closed: its handle is known.
Closable(h) == "open" \in h => "handle" \in h

\* What a device has kept whose msc_host_uninstall_device has returned an error.
StuckSets == {Stuck[r] : r \in DOMAIN Stuck}

\* Object o is as the application's call left it: acquiring, giving up or, between
\* calls, complete, left over from a teardown that stopped, or absent.
Acquiring(o) == app.pc = "device" /\ app.obj = o /\ dev[o].has \in Stages
Removing(o) == app.pc = "remove" /\ app.obj = o /\ dev[o].has \in Stages /\ Closable(dev[o].has)
Releasing(o) ==
  /\ app.pc = "release" /\ app.obj = o /\ Closable(dev[o].has)
  /\ "listed" \notin dev[o].has /\ dev[o].has \cup {"listed"} \in Stages
InPlace(o) == app.obj # o /\ Complete(o)
Left(o) == app.obj # o /\ dev[o].has \in StuckSets
Absent(o) == app.obj # o /\ dev[o] = NoDev

ObjectStates ==
  \A o \in Objs :
    /\ Acquiring(o) \/ Removing(o) \/ Releasing(o) \/ InPlace(o) \/ Left(o) \/ Absent(o)
    /\ dev[o] = NoDev \/ dev[o].addr \in Addrs

\* Without a driver, and while it comes and goes, there are no objects but those
\* left over; with objects there is a handler. A device left open is found out
\* before the driver is freed.
ObjectsNeedDriver ==
  \A o \in Objs :
    /\ dev[o] # NoDev /\ dev[o].has \notin StuckSets =>
         s_msc_driver /\ hpc # "off" /\ app.pc \in {"idle"} \cup DevPcs
    /\ "open" \in dev[o].has =>
         s_msc_driver /\ app.pc \in {"idle", "uninstall", "take", "free"} \cup DevPcs

Opens(o, a) == "open" \in dev[o].has /\ dev[o].addr = a
Probes(a) == hpc = "probe" /\ hev = a

\* What is open or claimed in the library belongs to one object, or is probed.
OpenedIsHeld ==
  \A a \in Addrs :
    /\ a \in opened <=> Probes(a) \/ \E o \in Objs : Opens(o, a)
    /\ Probes(a) => \A o \in Objs : ~Opens(o, a)
    /\ \A o, p \in Objs : Opens(o, a) /\ Opens(p, a) => o = p
    /\ a \in claimed <=> \E o \in Objs : Opens(o, a) /\ "claimed" \in dev[o].has

\* A device that is open stays at its address, and only an open one is gone there.
OpenedIsThere ==
  \A a \in Addrs :
    /\ a \in opened => conn[a] # "absent"
    /\ conn[a] = "gone" => a \in opened
    /\ conn[a] # "absent" => desc[a] \in Descs

Holdings == ObjectStates /\ ObjectsNeedDriver /\ OpenedIsHeld /\ OpenedIsThere

\* The configuration is that of the device at the object's address.
ConfigIsRead ==
  \A o \in Objs : "config" \in dev[o].has =>
    LET d == desc[dev[o].addr]
    IN  find_msc_interface(d) # 0 /\ Supported(d) /\ dev[o].config = extract_config(d)

\* With a prompt handler the objects that DEV_GONE is about are of devices that
\* are gone: no teardown comes between the event and its callback.
GoneIsGone ==
  prompt =>
    /\ \A i \in DOMAIN evq, o \in Objs :
         /\ evq[i].kind = "gone" /\ o \in find_msc_device(evq[i].addr)
         => conn[dev[o].addr] = "gone"
    /\ hpc = "callback" => hev \in Listed /\ conn[dev[hev].addr] = "gone"

HostInv == HostTyped /\ Control /\ Holdings /\ ConfigIsRead /\ GoneIsGone

\* The client's queue has room, so that the library drops no event.
QueueHasRoom == Len(evq) < MaxEvents

\* A device that is ready and goes is told of, or is about to be.
GoneIsComing ==
  \A o \in Objs : Complete(o) /\ conn[dev[o].addr] = "gone" =>
    \/ o \in told
    \/ \E i \in DOMAIN evq : evq[i] = Event("gone", dev[o].addr)
    \/ hpc = "callback" /\ hev = o

-----------------------------------------------------------------------------
(* Lemmas about the resources of a device.                                  *)

\* The resources by name.
LEMMA ResourceNames ==
  /\ Len(DevStages) = 8
  /\ Resources = {"listed", "sem", "open", "handle", "config", "xfer", "claimed", "ready"}
BY DEF DevStages, Resources

\* The stages of msc_host_install_device one by one: each adds the next resource.
LEMMA StageSets ==
  /\ Acquired(1) = {"listed"}
  /\ Acquired(2) = Acquired(1) \cup {"sem"}
  /\ Acquired(3) = Acquired(2) \cup {"open"}
  /\ Acquired(4) = Acquired(3) \cup {"handle"}
  /\ Acquired(5) = Acquired(4) \cup {"config"}
  /\ Acquired(6) = Acquired(5) \cup {"xfer"}
  /\ Acquired(7) = Acquired(6) \cup {"claimed"}
  /\ Acquired(8) = Acquired(7) \cup {"ready"}
<1>1. \A n \in 1..7 : 1..(n + 1) = (1..n) \cup {n + 1}
  OBVIOUS
<1>2. \A n \in 1..7 : Acquired(n + 1) = Acquired(n) \cup {DevStages[n + 1]}
  BY <1>1 DEF Acquired
<1>3. /\ DevStages[1] = "listed" /\ DevStages[2] = "sem" /\ DevStages[3] = "open"
      /\ DevStages[4] = "handle" /\ DevStages[5] = "config" /\ DevStages[6] = "xfer"
      /\ DevStages[7] = "claimed" /\ DevStages[8] = "ready"
  BY DEF DevStages
<1>4. Acquired(1) = {"listed"}
  BY <1>3 DEF Acquired
<1> QED BY <1>2, <1>3, <1>4

\* So their number tells how far the installation has come.
LEMMA StageCount ==
  ASSUME NEW n \in 1..8
  PROVE  IsFiniteSet(Acquired(n)) /\ Cardinality(Acquired(n)) = n
<1> DEFINE Counts(k) == IsFiniteSet(Acquired(k)) /\ Cardinality(Acquired(k)) = k
<1>0. ASSUME NEW k \in 1..7, NEW x, Counts(k), x \notin Acquired(k),
             Acquired(k + 1) = Acquired(k) \cup {x}
      PROVE  Counts(k + 1)
  BY <1>0, FS_AddElement
<1>1. Counts(1)
  BY StageSets, FS_Singleton
<1> HIDE DEF Counts
<1>2. Counts(2)
  <2>1. "sem" \notin Acquired(1) /\ Acquired(1 + 1) = Acquired(1) \cup {"sem"}
    BY StageSets
  <2> QED BY <1>0, <1>1, <2>1
<1>3. Counts(3)
  <2>1. "open" \notin Acquired(2) /\ Acquired(2 + 1) = Acquired(2) \cup {"open"}
    BY StageSets
  <2> QED BY <1>0, <1>2, <2>1
<1>4. Counts(4)
  <2>1. "handle" \notin Acquired(3) /\ Acquired(3 + 1) = Acquired(3) \cup {"handle"}
    BY StageSets
  <2> QED BY <1>0, <1>3, <2>1
<1>5. Counts(5)
  <2>1. "config" \notin Acquired(4) /\ Acquired(4 + 1) = Acquired(4) \cup {"config"}
    BY StageSets
  <2> QED BY <1>0, <1>4, <2>1
<1>6. Counts(6)
  <2>1. "xfer" \notin Acquired(5) /\ Acquired(5 + 1) = Acquired(5) \cup {"xfer"}
    BY StageSets
  <2> QED BY <1>0, <1>5, <2>1
<1>7. Counts(7)
  <2>1. "claimed" \notin Acquired(6) /\ Acquired(6 + 1) = Acquired(6) \cup {"claimed"}
    BY StageSets
  <2> QED BY <1>0, <1>6, <2>1
<1>8. Counts(8)
  <2>1. "ready" \notin Acquired(7) /\ Acquired(7 + 1) = Acquired(7) \cup {"ready"}
    BY StageSets
  <2> QED BY <1>0, <1>7, <2>1
<1>9. Counts(n)
  BY <1>1, <1>2, <1>3, <1>4, <1>5, <1>6, <1>7, <1>8
<1> QED BY <1>9 DEF Counts

\* What a stage says of the order of acquisition.
LEMMA StageOrder ==
  ASSUME NEW h \in Stages
  PROVE  /\ h \subseteq Resources /\ "listed" \in h
         /\ "handle" \in h => "open" \in h
         /\ "config" \in h => "handle" \in h
         /\ "claimed" \in h => "config" \in h
         /\ "ready" \in h => h = Resources
<1>1. PICK n \in 1..8 : h = Acquired(n)
  BY DEF Stages
<1>2. n \in {1, 2, 3, 4, 5, 6, 7, 8}
  OBVIOUS
<1> QED BY <1>1, <1>2, StageSets, ResourceNames

\* The last stage has them all.
LEMMA LastStage == Resources \in Stages /\ {"listed"} \in Stages
<1>1. Resources = Acquired(8)
  BY StageSets, ResourceNames
<1> QED BY <1>1, StageSets DEF Stages

\* What a teardown that stopped leaves: something, but never a listed object, and
\* the handle of a device that is open.
LEMMA StuckFacts ==
  /\ DOMAIN Stuck = {"claimed", "open", "xfer"}
  /\ \A h \in StuckSets :
       /\ h \subseteq Resources /\ h # {} /\ h # Resources /\ "listed" \notin h
       /\ "handle" \in h <=> "open" \in h
       /\ "config" \in h => "open" \in h
       /\ "claimed" \in h => "open" \in h
<1>1. DOMAIN Stuck = {"claimed", "open", "xfer"}
  BY DEF Stuck
<1>2. /\ Stuck["claimed"] = {"open", "handle", "config", "xfer", "claimed", "ready"}
      /\ Stuck["open"] = {"open", "handle", "config", "xfer", "ready"}
      /\ Stuck["xfer"] = {"xfer", "ready"}
  BY ResourceNames DEF Stuck
<1>3. \A h \in StuckSets : h \in {Stuck["claimed"], Stuck["open"], Stuck["xfer"]}
  BY <1>1 DEF StuckSets
<1> QED BY <1>1, <1>2, <1>3, ResourceNames

\* A complete object is neither an absent one nor a left one.
LEMMA CompleteExists ==
  ASSUME NEW o \in Objs, Complete(o)
  PROVE  dev[o] # NoDev /\ o \in Listed /\ dev[o].has \notin StuckSets
BY ResourceNames, StuckFacts DEF Complete, NoDev, Listed

\* The next resource after a stage, as DeviceStep computes it, makes a stage.
LEMMA NextStage ==
  ASSUME NEW h \in Stages, Cardinality(h) + 1 <= Len(DevStages)
  PROVE  LET r == DevStages[Cardinality(h) + 1]
         IN  /\ h \cup {r} \in Stages /\ r \notin h /\ r # "listed"
             /\ r = "config" => "handle" \in h
             /\ r = "claimed" => "config" \in h
             /\ r = "ready" => h \cup {r} = Resources
<1>1. PICK n \in 1..8 : h = Acquired(n)
  BY DEF Stages
<1>2. Cardinality(h) = n /\ n \in 1..7
  BY <1>1, StageCount, ResourceNames
<1>3. /\ DevStages[2] = "sem" /\ DevStages[3] = "open"
      /\ DevStages[4] = "handle" /\ DevStages[5] = "config" /\ DevStages[6] = "xfer"
      /\ DevStages[7] = "claimed" /\ DevStages[8] = "ready"
  BY DEF DevStages
<1>4. n \in {1, 2, 3, 4, 5, 6, 7}
  BY <1>2
<1>5. /\ Acquired(n) \cup {DevStages[n + 1]} = Acquired(n + 1)
      /\ DevStages[n + 1] \notin Acquired(n) /\ DevStages[n + 1] # "listed"
      /\ DevStages[n + 1] = "config" => "handle" \in Acquired(n)
      /\ DevStages[n + 1] = "claimed" => "config" \in Acquired(n)
      /\ DevStages[n + 1] = "ready" => Acquired(n) \cup {DevStages[n + 1]} = Resources
  BY <1>3, <1>4, StageSets, ResourceNames
<1>6. Acquired(n + 1) \in Stages
  BY <1>2 DEF Stages
<1> QED BY <1>1, <1>2, <1>5, <1>6

-----------------------------------------------------------------------------
(* Type correctness.                                                        *)

\* The names that stand for nothing, and the bounds.
LEMMA Bounds ==
  NoAddr \notin Addrs /\ NoObj \notin Objs /\ MaxEvents \in Nat \ {0} /\ MaxPlugs \in Nat
BY HostConstants

\* The program starts in a typed state.
LEMMA TypedInit == HostInit => HostTyped
<1> SUFFICES ASSUME HostInit PROVE HostTyped
  OBVIOUS
<1> USE DEF HostInit
<1>1. FlagsTyped
  BY DEF FlagsTyped
<1>2. SetsTyped
  BY DEF SetsTyped
<1>3. AppTyped
  BY Bounds DEF AppTyped, Idle, AppPcs, DevPcs
<1>4. HandlerTyped
  BY DEF HandlerTyped
<1>5. BusTyped
  BY Bounds DEF BusTyped, AnyDesc
<1>6. QueueTyped
  BY Bounds DEF QueueTyped
<1>7. DevTyped
  BY DEF DevTyped, NoDev, Devices, Configs
<1> QED BY <1>1, <1>2, <1>3, <1>4, <1>5, <1>6, <1>7 DEF HostTyped

\* A restart is a start.
LEMMA TypedRestart == HostTyped /\ Restart => HostTyped'
<1> SUFFICES ASSUME HostTyped, Restart PROVE HostTyped'
  OBVIOUS
<1> USE DEF Restart
<1>1. FlagsTyped'
  BY DEF HostTyped, FlagsTyped
<1>2. SetsTyped'
  BY DEF SetsTyped
<1>3. AppTyped'
  BY Bounds DEF AppTyped, Idle, AppPcs, DevPcs
<1>4. HandlerTyped'
  BY DEF HandlerTyped
<1>5. BusTyped'
  BY DEF HostTyped, BusTyped, AnyDesc
<1>6. QueueTyped'
  BY Bounds DEF QueueTyped
<1>7. DevTyped'
  BY DEF DevTyped, NoDev, Devices, Configs
<1> QED BY <1>1, <1>2, <1>3, <1>4, <1>5, <1>6, <1>7 DEF HostTyped

\* The calls of the application but those of a device.
AppDriver ==
  \/ HostInstall \/ HostInstallStep \/ (\E b \in BOOLEAN : HostInstallDone(b)) \/ HostInstallFail
  \/ StartPoller \/ HostUninstall \/ HostUninstallUnblock \/ HostUninstallTake
  \/ HostUninstallFree \/ HostUninstallClear

\* Installing and uninstalling the driver keeps the types.
LEMMA TypedDriver == HostTyped /\ Control /\ AppDriver => HostTyped'
<1> SUFFICES ASSUME HostTyped, Control, AppDriver PROVE HostTyped'
  OBVIOUS
<1> USE DEF AppDriver, HostInstall, HostInstallStep, HostInstallDone, HostInstallFail, StartPoller,
            HostUninstall, HostUninstallUnblock, HostUninstallTake, HostUninstallFree,
            HostUninstallClear, Deregistered, drvVars, busVars, libVars, userVars, handlerVars
<1>1. FlagsTyped'
  BY DEF HostTyped, FlagsTyped
<1>2. SetsTyped'
  BY DEF HostTyped, SetsTyped, Driver
<1>3. AppTyped'
  BY Bounds DEF HostTyped, AppTyped, At, Idle, AppPcs, DevPcs
<1>4. HandlerTyped'
  BY DEF HostTyped, HandlerTyped, Control, HandlerHasDriver, Runs, DevPcs
<1>5. BusTyped'
  BY DEF HostTyped, BusTyped
<1>6. QueueTyped'
  <2>1. << >> \in Seq(Events) /\ Len(<< >>) <= MaxEvents
    BY Bounds
  <2> QED BY <2>1 DEF HostTyped, QueueTyped
<1>7. DevTyped'
  BY DEF HostTyped, DevTyped
<1> QED BY <1>1, <1>2, <1>3, <1>4, <1>5, <1>6, <1>7 DEF HostTyped

\* The calls of the application about device objects.
AppDevice ==
  \/ DeviceStep \/ DeviceDone \/ DeviceFail \/ DeinitRemove \/ DeinitRelease
  \/ (\E r \in DOMAIN Stuck : DeinitStop(r))
  \/ \E o \in Objs : UninstallDevice(o) \/ \E a \in Addrs : InstallDevice(a, o)

\* Object o, of address a and with h in hand, acquires r.
Acquires(o, a, h, r) ==
  /\ app.pc = "device" /\ o = app.obj /\ a = dev[o].addr /\ h = dev[o].has
  /\ h \cup {r} \in Stages /\ r \notin h
  /\ dev' = IF r = "config"
            THEN [dev EXCEPT ![o].has = @ \cup {r}, ![o].config = extract_config(desc[a])]
            ELSE [dev EXCEPT ![o].has = @ \cup {r}]
  /\ opened' = IF r = "open" THEN opened \cup {a} ELSE opened
  /\ claimed' = IF r = "claimed" THEN claimed \cup {a} ELSE claimed
  /\ r = "open" => CanOpen(a)
  /\ r = "config" => "handle" \in h /\ find_msc_interface(desc[a]) # 0 /\ Supported(desc[a])
  /\ r = "claimed" => "config" \in h
  /\ r = "ready" => h \cup {r} = Resources /\ conn[a] = "present"

\* That is what a step of msc_host_install_device does.
LEMMA DeviceStepFacts ==
  ASSUME HostTyped, Holdings, DeviceStep
  PROVE  \E o \in Objs, a \in Addrs, h \in Stages, r \in Resources : Acquires(o, a, h, r)
<1> DEFINE o == app.obj
           a == dev[o].addr
           h == dev[o].has
           r == DevStages[Cardinality(h) + 1]
<1>1. app.pc = "device" /\ o \in Objs
  BY DEF DeviceStep, Runs, HostTyped, AppTyped, DevPcs
<1>2. h \in Stages /\ a \in Addrs
  <2>1. Acquiring(o) /\ (dev[o] = NoDev \/ a \in Addrs)
    BY <1>1 DEF Holdings, ObjectStates, Removing, Releasing, InPlace, Left, Absent
  <2>2. h # {}
    BY <2>1, StageOrder DEF Acquiring
  <2> QED BY <2>1, <2>2 DEF Acquiring, NoDev
<1>3. Cardinality(h) + 1 <= Len(DevStages)
  BY DEF DeviceStep
<1>4. /\ h \cup {r} \in Stages /\ r \notin h /\ r # "listed"
      /\ r = "config" => "handle" \in h
      /\ r = "claimed" => "config" \in h
      /\ r = "ready" => h \cup {r} = Resources
  BY <1>2, <1>3, NextStage
<1>5. r \in Resources
  BY <1>4, StageOrder
<1> HIDE DEF r
<1>6. /\ dev' = IF r = "config"
                THEN [dev EXCEPT ![o].has = @ \cup {r}, ![o].config = extract_config(desc[a])]
                ELSE [dev EXCEPT ![o].has = @ \cup {r}]
      /\ opened' = IF r = "open" THEN opened \cup {a} ELSE opened
      /\ claimed' = IF r = "claimed" THEN claimed \cup {a} ELSE claimed
      /\ r = "open" => CanOpen(a)
      /\ r = "config" => find_msc_interface(desc[a]) # 0 /\ Supported(desc[a])
      /\ r = "ready" => conn[a] = "present"
  BY DEF DeviceStep, Acquire, r
<1>7. Acquires(o, a, h, r)
  BY <1>1, <1>4, <1>6 DEF Acquires
<1> QED BY <1>1, <1>2, <1>5, <1>7

\* The updates of a device object.
LEMMA DevUpdates ==
  ASSUME NEW f \in [Objs -> Devices], NEW o \in Objs, NEW r \in Resources, NEW c \in Configs
  PROVE  /\ \A a \in Addrs : [f EXCEPT ![o].addr = a, ![o].has = {r}] \in [Objs -> Devices]
         /\ [f EXCEPT ![o].has = @ \cup {r}] \in [Objs -> Devices]
         /\ [f EXCEPT ![o].has = @ \cup {r}, ![o].config = c] \in [Objs -> Devices]
         /\ [f EXCEPT ![o].has = @ \ {r}] \in [Objs -> Devices]
         /\ [f EXCEPT ![o] = NoDev] \in [Objs -> Devices]
         /\ \A h \in StuckSets : [f EXCEPT ![o].has = h] \in [Objs -> Devices]
<1>1. NoDev \in Devices
  BY DEF NoDev, Devices, Configs
<1>2. ASSUME NEW a \in Addrs
      PROVE  [f EXCEPT ![o].addr = a, ![o].has = {r}] \in [Objs -> Devices]
  BY DEF Devices
<1>3. [f EXCEPT ![o].has = @ \cup {r}] \in [Objs -> Devices]
  BY DEF Devices
<1>4. [f EXCEPT ![o].has = @ \cup {r}, ![o].config = c] \in [Objs -> Devices]
  BY DEF Devices
<1>5. [f EXCEPT ![o].has = @ \ {r}] \in [Objs -> Devices]
  BY DEF Devices
<1>6. ASSUME NEW h \in StuckSets
      PROVE  [f EXCEPT ![o].has = h] \in [Objs -> Devices]
  BY StuckFacts DEF Devices
<1> QED BY <1>1, <1>2, <1>3, <1>4, <1>5, <1>6

\* Installing and uninstalling a device keeps the types of the objects.
LEMMA TypedObjects == HostTyped /\ Holdings /\ AppDevice => DevTyped'
<1> SUFFICES ASSUME HostTyped, Holdings, AppDevice PROVE DevTyped'
  OBVIOUS
<1>1. dev \in [Objs -> Devices] /\ "listed" \in Resources /\ NoConfig \in Configs
  BY ResourceNames DEF HostTyped, DevTyped, Configs
<1>2. CASE DeviceStep
  <2>1. PICK o \in Objs, a \in Addrs, h \in Stages, r \in Resources : Acquires(o, a, h, r)
    BY <1>2, DeviceStepFacts
  <2>2. r = "config" => extract_config(desc[a]) \in Configs
    BY <2>1 DEF HostTyped, BusTyped, Configs, Driven, Acquires
  <2>3. \/ dev' = [dev EXCEPT ![o].has = @ \cup {r}]
        \/ r = "config" /\ dev' = [dev EXCEPT ![o].has = @ \cup {r}, ![o].config = extract_config(desc[a])]
    BY <2>1 DEF Acquires
  <2>4. [dev EXCEPT ![o].has = @ \cup {r}] \in [Objs -> Devices]
    BY <1>1, DevUpdates
  <2>5. r = "config" =>
          [dev EXCEPT ![o].has = @ \cup {r}, ![o].config = extract_config(desc[a])] \in [Objs -> Devices]
    BY <1>1, <2>2, DevUpdates
  <2> QED BY <2>3, <2>4, <2>5 DEF DevTyped
<1>3. ASSUME NEW o \in Objs, NEW a \in Addrs, InstallDevice(a, o)
      PROVE  DevTyped'
  BY <1>1, <1>3, DevUpdates DEF DevTyped, InstallDevice
<1>4. CASE DeinitRemove \/ DeinitRelease
  <2>1. app.obj \in Objs
    BY <1>4 DEF HostTyped, AppTyped, DeinitRemove, DeinitRelease, Runs, DevPcs
  <2>2. /\ [dev EXCEPT ![app.obj].has = @ \ {"listed"}] \in [Objs -> Devices]
        /\ [dev EXCEPT ![app.obj] = NoDev] \in [Objs -> Devices]
    BY <1>1, <2>1, DevUpdates
  <2>3. \/ dev' = [dev EXCEPT ![app.obj].has = @ \ {"listed"}]
        \/ dev' = [dev EXCEPT ![app.obj] = NoDev]
    BY <1>4 DEF DeinitRemove, DeinitRelease
  <2> QED BY <2>2, <2>3 DEF DevTyped
<1>5. ASSUME NEW r \in DOMAIN Stuck, DeinitStop(r)
      PROVE  DevTyped'
  <2>1. app.obj \in Objs /\ Stuck[r] \in StuckSets
    BY <1>5 DEF HostTyped, AppTyped, DeinitStop, Runs, DevPcs, StuckSets
  <2>2. dev' = [dev EXCEPT ![app.obj].has = Stuck[r]]
    BY <1>5 DEF DeinitStop
  <2> QED BY <1>1, <2>1, <2>2, DevUpdates DEF DevTyped
<1>6. CASE DeviceDone \/ DeviceFail \/ \E o \in Objs : UninstallDevice(o)
  BY <1>1, <1>6 DEF DevTyped, DeviceDone, DeviceFail, UninstallDevice
<1> QED BY <1>2, <1>3, <1>4, <1>5, <1>6 DEF AppDevice

\* Installing and uninstalling a device keeps the types.
LEMMA TypedDevice == HostTyped /\ Holdings /\ AppDevice => HostTyped'
<1> SUFFICES ASSUME HostTyped, Holdings, AppDevice PROVE HostTyped'
  OBVIOUS
<1> USE DEF AppDevice, InstallDevice, DeviceStep, DeviceDone, DeviceFail, UninstallDevice,
            DeinitRemove, DeinitRelease, DeinitStop, Closed, drvVars, busVars, libVars, userVars, handlerVars
<1>1. FlagsTyped'
  BY DEF HostTyped, FlagsTyped
<1>2. SetsTyped'
  <2>1. CASE DeviceStep
    <3>1. PICK o \in Objs, a \in Addrs, h \in Stages, r \in Resources : Acquires(o, a, h, r)
      BY <2>1, DeviceStepFacts
    <3>2. opened' \subseteq opened \cup {a} /\ claimed' \subseteq claimed \cup {a}
      BY <3>1 DEF Acquires
    <3> QED BY <2>1, <3>2 DEF HostTyped, SetsTyped
  <2>2. CASE ~DeviceStep
    BY <2>2 DEF HostTyped, SetsTyped
  <2> QED BY <2>1, <2>2
<1>3. AppTyped'
  <2>1. app.pc \in DevPcs => app.obj \in Objs
    BY DEF HostTyped, AppTyped
  <2>2. app' = app \/ app' = Idle \/ \E o \in Objs, pc \in DevPcs : app' = AtObj(pc, o)
    BY <2>1 DEF Runs, DevPcs
  <2> QED BY <2>2, Bounds DEF HostTyped, AppTyped, AtObj, Idle, AppPcs, DevPcs
<1>4. HandlerTyped'
  BY DEF HostTyped, HandlerTyped
<1>5. BusTyped'
  BY DEF HostTyped, BusTyped
<1>6. QueueTyped'
  BY DEF HostTyped, QueueTyped
<1>7. DevTyped'
  BY TypedObjects
<1> QED BY <1>1, <1>2, <1>3, <1>4, <1>5, <1>6, <1>7 DEF HostTyped

\* The steps of the handler and of the bus keep the types.
LEMMA TypedHandler == HostTyped /\ (HandlerStep \/ Bus) => HostTyped'
<1> SUFFICES ASSUME HostTyped, HandlerStep \/ Bus PROVE HostTyped'
  OBVIOUS
<1> USE DEF HandlerStep, HandlerEnter, HandlerMark, HandlerWake, HandlerNew, HandlerProbe, HandlerGone,
            HandlerCallback, HandlerServed, HandlerCheck, Bus, Plug, Unplug,
            drvVars, busVars, libVars, userVars, handlerVars
<1>0. evq # << >> => Head(evq) \in Events
  BY EmptySeq, HeadTailProperties DEF HostTyped, QueueTyped
<1>1. FlagsTyped'
  BY DEF HostTyped, FlagsTyped
<1>2. SetsTyped'
  BY <1>0 DEF HostTyped, SetsTyped, HandlerTyped, Events, Closed
<1>3. AppTyped'
  BY DEF HostTyped, AppTyped
<1>4. HandlerTyped'
  BY <1>0 DEF HostTyped, HandlerTyped, Inside, find_msc_device, Listed, Events
<1>5. BusTyped'
  BY Bounds DEF HostTyped, BusTyped, Closed, AnyDesc
<1>6. QueueTyped'
  <2>1. \/ evq' = evq
        \/ evq # << >> /\ evq' = Tail(evq)
        \/ \E e \in Events : Len(evq) < MaxEvents /\ evq' = Append(evq, e)
    BY DEF Post, Event, Events
  <2> QED BY <2>1, Bounds DEF HostTyped, QueueTyped
<1>7. DevTyped'
  BY DEF HostTyped, DevTyped
<1> QED BY <1>1, <1>2, <1>3, <1>4, <1>5, <1>6, <1>7 DEF HostTyped

-----------------------------------------------------------------------------
(* Driver and handler.                                                      *)

\* Neither is there at the start.
LEMMA ControlInit == HostInit => Control
BY DEF HostInit, Control, DriverHeld, EndingIsUninstall, HandlerHasDriver, UninstallIsAwaited, Idle, DevPcs

\* Nor after a restart.
LEMMA ControlRestart == Restart => Control'
BY DEF Restart, Control, DriverHeld, EndingIsUninstall, HandlerHasDriver, UninstallIsAwaited, Idle, DevPcs

\* Installing and uninstalling the driver keeps it from under the handler's feet.
LEMMA ControlDriver == HostTyped /\ Control /\ AppDriver => Control'
<1> SUFFICES ASSUME HostTyped, Control, AppDriver PROVE Control'
  OBVIOUS
<1> USE DEF drvVars, busVars, libVars, userVars, handlerVars, At, Idle, DevPcs, Inside, Runs,
            HostTyped, FlagsTyped, Control
<1>1. DriverHeld'
  <2>1. CASE HostInstall
    BY <2>1 DEF HostInstall, SetsTyped, Driver, DriverHeld, HandlerHasDriver
  <2>2. CASE HostInstallStep
    <3>1. /\ app.pc = "install" /\ ~s_msc_driver /\ drv \in SUBSET Driver /\ "mem" \in drv
          /\ "client" \in drv => "sem" \in drv
      BY <2>2 DEF HostInstallStep, SetsTyped, DriverHeld
    <3>2. CASE app' = app
      BY <2>2, <3>1, <3>2 DEF HostInstallStep, DriverHeld
    <3>3. CASE app' # app
      <4>1. app' = At("task") /\ s_msc_driver' /\ drv' = drv /\ "client" \in drv
        BY <2>2, <3>3 DEF HostInstallStep
      <4>2. drv = Driver
        BY <3>1, <4>1 DEF Driver
      <4> QED BY <4>1, <4>2 DEF DriverHeld
    <3> QED BY <3>2, <3>3
  <2>3. CASE \E b \in BOOLEAN : HostInstallDone(b)
    BY <2>3 DEF HostInstallDone, SetsTyped, Driver, DriverHeld, HandlerHasDriver
  <2>4. CASE HostInstallFail
    BY <2>4 DEF HostInstallFail, Deregistered, SetsTyped, Driver, DriverHeld, HandlerHasDriver
  <2>5. CASE StartPoller
    BY <2>5 DEF StartPoller, SetsTyped, Driver, DriverHeld, HandlerHasDriver
  <2>6. CASE HostUninstall
    BY <2>6 DEF HostUninstall, SetsTyped, Driver, DriverHeld, HandlerHasDriver
  <2>7. CASE HostUninstallUnblock
    BY <2>7 DEF HostUninstallUnblock, SetsTyped, Driver, DriverHeld, HandlerHasDriver
  <2>8. CASE HostUninstallTake
    BY <2>8 DEF HostUninstallTake, SetsTyped, Driver, DriverHeld, HandlerHasDriver
  <2>9. CASE HostUninstallFree
    BY <2>9 DEF HostUninstallFree, Deregistered, SetsTyped, Driver, DriverHeld, HandlerHasDriver
  <2>10. CASE HostUninstallClear
    BY <2>10 DEF HostUninstallClear, SetsTyped, Driver, DriverHeld, HandlerHasDriver
  <2> QED BY <2>1, <2>2, <2>3, <2>4, <2>5, <2>6, <2>7, <2>8, <2>9, <2>10 DEF AppDriver
<1>2. EndingIsUninstall'
  <2>1. CASE HostInstall
    BY <2>1 DEF HostInstall, HandlerTyped, DriverHeld, EndingIsUninstall, HandlerHasDriver
  <2>2. CASE HostInstallStep
    BY <2>2 DEF HostInstallStep, HandlerTyped, DriverHeld, EndingIsUninstall, HandlerHasDriver
  <2>3. CASE \E b \in BOOLEAN : HostInstallDone(b)
    BY <2>3 DEF HostInstallDone, HandlerTyped, DriverHeld, EndingIsUninstall, HandlerHasDriver
  <2>4. CASE HostInstallFail
    BY <2>4 DEF HostInstallFail, Deregistered, HandlerTyped, DriverHeld, EndingIsUninstall, HandlerHasDriver
  <2>5. CASE StartPoller
    BY <2>5 DEF StartPoller, HandlerTyped, DriverHeld, EndingIsUninstall, HandlerHasDriver
  <2>6. CASE HostUninstall
    BY <2>6 DEF HostUninstall, HandlerTyped, DriverHeld, EndingIsUninstall, HandlerHasDriver
  <2>7. CASE HostUninstallUnblock
    BY <2>7 DEF HostUninstallUnblock, HandlerTyped, DriverHeld, EndingIsUninstall, HandlerHasDriver
  <2>8. CASE HostUninstallTake
    BY <2>8 DEF HostUninstallTake, HandlerTyped, DriverHeld, EndingIsUninstall, HandlerHasDriver
  <2>9. CASE HostUninstallFree
    BY <2>9 DEF HostUninstallFree, Deregistered, HandlerTyped, DriverHeld, EndingIsUninstall, HandlerHasDriver
  <2>10. CASE HostUninstallClear
    BY <2>10 DEF HostUninstallClear, HandlerTyped, DriverHeld, EndingIsUninstall, HandlerHasDriver
  <2> QED BY <2>1, <2>2, <2>3, <2>4, <2>5, <2>6, <2>7, <2>8, <2>9, <2>10 DEF AppDriver
<1>3. HandlerHasDriver'
  <2>1. CASE HostInstall
    BY <2>1 DEF HostInstall, HandlerTyped, DriverHeld, EndingIsUninstall, HandlerHasDriver, UninstallIsAwaited
  <2>2. CASE HostInstallStep
    BY <2>2 DEF HostInstallStep, HandlerTyped, DriverHeld, EndingIsUninstall, HandlerHasDriver, UninstallIsAwaited
  <2>3. CASE \E b \in BOOLEAN : HostInstallDone(b)
    BY <2>3 DEF HostInstallDone, HandlerTyped, DriverHeld, EndingIsUninstall, HandlerHasDriver, UninstallIsAwaited
  <2>4. CASE HostInstallFail
    BY <2>4 DEF HostInstallFail, Deregistered, HandlerTyped, DriverHeld, EndingIsUninstall, HandlerHasDriver, UninstallIsAwaited
  <2>5. CASE StartPoller
    BY <2>5 DEF StartPoller, HandlerTyped, DriverHeld, EndingIsUninstall, HandlerHasDriver, UninstallIsAwaited
  <2>6. CASE HostUninstall
    BY <2>6 DEF HostUninstall, HandlerTyped, DriverHeld, EndingIsUninstall, HandlerHasDriver, UninstallIsAwaited
  <2>7. CASE HostUninstallUnblock
    BY <2>7 DEF HostUninstallUnblock, HandlerTyped, DriverHeld, EndingIsUninstall, HandlerHasDriver, UninstallIsAwaited
  <2>8. CASE HostUninstallTake
    BY <2>8 DEF HostUninstallTake, HandlerTyped, DriverHeld, EndingIsUninstall, HandlerHasDriver, UninstallIsAwaited
  <2>9. CASE HostUninstallFree
    BY <2>9 DEF HostUninstallFree, Deregistered, HandlerTyped, DriverHeld, EndingIsUninstall, HandlerHasDriver, UninstallIsAwaited
  <2>10. CASE HostUninstallClear
    BY <2>10 DEF HostUninstallClear, HandlerTyped, DriverHeld, EndingIsUninstall, HandlerHasDriver, UninstallIsAwaited
  <2> QED BY <2>1, <2>2, <2>3, <2>4, <2>5, <2>6, <2>7, <2>8, <2>9, <2>10 DEF AppDriver
<1>4. UninstallIsAwaited'
  <2>1. CASE HostInstall
    BY <2>1 DEF HostInstall, HandlerTyped, EndingIsUninstall, HandlerHasDriver, UninstallIsAwaited
  <2>2. CASE HostInstallStep
    BY <2>2 DEF HostInstallStep, HandlerTyped, EndingIsUninstall, HandlerHasDriver, UninstallIsAwaited
  <2>3. CASE \E b \in BOOLEAN : HostInstallDone(b)
    BY <2>3 DEF HostInstallDone, HandlerTyped, EndingIsUninstall, HandlerHasDriver, UninstallIsAwaited
  <2>4. CASE HostInstallFail
    BY <2>4 DEF HostInstallFail, Deregistered, HandlerTyped, EndingIsUninstall, HandlerHasDriver, UninstallIsAwaited
  <2>5. CASE StartPoller
    BY <2>5 DEF StartPoller, HandlerTyped, EndingIsUninstall, HandlerHasDriver, UninstallIsAwaited
  <2>6. CASE HostUninstall
    BY <2>6 DEF HostUninstall, HandlerTyped, EndingIsUninstall, HandlerHasDriver, UninstallIsAwaited
  <2>7. CASE HostUninstallUnblock
    BY <2>7 DEF HostUninstallUnblock, HandlerTyped, EndingIsUninstall, HandlerHasDriver, UninstallIsAwaited
  <2>8. CASE HostUninstallTake
    BY <2>8 DEF HostUninstallTake, HandlerTyped, EndingIsUninstall, HandlerHasDriver, UninstallIsAwaited
  <2>9. CASE HostUninstallFree
    BY <2>9 DEF HostUninstallFree, Deregistered, HandlerTyped, EndingIsUninstall, HandlerHasDriver, UninstallIsAwaited
  <2>10. CASE HostUninstallClear
    BY <2>10 DEF HostUninstallClear, HandlerTyped, EndingIsUninstall, HandlerHasDriver, UninstallIsAwaited
  <2> QED BY <2>1, <2>2, <2>3, <2>4, <2>5, <2>6, <2>7, <2>8, <2>9, <2>10 DEF AppDriver
<1> QED BY <1>1, <1>2, <1>3, <1>4 DEF Control

\* The calls about devices leave driver and handler alone.
LEMMA ControlDevice == HostTyped /\ Holdings /\ Control /\ AppDevice => Control'
<1> SUFFICES ASSUME HostTyped, Holdings, Control, AppDevice PROVE Control'
  OBVIOUS
<1>1. /\ UNCHANGED <<s_msc_driver, drv, sem, ending, started, hpc>>
      /\ app.pc \in {"idle"} \cup DevPcs /\ app'.pc \in {"idle"} \cup DevPcs
  <2>1. UNCHANGED <<s_msc_driver, drv, sem, ending, started, hpc>>
    BY DEF AppDevice, InstallDevice, DeviceStep, DeviceDone, DeviceFail, UninstallDevice,
           DeinitRemove, DeinitRelease, DeinitStop, drvVars, handlerVars
  <2>2. app.pc \in {"idle"} \cup DevPcs
    BY DEF AppDevice, InstallDevice, DeviceStep, DeviceDone, DeviceFail, UninstallDevice,
           DeinitRemove, DeinitRelease, DeinitStop, Runs, DevPcs
  <2>3. \/ app' = app \/ app' = Idle
        \/ \E o, pc : pc \in DevPcs /\ app' = AtObj(pc, o)
    BY DEF AppDevice, InstallDevice, DeviceStep, DeviceDone, DeviceFail, UninstallDevice,
           DeinitRemove, DeinitRelease, DeinitStop, DevPcs
  <2> QED BY <2>1, <2>2, <2>3 DEF AtObj, Idle
<1>2. app'.pc \in DevPcs => s_msc_driver /\ hpc # "off"
  <2>1. ASSUME NEW o \in Objs, UninstallDevice(o)
        PROVE  s_msc_driver /\ hpc # "off"
    <3>1. dev[o] # NoDev /\ dev[o].has \notin StuckSets
      BY <2>1, CompleteExists DEF UninstallDevice
    <3> QED BY <3>1 DEF Holdings, ObjectsNeedDriver
  <2>2. ASSUME NEW o \in Objs, NEW a \in Addrs, InstallDevice(a, o)
        PROVE  s_msc_driver /\ hpc # "off"
    BY <2>2 DEF InstallDevice
  <2>3. CASE \/ DeviceStep \/ DeviceDone \/ DeviceFail \/ DeinitRemove \/ DeinitRelease
             \/ \E r \in DOMAIN Stuck : DeinitStop(r)
    BY <2>3 DEF DeviceStep, DeviceDone, DeviceFail, DeinitRemove, DeinitRelease, DeinitStop, Runs, DevPcs,
                Control, HandlerHasDriver, DriverHeld
  <2> QED BY <2>1, <2>2, <2>3 DEF AppDevice
<1> USE DEF DevPcs, HostTyped, FlagsTyped, Control
<1>3. DriverHeld'
  BY <1>1, <1>2 DEF DriverHeld
<1>4. EndingIsUninstall'
  BY <1>1, <1>2 DEF EndingIsUninstall, DriverHeld
<1>5. HandlerHasDriver'
  BY <1>1, <1>2 DEF HandlerHasDriver
<1>6. UninstallIsAwaited'
  BY <1>1 DEF UninstallIsAwaited
<1> QED BY <1>3, <1>4, <1>5, <1>6 DEF Control

\* The handler goes its round and ends when it is told to.
LEMMA ControlHandler == HostTyped /\ Control /\ (HandlerStep \/ Bus) => Control'
<1> SUFFICES ASSUME HostTyped, Control, HandlerStep \/ Bus PROVE Control'
  OBVIOUS
<1> USE DEF HandlerStep, HandlerEnter, HandlerMark, HandlerWake, HandlerNew, HandlerProbe, HandlerGone,
            HandlerCallback, HandlerServed, HandlerCheck, Bus, Plug, Unplug,
            drvVars, busVars, libVars, userVars, handlerVars, DevPcs, Inside
<1>1. DriverHeld'
  BY DEF HostTyped, FlagsTyped, SetsTyped, Control, DriverHeld, HandlerHasDriver, Runs
<1>2. EndingIsUninstall'
  BY DEF HostTyped, FlagsTyped, HandlerTyped, Control, DriverHeld, EndingIsUninstall, HandlerHasDriver, Runs
<1>3. HandlerHasDriver'
  BY DEF HostTyped, FlagsTyped, HandlerTyped, Control, EndingIsUninstall, HandlerHasDriver,
         UninstallIsAwaited, Runs
<1>4. UninstallIsAwaited'
  BY DEF HostTyped, FlagsTyped, HandlerTyped, Control, EndingIsUninstall, HandlerHasDriver,
         UninstallIsAwaited, Runs
<1> QED BY <1>1, <1>2, <1>3, <1>4 DEF Control

-----------------------------------------------------------------------------
(* What the objects hold.                                                   *)

\* With no object and nothing in the library the rest is vacuous.
LEMMA HoldingsInit == HostInit => Holdings
<1> SUFFICES ASSUME HostInit PROVE Holdings
  OBVIOUS
<1>1. \A o \in Objs : dev[o] = NoDev /\ dev[o].has = {} /\ app.obj # o
  BY Bounds DEF HostInit, NoDev, Idle
<1>2. ObjectStates /\ ObjectsNeedDriver
  BY <1>1 DEF ObjectStates, ObjectsNeedDriver, Absent
<1>3. OpenedIsHeld /\ OpenedIsThere
  BY <1>1 DEF HostInit, OpenedIsHeld, OpenedIsThere, Opens, Probes
<1> QED BY <1>2, <1>3 DEF Holdings

\* So it is after a restart.
LEMMA HoldingsRestart == Restart => Holdings'
<1> SUFFICES ASSUME Restart PROVE Holdings'
  OBVIOUS
<1>1. \A o \in Objs : dev'[o] = NoDev /\ dev'[o].has = {} /\ app'.obj # o
  BY Bounds DEF Restart, NoDev, Idle
<1>2. ObjectStates' /\ ObjectsNeedDriver'
  BY <1>1 DEF ObjectStates, ObjectsNeedDriver, Absent
<1>3. OpenedIsHeld' /\ OpenedIsThere'
  BY <1>1 DEF Restart, OpenedIsHeld, OpenedIsThere, Opens, Probes
<1> QED BY <1>2, <1>3 DEF Holdings

\* An object that no call is at work on.
Settled(o) == Complete(o) \/ dev[o].has \in StuckSets \/ dev[o] = NoDev

\* Between calls an object is complete, left over or does not exist.
LEMMA BetweenCalls ==
  ASSUME HostTyped, Holdings, app.pc \notin DevPcs, NEW o \in Objs
  PROVE  Settled(o) /\ app.obj # o
BY DEF HostTyped, AppTyped, Holdings, ObjectStates, Acquiring, Removing, Releasing, InPlace, Left,
       Absent, DevPcs, Settled

\* The driver is installed and uninstalled without objects, but for those left over.
LEMMA NoObjects ==
  ASSUME HostTyped, Holdings, AppDriver, NEW o \in Objs
  PROVE  /\ dev[o] = NoDev \/ dev[o].has \in StuckSets
         /\ ~Complete(o) /\ o \notin Listed
<1>1. CASE HostUninstall
  <2>1. app.pc \notin DevPcs /\ Listed = {}
    BY <1>1 DEF HostUninstall, Runs, DevPcs
  <2>2. Settled(o) /\ ~Complete(o)
    BY <2>1, BetweenCalls, CompleteExists
  <2> QED BY <2>1, <2>2 DEF Settled
<1>2. ASSUME ~HostUninstall
      PROVE  dev[o] = NoDev \/ dev[o].has \in StuckSets
  <2>1. CASE HostInstall \/ StartPoller
    BY <2>1 DEF Holdings, ObjectsNeedDriver, HostInstall, StartPoller
  <2>2. CASE ~(HostInstall \/ StartPoller)
    <3>1. app.pc \notin {"idle"} \cup DevPcs
      BY <1>2, <2>2 DEF AppDriver, HostInstallStep, HostInstallDone, HostInstallFail,
           HostUninstallUnblock, HostUninstallTake, HostUninstallFree, HostUninstallClear, Runs, DevPcs
    <3> QED BY <3>1 DEF Holdings, ObjectsNeedDriver
  <2> QED BY <2>1, <2>2
<1>3. dev[o] = NoDev \/ dev[o].has \in StuckSets => ~Complete(o) /\ o \notin Listed
  BY StuckFacts, ResourceNames DEF Complete, Listed, NoDev
<1> QED BY <1>1, <1>2, <1>3

\* Installing and uninstalling the driver leaves the objects, of which there are
\* none but those left over, and these keep the driver from being freed.
LEMMA HoldingsDriver ==
  HostTyped /\ Control /\ Holdings /\ AppDriver => Holdings'
<1> SUFFICES ASSUME HostTyped, Control, Holdings, AppDriver PROVE Holdings'
  OBVIOUS
<1>1. UNCHANGED <<dev, conn, desc, opened, claimed>>
  BY DEF AppDriver, HostInstall, HostInstallStep, HostInstallDone, HostInstallFail, StartPoller,
         HostUninstall, HostUninstallUnblock, HostUninstallTake, HostUninstallFree,
         HostUninstallClear, Deregistered, busVars, libVars
<1>2. (hpc' # "probe" /\ hpc # "probe") \/ (hpc' = hpc /\ hev' = hev)
  BY DEF AppDriver, HostInstall, HostInstallStep, HostInstallDone, HostInstallFail, StartPoller,
         HostUninstall, HostUninstallUnblock, HostUninstallTake, HostUninstallFree,
         HostUninstallClear, handlerVars, Runs, Control, HandlerHasDriver, DevPcs
<1>3. app'.obj = NoObj
  <2>1. app.obj = NoObj
    BY DEF AppDriver, HostInstall, HostInstallStep, HostInstallDone, HostInstallFail, StartPoller,
         HostUninstall, HostUninstallUnblock, HostUninstallTake, HostUninstallFree,
         HostUninstallClear, Runs, HostTyped, AppTyped, DevPcs
  <2> QED BY <2>1 DEF AppDriver, HostInstall, HostInstallStep, HostInstallDone, HostInstallFail,
         StartPoller, HostUninstall, HostUninstallUnblock, HostUninstallTake, HostUninstallFree,
         HostUninstallClear, At, Idle
<1>4. \A o \in Objs : (dev'[o] = NoDev \/ dev'[o].has \in StuckSets) /\ app'.obj # o
  BY <1>1, <1>3, NoObjects, Bounds
<1>5. ObjectStates'
  BY <1>1, <1>4 DEF Holdings, ObjectStates, Absent, Left
<1>6. ASSUME NEW o \in Objs, "open" \in dev[o].has
      PROVE  s_msc_driver' /\ app'.pc \in {"idle", "uninstall", "take", "free"} \cup DevPcs
  <2>1. s_msc_driver /\ app.pc \in {"idle", "uninstall", "take", "free"} \cup DevPcs
    BY <1>6 DEF Holdings, ObjectsNeedDriver
  <2>2. dev[o].addr \in Addrs
    BY <1>6 DEF Holdings, ObjectStates, NoDev
  <2>3. opened # {}
    BY <1>6, <2>2 DEF Holdings, OpenedIsHeld, Opens
  <2>4. StartPoller \/ HostUninstall \/ HostUninstallUnblock \/ HostUninstallTake
    BY <2>1, <2>3
       DEF AppDriver, HostInstall, HostInstallStep, HostInstallDone, HostInstallFail,
           HostUninstallFree, HostUninstallClear, Runs, DevPcs
  <2>5. UNCHANGED s_msc_driver
    BY <2>4 DEF StartPoller, HostUninstall, HostUninstallUnblock, HostUninstallTake, drvVars
  <2>6. app' \in {app, At("uninstall"), At("take"), At("free")}
    BY <2>4 DEF StartPoller, HostUninstall, HostUninstallUnblock, HostUninstallTake
  <2> QED BY <2>1, <2>5, <2>6 DEF At
<1>7. ObjectStates' /\ ObjectsNeedDriver'
  BY <1>1, <1>4, <1>5, <1>6 DEF ObjectsNeedDriver
<1>8. OpenedIsHeld' /\ OpenedIsThere'
  BY <1>1, <1>2 DEF Holdings, OpenedIsHeld, OpenedIsThere, Opens, Probes
<1> QED BY <1>7, <1>8 DEF Holdings

\* Probing opens a device nobody has open and closes it again.
LEMMA HoldingsHandler ==
  HostTyped /\ Control /\ Holdings /\ HandlerStep => Holdings'
<1> SUFFICES ASSUME HostTyped, Control, Holdings, HandlerStep PROVE Holdings'
  OBVIOUS
<1>1. UNCHANGED <<dev, app, desc, claimed, s_msc_driver>>
  BY DEF HandlerStep, HandlerEnter, HandlerMark, HandlerWake, HandlerNew, HandlerProbe, HandlerGone,
         HandlerCallback, HandlerServed, HandlerCheck, drvVars, busVars, libVars
<1>2. hpc' = "off" => hpc = "off" \/ ~s_msc_driver \/ ending
  BY DEF HandlerStep, HandlerEnter, HandlerMark, HandlerWake, HandlerNew, HandlerProbe, HandlerGone,
         HandlerCallback, HandlerServed, HandlerCheck, handlerVars
<1>3. ObjectStates' /\ ObjectsNeedDriver'
  <2>1. ObjectStates'
    BY <1>1 DEF Holdings, ObjectStates, Acquiring, Removing, Releasing, InPlace, Left, Absent, Complete
  <2>2. ObjectsNeedDriver'
    BY <1>1, <1>2 DEF Holdings, ObjectsNeedDriver, Control, EndingIsUninstall, DevPcs
  <2> QED BY <2>1, <2>2
<1>4. CASE HandlerNew
  <2> DEFINE b == Head(evq).addr
  <2>1. hpc = "serve" /\ UNCHANGED conn
    BY <1>4 DEF HandlerNew, busVars
  <2>2. CASE CanOpen(b)
    <3>1. opened' = opened \cup {b} /\ hpc' = "probe" /\ hev' = b /\ b \notin opened /\ conn[b] = "present"
      BY <1>4, <2>2 DEF HandlerNew, CanOpen
    <3> HIDE DEF b
    <3>2. OpenedIsHeld'
      BY <1>1, <2>1, <3>1 DEF Holdings, OpenedIsHeld, Opens, Probes
    <3>3. OpenedIsThere'
      BY <1>1, <2>1, <3>1 DEF Holdings, OpenedIsThere
    <3> QED BY <1>3, <3>2, <3>3 DEF Holdings
  <2>3. CASE ~CanOpen(b)
    <3>1. UNCHANGED <<opened, hpc, hev>>
      BY <1>4, <2>3 DEF HandlerNew, handlerVars
    <3> QED BY <1>1, <1>3, <2>1, <3>1 DEF Holdings, OpenedIsHeld, OpenedIsThere, Opens, Probes
  <2> QED BY <2>2, <2>3
<1>5. CASE HandlerProbe
  <2>1. /\ hpc = "probe" /\ hpc' = "serve" /\ opened' = opened \ {hev} /\ hev \in Addrs
        /\ conn' = IF hev \in opened /\ conn[hev] = "gone" THEN [conn EXCEPT ![hev] = "absent"] ELSE conn
    BY <1>5 DEF HandlerProbe, Closed, HostTyped, HandlerTyped
  <2>2. OpenedIsHeld'
    BY <1>1, <2>1 DEF Holdings, OpenedIsHeld, Opens, Probes
  <2>3. OpenedIsThere'
    BY <1>1, <2>1 DEF Holdings, OpenedIsThere, HostTyped, BusTyped
  <2> QED BY <1>3, <2>2, <2>3 DEF Holdings
<1>6. CASE ~(HandlerNew \/ HandlerProbe)
  <2>1. hpc # "probe" /\ hpc' # "probe" /\ UNCHANGED <<conn, opened>>
    BY <1>6 DEF HandlerStep, HandlerEnter, HandlerMark, HandlerWake, HandlerGone,
         HandlerCallback, HandlerServed, HandlerCheck, busVars, libVars, handlerVars
  <2> QED BY <1>1, <1>3, <2>1 DEF Holdings, OpenedIsHeld, OpenedIsThere, Opens, Probes
<1> QED BY <1>4, <1>5, <1>6

\* A device that is open stays, as one that is gone, until it is closed.
LEMMA HoldingsBus == HostTyped /\ Holdings /\ Bus => Holdings'
<1> SUFFICES ASSUME HostTyped, Holdings, Bus PROVE Holdings'
  OBVIOUS
<1>1. UNCHANGED <<dev, app, claimed, opened, s_msc_driver, hpc, hev>>
  BY DEF Bus, Plug, Unplug, drvVars, handlerVars
<1>2. ObjectStates' /\ ObjectsNeedDriver'
  BY <1>1 DEF Holdings, ObjectStates, ObjectsNeedDriver, Acquiring, Removing, Releasing, InPlace,
              Left, Absent, Complete
<1>3. OpenedIsHeld'
  BY <1>1 DEF Holdings, OpenedIsHeld, Opens, Probes
<1>4. OpenedIsThere'
  BY <1>1 DEF Holdings, OpenedIsThere, Bus, Plug, Unplug, HostTyped, BusTyped
<1> QED BY <1>2, <1>3, <1>4 DEF Holdings

\* A call about a device works on its object and leaves the others.
OthersKept(o) == \A p \in Objs : p # o => dev'[p] = dev[p]

\* While the application works on an object, the others are settled.
LEMMA OneAtWork ==
  ASSUME Holdings, NEW o \in Objs, NEW p \in Objs, app.obj = o, p # o
  PROVE  Settled(p)
BY DEF Holdings, ObjectStates, Acquiring, Removing, Releasing, InPlace, Left, Absent, Settled

\* Then the states of the others follow.
LEMMA OthersInState ==
  ASSUME Holdings, NEW o \in Objs, NEW p \in Objs, p # o, OthersKept(o),
         Settled(p), app'.obj \in {o, NoObj}
  PROVE  /\ InPlace(p)' \/ Left(p)' \/ Absent(p)'
         /\ dev'[p] = NoDev \/ dev'[p].addr \in Addrs
BY Bounds DEF Holdings, ObjectStates, OthersKept, InPlace, Left, Absent, Complete, Settled

\* An object that begins: the address is announced, nothing is open yet.
LEMMA HoldingsInstall ==
  ASSUME HostTyped, Control, Holdings, NEW o \in Objs, NEW a \in Addrs, InstallDevice(a, o)
  PROVE  Holdings'
<1>1. /\ app.pc = "idle" /\ app' = AtObj("device", o) /\ dev[o] = NoDev /\ s_msc_driver /\ hpc # "off"
      /\ UNCHANGED <<s_msc_driver, hpc, hev, conn, desc, opened, claimed>>
  BY DEF InstallDevice, Runs, drvVars, handlerVars, busVars, libVars
<1>2. OthersKept(o) /\ dev'[o].has = {"listed"} /\ dev'[o].addr = a
  BY DEF InstallDevice, OthersKept, HostTyped, DevTyped, Devices
<1>3. app'.pc = "device" /\ app'.obj = o
  BY <1>1 DEF AtObj
<1>4. \A p \in Objs : Settled(p)
  BY <1>1, BetweenCalls DEF DevPcs
<1>5. ObjectStates'
  <2>1. Acquiring(o)' /\ dev'[o].addr \in Addrs
    BY <1>2, <1>3, LastStage DEF Acquiring
  <2> QED BY <1>2, <1>3, <1>4, <2>1, OthersInState DEF ObjectStates
<1>6. ObjectsNeedDriver'
  BY <1>1, <1>3 DEF ObjectsNeedDriver, DevPcs
<1>7. \A p \in Objs, b \in Addrs : Opens(p, b)' <=> Opens(p, b)
  BY <1>1, <1>2 DEF Opens, OthersKept, NoDev
<1>8. OpenedIsHeld'
  <2>1. \A p \in Objs, b \in Addrs : Opens(p, b) => dev'[p] = dev[p]
    BY <1>1, <1>2 DEF Opens, OthersKept, NoDev
  <2> QED BY <1>1, <1>7, <2>1 DEF Holdings, OpenedIsHeld, Probes
<1>9. OpenedIsThere'
  BY <1>1 DEF Holdings, OpenedIsThere
<1> QED BY <1>5, <1>6, <1>8, <1>9 DEF Holdings

\* An object that grows: opening takes a device that nobody has open.
LEMMA HoldingsStep ==
  HostTyped /\ Control /\ Holdings /\ DeviceStep => Holdings'
<1> SUFFICES ASSUME HostTyped, Control, Holdings, DeviceStep PROVE Holdings'
  OBVIOUS
<1>1. PICK o \in Objs, a \in Addrs, h \in Stages, r \in Resources : Acquires(o, a, h, r)
  BY DeviceStepFacts
<1>0. app.pc = "device" /\ o = app.obj /\ a = dev[o].addr /\ h = dev[o].has /\ r \notin h
  BY <1>1 DEF Acquires
<1>2. UNCHANGED <<app, s_msc_driver, hpc, hev, conn, desc>>
  BY DEF DeviceStep, drvVars, handlerVars, busVars
<1>3. OthersKept(o) /\ dev'[o].has = h \cup {r} /\ dev'[o].addr = a
  <2>1. dev \in [Objs -> Devices]
    BY DEF HostTyped, DevTyped
  <2> QED BY <1>0, <1>1, <2>1 DEF OthersKept, Devices, Acquires
<1>4. \A p \in Objs : p # o => Settled(p)
  BY <1>0, OneAtWork
<1>5. ObjectStates'
  <2>1. Acquiring(o)' /\ dev'[o].addr \in Addrs
    BY <1>1, <1>2, <1>3 DEF Acquiring, Acquires
  <2> QED BY <1>0, <1>2, <1>3, <1>4, <2>1, OthersInState DEF ObjectStates
<1>6. ObjectsNeedDriver'
  BY <1>0, <1>2 DEF ObjectsNeedDriver, DevPcs, Control, DriverHeld, HandlerHasDriver
<1>7. /\ "handle" \in h => "open" \in h
      /\ "config" \in h => "handle" \in h
      /\ "claimed" \in h => "config" \in h
  BY StageOrder
<1>8. CASE r = "open"
  <2>1. opened' = opened \cup {a} /\ claimed' = claimed /\ a \notin opened /\ conn[a] = "present"
    BY <1>1, <1>8 DEF CanOpen, Acquires
  <2>2. /\ Opens(o, a)' /\ "claimed" \notin dev'[o].has
        /\ \A b \in Addrs : b # a => ~Opens(o, b)' /\ ~Opens(o, b)
        /\ \A p \in Objs, b \in Addrs : p # o => (Opens(p, b)' <=> Opens(p, b)) /\ dev'[p] = dev[p]
    BY <1>0, <1>3, <1>7, <1>8 DEF Opens, OthersKept
  <2>3. OpenedIsHeld'
    BY <1>2, <2>1, <2>2 DEF Holdings, OpenedIsHeld, Probes
  <2>4. OpenedIsThere'
    BY <1>2, <2>1 DEF Holdings, OpenedIsThere
  <2> QED BY <1>5, <1>6, <2>3, <2>4 DEF Holdings
<1>9. CASE r # "open"
  <2>1. /\ opened' = opened
        /\ \A p \in Objs, b \in Addrs : Opens(p, b)' <=> Opens(p, b)
    BY <1>0, <1>1, <1>3, <1>9 DEF Opens, OthersKept, Acquires
  <2>2. /\ r = "claimed" => Opens(o, a)
        /\ \A p \in Objs : "claimed" \in dev'[p].has <=> "claimed" \in dev[p].has \/ (p = o /\ r = "claimed")
    BY <1>0, <1>1, <1>3, <1>7 DEF Opens, OthersKept, Acquires
  <2>3. \A b \in Addrs : Opens(o, b) => b = a
    BY <1>0 DEF Opens
  <2>4. OpenedIsHeld'
    <3>1. claimed' = IF r = "claimed" THEN claimed \cup {a} ELSE claimed
      BY <1>1 DEF Acquires
    <3>2. ASSUME NEW b \in Addrs
          PROVE  b \in claimed' <=> \E p \in Objs : Opens(p, b)' /\ "claimed" \in dev'[p].has
      BY <2>1, <2>2, <2>3, <3>1 DEF Holdings, OpenedIsHeld
    <3> QED BY <1>2, <2>1, <3>2 DEF Holdings, OpenedIsHeld, Probes
  <2>5. OpenedIsThere'
    BY <1>2, <2>1 DEF Holdings, OpenedIsThere
  <2> QED BY <1>5, <1>6, <2>4, <2>5 DEF Holdings
<1> QED BY <1>8, <1>9

\* An installation that ends, well or not, and the beginning of a teardown.
LEMMA HoldingsTurn ==
  ASSUME HostTyped, Control, Holdings,
         DeviceDone \/ DeviceFail \/ \E o \in Objs : UninstallDevice(o)
  PROVE  Holdings'
<1>1. UNCHANGED <<dev, s_msc_driver, hpc, hev, conn, desc, opened, claimed>>
  BY DEF DeviceDone, DeviceFail, UninstallDevice, drvVars, handlerVars, busVars, libVars
<1>2. OpenedIsHeld' /\ OpenedIsThere'
  BY <1>1 DEF Holdings, OpenedIsHeld, OpenedIsThere, Opens, Probes
<1>3. ObjectsNeedDriver'
  BY <1>1 DEF Holdings, ObjectsNeedDriver, DeviceDone, DeviceFail, UninstallDevice, AtObj, Idle, DevPcs
<1>4. ObjectStates'
  <2>1. PICK o \in Objs : o = app.obj \/ UninstallDevice(o)
    BY DEF DeviceDone, DeviceFail, Runs, HostTyped, AppTyped, DevPcs
  <2>2. OthersKept(o)
    BY <1>1 DEF OthersKept
  <2>3. CASE o = app.obj
    <3>1. app.pc \in {"device"} \/ \E q \in Objs : UninstallDevice(q)
      BY DEF DeviceDone, DeviceFail, Runs
    <3>2. app.pc = "device"
      BY <2>3, <3>1 DEF UninstallDevice, Runs, HostTyped, AppTyped, DevPcs
    <3>3. Acquiring(o)
      BY <2>3, <3>2 DEF Holdings, ObjectStates, Removing, Releasing, InPlace, Left, Absent
    <3>4. CASE DeviceDone
      <4>1. app' = Idle /\ Complete(o)
        BY <2>3, <3>4 DEF DeviceDone
      <4>2. InPlace(o)' /\ app'.obj = NoObj
        BY <1>1, <4>1, Bounds DEF InPlace, Complete, Idle
      <4> QED BY <1>1, <2>2, <2>3, <4>2, OneAtWork, OthersInState DEF ObjectStates, Holdings
    <3>5. CASE DeviceFail
      <4>1. app' = AtObj("remove", o) /\ Closable(dev[o].has)
        BY <2>3, <3>5 DEF DeviceFail, Closable
      <4>2. Removing(o)' /\ app'.obj = o
        BY <1>1, <3>3, <4>1 DEF Removing, Acquiring, AtObj
      <4> QED BY <1>1, <2>2, <2>3, <4>2, OneAtWork, OthersInState DEF ObjectStates, Holdings
    <3> QED BY <3>2, <3>4, <3>5 DEF UninstallDevice, Runs
  <2>4. CASE UninstallDevice(o)
    <3>1. app.pc = "idle" /\ app' = AtObj("remove", o) /\ Complete(o)
      BY <2>4 DEF UninstallDevice, Runs
    <3>2. Removing(o)' /\ app'.obj = o
      BY <1>1, <3>1, LastStage, ResourceNames DEF Removing, AtObj, Complete, Closable
    <3>3. \A p \in Objs : Settled(p)
      BY <3>1, BetweenCalls DEF DevPcs
    <3> QED BY <1>1, <2>2, <3>2, <3>3, OthersInState DEF ObjectStates, Holdings
  <2> QED BY <2>1, <2>3, <2>4
<1> QED BY <1>2, <1>3, <1>4 DEF Holdings

\* An object that leaves the list keeps what it holds.
LEMMA HoldingsRemove == HostTyped /\ Control /\ Holdings /\ DeinitRemove => Holdings'
<1> SUFFICES ASSUME HostTyped, Control, Holdings, DeinitRemove PROVE Holdings'
  OBVIOUS
<1>1. PICK o \in Objs : o = app.obj
  BY DEF DeinitRemove, Runs, HostTyped, AppTyped, DevPcs
<1>2. /\ app.pc = "remove" /\ app' = AtObj("release", o)
      /\ UNCHANGED <<s_msc_driver, hpc, hev, conn, desc, opened, claimed>>
  BY <1>1 DEF DeinitRemove, Runs, drvVars, handlerVars, busVars, libVars
<1>3. OthersKept(o) /\ dev'[o].has = dev[o].has \ {"listed"} /\ dev'[o].addr = dev[o].addr
  <2>1. dev \in [Objs -> Devices]
    BY DEF HostTyped, DevTyped
  <2> QED BY <1>1, <2>1 DEF DeinitRemove, OthersKept, Devices
<1>4. Removing(o) /\ dev[o].addr \in Addrs
  <2>1. Removing(o) /\ (dev[o] = NoDev \/ dev[o].addr \in Addrs)
    BY <1>1, <1>2 DEF Holdings, ObjectStates, Acquiring, Releasing, InPlace, Left, Absent
  <2>2. dev[o].has # {}
    BY <2>1, StageOrder DEF Removing
  <2> QED BY <2>1, <2>2 DEF NoDev
<1>5. ObjectStates'
  <2>1. (dev[o].has \ {"listed"}) \cup {"listed"} = dev[o].has
    BY <1>4, StageOrder DEF Removing
  <2>2. Releasing(o)' /\ app'.obj = o
    BY <1>2, <1>3, <1>4, <2>1 DEF Releasing, Removing, Closable, AtObj
  <2> QED BY <1>1, <1>3, <1>4, <2>2, OneAtWork, OthersInState DEF ObjectStates
<1>6. ObjectsNeedDriver'
  BY <1>2 DEF ObjectsNeedDriver, AtObj, DevPcs, Control, DriverHeld, HandlerHasDriver
<1>7. \A p \in Objs, b \in Addrs :
        /\ Opens(p, b)' <=> Opens(p, b)
        /\ "claimed" \in dev'[p].has <=> "claimed" \in dev[p].has
  BY <1>3 DEF Opens, OthersKept
<1>8. OpenedIsHeld' /\ OpenedIsThere'
  BY <1>2, <1>7 DEF Holdings, OpenedIsHeld, OpenedIsThere, Probes
<1> QED BY <1>5, <1>6, <1>8 DEF Holdings

\* An object that is freed has given back all it held.
LEMMA HoldingsRelease == HostTyped /\ Control /\ Holdings /\ DeinitRelease => Holdings'
<1> SUFFICES ASSUME HostTyped, Control, Holdings, DeinitRelease PROVE Holdings'
  OBVIOUS
<1>1. PICK o \in Objs, a \in Addrs \cup {NoAddr} : o = app.obj /\ a = dev[o].addr
  BY DEF DeinitRelease, Runs, HostTyped, AppTyped, DevTyped, Devices, DevPcs
<1>2. /\ app.pc = "release" /\ app' = Idle
      /\ UNCHANGED <<s_msc_driver, hpc, hev, desc>>
      /\ claimed' = IF "claimed" \in dev[o].has THEN claimed \ {a} ELSE claimed
      /\ IF "handle" \in dev[o].has /\ a \notin claimed' THEN Closed(a) ELSE UNCHANGED <<opened, conn>>
  BY <1>1 DEF DeinitRelease, Runs, drvVars, handlerVars
<1>3. OthersKept(o) /\ dev'[o] = NoDev
  <2>1. dev \in [Objs -> Devices]
    BY DEF HostTyped, DevTyped
  <2> QED BY <1>1, <2>1 DEF DeinitRelease, OthersKept
<1>4. Releasing(o) /\ (dev[o] = NoDev \/ a \in Addrs)
  BY <1>1, <1>2 DEF Holdings, ObjectStates, Acquiring, Removing, InPlace, Left, Absent
<1>5. ObjectStates'
  <2>1. Absent(o)' /\ app'.obj = NoObj
    BY <1>2, <1>3, Bounds DEF Absent, Idle
  <2> QED BY <1>1, <1>3, <2>1, OneAtWork, OthersInState DEF ObjectStates
<1>6. ObjectsNeedDriver'
  BY <1>2 DEF ObjectsNeedDriver, Idle, DevPcs, Control, DriverHeld, HandlerHasDriver
<1>7. /\ "handle" \in dev[o].has <=> "open" \in dev[o].has
      /\ "claimed" \in dev[o].has => "open" \in dev[o].has
  BY <1>4, StageOrder DEF Releasing, Closable
<1>8. /\ \A b \in Addrs : ~Opens(o, b)'
      /\ \A p \in Objs, b \in Addrs : p # o => (Opens(p, b)' <=> Opens(p, b)) /\ dev'[p] = dev[p]
      /\ \A b \in Addrs : Opens(o, b) => b = a
  BY <1>1, <1>3 DEF Opens, OthersKept, NoDev
<1>9. CASE "open" \in dev[o].has
  <2>1. a \in Addrs /\ Opens(o, a)
    BY <1>1, <1>4, <1>9 DEF Opens, NoDev
  <2>2. a \notin claimed' /\ \A b \in Addrs : b # a => (b \in claimed' <=> b \in claimed)
    BY <1>2, <2>1 DEF Holdings, OpenedIsHeld
  <2>3. /\ opened' = opened \ {a} /\ a \in opened
        /\ conn' = IF conn[a] = "gone" THEN [conn EXCEPT ![a] = "absent"] ELSE conn
    BY <1>2, <1>7, <1>9, <2>1, <2>2 DEF Closed, Holdings, OpenedIsHeld
  <2>4. OpenedIsHeld'
    BY <1>2, <1>8, <2>1, <2>2, <2>3 DEF Holdings, OpenedIsHeld, Probes
  <2>5. OpenedIsThere'
    BY <1>2, <2>1, <2>3 DEF Holdings, OpenedIsThere, HostTyped, BusTyped
  <2> QED BY <1>5, <1>6, <2>4, <2>5 DEF Holdings
<1>10. CASE "open" \notin dev[o].has
  <2>1. UNCHANGED <<opened, conn, claimed>> /\ \A b \in Addrs : ~Opens(o, b)
    BY <1>2, <1>7, <1>10 DEF Opens
  <2> QED BY <1>2, <1>5, <1>6, <1>8, <2>1 DEF Holdings, OpenedIsHeld, OpenedIsThere, Probes
<1> QED BY <1>9, <1>10

\* An object whose teardown stops keeps what was not given up, and nothing else is
\* left of it in the library.
LEMMA HoldingsStop ==
  ASSUME HostTyped, Control, Holdings, NEW r \in DOMAIN Stuck, DeinitStop(r)
  PROVE  Holdings'
<1>1. PICK o \in Objs, a \in Addrs \cup {NoAddr} : o = app.obj /\ a = dev[o].addr
  BY DEF DeinitStop, Runs, HostTyped, AppTyped, DevTyped, Devices, DevPcs
<1>2. /\ app.pc = "release" /\ app' = Idle /\ "ready" \in dev[o].has
      /\ UNCHANGED <<s_msc_driver, hpc, hev, desc>>
      /\ claimed' = IF r = "claimed" THEN claimed ELSE claimed \ {a}
      /\ IF r = "xfer" THEN Closed(a) ELSE UNCHANGED <<opened, conn>>
  BY <1>1 DEF DeinitStop, Runs, drvVars, handlerVars
<1>3. OthersKept(o) /\ dev'[o].has = Stuck[r] /\ dev'[o].addr = a
  <2>1. dev \in [Objs -> Devices] /\ dev' = [dev EXCEPT ![o].has = Stuck[r]]
    BY <1>1 DEF DeinitStop, HostTyped, DevTyped
  <2> QED BY <1>1, <2>1 DEF OthersKept, Devices
<1>4. Releasing(o) /\ dev[o].has # {}
  BY <1>1, <1>2 DEF Holdings, ObjectStates, Acquiring, Removing, InPlace, Left, Absent
<1>5. a \in Addrs /\ "open" \in dev[o].has /\ "claimed" \in dev[o].has
  <2>1. dev[o].has \cup {"listed"} = Resources
    BY <1>2, <1>4, StageOrder DEF Releasing
  <2>2. a \in Addrs
    BY <1>1, <1>4 DEF Holdings, ObjectStates, NoDev
  <2> QED BY <2>1, <2>2, ResourceNames
<1>6. /\ r \in {"claimed", "open", "xfer"} /\ Stuck[r] \in StuckSets
      /\ "open" \in Stuck[r] <=> r # "xfer"
      /\ "claimed" \in Stuck[r] <=> r = "claimed"
  BY StuckFacts, ResourceNames DEF Stuck, StuckSets
<1>7. ObjectStates'
  <2>1. Left(o)' /\ app'.obj = NoObj
    BY <1>2, <1>3, <1>6, Bounds DEF Left, Idle
  <2> QED BY <1>1, <1>3, <1>5, <2>1, OneAtWork, OthersInState DEF ObjectStates
<1>8. ObjectsNeedDriver'
  BY <1>2 DEF ObjectsNeedDriver, Idle, DevPcs, Control, DriverHeld, HandlerHasDriver
<1>9. /\ Opens(o, a) /\ a \in opened /\ a \in claimed
      /\ Opens(o, a)' <=> r # "xfer"
      /\ \A b \in Addrs : b # a => ~Opens(o, b)' /\ ~Opens(o, b)
      /\ \A p \in Objs, b \in Addrs : p # o => (Opens(p, b)' <=> Opens(p, b)) /\ dev'[p] = dev[p]
  BY <1>1, <1>3, <1>5, <1>6 DEF Opens, OthersKept, Holdings, OpenedIsHeld
<1>10. /\ opened' = IF r = "xfer" THEN opened \ {a} ELSE opened
       /\ conn' = IF r = "xfer" /\ conn[a] = "gone" THEN [conn EXCEPT ![a] = "absent"] ELSE conn
  BY <1>2, <1>9 DEF Closed
<1>11. \A p \in Objs : Opens(p, a) <=> p = o
  BY <1>5, <1>9 DEF Holdings, OpenedIsHeld
<1>12. OpenedIsHeld'
  <2>1. ASSUME NEW b \in Addrs, b # a
        PROVE  /\ \A p \in Objs : Opens(p, b)' <=> Opens(p, b)
               /\ \A p \in Objs : Opens(p, b) => dev'[p] = dev[p]
               /\ b \in opened' <=> b \in opened
               /\ b \in claimed' <=> b \in claimed
               /\ Probes(b)' <=> Probes(b)
    BY <1>2, <1>9, <1>10, <2>1 DEF Probes
  <2>2. /\ \A p \in Objs : Opens(p, a)' <=> p = o /\ r # "xfer"
        /\ a \in opened' <=> r # "xfer"
        /\ a \in claimed' <=> r = "claimed"
        /\ ~Probes(a)' /\ ("claimed" \in dev'[o].has <=> r = "claimed")
    <3>1. ~Probes(a)
      BY <1>5, <1>9 DEF Holdings, OpenedIsHeld
    <3>2. \A p \in Objs : Opens(p, a)' <=> p = o /\ r # "xfer"
      BY <1>5, <1>9, <1>11
    <3>3. (a \in opened' <=> r # "xfer") /\ (a \in claimed' <=> r = "claimed")
      BY <1>2, <1>9, <1>10
    <3>4. ~Probes(a)' /\ ("claimed" \in dev'[o].has <=> r = "claimed")
      BY <1>2, <1>3, <1>6, <3>1 DEF Probes
    <3> QED BY <3>2, <3>3, <3>4
  <2>3. ASSUME NEW b \in Addrs
        PROVE  /\ b \in opened' <=> Probes(b)' \/ \E p \in Objs : Opens(p, b)'
               /\ Probes(b)' => \A p \in Objs : ~Opens(p, b)'
               /\ \A p, q \in Objs : Opens(p, b)' /\ Opens(q, b)' => p = q
               /\ b \in claimed' <=> \E p \in Objs : Opens(p, b)' /\ "claimed" \in dev'[p].has
    <3>1. CASE b = a
      BY <1>6, <2>2, <3>1
    <3>2. CASE b # a
      <4>1. /\ b \in opened <=> Probes(b) \/ \E p \in Objs : Opens(p, b)
            /\ Probes(b) => \A p \in Objs : ~Opens(p, b)
            /\ \A p, q \in Objs : Opens(p, b) /\ Opens(q, b) => p = q
            /\ b \in claimed <=> \E p \in Objs : Opens(p, b) /\ "claimed" \in dev[p].has
        BY DEF Holdings, OpenedIsHeld
      <4> QED BY <2>1, <3>2, <4>1
    <3> QED BY <3>1, <3>2
  <2> QED BY <2>3 DEF OpenedIsHeld
<1>13. OpenedIsThere'
  BY <1>2, <1>5, <1>9, <1>10 DEF Holdings, OpenedIsThere, HostTyped, BusTyped
<1> QED BY <1>7, <1>8, <1>12, <1>13 DEF Holdings

\* The calls about devices.
LEMMA HoldingsDevice == HostTyped /\ Control /\ Holdings /\ AppDevice => Holdings'
BY HoldingsInstall, HoldingsStep, HoldingsTurn, HoldingsRemove, HoldingsRelease, HoldingsStop
   DEF AppDevice

-----------------------------------------------------------------------------
(* Configurations, and devices that are gone.                               *)

\* An object with a handle has its device open, hence at its address.
LEMMA HandleIsOpen ==
  ASSUME HostTyped, Holdings, NEW o \in Objs,
         "handle" \in dev[o].has \/ "config" \in dev[o].has \/ Complete(o)
  PROVE  LET a == dev[o].addr
         IN  a \in Addrs /\ Opens(o, a) /\ a \in opened /\ conn[a] # "absent" /\ ~Probes(a)
<1>1. "open" \in dev[o].has
  <2>1. CASE dev[o].has \in Stages \/ dev[o].has \cup {"listed"} \in Stages
    BY <2>1, StageOrder, ResourceNames DEF Complete
  <2>2. CASE Complete(o)
    BY <2>2, ResourceNames DEF Complete
  <2>3. CASE dev[o] = NoDev
    BY <2>3, ResourceNames DEF NoDev, Complete
  <2>4. CASE dev[o].has \in StuckSets
    BY <2>4, StuckFacts DEF Complete
  <2> QED BY <2>1, <2>2, <2>3, <2>4
          DEF Holdings, ObjectStates, Acquiring, Removing, Releasing, InPlace, Left, Absent
<1>2. dev[o].addr \in Addrs
  BY <1>1 DEF Holdings, ObjectStates, NoDev
<1> QED BY <1>1, <1>2 DEF Holdings, OpenedIsHeld, OpenedIsThere, Opens

\* What a configuration was read from stays as long as it does.
LEMMA ConfigKept ==
  ASSUME HostTyped, Holdings, ConfigIsRead, AppDriver \/ HandlerStep \/ Bus
  PROVE  ConfigIsRead'
<1>1. dev' = dev
  BY DEF AppDriver, HostInstall, HostInstallStep, HostInstallDone, HostInstallFail, StartPoller,
         HostUninstall, HostUninstallUnblock, HostUninstallTake, HostUninstallFree,
         HostUninstallClear, HandlerStep, HandlerEnter, HandlerMark, HandlerWake, HandlerNew,
         HandlerProbe, HandlerGone, HandlerCallback, HandlerServed, HandlerCheck, Bus, Plug, Unplug
<1>2. \A a \in Addrs : conn[a] # "absent" => desc'[a] = desc[a]
  BY DEF AppDriver, HostInstall, HostInstallStep, HostInstallDone, HostInstallFail, StartPoller,
         HostUninstall, HostUninstallUnblock, HostUninstallTake, HostUninstallFree,
         HostUninstallClear, HandlerStep, HandlerEnter, HandlerMark, HandlerWake, HandlerNew,
         HandlerProbe, HandlerGone, HandlerCallback, HandlerServed, HandlerCheck, Bus, Plug, Unplug,
         busVars, HostTyped, BusTyped
<1>3. ASSUME NEW o \in Objs, "config" \in dev'[o].has
      PROVE  desc'[dev'[o].addr] = desc[dev[o].addr]
  BY <1>1, <1>2, <1>3, HandleIsOpen
<1> QED BY <1>1, <1>3 DEF ConfigIsRead

\* It is read from the device that the object has open.
LEMMA ConfigDevice ==
  ASSUME HostTyped, Holdings, ConfigIsRead, AppDevice
  PROVE  ConfigIsRead'
<1>0. desc' = desc /\ dev \in [Objs -> Devices]
  BY DEF AppDevice, InstallDevice, DeviceStep, DeviceDone, DeviceFail, UninstallDevice,
         DeinitRemove, DeinitRelease, DeinitStop, busVars, HostTyped, DevTyped
<1>1. CASE DeviceStep
  <2>1. PICK o \in Objs, a \in Addrs, h \in Stages, r \in Resources : Acquires(o, a, h, r)
    BY <1>1, DeviceStepFacts
  <2>2. CASE r = "config"
    <3>1. /\ dev' = [dev EXCEPT ![o].has = @ \cup {r}, ![o].config = extract_config(desc[a])]
          /\ find_msc_interface(desc[a]) # 0 /\ Supported(desc[a]) /\ a = dev[o].addr
      BY <2>1, <2>2 DEF Acquires
    <3>2. dev'[o].config = extract_config(desc[a]) /\ dev'[o].addr = a
      BY <1>0, <3>1 DEF Devices
    <3>3. \A p \in Objs : p # o => dev'[p] = dev[p]
      BY <1>0, <3>1
    <3> QED BY <1>0, <3>1, <3>2, <3>3 DEF ConfigIsRead
  <2>3. CASE r # "config"
    <3>1. dev' = [dev EXCEPT ![o].has = @ \cup {r}]
      BY <2>1, <2>3 DEF Acquires
    <3>2. /\ dev'[o].config = dev[o].config /\ dev'[o].addr = dev[o].addr
          /\ "config" \in dev'[o].has => "config" \in dev[o].has
      BY <1>0, <2>3, <3>1 DEF Devices
    <3>3. \A p \in Objs : p # o => dev'[p] = dev[p]
      BY <1>0, <3>1
    <3> QED BY <1>0, <3>2, <3>3 DEF ConfigIsRead
  <2> QED BY <2>2, <2>3
<1>2. CASE ~DeviceStep
  <2>1. ASSUME NEW p \in Objs, "config" \in dev'[p].has
        PROVE  "config" \in dev[p].has /\ dev'[p].addr = dev[p].addr /\ dev'[p].config = dev[p].config
    <3>1. ASSUME NEW o \in Objs, NEW a \in Addrs, InstallDevice(a, o)
          PROVE  dev'[p] = dev[p]
      <4>1. dev'[o].has = {"listed"} /\ (p # o => dev'[p] = dev[p])
        BY <1>0, <3>1 DEF InstallDevice, Devices
      <4> QED BY <2>1, <4>1
    <3>2. CASE DeinitRelease
      <4>1. dev'[p] \in {dev[p], NoDev}
        BY <1>0, <3>2 DEF DeinitRelease
      <4> QED BY <2>1, <4>1 DEF NoDev
    <3>3. CASE DeinitRemove
      BY <1>0, <2>1, <3>3 DEF DeinitRemove, Devices
    <3>4. CASE DeviceDone \/ DeviceFail \/ \E o \in Objs : UninstallDevice(o)
      BY <2>1, <3>4 DEF DeviceDone, DeviceFail, UninstallDevice
    <3>5. ASSUME NEW r \in DOMAIN Stuck, DeinitStop(r)
          PROVE  "config" \in dev[p].has /\ dev'[p].addr = dev[p].addr /\ dev'[p].config = dev[p].config
      <4>1. CASE p = app.obj
        <5>1. "ready" \in dev[p].has /\ Releasing(p)
          BY <3>5, <4>1 DEF DeinitStop, Runs, Holdings, ObjectStates, Acquiring, Removing, InPlace, Left,
                            Absent
        <5>2. "config" \in dev[p].has
          BY <5>1, StageOrder, ResourceNames DEF Releasing
        <5> QED BY <1>0, <3>5, <4>1, <5>2 DEF DeinitStop, Devices
      <4>2. CASE p # app.obj
        BY <1>0, <2>1, <3>5, <4>2 DEF DeinitStop
      <4> QED BY <4>1, <4>2
    <3> QED BY <1>2, <2>1, <3>1, <3>2, <3>3, <3>4, <3>5 DEF AppDevice
  <2> QED BY <1>0, <2>1 DEF ConfigIsRead
<1> QED BY <1>1, <1>2

\* The application does nothing between DEV_GONE and its callback.
LEMMA GoneApp ==
  ASSUME HostTyped, Control, Holdings, GoneIsGone, AppDriver \/ AppDevice
  PROVE  GoneIsGone'
<1> SUFFICES ASSUME prompt' PROVE GoneIsGone'
  BY DEF GoneIsGone
<1>1. prompt /\ HandlerBlocked
  BY DEF AppDriver, HostInstall, HostInstallStep, HostInstallDone, HostInstallFail, StartPoller,
         HostUninstall, HostUninstallUnblock, HostUninstallTake, HostUninstallFree,
         HostUninstallClear, AppDevice, InstallDevice, DeviceStep, DeviceDone, DeviceFail,
         UninstallDevice, DeinitRemove, DeinitRelease, DeinitStop, Runs
<1>2. CASE AppDriver
  <2>1. hpc' # "callback" /\ dev' = dev
    BY <1>1, <1>2
       DEF AppDriver, HostInstall, HostInstallStep, HostInstallDone, HostInstallFail, StartPoller,
           HostUninstall, HostUninstallUnblock, HostUninstallTake, HostUninstallFree,
           HostUninstallClear, handlerVars, HandlerBlocked
  <2>2. Listed' = {}
    BY <1>2, <2>1, NoObjects DEF Listed
  <2> QED BY <2>1, <2>2 DEF GoneIsGone, find_msc_device
<1>3. CASE AppDevice
  <2>1. hpc # "off"
    <3>1. ASSUME NEW o \in Objs, UninstallDevice(o)
          PROVE  hpc # "off"
      <4>1. dev[o] # NoDev /\ dev[o].has \notin StuckSets
        BY <3>1, CompleteExists DEF UninstallDevice
      <4> QED BY <4>1 DEF Holdings, ObjectsNeedDriver
    <3>2. CASE ~\E o \in Objs : UninstallDevice(o)
      BY <1>3, <3>2 DEF AppDevice, InstallDevice, DeviceStep, DeviceDone, DeviceFail, DeinitRemove,
                        DeinitRelease, DeinitStop, Runs, Control, HandlerHasDriver, DevPcs
    <3> QED BY <3>1, <3>2
  <2>2. evq = << >> /\ hpc = "wait"
    BY <1>1, <2>1 DEF HandlerBlocked
  <2>3. evq' = evq /\ hpc' = hpc
    BY <1>3 DEF AppDevice, InstallDevice, DeviceStep, DeviceDone, DeviceFail, UninstallDevice,
                DeinitRemove, DeinitRelease, DeinitStop, libVars, handlerVars
  <2> QED BY <2>2, <2>3 DEF GoneIsGone
<1> QED BY <1>2, <1>3

\* The events that remain when the first is taken.
LEMMA TailEvents ==
  ASSUME QueueTyped, evq # << >>
  PROVE  /\ 1 \in DOMAIN evq /\ Head(evq) = evq[1] /\ evq[1] \in Events
         /\ \A i \in DOMAIN Tail(evq) : i + 1 \in DOMAIN evq /\ Tail(evq)[i] = evq[i + 1]
<1>1. evq \in Seq(Events) /\ Len(evq) \in Nat \ {0}
  BY EmptySeq, Zenon DEF QueueTyped
<1> QED BY <1>1

\* The handler takes DEV_GONE, and finds the objects of a device that is gone.
LEMMA GoneHandler ==
  ASSUME HostTyped, Control, Holdings, GoneIsGone, HandlerStep
  PROVE  GoneIsGone'
<1> SUFFICES ASSUME prompt' PROVE GoneIsGone'
  BY DEF GoneIsGone
<1>1. dev' = dev /\ prompt
  BY DEF HandlerStep, HandlerEnter, HandlerMark, HandlerWake, HandlerNew, HandlerProbe, HandlerGone,
         HandlerCallback, HandlerServed, HandlerCheck
<1>2. QueueTyped
  BY DEF HostTyped
<1>3. \A a : find_msc_device(a)' = find_msc_device(a)
  BY <1>1 DEF find_msc_device, Listed
<1>4. ASSUME NEW i \in DOMAIN evq'
      PROVE  \E j \in DOMAIN evq : evq'[i] = evq[j]
  <2>1. evq' = evq \/ (evq # << >> /\ evq' = Tail(evq))
    BY DEF HandlerStep, HandlerEnter, HandlerMark, HandlerWake, HandlerNew, HandlerProbe, HandlerGone,
           HandlerCallback, HandlerServed, HandlerCheck, libVars
  <2> QED BY <1>2, <2>1, TailEvents
<1>5. ASSUME NEW o \in Objs, NEW a, o \in find_msc_device(a), conn[dev[o].addr] = "gone"
      PROVE  conn'[dev[o].addr] = "gone"
  <2>1. dev[o].addr \in Addrs /\ ~Probes(dev[o].addr)
    BY <1>5, HandleIsOpen DEF find_msc_device
  <2>2. CASE HandlerProbe
    BY <1>5, <2>1, <2>2 DEF HandlerProbe, Closed, Probes, HostTyped, BusTyped
  <2>3. CASE ~HandlerProbe
    BY <1>5, <2>3 DEF HandlerStep, HandlerEnter, HandlerMark, HandlerWake, HandlerNew, HandlerGone,
                HandlerCallback, HandlerServed, HandlerCheck, busVars
  <2> QED BY <2>2, <2>3
<1>6. ASSUME NEW i \in DOMAIN evq', NEW o \in Objs, evq'[i].kind = "gone",
             o \in find_msc_device(evq[i].addr)'
      PROVE  conn'[dev'[o].addr] = "gone"
  <2>1. PICK j \in DOMAIN evq : evq'[i] = evq[j]
    BY <1>4
  <2>2. o \in find_msc_device(evq[j].addr)
    BY <1>1, <1>6, <2>1 DEF find_msc_device, Listed
  <2>3. conn[dev[o].addr] = "gone"
    BY <1>1, <1>6, <2>1, <2>2 DEF GoneIsGone
  <2> QED BY <1>1, <1>5, <2>2, <2>3
<1>7. ASSUME hpc' = "callback"
      PROVE  hev' \in Listed' /\ conn'[dev'[hev'].addr] = "gone"
  <2>1. HandlerGone /\ hpc = "serve" /\ evq # << >> /\ Head(evq).kind = "gone" /\ conn' = conn
        /\ hev' \in find_msc_device(Head(evq).addr)
    BY <1>7 DEF HandlerStep, HandlerEnter, HandlerMark, HandlerWake, HandlerNew, HandlerProbe,
                HandlerGone, HandlerCallback, HandlerServed, HandlerCheck, handlerVars, busVars
  <2>2. 1 \in DOMAIN evq /\ Head(evq) = evq[1]
    BY <1>2, <2>1, TailEvents
  <2>3. hev' \in Objs /\ hev' \in Listed
    BY <2>1 DEF find_msc_device, Listed
  <2>4. conn[dev[hev'].addr] = "gone"
    BY <1>1, <2>1, <2>2, <2>3 DEF GoneIsGone
  <2> QED BY <1>1, <2>1, <2>3, <2>4 DEF Listed
<1> QED BY <1>6, <1>7 DEF GoneIsGone

\* A device that is gone stays so until its object is freed.
LEMMA GoneBus ==
  ASSUME HostTyped, Control, Holdings, GoneIsGone, Bus
  PROVE  GoneIsGone'
<1> SUFFICES ASSUME prompt' PROVE GoneIsGone'
  BY DEF GoneIsGone
<1>1. dev' = dev /\ prompt /\ hpc' = hpc /\ hev' = hev
  BY DEF Bus, Plug, Unplug, handlerVars
<1>2. \A a \in Addrs : conn[a] = "gone" => conn'[a] = "gone"
  BY DEF Bus, Plug, Unplug, HostTyped, BusTyped
<1>3. ASSUME NEW i \in DOMAIN evq', evq'[i].kind = "gone"
      PROVE  \/ i \in DOMAIN evq /\ evq'[i] = evq[i]
             \/ evq'[i].addr \in Addrs /\ conn'[evq'[i].addr] = "gone"
  <2>1. PICK a \in Addrs : Unplug(a) \/ \E d \in Descs : Plug(a, d)
    BY DEF Bus
  <2>2. CASE evq' = evq
    BY <1>3, <2>2
  <2>3. CASE evq' # evq
    <3>1. \/ Unplug(a) /\ conn'[a] = "gone" /\ evq' = Append(evq, Event("gone", a))
          \/ evq' = Append(evq, Event("new", a))
      BY <2>1, <2>3 DEF Unplug, Plug, Post, HostTyped, BusTyped
    <3>2. evq \in Seq(Events) /\ Event("gone", a) \in Events /\ Event("new", a) \in Events
      BY DEF HostTyped, QueueTyped, Event, Events
    <3> QED BY <1>3, <3>1, <3>2 DEF Event
  <2> QED BY <2>2, <2>3
<1>4. ASSUME NEW i \in DOMAIN evq', NEW o \in Objs, evq'[i].kind = "gone",
             o \in find_msc_device(evq[i].addr)'
      PROVE  conn'[dev'[o].addr] = "gone"
  <2>1. dev[o].addr = evq'[i].addr /\ dev[o].addr \in Addrs
    BY <1>1, <1>4, HandleIsOpen DEF find_msc_device
  <2>2. CASE i \in DOMAIN evq /\ evq'[i] = evq[i]
    <3>1. o \in find_msc_device(evq[i].addr)
      BY <1>1, <1>4, <2>2 DEF find_msc_device, Listed
    <3> QED BY <1>1, <1>2, <1>4, <2>1, <2>2, <3>1 DEF GoneIsGone
  <2> QED BY <1>1, <1>3, <1>4, <2>1, <2>2
<1>5. ASSUME hpc' = "callback"
      PROVE  hev' \in Listed' /\ conn'[dev'[hev'].addr] = "gone"
  <2>1. hev \in Listed /\ conn[dev[hev].addr] = "gone"
    BY <1>1, <1>5 DEF GoneIsGone
  <2>2. dev[hev].addr \in Addrs
    BY <2>1 DEF Holdings, ObjectStates, Listed, NoDev
  <2> QED BY <1>1, <1>2, <2>1, <2>2 DEF Listed
<1> QED BY <1>4, <1>5 DEF GoneIsGone

-----------------------------------------------------------------------------
(* The theorems.                                                            *)

\* Every step keeps the invariant.
LEMMA HostInvStep == HostInv /\ [HostNext]_hostVars => HostInv'
<1> SUFFICES ASSUME HostInv, [HostNext]_hostVars PROVE HostInv'
  OBVIOUS
<1>1. HostTyped /\ Control /\ Holdings /\ ConfigIsRead /\ GoneIsGone
  BY DEF HostInv
<1>2. CASE AppDriver
  BY <1>1, <1>2, TypedDriver, ControlDriver, HoldingsDriver, ConfigKept, GoneApp DEF HostInv
<1>3. CASE AppDevice
  BY <1>1, <1>3, TypedDevice, ControlDevice, HoldingsDevice, ConfigDevice, GoneApp DEF HostInv
<1>4. CASE HandlerStep
  BY <1>1, <1>4, TypedHandler, ControlHandler, HoldingsHandler, ConfigKept, GoneHandler DEF HostInv
<1>5. CASE Bus
  BY <1>1, <1>5, TypedHandler, ControlHandler, HoldingsBus, ConfigKept, GoneBus DEF HostInv
<1>6. CASE DeviceAssert \/ HostUninstallAbort
  <2>1. Restart
    BY <1>6 DEF DeviceAssert, HostUninstallAbort
  <2>2. \A o \in Objs : dev'[o].has = {}
    BY <2>1 DEF Restart, NoDev
  <2>3. ConfigIsRead' /\ GoneIsGone'
    BY <2>1, <2>2 DEF Restart, ConfigIsRead, GoneIsGone
  <2> QED BY <1>1, <2>1, <2>3, TypedRestart, ControlRestart, HoldingsRestart DEF HostInv
<1>7. CASE UNCHANGED hostVars
  <2>1. /\ UNCHANGED <<prompt, s_msc_driver, drv, sem, ending, started, dev, app, hpc, hev>>
        /\ UNCHANGED <<known, told, conn, desc, opened, claimed, evq, unblocked, plugs>>
    BY <1>7 DEF hostVars, drvVars, busVars, libVars, userVars, handlerVars
  <2>2. HostTyped'
    BY <1>1, <2>1 DEF HostTyped, FlagsTyped, SetsTyped, AppTyped, HandlerTyped, BusTyped, QueueTyped,
                      DevTyped
  <2>3. Control'
    BY <1>1, <2>1 DEF Control, DriverHeld, EndingIsUninstall, HandlerHasDriver, UninstallIsAwaited
  <2>4. Holdings'
    BY <1>1, <2>1 DEF Holdings, ObjectStates, ObjectsNeedDriver, OpenedIsHeld, OpenedIsThere, Acquiring,
                      Removing, Releasing, InPlace, Left, Absent, Complete, Opens, Probes
  <2>5. ConfigIsRead' /\ GoneIsGone'
    BY <1>1, <2>1 DEF ConfigIsRead, GoneIsGone, find_msc_device, Listed
  <2> QED BY <2>2, <2>3, <2>4, <2>5 DEF HostInv
<1> QED BY <1>2, <1>3, <1>4, <1>5, <1>6, <1>7 DEF HostNext, AppStep, AppDriver, AppDevice

\* It holds at the start.
LEMMA HostInvInit == HostInit => HostInv
<1> SUFFICES ASSUME HostInit PROVE HostInv
  OBVIOUS
<1>1. \A o \in Objs : dev[o].has = {}
  BY DEF HostInit, NoDev
<1>2. ConfigIsRead /\ GoneIsGone
  BY <1>1 DEF HostInit, ConfigIsRead, GoneIsGone
<1> QED BY <1>2, TypedInit, ControlInit, HoldingsInit DEF HostInv

\* The inductive invariant of the class driver: what the driver, the objects and
\* the library hold at every point of the calls of msc_host.c.
THEOREM HostInvariance == HostSpec => []HostInv
BY HostInvInit, HostInvStep, PTL DEF HostSpec

\* The state of msc_host.c keeps its types.
THEOREM HostTypeCorrect == HostSpec => []HostTypeOK
<1>1. HostInv => HostTypeOK
  <2> SUFFICES ASSUME HostInv PROVE HostTypeOK
    OBVIOUS
  <2>1. {prompt, s_msc_driver, sem, ending, started, unblocked} \subseteq BOOLEAN
    BY DEF HostInv, HostTyped, FlagsTyped
  <2>2. \A o \in Objs : dev[o].addr \in Addrs \cup {NoAddr} /\ dev[o].has \subseteq Resources
    BY DEF HostInv, HostTyped, DevTyped, Devices
  <2>3. /\ app.pc \in AppPcs /\ app.obj \in Objs \cup {NoObj}
        /\ hpc \in Inside \cup {"off", "enter"} /\ hev \in Objs \cup Addrs \cup {NoObj}
    BY DEF HostInv, HostTyped, AppTyped, HandlerTyped
  <2>4. (\A a \in Addrs : conn[a] \in {"absent", "present", "gone"}) /\ plugs \in 0..MaxPlugs
    BY DEF HostInv, HostTyped, BusTyped
  <2> QED BY <2>1, <2>2, <2>3, <2>4 DEF HostTypeOK, HostInv, HostTyped, SetsTyped, QueueTyped
<1> QED BY <1>1, HostInvariance, PTL

\* msc_host_handle_events never works on a driver that is not there, however
\* msc_host_uninstall and it interleave.
THEOREM DriverOutlivesTheorem == HostSpec => []DriverOutlivesHandler
<1>1. HostInv => DriverOutlivesHandler
  BY DEF HostInv, Control, HandlerHasDriver, DriverHeld, DriverOutlivesHandler, Inside, DevPcs
<1> QED BY <1>1, HostInvariance, PTL

\* When msc_host_uninstall deregisters the client no handler is running, and what
\* is open then belongs to devices whose msc_host_uninstall_device returned an error.
THEOREM DeregistersTheorem == HostSpec => []DeregistersUnused
<1>1. HostInv => DeregistersUnused
  <2> SUFFICES ASSUME HostInv, app.pc = "free" PROVE DeregistersUnused
    BY DEF DeregistersUnused
  <2>1. hpc = "off" /\ Holdings
    BY DEF HostInv, Control, HandlerHasDriver, DevPcs
  <2>2. opened \subseteq Addrs /\ claimed \subseteq Addrs
    BY DEF HostInv, HostTyped, SetsTyped
  <2>3. ASSUME NEW a \in opened
        PROVE  \E o \in Objs, r \in {"claimed", "open"} : dev[o].addr = a /\ dev[o].has = Stuck[r]
    <3>1. PICK o \in Objs : Opens(o, a)
      BY <2>1, <2>2 DEF Holdings, OpenedIsHeld, Probes
    <3>2. dev[o].has \in StuckSets /\ dev[o].addr = a /\ "open" \in dev[o].has
      BY <2>1, <3>1 DEF Holdings, ObjectsNeedDriver, Opens, DevPcs, NoDev
    <3>3. PICK r \in DOMAIN Stuck : dev[o].has = Stuck[r]
      BY <3>2 DEF StuckSets
    <3>4. r # "xfer"
      BY <3>2, <3>3 DEF Stuck
    <3> QED BY <3>2, <3>3, <3>4, StuckFacts
  <2>4. claimed \subseteq opened
    BY <2>1, <2>2 DEF Holdings, OpenedIsHeld
  <2> QED BY <2>1, <2>3, <2>4 DEF DeregistersUnused, Inside
<1> QED BY <1>1, HostInvariance, PTL

\* msc_host_uninstall does not wait for a semaphore that nobody will give.
THEOREM AwaitedTheorem == HostSpec => []UninstallIsAwaited
<1>1. HostInv => UninstallIsAwaited
  BY DEF HostInv, Control
<1> QED BY <1>1, HostInvariance, PTL

\* With a prompt handler MSC_DEVICE_DISCONNECTED names an installed object whose
\* device is gone.
THEOREM DisconnectedTheorem == HostSpec => []DisconnectedIsGone
<1>1. HostInv => DisconnectedIsGone
  BY DEF HostInv, GoneIsGone, DisconnectedIsGone
<1> QED BY <1>1, HostInvariance, PTL

\* Wherever msc_host_install or msc_host_install_device stopped, it leaves all or
\* nothing behind, and a teardown that stopped leaves no more than it says.
THEOREM NothingLeftTheorem == HostSpec => []NothingLeftBehind
<1>1. HostInv => NothingLeftBehind
  <2> SUFFICES ASSUME HostInv, app = Idle PROVE NothingLeftBehind
    BY DEF NothingLeftBehind
  <2> DEFINE users == {o \in Objs : dev[o] # NoDev}
             having(r) == {o \in users : r \in dev[o].has}
             at(S) == {dev[o].addr : o \in S}
  <2>1. HostTyped /\ Holdings /\ app.pc = "idle" /\ app.pc \notin DevPcs
    BY DEF HostInv, Idle, DevPcs
  <2>2. \A o \in users : Complete(o) \/ \E r \in DOMAIN Stuck : dev[o].has = Stuck[r]
    BY <2>1, BetweenCalls DEF Settled, StuckSets
  <2>3. \A o \in having("claimed") : "open" \in dev[o].has
    BY <2>2, StuckFacts, ResourceNames DEF Complete, StuckSets
  <2>4. \A o \in having("open") : dev[o].addr \in Addrs /\ Opens(o, dev[o].addr)
    BY <2>1 DEF Opens, Holdings, ObjectStates
  <2>5. \A o \in Objs, a \in Addrs : Opens(o, a) => o \in having("open") /\ dev[o].addr = a
    BY DEF Opens, NoDev
  <2>6. opened \subseteq Addrs /\ claimed \subseteq Addrs
    BY <2>1 DEF HostTyped, SetsTyped
  <2>7. claimed = at(having("claimed"))
    <3>1. at(having("claimed")) \subseteq Addrs
      BY <2>3, <2>4
    <3>2. \A a \in Addrs : a \in claimed <=> a \in at(having("claimed"))
      BY <2>1, <2>3, <2>4, <2>5 DEF Holdings, OpenedIsHeld
    <3> QED BY <2>6, <3>1, <3>2
  <2>8. opened = at(having("open")) \cup (IF hpc = "probe" THEN {hev} ELSE {})
    <3>1. at(having("open")) \subseteq Addrs
      BY <2>4
    <3>2. \A a \in Addrs : a \in opened <=> a \in at(having("open")) \/ (hpc = "probe" /\ hev = a)
      BY <2>1, <2>4, <2>5 DEF Holdings, OpenedIsHeld, Probes
    <3>3. hpc = "probe" => hev \in Addrs
      BY <2>1 DEF HostTyped, HandlerTyped
    <3> QED BY <2>6, <3>1, <3>2, <3>3
  <2>9. \A o, p \in having("open") : dev[o].addr = dev[p].addr => o = p
    BY <2>1, <2>4 DEF Holdings, OpenedIsHeld
  <2>10. drv = IF s_msc_driver THEN Driver ELSE {}
    BY <2>1 DEF HostInv, Control, DriverHeld
  <2>11. ~s_msc_driver => opened = {}
    <3>1. s_msc_driver \/ (having("open") = {} /\ hpc # "probe")
      BY <2>1 DEF HostInv, Control, HandlerHasDriver, Holdings, ObjectsNeedDriver
    <3> QED BY <2>8, <3>1
  <2> QED BY <2>2, <2>7, <2>8, <2>9, <2>10, <2>11 DEF NothingLeftBehind
<1> QED BY <1>1, HostInvariance, PTL

-----------------------------------------------------------------------------
(* Devices that go are reported.                                            *)

\* An installation completes with a device that is there.
LEMMA CompletesPresent ==
  ASSUME HostTyped, Holdings, AppDevice, NEW p \in Objs, Complete(p)', conn'[dev'[p].addr] = "gone"
  PROVE  /\ Complete(p) /\ dev'[p] = dev[p] /\ conn[dev[p].addr] = "gone"
         /\ p \in told => p \in told'
<1>0. dev \in [Objs -> Devices]
  BY DEF HostTyped, DevTyped
<1>1. CASE DeviceStep
  <2>1. PICK o \in Objs, a \in Addrs, h \in Stages, r \in Resources : Acquires(o, a, h, r)
    BY <1>1, DeviceStepFacts
  <2>2. conn' = conn /\ told' = told
    BY <1>1 DEF DeviceStep, busVars, userVars
  <2>3. (p # o => dev'[p] = dev[p]) /\ dev'[o].has = h \cup {r} /\ dev'[o].addr = a
    BY <1>0, <2>1 DEF Acquires, Devices
  <2>4. CASE p = o
    <3>1. h \cup {r} = Resources /\ r \notin h
      BY <2>1, <2>3, <2>4 DEF Complete, Acquires
    <3>2. r = "ready"
      BY <3>1, StageOrder, ResourceNames
    <3>3. conn[a] = "present"
      BY <2>1, <3>2 DEF Acquires
    <3> QED BY <2>2, <2>3, <2>4, <3>3
  <2>5. CASE p # o
    BY <2>2, <2>3, <2>5 DEF Complete
  <2> QED BY <2>4, <2>5
<1>2. ASSUME NEW o \in Objs, NEW a \in Addrs, InstallDevice(a, o)
      PROVE  dev'[p] = dev[p] /\ conn' = conn /\ told' = told
  <2>1. dev'[o].has = {"listed"} /\ (p # o => dev'[p] = dev[p])
    BY <1>0, <1>2 DEF InstallDevice, Devices
  <2>2. p # o
    BY <2>1, ResourceNames DEF Complete
  <2> QED BY <1>2, <2>1, <2>2 DEF InstallDevice, busVars, userVars
<1>3. CASE DeinitRemove
  <2>1. /\ p = app.obj => dev'[p].has = dev[p].has \ {"listed"}
        /\ p # app.obj => dev'[p] = dev[p]
    BY <1>0, <1>3 DEF DeinitRemove, Devices
  <2>2. p # app.obj
    BY <2>1, ResourceNames DEF Complete
  <2> QED BY <1>3, <2>1, <2>2 DEF DeinitRemove, Complete, busVars, userVars
<1>4. CASE DeinitRelease
  <2>1. /\ p = app.obj => dev'[p] = NoDev
        /\ p # app.obj => dev'[p] = dev[p]
    BY <1>0, <1>4 DEF DeinitRelease
  <2>2. p # app.obj
    BY <2>1, ResourceNames DEF Complete, NoDev
  <2>3. dev[p].addr \in Addrs
    BY <2>1, <2>2, HandleIsOpen DEF Complete
  <2>4. conn'[dev[p].addr] = "gone" => conn[dev[p].addr] = "gone"
    BY <1>4, <2>3 DEF DeinitRelease, Closed, HostTyped, BusTyped
  <2> QED BY <1>4, <2>1, <2>2, <2>4 DEF DeinitRelease, Complete
<1>5. CASE DeviceDone \/ DeviceFail \/ \E o \in Objs : UninstallDevice(o)
  BY <1>5 DEF DeviceDone, DeviceFail, UninstallDevice, Complete, busVars, userVars
<1>6. ASSUME NEW r \in DOMAIN Stuck, DeinitStop(r)
      PROVE  /\ Complete(p) /\ dev'[p] = dev[p] /\ conn[dev[p].addr] = "gone"
             /\ p \in told => p \in told'
  <2>1. /\ p = app.obj => dev'[p].has = Stuck[r]
        /\ p # app.obj => dev'[p] = dev[p]
    BY <1>0, <1>6 DEF DeinitStop, Devices
  <2>2. p # app.obj
    BY <2>1, StuckFacts DEF Complete, StuckSets
  <2>3. dev[p].addr \in Addrs
    BY <2>1, <2>2, HandleIsOpen DEF Complete
  <2>4. conn'[dev[p].addr] = "gone" => conn[dev[p].addr] = "gone"
    BY <1>6, <2>3 DEF DeinitStop, Closed, HostTyped, BusTyped
  <2> QED BY <1>6, <2>1, <2>2, <2>4 DEF DeinitStop, Complete, userVars
<1> QED BY <1>1, <1>2, <1>3, <1>4, <1>5, <1>6 DEF AppDevice, Complete

\* Every step keeps the report of a device that is gone on its way.
LEMMA GoneComingStep ==
  HostInv /\ QueueHasRoom /\ GoneIsComing /\ [HostNext]_hostVars => GoneIsComing'
<1> SUFFICES ASSUME HostInv, QueueHasRoom, GoneIsComing, [HostNext]_hostVars,
                    NEW p \in Objs, Complete(p)', conn'[dev'[p].addr] = "gone"
             PROVE  \/ p \in told'
                    \/ \E i \in DOMAIN evq' : evq'[i] = Event("gone", dev'[p].addr)
                    \/ hpc' = "callback" /\ hev' = p
  BY DEF GoneIsComing
<1>1. HostTyped /\ Control /\ Holdings
  BY DEF HostInv
<1>2. CASE AppDriver
  <2>1. dev' = dev
    BY <1>2 DEF AppDriver, HostInstall, HostInstallStep, HostInstallDone, HostInstallFail, StartPoller,
         HostUninstall, HostUninstallUnblock, HostUninstallTake, HostUninstallFree,
         HostUninstallClear
  <2> QED BY <1>1, <1>2, <2>1, NoObjects DEF Complete
<1>3. CASE AppDevice
  <2>1. evq' = evq /\ hpc' = hpc /\ hev' = hev
    BY <1>3 DEF AppDevice, InstallDevice, DeviceStep, DeviceDone, DeviceFail, UninstallDevice,
                DeinitRemove, DeinitRelease, DeinitStop, libVars, handlerVars
  <2>2. Complete(p) /\ dev'[p] = dev[p] /\ conn[dev[p].addr] = "gone" /\ (p \in told => p \in told')
    BY <1>1, <1>3, CompletesPresent
  <2> QED BY <2>1, <2>2 DEF GoneIsComing
<1>4. CASE HandlerStep
  <2>1. dev' = dev /\ told \subseteq told' /\ Complete(p)
    BY <1>4 DEF HandlerStep, HandlerEnter, HandlerMark, HandlerWake, HandlerNew, HandlerProbe,
                HandlerGone, HandlerCallback, HandlerServed, HandlerCheck, userVars, Complete
  <2>2. dev[p].addr \in Addrs /\ Opens(p, dev[p].addr)
    BY <1>1, <2>1, HandleIsOpen
  <2>3. conn[dev[p].addr] = "gone"
    BY <1>1, <1>4, <2>1, <2>2
       DEF HandlerStep, HandlerEnter, HandlerMark, HandlerWake, HandlerNew, HandlerProbe, HandlerGone,
           HandlerCallback, HandlerServed, HandlerCheck, Closed, busVars, HostTyped, BusTyped
  <2>4. CASE p \in told
    BY <2>1, <2>4
  <2>5. CASE hpc = "callback" /\ hev = p
    BY <1>4, <2>5
       DEF HandlerStep, HandlerEnter, HandlerMark, HandlerWake, HandlerNew, HandlerProbe, HandlerGone,
           HandlerCallback, HandlerServed, HandlerCheck
  <2>6. ASSUME NEW i \in DOMAIN evq, evq[i] = Event("gone", dev[p].addr), evq' = Tail(evq), evq # << >>,
               i # 1
        PROVE  \E j \in DOMAIN evq' : evq'[j] = Event("gone", dev'[p].addr)
    <3>1. evq \in Seq(Events) /\ i \in 2..Len(evq)
      BY <1>1, <2>6 DEF HostTyped, QueueTyped
    <3>2. i - 1 \in DOMAIN Tail(evq) /\ Tail(evq)[i - 1] = evq[i]
      BY <2>6, <3>1
    <3> QED BY <2>1, <2>6, <3>2
  <2>7. ASSUME NEW i \in DOMAIN evq, evq[i] = Event("gone", dev[p].addr)
        PROVE  \/ \E j \in DOMAIN evq' : evq'[j] = Event("gone", dev'[p].addr)
               \/ hpc' = "callback" /\ hev' = p
    <3>1. CASE evq' = evq
      BY <2>1, <2>7, <3>1
    <3>2. CASE HandlerNew
      <4>1. evq' = Tail(evq) /\ evq # << >> /\ Head(evq).kind = "new"
        BY <3>2 DEF HandlerNew
      <4>2. i # 1
        BY <1>1, <2>7, <4>1, TailEvents DEF HostTyped, Event
      <4> QED BY <2>6, <2>7, <4>1, <4>2
    <3>3. CASE HandlerGone
      <4>1. evq' = Tail(evq) /\ evq # << >>
        BY <3>3 DEF HandlerGone
      <4>2. CASE i = 1
        <5>1. Head(evq).addr = dev[p].addr
          BY <1>1, <2>7, <4>1, <4>2, TailEvents DEF HostTyped, Event
        <5>2. p \in find_msc_device(Head(evq).addr)
          BY <2>1, <5>1, ResourceNames DEF find_msc_device, Listed, Complete
        <5>3. hpc' = "callback" /\ hev' \in find_msc_device(Head(evq).addr)
          BY <3>3, <5>2 DEF HandlerGone
        <5>4. hev' \in Objs /\ "handle" \in dev[hev'].has /\ dev[hev'].addr = dev[p].addr
          BY <5>1, <5>3 DEF find_msc_device, Listed
        <5>5. PICK q \in Objs : q = hev'
          BY <5>4
        <5>6. Opens(q, dev[q].addr)
          BY <1>1, <5>4, <5>5, HandleIsOpen
        <5>7. q = p
          BY <1>1, <2>2, <5>4, <5>5, <5>6 DEF Holdings, OpenedIsHeld
        <5> QED BY <5>3, <5>5, <5>7
      <4> QED BY <2>6, <2>7, <4>1, <4>2
    <3> QED BY <1>4, <3>1, <3>2, <3>3
            DEF HandlerStep, HandlerEnter, HandlerMark, HandlerWake, HandlerProbe,
                HandlerCallback, HandlerServed, HandlerCheck, libVars
  <2> QED BY <2>1, <2>3, <2>4, <2>5, <2>7 DEF GoneIsComing
<1>5. CASE Bus
  <2>1. dev' = dev /\ told' = told /\ hpc' = hpc /\ hev' = hev /\ Complete(p)
    BY <1>5 DEF Bus, Plug, Unplug, userVars, handlerVars, Complete
  <2>2. dev[p].addr \in Addrs /\ dev[p].addr \in opened
    BY <1>1, <2>1, HandleIsOpen
  <2>3. PICK a \in Addrs : Unplug(a) \/ \E d \in Descs : Plug(a, d)
    BY <1>5 DEF Bus
  <2>4. "client" \in drv
    <3>1. dev[p] # NoDev /\ dev[p].has \notin StuckSets
      BY <2>1, CompleteExists
    <3> QED BY <1>1, <3>1 DEF Holdings, ObjectsNeedDriver, Control, DriverHeld, Driver, DevPcs
  <2>5. evq \in Seq(Events) /\ Event("gone", a) \in Events /\ Event("new", a) \in Events
    BY <1>1 DEF HostTyped, QueueTyped, Event, Events
  <2>6. \A i \in DOMAIN evq : i \in DOMAIN evq' /\ evq'[i] = evq[i]
    <3>1. evq' = evq \/ evq' = Append(evq, Event("gone", a)) \/ evq' = Append(evq, Event("new", a))
      BY <2>3 DEF Unplug, Plug, Post
    <3> QED BY <2>5, <3>1
  <2>7. CASE conn[dev[p].addr] = "gone"
    BY <2>1, <2>6, <2>7 DEF GoneIsComing
  <2>8. CASE conn[dev[p].addr] # "gone"
    <3>1. Unplug(a) /\ dev[p].addr = a
      BY <1>1, <2>1, <2>2, <2>3, <2>8 DEF Unplug, Plug, HostTyped, BusTyped
    <3>2. evq' = Append(evq, Event("gone", a))
      BY <2>2, <2>4, <3>1 DEF Unplug, Post, QueueHasRoom
    <3>3. Len(evq) + 1 \in DOMAIN evq' /\ evq'[Len(evq) + 1] = Event("gone", a)
      BY <2>5, <3>2
    <3> QED BY <2>1, <3>1, <3>3
  <2> QED BY <2>7, <2>8
<1>6. CASE DeviceAssert \/ HostUninstallAbort
  <2>1. dev'[p] = NoDev
    BY <1>6 DEF DeviceAssert, HostUninstallAbort, Restart
  <2> QED BY <2>1, ResourceNames DEF Complete, NoDev
<1>7. CASE UNCHANGED hostVars
  <2>1. UNCHANGED <<dev, told, hpc, hev, evq, conn>>
    BY <1>7 DEF hostVars, handlerVars, userVars, busVars, libVars
  <2> QED BY <2>1 DEF GoneIsComing, Complete
<1> QED BY <1>2, <1>3, <1>4, <1>5, <1>6, <1>7 DEF HostNext, AppStep, AppDriver, AppDevice

\* As long as the client's event queue has room, the application is told of every
\* installed device that goes, at whatever point of an installation it went.
THEOREM GoneReportedTheorem == HostSpec /\ []QueueHasRoom => []GoneIsReported
<1>1. HostInit => GoneIsComing
  <2> SUFFICES ASSUME HostInit PROVE GoneIsComing
    OBVIOUS
  <2>1. \A o \in Objs : dev[o].has = {}
    BY DEF HostInit, NoDev
  <2> QED BY <2>1, ResourceNames DEF GoneIsComing, Complete
<1>2. GoneIsComing => GoneIsReported
  <2> SUFFICES ASSUME GoneIsComing, hpc = "wait", HandlerBlocked, NEW o \in Objs,
                      Complete(o), conn[dev[o].addr] = "gone"
               PROVE  o \in told
    BY DEF GoneIsReported
  <2>1. evq = << >>
    BY DEF HandlerBlocked
  <2> QED BY <2>1 DEF GoneIsComing
<1> QED BY <1>1, <1>2, HostInvariance, GoneComingStep, PTL DEF HostSpec

-----------------------------------------------------------------------------
(* Descriptors.                                                             *)

\* Min of a set of naturals is its least member.
LEMMA MinIsLeast ==
  ASSUME NEW S \in SUBSET Nat, S # {}
  PROVE  Min(S) \in S /\ \A y \in S : Min(S) <= y
<1> DEFINE Less == OpToRel(<, Nat)
<1>1. PICK x \in S : \A y \in S : ~(<<y, x>> \in Less)
  BY WFMin, NatLessThanWellFounded
<1>2. \A i, j \in Nat : i < j => <<i, j>> \in Less
  BY Zenon DEF OpToRel
<1>3. \A y \in S : ~(y < x)
  BY <1>1, <1>2
<1>4. \A y \in S : x <= y
  BY <1>3
<1> QED BY <1>4 DEF Min

\* First finds a member when there is one.
LEMMA FirstIsLeast ==
  ASSUME NEW S \in SUBSET (Nat \ {0})
  PROVE  /\ First(S) # 0 <=> S # {}
         /\ S # {} => First(S) \in S /\ \A y \in S : First(S) <= y
<1>1. S \in SUBSET Nat
  OBVIOUS
<1>2. CASE S = {}
  BY <1>2 DEF First
<1>3. CASE S # {}
  <2>1. Min(S) \in S /\ \A y \in S : Min(S) <= y
    BY <1>1, <1>3, MinIsLeast
  <2> QED BY <1>3, <2>1 DEF First
<1> QED BY <1>2, <1>3

\* A well described device is driven through the endpoints of its interface.
LEMMA ConfigOfDescriptor ==
  ASSUME NEW d \in Descs, WellDescribed(d), find_msc_interface(d) # 0, Supported(d)
  PROVE  \E i, j, k \in DOMAIN d :
           /\ d[i] = Intf(extract_config(d).iface_num, "bot")
           /\ InInterface(d, i, j) /\ d[j] = Ep(extract_config(d).bulk_in_ep, "in")
           /\ InInterface(d, i, k) /\ d[k] = Ep(extract_config(d).bulk_out_ep, "out")
<1> DEFINE i == find_msc_interface(d)
           Descriptors == [type : {"intf", "ep"}, num : Nat, class : STRING]
           After(n) == {m \in DOMAIN d : m > n /\ d[m].type = "ep"}
<1>1. d \in Seq(Descriptors)
  BY HostConstants
<1>2. DOMAIN d \in SUBSET (Nat \ {0}) /\ \A m \in DOMAIN d : d[m] \in Descriptors
  <2>1. Len(d) \in Nat /\ d \in [1..Len(d) -> Descriptors] /\ DOMAIN d = 1..Len(d)
    BY <1>1, LenProperties
  <2> HIDE DEF Descriptors
  <2> QED BY <2>1
<1>3. i \in DOMAIN d /\ d[i].type = "intf" /\ d[i].class = "bot"
  <2> DEFINE S == {m \in DOMAIN d : d[m].type = "intf" /\ d[m].class = "bot"}
  <2>1. S \in SUBSET (Nat \ {0}) /\ i = First(S)
    BY <1>2 DEF find_msc_interface
  <2>2. i \in S
    BY <2>1, FirstIsLeast
  <2> QED BY <2>2
<1>4. \A n : After(n) \in SUBSET (Nat \ {0})
  BY <1>2
<1>5. /\ FirstEp(d) = First(After(i)) /\ FirstEp(d) # 0
      /\ SecondEp(d) = First(After(FirstEp(d))) /\ SecondEp(d) # 0
  BY DEF FirstEp, SecondEp, NextOfType, Supported
<1>6. /\ FirstEp(d) \in After(i) /\ \A y \in After(i) : FirstEp(d) <= y
      /\ SecondEp(d) \in After(FirstEp(d)) /\ \A y \in After(FirstEp(d)) : SecondEp(d) <= y
  BY <1>4, <1>5, FirstIsLeast
<1> HIDE DEF i
<1>7. /\ i + 1 \in DOMAIN d /\ i + 2 \in DOMAIN d
      /\ d[i + 1].type = "ep" /\ d[i + 2].type = "ep"
      /\ {d[i + 1].class, d[i + 2].class} = {"in", "out"}
  <2>1. \E j, k \in DOMAIN d : i < j /\ j < k /\ d[j].type = "ep" /\ d[k].type = "ep"
    BY <1>2, <1>3, <1>6
  <2> QED BY <1>3, <2>1 DEF WellDescribed
<1>8. i \in Nat \ {0}
  BY <1>2, <1>3
<1>9. FirstEp(d) = i + 1
  BY <1>2, <1>6, <1>7, <1>8
<1>10. SecondEp(d) = i + 2
  BY <1>2, <1>6, <1>7, <1>8, <1>9
<1>11. InInterface(d, i, i + 1) /\ InInterface(d, i, i + 2)
  BY <1>7, <1>8 DEF InInterface
<1>12. \A m \in Nat : Max({m}) = m
  BY DEF Max
<1>13. extract_config(d).iface_num = d[i].num
  BY DEF extract_config, i
<1>14. ASSUME NEW m \in DOMAIN d, NEW n \in DOMAIN d, {m, n} = {i + 1, i + 2}, m # n,
              d[m].class = "in", d[n].class = "out"
       PROVE  extract_config(d).bulk_in_ep = d[m].num /\ extract_config(d).bulk_out_ep = d[n].num
  <2>1. /\ {x \in {FirstEp(d), SecondEp(d)} : d[x].class = "in"} = {m}
        /\ {x \in {FirstEp(d), SecondEp(d)} : d[x].class = "out"} = {n}
    BY <1>9, <1>10, <1>14
  <2>2. Max({m}) = m /\ Max({n}) = n
    BY <1>2, <1>12
  <2> QED BY <2>1, <2>2 DEF extract_config
<1>15. PICK m \in DOMAIN d, n \in DOMAIN d :
         /\ {m, n} = {i + 1, i + 2} /\ m # n /\ d[m].class = "in" /\ d[n].class = "out"
  BY <1>7, <1>8
<1>16. \A x \in DOMAIN d : d[x] = [type |-> d[x].type, num |-> d[x].num, class |-> d[x].class]
  BY <1>2
<1>17. d[m].type = "ep" /\ d[n].type = "ep" /\ InInterface(d, i, m) /\ InInterface(d, i, n)
  BY <1>7, <1>11, <1>15
<1>18. /\ d[i] = Intf(extract_config(d).iface_num, "bot")
       /\ d[m] = Ep(extract_config(d).bulk_in_ep, "in")
       /\ d[n] = Ep(extract_config(d).bulk_out_ep, "out")
  BY <1>3, <1>13, <1>14, <1>15, <1>16, <1>17 DEF Intf, Ep
<1> QED BY <1>3, <1>17, <1>18

\* An installed device that describes its bulk-only interface well is driven
\* through the endpoints of that interface: the descriptor cannot change while the
\* device is open, so what extract_config_from_descriptor read stays true of it.
THEOREM ConfigTheorem == HostSpec => []ConfigIsOfInterface
<1>1. HostInv => ConfigIsOfInterface
  <2> SUFFICES ASSUME HostInv, NEW o \in Objs, Complete(o), WellDescribed(desc[dev[o].addr])
               PROVE  LET d == desc[dev[o].addr]
                          c == dev[o].config
                      IN  \E i, j, k \in DOMAIN d :
                            /\ d[i] = Intf(c.iface_num, "bot")
                            /\ InInterface(d, i, j) /\ d[j] = Ep(c.bulk_in_ep, "in")
                            /\ InInterface(d, i, k) /\ d[k] = Ep(c.bulk_out_ep, "out")
    BY DEF ConfigIsOfInterface
  <2>1. dev[o].addr \in Addrs /\ conn[dev[o].addr] # "absent"
    BY HandleIsOpen DEF HostInv
  <2>2. desc[dev[o].addr] \in Descs
    BY <2>1 DEF HostInv, Holdings, OpenedIsThere
  <2>3. /\ find_msc_interface(desc[dev[o].addr]) # 0 /\ Supported(desc[dev[o].addr])
        /\ dev[o].config = extract_config(desc[dev[o].addr])
    BY ResourceNames DEF HostInv, ConfigIsRead, Complete
  <2> QED BY <2>2, <2>3, ConfigOfDescriptor
<1> QED BY <1>1, HostInvariance, PTL
=============================================================================
