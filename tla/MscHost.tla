------------------------------ MODULE MscHost ------------------------------
(***************************************************************************)
(* Life of the MSC class driver (usb_host_msc/src/msc_host.c): install and *)
(* uninstall of the driver, install and uninstall of its devices, and the  *)
(* task that handles the events of the USB Host Library.                   *)
(*                                                                         *)
(* One application task calls the API. The handler is event_handler_task,  *)
(* or a task of the application that does the same (msc_task of the tests);*)
(* `prompt' says whether it has the higher priority on the application's   *)
(* core, as in the firmware and in the tests, or runs beside it.           *)
(*                                                                         *)
(* The USB Host Library is external: devices come and go, a client may     *)
(* open a device once, a device that is gone stays until it is closed, and *)
(* the client's event queue drops what it cannot hold.                     *)
(***************************************************************************)
EXTENDS Naturals, Sequences, FiniteSetsExt

CONSTANTS
  Addrs,      \* USB addresses
  Objs,       \* places on the heap for msc_device_t
  Descs,      \* configuration descriptors a device may have
  MaxEvents,  \* max_num_event_msg (10)
  MaxPlugs    \* bound: how often a device is plugged in

NoAddr == "no address"
NoObj == "no object"

ASSUME HostConstants ==
  /\ NoAddr \notin Addrs /\ NoObj \notin Objs
  /\ MaxEvents \in Nat \ {0} /\ MaxPlugs \in Nat
  /\ Descs \subseteq Seq([type : {"intf", "ep"}, num : Nat, class : STRING])

VARIABLES
  prompt,        \* the handler preempts the application
  s_msc_driver,  \* the static pointer is not NULL
  drv,           \* what the driver object holds
  sem,           \* all_events_handled has been given
  ending,        \* end_client_event_handling
  started,       \* event_handling_started
  dev,           \* the device objects
  app,           \* where the application is
  hpc, hev,      \* where the handler is, and what it works on
  known,         \* addresses announced by MSC_DEVICE_CONNECTED
  told,          \* objects named by MSC_DEVICE_DISCONNECTED
  conn, desc,    \* library: devices at the addresses, their descriptors
  opened,        \* library: devices the client has opened
  claimed,       \* library: and those whose interface it has claimed
  evq,           \* library: the client's event queue
  unblocked,     \* library: usb_host_client_unblock was called
  plugs

drvVars == <<s_msc_driver, drv, sem, ending, started>>
busVars == <<conn, desc, plugs>>
libVars == <<opened, claimed, evq, unblocked>>
userVars == <<known, told>>
handlerVars == <<hpc, hev>>
hostVars == <<prompt, drvVars, dev, app, handlerVars, userVars, busVars, libVars>>

-----------------------------------------------------------------------------
(* Descriptors: sequences of interface and endpoint descriptors. The class  *)
(* of an interface is "bot" for mass storage, SCSI, bulk-only; that of an   *)
(* endpoint is its direction.                                               *)

Intf(n, class) == [type |-> "intf", num |-> n, class |-> class]
Ep(n, dir) == [type |-> "ep", num |-> n, class |-> dir]

First(S) == IF S = {} THEN 0 ELSE Min(S)

\* usb_parse_next_descriptor_of_type from offset off; 0 for NULL.
NextOfType(d, type, off) == First({i \in DOMAIN d : i > off /\ d[i].type = type})

\* Mutant: any mass storage interface will do.
find_msc_interface_any(d) ==
  First({i \in DOMAIN d : d[i].type = "intf" /\ d[i].class \in {"bot", "uas"}})

find_msc_interface(d) ==
  First({i \in DOMAIN d : d[i].type = "intf" /\ d[i].class = "bot"})

NoConfig == [iface_num |-> 0, bulk_in_ep |-> 0, bulk_out_ep |-> 0]

\* extract_config_from_descriptor: the two endpoints that follow the interface.
FirstEp(d) == NextOfType(d, "ep", find_msc_interface(d))
SecondEp(d) == NextOfType(d, "ep", FirstEp(d))
Supported(d) == FirstEp(d) # 0 /\ SecondEp(d) # 0
extract_config(d) ==
  LET eps(dir) == {i \in {FirstEp(d), SecondEp(d)} : d[i].class = dir}
      num(S) == IF S = {} THEN 0 ELSE d[Max(S)].num
  IN  [iface_num |-> d[find_msc_interface(d)].num,
       bulk_in_ep |-> num(eps("in")), bulk_out_ep |-> num(eps("out"))]

-----------------------------------------------------------------------------
\* What msc_host_install and, in this order, msc_host_install_device acquire.
Driver == {"mem", "sem", "client"}
DevStages == <<"listed", "sem", "open", "handle", "config", "xfer", "claimed", "ready">>
Resources == {DevStages[i] : i \in DOMAIN DevStages}

NoDev == [addr |-> NoAddr, has |-> {}, config |-> NoConfig]
Idle == [pc |-> "idle", obj |-> NoObj]
At(pc) == [pc |-> pc, obj |-> NoObj]
AtObj(pc, o) == [pc |-> pc, obj |-> o]

Listed == {o \in Objs : "listed" \in dev[o].has}
Complete(o) == dev[o].has = Resources

HostInit ==
  /\ prompt \in BOOLEAN /\ plugs = 0
  /\ s_msc_driver = FALSE /\ drv = {} /\ sem = FALSE /\ ending = FALSE /\ started = FALSE
  /\ dev = [o \in Objs |-> NoDev] /\ app = Idle
  /\ hpc = "off" /\ hev = NoObj
  /\ known = {} /\ told = {}
  /\ conn = [a \in Addrs |-> "absent"] /\ desc = [a \in Addrs |-> << >>]
  /\ opened = {} /\ claimed = {} /\ evq = << >> /\ unblocked = FALSE

\* The chip restarts after a failed assert; the devices are enumerated anew.
Restart ==
  /\ UNCHANGED <<prompt, plugs>>
  /\ s_msc_driver' = FALSE /\ drv' = {} /\ sem' = FALSE /\ ending' = FALSE /\ started' = FALSE
  /\ dev' = [o \in Objs |-> NoDev] /\ app' = Idle
  /\ hpc' = "off" /\ hev' = NoObj
  /\ known' = {} /\ told' = {}
  /\ conn' = [a \in Addrs |-> "absent"] /\ desc' = [a \in Addrs |-> << >>]
  /\ opened' = {} /\ claimed' = {} /\ evq' = << >> /\ unblocked' = FALSE

-----------------------------------------------------------------------------
(* The USB Host Library (external).                                         *)

Event(kind, a) == [kind |-> kind, addr |-> a]
Post(e) ==
  evq' = IF "client" \in drv /\ Len(evq) < MaxEvents THEN Append(evq, e) ELSE evq

Plug(a, d) ==
  /\ conn[a] = "absent" /\ plugs < MaxPlugs
  /\ conn' = [conn EXCEPT ![a] = "present"] /\ desc' = [desc EXCEPT ![a] = d]
  /\ plugs' = plugs + 1
  /\ Post(Event("new", a))
  /\ UNCHANGED <<prompt, drvVars, dev, app, handlerVars, userVars, opened, claimed, unblocked>>

Unplug(a) ==
  /\ conn[a] = "present"
  /\ IF a \in opened THEN conn' = [conn EXCEPT ![a] = "gone"] /\ Post(Event("gone", a))
     ELSE conn' = [conn EXCEPT ![a] = "absent"] /\ UNCHANGED evq
  /\ UNCHANGED <<prompt, drvVars, dev, app, handlerVars, userVars, desc, plugs, opened, claimed,
                 unblocked>>

\* usb_host_device_open and usb_host_device_close on the client's set of devices.
CanOpen(a) == conn[a] = "present" /\ a \notin opened
Closed(a) ==
  /\ opened' = opened \ {a}
  /\ conn' = IF a \in opened /\ conn[a] = "gone" THEN [conn EXCEPT ![a] = "absent"] ELSE conn

-----------------------------------------------------------------------------
(* The application. It runs when a prompt handler has nothing to do.        *)

HandlerBlocked == hpc = "off" \/ (hpc = "wait" /\ evq = << >> /\ ~unblocked)
Runs(pc) == app.pc = pc /\ (prompt => HandlerBlocked)

\* msc_host_install, one resource at a time ...
HostInstall ==
  /\ Runs("idle") /\ ~s_msc_driver
  /\ drv' = {"mem"}
  /\ sem' = FALSE /\ ending' = FALSE /\ started' = FALSE
  /\ app' = At("install")
  /\ UNCHANGED <<prompt, s_msc_driver, dev, handlerVars, userVars, busVars, libVars>>

HostInstallStep ==
  /\ Runs("install")
  /\ \/ "sem" \notin drv /\ drv' = drv \cup {"sem"} /\ UNCHANGED <<s_msc_driver, app>>
     \/ "sem" \in drv /\ "client" \notin drv
        /\ drv' = drv \cup {"client"} /\ UNCHANGED <<s_msc_driver, app>>
     \/ "client" \in drv
        /\ s_msc_driver' = TRUE /\ app' = At("task") /\ UNCHANGED drv
  /\ UNCHANGED <<prompt, sem, ending, started, dev, handlerVars, userVars, busVars, libVars>>

\* ... then the background task if it was asked for.
HostInstallDone(background) ==
  /\ Runs("task")
  /\ hpc' = IF background THEN "enter" ELSE "off"
  /\ app' = Idle
  /\ UNCHANGED <<prompt, drvVars, dev, hev, userVars, busVars, libVars>>

\* What the deregistration of the client does in the library.
Deregistered == evq' = << >> /\ unblocked' = FALSE /\ UNCHANGED <<opened, claimed>>

\* Any acquisition may fail; what was acquired is given back.
HostInstallFail ==
  /\ Runs("install") \/ Runs("task")
  /\ s_msc_driver' = FALSE
  /\ Deregistered /\ drv' = drv \ Driver
  /\ app' = Idle
  /\ UNCHANGED <<prompt, sem, ending, started, dev, handlerVars, userVars, busVars>>

\* Without a background task the application starts one of its own.
StartPoller ==
  /\ Runs("idle") /\ s_msc_driver /\ hpc = "off"
  /\ hpc' = "enter"
  /\ UNCHANGED <<prompt, drvVars, dev, app, hev, userVars, busVars, libVars>>

\* Mutant: devices may still be installed.
HostUninstall_devices ==
  /\ Runs("idle") /\ s_msc_driver /\ ~ending
  /\ hpc = "off" \/ started
  /\ ending' = TRUE /\ app' = At("uninstall")
  /\ UNCHANGED <<prompt, s_msc_driver, drv, sem, started, dev, handlerVars, userVars, busVars, libVars>>

\* msc_host_uninstall: refused, without a trace, while a device is installed.
\* Called once the handler, if there is one, has begun its work.
HostUninstall ==
  /\ Runs("idle") /\ s_msc_driver /\ ~ending /\ Listed = {}
  /\ hpc = "off" \/ started
  /\ ending' = TRUE /\ app' = At("uninstall")
  /\ UNCHANGED <<prompt, s_msc_driver, drv, sem, started, dev, handlerVars, userVars, busVars, libVars>>

HostUninstallUnblock ==
  /\ Runs("uninstall")
  /\ IF started THEN unblocked' = TRUE /\ app' = At("take")
     ELSE app' = At("free") /\ UNCHANGED unblocked
  /\ UNCHANGED <<prompt, drvVars, dev, handlerVars, userVars, busVars, opened, claimed, evq>>

\* Mutant: the wait for the semaphore may time out.
HostUninstallTake_timeout ==
  /\ Runs("take")
  /\ sem' = FALSE /\ app' = At("free")
  /\ UNCHANGED <<prompt, s_msc_driver, drv, ending, started, dev, handlerVars, userVars, busVars,
                 libVars>>

HostUninstallTake ==
  /\ Runs("take") /\ sem
  /\ sem' = FALSE /\ app' = At("free")
  /\ UNCHANGED <<prompt, s_msc_driver, drv, ending, started, dev, handlerVars, userVars, busVars,
                 libVars>>

\* The driver is freed, and the pointer cleared after that. Deregistering a client
\* that has a device open fails, and ESP_ERROR_CHECK restarts the chip.
HostUninstallAbort == Runs("free") /\ opened # {} /\ Restart

HostUninstallFree ==
  /\ Runs("free") /\ opened = {}
  /\ Deregistered /\ drv' = {} /\ app' = At("clear")
  /\ UNCHANGED <<prompt, s_msc_driver, sem, ending, started, dev, handlerVars, userVars, busVars>>

HostUninstallClear ==
  /\ Runs("clear")
  /\ s_msc_driver' = FALSE /\ app' = Idle
  /\ UNCHANGED <<prompt, drv, sem, ending, started, dev, handlerVars, userVars, busVars, libVars>>

\* msc_host_install_device: the object is in the list before it is complete.
\* Called with a handler at work: without one its transfers never complete.
InstallDevice(a, o) ==
  /\ Runs("idle") /\ s_msc_driver /\ hpc # "off" /\ a \in known /\ dev[o] = NoDev
  /\ dev' = [dev EXCEPT ![o].addr = a, ![o].has = {"listed"}]
  /\ app' = AtObj("device", o)
  /\ UNCHANGED <<prompt, drvVars, handlerVars, userVars, busVars, libVars>>

Acquire(o, r) == dev' = [dev EXCEPT ![o].has = @ \cup {r}]

\* The next resource; usb_host_device_open hands the handle out at its end.
DeviceStep ==
  LET o == app.obj
      a == dev[o].addr
      n == Cardinality(dev[o].has) + 1
      r == DevStages[n]
  IN  /\ Runs("device") /\ n <= Len(DevStages)
      /\ \/ r \in {"sem", "handle", "xfer"} /\ Acquire(o, r) /\ UNCHANGED <<opened, claimed>>
         \/ r = "open" /\ CanOpen(a)
            /\ Acquire(o, r) /\ opened' = opened \cup {a} /\ UNCHANGED claimed
         \/ r = "config" /\ find_msc_interface(desc[a]) # 0 /\ Supported(desc[a])
            /\ dev' = [dev EXCEPT ![o].has = @ \cup {r}, ![o].config = extract_config(desc[a])]
            /\ UNCHANGED <<opened, claimed>>
         \/ r = "claimed" /\ Acquire(o, r) /\ claimed' = claimed \cup {a} /\ UNCHANGED opened
         \/ r = "ready" /\ conn[a] = "present" /\ Acquire(o, r) /\ UNCHANGED <<opened, claimed>>
      /\ UNCHANGED <<prompt, drvVars, app, handlerVars, userVars, busVars, evq, unblocked>>

\* The address was announced for another device: assert(ifc_desc).
DeviceAssert ==
  LET o == app.obj IN
  /\ Runs("device") /\ "handle" \in dev[o].has /\ "config" \notin dev[o].has
  /\ find_msc_interface(desc[dev[o].addr]) = 0
  /\ Restart

DeviceDone ==
  /\ Runs("device") /\ Complete(app.obj)
  /\ known' = known \ {dev[app.obj].addr} /\ app' = Idle
  /\ UNCHANGED <<prompt, drvVars, dev, handlerVars, told, busVars, libVars>>

\* Any of them may fail.
DeviceFail ==
  /\ Runs("device") /\ ~Complete(app.obj)
  /\ "open" \in dev[app.obj].has => "handle" \in dev[app.obj].has
  /\ app' = AtObj("remove", app.obj)
  /\ UNCHANGED <<prompt, drvVars, dev, handlerVars, userVars, busVars, libVars>>

\* msc_host_uninstall_device.
UninstallDevice(o) ==
  /\ Runs("idle") /\ Complete(o)
  /\ app' = AtObj("remove", o)
  /\ UNCHANGED <<prompt, drvVars, dev, handlerVars, userVars, busVars, libVars>>

\* msc_deinit_device: off the list first, then the interface, the device and
\* the object. A device is not closed while an interface of it is claimed.
DeinitRemove ==
  /\ Runs("remove")
  /\ dev' = [dev EXCEPT ![app.obj].has = @ \ {"listed"}]
  /\ app' = AtObj("release", app.obj)
  /\ UNCHANGED <<prompt, drvVars, handlerVars, userVars, busVars, libVars>>

\* Mutant: the device is closed before its interface is released.
DeinitRelease_close_first ==
  LET o == app.obj
      a == dev[o].addr
  IN  /\ Runs("release")
      /\ claimed' = IF "claimed" \in dev[o].has THEN claimed \ {a} ELSE claimed
      /\ IF "handle" \in dev[o].has /\ a \notin claimed THEN Closed(a) ELSE UNCHANGED <<opened, conn>>
      /\ dev' = [dev EXCEPT ![o] = NoDev] /\ told' = told \ {o}
      /\ app' = Idle
      /\ UNCHANGED <<prompt, drvVars, handlerVars, known, desc, plugs, evq, unblocked>>

DeinitRelease ==
  LET o == app.obj
      a == dev[o].addr
  IN  /\ Runs("release")
      /\ claimed' = IF "claimed" \in dev[o].has THEN claimed \ {a} ELSE claimed
      /\ IF "handle" \in dev[o].has /\ a \notin claimed' THEN Closed(a) ELSE UNCHANGED <<opened, conn>>
      /\ dev' = [dev EXCEPT ![o] = NoDev] /\ told' = told \ {o}
      /\ app' = Idle
      /\ UNCHANGED <<prompt, drvVars, handlerVars, known, desc, plugs, evq, unblocked>>

\* msc_host_uninstall_device returns early when the interface, the device or the
\* transfer cannot be given up, say because a command of another task is under
\* way. The object, off the list by then, is never freed. (After a failed install
\* the same errors are ignored; no other task knows the device then.)
Stuck == [claimed |-> Resources \ {"listed", "sem"},
          open    |-> Resources \ {"listed", "sem", "claimed"},
          xfer    |-> {"xfer", "ready"}]

DeinitStop(r) ==
  LET o == app.obj
      a == dev[o].addr
  IN  /\ Runs("release") /\ "ready" \in dev[o].has
      /\ claimed' = IF r = "claimed" THEN claimed ELSE claimed \ {a}
      /\ IF r = "xfer" THEN Closed(a) ELSE UNCHANGED <<opened, conn>>
      /\ dev' = [dev EXCEPT ![o].has = Stuck[r]]
      /\ app' = Idle
      /\ UNCHANGED <<prompt, drvVars, handlerVars, userVars, desc, plugs, evq, unblocked>>

-----------------------------------------------------------------------------
(* The handler: msc_host_handle_events in a loop.                           *)

HandlerEnter ==
  /\ hpc = "enter"
  /\ hpc' = IF s_msc_driver THEN "mark" ELSE "off"
  /\ UNCHANGED <<prompt, drvVars, dev, app, hev, userVars, busVars, libVars>>

HandlerMark ==
  /\ hpc = "mark"
  /\ started' = TRUE /\ hpc' = "wait"
  /\ UNCHANGED <<prompt, s_msc_driver, drv, sem, ending, dev, app, hev, userVars, busVars, libVars>>

\* usb_host_client_handle_events blocks, then serves all there is.
HandlerWake ==
  /\ hpc = "wait" /\ (evq # << >> \/ unblocked)
  /\ unblocked' = FALSE /\ hpc' = "serve"
  /\ UNCHANGED <<prompt, drvVars, dev, app, hev, userVars, busVars, opened, claimed, evq>>

\* client_event_cb: is_mass_storage_device opens a new device to look at it ...
HandlerNew ==
  LET a == Head(evq).addr IN
  /\ hpc = "serve" /\ evq # << >> /\ Head(evq).kind = "new"
  /\ evq' = Tail(evq)
  /\ IF CanOpen(a) THEN opened' = opened \cup {a} /\ hpc' = "probe" /\ hev' = a
     ELSE UNCHANGED <<opened, handlerVars>>
  /\ UNCHANGED <<prompt, drvVars, dev, app, userVars, busVars, claimed, unblocked>>

\* ... and announces it if it is one.
HandlerProbe ==
  /\ hpc = "probe"
  /\ Closed(hev)
  /\ known' = IF find_msc_interface(desc[hev]) # 0 THEN known \cup {hev} ELSE known
  /\ hpc' = "serve" /\ hev' = NoObj
  /\ UNCHANGED <<prompt, drvVars, dev, app, told, desc, plugs, claimed, evq, unblocked>>

\* Mutant: the first device of the list is taken for the one that is gone.
find_msc_device_first(a) == Listed

\* find_msc_device: the listed objects with this handle.
find_msc_device(a) == {o \in Listed : "handle" \in dev[o].has /\ dev[o].addr = a}

\* Mutant: the result of find_msc_device is not checked.
HandlerGone_null ==
  LET found == find_msc_device(Head(evq).addr) IN
  /\ hpc = "serve" /\ evq # << >> /\ Head(evq).kind = "gone"
  /\ evq' = Tail(evq)
  /\ hpc' = "callback" /\ hev' \in IF found = {} THEN {NoObj} ELSE found
  /\ UNCHANGED <<prompt, drvVars, dev, app, userVars, busVars, opened, claimed, unblocked>>

HandlerGone ==
  LET found == find_msc_device(Head(evq).addr) IN
  /\ hpc = "serve" /\ evq # << >> /\ Head(evq).kind = "gone"
  /\ evq' = Tail(evq)
  /\ IF found = {} THEN UNCHANGED handlerVars
     ELSE hpc' = "callback" /\ hev' \in found
  /\ UNCHANGED <<prompt, drvVars, dev, app, userVars, busVars, opened, claimed, unblocked>>

\* Mutant: the event is sent as MSC_DEVICE_CONNECTED.
HandlerCallback_connected ==
  /\ hpc = "callback"
  /\ known' = known \cup {dev[hev].addr}
  /\ hpc' = "serve" /\ hev' = NoObj
  /\ UNCHANGED <<prompt, drvVars, dev, app, told, busVars, libVars>>

\* MSC_DEVICE_DISCONNECTED with the pointer found before the unlock.
HandlerCallback ==
  /\ hpc = "callback"
  /\ told' = told \cup {hev}
  /\ hpc' = "serve" /\ hev' = NoObj
  /\ UNCHANGED <<prompt, drvVars, dev, app, known, busVars, libVars>>

HandlerServed ==
  /\ hpc = "serve" /\ evq = << >>
  /\ hpc' = "check"
  /\ UNCHANGED <<prompt, drvVars, dev, app, hev, userVars, busVars, libVars>>

\* Mutant: the semaphore is not given.
HandlerCheck_silent ==
  /\ hpc = "check"
  /\ hpc' = IF ending THEN "off" ELSE "enter"
  /\ UNCHANGED <<prompt, drvVars, dev, app, hev, userVars, busVars, libVars>>

HandlerCheck ==
  /\ hpc = "check"
  /\ IF ending THEN sem' = TRUE /\ hpc' = "off" ELSE hpc' = "enter" /\ UNCHANGED sem
  /\ UNCHANGED <<prompt, s_msc_driver, drv, ending, started, dev, app, hev, userVars, busVars, libVars>>

-----------------------------------------------------------------------------
\* The steps of a call the application has made.
AppStep ==
  \/ HostInstallStep \/ (\E b \in BOOLEAN : HostInstallDone(b)) \/ HostInstallFail
  \/ HostUninstallUnblock \/ HostUninstallTake \/ HostUninstallFree \/ HostUninstallClear
  \/ DeviceStep \/ DeviceDone \/ DeviceFail \/ DeinitRemove \/ DeinitRelease
  \/ \E r \in DOMAIN Stuck : DeinitStop(r)

HandlerStep ==
  \/ HandlerEnter \/ HandlerMark \/ HandlerWake \/ HandlerNew \/ HandlerProbe
  \/ HandlerGone \/ HandlerCallback \/ HandlerServed \/ HandlerCheck

Bus == \E a \in Addrs : Unplug(a) \/ \E d \in Descs : Plug(a, d)

HostNext ==
  \/ AppStep \/ DeviceAssert \/ HostUninstallAbort \/ HandlerStep \/ Bus
  \/ HostInstall \/ StartPoller \/ HostUninstall
  \/ \E o \in Objs : UninstallDevice(o) \/ \E a \in Addrs : InstallDevice(a, o)

HostSpec == HostInit /\ [][HostNext]_hostVars

-----------------------------------------------------------------------------
(* Properties.                                                              *)

AppPcs == {"idle", "install", "task", "uninstall", "take", "free", "clear",
           "device", "remove", "release"}
Inside == {"mark", "wait", "serve", "probe", "callback", "check"}

\* Type invariant.
HostTypeOK ==
  /\ {prompt, s_msc_driver, sem, ending, started, unblocked} \subseteq BOOLEAN
  /\ drv \subseteq Driver
  /\ \A o \in Objs : dev[o].addr \in Addrs \cup {NoAddr} /\ dev[o].has \subseteq Resources
  /\ app.pc \in AppPcs /\ app.obj \in Objs \cup {NoObj}
  /\ hpc \in Inside \cup {"off", "enter"} /\ hev \in Objs \cup Addrs \cup {NoObj}
  /\ known \subseteq Addrs /\ told \subseteq Objs
  /\ \A a \in Addrs : conn[a] \in {"absent", "present", "gone"}
  /\ opened \subseteq Addrs /\ claimed \subseteq Addrs
  /\ Len(evq) <= MaxEvents /\ plugs \in 0..MaxPlugs

\* The handler never works on a driver that has been freed or was never made: it
\* is past the NULL check of msc_host_handle_events only while the driver lives,
\* so msc_host_uninstall waits long enough (all_events_handled).
DriverOutlivesHandler == hpc \in Inside => s_msc_driver /\ drv = Driver

\* When msc_host_uninstall comes to ESP_ERROR_CHECK(usb_host_client_deregister),
\* which aborts on a client in use, no handler is running, and the only devices
\* open are those whose msc_host_uninstall_device has returned an error.
DeregistersUnused ==
  app.pc = "free" =>
    /\ hpc \notin Inside
    /\ \A a \in opened : \E o \in Objs, r \in {"claimed", "open"} :
         dev[o].addr = a /\ dev[o].has = Stuck[r]
    /\ claimed \subseteq opened

\* All or nothing: between calls a device object is listed, open, claimed and
\* ready or does not exist, unless msc_host_uninstall_device returned an error for
\* it; then it keeps what was not given up at that point, and nothing else does.
\* What is open or claimed belongs to one object, or is being probed, and without
\* a driver nothing is open, wherever msc_host_install, msc_host_install_device or
\* a teardown stopped.
NothingLeftBehind ==
  app = Idle =>
    LET users == {o \in Objs : dev[o] # NoDev}
        having(r) == {o \in users : r \in dev[o].has}
        at(S) == {dev[o].addr : o \in S}
    IN  /\ \A o \in users : Complete(o) \/ \E r \in DOMAIN Stuck : dev[o].has = Stuck[r]
        /\ claimed = at(having("claimed"))
        /\ opened = at(having("open")) \cup (IF hpc = "probe" THEN {hev} ELSE {})
        /\ \A o, p \in having("open") : dev[o].addr = dev[p].addr => o = p
        /\ drv = IF s_msc_driver THEN Driver ELSE {}
        /\ ~s_msc_driver => opened = {}

\* MSC_DEVICE_DISCONNECTED names an object that is in the list and whose device
\* is gone, although the pointer is used after the lock of find_msc_device.
DisconnectedIsGone ==
  prompt /\ hpc = "callback" => hev \in Listed /\ conn[dev[hev].addr] = "gone"

InInterface(d, i, j) == i < j /\ \A k \in i+1..j-1 : d[k].type # "intf"

\* What follows a bulk-only interface: its two endpoints, one in each direction,
\* or fewer than two endpoints in all.
WellDescribed(d) ==
  \A i \in DOMAIN d : d[i].type = "intf" /\ d[i].class = "bot" =>
    \/ /\ i + 1 \in DOMAIN d /\ i + 2 \in DOMAIN d
       /\ d[i + 1].type = "ep" /\ d[i + 2].type = "ep"
       /\ {d[i + 1].class, d[i + 2].class} = {"in", "out"}
    \/ \A j, k \in DOMAIN d : ~(i < j /\ j < k /\ d[j].type = "ep" /\ d[k].type = "ep")

\* An installed device whose descriptor gives its bulk-only interface the two
\* endpoints next to it is driven through them, in whatever order they are and
\* whatever interfaces come before and after. extract_config_from_descriptor takes
\* the next two endpoints there are: of an interface short of endpoints it accepts
\* those of the interface behind it, and the property says nothing of such a one.
ConfigIsOfInterface ==
  \A o \in Objs : Complete(o) /\ WellDescribed(desc[dev[o].addr]) =>
    LET d == desc[dev[o].addr]
        c == dev[o].config
    IN  \E i, j, k \in DOMAIN d :
          /\ d[i] = Intf(c.iface_num, "bot")
          /\ InInterface(d, i, j) /\ d[j] = Ep(c.bulk_in_ep, "in")
          /\ InInterface(d, i, k) /\ d[k] = Ep(c.bulk_out_ep, "out")

\* msc_host_uninstall does not wait in vain: once it waits, the semaphore has
\* been given, or the handler is on its way to the check that gives it, or is
\* blocked in the library or about to be while the unblock is still pending.
UninstallIsAwaited ==
  app.pc = "take" =>
    \/ sem
    \/ hpc \in {"serve", "probe", "callback", "check"}
    \/ hpc \in {"enter", "mark", "wait"} /\ unblocked

\* A device that goes away is reported: when the handler has nothing left to do,
\* the application has been told of every device it has installed that is gone,
\* even if it went while msc_host_install_device was under way: the event is
\* missed only before find_msc_device can find the handle, and such an install
\* fails in msc_wait_for_ready_state.
GoneIsReported ==
  hpc = "wait" /\ HandlerBlocked =>
    \A o \in Objs : Complete(o) /\ conn[dev[o].addr] = "gone" => o \in told
=============================================================================
