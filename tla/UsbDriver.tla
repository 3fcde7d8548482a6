----------------------------- MODULE UsbDriver -----------------------------
(***************************************************************************)
(* Hotplug of the USB drive: UsbMassStorage (usb_mass_storage/driver.rs),  *)
(* the callback that feeds it, the MSC host driver's handling of client    *)
(* events and installation of devices (usb_host_msc/src/msc_host.c), and   *)
(* the TPS power switch (power_switch/tps.rs).                             *)
(*                                                                         *)
(* Four actors: the main task, which runs poll() forever and is the only   *)
(* one to run the USB host library's daemon; the MSC background task; the  *)
(* SPI task, which uses whatever handle it finds; the user and the drive.  *)
(* Main and background task both take client events off one queue. With    *)
(* Prompt the priorities are relied on: the background task (5) handles an *)
(* event before main (1) goes on, and the SPI task (10, on the other core) *)
(* stores a capacity it has read before another drive can be enumerated.   *)
(* Without it the tasks interleave freely.                                 *)
(*                                                                         *)
(* Each enumeration of the drive gets an identity from Ids that nothing    *)
(* refers to any more; it names the USB address, the device object and     *)
(* the capacity read from it. The host library is external.                *)
(***************************************************************************)
EXTENDS Integers, Sequences, FiniteSets

CONSTANTS
  Ids,            \* identities of enumerated devices
  RETRY_COUNT,    \* attempts to open a device (3)
  Prompt,         \* the tasks' priorities are relied on
  MayExhaust,     \* installation may answer INVALID_STATE on every attempt
  ReleaseFails    \* releasing the interface of a device in use may fail

NoDev == 0

ASSUME UsbConstants ==
  /\ Ids \subseteq Nat \ {NoDev} /\ IsFiniteSet(Ids)
  /\ RETRY_COUNT \in Nat \ {0}
  /\ Prompt \in BOOLEAN /\ MayExhaust \in BOOLEAN /\ ReleaseFails \in BOOLEAN

VARIABLES
  plugged,     \* the drive is in the socket
  powered,     \* the TPS switch feeds it
  bus,         \* the host library's device: id (or NoDev), whether it is known to be
               \* gone, whether it still answers, and who has it open
  evq,         \* client events not yet handled
  heap,        \* msc_device_t of each id: "none", "live", "freed", "leaked", "twice"
  pending, retries, handle, cap,   \* pending_addr, retries_left, handle, the id
                                   \* whose block_size/block_count are cached
  since,       \* no_device_since: None, less or at least two seconds ago
  mpc, addr,   \* main task: where it is in poll, local `addr' of try_open_and_mount
  hpc, hev,    \* per handling task: where it is in client_event_cb, and its event
  spc, sdev    \* SPI task: inside a SCSI command or not, and on which handle

vars == <<plugged, powered, bus, evq, heap, pending, retries, handle, cap, since,
          mpc, addr, hpc, hev, spc, sdev>>
driverVars == <<pending, retries, handle, cap>>
handlerVars == <<hpc, hev>>
spiVars == <<spc, sdev>>
worldVars == <<plugged, powered>>

Tasks == {"main", "bg"}
Event(kind, d) == [kind |-> kind, dev |-> d]
NoEvent == Event("none", NoDev)
NoBus == [id |-> NoDev, gone |-> FALSE, alive |-> FALSE, openers |-> {}]

\* Nothing refers to d any more.
Unused(d) ==
  /\ d \notin {bus.id, pending, handle, cap, addr, sdev}
  /\ heap[d] # "leaked"
  /\ \A i \in DOMAIN evq : evq[i].dev # d
  /\ \A t \in Tasks : hev[t].dev # d

UsbInit ==
  /\ plugged \in BOOLEAN
  /\ powered = TRUE
  /\ bus = NoBus
  /\ evq = << >>
  /\ heap = [d \in Ids |-> "none"]
  /\ pending = NoDev /\ retries = 0 /\ handle = NoDev /\ cap = NoDev
  /\ since = "none"
  /\ mpc = "lib" /\ addr = NoDev
  /\ hpc = [t \in Tasks |-> "none"] /\ hev = [t \in Tasks |-> NoEvent]
  /\ spc = "idle" /\ sdev = NoDev

-----------------------------------------------------------------------------
(* The user and the drive.                                                  *)

Plug ==
  /\ ~plugged
  /\ plugged' = TRUE
  /\ UNCHANGED <<powered, bus, evq, heap, driverVars, since, mpc, addr, handlerVars, spiVars>>

Unplug ==
  /\ plugged
  /\ plugged' = FALSE
  /\ bus' = [bus EXCEPT !.alive = FALSE]
  /\ UNCHANGED <<powered, evq, heap, driverVars, since, mpc, addr, handlerVars, spiVars>>

\* Two seconds without a device have passed.
TwoSeconds ==
  /\ since = "young"
  /\ since' = "old"
  /\ UNCHANGED <<worldVars, bus, evq, heap, driverVars, mpc, addr, handlerVars, spiVars>>

-----------------------------------------------------------------------------
(* The host library (external): a device is forgotten once it is gone and   *)
(* nobody has it open; only then is the port enumerated again.              *)

Closed(b, who) ==
  LET left == b.openers \ {who}
  IN  IF b.gone /\ left = {} THEN NoBus ELSE [b EXCEPT !.openers = left]

\* usb_host_lib_handle_events: the daemon's work, done by main only.
LibDeviceLost ==
  /\ bus.id # NoDev /\ ~bus.gone /\ ~bus.alive
  /\ IF bus.openers = {}
     THEN bus' = NoBus /\ evq' = evq
     ELSE bus' = [bus EXCEPT !.gone = TRUE] /\ evq' = Append(evq, Event("gone", bus.id))
  /\ heap' = heap

Enumerates == bus.id = NoDev /\ plugged /\ powered /\ (Prompt => spc # "store")

LibDeviceFound ==
  /\ Enumerates
  /\ \E d \in Ids :
       /\ Unused(d)
       /\ bus' = [id |-> d, gone |-> FALSE, alive |-> TRUE, openers |-> {}]
       /\ evq' = Append(evq, Event("new", d))
       /\ heap' = [heap EXCEPT ![d] = "none"]

LibNothing ==
  /\ ~(bus.id # NoDev /\ ~bus.gone /\ ~bus.alive)
  /\ ~Enumerates
  /\ UNCHANGED <<bus, evq, heap>>

-----------------------------------------------------------------------------
(* poll(), in the main task.                                                *)

Scheduled == Prompt => evq = << >> /\ hpc["bg"] = "none"

MainAt(from, to) == mpc = from /\ mpc' = to /\ Scheduled

PollLib ==
  /\ MainAt("lib", "msc")
  /\ LibDeviceLost \/ LibDeviceFound \/ LibNothing
  /\ UNCHANGED <<worldVars, driverVars, since, addr, handlerVars, spiVars>>

\* msc_host_handle_events returns: no event (left) to handle.
PollMscDone ==
  /\ MainAt("msc", "open")
  /\ hpc["main"] = "none"
  /\ UNCHANGED <<worldVars, bus, evq, heap, driverVars, since, addr, handlerVars, spiVars>>

\* try_open_and_mount: nothing to open.
OpenSkip ==
  /\ MainAt("open", "watch")
  /\ pending = NoDev \/ retries = 0
  /\ UNCHANGED <<worldVars, bus, evq, heap, driverVars, since, addr, handlerVars, spiVars>>

\* msc_host_install_device up to opening the device. An address without a
\* device is an error of its own.
OpenBegin ==
  /\ MainAt("open", "install")
  /\ pending # NoDev /\ retries > 0
  /\ addr' = pending
  /\ IF bus.id = pending /\ ~bus.gone
     THEN /\ bus' = [bus EXCEPT !.openers = @ \cup {"dev"}]
          /\ heap' = [heap EXCEPT ![pending] = "live"]
     ELSE UNCHANGED <<bus, heap>>
  /\ UNCHANGED <<worldVars, evq, driverVars, since, handlerVars, spiVars>>

\* INQUIRY, wait for ready and READ CAPACITY succeeded: publish the handle.
OpenOk ==
  /\ MainAt("install", "refresh")
  /\ heap[addr] = "live" /\ bus.alive
  /\ handle' = addr /\ pending' = NoDev /\ retries' = 0
  /\ addr' = NoDev
  /\ UNCHANGED <<worldVars, bus, evq, heap, cap, since, handlerVars, spiVars>>

\* Mutant: the fail path forgets the device object.
InstallFailed_keeps == UNCHANGED <<bus, heap>>

\* The fail path: msc_deinit_device(msc_device, true) releases and frees all.
InstallFailed ==
  IF heap[addr] = "live"
  THEN bus' = Closed(bus, "dev") /\ heap' = [heap EXCEPT ![addr] = "freed"]
  ELSE UNCHANGED <<bus, heap>>

\* ESP_ERR_INVALID_STATE, from opening a device that is going or from a command:
\* one attempt less, the address stays pending.
OpenInvalidState ==
  /\ MainAt("install", "watch")
  /\ bus.id = addr
  /\ MayExhaust \/ retries > 1
  /\ InstallFailed
  /\ retries' = retries - 1
  /\ addr' = NoDev
  /\ UNCHANGED <<worldVars, evq, pending, handle, cap, since, handlerVars, spiVars>>

\* Mutant: the address stays pending with no attempt left.
OpenFatal_pending ==
  /\ MainAt("install", "watch")
  /\ InstallFailed
  /\ retries' = 0
  /\ addr' = NoDev
  /\ UNCHANGED <<worldVars, evq, pending, handle, cap, since, handlerVars, spiVars>>

\* Any other error: no further attempt.
OpenFatal ==
  /\ MainAt("install", "watch")
  /\ InstallFailed
  /\ pending' = NoDev /\ retries' = 0
  /\ addr' = NoDev
  /\ UNCHANGED <<worldVars, evq, handle, cap, since, handlerVars, spiVars>>

\* bd_refresh_capacity of the freshly opened device; its failure is logged.
OpenRefresh ==
  /\ MainAt("refresh", "watch")
  /\ \/ handle # NoDev /\ bus.alive /\ cap' = handle
     \/ cap' = cap
  /\ UNCHANGED <<worldVars, bus, evq, heap, pending, retries, handle, since, addr,
                 handlerVars, spiVars>>

\* Mutant: the watchdog looks at the pending address only.
NoDevice_pending == pending = NoDev

\* The watchdog of poll().
NoDevice == handle = NoDev /\ pending = NoDev

Watch ==
  /\ MainAt("watch", "lib")
  /\ \/ ~NoDevice /\ since' = "none"
     \/ NoDevice /\ since = "none" /\ since' = "young"
     \/ NoDevice /\ since = "young" /\ since' = since
  /\ UNCHANGED <<worldVars, bus, evq, heap, driverVars, addr, handlerVars, spiVars>>

\* power_cycle_usb: the drive is off for two seconds while main sleeps.
PowerOff ==
  /\ MainAt("watch", "power")
  /\ NoDevice /\ since = "old"
  /\ powered' = FALSE
  /\ bus' = [bus EXCEPT !.alive = FALSE]
  /\ UNCHANGED <<plugged, evq, heap, driverVars, since, addr, handlerVars, spiVars>>

PowerOn ==
  /\ MainAt("power", "lib")
  /\ powered' = TRUE
  /\ since' = "young"
  /\ UNCHANGED <<plugged, bus, evq, heap, driverVars, addr, handlerVars, spiVars>>

-----------------------------------------------------------------------------
(* client_event_cb and handle_raw_event, in the main task (while it is in   *)
(* msc_host_handle_events) or in the background task.                       *)

CanRun(t) == t = "main" => mpc = "msc" /\ (Prompt => hpc["bg"] = "none")

Handler(t, from, to) == CanRun(t) /\ hpc[t] = from /\ hpc' = [hpc EXCEPT ![t] = to]

\* Done with the event.
Finish(t) == hev' = [hev EXCEPT ![t] = NoEvent]

\* NEW_DEV: is_mass_storage_device opens the device if it is still there.
TakeNewDev(t) ==
  LET here == bus.id = Head(evq).dev /\ ~bus.gone
  IN  /\ evq # << >> /\ Head(evq).kind = "new"
      /\ Handler(t, "none", IF here THEN "probe" ELSE "none")
      /\ evq' = Tail(evq)
      /\ IF here
         THEN bus' = [bus EXCEPT !.openers = @ \cup {"probe"}] /\ hev' = [hev EXCEPT ![t] = Head(evq)]
         ELSE UNCHANGED <<bus, hev>>
      /\ UNCHANGED <<worldVars, heap, driverVars, since, mpc, addr, spiVars>>

\* Mutant: one attempt too many is granted.
Connected_extra(t) ==
  /\ Handler(t, "probe", "none")
  /\ bus' = Closed(bus, "probe")
  /\ pending' = hev[t].dev /\ retries' = RETRY_COUNT + 1
  /\ handle' = NoDev /\ cap' = NoDev
  /\ Finish(t)
  /\ UNCHANGED <<worldVars, evq, heap, since, mpc, addr, spiVars>>

\* Mutant: the cached capacity is not reset.
Connected_cached(t) ==
  /\ Handler(t, "probe", "none")
  /\ bus' = Closed(bus, "probe")
  /\ pending' = hev[t].dev /\ retries' = RETRY_COUNT
  /\ handle' = NoDev
  /\ Finish(t)
  /\ UNCHANGED <<worldVars, evq, heap, cap, since, mpc, addr, spiVars>>

\* ... closes it, and MSC_DEVICE_CONNECTED is handled.
Connected(t) ==
  /\ Handler(t, "probe", "none")
  /\ bus' = Closed(bus, "probe")
  /\ pending' = hev[t].dev
  /\ retries' = RETRY_COUNT
  /\ handle' = NoDev
  /\ cap' = NoDev
  /\ Finish(t)
  /\ UNCHANGED <<worldVars, evq, heap, since, mpc, addr, spiVars>>

\* Mutant: the device is not looked up.
TakeDevGone_any(t) ==
  /\ evq # << >> /\ Head(evq).kind = "gone"
  /\ Handler(t, "none", "close")
  /\ evq' = Tail(evq)
  /\ hev' = [hev EXCEPT ![t] = Head(evq)]
  /\ UNCHANGED <<worldVars, bus, heap, driverVars, since, mpc, addr, spiVars>>

\* DEV_GONE: only for a device find_msc_device knows.
TakeDevGone(t) ==
  LET known == heap[Head(evq).dev] = "live"
  IN  /\ evq # << >> /\ Head(evq).kind = "gone"
      /\ Handler(t, "none", IF known THEN "close" ELSE "none")
      /\ evq' = Tail(evq)
      /\ hev' = IF known THEN [hev EXCEPT ![t] = Head(evq)] ELSE hev
      /\ UNCHANGED <<worldVars, bus, heap, driverVars, since, mpc, addr, spiVars>>

\* MSC_DEVICE_DISCONNECTED: close_device frees the object the driver's handle
\* names (msc_deinit_device) ...
CloseDevice(t) ==
  /\ Handler(t, "close", "null")
  /\ \/ /\ handle = NoDev
        /\ UNCHANGED <<bus, heap>>
     \/ /\ handle # NoDev
        /\ heap' = [heap EXCEPT ![handle] = IF @ = "live" THEN "freed" ELSE "twice"]
        /\ bus' = IF bus.id = handle THEN Closed(bus, "dev") ELSE bus
     \/ /\ ReleaseFails /\ spc = "scsi" /\ handle # NoDev /\ heap[handle] = "live"
        /\ heap' = [heap EXCEPT ![handle] = "leaked"]
        /\ bus' = bus
  /\ UNCHANGED <<worldVars, evq, driverVars, since, mpc, addr, hev, spiVars>>

\* Mutant: the handle is not cleared.
ClearHandle_kept(t) ==
  /\ Handler(t, "null", "reset")
  /\ UNCHANGED <<worldVars, bus, evq, heap, driverVars, since, mpc, addr, hev, spiVars>>

\* ... and only then is the handle cleared ...
ClearHandle(t) ==
  /\ Handler(t, "null", "reset")
  /\ handle' = NoDev
  /\ UNCHANGED <<worldVars, bus, evq, heap, pending, retries, cap, since, mpc, addr, hev, spiVars>>

\* ... and the rest of the driver's state reset.
Disconnected(t) ==
  /\ Handler(t, "reset", "none")
  /\ pending' = NoDev /\ retries' = 0 /\ cap' = NoDev
  /\ Finish(t)
  /\ UNCHANGED <<worldVars, bus, evq, heap, handle, since, mpc, addr, spiVars>>

HandleEvent(t) ==
  \/ TakeNewDev(t) \/ Connected(t)
  \/ TakeDevGone(t) \/ CloseDevice(t) \/ ClearHandle(t) \/ Disconnected(t)

-----------------------------------------------------------------------------
(* The SPI task: any bd_ call checks the handle and issues a SCSI command.  *)

ScsiBegin ==
  /\ spc = "idle" /\ handle # NoDev
  /\ spc' = "scsi" /\ sdev' = handle
  /\ UNCHANGED <<worldVars, bus, evq, heap, driverVars, since, mpc, addr, handlerVars>>

\* It ends, without or with a capacity in bd_refresh_capacity's locals ...
ScsiEnd ==
  /\ spc = "scsi"
  /\ \/ spc' = "idle" /\ sdev' = NoDev
     \/ heap[sdev] = "live" /\ bus.id = sdev /\ bus.alive /\ spc' = "store" /\ sdev' = sdev
  /\ UNCHANGED <<worldVars, bus, evq, heap, driverVars, since, mpc, addr, handlerVars>>

\* ... which are then cached, whatever has become of the device meanwhile.
CapacityStore ==
  /\ spc = "store"
  /\ spc' = "idle" /\ sdev' = NoDev
  /\ cap' = sdev
  /\ UNCHANGED <<worldVars, bus, evq, heap, pending, retries, handle, since, mpc, addr, handlerVars>>

-----------------------------------------------------------------------------
MainStep ==
  \/ PollLib \/ PollMscDone
  \/ OpenSkip \/ OpenBegin \/ OpenOk \/ OpenInvalidState \/ OpenFatal \/ OpenRefresh
  \/ Watch \/ PowerOff \/ PowerOn

UsbNext ==
  \/ MainStep
  \/ \E t \in Tasks : HandleEvent(t)
  \/ ScsiBegin \/ ScsiEnd \/ CapacityStore
  \/ Plug \/ Unplug \/ TwoSeconds

UsbSpec == UsbInit /\ [][UsbNext]_vars

\* Both tasks keep running, time passes, a SCSI command ends (it has a timeout),
\* and a drive that is asked to start again and again starts at some point.
UsbLiveSpec ==
  /\ UsbSpec
  /\ WF_vars(MainStep)
  /\ WF_vars(HandleEvent("bg"))
  /\ WF_vars(HandleEvent("main") /\ hpc["main"] # "none")
  /\ WF_vars(ScsiEnd \/ CapacityStore) /\ WF_vars(TwoSeconds)
  /\ SF_vars(OpenOk)

-----------------------------------------------------------------------------
(* Properties.                                                              *)

MaybeId == Ids \cup {NoDev}

\* Type invariant. A disconnection handled during an installation that answers
\* INVALID_STATE leaves -1 attempts.
UsbTypeOK ==
  /\ plugged \in BOOLEAN /\ powered \in BOOLEAN
  /\ bus \in [id : MaybeId, gone : BOOLEAN, alive : BOOLEAN, openers : SUBSET {"dev", "probe"}]
  /\ \A i \in DOMAIN evq : evq[i] \in [kind : {"new", "gone"}, dev : Ids]
  /\ heap \in [Ids -> {"none", "live", "freed", "leaked", "twice"}]
  /\ pending \in MaybeId /\ handle \in MaybeId /\ cap \in MaybeId /\ addr \in MaybeId
  /\ retries \in -1..RETRY_COUNT
  /\ since \in {"none", "young", "old"}
  /\ mpc \in {"lib", "msc", "open", "install", "refresh", "watch", "power"}
  /\ hpc \in [Tasks -> {"none", "probe", "close", "null", "reset"}]
  /\ hev \in [Tasks -> [kind : {"none", "new", "gone"}, dev : MaybeId]]
  /\ spc \in {"idle", "scsi", "store"} /\ sdev \in MaybeId

\* No device object is freed twice, and the driver's handle names a freed object
\* only while close_device stands between msc_host_uninstall_device and its
\* assignment of null, whichever of the two tasks handles the events.
HandleDanglesOnlyInClose ==
  /\ \A d \in Ids : heap[d] # "twice"
  /\ handle # NoDev /\ heap[handle] # "live" => \E t \in Tasks : hpc[t] = "null"

\* The DISCONNECTED handler ignores the device its event names and closes
\* whatever handle the driver holds: it is always the device that has gone.
ClosesTheGoneDevice ==
  \A t \in Tasks : hpc[t] = "close" /\ handle # NoDev => handle = hev[t].dev

\* power_cycle_usb never takes the power from an installed device, or from a
\* SCSI command that could still succeed.
PowerCutsNothingInUse ==
  ~powered => /\ \A d \in Ids : heap[d] # "live"
              /\ spc = "scsi" => heap[sdev] # "live"

\* A device object that is not yet freed can still be reached, from the driver's
\* handle or from the installation under way: the CONNECTED handler, which
\* overwrites the handle without closing it, and the error paths leak nothing.
NoOrphan == \A d \in Ids : heap[d] = "live" => d \in {handle, addr}

\* The cached block_size and block_count are those of the drive the handle
\* names, although the SPI task may still store what it read from the last one.
CapacityIsOfHandle == handle # NoDev /\ cap # NoDev => cap = handle

\* The watchdog's promise: while a drive stays plugged in, a handle is published
\* again and again, whatever errors and lost events came before.
DriveComesUp == <>[]plugged => []<>(handle # NoDev)
=============================================================================
