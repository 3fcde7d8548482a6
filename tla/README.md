# Verification of bindkey-esp

TLA+ models of the bindkey-esp firmware (ESP32-S3: an SPI slave that gives a second microcontroller
block access to a USB drive), checked with TLC on small instances; every safety property the passing
runs check is also proved with TLAPS, for every value of the constants and under the conditions
section 4 names. Paths below are relative to the repository. `PROJECT.json` maps every definition to
the lines it models.

## 1. Inventory

The firmware has three tasks and one drive.

| Part | State | Operations | Talks to |
|---|---|---|---|
| SPI transport, `spi_link/transport.rs` | `resp_buf`, `block_buf`, DMA buffers, READY line | `run` (header, dispatch, response), `compute_chunk`, `arm_response*`, `send_response` | master over SPI; block device by direct call |
| SPI protocol, `spi_link/protocol.rs` | none | header validation, response header, CRC32, payload encoding | used by the transport |
| SPI task, `spi_link/task.rs` | task handle | runs `SpiLink::run` at priority 10 on core 1 | |
| Block device, `usb_mass_storage/block_device.rs` | `block_size`, `block_count`, reads `handle` | `bd_status`, `bd_refresh_capacity`, `bd_read_blocks`, `bd_write_blocks`, `bd_flush` | SCSI commands |
| USB driver, `usb_mass_storage/driver.rs` | `pending_addr`, `retries_left`, `handle`, `vfs`, `no_device_since` | `poll`, `handle_raw_event`, `try_open_and_mount`, `close_device` | host library, class driver, TPS |
| Callback, `usb_mass_storage/callback.rs` | `GLOBAL_MSC` | `msc_event_cb` | class driver -> driver |
| Class driver, `usb_host_msc/src/msc_host.c` | `s_msc_driver`, device list, device objects, `all_events_handled`, `end_client_event_handling`, event task | driver install/uninstall, device install/uninstall, descriptor parsing, `msc_host_handle_events`, `client_event_cb`, bulk transfers, reset recovery | host library; callback into the driver |
| SCSI, `usb_host_msc/src/msc_scsi_bot.c` | `cbw_tag` | BOT phases, SCSI commands | class driver |
| Power switch, `power_switch/tps.rs` | GPIO level | `power_cycle_usb` | the drive |
| FAT mount, `msc_host_vfs.c`, `diskio_usb.c` | `s_disks`, VFS handles | register, unregister, format, disk I/O | FatFs and VFS; compiled in, unused by the firmware (`DEBUG_VFS = 0`) |
| Boot, `main.rs` | the objects above | set-up, then `poll` every 5 ms | all |

What is shared without a lock: `UsbMassStorage` itself, reached through `GLOBAL_MSC` by the main
task (`poll`), by the class driver's background task (`handle_raw_event`) and by the SPI task
(`bd_*`). What is hard: the SPI exchange has no framing beyond "what the slave expects next", so a
lost frame shifts the phase; the drive comes and goes between any two steps; two tasks take client
events off one queue; two tasks use one transfer object; the class driver can be torn down while
its event task is inside it; recovery relies on the master's repetition on one side and on a
watchdog that cuts the drive's power on the other. `PROJECT.json` lists the hazards line by line.

What correctness means:

* SPI link: no acknowledged Write is lost or misplaced, no damaged or foreign frame is stored, an
  accepted answer is true, and a repeated request is eventually answered; in short, it implements a
  store of blocks that serves one request at a time;
* chunking: the places computed chunk by chunk add up to the transfer, as far as the u16 chunk index
  can number them;
* USB driver: device objects are neither freed twice nor orphaned nor used after close_device, the
  cached capacity belongs to the open drive, and a plugged-in drive eventually comes up;
* class driver: no step of the event task meets a freed driver, every failure gives back what was
  acquired or, in a teardown, reports what it could not, uninstalling does not wait for ever, and a
  device that goes away is reported;
* FAT mount: a registered path leads to the device registered there and to no other, and nothing
  stays registered that has no handle;
* SCSI transport: success is reported only for the command's own data and status, a recovery that
  succeeds has restored host and drive, and an error leaves them able to execute the next command.

## 2. Modules

| Module | Models |
|---|---|
| `SpiProtocol` | constant operators: headers, frames as the slave can tell them apart, `compute_chunk` with u32 arithmetic |
| `SpiLink` | the slave loop, one action per stage of an exchange, and the block device calls |
| `SpiSystem` | `SpiLink` composed with the (external) master; specifications, fairness, properties |
| `BlockStore` | abstract specification of what the link promises its master |
| `ChunkTransfer` | a multi-chunk transfer: one `compute_chunk` per chunk, no state in between |
| `UsbDriver` | hotplug: main task, background task, SPI task's use of the handle, watchdog, power switch |
| `BotTransport` | SCSI commands over bulk-only transport: phases, tags, stall and reset recovery |
| `SharedXfer` | two tasks with a command each on one device: one transfer, one semaphore, one tag counter |
| `MscHost` | life of the class driver, its devices and its event task, beside the application |
| `MscVfs` | `MscHost` composed with the FAT volumes and paths on its devices |
| `MCSpiSystem`, `MCChunk`, `MCUsb`, `MCBot`, `MCMsc` | instances for TLC |
| `SpiProtocolProofs`, `ChunkProofs`, `SpiSystemProofs`, `SpiRefinementProofs` | theorems about the SPI link |
| `UsbDriverProofs`, `BotProofs`, `MscHostProofs`, `MscVfsProofs` | theorems about hotplug, SCSI transport, class driver and volumes |

Operators whose comment begins with "Mutant" are faulty variants of the definition that follows
them. They are used by no specification; each is substituted for its original to show that a
property notices the fault.

**SpiLink.** `pc` follows `run`: `hdr_arm`/`hdr_wait` (line 343), `bd_read`, `pay_arm`/`pay_wait`
(490), `bd_write`, `respond`/`rsp_arm`/`rsp_wait` (`send_response`). `spi_slave_transmit` is two
steps: the slave arms the transfer (`queued`), the master's clock ends it. READY changes where the
code changes it, which is *before* the transfer is armed. A frame is kept as what the slave can
distinguish: a valid header, data of some length whose CRC does or does not match, anything else.
`usb` is the driver as the SPI task sees it; attach and detach happen between any two steps. A
`None` from `get_global_mass_storage` answers as a null handle does and is not separate. A failed
header transfer returns to the state it started from. A SCSI write that fails may have stored any
prefix. The block count is what `scsi_cmd_read_capacity` stores: the last LBA.

**The master** (bindkey-tinyesp) is not in this repository. It is modelled from what the slave
needs: a header without handshake, payload and response on READY, acceptance by command, `seq` and
chunk index, repetition of the whole request otherwise. `GiveUp` lets it drop a request and go on. A
response may be damaged on its way, which it notices and answers with a repetition. `Nominal` adds
the timing that it reacts to READY later than the slave arms, and times out later than the slave
needs. `shadow` is a history variable: the contents each block may have, given what the master was
told.

**BlockStore.** The store keeps the blocks, the request being served and the answer offered. Serving
a Write touches some of its blocks and no others; an answer may be offered only if it is true of the
store at that moment; an offered answer is taken, which ends the request, or lost. `SpiSystem`
implements it (`ImplementsBlockStore`): `disk` is the store, the master's request (while it is not
idle) the call, and the staged response the offer while it is armed (`queued` in `rsp_wait`).
Headers, payloads, READY, chunks and repetitions are stutters. That the mapping holds says that a
response the slave has armed cannot become false before the master takes it, and that no stage of
an exchange touches the drive outside the request it serves.

**ChunkTransfer.** A master asks for chunks 0, 1, 2, ... of one transfer until it is refused one. The
index is the u16 of the header (`U16`), so behind chunk 65535 comes chunk 0 again. `Indexable` is the
longest transfer whose chunks, and the one asked for after them, all have an index of their own:
65535 * 8192 bytes, 8 KiB short of 512 MiB. A longer one is legal for `compute_chunk`, whose own limit
is 2^32 bytes, but cannot be completed: its first blocks are moved again. The properties say what
holds up to that length, and that even beyond it nothing outside the transfer is touched.

**UsbDriver.** Each enumeration of the drive gets an identity, which stands for the USB address,
the device object and the capacity read. `mpc` follows `poll`, `hpc` the event handlers, whose
DISCONNECTED path has three steps because `close_device` frees the object before it clears the
handle. The host library is external: events are posted only by the daemon, which only main runs;
a device that is gone is forgotten once nobody has it open; only then is the port enumerated
again. `Prompt` says whether the tasks' priorities are relied on (background 5 above main 1 on core
0, SPI 10 on core 1). `MayExhaust` allows INVALID_STATE on every attempt, `ReleaseFails` a failing
interface release under a running command.

**BotTransport.** One task issues commands. A call of `bot_execute_command` (with the `scsi_cmd_`
function around it) or of `msc_host_reset_recovery` is a frame of `stack`, because recovery polls
the drive with commands that may recover in turn, and a failed command asks for sense data; `pc`
names the phase. `read10` stands for all commands with data IN, `unit_ready` for those without
data. `halted` holds the host's pipes that refuse transfers after a stall or an error; a timeout
leaves the pipe clear (`wait_for_transfer_done` halts, flushes and clears it), and the transfer may
have been carried out all the same. The drive and the host library are external: the drive queues
what it has to send on its IN endpoint, so what an abandoned command left is found by the next; it
keeps stalls through a mass storage reset; it takes no data without a command, and a command only
once almost everything has been fetched. On a pipe without a stall `clear_feature` may fail, as the
comments in `msc_host.c` say, or succeed. Each deviation from the nominal answer is a counted
fault: failed status, stalled status (once or twice), stalled data, timeout, transfer error,
failed control transfer. Sizes appear only where data nobody asked for exceed the buffer. With
`Recovers` the task also calls `msc_host_reset_recovery` between commands, as the class driver's
tests do; the firmware itself does not.

**SharedXfer.** `driver.rs` publishes the handle before `bd_refresh_capacity`, so main's READ
CAPACITY and a command of the SPI task may run at the same time on two cores. Each task goes through
load and store of `cbw_tag`, then, per phase, filling in the transfer, submitting it, and waiting.
The library completes the one transfer; whoever gets the semaphore copies the buffer. A task that
waits for a transfer that is not in flight ends in the second, endless wait of
`wait_for_transfer_done`. The drive is faultless and answers one command at a time.

**MscHost.** The application (`app`) makes one call at a time; a call that acquires several things
takes a step for each, and may fail before each of them. A device object records which of the stages
of `msc_host_install_device` it has passed; it is in the list from the first. `usb_host_device_open`
is two steps, because the library has the device open before the handle is in the object. The event
handler (`hpc`) is `event_handler_task` or a task of the application that calls
`msc_host_handle_events`: NULL check (`enter`), `event_handling_started` (`mark`), the blocking call
(`wait`), the events (`serve`, `probe` inside `is_mass_storage_device`, `callback` between the
unlock in `find_msc_device` and the callback), the check of `end_client_event_handling`. `prompt`
chooses, once, a handler that preempts the application (priority 5 in the firmware and in the tests)
or one that runs beside it. The library is external; `Descs` are descriptors as sequences of
interfaces and endpoints. Taken from the callers, not enforced by the code: one task makes the
calls; the driver is uninstalled when its handler has begun or there is none, and a device is
installed with a handler at work. `msc_host_uninstall_device` may stop, with an error, where the
interface, the device or the transfer cannot be given up (`DeinitStop`), as happens when a command
of another task is under way. The object is off the list by then and never freed, and the
application drops its handle, as `close_device` does (`driver.rs:248-253`). If the device is still
open when the driver is uninstalled, the deregistration of the client fails and `ESP_ERROR_CHECK`
restarts the chip (`HostUninstallAbort`). After a failed install the same errors are ignored by the
code; no other task knows the device then, so nothing of it is in use. `msc_host_install_device`
without a driver, whose fail path goes through a NULL pointer, is called by nobody and not modelled.
An address whose device was exchanged for one without mass storage before it is installed meets
`assert(ifc_desc)`: the chip restarts (`DeviceAssert`).

**MscVfs.** Registration and unregistration are one step each: only the application uses the
volumes, between its other calls. A registration that fails does so after none, one or two of its
stages (driver of the volume, path, mount), or in the format and mount after the first mount, and
`fail` takes back what the code's label takes back at that point. `s_disks` keeps the object of a
volume after the volume is given up, as the code does, so it may hold a pointer to a freed object
whose place is used again. The application registers a device and a path that are not registered,
and unregisters before it uninstalls the device, the order the class driver's README asks for.

## 3. Runs

| Run | Question | Result |
|---|---|---|
| `spi_persistent` | any timing, any loss or damage, failing transfers, drive coming and going, persistent master: `TypeOK`, `InStep`, `StoreIntegrity`, `AcksAreTrue`, `ImplementsBlockStore` | holds (1.3 M states) |
| `spi_live` | nominal timing, a master that may drop requests: `EveryRequestAnswered`, `AcksAreTrue` | holds (303 k states) |
| `spi_payload` | `StoresOwnPayload` with a master that drops requests | violated |
| `spi_capacity` | `CapacityIsBlockCount` | violated |
| `chunk` | `ChunksTile`, `ChunkFits`, `LegalTransferCompletes` over all 4-bit geometries and requests, with a chunk index that wraps | holds (135 k states) |
| `usb_safe` | free interleaving, every failure: `HandleDanglesOnlyInClose`, `ClosesTheGoneDevice` | holds (148 k states) |
| `usb_live` | priorities relied on: `NoOrphan`, `PowerCutsNothingInUse`, `CapacityIsOfHandle`, `DriveComesUp` | holds |
| `usb_retries` | `DriveComesUp` when all attempts may answer INVALID_STATE | violated |
| `bot` | up to three faults of any kind: `OkIsOwn`, `StatusFaultsLeaveSync`, `StatusFaultsPass`, `RecoveryRestores` | holds (682 k states) |
| `bot_stall` | `CommandsSucceedAgain` after one stalled data phase | violated |
| `msc` | class driver and volumes, failures at every step, teardowns that stop, devices coming and going, handler prompt or free-running: `DriverOutlivesHandler`, `DeregistersUnused`, `NothingLeftBehind`, `DisconnectedIsGone`, `ConfigIsOfInterface`, `UninstallIsAwaited`, `GoneIsReported`, `PathReachesDevice`, `VolumesAreHandles`, `PdrvIsAssigned` | holds (2.4 M states) |
| `shared` | `OkIsPaired` with main and the SPI task on one device | violated |

The violated ones are findings:

* `spi_payload`: nothing ties a payload to its request. Write A is dropped before its payload;
  header B is sent while the slave has not armed a transfer and is lost; B's payload then ends A's
  payload transfer and is written to A's blocks. The response carries A's `seq`, so the master does
  not accept it (`AcksAreTrue` holds with dropped requests too, in `spi_live`), but A's blocks have
  been overwritten.
* `spi_capacity`: READ CAPACITY yields the last LBA; it is cached and reported as the block count.
* `usb_retries`: after three INVALID_STATE answers the address stays pending without attempts, and
  the watchdog acts only when no address is pending.
* `bot_stall`: a stalled data phase returns at once. The IN pipe stays halted, every later transfer
  on it is refused, which is not a STALL, so the recovery behind the status phase is never reached,
  whatever the drive does; and the watchdog does not act while there is a handle.
* `shared`: nothing pairs a buffer with the task that waits for it. In the trace main's semaphore is
  taken, and its READ CAPACITY returns ESP_OK, with the SPI task's CBW in the buffer it copies.

`SPI_XFER_TIMEOUT_TICKS` is `u32::MAX`, i.e. wait for ever: the slave is resynchronised by the next
frame only, and no transition of the model stands for the timeout.

`UsbDriver` also shows why the priorities matter: without `Prompt`, a DISCONNECTED handler that is
overtaken by the next CONNECTED resets the state of the new drive, and `NoOrphan` fails. In
`MscHost`, `DisconnectedIsGone` is stated for a prompt handler for the same reason: a handler
running beside the application may find an object, unlock, and name it in the callback after the
application has freed it and made a new one in its place. The other properties hold for both;
`GoneIsReported` does although a "gone" event that comes before the handle is in the object is
missed, because such an install fails when it waits for the drive to be ready.

**Bounds.** A frame carries two blocks of one byte, the drive has four, requests are a two-chunk
Write, an overlapping Write, one past the end, Reads of both chunks and past the end, and every
other command: frames full and partly full, overlap, refusal and success all occur. `SeqMod` is
the modulus of the sequence number; 2 is enough for a persistent master, 3 keeps a dropped
request apart from its successor. `MGiveUp` is bounded by `mseq + 1 < SeqMod`, so that dropped
requests never wrap the (16-bit) number onto a response still waiting. `U32` is 64 or 16 and
`U16` 3, so that both wraps are within reach of the chunk run.
Three identities suffice for the drive: one on the bus, one in a handler, one left behind in the
SPI task or leaked; TLC would report a deadlock or a liveness failure if they ran out.
`MaxFaults` is 3 and `MaxTrials` 1 (50 in the code) in `bot`: a status that stalls twice, then two
failed polls use up the trials of its recovery. `TagMod` is 8 (2^32), so tags
wrap while something stale is still queued behind a halted pipe. In `msc` a device is plugged in
three times (`MaxPlugs`), so every address, object, volume and path can be reused while an earlier
use of another is unfinished; `MaxEvents` is the code's 10, which three plugs cannot fill.

**Fairness.** `SlaveFairSpec`: the SPI task runs at the highest priority on its own core, so its
enabled steps are taken. `LiveSpec` adds that the master keeps working on its request and that
neither the wire nor the peripheral driver fails every time (strong fairness of an undamaged header,
of arming the payload transfer, of arming the response and of accepting an undamaged one).
`UsbLiveSpec`: both tasks on core 0 run, time passes, SCSI commands end (transfers have a 5 s
timeout), and a drive asked again and again to start does start at some point (strong fairness of
`OpenOk`). `BotSpec`: weak fairness of the next step, since every transfer ends (5 s timeout) and
the SPI task goes on to issue commands; the number of faults is bounded, so the drive behaves from
some point on. `msc` checks invariants only: `UninstallIsAwaited` is the safety half of
"uninstalling returns", that whoever has to wake it is on its way.

## 4. Proofs

The constants' assumptions (`ProtocolConstants`, `DriveConstants`, `MasterConstants`,
`ChunkConstants`, `UsbConstants`, `BotConstants`, `HostConstants`, `VfsConstants`) say that sizes
are positive, requests end below 2^32, sets are what they should be; TLC evaluates them in the runs.
Each inductive invariant below also holds in TLC on the instance of its run (`TagInv` with a larger
`TagMod`, so that nothing wraps). The proofs have one lemma per action or group of actions that
disturbs the same conjuncts.

| Module | Theorems | Condition |
|---|---|---|
| `SpiSystemProofs` | `TypeOK`, `InStep`, `StoreIntegrity`, `AcksAreTrue` | master does not give up |
| `SpiRefinementProofs` | `ImplementsBlockStore` | master does not give up |
| `ChunkProofs` | `ChunkTypeOK`, `ChunksTile`, `ChunkFits`, `LegalTransferCompletes` | in the properties: the u16 index reaches |
| `UsbDriverProofs` | `UsbTypeOK`, `HandleDanglesOnlyInClose`, `ClosesTheGoneDevice` | |
| | `NoOrphan`, `CapacityIsOfHandle`, `PowerCutsNothingInUse` | `Prompt` |
| `BotProofs` | `BotTypeOK`, `StatusFaultsLeaveSync` | |
| | `OkIsOwn`, `RecoveryRestores` | until `cbw_tag` wraps around |
| `MscHostProofs` | `HostTypeOK`, `DriverOutlivesHandler`, `DeregistersUnused`, `UninstallIsAwaited`, `DisconnectedIsGone`, `NothingLeftBehind`, `ConfigIsOfInterface` | |
| | `GoneIsReported` | the event queue has room |
| `MscVfsProofs` | `VfsSpec => HostSpec`, `VfsTypeOK`, `PathReachesDevice`, `VolumesAreHandles`, `PdrvIsAssigned` | |

**SPI link.** For every drive (block size, last LBA), frame size, set of requests, data and sequence
modulus, and a master that does not give up (`~GiveUp`). `StoreIntegrity` is not inductive: to know
that a Write stores what the master meant, one must know that the request being served is the
master's current one, that the chunk computed from the header is the range of blocks the request
means, that a payload with a good CRC is that request's, and that a staged ESP_OK describes the
drive. These are the conjuncts of `InStep`; with `TypeOK` and `StoreIntegrity` they form `SysInv`,
which is inductive. `ChunkMeansOp` connects `compute_chunk`'s bytes with the request's blocks,
`StoreFacts` describes the drive after a (partial) write.

*Refinement.* Initial states map to initial states; for the steps, one lemma per kind of step of the
store: arming a response offers (`ArmOffers`, where `AnswerIsTrue` gives the truth of the answer),
`WriteBlocks` touches (`WriteTouches`, with `StoreFacts`), the master's begin, an unaccepted and an
accepted response begin, lose and take (`BeginBegins`, `ClockLoses`, `AcceptTakes`), everything else
is unseen. The mapping holds only in states of `SysInv`: that an offer is true, and that no response
is armed when a request begins, is what the inductive invariant says.

**Chunking.** For every geometry and request below 2^32, without any assumption that the request fits:
the chunk before the u32 wrap is refused, none is longer than the buffer, and none lies outside the
transfer or the drive. That the chunks tile the transfer, and complete a legal one, is stated as far
as the index reaches (`Indexable`): up to there the index equals the number of chunks served, which is
the inductive part, and beyond it the claim is false. The proofs rest on the
arithmetic of `SpiProtocolProofs` (a frame is a whole number of blocks; a chunk's byte offset is a
block offset; what a served and what a refused chunk imply).

**Hotplug.** For any set of devices, any number of attempts, and any interleaving of the tasks,
`UsbInv`: an event is queued or handled at most once, although two tasks take events off one queue
(`EventsOnce`); NEW_DEV comes before anything else that happens to a device; an object in use has its
device open, so the device is still on the bus and is the one the driver is about (`LiveIsOnBus`, the
heart of it: two objects cannot be in use because the bus has one device); an address to be opened
excludes a handle. So the DISCONNECTED handler, which closes whatever handle there is, can find no
other than its own. With `Prompt`, `PromptInv` adds that main goes on only when the event it posted
has been handled (`OneEvent`), that a capacity the SPI task is about to store is that of the drive at
hand (`StoreIsCurrent`), and that the power is off only without a device. `NoOrphan` is false without
`Prompt` (see section 3), so the condition is needed.

**SCSI transport.** For any number of faults, trials and nested calls. `BotInv`: the frames of `stack`
that are not innermost wait where they resume, and a call that has failed holds its error. `InStep`
says for every phase of every call what is on the drive's IN endpoint and which pipes are halted, as
long as only the status phase has failed: at most two stalls before the CSW, the IN pipe halted
exactly where `clear_feature` comes next. `StatusFaultsLeaveSync` is its value between calls. `TagInv`
holds whatever has failed: no tag on the IN endpoint is above that of the last command; a CSW with that
tag is the last item there and the drive has then taken the whole command; the data of a read come
before its CSW, so they are still there or have been received. When `check_csw` accepts, the CSW is
therefore the command's own and nothing is left behind it. A tag that wraps around could meet a CSW
2^32 commands old, and no invariant excludes that; `OkIsOwn` and `RecoveryRestores` are proved of
`UnwrappedSpec`, every behaviour until `cbw_tag` has reached its last value. Their
TLC run includes the wrap.

**Class driver.** For any numbers of addresses, objects, plugs and descriptors, and for both kinds
of handler. `HostInv`: what the driver holds at each point of the application's calls; the handler
runs only while the driver is there and nobody frees it; the semaphore is given only by a handler
that has left; each object has acquired a prefix of the stages of `msc_host_install_device` or is
giving it back, or is one whose teardown has stopped and keeps one of the three sets of `Stuck`
(`Left`: such an object is in no list, no call works on it, and it stays as it is); what the library
has open is what the objects and the probe hold, each by one of them (`OpenedIsHeld`); a device that
is open keeps its address, so its descriptor cannot change and the configuration read from it stays
true; with a prompt handler, a "gone" event concerns an object whose device is gone.
`NothingLeftBehind` and `DeregistersUnused` follow from the holdings: between calls an object is
complete, absent, or has exactly what its failed uninstall could not give up; and a device that is
open when the client is deregistered is one of the latter, so the abort there happens only after an
error the application was told of. `GoneIsReported` has a condition of its own, that the client's
event queue is never full: the library drops what does not fit, and the code has no second way to
learn of it. `ConfigIsOfInterface` speaks of descriptors in which a bulk-only interface is followed
by its two endpoints, one each way, or by fewer than two endpoints in all, which the code refuses
(`WellDescribed`): the parser takes the next two endpoints, in whatever interface they are, so of an
interface short of endpoints it accepts those of the interface behind.

**Volumes.** `VfsImplementsHost` shows that the file system layer leaves the class driver's specification
intact, so that its theorems carry over. `DiskInv`: two handles share neither device nor volume nor
path; no call of the class driver is at work on a device with a handle; a handle reaches its device
through path, volume and disk; and no volume *before* that of a handle still names its device
(`FirstDisk`). The last is what `ff_diskio_get_pdrv_disk` relies on, which takes the first match in
a table with stale entries; it holds because drives are given out from the first.

Only model-checked:

* the liveness properties `EveryRequestAnswered`, `DriveComesUp` and `StatusFaultsPass`: fairness and
  ENABLED are outside what the proof system handles;
* `AcksAreTrue` with a master that gives up (it needs a bound on dropped requests);
* `OkIsOwn` and `RecoveryRestores` across a wrap of the tag;
* the findings, which are counterexamples.

What recursive definitions compute (the CRC) cannot be proved either.

## 5. Not modelled

* Set-up without protocol state: the peripheral, DMA allocation, performance counters, logging, the
  error exits of `main`, LED and pins.
* The bits of CRC32: a frame's CRC matches or does not, collisions are left out.
* A damaged header that is still valid (the header has no checksum, so there is no defence to
  check), and data that begin like a header.
* A drive exchanged for another, of different capacity, under a Write: `SpiLink` has one drive that
  comes and goes; identities are in `UsbDriver`.
* What only copies out or prints: `msc_host_get_device_info`, `msc_host_print_descriptors`, the texts
  of sense codes; `msc_get_max_lun`, which has no caller; growing the transfer buffer.
* The contents of a file system, and so `msc_host_vfs_format`; a path or a device registered twice.
* Several tasks calling install and uninstall of the class driver at once: the comparisons of
  `s_msc_driver` under the lock are there for them, the firmware has one caller.
* The test application of the class driver, including the mass storage device it simulates
  (`test_app/main/msc_device.c`): it is not part of the firmware.

## 6. Plan

1. (done) `SpiProtocol`, `SpiLink`, `SpiSystem`, `ChunkTransfer`, their runs and proofs.
2. (done) `UsbDriver` and its runs.
3. (done) `BotTransport` for one task, `SharedXfer` for two.
4. (done) `BlockStore`, implemented by `SpiSystem`: checked, then proved.
5. (done) `MscHost` and `MscVfs`.
6. (done) Proofs about the class driver and the volumes, from invariants that follow the stages.
7. (done) Proofs about `UsbDriver`, `BotTransport` and the remaining invariants of `ChunkTransfer`.
8. `AcksAreTrue` for a master that gives up, from an invariant that counts the dropped requests.
9. The drive's identity composed with the SPI exchange; CRC32 as an algorithm checked against a
   reference.
