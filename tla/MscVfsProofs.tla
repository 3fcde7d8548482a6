---------------------------- MODULE MscVfsProofs ----------------------------
(***************************************************************************)
(* The FAT file system on the class driver, for any number of devices,     *)
(* volumes and paths: it leaves the class driver's specification intact,   *)
(* and a registered path leads to the device registered there.             *)
(***************************************************************************)
EXTENDS MscVfs, MscHostProofs

-----------------------------------------------------------------------------
(* The inductive invariant of the volumes.                                  *)

Handles == [dev : Objs, pdrv : Vols, base_path : Paths]

\* What VfsTypeOK leaves open: the functions and the handles.
DiskTyped ==
  /\ s_disks \in [Vols -> Objs \cup {NoObj}] /\ ctx \in [Paths -> Vols \cup {NoVol}]
  /\ impl \in SUBSET Vols /\ mounted \in SUBSET Vols /\ vfs \in SUBSET Handles

\* Two handles share neither device nor volume nor path.
HandlesApart ==
  \A g, h \in vfs :
    g.dev = h.dev \/ g.pdrv = h.pdrv \/ g.base_path = h.base_path => g = h

\* No call of the class driver is at work on a device with a file system.
HandlesInPlace == \A h \in vfs : InPlace(h.dev)

\* A handle leads to its volume and its device.
HandleReaches ==
  \A h \in vfs :
    /\ ctx[h.base_path] = h.pdrv /\ h.pdrv \in impl /\ h.pdrv \in mounted
    /\ s_disks[h.pdrv] = h.dev

\* No volume before that of a handle still names its device.
FirstDisk == \A h \in vfs, v \in Vols : v < h.pdrv => s_disks[v] # h.dev

DiskInv ==
  /\ DiskTyped /\ HandlesApart /\ HandlesInPlace /\ HandleReaches /\ VolumesAreHandles /\ FirstDisk

-----------------------------------------------------------------------------
(* The file system leaves the class driver alone.                           *)

\* The steps of the class driver that a run with file systems may take.
HostStep ==
  \/ AppStep \/ HandlerStep \/ Bus
  \/ HostInstall \/ StartPoller \/ HostUninstall
  \/ \E o \in Objs, a \in Addrs : InstallDevice(a, o)
  \/ \E o \in Objs : ~InUse(o) /\ UninstallDevice(o)

\* The calls of msc_host_vfs.c.
DiskStep ==
  \/ \E o \in Objs, p \in Paths : VfsRegister(o, p) \/ \E k \in 0..3 : VfsRegisterFail(o, p, k)
  \/ \E h \in vfs : VfsUnregister(h)

\* Every step is one of either, or a restart.
LEMMA VfsSteps ==
  ASSUME [VfsNext]_vars
  PROVE  \/ HostStep /\ UNCHANGED diskVars
         \/ VfsRestart
         \/ DiskStep /\ UNCHANGED hostVars
         \/ UNCHANGED <<hostVars, diskVars>>
BY DEF VfsNext, HostStep, DiskStep, VfsRegister, VfsRegisterFail, VfsMay, VfsUnregister, VfsCall, vars

\* The class driver under the file system behaves as it does alone: the theorems
\* of HostSpec hold of it.
THEOREM VfsImplementsHost == VfsSpec => HostSpec
<1>1. VfsInit => HostInit
  BY DEF VfsInit
<1>2. [VfsNext]_vars => [HostNext]_hostVars
  <2> SUFFICES ASSUME [VfsNext]_vars PROVE HostNext \/ UNCHANGED hostVars
    OBVIOUS
  <2>1. HostStep => HostNext
    BY DEF HostStep, HostNext
  <2>2. VfsRestart => HostNext
    BY DEF VfsRestart, HostNext
  <2> QED BY <2>1, <2>2, VfsSteps
<1> QED BY <1>1, <1>2, PTL DEF VfsSpec, HostSpec

-----------------------------------------------------------------------------
(* The volumes.                                                             *)

\* A device in place stays there unless it is the one that is uninstalled.
LEMMA InPlaceKept ==
  ASSUME HostInv, HostStep, NEW q \in Objs, InUse(q), InPlace(q)
  PROVE  InPlace(q)'
<1>1. HostTyped /\ Control /\ Holdings /\ dev \in [Objs -> Devices]
  BY DEF HostInv, HostTyped, DevTyped
<1>2. Complete(q) /\ app.obj # q /\ dev[q] # NoDev
  BY CompleteExists DEF InPlace
<1>3. CASE AppDriver
  BY <1>1, <1>2, <1>3, NoObjects
<1>4. CASE HandlerStep \/ Bus
  <2>1. dev' = dev /\ app' = app
    BY <1>4 DEF HandlerStep, HandlerEnter, HandlerMark, HandlerWake, HandlerNew, HandlerProbe,
                HandlerGone, HandlerCallback, HandlerServed, HandlerCheck, Bus, Plug, Unplug
  <2> QED BY <1>2, <2>1 DEF InPlace, Complete
<1>5. ASSUME NEW o \in Objs, NEW a \in Addrs, InstallDevice(a, o)
      PROVE  InPlace(q)'
  <2>1. o # q
    BY <1>2, <1>5 DEF InstallDevice
  <2>2. dev'[q] = dev[q] /\ app'.obj = o
    BY <1>1, <1>5, <2>1 DEF InstallDevice, AtObj
  <2> QED BY <1>2, <2>1, <2>2 DEF InPlace, Complete
<1>6. ASSUME NEW o \in Objs, ~InUse(o), UninstallDevice(o)
      PROVE  InPlace(q)'
  BY <1>2, <1>6 DEF UninstallDevice, AtObj, InPlace, Complete
<1>7. CASE DeviceStep
  <2>1. PICK o \in Objs, a \in Addrs, h \in Stages, r \in Resources : Acquires(o, a, h, r)
    BY <1>1, <1>7, DeviceStepFacts
  <2>2. dev'[q] = dev[q] /\ app' = app
    BY <1>1, <1>2, <1>7, <2>1 DEF Acquires, DeviceStep
  <2> QED BY <1>2, <2>2 DEF InPlace, Complete
<1>8. CASE DeviceDone \/ DeviceFail \/ DeinitRemove \/ DeinitRelease
  <2>1. dev'[q] = dev[q]
    BY <1>1, <1>2, <1>8 DEF DeviceDone, DeviceFail, DeinitRemove, DeinitRelease
  <2>2. app'.obj # q
    BY <1>2, <1>8, Bounds DEF DeviceDone, DeviceFail, DeinitRemove, DeinitRelease, AtObj, Idle
  <2> QED BY <1>2, <2>1, <2>2 DEF InPlace, Complete
<1>9. ASSUME NEW r \in DOMAIN Stuck, DeinitStop(r)
      PROVE  InPlace(q)'
  <2>1. dev'[q] = dev[q] /\ app'.obj # q
    BY <1>1, <1>2, <1>9, Bounds DEF DeinitStop, Idle
  <2> QED BY <1>2, <2>1 DEF InPlace, Complete
<1> QED BY <1>3, <1>4, <1>5, <1>6, <1>7, <1>8, <1>9 DEF HostStep, AppStep, AppDriver

\* The class driver does not touch the volumes.
LEMMA DiskHostStep ==
  ASSUME HostInv, DiskInv, HostStep, UNCHANGED diskVars
  PROVE  DiskInv'
<1>1. UNCHANGED <<s_disks, impl, ctx, mounted, vfs>>
  BY DEF diskVars
<1>2. HandlesInPlace'
  <2>1. ASSUME NEW h \in vfs
        PROVE  InPlace(h.dev)'
    <3>1. PICK q \in Objs : q = h.dev
      BY DEF DiskInv, DiskTyped, Handles
    <3>2. InUse(q) /\ InPlace(q)
      BY <3>1 DEF InUse, DiskInv, HandlesInPlace
    <3>3. InPlace(q)'
      BY <3>2, InPlaceKept
    <3> QED BY <3>1, <3>3
  <2> QED BY <1>1, <2>1 DEF HandlesInPlace
<1> QED BY <1>1, <1>2 DEF DiskInv, DiskTyped, HandlesApart, HandleReaches, VolumesAreHandles, FirstDisk

\* No volume is NoVol.
LEMMA VolsAreNumbers == \A v \in Vols : v \in Nat /\ v # NoVol
BY VfsConstants DEF NoVol

\* ff_diskio_get_drive finds the first volume that is free.
LEMMA GetDrive ==
  ASSUME FreeVols # {}
  PROVE  /\ get_drive \in Vols /\ get_drive \notin impl
         /\ \A v \in Vols : v < get_drive => v \in impl
<1>1. FreeVols \in SUBSET Nat
  BY VolsAreNumbers DEF FreeVols
<1>2. Min(FreeVols) \in FreeVols /\ \A v \in FreeVols : Min(FreeVols) <= v
  BY <1>1, MinIsLeast
<1> QED BY <1>2, VolsAreNumbers DEF get_drive, FreeVols

\* msc_host_vfs_register gives a device a volume and a path of its own.
LEMMA DiskRegister ==
  ASSUME HostInv, DiskInv, NEW o \in Objs, NEW p \in Paths, VfsRegister(o, p)
  PROVE  DiskInv'
<1>1. PICK v \in Vols : v = get_drive /\ v \notin impl /\ \A u \in Vols : u < v => u \in impl
  BY GetDrive DEF VfsRegister
<1>2. /\ Complete(o) /\ ~InUse(o) /\ ctx[p] = NoVol /\ app.pc = "idle" /\ UNCHANGED hostVars
      /\ s_disks' = [s_disks EXCEPT ![v] = o] /\ impl' = impl \cup {v}
      /\ ctx' = [ctx EXCEPT ![p] = v] /\ mounted' = mounted \cup {v}
      /\ vfs' = vfs \cup {Handle(o, v, p)}
  BY <1>1 DEF VfsRegister, VfsMay, VfsBecomes, Registered, VfsCall, Runs, register_msc
<1>3. DiskTyped /\ HandlesApart /\ HandlesInPlace /\ HandleReaches /\ VolumesAreHandles /\ FirstDisk
  BY DEF DiskInv
<1>4. dev' = dev /\ app' = app
  BY <1>2 DEF hostVars
<1>5. PICK n \in Handles : n = Handle(o, v, p)
  BY DEF Handles, Handle
<1>6. n.dev = o /\ n.pdrv = v /\ n.base_path = p /\ vfs' = vfs \cup {n}
  BY <1>2, <1>5 DEF Handle
<1>7. \A h \in vfs : h \in Handles /\ h.dev \in Objs /\ h.pdrv \in Vols /\ h.base_path \in Paths
  BY <1>3 DEF DiskTyped, Handles
<1>8. \A h \in vfs : h.dev # o /\ h.pdrv # v /\ h.base_path # p
  BY <1>1, <1>2, <1>3, <1>7, VolsAreNumbers DEF InUse, HandleReaches
<1>9. DiskTyped'
  BY <1>2, <1>3, <1>6, <1>7 DEF DiskTyped
<1>10. HandlesApart'
  BY <1>3, <1>6, <1>8 DEF HandlesApart
<1>11. HandlesInPlace'
  <2>1. app.obj # o
    BY <1>2, BetweenCalls DEF HostInv, DevPcs
  <2> QED BY <1>2, <1>3, <1>4, <1>6, <2>1 DEF HandlesInPlace, InPlace, Complete
<1>12. HandleReaches'
  BY <1>2, <1>3, <1>6, <1>7, <1>8 DEF HandleReaches, DiskTyped
<1>13. VolumesAreHandles'
  <2>1. impl' = {h.pdrv : h \in vfs'} /\ mounted' = impl'
    BY <1>2, <1>3, <1>6 DEF VolumesAreHandles
  <2>2. \A q \in Paths : ctx'[q] # NoVol <=> ctx[q] # NoVol \/ q = p
    BY <1>2, <1>3, VolsAreNumbers DEF DiskTyped
  <2>3. {q \in Paths : ctx'[q] # NoVol} = {h.base_path : h \in vfs'}
    BY <1>3, <1>6, <2>2 DEF VolumesAreHandles
  <2> QED BY <2>1, <2>3 DEF VolumesAreHandles
<1>14. FirstDisk'
  <2>1. ASSUME NEW h \in vfs, NEW u \in Vols, u < h.pdrv
        PROVE  s_disks'[u] # h.dev
    BY <1>2, <1>3, <1>8, <2>1 DEF FirstDisk, DiskTyped
  <2>2. ASSUME NEW u \in Vols, u < v
        PROVE  s_disks'[u] # o
    <3>1. u \in impl /\ u # v
      BY <1>1, <2>2, VolsAreNumbers
    <3>2. PICK h \in vfs : h.pdrv = u
      BY <1>3, <3>1 DEF VolumesAreHandles
    <3> QED BY <1>2, <1>3, <1>8, <3>1, <3>2 DEF HandleReaches, DiskTyped
  <2> QED BY <1>6, <2>1, <2>2 DEF FirstDisk
<1> QED BY <1>9, <1>10, <1>11, <1>12, <1>13, <1>14 DEF DiskInv

\* Wherever a registration fails, it leaves at most a disk without a driver: what
\* the stages before have registered is taken back.
LEMMA DiskRegisterFail ==
  ASSUME HostInv, DiskInv, NEW o \in Objs, NEW p \in Paths, NEW k \in 0..3, VfsRegisterFail(o, p, k)
  PROVE  DiskInv'
<1>1. DiskTyped /\ HandlesApart /\ HandlesInPlace /\ HandleReaches /\ VolumesAreHandles /\ FirstDisk
  BY DEF DiskInv
<1> DEFINE v == get_drive
<1>2. ~InUse(o) /\ ctx[p] = NoVol /\ vfs' = vfs /\ dev' = dev /\ app' = app
  BY DEF VfsRegisterFail, VfsMay, VfsCall, hostVars
<1>3. k > 0 => v \in Vols /\ v \notin impl /\ v \notin mounted
  <2>1. mounted = impl
    BY <1>1 DEF VolumesAreHandles
  <2> QED BY <2>1, GetDrive DEF VfsRegisterFail
<1>4. /\ s_disks' = IF k >= 1 THEN [s_disks EXCEPT ![v] = o] ELSE s_disks
      /\ impl' = IF k >= 1 THEN (impl \cup {v}) \ {v} ELSE impl
      /\ mounted' = IF k >= 3 THEN (mounted \cup {v}) \ {v}
                    ELSE IF k = 2 THEN mounted \ {v} ELSE mounted
      /\ ctx' = IF k >= 2 THEN [[ctx EXCEPT ![p] = v] EXCEPT ![p] = NoVol]
                ELSE [ctx EXCEPT ![p] = NoVol]
  <2> DEFINE r == Registered(o, p, k)
             f == fail(r, p, k)
  <2>1. r = [s_disks |-> IF k >= 1 THEN register_msc(v, o) ELSE s_disks,
             impl    |-> IF k >= 1 THEN impl \cup {v} ELSE impl,
             ctx     |-> IF k >= 2 THEN [ctx EXCEPT ![p] = v] ELSE ctx,
             mounted |-> IF k >= 3 THEN mounted \cup {v} ELSE mounted]
    BY DEF Registered
  <2>2. f = [r EXCEPT !.impl = IF k >= 1 THEN r.impl \ {v} ELSE r.impl,
                      !.mounted = IF k >= 2 THEN r.mounted \ {v} ELSE r.mounted,
                      !.ctx = [r.ctx EXCEPT ![p] = NoVol]]
    BY <2>1 DEF fail
  <2>3. s_disks' = f.s_disks /\ impl' = f.impl /\ ctx' = f.ctx /\ mounted' = f.mounted
    BY DEF VfsRegisterFail, VfsBecomes
  <2> HIDE DEF r, f, v
  <2>4. /\ r.s_disks = IF k >= 1 THEN [s_disks EXCEPT ![v] = o] ELSE s_disks
        /\ r.impl = IF k >= 1 THEN impl \cup {v} ELSE impl
        /\ r.ctx = IF k >= 2 THEN [ctx EXCEPT ![p] = v] ELSE ctx
        /\ r.mounted = IF k >= 3 THEN mounted \cup {v} ELSE mounted
    BY <2>1 DEF register_msc
  <2>5. /\ f.s_disks = r.s_disks
        /\ f.impl = IF k >= 1 THEN r.impl \ {v} ELSE r.impl
        /\ f.mounted = IF k >= 2 THEN r.mounted \ {v} ELSE r.mounted
        /\ f.ctx = [r.ctx EXCEPT ![p] = NoVol]
    BY <2>1, <2>2
  <2>6. k \in {0, 1, 2, 3}
    OBVIOUS
  <2>7. s_disks' = (IF k >= 1 THEN [s_disks EXCEPT ![v] = o] ELSE s_disks)
    BY <2>3, <2>4, <2>5
  <2>8. impl' = IF k >= 1 THEN (impl \cup {v}) \ {v} ELSE impl
    BY <2>3, <2>4, <2>5
  <2>9. mounted' = IF k >= 3 THEN (mounted \cup {v}) \ {v}
                   ELSE IF k = 2 THEN mounted \ {v} ELSE mounted
    <3>1. CASE k = 3
      BY <2>3, <2>4, <2>5, <3>1
    <3>2. CASE k = 2
      BY <2>3, <2>4, <2>5, <3>2
    <3>3. CASE k \in {0, 1}
      BY <2>3, <2>4, <2>5, <3>3
    <3> QED BY <2>6, <3>1, <3>2, <3>3
  <2>10. ctx' = IF k >= 2 THEN [[ctx EXCEPT ![p] = v] EXCEPT ![p] = NoVol]
                ELSE [ctx EXCEPT ![p] = NoVol]
    BY <2>3, <2>4, <2>5
  <2> QED BY <2>7, <2>8, <2>9, <2>10
<1> HIDE DEF v
<1>5. ctx' = ctx
  <2>1. ctx \in [Paths -> Vols \cup {NoVol}]
    BY <1>1 DEF DiskTyped
  <2> QED BY <1>2, <1>4, <2>1
<1>6. /\ impl' = impl /\ mounted' = mounted
      /\ s_disks' = s_disks \/ \E u \in Vols : u \notin impl /\ s_disks' = [s_disks EXCEPT ![u] = o]
  BY <1>3, <1>4
<1>7. \A h \in vfs : h.dev # o /\ h.pdrv \in impl /\ h.pdrv \in Vols
  BY <1>1, <1>2 DEF InUse, HandleReaches, DiskTyped
<1>8. DiskTyped' /\ HandlesApart' /\ HandlesInPlace' /\ VolumesAreHandles'
  BY <1>1, <1>2, <1>5, <1>6
     DEF DiskTyped, HandlesApart, HandlesInPlace, InPlace, Complete, VolumesAreHandles
<1>9. HandleReaches'
  BY <1>1, <1>2, <1>5, <1>6, <1>7 DEF HandleReaches, DiskTyped
<1>10. FirstDisk'
  BY <1>1, <1>2, <1>6, <1>7 DEF FirstDisk, DiskTyped
<1> QED BY <1>8, <1>9, <1>10 DEF DiskInv

\* msc_host_vfs_unregister takes a handle, its volume and its path away.
LEMMA DiskUnregister ==
  ASSUME HostInv, DiskInv, NEW g \in vfs, VfsUnregister(g)
  PROVE  DiskInv'
<1>1. DiskTyped /\ HandlesApart /\ HandlesInPlace /\ HandleReaches /\ VolumesAreHandles /\ FirstDisk
  BY DEF DiskInv
<1>2. /\ mounted' = mounted \ {g.pdrv} /\ impl' = impl \ {g.pdrv}
      /\ ctx' = [ctx EXCEPT ![g.base_path] = NoVol]
      /\ vfs' = vfs \ {g} /\ s_disks' = s_disks /\ dev' = dev /\ app' = app
  BY DEF VfsUnregister, VfsCall, hostVars
<1>3. \A h \in vfs : h.dev \in Objs /\ h.pdrv \in Vols /\ h.base_path \in Paths
  BY <1>1 DEF DiskTyped, Handles
<1>4. \A h \in vfs : h # g => h.pdrv # g.pdrv /\ h.base_path # g.base_path
  BY <1>1 DEF HandlesApart
<1>5. DiskTyped'
  BY <1>1, <1>2 DEF DiskTyped
<1>6. HandlesApart' /\ HandlesInPlace' /\ FirstDisk'
  BY <1>1, <1>2 DEF HandlesApart, HandlesInPlace, InPlace, Complete, FirstDisk
<1>7. HandleReaches'
  BY <1>1, <1>2, <1>3, <1>4 DEF HandleReaches, DiskTyped
<1>8. VolumesAreHandles'
  <2>1. impl' = {h.pdrv : h \in vfs'} /\ mounted' = impl'
    BY <1>1, <1>2, <1>4 DEF VolumesAreHandles
  <2>2. \A q \in Paths : ctx'[q] # NoVol <=> ctx[q] # NoVol /\ q # g.base_path
    BY <1>1, <1>2, <1>3 DEF DiskTyped
  <2>3. {q \in Paths : ctx'[q] # NoVol} = {h.base_path : h \in vfs'}
    BY <1>1, <1>2, <1>4, <2>2 DEF VolumesAreHandles
  <2> QED BY <2>1, <2>3 DEF VolumesAreHandles
<1> QED BY <1>5, <1>6, <1>7, <1>8 DEF DiskInv

\* Without handles there are no volumes.
LEMMA DiskEmpty ==
  ASSUME VfsInit
  PROVE  DiskInv
BY DEF VfsInit, DiskInv, DiskTyped, HandlesApart, HandlesInPlace, HandleReaches, VolumesAreHandles, FirstDisk

\* So it is after a restart.
LEMMA DiskRestart ==
  ASSUME VfsRestart
  PROVE  DiskInv'
BY DEF VfsRestart, DiskInv, DiskTyped, HandlesApart, HandlesInPlace, HandleReaches, VolumesAreHandles, FirstDisk

\* Every step keeps the invariant of the volumes.
LEMMA DiskInvStep == HostInv /\ DiskInv /\ [VfsNext]_vars => DiskInv'
<1> SUFFICES ASSUME HostInv, DiskInv, [VfsNext]_vars PROVE DiskInv'
  OBVIOUS
<1>1. CASE HostStep /\ UNCHANGED diskVars
  BY <1>1, DiskHostStep
<1>2. CASE VfsRestart
  BY <1>2, DiskRestart
<1>3. CASE DiskStep
  BY <1>3, DiskRegister, DiskRegisterFail, DiskUnregister DEF DiskStep
<1>4. CASE UNCHANGED <<hostVars, diskVars>>
  BY <1>4 DEF hostVars, diskVars, DiskInv, DiskTyped, HandlesApart, HandlesInPlace, HandleReaches,
              VolumesAreHandles, FirstDisk, InPlace, Complete
<1> QED BY <1>1, <1>2, <1>3, <1>4, VfsSteps

\* The inductive invariant of class driver and volumes together.
THEOREM VfsInvariance == VfsSpec => [](HostInv /\ DiskInv)
<1>1. VfsInit => DiskInv
  BY DiskEmpty
<1>2. VfsSpec => []HostInv
  BY VfsImplementsHost, HostInvariance, PTL
<1> QED BY <1>1, <1>2, DiskInvStep, PTL DEF VfsSpec

\* The state of msc_host_vfs.c and diskio_usb.c keeps its types, and so does that
\* of the class driver under it.
THEOREM VfsTypeCorrect == VfsSpec => []VfsTypeOK
<1>1. HostTypeOK /\ DiskInv => VfsTypeOK
  BY DEF VfsTypeOK, DiskInv, DiskTyped, Handles
<1> QED BY <1>1, VfsInvariance, VfsImplementsHost, HostTypeCorrect, PTL

\* A file under a registered path is on the device that was registered there.
THEOREM PathTheorem == VfsSpec => []PathReachesDevice
<1>1. DiskInv => PathReachesDevice
  BY DEF PathReachesDevice, DiskInv, HandleReaches, HandlesInPlace, InPlace, usb_disk
<1> QED BY <1>1, VfsInvariance, PTL

\* Volumes, mounts and paths are those of the handles.
THEOREM VolumesTheorem == VfsSpec => []VolumesAreHandles
<1>1. DiskInv => VolumesAreHandles
  BY DEF DiskInv
<1> QED BY <1>1, VfsInvariance, PTL

\* ff_diskio_get_pdrv_disk finds the drive of a registered disk: drives are given
\* out from the first, so no stale entry of s_disks comes before it.
THEOREM PdrvTheorem == VfsSpec => []PdrvIsAssigned
<1>1. DiskInv => PdrvIsAssigned
  <2> SUFFICES ASSUME DiskInv, NEW h \in vfs PROVE get_pdrv_disk(h.dev) = h.pdrv
    BY DEF PdrvIsAssigned
  <2> DEFINE at == {v \in Vols : s_disks[v] = h.dev}
  <2>1. h.pdrv \in Vols /\ s_disks[h.pdrv] = h.dev /\ \A v \in Vols : v < h.pdrv => s_disks[v] # h.dev
    BY DEF DiskInv, DiskTyped, Handles, HandleReaches, FirstDisk
  <2>2. at \in SUBSET Nat /\ h.pdrv \in at /\ at # {}
    BY <2>1, VolsAreNumbers
  <2>3. Min(at) \in at /\ \A y \in at : Min(at) <= y
    BY <2>2, MinIsLeast
  <2>4. Min(at) = h.pdrv
    BY <2>1, <2>2, <2>3
  <2> QED BY <2>2, <2>4 DEF get_pdrv_disk
<1> QED BY <1>1, VfsInvariance, PTL
=============================================================================
