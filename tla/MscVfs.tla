------------------------------- MODULE MscVfs -------------------------------
(***************************************************************************)
(* The FAT file system on the devices of the class driver: the volumes of  *)
(* FatFs (usb_host_msc/src/diskio_usb.c) and the registration of a device  *)
(* under a path (usb_host_msc/src/msc_host_vfs.c). Only the application    *)
(* uses it, between its other calls: a call is one step.                   *)
(*                                                                         *)
(* FatFs and the virtual file system are external: a volume with a disk    *)
(* driver, a path with a volume, a mounted volume.                         *)
(***************************************************************************)
EXTENDS MscHost

CONSTANTS
  Vols,   \* volumes of FatFs: 0..FF_VOLUMES-1
  Paths   \* base paths

NoVol == 255   \* 0xff

ASSUME VfsConstants == Vols \subseteq 0..254 /\ Vols # {}

VARIABLES
  s_disks,  \* the disk of each volume, kept after the volume is given up
  impl,     \* external: volumes with a registered disk driver
  ctx,      \* external: the volume a registered path stands for
  mounted,  \* external: volumes with a mounted file system
  vfs       \* the handles the application holds: msc_host_vfs_t and its device

diskVars == <<s_disks, impl, ctx, mounted, vfs>>
vars == <<hostVars, diskVars>>

Handle(o, v, p) == [dev |-> o, pdrv |-> v, base_path |-> p]

VfsInit ==
  /\ HostInit
  /\ s_disks = [v \in Vols |-> NoObj] /\ ctx = [p \in Paths |-> NoVol]
  /\ impl = {} /\ mounted = {} /\ vfs = {}

VfsRestart ==
  /\ DeviceAssert \/ HostUninstallAbort
  /\ s_disks' = [v \in Vols |-> NoObj] /\ ctx' = [p \in Paths |-> NoVol]
  /\ impl' = {} /\ mounted' = {} /\ vfs' = {}

\* ff_diskio_get_drive (external): the first volume without a driver.
FreeVols == Vols \ impl
get_drive == Min(FreeVols)

\* Mutant: a volume keeps the disk it had first.
register_msc_kept(v, o) ==
  [s_disks EXCEPT ![v] = IF @ = NoObj THEN o ELSE @]

\* ff_diskio_register_msc, together with impl.
register_msc(v, o) == [s_disks EXCEPT ![v] = o]

\* Mutant: the search goes on to the last volume.
get_pdrv_disk_last(o) ==
  LET at == {v \in Vols : s_disks[v] = o} IN IF at = {} THEN NoVol ELSE Max(at)

\* ff_diskio_get_pdrv_disk.
get_pdrv_disk(o) ==
  LET at == {v \in Vols : s_disks[v] = o} IN IF at = {} THEN NoVol ELSE Min(at)

\* usb_disk_read, usb_disk_write and usb_disk_ioctl: the device behind a volume.
usb_disk(v) == s_disks[v]

\* A call of the application between its calls of the class driver.
VfsCall == Runs("idle") /\ UNCHANGED hostVars

InUse(o) == \E h \in vfs : h.dev = o

\* msc_host_vfs_register of a device and a path that are not registered yet: what
\* is registered after k of its three stages, the volume's disk driver, the path
\* (and with it the file system object fs), and the object's mount.
Registered(o, p, k) ==
  LET v == get_drive IN
  [s_disks |-> IF k >= 1 THEN register_msc(v, o) ELSE s_disks,
   impl    |-> IF k >= 1 THEN impl \cup {v} ELSE impl,
   ctx     |-> IF k >= 2 THEN [ctx EXCEPT ![p] = v] ELSE ctx,
   mounted |-> IF k >= 3 THEN mounted \cup {v} ELSE mounted]

\* Mutant: the mount is not taken back.
fail_mounted(r, p, k) ==
  LET v == get_drive IN
  [r EXCEPT !.impl = IF k >= 1 THEN @ \ {v} ELSE @, !.ctx = [@ EXCEPT ![p] = NoVol]]

\* The label fail: the driver if diskio_registered, the mount if there is fs, and
\* the path are taken back.
fail(r, p, k) ==
  LET v == get_drive IN
  [r EXCEPT !.impl = IF k >= 1 THEN @ \ {v} ELSE @,
            !.mounted = IF k >= 2 THEN @ \ {v} ELSE @,
            !.ctx = [@ EXCEPT ![p] = NoVol]]

VfsMay(o, p) == VfsCall /\ Complete(o) /\ ~InUse(o) /\ ctx[p] = NoVol
VfsBecomes(r) == s_disks' = r.s_disks /\ impl' = r.impl /\ ctx' = r.ctx /\ mounted' = r.mounted

\* With or without a format.
VfsRegister(o, p) ==
  /\ VfsMay(o, p) /\ FreeVols # {} /\ conn[dev[o].addr] = "present"
  /\ VfsBecomes(Registered(o, p, 3))
  /\ vfs' = vfs \cup {Handle(o, get_drive, p)}

\* It fails without memory or a free volume (k = 0), when the path cannot be
\* copied or registered (1), or when the mount (2) or the format and the mount
\* after it (3, since f_mount keeps fs even if it finds no file system) fail.
VfsRegisterFail(o, p, k) ==
  /\ VfsMay(o, p) /\ (k > 0 => FreeVols # {})
  /\ VfsBecomes(fail(Registered(o, p, k), p, k))
  /\ vfs' = vfs

\* msc_host_vfs_unregister.
VfsUnregister(h) ==
  /\ VfsCall /\ h \in vfs
  /\ mounted' = mounted \ {h.pdrv} /\ impl' = impl \ {h.pdrv}
  /\ ctx' = [ctx EXCEPT ![h.base_path] = NoVol]
  /\ vfs' = vfs \ {h}
  /\ UNCHANGED s_disks

-----------------------------------------------------------------------------
\* A device is uninstalled once its file system is (the deinitialisation "in
\* reverse order" of usb_host_msc/README.md).
VfsNext ==
  \/ /\ \/ AppStep \/ HandlerStep \/ Bus
        \/ HostInstall \/ StartPoller \/ HostUninstall
        \/ \E o \in Objs, a \in Addrs : InstallDevice(a, o)
        \/ \E o \in Objs : ~InUse(o) /\ UninstallDevice(o)
     /\ UNCHANGED diskVars
  \/ VfsRestart
  \/ \E o \in Objs, p \in Paths : VfsRegister(o, p) \/ \E k \in 0..3 : VfsRegisterFail(o, p, k)
  \/ \E h \in vfs : VfsUnregister(h)

VfsSpec == VfsInit /\ [][VfsNext]_vars

-----------------------------------------------------------------------------
(* Properties.                                                              *)

\* Type invariant, of the class driver and of the volumes.
VfsTypeOK ==
  /\ HostTypeOK
  /\ \A v \in Vols : s_disks[v] \in Objs \cup {NoObj}
  /\ impl \subseteq Vols /\ mounted \subseteq Vols
  /\ \A p \in Paths : ctx[p] \in Vols \cup {NoVol}
  /\ \A h \in vfs : h.dev \in Objs /\ h.pdrv \in Vols /\ h.base_path \in Paths

\* A file under a registered path is on the device that was registered there: the
\* path leads to the handle's volume, that has a driver and a mount, and
\* usb_disk_read and the others reach the handle's device through s_disks, an
\* object that is still installed and not some other or a freed one.
PathReachesDevice ==
  \A h \in vfs :
    /\ ctx[h.base_path] = h.pdrv /\ h.pdrv \in impl \cap mounted
    /\ usb_disk(h.pdrv) = h.dev /\ Complete(h.dev)

\* Paths, drivers and mounts are those of the handles: neither a failed
\* registration nor msc_host_vfs_unregister leaves any behind.
VolumesAreHandles ==
  /\ impl = {h.pdrv : h \in vfs} /\ mounted = impl
  /\ {p \in Paths : ctx[p] # NoVol} = {h.base_path : h \in vfs}

\* ff_diskio_get_pdrv_disk finds the drive assigned to a registered disk, although
\* s_disks keeps disks of volumes given up long ago.
PdrvIsAssigned == \A h \in vfs : get_pdrv_disk(h.dev) = h.pdrv
=============================================================================
