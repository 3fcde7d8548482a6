------------------------------- MODULE MCMsc -------------------------------
(* Instance of MscVfs for TLC. Two addresses, objects, volumes and paths let *)
(* one be in use while another is reused, and with three plugs a device      *)
(* comes back while the object of the previous one still waits for its       *)
(* teardown. The descriptors: a composite device with the bulk-only          *)
(* interface among others and its endpoints OUT first, one whose bulk-only   *)
(* interface has one endpoint only, and a device without mass                *)
(* storage. The symmetry is sound: only invariants are checked, and          *)
(* addresses, objects and paths are never ordered.                           *)
EXTENDS MscVfs, TLC

CONSTANTS a1, a2, o1, o2, p1, p2

MCDescs == {
  <<Intf(0, "other"), Ep(1, "in"), Intf(1, "uas"), Ep(2, "in"),
    Intf(2, "bot"), Ep(3, "out"), Ep(4, "in"), Intf(3, "other"), Ep(5, "in")>>,
  <<Intf(0, "bot"), Ep(1, "in")>>,
  <<Intf(0, "other"), Ep(1, "in")>>}

MCSymmetry == Permutations(Addrs) \cup Permutations(Objs) \cup Permutations(Paths)
=============================================================================
