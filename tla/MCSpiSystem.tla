---------------------------- MODULE MCSpiSystem ----------------------------
(* Requests for model-checking SpiSystem with MAX_PAYLOAD = 2, blocks of one  *)
(* byte and a drive of DriveLast + 1 blocks, so a frame carries two blocks.   *)
EXTENDS SpiSystem

Req(cmd, arg0, arg1, reserved, data) ==
  [cmd |-> cmd, arg0 |-> arg0, arg1 |-> arg1, reserved |-> reserved, data |-> data]

CONSTANTS a, b, z, j       \* block contents: z at first, j when damaged

\* A two-chunk Write, a one-block Write over its first block, Reads of both
\* chunks, a request past the end, and the commands without blocks.
AllOps ==
  {Req("Write", 0, 3, 0, <<a, b>>), Req("Write", 0, 3, 1, <<b>>),
   Req("Write", 0, 1, 0, <<b>>), Req("Write", 2, 2, 0, <<a, a>>),
   Req("Read", 0, 3, 0, << >>), Req("Read", 0, 3, 1, << >>),
   Req("Read", 0, 3, 2, << >>),
   Req("GetStatus", 0, 0, 0, << >>), Req("GetCapacity", 0, 0, 0, << >>),
   Req("Flush", 0, 0, 0, << >>), Req("Unknown", 0, 0, 0, << >>)}

\* Two Writes of one frame each and the same length, and a Read.
FewOps ==
  {Req("Write", 0, 2, 0, <<a, a>>), Req("Write", 1, 2, 0, <<b, b>>),
   Req("Read", 0, 2, 0, << >>)}

\* A Write and a Read inside the drive, a Write past its end, GetCapacity.
LiveOps ==
  {Req("Write", 0, 2, 0, <<a, a>>), Req("Write", 2, 2, 0, <<b, b>>),
   Req("Read", 0, 2, 0, << >>), Req("GetCapacity", 0, 0, 0, << >>)}
=============================================================================
