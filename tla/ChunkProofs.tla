---------------------------- MODULE ChunkProofs ----------------------------
(***************************************************************************)
(* The chunks of a transfer tile it, for every drive, transfer, payload    *)
(* size and integer width.                                                 *)
(***************************************************************************)
EXTENDS ChunkTransfer, SpiProtocolProofs, TLAPS

-----------------------------------------------------------------------------
\* The inductive invariant. ChunksTile alone is not inductive: the next chunk
\* starts where the blocks moved so far end because `moved' is a whole number of
\* full frames as long as blocks are left, and it does not wrap because the
\* chunk before it ended inside the drive, below 2^32. The latter is so for every
\* transfer, also when its index has started again.
Progress ==
  /\ bs < U32 /\ bc < U32 /\ lba < U32 /\ n < U32
  /\ idx > 0 => /\ bs > 0 /\ bs <= MAX_PAYLOAD /\ MAX_PAYLOAD % bs = 0
                /\ lba + Smaller(idx * Per(bs), n) <= bc
  /\ Indexable => moved = IF idx = 0 THEN 0 ELSE Smaller(idx * Per(bs), n)
  /\ over => compute_chunk(bs, bc, lba, n, idx).status # "ESP_OK"

ChunkInv == ChunkTypeOK /\ Progress /\ ChunksTile /\ ChunkFits

\* Before the first chunk nothing was moved: the invariant holds.
LEMMA ChunkInitInv == ChunkInit => ChunkInv
<1> SUFFICES ASSUME ChunkInit PROVE ChunkInv
  OBVIOUS
<1>1. bs \in 0..(U32 - 1) /\ bc \in 0..(U32 - 1) /\ lba \in 0..(U32 - 1) /\ n \in 0..(U32 - 1)
  BY ChunkConstants DEF ChunkInit
<1>2. ChunkTypeOK
  <2>1. last \in [status : EspErr, lba : Nat, nblocks : Nat, len : Nat]
    BY DEF ChunkInit, ChunkErr, EspErr
  <2>2. idx \in 0..(U16 - 1) /\ moved \in Nat
    BY ChunkConstants DEF ChunkInit
  <2>3. over \in BOOLEAN
    BY DEF ChunkInit
  <2>4. bs \in Nat /\ bc \in Nat /\ lba \in Nat /\ n \in Nat
    BY <1>1, ProtocolConstants
  <2> QED BY <2>1, <2>2, <2>3, <2>4, Zenon DEF ChunkTypeOK
<1>3. Progress
  BY <1>1, ProtocolConstants DEF ChunkInit, Progress, Indexable
<1>4. ChunksTile
  BY <1>1, ProtocolConstants DEF ChunkInit, ChunksTile
<1>5. ChunkFits
  <2>1. last = [status |-> "ESP_OK", lba |-> 0, nblocks |-> 0, len |-> 0]
    BY DEF ChunkInit, ChunkErr
  <2>2. last.nblocks * bs = 0
    BY <1>1, <2>1, ProtocolConstants
  <2> QED BY <2>1, <2>2, ProtocolConstants DEF ChunkFits
<1> QED BY <1>2, <1>3, <1>4, <1>5 DEF ChunkInv

\* The index does not start again within a transfer that has indices enough.
LEMMA IndexRoom ==
  ASSUME NEW b \in Nat \ {0}, NEW k \in Nat, NEW i \in Nat, NEW m \in Nat,
         k * b = MAX_PAYLOAD, i * k < m, m * b <= (U16 - 1) * MAX_PAYLOAD
  PROVE  i + 1 < U16
<1>1. U16 \in Nat \ {0} /\ MAX_PAYLOAD \in Nat \ {0}
  BY ChunkConstants, ProtocolConstants
<1>2. (i * k + 1) * b <= m * b
  <2>1. PICK e \in Nat : m = (i * k + 1) + e
    <3>1. i * k \in Nat
      OBVIOUS
    <3> QED BY <3>1
  <2>2. i * k + 1 \in Nat
    OBVIOUS
  <2>3. \A x \in Nat : (x + e) * b = x * b + e * b /\ x * b \in Nat /\ e * b \in Nat
    OBVIOUS
  <2> QED BY <2>1, <2>2, <2>3
<1>3. (i * k + 1) * b = i * MAX_PAYLOAD + b
  BY SMT
<1>4. i * MAX_PAYLOAD < (U16 - 1) * MAX_PAYLOAD
  <2>1. i * MAX_PAYLOAD \in Nat /\ m * b \in Nat /\ (U16 - 1) * MAX_PAYLOAD \in Nat
    BY <1>1
  <2> QED BY <1>2, <1>3, <2>1
<1>5. CASE i >= U16 - 1
  <2>1. PICK e \in Nat : i = (U16 - 1) + e
    BY <1>1, <1>5
  <2>2. i * MAX_PAYLOAD = (U16 - 1) * MAX_PAYLOAD + e * MAX_PAYLOAD /\ e * MAX_PAYLOAD \in Nat
    BY <1>1, <2>1
  <2> QED BY <1>1, <1>4, <2>2
<1> QED BY <1>1, <1>5

\* A served chunk starts where the last one ended, so it extends the tiling.
LEMMA ChunkServedInv == ChunkInv /\ ChunkServed => ChunkInv'
<1> SUFFICES ASSUME ChunkInv, ChunkServed PROVE ChunkInv'
  OBVIOUS
<1> DEFINE c == compute_chunk(bs, bc, lba, n, idx)
           K == Per(bs)
<1>1. /\ ~over /\ c.status = "ESP_OK"
      /\ last' = c /\ moved' = moved + c.nblocks /\ blocks' = blocks \cup ChunkBlocks(c)
      /\ idx' = (idx + 1) % U16
      /\ bs' = bs /\ bc' = bc /\ lba' = lba /\ n' = n /\ over' = over
  BY DEF ChunkServed, Asks
<1>2. /\ bs \in Nat /\ bc \in Nat /\ lba \in Nat /\ n \in Nat /\ moved \in Nat
      /\ idx \in Nat /\ idx < U16 /\ U16 \in Nat \ {0} /\ U32 \in Nat
  BY ChunkConstants, ProtocolConstants DEF ChunkInv, ChunkTypeOK
<1>3. /\ bs > 0 /\ bs <= MAX_PAYLOAD /\ MAX_PAYLOAD % bs = 0
      /\ idx * K < n
      /\ c.nblocks = Smaller(K, n - idx * K) /\ c.nblocks \in Nat \ {0}
      /\ c.lba = (lba + idx * K) % U32 /\ c.lba \in Nat
      /\ c.lba + c.nblocks <= bc
      /\ c.len = c.nblocks * bs /\ c.len \in Nat /\ c.len <= MAX_PAYLOAD
      /\ c = [status |-> "ESP_OK", lba |-> c.lba, nblocks |-> c.nblocks, len |-> c.len]
  BY <1>1, <1>2, ServedChunk
<1>4. K \in Nat \ {0} /\ idx * K \in Nat /\ (idx + 1) * K = idx * K + K /\ K * bs = MAX_PAYLOAD
  BY <1>2, <1>3, FrameOfBlocks
<1>5. idx > 0 => lba + idx * K <= bc
  BY <1>2, <1>3, <1>4 DEF ChunkInv, Progress, Smaller
<1>6. Indexable => moved = idx * K
  BY <1>2, <1>3, <1>4 DEF ChunkInv, Progress, Smaller
<1> HIDE DEF c, K
<1>7. c.lba = lba + idx * K
  <2>1. lba + idx * K < U32
    <3>1. lba < U32 /\ bc < U32
      BY DEF ChunkInv, Progress
    <3>2. CASE idx = 0
      BY <1>2, <3>1, <3>2, <1>4
    <3> QED BY <1>2, <1>4, <1>5, <3>1, <3>2
  <2>2. lba + idx * K \in Nat
    BY <1>2, <1>4
  <2>3. (lba + idx * K) % U32 = lba + idx * K
    BY <1>2, <2>1, <2>2, SmallMod
  <2> QED BY <1>3, <2>3
<1>8. /\ idx * K + c.nblocks = Smaller((idx + 1) * K, n)
      /\ idx * K + c.nblocks <= n
  BY <1>2, <1>3, <1>4 DEF Smaller
<1>9. lba + Smaller((idx + 1) * K, n) <= bc
  BY <1>2, <1>3, <1>4, <1>7, <1>8
<1>10. idx' \in 0..(U16 - 1) /\ (idx' = 0 \/ idx' = idx + 1)
  <2>1. CASE idx + 1 < U16
    BY <1>1, <1>2, <2>1, SmallMod
  <2>2. CASE idx + 1 = U16
    BY <1>1, <1>2, <2>2
  <2> QED BY <1>2, <2>1, <2>2
<1>11. Indexable => idx' = idx + 1
  <2>1. ASSUME Indexable PROVE idx + 1 < U16
    BY <1>2, <1>3, <1>4, <2>1, IndexRoom DEF Indexable
  <2> QED BY <1>1, <1>2, <2>1, SmallMod
<1>12. Indexable' <=> Indexable
  BY <1>1 DEF Indexable
<1>13. Indexable => moved' = Smaller((idx + 1) * K, n)
  BY <1>1, <1>6, <1>8
<1>14. ChunkTypeOK'
  BY <1>1, <1>2, <1>3, <1>10 DEF ChunkInv, ChunkTypeOK, EspErr
<1>15. Progress'
  <2>1. ~over' /\ bs' < U32 /\ bc' < U32 /\ lba' < U32 /\ n' < U32
    BY <1>1 DEF ChunkInv, Progress
  <2>2. idx' > 0 => lba' + Smaller(idx' * Per(bs'), n') <= bc'
    BY <1>1, <1>9, <1>10 DEF K
  <2>3. Indexable' => moved' = IF idx' = 0 THEN 0 ELSE Smaller(idx' * Per(bs'), n')
    BY <1>1, <1>2, <1>11, <1>12, <1>13 DEF K
  <2> QED BY <1>1, <1>3, <2>1, <2>2, <2>3 DEF Progress
<1>16. ChunksTile'
  <2>1. \A b \in ChunkBlocks(c) : lba <= b /\ b < lba + n /\ b < bc
    BY <1>2, <1>3, <1>4, <1>7, <1>8 DEF ChunkBlocks
  <2>2. \A b \in blocks' : lba' <= b /\ b < lba' + n' /\ b < bc'
    BY <1>1, <2>1 DEF ChunkInv, ChunksTile
  <2>3. ASSUME Indexable PROVE moved' <= n /\ blocks' = lba..(lba + moved' - 1)
    <3>1. blocks' = (lba..(lba + moved - 1)) \cup (c.lba..(c.lba + c.nblocks - 1))
      BY <1>1, <2>3 DEF ChunkInv, ChunksTile, ChunkBlocks
    <3>2. c.lba = lba + moved /\ moved' = moved + c.nblocks /\ moved' <= n
      BY <1>1, <1>2, <1>6, <1>7, <1>8, <2>3
    <3> QED BY <1>2, <1>3, <3>1, <3>2
  <2> QED BY <1>1, <1>12, <2>2, <2>3 DEF ChunksTile
<1>17. ChunkFits'
  BY <1>1, <1>3 DEF ChunkFits
<1> QED BY <1>14, <1>15, <1>16, <1>17 DEF ChunkInv

\* A refused chunk changes nothing but `last' and `over'.
LEMMA ChunkRefusedInv == ChunkInv /\ ChunkRefused => ChunkInv'
<1> SUFFICES ASSUME ChunkInv, ChunkRefused PROVE ChunkInv'
  OBVIOUS
<1> DEFINE c == compute_chunk(bs, bc, lba, n, idx)
<1>1. /\ c.status # "ESP_OK" /\ last' = c /\ over' = TRUE
      /\ UNCHANGED <<bs, bc, lba, n, idx, moved, blocks>>
  BY DEF ChunkRefused, Asks
<1>2. c \in [status : EspErr, lba : Nat, nblocks : Nat, len : Nat]
  BY <1>1 DEF compute_chunk, ChunkErr, EspErr, past_request, chunk_lba, beyond_drive
<1>3. ChunkTypeOK'
  BY <1>1, <1>2 DEF ChunkInv, ChunkTypeOK
<1>4. Progress'
  BY <1>1 DEF ChunkInv, Progress, Indexable
<1>5. ChunksTile' /\ ChunkFits'
  BY <1>1 DEF ChunkInv, ChunksTile, ChunkFits, Indexable
<1> QED BY <1>3, <1>4, <1>5 DEF ChunkInv

\* The inductive invariant holds throughout every chunked transfer, whatever the
\* drive and the request (compute_chunk, called once per chunk).
THEOREM ChunkInvariance == ChunkSpec => []ChunkInv
<1>1. ChunkInv /\ [ChunkNext]_cvars => ChunkInv'
  <2> SUFFICES ASSUME ChunkInv, [ChunkNext]_cvars PROVE ChunkInv'
    OBVIOUS
  <2>1. CASE UNCHANGED cvars
    BY <2>1 DEF cvars, ChunkInv, ChunkTypeOK, Progress, ChunksTile, ChunkFits, Indexable
  <2> QED BY <2>1, ChunkServedInv, ChunkRefusedInv DEF ChunkNext
<1> QED BY <1>1, ChunkInitInv, PTL DEF ChunkSpec

\* What compute_chunk returns, and what is counted of it, has its type.
THEOREM ChunkTypeCorrect == ChunkSpec => []ChunkTypeOK
<1>1. ChunkInv => ChunkTypeOK
  BY DEF ChunkInv
<1> QED BY <1>1, ChunkInvariance, PTL

\* The chunks compute_chunk yields for indices 0, 1, 2, ... tile the transfer
\* from its start as far as the u16 index reaches; no transfer, however long,
\* leaves its blocks or the drive.
THEOREM ChunksTileTheorem == ChunkSpec => []ChunksTile
<1>1. ChunkInv => ChunksTile
  BY DEF ChunkInv
<1> QED BY <1>1, ChunkInvariance, PTL

\* Each of them fits block_buf and a frame, whatever the master asks for: the
\* u32 arithmetic of compute_chunk never yields a longer one.
THEOREM ChunkFitsTheorem == ChunkSpec => []ChunkFits
<1>1. ChunkInv => ChunkFits
  BY DEF ChunkInv
<1> QED BY <1>1, ChunkInvariance, PTL

\* A transfer that lies inside the drive, and that the u16 index reaches all of,
\* is refused only once it is complete.
THEOREM LegalTransferTheorem == ChunkSpec => []LegalTransferCompletes
<1>1. ChunkInv => LegalTransferCompletes
  <2> SUFFICES ASSUME ChunkInv, over, Transferable, lba + n <= bc PROVE moved = n
    BY DEF LegalTransferCompletes
  <2>1. bs \in Nat /\ bc \in Nat /\ lba \in Nat /\ n \in Nat /\ idx \in Nat
        /\ bs > 0 /\ bc > 0 /\ bs <= MAX_PAYLOAD /\ MAX_PAYLOAD % bs = 0 /\ n * bs < U32
        /\ bc < U32
    BY DEF ChunkInv, ChunkTypeOK, Progress, Transferable
  <2>2. compute_chunk(bs, bc, lba, n, idx).status # "ESP_OK"
    BY DEF ChunkInv, Progress
  <2>3. idx * Per(bs) >= n
    BY <2>1, <2>2, RefusedChunk
  <2>4. Per(bs) \in Nat /\ idx * Per(bs) \in Nat
    BY <2>1, FrameOfBlocks, SMT
  <2>5. CASE idx = 0
    BY <2>1, <2>3, <2>4, <2>5 DEF ChunkInv, Progress, Transferable
  <2>6. CASE idx > 0
    <3>1. moved = Smaller(idx * Per(bs), n)
      BY <2>1, <2>6 DEF ChunkInv, Progress, Transferable
    <3> QED BY <2>1, <2>3, <2>4, <3>1 DEF Smaller
  <2> QED BY <2>1, <2>5, <2>6
<1> QED BY <1>1, ChunkInvariance, PTL
=============================================================================
