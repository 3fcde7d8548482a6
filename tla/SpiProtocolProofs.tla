------------------------- MODULE SpiProtocolProofs -------------------------
(***************************************************************************)
(* What compute_chunk returns, for every drive, request, payload size and  *)
(* integer width: the facts the proofs about transfers and about the link  *)
(* rest on.                                                                *)
(***************************************************************************)
EXTENDS SpiProtocol, TLAPS

\* Blocks in a full frame.
Per(b) == MAX_PAYLOAD \div b

\* Division of a multiple is exact (offset_bytes / bs and chunk_len / bs).
LEMMA ExactDiv ==
  ASSUME NEW x \in Nat, NEW b \in Nat \ {0}
  PROVE  (x * b) \div b = x /\ (x * b) % b = 0
  BY SMT

\* Below the modulus nothing wraps.
LEMMA SmallMod ==
  ASSUME NEW x \in Nat, NEW u \in Nat, x < u
  PROVE  x % u = x
  BY SMT

\* When the payload is a multiple of the block size, a frame holds Per(b) >= 1
\* whole blocks.
LEMMA FrameOfBlocks ==
  ASSUME NEW b \in Nat \ {0}, b <= MAX_PAYLOAD, MAX_PAYLOAD % b = 0
  PROVE  Per(b) \in Nat \ {0} /\ MAX_PAYLOAD = Per(b) * b
  BY ProtocolConstants, SMT DEF Per

\* The byte arithmetic of compute_chunk, told in blocks: the offset of chunk i is
\* i * Per(b) blocks and its length is Per(b) blocks or what is left.
LEMMA ChunkInBlocks ==
  ASSUME NEW b \in Nat \ {0}, NEW m \in Nat, NEW i \in Nat,
         b <= MAX_PAYLOAD, MAX_PAYLOAD % b = 0
  PROVE  /\ (i * MAX_PAYLOAD) \div b = i * Per(b)
         /\ i * MAX_PAYLOAD >= m * b <=> i * Per(b) >= m
         /\ i * Per(b) < m =>
              /\ Smaller(MAX_PAYLOAD, m * b - i * MAX_PAYLOAD)
                   = Smaller(Per(b), m - i * Per(b)) * b
              /\ Smaller(Per(b), m - i * Per(b)) \in Nat \ {0}
<1> DEFINE K == Per(b)
<1>1. K \in Nat \ {0} /\ MAX_PAYLOAD = K * b
  BY FrameOfBlocks
<1>2. i * K \in Nat /\ i * MAX_PAYLOAD = (i * K) * b
  BY <1>1, SMT
<1> HIDE DEF K
<1>3. (i * MAX_PAYLOAD) \div b = i * K
  BY <1>2, ExactDiv
<1>4. i * MAX_PAYLOAD >= m * b <=> i * K >= m
  <2>1. ASSUME NEW x \in Nat, NEW y \in Nat PROVE x * b >= y * b <=> x >= y
    BY SMT
  <2> QED BY <1>2, <2>1
<1>5. ASSUME i * K < m
      PROVE  /\ Smaller(MAX_PAYLOAD, m * b - i * MAX_PAYLOAD) = Smaller(K, m - i * K) * b
             /\ Smaller(K, m - i * K) \in Nat \ {0}
  <2>1. PICK y \in Nat \ {0} : y = m - i * K
    BY <1>2, <1>5, SMT
  <2>2. m * b - i * MAX_PAYLOAD = y * b
    BY <1>2, <2>1, SMT
  <2>3. K * b <= y * b <=> K <= y
    BY <1>1, SMT
  <2> QED BY <1>1, <2>1, <2>2, <2>3 DEF Smaller
<1> QED BY <1>3, <1>4, <1>5 DEF K

\* What a served chunk is: in the drive, inside the transfer, made of whole
\* blocks, and at the place the chunk index says (up to the u32 wrap).
LEMMA ServedChunk ==
  ASSUME NEW b \in Nat, NEW c \in Nat, NEW l \in Nat, NEW m \in Nat, NEW i \in Nat,
         NEW r, r = compute_chunk(b, c, l, m, i), r.status = "ESP_OK"
  PROVE  /\ b > 0 /\ b <= MAX_PAYLOAD /\ MAX_PAYLOAD % b = 0
         /\ i * Per(b) < m
         /\ r.nblocks = Smaller(Per(b), m - i * Per(b)) /\ r.nblocks \in Nat \ {0}
         /\ r.lba = (l + i * Per(b)) % U32 /\ r.lba \in Nat
         /\ r.lba + r.nblocks <= c
         /\ r.len = r.nblocks * b /\ r.len \in Nat /\ r.len <= MAX_PAYLOAD
         /\ r = [status |-> "ESP_OK", lba |-> r.lba, nblocks |-> r.nblocks, len |-> r.len]
<1> DEFINE total  == m * b
           offset == i * MAX_PAYLOAD
           len    == Smaller(MAX_PAYLOAD, total - offset)
           place  == (l + (offset \div b)) % U32
           count  == len \div b
<1>1. /\ b > 0 /\ b <= MAX_PAYLOAD /\ MAX_PAYLOAD % b = 0
      /\ ~(offset >= total)
      /\ ~(place + count > c)
      /\ r = [status |-> "ESP_OK", lba |-> place, nblocks |-> count, len |-> len]
  BY ProtocolConstants DEF compute_chunk, ChunkErr, past_request, chunk_lba, beyond_drive
<1>2. b \in Nat \ {0}
  BY <1>1
<1>3. Per(b) \in Nat \ {0}
  BY <1>1, <1>2, FrameOfBlocks
<1>4. /\ offset \div b = i * Per(b)
      /\ i * Per(b) < m
      /\ len = Smaller(Per(b), m - i * Per(b)) * b
      /\ Smaller(Per(b), m - i * Per(b)) \in Nat \ {0}
  <2>1. /\ offset \div b = i * Per(b)
        /\ offset >= total <=> i * Per(b) >= m
        /\ i * Per(b) < m => /\ len = Smaller(Per(b), m - i * Per(b)) * b
                             /\ Smaller(Per(b), m - i * Per(b)) \in Nat \ {0}
    BY <1>1, <1>2, ChunkInBlocks
  <2>2. i * Per(b) \in Nat
    BY <1>3, SMT
  <2> QED BY <1>1, <2>1, <2>2
<1>5. count = Smaller(Per(b), m - i * Per(b))
  BY <1>2, <1>4, ExactDiv
<1>6. place = (l + i * Per(b)) % U32 /\ place \in Nat
  <2>1. l + i * Per(b) \in Nat
    BY <1>3, SMT
  <2>2. ASSUME NEW x \in Nat PROVE x % U32 \in Nat
    BY ProtocolConstants, SMT
  <2>3. place = (l + i * Per(b)) % U32
    BY <1>4
  <2> QED BY <2>1, <2>2, <2>3
<1>7. place + count <= c
  BY <1>1, <1>4, <1>5, <1>6
<1>8. len \in Nat /\ len <= MAX_PAYLOAD
  <2>1. len \in Nat
    BY <1>2, <1>4, SMT
  <2>2. total - offset \in Int
    BY ProtocolConstants, SMT
  <2> QED BY <2>1, <2>2, ProtocolConstants DEF Smaller
<1> HIDE DEF total, offset, len, place, count
<1> QED BY <1>1, <1>4, <1>5, <1>6, <1>7, <1>8

\* Why a legal chunk is refused: only because it starts at or past the end.
LEMMA RefusedChunk ==
  ASSUME NEW b \in Nat, NEW c \in Nat, NEW l \in Nat, NEW m \in Nat, NEW i \in Nat,
         c < U32, l + m <= c, c > 0, b > 0, b <= MAX_PAYLOAD, MAX_PAYLOAD % b = 0,
         m * b < U32,
         compute_chunk(b, c, l, m, i).status # "ESP_OK"
  PROVE  i * Per(b) >= m
<1> DEFINE K      == Per(b)
           total  == m * b
           offset == i * MAX_PAYLOAD
           len    == Smaller(MAX_PAYLOAD, total - offset)
           place  == (l + (offset \div b)) % U32
           count  == len \div b
<1> SUFFICES ASSUME i * K < m PROVE FALSE
  <2>1. K \in Nat /\ i * K \in Nat
    BY FrameOfBlocks, SMT
  <2> QED BY <2>1
<1>1. b \in Nat \ {0} /\ K \in Nat \ {0} /\ i * K \in Nat
  BY FrameOfBlocks, SMT
<1>2. /\ offset \div b = i * K
      /\ ~(offset >= total)
      /\ len = Smaller(K, m - i * K) * b
      /\ Smaller(K, m - i * K) \in Nat \ {0}
  <2>1. offset >= total <=> i * K >= m
    BY <1>1, ChunkInBlocks
  <2> QED BY <1>1, <2>1, ChunkInBlocks
<1>3. count = Smaller(K, m - i * K) /\ len % b = 0
  <2>1. PICK y \in Nat : y = Smaller(K, m - i * K)
    BY <1>2
  <2>2. (y * b) \div b = y /\ (y * b) % b = 0
    BY <1>1, ExactDiv
  <2>3. len = y * b
    BY <1>2, <2>1
  <2> QED BY <2>1, <2>2, <2>3
<1>4. place = l + i * K
  <2>1. l + i * K \in Nat /\ l + i * K < U32
    BY <1>1, ProtocolConstants
  <2> QED BY <1>2, <2>1, ProtocolConstants, SmallMod
<1>5. place + count <= c /\ place + count < U32
  BY <1>1, <1>3, <1>4, ProtocolConstants DEF Smaller
<1>6. offset < U32 /\ total < U32
  <2>1. offset \in Int /\ total \in Int
    BY ProtocolConstants, SMT
  <2> QED BY <1>2, <2>1, ProtocolConstants
<1>7. ~(total >= U32 \/ offset >= U32) /\ ~(place + count >= U32 \/ place + count > c)
  <2>1. offset \in Int /\ total \in Int
    BY ProtocolConstants, SMT
  <2>2. place \in Nat /\ count \in Nat
    BY <1>1, <1>2, <1>3, <1>4
  <2> QED BY <1>5, <1>6, <2>1, <2>2, ProtocolConstants
<1>8. ~(b = 0) /\ ~(b > MAX_PAYLOAD) /\ ~(MAX_PAYLOAD % b # 0) /\ ~(c = 0) /\ ~(len % b # 0)
  BY <1>3, ProtocolConstants
<1> HIDE DEF K
<1>9. compute_chunk(b, c, l, m, i)
        = [status |-> "ESP_OK", lba |-> place, nblocks |-> count, len |-> len]
  BY <1>2, <1>7, <1>8, Zenon DEF compute_chunk, past_request, chunk_lba, beyond_drive
<1> QED BY <1>9
=============================================================================
