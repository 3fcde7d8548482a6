---------------------------- MODULE BlockStore ----------------------------
(***************************************************************************)
(* What the SPI link promises its master, without frames, READY line or    *)
(* chunks: a store of blocks that serves one request at a time.            *)
(*                                                                         *)
(* A request is served by touching its own blocks only, and answered by an *)
(* offer the master takes or loses. An offer is never wrong: one that      *)
(* reports success tells what the store holds. A lost offer is made again, *)
(* after the request was served again.                                     *)
(***************************************************************************)
EXTENDS Naturals

CONSTANTS
  Addr,           \* the addresses of the blocks
  InitData,       \* what every block holds at first
  Requests,       \* the requests, records with a command `cmd'
  Blocks(_),      \* the blocks a request names
  Content(_, _)   \* the data a Write carries for a block

VARIABLES
  store,    \* the blocks
  call,     \* the request being served: none or one
  offer     \* the answer offered to it: none or one

svars == <<store, call, offer>>

Init ==
  /\ store = [l \in Addr |-> InitData]
  /\ call = << >>
  /\ offer = << >>

Begin(o) ==
  /\ call = << >>
  /\ call' = <<o>>
  /\ UNCHANGED <<store, offer>>

\* Some of the blocks of a Write get its data.
Touch ==
  /\ call # << >> /\ call[1].cmd = "Write"
  /\ offer = << >>
  /\ \E some \in SUBSET Blocks(call[1]) :
       store' = [l \in Addr |-> IF l \in some THEN Content(call[1], l) ELSE store[l]]
  /\ UNCHANGED <<call, offer>>

\* What is offered is true of request o: a Read returns what its blocks hold, a
\* Write has stored all of its data, and neither succeeds outside the store.
Truthful(o, answer) ==
  answer.ok /\ o.cmd \in {"Read", "Write"} =>
    /\ Blocks(o) # {}
    /\ \A l \in Blocks(o) :
         store[l] = IF o.cmd = "Read" THEN answer.data[l] ELSE Content(o, l)

Offer(answer) ==
  /\ call # << >> /\ offer = << >>
  /\ Truthful(call[1], answer)
  /\ offer' = <<answer>>
  /\ UNCHANGED <<store, call>>

Lose ==
  /\ offer # << >>
  /\ offer' = << >>
  /\ UNCHANGED <<store, call>>

Take ==
  /\ offer # << >> /\ call # << >>
  /\ offer' = << >> /\ call' = << >>
  /\ UNCHANGED store

\* The answer offered next is the one found in offer': any record will do.
Next ==
  \/ \E o \in Requests : Begin(o)
  \/ Touch
  \/ offer' # << >> /\ Offer(offer'[1])
  \/ Lose \/ Take

Spec == Init /\ [][Next]_svars
=============================================================================
