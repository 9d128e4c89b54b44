----------------------------- MODULE ByteQueue -----------------------------
(***************************************************************************)
(* What raner::ByteBuffer promises its users: a FIFO of bytes.  Bytes are *)
(* appended at the back (Write, WriteIntN, ReadFD) and taken from the     *)
(* front (SkipReadBytes, SkipAsString, ToString, ReadIntN), and a taker   *)
(* gets exactly the oldest bytes.  Nothing else changes the content:      *)
(* compaction, growth and Shrink are invisible (stuttering steps).        *)
(***************************************************************************)
EXTENDS Naturals, Sequences, SequencesExt

CONSTANTS
  Bytes,   \* the byte values
  MaxPut   \* the longest run appended in one step

VARIABLES
  q,     \* the readable bytes, oldest first
  last   \* the bytes the latest take returned

Init == q = <<>> /\ last = <<>>

\* Append a non-empty run of bytes.
Put(d) ==
  /\ q' = q \o d
  /\ UNCHANGED last

\* Take the k oldest bytes (k may be all of them).
Take(k) ==
  /\ 1 <= k /\ k <= Len(q)
  /\ last' = SubSeq(q, 1, k)
  /\ q' = SubSeq(q, k + 1, Len(q))

Next ==
  \/ \E d \in BoundedSeq(Bytes, MaxPut) : d # <<>> /\ Put(d)
  \/ \E k \in 1..Len(q) : Take(k)

Spec == Init /\ [][Next]_<<q, last>>
=============================================================================
