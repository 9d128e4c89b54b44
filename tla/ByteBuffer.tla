----------------------------- MODULE ByteBuffer ----------------------------
(***************************************************************************)
(* raner::ByteBuffer (src/raner/byte_buffer.h, byte_buffer.cc): a         *)
(* std::vector<char> with a reader and a writer index,                    *)
(*   0 <= reader_index_ <= writer_index_ <= buffer_.size(),               *)
(* whose readable bytes are buffer_[reader_index_, writer_index_).        *)
(*                                                                         *)
(* Each method is an operator from a buffer to a buffer, so that a method *)
(* that calls another (Write calls ensureWritableBytes, Shrink builds a    *)
(* fresh buffer and writes into it, ReadFD falls back to Write) is the    *)
(* composition of the operators.  A byte is a member of Bytes; 0 is the   *)
(* value std::vector::resize fills new slots with.  kInitialSize and the  *)
(* 64 KiB extrabuf of ReadFD are the constants InitialSize and ExtraSize. *)
(*                                                                         *)
(* The buffer is used by one thread (a connection's loop thread), so each *)
(* call is one step.  ByteBuffer is shown to implement ByteQueue, the     *)
(* FIFO it promises, under the mapping q <- the readable bytes.           *)
(***************************************************************************)
EXTENDS Naturals, Sequences, SequencesExt

CONSTANTS
  Bytes,        \* byte values a caller writes or the kernel returns
  InitialSize,  \* ByteBuffer::kInitialSize
  ExtraSize,    \* sizeof(extrabuf) in ReadFD
  MaxLen,       \* longest Write / readv result in one call
  MaxReadable   \* bound on the readable bytes, keeps the model finite

VARIABLES
  bb,    \* [buffer_, reader_index_, writer_index_]
  last   \* what the latest SkipAsString / ToString returned

vars == <<bb, last>>

Buffer == [buffer_ : Seq(Bytes \cup {0}), reader_index_ : Nat,
           writer_index_ : Nat]

ReadableBytes(b) == b.writer_index_ - b.reader_index_
WritableBytes(b) == Len(b.buffer_) - b.writer_index_
DiscardableBytes(b) == b.reader_index_

\* The readable bytes, ToStringView().
Content(b) == SubSeq(b.buffer_, b.reader_index_ + 1, b.writer_index_)

\* ByteBuffer(initial_size): buffer_(initial_size), both indexes 0.
NewBuffer(n) ==
  [buffer_ |-> [i \in 1..n |-> 0], reader_index_ |-> 0, writer_index_ |-> 0]

\* std::vector::resize to a larger size: the new slots are zero.
Resize(s, n) == [i \in 1..n |-> IF i <= Len(s) THEN s[i] ELSE 0]

\* std::copy of d to s just after position at (never past the end of s).
CopyTo(s, at, d) ==
  [i \in DOMAIN s |-> IF at < i /\ i <= at + Len(d) THEN d[i - at] ELSE s[i]]

\* Mutation: the vector is resized to len instead of writer_index_ + len.
expandCapacity_shortResize(b, len) ==
  IF WritableBytes(b) + DiscardableBytes(b) < len
  THEN [b EXCEPT !.buffer_ = Resize(b.buffer_, len)]
  ELSE b

\* Mutation: no compaction; the buffer is always grown.
expandCapacity_noCompact(b, len) ==
  [b EXCEPT !.buffer_ = Resize(b.buffer_, b.writer_index_ + len)]

\* Mutation: the indexes are reset without moving the readable bytes.
expandCapacity_noCopy(b, len) ==
  IF WritableBytes(b) + DiscardableBytes(b) < len
  THEN [b EXCEPT !.buffer_ = Resize(b.buffer_, b.writer_index_ + len)]
  ELSE [b EXCEPT !.reader_index_ = 0, !.writer_index_ = ReadableBytes(b)]

\* Grow the vector when the free space at both ends is too small, else
\* move the readable bytes to the front.  (The assert(0 < reader_index_)
\* of the second branch follows from ensureWritableBytes' test.)
expandCapacity(b, len) ==
  IF WritableBytes(b) + DiscardableBytes(b) < len
  THEN [b EXCEPT !.buffer_ = Resize(b.buffer_, b.writer_index_ + len)]
  ELSE LET readable == ReadableBytes(b) IN
       [buffer_ |-> CopyTo(b.buffer_, 0, Content(b)),
        reader_index_ |-> 0, writer_index_ |-> readable]

ensureWritableBytes(b, len) ==
  IF WritableBytes(b) < len THEN expandCapacity(b, len) ELSE b

\* Write(data, len): ensureWritableBytes, copy, SkipWriteBytes.
Write(b, d) ==
  LET e == ensureWritableBytes(b, Len(d)) IN
  [e EXCEPT !.buffer_ = CopyTo(e.buffer_, e.writer_index_, d),
            !.writer_index_ = e.writer_index_ + Len(d)]

SkipAll(b) == [b EXCEPT !.reader_index_ = 0, !.writer_index_ = 0]

SkipReadBytes(b, len) ==
  IF len < ReadableBytes(b)
  THEN [b EXCEPT !.reader_index_ = b.reader_index_ + len]
  ELSE SkipAll(b)

\* A fresh kInitialSize buffer, made big enough, takes the readable bytes;
\* then the two are swapped.
Shrink(b) ==
  Write(ensureWritableBytes(NewBuffer(InitialSize), ReadableBytes(b)),
        Content(b))

\* readv returned the bytes d (n = Len(d) > 0) into the free space and,
\* past it, into extrabuf; the overflow is appended with Write.
ReadFD(b, d) ==
  LET writable == WritableBytes(b) IN
  IF Len(d) <= writable
  THEN [b EXCEPT !.buffer_ = CopyTo(b.buffer_, b.writer_index_, d),
                 !.writer_index_ = b.writer_index_ + Len(d)]
  ELSE Write([b EXCEPT !.buffer_ = CopyTo(b.buffer_, b.writer_index_, d),
                       !.writer_index_ = Len(b.buffer_)],
             SubSeq(d, writable + 1, Len(d)))

\* readv may return at most the free space plus, when that is smaller than
\* extrabuf (iovcnt == 2), the extrabuf.
ReadvLimit(b) ==
  WritableBytes(b) + IF WritableBytes(b) < ExtraSize THEN ExtraSize ELSE 0

-----------------------------------------------------------------------------
Init == bb = NewBuffer(InitialSize) /\ last = <<>>

Data == {d \in BoundedSeq(Bytes, MaxLen) : d # <<>>}

\* Write / WriteInt* of the bytes d.
DoWrite(d) ==
  /\ ReadableBytes(bb) + Len(d) <= MaxReadable
  /\ bb' = Write(bb, d)
  /\ UNCHANGED last

\* SkipAsString(len) / ToString(len) / ReadInt*: the caller asserts
\* len <= ReadableBytes(); the bytes from BeginRead() are returned.
DoSkip(len) ==
  /\ 1 <= len /\ len <= ReadableBytes(bb)
  /\ last' = SubSeq(Content(bb), 1, len)
  /\ bb' = SkipReadBytes(bb, len)

DoShrink ==
  /\ bb' = Shrink(bb)
  /\ UNCHANGED last

\* ReadFD that read n > 0 bytes (n < 0 and n == 0 change nothing).
DoReadFD(d) ==
  /\ Len(d) <= ReadvLimit(bb)
  /\ ReadableBytes(bb) + Len(d) <= MaxReadable
  /\ bb' = ReadFD(bb, d)
  /\ UNCHANGED last

Next ==
  \/ \E d \in Data : DoWrite(d) \/ DoReadFD(d)
  \/ \E len \in 1..MaxLen : DoSkip(len)
  \/ DoShrink

Spec == Init /\ [][Next]_vars

-----------------------------------------------------------------------------
(* Properties.                                                             *)

\* The index invariant of the header comment, and the vector never drops
\* below kInitialSize.
TypeOK ==
  /\ bb \in Buffer /\ last \in Seq(Bytes)
  /\ bb.reader_index_ <= bb.writer_index_
  /\ bb.writer_index_ <= Len(bb.buffer_)
  /\ Len(bb.buffer_) >= InitialSize

\* expandCapacity grows the vector only when the readable bytes after the
\* call do not fit in its current size; otherwise compaction makes room.
GrowsOnlyWhenFull ==
  [][Len(bb'.buffer_) > Len(bb.buffer_) =>
       ReadableBytes(bb') > Len(bb.buffer_)]_vars

\* Every sequence of Write, ReadFD, Skip*/ToString/ReadInt* and Shrink
\* behaves as a FIFO of bytes: the readable bytes are what was written and
\* not yet taken, in order, and a take returns the oldest bytes, however
\* the indexes move, the vector grows or is compacted.
BQ == INSTANCE ByteQueue WITH q <- Content(bb), last <- last, MaxPut <- MaxLen

ImplementsByteQueue == BQ!Spec
=============================================================================
