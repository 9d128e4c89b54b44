-------------------------- MODULE LengthHeaderCodec --------------------------
(***************************************************************************)
(* The chat examples' LengthHeaderCodec (src/examples/chat/codec.h): a     *)
(* message travels as a kHeaderLen-byte big-endian length and the message *)
(* bytes.  OnMessage is the connection's message callback: it runs on the *)
(* input ByteBuffer after each read and hands every complete message to   *)
(* the chat code, leaving a partial frame in the buffer for the next read; *)
(* a length above 65536 makes it Shutdown the connection and stop.  Send  *)
(* frames a message in a fresh ByteBuffer for TCPConnection::Send.        *)
(*                                                                         *)
(* Both are operators on the buffers of ByteBuffer.tla.  The header width *)
(* and the 65536 limit are the constants HeaderLen and MaxMessage, scaled *)
(* down with the buffer.  The result of OnMessage is [buf, msgs,          *)
(* shutdown]: the buffer after the call, the messages passed to           *)
(* messageCallback_ in order, and whether conn->Shutdown() was called.    *)
(***************************************************************************)
EXTENDS ByteBuffer

CONSTANTS
  HeaderLen,   \* kHeaderLen, sizeof(uint32_t)
  MaxMessage   \* the largest valid length, 65536

\* gntohl: the first HeaderLen bytes read as a big-endian number.
NetToHost(h) == FoldLeft(LAMBDA acc, byte : acc * 256 + byte, 0, h)

\* ghtonl: n as HeaderLen big-endian bytes.
HostToNet(n) == [i \in 1..HeaderLen |-> (n \div 256^(HeaderLen - i)) % 256]

\* Mutation: a frame that exactly fills the buffer is taken as incomplete.
complete_strict(b, len) == ReadableBytes(b) > len + HeaderLen

complete(b, len) == ReadableBytes(b) >= len + HeaderLen

\* The while loop of OnMessage, with the messages passed on so far.
RECURSIVE onMessageLoop(_, _)
onMessageLoop(b, ms) ==
  IF ReadableBytes(b) < HeaderLen
  THEN [buf |-> b, msgs |-> ms, shutdown |-> FALSE]
  ELSE LET len == NetToHost(SubSeq(Content(b), 1, HeaderLen)) IN
       IF len > MaxMessage
       THEN [buf |-> b, msgs |-> ms, shutdown |-> TRUE]
       ELSE IF complete(b, len)
       THEN LET body == SkipReadBytes(b, HeaderLen) IN
            onMessageLoop(SkipReadBytes(body, len),
                          Append(ms, SubSeq(Content(body), 1, len)))
       ELSE [buf |-> b, msgs |-> ms, shutdown |-> FALSE]

OnMessage(b) == onMessageLoop(b, <<>>)

\* Send: a fresh ByteBuffer gets the length header, then the message.
Send(m) == Write(Write(NewBuffer(InitialSize), HostToNet(Len(m))), m)

-----------------------------------------------------------------------------
(* The reference: what a length-prefixed stream means.                     *)

Frame(m) == HostToNet(Len(m)) \o m

\* The readable bytes c are the frames of the longest list of messages of
\* valid length that prefixes c, and a remainder; the stream is bad when
\* the remainder starts with a whole header that is too large.
RefDecode(c) ==
  LET Lists == BoundedSeq(BoundedSeq(Bytes, MaxMessage), Len(c))
      framed(ms) == IsPrefix(FlattenSeq([i \in DOMAIN ms |-> Frame(ms[i])]), c)
      best == CHOOSE ms \in Lists :
                framed(ms) /\ \A other \in Lists : framed(other) => Len(other) <= Len(ms)
      rest == SubSeq(c, Len(FlattenSeq([i \in DOMAIN best |-> Frame(best[i])])) + 1,
                     Len(c))
  IN [msgs |-> best, rest |-> rest,
      shutdown |-> Len(rest) >= HeaderLen
                     /\ NetToHost(SubSeq(rest, 1, HeaderLen)) > MaxMessage]

-----------------------------------------------------------------------------
(* Properties.                                                             *)

\* OnMessage run on any input buffer a connection can hold, after any mix
\* of reads, writes, skips, compactions and growth, hands on exactly the
\* messages of the complete frames at its front, in order, leaves exactly
\* the partial frame behind, and shuts the connection down exactly when
\* the next header is invalid; and a message framed by Send, the empty one
\* included, decodes to itself and leaves nothing behind.
CodecDecodes ==
  /\ LET r == OnMessage(bb)
         d == RefDecode(Content(bb))
     IN r.msgs = d.msgs /\ Content(r.buf) = d.rest /\ r.shutdown = d.shutdown
  /\ \A m \in BoundedSeq(Bytes, MaxMessage) :
       LET r == OnMessage(Send(m)) IN
       r.msgs = <<m>> /\ ReadableBytes(r.buf) = 0 /\ ~r.shutdown
=============================================================================
