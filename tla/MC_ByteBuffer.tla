--------------------------- MODULE MC_ByteBuffer ---------------------------
EXTENDS LengthHeaderCodec

\* Two byte values tell a misplaced byte from a right one; 0 (the resize
\* fill) is not among them, so a slot never written that becomes readable
\* is seen.
MCBytes == {1, 2}
=============================================================================
