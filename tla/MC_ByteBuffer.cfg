\* kInitialSize 1024 and extrabuf 65536 scaled to 2 and 2: reads and writes
\* of up to 3 bytes then take every branch (fit, compact, grow; readv into
\* the free space only, or into extrabuf too).  The codec's 4-byte header
\* and 65536 limit scaled to 1 and 1: bytes 1 and 2 then make complete,
\* partial, back-to-back and invalid frames.
CONSTANTS
  Bytes <- MCBytes
  InitialSize = 2
  ExtraSize = 2
  MaxLen = 3
  MaxReadable = 4
  HeaderLen = 1
  MaxMessage = 1
SPECIFICATION Spec
INVARIANT TypeOK
INVARIANT CodecDecodes
PROPERTY
  GrowsOnlyWhenFull
  ImplementsByteQueue
