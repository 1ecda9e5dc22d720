\* Frames shorter than the buffer as well as full ones: what is true of any message.
SPECIFICATION Spec
CONSTANTS
  Senders = {s1, s2}
  Receivers = {r1, r2}
  NoThread = NoThread
  Full = 3
  Sizes = {2, 3}
  SockBuf = 3
  MaxMsgs = 3
SYMMETRY Symmetry
INVARIANTS
  TypeOK
  FramesContiguous
  PagesInOrder
  AckedWritten
\* A receiver that reads the end of the stream oopses with rlock held.
CHECK_DEADLOCK FALSE
