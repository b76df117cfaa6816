--------------------------- MODULE MCLockStreams ---------------------------
\* Three holders of one consumer's lock: two wait for it, one of these keeps it
\* alive with a stream, and the third only makes unary calls.
EXTENDS LockStreams
=============================================================================
