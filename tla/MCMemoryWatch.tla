--------------------------- MODULE MCMemoryWatch ---------------------------
\* One kind that is watched and one that is not; the stream outgrows the channel.
EXTENDS MemoryWatch
=============================================================================
