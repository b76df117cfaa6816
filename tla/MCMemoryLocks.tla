--------------------------- MODULE MCMemoryLocks ---------------------------
\* Two holders, one of which waits, and two lock objects: the one in the map and
\* one whose timer is still running.
EXTENDS MemoryLocks
=============================================================================
