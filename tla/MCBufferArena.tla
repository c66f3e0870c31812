---------------------------- MODULE MCBufferArena ----------------------------
\* Two processes that write and one that reads, on an arena of two units
\* with extents of two sizes.
EXTENDS BufferArena

CONSTANTS p, q, r

=============================================================================
