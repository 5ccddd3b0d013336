---------------------------- MODULE MCBufferPool ----------------------------
(* Instances of BufferPool for TLC.                                        *)
EXTENDS BufferPool, TLC

\* Threads that play the same part are interchangeable.
Symm == Permutations(Allocators) \union Permutations(Threads \ Allocators)
=============================================================================
