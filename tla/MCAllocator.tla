---------------------------- MODULE MCAllocator -----------------------------
(* Model-checking instance of Allocator: nothing, half a block, one or two *)
(* blocks and more than a page.                                            *)
EXTENDS Allocator

SomeLens == {0, 1, 2, 4, 10}
=============================================================================
