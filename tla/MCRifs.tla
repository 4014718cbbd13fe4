------------------------------- MODULE MCRifs -------------------------------
(***************************************************************************)
(* Two DOS processes, tables of at most two files and two host pointers:   *)
(* a third process or file adds no new order of opening, closing and       *)
(* reusing, and with two pointers every close is followed by their reuse.  *)
(***************************************************************************)
EXTENDS RifsLink, TLC

CONSTANTS p1, p2, h1, h2

MCPids    == {p1, p2}
MCHandles == {h1, h2}
Sym       == Permutations(MCPids) \cup Permutations(MCHandles)
=============================================================================
