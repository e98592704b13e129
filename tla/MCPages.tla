------------------------------ MODULE MCPages --------------------------------
(***************************************************************************)
(* Instances of Pages for TLC: two orders at one table, one at another.    *)
(***************************************************************************)
EXTENDS Pages, TLC

CONSTANTS ta, tb

TableOfOrder == <<ta, ta, tb>>

Symmetric == Permutations(Row)
=============================================================================
