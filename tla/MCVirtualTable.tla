---------------------------- MODULE MCVirtualTable ----------------------------
(* Small instances of VirtualTable. *)
EXTENDS VirtualTable, TLC

CONSTANT t1

\* A table function with two rows.
TwoRows == (t1 :> 2)
=============================================================================
