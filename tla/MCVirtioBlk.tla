----------------------------- MODULE MCVirtioBlk -----------------------------
(* VirtioBlk for TLC: blocks hold model values. *)
EXTENDS VirtioBlk

=============================================================================
