------------------------------ MODULE MCBlockIo ------------------------------
(* BlockIo for TLC: cells of a block hold model values. *)
EXTENDS BlockIo

=============================================================================
