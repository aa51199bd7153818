--------------------------- MODULE MCManualFetch ---------------------------
(* Instances of ManualFetch for TLC: model values are given in the .cfg. *)
EXTENDS ManualFetch
=============================================================================
