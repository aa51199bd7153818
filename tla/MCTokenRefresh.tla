--------------------------- MODULE MCTokenRefresh ---------------------------
(* Instances of TokenRefresh for TLC: model values are given in the .cfg. *)
EXTENDS TokenRefresh
=============================================================================
