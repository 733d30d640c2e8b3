--------------------------- MODULE MCFilamentLedger ---------------------------
(* Constants for TLC: weights that one spool covers and the other does not. *)
EXTENDS LiveStock, TLC

CONSTANTS big, small, first

TwoSpools  == big :> 100 @@ small :> 40
LargeSpool == big :> 80
SmallSpool == big :> 40
OneTask    == first :> 60
=============================================================================
