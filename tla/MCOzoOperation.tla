--------------------------- MODULE MCOzoOperation ---------------------------
(***************************************************************************)
(* OzoOperation for TLC: the constants are numbers and booleans.           *)
(***************************************************************************)
EXTENDS OzoOperation
=============================================================================
