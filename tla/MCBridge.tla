------------------------------ MODULE MCBridge ------------------------------
(* The bridge with a few villagers from each side.                         *)
EXTENDS Bridge
=============================================================================
