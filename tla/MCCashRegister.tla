--------------------------- MODULE MCCashRegister ---------------------------
(* An instance of CashRegister for TLC. *)
EXTENDS CashRegister, TLC

CONSTANTS c1, c2

MCClients == {c1, c2}
MCCost == [bread |-> 1, wine |-> 2]
\* One client can order twice and ask for the bill.
MCMaxCommands == (c1 :> 3) @@ (c2 :> 0)
=============================================================================
