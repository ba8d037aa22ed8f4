------------------------------ MODULE MCWallet ------------------------------
(* Instances of Wallet: one user, one QQ number, an order of each. *)
EXTENDS Wallet

CONSTANTS user, qq, webOrder, botOrder

MCPayer == [o \in Orders |-> IF o = webOrder THEN user ELSE qq]
MCPrice == [o \in Orders |-> 2]
=============================================================================
