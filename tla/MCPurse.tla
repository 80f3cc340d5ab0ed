------------------------------- MODULE MCPurse -------------------------------
(* Small instances of Purse: this vault draws s1, s2, ...; another one has *)
(* loaded a coin of 1 and makes change with it.                            *)
EXTENDS Purse

CONSTANTS s1, s2, s3, s4, s5, o1, o2, me, other

OneCoin == {[secret |-> o1, amount |-> 1]}
=============================================================================
