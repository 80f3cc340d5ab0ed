-------------------------------- MODULE Money --------------------------------
(***************************************************************************)
(* Sums of amounts.  The kiosk never keeps a running total of its ledgers: *)
(* Reconcile, owedTotalLocked and balancesLocked loop over the deposits,   *)
(* the settlement log, the payouts and the devices and add the amounts up. *)
(*                                                                         *)
(* A sum is written here as the number of money units it consists of, each *)
(* unit tagged with what it belongs to.  That is a closed form: no         *)
(* recursion and no fold, so that MoneyLemmas can prove how a sum changes  *)
(* when a ledger grows from the library's theorems on cardinalities.       *)
(* (MCKiosk checks it against the summation of the community modules.)     *)
(***************************************************************************)
EXTENDS Integers, FiniteSets

(* The units of f[x], for every x: <<x, 1>>, <<x, 2>>, ..., <<x, f[x]>>. *)
Units(f) == UNION {{x} \X (1 .. f[x]) : x \in DOMAIN f}

(* The sum of f[x] over the domain of f. *)
Total(f) == Cardinality(Units(f))

(* The sum of the amounts of a set of records: deposits, log entries,      *)
(* payouts, proofs.                                                        *)
Amounts(S) == [r \in S |-> r.amount]
Value(S) == Total(Amounts(S))
=============================================================================
