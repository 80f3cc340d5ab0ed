----------------------------- MODULE ExactSubset -----------------------------
(***************************************************************************)
(* exact_subset (denom.rs): coins of a purse that add up to an amount.     *)
(* The dynamic programme is one pass over the coins held; the variables of *)
(* this module are its variables, one step is one coin.                    *)
(***************************************************************************)
EXTENDS Denominations, Money, Functions

CONSTANT MaxCoins   \* coins in a purse

ASSUME CoinsAssumption == MaxCoins \in Nat

-----------------------------------------------------------------------------
VARIABLES
  values,   \* the coins, largest first
  target,   \* the amount to pay
  looked,   \* coins looked at
  reach     \* for each sum found: the sum before and the coin added to it

searchVars == <<values, target, looked, reach>>

Descending(s) == \A j \in 1 .. Len(s) - 1 : s[j] >= s[j + 1]

SearchInit ==
  /\ \E n \in 0 .. MaxCoins : values \in {s \in [1 .. n -> Denom] : Descending(s)}
  /\ target \in 1 .. MaxTarget
  /\ looked = 0
  /\ reach = [s \in {0} |-> [sum |-> 0, coin |-> 0]]

ConsiderReplacing ==
  /\ looked < Len(values) /\ target \notin DOMAIN reach
  /\ looked' = looked + 1
  /\ LET found == {s + values[looked'] : s \in DOMAIN reach} \cap (1 .. target)
     IN  reach' = [s \in DOMAIN reach \cup found |->
                     IF s \in found
                     THEN [sum |-> s - values[looked'], coin |-> looked']
                     ELSE reach[s]]
  /\ UNCHANGED <<values, target>>

ConsiderBelow ==
  /\ looked < Len(values) /\ target \notin DOMAIN reach
  /\ looked' = looked + 1
  /\ LET found == {s + values[looked'] : s \in DOMAIN reach} \cap (1 .. target - 1)
     IN  reach' = [s \in DOMAIN reach \cup found |->
                     IF s \in DOMAIN reach
                     THEN reach[s]
                     ELSE [sum |-> s - values[looked'], coin |-> looked']]
  /\ UNCHANGED <<values, target>>

(* One coin more: each sum found so far, plus this coin, unless that sum   *)
(* was found before.                                                       *)
Consider ==
  /\ looked < Len(values) /\ target \notin DOMAIN reach
  /\ looked' = looked + 1
  /\ LET found == {s + values[looked'] : s \in DOMAIN reach} \cap (1 .. target)
     IN  reach' = [s \in DOMAIN reach \cup found |->
                     IF s \in DOMAIN reach
                     THEN reach[s]
                     ELSE [sum |-> s - values[looked'], coin |-> looked']]
  /\ UNCHANGED <<values, target>>

Search == SearchInit /\ [][Consider]_searchVars

Finished == looked = Len(values) \/ target \in DOMAIN reach

(* The coins on the way back from a sum to zero. *)
Chosen ==
  LET back[s \in DOMAIN reach] ==
        IF s = 0 THEN <<>> ELSE <<reach[s].coin>> \o back[reach[s].sum]
  IN  back

-----------------------------------------------------------------------------
SumOf(S) == Total([j \in S |-> values[j]])

(* exact_subset: every sum the programme has found is made of different    *)
(* coins of the purse, so no coin is spent twice in one payment; and it    *)
(* refuses (NeedChange) only when no choice of coins adds up.              *)
EachCoinOnce(s) ==
  /\ \A j, k \in DOMAIN Chosen[s] : j < k => Chosen[s][j] > Chosen[s][k]
  /\ Range(Chosen[s]) \subseteq 1 .. looked
  /\ SumOf(Range(Chosen[s])) = s
PaysExactly ==
  /\ \A s \in DOMAIN reach : EachCoinOnce(s)
  /\ Finished =>
       (target \in DOMAIN reach <=>
          \E S \in SUBSET DOMAIN values : SumOf(S) = target)

(* split_amount: what it returns adds up to the amount, in denominations   *)
(* the mint offers, and within the limit; with a coin of 1 on offer only   *)
(* the limit can make it refuse.  It takes the largest first and never     *)
(* goes back, and yet, when all denominations are on offer, it refuses no  *)
(* amount that some choice of coins makes within the limit of proofs.      *)
(* (With 5 and 2 alone it refuses 6.)                                      *)
SplitIsExact(avail) ==
  LET s == Split(target, avail)
  IN  /\ IsSplit(s) =>
           /\ Range(s) \subseteq avail /\ Len(s) <= MaxSplitProofs
           /\ Total(s) = target
      /\ 1 \in avail /\ target <= MaxSplitProofs => IsSplit(s)
SplitsWhatCanBeSplit ==
  /\ SplitIsExact(Range(values))
  /\ (\E S \in SUBSET DOMAIN values :
        SumOf(S) = target /\ Cardinality(S) <= MaxSplitProofs)
       => IsSplit(Split(target, Denom))
=============================================================================
