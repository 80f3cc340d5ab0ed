---------------------------- MODULE Denominations ----------------------------
(***************************************************************************)
(* split_amount (denom.rs): an amount in the denominations on offer, the   *)
(* largest that still fits first.                                          *)
(***************************************************************************)
EXTENDS Integers, Sequences

CONSTANTS
  Denom,          \* the denominations of the kiosk
  MaxTarget,      \* amounts up to here
  MaxSplitProofs  \* MAX_SPLIT_PROOFS

ASSUME DenominationsAssumption ==
  Denom \subseteq Nat \ {0} /\ MaxTarget \in Nat /\ MaxSplitProofs \in Nat

(* What a kiosk signs; Denom may be a part of it, or another series.       *)
KioskDenominations == {1, 2, 5, 10, 20, 50, 100, 200, 500}

NoSplit == <<0>>
IsSplit(s) == s # NoSplit

Largest(S) == CHOOSE d \in S : \A e \in S : e <= d

Greedy(avail) ==
  LET greedy[n \in 0 .. MaxTarget] ==
        LET fitting == {d \in avail : d <= n}
            rest == greedy[n - Largest(fitting)]
        IN  IF n = 0 THEN <<>>
            ELSE IF fitting = {} \/ ~ IsSplit(rest) THEN NoSplit
            ELSE <<Largest(fitting)>> \o rest
  IN  greedy

SplitUnbounded(amount, avail) == Greedy(avail)[amount]

SplitOneShort(amount, avail) ==
  LET s == Greedy(avail)[amount]
  IN  IF Len(s) >= MaxSplitProofs THEN NoSplit ELSE s

Split(amount, avail) ==
  LET s == Greedy(avail)[amount]
  IN  IF Len(s) > MaxSplitProofs THEN NoSplit ELSE s
=============================================================================
