------------------------------- MODULE MCKiosk -------------------------------
(***************************************************************************)
(* Small instances of Kiosk for TLC.                                       *)
(***************************************************************************)
EXTENDS Kiosk, TLC, FiniteSetsExt, Functions

CONSTANTS s1, s2, s3, m1

(* With anonymous issuance no quota bounds what is signed: two secrets and *)
(* one request of a device. *)
FewAnonymous ==
  allowAnon => s2 \notin Secrets(signed) /\ \A d \in Device : lastSeq[d] <= 1

(* The sums of Money are the sums of the community modules. *)
ASSUME TotalIsTheSum ==
  \A D \in SUBSET {s1, s2, s3} : \A f \in [D -> 0 .. 3] :
    Total(f) = FoldFunction(+, 0, f)
ASSUME ValueIsTheSum ==
  \A S \in SUBSET [ref : Ref, amount : 1 .. 3] :
    Value(S) = MapThenSumSet(LAMBDA r : r.amount, S)
=============================================================================
