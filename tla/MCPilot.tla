------------------------------- MODULE MCPilot -------------------------------
(* Pilot on a small instance, for TLC. *)
EXTENDS Pilot, TLC

(* Nothing tells references, threads or secrets apart. *)
Symmetry == Permutations(Ref) \cup Permutations(Thread) \cup Permutations(Secret)

(* While the check reads, credits come from the operator's command only:   *)
(* the kiosk's books cannot tell it from a rail or a late request.         *)
CheckWithoutRail ==
  audit # Idle => late = {} /\ seen = {} /\ \A t \in Thread : thread[t] = Idle
=============================================================================
