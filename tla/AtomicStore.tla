----------------------------- MODULE AtomicStore -----------------------------
(***************************************************************************)
(* What the vault and the kiosk want from their state files: a save        *)
(* replaces the whole state or leaves it alone.  One that returned is what *)
(* later loads find; one that failed or was cut short may be found by the  *)
(* next load or not; what a load has found, later loads find too.  On a    *)
(* medium that can lose what was written last, a load may find the state   *)
(* before, and never an older one.                                         *)
(***************************************************************************)
CONSTANTS
  Value,    \* states of the program
  Nothing   \* no state was ever saved

VARIABLES
  durable,  \* the medium loses nothing
  saving,   \* the state being saved; Nothing when no save is under way
  acked,    \* the last state loaded or acknowledged as saved
  prior,    \* the last different one before
  failed    \* states of the saves since then that failed or were cut short

vars == <<durable, saving, acked, prior, failed>>

Init ==
  /\ durable \in BOOLEAN
  /\ saving = Nothing /\ acked = Nothing /\ prior = Nothing /\ failed = {}

(* v becomes the state of the store. *)
Settle(v) ==
  /\ acked' = v
  /\ prior' = IF v = acked THEN prior ELSE acked
  /\ failed' = {}

Begin ==
  /\ saving = Nothing
  /\ saving' \in Value
  /\ UNCHANGED <<durable, acked, prior, failed>>

Return ==
  /\ saving # Nothing
  /\ Settle(saving)
  /\ saving' = Nothing
  /\ UNCHANGED durable

Fail ==
  /\ saving # Nothing
  /\ failed' = failed \cup {saving}
  /\ saving' = Nothing
  /\ UNCHANGED <<durable, acked, prior>>

Load ==
  /\ saving = Nothing
  /\ \E v \in {acked} \cup failed \cup (IF durable THEN {} ELSE {prior}) :
       Settle(v)
  /\ UNCHANGED <<durable, saving>>

Next == Begin \/ Return \/ Fail \/ Load

Spec == Init /\ [][Next]_vars
=============================================================================
