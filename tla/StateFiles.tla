----------------------------- MODULE StateFiles -----------------------------
(***************************************************************************)
(* The directory that FlashStorage (vault) and saveState/loadState (kiosk) *)
(* work in: a state file, its .tmp and its .bak, as the program sees them  *)
(* (file) and as they are on the medium (disk).  The program's view is     *)
(* lost when the power goes, and with it whatever was not synced:          *)
(*   - data written and not synced may be there, missing or torn;          *)
(*   - a rename is there or not; what came after it is not there without   *)
(*     it (the file system commits its changes of names in order);         *)
(*   - syncing a file also commits the renames before it.                  *)
(* A killed process loses nothing that it has written.                     *)
(***************************************************************************)
CONSTANTS
  Value,            \* states of the program
  Nothing,          \* no state
  Absent, Empty, Corrupt,   \* a file that is missing, empty, unreadable
  FaultModels       \* which faults occur together: a set of subsets of AllFaults

AllFaults ==
  {"crash",   \* the process is killed
   "power",   \* the power is cut
   "io",      \* a file operation of a save or a wipe fails
   "loadIo",  \* a rename or copy of load fails, which it ignores
   "wear",    \* the state file goes bad while nobody writes it
   "wipe"}    \* not a fault: the program wipes its state

ASSUME FilesAssumption ==
  /\ FaultModels \subseteq SUBSET AllFaults
  /\ {Nothing, Absent, Empty, Corrupt} \cap Value = {}
  /\ Absent # Empty /\ Absent # Corrupt /\ Empty # Corrupt
  /\ Nothing \notin {Absent, Empty, Corrupt}

VARIABLES
  faults,   \* the faults that may occur in this run: one of FaultModels
  file,     \* contents of the three files as the program sees them
  disk,     \* contents of the three files on the medium
  pc,       \* where the program is
  saving,   \* the state being saved; Nothing when no save is under way
  acked,    \* the last state loaded or acknowledged as saved
  prior,    \* the last different one before
  failed    \* states of the saves since then that failed or were cut short

fileVars == <<file, disk>>
logVars == <<saving, acked, prior, failed, faults>>
vars == <<fileVars, pc, logVars>>

Content == Value \cup {Absent, Empty, Corrupt}
Files == [primary : Content, tmp : Content, bak : Content]
NoFiles == [primary |-> Absent, tmp |-> Absent, bak |-> Absent]

(* A write can be cut short anywhere. *)
Torn == {Empty, Corrupt}

Sync == disk' = [disk EXCEPT !.primary = file.primary, !.tmp = file.tmp]

(* The system writes everything out in its own time. *)
WriteBack ==
  /\ "power" \in faults
  /\ disk # file
  /\ disk' = file
  /\ UNCHANGED <<file, pc, logVars>>

(* Contents of a file that may have reached the medium or not. *)
InDoubt(old, new) == IF old = new THEN {old} ELSE {old, new} \cup Torn

AfterPowerCut ==
  LET renamed == file.primary # disk.primary
      notYet == [primary : {disk.primary}, tmp : {disk.tmp},
                 bak : InDoubt(disk.bak, file.bak)]
      done == [primary : {file.primary},
               tmp : InDoubt(IF renamed THEN Absent ELSE disk.tmp, file.tmp),
               bak : InDoubt(disk.bak, file.bak)]
  IN  done \cup (IF renamed THEN notYet ELSE {})

GiveUp ==
  /\ saving' = Nothing
  /\ failed' = IF saving = Nothing THEN failed ELSE failed \cup {saving}
  /\ UNCHANGED <<acked, prior, faults>>

Kill ==
  /\ "crash" \in faults
  /\ pc' = "down"
  /\ GiveUp
  /\ UNCHANGED fileVars

PowerCut ==
  /\ "power" \in faults
  /\ file' \in AfterPowerCut
  /\ disk' = file'
  /\ pc' = "down"
  /\ GiveUp

(* The state file becomes unreadable or empty while nobody writes it. *)
Wear ==
  /\ "wear" \in faults /\ pc = "idle"
  /\ file.primary \in Value
  /\ \E c \in Torn : file' = [file EXCEPT !.primary = c]
  /\ disk' = file'
  /\ pc' = "down"
  /\ UNCHANGED logVars
=============================================================================
