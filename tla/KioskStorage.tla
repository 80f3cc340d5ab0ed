---------------------------- MODULE KioskStorage ----------------------------
(***************************************************************************)
(* The kiosk's state file (saveState, loadState, NewKiosk): a save writes  *)
(* and syncs .tmp, keeps the state it replaces as .bak and renames .tmp    *)
(* over the state file.  A start reads the first of the three files that   *)
(* is readable and saves what it read; it refuses to start when there are  *)
(* files and none is readable, and makes a new mint, with new keys, only   *)
(* when there is none.                                                     *)
(***************************************************************************)
EXTENDS StateFiles

VARIABLE starting   \* the save under way is part of the start

Init ==
  /\ faults \in FaultModels
  /\ file = NoFiles /\ disk = NoFiles
  /\ pc = "down" /\ starting = FALSE
  /\ saving = Nothing /\ acked = Nothing /\ prior = Nothing /\ failed = {}

-----------------------------------------------------------------------------
(* What a start finds. *)

Refused == Corrupt

SomeFile == \E f \in DOMAIN file : file[f] # Absent

Loaded ==
  CASE file.primary \in Value -> file.primary
    [] file.primary \notin Value /\ file.tmp \in Value -> file.tmp
    [] file.primary \notin Value /\ file.tmp \notin Value
         /\ file.bak \in Value -> file.bak
    [] OTHER -> IF SomeFile THEN Refused ELSE Nothing

-----------------------------------------------------------------------------
Start ==
  /\ pc = "down" /\ file.primary \in Value
  /\ pc' = "idle"
  /\ acked' = Loaded
  /\ prior' = IF Loaded = acked THEN prior ELSE acked
  /\ failed' = {}
  /\ UNCHANGED <<fileVars, saving, faults, starting>>

(* A state read from .tmp or .bak is saved before the kiosk serves. *)
StartRecovered ==
  /\ pc = "down" /\ file.primary \notin Value /\ Loaded \in Value
  /\ pc' = "create"
  /\ saving' = Loaded
  /\ starting' = TRUE
  /\ UNCHANGED <<fileVars, acked, prior, failed, faults>>

(* A new mint. *)
StartFresh(v) ==
  /\ pc = "down" /\ Loaded = Nothing
  /\ pc' = "create"
  /\ saving' = v
  /\ starting' = TRUE
  /\ UNCHANGED <<fileVars, acked, prior, failed, faults>>

(* An operation saves its new state. *)
Begin(v) ==
  /\ pc = "idle"
  /\ pc' = "create"
  /\ saving' = v
  /\ UNCHANGED <<fileVars, acked, prior, failed, faults, starting>>

-----------------------------------------------------------------------------
WriteInPlace ==
  /\ pc = "create"
  /\ file' = [file EXCEPT !.primary = Empty, !.tmp = Empty]
  /\ pc' = "write"
  /\ UNCHANGED <<disk, logVars, starting>>

CreateTmp ==
  /\ pc = "create"
  /\ file' = [file EXCEPT !.tmp = Empty]
  /\ pc' = "write"
  /\ UNCHANGED <<disk, logVars, starting>>

WriteTmp ==
  /\ pc = "write"
  /\ \/ file' = [file EXCEPT !.tmp = Corrupt] /\ pc' = pc
     \/ file' = [file EXCEPT !.tmp = saving] /\ pc' = "sync"
  /\ UNCHANGED <<disk, logVars, starting>>

SkipSync ==
  /\ pc = "sync"
  /\ pc' = "copy"
  /\ UNCHANGED <<fileVars, logVars, starting>>

SyncTmp ==
  /\ pc = "sync"
  /\ Sync
  /\ pc' = "copy"
  /\ UNCHANGED <<file, logVars, starting>>

(* .bak gets the state that is being replaced, if it is readable.          *)
TruncateBakAlways ==
  /\ pc = "copy"
  /\ file' = [file EXCEPT !.bak = Empty]
  /\ pc' = "fill"
  /\ UNCHANGED <<disk, logVars, starting>>

TruncateBak ==
  /\ pc = "copy" /\ file.primary \in Value
  /\ file' = [file EXCEPT !.bak = Empty]
  /\ pc' = "fill"
  /\ UNCHANGED <<disk, logVars, starting>>

FillBak ==
  /\ pc = "fill"
  /\ file' = [file EXCEPT !.bak = file.primary]
  /\ pc' = "rename"
  /\ UNCHANGED <<disk, logVars, starting>>

KeepBak ==
  /\ \/ pc = "copy" /\ file.primary \notin Value
     \/ "io" \in faults /\ pc \in {"copy", "fill"}
  /\ pc' = "rename"
  /\ UNCHANGED <<fileVars, logVars, starting>>

Rename ==
  /\ pc = "rename"
  /\ file' = [file EXCEPT !.primary = file.tmp, !.tmp = Absent]
  /\ pc' = "idle"
  /\ saving' = Nothing /\ acked' = saving
  /\ prior' = IF saving = acked THEN prior ELSE acked
  /\ failed' = {}
  /\ starting' = FALSE
  /\ UNCHANGED <<disk, faults>>

(* An operation reports the error; a start gives up. *)
SaveFails ==
  /\ "io" \in faults
  /\ pc \in {"create", "write", "sync", "rename"}
  /\ pc' = IF starting THEN "down" ELSE "idle"
  /\ starting' = FALSE
  /\ GiveUp
  /\ UNCHANGED fileVars

Fault ==
  \/ WriteBack /\ UNCHANGED starting
  \/ (Kill \/ PowerCut) /\ starting' = FALSE
  \/ Wear /\ UNCHANGED starting

Next ==
  \/ Start \/ StartRecovered
  \/ \E v \in Value : StartFresh(v) \/ Begin(v)
  \/ CreateTmp \/ WriteTmp \/ SyncTmp
  \/ TruncateBak \/ FillBak \/ KeepBak
  \/ Rename \/ SaveFails
  \/ Fault

Spec == Init /\ [][Next]_<<vars, starting>>

-----------------------------------------------------------------------------
(* A save loses nothing that it acknowledged, unless the power is cut or   *)
(* the state file goes bad.                                                *)
Durable == faults \cap {"power", "wear"} = {}

(* What KioskServer assumes of a save: one that a crash or an error        *)
(* interrupts is done or not done, and one that returned is what the next  *)
(* start reads; a power cut or a bad state file takes back at most the     *)
(* last one (saveState, loadState).                                        *)
Store == INSTANCE AtomicStore WITH durable <- Durable

(* A kiosk that has saved its keys starts with them again, and with the    *)
(* last state saved or one whose save did not finish: it is never refused  *)
(* its start and never becomes a new mint, for which every token out is    *)
(* worthless.                                                              *)
StartsAgain ==
  Durable /\ pc = "down" /\ acked # Nothing => Loaded \in {acked} \cup failed

(* The same when the power is cut between any two calls, or when the state *)
(* file goes bad, except that the last operation may be lost, as loadState *)
(* says when it recovers; and once there is a state before the last one.   *)
StartsWithoutLast ==
  pc = "down" /\ prior # Nothing => Loaded \in {acked, prior} \cup failed
=============================================================================
