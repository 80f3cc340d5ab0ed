---------------------------- MODULE FlashStorage ----------------------------
(***************************************************************************)
(* The vault's state file (storage.rs): save writes and syncs .tmp, copies *)
(* it to .bak and renames it over the state file; load falls back on .tmp  *)
(* and .bak; wipe removes all three.  One action is one call to the file   *)
(* system, so a crash or a power cut can fall between any two.             *)
(***************************************************************************)
EXTENDS StateFiles

Init ==
  /\ faults \in FaultModels
  /\ file = NoFiles /\ disk = NoFiles
  /\ pc = "idle"
  /\ saving = Nothing /\ acked = Nothing /\ prior = Nothing /\ failed = {}

-----------------------------------------------------------------------------
(* What load returns.  A missing or an empty state file with no readable   *)
(* .tmp or .bak is a new, empty vault; an unreadable one is an error.      *)

Error == Corrupt

Fallback ==
  CASE file.tmp \in Value -> file.tmp
    [] file.tmp \notin Value /\ file.bak \in Value -> file.bak
    [] OTHER -> IF file.primary = Corrupt THEN Error ELSE Nothing

Loaded == IF file.primary \in Value THEN file.primary ELSE Fallback

-----------------------------------------------------------------------------
Begin(v) ==
  /\ pc = "idle"
  /\ saving' = v
  /\ pc' = "create"
  /\ UNCHANGED <<fileVars, acked, prior, failed, faults>>

CreateTmp ==
  /\ pc = "create"
  /\ file' = [file EXCEPT !.tmp = Empty]
  /\ pc' = "write"
  /\ UNCHANGED <<disk, logVars>>

(* In one piece or, first, a part of it. *)
WriteTmp ==
  /\ pc = "write"
  /\ \/ file' = [file EXCEPT !.tmp = Corrupt] /\ pc' = pc
     \/ file' = [file EXCEPT !.tmp = saving] /\ pc' = "sync"
  /\ UNCHANGED <<disk, logVars>>

SkipSync ==
  /\ pc = "sync"
  /\ pc' = "copy"
  /\ UNCHANGED <<fileVars, logVars>>

SyncTmp ==
  /\ pc = "sync"
  /\ Sync
  /\ pc' = "copy"
  /\ UNCHANGED <<file, logVars>>

(* fs::copy truncates .bak and fills it; its errors are ignored, and it    *)
(* does not sync.                                                          *)
TruncateBak ==
  /\ pc = "copy"
  /\ file' = [file EXCEPT !.bak = Empty]
  /\ pc' = "fill"
  /\ UNCHANGED <<disk, logVars>>

FillBakWithOld ==
  /\ pc = "fill"
  /\ file' = [file EXCEPT !.bak = file.primary]
  /\ pc' = "rename"
  /\ UNCHANGED <<disk, logVars>>

FillBak ==
  /\ pc = "fill"
  /\ file' = [file EXCEPT !.bak = saving]
  /\ pc' = "rename"
  /\ UNCHANGED <<disk, logVars>>

CopyFails ==
  /\ "io" \in faults
  /\ pc \in {"copy", "fill"}
  /\ pc' = "rename"
  /\ UNCHANGED <<fileVars, logVars>>

(* The rename, and save returns. *)
Rename ==
  /\ pc = "rename"
  /\ file' = [file EXCEPT !.primary = file.tmp, !.tmp = Absent]
  /\ pc' = "idle"
  /\ saving' = Nothing /\ acked' = saving /\ prior' = (IF saving = acked THEN prior ELSE acked)
  /\ failed' = {}
  /\ UNCHANGED <<disk, faults>>

(* Any other call that fails ends the save with an error. *)
SaveFails ==
  /\ "io" \in faults
  /\ pc \in {"create", "write", "sync", "rename"}
  /\ pc' = "idle"
  /\ GiveUp
  /\ UNCHANGED fileVars

-----------------------------------------------------------------------------
(* load, when the vault starts.  A readable .tmp is renamed over the state *)
(* file, a readable .bak is copied there; errors of both are ignored.      *)

Started(v) ==
  /\ acked' = v
  /\ prior' = IF v = acked THEN prior ELSE acked
  /\ failed' = {}
  /\ UNCHANGED <<saving, faults>>

Load ==
  /\ pc = "down" /\ file.primary \in Value
  /\ pc' = "idle"
  /\ Started(file.primary)
  /\ UNCHANGED fileVars

LoadTmp ==
  /\ pc = "down" /\ file.primary \notin Value /\ file.tmp \in Value
  /\ \/ file' = [file EXCEPT !.primary = file.tmp, !.tmp = Absent]
     \/ "loadIo" \in faults /\ file' = file
  /\ pc' = "idle"
  /\ Started(file.tmp)
  /\ UNCHANGED disk

LoadBak ==
  /\ pc = "down" /\ file.primary \notin Value
  /\ file.tmp \notin Value /\ file.bak \in Value
  /\ \/ file' = [file EXCEPT !.primary = Empty] /\ pc' = "restore"
     \/ "loadIo" \in faults /\ file' = file /\ pc' = "idle"
  /\ Started(file.bak)
  /\ UNCHANGED disk

RestoreFromBak ==
  /\ pc = "restore"
  /\ \/ file' = [file EXCEPT !.primary = file.bak]
     \/ "loadIo" \in faults /\ file' = file
  /\ pc' = "idle"
  /\ UNCHANGED <<disk, logVars>>

LoadNothing ==
  /\ pc = "down" /\ Loaded = Nothing
  /\ pc' = "idle"
  /\ Started(Nothing)
  /\ UNCHANGED fileVars

-----------------------------------------------------------------------------
(* wipe: the state file first; the errors of the other two are ignored. *)

WipePrimary ==
  /\ "wipe" \in faults /\ pc = "idle"
  /\ file' = [file EXCEPT !.primary = Absent]
  /\ pc' = "wipeTmp"
  /\ UNCHANGED <<disk, logVars>>

WipeTmp ==
  /\ pc = "wipeTmp"
  /\ \/ file' = [file EXCEPT !.tmp = Absent]
     \/ "io" \in faults /\ file' = file
  /\ pc' = "wipeBak"
  /\ UNCHANGED <<disk, logVars>>

SkipBak ==
  /\ pc = "wipeBak"
  /\ pc' = "wiped"
  /\ UNCHANGED <<fileVars, logVars>>

WipeBak ==
  /\ pc = "wipeBak"
  /\ \/ file' = [file EXCEPT !.bak = Absent]
     \/ "io" \in faults /\ file' = file
  /\ pc' = "wiped"
  /\ UNCHANGED <<disk, logVars>>

(* The vault goes on with an empty state in memory. *)
AfterWipe ==
  /\ pc = "wiped"
  /\ pc' = "idle"
  /\ Started(Nothing)
  /\ UNCHANGED fileVars

Next ==
  \/ \E v \in Value : Begin(v)
  \/ CreateTmp \/ WriteTmp \/ SyncTmp
  \/ TruncateBak \/ FillBak \/ CopyFails
  \/ Rename \/ SaveFails
  \/ Load \/ LoadTmp \/ LoadBak \/ RestoreFromBak \/ LoadNothing
  \/ WipePrimary \/ WipeTmp \/ WipeBak \/ AfterWipe
  \/ WriteBack \/ Kill \/ PowerCut \/ Wear

Spec == Init /\ [][Next]_vars

-----------------------------------------------------------------------------
(* What Purse, Terminal and Keysets assume of a save (FlashStorage::save,  *)
(* load).  One that a crash or an error interrupts is done or not done,    *)
(* and one that returned is what the next start loads; only a power cut    *)
(* can take the last one back, never the one before it.                    *)
Store == INSTANCE AtomicStore WITH durable <- "power" \notin faults

(* Whatever happens between two calls of save, load and the next save, the *)
(* vault starts again, and never empty in place of full: what load finds   *)
(* is readable, and is the last state saved, one whose save was cut short, *)
(* or, when a power cut undid the rename itself, the state before.         *)
LoadFindsState ==
  "wipe" \notin faults /\ pc \in {"idle", "down"} =>
    Loaded \in {acked} \cup failed
              \cup (IF "power" \in faults THEN {prior} ELSE {})

(* "Complete vault wipe (e.g. tamper detection / duress)" (vault.rs:886):  *)
(* once wipe has returned Ok, with no file operation failing unseen, the   *)
(* next start finds an empty vault, whatever saves, crashes and recoveries *)
(* came before.  (wipe ignores that .tmp or .bak could not be removed;     *)
(* load then restores what is in them.)                                    *)
WipeIsComplete == "io" \notin faults /\ pc = "wiped" => Loaded = Nothing
=============================================================================
