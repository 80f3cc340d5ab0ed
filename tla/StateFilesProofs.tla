-------------------------- MODULE StateFilesProofs -------------------------
(***************************************************************************)
(* The state files of kiosk and vault are atomic stores, for any set of    *)
(* program states, under every group of faults of MCStateFiles.            *)
(*                                                                         *)
(* The invariant says, for each group of faults, where the last state is.  *)
(* Killed or failing processes leave it in the state file, as only the     *)
(* rename touches that (Kept).  A power cut can undo the rename, so the    *)
(* medium holds the last state or the one before (OnMedium), and, while    *)
(* the first rename of all may be undone, the last state is synced in .tmp *)
(* (Undone, FirstSave).  When the state file goes bad the state is in .bak *)
(* (InBak).                                                                *)
(***************************************************************************)
EXTENDS MCStateFiles, TLAPS

SavePcs == {"create", "write", "sync", "copy", "fill", "rename"}
VaultPcs == {"restore", "wipeTmp", "wipeBak", "wiped"}

(* A save writes its state into .tmp first, and only saves have one. *)
Typed ==
  /\ faults \in AllFaultModels
  /\ file \in Files /\ disk \in Files
  /\ acked \in Value \cup {Nothing} /\ prior \in Value \cup {Nothing}
  /\ failed \subseteq Value
  /\ pc \in {"down", "idle"} \cup SavePcs \cup VaultPcs
  /\ IF pc \in SavePcs THEN saving \in Value ELSE saving = Nothing
  /\ pc \in {"sync", "copy", "fill", "rename"} => file.tmp = saving

(* What has been synced, and not changed since. *)
Synced ==
  pc \in {"copy", "fill", "rename"} =>
    disk.primary = file.primary /\ disk.tmp = file.tmp

-----------------------------------------------------------------------------
(* The kiosk. *)

KioskTypes ==
  /\ faults \in KioskFaultModels /\ pc \notin VaultPcs
  /\ starting \in BOOLEAN /\ (starting => pc \in SavePcs)
  /\ acked = Nothing => prior = Nothing

(* Kills and failing operations. *)
KioskKept ==
  \/ file.primary = acked /\ acked \in Value
  \/ file.primary = Absent /\ acked = Nothing

(* No save has returned. *)
KioskFirstSave ==
  /\ acked = Nothing
  /\ file.primary = Absent /\ disk.primary = Absent
  /\ file.bak = Absent /\ disk.bak = Absent

(* The first rename is not on the medium; or it was undone, and the start  *)
(* saves again what it finds in .tmp.                                      *)
KioskUndone ==
  /\ acked \in Value /\ prior = Nothing
  /\ disk.primary = Absent
  /\ file.bak = Absent /\ disk.bak = Absent
  /\ \/ file.primary = acked /\ disk.tmp = acked
     \/ /\ file.primary = Absent
        /\ {file.tmp, disk.tmp} \subseteq {acked, Empty, Corrupt}
        /\ pc \in {"down"} \cup SavePcs /\ saving \in {Nothing, acked}
        /\ pc \in SavePcs => starting

(* The medium has the last state or the one before; the state file is the  *)
(* last one, but for a power cut that has just undone the rename.          *)
KioskOnMedium ==
  /\ acked \in Value
  /\ disk.primary \in {acked, prior} \cap Value
  /\ file.primary # acked => pc = "down" /\ file.primary = disk.primary

(* A file that goes bad: .bak has the state before, or the one recovered,  *)
(* and there is nothing in .tmp that a start would read instead.           *)
KioskInBak ==
  /\ pc \in {"idle", "down"} => file.tmp = Absent
  /\ prior # Nothing => file.bak # Absent
  /\ file.bak # Absent /\ pc # "fill" => file.bak \in {acked, prior} \cap Value
  /\ \/ file.primary = Absent /\ acked = Nothing /\ file.bak = Absent
        /\ pc # "fill"
     \/ /\ acked \in Value /\ file.primary = acked
        /\ pc = "rename" => file.bak = acked
     \/ /\ acked \in Value /\ file.primary \in Torn
        /\ pc # "down" =>
             pc \in SavePcs \ {"fill"} /\ saving = file.bak

KioskInv ==
  program = "kiosk" =>
    /\ KioskTypes
    /\ faults = {"crash", "io"} => KioskKept
    /\ faults = {"crash", "io", "power"} =>
         Synced /\ (KioskFirstSave \/ KioskUndone \/ KioskOnMedium)
    /\ faults = {"wear"} => KioskInBak

-----------------------------------------------------------------------------
(* The vault. *)

VaultTypes ==
  /\ faults \in VaultFaultModels
  /\ pc \in {"wipeTmp", "wipeBak", "wiped"} => "wipe" \in faults

(* Kills and failing operations: the state is in the state file, but for   *)
(* the first saves, which may leave theirs in .tmp or .bak, and a recovery *)
(* from .bak that was cut short.                                           *)
VaultKept ==
  \/ file.primary = acked /\ acked \in Value /\ pc # "restore"
  \/ /\ file.primary = Absent /\ acked = Nothing
     /\ {file.tmp, file.bak} \cap Value \subseteq failed \cup {saving}
     /\ pc # "restore"
  \/ /\ file.primary = Empty /\ acked \in Value /\ file.bak = acked
     /\ file.tmp \notin Value
     /\ pc \in {"restore", "down"}

(* No save has returned that the medium knows of. *)
VaultFirstSave ==
  /\ file.primary = Absent /\ disk.primary = Absent
  /\ pc # "down" => acked = Nothing
  /\ pc \in {"idle", "create", "write"} =>
       file.tmp \notin Value /\ disk.tmp \notin Value
  /\ disk.tmp \in Value => disk.tmp = file.tmp
  /\ disk.tmp \notin Value => {file.bak, disk.bak} \cap Value = {}
  /\ pc = "down" =>
       IF file.tmp \in Value
       THEN /\ file.tmp \in {acked, prior} \cup failed
            /\ disk.tmp \notin Value => acked = Nothing
       ELSE Nothing \in {acked, prior}

(* The first rename is not on the medium. *)
VaultUndone ==
  /\ file.primary = acked /\ acked \in Value
  /\ disk.primary = Absent
  /\ IF disk.tmp \in Value
     THEN disk.tmp = acked
     ELSE prior = Nothing /\ {file.bak, disk.bak} \cap Value = {}

(* As for the kiosk. *)
VaultOnMedium ==
  /\ acked \in Value
  /\ disk.primary \in {acked, prior} \cap Value
  /\ file.primary # acked => pc = "down" /\ file.primary = disk.primary

(* A file that goes bad: .bak has the last state, but while it is written. *)
VaultInBak ==
  /\ pc \in {"idle", "down", "restore"} => file.tmp = Absent
  /\ \/ /\ acked = Nothing /\ file.primary = Absent /\ pc # "down"
        /\ pc \notin {"fill", "rename"} => file.bak = Absent
     \/ /\ acked \in Value
        /\ file.primary \in {acked} \cup Torn
        /\ pc \notin {"fill", "rename"} => file.bak = acked
  /\ pc = "rename" => file.bak = saving

Wiping ==
  /\ pc \in {"wipeTmp", "wipeBak", "wiped"} => file.primary = Absent
  /\ "io" \notin faults =>
       /\ pc \in {"wipeBak", "wiped"} => file.tmp = Absent
       /\ pc = "wiped" => file.bak = Absent

VaultInv ==
  program = "vault" =>
    /\ VaultTypes /\ Wiping
    /\ faults = {"crash", "io"} => VaultKept
    /\ faults = {"crash", "power"} =>
         /\ Synced /\ pc # "restore"
         /\ VaultFirstSave \/ VaultUndone \/ VaultOnMedium
    /\ faults = {"wear", "loadIo"} => VaultInBak

Inv == program \in {"kiosk", "vault"} /\ Typed /\ KioskInv /\ VaultInv

-----------------------------------------------------------------------------
(* Lemmas about the directory. *)

LEMMA Contents ==
  /\ Absent \notin Value /\ Empty \notin Value /\ Corrupt \notin Value
  /\ Nothing \notin Value /\ Nothing # Corrupt
  /\ Absent # Empty /\ Absent # Corrupt /\ Empty # Corrupt
BY FilesAssumption

(* What the medium may hold after a power cut: with the last rename all    *)
(* that the program saw, but that .tmp and .bak may be old or torn;        *)
(* without it only .bak may have changed.                                  *)
OldTmp == IF file.primary # disk.primary THEN Absent ELSE disk.tmp
MayBe(c, old, new) == IF old = new THEN c = old ELSE c \in {old, new} \cup Torn

LEMMA PowerCutLeaves ==
  ASSUME file \in Files, disk \in Files, NEW f \in AfterPowerCut
  PROVE  /\ f \in Files
         /\ MayBe(f.bak, disk.bak, file.bak)
         /\ \/ f.primary = file.primary /\ MayBe(f.tmp, OldTmp, file.tmp)
            \/ f.primary = disk.primary /\ f.tmp = disk.tmp
<1> DEFINE done ==
      [primary : {file.primary}, tmp : InDoubt(OldTmp, file.tmp),
       bak : InDoubt(disk.bak, file.bak)]
<1> DEFINE notYet ==
      [primary : {disk.primary}, tmp : {disk.tmp},
       bak : InDoubt(disk.bak, file.bak)]
<1>1. f \in done \/ f \in notYet
  BY DEF AfterPowerCut, OldTmp
<1>2. InDoubt(disk.bak, file.bak) \subseteq Content
  BY DEF InDoubt, Torn, Content, Files
<1>3. InDoubt(OldTmp, file.tmp) \subseteq Content
  BY DEF InDoubt, Torn, Content, Files, OldTmp
<1>4. f \in Files
  BY <1>1, <1>2, <1>3  DEF Files
<1>5. f.bak \in InDoubt(disk.bak, file.bak)
  BY <1>1
<1>6. \/ f.primary = file.primary /\ f.tmp \in InDoubt(OldTmp, file.tmp)
      \/ f.primary = disk.primary /\ f.tmp = disk.tmp
  BY <1>1
<1> QED BY <1>4, <1>5, <1>6 DEF InDoubt, MayBe

(* Both programs meet the faults of StateFiles. *)
LEMMA KioskFaultSteps ==
  /\ Kiosk!WriteBack => WriteBack
  /\ Kiosk!Kill => Kill
  /\ Kiosk!PowerCut => PowerCut
  /\ Kiosk!Wear => Wear
  /\ Kiosk!GiveUp => GiveUp
BY DEF Kiosk!WriteBack, WriteBack, Kiosk!Kill, Kill, Kiosk!PowerCut, PowerCut,
       Kiosk!Wear, Wear, Kiosk!GiveUp, GiveUp, Kiosk!AfterPowerCut,
       AfterPowerCut, Kiosk!InDoubt, InDoubt, Kiosk!Torn, Torn,
       Kiosk!fileVars, fileVars, Kiosk!logVars, logVars

LEMMA VaultFaultSteps ==
  /\ Vault!WriteBack => WriteBack
  /\ Vault!Kill => Kill
  /\ Vault!PowerCut => PowerCut
  /\ Vault!Wear => Wear
  /\ Vault!GiveUp => GiveUp
BY DEF Vault!WriteBack, WriteBack, Vault!Kill, Kill, Vault!PowerCut, PowerCut,
       Vault!Wear, Wear, Vault!GiveUp, GiveUp, Vault!AfterPowerCut,
       AfterPowerCut, Vault!InDoubt, InDoubt, Vault!Torn, Torn,
       Vault!fileVars, fileVars, Vault!logVars, logVars

(* What a fault leaves is a directory with three files.                     *)
LEMMA FaultsKeepTypes ==
  ASSUME Typed, WriteBack \/ Kill \/ PowerCut \/ Wear
  PROVE  Typed'
<1>1. CASE WriteBack
  BY <1>1 DEF Typed, WriteBack, logVars
<1>2. CASE Kill
  BY <1>2 DEF Typed, Kill, GiveUp, fileVars, SavePcs, VaultPcs
<1>3. CASE PowerCut
  <2>1. file' \in Files
    BY <1>3, PowerCutLeaves DEF PowerCut, Typed
  <2> QED BY <1>3, <2>1 DEF Typed, PowerCut, GiveUp, SavePcs, VaultPcs
<1>4. CASE Wear
  <2>1. PICK c \in Torn : file' = [file EXCEPT !.primary = c]
    BY <1>4 DEF Wear
  <2>2. file' \in Files
    BY <2>1 DEF Typed, Torn, Content, Files
  <2> QED BY <1>4, <2>2 DEF Typed, Wear, logVars, SavePcs, VaultPcs
<1> QED BY <1>1, <1>2, <1>3, <1>4

-----------------------------------------------------------------------------
(* The kiosk keeps the types. *)

(* The kiosk's steps, with the faults of StateFiles.                        *)
LEMMA KioskSteps ==
  ASSUME Kiosk!Next
  PROVE  \/ Kiosk!Start \/ Kiosk!StartRecovered
         \/ \E v \in Value : Kiosk!StartFresh(v) \/ Kiosk!Begin(v)
         \/ Kiosk!CreateTmp \/ Kiosk!WriteTmp \/ Kiosk!SyncTmp
         \/ Kiosk!TruncateBak \/ Kiosk!FillBak \/ Kiosk!KeepBak
         \/ Kiosk!Rename \/ Kiosk!SaveFails
         \/ WriteBack /\ UNCHANGED starting
         \/ Kill /\ starting' = FALSE
         \/ PowerCut /\ starting' = FALSE
         \/ Wear /\ UNCHANGED starting
BY KioskFaultSteps DEF Kiosk!Next, Kiosk!Fault

LEMMA KioskKeepsTypes ==
  ASSUME Typed, KioskTypes, Kiosk!Next
  PROVE  Typed' /\ KioskTypes'
<1> USE DEF KioskTypes, SavePcs, VaultPcs, Kiosk!fileVars, Kiosk!logVars
<1>1. CASE Kiosk!Start
  BY <1>1, Contents DEF Typed, Kiosk!Start, Kiosk!Loaded
<1>2. CASE Kiosk!StartRecovered
  BY <1>2 DEF Typed, Kiosk!StartRecovered
<1>3. ASSUME NEW v \in Value, Kiosk!StartFresh(v) PROVE Typed' /\ KioskTypes'
  BY <1>3 DEF Typed, Kiosk!StartFresh
<1>4. ASSUME NEW v \in Value, Kiosk!Begin(v) PROVE Typed' /\ KioskTypes'
  BY <1>4 DEF Typed, Kiosk!Begin
<1>5. CASE Kiosk!CreateTmp
  <2>1. file' \in Files
    BY <1>5 DEF Typed, Kiosk!CreateTmp, Content, Files
  <2> QED BY <1>5, <2>1 DEF Typed, Kiosk!CreateTmp
<1>6. CASE Kiosk!WriteTmp
  <2>1. file' \in Files
    BY <1>6 DEF Typed, Kiosk!WriteTmp, Files, Content
  <2>2. pc' = "sync" => file'.tmp = saving
    BY <1>6 DEF Typed, Kiosk!WriteTmp, Files
  <2> QED BY <1>6, <2>1, <2>2 DEF Typed, Kiosk!WriteTmp
<1>7. CASE Kiosk!SyncTmp
  <2>1. disk' \in Files
    BY <1>7 DEF Typed, Kiosk!SyncTmp, Kiosk!Sync, Files
  <2> QED BY <1>7, <2>1 DEF Typed, Kiosk!SyncTmp
<1>8. CASE Kiosk!TruncateBak
  <2>1. file' \in Files /\ file'.tmp = file.tmp
    BY <1>8 DEF Typed, Kiosk!TruncateBak, Content, Files
  <2> QED BY <1>8, <2>1 DEF Typed, Kiosk!TruncateBak
<1>9. CASE Kiosk!FillBak
  <2>1. file' \in Files /\ file'.tmp = file.tmp
    BY <1>9 DEF Typed, Kiosk!FillBak, Files
  <2> QED BY <1>9, <2>1 DEF Typed, Kiosk!FillBak
<1>10. CASE Kiosk!KeepBak
  BY <1>10 DEF Typed, Kiosk!KeepBak
<1>11. CASE Kiosk!Rename
  <2>1. file' \in Files
    BY <1>11 DEF Typed, Kiosk!Rename, Files, Content
  <2> QED BY <1>11, <2>1, Contents DEF Typed, Kiosk!Rename
<1>12. CASE Kiosk!SaveFails
  BY <1>12 DEF Typed, Kiosk!SaveFails, Kiosk!GiveUp
<1>13. CASE WriteBack /\ UNCHANGED starting
  BY <1>13, FaultsKeepTypes DEF WriteBack, logVars
<1>14. CASE Kill /\ starting' = FALSE
  BY <1>14, FaultsKeepTypes DEF Kill, GiveUp
<1>15. CASE PowerCut /\ starting' = FALSE
  BY <1>15, FaultsKeepTypes DEF PowerCut, GiveUp
<1>16. CASE Wear /\ UNCHANGED starting
  BY <1>16, FaultsKeepTypes DEF Wear, logVars
<1> QED
  BY <1>1, <1>2, <1>3, <1>4, <1>5, <1>6, <1>7, <1>8, <1>9, <1>10, <1>11,
     <1>12, <1>13, <1>14, <1>15, <1>16, KioskSteps

-----------------------------------------------------------------------------
(* What a start finds. *)

LEMMA KioskLoads ==
  /\ file.primary \in Value => Kiosk!Loaded = file.primary
  /\ file.primary \notin Value /\ file.tmp \in Value =>
       Kiosk!Loaded = file.tmp
  /\ file.primary \notin Value /\ file.tmp \notin Value
       /\ file.bak \in Value => Kiosk!Loaded = file.bak
  /\ {file.primary, file.tmp, file.bak} \cap Value = {} =>
       Kiosk!Loaded \in {Nothing, Corrupt}
  /\ file \in Files /\ Kiosk!Loaded = Nothing =>
       file.primary = Absent /\ file.tmp = Absent /\ file.bak = Absent
<1>1. CASE file.primary \in Value
  BY <1>1, Contents DEF Kiosk!Loaded
<1>2. CASE file.primary \notin Value /\ file.tmp \in Value
  BY <1>2, Contents DEF Kiosk!Loaded
<1>3. CASE file.primary \notin Value /\ file.tmp \notin Value
             /\ file.bak \in Value
  BY <1>3, Contents DEF Kiosk!Loaded
<1>4. CASE {file.primary, file.tmp, file.bak} \cap Value = {}
  <2>1. Kiosk!Loaded = IF Kiosk!SomeFile THEN Corrupt ELSE Nothing
    BY <1>4 DEF Kiosk!Loaded, Kiosk!Refused
  <2>2. ASSUME file \in Files, ~ Kiosk!SomeFile
        PROVE  file.primary = Absent /\ file.tmp = Absent /\ file.bak = Absent
    BY <2>2 DEF Kiosk!SomeFile, Files
  <2> QED BY <1>4, <2>1, <2>2, Contents
<1> QED BY <1>1, <1>2, <1>3, <1>4

-----------------------------------------------------------------------------
(* What each group of faults leaves of the kiosk's state. *)

(* Only a rename, which comes with the end of a save, changes the file.     *)
LEMMA KioskKeepsKept ==
  ASSUME Typed, KioskTypes, Kiosk!Next, faults = {"crash", "io"}, KioskKept
  PROVE  KioskKept'
<1> USE DEF KioskTypes, Typed, Files, Content, SavePcs, VaultPcs,
            Kiosk!fileVars, Kiosk!logVars, KioskKept
<1>1. CASE Kiosk!Start
  BY <1>1, Contents, KioskLoads DEF Kiosk!Start
<1>2. CASE Kiosk!StartRecovered
  BY <1>2, Contents, KioskLoads DEF Kiosk!StartRecovered
<1>3. ASSUME NEW v \in Value, Kiosk!StartFresh(v) PROVE KioskKept'
  BY <1>3, Contents, KioskLoads DEF Kiosk!StartFresh
<1>4. ASSUME NEW v \in Value, Kiosk!Begin(v) PROVE KioskKept'
  BY <1>4, Contents DEF Kiosk!Begin
<1>5. CASE Kiosk!CreateTmp
  BY <1>5, Contents DEF Kiosk!CreateTmp
<1>6. CASE Kiosk!WriteTmp
  BY <1>6, Contents DEF Kiosk!WriteTmp
<1>7. CASE Kiosk!SyncTmp
  BY <1>7, Contents DEF Kiosk!SyncTmp, Kiosk!Sync
<1>8. CASE Kiosk!TruncateBak
  BY <1>8, Contents DEF Kiosk!TruncateBak
<1>9. CASE Kiosk!FillBak
  BY <1>9, Contents DEF Kiosk!FillBak
<1>10. CASE Kiosk!KeepBak
  BY <1>10, Contents DEF Kiosk!KeepBak
<1>11. CASE Kiosk!Rename
  BY <1>11, Contents DEF Kiosk!Rename
<1>12. CASE Kiosk!SaveFails
  BY <1>12, Contents DEF Kiosk!SaveFails, Kiosk!GiveUp
<1>13. CASE WriteBack /\ UNCHANGED starting
  BY <1>13, Contents DEF WriteBack, logVars
<1>14. CASE Kill /\ starting' = FALSE
  BY <1>14, Contents DEF Kill, GiveUp, fileVars
<1>15. CASE PowerCut /\ starting' = FALSE
  BY <1>15, Contents DEF PowerCut, GiveUp
<1>16. CASE Wear /\ UNCHANGED starting
  BY <1>16, Contents DEF Wear, logVars, Torn
<1> QED
  BY <1>1, <1>2, <1>3, <1>4, <1>5, <1>6, <1>7, <1>8, <1>9, <1>10, <1>11,
     <1>12, <1>13, <1>14, <1>15, <1>16, KioskSteps

(* A save copies the state file to .bak before it is replaced, if it is     *)
(* readable.                                                                *)
LEMMA KioskKeepsInBak ==
  ASSUME Typed, KioskTypes, Kiosk!Next, faults = {"wear"}, KioskInBak
  PROVE  KioskInBak'
<1> USE DEF KioskTypes, Typed, Files, Content, SavePcs, VaultPcs,
            Kiosk!fileVars, Kiosk!logVars, KioskInBak, Torn
<1>1. CASE Kiosk!Start
  BY <1>1, Contents, KioskLoads DEF Kiosk!Start
<1>2. CASE Kiosk!StartRecovered
  BY <1>2, Contents, KioskLoads DEF Kiosk!StartRecovered
<1>3. ASSUME NEW v \in Value, Kiosk!StartFresh(v) PROVE KioskInBak'
  BY <1>3, Contents, KioskLoads DEF Kiosk!StartFresh
<1>4. ASSUME NEW v \in Value, Kiosk!Begin(v) PROVE KioskInBak'
  BY <1>4, Contents DEF Kiosk!Begin
<1>5. CASE Kiosk!CreateTmp
  BY <1>5, Contents DEF Kiosk!CreateTmp
<1>6. CASE Kiosk!WriteTmp
  BY <1>6, Contents DEF Kiosk!WriteTmp
<1>7. CASE Kiosk!SyncTmp
  BY <1>7, Contents DEF Kiosk!SyncTmp, Kiosk!Sync
<1>8. CASE Kiosk!TruncateBak
  BY <1>8, Contents DEF Kiosk!TruncateBak
<1>9. CASE Kiosk!FillBak
  BY <1>9, Contents DEF Kiosk!FillBak
<1>10. CASE Kiosk!KeepBak
  BY <1>10, Contents DEF Kiosk!KeepBak
<1>11. CASE Kiosk!Rename
  BY <1>11, Contents DEF Kiosk!Rename
<1>12. CASE Kiosk!SaveFails
  BY <1>12, Contents DEF Kiosk!SaveFails, Kiosk!GiveUp
<1>13. CASE WriteBack /\ UNCHANGED starting
  BY <1>13, Contents DEF WriteBack, logVars
<1>14. CASE Kill /\ starting' = FALSE
  BY <1>14, Contents DEF Kill, GiveUp, fileVars
<1>15. CASE PowerCut /\ starting' = FALSE
  BY <1>15, Contents DEF PowerCut, GiveUp
<1>16. CASE Wear /\ UNCHANGED starting
  BY <1>16, Contents DEF Wear, logVars, Torn
<1> QED
  BY <1>1, <1>2, <1>3, <1>4, <1>5, <1>6, <1>7, <1>8, <1>9, <1>10, <1>11,
     <1>12, <1>13, <1>14, <1>15, <1>16, KioskSteps

(* Nothing but .bak changes between the sync of .tmp and the rename.        *)
LEMMA KioskKeepsSynced ==
  ASSUME Typed, KioskTypes, Kiosk!Next, faults = {"crash", "io", "power"},
         Synced
  PROVE  Synced'
<1> USE DEF KioskTypes, Typed, Files, Content, SavePcs, VaultPcs,
            Kiosk!fileVars, Kiosk!logVars, Synced
<1>1. CASE Kiosk!Start
  BY <1>1, Contents, KioskLoads DEF Kiosk!Start
<1>2. CASE Kiosk!StartRecovered
  BY <1>2, Contents, KioskLoads DEF Kiosk!StartRecovered
<1>3. ASSUME NEW v \in Value, Kiosk!StartFresh(v) PROVE Synced'
  BY <1>3, Contents, KioskLoads DEF Kiosk!StartFresh
<1>4. ASSUME NEW v \in Value, Kiosk!Begin(v) PROVE Synced'
  BY <1>4, Contents DEF Kiosk!Begin
<1>5. CASE Kiosk!CreateTmp
  BY <1>5, Contents DEF Kiosk!CreateTmp
<1>6. CASE Kiosk!WriteTmp
  BY <1>6, Contents DEF Kiosk!WriteTmp
<1>7. CASE Kiosk!SyncTmp
  BY <1>7, Contents DEF Kiosk!SyncTmp, Kiosk!Sync
<1>8. CASE Kiosk!TruncateBak
  BY <1>8, Contents DEF Kiosk!TruncateBak
<1>9. CASE Kiosk!FillBak
  BY <1>9, Contents DEF Kiosk!FillBak
<1>10. CASE Kiosk!KeepBak
  BY <1>10, Contents DEF Kiosk!KeepBak
<1>11. CASE Kiosk!Rename
  BY <1>11, Contents DEF Kiosk!Rename
<1>12. CASE Kiosk!SaveFails
  BY <1>12, Contents DEF Kiosk!SaveFails, Kiosk!GiveUp
<1>13. CASE WriteBack /\ UNCHANGED starting
  BY <1>13, Contents DEF WriteBack, logVars
<1>14. CASE Kill /\ starting' = FALSE
  BY <1>14, Contents DEF Kill, GiveUp, fileVars
<1>15. CASE PowerCut /\ starting' = FALSE
  BY <1>15, Contents DEF PowerCut, GiveUp
<1>16. CASE Wear /\ UNCHANGED starting
  BY <1>16, Contents DEF Wear, logVars, Torn
<1> QED
  BY <1>1, <1>2, <1>3, <1>4, <1>5, <1>6, <1>7, <1>8, <1>9, <1>10, <1>11,
     <1>12, <1>13, <1>14, <1>15, <1>16, KioskSteps

(* With power cuts there are three phases: no save has returned; the first *)
(* rename is not on the medium; every rename is, or the one before.        *)
KioskPhase == KioskFirstSave \/ KioskUndone \/ KioskOnMedium

(* From the first save: the rename begins the second phase.                 *)
LEMMA KioskFromFirstSave ==
  ASSUME Typed, KioskTypes, Kiosk!Next,
         faults = {"crash", "io", "power"}, Synced, KioskFirstSave
  PROVE  KioskPhase'
<1> USE DEF KioskTypes, Typed, Synced, Files, Content, SavePcs, VaultPcs,
            Kiosk!fileVars, Kiosk!logVars, KioskPhase, KioskFirstSave,
            KioskUndone, KioskOnMedium
<1>1. CASE Kiosk!Start
  BY <1>1, Contents, KioskLoads DEF Kiosk!Start
<1>2. CASE Kiosk!StartRecovered
  BY <1>2, Contents, KioskLoads DEF Kiosk!StartRecovered
<1>3. ASSUME NEW v \in Value, Kiosk!StartFresh(v) PROVE KioskPhase'
  BY <1>3, Contents, KioskLoads DEF Kiosk!StartFresh
<1>4. ASSUME NEW v \in Value, Kiosk!Begin(v) PROVE KioskPhase'
  BY <1>4, Contents DEF Kiosk!Begin
<1>5. CASE Kiosk!CreateTmp
  BY <1>5, Contents DEF Kiosk!CreateTmp
<1>6. CASE Kiosk!WriteTmp
  BY <1>6, Contents DEF Kiosk!WriteTmp
<1>7. CASE Kiosk!SyncTmp
  BY <1>7, Contents DEF Kiosk!SyncTmp, Kiosk!Sync
<1>8. CASE Kiosk!TruncateBak
  BY <1>8, Contents DEF Kiosk!TruncateBak
<1>9. CASE Kiosk!FillBak
  BY <1>9, Contents DEF Kiosk!FillBak
<1>10. CASE Kiosk!KeepBak
  BY <1>10, Contents DEF Kiosk!KeepBak
<1>11. CASE Kiosk!Rename
  BY <1>11, Contents DEF Kiosk!Rename
<1>12. CASE Kiosk!SaveFails
  BY <1>12, Contents DEF Kiosk!SaveFails, Kiosk!GiveUp
<1>13. CASE WriteBack /\ UNCHANGED starting
  BY <1>13, Contents DEF WriteBack, logVars
<1>14. CASE Kill /\ starting' = FALSE
  BY <1>14, Contents DEF Kill, GiveUp, fileVars
<1>15. CASE PowerCut /\ starting' = FALSE
  BY <1>15, Contents, PowerCutLeaves DEF PowerCut, GiveUp, OldTmp, MayBe
<1>16. CASE Wear /\ UNCHANGED starting
  BY <1>16, Contents DEF Wear, logVars, Torn
<1> QED
  BY <1>1, <1>2, <1>3, <1>4, <1>5, <1>6, <1>7, <1>8, <1>9, <1>10, <1>11,
     <1>12, <1>13, <1>14, <1>15, <1>16, KioskSteps

(* From there a sync or a write-back puts the rename onto the medium, or a  *)
(* power cut undoes it, and the start saves the state in .tmp again.        *)
LEMMA KioskFromUndone ==
  ASSUME Typed, KioskTypes, Kiosk!Next,
         faults = {"crash", "io", "power"}, Synced, KioskUndone
  PROVE  KioskPhase'
<1> USE DEF KioskTypes, Typed, Synced, Files, Content, SavePcs, VaultPcs,
            Kiosk!fileVars, Kiosk!logVars, KioskPhase, KioskFirstSave,
            KioskUndone, KioskOnMedium
<1>1. CASE Kiosk!Start
  BY <1>1, Contents, KioskLoads DEF Kiosk!Start
<1>2. CASE Kiosk!StartRecovered
  BY <1>2, Contents, KioskLoads DEF Kiosk!StartRecovered
<1>3. ASSUME NEW v \in Value, Kiosk!StartFresh(v) PROVE KioskPhase'
  BY <1>3, Contents, KioskLoads DEF Kiosk!StartFresh
<1>4. ASSUME NEW v \in Value, Kiosk!Begin(v) PROVE KioskPhase'
  BY <1>4, Contents DEF Kiosk!Begin
<1>5. CASE Kiosk!CreateTmp
  BY <1>5, Contents DEF Kiosk!CreateTmp
<1>6. CASE Kiosk!WriteTmp
  BY <1>6, Contents DEF Kiosk!WriteTmp
<1>7. CASE Kiosk!SyncTmp
  BY <1>7, Contents DEF Kiosk!SyncTmp, Kiosk!Sync
<1>8. CASE Kiosk!TruncateBak
  BY <1>8, Contents DEF Kiosk!TruncateBak
<1>9. CASE Kiosk!FillBak
  BY <1>9, Contents DEF Kiosk!FillBak
<1>10. CASE Kiosk!KeepBak
  BY <1>10, Contents DEF Kiosk!KeepBak
<1>11. CASE Kiosk!Rename
  BY <1>11, Contents DEF Kiosk!Rename
<1>12. CASE Kiosk!SaveFails
  BY <1>12, Contents DEF Kiosk!SaveFails, Kiosk!GiveUp
<1>13. CASE WriteBack /\ UNCHANGED starting
  BY <1>13, Contents DEF WriteBack, logVars
<1>14. CASE Kill /\ starting' = FALSE
  BY <1>14, Contents DEF Kill, GiveUp, fileVars
<1>15. CASE PowerCut /\ starting' = FALSE
  <2>1. file' \in Files /\ disk' = file' /\ file'.bak = Absent
    BY <1>15, PowerCutLeaves DEF PowerCut, MayBe
  <2>2. \/ file'.primary = file.primary /\ MayBe(file'.tmp, OldTmp, file.tmp)
        \/ file'.primary = disk.primary /\ file'.tmp = disk.tmp
    BY <1>15, PowerCutLeaves DEF PowerCut
  <2>3. CASE file'.primary = acked
    BY <1>15, <2>1, <2>3 DEF PowerCut, GiveUp
  <2>4. CASE file'.primary # acked
    <3>1. file'.primary = Absent
      BY <2>2, <2>4
    <3>2. file'.tmp \in {acked, Empty, Corrupt}
      BY <2>2, <2>4, Contents DEF MayBe, OldTmp, Torn
    <3> QED BY <1>15, <2>1, <3>1, <3>2 DEF PowerCut, GiveUp
  <2> QED BY <2>3, <2>4
<1>16. CASE Wear /\ UNCHANGED starting
  BY <1>16, Contents DEF Wear, logVars, Torn
<1> QED
  BY <1>1, <1>2, <1>3, <1>4, <1>5, <1>6, <1>7, <1>8, <1>9, <1>10, <1>11,
     <1>12, <1>13, <1>14, <1>15, <1>16, KioskSteps

(* Every later save syncs the rename before it: a power cut takes back one  *)
(* at most.                                                                 *)
LEMMA KioskFromOnMedium ==
  ASSUME Typed, KioskTypes, Kiosk!Next,
         faults = {"crash", "io", "power"}, Synced, KioskOnMedium
  PROVE  KioskPhase'
<1> USE DEF KioskTypes, Typed, Synced, Files, Content, SavePcs, VaultPcs,
            Kiosk!fileVars, Kiosk!logVars, KioskPhase, KioskFirstSave,
            KioskUndone, KioskOnMedium
<1>1. CASE Kiosk!Start
  BY <1>1, Contents, KioskLoads DEF Kiosk!Start
<1>2. CASE Kiosk!StartRecovered
  BY <1>2, Contents, KioskLoads DEF Kiosk!StartRecovered
<1>3. ASSUME NEW v \in Value, Kiosk!StartFresh(v) PROVE KioskPhase'
  BY <1>3, Contents, KioskLoads DEF Kiosk!StartFresh
<1>4. ASSUME NEW v \in Value, Kiosk!Begin(v) PROVE KioskPhase'
  BY <1>4, Contents DEF Kiosk!Begin
<1>5. CASE Kiosk!CreateTmp
  BY <1>5, Contents DEF Kiosk!CreateTmp
<1>6. CASE Kiosk!WriteTmp
  BY <1>6, Contents DEF Kiosk!WriteTmp
<1>7. CASE Kiosk!SyncTmp
  BY <1>7, Contents DEF Kiosk!SyncTmp, Kiosk!Sync
<1>8. CASE Kiosk!TruncateBak
  BY <1>8, Contents DEF Kiosk!TruncateBak
<1>9. CASE Kiosk!FillBak
  BY <1>9, Contents DEF Kiosk!FillBak
<1>10. CASE Kiosk!KeepBak
  BY <1>10, Contents DEF Kiosk!KeepBak
<1>11. CASE Kiosk!Rename
  BY <1>11, Contents DEF Kiosk!Rename
<1>12. CASE Kiosk!SaveFails
  BY <1>12, Contents DEF Kiosk!SaveFails, Kiosk!GiveUp
<1>13. CASE WriteBack /\ UNCHANGED starting
  BY <1>13, Contents DEF WriteBack, logVars
<1>14. CASE Kill /\ starting' = FALSE
  BY <1>14, Contents DEF Kill, GiveUp, fileVars
<1>15. CASE PowerCut /\ starting' = FALSE
  BY <1>15, Contents, PowerCutLeaves DEF PowerCut, GiveUp, OldTmp, MayBe
<1>16. CASE Wear /\ UNCHANGED starting
  BY <1>16, Contents DEF Wear, logVars, Torn
<1> QED
  BY <1>1, <1>2, <1>3, <1>4, <1>5, <1>6, <1>7, <1>8, <1>9, <1>10, <1>11,
     <1>12, <1>13, <1>14, <1>15, <1>16, KioskSteps

-----------------------------------------------------------------------------
(* The vault. *)

LEMMA VaultLoads ==
  /\ file.primary \in Value => Vault!Loaded = file.primary
  /\ file.primary \notin Value /\ file.tmp \in Value =>
       Vault!Loaded = file.tmp
  /\ file.primary \notin Value /\ file.tmp \notin Value
       /\ file.bak \in Value => Vault!Loaded = file.bak
  /\ {file.primary, file.tmp, file.bak} \cap Value = {} =>
       Vault!Loaded = IF file.primary = Corrupt THEN Corrupt ELSE Nothing
  /\ Vault!Loaded = Nothing =>
       /\ file.primary \notin Value \cup {Corrupt}
       /\ file.tmp \notin Value /\ file.bak \notin Value
<1>1. CASE file.primary \in Value
  BY <1>1, Contents DEF Vault!Loaded
<1>2. CASE file.primary \notin Value /\ file.tmp \in Value
  BY <1>2, Contents DEF Vault!Loaded, Vault!Fallback
<1>3. CASE file.primary \notin Value /\ file.tmp \notin Value
             /\ file.bak \in Value
  BY <1>3, Contents DEF Vault!Loaded, Vault!Fallback
<1>4. CASE {file.primary, file.tmp, file.bak} \cap Value = {}
  BY <1>4, Contents DEF Vault!Loaded, Vault!Fallback, Vault!Error
<1> QED BY <1>1, <1>2, <1>3, <1>4

(* The vault's steps, with the faults of StateFiles.                        *)
LEMMA VaultSteps ==
  ASSUME Vault!Next
  PROVE  \/ \E v \in Value : Vault!Begin(v)
         \/ Vault!CreateTmp \/ Vault!WriteTmp \/ Vault!SyncTmp
         \/ Vault!TruncateBak \/ Vault!FillBak \/ Vault!CopyFails
         \/ Vault!Rename \/ Vault!SaveFails
         \/ Vault!Load \/ Vault!LoadTmp \/ Vault!LoadBak
         \/ Vault!RestoreFromBak \/ Vault!LoadNothing
         \/ Vault!WipePrimary \/ Vault!WipeTmp \/ Vault!WipeBak
         \/ Vault!AfterWipe
         \/ WriteBack \/ Kill \/ PowerCut \/ Wear
BY VaultFaultSteps DEF Vault!Next

LEMMA VaultKeepsTypes ==
  ASSUME Typed, VaultTypes, Vault!Next
  PROVE  Typed' /\ VaultTypes'
<1> USE DEF VaultTypes, Typed, Files, Content, SavePcs, VaultPcs,
            Vault!fileVars, Vault!logVars
<1>1. ASSUME NEW v \in Value, Vault!Begin(v) PROVE Typed' /\ VaultTypes'
  BY <1>1, Contents DEF Vault!Begin
<1>2. CASE Vault!CreateTmp
  BY <1>2, Contents DEF Vault!CreateTmp
<1>3. CASE Vault!WriteTmp
  BY <1>3, Contents DEF Vault!WriteTmp
<1>4. CASE Vault!SyncTmp
  BY <1>4, Contents DEF Vault!SyncTmp, Vault!Sync
<1>5. CASE Vault!TruncateBak
  BY <1>5, Contents DEF Vault!TruncateBak
<1>6. CASE Vault!FillBak
  BY <1>6, Contents DEF Vault!FillBak
<1>7. CASE Vault!CopyFails
  BY <1>7, Contents DEF Vault!CopyFails
<1>8. CASE Vault!Rename
  BY <1>8, Contents DEF Vault!Rename
<1>9. CASE Vault!SaveFails
  BY <1>9, Contents DEF Vault!SaveFails, Vault!GiveUp
<1>10. CASE Vault!Load
  BY <1>10, Contents, VaultLoads DEF Vault!Load, Vault!Started
<1>11. CASE Vault!LoadTmp
  BY <1>11, Contents, VaultLoads DEF Vault!LoadTmp, Vault!Started
<1>12. CASE Vault!LoadBak
  BY <1>12, Contents, VaultLoads DEF Vault!LoadBak, Vault!Started
<1>13. CASE Vault!RestoreFromBak
  BY <1>13, Contents DEF Vault!RestoreFromBak
<1>14. CASE Vault!LoadNothing
  <2>1. /\ file.primary \notin Value \cup {Corrupt}
        /\ file.tmp \notin Value /\ file.bak \notin Value
    BY <1>14, VaultLoads DEF Vault!LoadNothing
  <2> QED
    BY <1>14, <2>1, Contents DEF Vault!LoadNothing, Vault!Started
<1>15. CASE Vault!WipePrimary
  BY <1>15, Contents DEF Vault!WipePrimary
<1>16. CASE Vault!WipeTmp
  BY <1>16, Contents DEF Vault!WipeTmp
<1>17. CASE Vault!WipeBak
  BY <1>17, Contents DEF Vault!WipeBak
<1>18. CASE Vault!AfterWipe
  BY <1>18, Contents DEF Vault!AfterWipe, Vault!Started
<1>19. CASE WriteBack
  BY <1>19, Contents, FaultsKeepTypes DEF WriteBack, logVars
<1>20. CASE Kill
  BY <1>20, Contents, FaultsKeepTypes DEF Kill, GiveUp, fileVars
<1>21. CASE PowerCut
  BY <1>21, Contents, PowerCutLeaves, FaultsKeepTypes DEF PowerCut, GiveUp,
     OldTmp, MayBe
<1>22. CASE Wear
  BY <1>22, Contents, FaultsKeepTypes DEF Wear, logVars, Torn
<1> QED
  BY <1>1, <1>2, <1>3, <1>4, <1>5, <1>6, <1>7, <1>8, <1>9, <1>10, <1>11,
     <1>12, <1>13, <1>14, <1>15, <1>16, <1>17, <1>18, <1>19, <1>20, <1>21,
     <1>22, VaultSteps

(* A wipe removes the files one after the other, and nothing else runs.     *)
LEMMA VaultKeepsWiping ==
  ASSUME Typed, VaultTypes, Vault!Next, Wiping
  PROVE  Wiping'
<1> USE DEF VaultTypes, Typed, Files, Content, SavePcs, VaultPcs,
            Vault!fileVars, Vault!logVars, Wiping
<1>1. ASSUME NEW v \in Value, Vault!Begin(v) PROVE Wiping'
  BY <1>1, Contents DEF Vault!Begin
<1>2. CASE Vault!CreateTmp
  BY <1>2, Contents DEF Vault!CreateTmp
<1>3. CASE Vault!WriteTmp
  BY <1>3, Contents DEF Vault!WriteTmp
<1>4. CASE Vault!SyncTmp
  BY <1>4, Contents DEF Vault!SyncTmp, Vault!Sync
<1>5. CASE Vault!TruncateBak
  BY <1>5, Contents DEF Vault!TruncateBak
<1>6. CASE Vault!FillBak
  BY <1>6, Contents DEF Vault!FillBak
<1>7. CASE Vault!CopyFails
  BY <1>7, Contents DEF Vault!CopyFails
<1>8. CASE Vault!Rename
  BY <1>8, Contents DEF Vault!Rename
<1>9. CASE Vault!SaveFails
  BY <1>9, Contents DEF Vault!SaveFails, Vault!GiveUp
<1>10. CASE Vault!Load
  BY <1>10, Contents, VaultLoads DEF Vault!Load, Vault!Started
<1>11. CASE Vault!LoadTmp
  BY <1>11, Contents, VaultLoads DEF Vault!LoadTmp, Vault!Started
<1>12. CASE Vault!LoadBak
  BY <1>12, Contents, VaultLoads DEF Vault!LoadBak, Vault!Started
<1>13. CASE Vault!RestoreFromBak
  BY <1>13, Contents DEF Vault!RestoreFromBak
<1>14. CASE Vault!LoadNothing
  <2>1. /\ file.primary \notin Value \cup {Corrupt}
        /\ file.tmp \notin Value /\ file.bak \notin Value
    BY <1>14, VaultLoads DEF Vault!LoadNothing
  <2> QED
    BY <1>14, <2>1, Contents DEF Vault!LoadNothing, Vault!Started
<1>15. CASE Vault!WipePrimary
  BY <1>15, Contents DEF Vault!WipePrimary
<1>16. CASE Vault!WipeTmp
  BY <1>16, Contents DEF Vault!WipeTmp
<1>17. CASE Vault!WipeBak
  BY <1>17, Contents DEF Vault!WipeBak
<1>18. CASE Vault!AfterWipe
  BY <1>18, Contents DEF Vault!AfterWipe, Vault!Started
<1>19. CASE WriteBack
  BY <1>19, Contents DEF WriteBack, logVars
<1>20. CASE Kill
  BY <1>20, Contents DEF Kill, GiveUp, fileVars
<1>21. CASE PowerCut
  BY <1>21, Contents, PowerCutLeaves DEF PowerCut, GiveUp, OldTmp, MayBe
<1>22. CASE Wear
  BY <1>22, Contents DEF Wear, logVars, Torn
<1> QED
  BY <1>1, <1>2, <1>3, <1>4, <1>5, <1>6, <1>7, <1>8, <1>9, <1>10, <1>11,
     <1>12, <1>13, <1>14, <1>15, <1>16, <1>17, <1>18, <1>19, <1>20, <1>21,
     <1>22, VaultSteps

(* The state file changes by the rename only, or by a recovery from .tmp or *)
(* .bak, which a kill can interrupt.                                        *)
LEMMA VaultKeepsKept ==
  ASSUME Typed, VaultTypes, Vault!Next, faults = {"crash", "io"}, VaultKept
  PROVE  VaultKept'
<1> USE DEF VaultTypes, Typed, Files, Content, SavePcs, VaultPcs,
            Vault!fileVars, Vault!logVars, VaultKept
<1>1. ASSUME NEW v \in Value, Vault!Begin(v) PROVE VaultKept'
  BY <1>1, Contents DEF Vault!Begin
<1>2. CASE Vault!CreateTmp
  BY <1>2, Contents DEF Vault!CreateTmp
<1>3. CASE Vault!WriteTmp
  BY <1>3, Contents DEF Vault!WriteTmp
<1>4. CASE Vault!SyncTmp
  BY <1>4, Contents DEF Vault!SyncTmp, Vault!Sync
<1>5. CASE Vault!TruncateBak
  BY <1>5, Contents DEF Vault!TruncateBak
<1>6. CASE Vault!FillBak
  BY <1>6, Contents DEF Vault!FillBak
<1>7. CASE Vault!CopyFails
  BY <1>7, Contents DEF Vault!CopyFails
<1>8. CASE Vault!Rename
  BY <1>8, Contents DEF Vault!Rename
<1>9. CASE Vault!SaveFails
  BY <1>9, Contents DEF Vault!SaveFails, Vault!GiveUp
<1>10. CASE Vault!Load
  BY <1>10, Contents, VaultLoads DEF Vault!Load, Vault!Started
<1>11. CASE Vault!LoadTmp
  BY <1>11, Contents, VaultLoads DEF Vault!LoadTmp, Vault!Started
<1>12. CASE Vault!LoadBak
  BY <1>12, Contents, VaultLoads DEF Vault!LoadBak, Vault!Started
<1>13. CASE Vault!RestoreFromBak
  <2>1. file.bak = acked /\ acked \in Value
    BY <1>13, Contents DEF Vault!RestoreFromBak
  <2>2. file' = [file EXCEPT !.primary = file.bak]
    BY <1>13 DEF Vault!RestoreFromBak
  <2> QED BY <1>13, <2>1, <2>2 DEF Vault!RestoreFromBak
<1>14. CASE Vault!LoadNothing
  <2>1. /\ file.primary \notin Value \cup {Corrupt}
        /\ file.tmp \notin Value /\ file.bak \notin Value
    BY <1>14, VaultLoads DEF Vault!LoadNothing
  <2> QED
    BY <1>14, <2>1, Contents DEF Vault!LoadNothing, Vault!Started
<1>15. CASE Vault!WipePrimary
  BY <1>15, Contents DEF Vault!WipePrimary
<1>16. CASE Vault!WipeTmp
  BY <1>16, Contents DEF Vault!WipeTmp
<1>17. CASE Vault!WipeBak
  BY <1>17, Contents DEF Vault!WipeBak
<1>18. CASE Vault!AfterWipe
  BY <1>18, Contents DEF Vault!AfterWipe, Vault!Started
<1>19. CASE WriteBack
  BY <1>19, Contents DEF WriteBack, logVars
<1>20. CASE Kill
  BY <1>20, Contents DEF Kill, GiveUp, fileVars
<1>21. CASE PowerCut
  BY <1>21, Contents, PowerCutLeaves DEF PowerCut, GiveUp, OldTmp, MayBe
<1>22. CASE Wear
  BY <1>22, Contents DEF Wear, logVars, Torn
<1> QED
  BY <1>1, <1>2, <1>3, <1>4, <1>5, <1>6, <1>7, <1>8, <1>9, <1>10, <1>11,
     <1>12, <1>13, <1>14, <1>15, <1>16, <1>17, <1>18, <1>19, <1>20, <1>21,
     <1>22, VaultSteps

(* The vault's .bak is a copy of the state that is being saved.             *)
LEMMA VaultKeepsInBak ==
  ASSUME Typed, VaultTypes, Vault!Next, faults = {"wear", "loadIo"},
         VaultInBak
  PROVE  VaultInBak'
<1> USE DEF VaultTypes, Typed, Files, Content, SavePcs, VaultPcs,
            Vault!fileVars, Vault!logVars, VaultInBak, Torn
<1>1. ASSUME NEW v \in Value, Vault!Begin(v) PROVE VaultInBak'
  BY <1>1, Contents DEF Vault!Begin
<1>2. CASE Vault!CreateTmp
  BY <1>2, Contents DEF Vault!CreateTmp
<1>3. CASE Vault!WriteTmp
  BY <1>3, Contents DEF Vault!WriteTmp
<1>4. CASE Vault!SyncTmp
  BY <1>4, Contents DEF Vault!SyncTmp, Vault!Sync
<1>5. CASE Vault!TruncateBak
  BY <1>5, Contents DEF Vault!TruncateBak
<1>6. CASE Vault!FillBak
  BY <1>6, Contents DEF Vault!FillBak
<1>7. CASE Vault!CopyFails
  BY <1>7, Contents DEF Vault!CopyFails
<1>8. CASE Vault!Rename
  BY <1>8, Contents DEF Vault!Rename
<1>9. CASE Vault!SaveFails
  BY <1>9, Contents DEF Vault!SaveFails, Vault!GiveUp
<1>10. CASE Vault!Load
  BY <1>10, Contents, VaultLoads DEF Vault!Load, Vault!Started
<1>11. CASE Vault!LoadTmp
  BY <1>11, Contents, VaultLoads DEF Vault!LoadTmp, Vault!Started
<1>12. CASE Vault!LoadBak
  BY <1>12, Contents, VaultLoads DEF Vault!LoadBak, Vault!Started
<1>13. CASE Vault!RestoreFromBak
  BY <1>13, Contents DEF Vault!RestoreFromBak
<1>14. CASE Vault!LoadNothing
  <2>1. /\ file.primary \notin Value \cup {Corrupt}
        /\ file.tmp \notin Value /\ file.bak \notin Value
    BY <1>14, VaultLoads DEF Vault!LoadNothing
  <2>2. acked \in Value /\ file.bak = acked
    BY <1>14 DEF Vault!LoadNothing
  <2> QED BY <2>1, <2>2 DEF Vault!LoadNothing
<1>15. CASE Vault!WipePrimary
  BY <1>15, Contents DEF Vault!WipePrimary
<1>16. CASE Vault!WipeTmp
  BY <1>16, Contents DEF Vault!WipeTmp
<1>17. CASE Vault!WipeBak
  BY <1>17, Contents DEF Vault!WipeBak
<1>18. CASE Vault!AfterWipe
  BY <1>18, Contents DEF Vault!AfterWipe, Vault!Started
<1>19. CASE WriteBack
  BY <1>19, Contents DEF WriteBack, logVars
<1>20. CASE Kill
  BY <1>20, Contents DEF Kill, GiveUp, fileVars
<1>21. CASE PowerCut
  BY <1>21, Contents, PowerCutLeaves DEF PowerCut, GiveUp, OldTmp, MayBe
<1>22. CASE Wear
  BY <1>22, Contents DEF Wear, logVars, Torn
<1> QED
  BY <1>1, <1>2, <1>3, <1>4, <1>5, <1>6, <1>7, <1>8, <1>9, <1>10, <1>11,
     <1>12, <1>13, <1>14, <1>15, <1>16, <1>17, <1>18, <1>19, <1>20, <1>21,
     <1>22, VaultSteps

(* Nothing but .bak changes between the sync of .tmp and the rename.        *)
LEMMA VaultKeepsSynced ==
  ASSUME Typed, VaultTypes, Vault!Next, faults = {"crash", "power"}, Synced
  PROVE  Synced'
<1> USE DEF VaultTypes, Typed, Files, Content, SavePcs, VaultPcs,
            Vault!fileVars, Vault!logVars, Synced
<1>1. ASSUME NEW v \in Value, Vault!Begin(v) PROVE Synced'
  BY <1>1, Contents DEF Vault!Begin
<1>2. CASE Vault!CreateTmp
  BY <1>2, Contents DEF Vault!CreateTmp
<1>3. CASE Vault!WriteTmp
  BY <1>3, Contents DEF Vault!WriteTmp
<1>4. CASE Vault!SyncTmp
  BY <1>4, Contents DEF Vault!SyncTmp, Vault!Sync
<1>5. CASE Vault!TruncateBak
  BY <1>5, Contents DEF Vault!TruncateBak
<1>6. CASE Vault!FillBak
  BY <1>6, Contents DEF Vault!FillBak
<1>7. CASE Vault!CopyFails
  BY <1>7, Contents DEF Vault!CopyFails
<1>8. CASE Vault!Rename
  BY <1>8, Contents DEF Vault!Rename
<1>9. CASE Vault!SaveFails
  BY <1>9, Contents DEF Vault!SaveFails, Vault!GiveUp
<1>10. CASE Vault!Load
  BY <1>10, Contents, VaultLoads DEF Vault!Load, Vault!Started
<1>11. CASE Vault!LoadTmp
  BY <1>11, Contents, VaultLoads DEF Vault!LoadTmp, Vault!Started
<1>12. CASE Vault!LoadBak
  BY <1>12, Contents, VaultLoads DEF Vault!LoadBak, Vault!Started
<1>13. CASE Vault!RestoreFromBak
  BY <1>13, Contents DEF Vault!RestoreFromBak
<1>14. CASE Vault!LoadNothing
  <2>1. /\ file.primary \notin Value \cup {Corrupt}
        /\ file.tmp \notin Value /\ file.bak \notin Value
    BY <1>14, VaultLoads DEF Vault!LoadNothing
  <2> QED
    BY <1>14, <2>1, Contents DEF Vault!LoadNothing, Vault!Started
<1>15. CASE Vault!WipePrimary
  BY <1>15, Contents DEF Vault!WipePrimary
<1>16. CASE Vault!WipeTmp
  BY <1>16, Contents DEF Vault!WipeTmp
<1>17. CASE Vault!WipeBak
  BY <1>17, Contents DEF Vault!WipeBak
<1>18. CASE Vault!AfterWipe
  BY <1>18, Contents DEF Vault!AfterWipe, Vault!Started
<1>19. CASE WriteBack
  BY <1>19, Contents DEF WriteBack, logVars
<1>20. CASE Kill
  BY <1>20, Contents DEF Kill, GiveUp, fileVars
<1>21. CASE PowerCut
  BY <1>21, Contents, PowerCutLeaves DEF PowerCut, GiveUp, OldTmp, MayBe
<1>22. CASE Wear
  BY <1>22, Contents DEF Wear, logVars, Torn
<1> QED
  BY <1>1, <1>2, <1>3, <1>4, <1>5, <1>6, <1>7, <1>8, <1>9, <1>10, <1>11,
     <1>12, <1>13, <1>14, <1>15, <1>16, <1>17, <1>18, <1>19, <1>20, <1>21,
     <1>22, VaultSteps

(* The phases of the vault under power cuts, as for the kiosk.              *)
VaultPhase == VaultFirstSave \/ VaultUndone \/ VaultOnMedium

(* A kill before the sync leaves a .tmp that load renames, and a power cut  *)
(* may take it back: to nothing, which was the state before.                *)
LEMMA VaultFromFirstSave ==
  ASSUME Typed, VaultTypes, Vault!Next, faults = {"crash", "power"}, Synced,
         pc # "restore", VaultFirstSave
  PROVE  VaultPhase' /\ pc' # "restore"
<1> USE DEF VaultTypes, Typed, Files, Content, SavePcs, VaultPcs,
            Vault!fileVars, Vault!logVars, Synced, VaultPhase, VaultFirstSave,
            VaultUndone, VaultOnMedium
<1>1. ASSUME NEW v \in Value, Vault!Begin(v)
      PROVE  VaultPhase' /\ pc' # "restore"
  BY <1>1, Contents DEF Vault!Begin
<1>2. CASE Vault!CreateTmp
  BY <1>2, Contents DEF Vault!CreateTmp
<1>3. CASE Vault!WriteTmp
  BY <1>3, Contents DEF Vault!WriteTmp
<1>4. CASE Vault!SyncTmp
  BY <1>4, Contents DEF Vault!SyncTmp, Vault!Sync
<1>5. CASE Vault!TruncateBak
  BY <1>5, Contents DEF Vault!TruncateBak
<1>6. CASE Vault!FillBak
  BY <1>6, Contents DEF Vault!FillBak
<1>7. CASE Vault!CopyFails
  BY <1>7, Contents DEF Vault!CopyFails
<1>8. CASE Vault!Rename
  BY <1>8, Contents DEF Vault!Rename
<1>9. CASE Vault!SaveFails
  BY <1>9, Contents DEF Vault!SaveFails, Vault!GiveUp
<1>10. CASE Vault!Load
  BY <1>10, Contents, VaultLoads DEF Vault!Load, Vault!Started
<1>11. CASE Vault!LoadTmp
  BY <1>11, Contents, VaultLoads DEF Vault!LoadTmp, Vault!Started
<1>12. CASE Vault!LoadBak
  BY <1>12, Contents, VaultLoads DEF Vault!LoadBak, Vault!Started
<1>13. CASE Vault!RestoreFromBak
  BY <1>13, Contents DEF Vault!RestoreFromBak
<1>14. CASE Vault!LoadNothing
  <2>1. /\ file.primary \notin Value \cup {Corrupt}
        /\ file.tmp \notin Value /\ file.bak \notin Value
    BY <1>14, VaultLoads DEF Vault!LoadNothing
  <2> QED
    BY <1>14, <2>1, Contents DEF Vault!LoadNothing, Vault!Started
<1>15. CASE Vault!WipePrimary
  BY <1>15, Contents DEF Vault!WipePrimary
<1>16. CASE Vault!WipeTmp
  BY <1>16, Contents DEF Vault!WipeTmp
<1>17. CASE Vault!WipeBak
  BY <1>17, Contents DEF Vault!WipeBak
<1>18. CASE Vault!AfterWipe
  BY <1>18, Contents DEF Vault!AfterWipe, Vault!Started
<1>19. CASE WriteBack
  BY <1>19, Contents DEF WriteBack, logVars
<1>20. CASE Kill
  BY <1>20, Contents DEF Kill, GiveUp, fileVars
<1>21. CASE PowerCut
  <2>1. /\ file' \in Files /\ disk' = file'
        /\ MayBe(file'.bak, disk.bak, file.bak)
    BY <1>21, PowerCutLeaves DEF PowerCut
  <2>2. \/ file'.primary = file.primary /\ MayBe(file'.tmp, OldTmp, file.tmp)
        \/ file'.primary = disk.primary /\ file'.tmp = disk.tmp
    BY <1>21, PowerCutLeaves DEF PowerCut
  <2> QED
    BY <1>21, <2>1, <2>2, Contents DEF PowerCut, GiveUp, OldTmp, MayBe, Torn
<1>22. CASE Wear
  BY <1>22, Contents DEF Wear, logVars, Torn
<1> QED
  BY <1>1, <1>2, <1>3, <1>4, <1>5, <1>6, <1>7, <1>8, <1>9, <1>10, <1>11,
     <1>12, <1>13, <1>14, <1>15, <1>16, <1>17, <1>18, <1>19, <1>20, <1>21,
     <1>22, VaultSteps

(* The state is in .tmp on the medium, or it never was and nothing is.      *)
LEMMA VaultFromUndone ==
  ASSUME Typed, VaultTypes, Vault!Next, faults = {"crash", "power"}, Synced,
         pc # "restore", VaultUndone
  PROVE  VaultPhase' /\ pc' # "restore"
<1> USE DEF VaultTypes, Typed, Files, Content, SavePcs, VaultPcs,
            Vault!fileVars, Vault!logVars, Synced, VaultPhase, VaultFirstSave,
            VaultUndone, VaultOnMedium
<1>1. ASSUME NEW v \in Value, Vault!Begin(v)
      PROVE  VaultPhase' /\ pc' # "restore"
  BY <1>1, Contents DEF Vault!Begin
<1>2. CASE Vault!CreateTmp
  BY <1>2, Contents DEF Vault!CreateTmp
<1>3. CASE Vault!WriteTmp
  BY <1>3, Contents DEF Vault!WriteTmp
<1>4. CASE Vault!SyncTmp
  BY <1>4, Contents DEF Vault!SyncTmp, Vault!Sync
<1>5. CASE Vault!TruncateBak
  BY <1>5, Contents DEF Vault!TruncateBak
<1>6. CASE Vault!FillBak
  BY <1>6, Contents DEF Vault!FillBak
<1>7. CASE Vault!CopyFails
  BY <1>7, Contents DEF Vault!CopyFails
<1>8. CASE Vault!Rename
  BY <1>8, Contents DEF Vault!Rename
<1>9. CASE Vault!SaveFails
  BY <1>9, Contents DEF Vault!SaveFails, Vault!GiveUp
<1>10. CASE Vault!Load
  BY <1>10, Contents, VaultLoads DEF Vault!Load, Vault!Started
<1>11. CASE Vault!LoadTmp
  BY <1>11, Contents, VaultLoads DEF Vault!LoadTmp, Vault!Started
<1>12. CASE Vault!LoadBak
  BY <1>12, Contents, VaultLoads DEF Vault!LoadBak, Vault!Started
<1>13. CASE Vault!RestoreFromBak
  BY <1>13, Contents DEF Vault!RestoreFromBak
<1>14. CASE Vault!LoadNothing
  <2>1. /\ file.primary \notin Value \cup {Corrupt}
        /\ file.tmp \notin Value /\ file.bak \notin Value
    BY <1>14, VaultLoads DEF Vault!LoadNothing
  <2> QED
    BY <1>14, <2>1, Contents DEF Vault!LoadNothing, Vault!Started
<1>15. CASE Vault!WipePrimary
  BY <1>15, Contents DEF Vault!WipePrimary
<1>16. CASE Vault!WipeTmp
  BY <1>16, Contents DEF Vault!WipeTmp
<1>17. CASE Vault!WipeBak
  BY <1>17, Contents DEF Vault!WipeBak
<1>18. CASE Vault!AfterWipe
  BY <1>18, Contents DEF Vault!AfterWipe, Vault!Started
<1>19. CASE WriteBack
  BY <1>19, Contents DEF WriteBack, logVars
<1>20. CASE Kill
  BY <1>20, Contents DEF Kill, GiveUp, fileVars
<1>21. CASE PowerCut
  <2>1. /\ file' \in Files /\ disk' = file'
        /\ MayBe(file'.bak, disk.bak, file.bak)
    BY <1>21, PowerCutLeaves DEF PowerCut
  <2>2. \/ file'.primary = file.primary /\ MayBe(file'.tmp, OldTmp, file.tmp)
        \/ file'.primary = disk.primary /\ file'.tmp = disk.tmp
    BY <1>21, PowerCutLeaves DEF PowerCut
  <2> QED
    BY <1>21, <2>1, <2>2, Contents DEF PowerCut, GiveUp, OldTmp, MayBe, Torn
<1>22. CASE Wear
  BY <1>22, Contents DEF Wear, logVars, Torn
<1> QED
  BY <1>1, <1>2, <1>3, <1>4, <1>5, <1>6, <1>7, <1>8, <1>9, <1>10, <1>11,
     <1>12, <1>13, <1>14, <1>15, <1>16, <1>17, <1>18, <1>19, <1>20, <1>21,
     <1>22, VaultSteps

(* Every later save syncs the rename before it.                             *)
LEMMA VaultFromOnMedium ==
  ASSUME Typed, VaultTypes, Vault!Next, faults = {"crash", "power"}, Synced,
         pc # "restore", VaultOnMedium
  PROVE  VaultPhase' /\ pc' # "restore"
<1> USE DEF VaultTypes, Typed, Files, Content, SavePcs, VaultPcs,
            Vault!fileVars, Vault!logVars, Synced, VaultPhase, VaultFirstSave,
            VaultUndone, VaultOnMedium
<1>1. ASSUME NEW v \in Value, Vault!Begin(v)
      PROVE  VaultPhase' /\ pc' # "restore"
  BY <1>1, Contents DEF Vault!Begin
<1>2. CASE Vault!CreateTmp
  BY <1>2, Contents DEF Vault!CreateTmp
<1>3. CASE Vault!WriteTmp
  BY <1>3, Contents DEF Vault!WriteTmp
<1>4. CASE Vault!SyncTmp
  BY <1>4, Contents DEF Vault!SyncTmp, Vault!Sync
<1>5. CASE Vault!TruncateBak
  BY <1>5, Contents DEF Vault!TruncateBak
<1>6. CASE Vault!FillBak
  BY <1>6, Contents DEF Vault!FillBak
<1>7. CASE Vault!CopyFails
  BY <1>7, Contents DEF Vault!CopyFails
<1>8. CASE Vault!Rename
  BY <1>8, Contents DEF Vault!Rename
<1>9. CASE Vault!SaveFails
  BY <1>9, Contents DEF Vault!SaveFails, Vault!GiveUp
<1>10. CASE Vault!Load
  BY <1>10, Contents, VaultLoads DEF Vault!Load, Vault!Started
<1>11. CASE Vault!LoadTmp
  BY <1>11, Contents, VaultLoads DEF Vault!LoadTmp, Vault!Started
<1>12. CASE Vault!LoadBak
  BY <1>12, Contents, VaultLoads DEF Vault!LoadBak, Vault!Started
<1>13. CASE Vault!RestoreFromBak
  BY <1>13, Contents DEF Vault!RestoreFromBak
<1>14. CASE Vault!LoadNothing
  <2>1. /\ file.primary \notin Value \cup {Corrupt}
        /\ file.tmp \notin Value /\ file.bak \notin Value
    BY <1>14, VaultLoads DEF Vault!LoadNothing
  <2> QED
    BY <1>14, <2>1, Contents DEF Vault!LoadNothing, Vault!Started
<1>15. CASE Vault!WipePrimary
  BY <1>15, Contents DEF Vault!WipePrimary
<1>16. CASE Vault!WipeTmp
  BY <1>16, Contents DEF Vault!WipeTmp
<1>17. CASE Vault!WipeBak
  BY <1>17, Contents DEF Vault!WipeBak
<1>18. CASE Vault!AfterWipe
  BY <1>18, Contents DEF Vault!AfterWipe, Vault!Started
<1>19. CASE WriteBack
  BY <1>19, Contents DEF WriteBack, logVars
<1>20. CASE Kill
  BY <1>20, Contents DEF Kill, GiveUp, fileVars
<1>21. CASE PowerCut
  <2>1. /\ file' \in Files /\ disk' = file'
        /\ MayBe(file'.bak, disk.bak, file.bak)
    BY <1>21, PowerCutLeaves DEF PowerCut
  <2>2. \/ file'.primary = file.primary /\ MayBe(file'.tmp, OldTmp, file.tmp)
        \/ file'.primary = disk.primary /\ file'.tmp = disk.tmp
    BY <1>21, PowerCutLeaves DEF PowerCut
  <2> QED
    BY <1>21, <2>1, <2>2, Contents DEF PowerCut, GiveUp, OldTmp, MayBe, Torn
<1>22. CASE Wear
  BY <1>22, Contents DEF Wear, logVars, Torn
<1> QED
  BY <1>1, <1>2, <1>3, <1>4, <1>5, <1>6, <1>7, <1>8, <1>9, <1>10, <1>11,
     <1>12, <1>13, <1>14, <1>15, <1>16, <1>17, <1>18, <1>19, <1>20, <1>21,
     <1>22, VaultSteps

-----------------------------------------------------------------------------
(* The invariant. *)

LEMMA InvInit == Init => Inv
<1> SUFFICES ASSUME Init PROVE Inv
  OBVIOUS
<1> USE DEF Kiosk!Init, Vault!Init, NoFiles, Kiosk!NoFiles, Vault!NoFiles
<1>1. file = [primary |-> Absent, tmp |-> Absent, bak |-> Absent]
        /\ disk = file
  BY DEF Init
<1>2. file \in Files /\ disk \in Files
  BY <1>1 DEF Files, Content
<1>3. /\ faults \in AllFaultModels
      /\ pc \in {"down", "idle"} /\ saving = Nothing /\ acked = Nothing
      /\ prior = Nothing /\ failed = {}
  BY DEF Init, AllFaultModels
<1>4. Typed
  BY <1>2, <1>3 DEF Typed, SavePcs
<1>5. CASE program = "kiosk"
  <2>1. KioskTypes /\ pc = "down"
    BY <1>3, <1>5 DEF Init, KioskTypes, VaultPcs, SavePcs
  <2>2. KioskKept /\ KioskFirstSave /\ KioskInBak /\ Synced
    BY <1>1, <1>3, <2>1 DEF KioskKept, KioskFirstSave, KioskInBak, Synced
  <2> QED BY <1>4, <1>5, <2>1, <2>2 DEF Inv, KioskInv, VaultInv
<1>6. CASE program = "vault"
  <2>1. VaultTypes /\ Wiping /\ pc = "idle"
    BY <1>3, <1>6 DEF Init, VaultTypes, Wiping
  <2>2. VaultKept /\ VaultFirstSave /\ VaultInBak /\ Synced
    BY <1>1, <1>3, <2>1, Contents
    DEF VaultKept, VaultFirstSave, VaultInBak, Synced
  <2> QED BY <1>4, <1>6, <2>1, <2>2 DEF Inv, KioskInv, VaultInv
<1> QED BY <1>5, <1>6 DEF Init

LEMMA KioskFaultsStay ==
  ASSUME Kiosk!Next
  PROVE  faults' = faults
BY KioskSteps
DEF Kiosk!Start, Kiosk!StartRecovered, Kiosk!StartFresh, Kiosk!Begin,
    Kiosk!CreateTmp, Kiosk!WriteTmp, Kiosk!SyncTmp, Kiosk!TruncateBak,
    Kiosk!FillBak, Kiosk!KeepBak, Kiosk!Rename, Kiosk!SaveFails,
    Kiosk!GiveUp, Kiosk!logVars, WriteBack, Kill, PowerCut, Wear, GiveUp,
    logVars

LEMMA VaultFaultsStay ==
  ASSUME Vault!Next
  PROVE  faults' = faults
BY VaultSteps
DEF Vault!Begin, Vault!CreateTmp, Vault!WriteTmp, Vault!SyncTmp,
    Vault!TruncateBak, Vault!FillBak, Vault!CopyFails, Vault!Rename,
    Vault!SaveFails, Vault!Load, Vault!LoadTmp, Vault!LoadBak,
    Vault!RestoreFromBak, Vault!LoadNothing, Vault!WipePrimary,
    Vault!WipeTmp, Vault!WipeBak, Vault!AfterWipe, Vault!Started,
    Vault!GiveUp, Vault!logVars, WriteBack, Kill, PowerCut, Wear, GiveUp,
    logVars

LEMMA InvNext ==
  ASSUME Inv, [Next]_<<vars, program, starting>>
  PROVE  Inv'
<1>1. CASE KioskStep
  <2>1. program = "kiosk" /\ program' = "kiosk" /\ Kiosk!Next
    BY <1>1 DEF KioskStep
  <2>2. Typed /\ KioskTypes
    BY <2>1 DEF Inv, KioskInv
  <2>3. Typed' /\ KioskTypes' /\ faults' = faults
    BY <2>1, <2>2, KioskKeepsTypes, KioskFaultsStay
  <2>4. faults = {"crash", "io"} => KioskKept'
    BY <2>1, <2>2, KioskKeepsKept DEF Inv, KioskInv
  <2>5. faults = {"wear"} => KioskInBak'
    BY <2>1, <2>2, KioskKeepsInBak DEF Inv, KioskInv
  <2>6. faults = {"crash", "io", "power"} => Synced' /\ KioskPhase'
    BY <2>1, <2>2, KioskKeepsSynced, KioskFromFirstSave, KioskFromUndone,
       KioskFromOnMedium DEF Inv, KioskInv
  <2> QED
    BY <2>1, <2>3, <2>4, <2>5, <2>6 DEF Inv, KioskInv, VaultInv, KioskPhase
<1>2. CASE VaultStep
  <2>1. program = "vault" /\ program' = "vault" /\ Vault!Next
    BY <1>2 DEF VaultStep
  <2>2. Typed /\ VaultTypes /\ Wiping
    BY <2>1 DEF Inv, VaultInv
  <2>3. Typed' /\ VaultTypes' /\ Wiping' /\ faults' = faults
    BY <2>1, <2>2, VaultKeepsTypes, VaultKeepsWiping, VaultFaultsStay
  <2>4. faults = {"crash", "io"} => VaultKept'
    BY <2>1, <2>2, VaultKeepsKept DEF Inv, VaultInv
  <2>5. faults = {"wear", "loadIo"} => VaultInBak'
    BY <2>1, <2>2, VaultKeepsInBak DEF Inv, VaultInv
  <2>6. faults = {"crash", "power"} =>
          Synced' /\ VaultPhase' /\ pc' # "restore"
    BY <2>1, <2>2, VaultKeepsSynced, VaultFromFirstSave, VaultFromUndone,
       VaultFromOnMedium DEF Inv, VaultInv
  <2> QED
    BY <2>1, <2>3, <2>4, <2>5, <2>6 DEF Inv, KioskInv, VaultInv, VaultPhase
<1>3. CASE UNCHANGED <<vars, program, starting>>
  BY <1>3
  DEF vars, fileVars, logVars, Inv, Typed, KioskInv, KioskTypes, KioskKept,
      KioskFirstSave, KioskUndone, KioskOnMedium, KioskInBak, Synced,
      VaultInv, VaultTypes, VaultKept, VaultFirstSave, VaultUndone,
      VaultOnMedium, VaultInBak, Wiping
<1> QED BY <1>1, <1>2, <1>3 DEF Next

(* Where the last state is, in every group of faults: the invariant from    *)
(* which the theorems below follow.                                         *)
THEOREM InvAlways == Spec => []Inv
<1> QED BY InvInit, InvNext, PTL DEF Spec

-----------------------------------------------------------------------------
(* What a start finds. *)

LEMMA KioskFindsState ==
  ASSUME Inv, program = "kiosk"
  PROVE  Kiosk!StartsAgain /\ Kiosk!StartsWithoutLast
<1> SUFFICES ASSUME pc = "down"
             PROVE  Kiosk!StartsAgain /\ Kiosk!StartsWithoutLast
  BY DEF Kiosk!StartsAgain, Kiosk!StartsWithoutLast
<1>1. Typed /\ KioskTypes
  BY DEF Inv, KioskInv
<1>2. CASE faults = {"crash", "io"}
  <2>1. KioskKept
    BY <1>2 DEF Inv, KioskInv
  <2>2. acked # Nothing => Kiosk!Loaded = acked
    BY <2>1, KioskLoads DEF KioskKept
  <2> QED
    BY <1>1, <2>2 DEF KioskTypes, Kiosk!StartsAgain, Kiosk!StartsWithoutLast
<1>3. CASE faults = {"crash", "io", "power"}
  <2>1. KioskFirstSave \/ KioskUndone \/ KioskOnMedium
    BY <1>3 DEF Inv, KioskInv
  <2>2. prior # Nothing => Kiosk!Loaded \in {acked, prior}
    BY <1>1, <2>1, KioskLoads
    DEF KioskFirstSave, KioskUndone, KioskOnMedium, KioskTypes
  <2>3. ~ Kiosk!Durable
    BY <1>3 DEF Kiosk!Durable
  <2> QED
    BY <2>2, <2>3 DEF Kiosk!StartsAgain, Kiosk!StartsWithoutLast
<1>4. CASE faults = {"wear"}
  <2>1. KioskInBak
    BY <1>4 DEF Inv, KioskInv
  <2>2. prior # Nothing => Kiosk!Loaded \in {acked, prior}
    BY <1>1, <2>1, KioskLoads, Contents DEF KioskInBak, KioskTypes, Torn
  <2>3. ~ Kiosk!Durable
    BY <1>4 DEF Kiosk!Durable
  <2> QED
    BY <2>2, <2>3 DEF Kiosk!StartsAgain, Kiosk!StartsWithoutLast
<1> QED BY <1>1, <1>2, <1>3, <1>4 DEF KioskTypes, KioskFaultModels

(* A kiosk that has saved its keys always starts with them (loadState), and *)
(* with the last state saved or one whose save did not finish, or, after a  *)
(* power cut or with a bad file, the state before.                          *)
THEOREM KioskAlwaysStarts == Spec => []KioskStartsAgain
<1>1. Inv => KioskStartsAgain
  BY KioskFindsState DEF KioskStartsAgain
<1> QED BY <1>1, InvAlways, PTL

LEMMA VaultFindsState ==
  ASSUME Inv, program = "vault"
  PROVE  Vault!LoadFindsState
<1> SUFFICES ASSUME "wipe" \notin faults, pc \in {"idle", "down"}
             PROVE  Vault!Loaded \in {acked} \cup failed
                      \cup (IF "power" \in faults THEN {prior} ELSE {})
  BY DEF Vault!LoadFindsState
<1>1. Typed /\ VaultTypes
  BY DEF Inv, VaultInv
<1>2. CASE faults = {"crash", "io"}
  <2>1. VaultKept /\ saving = Nothing
    BY <1>1, <1>2 DEF Inv, VaultInv, Typed, SavePcs
  <2>2. Vault!Loaded \in {acked} \cup failed
    BY <2>1, VaultLoads, Contents DEF VaultKept
  <2> QED BY <2>2
<1>3. CASE faults = {"crash", "power"}
  <2>1. VaultFirstSave \/ VaultUndone \/ VaultOnMedium
    BY <1>3 DEF Inv, VaultInv
  <2>2. CASE VaultFirstSave
    <3>1. file.bak \in Value => file.tmp \in Value
      BY <2>2 DEF VaultFirstSave
    <3>2. Vault!Loaded = IF file.tmp \in Value THEN file.tmp ELSE Nothing
      BY <2>2, <3>1, VaultLoads, Contents DEF VaultFirstSave
    <3>3. Vault!Loaded \in {acked, prior} \cup failed
      BY <2>2, <3>2 DEF VaultFirstSave
    <3> QED BY <1>3, <3>3
  <2>3. CASE VaultUndone \/ VaultOnMedium
    BY <1>3, <2>3, VaultLoads DEF VaultUndone, VaultOnMedium
  <2> QED BY <2>1, <2>2, <2>3
<1>4. CASE faults = {"wear", "loadIo"}
  <2>1. VaultInBak
    BY <1>4 DEF Inv, VaultInv
  <2>2. Vault!Loaded = acked
    BY <2>1, VaultLoads, Contents DEF VaultInBak, Torn
  <2> QED BY <2>2
<1> QED BY <1>1, <1>2, <1>3, <1>4 DEF VaultTypes, VaultFaultModels

(* Between any two calls of save and load, load would find a state saved,   *)
(* never an empty vault in place of a full one (FlashStorage).              *)
THEOREM VaultAlwaysStarts == Spec => []VaultStartsAgain
<1>1. Inv => VaultStartsAgain
  BY VaultFindsState DEF VaultStartsAgain
<1> QED BY <1>1, InvAlways, PTL

(* Once wipe has returned Ok, and no file operation failed unseen, a start  *)
(* finds an empty vault.                                                    *)
THEOREM WipesAreComplete == Spec => []VaultWipes
<1>1. ASSUME Inv PROVE VaultWipes
  <2> SUFFICES ASSUME program = "vault", "io" \notin faults, pc = "wiped"
               PROVE  Vault!Loaded = Nothing
    BY DEF VaultWipes, Vault!WipeIsComplete
  <2>1. file.primary = Absent /\ file.tmp = Absent /\ file.bak = Absent
    BY <1>1 DEF Inv, VaultInv, Wiping
  <2> QED BY <2>1, VaultLoads, Contents
<1> QED BY <1>1, InvAlways, PTL

-----------------------------------------------------------------------------
(* Both are atomic stores. *)

(* A start that needs no recovery reads a state that the store may return. *)
LEMMA KioskReadsState ==
  ASSUME Inv, program = "kiosk", pc = "down", file.primary \in Value
  PROVE  /\ Kiosk!Loaded \in {acked, prior}
         /\ Kiosk!Durable => Kiosk!Loaded = acked
<1>1. Typed /\ KioskTypes /\ Kiosk!Loaded = file.primary
  BY KioskLoads DEF Inv, KioskInv
<1>2. CASE faults = {"crash", "io"}
  BY <1>1, <1>2, Contents DEF Inv, KioskInv, KioskKept
<1>3. CASE faults = {"crash", "io", "power"}
  <2>1. KioskFirstSave \/ KioskUndone \/ KioskOnMedium
    BY <1>3 DEF Inv, KioskInv
  <2>2. file.primary \in {acked, prior}
    BY <2>1, Contents DEF KioskFirstSave, KioskUndone, KioskOnMedium
  <2> QED BY <1>1, <1>3, <2>2 DEF Kiosk!Durable
<1>4. CASE faults = {"wear"}
  <2>1. file.primary = acked
    BY <1>4, Contents DEF Inv, KioskInv, KioskInBak, Torn
  <2> QED BY <1>1, <2>1
<1> QED BY <1>1, <1>2, <1>3, <1>4 DEF KioskTypes, KioskFaultModels

LEMMA KioskIsStore ==
  ASSUME Inv, program = "kiosk", Kiosk!Next
  PROVE  Kiosk!Store!Next \/ UNCHANGED Kiosk!Store!vars
<1>1. Typed /\ KioskTypes
  BY DEF Inv, KioskInv
<1>2. Kiosk!Durable' = Kiosk!Durable
  BY KioskFaultsStay DEF Kiosk!Durable
<1> USE DEF Kiosk!Store!Next, Kiosk!Store!vars, SavePcs, Kiosk!fileVars,
            Kiosk!logVars
<1>3. CASE Kiosk!Start
  <2>1. saving = Nothing
    BY <1>1, <1>3 DEF Typed, Kiosk!Start
  <2>2. Kiosk!Loaded \in
          {acked} \cup failed \cup (IF Kiosk!Durable THEN {} ELSE {prior})
    BY <1>3, KioskReadsState DEF Kiosk!Start
  <2>3. Kiosk!Store!Settle(Kiosk!Loaded) /\ UNCHANGED saving
    BY <1>3 DEF Kiosk!Start, Kiosk!Store!Settle
  <2> QED BY <1>2, <2>1, <2>2, <2>3 DEF Kiosk!Store!Load
<1>4. CASE Kiosk!StartRecovered
  BY <1>1, <1>2, <1>4 DEF Typed, Kiosk!StartRecovered, Kiosk!Store!Begin
<1>5. ASSUME NEW v \in Value, Kiosk!StartFresh(v)
      PROVE  Kiosk!Store!Next
  BY <1>1, <1>2, <1>5 DEF Typed, Kiosk!StartFresh, Kiosk!Store!Begin
<1>6. ASSUME NEW v \in Value, Kiosk!Begin(v)
      PROVE  Kiosk!Store!Next
  BY <1>1, <1>2, <1>6 DEF Typed, Kiosk!Begin, Kiosk!Store!Begin
<1>7. CASE Kiosk!CreateTmp \/ Kiosk!WriteTmp \/ Kiosk!SyncTmp
             \/ Kiosk!TruncateBak \/ Kiosk!FillBak \/ Kiosk!KeepBak
  BY <1>2, <1>7
  DEF Kiosk!CreateTmp, Kiosk!WriteTmp, Kiosk!SyncTmp, Kiosk!TruncateBak,
      Kiosk!FillBak, Kiosk!KeepBak
<1>8. CASE Kiosk!Rename
  BY <1>1, <1>2, <1>8, Contents
  DEF Typed, Kiosk!Rename, Kiosk!Store!Return, Kiosk!Store!Settle
<1>9. CASE Kiosk!SaveFails
  BY <1>1, <1>2, <1>9, Contents
  DEF Typed, Kiosk!SaveFails, Kiosk!GiveUp, Kiosk!Store!Fail
<1>10. CASE WriteBack \/ Wear
  BY <1>2, <1>10 DEF WriteBack, Wear, logVars
<1>11. CASE Kill \/ PowerCut
  BY <1>2, <1>11 DEF Kill, PowerCut, GiveUp, Kiosk!Store!Fail
<1> QED
  BY <1>3, <1>4, <1>5, <1>6, <1>7, <1>8, <1>9, <1>10, <1>11, KioskSteps

LEMMA VaultIsStore ==
  ASSUME Inv, program = "vault", "wipe" \notin faults, Vault!Next
  PROVE  Vault!Store!Next \/ UNCHANGED Vault!Store!vars
<1>1. Typed /\ VaultTypes
  BY DEF Inv, VaultInv
<1>2. ("power" \notin faults)' = ("power" \notin faults)
  BY VaultFaultsStay
<1> USE DEF Vault!Store!Next, Vault!Store!vars, SavePcs, Vault!fileVars,
            Vault!logVars
<1>3. ASSUME Vault!Started(Vault!Loaded), pc = "down"
      PROVE  Vault!Store!Next
  <2>1. saving = Nothing
    BY <1>1, <1>3 DEF Typed
  <2>2. Vault!Loaded \in {acked} \cup failed
          \cup (IF "power" \notin faults THEN {} ELSE {prior})
    BY <1>3, VaultFindsState DEF Vault!LoadFindsState
  <2>3. Vault!Store!Settle(Vault!Loaded) /\ UNCHANGED saving
    BY <1>3 DEF Vault!Started, Vault!Store!Settle
  <2> QED BY <1>2, <2>1, <2>2, <2>3 DEF Vault!Store!Load
<1>4. ASSUME NEW v \in Value, Vault!Begin(v)
      PROVE  Vault!Store!Next
  BY <1>1, <1>2, <1>4 DEF Typed, Vault!Begin, Vault!Store!Begin
<1>5. CASE Vault!CreateTmp \/ Vault!WriteTmp \/ Vault!SyncTmp
             \/ Vault!TruncateBak \/ Vault!FillBak \/ Vault!CopyFails
  BY <1>2, <1>5
  DEF Vault!CreateTmp, Vault!WriteTmp, Vault!SyncTmp, Vault!TruncateBak,
      Vault!FillBak, Vault!CopyFails
<1>6. CASE Vault!Rename
  BY <1>1, <1>2, <1>6, Contents
  DEF Typed, Vault!Rename, Vault!Store!Return, Vault!Store!Settle
<1>7. CASE Vault!SaveFails
  BY <1>1, <1>2, <1>7, Contents
  DEF Typed, Vault!SaveFails, Vault!GiveUp, Vault!Store!Fail
<1>8. CASE Vault!Load
  BY <1>3, <1>8, VaultLoads DEF Vault!Load
<1>9. CASE Vault!LoadTmp
  BY <1>3, <1>9, VaultLoads DEF Vault!LoadTmp
<1>10. CASE Vault!LoadBak
  BY <1>3, <1>10, VaultLoads DEF Vault!LoadBak
<1>11. CASE Vault!LoadNothing
  BY <1>3, <1>11 DEF Vault!LoadNothing
<1>12. CASE Vault!RestoreFromBak
  BY <1>2, <1>12 DEF Vault!RestoreFromBak
<1>13. CASE Vault!WipePrimary \/ Vault!WipeTmp \/ Vault!WipeBak
              \/ Vault!AfterWipe
  BY <1>1, <1>13
  DEF VaultTypes, Vault!WipePrimary, Vault!WipeTmp, Vault!WipeBak,
      Vault!AfterWipe
<1>14. CASE WriteBack \/ Wear
  BY <1>2, <1>14 DEF WriteBack, Wear, logVars
<1>15. CASE Kill \/ PowerCut
  BY <1>2, <1>15 DEF Kill, PowerCut, GiveUp, Vault!Store!Fail
<1> QED
  BY <1>4, <1>5, <1>6, <1>7, <1>8, <1>9, <1>10, <1>11, <1>12, <1>13, <1>14,
     <1>15, VaultSteps

(* saveState and FlashStorage::save are atomic: what the rest of the models *)
(* assumes when it treats a save as one step that is done or not done.      *)
THEOREM SavesAreAtomic == Spec => ImplementsAtomicStore
<1>1. Init => /\ program = "kiosk" => Kiosk!Store!Init
              /\ KeepsState => Vault!Store!Init
  BY DEF Init, KeepsState, Kiosk!Init, Vault!Init, Kiosk!Store!Init,
         Vault!Store!Init, Kiosk!Durable
<1>2. ASSUME Inv, [Next]_<<vars, program, starting>>
      PROVE  /\ [program = "kiosk" => Kiosk!Store!Next]_(Kiosk!Store!vars)
             /\ [KeepsState => Vault!Store!Next]_(Vault!Store!vars)
  <2>1. CASE KioskStep
    BY <1>2, <2>1, KioskIsStore DEF KioskStep, KeepsState
  <2>2. CASE VaultStep
    BY <1>2, <2>2, VaultIsStore DEF VaultStep, KeepsState
  <2>3. CASE UNCHANGED <<vars, program, starting>>
    BY <2>3 DEF vars, logVars, Kiosk!Store!vars, Vault!Store!vars,
                Kiosk!Durable
  <2> QED BY <1>2, <2>1, <2>2, <2>3 DEF Next
<1> QED
  BY <1>1, <1>2, InvAlways, PTL DEF Spec, ImplementsAtomicStore
=============================================================================
