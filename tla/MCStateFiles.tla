---------------------------- MODULE MCStateFiles ----------------------------
(* KioskStorage and FlashStorage on three states, each under the faults    *)
(* that its program may meet together: one directory, run by one of them.  *)
EXTENDS StateFiles

CONSTANTS v1, v2, v3

VARIABLES
  program,   \* whose state file it is
  starting   \* KioskStorage's

States == {v1, v2, v3}

KioskFaultModels == {{"crash", "io"}, {"crash", "io", "power"}, {"wear"}}
VaultFaultModels ==
  {{"crash", "io"}, {"crash", "power"}, {"wear", "loadIo"},
   {"crash", "power", "wipe"}, {"io", "wipe"}}
AllFaultModels == KioskFaultModels \cup VaultFaultModels

Kiosk == INSTANCE KioskStorage WITH FaultModels <- KioskFaultModels
Vault == INSTANCE FlashStorage WITH FaultModels <- VaultFaultModels

Init ==
  \/ program = "kiosk" /\ Kiosk!Init
  \/ program = "vault" /\ Vault!Init /\ starting = FALSE

KioskStep == program = "kiosk" /\ Kiosk!Next /\ UNCHANGED program
VaultStep == program = "vault" /\ Vault!Next /\ UNCHANGED <<program, starting>>

Next == KioskStep \/ VaultStep

Spec == Init /\ [][Next]_<<vars, program, starting>>

-----------------------------------------------------------------------------
(* A kiosk that has saved its keys starts with them again: it is never     *)
(* refused its start and never becomes a new mint, for which every token   *)
(* out is worthless.  It has lost nothing that it acknowledged, unless the *)
(* power was cut or the file went bad, and then the last operation at most *)
(* (saveState, readState, loadState).                                      *)
KioskStartsAgain ==
  program = "kiosk" => Kiosk!StartsAgain /\ Kiosk!StartsWithoutLast

(* Whatever happens between two calls of save, load and the next save, the *)
(* vault starts again, and never empty in place of full (FlashStorage).    *)
VaultStartsAgain == program = "vault" => Vault!LoadFindsState

(* Once wipe has returned Ok, with no file operation failing unseen, the   *)
(* next start finds an empty vault (FlashStorage::wipe).                   *)
VaultWipes == program = "vault" => Vault!WipeIsComplete

(* A vault that wipes itself promises something else. *)
KeepsState == program = "vault" /\ "wipe" \notin faults

(* Both files are atomic stores: what KioskServer, Purse, Terminal and     *)
(* Keysets assume of a save (saveState; FlashStorage::save).               *)
ImplementsAtomicStore ==
  /\ program = "kiosk" => Kiosk!Store!Init
  /\ KeepsState => Vault!Store!Init
  /\ [][program = "kiosk" => Kiosk!Store!Next]_(Kiosk!Store!vars)
  /\ [][KeepsState => Vault!Store!Next]_(Vault!Store!vars)
=============================================================================
