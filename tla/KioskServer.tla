----------------------------- MODULE KioskServer -----------------------------
(***************************************************************************)
(* The kiosk process and its state file.                                   *)
(*                                                                         *)
(* An operation holds k.mu while it changes the fields of the Kiosk struct *)
(* and saveState writes them out; only then it answers.  If the save fails *)
(* the operation undoes its own changes, field by field.  The process can  *)
(* crash at any moment and reads its fields back when it starts again.     *)
(*                                                                         *)
(* The operations are those of Kiosk, applied here to the fields in        *)
(* memory.  The signature an operation has computed is in its hands        *)
(* (computed) until the save is done, and goes out with the answer.        *)
(*                                                                         *)
(* saveState is one step, which succeeds or fails (a crash during it       *)
(* leaves the old state or the new one): the files behind it are the       *)
(* subject of a module of their own.                                       *)
(***************************************************************************)
EXTENDS Money, Sequences

CONSTANTS
  Secret, Locked, Denom, Device, SeqNo, Merchant, Unlabeled, Ref, Amount,
  MaxSwapCache,   \* as in Kiosk
  LegacyRef                       \* "legacy-opening-balance"

ASSUME LegacyAssumption == LegacyRef \notin Ref

VARIABLES
  reserve, issued, spent, deposits, allocated, loaded, lastSeq, allocRefs,
  settlements, payouts, swapCache,  \* the fields of the Kiosk struct
  allowAnon,  \* the field that a flag sets at every start
  computed,   \* signatures computed: the released ones and the one in hand
  signed,     \* signatures released
  disk,       \* what the state file holds
  holder      \* the operation that holds k.mu and how to undo it

memory == [reserve |-> reserve, issued |-> issued, spent |-> spent,
           deposits |-> deposits, allocated |-> allocated, loaded |-> loaded,
           lastSeq |-> lastSeq, allocRefs |-> allocRefs,
           settlements |-> settlements, payouts |-> payouts,
           swapCache |-> swapCache]

memoryVars == <<reserve, issued, spent, deposits, allocated, loaded, lastSeq,
                allocRefs, settlements, payouts, swapCache>>

vars == <<memoryVars, allowAnon, computed, signed, disk, holder>>

(* The operations, on the fields in memory. *)
Mem == INSTANCE Kiosk WITH signed <- computed

(* The constants are those of a kiosk. *)
ASSUME ServerAssumption == Mem!KioskAssumption

Free == [op |-> "none"]     \* nobody holds the mutex
Down == [op |-> "down"]     \* the process is not running

Init ==
  /\ Mem!Init
  /\ signed = {}
  /\ disk = memory
  /\ holder = Free

-----------------------------------------------------------------------------
(* An operation takes the mutex and changes the fields.  What it needs to  *)
(* undo the change it keeps in local variables. *)

Begin(change, undo) ==
  /\ holder = Free
  /\ change
  /\ holder' = undo
  /\ UNCHANGED <<signed, disk>>

Deposit(ref, a) ==
  Begin(Mem!Deposit(ref, a),
        [op |-> "deposit", ref |-> ref, oldReserve |-> reserve])

AllocateDevice(dev, a, ref) ==
  Begin(Mem!AllocateDevice(dev, a, ref),
        [op |-> "allocate", dev |-> dev, amount |-> a, ref |-> ref])

BlindSign(p) ==
  Begin(Mem!BlindSign(p), [op |-> "sign", amount |-> p.amount])

SignForDevice(dev, seq, p) ==
  Begin(Mem!SignForDevice(dev, seq, p),
        [op |-> "signForDevice", dev |-> dev, amount |-> p.amount,
         oldSeq |-> lastSeq[dev]])

SettleFor(p, m, claimed) ==
  Begin(Mem!SettleFor(p, m, claimed),
        [op |-> "settle", secret |-> p.secret, oldIssued |-> issued])

Swap(ins, outs) ==
  Begin(Mem!Swap(ins, outs),
        [op |-> "swap", ins |-> Mem!Secrets(ins),
         evicted |-> SubSeq(swapCache, 1, Len(swapCache) + 1 - MaxSwapCache)])

RecordPayout(m, a, ref) ==
  Begin(Mem!RecordPayout(m, a, ref),
        [op |-> "payout", ref |-> ref, oldReserve |-> reserve])

-----------------------------------------------------------------------------
(* saveState succeeds; the answer goes out with the signature, if any. *)
Save ==
  /\ holder \notin {Free, Down}
  /\ disk' = memory
  /\ signed' = computed
  /\ holder' = Free
  /\ UNCHANGED <<memoryVars, allowAnon, computed>>

(* saveState fails; every operation puts back what it changed. *)

WithoutRef(ledger, ref) == {r \in ledger : r.ref # ref}

UndoDeposit ==
  /\ holder.op = "deposit"
  /\ deposits' = WithoutRef(deposits, holder.ref)
  /\ reserve' = holder.oldReserve
  /\ UNCHANGED <<issued, spent, allocated, loaded, lastSeq, allocRefs,
                 settlements, payouts, swapCache>>

UndoAllocate ==
  /\ holder.op = "allocate"
  /\ allocated' = [allocated EXCEPT ![holder.dev] = @ - holder.amount]
  /\ allocRefs' = allocRefs \ {holder.ref}
  /\ UNCHANGED <<reserve, issued, spent, deposits, loaded, lastSeq,
                 settlements, payouts, swapCache>>

UndoSign ==
  /\ holder.op = "sign"
  /\ issued' = issued - holder.amount
  /\ UNCHANGED <<reserve, spent, deposits, allocated, loaded, lastSeq, allocRefs,
                 settlements, payouts, swapCache>>

UndoSignNotSeq ==
  /\ holder.op = "signForDevice"
  /\ issued' = issued - holder.amount
  /\ loaded' = [loaded EXCEPT ![holder.dev] = @ - holder.amount]
  /\ UNCHANGED <<reserve, spent, deposits, allocated, lastSeq, allocRefs,
                 settlements, payouts, swapCache>>

UndoSignForDevice ==
  /\ holder.op = "signForDevice"
  /\ issued' = issued - holder.amount
  /\ lastSeq' = [lastSeq EXCEPT ![holder.dev] = holder.oldSeq]
  /\ loaded' = [loaded EXCEPT ![holder.dev] = @ - holder.amount]
  /\ UNCHANGED <<reserve, spent, deposits, allocated, allocRefs, settlements,
                 payouts, swapCache>>

UndoSettle ==
  /\ holder.op = "settle"
  /\ spent' = spent \ {holder.secret}
  /\ settlements' = {e \in settlements : e.seq < Cardinality(settlements)}
  /\ issued' = holder.oldIssued
  /\ UNCHANGED <<reserve, deposits, allocated, loaded, lastSeq, allocRefs,
                 payouts, swapCache>>

UndoSwapNotEvicted ==
  /\ holder.op = "swap"
  /\ spent' = spent \ holder.ins
  /\ swapCache' = SubSeq(swapCache, 1, Len(swapCache) - 1)
  /\ UNCHANGED <<reserve, issued, deposits, allocated, loaded, lastSeq, allocRefs,
                 settlements, payouts>>

UndoSwap ==
  /\ holder.op = "swap"
  /\ spent' = spent \ holder.ins
  /\ swapCache' = holder.evicted \o SubSeq(swapCache, 1, Len(swapCache) - 1)
  /\ UNCHANGED <<reserve, issued, deposits, allocated, loaded, lastSeq, allocRefs,
                 settlements, payouts>>

UndoPayout ==
  /\ holder.op = "payout"
  /\ payouts' = WithoutRef(payouts, holder.ref)
  /\ reserve' = holder.oldReserve
  /\ UNCHANGED <<issued, spent, deposits, allocated, loaded, lastSeq, allocRefs,
                 settlements, swapCache>>

SaveFails ==
  /\ \/ UndoDeposit \/ UndoAllocate \/ UndoSign \/ UndoSignForDevice
     \/ UndoSettle \/ UndoSwap \/ UndoPayout
  /\ holder' = Free
  /\ computed' = signed
  /\ UNCHANGED <<signed, disk, allowAnon>>

-----------------------------------------------------------------------------
(* The process dies; an operation that holds the mutex is never answered. *)
Crash ==
  /\ holder # Down
  /\ holder' = Down
  /\ computed' = signed
  /\ UNCHANGED <<memoryVars, allowAnon, signed, disk>>

(* applyState: a reserve above the ledger is booked as an opening balance. *)
Ledger(st) ==
  LET gap == st.reserve - (Value(st.deposits) - Value(st.payouts))
  IN  IF gap > 0
      THEN st.deposits \cup {[ref |-> LegacyRef, amount |-> gap]}
      ELSE st.deposits

(* NewKiosk: the fields are read back from the state file.  The start flag *)
(* -allow-anonymous-issuance is not in it: it is taken to be the same at   *)
(* every start.                                                            *)
Restart ==
  /\ holder = Down
  /\ holder' = Free
  /\ reserve' = disk.reserve
  /\ issued' = disk.issued
  /\ spent' = disk.spent
  /\ deposits' = Ledger(disk)
  /\ allocated' = disk.allocated
  /\ loaded' = disk.loaded
  /\ lastSeq' = disk.lastSeq
  /\ allocRefs' = disk.allocRefs
  /\ settlements' = disk.settlements
  /\ payouts' = disk.payouts
  /\ swapCache' = disk.swapCache
  /\ UNCHANGED <<allowAnon, computed, signed, disk>>

Next ==
  \/ \E ref \in Ref, a \in Amount : Deposit(ref, a)
  \/ \E dev \in Device, a \in Amount, ref \in Ref : AllocateDevice(dev, a, ref)
  \/ \E p \in Mem!Proof : BlindSign(p)
  \/ \E dev \in Device, seq \in SeqNo, p \in Mem!Proof : SignForDevice(dev, seq, p)
  \/ \E p \in Mem!Proof, m \in Mem!Payee, c \in BOOLEAN : SettleFor(p, m, c)
  \/ \E ins \in SUBSET computed, outs \in SUBSET Mem!Proof : Swap(ins, outs)
  \/ \E m \in Mem!Payee, a \in Amount, ref \in Ref : RecordPayout(m, a, ref)
  \/ Save
  \/ SaveFails
  \/ Crash
  \/ Restart

Spec == Init /\ [][Next]_vars

-----------------------------------------------------------------------------
(* The kiosk as its clients and its operator know it: the saved state. *)
Saved == INSTANCE Kiosk WITH
  reserve <- disk.reserve, issued <- disk.issued, spent <- disk.spent,
  deposits <- disk.deposits, allocated <- disk.allocated, loaded <- disk.loaded,
  lastSeq <- disk.lastSeq, allocRefs <- disk.allocRefs,
  settlements <- disk.settlements, payouts <- disk.payouts,
  swapCache <- disk.swapCache

(* The process implements Kiosk: what is on disk and what has been         *)
(* answered change only by whole operations, whatever saves fail and       *)
(* whenever the process dies.                                              *)
ImplementsKiosk == Saved!Spec

(* Between operations the fields in memory are what a restart would read:  *)
(* every failed save is undone completely (the rollback of each operation),*)
(* and applyState restores everything and invents no opening balance.      *)
MemoryIsDisk == holder = Free => memory = disk
=============================================================================
