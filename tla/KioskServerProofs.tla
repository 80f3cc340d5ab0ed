-------------------------- MODULE KioskServerProofs --------------------------
(***************************************************************************)
(* The kiosk process implements Kiosk, for every value of the constants:   *)
(* whatever saves fail and whenever it crashes, what is on disk and what   *)
(* has been answered change by whole operations of Kiosk only.             *)
(*                                                                         *)
(* The invariant says what the mutex protects.  While nobody holds it, the *)
(* fields are what is on disk; while an operation holds it, they are what  *)
(* that operation makes of the state on disk, and `holder' keeps enough to *)
(* undo just that (Mutex).  The undo of a settlement also needs that the   *)
(* last entry of the log has the highest number, that of a swap that the   *)
(* cache was not overfull (Saving); both need the books of Kiosk for the   *)
(* state on disk, which KioskProofs has proved (Books).                    *)
(***************************************************************************)
EXTENDS KioskServer, MoneyLemmas, SequenceTheorems

(* The theorems about the kiosk's books, for the state on disk. *)
Books == INSTANCE KioskProofs WITH
  reserve <- disk.reserve, issued <- disk.issued, spent <- disk.spent,
  deposits <- disk.deposits, allocated <- disk.allocated,
  loaded <- disk.loaded,
  lastSeq <- disk.lastSeq, allocRefs <- disk.allocRefs,
  settlements <- disk.settlements, payouts <- disk.payouts,
  swapCache <- disk.swapCache

(* The operation that holds the mutex: what it found on disk, how it has   *)
(* changed the fields, and that it can undo just that.                     *)
Depositing(ref, a) ==
  /\ ref \notin Saved!Refs(disk.deposits)
  /\ deposits = disk.deposits \cup {[ref |-> ref, amount |-> a]}
  /\ reserve = disk.reserve + a
  /\ issued = disk.issued /\ spent = disk.spent
  /\ allocated = disk.allocated /\ loaded = disk.loaded
  /\ lastSeq = disk.lastSeq /\ allocRefs = disk.allocRefs
  /\ settlements = disk.settlements /\ payouts = disk.payouts
  /\ swapCache = disk.swapCache
  /\ computed = signed
  /\ holder = [op |-> "deposit", ref |-> ref, oldReserve |-> disk.reserve]

Allocating(dev, a, ref) ==
  /\ ref \notin disk.allocRefs
  /\ Saved!Total(disk.allocated) + a <= disk.reserve
  /\ allocated = [disk.allocated EXCEPT ![dev] = @ + a]
  /\ allocRefs = disk.allocRefs \cup {ref}
  /\ reserve = disk.reserve /\ issued = disk.issued /\ spent = disk.spent
  /\ deposits = disk.deposits /\ loaded = disk.loaded
  /\ lastSeq = disk.lastSeq /\ settlements = disk.settlements
  /\ payouts = disk.payouts /\ swapCache = disk.swapCache
  /\ computed = signed
  /\ holder = [op |-> "allocate", dev |-> dev, amount |-> a, ref |-> ref]

Signing(p) ==
  /\ allowAnon /\ Saved!Covered(p.amount)
  /\ issued = disk.issued + p.amount
  /\ reserve = disk.reserve /\ spent = disk.spent
  /\ deposits = disk.deposits /\ allocated = disk.allocated
  /\ loaded = disk.loaded /\ lastSeq = disk.lastSeq
  /\ allocRefs = disk.allocRefs /\ settlements = disk.settlements
  /\ payouts = disk.payouts /\ swapCache = disk.swapCache
  /\ computed \in {signed, signed \cup {p}}
  /\ holder = [op |-> "sign", amount |-> p.amount]

SigningForDevice(dev, seq, p) ==
  /\ disk.allocated[dev] > 0 /\ seq > disk.lastSeq[dev]
  /\ Saved!WithinQuota(dev, p.amount) /\ Saved!Covered(p.amount)
  /\ issued = disk.issued + p.amount
  /\ lastSeq = [disk.lastSeq EXCEPT ![dev] = seq]
  /\ loaded = [disk.loaded EXCEPT ![dev] = @ + p.amount]
  /\ reserve = disk.reserve /\ spent = disk.spent
  /\ deposits = disk.deposits /\ allocated = disk.allocated
  /\ allocRefs = disk.allocRefs /\ settlements = disk.settlements
  /\ payouts = disk.payouts /\ swapCache = disk.swapCache
  /\ computed \in {signed, signed \cup {p}}
  /\ holder = [op |-> "signForDevice", dev |-> dev, amount |-> p.amount,
               oldSeq |-> disk.lastSeq[dev]]

Settling(p, m, claimed) ==
  /\ Saved!CheckProof(p) /\ (p.secret \in Locked => claimed)
  /\ spent = disk.spent \cup {p.secret}
  /\ issued = Saved!Deduct(disk.issued, p.amount)
  /\ settlements = disk.settlements \cup
       {[seq |-> Saved!Cardinality(disk.settlements) + 1, merchant |-> m,
         secret |-> p.secret, amount |-> p.amount]}
  /\ reserve = disk.reserve /\ deposits = disk.deposits
  /\ allocated = disk.allocated /\ loaded = disk.loaded
  /\ lastSeq = disk.lastSeq /\ allocRefs = disk.allocRefs
  /\ payouts = disk.payouts /\ swapCache = disk.swapCache
  /\ computed = signed
  /\ holder = [op |-> "settle", secret |-> p.secret, oldIssued |-> disk.issued]

Swapping(ins, outs) ==
  /\ ins # {} /\ outs # {}
  /\ ~ Saved!CachedSwap(ins, outs)
  /\ \A p \in ins : Saved!Swappable(p)
  /\ \A p, q \in ins : p.secret = q.secret => p = q
  /\ Saved!Balanced(ins, outs)
  /\ spent = disk.spent \cup Saved!Secrets(ins)
  /\ swapCache = Saved!Evict(Append(disk.swapCache,
                               [ins |-> Saved!Secrets(ins), outs |-> outs]))
  /\ reserve = disk.reserve /\ issued = disk.issued
  /\ deposits = disk.deposits /\ allocated = disk.allocated
  /\ loaded = disk.loaded /\ lastSeq = disk.lastSeq
  /\ allocRefs = disk.allocRefs /\ settlements = disk.settlements
  /\ payouts = disk.payouts
  /\ computed = signed \cup outs
  /\ holder = [op |-> "swap", ins |-> Saved!Secrets(ins),
               evicted |-> SubSeq(disk.swapCache, 1,
                                  Len(disk.swapCache) + 1 - MaxSwapCache)]

PayingOut(m, a, ref) ==
  /\ Saved!MayPay(m, a) /\ ref \notin Saved!Refs(disk.payouts)
  /\ payouts = disk.payouts \cup {[ref |-> ref, merchant |-> m, amount |-> a]}
  /\ reserve = disk.reserve - a
  /\ issued = disk.issued /\ spent = disk.spent /\ deposits = disk.deposits
  /\ allocated = disk.allocated /\ loaded = disk.loaded
  /\ lastSeq = disk.lastSeq /\ allocRefs = disk.allocRefs
  /\ settlements = disk.settlements /\ swapCache = disk.swapCache
  /\ computed = signed
  /\ holder = [op |-> "payout", ref |-> ref, oldReserve |-> disk.reserve]

InProgress ==
  \/ \E ref \in Ref, a \in Amount : Depositing(ref, a)
  \/ \E dev \in Device, a \in Amount, ref \in Ref : Allocating(dev, a, ref)
  \/ \E p \in Saved!Proof : Signing(p)
  \/ \E dev \in Device, seq \in SeqNo, p \in Saved!Proof :
       SigningForDevice(dev, seq, p)
  \/ \E p \in Saved!Proof, m \in Saved!Payee, c \in BOOLEAN : Settling(p, m, c)
  \/ \E ins \in SUBSET signed, outs \in SUBSET Saved!Proof : 
       Swapping(ins, outs)
  \/ \E m \in Saved!Payee, a \in Amount, ref \in Ref : PayingOut(m, a, ref)

Mutex ==
  \/ holder = Free /\ memory = disk /\ computed = signed
  \/ holder = Down /\ computed = signed
  \/ InProgress

(* What a rollback relies on besides the books: the last entry of the log  *)
(* is the one with the highest number, and the cache is never overfull.    *)
Saving ==
  /\ disk = [reserve |-> disk.reserve, issued |-> disk.issued,
             spent |-> disk.spent, deposits |-> disk.deposits,
             allocated |-> disk.allocated, loaded |-> disk.loaded,
             lastSeq |-> disk.lastSeq, allocRefs |-> disk.allocRefs,
             settlements |-> disk.settlements, payouts |-> disk.payouts,
             swapCache |-> disk.swapCache]
  /\ \A e \in disk.settlements : e.seq <= Cardinality(disk.settlements)
  /\ Len(disk.swapCache) <= MaxSwapCache

Inv == Books!Books /\ Saving /\ Mutex

-----------------------------------------------------------------------------
(* The instances of Kiosk count and sum alike. *)
LEMMA Sums ==
  ASSUME NEW S
  PROVE  /\ Mem!Value(S) = Value(S) /\ Saved!Value(S) = Value(S)
         /\ Books!Value(S) = Value(S) /\ Books!Total(S) = Total(S)
         /\ Books!Cardinality(S) = Cardinality(S)
         /\ Mem!Total(S) = Total(S) /\ Saved!Total(S) = Total(S)
         /\ Mem!Cardinality(S) = Cardinality(S)
         /\ Saved!Cardinality(S) = Cardinality(S)
BY DEF Mem!Value, Mem!Total, Mem!Units, Mem!Amounts, Mem!Cardinality,
       Saved!Value, Saved!Total, Saved!Units, Saved!Amounts, Saved!Cardinality,
       Books!Value, Books!Total, Books!Units, Books!Amounts, Books!Cardinality,
       Value, Total, Units, Amounts, Cardinality

LEMMA Constants ==
  /\ MaxSwapCache \in Nat \ {0}
  /\ Denom \subseteq Nat /\ Amount \subseteq Nat
BY ServerAssumption DEF Mem!KioskAssumption

(* Whoever takes the mutex finds the fields as they are on disk. *)
LEMMA FreeIsSaved ==
  ASSUME Inv, holder = Free
  PROVE  /\ memory = disk /\ computed = signed
         /\ reserve = disk.reserve /\ issued = disk.issued /\ spent = disk.spent
         /\ deposits = disk.deposits /\ allocated = disk.allocated
         /\ loaded = disk.loaded /\ lastSeq = disk.lastSeq
         /\ allocRefs = disk.allocRefs /\ settlements = disk.settlements
         /\ payouts = disk.payouts /\ swapCache = disk.swapCache
<1>1. memory = disk /\ computed = signed
  BY DEF Inv, Mutex, InProgress, Depositing, Allocating, Signing,
         SigningForDevice, Settling, Swapping, PayingOut, Free, Down
<1> QED
  BY <1>1 DEF memory

(* An operation begins on the state that is on disk. *)
LEMMA DepositBegins ==
  ASSUME Inv, NEW ref \in Ref, NEW a \in Amount, Deposit(ref, a)
  PROVE  Depositing(ref, a)' /\ UNCHANGED <<disk, signed>>
BY FreeIsSaved DEF Deposit, Begin, Mem!Deposit, Mem!deviceVars, Mem!Refs,
    Saved!Refs, Depositing

LEMMA AllocateBegins ==
  ASSUME Inv, NEW dev \in Device, NEW a \in Amount, NEW ref \in Ref,
         AllocateDevice(dev, a, ref)
  PROVE  Allocating(dev, a, ref)' /\ UNCHANGED <<disk, signed>>
BY FreeIsSaved, Sums DEF AllocateDevice, Begin, Mem!AllocateDevice, Allocating

LEMMA CoveredIsSaved ==
  ASSUME Inv, holder = Free, NEW n
  PROVE  Mem!Covered(n) = Saved!Covered(n)
BY FreeIsSaved, Sums DEF Mem!Covered, Saved!Covered, Mem!OwedTotal,
    Saved!OwedTotal

LEMMA SignBegins ==
  ASSUME Inv, NEW p \in Saved!Proof, BlindSign(p)
  PROVE  Signing(p)' /\ UNCHANGED <<disk, signed>>
BY FreeIsSaved, CoveredIsSaved
DEF BlindSign, Begin, Mem!BlindSign, Mem!BlindSignNoSave, Mem!deviceVars,
    Signing, Saved!Covered, Saved!OwedTotal

LEMMA SignForDeviceBegins ==
  ASSUME Inv, NEW dev \in Device, NEW seq \in SeqNo, NEW p \in Saved!Proof,
         SignForDevice(dev, seq, p)
  PROVE  SigningForDevice(dev, seq, p)' /\ UNCHANGED <<disk, signed>>
BY FreeIsSaved, CoveredIsSaved
DEF SignForDevice, Begin, Mem!SignForDevice, Mem!BlindSignNoSave,
    Mem!WithinQuota, SigningForDevice,
    Saved!WithinQuota, Saved!Covered, Saved!OwedTotal

LEMMA SettleBegins ==
  ASSUME Inv, NEW p \in Saved!Proof, NEW m \in Saved!Payee, NEW c \in BOOLEAN,
         SettleFor(p, m, c)
  PROVE  Settling(p, m, c)' /\ UNCHANGED <<disk, signed>>
BY FreeIsSaved, Sums
DEF SettleFor, Begin, Mem!SettleFor, Mem!CheckProof, Mem!deviceVars,
    Mem!Deduct,
    Settling, Saved!CheckProof, Saved!Deduct

LEMMA SwapBegins ==
  ASSUME Inv, NEW ins \in SUBSET signed, NEW outs \in SUBSET Saved!Proof,
      Swap(ins, outs)
  PROVE  Swapping(ins, outs)' /\ UNCHANGED <<disk, signed>>
BY FreeIsSaved, Sums
DEF Swap, Begin, Mem!Swap, Mem!Swappable, Mem!CheckProof, Mem!CachedSwap,
    Mem!Secrets, Mem!Evict,
    Mem!Balanced, Mem!deviceVars,
    Swapping, Saved!Swappable, Saved!CheckProof, Saved!CachedSwap,
    Saved!Secrets,
    Saved!Evict, Saved!Balanced

LEMMA PayoutBegins ==
  ASSUME Inv, NEW m \in Saved!Payee, NEW a \in Amount, NEW ref \in Ref,
         RecordPayout(m, a, ref)
  PROVE  PayingOut(m, a, ref)' /\ UNCHANGED <<disk, signed>>
BY FreeIsSaved, Sums
DEF RecordPayout, Begin, Mem!RecordPayout, Mem!MayPay, Mem!Owed, Mem!For,
    Mem!Refs, Mem!deviceVars,
    PayingOut, Saved!MayPay, Saved!Owed, Saved!For, Saved!Refs

-----------------------------------------------------------------------------
(* When the save succeeds, what is on disk has changed by the operation.   *)
LEMMA DepositSaved ==
  ASSUME NEW ref, NEW a, Depositing(ref, a), Save
  PROVE  Saved!Deposit(ref, a)
BY DEF Save, memory, Depositing, Saved!Deposit, Saved!deviceVars

LEMMA AllocateSaved ==
  ASSUME NEW dev, NEW a, NEW ref, Allocating(dev, a, ref), Save
  PROVE  Saved!AllocateDevice(dev, a, ref)
BY DEF Save, memory, Allocating, Saved!AllocateDevice

LEMMA SignSaved ==
  ASSUME NEW p, Signing(p), Save
  PROVE  Saved!BlindSign(p)
BY DEF Save, memory, Signing, Saved!BlindSign, Saved!BlindSignNoSave,
    Saved!deviceVars

LEMMA SignForDeviceSaved ==
  ASSUME NEW dev, NEW seq, NEW p, SigningForDevice(dev, seq, p), Save
  PROVE  Saved!SignForDevice(dev, seq, p)
BY DEF Save, memory, SigningForDevice, Saved!SignForDevice,
    Saved!BlindSignNoSave

LEMMA SettleSaved ==
  ASSUME NEW p, NEW m, NEW c, Settling(p, m, c), Save
  PROVE  Saved!SettleFor(p, m, c)
BY DEF Save, memory, Settling, Saved!SettleFor, Saved!deviceVars

LEMMA SwapSaved ==
  ASSUME NEW ins, NEW outs, Swapping(ins, outs), Save
  PROVE  Saved!Swap(ins, outs)
BY DEF Save, memory, Swapping, Saved!Swap, Saved!deviceVars

LEMMA PayoutSaved ==
  ASSUME NEW m, NEW a, NEW ref, PayingOut(m, a, ref), Save
  PROVE  Saved!RecordPayout(m, a, ref)
BY DEF Save, memory, PayingOut, Saved!RecordPayout, Saved!deviceVars

LEMMA SaveIsAnOperation ==
  ASSUME Inv, Save
  PROVE  Saved!Next
<1>1. InProgress
  BY DEF Inv, Mutex, Save
<1> QED
  BY <1>1, DepositSaved, AllocateSaved, SignSaved, SignForDeviceSaved,
      SettleSaved,
     SwapSaved, PayoutSaved
  DEF InProgress, Saved!Next

-----------------------------------------------------------------------------
(* When the save fails, the fields are again as they are on disk. *)
LEMMA DepositUndone ==
  ASSUME NEW ref, NEW a, Depositing(ref, a), SaveFails, Saving
  PROVE  memory' = disk
<1>1. UndoDeposit
  BY DEF Depositing, SaveFails, UndoAllocate, UndoSign, UndoSignForDevice,
         UndoSettle, UndoSwap, UndoPayout
<1>2. WithoutRef(deposits, holder.ref) = disk.deposits
  BY DEF Depositing, WithoutRef, Saved!Refs
<1> QED
  BY <1>1, <1>2 DEF UndoDeposit, Depositing, memory, Saving

LEMMA AllocateUndone ==
  ASSUME NEW dev \in Device, NEW a \in Amount, NEW ref, Allocating(dev, a,
      ref), SaveFails, Saving,
         disk.allocated \in [Device -> Nat]
  PROVE  memory' = disk
<1>1. UndoAllocate
  BY DEF Allocating, SaveFails, UndoDeposit, UndoSign, UndoSignForDevice,
         UndoSettle, UndoSwap, UndoPayout
<1>2. allocated' = disk.allocated
  BY <1>1, Constants DEF Allocating, UndoAllocate
<1>3. allocRefs' = disk.allocRefs
  BY <1>1 DEF Allocating, UndoAllocate
<1> QED
  BY <1>1, <1>2, <1>3 DEF UndoAllocate, Allocating, memory, Saving

LEMMA SignUndone ==
  ASSUME NEW p \in Saved!Proof, Signing(p), SaveFails, Saving,
      disk.issued \in Nat
  PROVE  memory' = disk
<1>1. UndoSign
  BY DEF Signing, SaveFails, UndoDeposit, UndoAllocate, UndoSignForDevice,
         UndoSettle, UndoSwap, UndoPayout
<1>2. p.amount \in Nat
  BY Constants DEF Saved!Proof
<1>3. issued' = disk.issued
  BY <1>1, <1>2 DEF Signing, UndoSign
<1> QED
  BY <1>1, <1>3 DEF UndoSign, Signing, memory, Saving

LEMMA SignForDeviceUndone ==
  ASSUME NEW dev \in Device, NEW seq, NEW p \in Saved!Proof,
      SigningForDevice(dev, seq, p),
         SaveFails, Saving, disk.issued \in Nat,
         disk.lastSeq \in [Device -> Nat],
         disk.loaded \in [Device -> Nat]
  PROVE  memory' = disk
<1>1. UndoSignForDevice
  BY DEF SigningForDevice, SaveFails, UndoDeposit, UndoAllocate, UndoSign,
         UndoSettle, UndoSwap, UndoPayout
<1>2. p.amount \in Nat
  BY Constants DEF Saved!Proof
<1>3. issued' = disk.issued
  BY <1>1, <1>2 DEF SigningForDevice, UndoSignForDevice
<1>4. lastSeq' = disk.lastSeq
  BY <1>1 DEF SigningForDevice, UndoSignForDevice
<1>5. loaded' = disk.loaded
  BY <1>1, <1>2 DEF SigningForDevice, UndoSignForDevice
<1> QED
  BY <1>1, <1>3, <1>4, <1>5 DEF UndoSignForDevice, SigningForDevice, memory,
      Saving

LEMMA SettleUndone ==
  ASSUME NEW p, NEW m, NEW c, Settling(p, m, c), SaveFails, Saving,
         IsFiniteSet(disk.settlements),
         \A e \in disk.settlements : e.seq \in Nat
  PROVE  memory' = disk
<1> DEFINE n == Cardinality(disk.settlements)
           new == [seq |-> n + 1, merchant |-> m, secret |-> p.secret,
           amount |-> p.amount]
<1>1. UndoSettle
  BY DEF Settling, SaveFails, UndoDeposit, UndoAllocate, UndoSign,
         UndoSignForDevice, UndoSwap, UndoPayout
<1>2. n \in Nat /\ \A e \in disk.settlements : e.seq <= n
  BY FS_CardinalityType DEF Saving
<1>3. settlements = disk.settlements \cup {new}
  BY Sums DEF Settling
<1>4. new \notin disk.settlements
  BY <1>2
<1>5. Cardinality(settlements) = n + 1
  BY <1>3, <1>4, FS_AddElement
<1>6. settlements' = disk.settlements
  <2>1. settlements' = {e \in settlements : e.seq < n + 1}
    BY <1>1, <1>5 DEF UndoSettle
  <2>2. new.seq = n + 1
    OBVIOUS
  <2> HIDE DEF new, n
  <2> QED
    BY <1>2, <1>3, <2>1, <2>2
<1>7. spent' = disk.spent
  BY <1>1 DEF Settling, UndoSettle, Saved!CheckProof
<1> QED
  BY <1>1, <1>6, <1>7 DEF UndoSettle, Settling, memory, Saving

(* The first element of a sequence and the rest of it, taken from the      *)
(* sequence that has moved on by one.                                      *)
LEMMA FirstAndRest ==
  ASSUME NEW T, NEW c \in Seq(T), NEW d \in Seq(T), c # << >>,
         Len(d) = Len(c), \A i \in 1 .. Len(c) - 1 : d[i] = c[i + 1]
  PROVE  SubSeq(c, 1, 1) \o SubSeq(d, 1, Len(d) - 1) = c
<1>1. Len(c) \in Nat \ {0} /\ DOMAIN c = 1 .. Len(c)
  BY EmptySeq, LenProperties
<1>2. SubSeq(c, 1, 1) \o SubSeq(c, 2, Len(c)) = c
  <2>1. 1 \in 1 .. Len(c) + 1 /\ 1 \in 1 - 1 .. Len(c) /\ Len(c) \in 1 .. Len(c)
    BY <1>1
  <2>2. SubSeq(c, 1, 1) \o SubSeq(c, 1 + 1, Len(c)) = SubSeq(c, 1, Len(c))
    BY <2>1, ConcatAdjacentSubSeq
  <2>3. SubSeq(c, 1, Len(c)) = c
    BY SubSeqFull
  <2>4. 1 + 1 = 2
    OBVIOUS
  <2> QED BY <2>2, <2>3, <2>4, Zenon
<1>3. /\ SubSeq(c, 2, Len(c)) \in Seq(T)
      /\ Len(SubSeq(c, 2, Len(c))) = Len(c) - 1
      /\ \A i \in 1 .. Len(c) - 1 : SubSeq(c, 2, Len(c))[i] = c[i + 1]
  BY <1>1, SubSeqProperties, ElementOfSeq
<1>4. /\ SubSeq(d, 1, Len(d) - 1) \in Seq(T)
      /\ Len(SubSeq(d, 1, Len(d) - 1)) = Len(c) - 1
      /\ \A i \in 1 .. Len(c) - 1 : SubSeq(d, 1, Len(d) - 1)[i] = d[i]
  BY <1>1, SubSeqProperties, ElementOfSeq
<1>5. SubSeq(d, 1, Len(d) - 1) = SubSeq(c, 2, Len(c))
  BY <1>3, <1>4, SeqEqual
<1> QED
  BY <1>2, <1>5

(* The answers evicted and the answers kept but the last are the old cache. *)
LEMMA CacheRestored ==
  ASSUME NEW T, NEW c \in Seq(T), Len(c) <= MaxSwapCache, NEW x \in T,
         NEW new, new = Saved!Evict(Append(c, x))
  PROVE  /\ new \in Seq(T) /\ Len(new) <= MaxSwapCache
         /\ SubSeq(c, 1, Len(c) + 1 - MaxSwapCache)
              \o SubSeq(new, 1, Len(new) - 1) = c
<1> DEFINE d == Append(c, x)
           M == MaxSwapCache
<1>0. M \in Nat \ {0} /\ Len(c) \in Nat
  BY Constants, LenProperties
<1>1. d \in Seq(T) /\ Len(d) = Len(c) + 1 /\ \A i \in 1 .. Len(c) : d[i] = c[i]
  BY AppendProperties
<1>2. CASE Len(c) < M
  <2>1. new = d
    BY <1>0, <1>1, <1>2 DEF Saved!Evict
  <2>2. SubSeq(c, 1, Len(c) + 1 - M) = << >>
    BY <1>0, <1>2, SubSeqEmpty
  <2> HIDE DEF d
  <2>3. SubSeq(d, 1, Len(d) - 1) = c
    <3>1. /\ SubSeq(d, 1, Len(c)) \in Seq(T)
          /\ Len(SubSeq(d, 1, Len(c))) = Len(c)
          /\ \A i \in 1 .. Len(c) : SubSeq(d, 1, Len(c))[i] = d[i]
      BY <1>0, <1>1, SubSeqProperties
    <3>2. SubSeq(d, 1, Len(c)) = c
      BY <1>1, <3>1, SeqEqual
    <3> QED BY <1>0, <1>1, <3>2
  <2>4. << >> \o c = c
    BY ConcatEmptySeq
  <2>5. Len(d) <= M
    BY <1>0, <1>1, <1>2
  <2> QED
    BY <1>1, <2>1, <2>2, <2>3, <2>4, <2>5
<1>3. CASE Len(c) = M
  <2>1. new = SubSeq(d, 2, M + 1)
    BY <1>0, <1>1, <1>3 DEF Saved!Evict
  <2>2. new \in Seq(T) /\ Len(new) = M /\ \A i \in 1 .. M : new[i] = d[i + 1]
    BY <1>0, <1>1, <1>3, <2>1, SubSeqProperties
  <2>3. \A i \in 1 .. Len(c) - 1 : new[i] = c[i + 1]
    BY <1>0, <1>1, <1>3, <2>2
  <2>4. c # << >>
    BY <1>0, <1>3, EmptySeq
  <2>5. SubSeq(c, 1, 1) \o SubSeq(new, 1, Len(new) - 1) = c
    BY <1>3, <2>2, <2>3, <2>4, FirstAndRest
  <2>6. Len(c) + 1 - M = 1
    BY <1>0, <1>3
  <2>7. SubSeq(c, 1, Len(c) + 1 - M) \o SubSeq(new, 1, Len(new) - 1) = c
    BY <2>5, <2>6, Zenon
  <2>8. Len(new) <= M
    BY <1>0, <2>2
  <2> QED
    BY <2>2, <2>7, <2>8
<1>4. Len(c) < M \/ Len(c) = M
  BY <1>0
<1> HIDE DEF d
<1> QED
  BY <1>2, <1>3, <1>4

LEMMA SwapUndone ==
  ASSUME NEW T, NEW ins, NEW outs, Swapping(ins, outs), SaveFails, Saving,
         disk.swapCache \in Seq(T), [ins |-> Saved!Secrets(ins),
         outs |-> outs] \in T
  PROVE  memory' = disk
<1> DEFINE old == disk.swapCache
           x == [ins |-> Saved!Secrets(ins), outs |-> outs]
<1>1. UndoSwap
  BY DEF Swapping, SaveFails, UndoDeposit, UndoAllocate, UndoSign,
         UndoSignForDevice, UndoSettle, UndoPayout
<1>2. /\ swapCache' = SubSeq(old, 1, Len(old) + 1 - MaxSwapCache)
                        \o SubSeq(swapCache, 1, Len(swapCache) - 1)
      /\ swapCache = Saved!Evict(Append(old, x))
      /\ old \in Seq(T) /\ x \in T /\ Len(old) <= MaxSwapCache
  BY <1>1 DEF UndoSwap, Swapping, Saving
<1>3. swapCache' = old
  <2> HIDE DEF old, x
  <2> QED
    BY <1>2, CacheRestored
<1>4. spent' = disk.spent
  BY <1>1 DEF UndoSwap, Swapping, Saved!Swappable, Saved!CheckProof,
      Saved!Secrets
<1> QED
  BY <1>1, <1>3, <1>4 DEF UndoSwap, Swapping, memory, Saving

LEMMA PayoutUndone ==
  ASSUME NEW m, NEW a, NEW ref, PayingOut(m, a, ref), SaveFails, Saving
  PROVE  memory' = disk
<1>1. UndoPayout
  BY DEF PayingOut, SaveFails, UndoDeposit, UndoAllocate, UndoSign,
         UndoSignForDevice, UndoSettle, UndoSwap
<1>2. WithoutRef(payouts, holder.ref) = disk.payouts
  BY DEF PayingOut, WithoutRef, Saved!Refs
<1> QED
  BY <1>1, <1>2 DEF UndoPayout, PayingOut, memory, Saving

-----------------------------------------------------------------------------
(* The assumption on the constants, in the name of the instance Books. *)
LEMMA BooksAssumption == Books!KioskAssumption
BY ServerAssumption
DEF Mem!KioskAssumption, Books!KioskAssumption,
    Mem!IsFiniteSet, Books!IsFiniteSet

(* Both instances on the state on disk have the same operations. *)
LEMMA SameOperations == Saved!Next => [Books!Next]_(Books!vars)
<1> USE DEF Saved!deviceVars, Books!deviceVars, Saved!Proof, Books!Proof,
    Saved!Payee, Books!Payee
<1> SUFFICES ASSUME Saved!Next PROVE Books!Next
  OBVIOUS
<1>1. ASSUME NEW ref, NEW a, Saved!Deposit(ref, a) PROVE Books!Deposit(ref, a)
  BY <1>1 DEF Saved!Deposit, Books!Deposit, Saved!Refs, Books!Refs
<1>2. ASSUME NEW dev, NEW a, NEW ref, Saved!AllocateDevice(dev, a, ref)
      PROVE  Books!AllocateDevice(dev, a, ref)
  BY <1>2, Sums DEF Saved!AllocateDevice, Books!AllocateDevice
<1>3. ASSUME NEW p, Saved!BlindSignNoSave(p) PROVE Books!BlindSignNoSave(p)
  BY <1>3, Sums DEF Saved!BlindSignNoSave, Books!BlindSignNoSave,
      Saved!Covered, Books!Covered,
    Saved!OwedTotal, Books!OwedTotal
<1>4. ASSUME NEW p, Saved!BlindSign(p) PROVE Books!BlindSign(p)
  BY <1>3, <1>4 DEF Saved!BlindSign, Books!BlindSign
<1>5. ASSUME NEW dev, NEW seq, NEW p, Saved!SignForDevice(dev, seq, p)
      PROVE  Books!SignForDevice(dev, seq, p)
  BY <1>3, <1>5 DEF Saved!SignForDevice, Books!SignForDevice,
      Saved!WithinQuota, Books!WithinQuota
<1>6. ASSUME NEW p, NEW m, NEW c, Saved!SettleFor(p, m, c)
      PROVE Books!SettleFor(p, m, c)
  BY <1>6, Sums DEF Saved!SettleFor, Books!SettleFor, Saved!CheckProof,
      Books!CheckProof,
     Saved!Deduct, Books!Deduct
<1>7. ASSUME NEW ins, NEW outs, Saved!Swap(ins, outs) PROVE Books!Swap(ins,
    outs)
  <2>1. /\ \A S : Saved!Secrets(S) = Books!Secrets(S)
        /\ \A c : Saved!Evict(c) = Books!Evict(c)
        /\ \A p : Saved!Swappable(p) = Books!Swappable(p)
    BY DEF Saved!Secrets, Books!Secrets, Saved!Evict, Books!Evict,
           Saved!Swappable, Books!Swappable, Saved!CheckProof, Books!CheckProof
  <2>2. /\ Saved!CachedSwap(ins, outs) = Books!CachedSwap(ins, outs)
        /\ Saved!Balanced(ins, outs) = Books!Balanced(ins, outs)
    BY <2>1, Sums DEF Saved!CachedSwap, Books!CachedSwap, Saved!Balanced,
        Books!Balanced
  <2> QED
    BY <1>7, <2>1, <2>2 DEF Saved!Swap, Books!Swap
<1>8. ASSUME NEW m, NEW a, NEW ref, Saved!RecordPayout(m, a, ref)
      PROVE  Books!RecordPayout(m, a, ref)
  BY <1>8, Sums DEF Saved!RecordPayout, Books!RecordPayout, Saved!MayPay,
      Books!MayPay,
     Saved!Owed, Books!Owed, Saved!For, Books!For, Saved!Refs, Books!Refs
<1> QED
  BY <1>1, <1>2, <1>4, <1>5, <1>6, <1>7, <1>8 DEF Saved!Next, Books!Next

LEMMA BooksKept ==
  ASSUME Books!Books, [Books!Next]_(Books!vars)
  PROVE  Books!Books'
BY BooksAssumption, Books!BooksNext

LEMMA BooksBegin == Books!Init => Books!Books
BY BooksAssumption, Books!BooksInit

(* What the books say of the state on disk. *)
LEMMA DiskType ==
  ASSUME Books!Books
  PROVE  /\ disk.issued \in Nat /\ disk.reserve \in Nat
         /\ disk.allocated \in [Device -> Nat] /\ disk.loaded \in [Device -> Nat]
         /\ disk.lastSeq \in [Device -> Nat]
         /\ IsFiniteSet(disk.settlements)
         /\ \A e \in disk.settlements : e.seq \in Nat
         /\ disk.swapCache \in Seq([ins : SUBSET Secret,
             outs : SUBSET Saved!Proof])
         /\ signed \subseteq Saved!Proof
         /\ disk.reserve = Value(disk.deposits) - Value(disk.payouts)
BY Sums DEF Books!Books, Books!TypeOK, Books!LedgerConsistent,
  Books!IsFiniteSet, IsFiniteSet, Books!Proof, Saved!Proof

-----------------------------------------------------------------------------
(* An operation numbers its log entry last and keeps the cache in bounds.  *)
LEMMA SavingKept ==
  ASSUME Inv, Save
  PROVE  Saving'
<1> DEFINE log == disk.settlements
<1>1. InProgress /\ disk' = memory
  BY DEF Inv, Mutex, Save
<1>2. /\ IsFiniteSet(log) /\ Cardinality(log) \in Nat
      /\ \A e \in log : e.seq \in Nat /\ e.seq <= Cardinality(log)
  BY DiskType, FS_CardinalityType DEF Inv, Saving
<1>3. \A e \in settlements : e.seq <= Cardinality(settlements)
  <2>1. ASSUME NEW p \in Saved!Proof, NEW m, NEW c, Settling(p, m, c)
        PROVE  \A e \in settlements : e.seq <= Cardinality(settlements)
    <3> DEFINE n == Cardinality(log)
               new == [seq |-> n + 1, merchant |-> m, secret |-> p.secret,
                       amount |-> p.amount]
    <3>1. settlements = log \cup {new}
      BY <2>1, Sums DEF Settling
    <3>2. new \notin log
      BY <1>2
    <3>3. Cardinality(settlements) = n + 1
      BY <1>2, <3>1, <3>2, FS_AddElement
    <3>4. new.seq = n + 1
      OBVIOUS
    <3> HIDE DEF new
    <3> QED
      BY <1>2, <3>1, <3>3, <3>4
  <2>2. CASE settlements = log
    BY <1>2, <2>2
  <2> QED
    BY <1>1, <2>1, <2>2
    DEF InProgress, Depositing, Allocating, Signing, SigningForDevice,
        Swapping, PayingOut
<1>4. Len(swapCache) <= MaxSwapCache
  <2>1. ASSUME NEW ins \in SUBSET signed, NEW outs \in SUBSET Saved!Proof,
               Swapping(ins, outs)
        PROVE  Len(swapCache) <= MaxSwapCache
    <3> DEFINE old == disk.swapCache
               x == [ins |-> Saved!Secrets(ins), outs |-> outs]
               T == [ins : SUBSET Secret, outs : SUBSET Saved!Proof]
    <3>1. /\ swapCache = Saved!Evict(Append(old, x))
          /\ old \in Seq(T) /\ x \in T /\ Len(old) <= MaxSwapCache
      BY <2>1, DiskType DEF Inv, Saving, Swapping, Saved!Secrets, Saved!Proof
    <3> HIDE DEF old, x, T
    <3> QED
      BY <3>1, CacheRestored
  <2>2. CASE swapCache = disk.swapCache
    BY <2>2 DEF Inv, Saving
  <2> QED
    BY <1>1, <2>1, <2>2
    DEF InProgress, Depositing, Allocating, Signing, SigningForDevice,
        Settling, PayingOut
<1> QED
  BY <1>1, <1>3, <1>4 DEF memory, Saving

(* A step that leaves the disk and the answers alone. *)
LEMMA DiskKept ==
  ASSUME Inv, UNCHANGED <<disk, signed, allowAnon>>
  PROVE  Books!Books' /\ Saving'
<1>1. UNCHANGED Books!vars
  BY DEF Books!vars
<1>2. Books!Books'
  BY <1>1, BooksKept DEF Inv
<1> QED
  BY <1>2 DEF Inv, Saving

LEMMA BeginKeepsInv ==
  ASSUME Inv, InProgress', UNCHANGED <<disk, signed, allowAnon>>
  PROVE  Inv'
BY DiskKept DEF Inv, Mutex

LEMMA SaveKeepsInv ==
  ASSUME Inv, Save
  PROVE  Inv'
<1>1. Books!Books'
  BY SaveIsAnOperation, SameOperations, BooksKept DEF Inv
<1>2. Mutex'
  <2>1. /\ disk' = memory /\ memory' = memory
        /\ computed' = computed /\ signed' = computed /\ holder' = Free
    BY DEF Save, memory, memoryVars
  <2> QED
    BY <2>1 DEF Mutex
<1> QED
  BY <1>1, <1>2, SavingKept DEF Inv

LEMMA RollbackRestores ==
  ASSUME Inv, SaveFails
  PROVE  memory' = disk
<1>1. InProgress
  <2>1. holder.op \in {"deposit", "allocate", "sign", "signForDevice",
      "settle", "swap", "payout"}
    BY DEF SaveFails, UndoDeposit, UndoAllocate, UndoSign, UndoSignForDevice,
           UndoSettle, UndoSwap, UndoPayout
  <2>2. holder # Free /\ holder # Down
    BY <2>1 DEF Free, Down
  <2> QED
    BY <2>2 DEF Inv, Mutex
<1>2. Saving /\ Books!Books
  BY DEF Inv
<1>3. ASSUME NEW ins \in SUBSET signed, NEW outs \in SUBSET Saved!Proof,
    Swapping(ins, outs)
      PROVE  memory' = disk
  <2>1. [ins |-> Saved!Secrets(ins), outs |-> outs]
          \in [ins : SUBSET Secret, outs : SUBSET Saved!Proof]
    BY <1>2, DiskType DEF Saved!Secrets, Saved!Proof
  <2> QED
    BY <1>2, <1>3, <2>1, DiskType, SwapUndone
<1> QED
  BY <1>1, <1>2, <1>3, DiskType, DepositUndone, AllocateUndone, SignUndone,
     SignForDeviceUndone, SettleUndone, PayoutUndone
  DEF InProgress

LEMMA SaveFailsKeepsInv ==
  ASSUME Inv, SaveFails
  PROVE  Inv'
<1>1. UNCHANGED <<disk, signed,
    allowAnon>> /\ holder' = Free /\ computed' = signed
  BY DEF SaveFails
<1>2. memory' = disk
  BY RollbackRestores
<1> QED
  BY <1>1, <1>2, DiskKept DEF Inv, Mutex

LEMMA CrashKeepsInv ==
  ASSUME Inv, Crash
  PROVE  Inv'
BY DiskKept DEF Crash, Inv, Mutex

(* A restart finds the ledger of a consistent reserve, and adds nothing. *)
LEMMA RestartReadsAll ==
  ASSUME Inv, Restart
  PROVE  memory' = disk /\ UNCHANGED <<disk, signed,
      allowAnon>> /\ holder' = Free
         /\ computed' = signed
<1>1. computed = signed
  BY DEF Inv, Mutex, Restart, Free, Down, InProgress, Depositing, Allocating,
         Signing, SigningForDevice, Settling, Swapping, PayingOut
<1>2. Ledger(disk) = disk.deposits
  <2>1. disk.reserve = Value(disk.deposits) - Value(disk.payouts) /\ disk.reserve \in Nat
    BY DiskType DEF Inv
  <2> QED
    BY <2>1 DEF Ledger
<1> QED
  BY <1>1, <1>2 DEF Restart, memory, Inv, Saving

LEMMA RestartKeepsInv ==
  ASSUME Inv, Restart
  PROVE  Inv'
<1>1. memory' = disk /\ UNCHANGED <<disk, signed, allowAnon>> /\ holder' = Free
      /\ computed' = signed
  BY RestartReadsAll
<1> QED
  BY <1>1, DiskKept DEF Inv, Mutex

-----------------------------------------------------------------------------
(* A step that takes the mutex shows nothing of the operation yet. *)
Taking == InProgress' /\ UNCHANGED <<disk, signed, allowAnon>>

LEMMA NextSteps ==
  ASSUME Inv, Next
  PROVE  Taking \/ Save \/ SaveFails \/ Crash \/ Restart
<1> USE DEF Mem!Proof, Saved!Proof, Mem!Payee, Saved!Payee
<1>1. ASSUME NEW ref \in Ref, NEW a \in Amount, Deposit(ref, a) PROVE Taking
  BY <1>1, DepositBegins DEF Taking, InProgress, Deposit, Begin, Mem!Deposit
<1>2. ASSUME NEW dev \in Device, NEW a \in Amount, NEW ref \in Ref,
             AllocateDevice(dev, a, ref)
      PROVE  Taking
  BY <1>2, AllocateBegins DEF Taking, InProgress, AllocateDevice, Begin,
      Mem!AllocateDevice
<1>3. ASSUME NEW p \in Mem!Proof, BlindSign(p) PROVE Taking
  BY <1>3, SignBegins DEF Taking, InProgress, BlindSign, Begin, Mem!BlindSign
<1>4. ASSUME NEW dev \in Device, NEW seq \in SeqNo, NEW p \in Mem!Proof,
             SignForDevice(dev, seq, p)
      PROVE  Taking
  BY <1>4, SignForDeviceBegins DEF Taking, InProgress, SignForDevice, Begin,
      Mem!SignForDevice
<1>5. ASSUME NEW p \in Mem!Proof, NEW m \in Mem!Payee, NEW c \in BOOLEAN,
    SettleFor(p, m, c)
      PROVE  Taking
  BY <1>5, SettleBegins DEF Taking, InProgress, SettleFor, Begin, Mem!SettleFor
<1>6. ASSUME NEW ins \in SUBSET computed, NEW outs \in SUBSET Mem!Proof,
    Swap(ins, outs)
      PROVE  Taking
  <2>1. ins \in SUBSET signed
    BY <1>6, FreeIsSaved DEF Swap, Begin
  <2> QED
    BY <1>6, <2>1, SwapBegins DEF Taking, InProgress, Swap, Begin, Mem!Swap
<1>7. ASSUME NEW m \in Mem!Payee, NEW a \in Amount, NEW ref \in Ref,
    RecordPayout(m, a, ref)
      PROVE  Taking
  BY <1>7, PayoutBegins DEF Taking, InProgress, RecordPayout, Begin,
      Mem!RecordPayout
<1> QED
  BY <1>1, <1>2, <1>3, <1>4, <1>5, <1>6, <1>7 DEF Next

LEMMA InvInit == Init => Inv
<1> SUFFICES ASSUME Init PROVE Inv
  OBVIOUS
<1>1. disk = memory /\ Mem!Init /\ computed = signed /\ holder = Free
  BY DEF Init, Mem!Init
<1>2. Books!Init
  BY <1>1 DEF Mem!Init, Books!Init, memory
<1>3. Books!Books
  BY <1>2, BooksBegin
<1>4. Saving
  <2>1. disk.settlements = {} /\ disk.swapCache = << >>
    BY <1>2 DEF Books!Init
  <2>2. Len(<< >>) = 0
    OBVIOUS
  <2> QED
    BY <1>1, <2>1, <2>2, Constants DEF Saving, memory
<1> QED
  BY <1>1, <1>3, <1>4 DEF Inv, Mutex

LEMMA InvNext == Inv /\ [Next]_vars => Inv'
<1> SUFFICES ASSUME Inv, [Next]_vars PROVE Inv'
  OBVIOUS
<1>1. CASE UNCHANGED vars
  <2>1. UNCHANGED <<disk, signed, allowAnon>>
    BY <1>1 DEF vars
  <2>2. Mutex'
    BY <1>1 DEF vars, memoryVars, Inv, Mutex, InProgress, memory, Depositing,
        Allocating, Signing,
       SigningForDevice, Settling, Swapping, PayingOut, Saved!Covered,
       Saved!OwedTotal,
       Saved!WithinQuota, Saved!CheckProof, Saved!CachedSwap, Saved!Swappable,
       Saved!MayPay,
       Saved!Owed
  <2> QED
    BY <2>1, <2>2, DiskKept DEF Inv
<1> QED
  BY <1>1, NextSteps, BeginKeepsInv, SaveKeepsInv, SaveFailsKeepsInv,
      CrashKeepsInv,
     RestartKeepsInv DEF Taking

(* Between operations memory is what a restart would read: no rollback of  *)
(* a failed save (saveState) leaves a trace of its operation behind.       *)
THEOREM MemoryMatchesDisk == Spec => []MemoryIsDisk
<1>1. Inv => MemoryIsDisk
  BY FreeIsSaved DEF MemoryIsDisk
<1> QED
  BY <1>1, InvInit, InvNext, PTL DEF Spec

(* What is on disk and what has been answered change together, by whole    *)
(* operations of Kiosk: a failed save, a crash before, during or after the *)
(* save and a restart (NewKiosk, applyState) are stuttering steps.         *)
THEOREM ServerImplementsKiosk == Spec => ImplementsKiosk
<1>1. Init => Saved!Init
  BY DEF Init, Mem!Init, Saved!Init, memory
<1>2. Inv /\ [Next]_vars => [Saved!Next]_(Saved!vars)
  <2> SUFFICES ASSUME Inv, Next, ~ Save PROVE UNCHANGED Saved!vars
    BY SaveIsAnOperation DEF vars, Saved!vars
  <2>1. UNCHANGED <<disk, signed, allowAnon>>
    BY NextSteps, RestartReadsAll DEF Taking, SaveFails, Crash
  <2> QED
    BY <2>1 DEF Saved!vars
<1> QED
  BY <1>1, <1>2, InvInit, InvNext, PTL DEF Spec, ImplementsKiosk, Saved!Spec

(* The books that a restart would read are in order at every moment: all   *)
(* that KioskProofs shows of the kiosk holds of its state file as well.    *)
THEOREM SavedBooksInOrder == Spec => []Books!Books
<1>1. Inv => Books!Books
  BY DEF Inv
<1> QED
  BY <1>1, InvInit, InvNext, PTL DEF Spec
=============================================================================
