-------------------------------- MODULE Kiosk --------------------------------
(***************************************************************************)
(* The Go kiosk (kiosk-go): the mint of the system.  It holds the reserve, *)
(* blind-signs tokens against it, redeems them for merchants and keeps the *)
(* books.                                                                  *)
(*                                                                         *)
(* Every operation takes the one mutex k.mu, checks its request, changes   *)
(* the state, persists it with saveState and only then answers, so an      *)
(* operation is one step here.  When the save fails the operation puts     *)
(* every field back and answers with an error; seen from outside nothing   *)
(* happened, which is a stuttering step.  KioskServer models that undoing, *)
(* the disk, crashes and restarts field by field and is shown to implement *)
(* this module.                                                            *)
(*                                                                         *)
(* Beside some definitions stands a faulty variant, a mistake the code     *)
(* could easily contain (CheckSignature forgets the double-spend set).  No *)
(* specification uses one; each is there to be put in place of the right   *)
(* definition and to show that a property notices.                         *)
(*                                                                         *)
(* Amounts are natural numbers of money units.  (The source keeps reserve, *)
(* deposits and allocations in floating point.)                            *)
(***************************************************************************)
EXTENDS Money, Sequences

CONSTANTS
  Secret,         \* token secrets
  Locked,         \* the secrets that carry a "|lock=<pubkey>" suffix
  Denom,          \* the denominations the kiosk has a key for
  Device,         \* ed25519 device keys
  SeqNo,          \* sequence numbers a device puts into its requests
  Merchant,       \* payee labels that cleanMerchant accepts
  Unlabeled,      \* "(unlabeled)": no label, or one that cleanMerchant rejects
  Ref,            \* references of deposits, allocations and payouts
  Amount,         \* amounts an operator deposits, allocates or pays out
  MaxSwapCache    \* maxSwapCache

ASSUME KioskAssumption ==
  /\ IsFiniteSet(Secret) /\ Locked \subseteq Secret
  /\ IsFiniteSet(Denom) /\ Denom \subseteq Nat \ {0}
  /\ IsFiniteSet(Device)
  /\ SeqNo \subseteq Nat \ {0}
  /\ Unlabeled \notin Merchant
  /\ IsFiniteSet(Ref)
  /\ Amount \subseteq Nat \ {0}
  /\ MaxSwapCache \in Nat \ {0}

VARIABLES
  reserve,      \* money behind the tokens
  issued,       \* face value counted as outstanding
  signed,       \* proofs whose signature has left the kiosk or is in its cache
  spent,        \* secrets settled or swapped
  deposits,     \* the deposit ledger
  allocated,    \* quota of each device; 0: the kiosk does not know the device
  loaded,       \* face value issued to each device
  lastSeq,      \* last sequence number signed for each device
  allocRefs,    \* references of the allocations made
  settlements,  \* the settlement log
  payouts,      \* the payouts recorded
  swapCache,    \* answered swaps, oldest first (swapCache and swapOrder)
  allowAnon     \* started with -allow-anonymous-issuance

vars == <<reserve, issued, signed, spent, deposits, allocated, loaded, lastSeq,
          allocRefs, settlements, payouts, swapCache, allowAnon>>

deviceVars == <<allocated, loaded, lastSeq, allocRefs>>

(* A proof: the secret, and the denomination of the key that signed it.    *)
Proof == [secret : Secret, amount : Denom]

Payee == Merchant \cup {Unlabeled}

Secrets(proofs) == {p.secret : p \in proofs}
Refs(ledger) == {r.ref : r \in ledger}

-----------------------------------------------------------------------------
(* What the books say: the entries of a log for a set of payees, what one  *)
(* payee is owed, and what all are owed together.                          *)

For(log, M) == {e \in log : e.merchant \in M}
Owed(m) == Value(For(settlements, {m})) - Value(For(payouts, {m}))
OwedTotal == Value(settlements) - Value(payouts)

(* The proofs that still stand for money. *)
Live == {p \in signed : p.secret \notin spent}

-----------------------------------------------------------------------------
Init ==
  /\ reserve = 0 /\ issued = 0
  /\ signed = {} /\ spent = {}
  /\ deposits = {} /\ settlements = {} /\ payouts = {}
  /\ allocated = [d \in Device |-> 0]
  /\ loaded = [d \in Device |-> 0]
  /\ lastSeq = [d \in Device |-> 0]
  /\ allocRefs = {}
  /\ swapCache = <<>>
  /\ allowAnon \in BOOLEAN

(* POST /v1/credit: money has arrived in the bank. *)
Deposit(ref, amount) ==
  /\ ref \notin Refs(deposits)
  /\ deposits' = deposits \cup {[ref |-> ref, amount |-> amount]}
  /\ reserve' = reserve + amount
  /\ UNCHANGED <<issued, signed, spent, deviceVars, settlements, payouts, swapCache, allowAnon>>

AllocateOne(dev, amount, ref) ==
  /\ ref \notin allocRefs
  /\ amount <= reserve
  /\ allocated' = [allocated EXCEPT ![dev] = @ + amount]
  /\ allocRefs' = allocRefs \cup {ref}
  /\ UNCHANGED <<reserve, issued, signed, spent, deposits, loaded, lastSeq,
                 settlements, payouts, swapCache, allowAnon>>

(* POST /v1/allocate: the operator gives a device quota. *)
AllocateDevice(dev, amount, ref) ==
  /\ ref \notin allocRefs
  /\ Total(allocated) + amount <= reserve
  /\ allocated' = [allocated EXCEPT ![dev] = @ + amount]
  /\ allocRefs' = allocRefs \cup {ref}
  /\ UNCHANGED <<reserve, issued, signed, spent, deposits, loaded, lastSeq,
                 settlements, payouts, swapCache, allowAnon>>

(* The 1:1 rule: tokens out and merchant claims stay covered. *)
CoveredWithoutClaims(amount) == issued + amount <= reserve
Covered(amount) == issued + OwedTotal + amount <= reserve

(* blindSignNoSave: what both issuance paths share.  The kiosk counts the  *)
(* token as issued when it signs; the answer with the signature can still  *)
(* be lost on its way, and then the token is never in anyone's hands.      *)
BlindSignNoSave(p) ==
  /\ Covered(p.amount)
  /\ issued' = issued + p.amount
  /\ signed' \in {signed, signed \cup {p}}

(* POST /v1/blind-sign without a device, for development. *)
BlindSign(p) ==
  /\ allowAnon
  /\ BlindSignNoSave(p)
  /\ UNCHANGED <<reserve, spent, deposits, deviceVars, settlements, payouts, swapCache, allowAnon>>

WithinQuotaBefore(dev, amount) == loaded[dev] < allocated[dev]
WithinQuota(dev, amount) == loaded[dev] + amount <= allocated[dev]

(* POST /v1/blind-sign from a device that signed its request with seq. *)
SignForDevice(dev, seq, p) ==
  /\ allocated[dev] > 0
  /\ seq > lastSeq[dev]
  /\ WithinQuota(dev, p.amount)
  /\ BlindSignNoSave(p)
  /\ lastSeq' = [lastSeq EXCEPT ![dev] = seq]
  /\ loaded' = [loaded EXCEPT ![dev] = @ + p.amount]
  /\ UNCHANGED <<reserve, spent, deposits, allocated, allocRefs, settlements,
                 payouts, swapCache, allowAnon>>

(* checkProofLocked: the signature verifies and the secret is unspent. *)
CheckSignature(p) == p \in signed
CheckProof(p) == p \in signed /\ p.secret \notin spent

(* issued after a settlement, clamped at zero. *)
DeductNothing(n, amount) == n
Deduct(n, amount) == IF n < amount THEN 0 ELSE n - amount

(* POST /v1/settle: redeem a proof for the payee the caller names.         *)
(* claimed: the request carries a claim signature by the lock's key.       *)
SettleFor(p, m, claimed) ==
  /\ CheckProof(p)
  /\ p.secret \in Locked => claimed
  /\ spent' = spent \cup {p.secret}
  /\ issued' = Deduct(issued, p.amount)
  /\ settlements' = settlements \cup
       {[seq |-> Cardinality(settlements) + 1, merchant |-> m,
         secret |-> p.secret, amount |-> p.amount]}
  /\ UNCHANGED <<reserve, signed, deposits, deviceVars, payouts, swapCache, allowAnon>>

(* swapCache[ck] exists: the same input secrets and the same outputs. *)
CachedSwap(ins, outs) ==
  \E i \in DOMAIN swapCache : swapCache[i] = [ins |-> Secrets(ins), outs |-> outs]

(* The loop that forgets the oldest answers beyond maxSwapCache. *)
Evict(cache) ==
  IF Len(cache) <= MaxSwapCache THEN cache
  ELSE SubSeq(cache, Len(cache) - MaxSwapCache + 1, Len(cache))

(* Locked proofs have to be settled by their owner. *)
SwappableLocked(p) == CheckProof(p)
Swappable(p) == CheckProof(p) /\ p.secret \notin Locked

SameCount(ins, outs) == Cardinality(ins) = Cardinality(outs)
Balanced(ins, outs) == Value(ins) = Value(outs)

(* POST /v1/swap, the first time: unlocked proofs against new signatures   *)
(* of the same total.  A repeated request is answered from the cache and   *)
(* changes nothing.  The inputs are a set here: that one secret is not     *)
(* given twice in a request says something of two denominations only, not  *)
(* of the very same proof twice (seenIn).  The limit of 64 inputs and of   *)
(* 64 outputs is left out.                                                 *)
Swap(ins, outs) ==
  /\ ins # {} /\ outs # {}
  /\ ~ CachedSwap(ins, outs)
  /\ \A p \in ins : Swappable(p)
  /\ \A p, q \in ins : p.secret = q.secret => p = q
  /\ Balanced(ins, outs)
  /\ spent' = spent \cup Secrets(ins)
  /\ signed' = signed \cup outs
  /\ swapCache' = Evict(Append(swapCache, [ins |-> Secrets(ins), outs |-> outs]))
  /\ UNCHANGED <<reserve, issued, deposits, deviceVars, settlements, payouts, allowAnon>>

(* A payout needs a real label and may not exceed what that payee is owed. *)
MayPayAnyClaim(m, amount) == m \in Merchant /\ amount <= OwedTotal
MayPayUnchecked(m, amount) == m \in Merchant
MayPay(m, amount) == m \in Merchant /\ amount <= Owed(m)

RecordPayoutOnly(m, amount, ref) ==
  /\ MayPay(m, amount)
  /\ ref \notin Refs(payouts)
  /\ payouts' = payouts \cup {[ref |-> ref, merchant |-> m, amount |-> amount]}
  /\ UNCHANGED <<reserve, issued, signed, spent, deposits, deviceVars,
                 settlements, swapCache, allowAnon>>

(* POST /v1/payout: the operator has paid a merchant out of the bank. *)
RecordPayout(m, amount, ref) ==
  /\ MayPay(m, amount)
  /\ ref \notin Refs(payouts)
  /\ payouts' = payouts \cup {[ref |-> ref, merchant |-> m, amount |-> amount]}
  /\ reserve' = reserve - amount
  /\ UNCHANGED <<issued, signed, spent, deposits, deviceVars, settlements, swapCache, allowAnon>>

Next ==
  \/ \E ref \in Ref, a \in Amount : Deposit(ref, a)
  \/ \E dev \in Device, a \in Amount, ref \in Ref : AllocateDevice(dev, a, ref)
  \/ \E p \in Proof : BlindSign(p)
  \/ \E dev \in Device, seq \in SeqNo, p \in Proof : SignForDevice(dev, seq, p)
  \/ \E p \in Proof, m \in Payee, c \in BOOLEAN : SettleFor(p, m, c)
  \/ \E ins \in SUBSET signed, outs \in SUBSET Proof : Swap(ins, outs)
  \/ \E m \in Payee, a \in Amount, ref \in Ref : RecordPayout(m, a, ref)

Spec == Init /\ [][Next]_vars

-----------------------------------------------------------------------------
TypeOK ==
  /\ reserve \in Nat /\ issued \in Nat
  /\ signed \subseteq Proof
  /\ spent \subseteq Secret
  /\ IsFiniteSet(deposits) /\ deposits \subseteq [ref : Ref, amount : Amount]
  /\ allocated \in [Device -> Nat]
  /\ loaded \in [Device -> Nat]
  /\ lastSeq \in [Device -> Nat]
  /\ allocRefs \subseteq Ref
  /\ IsFiniteSet(settlements)
  /\ settlements \subseteq
       [seq : Nat, merchant : Payee, secret : Secret, amount : Denom]
  /\ IsFiniteSet(payouts)
  /\ payouts \subseteq [ref : Ref, merchant : Merchant, amount : Amount]
  /\ allowAnon \in BOOLEAN
  /\ swapCache \in Seq([ins : SUBSET Secret, outs : SUBSET Proof])

(* Every token that can still be redeemed is counted as outstanding, so    *)
(* the clamp of SettleFor at zero never hides a shortfall.  It has to      *)
(* survive lost answers, a secret signed twice or under two denominations, *)
(* and swaps, which leave `issued' alone (checkProofLocked, SettleFor,     *)
(* Swap, blindSignNoSave).                                                 *)
LiveCovered == Value(Live) <= issued

(* fully_backed in Reconcile: the reserve covers the tokens outstanding    *)
(* and what the merchants are owed for the tokens settled.                 *)
Backed == issued + OwedTotal <= reserve

(* ledger_consistent in Reconcile: the reserve is what was deposited less  *)
(* what was paid out.  applyState books any other reserve as a legacy      *)
(* opening balance.                                                        *)
LedgerConsistent == reserve = Value(deposits) - Value(payouts)

(* No payee, and no group of payees together, is ever paid more than the   *)
(* tokens settled in its name, in however many payouts (RecordPayout).     *)
NeverOverpaid ==
  \A M \in SUBSET Payee : Value(For(payouts, M)) <= Value(For(settlements, M))

(* A token is money once, by whichever door it comes back: no two log      *)
(* entries redeem the same secret, a secret in the log or in the input of  *)
(* a cached swap stays in the double-spend set, no secret was both settled *)
(* and exchanged in a cached swap, and none was exchanged in two of them   *)
(* (checkProofLocked, SettleFor, Swap).  Of a swap whose answer has been   *)
(* evicted LiveCovered speaks.                                             *)
RedeemedOnce ==
  /\ \A e, f \in settlements : e.secret = f.secret => e = f
  /\ Secrets(settlements) \subseteq spent
  /\ \A i \in DOMAIN swapCache :
       /\ swapCache[i].ins \subseteq spent
       /\ swapCache[i].ins \cap Secrets(settlements) = {}
  /\ \A i, j \in DOMAIN swapCache :
       i # j => swapCache[i].ins \cap swapCache[j].ins = {}

(* A locked token is redeemed by the owner of the lock or by nobody: a     *)
(* spent one is in the settlement log, never lost to an anonymous swap.    *)
LockedOnlySettled == spent \cap Locked \subseteq Secrets(settlements)

(* Device quotas hold over any number of requests. *)
QuotaRespected == \A d \in Device : loaded[d] <= allocated[d]

(* The three totals of Reconcile agree: what the devices loaded is either  *)
(* outstanding or settled.  Swaps neither create nor destroy issued money. *)
LoadedIsIssuedOrSettled ==
  ~ allowAnon => Total(loaded) = issued + Value(settlements)

(* The quotas together never promise more than has ever come in, in        *)
(* however many allocations (AllocateDevice).  Not "than the reserve":     *)
(* payouts lower it and leave the allocations as they are.                 *)
AllocatedWasDeposited == Total(allocated) <= Value(deposits)
=============================================================================
