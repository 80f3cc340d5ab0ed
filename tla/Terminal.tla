------------------------------ MODULE Terminal ------------------------------
(***************************************************************************)
(* A merchant's vault (vault.rs: accept_payment, receive_token, settle_all)*)
(* and the kiosk that redeems its tokens.  Tokens are accepted offline, so *)
(* a payer can spend one elsewhere before the merchant settles it.  Saves  *)
(* and the network are those of Purse.                                     *)
(***************************************************************************)
EXTENDS Money, Sequences

CONSTANTS
  Secret, Locked, Denom, Device, SeqNo, Merchant, Unlabeled, Ref, Amount,
  MaxSwapCache,   \* as in Kiosk
  Me, Elsewhere,  \* the label of this merchant, and of the others
  Nobody,         \* no proof
  Environments,   \* what the merchant may meet: the proofs that payers have
                  \* loaded from the kiosk, the tokens (sets of proofs) that
                  \* they show, and some of AllEvents
  ClaimKeys,      \* whether settle-all is run with --claim-key
  MaxRejected     \* bound on what is booked before one more `receive'

AllEvents ==
  {"receive",      \* the merchant uses `receive' besides `accept'
   "kioskFails"}   \* the kiosk fails to save a settlement

ASSUME TerminalAssumption ==
  /\ {Me, Elsewhere} \subseteq Merchant /\ Me # Elsewhere
  /\ Environments \subseteq
       [loaded : SUBSET [secret : Secret, amount : Denom],
        tokens : SUBSET SUBSET [secret : Secret, amount : Denom],
        events : SUBSET AllEvents]
  /\ \A e \in Environments : Value(e.loaded) \in Amount
  /\ Device # {} /\ Ref # {}
  /\ ClaimKeys \subseteq BOOLEAN /\ MaxRejected \in Nat
  /\ Nobody \notin [secret : Secret, amount : Denom]

VARIABLES
  env,      \* one of Environments
  reserve, issued, signed, spent, deposits, allocated, loaded, lastSeq,
  allocRefs, settlements, payouts, swapCache, allowAnon,   \* the kiosk
  till,     \* FlashState in memory: proofs held and receipts
  flash,    \* FlashState in the state file
  call,     \* the command that is running
  net       \* requests the kiosk has not handled

K == INSTANCE Kiosk

(* The other constants are those of a kiosk. *)
ASSUME TerminalKiosk == K!KioskAssumption

kioskVars == <<reserve, issued, signed, spent, deposits, allocated, loaded,
               lastSeq, allocRefs, settlements, payouts, swapCache, allowAnon>>
vars == <<kioskVars, env, till, flash, call, net>>

Idle == [op |-> "idle"]
Orphaned == {[r EXCEPT !.awaited = FALSE] : r \in net}

(* Each proof was loaded by a device within its quota. *)
InitKiosk ==
  LET tokens == env.loaded
      first(d, n) == IF d = CHOOSE e \in Device : TRUE THEN n ELSE 0
  IN  /\ reserve = Value(tokens) /\ issued = Value(tokens)
      /\ signed = tokens /\ spent = {}
      /\ deposits = {[ref |-> CHOOSE r \in Ref : TRUE, amount |-> Value(tokens)]}
      /\ allocated = [d \in Device |-> first(d, Value(tokens))]
      /\ loaded = allocated
      /\ lastSeq = [d \in Device |-> first(d, Cardinality(tokens))]
      /\ allocRefs = Ref
      /\ settlements = {} /\ payouts = {} /\ swapCache = <<>>
      /\ allowAnon = FALSE

Init ==
  /\ env \in Environments
  /\ InitKiosk
  /\ till = [proofs |-> {}, receipts |-> <<>>] /\ flash = till
  /\ call = Idle /\ net = {}

SaveAndAdopt(next) == flash' = next /\ till' = next
SaveFails == UNCHANGED <<till, flash>>

-----------------------------------------------------------------------------
ReceiptFor(token) ==
  [secrets |-> K!Secrets(token), amount |-> Value(token),
   settled |-> 0, rejected |-> 0]

(* verify_offline_set: a proof of the token that the kiosk has not signed, *)
(* under the pinned key its keyset id names, has the token refused.        *)
NotEmpty(token) == token # {}
Verified(token) == token # {} /\ token \subseteq signed

OnReceipts(receipts) == UNION {receipts[i].secrets : i \in DOMAIN receipts}

(* A replay: a secret held now, or one on any receipt, settled or not. *)
HeldNow(token) == K!Secrets(token) \cap K!Secrets(till.proofs) # {}
Known(token) ==
  K!Secrets(token) \cap (K!Secrets(till.proofs) \cup OnReceipts(till.receipts)) # {}

WithPayment(token) ==
  [proofs |-> till.proofs \cup token,
   receipts |-> Append(till.receipts, ReceiptFor(token))]

(* The kiosk can have signed one secret under two denominations. *)
Distinct(proofs) == \A p, q \in proofs : p.secret = q.secret => p = q

(* accept_payment: the whole token or nothing, with its receipt, in one    *)
(* save of a copy that becomes the state afterwards.                       *)
Accept(token) ==
  /\ call = Idle /\ Verified(token) /\ ~ Known(token) /\ Distinct(token)
  /\ SaveAndAdopt(WithPayment(token)) \/ SaveFails
  /\ UNCHANGED <<kioskVars, env, call, net>>

(* receive_token: the proofs not held now, without a receipt, and of those *)
(* with one secret the first; the memory is changed before the save.       *)
Receive(token) ==
  LET unknown == {p \in token : p.secret \notin K!Secrets(till.proofs)}
  IN  /\ "receive" \in env.events
      /\ call = Idle /\ Verified(token) /\ unknown # {}
      /\ \A i \in DOMAIN till.receipts : till.receipts[i].rejected <= MaxRejected
      /\ \E new \in SUBSET unknown :
           /\ Distinct(new) /\ K!Secrets(new) = K!Secrets(unknown)
           /\ till' = [till EXCEPT !.proofs = @ \cup new]
      /\ flash' \in {flash, till'}
      /\ UNCHANGED <<kioskVars, env, call, net>>

-----------------------------------------------------------------------------
(* settle_all: the proofs held at the start are sent one after another.    *)
StartSettleAll(claim) ==
  /\ call = Idle /\ till.proofs # {}
  /\ call' = [op |-> "settle", todo |-> till.proofs, claim |-> claim,
              proof |-> Nobody, answer |-> "none"]
  /\ UNCHANGED <<kioskVars, env, till, flash, net>>

SendProof(p) ==
  /\ call.op = "settle" /\ call.proof = Nobody /\ p \in call.todo
  /\ net' = net \cup {[proof |-> p, claim |-> call.claim, awaited |-> TRUE]}
  /\ call' = [call EXCEPT !.proof = p]
  /\ UNCHANGED <<kioskVars, env, till, flash>>

(* The receipts once p is answered: every receipt that names its secret.   *)
BookAsSettled(receipts, p, ok) ==
  [i \in DOMAIN receipts |->
     IF p.secret \in receipts[i].secrets
     THEN [receipts[i] EXCEPT !.settled = @ + p.amount]
     ELSE receipts[i]]

Book(receipts, p, ok) ==
  [i \in DOMAIN receipts |->
     CASE p.secret \in receipts[i].secrets /\ ok ->
            [receipts[i] EXCEPT !.settled = @ + p.amount]
       [] p.secret \in receipts[i].secrets /\ ~ ok ->
            [receipts[i] EXCEPT !.rejected = @ + p.amount]
       [] p.secret \notin receipts[i].secrets -> receipts[i]]

(* The proof leaves the vault whatever the answer.                         *)
Held(p) == {q \in till.proofs : q.secret # p.secret}

Rest(p) == call.todo \ {p}

StopAtRejection ==
  LET p == call.proof
  IN  /\ call.op = "settle" /\ call.answer \in {"ok", "refused"}
      /\ IF call.answer = "ok"
         THEN SaveAndAdopt([proofs |-> Held(p),
                            receipts |-> Book(till.receipts, p, TRUE)])
         ELSE SaveFails
      /\ call' = Idle
      /\ UNCHANGED <<kioskVars, env, net>>

(* A failed save ends the command, and the answer is forgotten.            *)
TakeAnswer ==
  LET p == call.proof
      ok == call.answer = "ok"
  IN  /\ call.op = "settle" /\ call.answer \in {"ok", "refused"}
      /\ \/ /\ SaveAndAdopt([proofs |-> Held(p),
                             receipts |-> Book(till.receipts, p, ok)])
            /\ call' = IF Rest(p) = {} THEN Idle
                       ELSE [call EXCEPT !.todo = Rest(p), !.proof = Nobody,
                                         !.answer = "none"]
         \/ SaveFails /\ call' = Idle
      /\ UNCHANGED <<kioskVars, env, net>>

StopAndReject ==
  LET p == call.proof
  IN  /\ call.op = "settle" /\ call.proof # Nobody /\ call.answer = "none"
      /\ SaveAndAdopt([proofs |-> till.proofs \ {p},
                       receipts |-> Book(till.receipts, p, FALSE)])
      /\ call' = Idle /\ net' = Orphaned
      /\ UNCHANGED <<kioskVars, env>>

(* A transport error stops the run and keeps what is not yet answered. *)
Stop ==
  /\ call.op = "settle" /\ call.proof # Nobody /\ call.answer = "none"
  /\ call' = Idle /\ net' = Orphaned
  /\ UNCHANGED <<kioskVars, env, till, flash>>

(* The process ends, and the next one starts from the state file. *)
Restart ==
  /\ till' = flash
  /\ call' = Idle /\ net' = Orphaned
  /\ UNCHANGED <<kioskVars, env, flash>>

-----------------------------------------------------------------------------
(* The network, the kiosk, and the payers. *)

Answered(r, a) ==
  /\ net' = net \ {r}
  /\ call' = IF r.awaited THEN [call EXCEPT !.answer = a] ELSE call
  /\ UNCHANGED <<till, flash>>

LoseRequest(r) ==
  /\ net' = net \ {r}
  /\ UNCHANGED <<kioskVars, env, till, flash, call>>

KioskSettles(r) ==
  /\ K!SettleFor(r.proof, Me, r.claim)
  /\ Answered(r, "ok")
  /\ UNCHANGED env

Redeemable(r) ==
  K!CheckProof(r.proof) /\ (r.proof.secret \in Locked => r.claim)

(* The same status, 409, for a proof that does not pass and for a save     *)
(* that failed.                                                            *)
KioskRefuses(r) ==
  /\ Redeemable(r) => "kioskFails" \in env.events
  /\ Answered(r, "refused")
  /\ UNCHANGED <<kioskVars, env>>

(* A payer has given the same token to another merchant as well. *)
SettledElsewhere(p) ==
  /\ p.secret \notin Locked
  /\ K!SettleFor(p, Elsewhere, FALSE)
  /\ UNCHANGED <<env, till, flash, call, net>>

(* A payer changes a token that it has shown already. *)
ChangedElsewhere(p, q) ==
  /\ q.secret \notin K!Secrets(signed)
  /\ K!Swap({p}, {q})
  /\ UNCHANGED <<env, till, flash, call, net>>

KioskHandles == \E r \in net : r.awaited /\ (KioskSettles(r) \/ KioskRefuses(r))

Next ==
  \/ \E token \in env.tokens : Accept(token) \/ Receive(token)
  \/ \E claim \in ClaimKeys : StartSettleAll(claim)
  \/ \E p \in till.proofs : SendProof(p)
  \/ TakeAnswer \/ Stop \/ Restart
  \/ \E r \in net : LoseRequest(r) \/ KioskSettles(r) \/ KioskRefuses(r)
  \/ \E p \in signed : SettledElsewhere(p)
  \/ \E p \in signed, q \in K!Proof : ChangedElsewhere(p, q)

Spec == Init /\ [][Next]_vars

(* The merchant runs settle-all until nothing is held, however often it is *)
(* interrupted; and now and then a request, its answer and the save they   *)
(* lead to all succeed.                                                    *)
Fairness ==
  /\ SF_vars(\E claim \in ClaimKeys : StartSettleAll(claim))
  /\ SF_vars(\E p \in till.proofs : SendProof(p))
  /\ WF_vars(TakeAnswer \/ Stop)
  /\ SF_vars(KioskHandles)
  /\ SF_vars(TakeAnswer /\ till' # till)

FairSpec == Spec /\ Fairness

-----------------------------------------------------------------------------
Receipt == [secrets : SUBSET Secret, amount : Nat, settled : Nat, rejected : Nat]

TypeOK ==
  /\ till.proofs \subseteq K!Proof /\ flash.proofs \subseteq K!Proof
  /\ till.receipts \in Seq(Receipt) /\ flash.receipts \in Seq(Receipt)
  /\ call.op = "settle" =>
       call.todo \subseteq till.proofs /\ call.proof \in call.todo \cup {Nobody}
  /\ \A r \in net : r.proof \in K!Proof

Receipts(state) == {state.receipts[i] : i \in DOMAIN state.receipts}
Of(proofs, receipt) == {p \in proofs : p.secret \in receipt.secrets}
OwedFor(receipt) ==
  Value({e \in K!For(settlements, {Me}) : e.secret \in receipt.secrets})

(* A payment is accepted once: a replayed token, whole or in part, never   *)
(* gets a second receipt, not after it was settled or rejected, not after  *)
(* a crash (accept_payment).                                               *)
AcceptedOnce ==
  \A i, j \in DOMAIN till.receipts :
    i # j => till.receipts[i].secrets \cap till.receipts[j].secrets = {}

(* What `receipts' prints as pending is what is held for the receipt: in   *)
(* every order of answers, lost answers, failed saves and crashes, each    *)
(* proof of a payment is either held or booked, once.  (`receive' takes a  *)
(* token that was accepted and settled before once more.)                  *)
ReceiptsAddUp ==
  "receive" \notin env.events =>
    \A r \in Receipts(flash) :
      r.amount = r.settled + r.rejected + Value(Of(flash.proofs, r))

(* What a receipt shows as settled the kiosk owes to this merchant.        *)
SettledIsOwed == \A r \in Receipts(flash) : r.settled <= OwedFor(r)

(* And the money is there: what the receipts show as settled, the good     *)
(* proofs held, and what the kiosk owes to the other merchants are covered *)
(* by the reserve.                                                         *)
Settled == Total([i \in DOMAIN flash.receipts |-> flash.receipts[i].settled])
TakingsAreCovered ==
  Settled + Value(flash.proofs \cap K!Live) + K!Owed(Elsewhere) <= reserve

(* "A proof the ATM rejects (already spent elsewhere, bad lock) is dropped *)
(* from the held balance" (vault.rs:845), and no other: what has left the  *)
(* vault of a receipt is spent at the kiosk, settled here or elsewhere.    *)
OnlySpentIsDropped ==
  \A r \in Receipts(flash) : r.secrets \ K!Secrets(flash.proofs) \subseteq spent

(* No good money is thrown away and no bad money is accepted, through lost *)
(* answers, failed saves of the vault, crashes, tokens received twice and  *)
(* tokens shown before the kiosk signed them, as long as the kiosk itself  *)
(* saves what it settles.                                                  *)
NoMoneyDropped == "kioskFails" \notin env.events => OnlySpentIsDropped

(* `receipts' lists amount, settled, rejected and pending (CODE_PLAN.md:86)*)
(* and computes pending as amount - settled - rejected, unsigned.          *)
PendingIsNotNegative ==
  \A r \in Receipts(flash) : r.settled + r.rejected <= r.amount

Shown == UNION UNION {e.tokens : e \in Environments}

(* Whatever is held is answered for in the end, settled or rejected (where *)
(* `receive' does not bring the same tokens in again and again, which can  *)
(* keep settle-all busy with others).                                      *)
EverythingAnswered ==
  \A p \in Shown :
    p \in flash.proofs /\ "receive" \notin env.events ~> p \notin flash.proofs
=============================================================================
