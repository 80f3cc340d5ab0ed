-------------------------------- MODULE Purse --------------------------------
(***************************************************************************)
(* A payer's vault (vault.rs) and the kiosk it loads tokens from and makes *)
(* change at, over a network that loses and delays.                        *)
(*                                                                         *)
(* The vault runs one command at a time and keeps its state in memory      *)
(* (vault) and in its state file (flash).  A save is one step that         *)
(* succeeds or fails: FlashStorage is the module about the files.  A       *)
(* request waits in the network until the kiosk handles it or it is lost;  *)
(* the vault may stop waiting at any time, by a timeout or by a crash, and *)
(* the request it sent can still arrive.  The kiosk is the one of module   *)
(* Kiosk, of which this one takes the operations a vault reaches.          *)
(***************************************************************************)
EXTENDS Money, Denominations

CONSTANTS
  Secret, Locked, Device, SeqNo, Merchant, Unlabeled, Ref, Amount,
  MaxSwapCache,   \* as in Kiosk
  Me,       \* this vault's device key
  Mine,     \* the secrets this vault will draw
  None,     \* no swap pending
  Quota,    \* this vault's allocation at the kiosk
  Foreign,  \* tokens that another vault has loaded already
  MaxSeq    \* bound on the requests of this vault

ASSUME PurseAssumption ==
  /\ Me \in Device /\ Mine \subseteq Secret
  /\ Foreign \subseteq [secret : Secret \ (Mine \cup Locked), amount : Denom]
  /\ Device # {Me} /\ Ref # {}
  /\ Quota \in Nat /\ MaxSeq \in Nat /\ 1 .. MaxSeq \subseteq SeqNo

VARIABLES
  reserve, issued, signed, spent, deposits, allocated, loaded, lastSeq,
  allocRefs, settlements, payouts, swapCache, allowAnon,   \* the kiosk
  vault,    \* FlashState in memory: proofs, pending swap, outbox, device_seq
  flash,    \* FlashState in the state file
  call,     \* the command that is running
  net,      \* requests the kiosk has not handled
  refused,  \* the last recover ended with a refusal by the kiosk
  abandoned, \* the operator has used recover --abandon
  handed,   \* tokens given to payees
  lost      \* tokens whose signature never made it into the state file

K == INSTANCE Kiosk

kioskVars == <<reserve, issued, signed, spent, deposits, allocated, loaded,
               lastSeq, allocRefs, settlements, payouts, swapCache, allowAnon>>
vars == <<kioskVars, vault, flash, call, net, refused, abandoned, handed,
          lost>>

Proof == K!Proof

ASSUME PurseKiosk == K!KioskAssumption
ASSUME PurseMoney == Quota + Value(Foreign) \in Amount
ASSUME PurseDenominations == Denom \subseteq 1 .. MaxTarget
ASSUME PurseNone == None \notin [ins : SUBSET Proof, outs : SUBSET Proof]

SplitUp(amount) == Split(amount, Denom)
Unlocked(proofs) == {p \in proofs : p.secret \notin Locked}

Idle == [op |-> "idle"]

(* Stop waiting: requests already sent are answered to nobody. *)
Orphaned == {[r EXCEPT !.awaited = FALSE] : r \in net}

EmptyVault == [proofs |-> {}, pending |-> None, outbox |-> {}, seq |-> 0]

InitVault ==
  /\ vault = EmptyVault /\ flash = EmptyVault
  /\ call = Idle /\ net = {} /\ refused = FALSE /\ abandoned = FALSE
  /\ handed = {} /\ lost = {}

(* The kiosk after a deposit, allocations to this vault and to another,    *)
(* and the other's loads.                                                  *)
InitKiosk ==
  LET money == Quota + Value(Foreign)
      second == CHOOSE d \in Device : d # Me
      each(mine, others) ==
        [d \in Device |-> IF d = Me THEN mine
                          ELSE IF d = second THEN others ELSE 0]
  IN  /\ reserve = money
      /\ deposits = {[ref |-> CHOOSE r \in Ref : TRUE, amount |-> money]}
      /\ allocated = each(Quota, Value(Foreign))
      /\ allocRefs = Ref
      /\ loaded = each(0, Value(Foreign))
      /\ lastSeq = each(0, Cardinality(Foreign))
      /\ issued = Value(Foreign) /\ signed = Foreign
      /\ spent = {} /\ settlements = {} /\ payouts = {} /\ swapCache = <<>>
      /\ allowAnon = FALSE

Init == InitKiosk /\ InitVault

-----------------------------------------------------------------------------
(* Saving.  Most operations change a copy and adopt it once it is saved.   *)

SaveAndAdopt(next) == flash' = next /\ vault' = next
SaveFails == UNCHANGED <<vault, flash>>

(* Secrets are drawn at random and never again. *)
PendingOuts(st) == IF st.pending = None THEN {} ELSE st.pending.outs
PendingIns(st) == IF st.pending = None THEN {} ELSE st.pending.ins
Asked == {r.outs : r \in {q \in net : q.op = "swap"}}
Drawn == K!Secrets(signed \cup lost \cup PendingOuts(vault) \cup UNION Asked)
           \cup {r.proof.secret : r \in {q \in net : q.op = "sign"}}
           \cup (IF call.op = "sign" THEN {call.proof.secret} ELSE {})
Fresh == Mine \ Drawn

-----------------------------------------------------------------------------
(* topup: the amount is split, and each proof is asked for in turn.        *)
(* (For a topup MaxTarget is a bound of this module, for a payment a limit *)
(* of the source, MAX_EXACT_TARGET.)                                       *)
Topup(amount) ==
  /\ call = Idle /\ vault.pending = None
  /\ amount <= MaxTarget /\ IsSplit(SplitUp(amount))
  /\ call' = [op |-> "topup", todo |-> SplitUp(amount)]
  /\ UNCHANGED <<kioskVars, vault, flash, net, refused, abandoned, handed, lost>>

SignRequest(p, seq) ==
  [op |-> "sign", proof |-> p, seq |-> seq, awaited |-> TRUE]

AskThenBurn(p) ==
  LET next == [vault EXCEPT !.seq = @ + 1]
  IN  /\ call.op = "topup" /\ vault.seq < MaxSeq
      /\ p.secret \in Fresh /\ p.amount = Head(call.todo)
      /\ vault' = next /\ UNCHANGED flash
      /\ net' = net \cup {SignRequest(p, next.seq)}
      /\ call' = [op |-> "sign", proof |-> p, todo |-> Tail(call.todo),
                  answer |-> "none"]
      /\ UNCHANGED <<kioskVars, refused, abandoned, handed, lost>>

(* The sequence number is burned in the state file before the request      *)
(* leaves.                                                                 *)
AskSignature(p) ==
  LET next == [vault EXCEPT !.seq = @ + 1]
  IN  /\ call.op = "topup" /\ vault.seq < MaxSeq
      /\ p.secret \in Fresh /\ p.amount = Head(call.todo)
      /\ vault' = next
      /\ \/ /\ flash' = next
            /\ net' = net \cup {SignRequest(p, next.seq)}
            /\ call' = [op |-> "sign", proof |-> p, todo |-> Tail(call.todo),
                        answer |-> "none"]
         \/ /\ UNCHANGED <<flash, net>>
            /\ call' = Idle
      /\ UNCHANGED <<kioskVars, refused, abandoned, handed, lost>>

(* Each proof is kept and saved as it arrives; a failed save ends the      *)
(* command with the proof in memory only.                                  *)
TakeSignature ==
  LET next == [vault EXCEPT !.proofs = @ \cup {call.proof}]
  IN  /\ call.op = "sign" /\ call.answer = "ok"
      /\ vault' = next
      /\ \/ /\ flash' = next
            /\ call' = IF call.todo = <<>> THEN Idle
                       ELSE [op |-> "topup", todo |-> call.todo]
         \/ UNCHANGED flash /\ call' = Idle
      /\ UNCHANGED <<kioskVars, net, refused, abandoned, handed, lost>>

(* The request was refused, or the answer did not come in time. *)
MissSignature ==
  /\ call.op = "sign"
  /\ lost' = IF call.answer = "refused" THEN lost ELSE lost \cup {call.proof}
  /\ call' = Idle
  /\ net' = Orphaned
  /\ UNCHANGED <<kioskVars, vault, flash, refused, abandoned, handed>>

-----------------------------------------------------------------------------
(* make_payment: coins that add up leave the purse for the outbox, in one  *)
(* save, and only then the token is shown.                                 *)
Adds(coins, amount) == {S \in SUBSET coins : Value(S) = amount}

HandOverUnsaved(S) ==
  /\ vault' = [vault EXCEPT !.proofs = @ \ S, !.outbox = @ \cup {S}]
  /\ handed' = handed \cup S
  /\ UNCHANGED flash

HandOver(S) ==
  \/ /\ SaveAndAdopt([vault EXCEPT !.proofs = @ \ S, !.outbox = @ \cup {S}])
     /\ handed' = handed \cup S
  \/ SaveFails /\ UNCHANGED handed

(* What a payment may use: unlocked coins, or those of the payee's lock.   *)
Candidates(lock) ==
  IF lock THEN vault.proofs \ Unlocked(vault.proofs) ELSE Unlocked(vault.proofs)

Pay(amount, lock) ==
  /\ call = Idle /\ vault.pending = None
  /\ amount <= MaxTarget
  /\ \E S \in Adds(Candidates(lock), amount) : HandOver(S)
  /\ UNCHANGED <<kioskVars, call, net, refused, abandoned, lost>>

-----------------------------------------------------------------------------
(* make_change, when unlocked coins cover the amount but do not add up to  *)
(* it: the smallest coin above the amount goes to the kiosk, or else the   *)
(* largest coins that together reach it.                                   *)
Inputs(coins, amount) ==
  LET above == {p \in coins : p.amount > amount}
      smallest(S) == {p \in S : \A q \in S : p.amount <= q.amount}
  IN  IF above # {}
      THEN {{p} : p \in smallest(above)}
      ELSE {S \in SUBSET coins :
              /\ Value(S) >= amount
              /\ \A p \in S, q \in coins \ S : p.amount >= q.amount
              /\ \A p \in smallest(S) : Value(S \ {p}) < amount}

ChangeForTotal(amount, total) == SplitUp(total)
Change(amount, total) ==
  IF total > amount THEN SplitUp(amount) \o SplitUp(total - amount) ELSE SplitUp(amount)

(* Otherwise the amount is refused before anything changes. *)
Splittable(amount, total) ==
  /\ IsSplit(SplitUp(amount))
  /\ total > amount => IsSplit(SplitUp(total - amount))

(* New proofs of the given denominations. *)
Outputs(denoms) ==
  {outs \in SUBSET [secret : Fresh \ Locked, amount : Denom] :
     /\ \A p, q \in outs : p.secret = q.secret => p = q
     /\ \A d \in Denom :
          Cardinality({p \in outs : p.amount = d})
            = Cardinality({i \in DOMAIN denoms : denoms[i] = d})}

SwapRequest(ins, outs) ==
  [op |-> "swap", ins |-> ins, outs |-> outs, awaited |-> TRUE]

MakeChangeUnsaved(amount) ==
  LET coins == Unlocked(vault.proofs)
  IN  /\ call = Idle /\ vault.pending = None
      /\ Value(coins) >= amount /\ Adds(coins, amount) = {}
      /\ \E ins \in Inputs(coins, amount) :
         \E outs \in Outputs(Change(amount, Value(ins))) :
           /\ vault' = [vault EXCEPT !.proofs = @ \ ins,
                                     !.pending = [ins |-> ins, outs |-> outs]]
           /\ net' = net \cup {SwapRequest(ins, outs)}
           /\ call' = [op |-> "swap", first |-> TRUE, pay |-> amount,
                       answer |-> "none"]
      /\ UNCHANGED <<kioskVars, flash, refused, abandoned, handed, lost>>

(* Write-ahead: the inputs leave the purse and the request is kept in the  *)
(* state file before it is sent.                                           *)
MakeChange(amount) ==
  LET coins == Unlocked(vault.proofs)
  IN  /\ call = Idle /\ vault.pending = None
      /\ amount <= MaxTarget /\ Value(coins) >= amount
      /\ Adds(coins, amount) = {}
      /\ \E ins \in Inputs(coins, amount) :
         /\ Splittable(amount, Value(ins))
         /\ \E outs \in Outputs(Change(amount, Value(ins))) :
           \/ /\ SaveAndAdopt([vault EXCEPT !.proofs = @ \ ins,
                                 !.pending = [ins |-> ins, outs |-> outs]])
              /\ net' = net \cup {SwapRequest(ins, outs)}
              /\ call' = [op |-> "swap", first |-> TRUE, pay |-> amount,
                          answer |-> "none"]
           \/ SaveFails /\ UNCHANGED <<net, call>>
      /\ UNCHANGED <<kioskVars, refused, abandoned, handed, lost>>

(* complete_pending_swap: the new proofs are in, or the save failed and    *)
(* the swap stays pending.                                                 *)
TakeSwap ==
  /\ call.op = "swap" /\ call.answer = "ok"
  /\ \/ /\ SaveAndAdopt([vault EXCEPT !.proofs = @ \cup vault.pending.outs,
                                      !.pending = None])
        /\ refused' = FALSE
        /\ call' = IF call.pay = 0 THEN Idle
                   ELSE [op |-> "pay", amount |-> call.pay]
     \/ SaveFails /\ UNCHANGED refused /\ call' = Idle
  /\ UNCHANGED <<kioskVars, net, abandoned, handed, lost>>

(* pay goes on with the payment it needed the change for. *)
PayWithChange ==
  /\ call.op = "pay"
  /\ \E S \in Adds(Unlocked(vault.proofs), call.amount) : HandOver(S)
  /\ call' = Idle
  /\ UNCHANGED <<kioskVars, net, refused, abandoned, lost>>

(* abandon_pending: the inputs go back into the purse. *)
RestoreInputs ==
  \/ /\ SaveAndAdopt([vault EXCEPT !.proofs = @ \cup vault.pending.ins,
                                   !.pending = None])
     /\ refused' = FALSE
  \/ SaveFails /\ UNCHANGED refused

AbandonUnanswered ==
  /\ call.op = "swap" /\ call.first /\ call.answer # "ok"
  /\ RestoreInputs
  /\ call' = Idle
  /\ net' = Orphaned
  /\ UNCHANGED <<kioskVars, abandoned, handed, lost>>

(* The kiosk refused the first send: nothing was exchanged. *)
AbandonRefused ==
  /\ call.op = "swap" /\ call.first /\ call.answer = "refused"
  /\ RestoreInputs
  /\ call' = Idle
  /\ UNCHANGED <<kioskVars, net, abandoned, handed, lost>>

(* No answer in time, or a retry that the kiosk refused: the swap stays    *)
(* pending.                                                                *)
LeavePending ==
  /\ call.op = "swap"
  /\ \/ UNCHANGED refused
     \/ call.answer = "refused" /\ ~ call.first /\ refused' = TRUE
  /\ call' = Idle
  /\ net' = Orphaned
  /\ UNCHANGED <<kioskVars, vault, flash, abandoned, handed, lost>>

RecoverAnew ==
  /\ call = Idle /\ vault.pending # None
  /\ \E outs \in [secret : Fresh, amount : {Value(vault.pending.ins)}] :
       net' = net \cup {SwapRequest(vault.pending.ins, {outs})}
  /\ call' = [op |-> "swap", first |-> FALSE, pay |-> 0, answer |-> "none"]
  /\ refused' = FALSE
  /\ UNCHANGED <<kioskVars, vault, flash, abandoned, handed, lost>>

(* recover: the identical request once more. *)
Recover ==
  /\ call = Idle /\ vault.pending # None
  /\ net' = net \cup {SwapRequest(vault.pending.ins, vault.pending.outs)}
  /\ call' = [op |-> "swap", first |-> FALSE, pay |-> 0, answer |-> "none"]
  /\ refused' = FALSE
  /\ UNCHANGED <<kioskVars, vault, flash, abandoned, handed, lost>>

(* recover --abandon.  The program runs it at any time; here, as the       *)
(* runbook (PILOT_RUNBOOK.md:78) has it, only once the kiosk refused       *)
(* recover, which vault.rs:609 calls the case in which it is safe.         *)
Abandon ==
  /\ refused
  /\ call = Idle /\ vault.pending # None
  /\ RestoreInputs
  /\ abandoned' = (abandoned \/ vault'.pending = None)
  /\ UNCHANGED <<kioskVars, call, net, handed, lost>>

(* ack: the payee has the token.  The memory is changed before the save.   *)
AckOutbox(token) ==
  LET next == [vault EXCEPT !.outbox = @ \ {token}]
  IN  /\ call = Idle /\ token \in vault.outbox
      /\ vault' = next
      /\ flash' \in {flash, next}
      /\ UNCHANGED <<kioskVars, call, net, refused, abandoned, handed, lost>>

(* The process ends, by a crash or because the command is done: the next   *)
(* one starts from the state file.                                         *)
Restart ==
  /\ vault' = flash
  /\ lost' = lost \cup (vault.proofs \ (flash.proofs \cup handed \cup PendingIns(flash)))
                  \cup (IF call.op = "sign" THEN {call.proof} ELSE {})
  /\ call' = Idle
  /\ net' = Orphaned
  /\ UNCHANGED <<kioskVars, flash, refused, abandoned, handed>>

-----------------------------------------------------------------------------
(* The network and the kiosk. *)

Answered(r, a) ==
  /\ net' = net \ {r}
  /\ call' = IF r.awaited THEN [call EXCEPT !.answer = a] ELSE call
  /\ UNCHANGED <<vault, flash, refused, abandoned, handed, lost>>

LoseRequest(r) ==
  /\ net' = net \ {r}
  /\ UNCHANGED <<kioskVars, vault, flash, call, refused, abandoned, handed, lost>>

KioskSigns(r) ==
  /\ r.op = "sign"
  /\ K!SignForDevice(Me, r.seq, r.proof)
  /\ signed' = signed \cup {r.proof}
  /\ Answered(r, "ok")

KioskSwaps(r) ==
  /\ r.op = "swap"
  /\ \/ K!Swap(r.ins, r.outs)
     \/ K!CachedSwap(r.ins, r.outs) /\ UNCHANGED kioskVars
  /\ Answered(r, "ok")

(* A check failed, or the kiosk could not save; it answers both alike, and *)
(* a swap that it has answered before it never refuses.                    *)
KioskRefuses(r) ==
  /\ r.op = "swap" => ~ K!CachedSwap(r.ins, r.outs)
  /\ Answered(r, "refused")
  /\ UNCHANGED kioskVars

(* A payee redeems a token it was given. *)
PayeeSettles(p, m) ==
  /\ K!SettleFor(p, m, TRUE)
  /\ UNCHANGED <<vault, flash, call, net, refused, abandoned, handed, lost>>

(* Another vault makes change. *)
OthersSwap(p, q) ==
  /\ p.secret \notin Mine /\ q.secret \notin Mine \cup K!Secrets(signed)
  /\ K!Swap({p}, {q})
  /\ UNCHANGED <<vault, flash, call, net, refused, abandoned, handed, lost>>

Next ==
  \/ \E a \in Amount : Topup(a)
  \/ \E p \in Proof : AskSignature(p)
  \/ TakeSignature \/ MissSignature
  \/ \E a \in Amount, l \in BOOLEAN : Pay(a, l)
  \/ \E a \in Amount : MakeChange(a)
  \/ TakeSwap \/ PayWithChange \/ AbandonRefused \/ LeavePending
  \/ Recover \/ Abandon
  \/ \E token \in vault.outbox : AckOutbox(token)
  \/ Restart
  \/ \E r \in net : LoseRequest(r) \/ KioskSigns(r) \/ KioskSwaps(r) \/ KioskRefuses(r)
  \/ \E p \in handed, m \in Merchant : PayeeSettles(p, m)
  \/ \E p \in signed, q \in Proof : OthersSwap(p, q)

Spec == Init /\ [][Next]_vars

(* A command ends, by the timeout of its request if not otherwise; the     *)
(* user lets recover run until it succeeds; and some of its requests, and  *)
(* of the answers and the saves they lead to, get through.                 *)
Fairness ==
  /\ WF_vars(TakeSwap \/ AbandonRefused \/ LeavePending)
  /\ WF_vars(Recover)
  /\ SF_vars(\E r \in net : r.awaited /\ KioskSwaps(r))
  /\ SF_vars(TakeSwap /\ vault' # vault)

FairSpec == Spec /\ Fairness

-----------------------------------------------------------------------------
VaultState ==
  [proofs : SUBSET Proof,
   pending : {None} \cup [ins : SUBSET Proof, outs : SUBSET Proof],
   outbox : SUBSET SUBSET Proof,
   seq : 0 .. MaxSeq]

TypeOK ==
  /\ vault \in VaultState /\ flash \in VaultState
  /\ call.op \in {"idle", "topup", "sign", "swap", "pay"}
  /\ call.op = "topup" => call.todo # <<>>
  /\ call.op = "swap" => vault.pending # None
  /\ \A r \in net : r.op \in {"sign", "swap"} /\ r.awaited \in BOOLEAN
  /\ refused \in BOOLEAN /\ abandoned \in BOOLEAN
  /\ handed \subseteq Proof /\ lost \subseteq Proof

MyLive == {p \in K!Live : p.secret \in Mine}

(* No money is lost: a token of this vault that is still good is in the    *)
(* state file (in the purse or in the pending swap), was given to a payee, *)
(* or is one whose answer to a topup was lost, the limit that CODE_PLAN.md *)
(* documents.  (recover --abandon gives up what a refused swap may yet     *)
(* have made.)                                                             *)
NothingLost ==
  ~ abandoned =>
    MyLive \subseteq flash.proofs \cup PendingIns(flash) \cup PendingOuts(flash)
                     \cup handed \cup lost
                     \cup (IF call.op = "sign" THEN {call.proof} ELSE {})
                     \cup vault.proofs

(* The balance is real: what the purse would spend, the kiosk would take.  *)
NoDeadCoins == ~ abandoned => flash.proofs \cup vault.proofs \subseteq K!Live

(* And the money is there: the purse, what a pending swap holds (its       *)
(* inputs, or its outputs once the kiosk has executed it), and what the    *)
(* kiosk owes to payees are together covered by the reserve.               *)
MyMoney ==
  vault.proofs \cup
    (IF PendingIns(vault) \subseteq K!Live THEN PendingIns(vault) ELSE PendingOuts(vault))
BalanceIsCovered == ~ abandoned => Value(MyMoney) + K!OwedTotal <= reserve

(* A coin that was given to a payee and is spent was redeemed by a payee,  *)
(* never exchanged by the vault that gave it away.  recover --abandon is   *)
(* called safe "when the ATM has refused the swap" (vault.rs:609;          *)
(* PILOT_RUNBOOK.md:78), but a refused recover does not call back earlier  *)
(* copies of its request.                                                  *)
SpentByPayee == K!Secrets(handed) \cap spent \subseteq K!Secrets(settlements)

(* A swap request in flight that the kiosk would still execute. *)
InFlight(r) == r.op = "swap" /\ r.ins \subseteq K!Live

(* The vault never spends a coin twice.  A coin given away is not in the   *)
(* purse and not in the pending swap, and no two tokens of the outbox      *)
(* share a coin, recover --abandon or not.  And as long as that was not    *)
(* used, no coin given away, or in the purse to be given away, is an input *)
(* of a request that the kiosk would still execute, so that a coin given   *)
(* away is spent by its payee only.  (After it, an earlier copy of the     *)
(* abandoned request may still be executed: SpentByPayee alone fails.)     *)
NeverSpentTwice ==
  /\ handed \cap (flash.proofs \cup vault.proofs
                    \cup PendingIns(flash) \cup PendingIns(vault)) = {}
  /\ \A s, t \in vault.outbox : s # t => s \cap t = {}
  /\ ~ abandoned =>
       /\ \A r \in net : InFlight(r) =>
            r.ins \cap (handed \cup flash.proofs \cup vault.proofs) = {}
       /\ SpentByPayee

(* device_seq: "a crash can waste one, never reuse one" (vault.rs): the    *)
(* request that the vault waits for is newer than any the kiosk has seen.  *)
SeqNeverReused ==
  \A r \in net : r.op = "sign" /\ r.awaited => r.seq > lastSeq[Me]

(* make_change: after it the coins add up, so pay does not ask for change  *)
(* a second time.                                                          *)
ChangeSuffices ==
  call.op = "pay" => Adds(Unlocked(vault.proofs), call.amount) # {}

(* The kiosk has executed the pending swap. *)
Exchanged == flash.pending # None /\ ~ (flash.pending.ins \subseteq K!Live)

(* "after a crash `recover' re-sends the identical request and gets the    *)
(* same signatures: nothing is lost" (vault.rs:461) is too much: the kiosk *)
(* forgets answers (the loop at the end of Swap).  What is true of it:     *)
(* while a swap that the kiosk has executed is pending, its answer is      *)
(* there to be fetched, or the kiosk has since answered a whole cache of   *)
(* swaps, all of other vaults: nothing that this vault does while the swap *)
(* is pending costs it the answer.                                         *)
SwapRecoverable ==
  ~ abandoned /\ Exchanged =>
    \/ K!CachedSwap(flash.pending.ins, flash.pending.outs)
    \/ /\ Len(swapCache) = MaxSwapCache
       /\ \A i \in DOMAIN swapCache : swapCache[i].ins \cap Mine = {}

(* The kiosk has executed the pending swap and evicted the answer. *)
Forgotten == Exchanged /\ ~ K!CachedSwap(flash.pending.ins, flash.pending.outs)

(* An interrupted swap is finished eventually, unless it is given up or    *)
(* its answer is forgotten.  (What follows a swap that was given up        *)
(* wrongly is not promised to end.)                                        *)
PendingEnds ==
  (flash.pending # None) ~> (flash.pending = None \/ abandoned \/ Forgotten)
=============================================================================
