--------------------------- MODULE TerminalProofs ---------------------------
(***************************************************************************)
(* The merchant's vault, for any set of tokens, payers and answers.        *)
(*                                                                         *)
(* The invariant ties the vault's three records of a payment together: the *)
(* proofs held, the receipts, and the request under way.  Memory and state *)
(* file always agree on the receipts (Vault); a request that is awaited is *)
(* for the proof the command stands at (Requests); and an answer is good   *)
(* for one booking, since a proof leaves the list of the command and the   *)
(* vault in the save that books it (Running).                              *)
(*                                                                         *)
(* The last sections put the vault and the kiosk's books together: each    *)
(* step is one of Kiosk or leaves it alone, so KioskProofs applies, and    *)
(* what the merchant's receipts show is covered by the reserve.            *)
(***************************************************************************)
EXTENDS Terminal, MoneyLemmas, SequenceTheorems

VaultState == [proofs : SUBSET K!Proof, receipts : Seq(Receipt)]

(* What the kiosk keeps right by itself.                                   *)
KioskLog ==
  /\ signed \subseteq K!Proof
  /\ IsFiniteSet(settlements)
  /\ \A e \in settlements : e.secret \in spent /\ e.amount \in Nat

Vault ==
  /\ till \in VaultState /\ flash \in VaultState
  /\ till.proofs \subseteq signed /\ flash.proofs \subseteq till.proofs
  /\ Distinct(till.proofs)
  /\ flash.receipts = till.receipts

Running ==
  \/ call = Idle
  \/ /\ call \in [op : {"settle"}, todo : SUBSET till.proofs,
                  claim : ClaimKeys,
                  proof : till.proofs \cup {Nobody},
                  answer : {"none", "ok", "refused"}]
     /\ call.proof \in call.todo \cup {Nobody}
     /\ call.proof = Nobody => call.answer = "none"

Requests ==
  \A r \in net :
    /\ r \in [proof : signed, claim : ClaimKeys, awaited : BOOLEAN]
    /\ r.awaited => /\ call.op = "settle" /\ call.answer = "none"
                    /\ call.proof = r.proof /\ call.claim = r.claim

Base == env \in Environments /\ KioskLog /\ Vault /\ Running /\ Requests

(* The secret, if any, whose settlement has been answered but not booked,  *)
(* and the entries of this merchant for a set of secrets without it.       *)
Unbooked ==
  IF call.op = "settle" /\ call.answer = "ok" THEN {call.proof.secret} ELSE {}
Entries(log, S) == {e \in K!For(log, {Me}) : e.secret \in S}

AnswerInLog ==
  call.op = "settle" /\ call.answer = "ok" =>
    \E e \in K!For(settlements, {Me}) :
      e.secret = call.proof.secret /\ e.amount = call.proof.amount

Owed ==
  /\ \A i \in DOMAIN till.receipts :
       till.receipts[i].settled
         <= Value(Entries(settlements, till.receipts[i].secrets \ Unbooked))
  /\ AnswerInLog

AddsUp ==
  "receive" \notin env.events =>
    /\ flash = till
    /\ \A i \in DOMAIN till.receipts : LET r == till.receipts[i] IN
         r.amount = r.settled + r.rejected + Value(Of(till.proofs, r))

(* The tokens that a settle-all without the claim key gives up.            *)
Unclaimed == IF FALSE \in ClaimKeys THEN Locked ELSE {}

Dropped ==
  "kioskFails" \notin env.events =>
    /\ \A i \in DOMAIN flash.receipts :
         flash.receipts[i].secrets \ K!Secrets(flash.proofs)
           \subseteq spent \cup Unclaimed
    /\ call.op = "settle" /\ call.answer # "none" =>
         call.proof.secret \in spent \cup Unclaimed

-----------------------------------------------------------------------------
LEMMA Constants ==
  /\ IsFiniteSet(Secret) /\ IsFiniteSet(Denom) /\ Denom \subseteq Nat
  /\ Locked \subseteq Secret
BY TerminalKiosk DEF K!KioskAssumption, K!IsFiniteSet, IsFiniteSet

LEMMA ProofType ==
  ASSUME NEW p \in K!Proof
  PROVE  /\ p.secret \in Secret /\ p.amount \in Denom /\ p.amount \in Nat
         /\ p # Nobody
BY Constants, TerminalAssumption DEF K!Proof

(* There are finitely many proofs. *)
LEMMA ProofFinite == IsFiniteSet(K!Proof)
<1> DEFINE f == [x \in Secret \X Denom |-> [secret |-> x[1], amount |-> x[2]]]
<1>1. IsFiniteSet(Secret \X Denom)
  BY Constants, FS_Product
<1>2. f \in Surjection(Secret \X Denom, K!Proof)
  <2>1. \A x \in Secret \X Denom : f[x] \in K!Proof
    BY DEF K!Proof
  <2>2. ASSUME NEW p \in K!Proof PROVE \E x \in Secret \X Denom : f[x] = p
    <3>1. <<p.secret, p.amount>> \in Secret \X Denom
      BY DEF K!Proof
    <3>2. f[<<p.secret, p.amount>>] = p
      BY <3>1 DEF K!Proof
    <3> QED
      BY <3>1, <3>2
  <2> QED
    BY <2>1, <2>2 DEF Surjection
<1> QED
  BY <1>1, <1>2, FS_Surjection

LEMMA ProofLedger ==
  ASSUME NEW S, S \subseteq K!Proof
  PROVE  IsLedger(S) /\ Value(S) \in Nat
<1>1. IsLedger(S)
  BY ProofFinite, FS_Subset, ProofType DEF IsLedger
<1> QED
  BY <1>1, ValueType

(* What a booking does to a receipt. *)
BookedAs(r, b, p, ok) ==
  /\ b.secrets = r.secrets /\ b.amount = r.amount
  /\ p.secret \in r.secrets /\ ok =>
       b.settled = r.settled + p.amount /\ b.rejected = r.rejected
  /\ p.secret \in r.secrets /\ ~ ok =>
       b.settled = r.settled /\ b.rejected = r.rejected + p.amount
  /\ p.secret \notin r.secrets => b = r

LEMMA BookOneEffect ==
  ASSUME NEW r \in Receipt, NEW p, p.amount \in Nat, NEW ok \in BOOLEAN, NEW b,
         b = CASE p.secret \in r.secrets /\ ok ->
                    [r EXCEPT !.settled = @ + p.amount]
               [] p.secret \in r.secrets /\ ~ ok ->
                    [r EXCEPT !.rejected = @ + p.amount]
               [] p.secret \notin r.secrets -> r
  PROVE  b \in Receipt /\ BookedAs(r, b, p, ok)
<1>1. CASE p.secret \in r.secrets /\ ok
  <2>1. b = [r EXCEPT !.settled = r.settled + p.amount]
    BY <1>1
  <2>2. r.settled + p.amount \in Nat
    BY DEF Receipt
  <2> QED
    BY <1>1, <2>1, <2>2 DEF Receipt, BookedAs
<1>2. CASE p.secret \in r.secrets /\ ~ ok
  <2>1. b = [r EXCEPT !.rejected = r.rejected + p.amount]
    BY <1>2
  <2>2. r.rejected + p.amount \in Nat
    BY DEF Receipt
  <2> QED
    BY <1>2, <2>1, <2>2 DEF Receipt, BookedAs
<1>3. CASE p.secret \notin r.secrets
  BY <1>3 DEF BookedAs
<1> QED
  BY <1>1, <1>2, <1>3

LEMMA BookEffect ==
  ASSUME NEW receipts \in Seq(Receipt), NEW p \in K!Proof, NEW ok \in BOOLEAN
  PROVE  /\ Book(receipts, p, ok) \in Seq(Receipt)
         /\ DOMAIN Book(receipts, p, ok) = DOMAIN receipts
         /\ \A i \in DOMAIN receipts :
              BookedAs(receipts[i], Book(receipts, p, ok)[i], p, ok)
<1> DEFINE B == Book(receipts, p, ok)
<1>0. p.amount \in Nat
  BY ProofType
<1>1. DOMAIN B = DOMAIN receipts /\ DOMAIN receipts = 1 .. Len(receipts)
      /\ Len(receipts) \in Nat
  BY DEF Book
<1>2. ASSUME NEW i \in DOMAIN receipts
      PROVE  B[i] \in Receipt /\ BookedAs(receipts[i], B[i], p, ok)
  <2>1. receipts[i] \in Receipt
    BY <1>1
  <2>2. B[i] = CASE p.secret \in receipts[i].secrets /\ ok ->
                      [receipts[i] EXCEPT !.settled = @ + p.amount]
                 [] p.secret \in receipts[i].secrets /\ ~ ok ->
                      [receipts[i] EXCEPT !.rejected = @ + p.amount]
                 [] p.secret \notin receipts[i].secrets -> receipts[i]
    BY DEF Book
  <2> HIDE DEF B
  <2> QED
    BY <1>0, <2>1, <2>2, BookOneEffect
<1>3. B \in Seq(Receipt)
  <2>1. B = [i \in 1 .. Len(receipts) |-> B[i]]
    BY <1>1 DEF Book
  <2>2. \A i \in 1 .. Len(receipts) : B[i] \in Receipt
    BY <1>1, <1>2
  <2> HIDE DEF B
  <2> QED
    BY <1>1, <2>1, <2>2
<1> QED
  BY <1>1, <1>2, <1>3

-----------------------------------------------------------------------------
(* What a settlement and a swap do to the kiosk, as far as it matters here. *)
LEMMA SettleForEffect ==
  ASSUME KioskLog, NEW p, NEW m, NEW c, K!SettleFor(p, m, c)
  PROVE  /\ KioskLog'
         /\ p \in signed /\ p.secret \notin spent /\ (p.secret \in Locked => c)
         /\ signed' = signed /\ spent' = spent \cup {p.secret}
         /\ \E e : /\ e.merchant = m /\ e.secret = p.secret
                   /\ e.amount = p.amount
                   /\ e \notin settlements
                   /\ settlements' = settlements \cup {e}
<1> DEFINE e == [seq |-> K!Cardinality(settlements) + 1, merchant |-> m,
                 secret |-> p.secret, amount |-> p.amount]
<1>1. /\ p \in signed /\ p.secret \notin spent /\ (p.secret \in Locked => c)
      /\ signed' = signed /\ spent' = spent \cup {p.secret}
      /\ settlements' = settlements \cup {e}
  BY DEF K!SettleFor, K!CheckProof
<1>2. p \in K!Proof
  BY <1>1 DEF KioskLog
<1>3. e.merchant = m /\ e.secret = p.secret /\ e.amount = p.amount
  OBVIOUS
<1> HIDE DEF e
<1>4. p.amount \in Nat
  BY <1>2, ProofType
<1>5. e \notin settlements
  BY <1>1, <1>3 DEF KioskLog
<1>6. IsFiniteSet(settlements')
  BY <1>1, FS_AddElement DEF KioskLog
<1>7. KioskLog'
  BY <1>1, <1>3, <1>4, <1>6 DEF KioskLog
<1> QED
  BY <1>1, <1>3, <1>5, <1>7

LEMMA ChangedElsewhereEffect ==
  ASSUME KioskLog, NEW p \in signed, NEW q \in K!Proof, ChangedElsewhere(p, q)
  PROVE  /\ KioskLog' /\ settlements' = settlements
         /\ signed \subseteq signed' /\ spent \subseteq spent'
         /\ UNCHANGED <<env, till, flash, call, net>>
<1>1. /\ spent' = spent \cup K!Secrets({p}) /\ signed' = signed \cup {q}
      /\ settlements' = settlements
      /\ UNCHANGED <<env, till, flash, call, net>>
  BY DEF ChangedElsewhere, K!Swap
<1> QED
  BY <1>1 DEF KioskLog

-----------------------------------------------------------------------------
(* The vault and its requests do not notice what others do at the kiosk. *)
LEMMA BaseElsewhere ==
  ASSUME Base, KioskLog', signed \subseteq signed', net' \subseteq net,
         UNCHANGED <<env, till, flash, call>>
  PROVE  Base'
BY DEF Base, Vault, Running, Requests, VaultState

LEMMA BaseAccept ==
  ASSUME Base, NEW token \in env.tokens, Accept(token)
  PROVE  Base'
<1>1. /\ UNCHANGED <<kioskVars, env, call, net>>
      /\ call = Idle /\ token \subseteq signed
      /\ ~ Known(token) /\ Distinct(token)
  BY DEF Accept, Verified
<1>2. KioskLog' /\ Requests'
  BY <1>1 DEF Base, KioskLog, Requests, kioskVars
<1>3. Running'
  BY <1>1 DEF Running
<1>4. Vault'
  <2>1. CASE SaveFails
    BY <1>1, <2>1 DEF SaveFails, Base, Vault, VaultState, kioskVars
  <2>2. CASE SaveAndAdopt(WithPayment(token))
    <3>1. ReceiptFor(token) \in Receipt
      <4>1. K!Secrets(token) \subseteq Secret
        BY <1>1, ProofType DEF K!Secrets, Base, KioskLog
      <4>2. Value(token) \in Nat
        BY <1>1, ProofLedger DEF Base, KioskLog
      <4> QED
        BY <4>1, <4>2 DEF ReceiptFor, Receipt
    <3>2. till' = WithPayment(token) /\ flash' = WithPayment(token)
      BY <2>2 DEF SaveAndAdopt
    <3>3. WithPayment(token) \in VaultState
      BY <1>1, <3>1 DEF WithPayment, VaultState, Base, Vault, KioskLog
    <3>4. Distinct(till.proofs \cup token)
      BY <1>1 DEF Known, Distinct, K!Secrets, Base, Vault
    <3> QED
      BY <1>1, <3>2, <3>3, <3>4 DEF WithPayment, Base, Vault, kioskVars
  <2> QED
    BY <2>1, <2>2 DEF Accept
<1> QED
  BY <1>1, <1>2, <1>3, <1>4 DEF Base

LEMMA BaseReceive ==
  ASSUME Base, NEW token \in env.tokens, Receive(token)
  PROVE  Base'
<1> DEFINE unknown == {p \in token : p.secret \notin K!Secrets(till.proofs)}
<1>1. PICK new \in SUBSET unknown :
        /\ UNCHANGED <<kioskVars, env, call, net>>
        /\ call = Idle /\ token \subseteq signed
        /\ Distinct(new)
        /\ till' = [till EXCEPT !.proofs = @ \cup new]
        /\ flash' \in {flash, till'}
  BY DEF Receive, Verified
<1>2. KioskLog' /\ Requests'
  BY <1>1 DEF Base, KioskLog, Requests, kioskVars
<1>3. Running'
  BY <1>1 DEF Running
<1>4. Vault'
  <2>1. /\ till'.proofs = till.proofs \cup new /\ till'.receipts = till.receipts
        /\ till' \in VaultState
    BY <1>1 DEF Base, Vault, VaultState, KioskLog
  <2>2. Distinct(till'.proofs)
    BY <1>1, <2>1 DEF Distinct, K!Secrets, Base, Vault
  <2> QED
    BY <1>1, <2>1, <2>2 DEF Base, Vault, kioskVars
<1> QED
  BY <1>1, <1>2, <1>3, <1>4 DEF Base

LEMMA BaseStartSettleAll ==
  ASSUME Base, NEW claim \in ClaimKeys, StartSettleAll(claim)
  PROVE  Base'
<1>1. /\ UNCHANGED <<kioskVars, env, till, flash, net>> /\ call = Idle
      /\ call' = [op |-> "settle", todo |-> till.proofs, claim |-> claim,
                  proof |-> Nobody, answer |-> "none"]
  BY DEF StartSettleAll
<1>2. KioskLog' /\ Vault' /\ env' \in Environments
  BY <1>1 DEF Base, KioskLog, Vault, VaultState, kioskVars
<1>3. Running'
  BY <1>1 DEF Running
<1>4. Requests'
  <2>1. call.op = "idle"
    BY <1>1 DEF Idle
  <2> QED
    BY <1>1, <2>1 DEF Base, Requests, kioskVars
<1> QED
  BY <1>2, <1>3, <1>4 DEF Base

LEMMA BaseSendProof ==
  ASSUME Base, NEW p \in till.proofs, SendProof(p)
  PROVE  Base'
<1> DEFINE new == [proof |-> p, claim |-> call.claim, awaited |-> TRUE]
<1>1. /\ UNCHANGED <<kioskVars, env, till, flash>>
      /\ call.op = "settle" /\ call.proof = Nobody /\ p \in call.todo
      /\ net' = net \cup {new}
      /\ call' = [call EXCEPT !.proof = p]
  BY DEF SendProof
<1>2. KioskLog' /\ Vault' /\ env' \in Environments
  BY <1>1 DEF Base, KioskLog, Vault, VaultState, kioskVars
<1>3. call \in [op : {"settle"}, todo : SUBSET till.proofs, claim : ClaimKeys,
                proof : till.proofs \cup {Nobody},
                answer : {"none", "ok", "refused"}]
      /\ call.answer = "none"
  BY <1>1 DEF Base, Running, Idle
<1>4. p # Nobody /\ p \in signed
  BY ProofType DEF Base, Vault, KioskLog
<1>5. Running'
  BY <1>1, <1>3, <1>4 DEF Running
<1>6. Requests'
  <2>1. \A r \in net : ~ r.awaited
    BY <1>1, <1>4, ProofType DEF Base, Requests, KioskLog
  <2>2. new \in [proof : signed', claim : ClaimKeys, awaited : BOOLEAN]
        /\ new.proof = p /\ new.claim = call.claim
    BY <1>1, <1>3, <1>4 DEF kioskVars
  <2>3. /\ call'.op = "settle" /\ call'.answer = "none" /\ call'.proof = p
        /\ call'.claim = call.claim
    BY <1>1, <1>3
  <2>4. \A r \in net : r \in [proof : signed', claim : ClaimKeys,
      awaited : BOOLEAN]
    BY <1>1 DEF Base, Requests, kioskVars
  <2> HIDE DEF new
  <2> QED
    BY <1>1, <2>1, <2>2, <2>3, <2>4 DEF Requests
<1> QED
  BY <1>2, <1>5, <1>6 DEF Base

(* A booking takes the answered proof, and no other, out of the vault. *)
LEMMA TakeAnswerEffect ==
  ASSUME Base, TakeAnswer
  PROVE  LET p == call.proof
             ok == call.answer = "ok"
         IN  /\ UNCHANGED <<kioskVars, env, net>>
             /\ call.op = "settle" /\ call.answer \in {"ok", "refused"}
             /\ p \in till.proofs /\ p \in K!Proof /\ Held(p) = till.proofs \ {p}
             /\ \/ /\ till' = [proofs |-> till.proofs \ {p},
                               receipts |-> Book(till.receipts, p, ok)]
                   /\ flash' = till'
                   /\ \/ call' = Idle
                      \/ call' = [call EXCEPT !.todo = Rest(p),
                          !.proof = Nobody,
                                              !.answer = "none"]
                \/ UNCHANGED <<till, flash>> /\ call' = Idle
<1> DEFINE p == call.proof
<1>1. /\ UNCHANGED <<kioskVars, env, net>>
      /\ call.op = "settle" /\ call.answer \in {"ok", "refused"}
  BY DEF TakeAnswer
<1>2. p \in till.proofs
  BY <1>1 DEF Base, Running, Idle
<1>3. p \in K!Proof
  BY <1>2 DEF Base, Vault, KioskLog
<1>4. Held(p) = till.proofs \ {p}
  BY <1>2 DEF Held, Base, Vault, Distinct
<1> HIDE DEF p
<1> QED
  BY <1>1, <1>2, <1>3, <1>4 DEF TakeAnswer, SaveAndAdopt, SaveFails, p

LEMMA BaseTakeAnswer ==
  ASSUME Base, TakeAnswer
  PROVE  Base'
<1> DEFINE p == call.proof
           ok == call.answer = "ok"
<1>1. /\ UNCHANGED <<kioskVars, env, net>>
      /\ call.op = "settle" /\ call.answer \in {"ok", "refused"}
      /\ p \in till.proofs /\ p \in K!Proof
  BY TakeAnswerEffect
<1>2. KioskLog' /\ env' \in Environments
  BY <1>1 DEF Base, KioskLog, kioskVars
<1>3. call \in [op : {"settle"}, todo : SUBSET till.proofs, claim : ClaimKeys,
                proof : till.proofs \cup {Nobody},
                answer : {"none", "ok", "refused"}]
  BY <1>1 DEF Base, Running, Idle
<1>4. \A r \in net : ~ r.awaited
  BY <1>1 DEF Base, Requests
<1>5. Requests'
  BY <1>1, <1>4 DEF Requests, Base, kioskVars
<1>6. CASE till' = till /\ flash' = flash /\ call' = Idle
  BY <1>1, <1>2, <1>5, <1>6 DEF Base, Vault, VaultState, Running, kioskVars
<1>7. CASE /\ till' = [proofs |-> till.proofs \ {p},
                       receipts |-> Book(till.receipts, p, ok)]
           /\ flash' = till'
           /\ \/ call' = Idle
              \/ call' = [call EXCEPT !.todo = Rest(p), !.proof = Nobody,
                                      !.answer = "none"]
  <2>1. Book(till.receipts, p, ok) \in Seq(Receipt)
    <3>1. till.receipts \in Seq(Receipt)
      BY DEF Base, Vault, VaultState
    <3> QED
      BY <1>1, <3>1, BookEffect
  <2>2. Vault'
    <3>1. till' \in VaultState /\ till'.proofs = till.proofs \ {p}
      BY <1>7, <2>1 DEF Base, Vault, VaultState
    <3>2. Distinct(till'.proofs)
      BY <3>1 DEF Base, Vault, Distinct
    <3> QED
      BY <1>1, <1>7, <3>1, <3>2 DEF Base, Vault, kioskVars
  <2>3. Running'
    <3>1. Rest(p) \subseteq till.proofs \ {p}
      BY <1>3 DEF Rest
    <3>2. till'.proofs = till.proofs \ {p}
      BY <1>7
    <3>3. CASE call' = Idle
      BY <3>3 DEF Running
    <3>4. CASE call' = [call EXCEPT !.todo = Rest(p), !.proof = Nobody,
                                    !.answer = "none"]
      <4>1. call' = [op |-> "settle", todo |-> Rest(p), claim |-> call.claim,
                     proof |-> Nobody, answer |-> "none"]
        BY <1>3, <3>4
      <4> QED
        BY <1>3, <3>1, <3>2, <4>1 DEF Running
    <3> QED
      BY <1>7, <3>3, <3>4
  <2> QED
    BY <1>2, <1>5, <2>2, <2>3 DEF Base
<1> HIDE DEF p, ok
<1> QED
  BY <1>6, <1>7, TakeAnswerEffect DEF p, ok

LEMMA OrphanedRequests ==
  ASSUME Base
  PROVE  \A r \in Orphaned : /\ r \in [proof : signed, claim : ClaimKeys,
                                       awaited : BOOLEAN]
                             /\ ~ r.awaited
BY DEF Base, Requests, Orphaned

LEMMA BaseInterrupted ==
  ASSUME Base, Stop \/ Restart
  PROVE  Base'
<1>1. /\ UNCHANGED <<kioskVars, env, flash>> /\ till' \in {till, flash}
      /\ call' = Idle /\ net' = Orphaned
  BY DEF Stop, Restart
<1>2. KioskLog' /\ env' \in Environments
  BY <1>1 DEF Base, KioskLog, kioskVars
<1>3. Vault'
  BY <1>1 DEF Base, Vault, Distinct, kioskVars
<1>4. Requests' /\ Running'
  BY <1>1, OrphanedRequests DEF Requests, Running, kioskVars
<1> QED
  BY <1>2, <1>3, <1>4 DEF Base

(* An answer reaches the command that waits for it, or nobody. *)
LEMMA BaseAnswered ==
  ASSUME Base, NEW r \in net, NEW a \in {"ok", "refused"}, Answered(r, a),
         KioskLog', signed' = signed, env' = env
  PROVE  Base'
<1>1. /\ net' = net \ {r} /\ UNCHANGED <<till, flash>>
      /\ call' = IF r.awaited THEN [call EXCEPT !.answer = a] ELSE call
  BY DEF Answered
<1>2. CASE ~ r.awaited
  BY <1>1, <1>2, BaseElsewhere
<1>3. CASE r.awaited
  <2>1. /\ call.op = "settle" /\ call.proof = r.proof /\ call.claim = r.claim
        /\ r \in [proof : signed, claim : ClaimKeys, awaited : BOOLEAN]
    BY <1>3 DEF Base, Requests
  <2>2. call.proof # Nobody
    BY <2>1, ProofType DEF Base, KioskLog
  <2>3. Running'
    BY <1>1, <1>3, <2>1, <2>2 DEF Base, Running, Idle
  <2>4. \A q \in net : q.awaited => q = r
    BY <1>3 DEF Base, Requests
  <2>5. Requests'
    BY <1>1, <2>4 DEF Base, Requests
  <2> QED
    BY <1>1, <2>3, <2>5 DEF Base, Vault
<1> QED
  BY <1>2, <1>3

LEMMA RefusedEffect ==
  ASSUME NEW r, KioskRefuses(r)
  PROVE  UNCHANGED <<kioskVars, env>> /\ Answered(r, "refused")
BY DEF KioskRefuses

LEMMA BaseInit == Init => Base
<1> SUFFICES ASSUME Init PROVE Base
  OBVIOUS
<1>1. /\ env \in Environments /\ signed = env.loaded /\ settlements = {}
      /\ till = [proofs |-> {}, receipts |-> << >>] /\ flash = till
      /\ call = Idle /\ net = {}
  BY DEF Init, InitKiosk
<1>2. KioskLog
  BY <1>1, TerminalAssumption, FS_EmptySet DEF KioskLog, K!Proof
<1>3. Vault
  BY <1>1 DEF Vault, VaultState, Distinct
<1> QED
  BY <1>1, <1>2, <1>3 DEF Base, Running, Requests

LEMMA BaseNext == Base /\ [Next]_vars => Base'
<1> SUFFICES ASSUME Base, [Next]_vars PROVE Base'
  OBVIOUS
<1>1. ASSUME NEW r \in net, KioskSettles(r) PROVE Base'
  <2>1. Answered(r, "ok") /\ env' = env /\ K!SettleFor(r.proof, Me, r.claim)
    BY <1>1 DEF KioskSettles
  <2> QED
    BY <2>1, SettleForEffect, BaseAnswered DEF Base
<1>2. ASSUME NEW r \in net, KioskRefuses(r) PROVE Base'
  <2>1. KioskLog' /\ signed' = signed /\ env' = env
    BY <1>2, RefusedEffect DEF Base, KioskLog, kioskVars
  <2> QED
    BY <1>2, <2>1, RefusedEffect, BaseAnswered
<1>3. ASSUME NEW p \in signed, SettledElsewhere(p) PROVE Base'
  BY <1>3, SettleForEffect, BaseElsewhere DEF SettledElsewhere, Base
<1>4. ASSUME NEW p \in signed, NEW q \in K!Proof, ChangedElsewhere(p, q)
      PROVE Base'
  BY <1>4, ChangedElsewhereEffect, BaseElsewhere DEF Base
<1>5. ASSUME NEW r \in net, LoseRequest(r) PROVE Base'
  BY <1>5, BaseElsewhere DEF LoseRequest, Base, KioskLog, kioskVars
<1>6. CASE UNCHANGED vars
  BY <1>6, BaseElsewhere DEF vars, Base, KioskLog, kioskVars
<1> QED
  BY <1>1, <1>2, <1>3, <1>4, <1>5, <1>6, BaseAccept, BaseReceive,
     BaseStartSettleAll, BaseSendProof, BaseTakeAnswer, BaseInterrupted
  DEF Next

(* Every variable keeps its type: a command only ever stands at a proof    *)
(* that the vault still holds.                                             *)
THEOREM TypeCorrect == Spec => []TypeOK
<1>1. Base => TypeOK
  BY DEF Base, KioskLog, Vault, VaultState, Running, Requests, TypeOK, Idle
<1> QED
  BY <1>1, BaseInit, BaseNext, PTL DEF Spec

-----------------------------------------------------------------------------
(* Which steps write receipts: a payment accepted adds one, a booking      *)
(* changes the sums on those it concerns, and nothing else touches any.    *)
Accepting(token) ==
  /\ token \subseteq signed /\ ~ Known(token) /\ Distinct(token)
  /\ till' = WithPayment(token) /\ flash' = till'
  /\ UNCHANGED <<kioskVars, env, call, net>>

Booking ==
  /\ call.op = "settle" /\ call.answer \in {"ok", "refused"}
  /\ call.proof \in till.proofs
  /\ till' = [proofs |-> till.proofs \ {call.proof},
              receipts |-> Book(till.receipts, call.proof, call.answer = "ok")]
  /\ flash' = till'
  /\ \/ call' = Idle
     \/ call' = [call EXCEPT !.todo = Rest(call.proof), !.proof = Nobody,
                             !.answer = "none"]
  /\ UNCHANGED <<kioskVars, env, net>>

Receiving == \E token \in env.tokens : Receive(token)

(* Every other step leaves what is held or booked as it was, unless it     *)
(* forgets what was received and not saved. *)
KioskAnswers == \E r \in net : KioskSettles(r) \/ KioskRefuses(r)
Interrupting ==
  /\ UNCHANGED <<kioskVars, env, flash>> /\ till' \in {till, flash}
  /\ call' = Idle
Asking ==
  /\ UNCHANGED <<kioskVars, env, till, flash>>
  /\ call'.op = "settle" /\ call'.answer = "none"
ByOthers ==
  \/ \E p \in signed : SettledElsewhere(p)
  \/ \E p \in signed, q \in K!Proof : ChangedElsewhere(p, q)
Nothing == UNCHANGED <<kioskVars, env, till, flash, call>>

LEMMA StepKinds ==
  ASSUME Base, [Next]_vars
  PROVE  \/ \E token \in env.tokens : Accepting(token)
         \/ Receiving \/ Booking \/ KioskAnswers \/ Interrupting \/ Asking
         \/ ByOthers \/ Nothing
<1>1. ASSUME NEW token \in env.tokens, Accept(token)
      PROVE  Accepting(token) \/ Nothing
  BY <1>1 DEF Accept, Verified, Accepting, SaveAndAdopt, SaveFails, Nothing
<1>2. ASSUME NEW claim \in ClaimKeys, StartSettleAll(claim) PROVE Asking
  BY <1>2 DEF StartSettleAll, Asking
<1>3. ASSUME NEW p \in till.proofs, SendProof(p) PROVE Asking
  <2>1. call \in [op : {"settle"}, todo : SUBSET till.proofs,
      claim : ClaimKeys,
                  proof : till.proofs \cup {Nobody},
                  answer : {"none", "ok", "refused"}]
        /\ call.answer = "none"
    BY <1>3 DEF SendProof, Base, Running, Idle
  <2> QED
    BY <1>3, <2>1 DEF SendProof, Asking
<1>4. ASSUME TakeAnswer PROVE Booking \/ Interrupting
  BY <1>4, TakeAnswerEffect DEF Booking, Interrupting
<1>5. ASSUME Stop \/ Restart PROVE Interrupting
  BY <1>5 DEF Stop, Restart, Interrupting
<1>6. ASSUME NEW r \in net, LoseRequest(r) PROVE Nothing
  BY <1>6 DEF LoseRequest, Nothing
<1>7. ASSUME UNCHANGED vars PROVE Nothing
  BY <1>7 DEF vars, Nothing
<1> QED
  BY <1>1, <1>2, <1>3, <1>4, <1>5, <1>6, <1>7
  DEF Next, Receiving, KioskAnswers, ByOthers

(* The receipts before and after an accepted payment. *)
LEMMA AcceptingEffect ==
  ASSUME Base, NEW token, Accepting(token)
  PROVE  /\ till'.proofs = till.proofs \cup token
         /\ DOMAIN till'.receipts = 1 .. Len(till.receipts) + 1
         /\ DOMAIN till.receipts = 1 .. Len(till.receipts)
         /\ Len(till.receipts) \in Nat
         /\ \A i \in DOMAIN till.receipts : till'.receipts[i] = till.receipts[i]
         /\ till'.receipts[Len(till.receipts) + 1] = ReceiptFor(token)
         /\ \A i \in DOMAIN till.receipts :
              till.receipts[i].secrets \cap K!Secrets(token) = {}
         /\ K!Secrets(till.proofs) \cap K!Secrets(token) = {}
<1>1. till.receipts \in Seq(Receipt)
  BY DEF Base, Vault, VaultState
<1>2. /\ till'.proofs = till.proofs \cup token
      /\ till'.receipts = Append(till.receipts, ReceiptFor(token))
  BY DEF Accepting, WithPayment
<1>3. /\ \A i \in DOMAIN till.receipts :
              till.receipts[i].secrets \cap K!Secrets(token) = {}
      /\ K!Secrets(till.proofs) \cap K!Secrets(token) = {}
  BY DEF Accepting, Known, OnReceipts
<1> QED
  BY <1>1, <1>2, <1>3

(* The receipts before and after an answer is booked. *)
LEMMA BookingEffect ==
  ASSUME Base, Booking
  PROVE  /\ call.proof \in K!Proof
         /\ till'.proofs = till.proofs \ {call.proof}
         /\ DOMAIN till'.receipts = DOMAIN till.receipts
         /\ \A i \in DOMAIN till.receipts :
              BookedAs(till.receipts[i], till'.receipts[i], call.proof,
                       call.answer = "ok")
         /\ \A r \in net : ~ r.awaited
         /\ call'.op # "settle" \/ call'.answer = "none"
<1>1. till.receipts \in Seq(Receipt) /\ call.proof \in K!Proof
  BY DEF Base, Vault, VaultState, Booking, KioskLog
<1>2. /\ till'.proofs = till.proofs \ {call.proof}
      /\ till'.receipts = Book(till.receipts, call.proof, call.answer = "ok")
  BY DEF Booking
<1>3. \A r \in net : ~ r.awaited
  BY DEF Booking, Base, Requests
<1>4. call'.op # "settle" \/ call'.answer = "none"
  <2>1. call \in [op : {"settle"}, todo : SUBSET till.proofs,
      claim : ClaimKeys,
                  proof : till.proofs \cup {Nobody},
                  answer : {"none", "ok", "refused"}]
    BY DEF Booking, Base, Running, Idle
  <2>2. CASE call' = Idle
    BY <2>2 DEF Idle
  <2>3. CASE call' = [call EXCEPT !.todo = Rest(call.proof), !.proof = Nobody,
                                  !.answer = "none"]
    <3>1. call' = [op |-> "settle", todo |-> Rest(call.proof),
                   claim |-> call.claim, proof |-> Nobody, answer |-> "none"]
      BY <2>1, <2>3
    <3> QED
      BY <3>1
  <2> QED
    BY <2>2, <2>3 DEF Booking
<1> QED
  BY <1>1, <1>2, <1>3, <1>4, BookEffect

(* Receive and the rest keep the receipts. *)
LEMMA ReceiptsKept ==
  ASSUME Base, [Next]_vars, \A token \in env.tokens : ~ Accepting(token),
      ~ Booking
  PROVE  till'.receipts = till.receipts /\ flash'.receipts = flash.receipts
<1>1. till \in VaultState /\ flash.receipts = till.receipts
  BY DEF Base, Vault
<1>2. ASSUME Receiving
      PROVE  till'.receipts = till.receipts /\ flash' \in {flash, till'}
  BY <1>1, <1>2 DEF Receiving, Receive, VaultState
<1>3. ASSUME KioskAnswers \/ ByOthers PROVE UNCHANGED <<till, flash>>
  BY <1>3 DEF KioskAnswers, KioskSettles, KioskRefuses, Answered, ByOthers,
         SettledElsewhere, ChangedElsewhere
<1> QED
  BY <1>1, <1>2, <1>3, StepKinds DEF Interrupting, Asking, Nothing

-----------------------------------------------------------------------------
(* A payment is accepted once (accept_payment): whatever is replayed, in   *)
(* whole or in part, before or after it was settled, rejected or the vault *)
(* crashed, no secret is on two receipts.                                  *)
THEOREM NoReplayAccepted == Spec => []AcceptedOnce
<1>1. Init => AcceptedOnce
  BY DEF Init, AcceptedOnce
<1>2. Base /\ AcceptedOnce /\ [Next]_vars => AcceptedOnce'
  <2> SUFFICES ASSUME Base, AcceptedOnce, [Next]_vars PROVE AcceptedOnce'
    OBVIOUS
  <2>1. ASSUME NEW token \in env.tokens, Accepting(token) PROVE AcceptedOnce'
    <3>1. ReceiptFor(token).secrets = K!Secrets(token)
      BY DEF ReceiptFor
    <3> QED
      BY <2>1, <3>1, AcceptingEffect DEF AcceptedOnce
  <2>2. CASE Booking
    BY <2>2, BookingEffect DEF AcceptedOnce, BookedAs
  <2>3. CASE till'.receipts = till.receipts
    BY <2>3 DEF AcceptedOnce
  <2> QED
    BY <2>1, <2>2, <2>3, ReceiptsKept
<1> QED
  BY <1>1, <1>2, BaseInit, BaseNext, PTL DEF Spec

-----------------------------------------------------------------------------
(* More entries are never worth less. *)
LEMMA EntriesGrow ==
  ASSUME NEW log, IsLedger(log), NEW S, NEW T, T \subseteq Entries(log, S)
  PROVE  /\ IsLedger(T) /\ Value(T) \in Nat
         /\ Value(Entries(log, S)) \in Nat /\ Value(T) <= Value(Entries(log,
             S))
<1>1. IsLedger(Entries(log, S))
  BY ValueMonotone DEF Entries, K!For
<1> QED
  BY <1>1, ValueMonotone, ValueType

LEMMA LogLedger ==
  ASSUME KioskLog
  PROVE  IsLedger(settlements)
BY DEF KioskLog, IsLedger

LEMMA OwedInit == Init => Owed
BY DEF Init, Owed, AnswerInLog, Idle

(* The log grows under receipts that stay as they are. *)
LEMMA OwedKept ==
  ASSUME Base, Base', Owed, settlements \subseteq settlements',
         till'.receipts = till.receipts,
         \A e \in settlements : e.secret \in Unbooked' => e.secret \in Unbooked,
         AnswerInLog'
  PROVE  Owed'
<1>1. ASSUME NEW i \in DOMAIN till.receipts
      PROVE  till.receipts[i].settled
               <= Value(Entries(settlements',
               till.receipts[i].secrets \ Unbooked'))
  <2> DEFINE S == till.receipts[i].secrets
             n == till.receipts[i].settled
             old == Entries(settlements, S \ Unbooked)
             new == Entries(settlements', S \ Unbooked')
  <2>1. n <= Value(old)
    BY DEF Owed
  <2>2. n \in Nat
    <3>1. till.receipts[i] \in Receipt
      BY DEF Base, Vault, VaultState
    <3> QED
      BY <3>1 DEF Receipt
  <2>3. old \subseteq new
    BY DEF Entries, K!For
  <2>4. Value(old) \in Nat /\ Value(new) \in Nat /\ Value(old) <= Value(new)
    <3>1. IsLedger(settlements')
      BY DEF Base, KioskLog, IsLedger
    <3> QED
      BY <2>3, <3>1, EntriesGrow
  <2> HIDE DEF S, n, old, new
  <2> QED
    BY <2>1, <2>2, <2>4 DEF S, n, old, new
<1> QED
  BY <1>1 DEF Owed

LEMMA OwedAccepting ==
  ASSUME Base, Owed, NEW token, Accepting(token)
  PROVE  Owed'
<1>1. UNCHANGED <<settlements, call>> /\ Unbooked' = Unbooked
  BY DEF Accepting, kioskVars, Unbooked
<1>2. AnswerInLog'
  BY <1>1 DEF Owed, AnswerInLog
<1>3. ReceiptFor(token).settled = 0
  BY DEF ReceiptFor
<1>4. \A S : Value(Entries(settlements, S)) \in Nat
  BY LogLedger, EntriesGrow DEF Base
<1>5. ASSUME NEW i \in DOMAIN till'.receipts
      PROVE  till'.receipts[i].settled
               <= Value(Entries(settlements,
               till'.receipts[i].secrets \ Unbooked))
  <2>1. CASE i \in DOMAIN till.receipts
    BY <2>1, AcceptingEffect DEF Owed
  <2>2. CASE i = Len(till.receipts) + 1
    BY <1>3, <1>4, <2>2, AcceptingEffect
  <2> QED
    BY <2>1, <2>2, AcceptingEffect
<1> QED
  BY <1>1, <1>2, <1>5 DEF Owed

(* The entry of the answer may now be shown, and is shown, in one step. *)
LEMMA OwedBooking ==
  ASSUME Base, Owed, Booking
  PROVE  Owed'
<1> DEFINE p == call.proof
           ok == call.answer = "ok"
<1>1. /\ settlements' = settlements /\ call.op = "settle"
      /\ call'.op # "settle" \/ call'.answer = "none"
  BY BookingEffect DEF Booking, kioskVars
<1>2. Unbooked' = {} /\ Unbooked = IF ok THEN {p.secret} ELSE {}
  BY <1>1 DEF Unbooked
<1>3. AnswerInLog'
  BY <1>1 DEF AnswerInLog
<1>4. p \in K!Proof /\ p.amount \in Nat
  BY BookingEffect, ProofType
<1>5. ASSUME NEW r \in Receipt, NEW b, BookedAs(r, b, p, ok),
             r.settled <= Value(Entries(settlements, r.secrets \ Unbooked))
      PROVE  b.settled <= Value(Entries(settlements, b.secrets))
  <2> DEFINE S == r.secrets
             old == Entries(settlements, S \ Unbooked)
             new == Entries(settlements, S)
  <2>1. r.settled \in Nat /\ r.settled <= Value(old)
    BY <1>5 DEF Receipt
  <2>2. b.secrets = S
    BY <1>5 DEF BookedAs
  <2>3. old \subseteq new
    BY DEF Entries
  <2>4. /\ Value(old) \in Nat /\ Value(new) \in Nat
        /\ Value(old) <= Value(new) /\ IsLedger(old)
    BY <2>3, LogLedger, EntriesGrow DEF Base
  <2>5. CASE ~ ok \/ p.secret \notin S
    <3>1. b.settled = r.settled
      BY <1>5, <2>5 DEF BookedAs
    <3> HIDE DEF S, old, new
    <3> QED
      BY <2>1, <2>2, <2>4, <3>1 DEF new
  <2>6. CASE ok /\ p.secret \in S
    <3>1. PICK e \in K!For(settlements, {Me}) :
            e.secret = p.secret /\ e.amount = p.amount
      BY <1>1, <2>6 DEF Owed, AnswerInLog
    <3>2. e \notin old /\ old \cup {e} \subseteq new
      BY <1>2, <2>3, <2>6, <3>1 DEF Entries
    <3>3. e.amount \in Nat
      BY <1>4, <3>1
    <3> HIDE DEF S, old
    <3>4. Value(old \cup {e}) = Value(old) + e.amount
      BY <2>4, <3>2, <3>3, ValueAdd
    <3>5. Value(old \cup {e}) <= Value(new)
      BY <3>2, LogLedger, EntriesGrow DEF Base
    <3>6. b.settled = r.settled + p.amount
      BY <1>5, <2>6 DEF BookedAs, S
    <3> HIDE DEF p, ok, new
    <3> QED
      BY <1>4, <2>1, <2>2, <2>4, <3>1, <3>4, <3>5, <3>6 DEF new
  <2> QED
    BY <2>5, <2>6
<1>6. ASSUME NEW i \in DOMAIN till.receipts
      PROVE  till'.receipts[i].settled
               <= Value(Entries(settlements, till'.receipts[i].secrets))
  <2>1. till.receipts[i] \in Receipt
    BY DEF Base, Vault, VaultState
  <2>2. BookedAs(till.receipts[i], till'.receipts[i], p, ok)
    BY BookingEffect
  <2>3. till.receipts[i].settled
          <= Value(Entries(settlements, till.receipts[i].secrets \ Unbooked))
    BY DEF Owed
  <2> QED
    BY <1>5, <2>1, <2>2, <2>3
<1>7. \A S : S \ Unbooked' = S
  BY <1>2
<1> QED
  BY <1>1, <1>3, <1>6, <1>7, BookingEffect DEF Owed

LEMMA OwedAnswers ==
  ASSUME Base, Base', Owed, KioskAnswers
  PROVE  Owed'
<1>1. ASSUME NEW r \in net, KioskSettles(r) PROVE Owed'
  <2> DEFINE p == r.proof
  <2>1. Answered(r, "ok") /\ K!SettleFor(p, Me, r.claim)
    BY <1>1 DEF KioskSettles
  <2>2. PICK e : /\ e.merchant = Me /\ e.secret = p.secret /\ e.amount = p.amount
                 /\ settlements' = settlements \cup {e}
    BY <2>1, SettleForEffect DEF Base
  <2>3. p.secret \notin spent
    BY <2>1, SettleForEffect DEF Base
  <2>4. \A f \in settlements : f.secret # p.secret
    BY <2>3 DEF Base, KioskLog
  <2>5. till' = till
        /\ call' = IF r.awaited THEN [call EXCEPT !.answer = "ok"] ELSE call
    BY <2>1 DEF Answered
  <2>6. r.awaited => call.op = "settle" /\ call.proof = p
    BY DEF Base, Requests
  <2>7. CASE r.awaited
    <3>1. call' = [op |-> "settle", todo |-> call.todo, claim |-> call.claim,
                   proof |-> p, answer |-> "ok"]
      <4>1. call \in [op : {"settle"}, todo : SUBSET till.proofs,
          claim : ClaimKeys,
                      proof : till.proofs \cup {Nobody},
                      answer : {"none", "ok", "refused"}]
        BY <2>6, <2>7 DEF Base, Running, Idle
      <4>2. call' = [call EXCEPT !.answer = "ok"]
        BY <2>5, <2>7
      <4> QED
        BY <2>6, <2>7, <4>1, <4>2
    <3>2. AnswerInLog'
      BY <2>2, <3>1 DEF AnswerInLog, K!For
    <3>3. \A f \in settlements : f.secret \notin Unbooked'
      BY <2>4, <3>1 DEF Unbooked
    <3> QED
      BY <2>2, <2>5, <3>2, <3>3, OwedKept DEF Base
  <2>8. CASE ~ r.awaited
    <3>1. AnswerInLog'
      BY <2>2, <2>5, <2>8 DEF Owed, AnswerInLog, K!For
    <3> QED
      BY <2>2, <2>5, <2>8, <3>1, OwedKept DEF Base, Unbooked
  <2> QED
    BY <2>7, <2>8
<1>2. ASSUME NEW r \in net, KioskRefuses(r) PROVE Owed'
  <2>1. /\ UNCHANGED <<kioskVars, till>>
        /\ call' = IF r.awaited THEN [call EXCEPT !.answer = "refused"] ELSE call
    BY <1>2 DEF KioskRefuses, Answered
  <2>2. CASE r.awaited
    <3>1. call'.answer = "refused"
      <4>1. call \in [op : {"settle"}, todo : SUBSET till.proofs,
          claim : ClaimKeys,
                      proof : till.proofs \cup {Nobody},
                      answer : {"none", "ok", "refused"}]
        BY <2>2 DEF Base, Requests, Running, Idle
      <4> QED
        BY <2>1, <2>2, <4>1
    <3> QED
      BY <2>1, <3>1, OwedKept DEF Base, Unbooked, AnswerInLog, kioskVars
  <2>3. CASE ~ r.awaited
    BY <2>1, <2>3, OwedKept DEF Base, Owed, Unbooked, AnswerInLog, kioskVars
  <2> QED
    BY <2>2, <2>3
<1> QED
  BY <1>1, <1>2 DEF KioskAnswers

LEMMA OwedNext == Base /\ Owed /\ [Next]_vars => Owed'
<1> SUFFICES ASSUME Base, Owed, [Next]_vars PROVE Owed'
  OBVIOUS
<1>0. Base'
  BY BaseNext
<1>1. ASSUME NEW token, Accepting(token) PROVE Owed'
  BY <1>0, <1>1, OwedAccepting
<1>2. ASSUME Booking PROVE Owed'
  BY <1>0, <1>2, OwedBooking
<1>3. ASSUME KioskAnswers PROVE Owed'
  BY <1>0, <1>3, OwedAnswers
<1>4. ASSUME Receiving \/ Nothing, till'.receipts = till.receipts PROVE Owed'
  <2>1. UNCHANGED <<settlements, call>>
    BY <1>4 DEF Receiving, Receive, Nothing, kioskVars
  <2> QED
    BY <1>0, <1>4, <2>1, OwedKept DEF Base, Owed, Unbooked, AnswerInLog
<1>5. ASSUME Interrupting \/ Asking, till'.receipts = till.receipts PROVE Owed'
  <2>1. /\ settlements' = settlements
        /\ call'.op # "settle" \/ call'.answer = "none"
    BY <1>5 DEF Interrupting, Asking, kioskVars, Idle
  <2> QED
    BY <1>0, <1>5, <2>1, OwedKept DEF Base, Unbooked, AnswerInLog
<1>6. ASSUME ByOthers PROVE Owed'
  <2>1. settlements \subseteq settlements' /\ UNCHANGED <<till, call>>
    <3>1. ASSUME NEW p \in signed, SettledElsewhere(p)
          PROVE  settlements \subseteq settlements' /\ UNCHANGED <<till, call>>
      BY <3>1, SettleForEffect DEF SettledElsewhere, Base
    <3>2. ASSUME NEW p \in signed, NEW q \in K!Proof, ChangedElsewhere(p, q)
          PROVE  settlements \subseteq settlements' /\ UNCHANGED <<till, call>>
      BY <3>2, ChangedElsewhereEffect DEF Base
    <3> QED
      BY <1>6, <3>1, <3>2 DEF ByOthers
  <2> QED
    BY <1>0, <2>1, OwedKept DEF Base, Owed, Unbooked, AnswerInLog, K!For
<1> QED
  BY <1>1, <1>2, <1>3, <1>4, <1>5, <1>6, StepKinds, ReceiptsKept

(* The merchant's records never claim more than the kiosk's: what a        *)
(* receipt shows as settled is owed to this merchant by the settlement log,*)
(* whatever answers are lost, repeated or late (settle_all).               *)
THEOREM SettledIsInTheLog == Spec => []SettledIsOwed
<1>1. Base /\ Owed => SettledIsOwed
  <2> SUFFICES ASSUME Base, Owed, NEW i \in DOMAIN flash.receipts
               PROVE  flash.receipts[i].settled <= OwedFor(flash.receipts[i])
    BY DEF SettledIsOwed, Receipts
  <2> DEFINE r == till.receipts[i]
             old == Entries(settlements, r.secrets \ Unbooked)
             new == Entries(settlements, r.secrets)
  <2>1. flash.receipts[i] = r /\ i \in DOMAIN till.receipts /\ r \in Receipt
    BY DEF Base, Vault, VaultState
  <2>2. r.settled \in Nat /\ r.settled <= Value(old)
    BY <2>1 DEF Receipt, Owed
  <2>3. old \subseteq new
    BY DEF Entries
  <2>4. Value(old) \in Nat /\ Value(new) \in Nat /\ Value(old) <= Value(new)
    BY <2>3, LogLedger, EntriesGrow DEF Base
  <2>5. OwedFor(r) = Value(new)
    BY DEF OwedFor, Entries
  <2> HIDE DEF r, old, new
  <2> QED
    BY <2>1, <2>2, <2>4, <2>5
<1> QED
  BY <1>1, BaseInit, BaseNext, OwedInit, OwedNext, PTL DEF Spec

-----------------------------------------------------------------------------
(* Steps that leave the vault and its state file as they were. *)
LEMMA VaultKept ==
  ASSUME KioskAnswers \/ Asking \/ ByOthers \/ Nothing
  PROVE  UNCHANGED <<env, till, flash>>
BY DEF KioskAnswers, KioskSettles, KioskRefuses, Answered, Asking, ByOthers,
       SettledElsewhere, ChangedElsewhere, Nothing

LEMMA EnvironmentKept == [Next]_vars => env' = env
BY DEF Next, vars, Accept, Receive, StartSettleAll, SendProof, TakeAnswer,
    Stop,
       Restart, LoseRequest, KioskSettles, KioskRefuses, SettledElsewhere,
       ChangedElsewhere

AddUp(receipt, proofs) ==
  receipt.amount = receipt.settled + receipt.rejected + Value(Of(proofs,
  receipt))

(* A booking moves the value of its proof from what is held for a receipt  *)
(* to what is booked on it. *)
LEMMA BookingMoves ==
  ASSUME NEW proofs \in SUBSET K!Proof, NEW p \in proofs, NEW r \in Receipt,
         NEW b, NEW ok \in BOOLEAN, BookedAs(r, b, p, ok), AddUp(r, proofs)
  PROVE  AddUp(b, proofs \ {p})
<1> DEFINE old == Of(proofs, r)
           new == Of(proofs \ {p}, b)
<1>1. IsLedger(old) /\ Value(old) \in Nat
  BY ProofLedger DEF Of
<1>2. r.settled \in Nat /\ r.rejected \in Nat /\ p.amount \in Nat
  BY ProofType DEF Receipt
<1>3. r.amount = r.settled + r.rejected + Value(old)
  BY DEF AddUp
<1>4. CASE p.secret \in r.secrets
  <2>1. new = old \ {p} /\ {p} \subseteq old
    BY <1>4 DEF BookedAs, Of
  <2>2. Value({p}) = p.amount
    BY <1>2, ValueSingleton
  <2> HIDE DEF old, new
  <2>3. Value(old) = Value(new) + p.amount /\ Value(new) \in Nat
    BY <1>1, <2>1, <2>2, ValueRemove
  <2>4. b.amount = r.amount
        /\ b.settled + b.rejected = r.settled + r.rejected + p.amount
        /\ b.settled \in Nat /\ b.rejected \in Nat
    BY <1>2, <1>4 DEF BookedAs
  <2>5. b.amount = b.settled + b.rejected + Value(new)
    BY <1>1, <1>2, <1>3, <2>3, <2>4
  <2> QED
    BY <2>5 DEF AddUp, new
<1>5. CASE p.secret \notin r.secrets
  <2>1. b = r
    BY <1>5 DEF BookedAs
  <2>2. new = old
    BY <1>5, <2>1 DEF Of
  <2> QED
    BY <1>3, <2>1, <2>2 DEF AddUp
<1> QED
  BY <1>4, <1>5

LEMMA AddsUpNext == Base /\ AddsUp /\ [Next]_vars => AddsUp'
<1> SUFFICES ASSUME Base, AddsUp, [Next]_vars, "receive" \notin env.events
             PROVE  /\ flash' = till'
                    /\ \A i \in DOMAIN till'.receipts :
                         AddUp(till'.receipts[i], till'.proofs)
  BY EnvironmentKept DEF AddsUp, AddUp
<1>1. /\ flash = till /\ till.proofs \subseteq K!Proof
      /\ \A i \in DOMAIN till.receipts :
           /\ till.receipts[i] \in Receipt
           /\ AddUp(till.receipts[i], till.proofs)
  BY DEF AddsUp, AddUp, Base, Vault, VaultState
<1>2. CASE UNCHANGED <<till, flash>>
  BY <1>1, <1>2
<1>3. ASSUME NEW token, Accepting(token)
      PROVE  \A i \in DOMAIN till'.receipts :
               AddUp(till'.receipts[i], till'.proofs)
  <2>1. till'.proofs = till.proofs \cup token
    BY <1>3, AcceptingEffect
  <2>2. ASSUME NEW i \in DOMAIN till.receipts
        PROVE  AddUp(till.receipts[i], till'.proofs)
    <3>1. till.receipts[i].secrets \cap K!Secrets(token) = {}
      BY <1>3, AcceptingEffect
    <3>2. Of(till'.proofs, till.receipts[i]) = Of(till.proofs,
        till.receipts[i])
      BY <2>1, <3>1 DEF Of, K!Secrets
    <3> QED
      BY <1>1, <3>2 DEF AddUp
  <2>3. AddUp(ReceiptFor(token), till'.proofs)
    <3>1. K!Secrets(till.proofs) \cap K!Secrets(token) = {}
      BY <1>3, AcceptingEffect
    <3>2. Of(till'.proofs, ReceiptFor(token)) = token
      BY <2>1, <3>1 DEF Of, K!Secrets, ReceiptFor
    <3>3. Value(token) \in Nat
      BY <1>3, ProofLedger DEF Accepting, Base, KioskLog
    <3> QED
      BY <3>2, <3>3 DEF AddUp, ReceiptFor
  <2> QED
    BY <1>3, <2>2, <2>3, AcceptingEffect
<1>4. ASSUME Booking
      PROVE  \A i \in DOMAIN till'.receipts :
               AddUp(till'.receipts[i], till'.proofs)
  <2> DEFINE ok == call.answer = "ok"
  <2>1. call.proof \in till.proofs /\ ok \in BOOLEAN
    BY <1>4 DEF Booking
  <2>2. /\ till'.proofs = till.proofs \ {call.proof}
        /\ DOMAIN till'.receipts = DOMAIN till.receipts
        /\ \A i \in DOMAIN till.receipts :
             BookedAs(till.receipts[i], till'.receipts[i], call.proof, ok)
    BY <1>4, BookingEffect
  <2> HIDE DEF ok
  <2>3. ASSUME NEW i \in DOMAIN till.receipts
        PROVE  AddUp(till'.receipts[i], till.proofs \ {call.proof})
    BY <1>1, <2>1, <2>2, BookingMoves
  <2> QED
    BY <2>2, <2>3
<1>5. ~ Receiving
  BY DEF Receiving, Receive
<1>6. Interrupting => UNCHANGED <<till, flash>>
  BY <1>1 DEF Interrupting
<1>7. flash' = till' \/ UNCHANGED <<till, flash>>
  BY <1>5, <1>6, StepKinds, VaultKept DEF Accepting, Booking
<1> QED
  BY <1>1, <1>2, <1>3, <1>4, <1>5, <1>6, <1>7, StepKinds, VaultKept

(* What `receipts' prints as pending is what is held for the receipt: each *)
(* proof of a payment is either held or booked, once, in every order of    *)
(* answers, lost answers, failed saves and crashes (settle_all).           *)
THEOREM HeldOrBooked == Spec => []ReceiptsAddUp
<1>1. Init => AddsUp
  BY DEF Init, AddsUp
<1>2. AddsUp => ReceiptsAddUp
  BY DEF AddsUp, ReceiptsAddUp, Receipts
<1> QED
  BY <1>1, <1>2, BaseInit, BaseNext, AddsUpNext, PTL DEF Spec

-----------------------------------------------------------------------------
LEMMA SpentGrows == Base /\ [Next]_vars => spent \subseteq spent'
<1> SUFFICES ASSUME Base, [Next]_vars PROVE spent \subseteq spent'
  OBVIOUS
<1>1. ASSUME NEW r, NEW m, NEW c, K!SettleFor(r, m, c)
      PROVE spent \subseteq spent'
  BY <1>1, SettleForEffect DEF Base
<1>2. ASSUME ByOthers PROVE spent \subseteq spent'
  BY <1>1, <1>2, ChangedElsewhereEffect DEF ByOthers, SettledElsewhere, Base
<1>3. ASSUME KioskAnswers PROVE spent \subseteq spent'
  BY <1>1, <1>3 DEF KioskAnswers, KioskSettles, KioskRefuses, kioskVars
<1> QED
  BY <1>2, <1>3, StepKinds
  DEF Accepting, Receiving, Receive, Booking, Interrupting, Asking, Nothing,
      kioskVars

(* A refusal means that the token is spent, or locked and not claimed.     *)
LEMMA RefusedIsSpent ==
  ASSUME Base, NEW r \in net, KioskRefuses(r), "kioskFails" \notin env.events
  PROVE  r.proof.secret \in spent \cup Unclaimed
<1>1. r.proof \in signed /\ r.claim \in ClaimKeys /\ r.claim \in BOOLEAN
  BY TerminalAssumption DEF Base, Requests
<1> QED
  BY <1>1 DEF KioskRefuses, Redeemable, K!CheckProof, Unclaimed

AnswerIsGood ==
  call.op = "settle" /\ call.answer # "none" =>
    call.proof.secret \in spent \cup Unclaimed

LEMMA AnswersAreGood ==
  ASSUME Base, [Next]_vars, "kioskFails" \notin env.events, AnswerIsGood
  PROVE  AnswerIsGood'
<1>1. spent \subseteq spent'
  BY SpentGrows
<1>2. ASSUME NEW r \in net, NEW a \in {"ok", "refused"}, Answered(r, a),
             r.proof.secret \in spent' \cup Unclaimed
      PROVE  AnswerIsGood'
  <2>1. CASE r.awaited
    <3>1. call.proof = r.proof
          /\ call \in [op : {"settle"}, todo : SUBSET till.proofs,
              claim : ClaimKeys,
                       proof : till.proofs \cup {Nobody},
                       answer : {"none", "ok", "refused"}]
      BY <2>1 DEF Base, Requests, Running, Idle
    <3>2. call'.proof = r.proof
      BY <1>2, <2>1, <3>1 DEF Answered
    <3> QED
      BY <1>2, <3>2 DEF AnswerIsGood
  <2>2. CASE ~ r.awaited
    BY <1>1, <1>2, <2>2 DEF Answered, AnswerIsGood
  <2> QED
    BY <2>1, <2>2
<1>3. ASSUME NEW r \in net, KioskSettles(r) PROVE AnswerIsGood'
  <2>1. r.proof.secret \in spent' /\ Answered(r, "ok")
    BY <1>3, SettleForEffect DEF KioskSettles, Base
  <2> QED
    BY <1>2, <2>1
<1>4. ASSUME NEW r \in net, KioskRefuses(r) PROVE AnswerIsGood'
  BY <1>1, <1>2, <1>4, RefusedIsSpent, RefusedEffect
<1>5. ASSUME Interrupting \/ Asking \/ Booking PROVE AnswerIsGood'
  BY <1>5, BookingEffect DEF Interrupting, Asking, AnswerIsGood, Idle
<1>6. ASSUME call' = call PROVE AnswerIsGood'
  BY <1>1, <1>6 DEF AnswerIsGood
<1> QED
  BY <1>3, <1>4, <1>5, <1>6, StepKinds
  DEF KioskAnswers, Accepting, Receiving, Receive, ByOthers, SettledElsewhere,
      ChangedElsewhere, Nothing

LEMMA DroppedNext == Base /\ Dropped /\ [Next]_vars => Dropped'
<1> SUFFICES ASSUME Base, Dropped, [Next]_vars, "kioskFails" \notin env.events
             PROVE  \A i \in DOMAIN flash'.receipts :
                      flash'.receipts[i].secrets \ K!Secrets(flash'.proofs)
                        \subseteq spent' \cup Unclaimed
  BY EnvironmentKept, AnswersAreGood DEF Dropped, AnswerIsGood
<1>1. /\ spent \subseteq spent'
      /\ flash.receipts = till.receipts /\ flash.proofs \subseteq till.proofs
      /\ till \in VaultState
  BY SpentGrows DEF Base, Vault
<1>2. \A i \in DOMAIN till.receipts :
        till.receipts[i].secrets \ K!Secrets(flash.proofs) \subseteq spent \cup Unclaimed
  BY <1>1 DEF Dropped
<1>3. ASSUME flash'.receipts = flash.receipts,
    flash.proofs \subseteq flash'.proofs
      PROVE  \A i \in DOMAIN flash'.receipts :
               flash'.receipts[i].secrets \ K!Secrets(flash'.proofs)
                 \subseteq spent' \cup Unclaimed
  BY <1>1, <1>2, <1>3 DEF K!Secrets
<1>4. ASSUME NEW token, Accepting(token), NEW i \in DOMAIN flash'.receipts
      PROVE  flash'.receipts[i].secrets \ K!Secrets(flash'.proofs)
               \subseteq spent' \cup Unclaimed
  <2>1. flash' = till'
    BY <1>4 DEF Accepting
  <2>2. K!Secrets(flash.proofs) \cup K!Secrets(token) \subseteq K!Secrets(till'.proofs)
    BY <1>1, <1>4, AcceptingEffect DEF K!Secrets
  <2>3. CASE i \in DOMAIN till.receipts
    BY <1>1, <1>2, <1>4, <2>1, <2>2, <2>3, AcceptingEffect
  <2>4. CASE till'.receipts[i] = ReceiptFor(token)
    BY <2>1, <2>2, <2>4 DEF ReceiptFor
  <2> QED
    BY <1>4, <2>1, <2>3, <2>4, AcceptingEffect
<1>5. ASSUME Booking, NEW i \in DOMAIN flash'.receipts
      PROVE  flash'.receipts[i].secrets \ K!Secrets(flash'.proofs)
               \subseteq spent' \cup Unclaimed
  <2>1. /\ flash' = till' /\ till'.proofs = till.proofs \ {call.proof}
        /\ i \in DOMAIN till.receipts
        /\ till'.receipts[i].secrets = till.receipts[i].secrets
    BY <1>5, BookingEffect DEF Booking, BookedAs
  <2>2. call.proof.secret \in spent \cup Unclaimed
    BY <1>5 DEF Dropped, Booking
  <2>3. K!Secrets(flash.proofs) \ {call.proof.secret} \subseteq K!Secrets(till'.proofs)
    BY <1>1, <2>1 DEF K!Secrets
  <2> QED
    BY <1>1, <1>2, <2>1, <2>2, <2>3
<1>6. ASSUME Receiving
      PROVE  flash'.receipts = flash.receipts /\ flash.proofs \subseteq flash'.proofs
  BY <1>1, <1>6 DEF Receiving, Receive, VaultState
<1>7. ASSUME Interrupting
      PROVE  flash'.receipts = flash.receipts /\ flash.proofs \subseteq flash'.proofs
  BY <1>7 DEF Interrupting
<1> QED
  BY <1>3, <1>4, <1>5, <1>6, <1>7, StepKinds, VaultKept

(* What has left the vault of a payment is spent at the kiosk, or was      *)
(* locked and settled without the claim key that it needs.                 *)
OnlyUnclaimedIsDropped ==
  "kioskFails" \notin env.events =>
    \A r \in Receipts(flash) :
      r.secrets \ K!Secrets(flash.proofs) \subseteq spent \cup Unclaimed

(* settle_all drops from the held balance what the kiosk has answered, and *)
(* while the kiosk saves what it settles an answer is final.               *)
THEOREM DroppedIsSpentOrUnclaimed == Spec => []OnlyUnclaimedIsDropped
<1>1. Init => Dropped
  BY DEF Init, Dropped, Idle
<1>2. Dropped => OnlyUnclaimedIsDropped
  BY DEF Dropped, OnlyUnclaimedIsDropped, Receipts
<1> QED
  BY <1>1, <1>2, BaseInit, BaseNext, DroppedNext, PTL DEF Spec

(* With the claim key given to every settle-all (--claim-key), no good     *)
(* money is thrown away and no bad money is accepted: through lost answers,*)
(* failed saves of the vault, crashes, and tokens shown too early.         *)
THEOREM NoGoodMoneyDropped ==
  ASSUME ClaimKeys = {TRUE}
  PROVE  Spec => []NoMoneyDropped
<1>1. OnlyUnclaimedIsDropped => NoMoneyDropped
  BY DEF OnlyUnclaimedIsDropped, NoMoneyDropped, OnlySpentIsDropped, Unclaimed
<1> QED
  BY <1>1, DroppedIsSpentOrUnclaimed, PTL

-----------------------------------------------------------------------------
(* The merchant's vault and the kiosk together: whatever the vault, the    *)
(* network, the payers and the other merchants do, the kiosk takes steps   *)
(* of Kiosk only, so that all that KioskProofs says of its books holds     *)
(* here too.                                                               *)
Books == INSTANCE KioskProofs

(* Both instances of Kiosk count and sum alike. *)
LEMMA Sums ==
  ASSUME NEW S
  PROVE  /\ K!Value(S) = Value(S) /\ K!Total(S) = Total(S)
         /\ K!Cardinality(S) = Cardinality(S)
         /\ K!IsFiniteSet(S) = IsFiniteSet(S)
         /\ Books!Value(S) = Value(S) /\ Books!Total(S) = Total(S)
         /\ Books!Cardinality(S) = Cardinality(S)
         /\ Books!IsFiniteSet(S) = IsFiniteSet(S)
BY DEF K!Value, K!Total, K!Units, K!Amounts, K!Cardinality,
       Books!Value, Books!Total, Books!Units, Books!Amounts, Books!Cardinality,
       Value, Total, Units, Amounts, Cardinality,
       K!IsFiniteSet, Books!IsFiniteSet, IsFiniteSet

LEMMA BooksAssumption == Books!KioskAssumption
BY TerminalKiosk, Sums DEF K!KioskAssumption, Books!KioskAssumption

(* They have the same operations. *)
LEMMA SameOperations == K!Next => Books!Next
<1> USE DEF K!deviceVars, Books!deviceVars, K!Proof, Books!Proof,
    K!Payee, Books!Payee
<1> SUFFICES ASSUME K!Next PROVE Books!Next
  OBVIOUS
<1>0. /\ \A S : K!Secrets(S) = Books!Secrets(S) /\ K!Refs(S) = Books!Refs(S)
      /\ \A p : K!CheckProof(p) = Books!CheckProof(p)
      /\ \A p : K!Swappable(p) = Books!Swappable(p)
      /\ \A c : K!Evict(c) = Books!Evict(c)
      /\ \A n, a : K!Deduct(n, a) = Books!Deduct(n, a)
      /\ \A log, M : K!For(log, M) = Books!For(log, M)
  BY DEF K!Secrets, Books!Secrets, K!Refs, Books!Refs, K!Swappable,
     Books!Swappable, K!CheckProof, Books!CheckProof, K!Evict, Books!Evict,
     K!Deduct, Books!Deduct, K!For, Books!For
<1>1. ASSUME NEW ref, NEW a, K!Deposit(ref, a) PROVE Books!Deposit(ref, a)
  BY <1>0, <1>1 DEF K!Deposit, Books!Deposit
<1>2. ASSUME NEW dev, NEW a, NEW ref, K!AllocateDevice(dev, a, ref)
      PROVE  Books!AllocateDevice(dev, a, ref)
  BY <1>2, Sums DEF K!AllocateDevice, Books!AllocateDevice
<1>3. ASSUME NEW p, K!BlindSignNoSave(p) PROVE Books!BlindSignNoSave(p)
  BY <1>3, Sums DEF K!BlindSignNoSave, Books!BlindSignNoSave, K!Covered,
     Books!Covered, K!OwedTotal, Books!OwedTotal
<1>4. ASSUME NEW p, K!BlindSign(p) PROVE Books!BlindSign(p)
  BY <1>3, <1>4 DEF K!BlindSign, Books!BlindSign
<1>5. ASSUME NEW dev, NEW seq, NEW p, K!SignForDevice(dev, seq, p)
      PROVE  Books!SignForDevice(dev, seq, p)
  BY <1>3, <1>5 DEF K!SignForDevice, Books!SignForDevice, K!WithinQuota,
     Books!WithinQuota
<1>6. ASSUME NEW p, NEW m, NEW c, K!SettleFor(p, m, c)
      PROVE  Books!SettleFor(p, m, c)
  BY <1>0, <1>6, Sums DEF K!SettleFor, Books!SettleFor
<1>7. ASSUME NEW ins, NEW outs, K!Swap(ins, outs) PROVE Books!Swap(ins, outs)
  <2>1. /\ K!CachedSwap(ins, outs) = Books!CachedSwap(ins, outs)
        /\ K!Balanced(ins, outs) = Books!Balanced(ins, outs)
    BY <1>0, Sums DEF K!CachedSwap, Books!CachedSwap, K!Balanced, Books!Balanced
  <2> QED
    BY <1>0, <1>7, <2>1 DEF K!Swap, Books!Swap
<1>8. ASSUME NEW m, NEW a, NEW ref, K!RecordPayout(m, a, ref)
      PROVE  Books!RecordPayout(m, a, ref)
  BY <1>0, <1>8, Sums DEF K!RecordPayout, Books!RecordPayout, K!MayPay,
     Books!MayPay, K!Owed, Books!Owed
<1> QED
  BY <1>1, <1>2, <1>4, <1>5, <1>6, <1>7, <1>8 DEF K!Next, Books!Next

(* And they say the same of the books. *)
KioskHolds ==
  /\ K!TypeOK /\ K!RedeemedOnce /\ K!NeverOverpaid /\ K!LiveCovered
  /\ K!Backed /\ K!LedgerConsistent
  /\ K!QuotaRespected /\ K!LockedOnlySettled /\ K!LoadedIsIssuedOrSettled
  /\ K!AllocatedWasDeposited

LEMMA SameBooks == Books!AllBooks <=> KioskHolds
<1>1. K!TypeOK <=> Books!TypeOK
  BY Sums DEF K!TypeOK, Books!TypeOK, K!Proof, Books!Proof, K!Payee, Books!Payee
<1>2. K!RedeemedOnce <=> Books!RedeemedOnce
  BY DEF K!RedeemedOnce, Books!RedeemedOnce, K!Secrets, Books!Secrets
<1>3. K!NeverOverpaid <=> Books!NeverOverpaid
  BY Sums DEF K!NeverOverpaid, Books!NeverOverpaid, K!For, Books!For, K!Payee,
     Books!Payee
<1>4. K!LiveCovered <=> Books!LiveCovered
  BY Sums DEF K!LiveCovered, Books!LiveCovered, K!Live, Books!Live
<1>5. K!Backed <=> Books!Backed
  BY Sums DEF K!Backed, Books!Backed, K!OwedTotal, Books!OwedTotal
<1>6. K!LedgerConsistent <=> Books!LedgerConsistent
  BY Sums DEF K!LedgerConsistent, Books!LedgerConsistent
<1>7. K!QuotaRespected <=> Books!QuotaRespected
  BY DEF K!QuotaRespected, Books!QuotaRespected
<1>8. K!LockedOnlySettled <=> Books!LockedOnlySettled
  BY DEF K!LockedOnlySettled, Books!LockedOnlySettled, K!Secrets, Books!Secrets
<1>9. K!LoadedIsIssuedOrSettled <=> Books!LoadedIsIssuedOrSettled
  BY Sums DEF K!LoadedIsIssuedOrSettled, Books!LoadedIsIssuedOrSettled
<1>10. K!AllocatedWasDeposited <=> Books!AllocatedWasDeposited
  BY Sums DEF K!AllocatedWasDeposited, Books!AllocatedWasDeposited
<1> QED
  BY <1>1, <1>2, <1>3, <1>4, <1>5, <1>6, <1>7, <1>8, <1>9, <1>10
  DEF KioskHolds, Books!AllBooks, Books!Books

LEMMA KioskHoldsNext == KioskHolds /\ [K!Next]_kioskVars => KioskHolds'
<1>1. UNCHANGED kioskVars => UNCHANGED Books!vars
  BY DEF kioskVars, Books!vars
<1>2. [K!Next]_kioskVars => [Books!Next]_(Books!vars)
  BY <1>1, SameOperations
<1>3. Books!AllBooks /\ [Books!Next]_(Books!vars) => Books!AllBooks'
  BY BooksAssumption, Books!AllBooksNext
<1>4. (Books!AllBooks)' <=> KioskHolds'
  BY SameBooks, PTL
<1> QED
  BY <1>2, <1>3, <1>4, SameBooks

(* A step of this module is a step of the kiosk or leaves it alone.        *)
LEMMA StepsAreKioskSteps == Base /\ [Next]_vars => [K!Next]_kioskVars
<1> SUFFICES ASSUME Base, [Next]_vars PROVE [K!Next]_kioskVars
  OBVIOUS
<1>1. ASSUME NEW p, NEW m \in {Me, Elsewhere}, NEW c \in BOOLEAN,
             K!SettleFor(p, m, c)
      PROVE  K!Next
  <2>1. p \in K!Proof
    BY <1>1 DEF K!SettleFor, K!CheckProof, Base, KioskLog
  <2>2. m \in K!Payee
    BY TerminalAssumption DEF K!Payee
  <2> QED BY <1>1, <2>1, <2>2 DEF K!Next
<1>2. ASSUME KioskAnswers PROVE [K!Next]_kioskVars
  <2>1. ASSUME NEW r \in net, KioskSettles(r) PROVE K!Next
    <3>1. r.claim \in BOOLEAN
      BY TerminalAssumption DEF Base, Requests
    <3> QED BY <1>1, <2>1, <3>1 DEF KioskSettles
  <2>2. ASSUME NEW r \in net, KioskRefuses(r) PROVE UNCHANGED kioskVars
    BY <2>2 DEF KioskRefuses
  <2> QED BY <1>2, <2>1, <2>2 DEF KioskAnswers
<1>3. ASSUME ByOthers PROVE K!Next
  <2>1. ASSUME NEW p \in signed, SettledElsewhere(p) PROVE K!Next
    BY <1>1, <2>1 DEF SettledElsewhere
  <2>2. ASSUME NEW p \in signed, NEW q \in K!Proof, ChangedElsewhere(p, q)
        PROVE  K!Next
    <3>1. K!Swap({p}, {q}) /\ {p} \in SUBSET signed /\ {q} \in SUBSET K!Proof
      BY <2>2 DEF ChangedElsewhere
    <3> QED BY <3>1 DEF K!Next
  <2> QED BY <1>3, <2>1, <2>2 DEF ByOthers
<1>4. ASSUME Receiving PROVE UNCHANGED kioskVars
  BY <1>4 DEF Receiving, Receive
<1> QED
  BY <1>2, <1>3, <1>4, StepKinds
  DEF Accepting, Booking, Interrupting, Asking, Nothing

(* The kiosk starts with balanced books: what payers have loaded was       *)
(* deposited, allocated and issued.                                        *)
LEMMA QuotaTotal ==
  ASSUME NEW a \in Nat, NEW d \in Device
  PROVE  Total([e \in Device |-> IF e = d THEN a ELSE 0]) = a
<1> DEFINE z == [e \in Device |-> 0]
           f == [e \in Device |-> IF e = d THEN a ELSE 0]
<1>1. IsFiniteSet(Device)
  BY TerminalKiosk DEF K!KioskAssumption, K!IsFiniteSet, IsFiniteSet
<1>2. Units(z) = {}
  BY DEF Units
<1>3. Total(z) = 0
  BY <1>2, FS_EmptySet DEF Total
<1>4. z \in [Device -> Nat]
  OBVIOUS
<1>5. f = [z EXCEPT ![d] = z[d] + a]
  OBVIOUS
<1> HIDE DEF z, f
<1>6. Total(f) = Total(z) + a
  BY <1>1, <1>4, <1>5, TotalUpdate
<1> QED BY <1>3, <1>6 DEF f

LEMMA KioskBegins == Init => KioskHolds
<1> SUFFICES ASSUME Init PROVE KioskHolds
  OBVIOUS
<1> DEFINE tokens == env.loaded
           v == Value(tokens)
           ref == CHOOSE r \in Ref : TRUE
           one == CHOOSE d \in Device : TRUE
           dep == [ref |-> ref, amount |-> v]
<1>1. tokens \subseteq K!Proof /\ v \in Amount
  BY TerminalAssumption DEF Init, K!Proof
<1>2. IsLedger(tokens) /\ v \in Nat /\ Cardinality(tokens) \in Nat
  <2>1. IsLedger(tokens) /\ v \in Nat
    BY <1>1, ProofLedger
  <2> QED BY <2>1, FS_CardinalityType DEF IsLedger
<1>3. /\ reserve = v /\ deposits = {dep} /\ allocRefs = Ref
      /\ allocated = [d \in Device |-> IF d = one THEN v ELSE 0]
      /\ loaded = [d \in Device |-> IF d = one THEN v ELSE 0]
      /\ lastSeq = [d \in Device |-> IF d = one THEN Cardinality(tokens) ELSE 0]
      /\ issued = v /\ signed = tokens /\ spent = {} /\ settlements = {}
      /\ payouts = {} /\ swapCache = <<>> /\ allowAnon = FALSE
  BY DEF Init, InitKiosk
<1>4. ref \in Ref /\ one \in Device
  BY TerminalAssumption
<1> HIDE DEF tokens, v, ref, one
<1>5. dep.amount = v /\ dep \in [ref : Ref, amount : Amount]
  BY <1>1, <1>4
<1> HIDE DEF dep
<1>6. Value(deposits) = v /\ IsFiniteSet(deposits)
  BY <1>2, <1>3, <1>5, ValueSingleton, FS_Singleton
<1>7. /\ Value(settlements) = 0 /\ Value(payouts) = 0
      /\ \A M : K!For(settlements, M) = {} /\ K!For(payouts, M) = {}
  BY <1>3, ValueEmpty DEF K!For
<1>8. Total(allocated) = v /\ Total(loaded) = v
  BY <1>2, <1>3, <1>4, QuotaTotal
<1>9. K!TypeOK
  <2>1. /\ reserve \in Nat /\ issued \in Nat /\ signed \subseteq K!Proof
        /\ spent \subseteq Secret
        /\ IsFiniteSet(deposits) /\ deposits \subseteq [ref : Ref, amount : Amount]
    BY <1>1, <1>2, <1>3, <1>5, <1>6
  <2>2. allocated \in [Device -> Nat] /\ loaded \in [Device -> Nat]
        /\ lastSeq \in [Device -> Nat] /\ allocRefs \subseteq Ref
    BY <1>2, <1>3
  <2>3. /\ IsFiniteSet(settlements) /\ settlements = {} /\ IsFiniteSet(payouts)
        /\ payouts = {} /\ allowAnon \in BOOLEAN
        /\ swapCache \in Seq([ins : SUBSET Secret, outs : SUBSET K!Proof])
    <3>1. \A S : <<>> \in Seq(S)
      OBVIOUS
    <3>2. IsFiniteSet(settlements) /\ IsFiniteSet(payouts)
      BY <1>3, FS_EmptySet
    <3>3. allowAnon \in BOOLEAN /\ swapCache = <<>>
      BY <1>3
    <3> QED BY <1>3, <3>1, <3>2, <3>3
  <2> QED BY <2>1, <2>2, <2>3, Sums DEF K!TypeOK
<1>10. K!RedeemedOnce /\ K!LockedOnlySettled
  BY <1>3 DEF K!RedeemedOnce, K!LockedOnlySettled, K!Secrets
<1>11. K!NeverOverpaid
  BY <1>7, Sums, ValueEmpty DEF K!NeverOverpaid
<1>12. K!LiveCovered
  <2>1. K!Live = tokens
    BY <1>3 DEF K!Live
  <2> QED BY <1>2, <1>3, <2>1, Sums DEF K!LiveCovered, v
<1>13. K!Backed /\ K!LedgerConsistent
  <2>1. K!OwedTotal = 0
    BY <1>7, Sums DEF K!OwedTotal
  <2>2. K!Value(deposits) = v /\ K!Value(payouts) = 0
    BY <1>6, <1>7, Sums
  <2>3. K!Backed
    BY <1>2, <1>3, <2>1 DEF K!Backed
  <2> QED BY <1>2, <1>3, <2>2, <2>3 DEF K!LedgerConsistent
<1>14. K!QuotaRespected
  BY <1>2, <1>3 DEF K!QuotaRespected
<1>15. K!LoadedIsIssuedOrSettled /\ K!AllocatedWasDeposited
  BY <1>2, <1>3, <1>6, <1>7, <1>8, Sums
  DEF K!LoadedIsIssuedOrSettled, K!AllocatedWasDeposited
<1> QED
  BY <1>9, <1>10, <1>11, <1>12, <1>13, <1>14, <1>15 DEF KioskHolds

(* To the kiosk the system of this module is one more run of Kiosk: each   *)
(* of its steps is one operation of the kiosk or none.                     *)
THEOREM KioskTakesItsSteps == Spec => [][K!Next]_kioskVars
BY BaseInit, BaseNext, StepsAreKioskSteps, PTL DEF Spec

(* So the kiosk's promises hold whatever merchants and payers do: it is    *)
(* backed, its ledger adds up, no token is redeemed twice, no payee is     *)
(* overpaid, quotas and locks are respected.                               *)
THEOREM KioskKeepsItsPromises == Spec => []KioskHolds
BY BaseInit, BaseNext, StepsAreKioskSteps, KioskBegins, KioskHoldsNext, PTL
DEF Spec

-----------------------------------------------------------------------------
(* No operator pays anyone out in this module.                             *)
NothingPaid == payouts = {}

LEMMA NothingPaidNext == Base /\ NothingPaid /\ [Next]_vars => NothingPaid'
<1> SUFFICES ASSUME Base, [Next]_vars PROVE payouts' = payouts
  BY DEF NothingPaid
<1>1. ASSUME NEW p, NEW m, NEW c, K!SettleFor(p, m, c) PROVE payouts' = payouts
  BY <1>1 DEF K!SettleFor
<1>2. ASSUME KioskAnswers PROVE payouts' = payouts
  BY <1>1, <1>2 DEF KioskAnswers, KioskSettles, KioskRefuses, kioskVars
<1>3. ASSUME ByOthers PROVE payouts' = payouts
  BY <1>1, <1>3 DEF ByOthers, SettledElsewhere, ChangedElsewhere, K!Swap
<1>4. ASSUME Receiving PROVE payouts' = payouts
  BY <1>4 DEF Receiving, Receive, kioskVars
<1> QED
  BY <1>2, <1>3, <1>4, StepKinds
  DEF Accepting, Booking, Interrupting, Asking, Nothing, kioskVars

(* The receipts together never show more as settled than the log has for   *)
(* this merchant: each is covered by entries of its own, as no secret is   *)
(* on two receipts.                                                        *)
LEMMA SettledIsCovered ==
  ASSUME Base, AcceptedOnce, SettledIsOwed
  PROVE  Settled <= Value(K!For(settlements, {Me})) /\ Settled \in Nat
<1> DEFINE f == [i \in DOMAIN flash.receipts |-> flash.receipts[i].settled]
           log == K!For(settlements, {Me})
           P == [i \in DOMAIN flash.receipts |->
                   {e \in log : e.secret \in flash.receipts[i].secrets}]
<1>1. flash.receipts \in Seq(Receipt) /\ flash.receipts = till.receipts
  BY DEF Base, Vault, VaultState
<1>2. IsFiniteSet(DOMAIN f)
  <2>1. DOMAIN f = 1 .. Len(flash.receipts) /\ Len(flash.receipts) \in Nat
    BY <1>1
  <2> QED BY <2>1, FS_Interval
<1>3. ASSUME NEW i \in DOMAIN f PROVE f[i] \in Nat
  <2>1. flash.receipts[i] \in Receipt
    BY <1>1
  <2> QED BY <2>1 DEF Receipt
<1>4. IsLedger(log)
  BY LogLedger, ValueMonotone DEF Base, K!For
<1>5. \A i \in DOMAIN f : P[i] \subseteq log /\ f[i] <= Value(P[i])
  BY DEF SettledIsOwed, OwedFor, Receipts
<1>6. \A i, j \in DOMAIN f : i # j => P[i] \cap P[j] = {}
  BY <1>1 DEF AcceptedOnce
<1> HIDE DEF f, log, P
<1>7. Total(f) <= Value(log)
  BY <1>2, <1>3, <1>4, <1>5, <1>6, TotalOfParts
<1>8. Total(f) \in Nat
  BY <1>2, <1>3, UnitsFinite
<1> QED
  BY <1>7, <1>8 DEF Settled, f, log

(* The money is there: what the receipts show as settled, the good proofs  *)
(* held, and what the kiosk owes to the other merchants are covered by the *)
(* reserve (settle_all, SettleFor).                                        *)
THEOREM TakingsAreBacked == Spec => []TakingsAreCovered
<1>1. Base /\ AcceptedOnce /\ SettledIsOwed /\ KioskHolds /\ NothingPaid
        => TakingsAreCovered
  <2> SUFFICES ASSUME Base, AcceptedOnce, SettledIsOwed, KioskHolds, NothingPaid
               PROVE  Settled + Value(flash.proofs \cap K!Live) + K!Owed(Elsewhere)
                        <= reserve
    BY DEF TakingsAreCovered
  <2> DEFINE mine == K!For(settlements, {Me})
             theirs == K!For(settlements, {Elsewhere})
             held == flash.proofs \cap K!Live
  <2>1. Settled <= Value(mine) /\ Settled \in Nat
    BY SettledIsCovered
  <2>2. IsLedger(settlements)
    BY LogLedger DEF Base
  <2>3. /\ Value(mine) \in Nat /\ Value(theirs) \in Nat
        /\ Value(settlements) \in Nat
        /\ Value(mine) + Value(theirs) <= Value(settlements)
    <3>1. mine \subseteq settlements /\ theirs \subseteq settlements
          /\ mine \cap theirs = {}
      BY TerminalAssumption DEF K!For
    <3> HIDE DEF mine, theirs
    <3>2. IsLedger(mine) /\ IsLedger(theirs)
      BY <2>2, <3>1, ValueMonotone
    <3>3. Value(mine \cup theirs) = Value(mine) + Value(theirs)
      BY <3>1, <3>2, ValueDisjointUnion
    <3>4. Value(mine \cup theirs) <= Value(settlements)
      BY <2>2, <3>1, ValueMonotone
    <3> QED BY <2>2, <3>2, <3>3, <3>4, ValueType
  <2>4. Value(held) <= Value(K!Live) /\ Value(held) \in Nat /\ Value(K!Live) \in Nat
    <3>1. K!Live \subseteq K!Proof /\ held \subseteq K!Live
      BY DEF Base, KioskLog, K!Live
    <3> QED BY <3>1, ProofLedger, ValueMonotone
  <2>5. K!Owed(Elsewhere) = Value(theirs) /\ K!OwedTotal = Value(settlements)
    <3>1. K!For(payouts, {Elsewhere}) = {} /\ payouts = {}
      BY DEF K!For, NothingPaid
    <3>2. K!Value({}) = 0
      BY Sums, ValueEmpty
    <3>3. K!Value(theirs) = Value(theirs) /\ K!Value(settlements) = Value(settlements)
      BY Sums
    <3>4. K!Owed(Elsewhere) = Value(theirs) - 0
      BY <3>1, <3>2, <3>3 DEF K!Owed
    <3>5. K!OwedTotal = Value(settlements) - 0
      BY <3>1, <3>2, <3>3 DEF K!OwedTotal
    <3> QED BY <2>3, <3>4, <3>5
  <2>6. Value(K!Live) <= issued /\ issued + K!OwedTotal <= reserve
    BY Sums DEF KioskHolds, K!LiveCovered, K!Backed
  <2>7. issued \in Nat /\ reserve \in Nat
    BY DEF KioskHolds, K!TypeOK
  <2> HIDE DEF mine, theirs, held
  <2>8. Settled + Value(held) + K!Owed(Elsewhere) <= reserve
    BY <2>1, <2>3, <2>4, <2>5, <2>6, <2>7
  <2> QED BY <2>8 DEF held
<1>2. Init => NothingPaid
  BY DEF Init, InitKiosk, NothingPaid
<1> QED
  BY <1>1, <1>2, BaseInit, BaseNext, NothingPaidNext, NoReplayAccepted,
     SettledIsInTheLog, KioskKeepsItsPromises, PTL DEF Spec
=============================================================================
