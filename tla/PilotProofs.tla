----------------------------- MODULE PilotProofs -----------------------------
(***************************************************************************)
(* The pilot, for any number of payments, transfers, threads and coins.    *)
(*                                                                         *)
(* Every step of the pilot is an operation of the kiosk or leaves it       *)
(* alone, so what KioskProofs shows of the books holds here too.  On top   *)
(* of it, Account says that every entry in the ledgers of the kiosk stands *)
(* for one on the account's statement, Requests that nothing else is ever  *)
(* asked for, and Paying that one transfer at most is not recorded, with   *)
(* its claim still open.  A payment may have several entries, one for each *)
(* of its names; where it has no more than one, the deposits are worth     *)
(* what the payments are that they stand for (DepositsStandFor).           *)
(***************************************************************************)
EXTENDS Pilot, KioskProofs

Transfer == [ref : Ref, merchant : Merchant, amount : Amount]

OnePerRef(ledger) == \A a, b \in ledger : a.ref = b.ref => a = b

(* No two payments share a reference. *)
OwnNames(pays) ==
  \A p, q \in pays : Names(p) \cap Names(q) # {} => p = q

(* A reference and an amount that a payment has. *)
StandsFor(ref, amount, pays) ==
  \E pay \in pays : ref \in Names(pay) /\ amount = pay.amount

Account ==
  /\ received \subseteq Payment /\ IsFiniteSet(received) /\ OwnNames(received)
  /\ transferred \subseteq Transfer /\ IsFiniteSet(transferred) /\ OnePerRef(transferred)
  /\ deposits \subseteq [ref : Ref, amount : Amount]
  /\ \A d \in deposits : StandsFor(d.ref, d.amount, received)
  /\ payouts \subseteq transferred

Requests ==
  /\ \A r \in late : \/ r.op = "credit" /\ StandsFor(r.ref, r.amount, received)
                     \/ r.op = "payout" /\ r.out \in transferred
  /\ thread \in [Thread -> {Idle} \cup [pc : {"credit", "record"}, pay : received]]

Answers ==
  /\ seen \subseteq Refs(deposits)
  /\ \A t \in Thread : thread[t].pc = "record" => thread[t].pay.order \in Refs(deposits)

Paying ==
  /\ \/ operator = Idle
     \/ operator.pc = "pay" /\ operator.merchant \in Merchant /\ operator.amount \in Amount
     \/ operator.pc = "record" /\ operator.out \in transferred
  /\ operator.pc # "record" => transferred = payouts
  /\ operator.pc = "pay" => operator.amount <= Owed(operator.merchant)
  /\ operator.pc = "record" =>
       /\ transferred \ payouts \subseteq {operator.out}
       /\ operator.out \notin payouts => operator.out.amount <= Owed(operator.out.merchant)

PilotInv == Account /\ Requests /\ Answers /\ Paying

-----------------------------------------------------------------------------
(* Each step of the pilot is one of the kiosk's, or none. *)
LEMMA CreditIsKioskStep ==
  ASSUME NEW ref \in Ref, NEW amount \in Amount, ExecuteCredit(ref, amount)
  PROVE  [Next]_vars
<1>1. CASE Deposit(ref, amount)
  BY <1>1 DEF Next
<1>2. CASE UNCHANGED kioskVars
  BY <1>2 DEF kioskVars
<1> QED
  BY <1>1, <1>2 DEF ExecuteCredit

LEMMA PayoutIsKioskStep ==
  ASSUME NEW out \in Transfer, ExecutePayout(out)
  PROVE  [Next]_vars
<1>1. out.ref \in Ref /\ out.amount \in Amount /\ out.merchant \in Payee
  BY DEF Transfer, Payee
<1>2. CASE RecordPayout(out.merchant, out.amount, out.ref)
  BY <1>1, <1>2 DEF Next
<1>3. CASE UNCHANGED kioskVars
  BY <1>3 DEF kioskVars
<1> QED
  BY <1>2, <1>3 DEF ExecutePayout

(* A reference that a payment has, and its amount. *)
LEMMA NamesAreRefs ==
  ASSUME Account, NEW ref, NEW amount, StandsFor(ref, amount, received)
  PROVE  ref \in Ref /\ amount \in Amount
BY DEF Account, StandsFor, Payment, Names

(* Executing a credit puts the payment into the books under that name if   *)
(* it was not there. *)
LEMMA CreditEffect ==
  ASSUME Account, NEW ref, NEW amount, StandsFor(ref, amount, received),
         ExecuteCredit(ref, amount)
  PROVE  /\ deposits' = deposits \cup {[ref |-> ref, amount |-> amount]}
         /\ payouts' = payouts /\ settlements' = settlements
<1>1. CASE Deposit(ref, amount)
  BY <1>1 DEF Deposit
<1>2. CASE ref \in Refs(deposits) /\ UNCHANGED kioskVars
  <2>1. PICK d \in deposits : d.ref = ref
    BY <1>2 DEF Refs
  <2>2. d.amount = amount
    <3>1. PICK p \in received : ref \in Names(p) /\ amount = p.amount
      BY DEF StandsFor
    <3>2. PICK q \in received : ref \in Names(q) /\ d.amount = q.amount
      BY <2>1 DEF Account, StandsFor
    <3>3. p = q
      BY <3>1, <3>2 DEF Account, OwnNames
    <3> QED BY <3>1, <3>2, <3>3
  <2>3. d = [ref |-> ref, amount |-> amount]
    BY <2>1, <2>2 DEF Account
  <2> QED BY <1>2, <2>1, <2>3 DEF kioskVars, vars
<1> QED
  BY <1>1, <1>2 DEF ExecuteCredit

LEMMA PayoutEffect ==
  ASSUME Account, NEW out \in transferred, ExecutePayout(out)
  PROVE  payouts' = payouts \cup {out} /\ deposits' = deposits /\ settlements' = settlements
<1>1. CASE RecordPayout(out.merchant, out.amount, out.ref)
  <2>1. out = [ref |-> out.ref, merchant |-> out.merchant, amount |-> out.amount]
    BY DEF Account, Transfer
  <2> QED BY <1>1, <2>1 DEF RecordPayout
<1>2. CASE out.ref \in Refs(payouts) /\ UNCHANGED kioskVars
  <2>1. PICK d \in payouts : d.ref = out.ref
    BY <1>2 DEF Refs
  <2>2. d = out
    BY <2>1 DEF Account, OnePerRef
  <2> QED BY <1>2, <2>1, <2>2 DEF kioskVars, vars
<1> QED
  BY <1>1, <1>2 DEF ExecutePayout

LEMMA TradeEffect ==
  ASSUME Trade
  PROVE  /\ [Next]_vars
         /\ deposits' = deposits /\ payouts' = payouts
         /\ settlements \subseteq settlements'
         /\ UNCHANGED <<received, transferred, late, railVars, operator, audit>>
BY DEF Trade, Allocate, Next, AllocateDevice, SignForDevice, SettleFor, Swap

(* What a payee is owed only shrinks by a payout to it. *)
LEMMA OwedGrows ==
  ASSUME IsLedger(settlements), IsLedger(settlements'), IsLedger(payouts),
         settlements \subseteq settlements', payouts' = payouts, NEW m
  PROVE  Owed(m) \in Int /\ Owed(m)' \in Int /\ Owed(m) <= Owed(m)'
<1>1. /\ For(settlements, {m}) \subseteq settlements
      /\ For(settlements', {m}) \subseteq settlements'
      /\ For(settlements, {m}) \subseteq For(settlements', {m})
      /\ For(payouts, {m}) \subseteq payouts
  BY DEF For
<1>2. IsLedger(For(settlements, {m})) /\ IsLedger(For(settlements', {m})) /\ IsLedger(For(payouts, {m}))
  BY <1>1, ValueMonotone
<1>3. Value(For(settlements, {m})) <= Value(For(settlements', {m}))
  BY <1>1, <1>2, ValueMonotone
<1>4. Value(For(settlements, {m})) \in Nat /\ Value(For(settlements', {m})) \in Nat
      /\ Value(For(payouts, {m})) \in Nat
  BY <1>2, ValueType
<1> QED
  BY <1>3, <1>4 DEF Owed, For

-----------------------------------------------------------------------------
LEMMA PilotInvInit == PilotInit => PilotInv
<1> SUFFICES ASSUME PilotInit PROVE PilotInv
  OBVIOUS
<1>1. Account
  BY FS_EmptySet DEF PilotInit, Init, Account, OnePerRef, OwnNames
<1>2. Requests
  BY DEF PilotInit, Requests
<1>3. Answers
  BY DEF PilotInit, Answers, Idle
<1>4. Paying
  BY DEF PilotInit, Init, Paying, Idle
<1> QED
  BY <1>1, <1>2, <1>3, <1>4 DEF PilotInv

(* What a credit leaves of the invariant, whoever asked for it. *)
LEMMA CreditKeeps ==
  ASSUME PilotInv, NEW ref, NEW amount, StandsFor(ref, amount, received),
         ExecuteCredit(ref, amount),
         UNCHANGED <<received, transferred, operator>>
  PROVE  /\ Account' /\ Paying'
         /\ Refs(deposits) \subseteq Refs(deposits') /\ ref \in Refs(deposits')
<1> DEFINE e == [ref |-> ref, amount |-> amount]
<1>1. deposits' = deposits \cup {e} /\ payouts' = payouts /\ settlements' = settlements
  BY CreditEffect DEF PilotInv
<1>2. e \in [ref : Ref, amount : Amount] /\ e.ref = ref /\ e.amount = amount
  BY NamesAreRefs DEF PilotInv
<1> HIDE DEF e
<1>3. Account'
  <2>1. deposits' \subseteq [ref : Ref, amount : Amount]
    BY <1>1, <1>2 DEF PilotInv, Account
  <2>2. \A d \in deposits' : StandsFor(d.ref, d.amount, received)
    BY <1>1, <1>2 DEF PilotInv, Account
  <2>3. \A d \in deposits' : StandsFor(d.ref, d.amount, received')
    BY <2>2
  <2>4. OwnNames(received') /\ OnePerRef(transferred')
    BY DEF PilotInv, Account
  <2> QED BY <1>1, <2>1, <2>3, <2>4 DEF PilotInv, Account, OwnNames, OnePerRef, StandsFor
<1>4. \A m : Owed(m)' = Owed(m)
  BY <1>1 DEF Owed, For
<1>5. Paying'
  BY <1>1, <1>4 DEF PilotInv, Paying
<1> QED
  BY <1>1, <1>2, <1>3, <1>5 DEF Refs

(* After the record of a transfer, no transfer is left unrecorded. *)
LEMMA PayoutKeeps ==
  ASSUME PilotInv, NEW out \in transferred, ExecutePayout(out),
         UNCHANGED <<received, transferred>>
  PROVE  /\ Account' /\ deposits' = deposits /\ settlements' = settlements
         /\ payouts' = payouts \/ payouts' = transferred
         /\ operator.pc = "record" /\ operator.out = out => payouts' = transferred
<1>1. payouts' = payouts \cup {out} /\ deposits' = deposits /\ settlements' = settlements
  BY PayoutEffect DEF PilotInv
<1>2. Account'
  BY <1>1 DEF PilotInv, Account, OnePerRef, OwnNames, StandsFor
<1>3. payouts \subseteq transferred
  BY DEF PilotInv, Account
<1>4. CASE operator.pc = "record"
  BY <1>1, <1>2, <1>3, <1>4 DEF PilotInv, Paying
<1>5. CASE operator.pc # "record"
  BY <1>1, <1>2, <1>3, <1>5 DEF PilotInv, Paying
<1> QED
  BY <1>4, <1>5

LEMMA SamePayouts ==
  ASSUME PilotInv, UNCHANGED <<transferred, operator, payouts, settlements>>
  PROVE  Paying'
<1>1. \A m : Owed(m)' = Owed(m)
  BY DEF Owed, For
<1> QED
  BY <1>1 DEF PilotInv, Paying

LEMMA ReceiveKeeps ==
  ASSUME PilotInv, NEW pay \in Payment, Receive(pay)
  PROVE  PilotInv'
<1>1. /\ received' = received \cup {pay} /\ Names(pay) \cap AllNames(received) = {}
      /\ UNCHANGED <<transferred, late, thread, seen, operator, deposits, payouts, settlements>>
  BY DEF Receive, railVars, kioskVars, vars
<1>2. \A ref, amount : StandsFor(ref, amount, received) => StandsFor(ref, amount, received')
  BY <1>1 DEF StandsFor
<1>3. Account'
  <2>1. IsFiniteSet(received')
    BY <1>1, FS_AddElement DEF PilotInv, Account
  <2>2. \A p \in received : Names(p) \cap Names(pay) = {}
    BY <1>1 DEF AllNames
  <2>3. OwnNames(received')
    BY <1>1, <2>2 DEF PilotInv, Account, OwnNames
  <2>4. \A d \in deposits' : StandsFor(d.ref, d.amount, received')
    BY <1>1, <1>2 DEF PilotInv, Account
  <2> QED BY <1>1, <2>1, <2>3, <2>4 DEF PilotInv, Account, OnePerRef, OwnNames, StandsFor
<1>4. Requests'
  <2>1. \A r \in late' : \/ r.op = "credit" /\ StandsFor(r.ref, r.amount, received')
                         \/ r.op = "payout" /\ r.out \in transferred'
    BY <1>1, <1>2 DEF PilotInv, Requests
  <2>2. thread' \in [Thread -> {Idle} \cup [pc : {"credit", "record"}, pay : received']]
    BY <1>1 DEF PilotInv, Requests
  <2> QED BY <2>1, <2>2 DEF Requests, StandsFor
<1>5. Answers'
  BY <1>1 DEF PilotInv, Answers, Refs
<1>6. Paying'
  BY <1>1, SamePayouts
<1> QED
  BY <1>3, <1>4, <1>5, <1>6 DEF PilotInv

LEMMA TradeKeeps ==
  ASSUME PilotInv, Books, Books', Trade
  PROVE  PilotInv'
<1>1. /\ deposits' = deposits /\ payouts' = payouts /\ settlements \subseteq settlements'
      /\ UNCHANGED <<received, transferred, late, thread, seen, operator>>
  BY TradeEffect DEF railVars
<1>2. Account' /\ Requests' /\ Answers'
  BY <1>1 DEF PilotInv, Account, Requests, Answers, OnePerRef, OwnNames, StandsFor, Refs
<1>3. IsLedger(settlements) /\ IsLedger(payouts)
  BY BookLedgers DEF Books
<1>4. IsLedger(settlements')
  BY KioskAssumption DEF Books, TypeOK, IsLedger
<1>5. ASSUME NEW m PROVE Owed(m) \in Int /\ Owed(m)' \in Int /\ Owed(m) <= Owed(m)'
  BY <1>1, <1>3, <1>4, OwedGrows
<1>6. Paying'
  <2>1. ASSUME NEW m, NEW a \in Nat, a <= Owed(m) PROVE a <= Owed(m)'
    BY <1>5, <2>1
  <2>2. operator.pc = "pay" => operator.amount \in Nat
    <3>1. operator.pc = "pay" => operator.amount \in Amount
      BY DEF PilotInv, Paying, Idle
    <3> QED BY <3>1, KioskAssumption
  <2>3. operator.pc = "record" => operator.out.amount \in Nat
    <3>1. operator.pc = "record" => operator.out \in Transfer
      BY DEF PilotInv, Paying, Idle, Account
    <3> QED BY <3>1, KioskAssumption DEF Transfer
  <2>4. operator' = operator /\ payouts' = payouts /\ transferred' = transferred
    BY <1>1
  <2> QED BY <2>1, <2>2, <2>3, <2>4 DEF PilotInv, Paying
<1> QED
  BY <1>2, <1>6 DEF PilotInv

LEMMA LateKeeps ==
  ASSUME PilotInv, NEW r \in late, Late(r)
  PROVE  PilotInv' /\ [Next]_vars
<1>1. /\ late' \subseteq late
      /\ UNCHANGED <<received, transferred, thread, seen, operator>>
  BY DEF Late, railVars
<1>2. Requests'
  BY <1>1 DEF PilotInv, Requests, StandsFor
<1>3. CASE r.op = "credit" /\ ExecuteCredit(r.ref, r.amount)
  <2>1. /\ StandsFor(r.ref, r.amount, received)
        /\ r.ref \in Ref /\ r.amount \in Amount
    BY <1>3, NamesAreRefs DEF PilotInv, Requests
  <2>2. Account' /\ Paying' /\ Refs(deposits) \subseteq Refs(deposits')
    BY <1>1, <1>3, <2>1, CreditKeeps
  <2>3. Answers'
    BY <1>1, <2>2 DEF PilotInv, Answers, Refs
  <2>4. [Next]_vars
    BY <1>3, <2>1, CreditIsKioskStep
  <2> QED BY <1>2, <2>2, <2>3, <2>4 DEF PilotInv
<1>4. CASE r.op = "payout" /\ ExecutePayout(r.out)
  <2>1. r.out \in transferred /\ r.out \in Transfer
    BY <1>4 DEF PilotInv, Requests, Account
  <2>2. /\ Account' /\ deposits' = deposits /\ settlements' = settlements
        /\ payouts' = payouts \/ payouts' = transferred
    BY <1>1, <1>4, <2>1, PayoutKeeps
  <2>3. Answers'
    BY <1>1, <2>2 DEF PilotInv, Answers, Refs
  <2>4. [Next]_vars
    BY <1>4, <2>1, PayoutIsKioskStep
  <2>7. Paying'
    <3>1. CASE payouts' = payouts
      BY <1>1, <2>2, <3>1, SamePayouts
    <3>2. CASE payouts' # payouts
      <4>1. payouts' = transferred /\ payouts # transferred
        BY <2>2, <3>2
      <4>2. operator.pc = "record"
        BY <4>1 DEF PilotInv, Paying
      <4>3. operator.out \in transferred
        BY <4>2 DEF PilotInv, Paying, Idle
      <4>4. operator' = operator /\ transferred' = transferred
        BY <1>1
      <4> QED BY <4>1, <4>2, <4>3, <4>4 DEF Paying
    <3> QED BY <3>1, <3>2
  <2> QED BY <1>2, <2>2, <2>3, <2>4, <2>7 DEF PilotInv
<1> QED
  BY <1>3, <1>4 DEF Late

-----------------------------------------------------------------------------
(* The rail. *)

LEMMA DeliverKeeps ==
  ASSUME PilotInv, NEW t \in Thread, NEW pay \in received, Deliver(t, pay)
  PROVE  PilotInv'
<1>1. /\ UNCHANGED <<received, transferred, late, seen, operator, deposits, payouts, settlements>>
      /\ thread' = [thread EXCEPT ![t] = [pc |-> "credit", pay |-> pay]]
  BY DEF Deliver, kioskVars, vars
<1>2. Requests' /\ Answers'
  BY <1>1 DEF PilotInv, Requests, Answers, Refs
<1>3. Account' /\ Paying'
  BY <1>1, SamePayouts DEF PilotInv, Account, OnePerRef, OwnNames, StandsFor
<1> QED
  BY <1>2, <1>3 DEF PilotInv

LEMMA CreditedKeeps ==
  ASSUME PilotInv, NEW t \in Thread, Credited(t)
  PROVE  PilotInv' /\ [Next]_vars
<1> DEFINE pay == thread[t].pay
<1>1. /\ thread[t].pc = "credit" /\ ExecuteCredit(pay.order, pay.amount)
      /\ thread' = [thread EXCEPT ![t].pc = "record"]
      /\ UNCHANGED <<received, transferred, late, seen, operator>>
  BY DEF Credited
<1>2. /\ pay \in received /\ StandsFor(pay.order, pay.amount, received)
      /\ pay.order \in Ref /\ pay.amount \in Amount
  <2>1. pay \in received
    BY <1>1 DEF PilotInv, Requests, Idle
  <2>2. StandsFor(pay.order, pay.amount, received)
    BY <2>1 DEF StandsFor, Names
  <2> QED BY <2>1, <2>2, NamesAreRefs DEF PilotInv
<1>3. /\ Account' /\ Paying'
      /\ Refs(deposits) \subseteq Refs(deposits') /\ pay.order \in Refs(deposits')
  BY <1>1, <1>2, CreditKeeps
<1>4. [Next]_vars
  BY <1>1, <1>2, CreditIsKioskStep
<1>5. /\ thread[t] \in [pc : {"credit", "record"}, pay : received]
      /\ thread \in [Thread -> {Idle} \cup [pc : {"credit", "record"}, pay : received]]
  BY <1>1 DEF PilotInv, Requests, Idle
<1>6. /\ thread'[t] = [pc |-> "record", pay |-> pay]
      /\ \A u \in Thread : u # t => thread'[u] = thread[u]
      /\ thread' \in [Thread -> {Idle} \cup [pc : {"credit", "record"}, pay : received]]
  BY <1>1, <1>5
<1>8. Requests'
  BY <1>1, <1>6 DEF PilotInv, Requests, Idle
<1>9. Answers'
  <2>1. ASSUME NEW u \in Thread, thread'[u].pc = "record"
        PROVE  thread'[u].pay.order \in Refs(deposits')
    <3>1. CASE u = t
      BY <1>3, <1>6, <3>1
    <3>2. CASE u # t
      BY <1>3, <1>6, <2>1, <3>2 DEF PilotInv, Answers
    <3> QED BY <3>1, <3>2
  <2>2. seen' \subseteq Refs(deposits')
    BY <1>1, <1>3 DEF PilotInv, Answers
  <2>3. Refs(deposits)' = Refs(deposits')
    BY DEF Refs
  <2> QED BY <2>1, <2>2, <2>3 DEF Answers
<1> QED
  BY <1>3, <1>4, <1>8, <1>9 DEF PilotInv

(* What the rail asks for is a payment, by the name the gateway gave it. *)
LEMMA RailRequests ==
  ASSUME PilotInv, NEW t \in Thread, thread[t].pc = "credit"
  PROVE  /\ Request(t).op = "credit"
         /\ StandsFor(Request(t).ref, Request(t).amount, received)
<1>1. thread[t].pay \in received
  BY DEF PilotInv, Requests, Idle
<1>2. /\ Request(t).op = "credit" /\ Request(t).ref = thread[t].pay.order
      /\ Request(t).amount = thread[t].pay.amount
  BY DEF Request, Credit
<1> QED
  BY <1>1, <1>2 DEF StandsFor, Names

LEMMA CreditFailedKeeps ==
  ASSUME PilotInv, NEW t \in Thread, CreditFailed(t)
  PROVE  PilotInv'
<1>1. /\ UNCHANGED <<received, transferred, seen, operator, deposits, payouts, settlements>>
      /\ thread' = [thread EXCEPT ![t] = Idle] /\ thread[t].pc = "credit"
      /\ late' \subseteq late \cup {Request(t)}
  BY DEF CreditFailed, kioskVars, vars
<1>2. Request(t).op = "credit" /\ StandsFor(Request(t).ref, Request(t).amount, received)
  BY <1>1, RailRequests
<1>3. Requests'
  <2>1. thread' \in [Thread -> {Idle} \cup [pc : {"credit", "record"}, pay : received]]
    BY <1>1 DEF PilotInv, Requests
  <2> QED BY <1>1, <1>2, <2>1 DEF PilotInv, Requests, StandsFor
<1>4. Answers'
  BY <1>1 DEF PilotInv, Requests, Answers, Refs, Idle
<1>5. Account' /\ Paying'
  BY <1>1, SamePayouts DEF PilotInv, Account, OnePerRef, OwnNames, StandsFor
<1> QED
  BY <1>3, <1>4, <1>5 DEF PilotInv

LEMMA EmittedKeeps ==
  ASSUME PilotInv, NEW t \in Thread, Emitted(t)
  PROVE  PilotInv'
<1>1. /\ UNCHANGED <<received, transferred, late, operator, deposits, payouts, settlements>>
      /\ thread' = [thread EXCEPT ![t] = Idle] /\ thread[t].pc = "record"
      /\ seen' = seen \cup {thread[t].pay.order}
  BY DEF Emitted, kioskVars, vars
<1>2. Requests'
  BY <1>1 DEF PilotInv, Requests, StandsFor
<1>3. thread[t].pay.order \in Refs(deposits)
  BY <1>1 DEF PilotInv, Answers
<1>4. Answers'
  BY <1>1, <1>3 DEF PilotInv, Requests, Answers, Refs, Idle
<1>5. Account' /\ Paying'
  BY <1>1, SamePayouts DEF PilotInv, Account, OnePerRef, OwnNames, StandsFor
<1> QED
  BY <1>2, <1>4, <1>5 DEF PilotInv

LEMMA RailRestartKeeps ==
  ASSUME PilotInv, RailRestart
  PROVE  PilotInv'
<1> DEFINE sent == {Request(t) : t \in {u \in Thread : thread[u].pc = "credit"}}
<1>1. /\ UNCHANGED <<received, transferred, operator, deposits, payouts, settlements>>
      /\ seen' = {} /\ thread' = [t \in Thread |-> Idle]
      /\ late' \subseteq late \cup sent
  BY DEF RailRestart, kioskVars, vars
<1>2. \A r \in sent : r.op = "credit" /\ StandsFor(r.ref, r.amount, received)
  BY RailRequests
<1> HIDE DEF sent
<1>3. Requests'
  BY <1>1, <1>2 DEF PilotInv, Requests, StandsFor
<1>4. Answers'
  BY <1>1 DEF Answers, Idle
<1>5. Account' /\ Paying'
  BY <1>1, SamePayouts DEF PilotInv, Account, OnePerRef, OwnNames, StandsFor
<1> QED
  BY <1>3, <1>4, <1>5 DEF PilotInv

-----------------------------------------------------------------------------
(* The operator. *)

LEMMA BankCommandKeeps ==
  ASSUME PilotInv, NEW pay \in received, NEW ref, BankCommand(pay, ref)
  PROVE  PilotInv' /\ [Next]_vars
<1> DEFINE amount == pay.amount
<1>1. /\ UNCHANGED <<received, transferred, thread, seen, operator>>
      /\ StandsFor(ref, amount, received)
  BY DEF BankCommand, railVars, StandsFor, Names
<1>a. ref \in Ref /\ amount \in Amount
  BY <1>1, NamesAreRefs DEF PilotInv
<1> HIDE DEF amount
<1>2. CASE ExecuteCredit(ref, amount) /\ UNCHANGED late
  <2>1. /\ Account' /\ Paying' /\ Refs(deposits) \subseteq Refs(deposits')
    BY <1>1, <1>2, CreditKeeps
  <2>2. Requests' /\ Answers'
    BY <1>1, <1>2, <2>1 DEF PilotInv, Requests, Answers, Refs, StandsFor
  <2>3. [Next]_vars
    BY <1>2, <1>a, CreditIsKioskStep
  <2> QED BY <2>1, <2>2, <2>3 DEF PilotInv
<1>3. CASE late' = late \cup {Credit(ref, amount)} /\ UNCHANGED kioskVars
  <2>1. UNCHANGED <<deposits, payouts, settlements>> /\ [Next]_vars
    BY <1>3 DEF kioskVars, vars
  <2>2. Requests' /\ Answers'
    BY <1>1, <1>3, <2>1 DEF PilotInv, Requests, Answers, Refs, Credit, StandsFor
  <2>3. Account' /\ Paying'
    BY <1>1, <2>1, SamePayouts DEF PilotInv, Account, OnePerRef, OwnNames, StandsFor
  <2> QED BY <2>1, <2>2, <2>3 DEF PilotInv
<1> QED
  BY <1>2, <1>3 DEF BankCommand, amount

LEMMA ReportKeeps ==
  ASSUME PilotInv, NEW m \in Merchant, NEW a \in Amount, Report(m, a)
  PROVE  PilotInv'
<1>1. /\ UNCHANGED <<received, transferred, late, thread, seen, deposits, payouts, settlements>>
      /\ operator = Idle /\ a <= Owed(m)
      /\ operator' = [pc |-> "pay", merchant |-> m, amount |-> a]
  BY DEF Report, kioskVars, railVars, vars
<1>2. Account' /\ Requests' /\ Answers'
  BY <1>1 DEF PilotInv, Account, Requests, Answers, OnePerRef, OwnNames, StandsFor, Refs
<1>3. transferred = payouts
  BY <1>1 DEF PilotInv, Paying, Idle
<1>4. Owed(m)' = Owed(m)
  BY <1>1 DEF Owed, For
<1>5. Paying'
  BY <1>1, <1>3, <1>4 DEF Paying
<1> QED
  BY <1>2, <1>5 DEF PilotInv

LEMMA PayKeeps ==
  ASSUME PilotInv, NEW ref \in Ref, Pay(ref)
  PROVE  PilotInv'
<1> DEFINE out == [ref |-> ref, merchant |-> operator.merchant, amount |-> operator.amount]
<1>1. /\ UNCHANGED <<received, late, thread, seen, deposits, payouts, settlements>>
      /\ operator.pc = "pay" /\ ref \notin Refs(transferred)
      /\ transferred' = transferred \cup {out}
      /\ operator' = [pc |-> "record", out |-> out]
  BY DEF Pay, kioskVars, railVars, vars
<1>2. /\ out \in Transfer /\ transferred = payouts
      /\ out.amount <= Owed(out.merchant)
  BY <1>1 DEF PilotInv, Paying, Idle, Transfer
<1>3. Account'
  <2>1. IsFiniteSet(transferred')
    BY <1>1, FS_AddElement DEF PilotInv, Account
  <2>2. \A x \in transferred : x.ref # out.ref
    BY <1>1 DEF Refs
  <2> HIDE DEF out
  <2> QED BY <1>1, <1>2, <2>1, <2>2 DEF PilotInv, Account, OnePerRef, OwnNames, StandsFor
<1>4. Requests' /\ Answers'
  BY <1>1 DEF PilotInv, Requests, Answers, Refs, StandsFor
<1>5. Paying'
  <2>1. /\ operator'.pc = "record" /\ operator'.out = out
        /\ transferred' \ payouts' \subseteq {out} /\ out \in transferred'
    BY <1>1, <1>2
  <2>2. Owed(operator.out.merchant)' = Owed(out.merchant)
    BY <1>1, <2>1 DEF Owed, For
  <2> HIDE DEF out
  <2> QED BY <1>2, <2>1, <2>2 DEF Paying
<1> QED
  BY <1>3, <1>4, <1>5 DEF PilotInv

LEMMA RecordedKeeps ==
  ASSUME PilotInv, Recorded
  PROVE  PilotInv' /\ [Next]_vars
<1>1. /\ UNCHANGED <<received, transferred, late, thread, seen>>
      /\ operator.pc = "record" /\ operator' = Idle
      /\ ExecutePayout(operator.out)
  BY DEF Recorded, railVars
<1>2. operator.out \in transferred /\ operator.out \in Transfer
  BY <1>1 DEF PilotInv, Paying, Idle, Account
<1>3. Account' /\ deposits' = deposits /\ payouts' = transferred
  BY <1>1, <1>2, PayoutKeeps
<1>4. Requests' /\ Answers'
  BY <1>1, <1>3 DEF PilotInv, Requests, Answers, Refs, StandsFor
<1>5. Paying'
  BY <1>1, <1>3 DEF Paying, Idle
<1>6. [Next]_vars
  BY <1>1, <1>2, PayoutIsKioskStep
<1> QED
  BY <1>3, <1>4, <1>5, <1>6 DEF PilotInv

LEMMA RecordFailedKeeps ==
  ASSUME PilotInv, RecordFailed
  PROVE  PilotInv'
<1>1. /\ UNCHANGED <<received, transferred, thread, seen, operator, deposits, payouts, settlements>>
      /\ operator.pc = "record"
      /\ late' = late \cup {Payout(operator.out)}
  BY DEF RecordFailed, kioskVars, railVars, vars
<1>2. operator.out \in transferred
  BY <1>1 DEF PilotInv, Paying, Idle
<1>3. Requests' /\ Answers'
  BY <1>1, <1>2 DEF PilotInv, Requests, Answers, Refs, StandsFor, Payout
<1>4. Account' /\ Paying'
  BY <1>1, SamePayouts DEF PilotInv, Account, OnePerRef, OwnNames, StandsFor
<1> QED
  BY <1>3, <1>4 DEF PilotInv

-----------------------------------------------------------------------------
(* The check reads and changes nothing. *)
LEMMA CheckKeeps ==
  ASSUME PilotInv,
         UNCHANGED <<kioskVars, received, transferred, late, railVars, operator>>
  PROVE  PilotInv' /\ [Next]_vars
<1>1. UNCHANGED <<received, transferred, late, thread, seen, operator, deposits, payouts, settlements>>
  BY DEF kioskVars, railVars, vars
<1>2. Account' /\ Requests' /\ Answers'
  BY <1>1 DEF PilotInv, Account, Requests, Answers, OnePerRef, OwnNames, StandsFor, Refs
<1>3. Paying'
  BY <1>1, SamePayouts
<1>4. [Next]_vars
  BY DEF kioskVars
<1> QED
  BY <1>2, <1>3, <1>4 DEF PilotInv

LEMMA PilotStep ==
  ASSUME PilotInv, Books, [PilotNext]_pilotVars
  PROVE  PilotInv' /\ Books' /\ [Next]_vars
<1>1. ASSUME [Next]_vars PROVE Books'
  BY <1>1, BooksNext
<1>2. ASSUME NEW pay \in Payment, Receive(pay) PROVE PilotInv' /\ [Next]_vars
  BY <1>2, ReceiveKeeps DEF Receive, kioskVars
<1>3. ASSUME Trade PROVE PilotInv' /\ [Next]_vars
  BY <1>3, <1>1, TradeEffect, TradeKeeps
<1>4. ASSUME NEW r \in late, Late(r) PROVE PilotInv' /\ [Next]_vars
  BY <1>4, LateKeeps
<1>5. ASSUME NEW t \in Thread, NEW pay \in received, Deliver(t, pay)
      PROVE  PilotInv' /\ [Next]_vars
  BY <1>5, DeliverKeeps DEF Deliver, kioskVars
<1>6. ASSUME NEW t \in Thread, Credited(t) PROVE PilotInv' /\ [Next]_vars
  BY <1>6, CreditedKeeps
<1>7. ASSUME NEW t \in Thread, CreditFailed(t) PROVE PilotInv' /\ [Next]_vars
  BY <1>7, CreditFailedKeeps DEF CreditFailed, kioskVars
<1>8. ASSUME NEW t \in Thread, Emitted(t) PROVE PilotInv' /\ [Next]_vars
  BY <1>8, EmittedKeeps DEF Emitted, kioskVars
<1>9. ASSUME RailRestart PROVE PilotInv' /\ [Next]_vars
  BY <1>9, RailRestartKeeps DEF RailRestart, kioskVars
<1>10. ASSUME NEW pay \in received, NEW ref \in Ref, BankCommand(pay, ref)
       PROVE  PilotInv' /\ [Next]_vars
  BY <1>10, BankCommandKeeps
<1>11. ASSUME NEW m \in Merchant, NEW a \in Amount, Report(m, a)
       PROVE  PilotInv' /\ [Next]_vars
  BY <1>11, ReportKeeps DEF Report, kioskVars
<1>12. ASSUME NEW ref \in Ref, Pay(ref) PROVE PilotInv' /\ [Next]_vars
  BY <1>12, PayKeeps DEF Pay, kioskVars
<1>13. ASSUME Recorded PROVE PilotInv' /\ [Next]_vars
  BY <1>13, RecordedKeeps
<1>14. ASSUME RecordFailed PROVE PilotInv' /\ [Next]_vars
  BY <1>14, RecordFailedKeeps DEF RecordFailed, kioskVars
<1>15. ASSUME ReadBalance \/ ReadReconcile \/ ReadReport \/ EndCheck
       PROVE  PilotInv' /\ [Next]_vars
  BY <1>15, CheckKeeps DEF ReadBalance, ReadReconcile, ReadReport, EndCheck
<1>16. ASSUME UNCHANGED pilotVars PROVE PilotInv' /\ [Next]_vars
  BY <1>16, CheckKeeps DEF pilotVars
<1>17. PilotInv' /\ [Next]_vars
  BY <1>2, <1>3, <1>4, <1>5, <1>6, <1>7, <1>8, <1>9, <1>10, <1>11, <1>12, <1>13,
     <1>14, <1>15, <1>16 DEF PilotNext
<1> QED
  BY <1>1, <1>17

LEMMA PilotInvariant == PilotSpec => [](PilotInv /\ Books)
<1>1. PilotInit => PilotInv /\ Books
  BY PilotInvInit, BooksInit DEF PilotInit
<1>2. PilotInv /\ Books /\ [PilotNext]_pilotVars => (PilotInv /\ Books)'
  BY PilotStep
<1> QED
  BY <1>1, <1>2, PTL DEF PilotSpec

(* Everything KioskProofs shows of the kiosk holds of it in the pilot:     *)
(* rail, operator and check only ever make it do what it does.             *)
THEOREM PilotIsKiosk == PilotSpec => Spec
<1>1. PilotInit => Init
  BY DEF PilotInit
<1>2. PilotInv /\ Books /\ [PilotNext]_pilotVars => [Next]_vars
  BY PilotStep
<1> QED
  BY <1>1, <1>2, PilotInvariant, PTL DEF PilotSpec, Spec

-----------------------------------------------------------------------------
(* A ledger that is part of another accounts for it up to the rest. *)
LEMMA RestOfLedger ==
  ASSUME NEW S, IsLedger(S), OnePerRef(S), NEW T, T \subseteq S
  PROVE  /\ Value(S) = Value({x \in S : x.ref \notin Refs(T)}) + Value(T)
         /\ Value(S) \in Nat /\ Value(T) \in Nat
         /\ Value({x \in S : x.ref \notin Refs(T)}) \in Nat
<1>1. {x \in S : x.ref \notin Refs(T)} = S \ T
  BY DEF OnePerRef, Refs
<1>2. Value(S) = Value(S \ T) + Value(T) /\ Value(S \ T) \in Nat /\ Value(T) \in Nat
  BY ValueRemove
<1> QED
  BY <1>1, <1>2, ValueType

LEMMA Statements ==
  ASSUME Account
  PROVE  IsLedger(received) /\ IsLedger(transferred)
BY KioskAssumption DEF Account, Payment, Transfer, IsLedger

(* Deposits that stand for payments, no two for the same one, are worth as *)
(* much as the payments they stand for. *)
LEMMA DepositsStandFor ==
  ASSUME NEW P, IsLedger(P), OwnNames(P),
         NEW D, IsLedger(D), D \subseteq [ref : Ref, amount : Amount],
         \A d \in D : StandsFor(d.ref, d.amount, P),
         ~ CreditedTwice(P, D)
  PROVE  /\ Value(P) = Value({p \in P : Names(p) \cap Refs(D) = {}}) + Value(D)
         /\ Value(D) \in Nat
         /\ Value({p \in P : Names(p) \cap Refs(D) = {}}) \in Nat
<1> DEFINE C == {p \in P : Names(p) \cap Refs(D) # {}}
           r == [d \in D |-> CHOOSE p \in P : d.ref \in Names(p) /\ d.amount = p.amount]
<1>1. ASSUME NEW d \in D
      PROVE  r[d] \in P /\ d.ref \in Names(r[d]) /\ d.amount = r[d].amount
  BY DEF StandsFor
<1>2. r \in [D -> C]
  <2>1. \A d \in D : d.ref \in Refs(D)
    BY DEF Refs
  <2> QED BY <1>1, <2>1
<1> HIDE DEF r
<1>3. ASSUME NEW d \in D, NEW e \in D, r[d] = r[e] PROVE d = e
  <2>1. d.ref = e.ref
    BY <1>1, <1>3 DEF CreditedTwice
  <2>2. d.amount = e.amount
    BY <1>1, <1>3
  <2> QED BY <2>1, <2>2
<1>4. ASSUME NEW p \in C PROVE \E d \in D : r[d] = p
  <2>1. PICK d \in D : d.ref \in Names(p)
    BY <1>4 DEF Refs
  <2>2. r[d] = p
    BY <1>1, <2>1 DEF OwnNames
  <2> QED BY <2>2
<1>5. r \in Bijection(D, C)
  BY <1>2, <1>3, <1>4 DEF Bijection, Injection, Surjection, IsInjective
<1>6. /\ DOMAIN Amounts(D) = D /\ DOMAIN Amounts(C) = C
      /\ IsFiniteSet(D) /\ \A d \in D : Amounts(D)[d] \in Nat
      /\ \A d \in D : Amounts(C)[r[d]] = Amounts(D)[d]
  BY <1>1, <1>2 DEF Amounts, IsLedger
<1>7. Value(C) = Value(D)
  <2>1. Total(Amounts(C)) = Total(Amounts(D))
    BY <1>5, <1>6, TotalRenamed
  <2> QED BY <2>1 DEF Value
<1>8. {p \in P : Names(p) \cap Refs(D) = {}} = P \ C
  OBVIOUS
<1>9. Value(P) = Value(P \ C) + Value(C) /\ Value(P \ C) \in Nat /\ Value(C) \in Nat
  BY ValueRemove
<1> HIDE DEF C
<1> QED
  BY <1>7, <1>8, <1>9

(* The account and the reserve agree, up to what is on its way between     *)
(* them, unless a payment was credited under two of its references. *)
THEOREM BankAlwaysMatches == PilotSpec => []BankMatches
<1>1. PilotInv /\ Books => BankMatches
  <2> SUFFICES ASSUME PilotInv, Books, CreditedOnce
               PROVE  Bank = reserve + Value(Uncredited) - Value(Unrecorded)
    BY DEF BankMatches
  <2>1. /\ Value(received) = Value(Uncredited) + Value(deposits)
        /\ Value(Uncredited) \in Nat /\ Value(deposits) \in Nat
    BY Statements, BookLedgers, DepositsStandFor
    DEF PilotInv, Account, Books, Uncredited, CreditedOnce
  <2>2. /\ Value(transferred) = Value(Unrecorded) + Value(payouts)
        /\ Value(transferred) \in Nat /\ Value(Unrecorded) \in Nat /\ Value(payouts) \in Nat
    BY Statements, RestOfLedger DEF PilotInv, Account, Unrecorded
  <2>3. reserve = Value(deposits) - Value(payouts)
    BY DEF Books, LedgerConsistent
  <2> QED BY <2>1, <2>2, <2>3 DEF Bank
<1> QED
  BY <1>1, PilotInvariant, PTL

(* What the gateway is told is credited is in the books. *)
THEOREM AnswersAreTrue == PilotSpec => []AnsweredIsCredited
<1>1. PilotInv => AnsweredIsCredited
  BY DEF PilotInv, Answers, AnsweredIsCredited, Answerable
<1> QED
  BY <1>1, PilotInvariant, PTL

(* What a merchant is owed can be paid, unless a payment was credited      *)
(* under two of its references, and what was paid can be recorded. *)
THEOREM PayoutsGoThrough == PilotSpec => []PayoutGoesThrough
<1>1. PilotInv /\ Books => PayoutGoesThrough
  <2> SUFFICES ASSUME PilotInv, Books PROVE PayoutGoesThrough
    OBVIOUS
  <2>1. ASSUME operator.pc = "pay", CreditedOnce PROVE operator.amount <= Bank
    <3> DEFINE m == operator.merchant
    <3>1. /\ m \in Payee /\ operator.amount \in Amount /\ operator.amount <= Owed(m)
          /\ transferred = payouts
      BY <2>1 DEF PilotInv, Paying, Idle, Payee
    <3>2. operator.amount \in Nat
      BY <3>1, KioskAssumption
    <3>3. IsLedger(settlements) /\ IsLedger(payouts)
      BY BookLedgers DEF Books
    <3>4. Owed(m) <= OwedTotal /\ Owed(m) \in Int
      <4> DEFINE R == Payee \ {m}
      <4>1. /\ For(settlements, R) = settlements \ For(settlements, {m})
            /\ For(payouts, R) = payouts \ For(payouts, {m})
        BY DEF For, Books, TypeOK, Payee
      <4>2. Value(settlements) = Value(For(settlements, R)) + Value(For(settlements, {m}))
            /\ Value(For(settlements, R)) \in Nat /\ Value(For(settlements, {m})) \in Nat
        BY <4>1, <3>3, ValueRemove DEF For
      <4>3. Value(payouts) = Value(For(payouts, R)) + Value(For(payouts, {m}))
            /\ Value(For(payouts, R)) \in Nat /\ Value(For(payouts, {m})) \in Nat
        BY <4>1, <3>3, ValueRemove DEF For
      <4>4. Value(For(payouts, R)) <= Value(For(settlements, R))
        BY DEF Books, NeverOverpaid
      <4> QED BY <4>2, <4>3, <4>4 DEF Owed, OwedTotal
    <3>5. OwedTotal <= reserve /\ OwedTotal \in Nat
      <4>1. OwedTotal \in Nat
        BY OwedTotalNat
      <4>2. issued + OwedTotal <= reserve /\ issued \in Nat /\ reserve \in Nat
        BY DEF Books, Backed, TypeOK
      <4> QED BY <4>1, <4>2
    <3>6. reserve <= Bank /\ Bank \in Int
      <4>1. Value(deposits) <= Value(received) /\ Value(received) \in Nat /\ Value(deposits) \in Nat
        <5>1. /\ Value(received) = Value(Uncredited) + Value(deposits)
              /\ Value(Uncredited) \in Nat /\ Value(deposits) \in Nat
          BY <2>1, Statements, BookLedgers, DepositsStandFor
          DEF PilotInv, Account, Books, Uncredited, CreditedOnce
        <5> QED BY <5>1
      <4>2. Value(payouts) \in Nat
        BY <3>3, ValueType
      <4>3. reserve = Value(deposits) - Value(payouts)
        BY DEF Books, LedgerConsistent
      <4> QED BY <3>1, <4>1, <4>2, <4>3 DEF Bank
    <3>7. reserve \in Nat
      BY DEF Books, TypeOK
    <3> HIDE DEF m
    <3> QED BY <3>1, <3>2, <3>4, <3>5, <3>6, <3>7
  <2>2. ASSUME operator.pc = "record", operator.out.ref \notin Refs(payouts)
        PROVE  MayPay(operator.out.merchant, operator.out.amount)
    <3>1. operator.out \in Transfer
      BY <2>2 DEF PilotInv, Paying, Idle, Account
    <3>2. operator.out \notin payouts
      BY <2>2 DEF Refs
    <3> QED BY <2>2, <3>1, <3>2 DEF PilotInv, Paying, MayPay, Transfer
  <2> QED BY <2>1, <2>2 DEF PayoutGoesThrough
<1> QED
  BY <1>1, PilotInvariant, PTL

-----------------------------------------------------------------------------
(* The daily check.  What it has read was true when it was read, and the   *)
(* statements it was read from have only grown since. *)

(* The loop bodies of evaluate never object to these books. *)
Sound(rc) ==
  /\ IsLedger(rc.deposits) /\ IsLedger(rc.settlements) /\ IsLedger(rc.payouts)
  /\ rc.deposits \subseteq [ref : Ref, amount : Amount]
  /\ \A d \in rc.deposits : StandsFor(d.ref, d.amount, received)
  /\ rc.payouts \subseteq transferred
  /\ rc.issued \in Nat /\ rc.reserve \in Nat
  /\ rc.loaded \in Nat /\ rc.allocated \in Nat /\ rc.loaded <= rc.allocated
  /\ rc.reserve = Value(rc.deposits) - Value(rc.payouts)
  /\ rc.issued + (Value(rc.settlements) - Value(rc.payouts)) <= rc.reserve
  /\ Value(rc.payouts) <= Value(rc.settlements)
  /\ \A m \in Payee : Value(For(rc.payouts, {m})) <= Value(For(rc.settlements, {m}))

BalanceRead ==
  /\ audit.received \subseteq received /\ audit.transferred \subseteq transferred
  /\ audit.bank = Value(audit.received) - Value(audit.transferred)

Auditing ==
  /\ audit.pc \in {"reconcile", "report", "evaluate"} => BalanceRead
  /\ audit.pc \in {"report", "evaluate"} => Sound(audit.rc)

(* The devices have loaded no more than they were allocated, together. *)
LEMMA QuotasAddUp ==
  ASSUME TypeOK, QuotaRespected
  PROVE  /\ Total(loaded) \in Nat /\ Total(allocated) \in Nat
         /\ Total(loaded) <= Total(allocated)
<1>1. /\ IsFiniteSet(Device) /\ loaded \in [Device -> Nat] /\ allocated \in [Device -> Nat]
      /\ \A d \in Device : loaded[d] <= allocated[d]
  BY KioskAssumption DEF TypeOK, QuotaRespected
<1>2. /\ IsFiniteSet(Units(loaded)) /\ Total(loaded) \in Nat
      /\ IsFiniteSet(Units(allocated)) /\ Total(allocated) \in Nat
  BY <1>1, UnitsFinite
<1>3. Units(loaded) \subseteq Units(allocated)
  <2>1. \A d \in Device : 1 .. loaded[d] \subseteq 1 .. allocated[d]
    BY <1>1
  <2> QED BY <1>1, <2>1 DEF Units
<1> QED
  BY <1>2, <1>3, FS_Subset DEF Total

LEMMA ReadingSound ==
  ASSUME Books, QuotaRespected, Account
  PROVE  Sound(Reading)
<1>1. /\ IsLedger(deposits) /\ IsLedger(settlements) /\ IsLedger(payouts)
      /\ deposits \subseteq [ref : Ref, amount : Amount]
      /\ \A d \in deposits : StandsFor(d.ref, d.amount, received)
      /\ payouts \subseteq transferred
  BY BookLedgers DEF Books, Account
<1>2. Total(loaded) \in Nat /\ Total(allocated) \in Nat /\ Total(loaded) <= Total(allocated)
  BY QuotasAddUp DEF Books
<1>3. /\ issued \in Nat /\ reserve \in Nat
      /\ reserve = Value(deposits) - Value(payouts)
      /\ issued + (Value(settlements) - Value(payouts)) <= reserve
  BY DEF Books, TypeOK, LedgerConsistent, Backed, OwedTotal
<1>4. Value(payouts) <= Value(settlements)
  BY OwedTotalNat DEF OwedTotal
<1>5. \A m \in Payee : Value(For(payouts, {m})) <= Value(For(settlements, {m}))
  BY DEF Books, NeverOverpaid
<1>6. /\ Reading.reserve = reserve /\ Reading.issued = issued
      /\ Reading.deposits = deposits /\ Reading.settlements = settlements
      /\ Reading.payouts = payouts
      /\ Reading.allocated = Total(allocated) /\ Reading.loaded = Total(loaded)
  BY DEF Reading
<1> QED
  BY <1>1, <1>2, <1>3, <1>4, <1>5, <1>6, Zenon DEF Sound

(* Every step but those of the check only adds to the statements. *)
LEMMA StatementsGrow ==
  ASSUME [PilotNext]_pilotVars
  PROVE  /\ received \subseteq received' /\ transferred \subseteq transferred'
         /\ \/ audit' = audit
            \/ ReadBalance \/ ReadReconcile \/ ReadReport \/ EndCheck
BY DEF PilotNext, pilotVars, Receive, Trade, Late, Deliver, Credited, CreditFailed,
       Emitted, RailRestart, BankCommand, Report, Pay, Recorded, RecordFailed,
       ReadBalance, ReadReconcile, ReadReport, EndCheck

LEMMA AuditStep ==
  ASSUME Auditing, PilotInv, Books, QuotaRespected, [PilotNext]_pilotVars
  PROVE  Auditing'
<1>1. received \subseteq received' /\ transferred \subseteq transferred'
  BY StatementsGrow
<1>2. CASE audit' = audit
  BY <1>1, <1>2 DEF Auditing, BalanceRead, Sound, StandsFor
<1>3. CASE ReadBalance
  <2>1. /\ audit'.pc = "reconcile" /\ audit'.bank = Bank
        /\ audit'.received = received /\ audit'.transferred = transferred
    BY <1>3 DEF ReadBalance
  <2> QED BY <1>1, <2>1 DEF Auditing, BalanceRead, Bank
<1>4. CASE ReadReconcile
  <2>1. /\ audit.pc = "reconcile" /\ audit'.pc = "report" /\ audit'.bank = audit.bank
        /\ audit'.received = audit.received /\ audit'.transferred = audit.transferred
        /\ audit'.rc = Reading
        /\ received' = received /\ transferred' = transferred
    BY <1>4 DEF ReadReconcile
  <2>2. Sound(Reading)
    BY ReadingSound DEF PilotInv
  <2>3. Sound(audit.rc)'
    BY <2>1, <2>2 DEF Sound
  <2> QED BY <2>1, <2>3 DEF Auditing, BalanceRead
<1>5. CASE ReadReport
  <2>1. /\ audit.pc = "report" /\ audit'.bank = audit.bank
        /\ audit'.received = audit.received /\ audit'.transferred = audit.transferred
        /\ audit'.rc = audit.rc
        /\ received' = received /\ transferred' = transferred
    BY <1>5 DEF ReadReport
  <2> QED BY <2>1 DEF Auditing, BalanceRead, Sound
<1>6. CASE EndCheck
  BY <1>6 DEF EndCheck, Auditing, Idle
<1> QED
  BY <1>2, <1>3, <1>4, <1>5, <1>6, StatementsGrow

(* A FAIL of the check is never its own doing, but for what happens        *)
(* between its three readings. *)
THEOREM FailuresMeanSomething == PilotSpec => []FailMeansSomething
<1>1. PilotInit => Auditing
  BY DEF PilotInit, Auditing, Idle
<1>2. Auditing /\ PilotInv /\ Books /\ QuotaRespected /\ [PilotNext]_pilotVars => Auditing'
  BY AuditStep
<1>3. Auditing /\ PilotInv => FailMeansSomething
  <2> SUFFICES ASSUME Auditing, PilotInv, audit.pc = "evaluate"
               PROVE  /\ ~ BooksFail(audit.rc)
                      /\ BankFails(audit.bank, audit.rc) =>
                           \/ \E out \in audit.transferred : out.ref \notin Refs(audit.rc.payouts)
                           \/ ~ Refs(audit.rc.deposits) \subseteq AllNames(audit.received)
                           \/ CreditedTwice(audit.received, audit.rc.deposits)
                      /\ LogFails(audit.entries, audit.paid, audit.rc) =>
                           \/ audit.entries # audit.rc.settlements
                           \/ audit.paid # audit.rc.payouts
    BY DEF FailMeansSomething
  <2> DEFINE rc == audit.rc
  <2>1. BalanceRead /\ Sound(rc)
    BY DEF Auditing
  <2>2. /\ Value(rc.deposits) \in Nat /\ Value(rc.settlements) \in Nat /\ Value(rc.payouts) \in Nat
    BY <2>1, ValueType DEF Sound
  <2>3. ~ BooksFail(rc)
    BY <2>1, <2>2 DEF Sound, BooksFail
  <2>4. ASSUME \A out \in audit.transferred : out.ref \in Refs(rc.payouts),
               Refs(rc.deposits) \subseteq AllNames(audit.received),
               ~ CreditedTwice(audit.received, rc.deposits)
        PROVE  ~ BankFails(audit.bank, rc)
    <3>1. OwnNames(audit.received)
          /\ \A d \in rc.deposits : StandsFor(d.ref, d.amount, audit.received)
      <4>1. OwnNames(received) /\ audit.received \subseteq received
        BY <2>1 DEF BalanceRead, PilotInv, Account
      <4>2. ASSUME NEW d \in rc.deposits
            PROVE  StandsFor(d.ref, d.amount, audit.received)
        <5>1. PICK p \in audit.received : d.ref \in Names(p)
          BY <2>4 DEF Refs, AllNames
        <5>2. PICK q \in received : d.ref \in Names(q) /\ d.amount = q.amount
          BY <2>1 DEF Sound, StandsFor
        <5>3. p = q
          BY <4>1, <5>1, <5>2 DEF OwnNames
        <5> QED BY <5>1, <5>2, <5>3 DEF StandsFor
      <4> QED BY <4>1, <4>2 DEF OwnNames
    <3>2. audit.transferred \subseteq rc.payouts
      BY <2>1, <2>4 DEF Sound, BalanceRead, PilotInv, Account, OnePerRef, Refs
    <3>3. IsLedger(audit.received) /\ IsLedger(audit.transferred)
      BY <2>1, Statements, ValueMonotone DEF BalanceRead, PilotInv
    <3>4. Value(audit.received) \in Nat /\ Value(audit.transferred) \in Nat
      BY <3>3, ValueType
    <3>5. Value(rc.deposits) <= Value(audit.received)
      <4> DEFINE rest == {p \in audit.received : Names(p) \cap Refs(rc.deposits) = {}}
      <4>1. /\ Value(audit.received) = Value(rest) + Value(rc.deposits)
            /\ Value(rest) \in Nat /\ Value(rc.deposits) \in Nat
        BY <2>1, <2>4, <3>1, <3>3, DepositsStandFor DEF Sound
      <4> HIDE DEF rest
      <4> QED BY <4>1
    <3>6. Value(audit.transferred) <= Value(rc.payouts)
      BY <2>1, <3>2, ValueMonotone DEF Sound
    <3>7. /\ audit.bank = Value(audit.received) - Value(audit.transferred)
          /\ rc.reserve = Value(rc.deposits) - Value(rc.payouts)
      BY <2>1 DEF BalanceRead, Sound
    <3> QED BY <2>2, <3>4, <3>5, <3>6, <3>7 DEF BankFails
  <2>5. ASSUME audit.entries = rc.settlements, audit.paid = rc.payouts
        PROVE  ~ LogFails(audit.entries, audit.paid, rc)
    <3>1. ASSUME NEW m \in Payee
          PROVE  ~ (Value(For(rc.settlements, {m})) < Value(For(rc.payouts, {m})))
      <4>1. For(rc.settlements, {m}) \subseteq rc.settlements
            /\ For(rc.payouts, {m}) \subseteq rc.payouts
        BY DEF For
      <4>2. Value(For(rc.settlements, {m})) \in Nat /\ Value(For(rc.payouts, {m})) \in Nat
        BY <2>1, <4>1, ValueMonotone, ValueType DEF Sound
      <4>3. Value(For(rc.payouts, {m})) <= Value(For(rc.settlements, {m}))
        BY <2>1 DEF Sound
      <4> QED BY <4>2, <4>3
    <3> QED BY <2>5, <3>1 DEF LogFails
  <2> QED BY <2>3, <2>4, <2>5
<1> QED
  BY <1>1, <1>2, <1>3, PilotInvariant, PilotIsKiosk, QuotasHold, PTL DEF PilotSpec

-----------------------------------------------------------------------------
(* What the check compares from day to day only grows. *)

LEMMA QuotaTotalsGrow ==
  ASSUME Books, [Next]_vars
  PROVE  /\ Total(allocated) \in Nat /\ Total(allocated') \in Nat
         /\ Total(allocated) <= Total(allocated')
         /\ Total(loaded) \in Nat /\ Total(loaded') \in Nat
         /\ Total(loaded) <= Total(loaded')
<1>1. /\ IsFiniteSet(Device) /\ loaded \in [Device -> Nat] /\ allocated \in [Device -> Nat]
  BY KioskAssumption DEF Books, TypeOK
<1>2. Total(loaded) \in Nat /\ Total(allocated) \in Nat
  BY <1>1, UnitsFinite
<1>3. ASSUME NEW dev \in Device, NEW a \in Amount, NEW ref \in Ref, AllocateDevice(dev, a, ref)
      PROVE  loaded' = loaded /\ \E n \in Nat : Total(allocated') = Total(allocated) + n
  <2>1. a \in Nat /\ allocated' = [allocated EXCEPT ![dev] = allocated[dev] + a] /\ loaded' = loaded
    BY <1>3, KioskAssumption DEF AllocateDevice
  <2>2. Total(allocated') = Total(allocated) + a
    BY <1>1, <2>1, TotalUpdate
  <2> QED BY <2>1, <2>2
<1>4. ASSUME NEW dev \in Device, NEW seq \in SeqNo, NEW p \in Proof, SignForDevice(dev, seq, p)
      PROVE  allocated' = allocated /\ \E n \in Nat : Total(loaded') = Total(loaded) + n
  <2>1. /\ p.amount \in Nat /\ allocated' = allocated
        /\ loaded' = [loaded EXCEPT ![dev] = loaded[dev] + p.amount]
    BY <1>4, KioskAssumption DEF SignForDevice, Proof
  <2>2. Total(loaded') = Total(loaded) + p.amount
    BY <1>1, <2>1, TotalUpdate
  <2> QED BY <2>1, <2>2
<1>5. \/ loaded' = loaded /\ allocated' = allocated
      \/ loaded' = loaded /\ \E n \in Nat : Total(allocated') = Total(allocated) + n
      \/ allocated' = allocated /\ \E n \in Nat : Total(loaded') = Total(loaded) + n
  BY <1>3, <1>4 DEF Next, vars, deviceVars, Deposit, BlindSign, SettleFor, Swap, RecordPayout
<1> QED
  BY <1>2, <1>5

LEMMA LedgersGrow ==
  ASSUME [Next]_vars
  PROVE  /\ deposits \subseteq deposits' /\ settlements \subseteq settlements'
         /\ payouts \subseteq payouts' /\ spent \subseteq spent'
BY DEF Next, vars, deviceVars, Deposit, AllocateDevice, BlindSign, BlindSignNoSave,
       SignForDevice, SettleFor, Swap, RecordPayout

LEMMA DayByDay ==
  ASSUME Books, Books', [Next]_vars
  PROVE  ~ DayFails(Reading', Reading)
<1>1. /\ IsLedger(deposits) /\ IsLedger(settlements) /\ IsLedger(payouts)
      /\ reserve = Value(deposits) - Value(payouts)
  BY BookLedgers DEF Books, LedgerConsistent
<1>2. /\ IsLedger(deposits') /\ IsLedger(settlements') /\ IsLedger(payouts')
      /\ reserve' = Value(deposits') - Value(payouts')
  <2>1. IsLedger(deposits') /\ IsLedger(settlements') /\ IsLedger(payouts')
    BY KioskAssumption DEF Books, TypeOK, IsLedger
  <2>2. reserve' = Value(deposits') - Value(payouts')
    BY DEF Books, LedgerConsistent
  <2> QED BY <2>1, <2>2
<1>3. /\ Value(deposits) \in Nat /\ Value(settlements) \in Nat /\ Value(payouts) \in Nat
      /\ Value(deposits') \in Nat /\ Value(settlements') \in Nat /\ Value(payouts') \in Nat
  BY <1>1, <1>2, ValueType
<1>4. /\ Value(deposits) <= Value(deposits') /\ Value(settlements) <= Value(settlements')
      /\ Value(payouts) <= Value(payouts')
  BY <1>2, LedgersGrow, ValueMonotone
<1>5. /\ Cardinality(deposits) <= Cardinality(deposits')
      /\ Cardinality(deposits) \in Nat /\ Cardinality(deposits') \in Nat
  BY <1>2, LedgersGrow, FS_Subset, FS_CardinalityType DEF IsLedger
<1>6. /\ Cardinality(spent) <= Cardinality(spent')
      /\ Cardinality(spent) \in Nat /\ Cardinality(spent') \in Nat
  <2>1. IsFiniteSet(spent')
    BY KioskAssumption, FS_Subset DEF Books, TypeOK
  <2> QED BY <2>1, LedgersGrow, FS_Subset, FS_CardinalityType
<1>7. /\ Total(allocated) <= Total(allocated') /\ Total(loaded) <= Total(loaded')
      /\ Total(allocated) \in Nat /\ Total(allocated') \in Nat
      /\ Total(loaded) \in Nat /\ Total(loaded') \in Nat
  BY QuotaTotalsGrow
<1>8. /\ Reading.reserve = reserve /\ Reading.deposits = deposits
      /\ Reading.settlements = settlements /\ Reading.payouts = payouts
      /\ Reading.allocated = Total(allocated) /\ Reading.loaded = Total(loaded)
      /\ Reading.settledCount = Cardinality(spent)
      /\ Reading'.reserve = reserve' /\ Reading'.deposits = deposits'
      /\ Reading'.settlements = settlements' /\ Reading'.payouts = payouts'
      /\ Reading'.allocated = Total(allocated') /\ Reading'.loaded = Total(loaded')
      /\ Reading'.settledCount = Cardinality(spent')
  BY DEF Reading
<1> HIDE DEF Reading
<1> QED
  BY <1>1, <1>2, <1>3, <1>4, <1>5, <1>6, <1>7, <1>8 DEF DayFails

(* The check never takes a kiosk that only did its work for one that was   *)
(* rolled back. *)
THEOREM WorkIsNoRollback == PilotSpec => NeverLooksRolledBack
<1>1. PilotInv /\ Books /\ [PilotNext]_pilotVars => [~ DayFails(Reading', Reading)]_pilotVars
  BY PilotStep, DayByDay
<1> QED
  BY <1>1, PilotInvariant, PTL DEF PilotSpec, NeverLooksRolledBack
=============================================================================
