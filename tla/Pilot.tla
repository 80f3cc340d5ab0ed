-------------------------------- MODULE Pilot --------------------------------
(***************************************************************************)
(* The kiosk in its pilot (docs/PILOT_RUNBOOK.md): the bank account that   *)
(* holds the reserve, the webhook rail that credits what arrives there     *)
(* (mvp/bank_rail.py), the operator who credits by hand and pays merchants *)
(* ("pay first, record second"), and the daily check that compares the     *)
(* account with the books (scripts/pilot_check.py).                        *)
(*                                                                         *)
(* All of them talk to the kiosk over HTTP.  An operation of the kiosk is  *)
(* one step of Kiosk; the answer to it can be lost, and the request can be *)
(* executed after its sender has given up.  The rail serves every delivery *)
(* in a thread of its own, and checks its set of references before the     *)
(* credit and extends it after it.                                         *)
(*                                                                         *)
(* One payment goes by several references: the gateway reports it with its *)
(* order id (or with a reference of the bank, if it has no order id), the  *)
(* operator enters it with the bank's UTR, as the runbook asks, or without *)
(* --ref, and then the command makes up a new one each time.  The kiosk    *)
(* knows a payment by the reference it is told and by nothing else.        *)
(***************************************************************************)
EXTENDS Kiosk

CONSTANT Thread     \* threads of the rail's HTTP server

VARIABLES
  received,     \* payments that have reached the account
  transferred,  \* payments out of the account to merchants
  late,         \* requests that may still reach the kiosk: sender gave up
  thread,       \* what each thread of the rail is doing
  seen,         \* seen_refs of the rail
  operator,     \* the operator's payout under way
  audit         \* a run of pilot_check under way

kioskVars == vars
railVars == <<thread, seen>>
pilotVars == <<kioskVars, received, transferred, late, railVars, operator, audit>>

Idle == [pc |-> "idle"]

(* The balance of the account. *)
Bank == Value(received) - Value(transferred)

(* A payment: what the gateway calls it, what the operator may call it. *)
Payment == [order : Ref, hand : SUBSET Ref, amount : Amount]
Names(pay) == {pay.order} \cup pay.hand
AllNames(pays) == UNION {Names(pay) : pay \in pays}

Credit(ref, amount) == [op |-> "credit", ref |-> ref, amount |-> amount]
Payout(out) == [op |-> "payout", out |-> out]

PilotInit ==
  /\ Init /\ ~ allowAnon
  /\ received = {} /\ transferred = {} /\ late = {}
  /\ thread = [t \in Thread |-> Idle] /\ seen = {}
  /\ operator = Idle /\ audit = Idle

-----------------------------------------------------------------------------
(* The bank. *)

(* A participant pays; no two payments share a reference. *)
Receive(pay) ==
  /\ Names(pay) \cap AllNames(received) = {}
  /\ received' = received \cup {pay}
  /\ UNCHANGED <<kioskVars, transferred, late, railVars, operator, audit>>

-----------------------------------------------------------------------------
(* POST /v1/credit and POST /v1/payout as the kiosk executes them: once    *)
(* for each reference, and 409 afterwards.                                 *)

DepositAgain(ref, amount) ==
  /\ deposits' = deposits \cup {[ref |-> ref, amount |-> amount]}
  /\ reserve' = reserve + amount
  /\ UNCHANGED <<issued, signed, spent, deviceVars, settlements, payouts, swapCache, allowAnon>>

ExecuteCreditAgain(ref, amount) == DepositAgain(ref, amount)

ExecuteCredit(ref, amount) ==
  \/ Deposit(ref, amount)
  \/ ref \in Refs(deposits) /\ UNCHANGED kioskVars

RecordAgain(out) ==
  /\ MayPay(out.merchant, out.amount)
  /\ payouts' = payouts \cup {out}
  /\ reserve' = reserve - out.amount
  /\ UNCHANGED <<issued, signed, spent, deposits, deviceVars, settlements, swapCache, allowAnon>>

ExecutePayoutAgain(out) ==
  \/ RecordAgain(out)
  \/ out.ref \in Refs(payouts) /\ UNCHANGED kioskVars

ExecutePayout(out) ==
  \/ RecordPayout(out.merchant, out.amount, out.ref)
  \/ out.ref \in Refs(payouts) /\ UNCHANGED kioskVars

(* A request whose sender has given up is executed after all. *)
Late(r) ==
  /\ r \in late
  /\ late' = late \ {r}
  /\ \/ r.op = "credit" /\ ExecuteCredit(r.ref, r.amount)
     \/ r.op = "payout" /\ ExecutePayout(r.out)
  /\ UNCHANGED <<received, transferred, railVars, operator, audit>>

-----------------------------------------------------------------------------
(* The webhook rail (do_POST and _emit). *)

(* The gateway reports a payment, once or more often.  One whose reference *)
(* was seen is answered with 409 at once, which changes nothing.           *)
Deliver(t, pay) ==
  /\ thread[t] = Idle /\ pay \in received
  /\ pay.order \notin seen
  /\ thread' = [thread EXCEPT ![t] = [pc |-> "credit", pay |-> pay]]
  /\ UNCHANGED <<kioskVars, received, transferred, late, seen, operator, audit>>

(* credit_atm returns: credited, or credited before. *)
Credited(t) ==
  /\ thread[t].pc = "credit"
  /\ ExecuteCredit(thread[t].pay.order, thread[t].pay.amount)
  /\ thread' = [thread EXCEPT ![t].pc = "record"]
  /\ UNCHANGED <<received, transferred, late, seen, operator, audit>>

CreditFailedButSeen(t) ==
  /\ thread[t].pc = "credit"
  /\ thread' = [thread EXCEPT ![t] = Idle]
  /\ seen' = seen \cup {thread[t].pay.order}
  /\ UNCHANGED <<kioskVars, received, transferred, late, operator, audit>>

(* What a thread that credits a payment has sent to the kiosk. *)
Request(t) == Credit(thread[t].pay.order, thread[t].pay.amount)

(* credit_atm raises: the gateway is told to retry (502).  The request may *)
(* have been executed, may be executed later, or never.                    *)
CreditFailed(t) ==
  /\ thread[t].pc = "credit"
  /\ thread' = [thread EXCEPT ![t] = Idle]
  /\ late' \in {late, late \cup {Request(t)}}
  /\ UNCHANGED <<kioskVars, received, transferred, seen, operator, audit>>

(* The reference is recorded and the delivery answered with 200. *)
Emitted(t) ==
  /\ thread[t].pc = "record"
  /\ seen' = seen \cup {thread[t].pay.order}
  /\ thread' = [thread EXCEPT ![t] = Idle]
  /\ UNCHANGED <<kioskVars, received, transferred, late, operator, audit>>

(* The rail keeps its references in memory only. *)
RailRestart ==
  /\ seen' = {}
  /\ thread' = [t \in Thread |-> Idle]
  /\ LET sent == {Request(t) : t \in {u \in Thread : thread[u].pc = "credit"}}
     IN  \E S \in SUBSET sent : late' = late \cup S
  /\ UNCHANGED <<kioskVars, received, transferred, operator, audit>>

-----------------------------------------------------------------------------
(* The operator. *)

(* `fupi-vault bank <amount> [--ref <UTR>]', for a payment that is visible *)
(* in the account, whatever the rail does with it.                         *)
BankCommand(pay, ref) ==
  /\ pay \in received /\ ref \in pay.hand
  /\ \/ ExecuteCredit(ref, pay.amount) /\ UNCHANGED late
     \/ late' = late \cup {Credit(ref, pay.amount)} /\ UNCHANGED kioskVars
  /\ UNCHANGED <<received, transferred, railVars, operator, audit>>

(* `fupi-vault report', from which the operator decides to pay a merchant. *)
ReportSettled(m, amount) ==
  /\ operator = Idle
  /\ amount <= Value(For(settlements, {m}))
  /\ operator' = [pc |-> "pay", merchant |-> m, amount |-> amount]
  /\ UNCHANGED <<kioskVars, received, transferred, late, railVars, audit>>

Report(m, amount) ==
  /\ operator = Idle
  /\ amount <= Owed(m)
  /\ operator' = [pc |-> "pay", merchant |-> m, amount |-> amount]
  /\ UNCHANGED <<kioskVars, received, transferred, late, railVars, audit>>

(* The payment in the bank app gets its reference from the bank. *)
Pay(ref) ==
  /\ operator.pc = "pay"
  /\ ref \notin Refs(transferred)
  /\ LET out == [ref |-> ref, merchant |-> operator.merchant, amount |-> operator.amount]
     IN  /\ transferred' = transferred \cup {out}
         /\ operator' = [pc |-> "record", out |-> out]
  /\ UNCHANGED <<kioskVars, received, late, railVars, audit>>

(* `fupi-vault payout <merchant> <amount> --ref <UTR>', until it is done.  *)
Recorded ==
  /\ operator.pc = "record"
  /\ ExecutePayout(operator.out)
  /\ operator' = Idle
  /\ UNCHANGED <<received, transferred, late, railVars, audit>>

RecordFailed ==
  /\ operator.pc = "record"
  /\ late' = late \cup {Payout(operator.out)}
  /\ UNCHANGED <<kioskVars, received, transferred, railVars, operator, audit>>

-----------------------------------------------------------------------------
(* pilot_check: the balance is read first, then /v1/reconcile, then the    *)
(* report of the settlements, and the kiosk works on in between.           *)

(* What one lock of the kiosk's mutex shows. *)
Reading ==
  [reserve |-> reserve, issued |-> issued, deposits |-> deposits,
   settlements |-> settlements, payouts |-> payouts,
   allocated |-> Total(allocated), loaded |-> Total(loaded),
   settledCount |-> Cardinality(spent)]

ReadBalance ==
  /\ audit = Idle
  /\ audit' = [pc |-> "reconcile", bank |-> Bank,
               received |-> received, transferred |-> transferred]
  /\ UNCHANGED <<kioskVars, received, transferred, late, railVars, operator>>

ReadReconcile ==
  /\ audit.pc = "reconcile"
  /\ audit' = [pc |-> "report", bank |-> audit.bank, received |-> audit.received,
               transferred |-> audit.transferred, rc |-> Reading]
  /\ UNCHANGED <<kioskVars, received, transferred, late, railVars, operator>>

ReadReport ==
  /\ audit.pc = "report"
  /\ audit' = [pc |-> "evaluate", bank |-> audit.bank, received |-> audit.received,
               transferred |-> audit.transferred, rc |-> audit.rc,
               entries |-> settlements, paid |-> payouts]
  /\ UNCHANGED <<kioskVars, received, transferred, late, railVars, operator>>

EndCheck ==
  /\ audit.pc = "evaluate"
  /\ audit' = Idle
  /\ UNCHANGED <<kioskVars, received, transferred, late, railVars, operator>>

(* evaluate, one operator for each kind of FAIL but one: what is allocated *)
(* exceeds the cap that the operator gave (--max-total).  The report is    *)
(* taken to have the whole log, as it does up to 1000 entries; beyond, the *)
(* check does not compare the sum of the log.                              *)

BooksFail(rc) ==
  LET owed == Value(rc.settlements) - Value(rc.payouts) IN
  \/ rc.issued + owed > rc.reserve
  \/ Value(rc.deposits) - Value(rc.payouts) # rc.reserve
  \/ rc.issued < 0 \/ owed < 0
  \/ rc.loaded > rc.allocated

BankFails(bank, rc) == bank < rc.reserve

LogFails(entries, paid, rc) ==
  \/ Value(entries) # Value(rc.settlements)
  \/ \E m \in Payee : Value(For(entries, {m})) < Value(For(paid, {m}))
  \/ Value(entries) - Value(paid) # Value(rc.settlements) - Value(rc.payouts)

DayFails(rc, prev) ==
  \/ Value(rc.deposits) < Value(prev.deposits)
  \/ Cardinality(rc.deposits) < Cardinality(prev.deposits)
  \/ rc.settledCount < prev.settledCount
  \/ Value(rc.settlements) < Value(prev.settlements)
  \/ Value(rc.payouts) < Value(prev.payouts)
  \/ rc.allocated < prev.allocated \/ rc.loaded < prev.loaded
  \/ rc.reserve - prev.reserve #
       (Value(rc.deposits) - Value(prev.deposits)) - (Value(rc.payouts) - Value(prev.payouts))

-----------------------------------------------------------------------------
(* `fupi-vault allocate <device> <amount> --ref <id>'. *)
Allocate == \E dev \in Device, a \in Amount, ref \in Ref : AllocateDevice(dev, a, ref)

(* What participants and merchants do with the kiosk meanwhile, and the    *)
(* operator's allocations. *)
Trade ==
  /\ \/ Allocate
     \/ \E dev \in Device, seq \in SeqNo, p \in Proof : SignForDevice(dev, seq, p)
     \/ \E p \in Proof, m \in Payee, c \in BOOLEAN : SettleFor(p, m, c)
     \/ \E ins \in SUBSET signed, outs \in SUBSET Proof : Swap(ins, outs)
  /\ UNCHANGED <<received, transferred, late, railVars, operator, audit>>

PilotNext ==
  \/ \E pay \in Payment : Receive(pay)
  \/ Trade
  \/ \E r \in late : Late(r)
  \/ \E t \in Thread, pay \in received : Deliver(t, pay)
  \/ \E t \in Thread : Credited(t) \/ CreditFailed(t) \/ Emitted(t)
  \/ RailRestart
  \/ \E pay \in received, ref \in Ref : BankCommand(pay, ref)
  \/ \E m \in Merchant, a \in Amount : Report(m, a)
  \/ \E ref \in Ref : Pay(ref)
  \/ Recorded \/ RecordFailed
  \/ ReadBalance \/ ReadReconcile \/ ReadReport \/ EndCheck

PilotSpec == PilotInit /\ [][PilotNext]_pilotVars

-----------------------------------------------------------------------------
Uncredited == {pay \in received : Names(pay) \cap Refs(deposits) = {}}
Unrecorded == {out \in transferred : out.ref \notin Refs(payouts)}

(* One of the payments is in the books twice, under two of its names. *)
CreditedTwice(pays, credits) ==
  \E pay \in pays, c, d \in credits :
    c.ref # d.ref /\ {c.ref, d.ref} \subseteq Names(pay)

CreditedOnce == ~ CreditedTwice(received, deposits)

(* "one bank transfer = one unique ref" (PILOT_RUNBOOK.md:39), which makes *)
(* a credit idempotent (bank_rail.py:34): a payment that the operator only *)
(* ever enters with the bank's UTR is in the books once.  It is not: the   *)
(* rail credits the order id of the gateway, and the kiosk takes the two   *)
(* for two payments.                                                       *)
OneTransferOneRef ==
  ~ CreditedTwice({pay \in received : Cardinality(pay.hand) = 1}, deposits)

(* The reserve is the money in the account, to the unit, up to payments    *)
(* not credited yet and transfers not recorded yet, unless a payment was   *)
(* credited under two of its references: whatever is lost, repeated or     *)
(* late, none is credited twice under one, for another amount or before it *)
(* has arrived, and no transfer is booked twice (_emit, Deposit,           *)
(* RecordPayout).                                                          *)
BankMatches ==
  CreditedOnce => Bank = reserve + Value(Uncredited) - Value(Unrecorded)

(* The gateway is told 200 or 409, and stops retrying, only for payments   *)
(* that are in the books, whatever became of the deliveries before (_emit  *)
(* records the reference after the credit; credit_atm takes 409 for done). *)
Answerable == seen \cup {thread[t].pay.order : t \in {u \in Thread : thread[u].pc = "record"}}
AnsweredIsCredited == Answerable \subseteq Refs(deposits)

(* "Pay first, record second" works: what the report says a merchant is    *)
(* owed is in the account when the operator pays it, unless a payment was  *)
(* credited under two references, and what was paid can be recorded        *)
(* afterwards (SettlementReport, RecordPayout).                            *)
PayoutGoesThrough ==
  /\ operator.pc = "pay" /\ CreditedOnce => operator.amount <= Bank
  /\ operator.pc = "record" =>
       \/ operator.out.ref \in Refs(payouts)
       \/ MayPay(operator.out.merchant, operator.out.amount)

(* A FAIL of the daily check is never its own doing, except that it reads  *)
(* three things one after the other: a shortfall of the account is a       *)
(* transfer that is not recorded, a payment that arrived after the balance *)
(* was read, or one that was credited under two references; a log that     *)
(* does not add up has grown in between.                                   *)
FailMeansSomething ==
  audit.pc = "evaluate" =>
    /\ ~ BooksFail(audit.rc)
    /\ BankFails(audit.bank, audit.rc) =>
         \/ \E out \in audit.transferred : out.ref \notin Refs(audit.rc.payouts)
         \/ ~ Refs(audit.rc.deposits) \subseteq AllNames(audit.received)
         \/ CreditedTwice(audit.received, audit.rc.deposits)
    /\ LogFails(audit.entries, audit.paid, audit.rc) =>
         \/ audit.entries # audit.rc.settlements
         \/ audit.paid # audit.rc.payouts

(* The day-over-day part of the check never fails a kiosk that was not     *)
(* rolled back: nothing it compares ever shrinks, and the reserve moves by *)
(* deposits and payouts only.  Each step, and so any number of them.       *)
NeverLooksRolledBack == [][~ DayFails(Reading', Reading)]_pilotVars
=============================================================================
