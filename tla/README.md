# Verification of fupi in TLA+

fupi is offline digital cash. A kiosk (an "ATM", `kiosk-go`) takes deposits
into a reserve and blind-signs tokens against it. A vault (`vault-rust`) loads
tokens, pays with them offline, and makes change at the kiosk. A merchant's
vault accepts tokens offline and redeems them at the kiosk later; the operator
then pays the merchant out of the bank and records the payout.

This directory models the kiosk, the two roles of the vault, the files both
keep their state in, the keys a vault trusts, and the kiosk's surroundings in a
pilot: bank account, payment webhooks, operator and daily check. TLC checks
every model on small instances. TLAPS proves for every size the kiosk's
bookkeeping, that the server with its rollbacks and crashes implements it, that
the state files are atomic, that a payer loses no money and spends no coin
twice, that a merchant's receipts add up, that purse and takings are covered by
the kiosk's reserve whatever its other clients do, the selection of coins, the
pinning of keys, and the agreement of the books with the bank account.

Line numbers below are those of the commit the modules were written from.

## 1. The system

### Components, their state and their operations

| Component | State | Operations | Modelled in |
|---|---|---|---|
| kiosk ledger (`kiosk-go/main.go`, `settlements.go`) | `reserve`, `issued`, `spent`, the logs of deposits, settlements and payouts, per device `allocated`/`loaded`/`lastSeq`, the cache of answered swaps | `Deposit`, `AllocateDevice`, `BlindSign`, `SignForDevice`, `SettleFor`, `Swap`, `RecordPayout` | `Kiosk` |
| kiosk server | the mutex, the fields in memory, the saved state, what an operation in progress keeps for its rollback | every operation above as: change, save, answer or undo; crash; `applyState` at the start | `KioskServer` |
| kiosk state file | state file, `.tmp`, `.bak` | `saveState`, `loadState`, `NewKiosk` | `KioskStorage` |
| vault state file (`storage.rs`) | state file, `.tmp`, `.bak` | `save`, `load`, `wipe` | `FlashStorage` |
| vault of a payer (`vault.rs`, `client.rs`) | proofs, pending swap, outbox, `device_seq` | `topup_locked`, `pay`, `make_change`, `complete_pending_swap`, `recover`, `abandon_pending`, `ack_outbox` | `Purse` |
| vault of a merchant | proofs, receipts | `accept_payment`, `receive_token`, `settle_all` | `Terminal` |
| denominations (`denom.rs`) | none; pure functions | `split_amount`, `exact_subset` | `Denominations`, `ExactSubset` |
| keyset pinning, device key (`vault.rs`, `main.rs`) | pinned keysets, `trusted_keyset`, `device_key` | `pin`, `device`, first use by `topup`, `receive` and `verify`; every check against the pins | `Keysets` |
| HTTP interface, operator HMAC (`main.go`) | none of its own | decoding, authentication, status codes | the routes' operations and the status codes that clients act on (`Terminal`, `Pilot`); otherwise not |
| pilot check (`scripts/pilot_check.py`) | the report of the day before | daily audit of the account and two reports | `Pilot` |
| bank rail (`mvp/bank_rail.py`) | references seen | webhook to credit call, with retries | `Pilot` |
| Pico W vault (`pico_w/main.py`) | a file written in place | `topup`, `pay`, `settle`, `wipe` | no: see section 8 |
| cryptography (`crypto.rs`, parts of `main.go`) | none | blinding, signatures, locks | no: see section 8 |

### How they interact

- A vault calls the kiosk over HTTPS, one request at a time, and waits at most
  10 seconds (`client.rs:157`). When it stops waiting, or dies, the request may
  still be on its way.
- Every kiosk operation takes one mutex, checks, changes memory, saves the
  whole state, and answers; if the save fails it puts its own changes back.
- A payer gives a token to a payee out of band. Nothing stops the payer from
  giving the same token to someone else, or from changing it at the kiosk; the
  first to redeem wins.
- The bank's gateway reports a payment to the webhook rail, which credits the
  kiosk over HTTP; it retries until it is told 200 or 409. The operator may
  credit the same payment by hand, pays merchants from the bank's app and
  records the payout afterwards.
- Every day `pilot_check` reads the account's balance, `/v1/reconcile` and the
  report of the settlements, one after the other.
- Vault and kiosk each own their state file. One process per file is assumed;
  nothing in the code enforces it.

### What makes it hard, and what has to hold

- **Money must add up across four logs and three counters** of the kiosk, over
  any order of operations. `issued` is clamped at zero in `SettleFor`
  (`main.go:645`), which would hide an earlier miscount.
  *Correct when*: reserve covers tokens and claims, `reserve = deposits -
  payouts`, nobody is paid more than was settled for them, no secret redeems
  twice, quotas hold.
- **Rollback by hand.** Each operation undoes its own changes field by field,
  and each has a different list. *Correct when* memory equals the saved state
  whenever the mutex is free.
- **Crashes between file operations**, and power cuts that lose what was not
  synced. *Correct when* a save is atomic and a restart never takes a full
  state for an empty one.
- **Answers that are lost.** A swap may have been executed, refused, or be
  still on its way; a topup burns a sequence number; a settlement may have
  been booked. *Correct when* no money is lost and no coin spent twice however
  often the vault crashes and repeats itself.
- **Offline acceptance.** A token can be replayed, in whole or in part, before
  and after its settlement. *Correct when* every payment has one receipt and
  the receipts add up.
- **Keys that change.** Every kiosk has the same keyset ids and its own keys.
  A vault pins what it meets first, may be pointed at another kiosk later, and
  the keys may change between two requests of one command. *Correct when* it
  holds no coin that its pinned keys do not vouch for, and replaces no pin
  unasked.
- **One payment, reported many times**, to several threads, by a rail that
  forgets its references at a restart, with credit calls that time out and are
  executed later, beside an operator who credits by hand. *Correct when* the
  books agree with the account but for what is not booked yet, and no payment
  is booked under two names.
- **An audit of a moving kiosk.** *Correct when* a FAIL has a cause outside the
  audit itself.

`PROJECT.json` lists each hazard with its line and the properties about it.

## 2. The modules

```
Money ──────────── sums over ledgers and functions
  ├─ MoneyLemmas   proofs about them
  └─ Kiosk         the ledger, one step per operation
       ├─ KioskProofs   theorems about Kiosk
       ├─ KioskServer   change, save, undo, crash      ── implements Kiosk
       │    └─ KioskServerProofs   theorems about KioskServer (with KioskProofs)
       ├─ Purse         a payer's vault + the kiosk + a network
       │    └─ PurseProofs   theorems about Purse and ExactSubset (with KioskProofs)
       ├─ Terminal      a merchant's vault + the kiosk + a network
       │    └─ TerminalProofs   theorems about Terminal (with KioskProofs)
       └─ Pilot         the kiosk + account, webhook rail, operator, daily check
            └─ PilotProofs   theorems about Pilot (with KioskProofs)
Keysets ────────── keys a vault trusts, over kiosks with different keys
  └─ KeysetsProofs theorems about Keysets
AtomicStore ────── what a state file promises
StateFiles ─────── three files, kills, power cuts
  ├─ FlashStorage  the vault's storage.rs              ── implements AtomicStore
  ├─ KioskStorage  the kiosk's saveState/loadState     ── implements AtomicStore
  └─ MCStateFiles  one or the other, each under its faults
       └─ StateFilesProofs   theorems about both
Denominations ──── split_amount (also in Purse)
  └─ ExactSubset   exact_subset, coin by coin
MC*                instances for TLC
```

The layers fit together by assumption and proof obligation: `Purse`,
`Terminal` and `Pilot` use the operations of `Kiosk` as one step each, which
`KioskServer` justifies, and are proved to take no other step at the kiosk
(section 5); `KioskServer`, `Purse`, `Terminal` and `Keysets` treat
a save as one step that succeeds or fails, which `KioskStorage` and
`FlashStorage` justify. `Keysets` is the part of the vault that `Purse` and
`Terminal` leave out; it leaves out theirs: amounts, sequence numbers, the
network.

Some definitions have a neighbour with a similar name that no specification
uses: `CheckSignature` beside `CheckProof`, `SkipSync` beside `SyncTmp`. It is
the mistake the code could plausibly contain. Put in place of the right
definition it makes the named property fail, which shows that the property is
about the code (`PROJECT.json`, `mutants`).

### Kiosk

One action per handler; guards are the handler's refusals. A proof is a record
of its secret and the denomination of the key that signed it, for the kiosk
takes the value from the keyset and never from the request
(`amountForKeyset`). A valid signature is membership in `signed`: the
signatures that have left the kiosk. `BlindSignNoSave` counts the token as
issued and releases the signature *or not*, because the answer can be lost.
`spent`, the logs and the counters are the Go fields of those names;
`depositRefs`, `payoutRefs` are the references in the logs. `swapCache` is the
map and its order together. Amounts are integers where the code uses floats.

### KioskServer

The same operations, applied to fields in memory, followed by `Save` (and only
then the answer: `signed' = computed`) or by `SaveFails`, the operation's own
rollback, translated field by field. `Crash` may come at any time, also between
the change and the save. `Restart` is `applyState`, with the opening balance it
books when the reserve exceeds the ledger.

`Saved` is the refinement mapping: every variable of `Kiosk` is the field *on
disk*, `signed` is what was answered.

### StateFiles, FlashStorage, KioskStorage, AtomicStore

Three files, as the program sees them and as they are on the medium. Creating,
writing (in part, then whole), syncing, copying (truncate, then fill) and
renaming are separate steps, so a fault can fall between any two. A killed
process loses nothing it has written. A power cut loses what was not synced:
unsynced data may be there, missing or torn; a rename is there or not, and
nothing after it without it.

`AtomicStore` is what the rest of the system needs: a save that returned is
what the next load finds; one that failed or was cut short is found or not;
after a power cut the state before may be found, never an older one.

### Purse

The vault in memory, the state file, the running command, a network that holds
requests until the kiosk handles them or they are lost, and a kiosk with one
other vault at it. A vault that stops waiting (`MissSignature`, `LeavePending`,
`AbandonRefused`, `Restart`) leaves its request in the network, where the kiosk
may still handle it. Every save succeeds or fails. `handed` and `lost` record
what was given away and what no state file ever held; `abandoned` that the
operator used `recover --abandon`. `MaxTarget` is the code's limit for a
payment (`MAX_EXACT_TARGET`) and a bound of the model for a topup. Both vaults
start with quotas that a deposit covers (`InitKiosk`), and the other one has
loaded its own.

### Terminal

The merchant's vault, the network and a kiosk, with payers who settle the same
token elsewhere (`SettledElsewhere`), change it (`ChangedElsewhere`), show it
again, or show it before the kiosk has signed it. The offline check
(`verify_offline_set`) is `Verified`: all proofs of the token are signed.
Of proofs with the same secret, which the kiosk signs under two denominations
if it is asked to, accept refuses the token and receive keeps one (`Distinct`;
`vault.rs:813-816`, `738-745`).
`Environments` says which tokens are shown and whether the merchant uses
`receive` and the kiosk can fail to save.

### Keysets

A key is named after the kiosk installation that made it; `Offers` is a keyset
list, with no key for a denomination that is not in it. Any kiosk may answer
any request, so the keys offered at the start of a topup need not be those of
the kiosk that signs. `Fetched` has two values, because `fetch_keysets` falls
back to the one legacy keyset whenever `/v1/keysets` fails. `mem` and `flash`
are `FlashState` in memory and in the file, reduced to the pins, the device
key, the kinds of coin (denomination and key) held and the pending swap. A
command of its own process starts with `mem = flash`; in the prompt commands
share `mem`, also what an earlier one could not save. `disowned` remembers the
coins whose key `pin --force` replaced, `shown` the device keys that the
operator or a kiosk has seen.

### Pilot

`Kiosk` with what surrounds it. The rail's threads each pass through check,
credit and record (`Deliver`, `Credited` or `CreditFailed`, `Emitted`);
`RailRestart` loses its references. A credit or payout whose sender gave up may
wait in `late` and be executed at any later time, or never. The kiosk executes
a request (`ExecuteCredit`, `ExecutePayout`) or answers 409 because it has done
so before. `operator` is the payout under way: decided from a report, paid in
the bank's app, recorded and retried until it is. `audit` is a run of
`pilot_check` with what it has read so far; `BooksFail`, `BankFails`,
`LogFails` and `DayFails` are the comparisons of `evaluate`.

A payment is a record of the names it goes by: `order`, under which the gateway
reports it and the rail credits it (`bank_rail.py:121`), and `hand`, those the
operator enters: the bank's UTR, or a new one each time without `--ref`
(`main.rs:195-205`). The names may coincide (a gateway that reports the bank's
reference); no two payments share one. The kiosk recognises a payment by the
reference it is told, so a payment may be credited under two (section 7).

### Denominations, ExactSubset

`split_amount` as a recursive function, `exact_subset` as the loop it is
(`Search`): one step per coin, with the map of sums found. Both are compared
with the plain definition: some set of coins has that sum.
`KioskDenominations` is the series the kiosk signs (`main.go:77`).

## 3. The runs

| Run | Question | Result |
|---|---|---|
| `kiosk_core` | Do the kiosk's books stay right over every order of operations? | ten invariants hold |
| `kiosk_server` | Do failed saves, crashes and restarts leave whole operations only? | `KioskServer` implements `Kiosk`; every rollback is complete |
| `state_files` | Are the saves of kiosk and vault atomic, does each start again after any fault, is a wipe complete? | yes, losing at most the last operation, and that only to a power cut or a bad file, under the faults listed below |
| `coins` | Do `split_amount` and `exact_subset` compute what they promise? | yes |
| `purse` | Is money lost or spent twice by a payer's vault, is its balance covered, does an interrupted swap end? | no; it is, beside all claims of payees; it does, if `recover` is repeated and the answer is not evicted |
| `terminal` | Do receipts name each payment once, add up and claim no more than the kiosk owes and its reserve covers; is good money dropped; is every accepted token answered for? | they do; none is, while the kiosk can save; it is, if `settle-all` is repeated |
| `keysets` | Can a vault come to hold coins its keys do not vouch for, change a pin unasked, or lose a device key that was shown? | no |
| `pilot` | Do account and books agree, can every payout be recorded, does a FAIL of the daily check mean something? | yes, as long as no payment is credited under two of its references |
| `terminal_dropped`, `terminal_overdrawn`, `purse_abandoned`, `pilot_credited_twice` | Does what the documentation says of the program hold? | no: section 7 |

### Bounds, and why they are enough

- **kiosk_core**: three secrets, one of them locked; denominations 1 and 2, so
  that a swap can be 1+1 for 2 and the same secret can be signed under two
  denominations; one device with two requests; a payee with a label and one
  without; two references each for deposits, allocations and payouts; amounts
  1 and 3; a swap cache of two answers, so that two cached swaps can be compared
  and a third evicts (`maxSwapCache` is 2000, `main.go:136`; eviction looks at
  no other number).
  `FewAnonymous` limits anonymous issuance, which nothing else bounds, to two
  secrets. What depends on larger numbers is proved (section 5).
- **kiosk_server**: two secrets of one denomination: enough for a swap, its
  eviction, a settlement and every rollback to interleave with crashes.
- **state_files**: three states of the program: the last, the one
  before, and an older one that must not come back. The code never looks into
  a state, so no more are told apart. Faults are taken in groups, each
  repeated without bound:
  vault: {kill, failed operation}, {kill, power cut}, {bad state file, failed
  recovery}, {kill, power cut, wipe}, {failed operation, wipe}; kiosk: {kill,
  failed operation}, {kill, failed operation, power cut}, {bad state file}.
  Groups left out are double faults that do lose a state: in the vault a kill
  during the save that follows an ignored recovery error, or a bad state file
  while `.bak` is being copied, destroys the only good copy; a failed first
  save whose `.tmp` survives a power cut can resurface after later ones; in
  the kiosk a file that goes bad and a kill during the start that repairs it.
- **coins**: purses of up to five coins of 1, 2, 5, 10 and 20, amounts up to
  40, at most four proofs to a split (`MAX_SPLIT_PROOFS` is 1000,
  `denom.rs:14`): both sides of the limit, amounts no subset makes, and two
  rounds of the 1, 2, 5 series.
- **purse**: five secrets of this vault, one of which is locked, two
  of another; quota 2, two requests, amounts to 2: topup in one coin or two,
  payment with exact coins, payment that needs change, a pending swap whose
  answer was lost, and a second one after it.
  `PurseMoney` asks that the deposit behind the quotas (here 3) is an amount
  and `PurseAssumption` that the vault's sequence numbers are a kiosk's, as the
  constants of `Kiosk` say which deposits and numbers there are.
  The swap cache holds one answer, so that a swap of the other vault evicts the
  one that a pending swap needs. `purse_abandoned` needs fewer secrets and no
  locked one, and has a cache that evicts nothing, so that what it finds is the
  abandoning alone.
- **keysets**: two kiosks, two denominations (one of them the legacy one), one
  device key, tokens of one or two kinds of coin. Denominations are checked one
  by one, so two show a list of which a part is pinned; two keys are what a
  changed key needs.
- **pilot**: two references for payments, transfers and allocations, two coins
  of 1, one device, one merchant beside the unlabelled payee, two threads of
  the rail. A payment may have one reference for everybody, one for the gateway
  and another for the operator, or a choice of two for the operator; two
  deliveries, a late request and the operator can meet on it, and a second
  payment or payout changes the totals meanwhile.
  References, threads and coins are symmetric. `CheckWithoutRail` keeps the
  rail and late requests quiet while the check reads, as the operator's own
  credits and payouts show the kiosk the same steps; the proofs do without it.
- **terminal**: a coin of 1, a coin of 2, a token of both, a locked coin, one
  that exists only after a swap, and a secret signed under two keys; in each
  environment up to three tokens of these. What payers have loaded is an amount
  (`TerminalAssumption`), for it was deposited. A rejected value above `MaxRejected`
  stops further `receive`, which alone can repeat forever.

## 4. Fairness

Safety needs none. The two liveness properties, `PendingEnds` of `purse` and
`EverythingAnswered` of `terminal`, assume something of the user and of the
network, and nothing of crashes and payers:

- A command does not hang: its HTTP client gives up after 10 s
  (`client.rs:157`), hence weak fairness of the actions that end a waiting
  command.
- The user repeats `recover` (`Purse`), the merchant repeats `settle-all`
  (`Terminal`), as both commands tell them to. `recover` is enabled as long as
  the swap is pending, `settle-all` only between interruptions, hence weak and
  strong fairness.
- A request that is sent again and again is handled in time at some point, and
  a save that is tried again and again succeeds at some point: strong fairness
  of `KioskSwaps`/`KioskHandles` for awaited requests and of taking an answer
  with a successful save.

Without the last two the system may forever lose every answer. Crashes are
never fair and never excluded.

## 5. What is proved

### The kiosk

`KioskProofs` proves, for every finite set of secrets, devices, denominations
and references and any set of merchants and amounts (`KioskAssumption`):

| Theorem | For every reachable state |
|---|---|
| `TypeCorrect` | the type invariant |
| `FullyBacked` | `issued + owed <= reserve` |
| `LiveTokensCovered` | tokens still redeemable are worth at most `issued`: the clamp hides nothing |
| `LedgerAddsUp` | `reserve = deposits - payouts` |
| `NobodyOverpaid` | no group of payees is paid more than was settled for it |
| `NoDoubleSpend` | no secret is settled twice, settled and exchanged in a cached swap, or exchanged in two of them |
| `LocksHold` | a locked token is spent only by settlement |
| `QuotasHold` | no device loads more than its quota |
| `LoadedAddsUp` | without anonymous issuance, loaded = issued + settled |
| `AllocationsDeposited` | all quotas together are at most what was deposited |

The assumptions are that the sets of secrets, denominations, devices and
references are finite, denominations, amounts and sequence numbers positive,
and `(unlabeled)` not a label; TLC evaluates them in `kiosk_core`. The kiosk
itself is unbounded in the number of steps.

**The argument.** None of the money properties is inductive alone. Whether a
payout keeps the reserve non-negative depends on `Backed` and on nobody being
overpaid; whether `SettleFor` subtracts without clamping depends on
`LiveCovered`; whether a settlement adds a *new* entry to the log depends on
`RedeemedOnce` tying the log to `spent`. The inductive invariant is their
conjunction:

    Books == TypeOK /\ RedeemedOnce /\ NeverOverpaid
             /\ LiveCovered /\ Backed /\ LedgerConsistent

`BooksInit` and one lemma per operation (`DepositKeepsBooks`, ...,
`RecordPayoutKeepsBooks`) establish it, `BooksNext` puts them together.
The remaining theorems use `Books` or, where they need less, their own small
invariant.

**Sums.** `Total(f)` is defined as the number of units `{<<x, k>> : k \in 1 ..
f[x]}` rather than by recursion, so that everything follows from the library's
theorems on cardinality. `MoneyLemmas` proves what sums do under adding,
removing, updating and disjoint union. `MCKiosk` checks with TLC that they are
the sums of the community modules.

### The kiosk server

`KioskServerProofs`, under `KioskAssumption` (`ServerAssumption`):

| Theorem | |
|---|---|
| `MemoryMatchesDisk` | whenever the mutex is free, memory is what a restart would read |
| `ServerImplementsKiosk` | what is on disk and what was answered change by whole operations of `Kiosk` |
| `SavedBooksInOrder` | `Books`, the kiosk's invariant, holds of the state file at every moment |

The invariant says of the operation that holds the mutex how it has changed
the fields since the state on disk, and what `holder` remembers of it
(`Mutex`): memory with the holder's undo applied is the disk. Two of the undos
are not the inverse of their operation by themselves. A settlement is undone by
removing the entry with the highest number, so no entry on disk may have a
higher one; a swap by dropping the newest answer, so the cache must not have been
overfull (`Saving`). These facts come from `Books` of the state on disk, which
is why it is a part of the invariant: a step keeps it because the step is one of
`Kiosk`, and is one of `Kiosk` because of it.

### The state files

`StateFilesProofs`, for any set of program states, under the groups of faults of
section 3:

| Theorem | |
|---|---|
| `SavesAreAtomic` | `KioskStorage` and `FlashStorage` implement `AtomicStore` |
| `KioskAlwaysStarts` | a kiosk that has saved starts again, with the last state but for the exceptions named there |
| `VaultAlwaysStarts` | between any two calls of save and load the vault's files hold a state saved |
| `WipesAreComplete` | a wipe without failing operations leaves nothing |

Each group of faults has its own reason why the state survives, and the
invariant has a part for each: with kills and errors the state file itself
(`KioskKept`, `VaultKept`); with a file that goes bad, `.bak` (`KioskInBak`,
`VaultInBak`); with power cuts one of three phases: no save has returned, the
first rename is not on the medium and `.tmp` is, or every rename but the last
is (`...FirstSave`, `...Undone`, `...OnMedium`). `Synced` links them: between
the sync of `.tmp` and the rename, medium and program agree on both files.

### A payer's vault

`PurseProofs`, under `KioskAssumption`, for denominations up to `MaxTarget`
(`PurseDenominations`) and any secrets, devices, payees and network
(`PurseAssumption`, `PurseMoney`: constants that fit together):

| Theorem | |
|---|---|
| `TypeCorrect` | the type invariant |
| `SeqsAreFresh` | an awaited request has a number that the kiosk has not seen |
| `CoinsSpentOnce` | no coin is in two tokens, or given away and in the purse or the pending swap, also after `recover --abandon`; until a swap is abandoned, no request in flight can exchange a coin given away, and payees alone have spent those |
| `BalanceIsReal` | the kiosk would take every coin in the purse, until a swap is abandoned |
| `NoTokenLost` | every good token is in the purse, in the pending swap or with a payee, or was never saved by a topup; until a swap is abandoned |
| `AnswersAreKept` | a pending swap that was executed has its answer in the kiosk's cache, or the cache is full of other vaults' swaps only |
| `AnswersLast` | an answer enters the cache as the newest, and only a further swap at a full cache brings it nearer to eviction |
| `ChangeIsEnough` | after `make_change` the coins add up to the amount |
| `BalanceIsBacked` | the reserve covers the purse, the pending swap and all claims of payees together, until a swap is abandoned |
| `KioskTakesItsSteps`, `KioskKeepsItsPromises` | the kiosk's invariants hold with these clients: see below |

The invariant has a part for each thing that can go wrong. `Base`: the types,
and by how much the file may lag behind memory. `SeqsGrow`: of the requests in
flight the awaited one has the highest number. `CacheIsSigned`: what is in the
cache was executed. `GivenAway`: a coin is in one place. `Sound`: a pending swap
was executed wholly or not at all and no other request can still be executed
(`Swaps`), no secret was drawn twice (`DrawnOnce`), a good token is somewhere
(`NotLost`). The three parts of `Sound` need each other: a swap is atomic
because its inputs are nobody else's, they are because secrets are fresh, and
secrets are fresh because what was asked for is remembered until it is
answered or abandoned.

`AnswersAreKept` says what costs a vault its answer: a whole cache of swaps of
others, never anything it does itself while the swap is pending. `Cached` is its
inductive form: the answer is in the cache with only answers of others behind
it, or a whole cache of others' is there. By `Swaps` the kiosk would execute no
request but the pending swap's, so what enters behind the answer is of another
vault (`OthersLeaveAnswer`). `AnswersLast` counts: the answer outlasts
`MaxSwapCache - 1` swaps of anyone after its own (2000 in the code).
`SpentByPayee`, the last part of `CoinsSpentOnce`, follows from the part before
it: a coin given away is spent by a settlement or by a swap in flight, and no
swap in flight that the kiosk would execute has one among its inputs.

### The vaults and the kiosk together

`Purse` and `Terminal` surround the kiosk with clients that repeat, delay, lose
and spend twice. In both, `StepsAreKioskSteps` shows that a step is one
operation of `Kiosk` or leaves the kiosk alone (`KioskTakesItsSteps`), and
`KioskBegins` that the kiosk they start with has its books in order. `AllBooks`
of `KioskProofs`, the conjunction of the ten invariants of `kiosk_core`, is
inductive under the operations of `Kiosk` alone (`AllBooksNext`), so all ten
hold in both systems (`KioskKeepsItsPromises`). `Books == INSTANCE KioskProofs`
brings its theorems in as those of a second instance of `Kiosk`; `Sums`,
`SameOperations` and `SameBooks` say that this instance and the one the module
runs (`K`) have the same operations and invariants.

Two theorems need both halves. `BalanceIsBacked`: by `Sound` every coin of the
purse is live at the kiosk, and of a pending swap the inputs or the outputs
are; by `LiveCovered` and `Backed` what is live is covered beside all claims.
`TakingsAreBacked` needs that no secret is on two receipts (`AcceptedOnce`):
then the log entries behind the receipts are disjoint, and what the receipts
show as settled adds up to no more than the log holds for this merchant
(`SettledIsCovered`, from `TotalOfParts`). Neither half gives this alone: a
vault may keep its own records without fault and be owed money that is not
there, and a backed kiosk says nothing about what a vault shows.

### The selection of coins

`PurseProofs`, for any denominations, limit, number of coins and amounts:

| Theorem | |
|---|---|
| `CoinsPayExactly` | `exact_subset` finds a sum exactly when some choice of coins makes it; what it chooses are different coins that add up |
| `SplitsAreShortest` | `split_amount` adds up and keeps its limit; with the kiosk's denominations it refuses only what the limit forbids |

The first is a loop invariant with two sides. `Table`: the coin kept for a sum
was looked at after those of the sum before it, so that the way back falls
through the coins and uses none twice. `AllSums`: the sums found are all that
the coins looked at can make, up to the target. The way back (`Chosen`) is a
recursive function; that it is defined and adds up follows by induction over
the sums.

The second has the hypothesis `Denom \in SmallestDenominations`: the kiosk's
1, 2, 5, ..., 500, or those of them up to some largest. (From 5 and 2 alone the
code refuses 6, so some hypothesis on the series is needed.) The greedy split is
the shortest because there is a function that counts the coins of a shortest
split (`Counts`): any coin taken away lowers it by at most one, and the largest
that fits by exactly one. It is `Ones`, `Twos` or `Fives` for the smallest
series, and if it exists for a series it exists for ten times that series with
1, 2 and 5 (`Tenfold`, `TenfoldCounts`), which used twice reaches the kiosk's.
Then no choice of coins is shorter than the split (`NoFewerCoins`).

### A merchant's vault

`TerminalProofs`, under `KioskAssumption`, for any environments, tokens and
number of payments:

| Theorem | |
|---|---|
| `TypeCorrect` | the type invariant |
| `NoReplayAccepted` | no secret is on two receipts |
| `SettledIsInTheLog` | what the receipts show as settled is in the kiosk's log for this merchant |
| `HeldOrBooked` | every proof of a payment is held or booked, once (where `receive` is not used: section 7) |
| `DroppedIsSpentOrUnclaimed` | while the kiosk can save, a proof that is no longer held is spent or had a lock that was not claimed |
| `TakingsAreBacked` | what the receipts show as settled, the good proofs held and what is owed to others are together covered by the reserve |
| `KioskTakesItsSteps`, `KioskKeepsItsPromises` | the kiosk's invariants hold with these clients: see above |
| `NoGoodMoneyDropped` | with the claim key in every `settle-all`, no good money is dropped while the kiosk can save |

`Base` ties the three records of a payment together: memory and file agree on
the receipts (`Vault`), an awaited request is for the proof at which the
command stands (`Requests`, `Running`), and the kiosk's log is in order
(`KioskLog`). Then an answer is good for one booking, because the proof leaves
the vault, and the command's list, in the save that books it. `Owed` adds that
an answer not yet booked is in the log and not counted on a receipt. The
hypothesis `ClaimKeys = {TRUE}` of the last theorem is the one of the run: a
merchant that settles a locked token without its key is answered 409, and drops
it. `DroppedIsSpentOrUnclaimed` says what is true without it.

### Keyset pinning

`KeysetsProofs`, for any kiosks, denominations and device keys
(`KeysetsAssumption`: the legacy denomination is one of them, `None` is none):

| Theorem | |
|---|---|
| `HeldIsPinnedAlways` | every coin held, in memory and in the file, is of the key pinned there, unless `pin --force` replaced it |
| `OnlyForceReplacesAlways` | only `pin --force` puts another key in the place of a pinned one |
| `DeviceKeySavedAlways` | a device key that was shown is the one in the file |

`HeldIsPinned` is not inductive by itself: a topup compares the signatures it
gets with the keys it was offered when it began. `Trust` adds that those are
the pinned ones for as long as it runs (`OfferPinned`) and that a swap in
progress is a pending one. The other two theorems rest on it.

### The pilot

`PilotProofs`, for any threads, payments, merchants and devices, under
`KioskAssumption`:

| Theorem | |
|---|---|
| `PilotIsKiosk` | the pilot is a behaviour of `Kiosk`: all its theorems hold |
| `BankAlwaysMatches` | account = reserve + payments not credited - transfers not recorded, unless a payment was credited under two references |
| `AnswersAreTrue` | a payment answered with 200 or 409 is in the books |
| `PayoutsGoThrough` | what is owed is in the account, with the same exception; what was paid can be recorded |
| `FailuresMeanSomething` | a FAIL of the check has a cause outside it: what it may be is listed |
| `WorkIsNoRollback` | no step makes a checked total shrink |

The invariant is `Books` of the kiosk and `PilotInv`: one entry per reference
in every ledger and statement, with every deposit under a name of a payment
received and for its amount, and payouts from transfers made (`Account`); every
request in a thread or on its
way is for a payment or transfer of the statement (`Requests`); seen
references are deposited (`Answers`); and what the operator is about to pay is
owed, and nobody but the operator's own, earlier requests can lower it
(`Paying`). No two payments share a name, so each deposit stands for one payment
(`StandsFor`), and while no payment is credited twice for one each: then the
deposits are worth what the payments in the books are (`DepositsStandFor`), and
`BankAlwaysMatches` is arithmetic. `Auditing` says what the readings of a check under way have in
common with the present: what is only added to.

## 6. What is only model-checked

- Liveness (`PendingEnds`, `EverythingAnswered`), which is out of the prover's reach.
- That `Total`, defined by counting, is the sum of the community modules
  (`MCKiosk`).
- What section 3 says of the groups of faults that were left out.

Every invariant and action property of a passing run is stated by a theorem.
The type invariants of `Purse` and `Terminal` are left to their theorems
(`TypeCorrect`); no run repeats them.
The library's induction theorems take an operator as a parameter, which the
provers cannot instantiate; where a proof needs induction over numbers it uses
`NatSetInduction`, an induction over sets.

## 7. What was found

### Disagreements between the code and what it says of itself

1. **`terminal_dropped`: a good token thrown away.** The kiosk cannot save a
   settlement, rolls it back and answers 409 like a double-spend
   (`main.go:652-657`, `1418`). `settle_all` drops any proof answered 409,
   while `vault.rs:844-845` says that it drops those "already spent elsewhere,
   bad lock". The merchant has lost the money.
2. **`terminal_overdrawn`: negative pending.** `receive` looks for a replay
   among the proofs held, not among the receipts (`vault.rs:740`). A token
   accepted, settled and then received again is rejected at the next
   `settle-all` and booked on the old receipt; `receipts` then computes
   `amount - settled - rejected` below zero in an unsigned type
   (`main.rs:654`). `CODE_PLAN.md:86` calls these the audit log.
3. **`purse_abandoned`: a coin given away and exchanged.** A refusal of
   `recover` is no refusal of the swap: an earlier copy of the request may still
   be on its way, and the kiosk answers 409 also when it could not save
   (`CODE_PLAN.md:135`). Abandoning the swap then, as `PILOT_RUNBOOK.md:78` says
   and `vault.rs:609-610` calls safe, restores inputs that the vault may pay
   with and the late request then exchanges. The payee is refused; the vault has
   thrown away the secrets of what it was exchanged for.
4. **`pilot_credited_twice`: one transfer, two references.** The webhook rail
   credits a payment under the gateway's order id (`bank_rail.py:121`), the
   operator under the bank's UTR (`main.rs:195-205`). If the rail was down and
   the operator credits by hand, as `PILOT_RUNBOOK.md:75` asks, the gateway's
   retry credits again: reserve without money behind it, against "one bank
   transfer = one unique ref" (`PILOT_RUNBOOK.md:39`). The daily check sees it,
   as a shortfall of the account (`FailMeansSomething`).

### Observations that no run is about

- A settlement whose answer is lost stays held and is sent again
  (`vault.rs:864`). The kiosk, which has settled it, answers 409, and the
  receipt shows `rejected` for money that the kiosk owes to this very merchant;
  `PILOT_RUNBOOK.md:79` takes that for "the payer spent the same token
  elsewhere first". (`SettledIsOwed` has `<=` for this reason.)
- `fetch_keysets` takes any failure of `/v1/keysets` for an old kiosk
  (`vault.rs:189-195`). A failure at the first use pins the legacy keyset alone,
  and every later topup is refused until `pin --force`.
- `pin --force` ignores everything the check says (`main.rs:571-576`), also a
  malformed exponent. While a swap is pending it leaves that swap unverifiable:
  its outputs were blinded for the keys before.
- `receive` and `verify` pin what they meet first without the check, and go on
  when the pins cannot be saved (`main.rs:468-472`).
- A `WIPE` at the prompt that fails leaves memory empty over the old file; the
  next command that saves replaces the file by the empty state and what it did.
- `pilot_check` can FAIL a sound kiosk: when a credit, settlement or payout
  falls between its readings, or while a transfer waits to be recorded. But for
  payments credited under two references, `FailMeansSomething` says that there
  is no other case.
- `PILOT_RUNBOOK.md` says that a restored old backup fails the check. It does
  only while the totals are below the last logged ones; once trade has brought
  them back past those, the day-over-day part sees nothing (the comparison
  with the account still does).
- With an in-process `bind(kiosk.credit_reserve)`, as in the demos, nothing
  behind `_emit` knows references: two concurrent deliveries credit twice,
  though its docstring says "Credit once per ref" (`bank_rail.py:52-58`).
  `Pilot` has the credit over HTTP, where the kiosk refuses the second.
- `bank` and `allocate` without `--ref` draw a new reference at every retry
  (`main.rs:198-204`, `607-613`), so a retry after a lost answer credits or
  allocates a second time. `Pilot` has this for credits (`hand` with two
  references).
- Quotas are compared with the reserve when they are given (`main.go:496`), and
  a payout lowers the reserve later: the quotas together can exceed it. They
  never exceed the deposits (`AllocatedWasDeposited`), and issuance remains
  limited by the 1:1 rule.
- A token settled without a label is owed to `(unlabeled)`, which
  `RecordPayout` refuses (`settlements.go:144`). Its claim stays covered by the
  reserve and can never be paid.
- `wipe` ignores the errors of removing `.tmp` and `.bak`
  (`storage.rs:162-166`) and returns Ok; the next `load` restores from what
  stayed, though `vault.rs:886` calls it a "Complete vault wipe".
  `VaultWipes` assumes that no file operation fails, and does not see this.
- A swap's answer is kept for `maxSwapCache` swaps (`main.go:746`, 2000). A vault
  that recovers later than that finds its swap refused and its inputs spent,
  though `vault.rs:461-462` says that it "gets the same signatures: nothing is
  lost". The run `purse` contains this; `SwapRecoverable` and `PendingEnds` say
  what holds nevertheless.
- `split_amount` is greedy (`denom.rs:40`): from 5 and 2 alone it refuses 6.
  With the mint's 1, 2, 5, ... it never refuses what is possible.

## 8. What is not modelled, and why

- **Cryptography.** Blinding, RSA, hashing and ed25519 are numbers of thousands
  of bits. The models take their promise as given: a valid signature is one
  the kiosk made, a device request is one the device signed, a claim one the
  owner of the lock signed.
- **TLS, HTTP decoding, operator HMAC, parsing of the command line, dashboard,
  display.** They refuse or format requests and keep no state. The status codes
  a client acts on are modelled.
- **Bank statements and Lightning invoices** (`bank_rail.py`): their parsing.
  What they do with a payment is `_emit`, as for the webhook, one at a time.
- **The Pico W vault** (`pico_w/main.py`), a small sequential program without
  pins, device key, TLS, swap or outbox; only a kiosk with anonymous issuance
  serves it. It writes its file in place (`main.py:60-62`) and saves a payment
  before it prints the token, so a cut at the wrong moment loses money; it
  promises nothing that a model could hold it to.
- **Floating point.** `reserve` and deposits are `float64` in the kiosk; the
  models use integers, so rounding of fractional deposits is not covered.
- **Pins and money together.** `Purse` and `Terminal` have one kiosk and start
  with its keysets pinned; `Keysets` has many and no amounts.
- **Power cuts in the larger models.** `Purse`, `Terminal`, `Keysets` and
  `KioskServer` take a save that returned as durable. `AtomicStore` promises
  that for kills and failed operations only: a power cut can take the last save
  back. What then happens (a payment whose token was printed is in the purse
  again, a sequence number is used twice) is outside these models.
- **The start flag of anonymous issuance.** `allowAnon` is chosen once and kept
  over restarts, while an operator may start the kiosk with another flag each
  time (`main.go:1455-1470`). `LoadedIsIssuedOrSettled` is therefore about a kiosk
  that was never started with it.
- **Sizes of a swap.** The kiosk refuses more than 64 inputs or outputs
  (`main.go:691`) and an input named twice (`main.go:704`); the models have no
  limit, and sets of inputs, which name nothing twice.
- **`recover --abandon` at any time.** The command runs whenever it is typed;
  `Purse` has it after a refused `recover` only, as the runbook says. Without a
  refusal it loses money in the obvious way.
- **Two FAILs of the daily check.** The cap of the pilot (`--max-total`,
  `pilot_check.py:61-64`) compares a setting of the operator's. The log is
  compared only up to 1000 entries (`pilot_check.py:84`); the model compares it
  always.
- **Two processes on one vault file.** Nothing locks it; the models have one.
- **The prototype in `mvp/`** (`kiosk.py`, `vault.py`, the demos), superseded by
  the Go and Rust programs.
- **The file system** is an assumption (`StateFiles`), not code of this
  repository: renames commit in order, `fsync` of a file commits the renames
  before it. One case outside `StartsWithoutLast` is known: the very first
  save of a kiosk, recovered from `.tmp`, is saved into that same `.tmp`, and a
  second power cut there leaves nothing readable.

## 9. Plan

Done: all modules of section 2 with their runs, and the theorems of section 5,
which state every safety property that a passing run checks.

Left:

1. **Prove.** `KioskServer` under `Purse` and `Terminal`: that a kiosk that
   fails and restarts is no worse to them than one that refuses. `Kiosk` has
   the refusals, and `KioskServer` implements `Kiosk`; the composition of the
   two is an argument of section 2.
2. **Model.** Two vault processes on one state file (`vault.rs:96`), of which
   each works on what it loaded at its start; `Keysets` and `Purse` over one
   state of the vault, if their product stays within TLC's reach.

## 10. Running it

    tlc -config MCKiosk.cfg MCKiosk          # a run: see PROJECT.json for all
    tlapm KioskProofs.tla                    # proofs: also MoneyLemmas and the
                                             # other modules named *Proofs
