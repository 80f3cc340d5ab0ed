---------------------------- MODULE PurseProofs ----------------------------
(***************************************************************************)
(* The payer's vault: what a topup, a payment, a swap and a recovery keep, *)
(* for any denominations, secrets, kiosk and network.                      *)
(*                                                                         *)
(* The invariant has a part for each thing that can go wrong. Base: the    *)
(* types, the state file lags behind memory only by what a running topup   *)
(* has not saved, and a request is awaited only while its command runs.    *)
(* SeqsGrow: of the requests in flight the awaited one has the highest     *)
(* number. CacheIsSigned: what the kiosk has in its cache of swaps, it     *)
(* did. GivenAway: a coin is in one place: the purse, the swap, or with a  *)
(* payee.                                                                  *)
(*                                                                         *)
(* Sound says that as long as recover --abandon was not used a pending     *)
(* swap was executed wholly or not at all, that no other request in flight *)
(* can still be executed (Swaps), that no secret was drawn twice           *)
(* (DrawnOnce), and that a good token of this vault is somewhere           *)
(* (NotLost). Each of them needs the others: a swap is atomic because its  *)
(* inputs are no one else's, which holds because secrets are fresh, which  *)
(* holds because what was asked for is remembered. Cached adds that the    *)
(* kiosk still has the answer or has since answered a whole cache of swaps *)
(* of others, and ChangeAddsUp that the change asked for contains the      *)
(* amount to be paid.                                                      *)
(*                                                                         *)
(* Two more sections follow. Coin selection: exact_subset as a loop        *)
(* (Table, AllSums), and why split_amount, which takes the largest coin    *)
(* first, takes the fewest (Counts). Vault and kiosk together: each step   *)
(* is one of Kiosk, so the kiosk's books are in order, and what the vault  *)
(* holds is covered by its reserve.                                        *)
(***************************************************************************)
EXTENDS Purse, ExactSubset, MoneyLemmas, SequenceTheorems,
        WellFoundedInduction

(* The requests that a vault sends, and the commands that it runs. *)
Answers == {"none", "ok", "refused"}
SignRequests ==
  [op : {"sign"}, proof : Proof, seq : 1 .. MaxSeq, awaited : BOOLEAN]
SwapRequests ==
  [op : {"swap"}, ins : SUBSET Proof, outs : SUBSET Proof, awaited : BOOLEAN]
TopupCalls == [op : {"topup"}, todo : Seq(Denom) \ {<<>>}]
SignCalls ==
  [op : {"sign"}, proof : Proof, todo : Seq(Denom), answer : Answers]
SwapCalls == [op : {"swap"}, first : BOOLEAN, pay : Nat, answer : Answers]
PayCalls == [op : {"pay"}, amount : Nat]

(* Every operation but a topup changes memory and file together; a topup    *)
(* may leave a burned number, or a proof, in memory alone.                  *)
MemoryAndFile ==
  /\ flash.pending = vault.pending
  /\ flash.proofs \subseteq vault.proofs
  /\ flash.seq <= vault.seq
  /\ call.op \in {"topup", "sign", "pay"} => vault.pending = None
  /\ call.op = "swap" => vault.pending # None

(* An awaited request is the one that the running command has sent. *)
Waits ==
  \A r \in net : r.awaited =>
    /\ r.op = call.op /\ call.answer = "none"
    /\ r.op = "sign" => r.proof = call.proof /\ r.seq = flash.seq
    /\ r.op = "swap" => r.ins = vault.pending.ins
         /\ r.outs = vault.pending.outs

Base ==
  /\ vault \in VaultState /\ flash \in VaultState
  /\ call \in {Idle} \cup TopupCalls \cup SignCalls \cup SwapCalls
       \cup PayCalls
  /\ net \subseteq SignRequests \cup SwapRequests
  /\ refused \in BOOLEAN /\ abandoned \in BOOLEAN
  /\ handed \subseteq Proof /\ lost \subseteq Proof
  /\ signed \subseteq Proof
  /\ lastSeq \in [Device -> Nat]
  /\ swapCache \in Seq([ins : SUBSET Secret, outs : SUBSET Proof])
  /\ MemoryAndFile
  /\ Waits

(* The awaited request has the highest number, and the kiosk has not seen   *)
(* it.                                                                      *)
SeqsGrow ==
  /\ lastSeq[Me] <= flash.seq
  /\ \A r \in net : r.op = "sign" => r.seq <= flash.seq
  /\ \A r, q \in net : r.op = "sign" /\ r.awaited =>
       /\ lastSeq[Me] < r.seq
       /\ q.op = "sign" /\ q # r => q.seq < r.seq

(* An entry of the cache of swaps: its inputs are spent, its outputs        *)
(* signed.                                                                  *)
CacheIsSigned ==
  \A i \in DOMAIN swapCache :
     /\ swapCache[i].ins \subseteq spent
     /\ swapCache[i].outs \subseteq signed

DisjointTokens(outbox) == \A s, t \in outbox : s # t => s \cap t = {}
Ins == PendingIns(vault)
Outs == PendingOuts(vault)

(* A coin is in the purse, in the pending swap, or given to a payee, and it *)
(* was signed.                                                              *)
GivenAway ==
  /\ vault.proofs \cup Ins \cup handed \subseteq signed
  /\ handed \cap (vault.proofs \cup Ins \cup Outs) = {}
  /\ vault.proofs \cap Ins = {}
  /\ call.op = "sign" => call.proof \notin handed
  /\ call.op = "sign" /\ call.answer = "ok" => call.proof \in signed
  /\ call.op = "swap" /\ call.answer = "ok" => Outs \subseteq signed
  /\ \A token \in vault.outbox \cup flash.outbox : token \subseteq handed
  /\ DisjointTokens(vault.outbox) /\ DisjointTokens(flash.outbox)

(* What has become of the pending swap. *)
Executed == K!Secrets(Ins) \subseteq spent /\ Outs \subseteq signed
NotExecuted ==
  K!Secrets(Ins) \cap spent = {} /\ K!Secrets(Outs) \cap K!Secrets(signed) = {}

(* A request for a swap that the kiosk would still execute. *)
CanRun(q) == q.ins # {} /\ K!Secrets(q.ins) \cap spent = {}

(* Every secret of this vault belongs to one token only. *)
DrawnOnce ==
  /\ K!Secrets(vault.proofs \cup handed \cup Ins \cup Outs) \subseteq Mine
  /\ spent \subseteq K!Secrets(signed)
  /\ \A p, q \in signed : p.secret \in Mine /\ p.secret = q.secret => p = q
  /\ \A p, q \in Outs : p.secret = q.secret => p = q
  /\ \A r \in net : r.op = "sign" =>
       /\ r.proof.secret \in Mine
       /\ r.proof.secret \notin K!Secrets(signed)
       /\ r.proof.secret \notin K!Secrets(Outs)
       /\ ~ r.awaited => r.proof \in lost
       /\ ~ r.awaited /\ call.op = "sign" => r.proof.secret # call.proof.secret
  /\ \A r, q \in net : r.op = "sign" /\ q.op = "sign"
       /\ r.proof.secret = q.proof.secret => r = q
  /\ call.op = "sign" =>
        /\ call.proof.secret \in Mine /\ call.proof.secret \notin spent
        /\ call.answer # "ok" => call.proof.secret \notin K!Secrets(signed)

(* The pending swap was executed as a whole or not at all, and it is the    *)
(* only one that may still be executed.                                     *)
Swaps ==
  /\ K!Secrets(vault.proofs) \cap spent = {}
  /\ K!Secrets(Outs) \cap spent = {}
  /\ Executed \/ NotExecuted
  /\ \A q \in net : q.op = "swap" /\ CanRun(q) =>
        vault.pending # None /\ q.ins = Ins /\ q.outs = Outs
  /\ call.op = "swap" /\ call.answer = "ok" => Executed
  /\ call.op = "swap" /\ call.first /\ call.answer # "ok" =>
       /\ NotExecuted
       /\ \A q \in net : q.op = "swap" /\ CanRun(q) => q.awaited

(* A good token of this vault is somewhere. *)
NotLost ==
    MyLive \subseteq vault.proofs \cup Ins \cup Outs \cup handed \cup lost
                     \cup (IF call.op = "sign" THEN {call.proof} ELSE {})

Sound == ~ abandoned => DrawnOnce /\ Swaps /\ NotLost

(* Where the answer to the pending swap is in the cache. *)
AnswerPlaces ==
  {i \in DOMAIN swapCache :
     swapCache[i] = [ins |-> K!Secrets(Ins), outs |-> Outs]}
CacheFits == Len(swapCache) <= MaxSwapCache

(* The answers behind place i are all to swaps of other vaults. *)
OthersAfter(i) ==
  \A j \in DOMAIN swapCache : j > i => swapCache[j].ins \cap Mine = {}

(* A swap that has been executed can be fetched from the cache, or a whole  *)
(* cache of swaps of other vaults came after it.                            *)
AnswerKept ==
  \/ \E i \in AnswerPlaces : OthersAfter(i)
  \/ Len(swapCache) = MaxSwapCache /\ OthersAfter(0)
Cached == ~ abandoned /\ vault.pending # None => NotExecuted \/ AnswerKept

(* The change that is asked for contains the amount. *)
AddsUp(coins, amount) == \E S \in SUBSET coins : Value(S) = amount
ChangeAddsUp ==
  /\ K!Secrets(Outs) \cap Locked = {}
  /\ call.op = "swap" /\ call.pay # 0 => AddsUp(Outs, call.pay)
  /\ call.op = "pay" => AddsUp(Unlocked(vault.proofs), call.amount)

-----------------------------------------------------------------------------
(* Splitting an amount: Greedy satisfies its recursion, what it returns     *)
(* adds up, and so does the change that a swap asks for.                    *)

(* Induction over the natural numbers, for a set rather than a predicate. *)
LEMMA NatSetInduction ==
  ASSUME NEW T, 0 \in T, \A n \in Nat : n \in T => n + 1 \in T
  PROVE  Nat \subseteq T
<1> DEFINE R == OpToRel(<, Nat)
           M == Nat \ T
<1>1. IsWellFoundedOn(R, Nat)
  BY NatLessThanWellFounded
<1>2. SUFFICES ASSUME M # {} PROVE FALSE
  OBVIOUS
<1>3. \A x, y \in Nat : x < y => <<x, y>> \in R
  BY DEF OpToRel
<1>4. M \subseteq Nat
  OBVIOUS
<1> HIDE DEF R, M
<1>5. PICK x \in M : \A y \in M : ~ (<<y, x>> \in R)
  BY <1>1, <1>2, <1>4, WFMin
<1>6. x \in Nat /\ x # 0
  BY <1>4 DEF M
<1>7. x - 1 \in Nat /\ x - 1 < x
  BY <1>6
<1>8. x - 1 \in T
  BY <1>3, <1>5, <1>6, <1>7 DEF M
<1>9. (x - 1) + 1 \in T
  BY <1>7, <1>8
<1> QED
  BY <1>6, <1>9 DEF M

(* The recursive step of Greedy. *)
Fitting(avail, n) == {d \in avail : d <= n}
GreedyStep(avail, f, n) ==
  LET rest == f[n - Largest(Fitting(avail, n))]
  IN  IF n = 0 THEN <<>>
      ELSE IF Fitting(avail, n) = {} \/ ~ IsSplit(rest) THEN NoSplit
      ELSE <<Largest(Fitting(avail, n))>> \o rest

(* The largest denomination that fits exists. *)
LEMMA LargestFits ==
  ASSUME NEW avail, avail \subseteq Nat \ {0}, NEW n \in Nat,
         Fitting(avail, n) # {}
  PROVE  /\ Largest(Fitting(avail, n)) \in avail
         /\ Largest(Fitting(avail, n)) \in 1 .. n
         /\ \A e \in avail : e <= n => e <= Largest(Fitting(avail, n))
<1> DEFINE F == Fitting(avail, n)
           T == {k \in Nat : (\E d \in F : d >= n - k)
             => \E d \in F : \A e \in F : e <= d}
<1>1. F \subseteq 1 .. n /\ F \subseteq avail
  <2> SUFFICES ASSUME NEW d \in F PROVE d \in 1 .. n /\ d \in avail
    OBVIOUS
  <2>1. d \in avail /\ d <= n /\ d \in Nat \ {0}
    BY DEF Fitting
  <2> QED BY <2>1
<1>2. 0 \in T
  BY <1>1
<1>3. ASSUME NEW k \in Nat, k \in T PROVE k + 1 \in T
  <2>1. CASE \E d \in F : d >= n - k
    BY <1>3, <2>1
  <2>2. CASE ~ \E d \in F : d >= n - k
    <3> SUFFICES ASSUME NEW d \in F, d >= n - (k + 1) PROVE \A e \in F : e <= d
      BY DEF T
    <3> QED BY <2>2, <1>1
  <2> QED BY <2>1, <2>2
<1>4. Nat \subseteq T
  <2> HIDE DEF T
  <2> QED BY <1>2, <1>3, NatSetInduction
<1>5. \E d \in F : \A e \in F : e <= d
  <2>1. n \in T
    BY <1>4
  <2>2. \E d \in F : d >= n - n
    BY <1>1
  <2> QED BY <2>1, <2>2
<1>6. Largest(F) \in F /\ \A e \in F : e <= Largest(F)
  BY <1>5 DEF Largest
<1> QED
  BY <1>1, <1>6 DEF Fitting

(* There is a function that satisfies the recursion of Greedy, and so       *)
(* Greedy is one.                                                           *)
LEMMA GreedyExists ==
  ASSUME NEW avail, avail \subseteq Nat \ {0}
  PROVE  \A m \in Nat : \E f : f = [n \in 0 .. m |-> GreedyStep(avail, f, n)]
<1> DEFINE T == {m \in Nat : \E f : f = [n \in 0 .. m |-> GreedyStep(avail, f, n)]}
<1>1. 0 \in T
  <2> DEFINE f == [n \in 0 .. 0 |-> <<>>]
  <2>1. \A n \in 0 .. 0 : GreedyStep(avail, f, n) = <<>>
    BY DEF GreedyStep
  <2>2. f = [n \in 0 .. 0 |-> GreedyStep(avail, f, n)]
    BY <2>1, Zenon
  <2> QED BY <2>2
<1>2. ASSUME NEW m \in Nat, m \in T PROVE m + 1 \in T
  <2>1. PICK f : f = [n \in 0 .. m |-> GreedyStep(avail, f, n)]
    BY <1>2
  <2> DEFINE g == [n \in 0 .. (m + 1) |-> GreedyStep(avail, f, n)]
  <2>2. \A n \in 0 .. m : g[n] = f[n]
    <3> TAKE n \in 0 .. m
    <3>1. n \in 0 .. (m + 1)
      OBVIOUS
    <3>2. g[n] = GreedyStep(avail, f, n)
      BY <3>1
    <3>3. f[n] = GreedyStep(avail, f, n)
      BY <2>1, Zenon
    <3> QED BY <3>2, <3>3
  <2>3. \A n \in 0 .. (m + 1) : GreedyStep(avail, g, n) = GreedyStep(avail, f, n)
    <3> TAKE n \in 0 .. (m + 1)
    <3>1. CASE n = 0
      BY <3>1 DEF GreedyStep
    <3>2. CASE Fitting(avail, n) = {}
      BY <3>2 DEF GreedyStep
    <3>3. CASE n # 0 /\ Fitting(avail, n) # {}
      <4> DEFINE d == Largest(Fitting(avail, n))
      <4>0. n \in Nat
        OBVIOUS
      <4>1. d \in 1 .. n
        BY <3>3, <4>0, LargestFits
      <4> HIDE DEF d
      <4>2. n - d \in 0 .. m
        BY <4>1
      <4>3. g[n - d] = f[n - d]
        BY <2>2, <4>2
      <4> HIDE DEF g
      <4> QED BY <4>3 DEF GreedyStep, d
    <3> QED BY <3>1, <3>2, <3>3
  <2>4. g = [n \in 0 .. (m + 1) |-> GreedyStep(avail, g, n)]
    <3>1. [n \in 0 .. (m + 1) |-> GreedyStep(avail, g, n)]
            = [n \in 0 .. (m + 1) |-> GreedyStep(avail, f, n)]
      <4> HIDE DEF g
      <4> QED BY <2>3, Zenon
    <3> QED BY <3>1
  <2> HIDE DEF g
  <2> QED BY <2>4
<1> HIDE DEF T
<1>3. Nat \subseteq T
  BY <1>1, <1>2, NatSetInduction
<1> QED
  BY <1>3 DEF T

LEMMA GreedyRecurs ==
  ASSUME NEW avail, avail \subseteq Nat \ {0}
  PROVE  \A n \in 0 .. MaxTarget :
           Greedy(avail)[n] = GreedyStep(avail, Greedy(avail), n)
<1>1. Greedy(avail) = CHOOSE f : f
        = [n \in 0 .. MaxTarget |-> GreedyStep(avail, f, n)]
  BY DEF Greedy, GreedyStep, Fitting
<1>2. \E f : f = [n \in 0 .. MaxTarget |-> GreedyStep(avail, f, n)]
  BY DenominationsAssumption, GreedyExists
<1>3. Greedy(avail)
        = [n \in 0 .. MaxTarget |-> GreedyStep(avail, Greedy(avail), n)]
  BY <1>1, <1>2
<1> QED
  BY <1>3, Zenon

(* One step of a split that succeeds. *)
LEMMA SplitStep ==
  ASSUME NEW avail, avail \subseteq Nat \ {0},
         NEW n \in 1 .. MaxTarget, IsSplit(Greedy(avail)[n])
  PROVE  \E d \in avail :
           /\ d \in 1 .. n /\ \A e \in avail : e <= n => e <= d
           /\ IsSplit(Greedy(avail)[n - d])
           /\ Greedy(avail)[n] = <<d>> \o Greedy(avail)[n - d]
<1> DEFINE d == Largest(Fitting(avail, n))
           G == Greedy(avail)
<1>1. n \in Nat /\ n \in 0 .. MaxTarget /\ n # 0
  BY DenominationsAssumption
<1>2. G[n] = GreedyStep(avail, G, n)
  BY <1>1, GreedyRecurs
<1> HIDE DEF G
<1>3. Fitting(avail, n) # {} /\ IsSplit(G[n - d]) /\ G[n] = <<d>> \o G[n - d]
  BY <1>1, <1>2 DEF GreedyStep, IsSplit, G
<1>4. /\ d \in avail /\ d \in 1 .. n
      /\ \A e \in avail : e <= n => e <= d
  BY <1>1, <1>3, LargestFits
<1> HIDE DEF d
<1> QED BY <1>3, <1>4 DEF G

(* What is assumed of the constants. *)
LEMMA Denoms ==
  /\ IsFiniteSet(Secret) /\ IsFiniteSet(Denom) /\ Denom \subseteq Nat \ {0}
  /\ Denom \subseteq 1 .. MaxTarget /\ MaxTarget \in Nat
  /\ Device # {} /\ MaxSwapCache \in Nat \ {0} /\ Amount \subseteq Nat \ {0}
BY PurseAssumption, PurseKiosk, PurseDenominations, DenominationsAssumption
DEF K!KioskAssumption, K!IsFiniteSet, IsFiniteSet

(* Occurrences in a split, and the coins of a denomination. *)
At(s, e) == {i \in DOMAIN s : s[i] = e}
Coins(X, e) == {p \in X : p.amount = e}
Enough(X, s) ==
  \A e \in Denom : Cardinality(At(s, e)) <= Cardinality(Coins(X, e))

(* A first element adds one occurrence of itself. *)
LEMMA ConsOccurs ==
  ASSUME NEW d \in Denom, NEW rest \in Seq(Denom), NEW e
  PROVE  LET s == <<d>> \o rest
         IN  /\ s \in Seq(Denom) /\ s # <<>>
             /\ IsFiniteSet(At(s, e)) /\ IsFiniteSet(At(rest, e))
             /\ Cardinality(At(rest, e)) <= Cardinality(At(s, e) \ {1})
             /\ e = d => 1 \in At(s, e)
<1> DEFINE s == <<d>> \o rest
           sh == [i \in At(rest, e) |-> i + 1]
<1>1. <<d>> \in Seq(Denom) /\ Len(<<d>>) = 1 /\ <<d>>[1] = d
  OBVIOUS
<1>2. /\ s \in Seq(Denom) /\ Len(s) = 1 + Len(rest)
      /\ \A i \in 1 .. Len(s) : s[i] = IF i <= 1 THEN <<d>>[i] ELSE rest[i - 1]
  <2> DEFINE t == <<d>>
  <2>1. t \in Seq(Denom) /\ Len(t) = 1
    BY <1>1
  <2> HIDE DEF t
  <2>2. /\ t \o rest \in Seq(Denom) /\ Len(t \o rest) = 1 + Len(rest)
        /\ \A i \in 1 .. Len(t) + Len(rest) :
             (t \o rest)[i] = IF i <= Len(t) THEN t[i] ELSE rest[i - Len(t)]
    <3> DEFINE u == t \o rest
    <3>1. /\ u \in Seq(Denom) /\ Len(u) = Len(t) + Len(rest)
          /\ \A i \in 1 .. Len(t) + Len(rest) :
               u[i] = IF i <= Len(t) THEN t[i] ELSE rest[i - Len(t)]
      BY <2>1, ConcatProperties, Zenon
    <3> QED BY <2>1, <3>1
  <2>3. s = t \o rest
    BY DEF t
  <2> HIDE DEF s
  <2> QED BY <2>1, <2>2, <2>3 DEF t
<1>3. Len(rest) \in Nat /\ DOMAIN rest = 1 .. Len(rest)
        /\ DOMAIN s = 1 .. Len(s)
  BY <1>2
<1> HIDE DEF s
<1>4. s # <<>> /\ s[1] = d
  BY <1>1, <1>2, <1>3
<1>5. IsFiniteSet(At(s, e)) /\ IsFiniteSet(At(rest, e))
  <2>1. IsFiniteSet(1 .. Len(s)) /\ IsFiniteSet(1 .. Len(rest))
    BY <1>2, <1>3, FS_Interval
  <2>2. At(s, e) \subseteq 1 .. Len(s) /\ At(rest, e) \subseteq 1 .. Len(rest)
    BY <1>3 DEF At
  <2> QED BY <2>1, <2>2, FS_Subset
<1>6. sh \in Injection(At(rest, e), At(s, e) \ {1})
  <2>1. \A i \in At(rest, e) : i + 1 \in At(s, e) /\ i + 1 # 1
    <3> TAKE i \in At(rest, e)
    <3>1. i \in 1 .. Len(rest) /\ rest[i] = e
      BY <1>3 DEF At
    <3>2. i + 1 \in 1 .. Len(s) /\ ~ (i + 1 <= 1) /\ (i + 1) - 1 = i
      BY <1>2, <1>3, <3>1
    <3>3. s[i + 1] = e
      BY <1>2, <3>1, <3>2
    <3> QED BY <1>3, <3>2, <3>3 DEF At
  <2>2. \A i \in At(rest, e) : i \in Nat
    BY <1>3 DEF At
  <2>3. sh \in [At(rest, e) -> At(s, e) \ {1}]
    BY <2>1
  <2>4. \A i, j \in At(rest, e) : sh[i] = sh[j] => i = j
    BY <2>2
  <2> QED BY <2>3, <2>4 DEF Injection, IsInjective
<1>7. IsFiniteSet(At(s, e) \ {1})
  BY <1>5, FS_RemoveElement
<1>8. Cardinality(At(rest, e)) <= Cardinality(At(s, e) \ {1})
  BY <1>6, <1>7, FS_Injection
<1>9. e = d => 1 \in At(s, e)
  BY <1>2, <1>3, <1>4 DEF At
<1> QED
  BY <1>2, <1>4, <1>5, <1>8, <1>9 DEF s

(* There are finitely many proofs, and they have amounts. *)
LEMMA FiniteProofs == IsFiniteSet(Proof) /\ IsLedger(Proof)
<1> DEFINE f == [x \in Secret \X Denom |-> [secret |-> x[1], amount |-> x[2]]]
<1>1. IsFiniteSet(Secret \X Denom)
  BY Denoms, FS_Product
<1>2. f \in Surjection(Secret \X Denom, Proof)
  <2>1. f \in [Secret \X Denom -> Proof]
    BY DEF Proof, K!Proof
  <2>2. ASSUME NEW p \in Proof PROVE \E x \in Secret \X Denom : f[x] = p
    <3>1. <<p.secret, p.amount>> \in Secret \X Denom
      BY DEF Proof, K!Proof
    <3>2. f[<<p.secret, p.amount>>] = p
      BY <3>1 DEF Proof, K!Proof
    <3> QED BY <3>1, <3>2
  <2> QED BY <2>1, <2>2 DEF Surjection
<1>3. IsFiniteSet(Proof)
  BY <1>1, <1>2, FS_Surjection
<1>4. \A p \in Proof : p.amount \in Nat
  BY Denoms DEF Proof, K!Proof
<1> QED BY <1>3, <1>4 DEF IsLedger

(* A split is a sequence of denominations, and a set of coins with at least *)
(* as many of each as the split has contains the amount.                    *)
LEMMA GreedyAddsUp ==
         \A n \in Nat : n <= MaxTarget /\ IsSplit(Greedy(Denom)[n]) =>
           /\ Greedy(Denom)[n] \in Seq(Denom)
           /\ n # 0 => Greedy(Denom)[n] # <<>>
           /\ \A X \in SUBSET Proof : Enough(X, Greedy(Denom)[n])
                => AddsUp(X, n)
<1> DEFINE G == Greedy(Denom)
           Good(n) == n <= MaxTarget /\ IsSplit(G[n]) =>
             /\ G[n] \in Seq(Denom)
             /\ n # 0 => G[n] # <<>>
             /\ \A X \in SUBSET Proof : Enough(X, G[n]) => AddsUp(X, n)
           T == {m \in Nat : \A n \in 0 .. m : Good(n)}
<1>1. Good(0)
  <2>1. G[0] = <<>>
    <3>1. 0 \in 0 .. MaxTarget
      BY Denoms
    <3> QED BY <3>1, Denoms, GreedyRecurs DEF GreedyStep
  <2>2. \A X : AddsUp(X, 0)
    BY ValueEmpty DEF AddsUp
  <2> HIDE DEF G
  <2> QED BY <2>1, <2>2
<1>2. ASSUME NEW m \in Nat, m \in T PROVE Good(m + 1)
  <2> DEFINE n == m + 1
  <2> SUFFICES ASSUME n <= MaxTarget, IsSplit(G[n])
               PROVE /\ G[n] \in Seq(Denom)
                     /\ G[n] # <<>>
                     /\ \A X \in SUBSET Proof : Enough(X, G[n]) => AddsUp(X, n)
    <3> HIDE DEF G
    <3> QED OBVIOUS
  <2>1. n \in 1 .. MaxTarget
    BY Denoms
  <2>2. PICK d \in Denom : /\ d \in 1 .. n /\ IsSplit(G[n - d])
                           /\ G[n] = <<d>> \o G[n - d]
    BY <2>1, Denoms, SplitStep
  <2> DEFINE rest == G[n - d]
  <2>3. n - d \in 0 .. m /\ n - d <= MaxTarget /\ n - d \in Nat
    BY <2>1, <2>2, Denoms
  <2>4. Good(n - d)
    BY <1>2, <2>3
  <2>5. rest \in Seq(Denom)
    BY <2>2, <2>3, <2>4
  <2>6. /\ G[n] \in Seq(Denom) /\ G[n] # <<>>
        /\ \A e : /\ IsFiniteSet(At(G[n], e)) /\ IsFiniteSet(At(rest, e))
                  /\ Cardinality(At(rest, e)) <= Cardinality(At(G[n], e) \ {1})
                  /\ e = d => 1 \in At(G[n], e)
    <3> HIDE DEF rest, G
    <3> DEFINE s == G[n]
    <3>1. s = <<d>> \o rest
      BY <2>2 DEF rest
    <3> HIDE DEF s
    <3> QED BY <2>5, <3>1, ConsOccurs DEF s
  <2> HIDE DEF G
  <2>7. ASSUME NEW X \in SUBSET Proof, Enough(X, G[n]) PROVE AddsUp(X, n)
    <3>0. IsFiniteSet(X) /\ IsLedger(X)
      BY FiniteProofs, FS_Subset DEF IsLedger
    <3>1. \A e : IsFiniteSet(Coins(X, e)) /\ Cardinality(Coins(X, e)) \in Nat
      <4> TAKE e
      <4>1. Coins(X, e) \in SUBSET X
        BY DEF Coins
      <4> QED BY <3>0, <4>1, FS_Subset, FS_CardinalityType
    <3>2. Coins(X, d) # {}
      <4>1. At(G[n], d) # {} /\ IsFiniteSet(At(G[n], d))
        BY <2>6
      <4>2. Cardinality(At(G[n], d)) # 0 /\ Cardinality(At(G[n], d)) \in Nat
        BY <4>1, FS_EmptySet, FS_CardinalityType
      <4>3. Cardinality(Coins(X, d)) # 0
        BY <2>7, <3>1, <4>2 DEF Enough
      <4> QED BY <4>3, FS_EmptySet
    <3>3. PICK p \in X : p.amount = d
      BY <3>2 DEF Coins
    <3> DEFINE Y == X \ {p}
    <3>4. Enough(Y, rest)
      <4> SUFFICES ASSUME NEW e \in Denom
                   PROVE Cardinality(At(rest, e)) <= Cardinality(Coins(Y, e))
        BY DEF Enough
      <4>1. /\ Cardinality(At(rest, e)) \in Nat
                 /\ Cardinality(At(G[n], e)) \in Nat
            /\ Cardinality(At(G[n], e)) <= Cardinality(Coins(X, e))
            /\ Cardinality(At(rest, e)) <= Cardinality(At(G[n], e) \ {1})
        BY <2>6, <2>7, FS_CardinalityType DEF Enough
      <4>2. CASE e = d
        <5>1. Coins(Y, e) = Coins(X, e) \ {p} /\ p \in Coins(X, e)
          BY <3>3, <4>2 DEF Coins
        <5> DEFINE C == Coins(X, e)
        <5>2. IsFiniteSet(C) /\ p \in C /\ Coins(Y, e) = C \ {p}
          BY <3>1, <5>1
        <5> HIDE DEF C
        <5>4. Cardinality(C \ {p}) = Cardinality(C) - 1
          BY <5>2, FS_RemoveElement
        <5>3. Cardinality(At(G[n], e) \ {1}) = Cardinality(At(G[n], e)) - 1
          BY <2>6, <4>2, FS_RemoveElement
        <5>5. Cardinality(Coins(Y, e)) = Cardinality(Coins(X, e)) - 1
          BY <5>2, <5>4 DEF C
        <5> QED BY <3>1, <4>1, <5>3, <5>5
      <4>3. CASE e # d
        <5>1. Coins(Y, e) = Coins(X, e)
          BY <3>3, <4>3 DEF Coins
        <5>2. IsFiniteSet(At(G[n], e))
                /\ At(G[n], e) \ {1} \in SUBSET At(G[n], e)
          BY <2>6
        <5>3. /\ Cardinality(At(G[n], e) \ {1}) <= Cardinality(At(G[n], e))
              /\ IsFiniteSet(At(G[n], e) \ {1})
          BY <5>2, FS_Subset
        <5>4. Cardinality(At(G[n], e) \ {1}) \in Nat
          BY <5>3, FS_CardinalityType
        <5> QED BY <3>1, <4>1, <5>1, <5>3, <5>4
      <4> QED BY <4>2, <4>3
    <3>5. AddsUp(Y, n - d)
      BY <2>2, <2>3, <2>4, <3>4
    <3>6. PICK S \in SUBSET Y : Value(S) = n - d
      BY <3>5 DEF AddsUp
    <3>7. IsLedger(S) /\ p \notin S
      BY <3>0, <3>6, FS_Subset DEF IsLedger
    <3>8. Value(S \cup {p}) = Value(S) + p.amount
      <4>1. p.amount \in Nat
        BY <3>0 DEF IsLedger
      <4> QED BY <3>7, <4>1, ValueAdd
    <3>9. Value(S \cup {p}) = n
      BY <2>2, <3>3, <3>6, <3>8
    <3> QED BY <3>6, <3>9 DEF AddsUp
  <2> QED BY <2>6, <2>7
<1> HIDE DEF G
<1>3. 0 \in T
  BY <1>1
<1>4. \A m \in Nat : m \in T => m + 1 \in T
  <2> SUFFICES ASSUME NEW m \in Nat, m \in T PROVE m + 1 \in T
    OBVIOUS
  <2>1. Good(m + 1)
    BY <1>2
  <2> HIDE DEF Good
  <2>2. \A n \in 0 .. (m + 1) : n \in 0 .. m \/ n = m + 1
    OBVIOUS
  <2>3. \A n \in 0 .. m : Good(n)
    BY DEF T
  <2> QED BY <2>1, <2>2, <2>3 DEF T
<1> HIDE DEF T
<1>5. Nat \subseteq T
  BY <1>3, <1>4, NatSetInduction
<1>6. \A n \in Nat : Good(n)
  <2> TAKE n \in Nat
  <2>1. n \in T /\ n \in 0 .. n
    BY <1>5
  <2> HIDE DEF Good
  <2> QED BY <2>1 DEF T
<1> QED
  BY <1>6 DEF G

(* A nonempty set of proofs has one of the least amount. *)
LEMMA SmallestExists ==
  ASSUME NEW S \in SUBSET Proof, S # {}
  PROVE  \E p \in S : \A q \in S : p.amount <= q.amount
<1> DEFINE R == OpToRel(<, Nat)
           A == {p.amount : p \in S}
<1>1. IsWellFoundedOn(R, Nat)
  BY NatLessThanWellFounded
<1>2. \A x, y \in Nat : x < y => <<x, y>> \in R
  BY DEF OpToRel
<1>3. A \subseteq Nat /\ A # {}
  BY Denoms DEF Proof, K!Proof
<1> HIDE DEF R
<1>4. PICK a \in A : \A b \in A : ~ (<<b, a>> \in R)
  <2> HIDE DEF A
  <2> QED BY <1>1, <1>3, WFMin
<1>5. \A b \in A : a <= b
  <2> HIDE DEF A
  <2> SUFFICES ASSUME NEW b \in A PROVE a <= b
    OBVIOUS
  <2>1. a \in Nat /\ b \in Nat /\ ~ (b < a)
    BY <1>2, <1>3, <1>4
  <2> QED BY <2>1
<1> QED BY <1>4, <1>5

(* The change of a swap is small enough to be split: without its smallest   *)
(* input the inputs were not enough.                                        *)
LEMMA ChangeBelowMax ==
  ASSUME NEW coins \in SUBSET Proof, NEW amount \in Amount,
         amount <= MaxTarget,
         NEW ins \in Inputs(coins, amount)
  PROVE  /\ ins \subseteq coins
         /\ Value(ins) \in Nat
         /\ Value(ins) > amount => Value(ins) - amount \in 0 .. MaxTarget
<1> DEFINE above == {p \in coins : p.amount > amount}
           smallest(S) == {p \in S : \A q \in S : p.amount <= q.amount}
<1>0. amount \in Nat \ {0}
  BY Denoms
<1>1. CASE above # {}
  <2>1. ins \in {{p} : p \in smallest(above)}
    BY <1>1 DEF Inputs
  <2>2. PICK p \in coins : ins = {p} /\ p.amount > amount
    BY <2>1
  <2>3. p.amount \in 1 .. MaxTarget /\ p.amount \in Nat
    <3>1. p.amount \in Denom
      BY DEF Proof, K!Proof
    <3> QED BY <3>1, Denoms
  <2>4. Value(ins) = p.amount
    BY <2>2, <2>3, ValueSingleton
  <2> QED BY <1>0, <2>2, <2>3, <2>4, Denoms
<1>2. CASE above = {}
  <2>1. /\ ins \in SUBSET coins /\ Value(ins) >= amount
        /\ \A p \in smallest(ins) : Value(ins \ {p}) < amount
    BY <1>2 DEF Inputs
  <2>2. IsLedger(ins) /\ Value(ins) \in Nat
    <3>1. ins \in SUBSET Proof
      BY <2>1
    <3>2. IsFiniteSet(ins)
      BY <3>1, FiniteProofs, FS_Subset
    <3>3. IsLedger(ins)
      BY <3>1, <3>2, FiniteProofs DEF IsLedger
    <3> QED BY <3>3, ValueType
  <2>3. ins # {}
    BY <1>0, <2>1, ValueEmpty
  <2>4. PICK p \in ins : \A q \in ins : p.amount <= q.amount
    BY <2>1, <2>3, SmallestExists
  <2>5. Value(ins \ {p}) < amount
    BY <2>1, <2>4
  <2>6. p.amount \in Nat /\ p.amount <= amount
    <3>1. p \in coins /\ p.amount \in Denom
      BY <2>1 DEF Proof, K!Proof
    <3>2. p.amount \in Nat
      BY <3>1, Denoms
    <3>3. ~ (p.amount > amount)
      BY <1>2, <3>1
    <3> QED BY <1>0, <3>2, <3>3
  <2>7. Value(ins) = Value(ins \ {p}) + p.amount /\ Value(ins \ {p}) \in Nat
    <3>1. {p} \subseteq ins
      OBVIOUS
    <3>2. /\ Value(ins) = Value(ins \ {p}) + Value({p})
          /\ IsLedger(ins \ {p})
      BY <2>2, <3>1, ValueRemove
    <3>3. Value({p}) = p.amount
      BY <2>6, ValueSingleton
    <3>4. Value(ins \ {p}) \in Nat
      BY <3>2, ValueType
    <3> QED BY <3>2, <3>3, <3>4
  <2> QED BY <1>0, <2>1, <2>2, <2>5, <2>6, <2>7, Denoms
<1> QED BY <1>1, <1>2

(* The same for Split. *)
LEMMA SplitType ==
  ASSUME NEW n \in Nat, n <= MaxTarget, IsSplit(SplitUp(n))
  PROVE  /\ SplitUp(n) \in Seq(Denom)
         /\ n # 0 => SplitUp(n) # <<>>
         /\ \A X \in SUBSET Proof : Enough(X, SplitUp(n)) => AddsUp(X, n)
<1>1. SplitUp(n) = Greedy(Denom)[n]
  BY DEF SplitUp, Split, IsSplit
<1> QED BY <1>1, GreedyAddsUp

(* The outputs of a swap for change contain the amount. *)
LEMMA OutputsAddUp ==
  ASSUME NEW amount \in Amount, amount <= MaxTarget, NEW total \in Nat,
         total > amount => total - amount \in 0 .. MaxTarget,
         Splittable(amount, total),
         NEW outs \in Outputs(Change(amount, total))
  PROVE  AddsUp(outs, amount)
<1> DEFINE s == SplitUp(amount)
           c == Change(amount, total)
<1>0. amount \in Nat
  BY Denoms
<1>1. s \in Seq(Denom) /\ \A X \in SUBSET Proof : Enough(X, s)
        => AddsUp(X, amount)
  BY <1>0, SplitType DEF Splittable
<1>2. /\ outs \in SUBSET Proof
      /\ \A d \in Denom : Cardinality(Coins(outs, d)) = Cardinality(At(c, d))
  <2>1. /\ outs \in SUBSET [secret : Fresh \ Locked, amount : Denom]
        /\ \A d \in Denom : Cardinality({p \in outs : p.amount = d})
                            = Cardinality({i \in DOMAIN c : c[i] = d})
    <3> HIDE DEF c
    <3>1. outs \in Outputs(c)
      BY DEF c
    <3> QED BY <3>1 DEF Outputs
  <2>2. outs \in SUBSET Proof
    BY <2>1, PurseAssumption DEF Proof, K!Proof, Fresh
  <2> QED BY <2>1, <2>2 DEF Coins, At
<1>3. ASSUME NEW d \in Denom PROVE IsFiniteSet(At(c, d))
               /\ At(s, d) \subseteq At(c, d)
  <2>0. Len(s) \in Nat /\ DOMAIN s = 1 .. Len(s)
    BY <1>1
  <2>1. CASE total > amount
    <3> DEFINE t == SplitUp(total - amount)
    <3>1. t \in Seq(Denom)
      BY <1>0, <2>1, SplitType DEF Splittable
    <3>2. c = s \o t
      BY <2>1 DEF Change
    <3> HIDE DEF s, t, c
    <3>3. /\ s \o t \in Seq(Denom) /\ Len(s \o t) = Len(s) + Len(t)
          /\ \A i \in 1 .. Len(s) + Len(t) :
                (s \o t)[i] = IF i <= Len(s) THEN s[i] ELSE t[i - Len(s)]
      BY <1>1, <3>1, ConcatProperties
    <3> DEFINE u == s \o t
    <3>4. /\ u \in Seq(Denom) /\ Len(u) = Len(s) + Len(t) /\ Len(t) \in Nat
          /\ \A i \in 1 .. Len(s) + Len(t) :
                u[i] = IF i <= Len(s) THEN s[i] ELSE t[i - Len(s)]
      BY <3>1, <3>3
    <3>5. c = u
      BY <3>2
    <3> HIDE DEF u
    <3>6. DOMAIN u = 1 .. (Len(s) + Len(t))
      BY <3>4
    <3>7. IsFiniteSet(At(u, d))
      <4>1. At(u, d) \subseteq 1 .. (Len(s) + Len(t))
        BY <3>6 DEF At
      <4>2. IsFiniteSet(1 .. (Len(s) + Len(t)))
        BY <2>0, <3>4, FS_Interval
      <4> QED BY <4>1, <4>2, FS_Subset
    <3>8. At(s, d) \subseteq At(u, d)
      BY <2>0, <3>4, <3>6 DEF At
    <3> QED BY <3>5, <3>7, <3>8
  <2>2. CASE ~ (total > amount)
    <3>1. c = s
      BY <2>2 DEF Change
    <3>2. At(s, d) \subseteq 1 .. Len(s)
      BY <2>0 DEF At
    <3>3. IsFiniteSet(1 .. Len(s))
      BY <2>0, FS_Interval
    <3> QED BY <3>1, <3>2, <3>3, FS_Subset
  <2> QED BY <2>1, <2>2
<1>4. Enough(outs, s)
  <2> SUFFICES ASSUME NEW d \in Denom
               PROVE Cardinality(At(s, d)) <= Cardinality(Coins(outs, d))
    BY DEF Enough
  <2>1. IsFiniteSet(At(c, d)) /\ At(s, d) \in SUBSET At(c, d)
    BY <1>3
  <2>2. Cardinality(At(s, d)) <= Cardinality(At(c, d))
    BY <2>1, FS_Subset
  <2> QED BY <1>2, <2>2
<1> QED BY <1>1, <1>2, <1>4

-----------------------------------------------------------------------------
(* The parts of a state. *)

(* A state of the vault by its parts, and what an update makes of it. *)
VaultOf(P, q, O, n) == [proofs |-> P, pending |-> q, outbox |-> O, seq |-> n]

LEMMA Updates ==
  ASSUME NEW st \in VaultState, NEW P, NEW q, NEW O, NEW n
  PROVE  /\ [st EXCEPT !.seq = n] = VaultOf(st.proofs, st.pending, st.outbox,
             n)
         /\ [st EXCEPT !.proofs = P]
              = VaultOf(P, st.pending, st.outbox, st.seq)
         /\ [st EXCEPT !.outbox = O]
              = VaultOf(st.proofs, st.pending, O, st.seq)
         /\ [st EXCEPT !.proofs = P, !.pending = q]
              = VaultOf(P, q, st.outbox, st.seq)
         /\ [st EXCEPT !.proofs = P, !.outbox = O]
              = VaultOf(P, st.pending, O, st.seq)
<1>1. st \in [proofs : SUBSET Proof,
          pending : {None} \cup [ins : SUBSET Proof, outs : SUBSET Proof],
              outbox : SUBSET SUBSET Proof, seq : 0 .. MaxSeq]
  BY DEF VaultState
<1>2. [st EXCEPT !.seq = n] = VaultOf(st.proofs, st.pending, st.outbox, n)
  BY <1>1 DEF VaultOf
<1>3. [st EXCEPT !.proofs = P] = VaultOf(P, st.pending, st.outbox, st.seq)
  BY <1>1 DEF VaultOf
<1>4. [st EXCEPT !.outbox = O] = VaultOf(st.proofs, st.pending, O, st.seq)
  BY <1>1 DEF VaultOf
<1>5. [st EXCEPT !.proofs = P, !.pending = q]
        = VaultOf(P, q, st.outbox, st.seq)
  <2> SUFFICES ASSUME NEW w, w = [st EXCEPT !.proofs = P, !.pending = q]
               PROVE  w = VaultOf(P, q, st.outbox, st.seq)
    OBVIOUS
  <2> QED BY <1>1 DEF VaultOf
<1>6. [st EXCEPT !.proofs = P, !.outbox = O]
        = VaultOf(P, st.pending, O, st.seq)
  <2> SUFFICES ASSUME NEW w, w = [st EXCEPT !.proofs = P, !.outbox = O]
               PROVE  w = VaultOf(P, st.pending, O, st.seq)
    OBVIOUS
  <2> QED BY <1>1 DEF VaultOf
<1> QED BY <1>2, <1>3, <1>4, <1>5, <1>6

(* A command or a request is known by its op. *)
LEMMA Kinds ==
  ASSUME Base
  PROVE  /\ call.op = "topup" => call \in TopupCalls
         /\ call.op = "sign" => call \in SignCalls
         /\ call.op = "swap" => call \in SwapCalls
         /\ call.op = "pay" => call \in PayCalls
         /\ call.op = "idle" => call = Idle
         /\ \A r \in net : r.op = "sign" => r \in SignRequests
         /\ \A r \in net : r.op = "swap" => r \in SwapRequests
         /\ \A r \in net : r.op \in {"sign", "swap"}
BY DEF Base, TopupCalls, SignCalls, SwapCalls, PayCalls, Idle, SignRequests,
       SwapRequests

(* The inputs and outputs of a pending swap, or none. *)
LEMMA PendingKinds ==
  ASSUME NEW st \in VaultState
  PROVE  /\ PendingIns(st) \subseteq Proof /\ PendingOuts(st) \subseteq Proof
         /\ st.pending # None =>
              /\ st.pending = [ins |-> PendingIns(st),
                     outs |-> PendingOuts(st)]
              /\ PendingIns(st) = st.pending.ins
                   /\ PendingOuts(st) = st.pending.outs
         /\ st.pending = None => PendingIns(st) = {} /\ PendingOuts(st) = {}
BY DEF VaultState, PendingIns, PendingOuts

(* A swap that becomes pending. *)
LEMMA NewPending ==
  ASSUME NEW P, NEW O, NEW n, NEW ins \in SUBSET Proof,
         NEW outs \in SUBSET Proof,
         NEW st, st = VaultOf(P, [ins |-> ins, outs |-> outs], O, n)
  PROVE  /\ st.pending # None /\ st.pending = [ins |-> ins, outs |-> outs]
         /\ PendingIns(st) = ins /\ PendingOuts(st) = outs
<1>1. [ins |-> ins, outs |-> outs] # None
  BY PurseNone
<1> QED BY <1>1 DEF VaultOf, PendingIns, PendingOuts

(* What stops being awaited is otherwise the same request. *)
LEMMA OrphanedRequests ==
  ASSUME Base
  PROVE  /\ Orphaned \subseteq SignRequests \cup SwapRequests
         /\ \A q \in Orphaned : ~ q.awaited
         /\ \A q \in Orphaned : \E r \in net :
              /\ q.op = r.op
              /\ r.op = "sign" => q
                   = [op |-> "sign", proof |-> r.proof, seq |-> r.seq,
                       awaited |-> FALSE]
              /\ r.op = "swap" => q
                   = [op |-> "swap", ins |-> r.ins, outs |-> r.outs,
                       awaited |-> FALSE]
<1> SUFFICES ASSUME NEW r \in net, NEW q, q = [r EXCEPT !.awaited = FALSE]
             PROVE  /\ q \in SignRequests \cup SwapRequests /\ ~ q.awaited
                      /\ q.op = r.op
                    /\ r.op = "sign"
                         => q = [op |-> "sign", proof |-> r.proof,
                             seq |-> r.seq, awaited |-> FALSE]
                    /\ r.op = "swap"
                         => q = [op |-> "swap", ins |-> r.ins, outs |-> r.outs,
                             awaited |-> FALSE]
  BY DEF Orphaned
<1>1. CASE r \in SignRequests
  <2>1. q = [op |-> "sign", proof |-> r.proof, seq |-> r.seq,
            awaited |-> FALSE] /\ r.op = "sign"
    BY <1>1 DEF SignRequests
  <2> QED BY <1>1, <2>1 DEF SignRequests
<1>2. CASE r \in SwapRequests
  <2>1. q = [op |-> "swap", ins |-> r.ins, outs |-> r.outs, awaited |-> FALSE]
          /\ r.op = "swap"
    BY <1>2 DEF SwapRequests
  <2> QED BY <1>2, <2>1 DEF SwapRequests
<1> QED BY <1>1, <1>2 DEF Base

(* One request at most is awaited. *)
LEMMA AwaitedOnce ==
  ASSUME Base, NEW r \in net, r.awaited, NEW q \in net, q.awaited
  PROVE  q = r
<1>1. CASE r.op = "swap"
  <2>1. r.op = "swap" /\ q.op = "swap" /\ r.ins = q.ins /\ r.outs = q.outs
    BY <1>1 DEF Base, Waits
  <2>2. r \in SwapRequests /\ q \in SwapRequests
    BY <2>1, Kinds
  <2> QED BY <2>1, <2>2 DEF SwapRequests
<1>2. CASE r.op = "sign"
  <2>1. r.op = "sign" /\ q.op = "sign" /\ r.proof = q.proof /\ r.seq = q.seq
    BY <1>2 DEF Base, Waits
  <2>2. r \in SignRequests /\ q \in SignRequests
    BY <2>1, Kinds
  <2> QED BY <2>1, <2>2 DEF SignRequests
<1> QED BY <1>1, <1>2, Kinds

-----------------------------------------------------------------------------
(* What each operation of the vault does, as far as the invariant is        *)
(* concerned.                                                               *)

LEMMA TopupDoes ==
  ASSUME Base, NEW a \in Amount, Topup(a)
  PROVE  /\ UNCHANGED <<kioskVars, vault, flash, net, refused, abandoned,
             handed, lost>>
         /\ call = Idle /\ vault.pending = None
         /\ call' \in TopupCalls /\ call'.op = "topup"
<1>1. a \in Nat /\ a # 0 /\ a <= MaxTarget /\ IsSplit(SplitUp(a))
  BY Denoms DEF Topup
<1>2. SplitUp(a) \in Seq(Denom) /\ SplitUp(a) # <<>>
  BY <1>1, SplitType
<1> QED BY <1>2 DEF Topup, TopupCalls

LEMMA AskDoes ==
  ASSUME Base, NEW p \in Proof, AskSignature(p)
  PROVE  /\ UNCHANGED <<kioskVars, refused, abandoned, handed, lost>>
         /\ call.op = "topup" /\ call \in TopupCalls /\ vault.pending = None
         /\ p.secret \in Fresh
         /\ vault.seq + 1 \in 1 .. MaxSeq
         /\ vault' = VaultOf(vault.proofs, vault.pending, vault.outbox,
                vault.seq + 1)
         /\ \/ /\ flash' = vault'
               /\ net' = net \cup {SignRequest(p, vault.seq + 1)}
               /\ SignRequest(p, vault.seq + 1) \in SignRequests
               /\ call' \in SignCalls
               /\ call'.op = "sign" /\ call'.proof = p /\ call'.answer = "none"
            \/ UNCHANGED <<flash, net>> /\ call' = Idle
<1> DEFINE next == [vault EXCEPT !.seq = @ + 1]
<1>1. next = VaultOf(vault.proofs, vault.pending, vault.outbox, vault.seq + 1)
  <2>1. next = [vault EXCEPT !.seq = vault.seq + 1]
    BY DEF Base, VaultState
  <2> QED BY <2>1, Updates DEF Base
<1>2. next.seq = vault.seq + 1
  BY <1>1 DEF VaultOf
<1>3. /\ call.op = "topup" /\ vault.seq < MaxSeq /\ p.secret \in Fresh
      /\ vault' = next
      /\ \/ /\ flash' = next
            /\ net' = net \cup {SignRequest(p, next.seq)}
            /\ call' = [op |-> "sign", proof |-> p, todo |-> Tail(call.todo),
                   answer |-> "none"]
         \/ UNCHANGED <<flash, net>> /\ call' = Idle
      /\ UNCHANGED <<kioskVars, refused, abandoned, handed, lost>>
  BY DEF AskSignature
<1> HIDE DEF next
<1>4. call \in TopupCalls /\ vault.pending = None
  BY <1>3, Kinds DEF Base, MemoryAndFile
<1>5. Tail(call.todo) \in Seq(Denom)
  <2>1. call.todo \in Seq(Denom) /\ call.todo # <<>>
    BY <1>4 DEF TopupCalls
  <2> QED BY <2>1, HeadTailProperties
<1>6. vault.seq + 1 \in 1 .. MaxSeq
  BY <1>3, PurseAssumption DEF Base, VaultState
<1>7. SignRequest(p, vault.seq + 1) \in SignRequests
  BY <1>6 DEF SignRequest, SignRequests
<1>8. [op |-> "sign", proof |-> p, todo |-> Tail(call.todo), answer |-> "none"]
        \in SignCalls
  BY <1>5 DEF SignCalls, Answers
<1>9. call' = [op |-> "sign", proof |-> p, todo |-> Tail(call.todo),
          answer |-> "none"]
        => call'.op = "sign" /\ call'.proof = p /\ call'.answer = "none"
  OBVIOUS
<1> QED BY <1>1, <1>2, <1>3, <1>4, <1>6, <1>7, <1>8, <1>9

LEMMA TakeSignatureDoes ==
  ASSUME Base, TakeSignature
  PROVE  /\ UNCHANGED <<kioskVars, net, refused, abandoned, handed, lost>>
         /\ call.op = "sign" /\ call.answer = "ok" /\ call \in SignCalls
         /\ vault.pending = None /\ flash.pending = None
         /\ vault' = VaultOf(vault.proofs \cup {call.proof}, vault.pending,
                vault.outbox, vault.seq)
         /\ \/ flash' = vault' /\ call' \in {Idle} \cup TopupCalls
            \/ UNCHANGED flash /\ call' = Idle
<1> DEFINE next == [vault EXCEPT !.proofs = @ \cup {call.proof}]
<1>1. next = VaultOf(vault.proofs \cup {call.proof}, vault.pending,
          vault.outbox, vault.seq)
  <2>1. next = [vault EXCEPT !.proofs = vault.proofs \cup {call.proof}]
    BY DEF Base, VaultState
  <2> QED BY <2>1, Updates DEF Base
<1>2. /\ call.op = "sign" /\ call.answer = "ok"
      /\ vault' = next
      /\ \/ /\ flash' = next
            /\ call' = IF call.todo = <<>> THEN Idle
                       ELSE [op |-> "topup", todo |-> call.todo]
         \/ UNCHANGED flash /\ call' = Idle
      /\ UNCHANGED <<kioskVars, net, refused, abandoned, handed, lost>>
  BY DEF TakeSignature
<1> HIDE DEF next
<1>3. call \in SignCalls /\ vault.pending = None /\ flash.pending = None
  BY <1>2, Kinds DEF Base, MemoryAndFile
<1>4. call.todo # <<>> => [op |-> "topup", todo |-> call.todo] \in TopupCalls
  BY <1>3 DEF SignCalls, TopupCalls
<1> QED BY <1>1, <1>2, <1>3, <1>4

LEMMA HandOverDoes ==
  ASSUME Base, NEW S \in SUBSET vault.proofs, HandOver(S)
  PROVE  \/ UNCHANGED <<vault, flash, handed>>
         \/ /\ vault' = VaultOf(vault.proofs \ S, vault.pending,
                                vault.outbox \cup {S}, vault.seq)
            /\ flash' = vault' /\ handed' = handed \cup S
<1> DEFINE next == [vault EXCEPT !.proofs = @ \ S, !.outbox = @ \cup {S}]
<1>1. next = VaultOf(vault.proofs \ S, vault.pending, vault.outbox \cup {S},
          vault.seq)
  BY Updates DEF Base
<1> QED BY <1>1 DEF HandOver, SaveAndAdopt, SaveFails

LEMMA PayDoes ==
  ASSUME Base, NEW a \in Amount, NEW l \in BOOLEAN, Pay(a, l)
  PROVE  /\ UNCHANGED <<kioskVars, call, net, refused, abandoned, lost>>
         /\ call = Idle /\ vault.pending = None
         /\ \E S \in SUBSET vault.proofs : HandOver(S)
BY DEF Pay, Adds, Candidates, Unlocked

LEMMA PayWithChangeDoes ==
  ASSUME Base, PayWithChange
  PROVE  /\ UNCHANGED <<kioskVars, net, refused, abandoned, lost>>
         /\ call.op = "pay" /\ call' = Idle /\ vault.pending = None
         /\ \E S \in SUBSET vault.proofs : HandOver(S)
BY DEF PayWithChange, Adds, Unlocked, Base, MemoryAndFile

LEMMA MakeChangeDoes ==
  ASSUME Base, NEW a \in Amount, MakeChange(a)
  PROVE  /\ UNCHANGED <<kioskVars, refused, abandoned, handed, lost>>
         /\ call = Idle /\ vault.pending = None /\ a \in Nat /\ a # 0
         /\ \E ins \in SUBSET Unlocked(vault.proofs),
               outs \in SUBSET [secret : Fresh \ Locked, amount : Denom] :
              /\ \A p, q \in outs : p.secret = q.secret => p = q
              /\ AddsUp(outs, a)
              /\ ins \subseteq Proof /\ outs \subseteq Proof
              /\ \/ UNCHANGED <<vault, flash, net, call>>
                 \/ /\ vault' = VaultOf(vault.proofs \ ins,
                           [ins |-> ins, outs |-> outs],
                                        vault.outbox, vault.seq)
                    /\ flash' = vault'
                    /\ net' = net \cup {SwapRequest(ins, outs)}
                    /\ SwapRequest(ins, outs) \in SwapRequests
                    /\ call' \in SwapCalls /\ call'.op = "swap" /\ call'.first
                    /\ call'.pay = a /\ call'.answer = "none"
<1> DEFINE coins == Unlocked(vault.proofs)
<1>1. PICK ins \in Inputs(coins, a) :
        /\ Splittable(a, Value(ins))
        /\ \E outs \in Outputs(Change(a, Value(ins))) :
           \/ /\ SaveAndAdopt([vault EXCEPT !.proofs = @ \ ins,
                                 !.pending = [ins |-> ins, outs |-> outs]])
              /\ net' = net \cup {SwapRequest(ins, outs)}
              /\ call' = [op |-> "swap", first |-> TRUE, pay |-> a,
                          answer |-> "none"]
           \/ SaveFails /\ UNCHANGED <<net, call>>
  BY DEF MakeChange
<1>2. /\ UNCHANGED <<kioskVars, refused, abandoned, handed, lost>>
      /\ call = Idle /\ vault.pending = None /\ a <= MaxTarget
      /\ a \in Nat /\ a # 0
  BY Denoms DEF MakeChange
<1>3. coins \in SUBSET Proof
  BY DEF Base, VaultState, Unlocked
<1> HIDE DEF coins
<1>4. /\ ins \subseteq coins /\ Value(ins) \in Nat
      /\ Value(ins) > a => Value(ins) - a \in 0 .. MaxTarget
  BY <1>2, <1>3, ChangeBelowMax
<1>5. PICK outs \in Outputs(Change(a, Value(ins))) :
           \/ /\ SaveAndAdopt([vault EXCEPT !.proofs = @ \ ins,
                                 !.pending = [ins |-> ins, outs |-> outs]])
              /\ net' = net \cup {SwapRequest(ins, outs)}
              /\ call' = [op |-> "swap", first |-> TRUE, pay |-> a,
                          answer |-> "none"]
           \/ SaveFails /\ UNCHANGED <<net, call>>
  BY <1>1
<1>6. /\ outs \in SUBSET [secret : Fresh \ Locked, amount : Denom]
      /\ \A p, q \in outs : p.secret = q.secret => p = q
  BY DEF Outputs
<1>7. AddsUp(outs, a)
  <2> DEFINE total == Value(ins)
  <2>1. total \in Nat /\ (total > a => total - a \in 0 .. MaxTarget)
          /\ Splittable(a, total)
        /\ outs \in Outputs(Change(a, total))
    BY <1>1, <1>4
  <2> HIDE DEF total
  <2> QED BY <1>2, <2>1, OutputsAddUp
<1>8. ins \subseteq Proof /\ outs \subseteq Proof
  BY <1>3, <1>4, <1>6, PurseAssumption DEF Proof, K!Proof, Fresh
<1>9. [vault EXCEPT !.proofs = @ \ ins,
          !.pending = [ins |-> ins, outs |-> outs]]
        = VaultOf(vault.proofs \ ins, [ins |-> ins, outs |-> outs],
            vault.outbox, vault.seq)
  BY Updates DEF Base
<1>10. /\ SwapRequest(ins, outs) \in SwapRequests
       /\ [op |-> "swap", first |-> TRUE, pay |-> a, answer |-> "none"]
            \in SwapCalls
  BY <1>2, <1>8 DEF SwapRequest, SwapRequests, SwapCalls, Answers
<1>11. call' = [op |-> "swap", first |-> TRUE, pay |-> a, answer |-> "none"]
         => call'.op = "swap" /\ call'.first /\ call'.pay = a
           /\ call'.answer = "none"
  OBVIOUS
<1> QED
  BY <1>2, <1>4, <1>5, <1>6, <1>7, <1>8, <1>9, <1>10, <1>11
  DEF SaveAndAdopt, SaveFails, coins

LEMMA TakeSwapDoes ==
  ASSUME Base, TakeSwap
  PROVE  /\ UNCHANGED <<kioskVars, net, abandoned, handed, lost>>
         /\ call.op = "swap" /\ call.answer = "ok" /\ call \in SwapCalls
         /\ vault.pending # None
         /\ \/ UNCHANGED <<vault, flash, refused>> /\ call' = Idle
            \/ /\ vault' = VaultOf(vault.proofs \cup Outs, None, vault.outbox,
                      vault.seq)
               /\ flash' = vault' /\ refused' = FALSE
               /\ \/ call' = Idle
                  \/ /\ call' \in PayCalls /\ call'.op = "pay"
                          /\ call'.amount = call.pay
                     /\ call.pay # 0
<1>1. /\ call.op = "swap" /\ call.answer = "ok" /\ call \in SwapCalls
      /\ vault.pending # None /\ vault.pending.outs = Outs
  BY Kinds, PendingKinds DEF TakeSwap, Base, MemoryAndFile, Outs
<1>2. [vault EXCEPT !.proofs = @ \cup vault.pending.outs, !.pending = None]
        = VaultOf(vault.proofs \cup Outs, None, vault.outbox, vault.seq)
  BY <1>1, Updates DEF Base
<1>3. [op |-> "pay", amount |-> call.pay] \in PayCalls
  BY <1>1 DEF SwapCalls, PayCalls
<1>4. call' = [op |-> "pay", amount |-> call.pay]
        => call'.op = "pay" /\ call'.amount = call.pay
  OBVIOUS
<1> QED BY <1>1, <1>2, <1>3, <1>4 DEF TakeSwap, SaveAndAdopt, SaveFails

LEMMA RestoreDoes ==
  ASSUME Base, vault.pending # None, RestoreInputs
  PROVE  \/ UNCHANGED <<vault, flash, refused>>
         \/ /\ vault' = VaultOf(vault.proofs \cup Ins, None, vault.outbox,
                   vault.seq)
            /\ flash' = vault' /\ refused' = FALSE
<1>1. vault.pending.ins = Ins
  BY PendingKinds DEF Base, Ins
<1>2. [vault EXCEPT !.proofs = @ \cup vault.pending.ins, !.pending = None]
        = VaultOf(vault.proofs \cup Ins, None, vault.outbox, vault.seq)
  BY <1>1, Updates DEF Base
<1> QED BY <1>2 DEF RestoreInputs, SaveAndAdopt, SaveFails

LEMMA RecoverDoes ==
  ASSUME Base, Recover
  PROVE  /\ UNCHANGED <<kioskVars, vault, flash, abandoned, handed, lost>>
         /\ call = Idle /\ vault.pending # None
         /\ net' = net \cup {SwapRequest(Ins, Outs)}
         /\ SwapRequest(Ins, Outs) \in SwapRequests
         /\ call' \in SwapCalls /\ call'.op = "swap" /\ ~ call'.first
         /\ call'.pay = 0 /\ call'.answer = "none"
         /\ refused' = FALSE
<1>1. /\ vault.pending # None
      /\ vault.pending.ins = Ins /\ vault.pending.outs = Outs
      /\ Ins \subseteq Proof /\ Outs \subseteq Proof
  BY PendingKinds DEF Recover, Base, Ins, Outs
<1>2. SwapRequest(Ins, Outs) \in SwapRequests
  BY <1>1 DEF SwapRequest, SwapRequests
<1>3. [op |-> "swap", first |-> FALSE, pay |-> 0, answer |-> "none"]
        \in SwapCalls
  BY DEF SwapCalls, Answers
<1>4. call' = [op |-> "swap", first |-> FALSE, pay |-> 0, answer |-> "none"]
         => call'.op = "swap" /\ ~ call'.first /\ call'.pay = 0
           /\ call'.answer = "none"
  OBVIOUS
<1> QED BY <1>1, <1>2, <1>3, <1>4 DEF Recover

LEMMA AckDoes ==
  ASSUME Base, NEW token \in vault.outbox, AckOutbox(token)
  PROVE  /\ UNCHANGED <<kioskVars, call, net, refused, abandoned, handed,
             lost>>
         /\ call = Idle
         /\ vault' = VaultOf(vault.proofs, vault.pending,
                vault.outbox \ {token}, vault.seq)
         /\ flash' \in {flash, vault'}
<1>1. [vault EXCEPT !.outbox = @ \ {token}]
        = VaultOf(vault.proofs, vault.pending, vault.outbox \ {token},
            vault.seq)
  <2>1. [vault EXCEPT !.outbox = @ \ {token}]
          = [vault EXCEPT !.outbox = vault.outbox \ {token}]
    BY DEF Base, VaultState
  <2> QED BY <2>1, Updates DEF Base
<1> QED BY <1>1 DEF AckOutbox

LEMMA AnsweredDoes ==
  ASSUME Base, NEW r \in net, NEW a \in Answers, Answered(r, a)
  PROVE  /\ UNCHANGED <<vault, flash, refused, abandoned, handed, lost>>
         /\ net' = net \ {r}
         /\ \/ ~ r.awaited /\ UNCHANGED call
            \/ /\ r.awaited /\ r.op = "sign" /\ call.op = "sign"
                    /\ call \in SignCalls
               /\ r.proof = call.proof /\ call.answer = "none"
               /\ call' \in SignCalls
               /\ call'.op = "sign" /\ call'.proof = call.proof
                    /\ call'.answer = a
            \/ /\ r.awaited /\ r.op = "swap" /\ call.op = "swap"
                    /\ call \in SwapCalls
               /\ vault.pending # None /\ r.ins = Ins /\ r.outs = Outs
                    /\ call.answer = "none"
               /\ call' \in SwapCalls /\ call'.op = "swap"
                    /\ call'.first = call.first
               /\ call'.pay = call.pay /\ call'.answer = a
<1>1. /\ UNCHANGED <<vault, flash, refused, abandoned, handed, lost>>
      /\ net' = net \ {r}
      /\ r.awaited => call' = [call EXCEPT !.answer = a]
      /\ ~ r.awaited => call' = call
  BY DEF Answered
<1>2. r.op \in {"sign", "swap"} /\ r.awaited \in BOOLEAN
  BY Kinds DEF SignRequests, SwapRequests
<1>3. ASSUME r.awaited, r.op = "sign"
      PROVE  /\ call.op = "sign" /\ call \in SignCalls
             /\ r.proof = call.proof /\ call.answer = "none"
             /\ call' \in SignCalls
             /\ call'.op = "sign" /\ call'.proof = call.proof
                  /\ call'.answer = a
  <2>1. call.op = "sign" /\ call \in SignCalls /\ r.proof = call.proof
          /\ call.answer = "none"
    BY <1>3, Kinds DEF Base, Waits
  <2>2. call' = [op |-> "sign", proof |-> call.proof, todo |-> call.todo,
            answer |-> a]
    BY <1>1, <1>3, <2>1 DEF SignCalls
  <2> QED BY <2>1, <2>2 DEF SignCalls
<1>4. ASSUME r.awaited, r.op = "swap"
      PROVE  /\ call.op = "swap" /\ call \in SwapCalls
             /\ vault.pending # None /\ r.ins = Ins /\ r.outs = Outs
                  /\ call.answer = "none"
             /\ call' \in SwapCalls /\ call'.op = "swap"
                  /\ call'.first = call.first
             /\ call'.pay = call.pay /\ call'.answer = a
  <2>1. call.op = "swap" /\ call \in SwapCalls /\ call.answer = "none"
        /\ r.ins = vault.pending.ins /\ r.outs = vault.pending.outs
    BY <1>4, Kinds DEF Base, Waits
  <2>2. vault.pending # None /\ r.ins = Ins /\ r.outs = Outs
    BY <2>1, PendingKinds DEF Base, MemoryAndFile, Ins, Outs
  <2>3. call' = [op |-> "swap", first |-> call.first, pay |-> call.pay,
            answer |-> a]
    BY <1>1, <1>4, <2>1 DEF SwapCalls
  <2> QED BY <2>1, <2>2, <2>3 DEF SwapCalls
<1> QED BY <1>1, <1>2, <1>3, <1>4

-----------------------------------------------------------------------------
(* What each operation of the kiosk does. *)

(* The entries of the cache: after an eviction they are old ones and the    *)
(* new one.                                                                 *)
Entry == [ins : SUBSET Secret, outs : SUBSET Proof]

LEMMA EvictKeepsEntries ==
  ASSUME NEW cache \in Seq(Entry), NEW e \in Entry
  PROVE  LET new == K!Evict(Append(cache, e))
         IN  /\ new \in Seq(Entry)
             /\ \A i \in DOMAIN new : new[i] = e \/ \E j \in DOMAIN cache :
                  new[i] = cache[j]
<1> DEFINE all == Append(cache, e)
           new == K!Evict(all)
<1>1. /\ all \in Seq(Entry) /\ Len(all) = Len(cache) + 1 /\ Len(cache) \in Nat
      /\ \A i \in 1 .. Len(cache) : all[i] = cache[i]
      /\ all[Len(cache) + 1] = e
  BY AppendProperties
<1>2. DOMAIN cache = 1 .. Len(cache) /\ DOMAIN all = 1 .. (Len(cache) + 1)
  BY <1>1
<1>3. MaxSwapCache \in Nat \ {0}
  BY Denoms
<1> HIDE DEF all
<1>4. \A k \in DOMAIN all : all[k] = e \/ \E j \in DOMAIN cache :
        all[k] = cache[j]
  <2> SUFFICES ASSUME NEW k \in 1 .. (Len(cache) + 1), k # Len(cache) + 1
               PROVE  \E j \in DOMAIN cache : all[k] = cache[j]
    BY <1>1, <1>2
  <2>1. k \in 1 .. Len(cache)
    BY <1>1
  <2> QED BY <1>1, <1>2, <2>1
<1>5. CASE Len(all) <= MaxSwapCache
  <2>1. new = all
    BY <1>5 DEF K!Evict
  <2> HIDE DEF new
  <2> QED BY <1>1, <1>4, <2>1 DEF new, all
<1>6. CASE ~ (Len(all) <= MaxSwapCache)
  <2> DEFINE m == Len(all) - MaxSwapCache + 1
             n == Len(all)
  <2>1. new = SubSeq(all, m, n)
    BY <1>6 DEF K!Evict
  <2>2. m \in 1 .. Len(all) + 1 /\ n \in m - 1 .. Len(all) /\ m <= n
          /\ n - m + 1 = MaxSwapCache /\ m \in Nat /\ n \in Nat
    BY <1>1, <1>3, <1>6
  <2>3. /\ SubSeq(all, m, n) \in Seq(Entry)
        /\ Len(SubSeq(all, m, n)) = IF m <= n THEN n - m + 1 ELSE 0
        /\ \A i \in 1 .. n - m + 1 : SubSeq(all, m, n)[i] = all[m + i - 1]
    <3> HIDE DEF m, n
    <3> QED BY <1>1, <2>2, SubSeqProperties
  <2> HIDE DEF m, new
  <2>4. new \in Seq(Entry) /\ Len(new) = MaxSwapCache
    BY <2>1, <2>2, <2>3
  <2>5. ASSUME NEW i \in DOMAIN new PROVE \E k \in DOMAIN all : new[i] = all[k]
    <3>1. i \in 1 .. n - m + 1
      BY <1>3, <2>2, <2>4
    <3>2. m + i - 1 \in 1 .. Len(all)
      BY <1>1, <2>2, <3>1
    <3> QED BY <1>1, <1>2, <2>1, <2>3, <3>1, <3>2
  <2> QED BY <1>4, <2>4, <2>5 DEF new, all
<1> QED BY <1>5, <1>6

LEMMA KioskSignsDoes ==
  ASSUME Base, NEW r \in net, KioskSigns(r)
  PROVE  /\ r.op = "sign" /\ r \in SignRequests /\ Answered(r, "ok")
         /\ signed' = signed \cup {r.proof}
         /\ lastSeq' = [lastSeq EXCEPT ![Me] = r.seq] /\ lastSeq[Me] < r.seq
         /\ UNCHANGED <<spent, swapCache>>
<1>1. r.op = "sign" /\ K!SignForDevice(Me, r.seq, r.proof)
        /\ signed' = signed \cup {r.proof}
      /\ Answered(r, "ok")
  BY DEF KioskSigns
<1>2. r.seq > lastSeq[Me] /\ lastSeq' = [lastSeq EXCEPT ![Me] = r.seq]
        /\ UNCHANGED <<spent, swapCache>>
  BY <1>1 DEF K!SignForDevice
<1>3. r \in SignRequests
  BY <1>1, Kinds
<1>4. lastSeq[Me] \in Nat /\ r.seq \in Nat
  BY <1>3, PurseAssumption DEF Base, SignRequests
<1> QED BY <1>1, <1>2, <1>3, <1>4

(* What a swap does at the kiosk. *)
SwapDone(ins, outs) ==
  /\ ins # {} /\ ins \subseteq signed /\ K!Secrets(ins) \cap spent = {}
  /\ spent' = spent \cup K!Secrets(ins)
  /\ signed' = signed \cup outs
  /\ swapCache' = K!Evict(Append(swapCache,
         [ins |-> K!Secrets(ins), outs |-> outs]))
  /\ UNCHANGED lastSeq

LEMMA SwapDoes ==
  ASSUME NEW ins, NEW outs, K!Swap(ins, outs)
  PROVE  SwapDone(ins, outs)
BY DEF SwapDone, K!Swap, K!Swappable, K!CheckProof, K!deviceVars, K!Secrets

LEMMA KioskSwapsDoes ==
  ASSUME Base, NEW r \in net, KioskSwaps(r)
  PROVE  /\ r.op = "swap" /\ r \in SwapRequests /\ Answered(r, "ok")
         /\ \/ SwapDone(r.ins, r.outs)
            \/ K!CachedSwap(r.ins, r.outs) /\ UNCHANGED kioskVars
BY SwapDoes, Kinds DEF KioskSwaps

LEMMA PayeeSettlesDoes ==
  ASSUME NEW p \in handed, NEW m \in Merchant, PayeeSettles(p, m)
  PROVE  /\ p \in signed /\ p.secret \notin spent
           /\ spent' = spent \cup {p.secret}
         /\ UNCHANGED <<signed, lastSeq, swapCache, vault, flash, call, net,
                refused, abandoned, handed, lost>>
BY DEF PayeeSettles, K!SettleFor, K!CheckProof, K!deviceVars

LEMMA OthersSwapDoes ==
  ASSUME NEW p \in signed, NEW q \in Proof, OthersSwap(p, q)
  PROVE  /\ p.secret \notin Mine /\ q.secret \notin Mine
         /\ SwapDone({p}, {q})
         /\ UNCHANGED <<vault, flash, call, net, refused, abandoned, handed,
                lost>>
BY SwapDoes DEF OthersSwap

(* The cache after a swap. *)
LEMMA CacheType ==
  ASSUME Base, NEW ins \in SUBSET Proof, NEW outs \in SUBSET Proof,
         SwapDone(ins, outs)
  PROVE  /\ swapCache' \in Seq(Entry)
         /\ [ins |-> K!Secrets(ins), outs |-> outs] \in Entry
         /\ signed' \subseteq Proof
<1>1. [ins |-> K!Secrets(ins), outs |-> outs] \in Entry
  BY DEF Entry, K!Secrets, Proof, K!Proof
<1>2. swapCache \in Seq(Entry)
  BY DEF Base, Entry
<1>3. K!Evict(Append(swapCache, [ins |-> K!Secrets(ins), outs |-> outs]))
        \in Seq(Entry)
  BY <1>1, <1>2, EvictKeepsEntries
<1> QED BY <1>1, <1>3 DEF SwapDone, Base

-----------------------------------------------------------------------------
(* Types, memory against state file, and requests against the command. *)

(* The kiosk of a state of Base is typed, and so is the vault of the next   *)
(* one.                                                                     *)
KioskTypes ==
  /\ signed \subseteq Proof
  /\ lastSeq \in [Device -> Nat]
  /\ swapCache \in Seq(Entry)

LEMMA StateType ==
  ASSUME NEW P \in SUBSET Proof, NEW O \in SUBSET SUBSET Proof,
         NEW n \in 0 .. MaxSeq,
         NEW q \in {None} \cup [ins : SUBSET Proof, outs : SUBSET Proof]
  PROVE  VaultOf(P, q, O, n) \in VaultState
BY DEF VaultOf, VaultState

(* Every step keeps Base, and the initial state has it. *)
LEMMA BaseStep == Base /\ [Next]_vars => Base'
<1> SUFFICES ASSUME Base, [Next]_vars PROVE Base'
  OBVIOUS
<1> USE DEF Entry
<1>a. /\ vault \in VaultState /\ flash \in VaultState
      /\ vault.proofs \subseteq Proof /\ vault.outbox \subseteq SUBSET Proof
      /\ vault.seq \in 0 .. MaxSeq /\ vault.seq \in Nat /\ flash.seq \in Nat
      /\ vault.pending \in {None} \cup [ins : SUBSET Proof,
             outs : SUBSET Proof]
      /\ Ins \subseteq Proof /\ Outs \subseteq Proof
  <2>1. vault \in VaultState /\ flash \in VaultState
    BY DEF Base
  <2>2. /\ vault.proofs \subseteq Proof /\ vault.outbox \subseteq SUBSET Proof
        /\ vault.seq \in 0 .. MaxSeq /\ flash.seq \in 0 .. MaxSeq
        /\ vault.pending \in {None}
             \cup [ins : SUBSET Proof, outs : SUBSET Proof]
    BY <2>1 DEF VaultState
  <2>3. Ins \subseteq Proof /\ Outs \subseteq Proof
    BY <2>1, PendingKinds DEF Ins, Outs
  <2> QED BY <2>1, <2>2, <2>3, PurseAssumption
<1>b. /\ flash.pending = vault.pending
      /\ flash.proofs \subseteq vault.proofs
      /\ flash.seq <= vault.seq
      /\ call.op \in {"topup", "sign", "pay"} => vault.pending = None
      /\ call.op = "swap" => vault.pending # None
      /\ flash.seq \in 0 .. MaxSeq
  BY DEF Base, MemoryAndFile, VaultState
<1>c. \A r \in net : r.awaited => call.op \in {"sign", "swap"}
        /\ call.answer = "none" /\ r.op = call.op
  BY Kinds DEF Base, Waits
<1>1. ASSUME NEW a \in Amount, Topup(a) PROVE Base'
  BY <1>1, TopupDoes, <1>c DEF Base, MemoryAndFile, Waits, Idle, kioskVars
<1>2. ASSUME NEW p \in Proof, AskSignature(p) PROVE Base'
  <2>1. /\ UNCHANGED <<kioskVars, refused, abandoned, handed, lost>>
        /\ call.op = "topup" /\ vault.pending = None
        /\ vault' = VaultOf(vault.proofs, vault.pending, vault.outbox,
               vault.seq + 1)
        /\ vault.seq + 1 \in 1 .. MaxSeq
        /\ \/ /\ flash' = vault'
              /\ net' = net \cup {SignRequest(p, vault.seq + 1)}
              /\ SignRequest(p, vault.seq + 1) \in SignRequests
              /\ call'.op = "sign" /\ call'.proof = p /\ call'.answer = "none"
              /\ call' \in SignCalls
           \/ UNCHANGED <<flash, net>> /\ call' = Idle
    BY <1>2, AskDoes
  <2>2. vault' \in VaultState
    BY <1>a, <2>1, StateType
  <2>3. MemoryAndFile'
    BY <1>a, <1>b, <2>1 DEF MemoryAndFile, VaultOf, Idle
  <2>4. \A r \in net : ~ r.awaited
    BY <1>c, <2>1
  <2>5. Waits'
    BY <2>1, <2>4 DEF Waits, SignRequest, VaultOf
  <2> QED BY <2>1, <2>2, <2>3, <2>5 DEF Base, kioskVars
<1>3. ASSUME TakeSignature PROVE Base'
  <2>1. /\ UNCHANGED <<kioskVars, net, refused, abandoned, handed, lost>>
        /\ call.op = "sign" /\ call.answer = "ok" /\ call.proof \in Proof
        /\ vault.pending = None /\ flash.pending = None
        /\ vault' = VaultOf(vault.proofs \cup {call.proof}, vault.pending,
               vault.outbox, vault.seq)
        /\ \/ flash' = vault' /\ call' \in {Idle} \cup TopupCalls
           \/ UNCHANGED flash /\ call' = Idle
    BY <1>3, TakeSignatureDoes DEF SignCalls
  <2>2. vault' \in VaultState
    BY <1>a, <2>1, StateType
  <2>3. MemoryAndFile'
    BY <1>a, <1>b, <2>1 DEF MemoryAndFile, VaultOf, Idle, TopupCalls
  <2>5. Waits'
    BY <1>c, <2>1 DEF Waits
  <2> QED BY <2>1, <2>2, <2>3, <2>5 DEF Base, kioskVars
<1>4. ASSUME MissSignature PROVE Base'
  <2>1. /\ call.op = "sign" /\ call \in SignCalls /\ call' = Idle
             /\ net' = Orphaned
        /\ lost' \in {lost, lost \cup {call.proof}}
        /\ UNCHANGED <<kioskVars, vault, flash, refused, abandoned, handed>>
    BY <1>4, Kinds DEF MissSignature
  <2>2. lost' \subseteq Proof
    BY <2>1 DEF Base, SignCalls
  <2>3. net' \subseteq SignRequests \cup SwapRequests /\ Waits'
    BY <2>1, OrphanedRequests DEF Waits
  <2>4. MemoryAndFile'
    BY <1>a, <1>b, <2>1 DEF MemoryAndFile, Idle
  <2> QED BY <2>1, <2>2, <2>3, <2>4 DEF Base, kioskVars
<1>5. ASSUME NEW S \in SUBSET vault.proofs, HandOver(S), call' = Idle,
             call = Idle \/ call.op = "pay", vault.pending = None,
             UNCHANGED <<kioskVars, net, refused, abandoned, lost>>
      PROVE  Base'
  <2>1. \/ UNCHANGED <<vault, flash, handed>>
        \/ /\ vault' = VaultOf(vault.proofs \ S, vault.pending,
                  vault.outbox \cup {S}, vault.seq)
           /\ flash' = vault' /\ handed' = handed \cup S
    BY <1>5, HandOverDoes
  <2>2. vault' \in VaultState /\ flash' \in VaultState
          /\ handed' \subseteq Proof
    <3>1. /\ vault.proofs \ S \in SUBSET Proof
          /\ vault.outbox \cup {S} \in SUBSET SUBSET Proof
      BY <1>a
    <3>2. VaultOf(vault.proofs \ S, vault.pending, vault.outbox \cup {S},
              vault.seq) \in VaultState
      BY <1>a, <3>1, StateType
    <3> QED BY <1>a, <2>1, <3>2 DEF Base
  <2>3. MemoryAndFile'
    BY <1>5, <1>a, <1>b, <2>1 DEF MemoryAndFile, VaultOf, Idle
  <2>5. Waits'
    BY <1>c, <1>5 DEF Waits, Idle
  <2> QED BY <1>5, <2>2, <2>3, <2>5 DEF Base, kioskVars
<1>6. ASSUME NEW a \in Amount, NEW l \in BOOLEAN, Pay(a, l) PROVE Base'
  BY <1>5, <1>6, PayDoes
<1>7. ASSUME NEW a \in Amount, MakeChange(a) PROVE Base'
  <2>1. PICK ins \in SUBSET vault.proofs,
             outs \in SUBSET [secret : Fresh \ Locked, amount : Denom] :
          /\ ins \subseteq Proof /\ outs \subseteq Proof
          /\ \/ UNCHANGED <<vault, flash, net, call>>
             \/ /\ vault' = VaultOf(vault.proofs \ ins,
                       [ins |-> ins, outs |-> outs],
                                    vault.outbox, vault.seq)
                /\ flash' = vault'
                /\ net' = net \cup {SwapRequest(ins, outs)}
                /\ SwapRequest(ins, outs) \in SwapRequests
                /\ call' \in SwapCalls /\ call'.op = "swap"
                     /\ call'.answer = "none"
    <3>1. Unlocked(vault.proofs) \subseteq vault.proofs
      BY DEF Unlocked
    <3> QED BY <1>7, <3>1, MakeChangeDoes
  <2>2. call = Idle /\ UNCHANGED <<kioskVars, refused, abandoned, handed,
            lost>>
    BY <1>7, MakeChangeDoes
  <2>3. CASE UNCHANGED <<vault, flash, net, call>>
    BY <2>2, <2>3 DEF Base, MemoryAndFile, Waits, kioskVars
  <2>4. CASE /\ vault' = VaultOf(vault.proofs \ ins,
                 [ins |-> ins, outs |-> outs],
                                    vault.outbox, vault.seq)
             /\ flash' = vault'
             /\ net' = net \cup {SwapRequest(ins, outs)}
             /\ SwapRequest(ins, outs) \in SwapRequests
             /\ call' \in SwapCalls /\ call'.op = "swap"
                  /\ call'.answer = "none"
    <3>1. vault' \in VaultState
      <4>1. vault.proofs \ ins \in SUBSET Proof
        BY <1>a
      <4> QED BY <1>a, <2>1, <2>4, <4>1, StateType
    <3>2. vault'.pending # None /\ vault'.pending
            = [ins |-> ins, outs |-> outs]
      <4>1. ins \in SUBSET Proof /\ outs \in SUBSET Proof
        BY <2>1
      <4> QED BY <2>4, <4>1, PurseNone DEF VaultOf
    <3>3. MemoryAndFile'
      BY <1>a, <1>b, <2>4, <3>1, <3>2 DEF MemoryAndFile, VaultOf, VaultState
    <3>4. Waits'
      BY <1>c, <2>2, <2>4, <3>2 DEF Waits, SwapRequest, Idle
    <3> QED BY <2>2, <2>4, <3>1, <3>3, <3>4 DEF Base, kioskVars
  <2> QED BY <2>1, <2>3, <2>4
<1>8. ASSUME TakeSwap PROVE Base'
  <2>1. /\ UNCHANGED <<kioskVars, net, abandoned, handed, lost>>
        /\ call.op = "swap" /\ call.answer = "ok"
        /\ \/ UNCHANGED <<vault, flash, refused>> /\ call' = Idle
           \/ /\ vault' = VaultOf(vault.proofs \cup Outs, None, vault.outbox,
                     vault.seq)
              /\ flash' = vault' /\ refused' = FALSE
              /\ call' \in {Idle} \cup PayCalls
    BY <1>8, TakeSwapDoes
  <2>2. vault' \in VaultState /\ flash' \in VaultState
    <3>1. vault.proofs \cup Outs \in SUBSET Proof
      BY <1>a
    <3>2. VaultOf(vault.proofs \cup Outs, None, vault.outbox, vault.seq)
            \in VaultState
      BY <1>a, <3>1, StateType
    <3> QED BY <1>a, <2>1, <3>2
  <2>3. MemoryAndFile'
    BY <1>a, <1>b, <2>1 DEF MemoryAndFile, VaultOf, Idle, PayCalls
  <2>5. Waits'
    BY <1>c, <2>1 DEF Waits
  <2> QED BY <2>1, <2>2, <2>3, <2>5 DEF Base, kioskVars
<1>9. ASSUME PayWithChange PROVE Base'
  BY <1>5, <1>9, PayWithChangeDoes
<1>10. ASSUME RestoreInputs, call' = Idle, vault.pending # None,
              UNCHANGED <<kioskVars, net, handed, lost>>,
              abandoned' \in BOOLEAN,
              \A r \in net : ~ r.awaited
       PROVE  Base'
  <2>1. \/ UNCHANGED <<vault, flash, refused>>
        \/ /\ vault' = VaultOf(vault.proofs \cup Ins, None, vault.outbox,
                  vault.seq)
           /\ flash' = vault' /\ refused' = FALSE
    BY <1>10, RestoreDoes
  <2>2. vault' \in VaultState /\ flash' \in VaultState
    <3>1. vault.proofs \cup Ins \in SUBSET Proof
      BY <1>a
    <3>2. VaultOf(vault.proofs \cup Ins, None, vault.outbox, vault.seq)
            \in VaultState
      BY <1>a, <3>1, StateType
    <3> QED BY <1>a, <2>1, <3>2
  <2>3. MemoryAndFile'
    BY <1>a, <1>b, <1>10, <2>1 DEF MemoryAndFile, VaultOf, Idle
  <2>5. Waits'
    BY <1>10 DEF Waits
  <2> QED BY <1>10, <2>1, <2>2, <2>3, <2>5 DEF Base, kioskVars
<1>11. ASSUME AbandonRefused PROVE Base'
  <2>1. /\ call.op = "swap" /\ call.answer = "refused"
        /\ RestoreInputs
        /\ call' = Idle
        /\ UNCHANGED <<kioskVars, net, abandoned, handed, lost>>
    BY <1>11 DEF AbandonRefused
  <2>2. abandoned' \in BOOLEAN
    BY <2>1 DEF Base
  <2> QED BY <1>10, <1>b, <1>c, <2>1, <2>2
<1>12. ASSUME LeavePending PROVE Base'
  <2>1. /\ call' = Idle /\ net' = Orphaned /\ refused' \in {refused, TRUE}
        /\ UNCHANGED <<kioskVars, vault, flash, abandoned, handed, lost>>
    BY <1>12 DEF LeavePending
  <2>3. net' \subseteq SignRequests \cup SwapRequests /\ Waits'
    BY <2>1, OrphanedRequests DEF Waits
  <2>4. MemoryAndFile'
    BY <1>a, <1>b, <2>1 DEF MemoryAndFile, Idle
  <2> QED BY <2>1, <2>3, <2>4 DEF Base, kioskVars
<1>13. ASSUME Recover PROVE Base'
  <2>1. /\ UNCHANGED <<kioskVars, vault, flash, abandoned, handed, lost>>
        /\ call = Idle /\ vault.pending # None
        /\ net' = net \cup {SwapRequest(Ins, Outs)}
        /\ SwapRequest(Ins, Outs) \in SwapRequests
        /\ call'.op = "swap" /\ call'.answer = "none" /\ call' \in SwapCalls
        /\ refused' = FALSE
    BY <1>13, RecoverDoes
  <2>2. vault.pending.ins = Ins /\ vault.pending.outs = Outs
    BY <1>a, <2>1, PendingKinds DEF Ins, Outs
  <2>3. Waits'
    BY <1>c, <2>1, <2>2 DEF Waits, SwapRequest, Idle
  <2>4. MemoryAndFile'
    BY <1>a, <1>b, <2>1 DEF MemoryAndFile
  <2> QED BY <2>1, <2>3, <2>4 DEF Base, kioskVars
<1>14. ASSUME Abandon PROVE Base'
  <2>1. /\ call = Idle /\ vault.pending # None /\ RestoreInputs
        /\ abandoned' = (abandoned \/ vault'.pending = None)
        /\ UNCHANGED <<kioskVars, call, net, handed, lost>>
    BY <1>14 DEF Abandon
  <2>2. abandoned' \in BOOLEAN
    BY <2>1 DEF Base
  <2>3. \A r \in net : ~ r.awaited
    BY <1>c, <2>1 DEF Idle
  <2> QED BY <1>10, <2>1, <2>2, <2>3
<1>15. ASSUME NEW token \in vault.outbox, AckOutbox(token) PROVE Base'
  <2>1. /\ UNCHANGED <<kioskVars, call, net, refused, abandoned, handed, lost>>
        /\ call = Idle
        /\ vault' = VaultOf(vault.proofs, vault.pending,
               vault.outbox \ {token}, vault.seq)
        /\ flash' \in {flash, vault'}
    BY <1>15, AckDoes
  <2>2. vault' \in VaultState
    <3>1. vault.outbox \ {token} \in SUBSET SUBSET Proof
      BY <1>a
    <3> QED BY <1>a, <2>1, <3>1, StateType
  <2>3. MemoryAndFile'
    BY <1>a, <1>b, <2>1 DEF MemoryAndFile, VaultOf, Idle
  <2>4. Waits'
    BY <1>c, <2>1 DEF Waits, Idle
  <2> QED BY <1>a, <2>1, <2>2, <2>3, <2>4 DEF Base, kioskVars
<1>16. ASSUME Restart PROVE Base'
  <2>1. /\ vault' = flash /\ call' = Idle /\ net' = Orphaned
        /\ lost' = lost \cup (vault.proofs \ (flash.proofs \cup handed
             \cup PendingIns(flash)))
                        \cup (IF call.op = "sign" THEN {call.proof} ELSE {})
        /\ UNCHANGED <<kioskVars, flash, refused, abandoned, handed>>
    BY <1>16 DEF Restart
  <2>2. lost' \subseteq Proof
    <3>1. call.op = "sign" => call.proof \in Proof
      BY Kinds DEF SignCalls
    <3> QED BY <1>a, <2>1, <3>1 DEF Base
  <2>3. net' \subseteq SignRequests \cup SwapRequests /\ Waits'
    BY <2>1, OrphanedRequests DEF Waits
  <2>4. MemoryAndFile'
    BY <1>a, <1>b, <2>1 DEF MemoryAndFile, Idle
  <2> QED BY <1>a, <2>1, <2>2, <2>3, <2>4 DEF Base, kioskVars
<1>17. ASSUME NEW r \in net, NEW a \in Answers, Answered(r, a), KioskTypes'
       PROVE  Base'
  <2>1. /\ UNCHANGED <<vault, flash, refused, abandoned, handed, lost>>
        /\ net' = net \ {r} /\ call'.op = call.op
        /\ call.op = "sign" => call'.proof = call.proof
        /\ call' \in {Idle} \cup TopupCalls \cup SignCalls \cup SwapCalls
             \cup PayCalls
        /\ r.awaited \/ UNCHANGED call
    BY <1>17, AnsweredDoes DEF Base
  <2>2. MemoryAndFile'
    BY <1>a, <1>b, <2>1 DEF MemoryAndFile
  <2>3. Waits'
    <3>1. CASE ~ r.awaited
      BY <2>1, <3>1 DEF Base, Waits
    <3>2. CASE r.awaited
      <4>1. \A q \in net : q.awaited => q = r
        <5> SUFFICES ASSUME NEW q \in net, q.awaited PROVE q = r
          OBVIOUS
        <5> QED BY <3>2, AwaitedOnce
      <4> QED BY <2>1, <4>1 DEF Waits
    <3> QED BY <3>1, <3>2
  <2> QED BY <1>17, <2>1, <2>2, <2>3 DEF Base, KioskTypes
<1>18. ASSUME NEW r \in net, LoseRequest(r) PROVE Base'
  <2>1. /\ net' = net \ {r}
        /\ UNCHANGED <<kioskVars, vault, flash, call, refused, abandoned,
               handed, lost>>
    BY <1>18 DEF LoseRequest
  <2> QED BY <2>1 DEF Base, MemoryAndFile, Waits, kioskVars
<1>19. ASSUME NEW r \in net, KioskSigns(r) PROVE Base'
  <2>1. /\ r \in SignRequests /\ Answered(r, "ok")
        /\ signed' = signed \cup {r.proof}
        /\ lastSeq' = [lastSeq EXCEPT ![Me] = r.seq]
        /\ UNCHANGED <<spent, swapCache>>
    BY <1>19, KioskSignsDoes
  <2>2. KioskTypes'
    BY <2>1, PurseAssumption DEF Base, KioskTypes, SignRequests
  <2> QED BY <1>17, <2>1, <2>2 DEF Answers
<1>20. ASSUME NEW r \in net, KioskSwaps(r) PROVE Base'
  <2>1. /\ r \in SwapRequests /\ Answered(r, "ok")
        /\ \/ SwapDone(r.ins, r.outs)
           \/ UNCHANGED kioskVars
    BY <1>20, KioskSwapsDoes
  <2>2. CASE SwapDone(r.ins, r.outs)
    <3>1. r.ins \in SUBSET Proof /\ r.outs \in SUBSET Proof
      BY <2>1 DEF SwapRequests
    <3>2. KioskTypes'
      BY <2>2, <3>1, CacheType DEF Base, KioskTypes, SwapDone
    <3> QED BY <1>17, <2>1, <3>2 DEF Answers
  <2>3. CASE UNCHANGED kioskVars
    <3>2. KioskTypes'
      BY <2>3 DEF Base, KioskTypes, kioskVars
    <3> QED BY <1>17, <2>1, <3>2 DEF Answers
  <2> QED BY <2>1, <2>2, <2>3
<1>21. ASSUME NEW r \in net, KioskRefuses(r) PROVE Base'
  <2>1. Answered(r, "refused") /\ UNCHANGED kioskVars
    BY <1>21 DEF KioskRefuses
  <2>2. KioskTypes'
    BY <2>1 DEF Base, KioskTypes, kioskVars
  <2> QED BY <1>17, <2>1, <2>2 DEF Answers
<1>22. ASSUME NEW p \in handed, NEW m \in Merchant, PayeeSettles(p, m)
         PROVE Base'
  BY <1>22, PayeeSettlesDoes DEF Base, MemoryAndFile, Waits
<1>23. ASSUME NEW p \in signed, NEW q \in Proof, OthersSwap(p, q) PROVE Base'
  <2>1. /\ SwapDone({p}, {q})
        /\ UNCHANGED <<vault, flash, call, net, refused, abandoned, handed,
               lost>>
    BY <1>23, OthersSwapDoes
  <2>2. {p} \in SUBSET Proof /\ {q} \in SUBSET Proof
    BY DEF Base
  <2>3. KioskTypes'
    BY <2>1, <2>2, CacheType DEF Base, KioskTypes, SwapDone
  <2> QED BY <2>1, <2>3 DEF Base, MemoryAndFile, Waits, KioskTypes
<1>24. CASE UNCHANGED vars
  BY <1>24 DEF vars, kioskVars, Base, MemoryAndFile, Waits
<1> QED
  BY <1>1, <1>2, <1>3, <1>4, <1>6, <1>7, <1>8, <1>9, <1>11, <1>12, <1>13,
     <1>14, <1>15, <1>16, <1>18, <1>19, <1>20, <1>21, <1>22, <1>23, <1>24
  DEF Next

LEMMA BaseInit == Init => Base
<1> SUFFICES ASSUME Init PROVE Base
  OBVIOUS
<1>1. EmptyVault \in VaultState
  BY PurseAssumption DEF EmptyVault, VaultState
<1>2. Foreign \subseteq Proof
  BY PurseAssumption DEF Proof, K!Proof
<1>3. IsFiniteSet(Foreign) /\ Cardinality(Foreign) \in Nat
  BY <1>2, FiniteProofs, FS_Subset, FS_CardinalityType
<1>4. lastSeq \in [Device -> Nat]
  <2>1. lastSeq = [d \in Device |-> IF d = Me THEN 0 ELSE Cardinality(Foreign)]
    BY DEF Init, InitKiosk
  <2> QED BY <1>3, <2>1
<1>6. EmptyVault.seq \in Nat /\ EmptyVault.pending = None /\ Idle.op = "idle"
  BY DEF EmptyVault, Idle
<1>5. /\ vault = EmptyVault /\ flash = EmptyVault /\ call = Idle /\ net = {}
      /\ refused = FALSE /\ abandoned = FALSE /\ handed = {} /\ lost = {}
      /\ signed = Foreign /\ swapCache = <<>>
  BY DEF Init, InitVault, InitKiosk
<1> QED
  <2>1. MemoryAndFile
    BY <1>5, <1>6 DEF MemoryAndFile
  <2>2. Waits
    BY <1>5 DEF Waits
  <2>3. swapCache \in Seq(Entry)
    BY <1>5
  <2> QED
    BY <1>1, <1>2, <1>4, <1>5, <2>1, <2>2, <2>3 DEF Base, Entry

(* The state of the vault, of its file, of the command and of the network   *)
(* is always of its type: no operation of vault.rs leaves a swap half       *)
(* recorded, or a request without a command to answer.                      *)
THEOREM TypeCorrect == Spec => []TypeOK
<1>1. Base => TypeOK
  BY Kinds DEF Base, TypeOK, MemoryAndFile, TopupCalls, SignCalls, SwapCalls,
     PayCalls, Idle,
     SignRequests, SwapRequests
<1> QED
  BY <1>1, BaseInit, BaseStep, PTL DEF Spec

-----------------------------------------------------------------------------
(* Sequence numbers. *)

(* Every step keeps SeqsGrow. *)
LEMMA SeqsGrowStep == Base /\ SeqsGrow /\ [Next]_vars => SeqsGrow'
<1> SUFFICES ASSUME Base, SeqsGrow, [Next]_vars PROVE SeqsGrow'
  OBVIOUS
<1>a. /\ lastSeq[Me] \in Nat /\ lastSeq \in [Device -> Nat] /\ Me \in Device
      /\ vault.seq \in Nat /\ flash.seq \in Nat /\ flash.seq <= vault.seq
      /\ \A r \in net : r.op = "sign" => r.seq \in Nat
  <2>1. \A r \in net : r.op = "sign" => r.seq \in Nat
    BY Kinds, PurseAssumption DEF SignRequests
  <2>2. vault.seq \in Nat /\ flash.seq \in Nat
    BY PurseAssumption DEF Base, VaultState
  <2> QED BY <2>1, <2>2, PurseAssumption DEF Base, MemoryAndFile
<1>0. ASSUME flash'.seq \in Nat, flash'.seq >= flash.seq, UNCHANGED lastSeq,
             \A q \in net' : q.op = "sign" => q \in net
      PROVE  SeqsGrow'
  BY <1>a, <1>0 DEF SeqsGrow
<1>O. ASSUME net' = Orphaned, UNCHANGED <<lastSeq, flash>> PROVE SeqsGrow'
  <2>1. \A q \in net' : ~ q.awaited
          /\ (q.op = "sign" => \E r \in net : r.op = "sign" /\ q.seq = r.seq)
    <3> SUFFICES ASSUME NEW q \in Orphaned
                 PROVE  ~ q.awaited /\ (q.op = "sign"
                          => \E r \in net : r.op = "sign" /\ q.seq = r.seq)
      BY <1>O
    <3>1. PICK r \in net :
              /\ q.op = r.op
              /\ r.op = "sign" => q
                   = [op |-> "sign", proof |-> r.proof, seq |-> r.seq,
                       awaited |-> FALSE]
      BY OrphanedRequests
    <3> QED BY <3>1, OrphanedRequests
  <2> QED BY <1>a, <1>O, <2>1 DEF SeqsGrow
<1>1. ASSUME NEW a \in Amount, Topup(a) PROVE SeqsGrow'
  BY <1>0, <1>1, <1>a, TopupDoes DEF kioskVars
<1>2. ASSUME NEW p \in Proof, AskSignature(p) PROVE SeqsGrow'
  <2>1. UNCHANGED lastSeq /\ call.op = "topup"
    BY <1>2, AskDoes DEF kioskVars
  <2>2. CASE UNCHANGED <<flash, net>>
    BY <1>0, <1>a, <2>1, <2>2
  <2>3. CASE flash'.seq = vault.seq + 1
               /\ net' = net \cup {SignRequest(p, vault.seq + 1)}
    <3>1. \A r \in net : ~ r.awaited
      BY <2>1, Kinds DEF Base, Waits
    <3>2. \A r \in net' : r \in net \/ r = SignRequest(p, vault.seq + 1)
      BY <2>3
    <3>3. \A r \in net : r.op = "sign" => r.seq < vault.seq + 1
      BY <1>a DEF SeqsGrow
    <3>4. lastSeq[Me] < vault.seq + 1
      BY <1>a DEF SeqsGrow
    <3>5. SignRequest(p, vault.seq + 1).seq = vault.seq + 1
      BY DEF SignRequest
    <3> HIDE DEF SeqsGrow
    <3> QED BY <1>a, <2>1, <2>3, <3>1, <3>2, <3>3, <3>4, <3>5 DEF SeqsGrow
  <2> QED BY <1>2, <2>2, <2>3, AskDoes DEF VaultOf
<1>3. ASSUME TakeSignature PROVE SeqsGrow'
  <2>1. /\ UNCHANGED <<kioskVars, net>>
        /\ vault'.seq = vault.seq /\ flash' \in {flash, vault'}
    BY <1>3, TakeSignatureDoes DEF VaultOf
  <2> QED BY <1>0, <1>a, <2>1 DEF kioskVars
<1>4. ASSUME MissSignature PROVE SeqsGrow'
  BY <1>O, <1>4 DEF MissSignature, kioskVars
<1>5. ASSUME NEW S \in SUBSET vault.proofs, HandOver(S),
             UNCHANGED <<kioskVars, net>>
      PROVE  SeqsGrow'
  <2>1. flash'.seq \in {flash.seq, vault.seq}
    BY <1>5, HandOverDoes DEF VaultOf
  <2> QED BY <1>0, <1>5, <1>a, <2>1 DEF kioskVars
<1>6. ASSUME NEW a \in Amount, NEW l \in BOOLEAN, Pay(a, l) PROVE SeqsGrow'
  BY <1>5, <1>6, PayDoes
<1>7. ASSUME NEW a \in Amount, MakeChange(a) PROVE SeqsGrow'
  <2>1. /\ UNCHANGED lastSeq
        /\ flash'.seq \in {flash.seq, vault.seq}
        /\ \/ net' = net
           \/ \E ins, outs : net' = net \cup {SwapRequest(ins, outs)}
    BY <1>7, MakeChangeDoes DEF VaultOf, kioskVars
  <2>2. \A q \in net' : q.op = "sign" => q \in net
    BY <2>1 DEF SwapRequest
  <2> QED BY <1>0, <1>a, <2>1, <2>2
<1>8. ASSUME TakeSwap PROVE SeqsGrow'
  <2>1. /\ UNCHANGED <<kioskVars, net>>
        /\ \/ UNCHANGED flash
           \/ flash' = VaultOf(vault.proofs \cup Outs, None, vault.outbox,
                  vault.seq)
    BY <1>8, TakeSwapDoes
  <2>2. flash'.seq \in {flash.seq, vault.seq}
    BY <2>1 DEF VaultOf
  <2> QED BY <1>0, <1>a, <2>1, <2>2 DEF kioskVars
<1>9. ASSUME PayWithChange PROVE SeqsGrow'
  BY <1>5, <1>9, PayWithChangeDoes
<1>10. ASSUME RestoreInputs, vault.pending # None, UNCHANGED <<kioskVars, net>>
       PROVE  SeqsGrow'
  <2>0. \/ UNCHANGED flash
        \/ flash' = VaultOf(vault.proofs \cup Ins, None, vault.outbox,
               vault.seq)
    BY <1>10, RestoreDoes
  <2>1. flash'.seq \in {flash.seq, vault.seq}
    BY <2>0 DEF VaultOf
  <2> QED BY <1>0, <1>10, <1>a, <2>1 DEF kioskVars
<1>11. ASSUME AbandonRefused PROVE SeqsGrow'
  BY <1>10, <1>11 DEF AbandonRefused, Base, MemoryAndFile
<1>12. ASSUME LeavePending PROVE SeqsGrow'
  BY <1>O, <1>12 DEF LeavePending, kioskVars
<1>13. ASSUME Recover PROVE SeqsGrow'
  <2>1. /\ UNCHANGED <<kioskVars, flash>>
        /\ net' = net \cup {SwapRequest(Ins, Outs)}
    BY <1>13, RecoverDoes
  <2>2. \A q \in net' : q.op = "sign" => q \in net
    BY <2>1 DEF SwapRequest
  <2> QED BY <1>0, <1>a, <2>1, <2>2 DEF kioskVars
<1>14. ASSUME Abandon PROVE SeqsGrow'
  BY <1>10, <1>14 DEF Abandon
<1>15. ASSUME NEW token \in vault.outbox, AckOutbox(token) PROVE SeqsGrow'
  <2>1. UNCHANGED <<kioskVars, net>> /\ flash'.seq \in {flash.seq, vault.seq}
    BY <1>15, AckDoes DEF VaultOf
  <2> QED BY <1>0, <1>a, <2>1 DEF kioskVars
<1>16. ASSUME Restart PROVE SeqsGrow'
  BY <1>O, <1>16 DEF Restart, kioskVars
<1>17. ASSUME NEW r \in net, UNCHANGED <<lastSeq, flash>>, net' = net \ {r}
         PROVE SeqsGrow'
  BY <1>0, <1>17, <1>a
<1>18. ASSUME NEW r \in net, LoseRequest(r) PROVE SeqsGrow'
  BY <1>17, <1>18 DEF LoseRequest, kioskVars
<1>19. ASSUME NEW r \in net, KioskSigns(r) PROVE SeqsGrow'
  <2>1. /\ r.op = "sign" /\ lastSeq' = [lastSeq EXCEPT ![Me] = r.seq]
        /\ net' = net \ {r} /\ UNCHANGED flash
    BY <1>19, KioskSignsDoes DEF Answered
  <2>2. lastSeq'[Me] = r.seq /\ r.seq \in Nat
    BY <1>a, <2>1
  <2> QED BY <1>a, <2>1, <2>2 DEF SeqsGrow
<1>20. ASSUME NEW r \in net, KioskSwaps(r) PROVE SeqsGrow'
  <2>1. Answered(r, "ok") /\ UNCHANGED lastSeq
    BY <1>20, KioskSwapsDoes DEF SwapDone, kioskVars
  <2> QED BY <1>17, <2>1 DEF Answered
<1>21. ASSUME NEW r \in net, KioskRefuses(r) PROVE SeqsGrow'
  BY <1>17, <1>21 DEF KioskRefuses, Answered, kioskVars
<1>22. ASSUME NEW p \in handed, NEW m \in Merchant, PayeeSettles(p, m)
         PROVE SeqsGrow'
  BY <1>0, <1>22, <1>a, PayeeSettlesDoes
<1>23. ASSUME NEW p \in signed, NEW q \in Proof, OthersSwap(p, q)
         PROVE SeqsGrow'
  <2>1. UNCHANGED <<lastSeq, flash, net>>
    BY <1>23, OthersSwapDoes DEF SwapDone
  <2> QED BY <1>0, <1>a, <2>1
<1>24. CASE UNCHANGED vars
  BY <1>0, <1>24, <1>a DEF vars, kioskVars
<1> QED
  BY <1>1, <1>2, <1>3, <1>4, <1>6, <1>7, <1>8, <1>9, <1>11, <1>12, <1>13,
     <1>14, <1>15, <1>16, <1>18, <1>19, <1>20, <1>21, <1>22, <1>23, <1>24
  DEF Next

(* device_seq: the request that a topup waits for is newer than any that    *)
(* the kiosk has seen (vault.rs saves the number before the request         *)
(* leaves), whatever is lost, late, or cut off by a crash.                  *)
THEOREM SeqsAreFresh == Spec => []SeqNeverReused
<1>1. Init => SeqsGrow
  <2> SUFFICES ASSUME Init PROVE SeqsGrow
    OBVIOUS
  <2>1. lastSeq[Me] = 0 /\ net = {} /\ flash.seq = 0
    BY PurseAssumption DEF Init, InitKiosk, InitVault, EmptyVault
  <2> QED BY <2>1 DEF SeqsGrow
<1>2. Base /\ SeqsGrow => SeqNeverReused
  <2> SUFFICES ASSUME Base, SeqsGrow, NEW r \in net, r.op = "sign", r.awaited
               PROVE  r.seq > lastSeq[Me]
    BY DEF SeqNeverReused
  <2>1. r.seq \in Nat /\ lastSeq[Me] \in Nat
    BY Kinds, PurseAssumption DEF Base, SignRequests
  <2> QED BY <2>1 DEF SeqsGrow
<1> QED
  BY <1>1, <1>2, BaseInit, BaseStep, SeqsGrowStep, PTL DEF Spec

(* Only what the kiosk does changes the kiosk. *)
LEMMA VaultLeavesKiosk ==
  ASSUME [Next]_vars
  PROVE  \/ UNCHANGED kioskVars
         \/ \E r \in net : KioskSigns(r) \/ KioskSwaps(r)
         \/ \E p \in handed, m \in Merchant : PayeeSettles(p, m)
         \/ \E p \in signed, q \in Proof : OthersSwap(p, q)
<1>1. ASSUME NEW a \in Amount, Topup(a) PROVE UNCHANGED kioskVars
  BY <1>1 DEF Topup
<1>2. ASSUME NEW p \in Proof, AskSignature(p) PROVE UNCHANGED kioskVars
  BY <1>2 DEF AskSignature
<1>3. ASSUME TakeSignature \/ MissSignature \/ TakeSwap \/ PayWithChange
               \/ AbandonRefused \/ LeavePending \/ Recover \/ Abandon
                    \/ Restart
      PROVE  UNCHANGED kioskVars
  BY <1>3 DEF TakeSignature, MissSignature, TakeSwap, PayWithChange,
     AbandonRefused,
     LeavePending, Recover, Abandon, Restart
<1>4. ASSUME NEW a \in Amount, NEW l \in BOOLEAN, Pay(a, l)
        PROVE UNCHANGED kioskVars
  BY <1>4 DEF Pay
<1>5. ASSUME NEW a \in Amount, MakeChange(a) PROVE UNCHANGED kioskVars
  BY <1>5 DEF MakeChange
<1>6. ASSUME NEW token \in vault.outbox, AckOutbox(token)
        PROVE UNCHANGED kioskVars
  BY <1>6 DEF AckOutbox
<1>7. ASSUME NEW r \in net, LoseRequest(r) \/ KioskRefuses(r)
        PROVE UNCHANGED kioskVars
  BY <1>7 DEF LoseRequest, KioskRefuses
<1>8. ASSUME UNCHANGED vars PROVE UNCHANGED kioskVars
  BY <1>8 DEF vars
<1> QED
  BY <1>1, <1>2, <1>3, <1>4, <1>5, <1>6, <1>7, <1>8 DEF Next

(* The kiosk takes nothing back, and fills its cache only by a swap. *)
LEMMA KioskStep ==
  ASSUME Base, [Next]_vars
  PROVE  /\ spent \subseteq spent' /\ signed \subseteq signed'
         /\ \/ UNCHANGED swapCache
            \/ \E ins, outs \in SUBSET Proof : SwapDone(ins, outs)
<1>0. ASSUME UNCHANGED kioskVars
      PROVE  spent \subseteq spent' /\ signed \subseteq signed'
               /\ UNCHANGED swapCache
  BY <1>0 DEF kioskVars
<1>1. ASSUME NEW r \in net, KioskSigns(r)
      PROVE  spent \subseteq spent' /\ signed \subseteq signed'
               /\ UNCHANGED swapCache
  BY <1>1, KioskSignsDoes
<1>2. ASSUME NEW r \in net, KioskSwaps(r), ~ UNCHANGED kioskVars
      PROVE  \E ins, outs \in SUBSET Proof : SwapDone(ins, outs)
  BY <1>2, KioskSwapsDoes DEF SwapRequests
<1>3. ASSUME NEW p \in handed, NEW m \in Merchant, PayeeSettles(p, m)
       PROVE  spent \subseteq spent' /\ signed \subseteq signed'
                /\ UNCHANGED swapCache
  BY <1>3, PayeeSettlesDoes
<1>4. ASSUME NEW p \in signed, NEW q \in Proof, OthersSwap(p, q)
       PROVE  \E ins, outs \in SUBSET Proof : SwapDone(ins, outs)
  <2>1. SwapDone({p}, {q}) /\ {p} \in SUBSET Proof /\ {q} \in SUBSET Proof
    BY <1>4, OthersSwapDoes DEF Base
  <2> QED BY <2>1
<1>5. ASSUME \E ins, outs \in SUBSET Proof : SwapDone(ins, outs)
       PROVE  spent \subseteq spent' /\ signed \subseteq signed'
  BY <1>5 DEF SwapDone
<1> QED
  BY <1>0, <1>1, <1>2, <1>3, <1>4, <1>5, VaultLeavesKiosk

(* Every step keeps CacheIsSigned. *)
LEMMA CacheStep == Base /\ CacheIsSigned /\ [Next]_vars => CacheIsSigned'
<1> SUFFICES ASSUME Base, CacheIsSigned, [Next]_vars PROVE CacheIsSigned'
  OBVIOUS
<1>1. spent \subseteq spent' /\ signed \subseteq signed'
  BY KioskStep
<1>2. CASE UNCHANGED swapCache
  BY <1>1, <1>2 DEF CacheIsSigned
<1>3. ASSUME NEW ins \in SUBSET Proof, NEW outs \in SUBSET Proof,
             SwapDone(ins, outs)
      PROVE  CacheIsSigned'
  <2> DEFINE e == [ins |-> K!Secrets(ins), outs |-> outs]
  <2>1. e \in Entry /\ swapCache \in Seq(Entry)
    BY <1>3, CacheType DEF Base, Entry
  <2>2. e.ins \subseteq spent' /\ e.outs \subseteq signed'
    BY <1>3 DEF SwapDone
  <2>3. swapCache' = K!Evict(Append(swapCache, e))
    BY <1>3 DEF SwapDone
  <2> HIDE DEF e
  <2>4. \A i \in DOMAIN swapCache' :
          swapCache'[i] = e \/ \E j \in DOMAIN swapCache :
          swapCache'[i] = swapCache[j]
    BY <2>1, <2>3, EvictKeepsEntries
  <2> QED BY <1>1, <2>2, <2>4 DEF CacheIsSigned
<1> QED BY <1>2, <1>3, KioskStep

(* A fresh secret is in no proof that exists or has been asked for. *)
LEMMA FreshIsNew ==
  ASSUME Base, NEW s \in Fresh
  PROVE  /\ s \in Mine
         /\ \A p \in signed \cup lost \cup Outs : p.secret # s
         /\ \A r \in net : r.op = "sign" => r.proof.secret # s
         /\ \A r \in net : r.op = "swap" => \A p \in r.outs : p.secret # s
         /\ call.op = "sign" => call.proof.secret # s
<1>1. s \in Mine /\ s \notin Drawn
  BY DEF Fresh
<1>2. \A p \in signed \cup lost \cup Outs : p.secret \in Drawn
  BY DEF Drawn, K!Secrets, Outs
<1>3. \A r \in net : r.op = "sign" => r.proof.secret \in Drawn
  BY DEF Drawn
<1>4. \A r \in net : r.op = "swap" => \A p \in r.outs : p.secret \in Drawn
  <2>1. \A r \in net : r.op = "swap" => r.outs \in Asked
    BY DEF Asked
  <2>2. \A outs \in Asked : \A p \in outs : p.secret \in Drawn
    BY DEF Drawn, K!Secrets
  <2> QED BY <2>1, <2>2
<1>5. call.op = "sign" => call.proof.secret \in Drawn
  BY DEF Drawn
<1> QED BY <1>1, <1>2, <1>3, <1>4, <1>5

-----------------------------------------------------------------------------
(* Coins given away. *)

(* Every step keeps GivenAway. *)
LEMMA GivenAwayStep ==
  Base /\ CacheIsSigned /\ GivenAway /\ [Next]_vars => GivenAway'
<1> SUFFICES ASSUME Base, CacheIsSigned, GivenAway, [Next]_vars
      PROVE GivenAway'
  OBVIOUS
<1>a. /\ vault.proofs \cup Ins \cup handed \subseteq signed
      /\ handed \cap (vault.proofs \cup Ins \cup Outs) = {}
      /\ vault.proofs \cap Ins = {}
      /\ call.op = "sign" => call.proof \notin handed
      /\ call.op = "sign" /\ call.answer = "ok" => call.proof \in signed
      /\ call.op = "swap" /\ call.answer = "ok" => Outs \subseteq signed
      /\ \A token \in vault.outbox \cup flash.outbox : token \subseteq handed
      /\ DisjointTokens(vault.outbox) /\ DisjointTokens(flash.outbox)
  BY DEF GivenAway
<1>b. /\ vault \in VaultState /\ flash \in VaultState
      /\ flash.pending = vault.pending /\ flash.proofs \subseteq vault.proofs
      /\ vault.pending = None => Ins = {} /\ Outs = {}
      /\ call.op \in {"topup", "sign", "pay"} => vault.pending = None
  BY PendingKinds DEF Base, MemoryAndFile, Ins, Outs
<1>c. signed \subseteq signed'
  BY KioskStep
<1>d. Idle.op = "idle"
  BY DEF Idle
<1>0. ASSUME UNCHANGED <<vault, flash, handed>>,
             call'.op = "sign" =>
               /\ call.op = "sign" /\ call'.proof = call.proof
               /\ call'.answer = "ok" => call.proof \in signed',
             call'.op = "swap" /\ call'.answer = "ok" => Outs \subseteq signed'
      PROVE  GivenAway'
  <2>1. Ins' = Ins /\ Outs' = Outs
    BY <1>0 DEF Ins, Outs
  <2> QED BY <1>0, <1>a, <1>c, <2>1 DEF GivenAway, DisjointTokens
<1>V. ASSUME NEW P, NEW q, NEW n, vault' = VaultOf(P, q, vault.outbox, n),
             flash' = vault' \/ UNCHANGED flash, UNCHANGED handed,
             call'.op # "sign", call'.op = "swap" => call'.answer # "ok",
             P \cup Ins' \subseteq signed',
             handed \cap (P \cup Ins' \cup Outs') = {},
             P \cap Ins' = {}
      PROVE  GivenAway'
  <2>1. vault'.proofs = P /\ vault'.outbox = vault.outbox
          /\ flash'.outbox \in {vault.outbox, flash.outbox}
    BY <1>V DEF VaultOf
  <2> QED BY <1>V, <1>a, <1>c, <2>1 DEF GivenAway, DisjointTokens
<1>N. ASSUME NEW P, NEW O, NEW n, vault' = VaultOf(P, None, O, n)
        PROVE Ins' = {} /\ Outs' = {}
  BY <1>N DEF VaultOf, Ins, Outs, PendingIns, PendingOuts
<1>1. ASSUME NEW a \in Amount, Topup(a) PROVE GivenAway'
  BY <1>0, <1>1, TopupDoes
<1>2. ASSUME NEW p \in Proof, AskSignature(p) PROVE GivenAway'
  <2>1. /\ UNCHANGED handed /\ call.op = "topup" /\ p.secret \in Fresh
        /\ vault' = VaultOf(vault.proofs, None, vault.outbox, vault.seq + 1)
        /\ flash' = vault' \/ UNCHANGED flash
        /\ \/ call'.op = "sign" /\ call'.proof = p /\ call'.answer = "none"
           \/ call' = Idle
    BY <1>2, <1>b, AskDoes
  <2>2. p \notin handed
    BY <1>a, <2>1, FreshIsNew
  <2>3. Ins' = {} /\ Outs' = {}
    BY <1>N, <2>1
  <2>4. vault'.proofs = vault.proofs /\ vault'.outbox = vault.outbox
          /\ flash'.outbox \in {vault.outbox, flash.outbox}
    BY <2>1 DEF VaultOf
  <2> QED BY <1>a, <1>c, <1>d, <2>1, <2>2, <2>3, <2>4
      DEF GivenAway, DisjointTokens
<1>3. ASSUME TakeSignature PROVE GivenAway'
  <2>1. /\ UNCHANGED handed /\ call.op = "sign" /\ call.answer = "ok"
        /\ vault' = VaultOf(vault.proofs \cup {call.proof}, None, vault.outbox,
               vault.seq)
        /\ flash' = vault' \/ UNCHANGED flash
        /\ call' \in {Idle} \cup TopupCalls
    BY <1>3, <1>b, TakeSignatureDoes
  <2>2. call'.op \in {"idle", "topup"}
    BY <2>1 DEF Idle, TopupCalls
  <2>3. Ins' = {} /\ Outs' = {}
    BY <1>N, <2>1
  <2> QED BY <1>V, <1>a, <1>c, <2>1, <2>2, <2>3
<1>4. ASSUME MissSignature PROVE GivenAway'
  BY <1>0, <1>4, <1>d DEF MissSignature
<1>5. ASSUME NEW S \in SUBSET vault.proofs, HandOver(S), call' = Idle,
             vault.pending = None
      PROVE  GivenAway'
  <2>1. CASE UNCHANGED <<vault, flash, handed>>
    BY <1>0, <1>5, <1>d, <2>1
  <2>2. CASE /\ vault' = VaultOf(vault.proofs \ S, vault.pending,
                 vault.outbox \cup {S}, vault.seq)
             /\ flash' = vault' /\ handed' = handed \cup S
    <3>1. Ins' = {} /\ Outs' = {}
      BY <1>5, <1>N, <2>2
    <3>2. vault'.proofs = vault.proofs \ S
            /\ vault'.outbox = vault.outbox \cup {S}
               /\ flash'.outbox = vault'.outbox
      BY <2>2 DEF VaultOf
    <3>3. \A token \in vault.outbox \cup {S} : token \subseteq handed \cup S
      BY <1>a
    <3>4. DisjointTokens(vault.outbox \cup {S})
      BY <1>a DEF DisjointTokens
    <3>5. vault'.proofs \cup Ins' \cup handed' \subseteq signed'
      BY <1>a, <1>c, <2>2, <3>1, <3>2
    <3>6. /\ handed' \cap (vault'.proofs \cup Ins' \cup Outs') = {}
          /\ vault'.proofs \cap Ins' = {}
      BY <1>a, <2>2, <3>1, <3>2
    <3>7. \A token \in vault'.outbox \cup flash'.outbox :
            token \subseteq handed'
      BY <2>2, <3>2, <3>3
    <3>8. DisjointTokens(vault.outbox)' /\ DisjointTokens(flash.outbox)'
      BY <3>2, <3>4 DEF DisjointTokens
    <3>9. call'.op = "idle"
      BY <1>5, <1>d
    <3> QED BY <3>5, <3>6, <3>7, <3>8, <3>9 DEF GivenAway
  <2> QED BY <1>5, <2>1, <2>2, HandOverDoes
<1>6. ASSUME NEW a \in Amount, NEW l \in BOOLEAN, Pay(a, l) PROVE GivenAway'
  BY <1>5, <1>6, PayDoes
<1>7. ASSUME NEW a \in Amount, MakeChange(a) PROVE GivenAway'
  <2>1. PICK ins \in SUBSET vault.proofs,
             outs \in SUBSET [secret : Fresh \ Locked, amount : Denom] :
          /\ ins \subseteq Proof /\ outs \subseteq Proof
          /\ \/ UNCHANGED <<vault, flash, call>>
             \/ /\ vault' = VaultOf(vault.proofs \ ins,
                       [ins |-> ins, outs |-> outs],
                                    vault.outbox, vault.seq)
                /\ flash' = vault'
                /\ call'.op = "swap" /\ call'.answer = "none"
    <3>1. Unlocked(vault.proofs) \subseteq vault.proofs
      BY DEF Unlocked
    <3> QED BY <1>7, <3>1, MakeChangeDoes
  <2>2. call = Idle /\ UNCHANGED handed
    BY <1>7, MakeChangeDoes
  <2>3. CASE UNCHANGED <<vault, flash, call>>
    BY <1>0, <1>d, <2>2, <2>3
  <2>4. CASE /\ vault' = VaultOf(vault.proofs \ ins,
                 [ins |-> ins, outs |-> outs],
                                    vault.outbox, vault.seq)
             /\ flash' = vault'
             /\ call'.op = "swap" /\ call'.answer = "none"
    <3>1. Ins' = ins /\ Outs' = outs
      <4>1. ins \in SUBSET Proof /\ outs \in SUBSET Proof
        BY <2>1
      <4> QED BY <2>4, <4>1, PurseNone
          DEF VaultOf, Ins, Outs, PendingIns, PendingOuts
    <3>2. handed \cap outs = {}
      BY <1>a, FreshIsNew
    <3> QED BY <1>V, <1>a, <1>c, <2>1, <2>2, <2>4, <3>1, <3>2
  <2> QED BY <2>1, <2>3, <2>4
<1>8. ASSUME TakeSwap PROVE GivenAway'
  <2>1. /\ UNCHANGED handed /\ call.op = "swap" /\ call.answer = "ok"
        /\ \/ UNCHANGED <<vault, flash>> /\ call' = Idle
           \/ /\ vault' = VaultOf(vault.proofs \cup Outs, None, vault.outbox,
                     vault.seq)
              /\ flash' = vault'
              /\ call'.op \in {"idle", "pay"}
    BY <1>8, <1>d, TakeSwapDoes
  <2>2. CASE UNCHANGED <<vault, flash>> /\ call' = Idle
    BY <1>0, <1>d, <2>1, <2>2
  <2>3. CASE /\ vault' = VaultOf(vault.proofs \cup Outs, None, vault.outbox,
                 vault.seq)
             /\ flash' = vault'
             /\ call'.op \in {"idle", "pay"}
    <3>1. Ins' = {} /\ Outs' = {}
      BY <1>N, <2>3
    <3> QED BY <1>V, <1>a, <1>c, <2>1, <2>3, <3>1
  <2> QED BY <2>1, <2>2, <2>3
<1>9. ASSUME PayWithChange PROVE GivenAway'
  BY <1>5, <1>9, PayWithChangeDoes
<1>10. ASSUME RestoreInputs, call' = Idle, vault.pending # None,
              UNCHANGED handed
       PROVE  GivenAway'
  <2>1. CASE UNCHANGED <<vault, flash>>
    BY <1>0, <1>10, <1>d, <2>1
  <2>2. CASE /\ vault' = VaultOf(vault.proofs \cup Ins, None, vault.outbox,
                 vault.seq)
             /\ flash' = vault'
    <3>1. Ins' = {} /\ Outs' = {}
      BY <1>N, <2>2
    <3> QED BY <1>10, <1>V, <1>a, <1>c, <1>d, <2>2, <3>1
  <2> QED BY <1>10, <2>1, <2>2, RestoreDoes
<1>11. ASSUME AbandonRefused PROVE GivenAway'
  BY <1>10, <1>11 DEF AbandonRefused, Base, MemoryAndFile
<1>12. ASSUME LeavePending PROVE GivenAway'
  BY <1>0, <1>12, <1>d DEF LeavePending
<1>13. ASSUME Recover PROVE GivenAway'
  <2>1. UNCHANGED <<vault, flash, handed>> /\ call'.op = "swap"
          /\ call'.answer = "none"
    BY <1>13, RecoverDoes
  <2> QED BY <1>0, <2>1
<1>14. ASSUME Abandon PROVE GivenAway'
  BY <1>10, <1>14 DEF Abandon
<1>15. ASSUME NEW token \in vault.outbox, AckOutbox(token) PROVE GivenAway'
  <2>1. /\ UNCHANGED <<call, handed>> /\ call = Idle
        /\ vault' = VaultOf(vault.proofs, vault.pending,
               vault.outbox \ {token}, vault.seq)
        /\ flash' \in {flash, vault'}
    BY <1>15, AckDoes
  <2>2. Ins' = Ins /\ Outs' = Outs
    BY <2>1 DEF VaultOf, Ins, Outs, PendingIns, PendingOuts
  <2>3. vault'.proofs = vault.proofs /\ vault'.outbox \subseteq vault.outbox
        /\ flash'.outbox \in {flash.outbox, vault'.outbox}
    BY <2>1 DEF VaultOf
  <2> QED BY <1>a, <1>c, <1>d, <2>1, <2>2, <2>3 DEF GivenAway, DisjointTokens
<1>16. ASSUME Restart PROVE GivenAway'
  <2>1. UNCHANGED <<flash, handed>> /\ vault' = flash /\ call' = Idle
    BY <1>16 DEF Restart
  <2>2. Ins' = Ins /\ Outs' = Outs
    BY <1>b, <2>1 DEF Ins, Outs, PendingIns, PendingOuts
  <2> QED BY <1>a, <1>b, <1>c, <1>d, <2>1, <2>2 DEF GivenAway, DisjointTokens
<1>17. ASSUME NEW r \in net, NEW a \in Answers, Answered(r, a),
              a = "ok" /\ r.op = "sign" => r.proof \in signed',
              a = "ok" /\ r.op = "swap" => r.outs \subseteq signed'
       PROVE  GivenAway'
  <2>1. /\ UNCHANGED <<vault, flash, handed>>
        /\ \/ UNCHANGED call
           \/ /\ r.op = "sign" /\ call.op = "sign" /\ r.proof = call.proof
              /\ call'.op = "sign" /\ call'.proof = call.proof
                   /\ call'.answer = a
           \/ /\ r.op = "swap" /\ call.op = "swap" /\ r.outs = Outs
              /\ call'.op = "swap" /\ call'.answer = a
    BY <1>17, AnsweredDoes
  <2> QED BY <1>0, <1>17, <1>a, <1>c, <2>1
<1>18. ASSUME NEW r \in net, LoseRequest(r) PROVE GivenAway'
  BY <1>0, <1>18, <1>a, <1>c DEF LoseRequest
<1>19. ASSUME NEW r \in net, KioskSigns(r) PROVE GivenAway'
  <2>1. r.op = "sign" /\ Answered(r, "ok") /\ r.proof \in signed'
    BY <1>19, KioskSignsDoes
  <2> QED BY <1>17, <2>1 DEF Answers
<1>20. ASSUME NEW r \in net, KioskSwaps(r) PROVE GivenAway'
  <2>1. r.op = "swap" /\ Answered(r, "ok")
        /\ (SwapDone(r.ins, r.outs) \/ K!CachedSwap(r.ins, r.outs))
    BY <1>20, KioskSwapsDoes
  <2>2. r.outs \subseteq signed'
    BY <1>c, <2>1 DEF SwapDone, K!CachedSwap, CacheIsSigned
  <2> QED BY <1>17, <2>1, <2>2 DEF Answers
<1>21. ASSUME NEW r \in net, KioskRefuses(r) PROVE GivenAway'
  BY <1>17, <1>21 DEF KioskRefuses, Answers
<1>22. ASSUME NEW p \in handed, NEW m \in Merchant, PayeeSettles(p, m)
         PROVE GivenAway'
  BY <1>0, <1>22, <1>a, <1>c, PayeeSettlesDoes
<1>23. ASSUME NEW p \in signed, NEW q \in Proof, OthersSwap(p, q)
         PROVE GivenAway'
  BY <1>0, <1>23, <1>a, <1>c, OthersSwapDoes
<1>24. CASE UNCHANGED vars
  BY <1>0, <1>24, <1>a, <1>c DEF vars
<1> QED
  BY <1>1, <1>2, <1>3, <1>4, <1>6, <1>7, <1>8, <1>9, <1>11, <1>12, <1>13,
     <1>14, <1>15, <1>16, <1>18, <1>19, <1>20, <1>21, <1>22, <1>23, <1>24
  DEF Next

LEMMA GivenAwayInit == Init => CacheIsSigned /\ GivenAway
<1> SUFFICES ASSUME Init PROVE CacheIsSigned /\ GivenAway
  OBVIOUS
<1>1. /\ vault = EmptyVault /\ flash = EmptyVault /\ call = Idle /\ handed = {}
      /\ swapCache = <<>>
  BY DEF Init, InitVault, InitKiosk
<1>2. EmptyVault.proofs = {} /\ EmptyVault.pending = None
        /\ EmptyVault.outbox = {} /\ Idle.op = "idle"
  BY DEF EmptyVault, Idle
<1> QED
  BY <1>1, <1>2 DEF CacheIsSigned, GivenAway, Ins, Outs, PendingIns,
     PendingOuts, DisjointTokens

-----------------------------------------------------------------------------
(* No secret is drawn twice. *)

(* The vault's coins and the awaited request, when nothing is pending. *)
LEMMA Emptied ==
  ASSUME NEW P, NEW O, NEW n, vault' = VaultOf(P, None, O, n)
  PROVE  vault'.proofs = P /\ Ins' = {} /\ Outs' = {} /\ vault'.pending = None
BY DEF VaultOf, Ins, Outs, PendingIns, PendingOuts

(* A restart goes back to the state file; what the file lacks is lost, and  *)
(* the answers still to come are answers to nobody.                         *)
LEMMA RestartDoes ==
  ASSUME Base, Restart
  PROVE  /\ UNCHANGED <<kioskVars, flash, refused, abandoned, handed>>
         /\ vault' = flash /\ vault'.proofs \subseteq vault.proofs
         /\ Ins' = Ins /\ Outs' = Outs /\ vault'.pending = vault.pending
         /\ call' = Idle /\ net' = Orphaned
         /\ lost \cup (vault.proofs \ (vault'.proofs \cup handed \cup Ins))
              \subseteq lost'
         /\ call.op = "sign" => call.proof \in lost'
BY DEF Restart, Base, MemoryAndFile, Ins, Outs, PendingIns, PendingOuts

(* Every step keeps DrawnOnce. *)
LEMMA DrawnOnceStep ==
  ASSUME Base, GivenAway, DrawnOnce, Swaps, [Next]_vars, ~ abandoned'
  PROVE  DrawnOnce'
<1> DEFINE Own == vault.proofs \cup handed \cup Ins \cup Outs
<1>a. /\ K!Secrets(Own) \subseteq Mine
      /\ spent \subseteq K!Secrets(signed)
      /\ \A p, q \in signed : p.secret \in Mine /\ p.secret = q.secret => p = q
      /\ \A p, q \in Outs : p.secret = q.secret => p = q
      /\ \A r \in net : r.op = "sign" =>
           /\ r.proof.secret \in Mine
           /\ r.proof.secret \notin K!Secrets(signed)
           /\ r.proof.secret \notin K!Secrets(Outs)
           /\ ~ r.awaited => r.proof \in lost
           /\ ~ r.awaited /\ call.op = "sign"
                => r.proof.secret # call.proof.secret
      /\ \A r, q \in net : r.op = "sign" /\ q.op = "sign"
           /\ r.proof.secret = q.proof.secret => r = q
      /\ call.op = "sign" =>
            /\ call.proof.secret \in Mine /\ call.proof.secret \notin spent
            /\ call.answer # "ok" => call.proof.secret \notin K!Secrets(signed)
  BY DEF DrawnOnce
<1>b. /\ vault.pending = None => Ins = {} /\ Outs = {}
      /\ call.op \in {"topup", "sign", "pay"} => vault.pending = None
      /\ \A r \in net : r.awaited => r.op = call.op
           /\ (r.op = "sign" => r.proof = call.proof)
      /\ Idle.op = "idle"
  BY PendingKinds DEF Base, MemoryAndFile, Ins, Outs, Waits, Idle
<1>0. ASSUME UNCHANGED <<signed, spent>>,
             K!Secrets(Own)' \subseteq Mine, Outs' \subseteq Outs,
             lost \subseteq lost',
             \A r \in net' : r.op = "sign" => r \in net,
             call'.op = "sign" => UNCHANGED call
      PROVE  DrawnOnce'
  <2>1. \A r \in net' : r.op = "sign" => r.proof.secret \notin K!Secrets(Outs)'
    BY <1>0, <1>a DEF K!Secrets
  <2> QED BY <1>0, <1>a, <2>1 DEF DrawnOnce, K!Secrets
<1>O. ASSUME UNCHANGED <<signed, spent>>,
             K!Secrets(Own)' \subseteq Mine, Outs' = Outs,
             lost \subseteq lost',
             net' = Orphaned, call' = Idle,
             \A r \in net : r.op = "sign" /\ r.awaited => r.proof \in lost'
      PROVE  DrawnOnce'
  <2>1. \A q \in net' : q.op = "sign"
          => ~ q.awaited /\ \E r \in net : r.op = "sign" /\ q.proof = r.proof
                           /\ q = [op |-> "sign", proof |-> r.proof,
                                  seq |-> r.seq, awaited |-> FALSE]
    <3> SUFFICES ASSUME NEW q \in Orphaned, q.op = "sign"
                 PROVE  ~ q.awaited /\ \E r \in net :
                          r.op = "sign" /\ q.proof = r.proof
                           /\ q = [op |-> "sign", proof |-> r.proof,
                                  seq |-> r.seq, awaited |-> FALSE]
      BY <1>O
    <3>1. PICK r \in net :
              /\ q.op = r.op
              /\ r.op = "sign" => q
                   = [op |-> "sign", proof |-> r.proof, seq |-> r.seq,
                       awaited |-> FALSE]
      BY OrphanedRequests
    <3> QED BY <3>1, OrphanedRequests
  <2>2. \A r \in net : r.op = "sign" => r.proof \in lost'
    BY <1>O, <1>a
  <2>3. \A q \in net' : q.op = "sign" =>
           /\ q.proof.secret \in Mine
                /\ q.proof.secret \notin K!Secrets(signed)
           /\ q.proof.secret \notin K!Secrets(Outs) /\ q.proof \in lost'
    BY <1>a, <2>1, <2>2
  <2>4. \A r, q \in net' : r.op = "sign" /\ q.op = "sign"
          /\ r.proof.secret = q.proof.secret => r = q
    <3> SUFFICES ASSUME NEW r \in net', NEW q \in net', r.op = "sign",
                        q.op = "sign",
                        r.proof.secret = q.proof.secret
                 PROVE  r = q
      OBVIOUS
    <3>1. PICK r1 \in net : r1.op = "sign" /\ r.proof = r1.proof
                           /\ r = [op |-> "sign", proof |-> r1.proof,
                                  seq |-> r1.seq, awaited |-> FALSE]
      BY <2>1
    <3>2. PICK q1 \in net : q1.op = "sign" /\ q.proof = q1.proof
                           /\ q = [op |-> "sign", proof |-> q1.proof,
                                  seq |-> q1.seq, awaited |-> FALSE]
      BY <2>1
    <3>3. r1 = q1
      BY <1>a, <3>1, <3>2
    <3> QED BY <3>1, <3>2, <3>3
  <2> QED BY <1>O, <1>a, <1>b, <2>3, <2>4 DEF DrawnOnce, K!Secrets
<1>1. ASSUME NEW a \in Amount, Topup(a) PROVE DrawnOnce'
  <2>1. UNCHANGED <<kioskVars, vault, handed, lost, net>> /\ call'.op = "topup"
    BY <1>1, TopupDoes
  <2> QED BY <1>0, <1>a, <2>1 DEF kioskVars, Ins, Outs
<1>2. ASSUME NEW p \in Proof, AskSignature(p) PROVE DrawnOnce'
  <2>1. /\ UNCHANGED <<kioskVars, handed, lost>> /\ call.op = "topup"
             /\ p.secret \in Fresh
        /\ vault' = VaultOf(vault.proofs, None, vault.outbox, vault.seq + 1)
        /\ \/ /\ net' = net \cup {SignRequest(p, vault.seq + 1)}
              /\ call'.op = "sign" /\ call'.proof = p /\ call'.answer = "none"
           \/ UNCHANGED net /\ call' = Idle
    BY <1>2, <1>b, AskDoes
  <2>2. vault'.proofs = vault.proofs /\ Ins' = {} /\ Outs' = {} /\ Ins = {}
          /\ Outs = {}
    BY <1>b, <2>1, Emptied
  <2>3. K!Secrets(Own)' \subseteq Mine
    BY <1>a, <2>1, <2>2 DEF K!Secrets
  <2>4. CASE UNCHANGED net /\ call' = Idle
    BY <1>0, <1>b, <2>1, <2>2, <2>3, <2>4 DEF kioskVars
  <2>5. CASE /\ net' = net \cup {SignRequest(p, vault.seq + 1)}
             /\ call'.op = "sign" /\ call'.proof = p /\ call'.answer = "none"
    <3> DEFINE new == SignRequest(p, vault.seq + 1)
    <3>1. new.op = "sign" /\ new.proof = p /\ new.awaited
      BY DEF SignRequest
    <3> HIDE DEF new
    <3>2. /\ p.secret \in Mine /\ p.secret \notin K!Secrets(signed)
               /\ p.secret \notin spent
          /\ \A r \in net : r.op = "sign" => r.proof.secret # p.secret
      BY <1>a, <2>1, FreshIsNew DEF K!Secrets
    <3>3. \A r \in net : ~ r.awaited
      BY <1>b, <2>1, Kinds
    <3>4. net' = net \cup {new} /\ UNCHANGED <<signed, spent, lost>>
      BY <2>1, <2>5 DEF new, kioskVars
    <3>5. K!Secrets(Outs)' = {}
      BY <2>2 DEF K!Secrets
    <3>6. \A r \in net' : r.op = "sign" =>
           /\ r.proof.secret \in Mine
           /\ r.proof.secret \notin K!Secrets(signed)
           /\ ~ r.awaited => r.proof \in lost
           /\ ~ r.awaited => r.proof.secret # p.secret
      BY <1>a, <3>1, <3>2, <3>4
    <3>7. \A r, q \in net' : r.op = "sign" /\ q.op = "sign"
            /\ r.proof.secret = q.proof.secret => r = q
      BY <1>a, <3>1, <3>2, <3>4
    <3>8. K!Secrets(signed)' = K!Secrets(signed)
      BY <3>4
    <3> QED BY <1>a, <2>2, <2>3, <2>5, <3>2, <3>4, <3>5, <3>6, <3>7, <3>8
        DEF DrawnOnce
  <2> QED BY <2>1, <2>4, <2>5
<1>3. ASSUME TakeSignature PROVE DrawnOnce'
  <2>1. /\ UNCHANGED <<kioskVars, handed, lost, net>> /\ call.op = "sign"
             /\ vault.pending = None
        /\ vault' = VaultOf(vault.proofs \cup {call.proof}, None, vault.outbox,
               vault.seq)
        /\ call' \in {Idle} \cup TopupCalls
    BY <1>3, TakeSignatureDoes
  <2>2. call'.op # "sign"
    BY <2>1 DEF Idle, TopupCalls
  <2>3. vault'.proofs = vault.proofs \cup {call.proof} /\ Ins' = {}
          /\ Outs' = {}
    BY <2>1, Emptied
  <2>4. K!Secrets(Own)' \subseteq Mine
    <3>1. call.proof.secret \in Mine /\ \A p \in vault.proofs \cup handed :
            p.secret \in Mine
      BY <1>a, <2>1 DEF K!Secrets
    <3>2. Own' = vault.proofs \cup {call.proof} \cup handed
      BY <2>1, <2>3
    <3> HIDE DEF Own
    <3> QED BY <3>1, <3>2 DEF K!Secrets
  <2> QED BY <1>0, <2>1, <2>2, <2>3, <2>4 DEF kioskVars
<1>4. ASSUME MissSignature PROVE DrawnOnce'
  <2>1. /\ UNCHANGED <<kioskVars, vault, handed>> /\ call.op = "sign"
        /\ net' = Orphaned /\ call' = Idle /\ lost \subseteq lost'
        /\ call.answer # "refused" => call.proof \in lost'
    BY <1>4 DEF MissSignature
  <2>2. \A r \in net : r.op = "sign" /\ r.awaited => r.proof \in lost'
    BY <2>1 DEF Base, Waits
  <2>3. Outs' = Outs /\ Ins' = Ins
    BY <2>1 DEF Ins, Outs
  <2>4. Own' = Own
    BY <2>1, <2>3
  <2>5. K!Secrets(Own)' \subseteq Mine
    BY <1>a, <2>4
  <2> QED BY <1>O, <2>1, <2>2, <2>3, <2>5 DEF kioskVars
<1>5. ASSUME NEW S \in SUBSET vault.proofs, HandOver(S),
             UNCHANGED <<kioskVars, net, lost>>,
             call' = Idle, vault.pending = None
      PROVE  DrawnOnce'
  <2>1. vault'.proofs \cup handed' \subseteq vault.proofs \cup handed
          /\ Ins' = {} /\ Outs' = {}
    <3>1. CASE UNCHANGED <<vault, flash, handed>>
      BY <1>5, <1>b, <3>1 DEF Ins, Outs
    <3>2. CASE vault' = VaultOf(vault.proofs \ S, None, vault.outbox \cup {S},
                   vault.seq)
                 /\ handed' = handed \cup S
      BY <3>2, Emptied
    <3> QED BY <1>5, <3>1, <3>2, HandOverDoes
  <2>2. K!Secrets(Own)' \subseteq Mine
    BY <1>a, <2>1 DEF K!Secrets
  <2> QED BY <1>0, <1>5, <1>b, <2>1, <2>2 DEF kioskVars
<1>6. ASSUME NEW a \in Amount, NEW l \in BOOLEAN, Pay(a, l) PROVE DrawnOnce'
  BY <1>5, <1>6, PayDoes
<1>7. ASSUME NEW a \in Amount, MakeChange(a) PROVE DrawnOnce'
  <2>1. PICK ins \in SUBSET Unlocked(vault.proofs),
             outs \in SUBSET [secret : Fresh \ Locked, amount : Denom] :
          /\ \A p, q \in outs : p.secret = q.secret => p = q
          /\ ins \subseteq Proof /\ outs \subseteq Proof
          /\ \/ UNCHANGED <<vault, flash, net, call>>
             \/ /\ vault' = VaultOf(vault.proofs \ ins,
                       [ins |-> ins, outs |-> outs],
                                    vault.outbox, vault.seq)
                /\ net' = net \cup {SwapRequest(ins, outs)}
                /\ call'.op = "swap"
    BY <1>7, MakeChangeDoes
  <2>2. call = Idle /\ UNCHANGED <<kioskVars, handed, lost>>
    BY <1>7, MakeChangeDoes
  <2>3. CASE UNCHANGED <<vault, flash, net, call>>
    BY <1>0, <1>a, <2>2, <2>3 DEF kioskVars, Ins, Outs
  <2>4. CASE /\ vault' = VaultOf(vault.proofs \ ins,
                 [ins |-> ins, outs |-> outs],
                                    vault.outbox, vault.seq)
             /\ net' = net \cup {SwapRequest(ins, outs)}
             /\ call'.op = "swap"
    <3>1. Ins' = ins /\ Outs' = outs /\ vault'.proofs = vault.proofs \ ins
            /\ ins \subseteq vault.proofs
      <4>1. ins \in SUBSET Proof /\ outs \in SUBSET Proof
        BY <2>1
      <4> QED BY <2>4, <4>1, PurseNone
          DEF VaultOf, Ins, Outs, PendingIns, PendingOuts, Unlocked
    <3>2. \A p \in outs : p.secret \in Mine /\ \A r \in net : r.op = "sign"
            => r.proof.secret # p.secret
      BY FreshIsNew
    <3>3. K!Secrets(Own)' \subseteq Mine
      BY <1>a, <2>2, <3>1, <3>2 DEF K!Secrets
    <3>4. \A r \in net' : r.op = "sign" => r \in net
      BY <2>4 DEF SwapRequest
    <3>5. \A r \in net' : r.op = "sign"
            => r.proof.secret \notin K!Secrets(Outs)'
      BY <3>1, <3>2, <3>4 DEF K!Secrets
    <3>6. UNCHANGED <<signed, spent>>
      BY <2>2 DEF kioskVars
    <3> QED BY <1>a, <2>1, <2>2, <2>4, <3>1, <3>3, <3>4, <3>5, <3>6
        DEF DrawnOnce
  <2> QED BY <2>1, <2>3, <2>4
<1>8. ASSUME TakeSwap PROVE DrawnOnce'
  <2>1. /\ UNCHANGED <<kioskVars, net, handed, lost>>
        /\ \/ UNCHANGED vault /\ call' = Idle
           \/ /\ vault' = VaultOf(vault.proofs \cup Outs, None, vault.outbox,
                     vault.seq)
              /\ call'.op \in {"idle", "pay"}
    BY <1>8, <1>b, TakeSwapDoes
  <2>2. Outs' \subseteq Outs /\ vault'.proofs \cup Ins' \cup Outs'
          \subseteq vault.proofs \cup Ins \cup Outs
    <3>1. CASE UNCHANGED vault
      BY <3>1 DEF Ins, Outs
    <3>2. CASE vault' = VaultOf(vault.proofs \cup Outs, None, vault.outbox,
                   vault.seq)
      BY <3>2, Emptied
    <3> QED BY <2>1, <3>1, <3>2
  <2>3. K!Secrets(Own)' \subseteq Mine
    BY <1>a, <2>1, <2>2 DEF K!Secrets
  <2> QED BY <1>0, <1>b, <2>1, <2>2, <2>3 DEF kioskVars
<1>9. ASSUME PayWithChange PROVE DrawnOnce'
  BY <1>5, <1>9, PayWithChangeDoes
<1>10. ASSUME RestoreInputs, call' = Idle, vault.pending # None,
              UNCHANGED <<kioskVars, net, handed, lost>>
       PROVE  DrawnOnce'
  <2>2. Outs' \subseteq Outs /\ vault'.proofs \cup Ins' \cup Outs'
          \subseteq vault.proofs \cup Ins \cup Outs
    <3>1. CASE UNCHANGED vault
      BY <3>1 DEF Ins, Outs
    <3>2. CASE vault' = VaultOf(vault.proofs \cup Ins, None, vault.outbox,
                   vault.seq)
      BY <3>2, Emptied
    <3> QED BY <1>10, <3>1, <3>2, RestoreDoes
  <2>3. K!Secrets(Own)' \subseteq Mine
    BY <1>10, <1>a, <2>2 DEF K!Secrets
  <2> QED BY <1>0, <1>10, <1>b, <2>2, <2>3 DEF kioskVars
<1>11. ASSUME AbandonRefused PROVE DrawnOnce'
  BY <1>10, <1>11 DEF AbandonRefused, Base, MemoryAndFile
<1>12. ASSUME LeavePending PROVE DrawnOnce'
  <2>1. /\ UNCHANGED <<kioskVars, vault, handed, lost>> /\ call.op = "swap"
        /\ net' = Orphaned /\ call' = Idle
    BY <1>12 DEF LeavePending
  <2>2. \A r \in net : r.op = "sign" /\ r.awaited => r.proof \in lost'
    BY <1>b, <2>1
  <2>3. Outs' = Outs /\ Ins' = Ins
    BY <2>1 DEF Ins, Outs
  <2>4. K!Secrets(Own)' \subseteq Mine
    BY <1>a, <2>1, <2>3
  <2> QED BY <1>O, <2>1, <2>2, <2>3, <2>4 DEF kioskVars
<1>13. ASSUME Recover PROVE DrawnOnce'
  <2>1. /\ UNCHANGED <<kioskVars, vault, handed, lost>> /\ call'.op = "swap"
        /\ net' = net \cup {SwapRequest(Ins, Outs)}
    BY <1>13, RecoverDoes
  <2>2. \A r \in net' : r.op = "sign" => r \in net
    BY <2>1 DEF SwapRequest
  <2>3. Outs' = Outs /\ Ins' = Ins
    BY <2>1 DEF Ins, Outs
  <2>4. K!Secrets(Own)' \subseteq Mine
    BY <1>a, <2>1, <2>3
  <2> QED BY <1>0, <2>1, <2>2, <2>3, <2>4 DEF kioskVars
<1>14. ASSUME Abandon PROVE DrawnOnce'
  BY <1>10, <1>14 DEF Abandon
<1>15. ASSUME NEW token \in vault.outbox, AckOutbox(token) PROVE DrawnOnce'
  <2>1. /\ UNCHANGED <<kioskVars, call, net, handed, lost>>
        /\ vault' = VaultOf(vault.proofs, vault.pending,
               vault.outbox \ {token}, vault.seq)
    BY <1>15, AckDoes
  <2>2. Ins' = Ins /\ Outs' = Outs /\ vault'.proofs = vault.proofs
    BY <2>1 DEF VaultOf, Ins, Outs, PendingIns, PendingOuts
  <2>3. K!Secrets(Own)' \subseteq Mine
    BY <1>a, <2>1, <2>2
  <2> QED BY <1>0, <2>1, <2>2, <2>3 DEF kioskVars
<1>16. ASSUME Restart PROVE DrawnOnce'
  <2>1. /\ UNCHANGED <<kioskVars, handed>>
             /\ vault'.proofs \subseteq vault.proofs
        /\ Ins' = Ins /\ Outs' = Outs /\ lost \subseteq lost'
        /\ net' = Orphaned /\ call' = Idle
        /\ call.op = "sign" => call.proof \in lost'
    BY <1>16, RestartDoes
  <2>2. \A r \in net : r.op = "sign" /\ r.awaited => r.proof \in lost'
    BY <1>b, <2>1
  <2>3. K!Secrets(Own)' \subseteq Mine
    BY <1>a, <2>1 DEF K!Secrets
  <2> QED BY <1>O, <2>1, <2>2, <2>3 DEF kioskVars
<1>17. ASSUME NEW r \in net, NEW a \in Answers, Answered(r, a),
              spent' \subseteq K!Secrets(signed'),
              \A p, q \in signed' : p.secret \in Mine /\ p.secret = q.secret
                => p = q,
              \A q \in net \ {r} : q.op = "sign"
                => q.proof.secret \notin K!Secrets(signed'),
              call.op = "sign" => call.proof.secret \notin spent',
              call.op = "sign" /\ call'.answer # "ok"
                => call.proof.secret \notin K!Secrets(signed')
       PROVE  DrawnOnce'
  <2>1. /\ UNCHANGED <<vault, handed, lost>> /\ net' = net \ {r}
        /\ call'.op = call.op /\ (call.op = "sign" => call'.proof = call.proof)
    BY <1>17, AnsweredDoes
  <2>2. Outs' = Outs /\ Ins' = Ins
    BY <2>1 DEF Ins, Outs
  <2>3. K!Secrets(Own)' \subseteq Mine
    BY <1>a, <2>1, <2>2
  <2> QED BY <1>17, <1>a, <2>1, <2>2, <2>3 DEF DrawnOnce
<1>18. ASSUME NEW r \in net, LoseRequest(r) PROVE DrawnOnce'
  BY <1>0, <1>18, <1>a DEF LoseRequest, kioskVars, Ins, Outs
<1>19. ASSUME NEW r \in net, KioskSigns(r) PROVE DrawnOnce'
  <2>1. /\ r.op = "sign" /\ Answered(r, "ok")
        /\ signed' = signed \cup {r.proof} /\ UNCHANGED spent
    BY <1>19, KioskSignsDoes
  <2>2. call.op = "sign" /\ call'.answer # "ok"
          => UNCHANGED call /\ ~ r.awaited
    BY <2>1, AnsweredDoes DEF Answers
  <2>3. spent' \subseteq K!Secrets(signed')
    BY <1>a, <2>1 DEF K!Secrets
  <2>4. \A p, q \in signed' : p.secret \in Mine /\ p.secret = q.secret => p = q
    BY <1>a, <2>1 DEF K!Secrets
  <2>5. \A q \in net \ {r} : q.op = "sign"
          => q.proof.secret \notin K!Secrets(signed')
    BY <1>a, <2>1 DEF K!Secrets
  <2>6. call.op = "sign" /\ call'.answer # "ok"
          => call.proof.secret \notin K!Secrets(signed')
    BY <1>a, <2>1, <2>2 DEF K!Secrets
  <2> QED BY <1>17, <1>a, <2>1, <2>3, <2>4, <2>5, <2>6 DEF Answers
<1>20. ASSUME NEW r \in net, KioskSwaps(r) PROVE DrawnOnce'
  <2>1. r.op = "swap" /\ Answered(r, "ok")
        /\ (SwapDone(r.ins, r.outs) \/ UNCHANGED kioskVars)
    BY <1>20, KioskSwapsDoes
  <2>2. call.op = "sign" /\ call'.answer # "ok" => UNCHANGED call
    BY <2>1, AnsweredDoes DEF Answers
  <2>3. CASE UNCHANGED kioskVars
    BY <1>17, <1>a, <2>1, <2>2, <2>3 DEF Answers, kioskVars
  <2>4. CASE SwapDone(r.ins, r.outs)
    <3>1. CanRun(r)
      BY <2>4 DEF SwapDone, CanRun
    <3>2. vault.pending # None /\ r.ins = Ins /\ r.outs = Outs
      BY <2>1, <3>1 DEF Swaps
    <3>3. K!Secrets(Outs) \cap K!Secrets(signed) = {}
      BY <3>1, <3>2 DEF CanRun, Swaps, Executed, NotExecuted, K!Secrets
    <3>4. /\ signed' = signed \cup Outs /\ spent' = spent \cup K!Secrets(Ins)
               /\ Ins \subseteq signed
      BY <2>4, <3>2 DEF SwapDone
    <3>5. spent' \subseteq K!Secrets(signed')
      BY <1>a, <3>4 DEF K!Secrets
    <3>6. \A p, q \in signed' : p.secret \in Mine /\ p.secret = q.secret
            => p = q
      BY <1>a, <3>3, <3>4 DEF K!Secrets
    <3>7. \A q \in net \ {r} : q.op = "sign"
            => q.proof.secret \notin K!Secrets(signed')
      BY <1>a, <3>4 DEF K!Secrets
    <3>8. call.op # "sign"
      BY <1>b, <3>2
    <3> QED BY <1>17, <2>1, <3>5, <3>6, <3>7, <3>8 DEF Answers
  <2> QED BY <2>1, <2>3, <2>4
<1>21. ASSUME NEW r \in net, KioskRefuses(r) PROVE DrawnOnce'
  <2>1. Answered(r, "refused") /\ UNCHANGED <<signed, spent>>
    BY <1>21 DEF KioskRefuses, kioskVars
  <2>2. call.op = "sign" /\ call'.answer # "ok" => call.answer # "ok"
    BY <2>1, AnsweredDoes DEF Answers
  <2> QED BY <1>17, <1>a, <2>1, <2>2 DEF Answers
<1>22. ASSUME UNCHANGED <<vault, call, net, handed, lost>>,
              spent' \subseteq K!Secrets(signed'),
              \A p, q \in signed' : p.secret \in Mine /\ p.secret = q.secret
                => p = q,
              K!Secrets(signed') \cap Mine \subseteq K!Secrets(signed),
              call.op = "sign" => call.proof.secret \notin spent'
       PROVE  DrawnOnce'
  BY <1>22, <1>a DEF DrawnOnce, Ins, Outs
<1>23. ASSUME NEW p \in handed, NEW m \in Merchant, PayeeSettles(p, m)
         PROVE DrawnOnce'
  <2>1. /\ p \in signed /\ spent' = spent \cup {p.secret}
        /\ UNCHANGED <<signed, vault, call, net, handed, lost>>
    BY <1>23, PayeeSettlesDoes
  <2>2. spent' \subseteq K!Secrets(signed')
    BY <1>a, <2>1 DEF K!Secrets
  <2>3. call.op = "sign" => call.proof.secret # p.secret
    BY <1>a, <2>1 DEF GivenAway, K!Secrets
  <2> QED BY <1>22, <1>a, <2>1, <2>2, <2>3
<1>24. ASSUME NEW p \in signed, NEW q \in Proof, OthersSwap(p, q)
         PROVE DrawnOnce'
  <2>1. /\ p.secret \notin Mine /\ q.secret \notin Mine
        /\ spent' = spent \cup K!Secrets({p}) /\ signed' = signed \cup {q}
        /\ UNCHANGED <<vault, call, net, handed, lost>>
    BY <1>24, OthersSwapDoes DEF SwapDone
  <2>2. spent' \subseteq K!Secrets(signed')
    BY <1>a, <2>1 DEF K!Secrets
  <2>3. \A x, y \in signed' : x.secret \in Mine /\ x.secret = y.secret => x = y
    BY <1>a, <2>1
  <2>4. K!Secrets(signed') \cap Mine \subseteq K!Secrets(signed)
    BY <2>1 DEF K!Secrets
  <2>5. call.op = "sign" => call.proof.secret \notin spent'
    BY <1>a, <2>1 DEF K!Secrets
  <2> QED BY <1>22, <2>1, <2>2, <2>3, <2>4, <2>5
<1>25. CASE UNCHANGED vars
  BY <1>0, <1>25, <1>a DEF vars, kioskVars, Ins, Outs
<1> QED
  BY <1>1, <1>2, <1>3, <1>4, <1>6, <1>7, <1>8, <1>9, <1>11, <1>12, <1>13,
     <1>14, <1>15, <1>16, <1>18, <1>19, <1>20, <1>21, <1>23, <1>24, <1>25
  DEF Next

-----------------------------------------------------------------------------
(* A pending swap is executed wholly or not at all. *)

(* Every step keeps Swaps. *)
LEMMA SwapsStep ==
  ASSUME Base, CacheIsSigned, GivenAway, DrawnOnce, Swaps, [Next]_vars,
         ~ abandoned'
  PROVE  Swaps'
<1>a. /\ K!Secrets(vault.proofs) \cap spent = {}
      /\ K!Secrets(Outs) \cap spent = {}
      /\ Executed \/ NotExecuted
      /\ \A q \in net : q.op = "swap" /\ CanRun(q) =>
            vault.pending # None /\ q.ins = Ins /\ q.outs = Outs
      /\ call.op = "swap" /\ call.answer = "ok" => Executed
      /\ call.op = "swap" /\ call.first /\ call.answer # "ok" =>
           /\ NotExecuted
           /\ \A q \in net : q.op = "swap" /\ CanRun(q) => q.awaited
  BY DEF Swaps
<1>b. /\ vault.pending = None => Ins = {} /\ Outs = {}
      /\ call.op \in {"topup", "sign", "pay"} => vault.pending = None
      /\ \A r \in net : r.awaited => r.op = call.op /\ call.answer = "none"
      /\ Idle.op = "idle"
  BY PendingKinds DEF Base, MemoryAndFile, Ins, Outs, Waits, Idle
<1>c. /\ K!Secrets(vault.proofs \cup handed \cup Ins \cup Outs) \subseteq Mine
      /\ spent \subseteq K!Secrets(signed)
      /\ \A p, q \in signed : p.secret \in Mine /\ p.secret = q.secret => p = q
      /\ \A r \in net : r.op = "sign" => r.proof.secret \notin K!Secrets(Outs)
      /\ call.op = "sign" => call.proof.secret \notin spent
  BY DEF DrawnOnce
<1>d. /\ vault.proofs \cup Ins \cup handed \subseteq signed
      /\ handed \cap (vault.proofs \cup Ins \cup Outs) = {}
      /\ vault.proofs \cap Ins = {}
  BY DEF GivenAway
<1>0. ASSUME UNCHANGED <<signed, spent>>, Ins' = Ins, Outs' = Outs,
             vault'.pending = vault.pending,
             K!Secrets(vault'.proofs) \cap spent = {},
             \A q \in net' : q.op = "swap"
               => \E r \in net : r.op = "swap" /\ q.ins = r.ins
                 /\ q.outs = r.outs,
             call'.op # "swap"
      PROVE  Swaps'
  <2>1. Executed' = Executed /\ NotExecuted' = NotExecuted
    BY <1>0 DEF Executed, NotExecuted
  <2>2. \A q \in net' : q.op = "swap" /\ CanRun(q)' =>
            vault.pending # None /\ q.ins = Ins /\ q.outs = Outs
    BY <1>0, <1>a DEF CanRun
  <2>3. \A q : CanRun(q)' <=> (q.ins # {} /\ K!Secrets(q.ins) \cap spent = {})
    BY <1>0 DEF CanRun
  <2> QED BY <1>0, <1>a, <2>1, <2>2, <2>3 DEF Swaps, CanRun
<1>E. ASSUME UNCHANGED <<signed, spent, net>>, Ins' = {}, Outs' = {},
             K!Secrets(vault'.proofs) \cap spent = {},
             \A q \in net : q.op = "swap" => ~ CanRun(q),
             call'.op # "swap"
      PROVE  Swaps'
  <2>1. K!Secrets({}) = {}
    BY DEF K!Secrets
  <2> QED BY <1>E, <2>1 DEF Swaps, Executed, NotExecuted, CanRun
<1>O. \A q \in Orphaned : q.op = "swap"
        => \E r \in net : r.op = "swap" /\ q.ins = r.ins /\ q.outs = r.outs
  <2> SUFFICES ASSUME NEW q \in Orphaned, q.op = "swap"
               PROVE  \E r \in net :
                        r.op = "swap" /\ q.ins = r.ins /\ q.outs = r.outs
    OBVIOUS
  <2>1. PICK r \in net :
              /\ q.op = r.op
              /\ r.op = "swap" => q
                   = [op |-> "swap", ins |-> r.ins, outs |-> r.outs,
                       awaited |-> FALSE]
    BY OrphanedRequests
  <2>3. q = [op |-> "swap", ins |-> r.ins, outs |-> r.outs, awaited |-> FALSE]
    BY <2>1
  <2>2. r.op = "swap" /\ q.ins = r.ins /\ q.outs = r.outs
    BY <2>1, <2>3
  <2> QED BY <2>2
<1>S. \A q \in net : q.op = "swap"
        => \E r \in net : r.op = "swap" /\ q.ins = r.ins /\ q.outs = r.outs
  OBVIOUS
<1>N. vault.pending = None => \A q \in net : q.op = "swap" => ~ CanRun(q)
  BY <1>a
<1>1. ASSUME NEW a \in Amount, Topup(a) PROVE Swaps'
  <2>1. UNCHANGED <<kioskVars, vault, net>> /\ call'.op = "topup"
    BY <1>1, TopupDoes
  <2> QED BY <1>0, <1>S, <1>a, <2>1 DEF kioskVars, Ins, Outs
<1>2. ASSUME NEW p \in Proof, AskSignature(p) PROVE Swaps'
  <2>1. /\ UNCHANGED kioskVars /\ call.op = "topup"
        /\ vault' = VaultOf(vault.proofs, None, vault.outbox, vault.seq + 1)
        /\ \/ /\ net' = net \cup {SignRequest(p, vault.seq + 1)}
              /\ call'.op = "sign"
           \/ UNCHANGED net /\ call' = Idle
    BY <1>2, <1>b, AskDoes
  <2>2. vault'.proofs = vault.proofs /\ Ins' = Ins /\ Outs' = Outs
          /\ vault'.pending = vault.pending
    BY <1>b, <2>1, Emptied
  <2>3. \A q \in net' : q.op = "swap" => q \in net
    BY <2>1 DEF SignRequest
  <2>4. call'.op # "swap" /\ UNCHANGED <<signed, spent>>
    BY <1>b, <2>1 DEF kioskVars
  <2> QED BY <1>0, <1>a, <2>2, <2>3, <2>4
<1>3. ASSUME TakeSignature PROVE Swaps'
  <2>1. /\ UNCHANGED <<kioskVars, net>> /\ call.op = "sign"
             /\ vault.pending = None
        /\ vault' = VaultOf(vault.proofs \cup {call.proof}, None, vault.outbox,
               vault.seq)
        /\ call' \in {Idle} \cup TopupCalls
    BY <1>3, TakeSignatureDoes
  <2>2. call'.op # "swap"
    BY <2>1 DEF Idle, TopupCalls
  <2>3. vault'.proofs = vault.proofs \cup {call.proof} /\ Ins' = {}
          /\ Outs' = {}
    BY <2>1, Emptied
  <2>4. K!Secrets(vault'.proofs) \cap spent = {}
    <3>1. call.proof.secret \notin spent /\ \A p \in vault.proofs :
            p.secret \notin spent
      BY <1>a, <1>c, <2>1 DEF K!Secrets
    <3> QED BY <2>3, <3>1 DEF K!Secrets
  <2> QED BY <1>E, <1>N, <2>1, <2>2, <2>3, <2>4 DEF kioskVars
<1>4. ASSUME MissSignature PROVE Swaps'
  <2>1. UNCHANGED <<kioskVars, vault>> /\ net' = Orphaned /\ call' = Idle
    BY <1>4 DEF MissSignature
  <2> QED BY <1>0, <1>O, <1>a, <1>b, <2>1 DEF kioskVars, Ins, Outs
<1>5. ASSUME NEW S \in SUBSET vault.proofs, HandOver(S),
             UNCHANGED <<kioskVars, net>>,
             call' = Idle, vault.pending = None
      PROVE  Swaps'
  <2>1. vault'.proofs \subseteq vault.proofs /\ Ins' = {} /\ Outs' = {}
    <3>1. CASE UNCHANGED <<vault, flash, handed>>
      BY <1>5, <1>b, <3>1 DEF Ins, Outs
    <3>2. CASE vault' = VaultOf(vault.proofs \ S, None, vault.outbox \cup {S},
                   vault.seq)
      BY <3>2, Emptied
    <3> QED BY <1>5, <3>1, <3>2, HandOverDoes
  <2>2. K!Secrets(vault'.proofs) \cap spent = {}
    BY <1>a, <2>1 DEF K!Secrets
  <2> QED BY <1>5, <1>E, <1>N, <1>b, <2>1, <2>2 DEF kioskVars
<1>6. ASSUME NEW a \in Amount, NEW l \in BOOLEAN, Pay(a, l) PROVE Swaps'
  BY <1>5, <1>6, PayDoes
<1>7. ASSUME NEW a \in Amount, MakeChange(a) PROVE Swaps'
  <2>1. PICK ins \in SUBSET Unlocked(vault.proofs),
             outs \in SUBSET [secret : Fresh \ Locked, amount : Denom] :
          /\ ins \subseteq Proof /\ outs \subseteq Proof
          /\ \/ UNCHANGED <<vault, flash, net, call>>
             \/ /\ vault' = VaultOf(vault.proofs \ ins,
                       [ins |-> ins, outs |-> outs],
                                    vault.outbox, vault.seq)
                /\ net' = net \cup {SwapRequest(ins, outs)}
                /\ call'.op = "swap" /\ call'.answer = "none"
    BY <1>7, MakeChangeDoes
  <2>2. call = Idle /\ vault.pending = None /\ UNCHANGED kioskVars
    BY <1>7, MakeChangeDoes
  <2>3. CASE UNCHANGED <<vault, flash, net, call>>
    BY <1>0, <1>S, <1>a, <1>b, <2>2, <2>3 DEF kioskVars, Ins, Outs
  <2>4. CASE /\ vault' = VaultOf(vault.proofs \ ins,
                 [ins |-> ins, outs |-> outs],
                                    vault.outbox, vault.seq)
             /\ net' = net \cup {SwapRequest(ins, outs)}
             /\ call'.op = "swap" /\ call'.answer = "none"
    <3>1. /\ Ins' = ins /\ Outs' = outs /\ vault'.proofs = vault.proofs \ ins
          /\ ins \subseteq vault.proofs /\ vault'.pending # None
      <4>1. ins \in SUBSET Proof /\ outs \in SUBSET Proof
        BY <2>1
      <4> QED BY <2>4, <4>1, PurseNone
          DEF VaultOf, Ins, Outs, PendingIns, PendingOuts, Unlocked
    <3>2. K!Secrets(outs) \cap K!Secrets(signed) = {}
      BY FreshIsNew DEF K!Secrets
    <3>3. UNCHANGED <<signed, spent>>
      BY <2>2 DEF kioskVars
    <3>4. K!Secrets(ins) \cap spent = {}
            /\ K!Secrets(vault.proofs \ ins) \cap spent = {}
      BY <1>a, <3>1 DEF K!Secrets
    <3>5. NotExecuted' /\ K!Secrets(outs) \cap spent = {}
      BY <1>c, <3>1, <3>2, <3>3, <3>4 DEF NotExecuted
    <3>6. \A q \in net' : q.op = "swap" /\ CanRun(q)'
            => q = SwapRequest(ins, outs)
      BY <1>N, <2>2, <2>4, <3>3 DEF CanRun
    <3>7. LET q == SwapRequest(ins, outs) IN q.ins = ins /\ q.outs = outs
            /\ q.awaited
      BY DEF SwapRequest
    <3> HIDE DEF SwapRequest, CanRun, NotExecuted, Executed
    <3> QED BY <2>4, <3>1, <3>3, <3>4, <3>5, <3>6, <3>7 DEF Swaps
  <2> QED BY <2>1, <2>3, <2>4
<1>8. ASSUME TakeSwap PROVE Swaps'
  <2>1. /\ UNCHANGED <<kioskVars, net>> /\ call.op = "swap"
             /\ call.answer = "ok"
        /\ \/ UNCHANGED vault /\ call' = Idle
           \/ /\ vault' = VaultOf(vault.proofs \cup Outs, None, vault.outbox,
                     vault.seq)
              /\ call'.op \in {"idle", "pay"}
    BY <1>8, <1>b, TakeSwapDoes
  <2>2. CASE UNCHANGED vault /\ call' = Idle
    BY <1>0, <1>S, <1>a, <1>b, <2>1, <2>2 DEF kioskVars, Ins, Outs
  <2>3. CASE /\ vault' = VaultOf(vault.proofs \cup Outs, None, vault.outbox,
                 vault.seq)
             /\ call'.op \in {"idle", "pay"}
    <3>1. vault'.proofs = vault.proofs \cup Outs /\ Ins' = {} /\ Outs' = {}
      BY <2>3, Emptied
    <3>2. K!Secrets(vault'.proofs) \cap spent = {}
      BY <1>a, <3>1 DEF K!Secrets
    <3>3. \A q \in net : q.op = "swap" => ~ CanRun(q)
      BY <1>a, <2>1 DEF CanRun, Executed, K!Secrets
    <3> QED BY <1>E, <2>1, <2>3, <3>1, <3>2, <3>3 DEF kioskVars
  <2> QED BY <2>1, <2>2, <2>3
<1>9. ASSUME PayWithChange PROVE Swaps'
  BY <1>5, <1>9, PayWithChangeDoes
<1>11. ASSUME AbandonRefused PROVE Swaps'
  <2>1. /\ UNCHANGED <<kioskVars, net>> /\ call' = Idle
        /\ call.op = "swap" /\ call.first /\ call.answer = "refused"
             /\ vault.pending # None
        /\ \/ UNCHANGED vault
           \/ vault' = VaultOf(vault.proofs \cup Ins, None, vault.outbox,
                  vault.seq)
    BY <1>11, RestoreDoes DEF AbandonRefused, Base, MemoryAndFile
  <2>2. CASE UNCHANGED vault
    BY <1>0, <1>S, <1>a, <1>b, <2>1, <2>2 DEF kioskVars, Ins, Outs
  <2>3. CASE vault' = VaultOf(vault.proofs \cup Ins, None, vault.outbox,
                 vault.seq)
    <3>1. vault'.proofs = vault.proofs \cup Ins /\ Ins' = {} /\ Outs' = {}
      BY <2>3, Emptied
    <3>2. K!Secrets(vault'.proofs) \cap spent = {}
      BY <1>a, <2>1, <3>1 DEF K!Secrets, NotExecuted
    <3>3. \A q \in net : q.op = "swap" => ~ CanRun(q)
      BY <1>a, <1>b, <2>1
    <3> QED BY <1>E, <1>b, <2>1, <3>1, <3>2, <3>3 DEF kioskVars
  <2> QED BY <2>1, <2>2, <2>3
<1>12. ASSUME LeavePending PROVE Swaps'
  <2>1. UNCHANGED <<kioskVars, vault>> /\ net' = Orphaned /\ call' = Idle
    BY <1>12 DEF LeavePending
  <2> QED BY <1>0, <1>O, <1>a, <1>b, <2>1 DEF kioskVars, Ins, Outs
<1>13. ASSUME Recover PROVE Swaps'
  <2>1. /\ UNCHANGED <<kioskVars, vault>> /\ vault.pending # None
        /\ call'.op = "swap" /\ ~ call'.first /\ call'.answer = "none"
        /\ net' = net \cup {SwapRequest(Ins, Outs)}
    BY <1>13, RecoverDoes
  <2>2. Ins' = Ins /\ Outs' = Outs /\ UNCHANGED <<signed, spent, vault>>
    BY <2>1 DEF Ins, Outs, kioskVars
  <2>3. SwapRequest(Ins, Outs).ins = Ins /\ SwapRequest(Ins, Outs).outs = Outs
    BY DEF SwapRequest
  <2>4. \A q \in net' : q.op = "swap" /\ CanRun(q)'
          => q.ins = Ins /\ q.outs = Outs
    BY <1>a, <2>1, <2>2, <2>3 DEF CanRun
  <2>5. Executed' = Executed /\ NotExecuted' = NotExecuted
    BY <2>2 DEF Executed, NotExecuted
  <2> HIDE DEF CanRun, Executed, NotExecuted
  <2> QED BY <1>a, <2>1, <2>2, <2>4, <2>5 DEF Swaps
<1>14. ASSUME Abandon PROVE Swaps'
  <2>1. /\ UNCHANGED <<kioskVars, net, call>> /\ call = Idle
             /\ vault.pending # None
        /\ abandoned' = (abandoned \/ vault'.pending = None)
        /\ \/ UNCHANGED vault
           \/ vault' = VaultOf(vault.proofs \cup Ins, None, vault.outbox,
                  vault.seq)
    BY <1>14, RestoreDoes DEF Abandon
  <2>2. UNCHANGED vault
    BY <2>1, Emptied
  <2> QED BY <1>0, <1>S, <1>a, <1>b, <2>1, <2>2 DEF kioskVars, Ins, Outs
<1>15. ASSUME NEW token \in vault.outbox, AckOutbox(token) PROVE Swaps'
  <2>1. /\ UNCHANGED <<kioskVars, call, net>> /\ call = Idle
        /\ vault' = VaultOf(vault.proofs, vault.pending,
               vault.outbox \ {token}, vault.seq)
    BY <1>15, AckDoes
  <2>2. Ins' = Ins /\ Outs' = Outs /\ vault'.proofs = vault.proofs
          /\ vault'.pending = vault.pending
    BY <2>1 DEF VaultOf, Ins, Outs, PendingIns, PendingOuts
  <2> QED BY <1>0, <1>S, <1>a, <1>b, <2>1, <2>2 DEF kioskVars
<1>16. ASSUME Restart PROVE Swaps'
  <2>1. /\ UNCHANGED kioskVars /\ vault'.proofs \subseteq vault.proofs
        /\ Ins' = Ins /\ Outs' = Outs /\ vault'.pending = vault.pending
        /\ net' = Orphaned /\ call' = Idle
    BY <1>16, RestartDoes
  <2>2. K!Secrets(vault'.proofs) \cap spent = {}
    BY <1>a, <2>1 DEF K!Secrets
  <2> QED BY <1>0, <1>O, <1>b, <2>1, <2>2 DEF kioskVars
<1>17. ASSUME UNCHANGED vault, spent \subseteq spent', net' \subseteq net,
              K!Secrets(vault.proofs \cup Outs) \cap spent' = {},
              Executed' \/ NotExecuted',
              call'.op = "swap" =>
                /\ call.op = "swap" /\ call'.first = call.first
                /\ call'.answer = "ok" => Executed'
                /\ call'.first /\ call'.answer # "ok" =>
                     call.answer # "ok" /\ NotExecuted'
       PROVE  Swaps'
  <2>1. Ins' = Ins /\ Outs' = Outs
    BY <1>17 DEF Ins, Outs
  <2>2. \A q \in net' : CanRun(q)' => q \in net /\ CanRun(q)
    BY <1>17 DEF CanRun
  <2>3. K!Secrets(vault'.proofs) \cap spent' = {}
          /\ K!Secrets(Outs') \cap spent' = {}
    BY <1>17, <2>1 DEF K!Secrets
  <2> HIDE DEF CanRun, Executed, NotExecuted
  <2>4. \A q \in net' : q.op = "swap" /\ CanRun(q)' =>
            vault'.pending # None /\ q.ins = Ins' /\ q.outs = Outs'
    BY <1>17, <1>a, <2>1, <2>2
  <2>5. call'.op = "swap" /\ call'.first /\ call'.answer # "ok" =>
           \A q \in net' : q.op = "swap" /\ CanRun(q)' => q.awaited
    BY <1>17, <1>a, <2>2
  <2> QED BY <1>17, <2>3, <2>4, <2>5 DEF Swaps
<1>18. ASSUME NEW r \in net, LoseRequest(r) PROVE Swaps'
  <2>1. UNCHANGED <<kioskVars, vault, call>> /\ net' = net \ {r}
    BY <1>18 DEF LoseRequest
  <2>2. K!Secrets(vault.proofs \cup Outs) \cap spent' = {}
    BY <1>a, <2>1 DEF K!Secrets, kioskVars
  <2>3. Executed' = Executed /\ NotExecuted' = NotExecuted
    BY <2>1 DEF Executed, NotExecuted, Ins, Outs, kioskVars
  <2> QED BY <1>17, <1>a, <2>1, <2>2, <2>3 DEF kioskVars
<1>19. ASSUME NEW r \in net, KioskSigns(r) PROVE Swaps'
  <2>1. /\ r.op = "sign" /\ Answered(r, "ok")
        /\ signed' = signed \cup {r.proof} /\ UNCHANGED spent
    BY <1>19, KioskSignsDoes
  <2>2. UNCHANGED vault /\ net' \subseteq net
          /\ (call'.op = "swap" => UNCHANGED call)
    BY <2>1, AnsweredDoes DEF Answers
  <2>3. Ins' = Ins /\ Outs' = Outs
    BY <2>2 DEF Ins, Outs
  <2>4. (Executed => Executed') /\ (NotExecuted => NotExecuted')
    BY <1>c, <2>1, <2>3 DEF Executed, NotExecuted, K!Secrets
  <2>5. K!Secrets(vault.proofs \cup Outs) \cap spent' = {}
    BY <1>a, <2>1 DEF K!Secrets
  <2> QED BY <1>17, <1>a, <2>1, <2>2, <2>4, <2>5
<1>20. ASSUME NEW r \in net, KioskSwaps(r) PROVE Swaps'
  <2>1. /\ r.op = "swap" /\ Answered(r, "ok")
        /\ SwapDone(r.ins, r.outs)
             \/ (K!CachedSwap(r.ins, r.outs) /\ UNCHANGED kioskVars)
    BY <1>20, KioskSwapsDoes
  <2>2. /\ UNCHANGED vault /\ net' \subseteq net
        /\ \/ ~ r.awaited /\ UNCHANGED call
           \/ call'.op # "swap"
           \/ /\ call.op = "swap" /\ call'.first = call.first
                   /\ call.answer = "none"
              /\ call'.answer = "ok" /\ r.ins = Ins /\ r.outs = Outs
    BY <2>1, AnsweredDoes DEF Answers
  <2>3. Ins' = Ins /\ Outs' = Outs
    BY <2>2 DEF Ins, Outs
  <2>4. CASE K!CachedSwap(r.ins, r.outs) /\ UNCHANGED kioskVars
    <3>1. K!Secrets(r.ins) \subseteq spent /\ r.outs \subseteq signed
      BY <2>4 DEF K!CachedSwap, CacheIsSigned
    <3>2. UNCHANGED <<signed, spent>>
      BY <2>4 DEF kioskVars
    <3>3. Executed' = Executed /\ NotExecuted' = NotExecuted
      BY <2>3, <3>2 DEF Executed, NotExecuted
    <3>4. r.ins = Ins /\ r.outs = Outs => Executed
      BY <3>1 DEF Executed
    <3>5. K!Secrets(vault.proofs \cup Outs) \cap spent' = {}
      BY <1>a, <3>2 DEF K!Secrets
    <3> QED BY <1>17, <1>a, <2>2, <3>2, <3>3, <3>4, <3>5
  <2>5. CASE SwapDone(r.ins, r.outs)
    <3>1. CanRun(r)
      BY <2>5 DEF SwapDone, CanRun
    <3>2. r.ins = Ins /\ r.outs = Outs
      BY <1>a, <2>1, <3>1
    <3>3. K!Secrets(Outs) \cap K!Secrets(signed) = {}
      BY <1>a, <3>1, <3>2 DEF CanRun, Executed, NotExecuted, K!Secrets
    <3>4. signed' = signed \cup Outs /\ spent' = spent \cup K!Secrets(Ins)
      BY <2>5, <3>2 DEF SwapDone
    <3>5. Executed'
      BY <2>3, <3>4 DEF Executed
    <3>6. K!Secrets(vault.proofs) \cap K!Secrets(Ins) = {}
      BY <1>c, <1>d DEF K!Secrets
    <3>7. K!Secrets(Outs) \cap K!Secrets(Ins) = {}
      BY <1>d, <3>3 DEF K!Secrets
    <3>8. K!Secrets(vault.proofs \cup Outs) \cap spent' = {}
      BY <1>a, <3>4, <3>6, <3>7 DEF K!Secrets
    <3>9. ~ (~ r.awaited /\ call.op = "swap" /\ call.first
            /\ call.answer # "ok")
      BY <1>a, <2>1, <3>1
    <3> QED BY <1>17, <2>2, <3>4, <3>5, <3>8, <3>9
  <2> QED BY <2>1, <2>4, <2>5
<1>21. ASSUME NEW r \in net, KioskRefuses(r) PROVE Swaps'
  <2>1. Answered(r, "refused") /\ UNCHANGED <<signed, spent>>
    BY <1>21 DEF KioskRefuses, kioskVars
  <2>2. /\ UNCHANGED vault /\ net' \subseteq net
        /\ \/ UNCHANGED call
           \/ call'.op # "swap"
           \/ /\ call.op = "swap" /\ call'.first = call.first
                   /\ call.answer = "none"
              /\ call'.answer = "refused"
    BY <2>1, AnsweredDoes DEF Answers
  <2>3. Executed' = Executed /\ NotExecuted' = NotExecuted
    BY <2>1, <2>2 DEF Executed, NotExecuted, Ins, Outs
  <2>4. K!Secrets(vault.proofs \cup Outs) \cap spent' = {}
    BY <1>a, <2>1 DEF K!Secrets
  <2> QED BY <1>17, <1>a, <2>1, <2>2, <2>3, <2>4
<1>22. ASSUME NEW p \in handed, NEW m \in Merchant, PayeeSettles(p, m)
         PROVE Swaps'
  <2>1. /\ p \in signed /\ spent' = spent \cup {p.secret}
        /\ UNCHANGED <<signed, vault, call, net>>
    BY <1>22, PayeeSettlesDoes
  <2>2. p.secret \notin K!Secrets(vault.proofs \cup Ins)
    BY <1>c, <1>d, <2>1 DEF K!Secrets
  <2>3. p.secret \notin K!Secrets(Outs)
    <3>1. CASE Executed
      BY <1>c, <1>d, <2>1, <3>1 DEF K!Secrets, Executed
    <3>2. CASE NotExecuted
      BY <2>1, <3>2 DEF K!Secrets, NotExecuted
    <3> QED BY <1>a, <3>1, <3>2
  <2>4. Ins' = Ins /\ Outs' = Outs
    BY <2>1 DEF Ins, Outs
  <2>5. (Executed => Executed') /\ (NotExecuted => NotExecuted')
    BY <2>1, <2>2, <2>4 DEF Executed, NotExecuted, K!Secrets
  <2>6. K!Secrets(vault.proofs \cup Outs) \cap spent' = {}
    BY <1>a, <2>1, <2>2, <2>3 DEF K!Secrets
  <2> QED BY <1>17, <1>a, <2>1, <2>5, <2>6
<1>23. ASSUME NEW p \in signed, NEW q \in Proof, OthersSwap(p, q) PROVE Swaps'
  <2>1. /\ p.secret \notin Mine /\ q.secret \notin Mine
        /\ spent' = spent \cup K!Secrets({p}) /\ signed' = signed \cup {q}
        /\ UNCHANGED <<vault, call, net>>
    BY <1>23, OthersSwapDoes DEF SwapDone
  <2>2. Ins' = Ins /\ Outs' = Outs
    BY <2>1 DEF Ins, Outs
  <2>3. (Executed => Executed') /\ (NotExecuted => NotExecuted')
    BY <1>c, <2>1, <2>2 DEF Executed, NotExecuted, K!Secrets
  <2>4. K!Secrets(vault.proofs \cup Outs) \cap spent' = {}
    BY <1>a, <1>c, <2>1 DEF K!Secrets
  <2> QED BY <1>17, <1>a, <2>1, <2>3, <2>4
<1>24. CASE UNCHANGED vars
  <2>1. UNCHANGED <<kioskVars, vault, call, net>>
    BY <1>24 DEF vars
  <2>2. K!Secrets(vault.proofs \cup Outs) \cap spent' = {}
    BY <1>a, <2>1 DEF K!Secrets, kioskVars
  <2>3. Executed' = Executed /\ NotExecuted' = NotExecuted
    BY <2>1 DEF Executed, NotExecuted, Ins, Outs, kioskVars
  <2> QED BY <1>17, <1>a, <2>1, <2>2, <2>3 DEF kioskVars
<1> QED
  BY <1>1, <1>2, <1>3, <1>4, <1>6, <1>7, <1>8, <1>9, <1>11, <1>12, <1>13,
     <1>14, <1>15, <1>16, <1>18, <1>19, <1>20, <1>21, <1>22, <1>23, <1>24
  DEF Next

-----------------------------------------------------------------------------
(* No good token is lost. *)

(* A token of the vault that is still good. *)
LEMMA IsLive ==
  \A p : p \in MyLive <=> p \in signed /\ p.secret \notin spent
    /\ p.secret \in Mine
BY DEF MyLive, K!Live

(* Every step keeps NotLost. *)
LEMMA NotLostStep ==
  ASSUME Base, GivenAway, DrawnOnce, Swaps, NotLost, [Next]_vars, ~ abandoned'
  PROVE  NotLost'
<1> DEFINE Asking == IF call.op = "sign" THEN {call.proof} ELSE {}
           Kept == vault.proofs \cup Ins \cup Outs \cup handed \cup lost
<1>a. /\ MyLive \subseteq Kept \cup Asking
      /\ vault.pending = None => Ins = {} /\ Outs = {}
      /\ call.op \in {"topup", "sign", "pay"} => vault.pending = None
      /\ Idle.op = "idle"
  BY PendingKinds DEF NotLost, Base, MemoryAndFile, Ins, Outs, Idle
<1>b. \A p : p \in MyLive' <=> p \in signed' /\ p.secret \notin spent'
        /\ p.secret \in Mine
  BY DEF MyLive, K!Live
<1>0. ASSUME NEW gone, MyLive' \subseteq MyLive,
             (Kept \cup Asking) \ gone \subseteq (Kept \cup Asking)',
             gone \cap MyLive = {}
      PROVE  NotLost'
  BY <1>0, <1>a DEF NotLost
<1>k. UNCHANGED kioskVars => MyLive' = MyLive
  BY DEF MyLive, K!Live, kioskVars
<1>Z. ASSUME UNCHANGED kioskVars, Kept \cup Asking
               \subseteq (Kept \cup Asking)' PROVE NotLost'
  <2>1. MyLive' \subseteq (Kept \cup Asking)'
    BY <1>Z, <1>a, <1>k
  <2> QED BY <2>1 DEF NotLost
<1>1. ASSUME NEW a \in Amount, Topup(a) PROVE NotLost'
  <2>1. /\ UNCHANGED <<kioskVars, vault, handed, lost>> /\ call = Idle
    BY <1>1, TopupDoes
  <2>2. Ins' = Ins /\ Outs' = Outs
    BY <2>1 DEF Ins, Outs
  <2>3. Kept \cup Asking \subseteq (Kept \cup Asking)'
    BY <1>a, <2>1, <2>2
  <2> QED BY <1>Z, <2>1, <2>3
<1>2. ASSUME NEW p \in Proof, AskSignature(p) PROVE NotLost'
  <2>1. /\ UNCHANGED <<kioskVars, handed, lost>> /\ call.op = "topup"
        /\ vault' = VaultOf(vault.proofs, None, vault.outbox, vault.seq + 1)
    BY <1>2, <1>a, AskDoes
  <2>2. vault'.proofs = vault.proofs /\ Ins' = Ins /\ Outs' = Outs
    BY <1>a, <2>1, Emptied
  <2>3. Kept \cup Asking \subseteq (Kept \cup Asking)'
    BY <2>1, <2>2
  <2> QED BY <1>Z, <2>1, <2>3
<1>3. ASSUME TakeSignature PROVE NotLost'
  <2>1. /\ UNCHANGED <<kioskVars, handed, lost>> /\ call.op = "sign"
        /\ vault' = VaultOf(vault.proofs \cup {call.proof}, None, vault.outbox,
               vault.seq)
    BY <1>3, <1>a, TakeSignatureDoes
  <2>2. vault'.proofs = vault.proofs \cup {call.proof} /\ Ins' = Ins
          /\ Outs' = Outs
    BY <1>a, <2>1, Emptied
  <2>3. Kept \cup Asking \subseteq (Kept \cup Asking)'
    BY <2>1, <2>2
  <2> QED BY <1>Z, <2>1, <2>3
<1>4. ASSUME MissSignature PROVE NotLost'
  <2>1. /\ UNCHANGED <<kioskVars, vault, handed>> /\ call.op = "sign"
        /\ lost' = IF call.answer = "refused" THEN lost ELSE lost
             \cup {call.proof}
    BY <1>4 DEF MissSignature
  <2>2. Ins' = Ins /\ Outs' = Outs
    BY <2>1 DEF Ins, Outs
  <2>3. CASE call.answer = "refused"
    <3>1. {call.proof} \cap MyLive = {}
      BY <2>1, <2>3, IsLive DEF DrawnOnce, K!Secrets
    <3>2. (Kept \cup Asking) \ {call.proof} \subseteq (Kept \cup Asking)'
      BY <2>1, <2>2, <2>3
    <3> QED BY <1>0, <1>k, <2>1, <3>1, <3>2
  <2>4. CASE call.answer # "refused"
    <3>1. Kept \cup Asking \subseteq (Kept \cup Asking)'
      BY <2>1, <2>2, <2>4
    <3> QED BY <1>Z, <2>1, <3>1
  <2> QED BY <2>3, <2>4
<1>5. ASSUME NEW S \in SUBSET vault.proofs, HandOver(S),
             UNCHANGED <<kioskVars, lost>>,
             call.op # "sign", vault.pending = None
      PROVE  NotLost'
  <2>1. vault.proofs \cup handed \subseteq vault'.proofs \cup handed'
    <3>2. CASE vault' = VaultOf(vault.proofs \ S, None, vault.outbox \cup {S},
                   vault.seq)
                 /\ handed' = handed \cup S
      BY <3>2, Emptied
    <3> QED BY <1>5, <3>2, HandOverDoes
  <2>2. Kept \cup Asking \subseteq (Kept \cup Asking)'
    BY <1>5, <1>a, <2>1
  <2> QED BY <1>5, <1>Z, <2>2
<1>6. ASSUME NEW a \in Amount, NEW l \in BOOLEAN, Pay(a, l) PROVE NotLost'
  BY <1>5, <1>6, <1>a, PayDoes
<1>7. ASSUME NEW a \in Amount, MakeChange(a) PROVE NotLost'
  <2>1. PICK ins \in SUBSET vault.proofs, outs \in SUBSET Proof :
          \/ UNCHANGED vault
          \/ ins \in SUBSET Proof /\ vault'
               = VaultOf(vault.proofs \ ins, [ins |-> ins, outs |-> outs],
                                 vault.outbox, vault.seq)
    <3>1. Unlocked(vault.proofs) \subseteq vault.proofs
      BY DEF Unlocked
    <3> QED BY <1>7, <3>1, MakeChangeDoes
  <2>2. call = Idle /\ vault.pending = None
          /\ UNCHANGED <<kioskVars, handed, lost>>
    BY <1>7, MakeChangeDoes
  <2>3. CASE UNCHANGED vault
    BY <1>Z, <1>a, <2>2, <2>3 DEF Ins, Outs
  <2>4. CASE ins \in SUBSET Proof /\ vault'
               = VaultOf(vault.proofs \ ins, [ins |-> ins, outs |-> outs],
                                 vault.outbox, vault.seq)
    <3>1. Ins' = ins /\ vault'.proofs = vault.proofs \ ins
      BY <2>4, PurseNone DEF VaultOf, Ins, PendingIns
    <3>2. Kept \cup Asking \subseteq (Kept \cup Asking)'
      BY <1>a, <2>2, <3>1
    <3> QED BY <1>Z, <2>2, <3>2
  <2> QED BY <2>1, <2>3, <2>4
<1>8. ASSUME TakeSwap PROVE NotLost'
  <2>1. /\ UNCHANGED <<kioskVars, handed, lost>> /\ call.op = "swap"
             /\ call.answer = "ok"
        /\ \/ UNCHANGED vault
           \/ vault' = VaultOf(vault.proofs \cup Outs, None, vault.outbox,
                  vault.seq)
    BY <1>8, TakeSwapDoes
  <2>2. Ins \cap MyLive = {}
    BY <2>1, IsLive DEF Swaps, Executed, K!Secrets
  <2>3. (Kept \cup Asking) \ Ins \subseteq (Kept \cup Asking)'
    <3>1. CASE UNCHANGED vault
      BY <2>1, <3>1 DEF Ins, Outs
    <3>2. CASE vault' = VaultOf(vault.proofs \cup Outs, None, vault.outbox,
                   vault.seq)
      <4>1. vault'.proofs = vault.proofs \cup Outs
        BY <3>2, Emptied
      <4> QED BY <2>1, <4>1
    <3> QED BY <2>1, <3>1, <3>2
  <2> QED BY <1>0, <1>k, <2>1, <2>2, <2>3
<1>9. ASSUME PayWithChange PROVE NotLost'
  BY <1>5, <1>9, PayWithChangeDoes
<1>11. ASSUME AbandonRefused PROVE NotLost'
  <2>1. /\ UNCHANGED <<kioskVars, handed, lost>>
        /\ call.op = "swap" /\ call.first /\ call.answer = "refused"
        /\ \/ UNCHANGED vault
           \/ vault' = VaultOf(vault.proofs \cup Ins, None, vault.outbox,
                  vault.seq)
    BY <1>11, RestoreDoes DEF AbandonRefused, Base, MemoryAndFile
  <2>2. Outs \cap MyLive = {}
    BY <2>1, IsLive DEF Swaps, NotExecuted, K!Secrets
  <2>3. (Kept \cup Asking) \ Outs \subseteq (Kept \cup Asking)'
    <3>1. CASE UNCHANGED vault
      BY <2>1, <3>1 DEF Ins, Outs
    <3>2. CASE vault' = VaultOf(vault.proofs \cup Ins, None, vault.outbox,
                   vault.seq)
      <4>1. vault'.proofs = vault.proofs \cup Ins
        BY <3>2, Emptied
      <4> QED BY <2>1, <4>1
    <3> QED BY <2>1, <3>1, <3>2
  <2> QED BY <1>0, <1>k, <2>1, <2>2, <2>3
<1>12. ASSUME UNCHANGED <<kioskVars, vault, handed, lost>>,
              call.op # "sign" \/ UNCHANGED call
       PROVE  NotLost'
  <2>1. Ins' = Ins /\ Outs' = Outs
    BY <1>12 DEF Ins, Outs
  <2>2. Kept \cup Asking \subseteq (Kept \cup Asking)'
    BY <1>12, <2>1
  <2> QED BY <1>12, <1>Z, <2>2
<1>13. ASSUME LeavePending \/ Recover PROVE NotLost'
  BY <1>12, <1>13, <1>a DEF LeavePending, Recover
<1>14. ASSUME Abandon PROVE NotLost'
  <2>1. /\ UNCHANGED <<kioskVars, call, handed, lost>> /\ vault.pending # None
        /\ abandoned' = (abandoned \/ vault'.pending = None)
        /\ \/ UNCHANGED vault
           \/ vault' = VaultOf(vault.proofs \cup Ins, None, vault.outbox,
                  vault.seq)
    BY <1>14, RestoreDoes DEF Abandon
  <2>2. UNCHANGED vault
    BY <2>1, Emptied
  <2> QED BY <1>12, <2>1, <2>2
<1>15. ASSUME NEW token \in vault.outbox, AckOutbox(token) PROVE NotLost'
  <2>1. /\ UNCHANGED <<kioskVars, call, handed, lost>>
        /\ vault' = VaultOf(vault.proofs, vault.pending,
               vault.outbox \ {token}, vault.seq)
    BY <1>15, AckDoes
  <2>2. Ins' = Ins /\ Outs' = Outs /\ vault'.proofs = vault.proofs
    BY <2>1 DEF VaultOf, Ins, Outs, PendingIns, PendingOuts
  <2>3. Kept \cup Asking \subseteq (Kept \cup Asking)'
    BY <2>1, <2>2
  <2> QED BY <1>Z, <2>1, <2>3
<1>16. ASSUME Restart PROVE NotLost'
  <2>1. /\ UNCHANGED <<kioskVars, handed>>
        /\ Ins' = Ins /\ Outs' = Outs
        /\ lost \cup (vault.proofs \ (vault'.proofs \cup handed \cup Ins))
             \subseteq lost'
        /\ call.op = "sign" => call.proof \in lost'
    BY <1>16, RestartDoes
  <2>3. Kept \cup Asking \subseteq (Kept \cup Asking)'
    BY <2>1
  <2> QED BY <1>Z, <2>1, <2>3
<1>17. ASSUME UNCHANGED <<vault, handed, lost>>,
              call'.op = call.op, call.op = "sign" => call'.proof = call.proof,
              \A p \in signed' \ signed : p.secret \in Mine
                => p \in Kept \cup Asking,
              spent \subseteq spent'
       PROVE  NotLost'
  <2>1. Ins' = Ins /\ Outs' = Outs
    BY <1>17 DEF Ins, Outs
  <2>2. (Kept \cup Asking)' = Kept \cup Asking
    BY <1>17, <2>1
  <2>3. MyLive' \subseteq Kept \cup Asking
    BY <1>17, <1>a, <1>b, IsLive
  <2> QED BY <2>2, <2>3 DEF NotLost
<1>18. ASSUME NEW r \in net, LoseRequest(r) PROVE NotLost'
  BY <1>12, <1>18 DEF LoseRequest
<1>19. ASSUME NEW r \in net, KioskSigns(r) PROVE NotLost'
  <2>1. /\ r.op = "sign" /\ Answered(r, "ok")
        /\ signed' = signed \cup {r.proof} /\ UNCHANGED spent
    BY <1>19, KioskSignsDoes
  <2>2. /\ UNCHANGED <<vault, handed, lost>> /\ call'.op = call.op
        /\ call.op = "sign" => call'.proof = call.proof
        /\ r.awaited => call.op = "sign" /\ r.proof = call.proof
    BY <2>1, AnsweredDoes DEF Answers
  <2>3. r.proof \in Kept \cup Asking
    BY <2>1, <2>2 DEF DrawnOnce
  <2> QED BY <1>17, <2>1, <2>2, <2>3
<1>20. ASSUME NEW r \in net, KioskSwaps(r) PROVE NotLost'
  <2>1. r.op = "swap" /\ Answered(r, "ok")
        /\ (SwapDone(r.ins, r.outs) \/ UNCHANGED kioskVars)
    BY <1>20, KioskSwapsDoes
  <2>2. /\ UNCHANGED <<vault, handed, lost>> /\ call'.op = call.op
        /\ call.op = "sign" => call'.proof = call.proof
    BY <2>1, AnsweredDoes DEF Answers
  <2>3. CASE UNCHANGED kioskVars
    BY <1>17, <2>2, <2>3 DEF kioskVars
  <2>4. CASE SwapDone(r.ins, r.outs)
    <3>1. CanRun(r)
      BY <2>4 DEF SwapDone, CanRun
    <3>2. r.outs = Outs
      BY <2>1, <3>1 DEF Swaps
    <3> QED BY <1>17, <2>2, <2>4, <3>2 DEF SwapDone
  <2> QED BY <2>1, <2>3, <2>4
<1>21. ASSUME NEW r \in net, KioskRefuses(r) PROVE NotLost'
  <2>1. Answered(r, "refused") /\ UNCHANGED <<signed, spent>>
    BY <1>21 DEF KioskRefuses, kioskVars
  <2>2. /\ UNCHANGED <<vault, handed, lost>> /\ call'.op = call.op
        /\ call.op = "sign" => call'.proof = call.proof
    BY <2>1, AnsweredDoes DEF Answers
  <2> QED BY <1>17, <2>1, <2>2
<1>22. ASSUME NEW p \in handed, NEW m \in Merchant, PayeeSettles(p, m)
         PROVE NotLost'
  BY <1>17, <1>22, PayeeSettlesDoes
<1>23. ASSUME NEW p \in signed, NEW q \in Proof, OthersSwap(p, q)
         PROVE NotLost'
  BY <1>17, <1>23, OthersSwapDoes DEF SwapDone
<1>24. CASE UNCHANGED vars
  BY <1>12, <1>24 DEF vars
<1> QED
  BY <1>1, <1>2, <1>3, <1>4, <1>6, <1>7, <1>8, <1>9, <1>11, <1>13,
     <1>14, <1>15, <1>16, <1>18, <1>19, <1>20, <1>21, <1>22, <1>23, <1>24
  DEF Next

(* recover --abandon is never taken back. *)
LEMMA AbandonedForGood == Base /\ [Next]_vars /\ abandoned => abandoned'
<1> SUFFICES ASSUME [Next]_vars, abandoned PROVE abandoned'
  OBVIOUS
<1>1. abandoned' = abandoned \/ Abandon
  BY DEF Next, vars, Topup, AskSignature, TakeSignature, MissSignature, Pay,
         MakeChange, TakeSwap,
     PayWithChange, AbandonRefused, LeavePending, Recover, AckOutbox, Restart,
     LoseRequest,
     KioskSigns, KioskSwaps, KioskRefuses, Answered, PayeeSettles, OthersSwap
<1> QED BY <1>1 DEF Abandon

(* Every step keeps Sound, and the initial state has it. *)
LEMMA SoundStep ==
  Base /\ CacheIsSigned /\ GivenAway /\ Sound /\ [Next]_vars => Sound'
BY AbandonedForGood, DrawnOnceStep, SwapsStep, NotLostStep DEF Sound

LEMMA SoundInit == Init => Sound
<1> SUFFICES ASSUME Init PROVE DrawnOnce /\ Swaps /\ NotLost
  BY DEF Sound
<1>1. /\ vault = EmptyVault /\ call = Idle /\ handed = {} /\ lost = {}
           /\ net = {}
      /\ signed = Foreign /\ spent = {}
  BY DEF Init, InitVault, InitKiosk
<1>2. vault.proofs = {} /\ Ins = {} /\ Outs = {} /\ call.op = "idle"
  BY <1>1 DEF EmptyVault, Idle, Ins, Outs, PendingIns, PendingOuts
<1>3. \A p \in signed : p.secret \notin Mine
  BY <1>1, PurseAssumption
<1>4. DrawnOnce
  BY <1>1, <1>2, <1>3 DEF DrawnOnce, K!Secrets
<1>5. Swaps
  BY <1>1, <1>2 DEF Swaps, Executed, NotExecuted, K!Secrets
<1>6. NotLost
  BY <1>3, IsLive DEF NotLost
<1> QED BY <1>4, <1>5, <1>6

(* A vault gives away coins of its purse, and nothing else grows `handed'. *)
LEMMA GivesFromPurse ==
  ASSUME Base, [Next]_vars
  PROVE  \/ UNCHANGED handed
         \/ UNCHANGED kioskVars /\ handed' \subseteq handed \cup vault.proofs
<1>1. ASSUME NEW S \in SUBSET vault.proofs, HandOver(S)
      PROVE  handed' \subseteq handed \cup vault.proofs
  BY <1>1, HandOverDoes
<1>2. ASSUME NEW a \in Amount, NEW l \in BOOLEAN, Pay(a, l)
      PROVE  UNCHANGED kioskVars /\ handed' \subseteq handed \cup vault.proofs
  BY <1>1, <1>2, PayDoes
<1>3. ASSUME PayWithChange
      PROVE  UNCHANGED kioskVars /\ handed' \subseteq handed \cup vault.proofs
  BY <1>1, <1>3, PayWithChangeDoes
<1>4. ASSUME ~ PayWithChange, \A a \in Amount, l \in BOOLEAN : ~ Pay(a, l)
      PROVE  UNCHANGED handed
  BY <1>4 DEF Next, vars, Topup, AskSignature, TakeSignature, MissSignature,
     MakeChange, TakeSwap, AbandonRefused, LeavePending, Recover, Abandon,
     AckOutbox, Restart, LoseRequest, KioskSigns, KioskSwaps, KioskRefuses,
     Answered, PayeeSettles, OthersSwap
<1> QED BY <1>2, <1>3, <1>4

(* Every step keeps it that a coin given away is spent by payees only.      *)
LEMMA SpentByPayeeStep ==
  ASSUME Base, GivenAway, DrawnOnce, Swaps, SpentByPayee, [Next]_vars
  PROVE  SpentByPayee'
<1>1. CASE UNCHANGED kioskVars
  <2>1. UNCHANGED <<spent, settlements>>
    BY <1>1 DEF kioskVars
  <2>2. handed' \subseteq handed \cup vault.proofs
    BY GivesFromPurse
  <2>3. K!Secrets(vault.proofs) \cap spent = {}
    BY DEF Swaps
  <2> QED BY <2>1, <2>2, <2>3 DEF SpentByPayee, K!Secrets
<1>2. ASSUME NEW r \in net, KioskSigns(r) PROVE SpentByPayee'
  <2>1. UNCHANGED <<spent, settlements, handed>>
    BY <1>2 DEF KioskSigns, K!SignForDevice, Answered
  <2> QED BY <2>1 DEF SpentByPayee, K!Secrets
<1>3. ASSUME NEW ins, UNCHANGED <<handed, settlements>>,
             spent' = spent \cup K!Secrets(ins),
             K!Secrets(ins) \cap K!Secrets(handed) = {}
      PROVE  SpentByPayee'
  BY <1>3 DEF SpentByPayee, K!Secrets
<1>4. ASSUME NEW r \in net, KioskSwaps(r), ~ UNCHANGED kioskVars
      PROVE  SpentByPayee'
  <2>1. SwapDone(r.ins, r.outs) /\ r.op = "swap" /\ UNCHANGED handed
    BY <1>4, KioskSwapsDoes DEF KioskSwaps, Answered
  <2>2. UNCHANGED settlements
    BY <1>4 DEF KioskSwaps, K!Swap
  <2>3. r.ins = Ins
    BY <2>1 DEF Swaps, CanRun, SwapDone
  <2>4. K!Secrets(Ins) \cap K!Secrets(handed) = {}
    BY DEF GivenAway, DrawnOnce, K!Secrets
  <2> QED BY <1>3, <2>1, <2>2, <2>3, <2>4 DEF SwapDone
<1>5. ASSUME NEW p \in handed, NEW m \in Merchant, PayeeSettles(p, m)
      PROVE  SpentByPayee'
  <2>1. /\ spent' = spent \cup {p.secret} /\ UNCHANGED handed
        /\ \E e : e.secret = p.secret /\ settlements' = settlements \cup {e}
    <3>1. PICK e : /\ e.secret = p.secret
                   /\ settlements' = settlements \cup {e}
      <4> DEFINE n == K!Cardinality(settlements) + 1
                 e == [seq |-> n, merchant |-> m,
                       secret |-> p.secret, amount |-> p.amount]
      <4>1. settlements' = settlements \cup {e}
        BY <1>5 DEF PayeeSettles, K!SettleFor
      <4>2. e.secret = p.secret
        OBVIOUS
      <4> HIDE DEF e
      <4> QED BY <4>1, <4>2
    <3> QED BY <1>5, <3>1 DEF PayeeSettles, K!SettleFor
  <2>2. K!Secrets(settlements) \cup {p.secret} \subseteq K!Secrets(settlements')
    BY <2>1 DEF K!Secrets
  <2>3. K!Secrets(settlements)' = K!Secrets(settlements')
        /\ K!Secrets(handed)' = K!Secrets(handed)
    BY <2>1 DEF K!Secrets
  <2> QED BY <2>1, <2>2, <2>3 DEF SpentByPayee
<1>6. ASSUME NEW p \in signed, NEW q \in Proof, OthersSwap(p, q)
      PROVE  SpentByPayee'
  <2>1. p.secret \notin Mine /\ SwapDone({p}, {q}) /\ UNCHANGED handed
    BY <1>6, OthersSwapDoes
  <2>2. UNCHANGED settlements
    BY <1>6 DEF OthersSwap, K!Swap
  <2>3. K!Secrets({p}) \cap K!Secrets(handed) = {}
    BY <2>1 DEF DrawnOnce, K!Secrets
  <2> QED BY <1>3, <2>1, <2>2, <2>3 DEF SwapDone
<1> QED
  BY <1>1, <1>2, <1>4, <1>5, <1>6, VaultLeavesKiosk

(* pay never hands over a coin twice, and never one that make_change has    *)
(* sent to the kiosk: the coins leave the purse in the same save that puts  *)
(* the token into the outbox, or the swap into the state file. As long as   *)
(* recover --abandon was not used no request in flight can still take a     *)
(* coin from a payee who was given it, and none has.                        *)
THEOREM CoinsSpentOnce == Spec => []NeverSpentTwice
<1> DEFINE Paid == ~ abandoned => SpentByPayee
<1>1. Init => Paid
  BY DEF Init, InitVault, SpentByPayee, K!Secrets
<1>2. Base /\ CacheIsSigned /\ GivenAway /\ Sound /\ Paid /\ [Next]_vars
        => Paid'
  BY AbandonedForGood, SpentByPayeeStep DEF Sound
<1>3. Base /\ GivenAway /\ Sound /\ Paid => NeverSpentTwice
  <2> SUFFICES ASSUME Base, GivenAway, Sound, Paid PROVE NeverSpentTwice
    OBVIOUS
  <2>1. PendingIns(flash) = Ins /\ flash.proofs \subseteq vault.proofs
    BY DEF Base, MemoryAndFile, Ins, PendingIns
  <2>2. /\ handed \cap (flash.proofs \cup vault.proofs
                           \cup PendingIns(flash) \cup PendingIns(vault)) = {}
        /\ \A s, t \in vault.outbox : s # t => s \cap t = {}
    BY <2>1 DEF GivenAway, DisjointTokens, Ins
  <2>3. ASSUME ~ abandoned, NEW r \in net, InFlight(r)
        PROVE  r.ins \cap (handed \cup flash.proofs \cup vault.proofs) = {}
    <3>1. CASE r.ins = {}
      BY <3>1
    <3>2. CASE r.ins # {}
      <4>1. r.op = "swap" /\ CanRun(r)
        BY <2>3, <3>2 DEF InFlight, CanRun, K!Live, K!Secrets
      <4>2. r.ins = Ins
        BY <2>3, <4>1 DEF Sound, Swaps
      <4> QED BY <2>1, <4>2 DEF GivenAway
    <3> QED BY <3>1, <3>2
  <2> QED BY <2>2, <2>3 DEF NeverSpentTwice
<1> QED
  BY <1>1, <1>2, <1>3, BaseInit, BaseStep, GivenAwayInit, CacheStep,
     GivenAwayStep, SoundInit, SoundStep, PTL DEF Spec

(* Whatever the purse holds, in memory or in the file, the kiosk would      *)
(* take: no coin that make_change has spent stays or returns to the purse,  *)
(* unless the operator used recover --abandon.                              *)
THEOREM BalanceIsReal == Spec => []NoDeadCoins
<1>1. Base /\ GivenAway /\ Sound => NoDeadCoins
  <2> SUFFICES ASSUME Base, GivenAway, Sound, ~ abandoned,
                      NEW p \in vault.proofs
               PROVE  p \in K!Live
    BY DEF NoDeadCoins, Base, MemoryAndFile
  <2>1. p.secret \notin spent
    BY DEF Sound, Swaps, K!Secrets
  <2>2. p \in signed
    BY DEF GivenAway
  <2> QED BY <2>1, <2>2 DEF K!Live
<1> QED
  BY <1>1, BaseInit, BaseStep, GivenAwayInit, CacheStep, GivenAwayStep,
     SoundInit, SoundStep,
     PTL DEF Spec

(* A good token of this vault is in the purse, in the pending swap, with a  *)
(* payee, or one whose signature a topup could not save: a refused, lost or *)
(* interrupted swap loses nothing that recover cannot bring back.           *)
THEOREM NoTokenLost == Spec => []NothingLost
<1>1. Base /\ Sound => NothingLost
  <2>1. Base => PendingIns(flash) = Ins /\ PendingOuts(flash) = Outs
    BY DEF Base, MemoryAndFile, Ins, Outs, PendingIns, PendingOuts
  <2> QED BY <2>1 DEF Sound, NotLost, NothingLost
<1> QED
  BY <1>1, BaseInit, BaseStep, GivenAwayInit, CacheStep, GivenAwayStep,
     SoundInit, SoundStep,
     PTL DEF Spec

-----------------------------------------------------------------------------
(* How long an answer stays in the cache. *)

SwapStays ==
  ~ abandoned' /\ vault.pending # None /\ vault'.pending = vault.pending

(* The execution of the pending swap puts its answer at the end of the      *)
(* cache. From there it moves by one place with every later swap, and only  *)
(* when the cache is full.                                                  *)
AnswerLasts ==
  SwapStays =>
    /\ NotExecuted /\ ~ NotExecuted' => Len(swapCache') \in AnswerPlaces'
    /\ \A i \in AnswerPlaces :
         \/ i \in AnswerPlaces'
         \/ /\ Len(swapCache) = MaxSwapCache /\ swapCache' # swapCache
            /\ i = 1 \/ i - 1 \in AnswerPlaces'

(* A full cache forgets its oldest answer for a new one. *)
LEMMA EvictAges ==
  ASSUME NEW cache \in Seq(Entry), NEW e \in Entry, Len(cache) <= MaxSwapCache
  PROVE  LET new == K!Evict(Append(cache, e))
         IN  /\ Len(new) <= MaxSwapCache
             /\ Len(new) \in DOMAIN new /\ new[Len(new)] = e
             /\ \A i \in DOMAIN cache :
                  \/ i \in DOMAIN new /\ new[i] = cache[i]
                  \/ /\ Len(cache) = MaxSwapCache
                     /\ \/ i = 1
                        \/ i - 1 \in DOMAIN new /\ new[i - 1] = cache[i]
             /\ \/ /\ Len(new) = Len(cache) + 1
                   /\ \A j \in 1 .. Len(cache) : new[j] = cache[j]
                \/ /\ Len(cache) = MaxSwapCache /\ Len(new) = MaxSwapCache
                   /\ \A j \in 1 .. MaxSwapCache - 1 : new[j] = cache[j + 1]
<1> DEFINE all == Append(cache, e)
           new == K!Evict(all)
<1>1. /\ all \in Seq(Entry) /\ Len(all) = Len(cache) + 1 /\ Len(cache) \in Nat
      /\ \A i \in 1 .. Len(cache) : all[i] = cache[i]
      /\ all[Len(cache) + 1] = e
  BY AppendProperties
<1>2. DOMAIN cache = 1 .. Len(cache) /\ DOMAIN all = 1 .. (Len(cache) + 1)
  BY <1>1
<1>3. MaxSwapCache \in Nat \ {0}
  BY Denoms
<1> HIDE DEF all
<1>4. CASE Len(all) <= MaxSwapCache
  <2>1. new = all
    BY <1>4 DEF K!Evict
  <2> HIDE DEF new
  <2>2. Len(new) = Len(cache) + 1
    BY <1>1, <2>1
  <2>3. \A j \in 1 .. Len(cache) : new[j] = cache[j]
    BY <1>1, <2>1
  <2> QED BY <1>1, <1>2, <1>4, <2>1, <2>2, <2>3 DEF new, all
<1>5. CASE ~ (Len(all) <= MaxSwapCache)
  <2>0. Len(cache) = MaxSwapCache /\ Len(all) = MaxSwapCache + 1
    BY <1>1, <1>3, <1>5
  <2>1. new = SubSeq(all, 2, MaxSwapCache + 1)
    <3>1. Len(all) - MaxSwapCache + 1 = 2
      BY <1>3, <2>0
    <3> QED BY <1>5, <2>0, <3>1 DEF K!Evict
  <2> DEFINE m == 2
             n == MaxSwapCache + 1
             part == SubSeq(all, m, n)
  <2>2. part \in Seq(Entry) /\ Len(part) = MaxSwapCache
        /\ \A i \in 1 .. MaxSwapCache : part[i] = all[i + 1]
    <3>1. /\ m \in 1 .. Len(all) + 1 /\ n \in m - 1 .. Len(all)
          /\ m <= n /\ n - m + 1 = MaxSwapCache
          /\ \A i \in 1 .. MaxSwapCache : m + i - 1 = i + 1
      BY <1>3, <2>0
    <3> HIDE DEF m, n
    <3>2. /\ SubSeq(all, m, n) \in Seq(Entry)
          /\ Len(SubSeq(all, m, n)) = IF m <= n THEN n - m + 1 ELSE 0
          /\ \A i \in 1 .. n - m + 1 : SubSeq(all, m, n)[i] = all[m + i - 1]
      BY <1>1, <3>1, SubSeqProperties
    <3> QED BY <3>1, <3>2
  <2> HIDE DEF new
  <2>3. new \in Seq(Entry) /\ Len(new) = MaxSwapCache
    BY <2>1, <2>2
  <2>4. DOMAIN new = 1 .. MaxSwapCache
    BY <2>3
  <2>5. \A i \in 1 .. MaxSwapCache : new[i] = all[i + 1]
    BY <2>1, <2>2
  <2>6. new[MaxSwapCache] = e /\ MaxSwapCache \in 1 .. MaxSwapCache
    BY <1>1, <1>3, <2>0, <2>5
  <2>7. ASSUME NEW i \in DOMAIN cache, i # 1
        PROVE  i - 1 \in DOMAIN new /\ new[i - 1] = cache[i]
    <3>1. i \in 1 .. MaxSwapCache /\ i - 1 \in 1 .. MaxSwapCache
          /\ (i - 1) + 1 = i
      BY <1>2, <1>3, <2>0, <2>7
    <3> QED BY <1>1, <2>0, <2>4, <2>5, <3>1
  <2>8. \A j \in 1 .. MaxSwapCache - 1 : new[j] = cache[j + 1]
    <3> SUFFICES ASSUME NEW j \in 1 .. MaxSwapCache - 1
                 PROVE  new[j] = cache[j + 1]
      OBVIOUS
    <3>1. j \in 1 .. MaxSwapCache /\ j + 1 \in 1 .. MaxSwapCache
      BY <1>3
    <3> QED BY <1>1, <2>0, <2>5, <3>1
  <2> QED BY <1>3, <2>0, <2>3, <2>4, <2>6, <2>7, <2>8 DEF new, all
<1> QED BY <1>1, <1>4, <1>5

LEMMA CacheAges ==
  ASSUME Base, Len(swapCache) <= MaxSwapCache,
         NEW ins \in SUBSET Proof, NEW outs \in SUBSET Proof,
         SwapDone(ins, outs)
  PROVE  /\ Len(swapCache') <= MaxSwapCache
         /\ Len(swapCache') \in DOMAIN swapCache'
         /\ swapCache'[Len(swapCache')]
              = [ins |-> K!Secrets(ins), outs |-> outs]
         /\ \A i \in DOMAIN swapCache :
              \/ i \in DOMAIN swapCache' /\ swapCache'[i] = swapCache[i]
              \/ /\ Len(swapCache) = MaxSwapCache
                 /\ \/ i = 1
                    \/ /\ i - 1 \in DOMAIN swapCache'
                       /\ swapCache'[i - 1] = swapCache[i]
         /\ \/ /\ Len(swapCache') = Len(swapCache) + 1
               /\ \A j \in 1 .. Len(swapCache) : swapCache'[j] = swapCache[j]
            \/ /\ Len(swapCache) = MaxSwapCache
               /\ Len(swapCache') = MaxSwapCache
               /\ \A j \in 1 .. MaxSwapCache - 1 :
                    swapCache'[j] = swapCache[j + 1]
<1> DEFINE e == [ins |-> K!Secrets(ins), outs |-> outs]
<1>1. e \in Entry /\ swapCache \in Seq(Entry)
  BY CacheType DEF Base, Entry
<1>2. swapCache' = K!Evict(Append(swapCache, e))
  BY DEF SwapDone
<1> HIDE DEF e
<1> DEFINE new == K!Evict(Append(swapCache, e))
<1>3. /\ Len(new) <= MaxSwapCache
      /\ Len(new) \in DOMAIN new /\ new[Len(new)] = e
      /\ \A i \in DOMAIN swapCache :
           \/ i \in DOMAIN new /\ new[i] = swapCache[i]
           \/ /\ Len(swapCache) = MaxSwapCache
              /\ \/ i = 1
                 \/ i - 1 \in DOMAIN new /\ new[i - 1] = swapCache[i]
      /\ \/ /\ Len(new) = Len(swapCache) + 1
            /\ \A j \in 1 .. Len(swapCache) : new[j] = swapCache[j]
         \/ /\ Len(swapCache) = MaxSwapCache /\ Len(new) = MaxSwapCache
            /\ \A j \in 1 .. MaxSwapCache - 1 : new[j] = swapCache[j + 1]
  BY <1>1, EvictAges
<1>4. swapCache' = new
  BY <1>2
<1> HIDE DEF new
<1> QED BY <1>3, <1>4 DEF e

(* The cache stays within its bound. *)
LEMMA CacheBounded ==
  Base /\ CacheFits /\ [Next]_vars => CacheFits'
BY KioskStep, CacheAges DEF CacheFits

LEMMA AnswerLastsStep ==
  Base /\ CacheFits /\ CacheIsSigned /\ GivenAway /\ DrawnOnce /\ Swaps
    /\ [Next]_vars => AnswerLasts
<1> SUFFICES ASSUME Base, CacheFits, CacheIsSigned, GivenAway,
                    DrawnOnce, Swaps, [Next]_vars,
                    ~ abandoned', vault.pending # None,
                    vault'.pending = vault.pending
             PROVE  /\ NotExecuted /\ ~ NotExecuted'
                      => Len(swapCache') \in AnswerPlaces'
                    /\ \A i \in AnswerPlaces :
                         \/ i \in AnswerPlaces'
                         \/ /\ Len(swapCache) = MaxSwapCache
                            /\ swapCache' # swapCache
                            /\ i = 1 \/ i - 1 \in AnswerPlaces'
  BY DEF AnswerLasts, SwapStays
<1>1. Ins' = Ins /\ Outs' = Outs
  BY DEF Ins, Outs, PendingIns, PendingOuts
<1>2. \A i \in AnswerPlaces :
         \/ i \in AnswerPlaces'
         \/ /\ Len(swapCache) = MaxSwapCache
            /\ swapCache' # swapCache
            /\ i = 1 \/ i - 1 \in AnswerPlaces'
  <2>1. CASE UNCHANGED swapCache
    BY <1>1, <2>1 DEF AnswerPlaces
  <2>2. CASE ~ UNCHANGED swapCache
    <3>1. PICK ins \in SUBSET Proof,
               outs \in SUBSET Proof : SwapDone(ins, outs)
      BY <2>2, KioskStep
    <3>2. \A i \in DOMAIN swapCache :
              \/ i \in DOMAIN swapCache' /\ swapCache'[i] = swapCache[i]
              \/ /\ Len(swapCache) = MaxSwapCache
                 /\ \/ i = 1
                    \/ /\ i - 1 \in DOMAIN swapCache'
                       /\ swapCache'[i - 1] = swapCache[i]
      BY <3>1, CacheAges DEF CacheFits
    <3> QED BY <1>1, <2>2, <3>2 DEF AnswerPlaces
  <2> QED BY <2>1, <2>2
<1>3. NotExecuted /\ ~ NotExecuted' => Len(swapCache') \in AnswerPlaces'
  <2> SUFFICES ASSUME NotExecuted, ~ NotExecuted'
               PROVE  Len(swapCache') \in AnswerPlaces'
    OBVIOUS
  <2>0. ~ UNCHANGED <<signed, spent>>
    BY <1>1 DEF NotExecuted
  <2>1. CASE \E r \in net : KioskSwaps(r)
    <3>1. PICK r \in net : KioskSwaps(r)
      BY <2>1
    <3>2. /\ r.op = "swap" /\ r \in SwapRequests
          /\ SwapDone(r.ins, r.outs)
      BY <2>0, <3>1, KioskSwapsDoes DEF kioskVars
    <3>3. CanRun(r)
      BY <3>2 DEF SwapDone, CanRun
    <3>4. r.ins = Ins /\ r.outs = Outs
      BY <3>1, <3>2, <3>3 DEF Swaps
    <3>5. r.ins \in SUBSET Proof /\ r.outs \in SUBSET Proof
      BY <3>2 DEF SwapRequests
    <3>6. /\ Len(swapCache') \in DOMAIN swapCache'
          /\ swapCache'[Len(swapCache')]
               = [ins |-> K!Secrets(r.ins), outs |-> r.outs]
      BY <3>2, <3>5, CacheAges DEF CacheFits
    <3> QED BY <1>1, <3>4, <3>6 DEF AnswerPlaces
  <2>2. CASE \E r \in net : KioskSigns(r)
    <3>1. PICK r \in net : KioskSigns(r)
      BY <2>2
    <3>2. /\ r.op = "sign"
          /\ signed' = signed \cup {r.proof} /\ UNCHANGED spent
      BY <3>1, KioskSignsDoes
    <3>3. r.proof.secret \notin K!Secrets(Outs)
      BY <3>1, <3>2 DEF DrawnOnce
    <3>4. K!Secrets(Outs) \cap K!Secrets(signed \cup {r.proof}) = {}
      BY <3>3 DEF NotExecuted, K!Secrets
    <3>5. K!Secrets(Ins) \cap spent' = {}
      BY <3>2 DEF NotExecuted
    <3>6. K!Secrets(Ins') \cap spent' = {}
      BY <1>1, <3>5
    <3>7. K!Secrets(Outs') \cap K!Secrets(signed') = {}
      BY <1>1, <3>2, <3>4
    <3>8. NotExecuted'
      BY <3>6, <3>7 DEF NotExecuted, K!Secrets
    <3> QED BY <3>8
  <2>3. CASE \E p \in handed, m \in Merchant : PayeeSettles(p, m)
    <3>1. PICK p \in handed, m \in Merchant : PayeeSettles(p, m)
      BY <2>3
    <3>2. /\ p \in signed /\ spent' = spent \cup {p.secret}
          /\ UNCHANGED signed
      BY <3>1, PayeeSettlesDoes
    <3>3. p.secret \notin K!Secrets(Ins)
      BY <3>1, <3>2 DEF K!Secrets, DrawnOnce, GivenAway
    <3>4. NotExecuted'
      BY <1>1, <3>2, <3>3 DEF NotExecuted, K!Secrets
    <3> QED BY <3>4
  <2>4. CASE \E p \in signed, q \in Proof : OthersSwap(p, q)
    <3>1. PICK p \in signed, q \in Proof : OthersSwap(p, q)
      BY <2>4
    <3>2. /\ p.secret \notin Mine /\ q.secret \notin Mine
          /\ SwapDone({p}, {q})
      BY <3>1, OthersSwapDoes
    <3>3. K!Secrets(Ins) \subseteq Mine /\ K!Secrets(Outs) \subseteq Mine
      BY DEF DrawnOnce, K!Secrets
    <3>4. NotExecuted'
      BY <1>1, <3>2, <3>3 DEF SwapDone, NotExecuted, K!Secrets
    <3> QED BY <3>4
  <2> QED
    BY <2>0, <2>1, <2>2, <2>3, <2>4, VaultLeavesKiosk DEF kioskVars
<1> QED BY <1>2, <1>3

(* The answer that recover needs is the newest of the cache when the kiosk  *)
(* executes the swap, and no step but a further swap at a full cache brings *)
(* it nearer to eviction: it outlasts MaxSwapCache - 1 swaps of anyone      *)
(* after its own (maxSwapCache, the loop at the end of Swap).               *)
THEOREM AnswersLast == Spec => [][AnswerLasts]_vars
<1>1. Init => CacheFits
  BY Denoms DEF Init, InitKiosk, CacheFits
<1>2. Base /\ CacheIsSigned /\ GivenAway /\ Sound /\ CacheFits
        /\ [Next]_vars => [AnswerLasts]_vars
  <2>1. abandoned' => AnswerLasts
    BY DEF AnswerLasts, SwapStays
  <2> QED BY <2>1, AbandonedForGood, AnswerLastsStep DEF Sound
<1> QED
  BY <1>1, <1>2, BaseInit, BaseStep, GivenAwayInit, CacheStep, GivenAwayStep,
     SoundInit, SoundStep, CacheBounded, PTL
  DEF Spec

-----------------------------------------------------------------------------
(* The answer to a swap is still in the cache of the kiosk. *)

(* The answer survives a swap of another vault, or the whole cache is of    *)
(* other vaults by then.                                                    *)
LEMMA OthersLeaveAnswer ==
  ASSUME Base, CacheFits, AnswerKept, Ins' = Ins, Outs' = Outs,
         NEW ins \in SUBSET Proof, NEW outs \in SUBSET Proof,
         SwapDone(ins, outs), K!Secrets(ins) \cap Mine = {}
  PROVE  AnswerKept'
<1> DEFINE m == Len(swapCache')
<1>1. swapCache \in Seq(Entry) /\ swapCache' \in Seq(Entry)
  BY CacheType DEF Base, Entry
<1>2. /\ DOMAIN swapCache = 1 .. Len(swapCache) /\ Len(swapCache) \in Nat
      /\ DOMAIN swapCache' = 1 .. m /\ m \in Nat
      /\ MaxSwapCache \in Nat \ {0}
  BY <1>1, Denoms
<1>3. m <= MaxSwapCache /\ swapCache'[m].ins \cap Mine = {}
  <2>1. m <= MaxSwapCache
        /\ swapCache'[m] = [ins |-> K!Secrets(ins), outs |-> outs]
    BY CacheAges DEF CacheFits
  <2>2. swapCache'[m].ins = K!Secrets(ins)
    BY <2>1
  <2> HIDE DEF m
  <2> QED BY <2>1, <2>2
<1>4. CASE /\ m = Len(swapCache) + 1
           /\ \A j \in 1 .. Len(swapCache) : swapCache'[j] = swapCache[j]
  <2>0. Len(swapCache) # MaxSwapCache
    <3>1. /\ m \in Nat /\ Len(swapCache) \in Nat /\ MaxSwapCache \in Nat
          /\ m <= MaxSwapCache /\ m = Len(swapCache) + 1
      BY <1>2, <1>3, <1>4
    <3>2. \A x, y, z \in Nat : x <= z /\ x = y + 1 => y # z
      OBVIOUS
    <3> HIDE DEF m
    <3> QED BY <3>1, <3>2
  <2>1. PICK i \in AnswerPlaces : OthersAfter(i)
    BY <2>0 DEF AnswerKept
  <2>2. i \in AnswerPlaces'
    BY <1>2, <1>4 DEF AnswerPlaces
  <2>3. \A j \in 1 .. m : j > i => swapCache'[j].ins \cap Mine = {}
    BY <1>2, <1>3, <1>4, <2>1 DEF OthersAfter
  <2> QED BY <1>2, <2>2, <2>3 DEF AnswerKept, OthersAfter
<1>5. CASE /\ Len(swapCache) = MaxSwapCache /\ m = MaxSwapCache
           /\ \A j \in 1 .. MaxSwapCache - 1 :
                swapCache'[j] = swapCache[j + 1]
  <2>1. ASSUME NEW i \in Int, OthersAfter(i)
        PROVE  \A j \in 1 .. m : j > i - 1
                 => swapCache'[j].ins \cap Mine = {}
    <3> SUFFICES ASSUME NEW j \in 1 .. m, j > i - 1
                 PROVE  swapCache'[j].ins \cap Mine = {}
      OBVIOUS
    <3>1. CASE j = m
      BY <1>3, <3>1
    <3>2. CASE j # m
      <4>1. /\ j \in 1 .. MaxSwapCache - 1
            /\ j + 1 \in DOMAIN swapCache /\ j + 1 > i
        BY <1>2, <1>5, <3>2
      <4> QED BY <1>5, <2>1, <4>1 DEF OthersAfter
    <3> QED BY <3>1, <3>2
  <2>2. CASE OthersAfter(0) \/ OthersAfter(1)
    <3>1. \A j \in 1 .. m : j > 0 => swapCache'[j].ins \cap Mine = {}
      BY <1>2, <2>1, <2>2
    <3> QED BY <1>2, <1>5, <3>1 DEF AnswerKept, OthersAfter
  <2>3. CASE \E i \in AnswerPlaces : OthersAfter(i) /\ i # 1
    <3>1. PICK i \in AnswerPlaces : OthersAfter(i) /\ i # 1
      BY <2>3
    <3>2. i \in 1 .. MaxSwapCache /\ i - 1 \in 1 .. MaxSwapCache - 1
          /\ (i - 1) + 1 = i
      BY <1>2, <1>5, <3>1 DEF AnswerPlaces
    <3>3. i - 1 \in AnswerPlaces'
      BY <1>2, <1>5, <3>1, <3>2 DEF AnswerPlaces
    <3>4. \A j \in 1 .. m : j > i - 1 => swapCache'[j].ins \cap Mine = {}
      BY <2>1, <3>1, <3>2
    <3> QED BY <1>2, <3>3, <3>4 DEF AnswerKept, OthersAfter
  <2> QED BY <2>2, <2>3 DEF AnswerKept
<1> QED BY <1>4, <1>5, CacheAges DEF CacheFits

(* Every step keeps Cached. *)
LEMMA CachedStep ==
  ASSUME Base, CacheFits, CacheIsSigned, GivenAway, DrawnOnce, Swaps,
         [Next]_vars, ~ abandoned', Cached, ~ abandoned
  PROVE  Cached'
<1> SUFFICES ASSUME vault'.pending # None PROVE  NotExecuted' \/ AnswerKept'
  BY DEF Cached
<1>a. Idle.op = "idle"
  BY DEF Idle
<1>0. ASSUME UNCHANGED <<signed, spent, swapCache>>, Ins' = Ins, Outs' = Outs,
             vault.pending # None
      PROVE  NotExecuted' \/ AnswerKept'
  BY <1>0 DEF Cached, NotExecuted, AnswerKept, AnswerPlaces, OthersAfter
<1>V. ASSUME UNCHANGED <<kioskVars, vault>>
      PROVE  NotExecuted' \/ AnswerKept'
  BY <1>0, <1>V DEF kioskVars, Ins, Outs
<1>N. ASSUME NEW P, NEW O, NEW n, vault' = VaultOf(P, None, O, n) PROVE FALSE
  BY <1>N, Emptied
<1>1. ASSUME NEW a \in Amount, Topup(a)
        PROVE NotExecuted' \/ AnswerKept'
  BY <1>1, <1>V, TopupDoes
<1>2. ASSUME NEW p \in Proof, AskSignature(p) PROVE FALSE
  <2>1. vault' = VaultOf(vault.proofs, None, vault.outbox, vault.seq + 1)
    BY <1>2, AskDoes
  <2> QED BY <1>N, <2>1
<1>3. ASSUME TakeSignature PROVE FALSE
  <2>1. vault' = VaultOf(vault.proofs \cup {call.proof}, None, vault.outbox,
            vault.seq)
    BY <1>3, TakeSignatureDoes
  <2> QED BY <1>N, <2>1
<1>4. ASSUME MissSignature \/ LeavePending \/ Recover
      PROVE  NotExecuted' \/ AnswerKept'
  BY <1>4, <1>V DEF MissSignature, LeavePending, Recover
<1>5. ASSUME NEW S \in SUBSET vault.proofs, HandOver(S), vault.pending = None
        PROVE FALSE
  <2>1. CASE UNCHANGED vault
    BY <1>5, <2>1
  <2>2. CASE vault' = VaultOf(vault.proofs \ S, None, vault.outbox \cup {S},
                 vault.seq)
    BY <1>N, <2>2
  <2> QED BY <1>5, <2>1, <2>2, HandOverDoes
<1>6. ASSUME NEW a \in Amount, NEW l \in BOOLEAN, Pay(a, l) PROVE FALSE
  BY <1>5, <1>6, PayDoes
<1>7. ASSUME NEW a \in Amount, MakeChange(a)
        PROVE NotExecuted' \/ AnswerKept'
  <2>1. vault.pending = None
    BY <1>7, MakeChangeDoes
  <2>2. UNCHANGED vault \/ (call'.op = "swap" /\ call'.first
          /\ call'.answer = "none")
    BY <1>7, MakeChangeDoes
  <2>3. call'.op = "swap" /\ call'.first /\ call'.answer # "ok"
    BY <2>1, <2>2
  <2> QED BY <2>3, SwapsStep DEF Swaps
<1>8. ASSUME TakeSwap PROVE NotExecuted' \/ AnswerKept'
  <2>1. /\ UNCHANGED kioskVars
        /\ UNCHANGED vault \/ vault'
             = VaultOf(vault.proofs \cup Outs, None, vault.outbox, vault.seq)
    BY <1>8, TakeSwapDoes
  <2> QED BY <1>N, <1>V, <2>1
<1>9. ASSUME PayWithChange PROVE FALSE
  BY <1>5, <1>9, PayWithChangeDoes
<1>10. ASSUME RestoreInputs, vault.pending # None, UNCHANGED kioskVars
       PROVE  NotExecuted' \/ AnswerKept'
  <2>1. UNCHANGED vault \/ vault' = VaultOf(vault.proofs \cup Ins, None,
            vault.outbox, vault.seq)
    BY <1>10, RestoreDoes
  <2> QED BY <1>10, <1>N, <1>V, <2>1
<1>11. ASSUME AbandonRefused PROVE NotExecuted' \/ AnswerKept'
  BY <1>10, <1>11 DEF AbandonRefused, Base, MemoryAndFile
<1>14. ASSUME Abandon PROVE NotExecuted' \/ AnswerKept'
  BY <1>10, <1>14 DEF Abandon
<1>15. ASSUME NEW token \in vault.outbox, AckOutbox(token)
       PROVE  NotExecuted' \/ AnswerKept'
  <2>1. /\ UNCHANGED kioskVars
        /\ vault' = VaultOf(vault.proofs, vault.pending,
               vault.outbox \ {token}, vault.seq)
    BY <1>15, AckDoes
  <2>2. Ins' = Ins /\ Outs' = Outs /\ vault'.pending = vault.pending
    BY <2>1 DEF VaultOf, Ins, Outs, PendingIns, PendingOuts
  <2> QED BY <1>0, <2>1, <2>2 DEF kioskVars
<1>16. ASSUME Restart PROVE NotExecuted' \/ AnswerKept'
  BY <1>0, <1>16, RestartDoes DEF kioskVars
<1>17. ASSUME UNCHANGED vault, NotExecuted => NotExecuted',
              UNCHANGED swapCache
       PROVE  NotExecuted' \/ AnswerKept'
  <2>1. Ins' = Ins /\ Outs' = Outs
    BY <1>17 DEF Ins, Outs
  <2>2. AnswerKept => AnswerKept'
    BY <1>17, <2>1 DEF AnswerKept, AnswerPlaces, OthersAfter
  <2> QED BY <1>17, <2>2 DEF Cached
<1>18. ASSUME NEW r \in net, LoseRequest(r) \/ KioskRefuses(r)
       PROVE  NotExecuted' \/ AnswerKept'
  BY <1>18, <1>V DEF LoseRequest, KioskRefuses, Answered
<1>19. ASSUME NEW r \in net, KioskSigns(r)
         PROVE NotExecuted' \/ AnswerKept'
  <2>1. /\ r.op = "sign" /\ UNCHANGED vault
        /\ signed' = signed \cup {r.proof} /\ UNCHANGED <<spent, swapCache>>
    BY <1>19, KioskSignsDoes DEF Answered
  <2>2. Ins' = Ins /\ Outs' = Outs
    BY <2>1 DEF Ins, Outs
  <2>3. NotExecuted => NotExecuted'
    BY <2>1, <2>2 DEF DrawnOnce, NotExecuted, K!Secrets
  <2> QED BY <1>17, <2>1, <2>3
<1>20. ASSUME NEW r \in net, KioskSwaps(r)
         PROVE NotExecuted' \/ AnswerKept'
  <2>1. /\ r.op = "swap" /\ r \in SwapRequests /\ UNCHANGED vault
        /\ (SwapDone(r.ins, r.outs) \/ UNCHANGED kioskVars)
    BY <1>20, KioskSwapsDoes DEF Answered
  <2>2. CASE SwapDone(r.ins, r.outs)
    <3>1. CanRun(r)
      BY <2>2 DEF SwapDone, CanRun
    <3>2. r.ins = Ins /\ r.outs = Outs /\ Ins' = Ins /\ Outs' = Outs
      BY <2>1, <3>1 DEF Swaps, Ins, Outs
    <3>3. r.ins \in SUBSET Proof /\ r.outs \in SUBSET Proof
      BY <2>1 DEF SwapRequests
    <3>4. /\ Len(swapCache') \in DOMAIN swapCache'
          /\ swapCache'[Len(swapCache')]
               = [ins |-> K!Secrets(r.ins), outs |-> r.outs]
      BY <2>2, <3>3, CacheAges DEF CacheFits
    <3>5. Len(swapCache') \in AnswerPlaces'
      BY <3>2, <3>4 DEF AnswerPlaces
    <3>6. \A j \in DOMAIN swapCache' : ~ (j > Len(swapCache'))
      <4>1. swapCache' \in Seq(Entry)
        BY <2>2, <3>3, CacheType
      <4> QED BY <4>1
    <3> QED BY <3>5, <3>6 DEF AnswerKept, OthersAfter
  <2> QED BY <1>V, <2>1, <2>2
<1>22. ASSUME NEW p \in handed, NEW m \in Merchant, PayeeSettles(p, m)
       PROVE  NotExecuted' \/ AnswerKept'
  <2>1. /\ p \in signed /\ spent' = spent \cup {p.secret}
        /\ UNCHANGED <<signed, swapCache, vault>>
    BY <1>22, PayeeSettlesDoes
  <2>2. p.secret \notin K!Secrets(Ins)
    BY <2>1 DEF K!Secrets, DrawnOnce, GivenAway
  <2>3. NotExecuted => NotExecuted'
    BY <2>1, <2>2 DEF NotExecuted, K!Secrets, Ins, Outs
  <2> QED BY <1>17, <2>1, <2>3
<1>23. ASSUME NEW p \in signed, NEW q \in Proof, OthersSwap(p, q)
       PROVE  NotExecuted' \/ AnswerKept'
  <2>1. /\ p.secret \notin Mine /\ q.secret \notin Mine /\ SwapDone({p}, {q})
        /\ UNCHANGED vault
    BY <1>23, OthersSwapDoes
  <2>2. {p} \in SUBSET Proof /\ {q} \in SUBSET Proof
    BY DEF Base
  <2>3. Ins' = Ins /\ Outs' = Outs
    BY <2>1 DEF Ins, Outs
  <2>4. K!Secrets(Ins) \subseteq Mine /\ K!Secrets(Outs) \subseteq Mine
    BY DEF DrawnOnce, K!Secrets
  <2>5. NotExecuted => NotExecuted'
    BY <2>1, <2>3, <2>4 DEF SwapDone, NotExecuted, K!Secrets
  <2>6. K!Secrets({p}) \cap Mine = {}
    BY <2>1 DEF K!Secrets
  <2>7. AnswerKept => AnswerKept'
    BY <2>1, <2>2, <2>3, <2>6, OthersLeaveAnswer
  <2> QED BY <2>1, <2>5, <2>7 DEF Cached
<1>24. CASE UNCHANGED vars
  BY <1>24, <1>V DEF vars
<1> QED
  BY <1>1, <1>2, <1>3, <1>4, <1>6, <1>7, <1>8, <1>9, <1>11,
     <1>14, <1>15, <1>16, <1>18, <1>19, <1>20, <1>22, <1>23, <1>24
  DEF Next

(* recover re-sends the identical request and gets the same signatures: a   *)
(* pending swap that the kiosk has executed has its answer in the cache,    *)
(* unless the kiosk has answered a whole cache of swaps since, and all of   *)
(* them are of other vaults: nothing that this vault does in the meantime   *)
(* pushes its own answer out (make_change refuses while one is pending).    *)
THEOREM AnswersAreKept == Spec => []SwapRecoverable
<1>1. Base /\ CacheFits /\ CacheIsSigned /\ GivenAway /\ Sound /\ Cached
        /\ [Next]_vars => Cached'
  <2>1. abandoned' => Cached'
    BY DEF Cached
  <2> QED BY <2>1, AbandonedForGood, CachedStep DEF Sound
<1>2. Init => Cached /\ CacheFits
  BY Denoms DEF Init, InitVault, EmptyVault, InitKiosk, Cached, CacheFits
<1>3. Base /\ GivenAway /\ Sound /\ Cached => SwapRecoverable
  <2> SUFFICES ASSUME Base, GivenAway, Sound, Cached, ~ abandoned, Exchanged
               PROVE  \/ K!CachedSwap(flash.pending.ins, flash.pending.outs)
                      \/ /\ Len(swapCache) = MaxSwapCache
                         /\ \A i \in DOMAIN swapCache :
                              swapCache[i].ins \cap Mine = {}
    BY DEF SwapRecoverable
  <2>1. flash.pending = vault.pending /\ flash.pending.ins = Ins
          /\ flash.pending.outs = Outs /\ vault.pending # None
    BY PendingKinds DEF Base, MemoryAndFile, Ins, Outs, Exchanged
  <2>2. ~ NotExecuted
    BY <2>1 DEF GivenAway, NotExecuted, K!Live, K!Secrets, Exchanged
  <2>3. AnswerKept
    BY <2>1, <2>2 DEF Cached
  <2>4. CASE \E i \in AnswerPlaces : OthersAfter(i)
    BY <2>1, <2>4 DEF AnswerPlaces, K!CachedSwap
  <2>5. CASE Len(swapCache) = MaxSwapCache /\ OthersAfter(0)
    <3>1. \A i \in DOMAIN swapCache : i > 0
      BY DEF Base
    <3> QED BY <2>5, <3>1 DEF OthersAfter
  <2> QED BY <2>3, <2>4, <2>5 DEF AnswerKept
<1> QED
  BY <1>1, <1>2, <1>3, BaseInit, BaseStep, GivenAwayInit, CacheStep,
     GivenAwayStep, SoundInit, CacheBounded,
     SoundStep, PTL DEF Spec

-----------------------------------------------------------------------------
(* After a swap for change, the coins add up. *)

(* Every step keeps ChangeAddsUp. *)
LEMMA ChangeStep == Base /\ ChangeAddsUp /\ [Next]_vars => ChangeAddsUp'
<1> SUFFICES ASSUME Base, ChangeAddsUp, [Next]_vars PROVE ChangeAddsUp'
  OBVIOUS
<1>a. /\ K!Secrets(Outs) \cap Locked = {}
      /\ call.op = "swap" /\ call.pay # 0 => AddsUp(Outs, call.pay)
      /\ call.op = "pay" => AddsUp(Unlocked(vault.proofs), call.amount)
      /\ Idle.op = "idle"
  BY DEF ChangeAddsUp, Idle
<1>I. ASSUME Outs' \subseteq Outs, call'.op \notin {"swap", "pay"}
      PROVE  ChangeAddsUp'
  BY <1>I, <1>a DEF ChangeAddsUp, K!Secrets
<1>V. ASSUME UNCHANGED vault,
             \/ UNCHANGED call
             \/ call'.op \notin {"swap", "pay"}
             \/ call'.op = "swap" /\ (call'.pay = 0
                  \/ (call.op = "swap" /\ call'.pay = call.pay))
      PROVE  ChangeAddsUp'
  <2>1. Outs' = Outs
    BY <1>V DEF Outs
  <2> QED BY <1>V, <1>a, <2>1 DEF ChangeAddsUp
<1>1. ASSUME NEW a \in Amount, Topup(a) PROVE ChangeAddsUp'
  BY <1>1, <1>V, TopupDoes
<1>2. ASSUME NEW p \in Proof, AskSignature(p) PROVE ChangeAddsUp'
  <2>1. /\ vault' = VaultOf(vault.proofs, None, vault.outbox, vault.seq + 1)
        /\ call'.op \in {"sign", "idle"}
    BY <1>2, <1>a, AskDoes
  <2> QED BY <1>I, <2>1, Emptied
<1>3. ASSUME TakeSignature PROVE ChangeAddsUp'
  <2>1. /\ vault' = VaultOf(vault.proofs \cup {call.proof}, None, vault.outbox,
               vault.seq)
        /\ call' \in {Idle} \cup TopupCalls
    BY <1>3, TakeSignatureDoes
  <2>2. call'.op \in {"idle", "topup"}
    BY <2>1 DEF Idle, TopupCalls
  <2> QED BY <1>I, <2>1, <2>2, Emptied
<1>4. ASSUME MissSignature \/ LeavePending PROVE ChangeAddsUp'
  BY <1>4, <1>V, <1>a DEF MissSignature, LeavePending
<1>5. ASSUME NEW S \in SUBSET vault.proofs, HandOver(S), vault.pending = None,
             call' = Idle
      PROVE  ChangeAddsUp'
  <2>1. CASE UNCHANGED vault
    BY <1>5, <1>V, <1>a, <2>1
  <2>2. CASE vault' = VaultOf(vault.proofs \ S, None, vault.outbox \cup {S},
                 vault.seq)
    BY <1>5, <1>I, <1>a, <2>2, Emptied
  <2> QED BY <1>5, <2>1, <2>2, HandOverDoes
<1>6. ASSUME NEW a \in Amount, NEW l \in BOOLEAN, Pay(a, l) PROVE ChangeAddsUp'
  BY <1>5, <1>6, PayDoes
<1>7. ASSUME NEW a \in Amount, MakeChange(a) PROVE ChangeAddsUp'
  <2>1. PICK ins \in SUBSET Unlocked(vault.proofs),
             outs \in SUBSET [secret : Fresh \ Locked, amount : Denom] :
          /\ AddsUp(outs, a) /\ ins \subseteq Proof /\ outs \subseteq Proof
          /\ \/ UNCHANGED <<vault, flash, net, call>>
             \/ /\ vault' = VaultOf(vault.proofs \ ins,
                       [ins |-> ins, outs |-> outs],
                                    vault.outbox, vault.seq)
                /\ call'.op = "swap" /\ call'.pay = a
    BY <1>7, MakeChangeDoes
  <2>2. CASE UNCHANGED <<vault, flash, net, call>>
    BY <1>V, <2>2
  <2>3. CASE /\ vault' = VaultOf(vault.proofs \ ins,
                 [ins |-> ins, outs |-> outs],
                                    vault.outbox, vault.seq)
             /\ call'.op = "swap" /\ call'.pay = a
    <3>1. Outs' = outs
      <4>1. ins \in SUBSET Proof /\ outs \in SUBSET Proof
        BY <2>1
      <4> QED BY <2>3, <4>1, PurseNone DEF VaultOf, Outs, PendingOuts
    <3>2. K!Secrets(outs) \cap Locked = {}
      BY DEF K!Secrets
    <3> QED BY <2>1, <2>3, <3>1, <3>2 DEF ChangeAddsUp
  <2> QED BY <2>1, <2>2, <2>3
<1>8. ASSUME TakeSwap PROVE ChangeAddsUp'
  <2>1. /\ call.op = "swap"
        /\ \/ UNCHANGED vault /\ call' = Idle
           \/ /\ vault' = VaultOf(vault.proofs \cup Outs, None, vault.outbox,
                     vault.seq)
              /\ \/ call' = Idle
                 \/ call'.op = "pay" /\ call'.amount = call.pay /\ call.pay # 0
    BY <1>8, TakeSwapDoes
  <2>2. CASE UNCHANGED vault /\ call' = Idle
    BY <1>V, <1>a, <2>2
  <2>3. CASE vault' = VaultOf(vault.proofs \cup Outs, None, vault.outbox,
                 vault.seq) /\ call' = Idle
    BY <1>I, <1>a, <2>3, Emptied
  <2>4. CASE /\ vault' = VaultOf(vault.proofs \cup Outs, None, vault.outbox,
                 vault.seq)
             /\ call'.op = "pay" /\ call'.amount = call.pay /\ call.pay # 0
    <3>1. vault'.proofs = vault.proofs \cup Outs /\ Outs' = {}
      BY <2>4, Emptied
    <3>2. Outs \subseteq Unlocked(vault'.proofs)
      BY <1>a, <3>1 DEF Unlocked, K!Secrets
    <3>3. AddsUp(Unlocked(vault'.proofs), call.pay)
      BY <1>a, <2>1, <2>4, <3>2 DEF AddsUp
    <3>4. K!Secrets(Outs)' = {}
      BY <3>1 DEF K!Secrets
    <3>5. AddsUp(Unlocked(vault.proofs), call.amount)'
      BY <2>4, <3>3 DEF AddsUp, Unlocked
    <3> QED BY <2>4, <3>4, <3>5 DEF ChangeAddsUp
  <2> QED BY <2>1, <2>2, <2>3, <2>4
<1>9. ASSUME PayWithChange PROVE ChangeAddsUp'
  BY <1>5, <1>9, PayWithChangeDoes
<1>10. ASSUME RestoreInputs, vault.pending # None, call' = Idle
         PROVE ChangeAddsUp'
  <2>1. UNCHANGED vault \/ vault' = VaultOf(vault.proofs \cup Ins, None,
            vault.outbox, vault.seq)
    BY <1>10, RestoreDoes
  <2> QED BY <1>10, <1>I, <1>V, <1>a, <2>1, Emptied
<1>11. ASSUME AbandonRefused PROVE ChangeAddsUp'
  BY <1>10, <1>11 DEF AbandonRefused, Base, MemoryAndFile
<1>13. ASSUME Recover PROVE ChangeAddsUp'
  <2>1. UNCHANGED vault /\ call'.op = "swap" /\ call'.pay = 0
    BY <1>13, RecoverDoes
  <2> QED BY <1>V, <2>1
<1>14. ASSUME Abandon PROVE ChangeAddsUp'
  BY <1>10, <1>14 DEF Abandon
<1>15. ASSUME NEW token \in vault.outbox, AckOutbox(token) PROVE ChangeAddsUp'
  <2>1. /\ call = Idle /\ UNCHANGED call
        /\ vault' = VaultOf(vault.proofs, vault.pending,
               vault.outbox \ {token}, vault.seq)
    BY <1>15, AckDoes
  <2>2. Outs' = Outs
    BY <2>1 DEF VaultOf, Outs, PendingOuts
  <2> QED BY <1>I, <1>a, <2>1, <2>2
<1>16. ASSUME Restart PROVE ChangeAddsUp'
  <2>1. Outs' = Outs /\ call' = Idle
    BY <1>16, RestartDoes
  <2> QED BY <1>I, <1>a, <2>1
<1>17. ASSUME NEW r \in net, NEW a \in Answers, Answered(r, a)
         PROVE ChangeAddsUp'
  <2>1. /\ UNCHANGED vault
        /\ \/ UNCHANGED call
           \/ call'.op = "sign"
           \/ call.op = "swap" /\ call'.op = "swap" /\ call'.pay = call.pay
    BY <1>17, AnsweredDoes
  <2> QED BY <1>V, <2>1
<1>18. ASSUME NEW r \in net, LoseRequest(r) PROVE ChangeAddsUp'
  BY <1>18, <1>V DEF LoseRequest
<1>19. ASSUME NEW r \in net, KioskSigns(r) PROVE ChangeAddsUp'
  BY <1>17, <1>19 DEF KioskSigns, Answers
<1>20. ASSUME NEW r \in net, KioskSwaps(r) PROVE ChangeAddsUp'
  BY <1>17, <1>20 DEF KioskSwaps, Answers
<1>21. ASSUME NEW r \in net, KioskRefuses(r) PROVE ChangeAddsUp'
  BY <1>17, <1>21 DEF KioskRefuses, Answers
<1>22. ASSUME NEW p \in handed, NEW m \in Merchant, PayeeSettles(p, m)
         PROVE ChangeAddsUp'
  BY <1>22, <1>V DEF PayeeSettles
<1>23. ASSUME NEW p \in signed, NEW q \in Proof, OthersSwap(p, q)
         PROVE ChangeAddsUp'
  BY <1>23, <1>V DEF OthersSwap
<1>24. CASE UNCHANGED vars
  BY <1>24, <1>V DEF vars
<1> QED
  BY <1>1, <1>2, <1>3, <1>4, <1>6, <1>7, <1>8, <1>9, <1>11, <1>13,
     <1>14, <1>15, <1>16, <1>18, <1>19, <1>20, <1>21, <1>22, <1>23, <1>24
  DEF Next

(* pay asks for change once: after make_change the coins add up to the      *)
(* amount, so that the second selection succeeds.                           *)
THEOREM ChangeIsEnough == Spec => []ChangeSuffices
<1>1. Init => ChangeAddsUp
  <2> SUFFICES ASSUME Init PROVE ChangeAddsUp
    OBVIOUS
  <2>1. Outs = {} /\ call.op = "idle"
    BY DEF Init, InitVault, EmptyVault, Idle, Outs, PendingOuts
  <2> QED BY <2>1 DEF ChangeAddsUp, K!Secrets
<1>2. ChangeAddsUp => ChangeSuffices
  BY DEF ChangeAddsUp, AddsUp, ChangeSuffices, Adds
<1> QED
  BY <1>1, <1>2, BaseInit, BaseStep, ChangeStep, PTL DEF Spec

-----------------------------------------------------------------------------
(* Choosing coins: exact_subset, coin by coin, and what split_amount makes  *)
(* of an amount.                                                            *)

LEMMA ElementOf ==
  ASSUME NEW T, NEW s \in Seq(T)
  PROVE  /\ Len(s) \in Nat /\ DOMAIN s = 1 .. Len(s)
         /\ \A k \in DOMAIN s : s[k] \in T
OBVIOUS

LEMMA SeqOfPart ==
  ASSUME NEW T, NEW S, S \subseteq T, NEW s \in Seq(S)
  PROVE  s \in Seq(T)
<1>1. s \in [1 .. Len(s) -> S] /\ Len(s) \in Nat
  OBVIOUS
<1>2. s \in [1 .. Len(s) -> T]
  BY <1>1
<1> QED BY <1>1, <1>2, SeqDef

(* Putting an element in front of a sequence. *)
LEMMA PutInFront ==
  ASSUME NEW T, NEW c \in T, NEW rest \in Seq(T)
  PROVE  LET s == <<c>> \o rest
         IN  /\ s \in Seq(T) /\ Len(s) = Len(rest) + 1 /\ s[1] = c
             /\ \A i \in 1 .. Len(rest) : s[i + 1] = rest[i]
             /\ Range(s) = {c} \cup Range(rest)
             /\ DOMAIN s = 1 .. (Len(rest) + 1)
             /\ DOMAIN rest = 1 .. Len(rest) /\ Len(rest) \in Nat
<1> DEFINE a == <<c>>
           s == a \o rest
<1>1. a \in Seq(T) /\ Len(a) = 1 /\ a[1] = c /\ Range(a) = {c}
  BY DEF Range
<1> HIDE DEF a
<1>2. /\ s \in Seq(T) /\ Len(s) = Len(a) + Len(rest)
      /\ \A i \in 1 .. Len(a) + Len(rest) :
           s[i] = IF i <= Len(a) THEN a[i] ELSE rest[i - Len(a)]
  BY <1>1, ConcatProperties, Zenon
<1>3. Range(s) = Range(a) \cup Range(rest)
  BY <1>1, RangeConcatenation
<1>4. s = <<c>> \o rest
  BY DEF a
<1> HIDE DEF s
<1>5. /\ DOMAIN s = 1 .. (Len(rest) + 1) /\ Len(rest) \in Nat
      /\ DOMAIN rest = 1 .. Len(rest) /\ Len(s) = Len(rest) + 1
  BY <1>1, <1>2
<1>6. s[1] = c /\ \A i \in 1 .. Len(rest) : s[i + 1] = rest[i]
  BY <1>1, <1>2, <1>5
<1> QED
  BY <1>1, <1>2, <1>3, <1>4, <1>5, <1>6

(* A coin in front adds its value. *)
LEMMA TotalInFront ==
  ASSUME NEW c \in Nat, NEW rest \in Seq(Nat)
  PROVE  Total(<<c>> \o rest) = c + Total(rest)
<1> DEFINE s == <<c>> \o rest
           D == 2 .. (Len(rest) + 1)
           g == [j \in D |-> s[j]]
           r == [i \in 1 .. Len(rest) |-> i + 1]
<1>1. /\ s[1] = c /\ \A i \in 1 .. Len(rest) : s[i + 1] = rest[i]
      /\ DOMAIN s = 1 .. (Len(rest) + 1)
      /\ DOMAIN rest = 1 .. Len(rest) /\ Len(rest) \in Nat
  BY PutInFront
<1> HIDE DEF s
<1>2. r \in Bijection(DOMAIN rest, DOMAIN g)
  <2>1. r \in [1 .. Len(rest) -> D]
    BY <1>1
  <2>2. \A i, j \in 1 .. Len(rest) : r[i] = r[j] => i = j
    BY <1>1
  <2>3. \A k \in D : \E i \in 1 .. Len(rest) : r[i] = k
    <3> SUFFICES ASSUME NEW k \in D PROVE \E i \in 1 .. Len(rest) : r[i] = k
      OBVIOUS
    <3>1. k - 1 \in 1 .. Len(rest) /\ (k - 1) + 1 = k
      BY <1>1
    <3> QED BY <3>1
  <2>4. DOMAIN g = D
    OBVIOUS
  <2> HIDE DEF g, r, D
  <2> QED BY <1>1, <2>1, <2>2, <2>3, <2>4
          DEF Bijection, Injection, Surjection, IsInjective
<1>3. IsFiniteSet(DOMAIN rest)
  BY <1>1, FS_Interval
<1>4. \A i \in DOMAIN rest : rest[i] \in Nat /\ g[r[i]] = rest[i]
  <2> TAKE i \in DOMAIN rest
  <2>1. i \in 1 .. Len(rest) /\ r[i] = i + 1 /\ i + 1 \in D
    BY <1>1
  <2> QED BY <1>1, <2>1
<1>5. Total(g) = Total(rest)
  <2> HIDE DEF g, r
  <2> QED BY <1>2, <1>3, <1>4, TotalRenamed
<1>6. Total(s) = Total(g) + s[1]
  <2>1. DOMAIN g = D /\ IsFiniteSet(D) /\ 1 \notin D
    BY <1>1, FS_Interval
  <2>2. DOMAIN s = D \cup {1}
    BY <1>1
  <2>3. \A j \in D : s[j] = g[j] /\ g[j] \in Nat
    <3> TAKE j \in D
    <3>1. j - 1 \in 1 .. Len(rest) /\ (j - 1) + 1 = j
      BY <1>1
    <3>2. s[j] = rest[j - 1] /\ rest[j - 1] \in Nat
      BY <1>1, <1>4, <3>1
    <3> QED BY <3>2
  <2> HIDE DEF g, D
  <2>4. /\ IsFiniteSet(DOMAIN g) /\ DOMAIN s = DOMAIN g \cup {1}
        /\ 1 \notin DOMAIN g /\ s[1] \in Nat
        /\ \A j \in DOMAIN g : g[j] \in Nat
        /\ \A j \in DOMAIN g : s[j] = g[j]
    BY <1>1, <2>1, <2>2, <2>3
  <2> QED BY <2>4, TotalExtend, Zenon
<1>7. Total(rest) \in Nat
  BY <1>3, <1>4, UnitsFinite
<1> HIDE DEF g, D, r
<1> QED BY <1>1, <1>5, <1>6, <1>7 DEF s

(* The sums of some coins. *)
LEMMA SumOfNothing == SumOf({}) = 0
BY TotalEmpty DEF SumOf

LEMMA SumOfOneMore ==
  ASSUME values \in Seq(Denom), NEW S \in SUBSET DOMAIN values,
         NEW x \in DOMAIN values, x \notin S
  PROVE  /\ SumOf(S \cup {x}) = SumOf(S) + values[x]
         /\ SumOf(S) \in Nat /\ values[x] \in Nat \ {0}
<1> DEFINE f == [j \in S |-> values[j]]
           g == [j \in S \cup {x} |-> values[j]]
<1>1. /\ DOMAIN values = 1 .. Len(values) /\ Len(values) \in Nat
      /\ \A j \in DOMAIN values : values[j] \in Nat \ {0}
  <2>1. DOMAIN values = 1 .. Len(values) /\ Len(values) \in Nat
    OBVIOUS
  <2>2. \A j \in 1 .. Len(values) : values[j] \in Denom
    OBVIOUS
  <2> QED BY <2>1, <2>2, DenominationsAssumption
<1>2. IsFiniteSet(S)
  <2>1. IsFiniteSet(1 .. Len(values))
    BY <1>1, FS_Interval
  <2> QED BY <1>1, <2>1, FS_Subset
<1>3. \A j \in S : f[j] = g[j] /\ f[j] \in Nat
  BY <1>1
<1>4. DOMAIN f = S /\ DOMAIN g = S \cup {x} /\ g[x] = values[x]
  OBVIOUS
<1>5. g[x] \in Nat
  BY <1>1, <1>4
<1> HIDE DEF f, g
<1>6. Total(g) = Total(f) + g[x] /\ Total(f) \in Nat
  BY <1>2, <1>3, <1>4, <1>5, TotalExtend
<1> QED BY <1>1, <1>4, <1>6 DEF SumOf, f, g

(* The table: every sum but zero was made by adding a coin to a smaller sum, *)
(* a coin that was looked at after those of the smaller sum.                *)
Table ==
  /\ values \in Seq(Denom) /\ target \in 1 .. MaxTarget
  /\ looked \in 0 .. Len(values)
  /\ 0 \in DOMAIN reach /\ DOMAIN reach \subseteq 0 .. target
  /\ \A s \in DOMAIN reach \ {0} :
       /\ reach[s].sum \in DOMAIN reach
       /\ reach[s].coin \in 1 .. looked
       /\ s = reach[s].sum + values[reach[s].coin]
       /\ reach[s].sum # 0 => reach[reach[s].sum].coin < reach[s].coin

(* No sum of the coins looked at is missing. *)
AllSums ==
  \A S \in SUBSET (1 .. looked) : SumOf(S) <= target => SumOf(S) \in DOMAIN reach

LEMMA TableTypes ==
  ASSUME Table
  PROVE  /\ Len(values) \in Nat /\ DOMAIN values = 1 .. Len(values)
         /\ \A j \in 1 .. Len(values) : values[j] \in Denom /\ values[j] \in Nat \ {0}
         /\ MaxTarget \in Nat /\ target \in Nat \ {0} /\ looked \in Nat
<1>1. /\ values \in Seq(Denom) /\ target \in 1 .. MaxTarget
      /\ looked \in 0 .. Len(values)
  BY DEF Table
<1>2. Len(values) \in Nat /\ DOMAIN values = 1 .. Len(values)
  BY <1>1
<1>3. \A j \in 1 .. Len(values) : values[j] \in Denom
  BY <1>1
<1>4. MaxTarget \in Nat /\ Denom \subseteq Nat \ {0}
  BY DenominationsAssumption
<1>5. target \in Nat \ {0} /\ looked \in Nat
  BY <1>1, <1>2, <1>4
<1> QED BY <1>2, <1>3, <1>4, <1>5

LEMMA TableInit == SearchInit => Table /\ AllSums
<1> SUFFICES ASSUME SearchInit PROVE Table /\ AllSums
  OBVIOUS
<1>1. values \in Seq(Denom)
  <2>1. PICK n \in 0 .. MaxCoins : values \in [1 .. n -> Denom]
    BY DEF SearchInit
  <2>2. n \in Nat
    BY CoinsAssumption
  <2> QED BY <2>1, <2>2
<1>2. Len(values) \in Nat
  BY <1>1
<1>3. DOMAIN reach = {0} /\ looked = 0 /\ target \in 1 .. MaxTarget
  BY DEF SearchInit
<1>4. Table
  BY <1>1, <1>2, <1>3, DenominationsAssumption DEF Table
<1>5. AllSums
  <2> SUFFICES ASSUME NEW S \in SUBSET (1 .. looked)
               PROVE  SumOf(S) \in DOMAIN reach
    BY DEF AllSums
  <2>1. S = {}
    BY <1>3
  <2> QED BY <1>3, <2>1, SumOfNothing
<1> QED BY <1>4, <1>5

LEMMA TableStep ==
  ASSUME Table, Consider
  PROVE  Table'
<1> DEFINE v == values[looked + 1]
           found == {s + v : s \in DOMAIN reach} \cap (1 .. target)
<1>1. /\ looked < Len(values) /\ looked' = looked + 1
      /\ reach' = [s \in DOMAIN reach \cup found |->
                     IF s \in DOMAIN reach THEN reach[s]
                     ELSE [sum |-> s - v, coin |-> looked + 1]]
      /\ values' = values /\ target' = target
  BY DEF Consider
<1>2. v \in Nat \ {0} /\ looked + 1 \in 1 .. Len(values) /\ looked \in Nat
  BY <1>1, TableTypes
<1>3. DOMAIN reach' = DOMAIN reach \cup found
  BY <1>1
<1>4. 0 \in DOMAIN reach' /\ DOMAIN reach' \subseteq 0 .. target
  BY <1>3 DEF Table
<1>5. ASSUME NEW s \in DOMAIN reach' \ {0}
      PROVE  /\ reach'[s].sum \in DOMAIN reach'
             /\ reach'[s].coin \in 1 .. looked'
             /\ s = reach'[s].sum + values[reach'[s].coin]
             /\ reach'[s].sum # 0 => reach'[reach'[s].sum].coin < reach'[s].coin
  <2>1. CASE s \in DOMAIN reach
    <3>1. /\ reach[s].sum \in DOMAIN reach
          /\ reach[s].coin \in 1 .. looked
          /\ s = reach[s].sum + values[reach[s].coin]
          /\ reach[s].sum # 0 => reach[reach[s].sum].coin < reach[s].coin
      BY <1>5, <2>1 DEF Table
    <3>2. reach'[s] = reach[s] /\ reach'[reach[s].sum] = reach[reach[s].sum]
      <4> HIDE DEF found, v
      <4> QED BY <1>1, <2>1, <3>1
    <3> QED BY <1>1, <1>2, <1>3, <3>1, <3>2
  <2>2. CASE s \notin DOMAIN reach
    <3>1. s \in found
      BY <1>3, <1>5, <2>2
    <3>2. PICK r \in DOMAIN reach : s = r + v
      BY <3>1
    <3>3. r \in Nat /\ s - v = r
      BY <1>2, <3>2 DEF Table
    <3>4. reach'[s] = [sum |-> s - v, coin |-> looked + 1]
      <4> HIDE DEF found, v
      <4> QED BY <1>1, <2>2, <3>1
    <3>5. reach'[s].sum = r /\ reach'[s].coin = looked + 1
      BY <3>3, <3>4
    <3>6. r # 0 => reach'[r].coin < looked + 1
      <4> SUFFICES ASSUME r # 0 PROVE reach'[r].coin < looked + 1
        OBVIOUS
      <4>1. reach'[r] = reach[r]
        <5> HIDE DEF found, v
        <5> QED BY <1>1, <3>2
      <4>2. reach[r].coin \in 1 .. looked
        BY <3>2 DEF Table
      <4> QED BY <1>2, <4>1, <4>2
    <3>7. s = r + values[looked + 1]
      BY <3>2
    <3> HIDE DEF found, v
    <3> QED BY <1>1, <1>2, <1>3, <3>2, <3>5, <3>6, <3>7
  <2> QED BY <2>1, <2>2
<1>6. values' \in Seq(Denom) /\ target' \in 1 .. MaxTarget
      /\ looked' \in 0 .. Len(values')
  BY <1>1, <1>2, TableTypes DEF Table
<1> HIDE DEF found, v
<1> QED BY <1>1, <1>4, <1>5, <1>6 DEF Table

LEMMA AllSumsStep ==
  ASSUME Table, AllSums, Consider
  PROVE  AllSums'
<1> DEFINE v == values[looked + 1]
           found == {s + v : s \in DOMAIN reach} \cap (1 .. target)
           c == looked + 1
<1>1. /\ looked < Len(values) /\ looked' = looked + 1
      /\ DOMAIN reach' = DOMAIN reach \cup found
      /\ values' = values /\ target' = target
  BY DEF Consider
<1>2. v \in Nat \ {0} /\ c \in DOMAIN values /\ looked \in Nat /\ target \in Nat
  BY <1>1, TableTypes
<1>3. ASSUME NEW S \in SUBSET (1 .. c), SumOf(S) <= target
      PROVE  SumOf(S) \in DOMAIN reach \cup found
  <2>1. CASE c \notin S
    <3>1. S \in SUBSET (1 .. looked)
      BY <1>2, <2>1
    <3> QED BY <1>3, <3>1 DEF AllSums
  <2>2. CASE c \in S
    <3> DEFINE R == S \ {c}
    <3>1. R \in SUBSET (1 .. looked) /\ c \notin R /\ S = R \cup {c}
      BY <1>2, <2>2
    <3>2. R \in SUBSET DOMAIN values
      BY <1>1, <1>2, <3>1, TableTypes
    <3> HIDE DEF R
    <3>3. SumOf(S) = SumOf(R) + v /\ SumOf(R) \in Nat
      BY <1>2, <3>1, <3>2, SumOfOneMore DEF Table
    <3>4. SumOf(R) <= target
      BY <1>2, <1>3, <3>3
    <3>5. SumOf(R) \in DOMAIN reach
      BY <3>1, <3>4 DEF AllSums
    <3>6. SumOf(S) \in 1 .. target
      BY <1>2, <1>3, <3>3
    <3> QED BY <3>3, <3>5, <3>6
  <2> QED BY <2>1, <2>2
<1>4. \A S : SumOf(S)' = SumOf(S)
  BY <1>1 DEF SumOf
<1> HIDE DEF found, v
<1> QED BY <1>1, <1>3, <1>4 DEF AllSums

(* The way back exists: each step of it leads to a smaller sum.             *)
BackStep(f, s) == IF s = 0 THEN <<>> ELSE <<reach[s].coin>> \o f[reach[s].sum]
Below(m) == DOMAIN reach \cap (0 .. m)

LEMMA SumsDescend ==
  ASSUME Table, NEW s \in DOMAIN reach, s # 0
  PROVE  /\ s \in Nat /\ reach[s].sum \in DOMAIN reach
         /\ reach[s].sum \in 0 .. (s - 1)
         /\ reach[s].coin \in 1 .. Len(values)
         /\ s = reach[s].sum + values[reach[s].coin]
<1>1. /\ reach[s].sum \in DOMAIN reach /\ reach[s].coin \in 1 .. looked
      /\ s = reach[s].sum + values[reach[s].coin]
      /\ looked \in 0 .. Len(values)
  BY DEF Table
<1>2. reach[s].coin \in 1 .. Len(values)
  BY <1>1, TableTypes
<1>3. values[reach[s].coin] \in Nat \ {0}
  BY <1>2, TableTypes
<1>4. s \in Nat /\ reach[s].sum \in Nat
  BY <1>1, TableTypes DEF Table
<1> QED BY <1>1, <1>2, <1>3, <1>4

LEMMA WayBackExists ==
  ASSUME Table
  PROVE  \A m \in Nat : \E f : f = [s \in Below(m) |-> BackStep(f, s)]
<1> DEFINE T == {m \in Nat : \E f : f = [s \in Below(m) |-> BackStep(f, s)]}
<1>1. 0 \in T
  <2> DEFINE f == [s \in Below(0) |-> <<>>]
  <2>1. \A s \in Below(0) : BackStep(f, s) = <<>>
    BY DEF BackStep, Below
  <2>2. f = [s \in Below(0) |-> BackStep(f, s)]
    BY <2>1, Zenon
  <2> QED BY <2>2
<1>2. ASSUME NEW m \in Nat, m \in T PROVE m + 1 \in T
  <2>1. PICK f : f = [s \in Below(m) |-> BackStep(f, s)]
    BY <1>2
  <2> DEFINE g == [s \in Below(m + 1) |-> BackStep(f, s)]
  <2>2. \A s \in Below(m) : g[s] = f[s]
    <3> TAKE s \in Below(m)
    <3>1. s \in Below(m + 1)
      BY DEF Below
    <3>2. g[s] = BackStep(f, s)
      BY <3>1
    <3>3. f[s] = BackStep(f, s)
      BY <2>1, Zenon
    <3> QED BY <3>2, <3>3
  <2>3. \A s \in Below(m + 1) : BackStep(g, s) = BackStep(f, s)
    <3> TAKE s \in Below(m + 1)
    <3>1. CASE s = 0
      BY <3>1 DEF BackStep
    <3>2. CASE s # 0
      <4>1. /\ s \in Nat /\ s <= m + 1 /\ reach[s].sum \in DOMAIN reach
            /\ reach[s].sum \in 0 .. (s - 1)
        BY <3>2, SumsDescend DEF Below
      <4>2. reach[s].sum \in Below(m)
        BY <4>1 DEF Below
      <4>3. g[reach[s].sum] = f[reach[s].sum]
        BY <2>2, <4>2
      <4> HIDE DEF g
      <4> QED BY <4>3 DEF BackStep
    <3> QED BY <3>1, <3>2
  <2>4. g = [s \in Below(m + 1) |-> BackStep(g, s)]
    <3>1. [s \in Below(m + 1) |-> BackStep(g, s)]
            = [s \in Below(m + 1) |-> BackStep(f, s)]
      <4> HIDE DEF g
      <4> QED BY <2>3, Zenon
    <3> QED BY <3>1
  <2> HIDE DEF g
  <2> QED BY <2>4
<1> HIDE DEF T
<1>3. Nat \subseteq T
  BY <1>1, <1>2, NatSetInduction
<1> QED
  BY <1>3 DEF T

LEMMA ChosenRecurs ==
  ASSUME Table
  PROVE  \A s \in DOMAIN reach : Chosen[s] = BackStep(Chosen, s)
<1>1. Chosen = CHOOSE f : f = [s \in DOMAIN reach |-> BackStep(f, s)]
  BY DEF Chosen, BackStep
<1>2. Below(target) = DOMAIN reach
  BY DEF Below, Table
<1>3. \E f : f = [s \in DOMAIN reach |-> BackStep(f, s)]
  <2>1. \E f : f = [s \in Below(target) |-> BackStep(f, s)]
    BY TableTypes, WayBackExists
  <2> QED BY <1>2, <2>1
<1>4. Chosen = [s \in DOMAIN reach |-> BackStep(Chosen, s)]
  BY <1>1, <1>3
<1> QED
  BY <1>4, Zenon

(* The coins on the way back, in the order in which they are passed.        *)
Falling(c) == \A j, k \in DOMAIN c : j < k => c[j] > c[k]
WayBack(s) ==
  /\ Chosen[s] \in Seq(1 .. looked)
  /\ Falling(Chosen[s])
  /\ SumOf(Range(Chosen[s])) = s
  /\ IF s = 0 THEN Chosen[s] = <<>>
     ELSE \A j \in DOMAIN Chosen[s] : Chosen[s][j] <= reach[s].coin

LEMMA WayBackStep ==
  ASSUME Table, NEW s \in DOMAIN reach, s # 0, WayBack(reach[s].sum)
  PROVE  WayBack(s)
<1> DEFINE r == reach[s].sum
           c == reach[s].coin
           rest == Chosen[r]
           coins == Chosen[s]
<1>1. /\ c \in 1 .. looked /\ s = r + values[c] /\ r \in DOMAIN reach
      /\ r # 0 => reach[r].coin < c
      /\ values \in Seq(Denom) /\ looked \in Nat
  BY TableTypes DEF Table
<1>2. coins = <<c>> \o rest
  BY ChosenRecurs DEF BackStep
<1>3. rest \in Seq(1 .. looked) /\ Falling(rest) /\ SumOf(Range(rest)) = r
  BY DEF WayBack
<1>4. \A k \in DOMAIN rest : rest[k] < c
  <2> SUFFICES ASSUME NEW k \in DOMAIN rest PROVE rest[k] < c
    OBVIOUS
  <2>1. r # 0
    BY DEF WayBack
  <2>2. rest[k] <= reach[r].coin /\ reach[r].coin < c
    BY <1>1, <2>1 DEF WayBack
  <2>3. reach[r].coin \in 1 .. looked
    BY <1>1, <2>1 DEF Table
  <2>4. rest[k] \in 1 .. looked
    <3> HIDE DEF rest
    <3> QED BY <1>3, ElementOf
  <2> QED BY <1>1, <2>2, <2>3, <2>4
<1> HIDE DEF rest, coins, c, r
<1>5. /\ coins \in Seq(1 .. looked) /\ coins[1] = c
      /\ \A k \in 1 .. Len(rest) : coins[k + 1] = rest[k]
      /\ Range(coins) = {c} \cup Range(rest)
      /\ DOMAIN coins = 1 .. (Len(rest) + 1)
      /\ DOMAIN rest = 1 .. Len(rest) /\ Len(rest) \in Nat
  <2>1. \A T : \A e \in T : \A u \in Seq(T) :
          LET t == <<e>> \o u
          IN  /\ t \in Seq(T) /\ t[1] = e
              /\ \A k \in 1 .. Len(u) : t[k + 1] = u[k]
              /\ Range(t) = {e} \cup Range(u)
              /\ DOMAIN t = 1 .. (Len(u) + 1)
              /\ DOMAIN u = 1 .. Len(u) /\ Len(u) \in Nat
    BY PutInFront
  <2>2. c \in 1 .. looked /\ rest \in Seq(1 .. looked)
    BY <1>1, <1>3
  <2>3. coins \in Seq(1 .. looked) /\ coins[1] = c
    BY <1>2, <2>1, <2>2
  <2>4. \A k \in 1 .. Len(rest) : coins[k + 1] = rest[k]
    BY <1>2, <2>1, <2>2
  <2>5. Range(coins) = {c} \cup Range(rest)
    BY <1>2, <2>1, <2>2
  <2>6. DOMAIN coins = 1 .. (Len(rest) + 1)
    BY <1>2, <2>1, <2>2
  <2> QED BY <2>2, <2>3, <2>4, <2>5, <2>6
<1>6. \A j \in DOMAIN coins : j = 1 \/ (j - 1 \in 1 .. Len(rest) /\ coins[j] = rest[j - 1])
  <2> SUFFICES ASSUME NEW j \in 1 .. (Len(rest) + 1), j # 1
               PROVE  j - 1 \in 1 .. Len(rest) /\ coins[j] = rest[j - 1]
    BY <1>5
  <2>1. j - 1 \in 1 .. Len(rest) /\ (j - 1) + 1 = j
    BY <1>5
  <2> QED BY <1>5, <2>1
<1>7. \A k \in 1 .. Len(rest) : rest[k] \in Nat
  BY <1>1, <1>3, ElementOf
<1>8. Falling(coins)
  <2> SUFFICES ASSUME NEW j \in DOMAIN coins, NEW k \in DOMAIN coins, j < k
               PROVE  coins[j] > coins[k]
    BY DEF Falling
  <2>1. k # 1 /\ j \in Nat /\ k \in Nat
    BY <1>5
  <2>2. k - 1 \in 1 .. Len(rest) /\ coins[k] = rest[k - 1]
    BY <1>6, <2>1
  <2>3. CASE j = 1
    BY <1>1, <1>4, <1>5, <1>7, <2>2, <2>3
  <2>4. CASE j # 1
    <3>1. j - 1 \in 1 .. Len(rest) /\ coins[j] = rest[j - 1]
      BY <1>6, <2>4
    <3>2. j - 1 < k - 1
      BY <2>1
    <3>3. rest[j - 1] > rest[k - 1]
      BY <1>3, <1>5, <2>2, <3>1, <3>2 DEF Falling
    <3> QED BY <2>2, <3>1, <3>3
  <2> QED BY <2>3, <2>4
<1>9. \A j \in DOMAIN coins : coins[j] <= c
  <2> TAKE j \in DOMAIN coins
  <2>1. CASE j = 1
    BY <1>1, <1>5, <2>1
  <2>2. CASE j # 1
    BY <1>1, <1>4, <1>5, <1>6, <1>7, <2>2
  <2> QED BY <2>1, <2>2
<1>10. SumOf(Range(coins)) = s
  <2>1. Range(rest) \subseteq 1 .. looked
    BY <1>3, RangeOfSeq
  <2>2. c \notin Range(rest)
    BY <1>1, <1>4, <1>5, <1>7 DEF Range
  <2>3. Range(rest) \in SUBSET DOMAIN values /\ c \in DOMAIN values
    BY <1>1, <2>1, TableTypes DEF Table
  <2>4. SumOf(Range(rest) \cup {c}) = SumOf(Range(rest)) + values[c]
    BY <1>1, <2>2, <2>3, SumOfOneMore
  <2>5. Range(coins) = Range(rest) \cup {c}
    BY <1>5
  <2> QED BY <1>1, <1>3, <2>4, <2>5
<1> QED
  BY <1>5, <1>8, <1>9, <1>10 DEF WayBack, coins, c

LEMMA WaysBack ==
  ASSUME Table
  PROVE  \A s \in DOMAIN reach : WayBack(s)
<1> DEFINE T == {m \in Nat : \A s \in Below(m) : WayBack(s)}
<1>1. WayBack(0)
  <2>1. Chosen[0] = <<>>
    BY ChosenRecurs DEF BackStep, Table
  <2>2. Range(<<>>) = {}
    BY DEF Range
  <2>3. <<>> \in Seq(1 .. looked) /\ DOMAIN <<>> = {}
    OBVIOUS
  <2> QED BY <2>1, <2>2, <2>3, SumOfNothing DEF WayBack, Falling
<1>2. 0 \in T
  BY <1>1 DEF Below
<1>3. ASSUME NEW m \in Nat, m \in T PROVE m + 1 \in T
  <2> SUFFICES ASSUME NEW s \in Below(m + 1) PROVE WayBack(s)
    OBVIOUS
  <2>1. CASE s = 0
    BY <1>1, <2>1
  <2>2. CASE s # 0
    <3>1. /\ s \in DOMAIN reach /\ s \in Nat /\ s <= m + 1
          /\ reach[s].sum \in DOMAIN reach /\ reach[s].sum \in 0 .. (s - 1)
      BY <2>2, SumsDescend DEF Below
    <3>2. reach[s].sum \in Below(m)
      BY <3>1 DEF Below
    <3> QED BY <1>3, <2>2, <3>1, <3>2, WayBackStep
  <2> QED BY <2>1, <2>2
<1> HIDE DEF T
<1>4. target \in T
  BY <1>2, <1>3, NatSetInduction, TableTypes
<1> QED BY <1>4 DEF T, Below, Table

(* exact_subset, for any coins and any amount: every sum in the table is    *)
(* made of different coins of the purse, and when the search ends the       *)
(* amount is in the table exactly if some choice of coins makes it.         *)
THEOREM CoinsPayExactly == Search => []PaysExactly
<1>1. Table /\ [Consider]_searchVars => Table'
  <2>1. Table /\ UNCHANGED searchVars => Table'
    BY DEF Table, searchVars
  <2> QED BY <2>1, TableStep
<1>2. Table /\ AllSums /\ [Consider]_searchVars => AllSums'
  <2>1. AllSums /\ UNCHANGED searchVars => AllSums'
    BY DEF AllSums, searchVars, SumOf
  <2> QED BY <2>1, AllSumsStep
<1>3. Table /\ AllSums => PaysExactly
  <2> SUFFICES ASSUME Table, AllSums PROVE PaysExactly
    OBVIOUS
  <2>1. \A s \in DOMAIN reach : EachCoinOnce(s)
    <3> TAKE s \in DOMAIN reach
    <3>1. WayBack(s)
      BY WaysBack
    <3>2. Range(Chosen[s]) \subseteq 1 .. looked
      BY <3>1, RangeOfSeq DEF WayBack
    <3> QED BY <3>1, <3>2 DEF WayBack, Falling, EachCoinOnce
  <2>2. ASSUME target \in DOMAIN reach
        PROVE  \E S \in SUBSET DOMAIN values : SumOf(S) = target
    <3>1. EachCoinOnce(target)
      BY <2>1, <2>2
    <3>2. Range(Chosen[target]) \in SUBSET DOMAIN values
      BY <3>1, TableTypes DEF EachCoinOnce, Table
    <3> QED BY <3>1, <3>2 DEF EachCoinOnce
  <2>3. ASSUME looked = Len(values), NEW S \in SUBSET DOMAIN values, SumOf(S) = target
        PROVE  target \in DOMAIN reach
    <3>1. S \in SUBSET (1 .. looked)
      BY <2>3, TableTypes
    <3>2. target <= target
      BY TableTypes
    <3> QED BY <2>3, <3>1, <3>2 DEF AllSums
  <2> QED BY <2>1, <2>2, <2>3 DEF PaysExactly, Finished
<1> QED
  BY <1>1, <1>2, <1>3, TableInit, PTL DEF Search

-----------------------------------------------------------------------------
(* What split_amount returns adds up, whatever is on offer; and with a coin *)
(* of one on offer it never gets stuck.                                     *)
LEMMA SplitAdds ==
  ASSUME NEW avail, avail \subseteq Nat \ {0}
  PROVE  \A n \in 0 .. MaxTarget :
           IsSplit(Greedy(avail)[n]) =>
             /\ Greedy(avail)[n] \in Seq(avail)
             /\ Total(Greedy(avail)[n]) = n
<1> DEFINE G == Greedy(avail)
           Good(n) == IsSplit(G[n]) => G[n] \in Seq(avail) /\ Total(G[n]) = n
           T == {m \in Nat : \A n \in 0 .. m : n <= MaxTarget => Good(n)}
<1>1. MaxTarget \in Nat
  BY DenominationsAssumption
<1>2. Good(0)
  <2>1. 0 \in 0 .. MaxTarget
    BY <1>1
  <2>2. G[0] = <<>>
    BY <2>1, GreedyRecurs DEF GreedyStep
  <2>3. Total(<<>>) = 0
    BY TotalEmpty
  <2> HIDE DEF G
  <2> QED BY <2>2, <2>3
<1>3. ASSUME NEW m \in Nat, m \in T, m + 1 <= MaxTarget PROVE Good(m + 1)
  <2> DEFINE n == m + 1
  <2> SUFFICES ASSUME IsSplit(G[n]) PROVE G[n] \in Seq(avail) /\ Total(G[n]) = n
    OBVIOUS
  <2>1. n \in 1 .. MaxTarget
    BY <1>1, <1>3
  <2>2. PICK d \in avail : d \in 1 .. n /\ IsSplit(G[n - d]) /\ G[n] = <<d>> \o G[n - d]
    <3> HIDE DEF n
    <3> QED BY <2>1, SplitStep
  <2>3. n - d \in 0 .. m /\ n - d <= MaxTarget
    BY <1>1, <1>3, <2>2
  <2> HIDE DEF G
  <2>4. G[n - d] \in Seq(avail) /\ Total(G[n - d]) = n - d
    BY <1>3, <2>2, <2>3
  <2>5. G[n - d] \in Seq(Nat) /\ d \in Nat
    BY <2>4, SeqOfPart
  <2>6. Total(G[n]) = d + (n - d)
    BY <2>2, <2>4, <2>5, TotalInFront
  <2>7. <<d>> \o G[n - d] \in Seq(avail)
    BY <2>4, PutInFront
  <2> QED BY <2>1, <2>2, <2>5, <2>6, <2>7
<1>4. 0 \in T
  BY <1>2
<1>5. ASSUME NEW m \in Nat, m \in T PROVE m + 1 \in T
  BY <1>3, <1>5
<1> HIDE DEF T, Good, G
<1>6. Nat \subseteq T
  BY <1>4, <1>5, NatSetInduction
<1>7. MaxTarget \in T
  BY <1>1, <1>6
<1> QED
  BY <1>1, <1>7 DEF T, Good, G

LEMMA SplitWithOnes ==
  ASSUME NEW avail, avail \subseteq Nat \ {0}, 1 \in avail
  PROVE  \A n \in 0 .. MaxTarget :
           IsSplit(Greedy(avail)[n]) /\ Len(Greedy(avail)[n]) <= n
<1> DEFINE G == Greedy(avail)
           Good(n) == IsSplit(G[n]) /\ Len(G[n]) <= n
           T == {m \in Nat : \A n \in 0 .. m : n <= MaxTarget => Good(n)}
<1>1. MaxTarget \in Nat
  BY DenominationsAssumption
<1>2. Good(0)
  <2>1. 0 \in 0 .. MaxTarget
    BY <1>1
  <2>2. G[0] = <<>>
    BY <2>1, GreedyRecurs DEF GreedyStep
  <2> HIDE DEF G
  <2> QED BY <2>2 DEF IsSplit, NoSplit
<1>3. ASSUME NEW m \in Nat, m \in T, m + 1 <= MaxTarget PROVE Good(m + 1)
  <2> DEFINE n == m + 1
             d == Largest(Fitting(avail, n))
  <2>1. n \in 0 .. MaxTarget /\ n \in Nat /\ n # 0
    BY <1>1, <1>3
  <2>2. Fitting(avail, n) # {}
    BY <2>1 DEF Fitting
  <2>3. d \in avail /\ d \in 1 .. n
    <3> HIDE DEF n
    <3> QED BY <2>1, <2>2, LargestFits
  <2>4. n - d \in 0 .. m /\ n - d <= MaxTarget /\ n - d \in 0 .. MaxTarget
    BY <1>1, <1>3, <2>3
  <2>5. G[n] = GreedyStep(avail, G, n)
    BY <2>1, GreedyRecurs
  <2> HIDE DEF G
  <2>6. IsSplit(G[n - d]) /\ Len(G[n - d]) <= n - d
    BY <1>3, <2>4
  <2>7. G[n - d] \in Seq(avail)
    BY <2>4, <2>6, SplitAdds DEF G
  <2>8. G[n] = <<d>> \o G[n - d]
    <3> HIDE DEF n
    <3> QED BY <2>1, <2>2, <2>5, <2>6 DEF GreedyStep
  <2> HIDE DEF d
  <2>9. /\ Len(G[n]) = Len(G[n - d]) + 1 /\ G[n][1] = d
        /\ Len(G[n - d]) \in Nat
    BY <2>3, <2>7, <2>8, PutInFront
  <2>10. G[n] # NoSplit
    BY <2>3, <2>9 DEF NoSplit
  <2> QED BY <2>1, <2>3, <2>6, <2>9, <2>10 DEF IsSplit
<1>4. 0 \in T
  BY <1>2
<1>5. ASSUME NEW m \in Nat, m \in T PROVE m + 1 \in T
  BY <1>3, <1>5
<1> HIDE DEF T, Good, G
<1>6. Nat \subseteq T
  BY <1>4, <1>5, NatSetInduction
<1>7. MaxTarget \in T
  BY <1>1, <1>6
<1> QED
  BY <1>1, <1>7 DEF T, Good, G

(* How many coins an amount takes: taking the largest that fits is one coin *)
(* less, and taking any other is no better.                                 *)
Counts(C, f) ==
  /\ 1 \in C /\ C \subseteq Nat \ {0}
  /\ f \in [Nat -> Nat] /\ f[0] = 0
  /\ \A n \in Nat, e \in C : e <= n => f[n] <= f[n - e] + 1
  /\ \A n \in Nat, d \in C :
       d <= n /\ (\A e \in C : e <= n => e <= d) => f[n] = f[n - d] + 1

Ones == [n \in Nat |-> n]
Twos == [n \in Nat |-> (n \div 2) + (n % 2)]
UpToFour == [r \in 0 .. 4 |-> IF r = 0 THEN 0 ELSE IF r <= 2 THEN 1 ELSE 2]
Fives == [n \in Nat |-> (n \div 5) + UpToFour[n % 5]]

LEMMA OnesCount == Counts({1}, Ones)
BY DEF Counts, Ones

LEMMA TwosCount == Counts({1, 2}, Twos)
<1>1. /\ 1 \in {1, 2} /\ {1, 2} \subseteq Nat \ {0}
      /\ Twos \in [Nat -> Nat] /\ Twos[0] = 0
  BY DEF Twos
<1>2. \A n \in Nat : /\ 1 <= n => Twos[n] <= Twos[n - 1] + 1
                     /\ 2 <= n => Twos[n] = Twos[n - 2] + 1
                     /\ n = 1 => Twos[n] = Twos[n - 1] + 1
  <2> TAKE n \in Nat
  <2>1. Twos[n] = (n \div 2) + (n % 2)
    BY DEF Twos
  <2>2. 1 <= n => Twos[n - 1] = ((n - 1) \div 2) + ((n - 1) % 2)
    BY DEF Twos
  <2>3. 2 <= n => Twos[n - 2] = ((n - 2) \div 2) + ((n - 2) % 2)
    BY DEF Twos
  <2> QED BY <2>1, <2>2, <2>3
<1> QED
  BY <1>1, <1>2 DEF Counts

LEMMA FivesStep ==
  ASSUME NEW n \in Nat
  PROVE  /\ Fives[n] \in Nat
         /\ 1 <= n => Fives[n] <= Fives[n - 1] + 1
         /\ 2 <= n => Fives[n] <= Fives[n - 2] + 1
         /\ 5 <= n => Fives[n] = Fives[n - 5] + 1
         /\ n \in {2, 3, 4} => Fives[n] = Fives[n - 2] + 1
         /\ n = 1 => Fives[n] = Fives[n - 1] + 1
<1> DEFINE q == n \div 5
           r == n % 5
<1>1. q \in Nat /\ r \in 0 .. 4 /\ n = 5 * q + r
  OBVIOUS
<1>2. \A a \in Nat, b \in 0 .. 4 : (5 * a + b) \div 5 = a /\ (5 * a + b) % 5 = b
  OBVIOUS
<1>3. \A a \in Nat, b \in 0 .. 4 : Fives[5 * a + b] = a + UpToFour[b]
  <2> TAKE a \in Nat, b \in 0 .. 4
  <2>1. 5 * a + b \in Nat
    OBVIOUS
  <2>2. Fives[5 * a + b] = ((5 * a + b) \div 5) + UpToFour[(5 * a + b) % 5]
    BY <2>1 DEF Fives
  <2> QED BY <1>2, <2>2
<1> HIDE DEF q, r
<1>4. Fives[n] = q + UpToFour[r]
  BY <1>1, <1>3
<1>5. 5 <= n => Fives[n - 5] = (q - 1) + UpToFour[r]
  <2> SUFFICES ASSUME 5 <= n PROVE Fives[n - 5] = (q - 1) + UpToFour[r]
    OBVIOUS
  <2>1. q - 1 \in Nat /\ n - 5 = 5 * (q - 1) + r
    BY <1>1
  <2> QED BY <1>1, <1>3, <2>1
<1>6. ASSUME NEW k \in {1, 2}, k <= r
      PROVE  Fives[n - k] = q + UpToFour[r - k]
  <2>1. r - k \in 0 .. 4 /\ n - k = 5 * q + (r - k)
    BY <1>1, <1>6
  <2> QED BY <1>1, <1>3, <2>1
<1>7. ASSUME NEW k \in {1, 2}, r < k, k <= n
      PROVE  Fives[n - k] = (q - 1) + UpToFour[r + 5 - k] /\ q \in Nat \ {0}
  <2>1. q - 1 \in Nat /\ r + 5 - k \in 0 .. 4 /\ n - k = 5 * (q - 1) + (r + 5 - k)
    BY <1>1, <1>7
  <2>2. Fives[5 * (q - 1) + (r + 5 - k)] = (q - 1) + UpToFour[r + 5 - k]
    BY <1>3, <2>1
  <2> QED BY <1>1, <2>1, <2>2
<1>8. /\ UpToFour[0] = 0 /\ UpToFour[1] = 1 /\ UpToFour[2] = 1
      /\ UpToFour[3] = 2 /\ UpToFour[4] = 2
  BY DEF UpToFour
<1>9. r = 0 \/ r = 1 \/ r = 2 \/ r = 3 \/ r = 4
  BY <1>1
<1>10. Fives[n] \in Nat
  BY <1>1, <1>4, <1>8, <1>9
<1>11. 1 <= n => Fives[n] <= Fives[n - 1] + 1
  BY <1>1, <1>4, <1>6, <1>7, <1>8, <1>9
<1>12. 2 <= n => Fives[n] <= Fives[n - 2] + 1
  BY <1>1, <1>4, <1>6, <1>7, <1>8, <1>9
<1>13. 5 <= n => Fives[n] = Fives[n - 5] + 1
  BY <1>1, <1>4, <1>5, <1>8, <1>9
<1>14. n \in {2, 3, 4} => Fives[n] = Fives[n - 2] + 1
  BY <1>1, <1>4, <1>6, <1>8, <1>9
<1>15. n = 1 => Fives[n] = Fives[n - 1] + 1
  BY <1>1, <1>4, <1>6, <1>8, <1>9
<1> QED
  BY <1>10, <1>11, <1>12, <1>13, <1>14, <1>15

LEMMA FivesCount == Counts({1, 2, 5}, Fives)
<1>1. Fives \in [Nat -> Nat]
  BY FivesStep DEF Fives
<1>2. Fives[0] = 0
  BY DEF Fives, UpToFour
<1>3. ASSUME NEW n \in Nat, NEW e \in {1, 2, 5}, e <= n
      PROVE  Fives[n] <= Fives[n - e] + 1
  <2>1. e = 1 \/ e = 2 \/ e = 5
    OBVIOUS
  <2>2. Fives[n] \in Nat
    BY FivesStep
  <2> QED BY <1>3, <2>1, <2>2, FivesStep
<1>4. ASSUME NEW n \in Nat, NEW d \in {1, 2, 5}, d <= n,
             \A e \in {1, 2, 5} : e <= n => e <= d
      PROVE  Fives[n] = Fives[n - d] + 1
  <2>1. CASE d = 5
    BY <1>4, <2>1, FivesStep
  <2>2. CASE d = 2
    <3>1. n \in {2, 3, 4}
      BY <1>4, <2>2
    <3> QED BY <2>2, <3>1, FivesStep
  <2>3. CASE d = 1
    <3>1. n = 1
      BY <1>4, <2>3
    <3> QED BY <2>3, <3>1, FivesStep
  <2> QED BY <2>1, <2>2, <2>3
<1> QED
  BY <1>1, <1>2, <1>3, <1>4 DEF Counts

(* A series that starts 1, 2, 5 and goes on with ten times another series.  *)
Tenfold(C) == {1, 2, 5} \cup {10 * c : c \in C}
Tens(f) == [n \in Nat |-> f[n \div 10] + Fives[n % 10]]

LEMMA FivesSmall ==
  \A n \in Nat : \A e \in {1, 2, 5} : e <= n => Fives[n] <= Fives[n - e] + 1
BY FivesCount DEF Counts

(* Ten values: what a change of a ten costs when ones, twos or a five are  *)
(* taken first.                                                             *)
LEMMA FivesOfDigits ==
  /\ Fives[0] = 0 /\ Fives[1] = 1 /\ Fives[2] = 1 /\ Fives[3] = 2 /\ Fives[4] = 2
  /\ Fives[5] = 1 /\ Fives[6] = 2 /\ Fives[7] = 2 /\ Fives[8] = 3 /\ Fives[9] = 3
BY DEF Fives, UpToFour

LEMMA TensAt ==
  ASSUME NEW f, NEW q \in Nat, NEW r \in 0 .. 9
  PROVE  Tens(f)[10 * q + r] = f[q] + Fives[r]
<1>1. 10 * q + r \in Nat /\ (10 * q + r) \div 10 = q /\ (10 * q + r) % 10 = r
  OBVIOUS
<1>2. Tens(f)[10 * q + r]
        = f[(10 * q + r) \div 10] + Fives[(10 * q + r) % 10]
  BY <1>1 DEF Tens
<1> QED BY <1>1, <1>2

LEMMA TensType ==
  ASSUME NEW C, NEW f, Counts(C, f)
  PROVE  Tens(f) \in [Nat -> Nat] /\ Tens(f)[0] = 0
<1>1. \A n \in Nat : f[n \div 10] \in Nat /\ Fives[n % 10] \in Nat
  <2> TAKE n \in Nat
  <2>1. n \div 10 \in Nat /\ n % 10 \in Nat
    OBVIOUS
  <2>2. \A m \in Nat : f[m] \in Nat /\ Fives[m] \in Nat
    BY FivesStep DEF Counts
  <2> QED BY <2>1, <2>2
<1>2. Tens(f) \in [Nat -> Nat]
  BY <1>1 DEF Tens
<1>3. Tens(f)[10 * 0 + 0] = f[0] + Fives[0]
  BY TensAt
<1>4. f[0] = 0 /\ Fives[0] = 0
  BY FivesOfDigits DEF Counts
<1> QED BY <1>2, <1>3, <1>4

(* Taking a small coin from an amount that has to break a ten.              *)
LEMMA TensSmall ==
  ASSUME NEW C, NEW f, Counts(C, f),
         NEW n \in Nat, NEW e \in {1, 2, 5}, e <= n
  PROVE  Tens(f)[n] <= Tens(f)[n - e] + 1
<1> DEFINE q == n \div 10
           r == n % 10
<1>1. q \in Nat /\ r \in 0 .. 9 /\ n = 10 * q + r
  OBVIOUS
<1> HIDE DEF q, r
<1>2. Tens(f)[n] = f[q] + Fives[r]
  BY <1>1, TensAt
<1>3. f[q] \in Nat /\ Fives[r] \in Nat
  BY <1>1, FivesStep DEF Counts
<1>4. CASE e <= r
  <2>1. r - e \in 0 .. 9 /\ n - e = 10 * q + (r - e)
    BY <1>1, <1>4
  <2>2. Tens(f)[10 * q + (r - e)] = f[q] + Fives[r - e]
    BY <1>1, <2>1, TensAt
  <2>3. Fives[r] <= Fives[r - e] + 1
    <3>1. r \in Nat
      BY <1>1
    <3> QED BY <1>4, <3>1, FivesSmall
  <2>4. Fives[r - e] \in Nat
    BY <2>1, FivesStep
  <2> QED BY <1>2, <1>3, <2>1, <2>2, <2>3, <2>4
<1>5. CASE ~ (e <= r)
  <2>1. /\ q - 1 \in Nat /\ r + 10 - e \in 0 .. 9
        /\ n - e = 10 * (q - 1) + (r + 10 - e)
    BY <1>1, <1>5
  <2>2. Tens(f)[10 * (q - 1) + (r + 10 - e)] = f[q - 1] + Fives[r + 10 - e]
    BY <2>1, TensAt
  <2>3. f[q] <= f[q - 1] + 1
    <3>1. 1 \in C /\ 1 <= q
      BY <1>1, <2>1 DEF Counts
    <3> QED BY <1>1, <3>1 DEF Counts
  <2>4. Fives[r] <= Fives[r + 10 - e]
    <3>1. r = 0 \/ r = 1 \/ r = 2 \/ r = 3 \/ r = 4
      BY <1>1, <1>5
    <3>2. e = 1 \/ e = 2 \/ e = 5
      OBVIOUS
    <3> QED BY <1>5, <3>1, <3>2, FivesOfDigits
  <2>5. f[q - 1] \in Nat /\ Fives[r + 10 - e] \in Nat
    <3>1. r + 10 - e \in Nat
      BY <2>1
    <3>2. f \in [Nat -> Nat]
      BY DEF Counts
    <3> QED BY <2>1, <3>1, <3>2, FivesStep
  <2> QED BY <1>2, <1>3, <2>1, <2>2, <2>3, <2>4, <2>5
<1> QED BY <1>4, <1>5

LEMMA TensLarge ==
  ASSUME NEW C, NEW f, Counts(C, f),
         NEW n \in Nat, NEW c \in C, 10 * c <= n
  PROVE  /\ Tens(f)[n] <= Tens(f)[n - 10 * c] + 1
         /\ (\A b \in C : 10 * b <= n => b <= c)
               => Tens(f)[n] = Tens(f)[n - 10 * c] + 1
<1> DEFINE q == n \div 10
           r == n % 10
<1>1. q \in Nat /\ r \in 0 .. 9 /\ n = 10 * q + r
  OBVIOUS
<1> HIDE DEF q, r
<1>2. Tens(f)[n] = f[q] + Fives[r]
  BY <1>1, TensAt
<1>3. C \subseteq Nat \ {0}
  BY DEF Counts
<1>4. c <= q /\ q - c \in Nat /\ n - 10 * c = 10 * (q - c) + r
  BY <1>1, <1>3
<1>5. Tens(f)[10 * (q - c) + r] = f[q - c] + Fives[r]
  BY <1>1, <1>4, TensAt
<1>6. f[q] \in Nat /\ f[q - c] \in Nat /\ Fives[r] \in Nat
  BY <1>1, <1>4, FivesStep DEF Counts
<1>7. f[q] <= f[q - c] + 1
  BY <1>1, <1>4 DEF Counts
<1>8. ASSUME \A b \in C : 10 * b <= n => b <= c
      PROVE  f[q] = f[q - c] + 1
  <2>1. \A b \in C : b <= q => b <= c
    BY <1>1, <1>3, <1>8
  <2> QED BY <1>1, <1>4, <2>1 DEF Counts
<1> QED
  BY <1>2, <1>4, <1>5, <1>6, <1>7, <1>8

LEMMA TenfoldCounts ==
  ASSUME NEW C, NEW f, Counts(C, f)
  PROVE  Counts(Tenfold(C), Tens(f))
<1>1. C \subseteq Nat \ {0} /\ 1 \in C
  BY DEF Counts
<1>2. 1 \in Tenfold(C) /\ Tenfold(C) \subseteq Nat \ {0}
  BY <1>1 DEF Tenfold
<1>3. ASSUME NEW n \in Nat, NEW e \in Tenfold(C), e <= n
      PROVE  Tens(f)[n] <= Tens(f)[n - e] + 1
  BY <1>3, TensSmall, TensLarge DEF Tenfold
<1>4. ASSUME NEW n \in Nat, NEW d \in Tenfold(C), d <= n,
             \A e \in Tenfold(C) : e <= n => e <= d
      PROVE  Tens(f)[n] = Tens(f)[n - d] + 1
  <2>1. CASE d \in {1, 2, 5}
    <3>1. n \in 0 .. 9
      <4>1. 10 \in Tenfold(C)
        BY <1>1 DEF Tenfold
      <4> QED BY <1>4, <2>1, <4>1
    <3>2. \A e \in {1, 2, 5} : e <= n => e <= d
      BY <1>4 DEF Tenfold
    <3>3. Fives[n] = Fives[n - d] + 1
      BY <1>4, <2>1, <3>2, FivesCount DEF Counts
    <3>4. \A m \in 0 .. 9 : Tens(f)[m] = Fives[m]
      <4> TAKE m \in 0 .. 9
      <4>1. Tens(f)[10 * 0 + m] = f[0] + Fives[m]
        BY TensAt
      <4>2. f[0] = 0 /\ Fives[m] \in Nat
        BY FivesStep DEF Counts
      <4> QED BY <4>1, <4>2
    <3>5. n - d \in 0 .. 9
      BY <1>4, <2>1, <3>1
    <3> QED BY <3>1, <3>3, <3>4, <3>5
  <2>2. CASE \E c \in C : d = 10 * c
    <3>1. PICK c \in C : d = 10 * c
      BY <2>2
    <3>2. \A b \in C : 10 * b <= n => b <= c
      <4> SUFFICES ASSUME NEW b \in C, 10 * b <= n PROVE b <= c
        OBVIOUS
      <4>1. 10 * b <= 10 * c
        BY <1>4, <3>1 DEF Tenfold
      <4> QED BY <1>1, <4>1
    <3> QED BY <1>4, <3>1, <3>2, TensLarge
  <2> QED BY <2>1, <2>2 DEF Tenfold
<1> QED
  BY <1>2, <1>3, <1>4, TensType DEF Counts

(* The denominations that a kiosk signs, up to some largest one, are such a *)
(* series.                                                                  *)
SmallestDenominations == {{d \in KioskDenominations : d <= top} : top \in KioskDenominations}

LEMMA SeriesCounts ==
  ASSUME NEW C \in SmallestDenominations
  PROVE  \E f : Counts(C, f)
<1> DEFINE D1 == {1}
           D2 == {1, 2}
           D5 == {1, 2, 5}
           Has(S) == \E f : Counts(S, f)
<1>1. Has(D1) /\ Has(D2) /\ Has(D5)
  BY OnesCount, TwosCount, FivesCount
<1>2. \A S : Has(S) => Has(Tenfold(S))
  BY TenfoldCounts
<1>3. /\ Tenfold(D1) = {1, 2, 5, 10} /\ Tenfold(D2) = {1, 2, 5, 10, 20}
      /\ Tenfold(D5) = {1, 2, 5, 10, 20, 50}
  BY DEF Tenfold
<1>4. /\ Tenfold({1, 2, 5, 10}) = {1, 2, 5, 10, 20, 50, 100}
      /\ Tenfold({1, 2, 5, 10, 20}) = {1, 2, 5, 10, 20, 50, 100, 200}
      /\ Tenfold({1, 2, 5, 10, 20, 50}) = {1, 2, 5, 10, 20, 50, 100, 200, 500}
  BY DEF Tenfold
<1>5. PICK top \in KioskDenominations : C = {d \in KioskDenominations : d <= top}
  BY DEF SmallestDenominations
<1>6. CASE top = 1
  <2>1. C = D1
    BY <1>5, <1>6 DEF KioskDenominations
  <2> HIDE DEF Has
  <2> QED BY <1>1, <2>1 DEF Has
<1>7. CASE top = 2
  <2>1. C = D2
    BY <1>5, <1>7 DEF KioskDenominations
  <2> HIDE DEF Has
  <2> QED BY <1>1, <2>1 DEF Has
<1>8. CASE top = 5
  <2>1. C = D5
    BY <1>5, <1>8 DEF KioskDenominations
  <2> HIDE DEF Has
  <2> QED BY <1>1, <2>1 DEF Has
<1>9. CASE top = 10
  <2>1. C = Tenfold(D1)
    BY <1>3, <1>5, <1>9 DEF KioskDenominations
  <2> HIDE DEF Has
  <2> QED BY <1>1, <1>2, <2>1 DEF Has
<1>10. CASE top = 20
  <2>1. C = Tenfold(D2)
    BY <1>3, <1>5, <1>10 DEF KioskDenominations
  <2> HIDE DEF Has
  <2> QED BY <1>1, <1>2, <2>1 DEF Has
<1>11. CASE top = 50
  <2>1. C = Tenfold(D5)
    BY <1>3, <1>5, <1>11 DEF KioskDenominations
  <2> HIDE DEF Has
  <2> QED BY <1>1, <1>2, <2>1 DEF Has
<1>12. CASE top = 100
  <2>1. C = Tenfold(Tenfold(D1))
    BY <1>3, <1>4, <1>5, <1>12 DEF KioskDenominations
  <2> HIDE DEF Has
  <2> QED BY <1>1, <1>2, <2>1 DEF Has
<1>13. CASE top = 200
  <2>1. C = Tenfold(Tenfold(D2))
    BY <1>3, <1>4, <1>5, <1>13 DEF KioskDenominations
  <2> HIDE DEF Has
  <2> QED BY <1>1, <1>2, <2>1 DEF Has
<1>14. CASE top = 500
  <2>1. C = Tenfold(Tenfold(D5))
    BY <1>3, <1>4, <1>5, <1>14 DEF KioskDenominations
  <2> HIDE DEF Has
  <2> QED BY <1>1, <1>2, <2>1 DEF Has
<1> QED
  BY <1>5, <1>6, <1>7, <1>8, <1>9, <1>10, <1>11, <1>12, <1>13, <1>14
  DEF KioskDenominations

(* With such a series the split takes as many coins as are counted.         *)
LEMMA SplitTakes ==
  ASSUME NEW f, Counts(Denom, f)
  PROVE  \A n \in 0 .. MaxTarget :
           IsSplit(Greedy(Denom)[n]) /\ Len(Greedy(Denom)[n]) = f[n]
<1> DEFINE G == Greedy(Denom)
           T == {m \in Nat : \A n \in 0 .. m : n <= MaxTarget => Len(G[n]) = f[n]}
<1>1. MaxTarget \in Nat /\ Denom \subseteq Nat \ {0} /\ 1 \in Denom
  BY DenominationsAssumption DEF Counts
<1>2. \A n \in 0 .. MaxTarget : IsSplit(G[n])
  BY <1>1, SplitWithOnes
<1>3. Len(G[0]) = f[0]
  <2>1. 0 \in 0 .. MaxTarget
    BY <1>1
  <2>2. G[0] = <<>>
    BY <1>1, <2>1, GreedyRecurs DEF GreedyStep
  <2> HIDE DEF G
  <2> QED BY <2>2 DEF Counts
<1>4. ASSUME NEW m \in Nat, m \in T, m + 1 <= MaxTarget
      PROVE  Len(G[m + 1]) = f[m + 1]
  <2> DEFINE n == m + 1
  <2>1. n \in 1 .. MaxTarget /\ n \in 0 .. MaxTarget /\ n \in Nat
    BY <1>1, <1>4
  <2>2. IsSplit(G[n])
    BY <1>2, <2>1
  <2>3. PICK d \in Denom : /\ d \in 1 .. n /\ \A e \in Denom : e <= n => e <= d
                           /\ IsSplit(G[n - d]) /\ G[n] = <<d>> \o G[n - d]
    <3> HIDE DEF n
    <3> QED BY <1>1, <2>1, <2>2, SplitStep
  <2>4. n - d \in 0 .. m /\ n - d <= MaxTarget /\ n - d \in 0 .. MaxTarget
    BY <1>1, <1>4, <2>3
  <2>5. G[n - d] \in Seq(Denom)
    BY <1>1, <2>3, <2>4, SplitAdds
  <2> HIDE DEF G
  <2>6. Len(G[n]) = Len(G[n - d]) + 1
    BY <2>3, <2>5, PutInFront
  <2>7. f[n] = f[n - d] + 1
    <3> HIDE DEF n
    <3> QED BY <2>1, <2>3 DEF Counts
  <2> QED BY <1>4, <2>4, <2>6, <2>7
<1>5. 0 \in T
  BY <1>3
<1>6. ASSUME NEW m \in Nat, m \in T PROVE m + 1 \in T
  BY <1>4, <1>6
<1> HIDE DEF T, G
<1>7. MaxTarget \in T
  BY <1>1, <1>5, <1>6, NatSetInduction
<1> QED
  BY <1>1, <1>2, <1>7 DEF T, G

(* No choice of coins is smaller than that.                                 *)
LEMMA NoFewerCoins ==
  ASSUME NEW f, Counts(Denom, f), values \in Seq(Denom)
  PROVE  \A S \in SUBSET DOMAIN values :
           f[SumOf(S)] <= Cardinality(S) /\ Cardinality(S) \in Nat
<1> DEFINE T == {k \in Nat : \A S \in SUBSET DOMAIN values :
                   Cardinality(S) = k => f[SumOf(S)] <= k}
<1>1. IsFiniteSet(DOMAIN values)
  <2>1. DOMAIN values = 1 .. Len(values) /\ Len(values) \in Nat
    BY ElementOf
  <2> QED BY <2>1, FS_Interval
<1>2. \A S \in SUBSET DOMAIN values : IsFiniteSet(S) /\ Cardinality(S) \in Nat
  BY <1>1, FS_Subset, FS_CardinalityType
<1>3. 0 \in T
  <2> SUFFICES ASSUME NEW S \in SUBSET DOMAIN values, Cardinality(S) = 0
               PROVE  f[SumOf(S)] <= 0
    OBVIOUS
  <2>1. S = {}
    BY <1>2, FS_EmptySet
  <2> QED BY <2>1, SumOfNothing DEF Counts
<1>4. ASSUME NEW k \in Nat, k \in T PROVE k + 1 \in T
  <2> SUFFICES ASSUME NEW S \in SUBSET DOMAIN values, Cardinality(S) = k + 1
               PROVE  f[SumOf(S)] <= k + 1
    OBVIOUS
  <2>1. PICK x \in S : TRUE
    BY <1>2, FS_EmptySet
  <2> DEFINE R == S \ {x}
  <2>2. R \in SUBSET DOMAIN values /\ x \notin R /\ S = R \cup {x} /\ x \in DOMAIN values
    OBVIOUS
  <2>3. Cardinality(R) = k
    BY <1>2, <2>1, FS_RemoveElement
  <2> HIDE DEF R
  <2>4. /\ SumOf(S) = SumOf(R) + values[x]
        /\ SumOf(R) \in Nat /\ values[x] \in Nat \ {0}
    BY <2>2, SumOfOneMore
  <2>5. values[x] \in Denom
    BY <2>2, ElementOf
  <2>6. f[SumOf(S)] <= f[SumOf(R)] + 1
    <3>1. SumOf(S) \in Nat /\ values[x] <= SumOf(S) /\ SumOf(S) - values[x] = SumOf(R)
      BY <2>4
    <3> QED BY <2>5, <3>1 DEF Counts
  <2>7. f[SumOf(R)] <= k
    BY <1>4, <2>2, <2>3
  <2>8. f[SumOf(R)] \in Nat /\ f[SumOf(S)] \in Nat
    <3>1. f \in [Nat -> Nat]
      BY DEF Counts
    <3>2. SumOf(R) \in Nat /\ SumOf(S) \in Nat
      BY <2>4
    <3> QED BY <3>1, <3>2
  <2> QED BY <2>6, <2>7, <2>8
<1> HIDE DEF T
<1>5. Nat \subseteq T
  BY <1>3, <1>4, NatSetInduction
<1> QED
  BY <1>2, <1>5 DEF T

(* split_amount, for any amount: what it returns is exact and within the    *)
(* limit, whatever is on offer; and with the denominations that a kiosk     *)
(* signs it refuses no amount that some choice of coins makes within the    *)
(* limit, since the largest first takes the fewest coins.                   *)
THEOREM SplitsAreShortest ==
  Denom \in SmallestDenominations => (Search => []SplitsWhatCanBeSplit)
<1> SUFFICES ASSUME Denom \in SmallestDenominations
             PROVE  Search => []SplitsWhatCanBeSplit
  OBVIOUS
<1>1. Table /\ [Consider]_searchVars => Table'
  <2>1. Table /\ UNCHANGED searchVars => Table'
    BY DEF Table, searchVars
  <2> QED BY <2>1, TableStep
<1>2. Table => SplitsWhatCanBeSplit
  <2> SUFFICES ASSUME Table PROVE SplitsWhatCanBeSplit
    OBVIOUS
  <2> DEFINE avail == Range(values)
  <2>1. avail \subseteq Denom /\ Denom \subseteq Nat \ {0}
    BY RangeOfSeq, DenominationsAssumption DEF Table
  <2>2. target \in 0 .. MaxTarget /\ target \in Nat /\ MaxSplitProofs \in Nat
    BY TableTypes, DenominationsAssumption DEF Table
  <2>3. ASSUME IsSplit(Split(target, avail))
        PROVE  /\ Range(Split(target, avail)) \subseteq avail
               /\ Len(Split(target, avail)) <= MaxSplitProofs
               /\ Total(Split(target, avail)) = target
    <3> DEFINE s == Greedy(avail)[target]
    <3>1. ~ (Len(s) > MaxSplitProofs) /\ Split(target, avail) = s
      BY <2>3 DEF Split, IsSplit
    <3> HIDE DEF avail
    <3>2. s \in Seq(avail) /\ Total(s) = target
      BY <2>1, <2>2, <2>3, <3>1, SplitAdds
    <3> HIDE DEF s
    <3>3. Range(s) \subseteq avail /\ Len(s) \in Nat
      BY <3>2, RangeOfSeq
    <3> QED BY <2>2, <3>1, <3>2, <3>3
  <2>4. ASSUME 1 \in avail, target <= MaxSplitProofs
        PROVE  IsSplit(Split(target, avail))
    <3> HIDE DEF avail
    <3> DEFINE s == Greedy(avail)[target]
    <3>1. avail \subseteq Nat \ {0}
      BY <2>1
    <3>2. IsSplit(s) /\ Len(s) <= target
      BY <2>2, <2>4, <3>1, SplitWithOnes
    <3>3. s \in Seq(avail)
      BY <2>2, <3>1, <3>2, SplitAdds
    <3> HIDE DEF s
    <3>4. ~ (Len(s) > MaxSplitProofs)
      BY <2>2, <2>4, <3>2, <3>3, ElementOf
    <3> QED BY <3>2, <3>4 DEF Split, s
  <2>5. ASSUME NEW S \in SUBSET DOMAIN values, SumOf(S) = target,
               Cardinality(S) <= MaxSplitProofs
        PROVE  IsSplit(Split(target, Denom))
    <3> DEFINE s == Greedy(Denom)[target]
    <3>1. PICK f : Counts(Denom, f)
      BY SeriesCounts
    <3>2. IsSplit(s) /\ Len(s) = f[target]
      BY <2>2, <3>1, SplitTakes
    <3>3. f[target] <= Cardinality(S) /\ Cardinality(S) \in Nat
      BY <2>5, <3>1, NoFewerCoins DEF Table
    <3>4. f[target] \in Nat
      BY <2>2, <3>1 DEF Counts
    <3> HIDE DEF s
    <3>5. ~ (Len(s) > MaxSplitProofs)
      BY <2>2, <2>5, <3>2, <3>3, <3>4
    <3> QED BY <3>2, <3>5 DEF Split, s
  <2> QED BY <2>3, <2>4, <2>5 DEF SplitsWhatCanBeSplit, SplitIsExact
<1> QED
  BY <1>1, <1>2, TableInit, PTL DEF Search

-----------------------------------------------------------------------------
(* The vault and the kiosk together: whatever the vault, the network, the   *)
(* payees and the other vaults do, the kiosk takes steps of Kiosk only, so  *)
(* that all that KioskProofs says of its books holds here too.              *)
Books == INSTANCE KioskProofs

(* Both instances of Kiosk count and sum alike. *)
LEMMA Sums ==
  ASSUME NEW S
  PROVE  /\ K!Value(S) = Value(S) /\ K!Total(S) = Total(S)
         /\ K!Cardinality(S) = Cardinality(S)
         /\ K!IsFiniteSet(S) = IsFiniteSet(S)
         /\ Books!Value(S) = Value(S) /\ Books!Total(S) = Total(S)
         /\ Books!Cardinality(S) = Cardinality(S)
         /\ Books!IsFiniteSet(S) = IsFiniteSet(S)
BY DEF K!Value, K!Total, K!Units, K!Amounts, K!Cardinality,
       Books!Value, Books!Total, Books!Units, Books!Amounts, Books!Cardinality,
       Value, Total, Units, Amounts, Cardinality,
       K!IsFiniteSet, Books!IsFiniteSet, IsFiniteSet

LEMMA BooksAssumption == Books!KioskAssumption
BY PurseKiosk, Sums DEF K!KioskAssumption, Books!KioskAssumption

(* They have the same operations. *)
LEMMA SameOperations == K!Next => Books!Next
<1> USE DEF K!deviceVars, Books!deviceVars, K!Proof, Books!Proof,
    K!Payee, Books!Payee
<1> SUFFICES ASSUME K!Next PROVE Books!Next
  OBVIOUS
<1>0. /\ \A S : K!Secrets(S) = Books!Secrets(S) /\ K!Refs(S) = Books!Refs(S)
      /\ \A p : K!CheckProof(p) = Books!CheckProof(p)
      /\ \A p : K!Swappable(p) = Books!Swappable(p)
      /\ \A c : K!Evict(c) = Books!Evict(c)
      /\ \A n, a : K!Deduct(n, a) = Books!Deduct(n, a)
      /\ \A log, M : K!For(log, M) = Books!For(log, M)
  BY DEF K!Secrets, Books!Secrets, K!Refs, Books!Refs, K!Swappable,
     Books!Swappable, K!CheckProof, Books!CheckProof, K!Evict, Books!Evict,
     K!Deduct, Books!Deduct, K!For, Books!For
<1>1. ASSUME NEW ref, NEW a, K!Deposit(ref, a) PROVE Books!Deposit(ref, a)
  BY <1>0, <1>1 DEF K!Deposit, Books!Deposit
<1>2. ASSUME NEW dev, NEW a, NEW ref, K!AllocateDevice(dev, a, ref)
      PROVE  Books!AllocateDevice(dev, a, ref)
  BY <1>2, Sums DEF K!AllocateDevice, Books!AllocateDevice
<1>3. ASSUME NEW p, K!BlindSignNoSave(p) PROVE Books!BlindSignNoSave(p)
  BY <1>3, Sums DEF K!BlindSignNoSave, Books!BlindSignNoSave, K!Covered,
     Books!Covered, K!OwedTotal, Books!OwedTotal
<1>4. ASSUME NEW p, K!BlindSign(p) PROVE Books!BlindSign(p)
  BY <1>3, <1>4 DEF K!BlindSign, Books!BlindSign
<1>5. ASSUME NEW dev, NEW seq, NEW p, K!SignForDevice(dev, seq, p)
      PROVE  Books!SignForDevice(dev, seq, p)
  BY <1>3, <1>5 DEF K!SignForDevice, Books!SignForDevice, K!WithinQuota,
     Books!WithinQuota
<1>6. ASSUME NEW p, NEW m, NEW c, K!SettleFor(p, m, c)
      PROVE  Books!SettleFor(p, m, c)
  BY <1>0, <1>6, Sums DEF K!SettleFor, Books!SettleFor
<1>7. ASSUME NEW ins, NEW outs, K!Swap(ins, outs) PROVE Books!Swap(ins, outs)
  <2>1. /\ K!CachedSwap(ins, outs) = Books!CachedSwap(ins, outs)
        /\ K!Balanced(ins, outs) = Books!Balanced(ins, outs)
    BY <1>0, Sums DEF K!CachedSwap, Books!CachedSwap, K!Balanced, Books!Balanced
  <2> QED
    BY <1>0, <1>7, <2>1 DEF K!Swap, Books!Swap
<1>8. ASSUME NEW m, NEW a, NEW ref, K!RecordPayout(m, a, ref)
      PROVE  Books!RecordPayout(m, a, ref)
  BY <1>0, <1>8, Sums DEF K!RecordPayout, Books!RecordPayout, K!MayPay,
     Books!MayPay, K!Owed, Books!Owed
<1> QED
  BY <1>1, <1>2, <1>4, <1>5, <1>6, <1>7, <1>8 DEF K!Next, Books!Next

(* And they say the same of the books. *)
KioskHolds ==
  /\ K!TypeOK /\ K!RedeemedOnce /\ K!NeverOverpaid /\ K!LiveCovered
  /\ K!Backed /\ K!LedgerConsistent
  /\ K!QuotaRespected /\ K!LockedOnlySettled /\ K!LoadedIsIssuedOrSettled
  /\ K!AllocatedWasDeposited

LEMMA SameBooks == Books!AllBooks <=> KioskHolds
<1>1. K!TypeOK <=> Books!TypeOK
  BY Sums DEF K!TypeOK, Books!TypeOK, K!Proof, Books!Proof, K!Payee, Books!Payee
<1>2. K!RedeemedOnce <=> Books!RedeemedOnce
  BY DEF K!RedeemedOnce, Books!RedeemedOnce, K!Secrets, Books!Secrets
<1>3. K!NeverOverpaid <=> Books!NeverOverpaid
  BY Sums DEF K!NeverOverpaid, Books!NeverOverpaid, K!For, Books!For, K!Payee,
     Books!Payee
<1>4. K!LiveCovered <=> Books!LiveCovered
  BY Sums DEF K!LiveCovered, Books!LiveCovered, K!Live, Books!Live
<1>5. K!Backed <=> Books!Backed
  BY Sums DEF K!Backed, Books!Backed, K!OwedTotal, Books!OwedTotal
<1>6. K!LedgerConsistent <=> Books!LedgerConsistent
  BY Sums DEF K!LedgerConsistent, Books!LedgerConsistent
<1>7. K!QuotaRespected <=> Books!QuotaRespected
  BY DEF K!QuotaRespected, Books!QuotaRespected
<1>8. K!LockedOnlySettled <=> Books!LockedOnlySettled
  BY DEF K!LockedOnlySettled, Books!LockedOnlySettled, K!Secrets, Books!Secrets
<1>9. K!LoadedIsIssuedOrSettled <=> Books!LoadedIsIssuedOrSettled
  BY Sums DEF K!LoadedIsIssuedOrSettled, Books!LoadedIsIssuedOrSettled
<1>10. K!AllocatedWasDeposited <=> Books!AllocatedWasDeposited
  BY Sums DEF K!AllocatedWasDeposited, Books!AllocatedWasDeposited
<1> QED
  BY <1>1, <1>2, <1>3, <1>4, <1>5, <1>6, <1>7, <1>8, <1>9, <1>10
  DEF KioskHolds, Books!AllBooks, Books!Books

LEMMA KioskHoldsNext == KioskHolds /\ [K!Next]_kioskVars => KioskHolds'
<1>1. UNCHANGED kioskVars => UNCHANGED Books!vars
  BY DEF kioskVars, Books!vars
<1>2. [K!Next]_kioskVars => [Books!Next]_(Books!vars)
  BY <1>1, SameOperations
<1>3. Books!AllBooks /\ [Books!Next]_(Books!vars) => Books!AllBooks'
  BY BooksAssumption, Books!AllBooksNext
<1>4. (Books!AllBooks)' <=> KioskHolds'
  BY SameBooks, PTL
<1> QED
  BY <1>2, <1>3, <1>4, SameBooks

(* A step of this module is a step of the kiosk or leaves it alone.         *)
LEMMA StepsAreKioskSteps == Base /\ [Next]_vars => [K!Next]_kioskVars
<1> SUFFICES ASSUME Base, [Next]_vars PROVE [K!Next]_kioskVars
  OBVIOUS
<1>1. ASSUME NEW r \in net, KioskSigns(r) PROVE K!Next
  <2>1. r \in SignRequests /\ K!SignForDevice(Me, r.seq, r.proof)
    BY <1>1, KioskSignsDoes DEF KioskSigns
  <2>2. Me \in Device /\ r.seq \in SeqNo /\ r.proof \in K!Proof
    BY <2>1, PurseAssumption DEF SignRequests, Proof
  <2> QED BY <2>1, <2>2 DEF K!Next
<1>2. ASSUME NEW ins, NEW outs, outs \subseteq Proof, K!Swap(ins, outs) PROVE K!Next
  <2>1. ins \in SUBSET signed /\ outs \in SUBSET K!Proof
    BY <1>2 DEF K!Swap, K!Swappable, K!CheckProof, Proof
  <2> QED BY <1>2, <2>1 DEF K!Next
<1>3. ASSUME NEW r \in net, KioskSwaps(r) PROVE [K!Next]_kioskVars
  <2>1. r \in SwapRequests
    BY <1>3, KioskSwapsDoes
  <2>2. r.outs \subseteq Proof
    BY <2>1 DEF SwapRequests
  <2> QED BY <1>2, <1>3, <2>2 DEF KioskSwaps
<1>4. ASSUME NEW p \in handed, NEW m \in Merchant, PayeeSettles(p, m) PROVE K!Next
  <2>1. p \in K!Proof /\ m \in K!Payee /\ K!SettleFor(p, m, TRUE)
    BY <1>4 DEF PayeeSettles, Base, Proof, K!Payee
  <2> QED BY <2>1 DEF K!Next
<1>5. ASSUME NEW p \in signed, NEW q \in Proof, OthersSwap(p, q) PROVE K!Next
  BY <1>2, <1>5 DEF OthersSwap
<1> QED
  BY <1>1, <1>3, <1>4, <1>5, VaultLeavesKiosk

(* The kiosk starts with balanced books: the deposit covers the quotas.     *)
LEMMA QuotasTotal ==
  ASSUME NEW a \in Nat, NEW b \in Nat, NEW d \in Device, d # Me
  PROVE  Total([e \in Device |-> IF e = Me THEN a ELSE IF e = d THEN b ELSE 0]) = a + b
<1> DEFINE z == [e \in Device |-> 0]
           f == [e \in Device |-> IF e = Me THEN a ELSE 0]
           g == [e \in Device |-> IF e = Me THEN a ELSE IF e = d THEN b ELSE 0]
<1>1. IsFiniteSet(Device) /\ Me \in Device
  BY PurseKiosk, PurseAssumption DEF K!KioskAssumption, K!IsFiniteSet, IsFiniteSet
<1>2. Units(z) = {}
  BY DEF Units
<1>3. Total(z) = 0
  BY <1>2, FS_EmptySet DEF Total
<1>4. z \in [Device -> Nat] /\ f \in [Device -> Nat]
  OBVIOUS
<1>5. f = [z EXCEPT ![Me] = z[Me] + a]
  BY <1>1
<1>6. g = [f EXCEPT ![d] = f[d] + b]
  <2>1. f[d] + b = b
    OBVIOUS
  <2> QED BY <2>1
<1> HIDE DEF z, f, g
<1>7. Total([z EXCEPT ![Me] = z[Me] + a]) = Total(z) + a
  BY <1>1, <1>4, TotalUpdate
<1>8. Total([f EXCEPT ![d] = f[d] + b]) = Total(f) + b
  BY <1>1, <1>4, TotalUpdate
<1> QED BY <1>3, <1>5, <1>6, <1>7, <1>8 DEF g

LEMMA KioskBegins == Init => KioskHolds
<1> SUFFICES ASSUME Init PROVE KioskHolds
  OBVIOUS
<1> DEFINE v == Value(Foreign)
           money == Quota + v
           ref == CHOOSE r \in Ref : TRUE
           dep == [ref |-> ref, amount |-> money]
           other == CHOOSE d \in Device : d # Me
<1>1. /\ Foreign \subseteq Proof /\ IsLedger(Foreign) /\ v \in Nat
      /\ \A p \in Foreign : p.secret \in Secret
  <2>1. Foreign \subseteq Proof
    BY PurseAssumption DEF Proof, K!Proof
  <2>2. IsLedger(Foreign) /\ v \in Nat
    BY <2>1, FiniteProofs, ValueMonotone, ValueType
  <2> QED BY <2>1, <2>2 DEF Proof, K!Proof
<1>2. /\ reserve = money /\ deposits = {dep} /\ allocRefs = Ref
      /\ allocated = [d \in Device |-> IF d = Me THEN Quota ELSE IF d = other THEN v ELSE 0]
      /\ loaded = [d \in Device |-> IF d = Me THEN 0 ELSE IF d = other THEN v ELSE 0]
      /\ lastSeq = [d \in Device |-> IF d = Me THEN 0
                                    ELSE IF d = other THEN Cardinality(Foreign) ELSE 0]
      /\ issued = v /\ signed = Foreign /\ spent = {} /\ settlements = {}
      /\ payouts = {} /\ swapCache = <<>> /\ allowAnon = FALSE
  BY DEF Init, InitKiosk
<1>3. ref \in Ref /\ other \in Device /\ other # Me /\ Quota \in Nat /\ money \in Amount
  BY PurseAssumption, PurseMoney
<1>4. Cardinality(Foreign) \in Nat
  BY <1>1, FS_CardinalityType DEF IsLedger
<1> HIDE DEF v, ref, other
<1>5. money \in Nat /\ dep.amount = money /\ dep \in [ref : Ref, amount : Amount]
  BY <1>1, <1>3
<1>6. Value(deposits) = money /\ IsFiniteSet(deposits)
  <2> HIDE DEF dep, money
  <2>1. Value({dep}) = dep.amount /\ IsFiniteSet({dep})
    BY <1>5, ValueSingleton, FS_Singleton
  <2> QED BY <1>2, <1>5, <2>1
<1>7. /\ Value(settlements) = 0 /\ Value(payouts) = 0
      /\ \A M : K!For(settlements, M) = {} /\ K!For(payouts, M) = {}
  BY <1>2, ValueEmpty DEF K!For
<1>8. Total(allocated) = Quota + v /\ Total(loaded) = 0 + v
  BY <1>1, <1>2, <1>3, QuotasTotal
<1> HIDE DEF dep, money
<1>9. K!TypeOK
  <2>1. /\ reserve \in Nat /\ issued \in Nat /\ signed \subseteq K!Proof
        /\ spent \subseteq Secret
        /\ IsFiniteSet(deposits) /\ deposits \subseteq [ref : Ref, amount : Amount]
    BY <1>1, <1>2, <1>5, <1>6 DEF Proof
  <2>2. allocated \in [Device -> Nat] /\ loaded \in [Device -> Nat]
        /\ lastSeq \in [Device -> Nat] /\ allocRefs \subseteq Ref
    BY <1>1, <1>2, <1>3, <1>4
  <2>3. /\ IsFiniteSet(settlements) /\ settlements = {} /\ IsFiniteSet(payouts)
        /\ payouts = {} /\ allowAnon \in BOOLEAN
        /\ swapCache \in Seq([ins : SUBSET Secret, outs : SUBSET K!Proof])
    <3>1. \A S : <<>> \in Seq(S)
      OBVIOUS
    <3>2. IsFiniteSet(settlements) /\ IsFiniteSet(payouts)
      BY <1>2, FS_EmptySet
    <3>3. allowAnon \in BOOLEAN /\ swapCache = <<>>
      BY <1>2
    <3> QED BY <1>2, <3>1, <3>2, <3>3
  <2> QED BY <2>1, <2>2, <2>3, Sums DEF K!TypeOK
<1>10. K!RedeemedOnce /\ K!LockedOnlySettled
  BY <1>2 DEF K!RedeemedOnce, K!LockedOnlySettled, K!Secrets
<1>11. K!NeverOverpaid
  BY <1>7, Sums, ValueEmpty DEF K!NeverOverpaid
<1>12. K!LiveCovered
  <2>1. K!Live = Foreign
    BY <1>2 DEF K!Live
  <2> QED BY <1>1, <1>2, <2>1, Sums DEF K!LiveCovered, v
<1>13. K!Backed /\ K!LedgerConsistent
  <2>1. money = Quota + v /\ reserve = money /\ issued = v
    BY <1>2 DEF money
  <2>2. K!OwedTotal = 0
    BY <1>7, Sums DEF K!OwedTotal
  <2>3. K!Value(deposits) = money /\ K!Value(payouts) = 0
    BY <1>6, <1>7, Sums
  <2>4. v \in Nat /\ Quota \in Nat
    BY <1>1, <1>3
  <2>5. K!Backed
    BY <2>1, <2>2, <2>4 DEF K!Backed
  <2> QED BY <2>1, <2>3, <2>4, <2>5 DEF K!LedgerConsistent
<1>14. K!QuotaRespected
  <2> SUFFICES ASSUME NEW d \in Device PROVE loaded[d] <= allocated[d]
    BY DEF K!QuotaRespected
  <2>1. /\ loaded[d] = (IF d = Me THEN 0 ELSE IF d = other THEN v ELSE 0)
        /\ allocated[d] = (IF d = Me THEN Quota ELSE IF d = other THEN v ELSE 0)
    BY <1>2
  <2> QED BY <1>1, <1>3, <2>1
<1>15. K!LoadedIsIssuedOrSettled /\ K!AllocatedWasDeposited
  BY <1>1, <1>2, <1>3, <1>6, <1>7, <1>8, Sums
  DEF K!LoadedIsIssuedOrSettled, K!AllocatedWasDeposited, money
<1> QED
  BY <1>9, <1>10, <1>11, <1>12, <1>13, <1>14, <1>15 DEF KioskHolds

(* To the kiosk the system of this module is one more run of Kiosk: each of *)
(* its steps is one operation of the kiosk or none.                         *)
THEOREM KioskTakesItsSteps == Spec => [][K!Next]_kioskVars
BY BaseInit, BaseStep, StepsAreKioskSteps, PTL DEF Spec

(* So the kiosk's promises hold whatever its clients do: it is backed, its  *)
(* ledger adds up, no token is redeemed twice, no payee is overpaid, quotas *)
(* and locks are respected.                                                 *)
THEOREM KioskKeepsItsPromises == Spec => []KioskHolds
BY BaseInit, BaseStep, StepsAreKioskSteps, KioskBegins, KioskHoldsNext, PTL
DEF Spec

(* Unless a swap was abandoned, the purse, the pending swap and all claims  *)
(* of payees are together covered by the reserve.                           *)
THEOREM BalanceIsBacked == Spec => []BalanceIsCovered
<1>1. Base /\ GivenAway /\ Sound /\ KioskHolds => BalanceIsCovered
  <2> SUFFICES ASSUME Base, GivenAway, Sound, KioskHolds, ~ abandoned
               PROVE  Value(MyMoney) + K!OwedTotal <= reserve
    BY DEF BalanceIsCovered
  <2>1. Swaps
    BY DEF Sound
  <2>2. vault.proofs \subseteq K!Live
    BY <2>1 DEF Swaps, GivenAway, K!Live, K!Secrets
  <2>3. ~ (Ins \subseteq K!Live) => Outs \subseteq K!Live
    <3>1. NotExecuted => Ins \subseteq K!Live
      BY DEF NotExecuted, GivenAway, K!Live, K!Secrets
    <3>2. Executed => Outs \subseteq K!Live
      BY <2>1 DEF Executed, Swaps, K!Live, K!Secrets
    <3> QED BY <2>1, <3>1, <3>2 DEF Swaps
  <2>4. MyMoney \subseteq K!Live
    BY <2>2, <2>3 DEF MyMoney, Ins, Outs
  <2>5. IsLedger(K!Live) /\ K!Live \subseteq Proof
    <3>1. K!Live \subseteq Proof
      BY DEF Base, K!Live
    <3> QED BY <3>1, FiniteProofs, ValueMonotone
  <2>6. Value(MyMoney) <= Value(K!Live) /\ Value(MyMoney) \in Nat
        /\ Value(K!Live) \in Nat
    BY <2>4, <2>5, ValueMonotone, ValueType
  <2>7. Value(K!Live) <= issued /\ issued + K!OwedTotal <= reserve
    BY Sums DEF KioskHolds, K!LiveCovered, K!Backed
  <2>8. issued \in Nat /\ reserve \in Nat /\ K!OwedTotal \in Int
    <3>1. issued \in Nat /\ reserve \in Nat
      BY DEF KioskHolds, K!TypeOK
    <3>2. IsLedger(settlements) /\ IsLedger(payouts)
      <4>1. /\ IsFiniteSet(settlements) /\ IsFiniteSet(payouts)
            /\ \A e \in settlements : e.amount \in Denom
            /\ \A e \in payouts : e.amount \in Amount
        BY Sums DEF KioskHolds, K!TypeOK
      <4>2. Denom \subseteq Nat /\ Amount \subseteq Nat
        BY PurseKiosk DEF K!KioskAssumption
      <4> QED BY <4>1, <4>2 DEF IsLedger
    <3>3. Value(settlements) \in Nat /\ Value(payouts) \in Nat
      BY <3>2, ValueType
    <3> QED BY <3>1, <3>3, Sums DEF K!OwedTotal
  <2> QED BY <2>6, <2>7, <2>8
<1> QED
  BY <1>1, BaseInit, BaseStep, GivenAwayInit, CacheStep, GivenAwayStep,
     SoundInit, SoundStep, StepsAreKioskSteps, KioskBegins, KioskHoldsNext,
     PTL DEF Spec
=============================================================================
