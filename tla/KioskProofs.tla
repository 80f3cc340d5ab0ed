----------------------------- MODULE KioskProofs -----------------------------
(***************************************************************************)
(* The kiosk's books are right for every value of the constants.           *)
(*                                                                         *)
(* Books is inductive.  Its heart is LiveCovered: the outstanding counter  *)
(* covers the tokens that can still be redeemed.  It gives the settlement  *)
(* its room (issued never has to be clamped), which keeps Backed exact     *)
(* when value moves from the tokens to the merchants' claims; NeverOverpaid*)
(* is stated for groups of payees because a payout to one payee has to     *)
(* leave the claims of all the others covered.                             *)
(***************************************************************************)
EXTENDS Kiosk, MoneyLemmas, SequenceTheorems

Books ==
  /\ TypeOK
  /\ RedeemedOnce
  /\ NeverOverpaid
  /\ LiveCovered
  /\ Backed
  /\ LedgerConsistent

-----------------------------------------------------------------------------
(* There are finitely many proofs. *)
LEMMA ProofFinite == IsFiniteSet(Proof)
<1> DEFINE f == [x \in Secret \X Denom |-> [secret |-> x[1], amount |-> x[2]]]
<1>1. IsFiniteSet(Secret \X Denom)
  BY KioskAssumption, FS_Product
<1>2. f \in Surjection(Secret \X Denom, Proof)
  <2>1. f \in [Secret \X Denom -> Proof]
    BY DEF Proof
  <2>2. ASSUME NEW p \in Proof PROVE \E x \in Secret \X Denom : f[x] = p
    <3>1. <<p.secret, p.amount>> \in Secret \X Denom
      BY DEF Proof
    <3>2. f[<<p.secret, p.amount>>] = p
      BY <3>1 DEF Proof
    <3> QED BY <3>1, <3>2
  <2> QED BY <2>1, <2>2 DEF Surjection
<1> QED
  BY <1>1, <1>2, FS_Surjection

(* Every set of proofs is a ledger. *)
LEMMA ProofLedger ==
  ASSUME NEW S, S \subseteq Proof
  PROVE  IsLedger(S)
BY ProofFinite, FS_Subset, KioskAssumption DEF IsLedger, Proof

(* So are the kiosk's books. *)
LEMMA BookLedgers ==
  ASSUME TypeOK
  PROVE  IsLedger(deposits) /\ IsLedger(settlements) /\ IsLedger(payouts)
BY KioskAssumption DEF TypeOK, IsLedger

(* Eviction drops entries at the front and shifts the others. *)
LEMMA EvictShifts ==
  ASSUME NEW T, NEW c \in Seq(T)
  PROVE  /\ Evict(c) \in Seq(T)
         /\ \E n \in Nat : \A i \in DOMAIN Evict(c) :
              i \in Nat /\ n + i \in DOMAIN c /\ Evict(c)[i] = c[n + i]
<1>1. CASE Len(c) <= MaxSwapCache
  <2>1. Evict(c) = c
    BY <1>1 DEF Evict
  <2>2. \A i \in DOMAIN c : i \in Nat /\ 0 + i \in DOMAIN c /\ c[i] = c[0 + i]
    OBVIOUS
  <2> QED BY <2>1, <2>2
<1>2. CASE ~ (Len(c) <= MaxSwapCache)
  <2> DEFINE m == Len(c) - MaxSwapCache + 1
             n == Len(c)
  <2>1. m \in 1 .. n + 1 /\ n \in m - 1 .. Len(c) /\ Evict(c) = SubSeq(c, m, n)
    BY <1>2, KioskAssumption DEF Evict
  <2>2. /\ SubSeq(c, m, n) \in Seq(T)
        /\ Len(SubSeq(c, m, n)) = n - m + 1
        /\ \A i \in 1 .. n - m + 1 : SubSeq(c, m, n)[i] = c[m + i - 1]
    BY <2>1, SubSeqProperties
  <2>3. ASSUME NEW i \in DOMAIN Evict(c)
        PROVE i \in Nat /\ (m - 1) + i \in DOMAIN c /\ Evict(c)[i] = c[(m - 1) + i]
    <3>1. i \in 1 .. n - m + 1
      BY <2>1, <2>2
    <3>2. m + i - 1 = (m - 1) + i /\ (m - 1) + i \in DOMAIN c
      BY <2>1, <3>1
    <3>3. SubSeq(c, m, n)[i] = c[m + i - 1]
      BY <2>2, <3>1
    <3> QED BY <2>1, <3>1, <3>2, <3>3
  <2>4. m - 1 \in Nat
    BY <1>2, KioskAssumption
  <2> QED BY <2>1, <2>2, <2>3, <2>4
<1> QED BY <1>1, <1>2

(* Eviction keeps only entries that were in the cache. *)
LEMMA EvictEntries ==
  ASSUME NEW T, NEW c \in Seq(T)
  PROVE  /\ Evict(c) \in Seq(T)
         /\ \A i \in DOMAIN Evict(c) : \E j \in DOMAIN c : Evict(c)[i] = c[j]
BY EvictShifts

(* An answer is put behind answers whose inputs it shares nothing with,    *)
(* and the oldest are dropped: no two in the cache share an input.         *)
LEMMA CacheApart ==
  ASSUME NEW T, NEW cache \in Seq(T), NEW x \in T,
         \A i, j \in DOMAIN cache : i # j => cache[i].ins \cap cache[j].ins = {},
         \A i \in DOMAIN cache : cache[i].ins \cap x.ins = {}
  PROVE  \A i, j \in DOMAIN Evict(Append(cache, x)) :
           i # j => Evict(Append(cache, x))[i].ins \cap Evict(Append(cache, x))[j].ins = {}
<1> DEFINE c == Append(cache, x)
<1>1. /\ c \in Seq(T) /\ DOMAIN c = DOMAIN cache \cup {Len(cache) + 1}
      /\ c[Len(cache) + 1] = x /\ \A i \in DOMAIN cache : c[i] = cache[i]
  BY AppendProperties
<1>2. \A i, j \in DOMAIN c : i # j => c[i].ins \cap c[j].ins = {}
  BY <1>1
<1> HIDE DEF c
<1>3. PICK n \in Nat : \A i \in DOMAIN Evict(c) :
               i \in Nat /\ n + i \in DOMAIN c /\ Evict(c)[i] = c[n + i]
  BY <1>1, EvictShifts
<1>4. ASSUME NEW i \in DOMAIN Evict(c), NEW j \in DOMAIN Evict(c), i # j
      PROVE  Evict(c)[i].ins \cap Evict(c)[j].ins = {}
  <2>1. n + i # n + j /\ n + i \in DOMAIN c /\ n + j \in DOMAIN c
    BY <1>3, <1>4
  <2> QED BY <1>2, <1>3, <2>1
<1> QED BY <1>4 DEF c

-----------------------------------------------------------------------------
(* The kiosk starts with balanced, empty books. *)
LEMMA BooksInit == Init => Books
<1> SUFFICES ASSUME Init PROVE Books
  OBVIOUS
<1>1. TypeOK
  BY FS_EmptySet DEF Init, TypeOK
<1>2. Live = {} /\ \A M : For(payouts, M) = {} /\ For(settlements, M) = {}
  BY DEF Init, Live, For
<1>3. RedeemedOnce
  BY DEF Init, RedeemedOnce, Secrets
<1>4. NeverOverpaid
  BY <1>2, ValueEmpty DEF NeverOverpaid
<1>5. LiveCovered
  BY <1>2, ValueEmpty DEF Init, LiveCovered
<1>6. deposits = {} /\ settlements = {} /\ payouts = {} /\ reserve = 0 /\ issued = 0
  BY DEF Init
<1>7. Backed /\ LedgerConsistent
  BY <1>6, ValueEmpty DEF Backed, LedgerConsistent, OwedTotal
<1> QED
  BY <1>1, <1>3, <1>4, <1>5, <1>7 DEF Books

(* What all payees are owed is never negative. *)
LEMMA OwedTotalNat ==
  ASSUME Books
  PROVE  OwedTotal \in Nat /\ Value(settlements) \in Nat /\ Value(payouts) \in Nat
<1>1. Value(settlements) \in Nat /\ Value(payouts) \in Nat
  BY BookLedgers, ValueType DEF Books
<1>2. For(payouts, Payee) = payouts /\ For(settlements, Payee) = settlements
  BY DEF Books, TypeOK, For, Payee
<1>3. Value(payouts) <= Value(settlements)
  BY <1>2, Payee \in SUBSET Payee DEF Books, NeverOverpaid
<1> QED
  BY <1>1, <1>3 DEF OwedTotal

-----------------------------------------------------------------------------
LEMMA DepositKeepsBooks ==
  ASSUME Books, NEW ref \in Ref, NEW a \in Amount, Deposit(ref, a)
  PROVE  Books'
<1> DEFINE r == [ref |-> ref, amount |-> a]
<1>1. r \notin deposits /\ r.amount \in Nat
  BY KioskAssumption DEF Deposit, Refs
<1>2. deposits' = deposits \cup {r} /\ reserve' = reserve + a
  BY DEF Deposit
<1>3. IsLedger(deposits)
  BY BookLedgers DEF Books
<1>4. Value(deposits') = Value(deposits) + a
  BY <1>1, <1>2, <1>3, ValueAdd
<1>5. Value(deposits) \in Nat /\ a \in Nat
  BY <1>3, ValueType, KioskAssumption
<1>6. TypeOK'
  <2>1. IsFiniteSet(deposits')
    BY <1>2, FS_AddElement DEF Books, TypeOK
  <2> QED
    BY <1>2, <1>5, <2>1 DEF Books, TypeOK, Deposit, deviceVars
<1>7. RedeemedOnce' /\ NeverOverpaid' /\ LiveCovered'
  BY DEF Books, Deposit, RedeemedOnce, NeverOverpaid, LiveCovered, Live, For
<1>8. Backed'
  BY <1>2, <1>5, OwedTotalNat DEF Books, TypeOK, Deposit, Backed, OwedTotal
<1>9. LedgerConsistent'
  <2>1. payouts' = payouts /\ Value(payouts) \in Nat /\ reserve \in Nat
    BY OwedTotalNat DEF Deposit, Books, TypeOK
  <2> QED
    BY <1>2, <1>4, <1>5, <2>1 DEF Books, LedgerConsistent
<1> QED
  BY <1>6, <1>7, <1>8, <1>9 DEF Books

LEMMA AllocateDeviceKeepsBooks ==
  ASSUME Books, NEW dev \in Device, NEW a \in Amount, NEW ref \in Ref,
         AllocateDevice(dev, a, ref)
  PROVE  Books'
<1>1. TypeOK'
  <2>1. a \in Nat
    BY KioskAssumption
  <2> QED
    BY <2>1 DEF Books, TypeOK, AllocateDevice
<1>2. RedeemedOnce' /\ NeverOverpaid' /\ LiveCovered'
  BY DEF Books, AllocateDevice, RedeemedOnce, NeverOverpaid, LiveCovered, Live, For
<1>3. Backed' /\ LedgerConsistent'
  BY DEF Books, AllocateDevice, Backed, LedgerConsistent, OwedTotal
<1> QED
  BY <1>1, <1>2, <1>3 DEF Books

(* A signature, delivered or lost, adds at most its face value to the live *)
(* tokens and exactly its face value to issued. *)
LEMMA BlindSignKeepsLiveCovered ==
  ASSUME Books, NEW p \in Proof, BlindSignNoSave(p), spent' = spent
  PROVE  /\ LiveCovered'
         /\ issued' = issued + p.amount /\ issued' \in Nat /\ p.amount \in Nat
         /\ issued' + OwedTotal <= reserve
         /\ signed' \subseteq Proof
<1>1. p.amount \in Nat
  BY KioskAssumption DEF Proof
<1>2. Live \subseteq Proof /\ signed \subseteq Proof
  BY DEF Live, Books, TypeOK
<1>3. signed' \subseteq signed \cup {p} /\ issued' = issued + p.amount
  BY DEF BlindSignNoSave
<1>4. Live' \subseteq Live \cup {p}
  BY <1>3 DEF Live
<1>5. IsLedger(Live) /\ IsLedger({p}) /\ Value({p}) = p.amount
  BY <1>1, <1>2, ProofLedger, ValueSingleton
<1>6. Value(Live \cup {p}) <= Value(Live) + p.amount /\ IsLedger(Live \cup {p})
  BY <1>5, ValueUnionBound
<1>7. Value(Live') <= Value(Live \cup {p}) /\ IsLedger(Live')
  BY <1>4, <1>6, ValueMonotone
<1>8. Value(Live') \in Nat /\ Value(Live \cup {p}) \in Nat /\ Value(Live) \in Nat
  BY <1>5, <1>6, <1>7, ValueType
<1>9. Value(Live) <= issued /\ issued \in Nat
  BY DEF Books, LiveCovered, TypeOK
<1>10. Value(Live') <= issued'
  BY <1>1, <1>3, <1>6, <1>7, <1>8, <1>9
<1>11. issued' + OwedTotal <= reserve
  <2>1. issued + OwedTotal + p.amount <= reserve
    BY DEF BlindSignNoSave, Covered
  <2>2. OwedTotal \in Nat /\ reserve \in Nat
    BY OwedTotalNat DEF Books, TypeOK
  <2> QED BY <1>1, <1>3, <1>9, <2>1, <2>2
<1> QED
  BY <1>1, <1>2, <1>3, <1>9, <1>10, <1>11 DEF LiveCovered

LEMMA BlindSignKeepsBooks ==
  ASSUME Books, NEW p \in Proof, BlindSign(p)
  PROVE  Books'
<1>1. BlindSignNoSave(p) /\ spent' = spent
  BY DEF BlindSign
<1>2. /\ LiveCovered'
      /\ issued' = issued + p.amount /\ issued' \in Nat /\ p.amount \in Nat
      /\ issued' + OwedTotal <= reserve
      /\ signed' \subseteq Proof
  BY <1>1, BlindSignKeepsLiveCovered
<1>3. TypeOK'
  BY <1>2 DEF Books, TypeOK, BlindSign, deviceVars
<1>4. RedeemedOnce' /\ NeverOverpaid'
  BY DEF Books, BlindSign, RedeemedOnce, NeverOverpaid, For
<1>5. Backed'
  BY <1>2 DEF BlindSign, Backed, OwedTotal
<1>6. LedgerConsistent'
  BY DEF Books, BlindSign, LedgerConsistent
<1> QED
  BY <1>2, <1>3, <1>4, <1>5, <1>6 DEF Books

LEMMA SignForDeviceKeepsBooks ==
  ASSUME Books, NEW dev \in Device, NEW seq \in SeqNo, NEW p \in Proof,
         SignForDevice(dev, seq, p)
  PROVE  Books'
<1>1. BlindSignNoSave(p) /\ spent' = spent
  BY DEF SignForDevice
<1>2. /\ LiveCovered'
      /\ issued' = issued + p.amount /\ issued' \in Nat /\ p.amount \in Nat
      /\ issued' + OwedTotal <= reserve
      /\ signed' \subseteq Proof
  BY <1>1, BlindSignKeepsLiveCovered
<1>3. TypeOK'
  <2>1. lastSeq' \in [Device -> Nat]
    BY KioskAssumption DEF Books, TypeOK, SignForDevice
  <2>2. loaded' \in [Device -> Nat]
    BY <1>2 DEF Books, TypeOK, SignForDevice
  <2> QED
    BY <1>2, <2>1, <2>2 DEF Books, TypeOK, SignForDevice
<1>4. RedeemedOnce' /\ NeverOverpaid'
  BY DEF Books, SignForDevice, RedeemedOnce, NeverOverpaid, For
<1>5. Backed'
  BY <1>2 DEF SignForDevice, Backed, OwedTotal
<1>6. LedgerConsistent'
  BY DEF Books, SignForDevice, LedgerConsistent
<1> QED
  BY <1>2, <1>3, <1>4, <1>5, <1>6 DEF Books

(* The entry a settlement appends is new to the log. *)
LEMMA SettlementIsNew ==
  ASSUME Books, NEW p \in Proof, p.secret \notin spent,
         NEW e, e.secret = p.secret
  PROVE  e \notin settlements
BY DEF Books, RedeemedOnce, Secrets

(* A settlement moves exactly the face value from the outstanding tokens   *)
(* to the log. *)
LEMMA SettleForKeepsBooks ==
  ASSUME Books, NEW p \in Proof, NEW m \in Payee, NEW c \in BOOLEAN, SettleFor(p, m, c)
  PROVE  /\ Books'
         /\ issued' = issued - p.amount
         /\ Value(settlements') = Value(settlements) + p.amount
         /\ p.amount \in Nat
<1> DEFINE e == [seq |-> Cardinality(settlements) + 1, merchant |-> m,
                 secret |-> p.secret, amount |-> p.amount]
<1>1. /\ p \in signed /\ p.secret \notin spent
      /\ spent' = spent \cup {p.secret}
      /\ issued' = Deduct(issued, p.amount)
      /\ settlements' = settlements \cup {e}
      /\ UNCHANGED <<reserve, signed, deposits, deviceVars, payouts, swapCache, allowAnon>>
  BY DEF SettleFor, CheckProof
<1>2. e \notin settlements
  BY <1>1, SettlementIsNew
<1>3. p.amount \in Nat /\ p.amount \in Denom /\ p.secret \in Secret
  BY KioskAssumption DEF Proof
<1>4. IsLedger(settlements) /\ IsLedger(payouts)
  BY BookLedgers DEF Books
<1>5. Value(settlements') = Value(settlements) + p.amount
  BY <1>1, <1>2, <1>3, <1>4, ValueAdd
<1>6. /\ Live \subseteq Proof /\ p \in Live
      /\ Live' \subseteq Live \ {p}
  BY <1>1 DEF Live, Books, TypeOK
<1>7. /\ Value(Live) = Value(Live \ {p}) + Value({p})
      /\ IsLedger(Live \ {p}) /\ Value(Live \ {p}) \in Nat
  BY <1>6, ProofLedger, ValueRemove
<1>8. Value({p}) = p.amount
  BY <1>3, ValueSingleton
<1>9. Value(Live') <= Value(Live \ {p}) /\ Value(Live') \in Nat
  BY <1>6, <1>7, ValueMonotone, ValueType
<1>10. issued \in Nat /\ Value(Live) <= issued /\ reserve \in Nat
  BY DEF Books, LiveCovered, TypeOK
(* The clamp at zero has nothing to do. *)
<1>11. issued' = issued - p.amount /\ issued' \in Nat
  BY <1>1, <1>3, <1>7, <1>8, <1>10 DEF Deduct
<1>12. TypeOK'
  <2>1. Cardinality(settlements) + 1 \in Nat
    BY FS_CardinalityType DEF Books, TypeOK
  <2>2. IsFiniteSet(settlements')
    BY <1>1, FS_AddElement DEF Books, TypeOK
  <2>3. settlements' \subseteq
          [seq : Nat, merchant : Payee, secret : Secret, amount : Denom]
    BY <1>1, <1>3, <2>1 DEF Books, TypeOK
  <2> QED
    BY <1>1, <1>3, <1>11, <2>2, <2>3 DEF Books, TypeOK, deviceVars
<1>13. RedeemedOnce'
  <2>1. \A f, g \in settlements' : f.secret = g.secret => f = g
    BY <1>1 DEF Books, RedeemedOnce, Secrets
  <2>2. Secrets(settlements') = Secrets(settlements) \cup {p.secret}
    <3>1. e.secret = p.secret /\ settlements' = settlements \cup {e}
      BY <1>1
    <3> HIDE DEF e
    <3> QED BY <3>1 DEF Secrets
  <2>3. \A i \in DOMAIN swapCache : p.secret \notin swapCache[i].ins
    BY <1>1 DEF Books, RedeemedOnce
  <2>4. Secrets(settlements') \subseteq spent'
    BY <1>1, <2>2 DEF Books, RedeemedOnce
  <2>5. \A i \in DOMAIN swapCache' :
          /\ swapCache'[i].ins \subseteq spent'
          /\ swapCache'[i].ins \cap Secrets(settlements') = {}
    <3>1. swapCache' = swapCache /\ spent' = spent \cup {p.secret}
      BY <1>1
    <3>2. \A i \in DOMAIN swapCache : /\ swapCache[i].ins \subseteq spent
                                     /\ swapCache[i].ins \cap Secrets(settlements) = {}
      BY DEF Books, RedeemedOnce
    <3> HIDE DEF e
    <3> QED BY <2>2, <2>3, <3>1, <3>2
  <2>6. Secrets(settlements)' = Secrets(settlements')
    BY DEF Secrets
  <2>7. \A i, j \in DOMAIN swapCache' :
          i # j => swapCache'[i].ins \cap swapCache'[j].ins = {}
    BY <1>1 DEF Books, RedeemedOnce
  <2> QED
    BY <2>1, <2>4, <2>5, <2>6, <2>7 DEF RedeemedOnce
<1>14. NeverOverpaid'
  <2> SUFFICES ASSUME NEW M \in SUBSET Payee
               PROVE  Value(For(payouts', M)) <= Value(For(settlements', M))
    BY DEF NeverOverpaid, For
  <2>1. For(payouts', M) = For(payouts, M)
    BY <1>1 DEF For
  <2>2. For(settlements, M) \subseteq For(settlements', M) /\ For(settlements', M) \subseteq settlements'
    BY <1>1 DEF For
  <2>3. IsLedger(settlements')
    BY <1>2, <1>1, <1>3, <1>4, ValueAdd
  <2>4. IsLedger(For(settlements', M))
    BY <2>2, <2>3, ValueMonotone
  <2>5. Value(For(settlements, M)) <= Value(For(settlements', M)) /\ IsLedger(For(settlements, M))
    BY <2>2, <2>4, ValueMonotone
  <2>6. For(payouts, M) \subseteq payouts
    BY DEF For
  <2>7. Value(For(payouts, M)) \in Nat /\ Value(For(settlements, M)) \in Nat
        /\ Value(For(settlements', M)) \in Nat
    BY <1>4, <2>4, <2>5, <2>6, ValueMonotone, ValueType
  <2>8. Value(For(payouts, M)) <= Value(For(settlements, M))
    BY DEF Books, NeverOverpaid
  <2> QED
    BY <2>1, <2>5, <2>7, <2>8
<1>15. LiveCovered'
  <2>1. Value(Live') <= issued'
    BY <1>3, <1>7, <1>8, <1>9, <1>10, <1>11
  <2> QED BY <2>1 DEF LiveCovered
<1>16. Backed' /\ LedgerConsistent'
  <2>1. Value(settlements) \in Nat /\ Value(payouts) \in Nat
    BY <1>4, ValueType
  <2>2. issued + (Value(settlements) - Value(payouts)) <= reserve
    BY DEF Books, Backed, OwedTotal
  <2>3. issued' + (Value(settlements') - Value(payouts')) <= reserve'
    BY <1>1, <1>3, <1>5, <1>10, <1>11, <2>1, <2>2
  <2> QED
    BY <1>1, <2>3 DEF Books, LedgerConsistent, Backed, OwedTotal
<1> QED
  BY <1>3, <1>5, <1>11, <1>12, <1>13, <1>14, <1>15, <1>16 DEF Books

LEMMA SwapKeepsBooks ==
  ASSUME Books, NEW ins \in SUBSET signed, NEW outs \in SUBSET Proof, Swap(ins, outs)
  PROVE  Books'
<1> DEFINE x == [ins |-> Secrets(ins), outs |-> outs]
           T == [ins : SUBSET Secret, outs : SUBSET Proof]
           c == Append(swapCache, x)
<1>1. /\ \A p \in ins : p \in signed /\ p.secret \notin spent
      /\ Value(ins) = Value(outs)
      /\ spent' = spent \cup Secrets(ins)
      /\ signed' = signed \cup outs
      /\ swapCache' = Evict(c)
      /\ UNCHANGED <<reserve, issued, deposits, deviceVars, settlements, payouts, allowAnon>>
  BY DEF Swap, Swappable, Balanced, CheckProof
<1>2. signed \subseteq Proof /\ ins \subseteq Proof /\ Secrets(ins) \subseteq Secret
  BY DEF Books, TypeOK, Secrets, Proof
<1>3. c \in Seq(T) /\ \A j \in DOMAIN c : c[j] = x \/ \E k \in DOMAIN swapCache : c[j] = swapCache[k]
  <2>1. x \in T /\ swapCache \in Seq(T)
    BY <1>2 DEF Books, TypeOK
  <2> QED
    BY <2>1, AppendProperties
<1>4. /\ swapCache' \in Seq(T)
      /\ \A i \in DOMAIN swapCache' : swapCache'[i] = x \/ \E k \in DOMAIN swapCache : swapCache'[i] = swapCache[k]
  <2>1. Evict(c) \in Seq(T) /\ \A i \in DOMAIN Evict(c) : \E j \in DOMAIN c : Evict(c)[i] = c[j]
    BY <1>3, EvictEntries
  <2> QED
    BY <1>1, <1>3, <2>1
<1>5. TypeOK'
  BY <1>1, <1>2, <1>4 DEF Books, TypeOK, deviceVars
<1>6. RedeemedOnce'
  <2>1. Secrets(ins) \cap spent = {} /\ Secrets(settlements) \subseteq spent
    BY <1>1 DEF Secrets, Books, RedeemedOnce
  <2>2. \A i \in DOMAIN swapCache' : /\ swapCache'[i].ins \subseteq spent'
                                     /\ swapCache'[i].ins \cap Secrets(settlements) = {}
    BY <1>1, <1>4, <2>1 DEF Books, RedeemedOnce
  <2>3. \A i, j \in DOMAIN swapCache' :
          i # j => swapCache'[i].ins \cap swapCache'[j].ins = {}
    <3>1. /\ swapCache \in Seq(T) /\ x \in T /\ x.ins = Secrets(ins)
          /\ \A i, j \in DOMAIN swapCache : i # j => swapCache[i].ins \cap swapCache[j].ins = {}
          /\ \A i \in DOMAIN swapCache : swapCache[i].ins \subseteq spent
      BY <1>2 DEF Books, TypeOK, RedeemedOnce
    <3>2. \A i \in DOMAIN swapCache : swapCache[i].ins \cap x.ins = {}
      BY <2>1, <3>1
    <3> HIDE DEF x, T
    <3> QED
      BY <1>1, <3>1, <3>2, CacheApart
  <2> QED
    BY <1>1, <2>1, <2>2, <2>3 DEF Books, RedeemedOnce
<1>7. NeverOverpaid' /\ LedgerConsistent' /\ Backed'
  BY <1>1 DEF Books, NeverOverpaid, LedgerConsistent, Backed, OwedTotal, For
<1>8. LiveCovered'
  <2>1. /\ ins \subseteq Live /\ Live \subseteq Proof
        /\ Live' \subseteq (Live \ ins) \cup outs
    BY <1>1, <1>2 DEF Live, Secrets
  <2>2. IsLedger(Live) /\ IsLedger(outs) /\ IsLedger(Live \ ins)
    BY <2>1, ProofLedger
  <2>3. Value(Live) = Value(Live \ ins) + Value(ins)
        /\ Value(Live \ ins) \in Nat /\ Value(ins) \in Nat
    BY <2>1, <2>2, ValueRemove
  <2>4. Value((Live \ ins) \cup outs) <= Value(Live \ ins) + Value(outs)
        /\ IsLedger((Live \ ins) \cup outs)
    BY <2>2, ValueUnionBound
  <2>5. Value(Live') <= Value((Live \ ins) \cup outs) /\ IsLedger(Live')
    BY <2>1, <2>4, ValueMonotone
  <2>6. Value(Live') \in Nat /\ Value((Live \ ins) \cup outs) \in Nat /\ issued \in Nat
    BY <2>4, <2>5, ValueType DEF Books, TypeOK
  <2>7. Value(Live) <= issued
    BY DEF Books, LiveCovered
  <2>8. Value(Live') <= issued
    BY <1>1, <2>3, <2>4, <2>5, <2>6, <2>7
  <2> QED
    BY <1>1, <2>8 DEF LiveCovered
<1> QED
  BY <1>5, <1>6, <1>7, <1>8 DEF Books

LEMMA RecordPayoutKeepsBooks ==
  ASSUME Books, NEW m \in Payee, NEW a \in Amount, NEW ref \in Ref, RecordPayout(m, a, ref)
  PROVE  Books'
<1> DEFINE r == [ref |-> ref, merchant |-> m, amount |-> a]
<1>1. /\ m \in Merchant /\ ref \notin Refs(payouts) /\ a <= Owed(m)
      /\ payouts' = payouts \cup {r}
      /\ reserve' = reserve - a
      /\ UNCHANGED <<issued, signed, spent, deposits, deviceVars, settlements,
                     swapCache, allowAnon>>
  BY DEF RecordPayout, MayPay
<1>2. r \notin payouts /\ a \in Nat /\ r.amount = a /\ r.merchant = m
  BY <1>1, KioskAssumption DEF Refs
<1>3. IsLedger(settlements) /\ IsLedger(payouts) /\ IsLedger(deposits)
  BY BookLedgers DEF Books
<1>4. Value(payouts') = Value(payouts) + a /\ IsLedger(payouts')
  BY <1>1, <1>2, <1>3, ValueAdd
(* What a log holds for a group is what it holds for m and for the others. *)
<1>5. ASSUME NEW log, IsLedger(log), NEW M \in SUBSET Payee, m \in M
      PROVE  /\ Value(For(log, M)) = Value(For(log, M \ {m})) + Value(For(log, {m}))
             /\ Value(For(log, M \ {m})) \in Nat /\ Value(For(log, {m})) \in Nat
             /\ IsLedger(For(log, {m})) /\ IsLedger(For(log, M))
  <2>1. For(log, M) = For(log, M \ {m}) \cup For(log, {m})
    BY <1>5 DEF For
  <2>2. For(log, M \ {m}) \cap For(log, {m}) = {}
    BY DEF For
  <2>3. For(log, M \ {m}) \subseteq log /\ For(log, {m}) \subseteq log /\ For(log, M) \subseteq log
    BY DEF For
  <2>4. IsLedger(For(log, M \ {m})) /\ IsLedger(For(log, {m})) /\ IsLedger(For(log, M))
    BY <1>5, <2>3, ValueMonotone
  <2> QED
    BY <2>1, <2>2, <2>4, ValueDisjointUnion
<1>6. NeverOverpaid'
  <2> SUFFICES ASSUME NEW M \in SUBSET Payee
               PROVE  Value(For(payouts', M)) <= Value(For(settlements', M))
    BY DEF NeverOverpaid, For
  <2>1. For(settlements', M) = For(settlements, M)
    BY <1>1 DEF For
  <2>2. CASE m \notin M
    <3>1. For(payouts', M) = For(payouts, M)
      BY <1>1, <1>2, <2>2 DEF For
    <3> QED BY <2>1, <3>1 DEF Books, NeverOverpaid
  <2>3. CASE m \in M
    <3>1. For(payouts', M) = For(payouts, M) \cup {r} /\ r \notin For(payouts, M)
      BY <1>1, <1>2, <2>3 DEF For
    <3>2. /\ Value(For(payouts, M)) = Value(For(payouts, M \ {m})) + Value(For(payouts, {m}))
          /\ Value(For(payouts, M \ {m})) \in Nat /\ Value(For(payouts, {m})) \in Nat
          /\ IsLedger(For(payouts, M))
      BY <1>3, <1>5, <2>3
    <3>3. /\ Value(For(settlements, M)) = Value(For(settlements, M \ {m})) + Value(For(settlements, {m}))
          /\ Value(For(settlements, M \ {m})) \in Nat /\ Value(For(settlements, {m})) \in Nat
      BY <1>3, <1>5, <2>3
    <3>4. Value(For(payouts', M)) = Value(For(payouts, M)) + a
      BY <1>2, <3>1, <3>2, ValueAdd
    <3>5. Value(For(payouts, M \ {m})) <= Value(For(settlements, M \ {m}))
      BY M \ {m} \in SUBSET Payee DEF Books, NeverOverpaid
    <3>6. a <= Value(For(settlements, {m})) - Value(For(payouts, {m}))
      BY <1>1 DEF Owed
    <3> QED
      BY <1>2, <2>1, <3>2, <3>3, <3>4, <3>5, <3>6
  <2> QED BY <2>2, <2>3
<1>7. Value(payouts') <= Value(settlements)
  <2>1. For(payouts', Payee) = payouts' /\ For(settlements, Payee) = settlements
    BY <1>1, <1>2 DEF Books, TypeOK, For, Payee
  <2>2. Value(For(payouts', Payee)) <= Value(For(settlements', Payee))
    BY <1>6, Payee \in SUBSET Payee DEF NeverOverpaid, For
  <2> QED BY <1>1, <2>1, <2>2
<1>8. /\ Value(settlements) \in Nat /\ Value(payouts) \in Nat /\ Value(deposits) \in Nat
      /\ issued \in Nat /\ reserve \in Nat
  BY <1>3, ValueType DEF Books, TypeOK
<1>9. issued + (Value(settlements) - Value(payouts)) <= reserve
  BY DEF Books, Backed, OwedTotal
<1>10. /\ reserve' \in Nat
       /\ issued + (Value(settlements) - Value(payouts')) <= reserve'
  BY <1>1, <1>2, <1>4, <1>7, <1>8, <1>9
<1>11. TypeOK'
  <2>1. IsFiniteSet(payouts')
    BY <1>4 DEF IsLedger
  <2>2. payouts' \subseteq [ref : Ref, merchant : Merchant, amount : Amount]
    BY <1>1 DEF Books, TypeOK
  <2> QED
    BY <1>1, <1>10, <2>1, <2>2 DEF Books, TypeOK, deviceVars
<1>12. RedeemedOnce' /\ LiveCovered'
  BY <1>1 DEF Books, RedeemedOnce, LiveCovered, Live, Secrets
<1>13. Backed'
  BY <1>1, <1>10 DEF Backed, OwedTotal
<1>14. LedgerConsistent'
  <2>1. reserve = Value(deposits) - Value(payouts)
    BY DEF Books, LedgerConsistent
  <2>2. reserve' = Value(deposits') - Value(payouts')
    BY <1>1, <1>2, <1>4, <1>8, <2>1
  <2> QED BY <2>2 DEF LedgerConsistent
<1> QED
  BY <1>6, <1>11, <1>12, <1>13, <1>14 DEF Books

-----------------------------------------------------------------------------
(* Every step of the kiosk keeps its books. *)
LEMMA BooksNext == Books /\ [Next]_vars => Books'
<1> SUFFICES ASSUME Books, [Next]_vars PROVE Books'
  OBVIOUS
<1>1. ASSUME NEW ref \in Ref, NEW a \in Amount, Deposit(ref, a) PROVE Books'
  BY <1>1, DepositKeepsBooks
<1>2. ASSUME NEW dev \in Device, NEW a \in Amount, NEW ref \in Ref,
             AllocateDevice(dev, a, ref)
      PROVE  Books'
  BY <1>2, AllocateDeviceKeepsBooks
<1>3. ASSUME NEW p \in Proof, BlindSign(p) PROVE Books'
  BY <1>3, BlindSignKeepsBooks
<1>4. ASSUME NEW dev \in Device, NEW seq \in SeqNo, NEW p \in Proof,
             SignForDevice(dev, seq, p)
      PROVE  Books'
  BY <1>4, SignForDeviceKeepsBooks
<1>5. ASSUME NEW p \in Proof, NEW m \in Payee, NEW c \in BOOLEAN, SettleFor(p, m, c)
      PROVE  Books'
  BY <1>5, SettleForKeepsBooks
<1>6. ASSUME NEW ins \in SUBSET signed, NEW outs \in SUBSET Proof, Swap(ins, outs)
      PROVE  Books'
  BY <1>6, SwapKeepsBooks
<1>7. ASSUME NEW m \in Payee, NEW a \in Amount, NEW ref \in Ref, RecordPayout(m, a, ref)
      PROVE  Books'
  BY <1>7, RecordPayoutKeepsBooks
<1>8. CASE UNCHANGED vars
  BY <1>8 DEF vars, deviceVars, Books, TypeOK, RedeemedOnce, NeverOverpaid, LiveCovered,
              Live, Backed, OwedTotal, LedgerConsistent, Secrets, For
<1> QED
  BY <1>1, <1>2, <1>3, <1>4, <1>5, <1>6, <1>7, <1>8 DEF Next

(* The kiosk's books are in order in every reachable state. *)
THEOREM BooksInvariant == Spec => []Books
BY BooksInit, BooksNext, PTL DEF Spec

(* Every variable keeps its type; in particular the reserve and the        *)
(* outstanding counter never become negative, with no clamp in RecordPayout.*)
THEOREM TypeCorrect == Spec => []TypeOK
<1>1. Books => TypeOK
  BY DEF Books
<1> QED
  BY <1>1, BooksInvariant, PTL

(* The reserve always covers the outstanding tokens and the merchants'     *)
(* claims: fully_backed holds after any sequence of operations. *)
THEOREM FullyBacked == Spec => []Backed
<1>1. Books => Backed
  BY DEF Books
<1> QED
  BY <1>1, BooksInvariant, PTL

(* Every live token is counted as outstanding: with FullyBacked, every     *)
(* token in someone's hands can be redeemed and paid out. *)
THEOREM LiveTokensCovered == Spec => []LiveCovered
<1>1. Books => LiveCovered
  BY DEF Books
<1> QED
  BY <1>1, BooksInvariant, PTL

(* The reserve is always deposits less payouts, so a restart never books   *)
(* an opening balance. *)
THEOREM LedgerAddsUp == Spec => []LedgerConsistent
<1>1. Books => LedgerConsistent
  BY DEF Books
<1> QED
  BY <1>1, BooksInvariant, PTL

(* No secret is settled twice, or settled and exchanged in a cached swap,  *)
(* or exchanged in two cached swaps, in whatever mix of the two.           *)
THEOREM NoDoubleSpend == Spec => []RedeemedOnce
<1>1. Books => RedeemedOnce
  BY DEF Books
<1> QED
  BY <1>1, BooksInvariant, PTL

(* No payee, and no group of payees, is ever overpaid. *)
THEOREM NobodyOverpaid == Spec => []NeverOverpaid
<1>1. Books => NeverOverpaid
  BY DEF Books
<1> QED
  BY <1>1, BooksInvariant, PTL

-----------------------------------------------------------------------------
(* A loading takes no more than is left of the quota. *)
LEMMA QuotaNext == TypeOK /\ QuotaRespected /\ [Next]_vars => QuotaRespected'
<1> SUFFICES ASSUME TypeOK, QuotaRespected, [Next]_vars PROVE QuotaRespected'
  OBVIOUS
<1>1. ASSUME NEW dev \in Device, NEW a \in Amount, NEW ref \in Ref,
             AllocateDevice(dev, a, ref)
      PROVE  QuotaRespected'
  <2>1. a \in Nat
    BY KioskAssumption
  <2> QED BY <1>1, <2>1 DEF AllocateDevice, TypeOK, QuotaRespected
<1>2. ASSUME NEW dev \in Device, NEW seq \in SeqNo, NEW p \in Proof,
             SignForDevice(dev, seq, p)
      PROVE  QuotaRespected'
  <2>1. loaded[dev] + p.amount <= allocated[dev] /\ allocated' = allocated
        /\ loaded' = [loaded EXCEPT ![dev] = @ + p.amount]
    BY <1>2 DEF SignForDevice, WithinQuota
  <2> QED BY <2>1 DEF TypeOK, QuotaRespected
<1>3. CASE UNCHANGED deviceVars
  BY <1>3 DEF deviceVars, QuotaRespected
<1>4. CASE UNCHANGED vars
  BY <1>4 DEF vars, deviceVars, QuotaRespected
<1> QED
  BY <1>1, <1>2, <1>3, <1>4 DEF Next, Deposit, BlindSign, SettleFor, Swap, RecordPayout

(* No device ever loads more than its quota. *)
THEOREM QuotasHold == Spec => []QuotaRespected
<1>1. Init => QuotaRespected
  BY DEF Init, QuotaRespected
<1> QED
  BY <1>1, QuotaNext, TypeCorrect, PTL DEF Spec

(* A swap spends no locked token. *)
LEMMA LocksNext == LockedOnlySettled /\ [Next]_vars => LockedOnlySettled'
<1> SUFFICES ASSUME LockedOnlySettled, [Next]_vars PROVE LockedOnlySettled'
  OBVIOUS
<1>1. ASSUME NEW p \in Proof, NEW m \in Payee, NEW c \in BOOLEAN, SettleFor(p, m, c)
      PROVE  LockedOnlySettled'
  <2>1. spent' = spent \cup {p.secret}
    BY <1>1 DEF SettleFor
  <2>2. Secrets(settlements) \cup {p.secret} \subseteq Secrets(settlements')
    <3> DEFINE e == [seq |-> Cardinality(settlements) + 1, merchant |-> m,
                     secret |-> p.secret, amount |-> p.amount]
    <3>1. settlements' = settlements \cup {e} /\ e.secret = p.secret
      BY <1>1 DEF SettleFor
    <3> HIDE DEF e
    <3> QED BY <3>1 DEF Secrets
  <2>3. Secrets(settlements)' = Secrets(settlements')
    BY DEF Secrets
  <2> QED
    BY <2>1, <2>2, <2>3 DEF LockedOnlySettled
<1>2. ASSUME NEW ins \in SUBSET signed, NEW outs \in SUBSET Proof, Swap(ins, outs)
      PROVE  LockedOnlySettled'
  <2>1. Secrets(ins) \cap Locked = {}
    BY <1>2 DEF Swap, Swappable, Secrets
  <2>2. spent' = spent \cup Secrets(ins) /\ settlements' = settlements
    BY <1>2 DEF Swap
  <2> QED
    BY <2>1, <2>2 DEF LockedOnlySettled, Secrets
<1>3. CASE UNCHANGED <<spent, settlements>>
  BY <1>3 DEF LockedOnlySettled, Secrets
<1>4. CASE UNCHANGED vars
  BY <1>4 DEF vars, LockedOnlySettled, Secrets
<1> QED
  BY <1>1, <1>2, <1>3, <1>4
  DEF Next, Deposit, AllocateDevice, BlindSign, SignForDevice, RecordPayout

(* A locked token leaves circulation only through a settlement, which      *)
(* needs the claim of the lock's owner. *)
THEOREM LocksHold == Spec => []LockedOnlySettled
<1>1. Init => LockedOnlySettled
  BY DEF Init, LockedOnlySettled
<1> QED
  BY <1>1, LocksNext, PTL DEF Spec

(* A loading and a settlement move both sides alike. *)
LEMMA LoadedNext == Books /\ LoadedIsIssuedOrSettled /\ [Next]_vars => LoadedIsIssuedOrSettled'
<1> SUFFICES ASSUME Books, LoadedIsIssuedOrSettled, [Next]_vars, ~ allowAnon'
             PROVE  Total(loaded') = issued' + Value(settlements')
  BY DEF LoadedIsIssuedOrSettled
<1>0. ~ allowAnon
  BY DEF Next, Deposit, AllocateDevice, BlindSign, SignForDevice, SettleFor, Swap,
         RecordPayout, vars
<1>1. Total(loaded) = issued + Value(settlements)
  BY <1>0 DEF LoadedIsIssuedOrSettled
<1>2. issued \in Nat /\ Value(settlements) \in Nat /\ loaded \in [Device -> Nat]
  BY OwedTotalNat DEF Books, TypeOK
<1>3. ASSUME NEW dev \in Device, NEW seq \in SeqNo, NEW p \in Proof,
             SignForDevice(dev, seq, p)
      PROVE  Total(loaded') = issued' + Value(settlements')
  <2>1. /\ loaded' = [loaded EXCEPT ![dev] = loaded[dev] + p.amount]
        /\ issued' = issued + p.amount /\ settlements' = settlements
    BY <1>3 DEF SignForDevice, BlindSignNoSave
  <2>2. p.amount \in Nat
    BY KioskAssumption DEF Proof
  <2>3. Total([loaded EXCEPT ![dev] = loaded[dev] + p.amount]) = Total(loaded) + p.amount
    BY <1>2, <2>2, TotalUpdate, KioskAssumption
  <2> QED
    BY <1>1, <1>2, <2>1, <2>2, <2>3
<1>4. ASSUME NEW p \in Proof, NEW m \in Payee, NEW c \in BOOLEAN, SettleFor(p, m, c)
      PROVE  Total(loaded') = issued' + Value(settlements')
  <2>1. /\ issued' = issued - p.amount
        /\ Value(settlements') = Value(settlements) + p.amount
        /\ p.amount \in Nat
    BY <1>4, SettleForKeepsBooks
  <2>2. loaded' = loaded
    BY <1>4 DEF SettleFor, deviceVars
  <2> QED
    BY <1>1, <1>2, <2>1, <2>2
<1>5. CASE UNCHANGED <<loaded, issued, settlements>>
  BY <1>1, <1>5
<1>6. CASE UNCHANGED vars
  BY <1>1, <1>6 DEF vars, deviceVars
<1> QED
  BY <1>0, <1>3, <1>4, <1>5, <1>6
  DEF Next, Deposit, AllocateDevice, BlindSign, Swap, RecordPayout, deviceVars

(* Without anonymous issuance, what the devices loaded is outstanding or   *)
(* settled, to the unit. *)
THEOREM LoadedAddsUp == Spec => []LoadedIsIssuedOrSettled
<1>1. Init => LoadedIsIssuedOrSettled
  <2> SUFFICES ASSUME Init PROVE Total(loaded) = issued + Value(settlements)
    BY DEF LoadedIsIssuedOrSettled
  <2>1. Units(loaded) = {}
    BY DEF Init, Units
  <2>2. Total(loaded) = 0
    BY <2>1, FS_EmptySet DEF Total
  <2>3. Value(settlements) = 0 /\ issued = 0
    BY ValueEmpty DEF Init
  <2> QED BY <2>2, <2>3
<1> QED
  BY <1>1, LoadedNext, BooksInvariant, PTL DEF Spec

(* An allocation is compared with the reserve. *)
LEMMA AllocationsNext == Books /\ AllocatedWasDeposited /\ [Next]_vars => AllocatedWasDeposited'
<1> SUFFICES ASSUME Books, AllocatedWasDeposited, [Next]_vars
             PROVE  Total(allocated') <= Value(deposits')
  BY DEF AllocatedWasDeposited
<1>1. /\ Total(allocated) <= Value(deposits)
      /\ IsFiniteSet(Device) /\ allocated \in [Device -> Nat]
      /\ Total(allocated) \in Nat /\ Value(deposits) \in Nat
  <2>1. Total(allocated) <= Value(deposits)
    BY DEF AllocatedWasDeposited
  <2>2. IsFiniteSet(Device) /\ allocated \in [Device -> Nat]
    BY KioskAssumption DEF Books, TypeOK
  <2>3. Total(allocated) \in Nat
    BY <2>2, UnitsFinite
  <2>4. Value(deposits) \in Nat
    BY BookLedgers, ValueType DEF Books
  <2> QED BY <2>1, <2>2, <2>3, <2>4
<1>2. ASSUME NEW ref \in Ref, NEW a \in Amount, Deposit(ref, a)
      PROVE  Total(allocated') <= Value(deposits')
  <2> DEFINE r == [ref |-> ref, amount |-> a]
  <2>1. r \notin deposits /\ r.amount \in Nat
    BY <1>2, KioskAssumption DEF Deposit, Refs
  <2>2. deposits' = deposits \cup {r} /\ allocated' = allocated
    BY <1>2 DEF Deposit, deviceVars
  <2>3. IsLedger(deposits)
    BY BookLedgers DEF Books
  <2>4. Value(deposits') = Value(deposits) + r.amount
    BY <2>1, <2>2, <2>3, ValueAdd
  <2> HIDE DEF r
  <2> QED
    BY <1>1, <2>1, <2>2, <2>4
<1>3. ASSUME NEW dev \in Device, NEW a \in Amount, NEW ref \in Ref,
             AllocateDevice(dev, a, ref)
      PROVE  Total(allocated') <= Value(deposits')
  <2>1. /\ Total(allocated) + a <= reserve /\ a \in Nat
        /\ allocated' = [allocated EXCEPT ![dev] = allocated[dev] + a]
        /\ deposits' = deposits
    BY <1>3, KioskAssumption DEF AllocateDevice
  <2>2. Total(allocated') = Total(allocated) + a
    BY <1>1, <2>1, TotalUpdate
  <2>3. reserve = Value(deposits) - Value(payouts) /\ Value(payouts) \in Nat
    BY OwedTotalNat DEF Books, LedgerConsistent
  <2> QED
    BY <1>1, <2>1, <2>2, <2>3
<1>4. CASE UNCHANGED <<allocated, deposits>>
  BY <1>1, <1>4
<1>5. CASE UNCHANGED vars
  BY <1>1, <1>5 DEF vars, deviceVars
<1> QED
  BY <1>2, <1>3, <1>4, <1>5
  DEF Next, BlindSign, SignForDevice, SettleFor, Swap, RecordPayout, deviceVars

(* The devices' quotas together never exceed what was deposited: an        *)
(* allocation is compared with the reserve, which is deposits less payouts,*)
(* and no other operation moves either sum the wrong way. *)
THEOREM AllocationsDeposited == Spec => []AllocatedWasDeposited
<1>1. Init => AllocatedWasDeposited
  <2> SUFFICES ASSUME Init PROVE Total(allocated) <= Value(deposits)
    BY DEF AllocatedWasDeposited
  <2>1. Units(allocated) = {}
    BY DEF Init, Units
  <2>2. Total(allocated) = 0
    BY <2>1, FS_EmptySet DEF Total
  <2>3. Value(deposits) = 0
    BY ValueEmpty DEF Init
  <2> QED BY <2>2, <2>3
<1> QED
  BY <1>1, AllocationsNext, BooksInvariant, PTL DEF Spec

-----------------------------------------------------------------------------
(* All of this together, and kept by every step of the kiosk from wherever  *)
(* it holds: that is what the modules of the vaults need of the kiosk they  *)
(* deal with.                                                               *)
AllBooks ==
  Books /\ QuotaRespected /\ LockedOnlySettled /\ LoadedIsIssuedOrSettled
        /\ AllocatedWasDeposited

LEMMA AllBooksNext == AllBooks /\ [Next]_vars => AllBooks'
<1>1. Books => TypeOK
  BY DEF Books
<1> QED
  BY <1>1, BooksNext, QuotaNext, LocksNext, LoadedNext, AllocationsNext
  DEF AllBooks
=============================================================================
