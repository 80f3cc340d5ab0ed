----------------------------- MODULE MoneyLemmas -----------------------------
(***************************************************************************)
(* What the sums of Money are worth: finite, monotone, additive over       *)
(* disjoint ledgers, and changed by exactly the amount that is added to    *)
(* one account.                                                            *)
(***************************************************************************)
EXTENDS Money, FiniteSetTheorems, TLAPS

(* A ledger with finitely many accounts, each holding a natural amount,    *)
(* has finitely many units.                                                *)
LEMMA UnitsFinite ==
  ASSUME NEW f, IsFiniteSet(DOMAIN f), \A x \in DOMAIN f : f[x] \in Nat
  PROVE  IsFiniteSet(Units(f)) /\ Total(f) \in Nat
<1> DEFINE D == DOMAIN f
           g == [x \in D |-> {x} \X (1 .. f[x])]
           G == {{x} \X (1 .. f[x]) : x \in D}
<1>1. g \in Surjection(D, G)
  BY DEF Surjection
<1>2. IsFiniteSet(G)
  BY <1>1, FS_Surjection
<1>3. \A T \in G : IsFiniteSet(T)
  <2> SUFFICES ASSUME NEW x \in D PROVE IsFiniteSet({x} \X (1 .. f[x]))
    OBVIOUS
  <2>1. IsFiniteSet({x}) BY FS_Singleton
  <2>2. IsFiniteSet(1 .. f[x]) BY FS_Interval
  <2> QED BY <2>1, <2>2, FS_Product
<1>4. IsFiniteSet(Units(f))
  BY <1>2, <1>3, FS_UNION DEF Units
<1> QED
  BY <1>4, FS_CardinalityType DEF Total

(* The sum over the empty ledger is zero. *)
LEMMA TotalEmpty ==
  ASSUME NEW f, DOMAIN f = {}
  PROVE  Total(f) = 0
BY FS_EmptySet DEF Total, Units

(* Counting the units i+1 .. i+a of one account. *)
LEMMA RangeUnits ==
  ASSUME NEW x
  PROVE  \A n, a \in Nat : /\ IsFiniteSet({x} \X ((n + 1) .. (n + a)))
                            /\ Cardinality({x} \X ((n + 1) .. (n + a))) = a
<1> TAKE n, a \in Nat
<1> DEFINE I == (n + 1) .. (n + a)
<1>1. IsFiniteSet({x}) /\ Cardinality({x}) = 1
  BY FS_Singleton
<1>2. IsFiniteSet(I) /\ Cardinality(I) = IF n + 1 > n + a THEN 0 ELSE (n + a) - (n + 1) + 1
  BY FS_Interval
<1>3. Cardinality(I) = a
  BY <1>2
<1> HIDE DEF I
<1>4. IsFiniteSet({x} \X I) /\ Cardinality({x} \X I) = 1 * Cardinality(I)
  BY <1>1, <1>2, FS_Product
<1> QED
  BY <1>3, <1>4 DEF I

(* Two finite sets without a common element. *)
LEMMA DisjointUnion ==
  ASSUME NEW S, NEW T, IsFiniteSet(S), IsFiniteSet(T), S \cap T = {}
  PROVE  /\ IsFiniteSet(S \cup T)
         /\ Cardinality(S \cup T) = Cardinality(S) + Cardinality(T)
         /\ Cardinality(S) \in Nat
         /\ Cardinality(T) \in Nat
<1>1. Cardinality(S) \in Nat /\ Cardinality(T) \in Nat
  BY FS_CardinalityType
<1>2. Cardinality(S \cap T) = 0
  BY FS_EmptySet
<1>3. /\ IsFiniteSet(S \cup T)
      /\ Cardinality(S \cup T) = Cardinality(S) + Cardinality(T) - Cardinality(S \cap T)
  BY FS_Union
<1> QED
  BY <1>1, <1>2, <1>3

(* Adding a to one account adds a to the sum. *)
LEMMA TotalUpdate ==
  ASSUME NEW D, IsFiniteSet(D), NEW f \in [D -> Nat],
         NEW x \in D, NEW a \in Nat
  PROVE  Total([f EXCEPT ![x] = f[x] + a]) = Total(f) + a
<1> DEFINE h == [f EXCEPT ![x] = f[x] + a]
           New == {x} \X ((f[x] + 1) .. (f[x] + a))
<1>1. Units(h) = Units(f) \cup New
  <2>1. \A y \in D : y # x => h[y] = f[y]
    OBVIOUS
  <2>2. 1 .. h[x] = (1 .. f[x]) \cup ((f[x] + 1) .. (f[x] + a))
    OBVIOUS
  <2>3. {x} \X (1 .. h[x]) = ({x} \X (1 .. f[x])) \cup New
    BY <2>2, Zenon
  <2>4. DOMAIN h = D /\ DOMAIN f = D
    OBVIOUS
  <2>5. Units(h) \subseteq Units(f) \cup New
    BY <2>1, <2>3, <2>4 DEF Units
  <2>6. Units(f) \cup New \subseteq Units(h)
    BY <2>1, <2>3, <2>4 DEF Units
  <2> QED BY <2>5, <2>6
<1>2. Units(f) \cap New = {}
  <2> SUFFICES ASSUME NEW u \in Units(f), u \in New PROVE FALSE
    OBVIOUS
  <2>1. PICK y \in D : u \in {y} \X (1 .. f[y])
    BY DEF Units
  <2> QED BY <2>1
<1>3. IsFiniteSet(New) /\ Cardinality(New) = a
  <2>1. f[x] \in Nat
    OBVIOUS
  <2>2. \A n, b \in Nat : /\ IsFiniteSet({x} \X ((n + 1) .. (n + b)))
                          /\ Cardinality({x} \X ((n + 1) .. (n + b))) = b
    BY RangeUnits
  <2> QED BY <2>1, <2>2, Zenon
<1>4. IsFiniteSet(Units(f)) /\ Total(f) \in Nat
  BY UnitsFinite
<1>5. Cardinality(Units(f) \cup New) = Cardinality(Units(f)) + Cardinality(New)
  BY <1>2, <1>3, <1>4, DisjointUnion
<1> QED
  BY <1>1, <1>3, <1>5 DEF Total

(* One account more adds what it holds. *)
LEMMA TotalExtend ==
  ASSUME NEW f, IsFiniteSet(DOMAIN f), \A y \in DOMAIN f : f[y] \in Nat,
         NEW x, x \notin DOMAIN f,
         NEW g, DOMAIN g = DOMAIN f \cup {x},
         \A y \in DOMAIN f : g[y] = f[y], g[x] \in Nat
  PROVE  Total(g) = Total(f) + g[x] /\ Total(f) \in Nat
<1> DEFINE New == {x} \X (1 .. g[x])
<1>1. Units(g) = Units(f) \cup New
  BY DEF Units
<1>2. Units(f) \cap New = {}
  <2> SUFFICES ASSUME NEW u \in Units(f), u \in New PROVE FALSE
    OBVIOUS
  <2>1. PICK y \in DOMAIN f : u \in {y} \X (1 .. f[y])
    BY DEF Units
  <2> QED BY <2>1
<1>3. IsFiniteSet(New) /\ Cardinality(New) = g[x]
  <2>1. \A n, a \in Nat : /\ IsFiniteSet({x} \X ((n + 1) .. (n + a)))
                          /\ Cardinality({x} \X ((n + 1) .. (n + a))) = a
    BY RangeUnits
  <2>2. (0 + 1) .. (0 + g[x]) = 1 .. g[x]
    OBVIOUS
  <2>3. 0 \in Nat
    OBVIOUS
  <2> QED BY <2>1, <2>2, <2>3, Zenon
<1>4. IsFiniteSet(Units(f)) /\ Total(f) \in Nat
  BY UnitsFinite
<1>5. Cardinality(Units(f) \cup New) = Cardinality(Units(f)) + Cardinality(New)
  BY <1>2, <1>3, <1>4, DisjointUnion
<1> QED
  BY <1>1, <1>3, <1>4, <1>5 DEF Total

(* The names of the accounts do not matter. *)
LEMMA TotalRenamed ==
  ASSUME NEW f, IsFiniteSet(DOMAIN f), \A y \in DOMAIN f : f[y] \in Nat,
         NEW g, NEW r \in Bijection(DOMAIN f, DOMAIN g),
         \A y \in DOMAIN f : g[r[y]] = f[y]
  PROVE  Total(g) = Total(f)
<1> DEFINE h == [u \in Units(f) |-> <<r[u[1]], u[2]>>]
<1>1. \A u \in Units(f) : /\ u[1] \in DOMAIN f /\ u[2] \in 1 .. f[u[1]]
                          /\ u = <<u[1], u[2]>>
  BY DEF Units
<1>2. /\ r \in [DOMAIN f -> DOMAIN g]
      /\ \A y, z \in DOMAIN f : r[y] = r[z] => y = z
      /\ \A x \in DOMAIN g : \E y \in DOMAIN f : r[y] = x
  BY DEF Bijection, Injection, Surjection, IsInjective
<1>3. \A u \in Units(f) : h[u] \in Units(g)
  BY <1>1, <1>2 DEF Units
<1>4. \A u, v \in Units(f) : h[u] = h[v] => u = v
  <2> SUFFICES ASSUME NEW u \in Units(f), NEW v \in Units(f), h[u] = h[v]
               PROVE  u = v
    OBVIOUS
  <2>1. r[u[1]] = r[v[1]] /\ u[2] = v[2]
    OBVIOUS
  <2> QED BY <1>1, <1>2, <2>1
<1>5. \A w \in Units(g) : \E u \in Units(f) : h[u] = w
  <2> SUFFICES ASSUME NEW w \in Units(g) PROVE \E u \in Units(f) : h[u] = w
    OBVIOUS
  <2>0. PICK x \in DOMAIN g : w \in {x} \X (1 .. g[x])
    BY DEF Units
  <2>1. PICK k \in 1 .. g[x] : w = <<x, k>>
    BY <2>0
  <2>2. PICK y \in DOMAIN f : r[y] = x
    BY <1>2
  <2>3. <<y, k>> \in Units(f)
    BY <2>1, <2>2 DEF Units
  <2>4. h[<<y, k>>] = w
    BY <2>1, <2>2, <2>3
  <2> QED BY <2>3, <2>4
<1>6. h \in Bijection(Units(f), Units(g))
  BY <1>3, <1>4, <1>5 DEF Bijection, Injection, Surjection, IsInjective
<1>7. IsFiniteSet(Units(f))
  BY UnitsFinite
<1> HIDE DEF h
<1> QED
  BY <1>6, <1>7, FS_Bijection DEF Total, ExistsBijection

(***************************************************************************)
(* Ledgers: finite sets of records with an amount.                         *)
(***************************************************************************)
IsLedger(S) == IsFiniteSet(S) /\ \A r \in S : r.amount \in Nat

(* The units of a ledger, without the detour over Amounts. *)
LEMMA LedgerUnits ==
  ASSUME NEW S
  PROVE  Units(Amounts(S)) = UNION {{r} \X (1 .. r.amount) : r \in S}
BY DEF Units, Amounts

(* The value of a ledger is a natural number. *)
LEMMA ValueType ==
  ASSUME NEW S, IsLedger(S)
  PROVE  Value(S) \in Nat /\ IsFiniteSet(Units(Amounts(S)))
<1>1. DOMAIN Amounts(S) = S /\ \A r \in S : Amounts(S)[r] = r.amount
  BY DEF Amounts
<1>2. IsFiniteSet(DOMAIN Amounts(S)) /\ \A r \in DOMAIN Amounts(S) : Amounts(S)[r] \in Nat
  BY <1>1 DEF IsLedger
<1>3. Total(Amounts(S)) \in Nat /\ IsFiniteSet(Units(Amounts(S)))
  BY <1>2, UnitsFinite
<1> QED
  BY <1>3 DEF Value

(* The empty ledger is worth nothing. *)
LEMMA ValueEmpty == Value({}) = 0
BY TotalEmpty DEF Value, Amounts

(* A part of a ledger is worth no more than the whole. *)
LEMMA ValueMonotone ==
  ASSUME NEW S, IsLedger(S), NEW T, T \subseteq S
  PROVE  Value(T) <= Value(S) /\ IsLedger(T)
<1>1. Units(Amounts(T)) \subseteq Units(Amounts(S))
  BY LedgerUnits
<1>2. IsFiniteSet(Units(Amounts(S)))
  BY ValueType
<1>3. Cardinality(Units(Amounts(T))) <= Cardinality(Units(Amounts(S)))
  BY <1>1, <1>2, FS_Subset
<1>4. IsLedger(T)
  BY FS_Subset DEF IsLedger
<1> QED
  BY <1>3, <1>4 DEF Value, Total

(* Two ledgers without a common entry add up. *)
LEMMA ValueDisjointUnion ==
  ASSUME NEW S, IsLedger(S), NEW T, IsLedger(T), S \cap T = {}
  PROVE  /\ Value(S \cup T) = Value(S) + Value(T)
         /\ IsLedger(S \cup T)
         /\ Value(S) \in Nat
         /\ Value(T) \in Nat
<1> DEFINE A == Units(Amounts(S))
           B == Units(Amounts(T))
<1>1. Units(Amounts(S \cup T)) = A \cup B
  BY LedgerUnits
<1>2. A \cap B = {}
  <2> SUFFICES ASSUME NEW u \in A, u \in B PROVE FALSE
    OBVIOUS
  <2>1. PICK r \in S : u \in {r} \X (1 .. r.amount)
    BY LedgerUnits
  <2>2. PICK q \in T : u \in {q} \X (1 .. q.amount)
    BY LedgerUnits
  <2> QED BY <2>1, <2>2
<1>3. IsFiniteSet(A) /\ IsFiniteSet(B)
  BY ValueType
<1>4. IsLedger(S \cup T)
  BY FS_Union DEF IsLedger
<1> HIDE DEF A, B
<1>5. Cardinality(A \cup B) = Cardinality(A) + Cardinality(B)
  BY <1>2, <1>3, DisjointUnion
<1>6. Value(S \cup T) = Value(S) + Value(T)
  BY <1>1, <1>5 DEF Value, Total, A, B
<1> QED
  BY <1>4, <1>6, ValueType

(* A ledger of one entry is worth the amount of the entry. *)
LEMMA ValueSingleton ==
  ASSUME NEW r, r.amount \in Nat
  PROVE  Value({r}) = r.amount /\ IsLedger({r})
<1>1. Units(Amounts({r})) = {r} \X (1 .. r.amount)
  BY LedgerUnits
<1>2. IsFiniteSet(1 .. r.amount) /\ Cardinality(1 .. r.amount) = r.amount
  BY FS_Interval
<1>3. IsFiniteSet({r}) /\ Cardinality({r}) = 1
  BY FS_Singleton
<1> DEFINE I == 1 .. r.amount
<1> HIDE DEF I
<1>4. Cardinality({r} \X I) = 1 * Cardinality(I)
  BY <1>2, <1>3, FS_Product DEF I
<1>5. Cardinality({r} \X I) = r.amount
  <2>1. Cardinality(I) = r.amount
    BY <1>2 DEF I
  <2> QED BY <1>4, <2>1
<1>6. Cardinality(Units(Amounts({r}))) = r.amount
  BY <1>1, <1>5 DEF I
<1> QED
  BY <1>3, <1>6 DEF Value, Total, IsLedger

(* A new entry adds its amount to the value of a ledger. *)
LEMMA ValueAdd ==
  ASSUME NEW S, IsLedger(S), NEW r, r \notin S, r.amount \in Nat
  PROVE  Value(S \cup {r}) = Value(S) + r.amount /\ IsLedger(S \cup {r})
<1>1. S \cap {r} = {}
  OBVIOUS
<1> QED
  BY <1>1, ValueSingleton, ValueDisjointUnion

(* Adding entries raises the value by at most the value of what is added, *)
(* also when some of them were there before. *)
LEMMA ValueUnionBound ==
  ASSUME NEW S, IsLedger(S), NEW T, IsLedger(T)
  PROVE  Value(S \cup T) <= Value(S) + Value(T) /\ IsLedger(S \cup T)
<1>1. S \cap (T \ S) = {} /\ S \cup T = S \cup (T \ S)
  OBVIOUS
<1>2. Value(T \ S) <= Value(T) /\ IsLedger(T \ S)
  BY ValueMonotone
<1>3. Value(S \cup (T \ S)) = Value(S) + Value(T \ S) /\ IsLedger(S \cup (T \ S))
      /\ Value(S) \in Nat /\ Value(T \ S) \in Nat
  BY <1>1, <1>2, ValueDisjointUnion
<1>4. Value(T) \in Nat
  BY ValueType
<1>5. Value(S \cup (T \ S)) <= Value(S) + Value(T)
  BY <1>2, <1>3, <1>4
<1> QED
  BY <1>1, <1>3, <1>5, Zenon

(* What is left of a ledger after a part of it is taken out. *)
LEMMA ValueRemove ==
  ASSUME NEW S, IsLedger(S), NEW T, T \subseteq S
  PROVE  Value(S) = Value(S \ T) + Value(T) /\ IsLedger(S \ T) /\ IsLedger(T)
         /\ Value(S \ T) \in Nat /\ Value(T) \in Nat
<1>1. (S \ T) \cap T = {} /\ (S \ T) \cup T = S
  OBVIOUS
<1>2. IsLedger(S \ T) /\ IsLedger(T)
  BY ValueMonotone, S \ T \subseteq S
<1> QED
  BY <1>1, <1>2, ValueDisjointUnion

(* Accounts that each answer for a part of one ledger of their own are     *)
(* together covered by the ledger.                                         *)
LEMMA TotalOfParts ==
  ASSUME NEW f, IsFiniteSet(DOMAIN f), \A i \in DOMAIN f : f[i] \in Nat,
         NEW S, IsLedger(S),
         NEW P, \A i \in DOMAIN f : P[i] \subseteq S /\ f[i] <= Value(P[i]),
         \A i, j \in DOMAIN f : i # j => P[i] \cap P[j] = {}
  PROVE  Total(f) <= Value(S)
<1> DEFINE U(T) == Units(Amounts(T))
           g == [i \in DOMAIN f |->
                   CHOOSE b \in Bijection(1 .. Value(P[i]), U(P[i])) : TRUE]
           h == [u \in Units(f) |-> g[u[1]][u[2]]]
<1>1. ASSUME NEW i \in DOMAIN f
      PROVE  /\ Value(P[i]) \in Nat
             /\ g[i] \in Bijection(1 .. Value(P[i]), U(P[i]))
  <2>1. IsLedger(P[i])
    BY ValueMonotone
  <2>2. IsFiniteSet(U(P[i])) /\ Value(P[i]) \in Nat
    BY <2>1, ValueType
  <2>3. Value(P[i]) = Cardinality(U(P[i]))
    BY DEF Value, Total
  <2>4. ExistsBijection(1 .. Value(P[i]), U(P[i]))
    BY <2>2, <2>3, FS_CardinalityType
  <2> QED BY <2>2, <2>4 DEF ExistsBijection
<1>2. ASSUME NEW u \in Units(f)
      PROVE  /\ u[1] \in DOMAIN f /\ u[2] \in 1 .. Value(P[u[1]])
             /\ u = <<u[1], u[2]>>
  <2>1. PICK x \in DOMAIN f : u \in {x} \X (1 .. f[x])
    BY DEF Units
  <2>2. PICK k \in 1 .. f[x] : u = <<x, k>>
    BY <2>1
  <2>3. Value(P[x]) \in Nat /\ f[x] \in Nat /\ f[x] <= Value(P[x])
    BY <1>1
  <2>4. k \in 1 .. Value(P[x])
    BY <2>3
  <2> QED BY <2>2, <2>4
<1> HIDE DEF g
<1>3. ASSUME NEW u \in Units(f)
      PROVE  h[u] = g[u[1]][u[2]] /\ h[u] \in U(P[u[1]])
  BY <1>1, <1>2 DEF Bijection, Injection
<1>4. ASSUME NEW i \in DOMAIN f
      PROVE  /\ U(P[i]) \subseteq U(S)
             /\ \A w \in U(P[i]) : w[1] \in P[i]
  BY LedgerUnits
<1>5. ASSUME NEW u \in Units(f), NEW v \in Units(f), h[u] = h[v]
      PROVE  u = v
  <2>1. u[1] = v[1]
    <3>1. h[u][1] \in P[u[1]] /\ h[v][1] \in P[v[1]]
      BY <1>2, <1>3, <1>4
    <3> QED BY <1>2, <1>5, <3>1
  <2>2. g[u[1]][u[2]] = g[u[1]][v[2]]
    BY <1>3, <1>5, <2>1
  <2>3. u[2] = v[2]
    BY <1>1, <1>2, <2>1, <2>2 DEF Bijection, Injection, IsInjective
  <2> QED BY <1>2, <2>1, <2>3
<1>6. h \in [Units(f) -> U(S)]
  BY <1>2, <1>3, <1>4
<1> HIDE DEF h
<1>7. h \in Injection(Units(f), U(S))
  BY <1>5, <1>6 DEF Injection, IsInjective
<1>8. IsFiniteSet(U(S))
  BY ValueType
<1> QED
  BY <1>7, <1>8, FS_Injection DEF Total, Value
=============================================================================
