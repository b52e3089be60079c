-------------------------- MODULE SellItemsProofs --------------------------
(* What the operators on lists of goods return, for every list, and what sums *)
(* over finite sets of orders come to.                                        *)
EXTENDS SellItems, SequenceTheorems, FiniteSetsExt, FiniteSetTheorems, TLAPS

(* Looking an item's goods up in its list finds that item's amount. *)
LEMMA NumOfItem ==
    ASSUME NEW G, NEW N, NEW l, IsItemList(l, G, N), NEW k \in 1..Len(l)
    PROVE  /\ l[k].goods \in G /\ l[k].num \in N
           /\ NumOf(l, l[k].goods) = l[k].num
<1>1. l \in Seq([goods : G, num : N])
  BY DEF IsItemList
<1>2. l[k] \in [goods : G, num : N]
  BY <1>1, ElementOfSeq
<1>3. l[k].goods \in GoodsOf(l)
  BY DEF GoodsOf
<1>4. PICK j \in 1..Len(l) : j = CHOOSE i \in 1..Len(l) : l[i].goods = l[k].goods
  OBVIOUS
<1>5. l[j].goods = l[k].goods
  BY <1>4
<1>6. j = k
  BY <1>5 DEF IsItemList, Distinct
<1> QED
  BY <1>2, <1>3, <1>4, <1>6 DEF NumOf

(* The goods and amounts of a list are of the list's types. *)
LEMMA GoodsOfType ==
    ASSUME NEW G, NEW N, NEW l, IsItemList(l, G, N), NEW g \in GoodsOf(l)
    PROVE  g \in G /\ NumOf(l, g) \in N
<1>1. PICK k \in 1..Len(l) : l[k].goods = g
  BY DEF GoodsOf
<1> QED
  BY <1>1, NumOfItem
-----------------------------------------------------------------------------
(* Sums over finite sets.  MapThenSumSet picks the elements one by one; that  *)
(* the order does not matter is induction over finite sets, in the form of a  *)
(* least counterexample.                                                      *)

(* A set of bad subsets of a finite set has a least one. *)
LEMMA LeastBad ==
    ASSUME NEW S, IsFiniteSet(S), NEW Bad, Bad \subseteq SUBSET S, Bad # {}
    PROVE  \E T \in Bad : \A x \in T : T \ {x} \notin Bad
<1>1. Bad \subseteq FiniteSubsetsOf(S)
  BY FS_Subset DEF FiniteSubsetsOf
<1>2. PICK T \in Bad : \A U \in Bad : <<U, T>> \notin StrictSubsetOrdering(S)
  BY <1>1, FS_StrictSubsetOrderingWellFounded, WFMin
<1>3. ASSUME NEW x \in T, T \ {x} \in Bad PROVE FALSE
  <2>1. <<T \ {x}, T>> \in StrictSubsetOrdering(S)
    BY DEF StrictSubsetOrdering
  <2> QED
    BY <1>2, <1>3, <2>1
<1> QED
  BY <1>3

Pick(s) == CHOOSE x \in s : TRUE

(* F gives the sum of w over each subset of S. *)
IsSum(F, w, S) ==
    F = [s \in SUBSET S |-> IF s = {} THEN 0 ELSE w[Pick(s)] + F[s \ {Pick(s)}]]

SumOf(w, A) == MapThenSumSet(LAMBDA x : w[x], A)

(* One step of a sum. *)
LEMMA SumStep ==
    ASSUME NEW F, NEW w, NEW S, IsSum(F, w, S), NEW s \in SUBSET S
    PROVE  /\ s = {} => F[s] = 0
           /\ s # {} => Pick(s) \in s /\ F[s] = w[Pick(s)] + F[s \ {Pick(s)}]
<1>1. s # {} => Pick(s) \in s
  BY DEF Pick
<1>2. F[s] = IF s = {} THEN 0 ELSE w[Pick(s)] + F[s \ {Pick(s)}]
  BY DEF IsSum
<1> QED
  BY <1>1, <1>2

(* A sum depends on the summands alone. *)
LEMMA SumsAgree ==
    ASSUME NEW F, NEW w, NEW S, IsSum(F, w, S),
           NEW G, NEW v, NEW T, IsSum(G, v, T),
           NEW A \in SUBSET (S \cap T), IsFiniteSet(A), \A x \in A : w[x] = v[x]
    PROVE  F[A] = G[A]
<1> DEFINE Bad == {s \in SUBSET A : F[s] # G[s]}
<1> SUFFICES ASSUME Bad # {} PROVE FALSE
  OBVIOUS
<1>1. PICK s \in Bad : \A x \in s : s \ {x} \notin Bad
  BY LeastBad
<1>2. /\ s = {} => F[s] = 0 /\ G[s] = 0
      /\ s # {} => /\ Pick(s) \in s
                   /\ F[s] = w[Pick(s)] + F[s \ {Pick(s)}]
                   /\ G[s] = v[Pick(s)] + G[s \ {Pick(s)}]
  BY SumStep
<1> QED
  BY <1>1, <1>2

(* A finite set has a function that sums over its subsets. *)
LEMMA SumExists ==
    ASSUME NEW w, NEW S, IsFiniteSet(S)
    PROVE  \E F : IsSum(F, w, S)
<1> DEFINE Bad == {T \in SUBSET S : ~ \E F : IsSum(F, w, T)}
<1> SUFFICES ASSUME Bad # {} PROVE FALSE
  OBVIOUS
<1>1. PICK T \in Bad : \A x \in T : T \ {x} \notin Bad
  BY LeastBad
<1> HIDE DEF Bad
<1>2. T \subseteq S /\ ~ \E F : IsSum(F, w, T)
  BY DEF Bad
<1>3. CASE T = {}
  <2>1. SUBSET T = {{}}
    BY <1>3
  <2>2. IsSum([s \in {{}} |-> 0], w, T)
    BY <2>1 DEF IsSum
  <2> QED
    BY <1>2, <2>2
<1>4. CASE T # {}
  <2> DEFINE G(x) == CHOOSE F : IsSum(F, w, T \ {x})
             H == [s \in SUBSET T |->
                      IF s = {} THEN 0 ELSE w[Pick(s)] + G(Pick(s))[s \ {Pick(s)}]]
  <2>1. ASSUME NEW x \in T PROVE IsSum(G(x), w, T \ {x})
    BY <1>1, <1>2 DEF Bad
  <2> HIDE DEF G
  <2>2. ASSUME NEW x \in T, NEW r \in SUBSET (T \ {x}) PROVE G(x)[r] = H[r]
    <3>1. /\ r = {} => G(x)[r] = 0
          /\ r # {} => Pick(r) \in r /\ G(x)[r] = w[Pick(r)] + G(x)[r \ {Pick(r)}]
      BY <2>1, SumStep
    <3>2. ASSUME r # {} PROVE G(x)[r \ {Pick(r)}] = G(Pick(r))[r \ {Pick(r)}]
      <4> DEFINE A == r \ {Pick(r)}
      <4>1. A \in SUBSET ((T \ {x}) \cap (T \ {Pick(r)})) /\ Pick(r) \in T
        BY <3>1, <3>2
      <4>2. IsFiniteSet(A)
        BY <1>2, FS_Subset
      <4> HIDE DEF A
      <4>3. IsSum(G(x), w, T \ {x}) /\ IsSum(G(Pick(r)), w, T \ {Pick(r)})
        BY <2>1, <4>1
      <4>4. G(x)[A] = G(Pick(r))[A]
        BY <4>1, <4>2, <4>3, SumsAgree
      <4> QED
        BY <4>4 DEF A
    <3> QED
      BY <3>1, <3>2
  <2>3. ASSUME NEW s \in SUBSET T, s # {}
        PROVE  G(Pick(s))[s \ {Pick(s)}] = H[s \ {Pick(s)}]
    <3>1. Pick(s) \in T /\ s \ {Pick(s)} \in SUBSET (T \ {Pick(s)})
      BY <2>3 DEF Pick
    <3> HIDE DEF H
    <3> QED
      BY <2>2, <3>1
  <2>4. H = [s \in SUBSET T |-> IF s = {} THEN 0 ELSE w[Pick(s)] + H[s \ {Pick(s)}]]
    <3> DEFINE K == [s \in SUBSET T |-> IF s = {} THEN 0 ELSE w[Pick(s)] + H[s \ {Pick(s)}]]
    <3>1. \A s \in SUBSET T : H[s] = K[s]
      BY <2>3
    <3>2. H = [s \in SUBSET T |-> H[s]] /\ K = [s \in SUBSET T |-> K[s]]
      OBVIOUS
    <3> HIDE DEF H, K
    <3>3. H = K
      BY <3>1, <3>2
    <3> QED
      BY <3>3 DEF K
  <2> HIDE DEF H
  <2>5. IsSum(H, w, T)
    BY <2>4 DEF IsSum
  <2> QED
    BY <1>2, <2>5
<1> QED
  BY <1>3, <1>4

(* Which element a sum takes first does not matter. *)
LEMMA SumTakes ==
    ASSUME NEW F, NEW w, NEW S, IsFiniteSet(S), IsSum(F, w, S), \A y \in S : w[y] \in Int,
           NEW A \in SUBSET S
    PROVE  /\ F[A] \in Int
           /\ \A x \in A : F[A] = w[x] + F[A \ {x}]
<1>0. ASSUME NEW s \in SUBSET S
      PROVE  /\ s = {} => F[s] = 0
             /\ s # {} => Pick(s) \in s /\ F[s] = w[Pick(s)] + F[s \ {Pick(s)}]
  <2>1. s # {} => Pick(s) \in s
    BY DEF Pick
  <2>2. F[s] = IF s = {} THEN 0 ELSE w[Pick(s)] + F[s \ {Pick(s)}]
    BY DEF IsSum
  <2> QED
    BY <2>1, <2>2
<1>1. \A s \in SUBSET S : F[s] \in Int
  <2> DEFINE Bad == {s \in SUBSET S : F[s] \notin Int}
  <2> SUFFICES ASSUME Bad # {} PROVE FALSE
    OBVIOUS
  <2>1. PICK s \in Bad : \A x \in s : s \ {x} \notin Bad
    BY LeastBad
  <2>2. /\ s = {} => F[s] = 0
        /\ s # {} => Pick(s) \in s /\ F[s] = w[Pick(s)] + F[s \ {Pick(s)}]
    BY <1>0
  <2>3. s # {} => w[Pick(s)] \in Int /\ F[s \ {Pick(s)}] \in Int
    BY <2>1, <2>2
  <2> QED
    BY <2>2, <2>3
<1>2. \A s \in SUBSET S : \A x \in s : F[s] = w[x] + F[s \ {x}]
  <2> DEFINE Bad == {s \in SUBSET S : \E x \in s : F[s] # w[x] + F[s \ {x}]}
  <2> SUFFICES ASSUME Bad # {} PROVE FALSE
    OBVIOUS
  <2>1. PICK s \in Bad : \A x \in s : s \ {x} \notin Bad
    BY LeastBad
  <2>2. PICK x \in s : F[s] # w[x] + F[s \ {x}]
    BY <2>1
  <2> DEFINE p == Pick(s)
             r == (s \ {p}) \ {x}
  <2>3. p \in s /\ F[s] = w[p] + F[s \ {p}]
    BY <1>0
  <2>4. p # x
    BY <2>2, <2>3
  <2>5. F[s \ {p}] = w[x] + F[r]
    BY <2>1, <2>2, <2>3, <2>4
  <2>6. r = (s \ {x}) \ {p} /\ F[s \ {x}] = w[p] + F[r]
    <3>1. s \ {x} \notin Bad /\ p \in s \ {x} /\ s \ {x} \in SUBSET S
      BY <2>1, <2>2, <2>3, <2>4
    <3>2. r = (s \ {x}) \ {p}
      OBVIOUS
    <3> HIDE DEF p, r
    <3> QED
      BY <3>1, <3>2
  <2>7. w[x] \in Int /\ w[p] \in Int /\ F[r] \in Int
    BY <1>1, <2>3
  <2> HIDE DEF p, r
  <2> QED
    BY <2>2, <2>3, <2>5, <2>6, <2>7
<1> QED
  BY <1>1, <1>2

(* MapThenSumSet gives such a sum. *)
LEMMA SumOfIsSum ==
    ASSUME NEW w, NEW A, IsFiniteSet(A)
    PROVE  \E F : IsSum(F, w, A) /\ SumOf(w, A) = F[A]
<1>1. SumOf(w, A) = (CHOOSE F : IsSum(F, w, A))[A]
  BY DEF SumOf, MapThenSumSet, MapThenFoldSet, IsSum, Pick
<1>2. IsSum(CHOOSE F : IsSum(F, w, A), w, A)
  BY SumExists
<1> QED
  BY <1>1, <1>2

LEMMA SumOfSame ==
    ASSUME NEW w, NEW v, NEW A, IsFiniteSet(A), \A x \in A : w[x] = v[x]
    PROVE  SumOf(w, A) = SumOf(v, A)
<1>1. PICK F : IsSum(F, w, A) /\ SumOf(w, A) = F[A]
  BY SumOfIsSum
<1>2. PICK G : IsSum(G, v, A) /\ SumOf(v, A) = G[A]
  BY SumOfIsSum
<1> QED
  BY <1>1, <1>2, SumsAgree

LEMMA SumOfNone == ASSUME NEW w PROVE SumOf(w, {}) = 0
<1>1. PICK F : IsSum(F, w, {}) /\ SumOf(w, {}) = F[{}]
  BY SumOfIsSum, FS_EmptySet
<1> QED
  BY <1>1, SumStep

LEMMA SumOfAdd ==
    ASSUME NEW w, NEW A, IsFiniteSet(A), NEW x, x \notin A, \A y \in A \cup {x} : w[y] \in Int
    PROVE  SumOf(w, A) \in Int /\ SumOf(w, A \cup {x}) = w[x] + SumOf(w, A)
<1> DEFINE B == A \cup {x}
<1>1. IsFiniteSet(B) /\ A = B \ {x} /\ x \in B /\ A \in SUBSET B /\ \A y \in B : w[y] \in Int
  BY FS_AddElement
<1> HIDE DEF B
<1>2. PICK F : IsSum(F, w, A) /\ SumOf(w, A) = F[A]
  BY SumOfIsSum
<1>3. PICK G : IsSum(G, w, B) /\ SumOf(w, B) = G[B]
  BY <1>1, SumOfIsSum
<1>4. G[B] = w[x] + G[A]
  BY <1>1, <1>3, SumTakes
<1>5. F[A] = G[A]
  BY <1>1, <1>2, <1>3, SumsAgree
<1>6. F[A] \in Int
  BY <1>2, SumTakes
<1> QED
  BY <1>2, <1>3, <1>4, <1>5, <1>6 DEF B
(* The terms of a sum over C are terms of a sum over D, each of another       *)
(* element of D, and D has no negative ones.                                  *)
IsPartOf(w, C, v, D, f) ==
    /\ IsFiniteSet(D)
    /\ f \in Injection(C, D)
    /\ \A d \in D : v[d] \in Nat
    /\ \A c \in C : w[c] = v[f[c]]

(* A sum without negative terms is not negative.                              *)
LEMMA SumOfNats ==
    ASSUME NEW F, NEW w, NEW S, IsFiniteSet(S), IsSum(F, w, S), \A y \in S : w[y] \in Nat
    PROVE  \A A \in SUBSET S : F[A] \in Nat
<1> DEFINE Bad == {s \in SUBSET S : F[s] \notin Nat}
<1> SUFFICES ASSUME Bad # {} PROVE FALSE
  OBVIOUS
<1>1. PICK s \in Bad : \A x \in s : s \ {x} \notin Bad
  BY LeastBad
<1>2. s \in SUBSET S /\ F[s] \notin Nat /\ \A x \in s : F[s \ {x}] \in Nat
  BY <1>1
<1> HIDE DEF Bad
<1>3. F[s] = IF s = {} THEN 0 ELSE w[Pick(s)] + F[s \ {Pick(s)}]
  BY <1>2 DEF IsSum
<1>4. s # {} => w[Pick(s)] \in Nat /\ F[s \ {Pick(s)}] \in Nat
  BY <1>2 DEF Pick
<1> QED
  BY <1>2, <1>3, <1>4

(* A part of a sum is no more than the sum.                                   *)
LEMMA PartOfSum ==
    ASSUME NEW w, NEW C, NEW v, NEW D, NEW f, IsPartOf(w, C, v, D, f)
    PROVE  /\ IsFiniteSet(C)
           /\ SumOf(w, C) \in Int /\ SumOf(v, D) \in Int
           /\ SumOf(w, C) <= SumOf(v, D)
<1>1. /\ f \in Injection(C, D)
      /\ \A c \in C : f[c] \in D /\ w[c] = v[f[c]] /\ w[c] \in Nat
      /\ \A c, d \in C : f[c] = f[d] => c = d
      /\ IsFiniteSet(D)
      /\ \A d \in D : v[d] \in Nat
  BY DEF IsPartOf, Injection, IsInjective
<1>2. IsFiniteSet(C)
  BY <1>1, FS_Injection
<1>3. PICK F : IsSum(F, w, C) /\ SumOf(w, C) = F[C]
  BY <1>2, SumOfIsSum
<1>4. PICK H : IsSum(H, v, D) /\ SumOf(v, D) = H[D]
  BY <1>1, SumOfIsSum
<1>5. /\ \A A \in SUBSET C : F[A] \in Nat
      /\ \A A \in SUBSET D : H[A] \in Nat
  BY <1>1, <1>2, <1>3, <1>4, SumOfNats
<1> DEFINE Rest(A) == {d \in D : \A c \in A : f[c] # d}
           Bad == {A \in SUBSET C : F[A] + H[Rest(A)] # H[D]}
<1>6. Bad = {}
  <2> SUFFICES ASSUME Bad # {} PROVE FALSE
    OBVIOUS
  <2>1. PICK A \in Bad : \A x \in A : A \ {x} \notin Bad
    BY <1>2, LeastBad
  <2>2. CASE A = {}
    <3>1. F[A] = 0 /\ Rest(A) = D
      BY <1>3, <2>2, SumStep
    <3>2. H[D] \in Nat /\ F[A] + H[Rest(A)] # H[D]
      BY <1>5, <2>1
    <3> HIDE DEF Rest, Bad
    <3> QED
      BY <3>1, <3>2
  <2>3. CASE A # {}
    <3>1. PICK x \in A : TRUE
      BY <2>3
    <3> DEFINE B == A \ {x}
    <3>2. B \notin Bad /\ B \in SUBSET C /\ x \in C
      BY <2>1, <3>1
    <3>3. F[B] + H[Rest(B)] = H[D]
      BY <3>2
    <3>4. F[A] = w[x] + F[B]
      <4>1. A \in SUBSET C /\ \A y \in C : w[y] \in Int
        BY <1>1, <2>1
      <4> QED
        BY <1>2, <1>3, <3>1, <4>1, SumTakes
    <3>5. f[x] \in Rest(B) /\ Rest(B) \ {f[x]} = Rest(A)
      BY <1>1, <2>1, <3>1
    <3>6. H[Rest(B)] = v[f[x]] + H[Rest(A)]
      <4>1. Rest(B) \in SUBSET D /\ \A y \in D : v[y] \in Int
        BY <1>1
      <4> HIDE DEF Rest, B
      <4>2. H[Rest(B)] = v[f[x]] + H[Rest(B) \ {f[x]}]
        <5>1. IsFiniteSet(D) /\ IsSum(H, v, D)
          BY <1>1, <1>4
        <5>2. PICK X \in SUBSET D : X = Rest(B)
          BY <4>1
        <5>3. \A y \in X : H[X] = v[y] + H[X \ {y}]
          BY <4>1, <5>1, SumTakes
        <5> QED
          BY <3>5, <5>2, <5>3
      <4> QED
        BY <3>5, <4>2
    <3>7. /\ F[B] \in Nat /\ w[x] \in Nat /\ w[x] = v[f[x]]
          /\ Rest(A) \in SUBSET D /\ Rest(B) \in SUBSET D
      BY <1>1, <1>5, <3>2
    <3>8. F[A] + H[Rest(A)] # H[D]
      BY <2>1
    <3> HIDE DEF Rest, B, Bad
    <3> QED
      BY <1>5, <3>3, <3>4, <3>6, <3>7, <3>8
  <2> QED
    BY <2>2, <2>3
<1>7. F[C] + H[Rest(C)] = H[D]
  BY <1>6
<1>8. Rest(C) \in SUBSET D
  OBVIOUS
<1> HIDE DEF Rest, Bad
<1> QED
  BY <1>2, <1>3, <1>4, <1>5, <1>7, <1>8
-----------------------------------------------------------------------------
(* What orders hold of a goods: status st[o] = 1 says that order o has        *)
(* deducted the list de[o] and not returned it.                               *)
HeldOrders(st) == {o \in DOMAIN st : st[o] = 1}
HeldOf(g, st, de) == SumOf([o \in DOMAIN st |-> NumOf(de[o], g)], HeldOrders(st))

(* The orders at hand are finitely many and their amounts are numbers. *)
HeldIsSum(G, st, de) ==
    /\ IsFiniteSet(HeldOrders(st))
    /\ \A o \in HeldOrders(st), g \in G : NumOf(de[o], g) \in Int

(* Order o deducts list l: the tables become st2 and de2. *)
Deducts(G, st, de, o, l, st2, de2) ==
    /\ HeldIsSum(G, st, de)
    /\ o \in DOMAIN st /\ o \in DOMAIN de /\ st[o] # 1
    /\ \A g \in G : NumOf(l, g) \in Int
    /\ st2 = [st EXCEPT ![o] = 1]
    /\ de2 = [de EXCEPT ![o] = l]

(* Order o gives back what it holds. *)
GivesBack(G, st, de, o, st2) ==
    /\ HeldIsSum(G, st, de)
    /\ o \in DOMAIN st /\ st[o] = 1
    /\ st2 = [st EXCEPT ![o] = 2]

(* A deduction adds its list to what is held. *)
LEMMA HeldGrows ==
    ASSUME NEW G, NEW st, NEW de, NEW o, NEW l, NEW st2, NEW de2,
           Deducts(G, st, de, o, l, st2, de2)
    PROVE  /\ HeldIsSum(G, st2, de2)
           /\ \A g \in G : /\ HeldOf(g, st, de) \in Int
                           /\ HeldOf(g, st2, de2) = HeldOf(g, st, de) + NumOf(l, g)
<1> DEFINE A == HeldOrders(st)
           Ord == DOMAIN st
<1> USE DEF Deducts
<1>1. HeldOrders(st2) = A \cup {o} /\ o \notin A /\ A \subseteq Ord
  BY DEF HeldOrders
<1>2. IsFiniteSet(A)
  BY DEF HeldIsSum
<1>3. DOMAIN st2 = Ord /\ de2[o] = l /\ \A x \in A : de2[x] = de[x]
  BY <1>1
<1> HIDE DEF A
<1>4. HeldIsSum(G, st2, de2)
  <2>1. IsFiniteSet(A \cup {o})
    BY <1>2, FS_AddElement, Zenon
  <2>2. \A x \in A \cup {o}, g \in G : NumOf(de2[x], g) \in Int
    BY <1>3 DEF HeldIsSum, A
  <2> QED
    BY <1>1, <2>1, <2>2 DEF HeldIsSum
<1>5. ASSUME NEW g \in G
      PROVE  /\ HeldOf(g, st, de) \in Int
             /\ HeldOf(g, st2, de2) = HeldOf(g, st, de) + NumOf(l, g)
  <2> DEFINE w == [x \in Ord |-> NumOf(de[x], g)]
             v == [x \in Ord |-> NumOf(de2[x], g)]
  <2>1. HeldOf(g, st, de) = SumOf(w, A)
    BY DEF HeldOf, A
  <2>2. HeldOf(g, st2, de2) = SumOf(v, A \cup {o})
    BY <1>1, <1>3 DEF HeldOf
  <2>3. (\A y \in A \cup {o} : v[y] \in Int) /\ v[o] = NumOf(l, g)
    BY <1>1, <1>3, <1>4 DEF HeldIsSum
  <2>4. \A y \in A : w[y] = v[y]
    BY <1>1, <1>3
  <2> HIDE DEF w, v
  <2>5. SumOf(v, A) \in Int /\ SumOf(v, A \cup {o}) = v[o] + SumOf(v, A)
    BY <1>1, <1>2, <2>3, SumOfAdd
  <2>6. SumOf(w, A) = SumOf(v, A)
    BY <1>2, <2>4, SumOfSame
  <2> QED
    BY <2>1, <2>2, <2>3, <2>5, <2>6
<1> QED
  BY <1>4, <1>5

(* A return takes the order's list out of what is held. *)
LEMMA HeldShrinks ==
    ASSUME NEW G, NEW st, NEW de, NEW o, NEW st2, GivesBack(G, st, de, o, st2)
    PROVE  /\ HeldIsSum(G, st2, de)
           /\ \A g \in G : /\ HeldOf(g, st2, de) \in Int
                           /\ HeldOf(g, st, de) = HeldOf(g, st2, de) + NumOf(de[o], g)
<1> DEFINE A == HeldOrders(st2)
           Ord == DOMAIN st
<1> USE DEF GivesBack
<1>1. HeldOrders(st) = A \cup {o} /\ A = HeldOrders(st) \ {o} /\ o \notin A /\ A \subseteq Ord
  BY DEF HeldOrders
<1>2. DOMAIN st2 = Ord
  OBVIOUS
<1>3. IsFiniteSet(A)
  <2>1. IsFiniteSet(HeldOrders(st))
    BY DEF HeldIsSum
  <2>2. IsFiniteSet(HeldOrders(st) \ {o})
    BY <2>1, FS_RemoveElement, Zenon
  <2> QED
    BY <1>1, <2>2
<1>4. HeldIsSum(G, st2, de)
  BY <1>1, <1>3 DEF HeldIsSum
<1>5. ASSUME NEW g \in G
      PROVE  /\ HeldOf(g, st2, de) \in Int
             /\ HeldOf(g, st, de) = HeldOf(g, st2, de) + NumOf(de[o], g)
  <2> DEFINE w == [x \in Ord |-> NumOf(de[x], g)]
  <2>1. HeldOf(g, st, de) = SumOf(w, A \cup {o})
    BY <1>1 DEF HeldOf
  <2>2. HeldOf(g, st2, de) = SumOf(w, A)
    BY <1>2 DEF HeldOf
  <2>3. (\A y \in A \cup {o} : w[y] \in Int) /\ w[o] = NumOf(de[o], g)
    BY <1>1 DEF HeldIsSum
  <2> HIDE DEF w
  <2>4. SumOf(w, A) \in Int /\ SumOf(w, A \cup {o}) = w[o] + SumOf(w, A)
    BY <1>1, <1>3, <2>3, SumOfAdd
  <2> QED
    BY <2>1, <2>2, <2>3, <2>4
<1> QED
  BY <1>4, <1>5
-----------------------------------------------------------------------------
(* What lists de[o] ask of a goods, summed over the o in A, as models say it. *)
GoodsSum(g, de, A) == MapThenSumSet(LAMBDA o : NumOf(de[o], g), A)

LEMMA GoodsSumIsSumOf ==
    ASSUME NEW g, NEW de, NEW A, IsFiniteSet(A)
    PROVE  GoodsSum(g, de, A) = SumOf([o \in A |-> NumOf(de[o], g)], A)
<1> DEFINE w == [o \in A |-> NumOf(de[o], g)]
           IsNumSum(F) ==
               F = [s \in SUBSET A |-> IF s = {} THEN 0
                                       ELSE NumOf(de[Pick(s)], g) + F[s \ {Pick(s)}]]
<1>1. GoodsSum(g, de, A) = (CHOOSE F : IsNumSum(F))[A]
  BY DEF GoodsSum, MapThenSumSet, MapThenFoldSet, Pick
<1>2. PICK F : IsSum(F, w, A) /\ SumOf(w, A) = F[A]
  BY SumOfIsSum
<1>3. ASSUME NEW G PROVE IsNumSum(G) <=> IsSum(G, w, A)
  <2>1. \A s \in SUBSET A : s # {} => w[Pick(s)] = NumOf(de[Pick(s)], g)
    BY DEF Pick
  <2> DEFINE X == [s \in SUBSET A |-> IF s = {} THEN 0
                                      ELSE NumOf(de[Pick(s)], g) + G[s \ {Pick(s)}]]
             Y == [s \in SUBSET A |-> IF s = {} THEN 0 ELSE w[Pick(s)] + G[s \ {Pick(s)}]]
  <2>2. X = Y
    <3> HIDE DEF w
    <3> QED
      BY <2>1
  <2>3. IsNumSum(G) <=> G = X
    OBVIOUS
  <2>4. IsSum(G, w, A) <=> G = Y
    BY DEF IsSum
  <2> HIDE DEF X, Y, IsNumSum, w
  <2> QED
    BY <2>2, <2>3, <2>4
<1> DEFINE N == CHOOSE G : IsNumSum(G)
<1> HIDE DEF IsNumSum, w
<1>4. IsNumSum(N)
  BY <1>2, <1>3
<1>5. IsSum(N, w, A)
  BY <1>3, <1>4
<1>6. N[A] = F[A]
  BY <1>2, <1>5, SumsAgree
<1> QED
  BY <1>1, <1>2, <1>6 DEF w

(* StockLedger's Held, at any state of its tables, is what orders hold. *)
LedgerSum(Ord, g, st, de) == GoodsSum(g, de, {o \in Ord : st[o] = 1})

LEMMA LedgerSumIsHeldOf ==
    ASSUME NEW Ord, NEW st, NEW de, NEW g, DOMAIN st = Ord, IsFiniteSet(HeldOrders(st))
    PROVE  LedgerSum(Ord, g, st, de) = HeldOf(g, st, de)
<1> DEFINE A == HeldOrders(st)
           w == [o \in A |-> NumOf(de[o], g)]
           v == [o \in Ord |-> NumOf(de[o], g)]
<1>1. LedgerSum(Ord, g, st, de) = GoodsSum(g, de, A) /\ HeldOf(g, st, de) = SumOf(v, A)
  BY DEF LedgerSum, HeldOf, HeldOrders
<1>2. \A o \in A : w[o] = v[o]
  BY DEF HeldOrders
<1>3. GoodsSum(g, de, A) = SumOf(w, A)
  BY GoodsSumIsSumOf
<1> HIDE DEF w, v, A
<1>4. SumOf(w, A) = SumOf(v, A)
  BY <1>2, SumOfSame DEF A
<1> QED
  BY <1>1, <1>3, <1>4
=============================================================================
