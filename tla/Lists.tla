------------------------------- MODULE Lists -------------------------------
(***************************************************************************)
(* Facts about lists that the proofs about several components need: what   *)
(* the operators of SequencesExt return, and loops that carry a state from *)
(* one element of a list to the next.                                      *)
(***************************************************************************)
EXTENDS Integers, SequencesExt, SequenceTheorems, WellFoundedInduction, TLAPS

(* r is s without what is at p.                                            *)
Removed(r, s, p) ==
  /\ Len(r) = Len(s) - 1
  /\ \A i \in 1..Len(s) - 1 : r[i] = IF i < p THEN s[i] ELSE s[i + 1]

(* What RemoveAt returns.                                                  *)
LEMMA RemoveFacts ==
  ASSUME NEW S, NEW s \in Seq(S), NEW p \in 1..Len(s)
  PROVE  RemoveAt(s, p) \in Seq(S) /\ Removed(RemoveAt(s, p), s, p)
<1> DEFINE a == SubSeq(s, 1, p - 1)
           b == SubSeq(s, p + 1, Len(s))
<1>1. a \in Seq(S) /\ Len(a) = p - 1 /\ \A i \in 1..p - 1 : a[i] = s[i]
  BY SubSeqProperties
<1>2. b \in Seq(S) /\ Len(b) = Len(s) - p /\ \A i \in 1..Len(s) - p : b[i] = s[p + i]
  BY SubSeqProperties
<1> HIDE DEF a, b
<1>3. /\ a \o b \in Seq(S) /\ Len(a \o b) = Len(s) - 1
      /\ \A i \in 1..Len(s) - 1 : (a \o b)[i] = IF i <= p - 1 THEN a[i] ELSE b[i - (p - 1)]
  BY <1>1, <1>2, ConcatProperties
<1>4. \A i \in 1..Len(s) - 1 : (a \o b)[i] = IF i < p THEN s[i] ELSE s[i + 1]
  <2>1. SUFFICES ASSUME NEW i \in 1..Len(s) - 1
                 PROVE  (a \o b)[i] = IF i < p THEN s[i] ELSE s[i + 1]
    OBVIOUS
  <2>2. i \in Int /\ p \in Int
    BY LenProperties
  <2>3. CASE i < p
    BY <1>1, <1>3, <2>2, <2>3
  <2>4. CASE ~(i < p)
    <3>1. i - (p - 1) \in 1..Len(s) - p /\ p + (i - (p - 1)) = i + 1
      BY <2>2, <2>4, LenProperties
    <3>2. b[i - (p - 1)] = s[i + 1]
      BY <1>2, <3>1
    <3> QED BY <1>3, <2>2, <2>4, <3>2
  <2> QED BY <2>3, <2>4, Zenon
<1> QED BY <1>3, <1>4 DEF RemoveAt, Removed, a, b

(* A set of natural numbers has a least one.                               *)
LEMMA Least ==
  ASSUME NEW T \in SUBSET Nat, T # {}
  PROVE  \E m \in T : \A k \in T : m <= k
<1>1. PICK m \in T : \A k \in T : <<k, m>> \notin OpToRel(<, Nat)
  BY NatLessThanWellFounded, WFMin
<1>2. \A k \in T : ~(k < m)
  BY <1>1 DEF OpToRel
<1> QED BY <1>2

(* A property of the states a loop goes through, step by step: after i     *)
(* steps the state is in G[i].                                             *)
LEMMA LoopIn ==
  ASSUME NEW n \in Nat, NEW G, NEW g, g[0] \in G[0],
         \A i \in 1..n : g[i - 1] \in G[i - 1] => g[i] \in G[i]
  PROVE  \A i \in 0..n : g[i] \in G[i]
<1> DEFINE T == {i \in 0..n : g[i] \notin G[i]}
<1>1. SUFFICES ASSUME T # {} PROVE FALSE
  OBVIOUS
<1> T \in SUBSET Nat
  OBVIOUS
<1>2. PICK m \in T : \A k \in T : m <= k
  <2> HIDE DEF T
  <2> QED BY <1>1, Least
<1>3. m # 0
  OBVIOUS
<1>4. m - 1 \in 0..n /\ m - 1 \notin T /\ m \in 1..n
  BY <1>2, <1>3
<1>5. g[m - 1] \in G[m - 1]
  BY <1>4
<1> QED BY <1>4, <1>5

(* The states a loop goes through from s, with step R[i] the i-th.         *)
Iterates(g, n, s, R) == g = [i \in 0..n |-> IF i = 0 THEN s ELSE R[i][g[i - 1]]]

(* A loop has a result, whatever its steps.                                *)
LEMMA LoopExists ==
  ASSUME NEW n \in Nat, NEW s, NEW R
  PROVE  \E g : Iterates(g, n, s, R)
<1> DEFINE Runs(k, g) == g = [i \in 0..k |-> IF i = 0 THEN s ELSE R[i][g[i - 1]]]
           T == {k \in 0..n : ~ \E g : Runs(k, g)}
<1>1. SUFFICES ASSUME T # {} PROVE FALSE
  BY DEF Iterates
<1> T \in SUBSET Nat
  OBVIOUS
<1>2. PICK m \in T : \A k \in T : m <= k
  <2> HIDE DEF T
  <2> QED BY <1>1, Least
<1>3. Runs(0, [i \in 0..0 |-> s])
  OBVIOUS
<1>4. m # 0
  BY <1>3
<1>5. m - 1 \in 0..n /\ m - 1 \notin T /\ m \in 1..n
  <2>1. m \in 0..n
    BY <1>2
  <2>2. m - 1 \in 0..n /\ m \in 1..n
    BY <1>4, <2>1
  <2>3. m - 1 \notin T
    <3> HIDE DEF T
    <3> QED BY <1>2, <2>2
  <2> QED BY <2>2, <2>3
<1>6. PICK g : Runs(m - 1, g)
  BY <1>5
<1> DEFINE h == [i \in 0..m |-> IF i = m THEN R[m][g[m - 1]] ELSE g[i]]
<1>7. \A i \in 0..m : h[i] = IF i = 0 THEN s ELSE R[i][h[i - 1]]
  <2>1. SUFFICES ASSUME NEW i \in 0..m PROVE h[i] = IF i = 0 THEN s ELSE R[i][h[i - 1]]
    OBVIOUS
  <2>2. CASE i = m
    <3>1. h[m] = R[m][g[m - 1]] /\ h[m - 1] = g[m - 1]
      BY <1>5
    <3> QED BY <1>4, <2>2, <3>1
  <2>3. CASE i # m
    <3>1. i \in 0..m - 1 /\ (i # 0 => i - 1 \in 0..m /\ i - 1 # m)
      BY <1>5, <2>3
    <3>2. h[i] = g[i] /\ (i # 0 => h[i - 1] = g[i - 1])
      BY <3>1
    <3>3. g[i] = IF i = 0 THEN s ELSE R[i][g[i - 1]]
      BY <1>6, <3>1
    <3> QED BY <3>2, <3>3
  <2> QED BY <2>2, <2>3
<1>8. Runs(m, h)
  BY <1>7, Zenon
<1> QED BY <1>2, <1>8

(* The place of the first element that passes a test, where one does.      *)
LEMMA FirstPlace ==
  ASSUME NEW I \in SUBSET Nat, I # {}
  PROVE  Min(I) \in I
<1>1. \E m \in I : \A k \in I : m <= k
  BY Least
<1> QED BY <1>1 DEF Min
=============================================================================
