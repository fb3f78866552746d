---------------------------- MODULE RunLoopProofs ----------------------------
(***************************************************************************)
(* Proofs about RunLoop, for any number of timers, sources and callbacks   *)
(* and any width of the counter: as long as delays and delays of the loop  *)
(* stay below half of its range, its wrapping around is never seen (Inv),  *)
(* and the links of the sources lead a pass to every source although       *)
(* handlers add and remove them meanwhile (SourceInv).                     *)
(***************************************************************************)
EXTENDS RunLoop, Lists

(* a and b are d apart, up to the wrapping of the counter.                 *)
Apart(a, b, d) == a - b - d \in {-2 * Half, 0, 2 * Half}

TypeInv ==
  /\ now \in Time /\ limit \in Time /\ lag \in 0..MaxLate
  /\ timers \in Seq(Timers) /\ sources \in Seq(Sources) /\ callbacks \in Seq(Callbacks)
  /\ timeout \in [Timers -> Time] /\ left \in [Timers -> Int]

Distinct == \A i, j \in 1..Len(timers) : timers[i] = timers[j] => i = j
InRange == \A i \in 1..Len(timers) : left[timers[i]] \in -MaxLate..MaxDelay + 1
Linked == \A i \in 1..Len(timers) : Apart(timeout[timers[i]], now, left[timers[i]])

(* In the phase of the timers: when it began, and that a timer which has   *)
(* fired in it and is registered again is due after that.                  *)
Lagging == phase = "timers" => Apart(now, limit, lag)
NotAgain ==
  phase = "timers" => \A i \in 1..Len(timers) : timers[i] \in done => left[timers[i]] + lag > 0

TimerInv == Distinct /\ InRange /\ Linked /\ DueFirst /\ Lagging /\ NotAgain
Inv == TypeInv /\ TimerInv

----------------------------------------------------------------------------
(* The counter *)

(* The difference of two points in time is what they are apart, if that is *)
(* less than half of the range.                                            *)
LEMMA DeltaIsApart ==
  ASSUME NEW a \in Time, NEW b \in Time, NEW d \in Int, Apart(a, b, d), -Half < d, d < Half
  PROVE  Delta(a, b) = d
BY TimeAssumption DEF Time, Apart, Delta

(* The sum is as far away as was added.                                    *)
LEMMA PlusIsApart ==
  ASSUME NEW a \in Time, NEW k \in 0..MaxDelay + 1
  PROVE  Plus(a, k) \in Time /\ Apart(Plus(a, k), a, k)
BY TimeAssumption DEF Time, Apart, Plus

(* Being apart adds up; what does not fit into the range falls away.       *)
LEMMA ApartAdds ==
  ASSUME NEW a \in Time, NEW b \in Time, NEW c \in Time, NEW d \in Int, NEW e \in Int,
         Apart(a, b, d), Apart(b, c, e), -Half < d + e, d + e < Half
  PROVE  Apart(a, c, d + e)
BY TimeAssumption DEF Time, Apart

(* The distance back is the opposite.                                      *)
LEMMA ApartReverses ==
  ASSUME NEW a \in Time, NEW b \in Time, NEW d \in Int, Apart(a, b, d)
  PROVE  Apart(b, a, -d)
BY TimeAssumption DEF Time, Apart

----------------------------------------------------------------------------
(* Lists *)

(* r is s with e inserted at p.                                            *)
Inserted(r, s, p, e) ==
  /\ Len(r) = Len(s) + 1
  /\ \A i \in 1..Len(s) + 1 : r[i] = IF i < p THEN s[i] ELSE IF i = p THEN e ELSE s[i - 1]

(* What InsertAt returns.                                                  *)
LEMMA InsertFacts ==
  ASSUME NEW S, NEW s \in Seq(S), NEW e \in S, NEW p \in 1..Len(s) + 1
  PROVE  InsertAt(s, p, e) \in Seq(S) /\ Inserted(InsertAt(s, p, e), s, p, e)
<1> DEFINE a == SubSeq(s, 1, p - 1)
           b == SubSeq(s, p, Len(s))
<1>1. a \in Seq(S) /\ Len(a) = p - 1 /\ \A i \in 1..p - 1 : a[i] = s[i]
  BY SubSeqProperties
<1>2. b \in Seq(S) /\ Len(b) = Len(s) + 1 - p /\ \A i \in 1..Len(s) + 1 - p : b[i] = s[p + i - 1]
  BY SubSeqProperties
<1>3. <<e>> \in Seq(S) /\ Len(<<e>>) = 1 /\ <<e>>[1] = e
  OBVIOUS
<1> HIDE DEF a, b
<1>4. /\ a \o <<e>> \in Seq(S) /\ Len(a \o <<e>>) = p
      /\ \A i \in 1..p : (a \o <<e>>)[i] = IF i < p THEN s[i] ELSE e
  BY <1>1, <1>3
<1> DEFINE c == a \o <<e>>
<1>5. /\ c \in Seq(S) /\ Len(c) = p
      /\ \A i \in 1..p : c[i] = IF i < p THEN s[i] ELSE e
  BY <1>4
<1> HIDE DEF c
<1>6. /\ c \o b \in Seq(S) /\ Len(c \o b) = Len(s) + 1
      /\ \A i \in 1..Len(s) + 1 : (c \o b)[i] = IF i <= p THEN c[i] ELSE b[i - p]
  BY <1>2, <1>5, ConcatProperties
<1>7. \A i \in 1..Len(s) + 1 :
        (c \o b)[i] = IF i < p THEN s[i] ELSE IF i = p THEN e ELSE s[i - 1]
  <2>1. SUFFICES ASSUME NEW i \in 1..Len(s) + 1
                 PROVE  (c \o b)[i] = IF i < p THEN s[i] ELSE IF i = p THEN e ELSE s[i - 1]
    OBVIOUS
  <2>2. CASE i <= p
    BY <1>5, <1>6, <2>2
  <2>3. CASE i > p
    <3>1. i - p \in 1..Len(s) + 1 - p /\ p + (i - p) - 1 = i - 1
      BY <2>3
    <3>2. b[i - p] = s[i - 1]
      BY <1>2, <3>1
    <3> QED BY <1>6, <2>3, <3>2
  <2>4. i <= p \/ i > p
    OBVIOUS
  <2> QED BY <2>2, <2>3, <2>4, Zenon
<1> QED BY <1>6, <1>7 DEF InsertAt, Inserted, a, b, c

(* Where a timer is inserted: after those that are due before it or at the *)
(* same time.                                                              *)
LEMMA PlaceFacts ==
  ASSUME timers \in Seq(Timers), timeout \in [Timers -> Time], NEW t, NEW due \in Time
  PROVE  /\ Place(t, due) \in 1..Len(timers) + 1
         /\ \A i \in 1..Place(t, due) - 1 : Delta(due, timeout[timers[i]]) >= 0
         /\ Place(t, due) <= Len(timers) => Delta(due, timeout[timers[Place(t, due)]]) < 0
<1> DEFINE Later(p) == Delta(due, timeout[timers[p]]) < 0
           T == {p \in 1..Len(timers) + 1 : p <= Len(timers) => Later(p)}
<1>1. Len(timers) \in Nat
  BY LenProperties
<1>2. \A i \in 1..Len(timers) : timeout[timers[i]] \in Time
  BY ElementOfSeq
<1>3. \A i \in 1..Len(timers) : Delta(due, timeout[timers[i]]) \in Int
  BY <1>2, TimeAssumption DEF Delta, Time
<1>4. T \in SUBSET Nat /\ Len(timers) + 1 \in T
  BY <1>1
<1>5. PICK m \in T : \A k \in T : m <= k
  BY <1>4, Least
<1>6. m \in 1..Len(timers) + 1 /\ (m <= Len(timers) => Later(m))
  BY <1>5
<1>7. \A i \in 1..m - 1 : Delta(due, timeout[timers[i]]) >= 0
  BY <1>1, <1>3, <1>5, <1>6
<1> QED BY <1>6, <1>7 DEF Place

----------------------------------------------------------------------------
(* The steps *)

(* Every element of the list of timers.                                    *)
LEMMA Member ==
  ASSUME TypeInv, NEW i \in 1..Len(timers)
  PROVE  /\ timers[i] \in Timers /\ timeout[timers[i]] \in Time /\ left[timers[i]] \in Int
         /\ Len(timers) \in Nat /\ i \in Int
BY ElementOfSeq, LenProperties DEF TypeInv

(* Steps that leave time and timers alone, and do not begin to process the *)
(* timers.                                                                 *)
LEMMA OtherSteps ==
  ASSUME TimerInv, UNCHANGED timing,
         phase' = "timers" => phase = "timers" /\ done' = done /\ limit' = limit
  PROVE  TimerInv'
BY DEF TimerInv, Distinct, InRange, Linked, DueFirst, Lagging, NotAgain, timing

(* Inv holds at first.                                                     *)
LEMMA InitInv == Init => Inv
BY TimeAssumption, Zenon, SMT
   DEF Init, Inv, TypeInv, TimerInv, Distinct, InRange, Linked, DueFirst, Lagging, NotAgain, Time

(* A timer is set.                                                         *)
LEMMA SetTimerStep ==
  ASSUME Inv, NEW t \in Timers, NEW k \in 0..MaxDelay, SetTimer(t, k)
  PROVE  TimerInv' /\ timers' \in Seq(Timers) /\ timeout' \in [Timers -> Time]
         /\ left' \in [Timers -> Int]
<1> DEFINE due == Plus(now, DueIn(k))
           n == Len(timers)
<1>1. /\ TypeInv /\ n \in Nat /\ k \in Int /\ k >= 0 /\ k + 1 <= MaxDelay + 1
      /\ DueIn(k) = k + 1 /\ MaxDelay \in Nat /\ MaxLate \in Nat /\ Half \in Nat
      /\ MaxDelay + 1 + MaxLate < Half
  BY TimeAssumption, LenProperties DEF Inv, DueIn, TypeInv
<1>2. due \in Time /\ Apart(due, now, k + 1)
  BY <1>1, PlusIsApart DEF TypeInv
<1> HIDE DEF due
<1>3. PICK p : p = Place(t, due)
  OBVIOUS
<1>4. /\ p \in 1..n + 1
      /\ \A i \in 1..p - 1 : Delta(due, timeout[timers[i]]) >= 0
      /\ p <= n => Delta(due, timeout[timers[p]]) < 0
  BY <1>1, <1>2, <1>3, PlaceFacts DEF TypeInv
<1>5. timers' = InsertAt(timers, p, t)
  BY <1>3 DEF SetTimer, due
<1>6. /\ timers' \in Seq(Timers) /\ Len(timers') = n + 1
      /\ \A i \in 1..n + 1 :
           timers'[i] = IF i < p THEN timers[i] ELSE IF i = p THEN t ELSE timers[i - 1]
  <2>1. timers \in Seq(Timers) /\ t \in Timers /\ p \in 1..Len(timers) + 1
    BY <1>1, <1>4 DEF TypeInv
  <2>2. timers' \in Seq(Timers) /\ Inserted(timers', timers, p, t)
    BY <1>5, <2>1, InsertFacts
  <2> QED BY <2>2 DEF Inserted
<1>7. timeout' = [timeout EXCEPT ![t] = due] /\ left' = [left EXCEPT ![t] = k + 1]
  BY <1>1 DEF SetTimer, due
<1>8. \A i \in 1..n : timers[i] # t
  BY DEF SetTimer, Has
<1>9. \A i \in 1..n :
        timers[i] \in Timers /\ timeout[timers[i]] \in Time /\ left[timers[i]] \in -MaxLate..MaxDelay + 1
        /\ timeout'[timers[i]] = timeout[timers[i]] /\ left'[timers[i]] = left[timers[i]]
  BY <1>1, <1>7, <1>8, Member DEF Inv, TimerInv, InRange, TypeInv
<1>10. timeout'[t] = due /\ left'[t] = k + 1
  BY <1>7 DEF Inv, TypeInv
(* How the new timer compares with those in the list.                      *)
<1>11. \A i \in 1..n : Delta(due, timeout[timers[i]]) = k + 1 - left[timers[i]]
  <2> SUFFICES ASSUME NEW i \in 1..n
               PROVE  Delta(due, timeout[timers[i]]) = k + 1 - left[timers[i]]
    OBVIOUS
  <2> DEFINE to == timeout[timers[i]]
             le == left[timers[i]]
  <2>1. to \in Time /\ le \in -MaxLate..MaxDelay + 1 /\ Apart(to, now, le)
    BY <1>9 DEF Inv, TimerInv, Linked
  <2> HIDE DEF to, le
  <2>2. now \in Time /\ le \in Int /\ -le \in Int /\ k + 1 \in Int
    BY <1>1, <2>1 DEF TypeInv
  <2>3. Apart(now, to, -le)
    BY <2>1, <2>2, ApartReverses
  <2>4. -Half < (k + 1) + (-le) /\ (k + 1) + (-le) < Half /\ (k + 1) + (-le) = k + 1 - le
    BY <1>1, <2>1
  <2>5. Apart(due, to, (k + 1) + (-le))
    BY <1>2, <2>1, <2>2, <2>3, <2>4, ApartAdds
  <2>6. Delta(due, to) = k + 1 - le
    BY <1>1, <1>2, <2>1, <2>2, <2>4, <2>5, DeltaIsApart
  <2> QED BY <2>6 DEF to, le
<1>12. /\ \A i \in 1..p - 1 : left[timers[i]] <= k + 1
       /\ \A i \in p..n : k + 1 <= left[timers[i]]
  <2>1. \A i \in 1..p - 1 : left[timers[i]] <= k + 1
    <3> SUFFICES ASSUME NEW i \in 1..p - 1 PROVE left[timers[i]] <= k + 1
      OBVIOUS
    <3>1. i \in 1..n /\ Delta(due, timeout[timers[i]]) >= 0
      BY <1>1, <1>4
    <3>2. left[timers[i]] \in Int /\ k + 1 - left[timers[i]] >= 0
      BY <1>1, <1>9, <1>11, <3>1
    <3> QED BY <1>1, <3>2
  <2>2. \A i \in p..n : left[timers[p]] <= left[timers[i]]
    BY <1>1, <1>4, <1>9 DEF Inv, TimerInv, DueFirst
  <2>3. p <= n => k + 1 <= left[timers[p]]
    BY <1>1, <1>4, <1>9, <1>11
  <2>4. \A i \in p..n : k + 1 <= left[timers[i]]
    BY <1>1, <1>4, <1>9, <2>2, <2>3
  <2> QED BY <2>1, <2>4
<1>13. \A i \in 1..n + 1 :
         \/ i < p /\ i \in 1..n /\ timers'[i] = timers[i]
         \/ i = p /\ timers'[i] = t
         \/ i > p /\ i - 1 \in p..n /\ i - 1 \in 1..n /\ timers'[i] = timers[i - 1]
  BY <1>1, <1>4, <1>6
<1>14. Distinct'
  <2>1. \A i, j \in 1..n : timers[i] = timers[j] => i = j
    BY DEF Inv, TimerInv, Distinct
  <2>2. \A i, j \in 1..n + 1 : timers'[i] = timers'[j] => i = j
    <3> SUFFICES ASSUME NEW i \in 1..n + 1, NEW j \in 1..n + 1, timers'[i] = timers'[j]
                 PROVE  i = j
      OBVIOUS
    <3>1. CASE i = p \/ j = p
      BY <1>1, <1>4, <1>8, <1>13, <3>1
    <3>2. CASE i < p /\ j < p
      BY <1>1, <1>4, <1>13, <2>1, <3>2
    <3>3. CASE i > p /\ j > p
      BY <1>1, <1>4, <1>13, <2>1, <3>3
    <3>4. CASE i < p /\ j > p
      BY <1>1, <1>4, <1>13, <2>1, <3>4
    <3>5. CASE i > p /\ j < p
      BY <1>1, <1>4, <1>13, <2>1, <3>5
    <3> QED BY <1>1, <1>4, <3>1, <3>2, <3>3, <3>4, <3>5
  <2> QED BY <1>6, <2>2 DEF Distinct
<1>15. InRange'
  <2>1. k + 1 \in -MaxLate..MaxDelay + 1
    BY <1>1
  <2>2. \A i \in 1..n + 1 : left'[timers'[i]] \in -MaxLate..MaxDelay + 1
    BY <1>9, <1>10, <1>13, <2>1
  <2> QED BY <1>6, <2>2 DEF InRange
<1>16. Linked'
  <2>1. now' = now
    BY DEF SetTimer
  <2>2. \A i \in 1..n : Apart(timeout[timers[i]], now, left[timers[i]])
    BY DEF Inv, TimerInv, Linked
  <2>3. \A i \in 1..n + 1 : Apart(timeout'[timers'[i]], now, left'[timers'[i]])
    BY <1>2, <1>9, <1>10, <1>13, <2>2
  <2> QED BY <1>6, <2>1, <2>3 DEF Linked
<1>17. DueFirst'
  <2>1. \A i, j \in 1..n : i < j => left[timers[i]] <= left[timers[j]]
    BY DEF Inv, TimerInv, DueFirst
  <2>2. ASSUME NEW i \in 1..n + 1, NEW j \in 1..n + 1, i < j
        PROVE  left'[timers'[i]] <= left'[timers'[j]]
    <3>1. CASE i < p /\ j < p
      BY <1>1, <1>4, <1>9, <1>13, <2>1, <2>2, <3>1
    <3>2. CASE i < p /\ j = p
      BY <1>1, <1>4, <1>9, <1>10, <1>12, <1>13, <3>2
    <3>3. CASE i < p /\ j > p
      <4>1. /\ i \in 1..p - 1 /\ j - 1 \in p..n /\ i \in 1..n /\ j - 1 \in 1..n
            /\ timers'[i] = timers[i] /\ timers'[j] = timers[j - 1]
        BY <1>1, <1>4, <1>13, <3>3
      <4>2. left[timers[i]] <= k + 1 /\ k + 1 <= left[timers[j - 1]]
        BY <1>12, <4>1
      <4> QED BY <1>1, <1>9, <4>1, <4>2, SMTT(30)
    <3>4. CASE i = p /\ j > p
      <4>1. /\ j - 1 \in p..n /\ j - 1 \in 1..n
            /\ timers'[i] = t /\ timers'[j] = timers[j - 1]
        BY <1>1, <1>4, <1>13, <3>4
      <4>2. k + 1 <= left[timers[j - 1]]
        BY <1>12, <4>1
      <4> QED BY <1>9, <1>10, <4>1, <4>2
    <3>5. CASE i > p /\ j > p
      <4>1. /\ i - 1 \in 1..n /\ j - 1 \in 1..n /\ i - 1 < j - 1
            /\ timers'[i] = timers[i - 1] /\ timers'[j] = timers[j - 1]
        BY <1>1, <1>4, <1>13, <2>2, <3>5
      <4> QED BY <1>9, <2>1, <4>1
    <3> QED BY <1>1, <1>4, <2>2, <3>1, <3>2, <3>3, <3>4, <3>5
  <2> QED BY <1>6, <2>2 DEF DueFirst
<1>18. Lagging'
  BY DEF Inv, TimerInv, Lagging, SetTimer
<1>19. NotAgain'
  <2>1. phase' = phase /\ done' = done /\ lag' = lag /\ lag \in Int /\ lag >= 0
    BY TimeAssumption DEF SetTimer, Inv, TypeInv
  <2>2. phase = "timers" => \A i \in 1..n : timers[i] \in done => left[timers[i]] + lag > 0
    BY DEF Inv, TimerInv, NotAgain
  <2>3. phase = "timers" =>
          \A i \in 1..n + 1 : timers'[i] \in done => left'[timers'[i]] + lag > 0
    <3> SUFFICES ASSUME phase = "timers", NEW i \in 1..n + 1, timers'[i] \in done
                 PROVE  left'[timers'[i]] + lag > 0
      OBVIOUS
    <3>1. CASE timers'[i] = t
      BY <1>1, <1>10, <2>1, <3>1
    <3>2. CASE \E j \in 1..n : timers'[i] = timers[j]
      BY <1>9, <2>2, <3>2
    <3> QED BY <1>13, <3>1, <3>2
  <2> QED BY <1>6, <2>1, <2>3 DEF NotAgain
<1>20. timeout' \in [Timers -> Time] /\ left' \in [Timers -> Int]
  BY <1>1, <1>2, <1>7 DEF TypeInv
<1> QED BY <1>6, <1>14, <1>15, <1>16, <1>17, <1>18, <1>19, <1>20 DEF TimerInv

(* A timer leaves the list, in any way.                                    *)
LEMMA DropStep ==
  ASSUME Inv, NEW p \in 1..Len(timers), timers' \in Seq(Timers), Removed(timers', timers, p),
         Forget(timers[p]), now' = now, lag' = lag, limit' = limit, phase' = phase,
         done' \subseteq done \cup {timers[p]}
  PROVE  TimerInv' /\ timeout' \in [Timers -> Time] /\ left' \in [Timers -> Int]
<1> DEFINE n == Len(timers)
<1>1. /\ TypeInv /\ n \in Nat /\ p \in Int /\ timers[p] \in Timers /\ 0 \in Time /\ Len(timers') = n - 1
  BY TimeAssumption, Member DEF Inv, Time, Removed
<1>2. Distinct /\ InRange /\ Linked /\ DueFirst /\ Lagging /\ NotAgain
  BY DEF Inv, TimerInv
<1>3. \A i, j \in 1..n : timers[i] = timers[j] => i = j
  BY <1>2 DEF Distinct
(* Where the rest of the list comes from.                                  *)
<1> DEFINE at0(i) == IF i < p THEN i ELSE i + 1
<1>4. \A i \in 1..n - 1 : at0(i) \in 1..n /\ at0(i) # p /\ timers'[i] = timers[at0(i)]
  BY <1>1 DEF Removed
<1>5. \A i, j \in 1..n - 1 : (at0(i) = at0(j) => i = j) /\ (i < j => at0(i) < at0(j))
  BY <1>1
<1> HIDE DEF at0
<1>6. \A i \in 1..n : i # p =>
        /\ timers[i] \in Timers /\ timers[i] # timers[p]
        /\ timeout'[timers[i]] = timeout[timers[i]] /\ left'[timers[i]] = left[timers[i]]
  BY <1>1, <1>3, Member DEF Forget, TypeInv
<1>7. Distinct'
  <2>1. \A i, j \in 1..n - 1 : timers'[i] = timers'[j] => i = j
    BY <1>3, <1>4, <1>5
  <2> QED BY <1>1, <2>1 DEF Distinct
<1>8. InRange'
  <2>1. \A i \in 1..n : left[timers[i]] \in -MaxLate..MaxDelay + 1
    BY <1>2 DEF InRange
  <2>2. ASSUME NEW i \in 1..n - 1 PROVE left'[timers'[i]] \in -MaxLate..MaxDelay + 1
    <3>1. PICK k : k = at0(i)
      OBVIOUS
    <3>2. k \in 1..n /\ timers'[i] = timers[k] /\ left'[timers[k]] = left[timers[k]]
      BY <1>4, <1>6, <3>1
    <3> QED BY <2>1, <3>2
  <2> QED BY <1>1, <2>2 DEF InRange
<1>9. Linked'
  <2>1. \A i \in 1..n : Apart(timeout[timers[i]], now, left[timers[i]])
    BY <1>2 DEF Linked
  <2>2. ASSUME NEW i \in 1..n - 1 PROVE Apart(timeout'[timers'[i]], now', left'[timers'[i]])
    <3>1. PICK k : k = at0(i)
      OBVIOUS
    <3>2. /\ k \in 1..n /\ timers'[i] = timers[k] /\ timeout'[timers[k]] = timeout[timers[k]]
          /\ left'[timers[k]] = left[timers[k]]
      BY <1>4, <1>6, <3>1
    <3>3. Apart(timeout[timers[k]], now, left[timers[k]])
      BY <2>1, <3>2
    <3> QED BY <3>2, <3>3
  <2> QED BY <1>1, <2>2 DEF Linked
<1>10. DueFirst'
  <2>1. \A i, j \in 1..n : i < j => left[timers[i]] <= left[timers[j]]
    BY <1>2 DEF DueFirst
  <2>2. ASSUME NEW i \in 1..n - 1, NEW j \in 1..n - 1, i < j
        PROVE  left'[timers'[i]] <= left'[timers'[j]]
    <3>1. PICK k, l : k = at0(i) /\ l = at0(j)
      OBVIOUS
    <3>2. /\ k \in 1..n /\ timers'[i] = timers[k] /\ left'[timers[k]] = left[timers[k]]
          /\ l \in 1..n /\ timers'[j] = timers[l] /\ left'[timers[l]] = left[timers[l]]
      BY <1>4, <1>6, <3>1
    <3>3. k < l
      BY <1>5, <2>2, <3>1
    <3> QED BY <2>1, <3>2, <3>3
  <2> QED BY <1>1, <2>2 DEF DueFirst
<1>11. Lagging'
  BY <1>2 DEF Lagging
<1>12. NotAgain'
  <2>1. phase = "timers" => \A i \in 1..n : timers[i] \in done => left[timers[i]] + lag > 0
    BY <1>2 DEF NotAgain
  <2>2. ASSUME phase = "timers", NEW i \in 1..n - 1, timers'[i] \in done'
        PROVE  left'[timers'[i]] + lag > 0
    <3>1. PICK k : k = at0(i)
      OBVIOUS
    <3>2. /\ k \in 1..n /\ timers'[i] = timers[k] /\ timers[k] # timers[p]
          /\ left'[timers[k]] = left[timers[k]]
      BY <1>4, <1>6, <3>1
    <3>3. timers[k] \in done
      BY <2>2, <3>2
    <3> QED BY <2>1, <2>2, <3>2, <3>3
  <2> QED BY <1>1, <2>2 DEF NotAgain
<1>13. timeout' \in [Timers -> Time] /\ left' \in [Timers -> Int]
  BY <1>1 DEF Forget, TypeInv
<1> QED BY <1>7, <1>8, <1>9, <1>10, <1>11, <1>12, <1>13 DEF TimerInv

(* A timer is removed.                                                     *)
LEMMA RemoveTimerStep ==
  ASSUME Inv, NEW t \in Timers, RemoveTimer(t)
  PROVE  TimerInv' /\ timers' \in Seq(Timers) /\ timeout' \in [Timers -> Time]
         /\ left' \in [Timers -> Int]
<1>1. PICK p : p = PositionOf(timers, t)
  OBVIOUS
<1>2. p \in 1..Len(timers) /\ timers[p] = t
  BY <1>1 DEF RemoveTimer, Has, PositionOf
<1>3. timers' = RemoveAt(timers, p) /\ timers \in Seq(Timers)
  BY <1>1 DEF RemoveTimer, Without, Inv, TypeInv
<1>4. timers' \in Seq(Timers) /\ Removed(timers', timers, p)
  BY <1>2, <1>3, RemoveFacts
<1>5. /\ Forget(timers[p]) /\ now' = now /\ lag' = lag /\ limit' = limit /\ phase' = phase
      /\ done' \subseteq done \cup {timers[p]}
  BY <1>2 DEF RemoveTimer
<1> QED BY <1>2, <1>4, <1>5, DropStep

(* The timer that fires is due, and has not fired in this pass.            *)
LEMMA FireTimerStep ==
  ASSUME Inv, FireTimer
  PROVE  /\ TimerInv' /\ timers' \in Seq(Timers) /\ timeout' \in [Timers -> Time]
         /\ left' \in [Timers -> Int]
         /\ running' \in Timers /\ left[running'] <= 0 /\ running' \notin done
<1>1. timers \in Seq(Timers) /\ timers # <<>>
  BY DEF FireTimer, Inv, TypeInv
<1>2. /\ Len(timers) \in Nat /\ 1 \in 1..Len(timers) /\ Head(timers) = timers[1]
      /\ Tail(timers) \in Seq(Timers) /\ Len(Tail(timers)) = Len(timers) - 1
      /\ \A i \in 1..Len(timers) - 1 : Tail(timers)[i] = timers[i + 1]
  BY <1>1, HeadTailProperties, LenProperties, EmptySeq
<1>3. timers' = Tail(timers) /\ running' = timers[1] /\ phase = "timers"
  BY <1>2 DEF FireTimer
<1>4. Removed(timers', timers, 1)
  BY <1>2, <1>3 DEF Removed
<1>5. /\ Forget(timers[1]) /\ now' = now /\ lag' = lag /\ limit' = limit /\ phase' = phase
      /\ done' \subseteq done \cup {timers[1]}
  BY <1>2 DEF FireTimer
<1>6. TimerInv' /\ timeout' \in [Timers -> Time] /\ left' \in [Timers -> Int]
  BY <1>2, <1>3, <1>4, <1>5, DropStep
<1> DEFINE to == timeout[timers[1]]
           le == left[timers[1]]
<1>7. /\ timers[1] \in Timers /\ to \in Time /\ le \in -MaxLate..MaxDelay + 1
      /\ Apart(to, now, le) /\ Apart(now, limit, lag)
      /\ timers[1] \in done => le + lag > 0
  BY <1>2, <1>3, Member DEF Inv, TimerInv, InRange, Linked, Lagging, NotAgain
<1>8. now \in Time /\ limit \in Time /\ lag \in 0..MaxLate /\ Delta(to, limit) <= 0
  BY <1>2 DEF FireTimer, Expired, Inv, TypeInv
<1> HIDE DEF to, le
<1>9. /\ le \in Int /\ lag \in Int /\ le + lag \in Int /\ lag >= 0
      /\ -Half < le + lag /\ le + lag < Half
  BY <1>7, <1>8, TimeAssumption
<1>10. Apart(to, limit, le + lag)
  BY <1>7, <1>8, <1>9, ApartAdds
<1>11. le + lag <= 0
  BY <1>7, <1>8, <1>9, <1>10, DeltaIsApart
<1>12. le <= 0 /\ timers[1] \notin done
  BY <1>7, <1>9, <1>11
<1> QED BY <1>2, <1>3, <1>6, <1>7, <1>12 DEF le

(* Time goes on.                                                           *)
LEMMA TickStep ==
  ASSUME Inv, Tick
  PROVE  TimerInv' /\ now' \in Time /\ lag' \in 0..MaxLate /\ left' \in [Timers -> Int]
<1> DEFINE n == Len(timers)
<1>1. /\ TypeInv /\ n \in Nat /\ MaxDelay \in Nat /\ MaxLate \in Nat /\ Half \in Nat
      /\ MaxDelay + 1 + MaxLate < Half
  BY TimeAssumption, LenProperties DEF Inv, TypeInv
<1>2. Distinct /\ InRange /\ Linked /\ DueFirst /\ Lagging /\ NotAgain
  BY DEF Inv, TimerInv
<1>3. now \in Time /\ now' \in Time /\ Apart(now', now, 1) /\ Apart(now, now', -1)
  <2>1. now' = Plus(now, 1) /\ 1 \in 0..MaxDelay + 1 /\ now \in Time
    BY <1>1 DEF Tick, TypeInv
  <2>2. now' \in Time /\ Apart(now', now, 1)
    BY <2>1, PlusIsApart
  <2> QED BY <2>1, <2>2, ApartReverses
<1>4. /\ timers' = timers /\ timeout' = timeout /\ (phase' = "timers" <=> phase = "timers")
      /\ done' = done /\ limit' = limit
  BY DEF Tick, WakeUp
<1>5. \A i \in 1..n :
        /\ timers[i] \in Timers /\ timeout[timers[i]] \in Time
        /\ left[timers[i]] \in -MaxLate..MaxDelay + 1 /\ left[timers[i]] > -MaxLate
        /\ left'[timers[i]] = left[timers[i]] - 1
  BY <1>1, <1>2, Member DEF InRange, Tick, Has
<1>6. InRange'
  BY <1>1, <1>4, <1>5 DEF InRange
<1>7. Linked'
  <2> SUFFICES ASSUME NEW i \in 1..n
               PROVE  Apart(timeout[timers[i]], now', left[timers[i]] - 1)
    BY <1>4, <1>5 DEF Linked
  <2> DEFINE to == timeout[timers[i]]
             le == left[timers[i]]
  <2>1. to \in Time /\ le \in Int /\ le > -MaxLate /\ le <= MaxDelay + 1 /\ Apart(to, now, le)
    BY <1>2, <1>5 DEF Linked
  <2> HIDE DEF to, le
  <2>2. -Half < le + (-1) /\ le + (-1) < Half /\ le + (-1) = le - 1
    BY <1>1, <2>1
  <2>3. Apart(to, now', le + (-1))
    BY <1>3, <2>1, <2>2, ApartAdds
  <2> QED BY <2>2, <2>3 DEF to, le
<1>8. DueFirst'
  BY <1>2, <1>4, <1>5 DEF DueFirst
<1>9. lag \in 0..MaxLate /\ lag' \in 0..MaxLate /\ (phase = "timers" => lag' = lag + 1)
  BY <1>1 DEF Tick, TypeInv
<1>10. Lagging'
  <2> SUFFICES ASSUME phase = "timers" PROVE Apart(now', limit, 1 + lag)
    BY <1>4, <1>9 DEF Lagging
  <2>1. /\ Apart(now, limit, lag) /\ limit \in Time /\ lag \in Int
        /\ -Half < 1 + lag /\ 1 + lag < Half
    BY <1>1, <1>2, <1>9 DEF Lagging, TypeInv
  <2> QED BY <1>3, <2>1, ApartAdds
<1>11. NotAgain'
  BY <1>1, <1>2, <1>4, <1>5, <1>9 DEF NotAgain
<1>12. Distinct'
  BY <1>2, <1>4 DEF Distinct
<1>13. left' \in [Timers -> Int]
  BY <1>1 DEF Tick, TypeInv
<1> QED BY <1>3, <1>6, <1>7, <1>8, <1>9, <1>10, <1>11, <1>12, <1>13 DEF TimerInv

(* What is removed from a list leaves a list.                              *)
LEMMA WithoutType ==
  ASSUME NEW S, NEW s \in Seq(S), NEW x
  PROVE  Without(s, x) \in Seq(S)
<1>1. CASE Has(s, x)
  <2>1. PICK p : p = PositionOf(s, x)
    OBVIOUS
  <2>2. p \in 1..Len(s)
    BY <1>1, <2>1 DEF Has, PositionOf
  <2>3. RemoveAt(s, p) \in Seq(S)
    BY <2>2, RemoveFacts
  <2> QED BY <1>1, <2>1, <2>3 DEF Without
<1>2. CASE ~Has(s, x)
  BY <1>2 DEF Without
<1> QED BY <1>1, <1>2

(* Every step preserves the invariant, and a step that calls the handler   *)
(* of a timer calls one that is due and has not been called in this pass.  *)
LEMMA StepInv ==
  ASSUME Inv, [Next]_vars
  PROVE  /\ Inv'
         /\ running = Nobody /\ running' \in Timers => left[running'] <= 0 /\ running' \notin done
<1> DEFINE Fair == running = Nobody /\ running' \in Timers =>
                     left[running'] <= 0 /\ running' \notin done
<1>1. TypeInv /\ TimerInv /\ Nobody \notin Timers /\ Nobody \notin Callbacks
      /\ Timers \cap Sources = {} /\ Timers \cap Callbacks = {}
  BY HandlersAssumption DEF Inv
<1>2. CASE vars' = vars
  <2>1. UNCHANGED <<timing, limit, phase, done, running, sources, callbacks>>
    BY <1>2 DEF vars, polling
  <2>2. TimerInv'
    BY <1>1, <2>1, OtherSteps
  <2>3. TypeInv'
    BY <1>1, <2>1 DEF TypeInv, timing
  <2> QED BY <1>1, <2>1, <2>2, <2>3 DEF Inv
<1>3. ASSUME NEW t \in Timers, NEW k \in 0..MaxDelay, SetTimer(t, k)
      PROVE  Inv' /\ Fair
  <2>1. /\ TimerInv' /\ timers' \in Seq(Timers) /\ timeout' \in [Timers -> Time]
        /\ left' \in [Timers -> Int]
    BY <1>3, SetTimerStep
  <2> QED BY <1>1, <1>3, <2>1 DEF SetTimer, Inv, TypeInv, polling
<1>4. ASSUME NEW t \in Timers, RemoveTimer(t)
      PROVE  Inv' /\ Fair
  <2>1. /\ TimerInv' /\ timers' \in Seq(Timers) /\ timeout' \in [Timers -> Time]
        /\ left' \in [Timers -> Int]
    BY <1>4, RemoveTimerStep
  <2> QED BY <1>1, <1>4, <2>1 DEF RemoveTimer, Inv, TypeInv, polling
<1>5. CASE FireTimer
  <2>1. /\ TimerInv' /\ timers' \in Seq(Timers) /\ timeout' \in [Timers -> Time]
        /\ left' \in [Timers -> Int] /\ Fair
    BY <1>5, FireTimerStep
  <2> QED BY <1>1, <1>5, <2>1 DEF FireTimer, Inv, TypeInv, polling
<1>6. CASE Tick
  <2>1. TimerInv' /\ now' \in Time /\ lag' \in 0..MaxLate /\ left' \in [Timers -> Int]
    BY <1>6, TickStep
  <2> QED BY <1>1, <1>6, <2>1 DEF Tick, Inv, TypeInv, polling
<1>7. ASSUME NEW s \in Sources, AddSource(s)
      PROVE  Inv' /\ Fair
  <2>1. TimerInv' /\ UNCHANGED <<timing, limit, callbacks, running>>
    BY <1>1, <1>7, OtherSteps DEF AddSource
  <2>2. sources' \in Seq(Sources)
    BY <1>1, <1>7 DEF AddSource, TypeInv
  <2> QED BY <1>1, <2>1, <2>2 DEF Inv, TypeInv, timing
<1>8. ASSUME NEW s \in Sources, RemoveSource(s)
      PROVE  Inv' /\ Fair
  <2>1. TimerInv' /\ UNCHANGED <<timing, limit, callbacks, running>>
    BY <1>1, <1>8, OtherSteps DEF RemoveSource
  <2>2. sources' \in Seq(Sources)
    BY <1>1, <1>8, WithoutType DEF RemoveSource, TypeInv
  <2> QED BY <1>1, <2>1, <2>2 DEF Inv, TypeInv, timing
<1>9. ASSUME NEW s \in Sources, Interrupt(s)
      PROVE  Inv' /\ Fair
  <2>1. TimerInv' /\ UNCHANGED <<timing, limit, callbacks, running, sources>>
    BY <1>1, <1>9, OtherSteps DEF Interrupt, WakeUp, polling
  <2> QED BY <1>1, <2>1 DEF Inv, TypeInv, timing
<1>10. ASSUME NEW c \in Callbacks, ExecuteOnMainThread(c)
       PROVE  Inv' /\ Fair
  <2>1. TimerInv' /\ UNCHANGED <<timing, limit, running, sources>>
    BY <1>1, <1>10, OtherSteps DEF ExecuteOnMainThread, polling
  <2>2. callbacks' \in Seq(Callbacks)
    BY <1>1, <1>10, AppendProperties DEF ExecuteOnMainThread, TypeInv
  <2> QED BY <1>1, <2>1, <2>2 DEF Inv, TypeInv, timing
<1>11. CASE StartPass
  <2>1. TimerInv' /\ UNCHANGED <<timing, limit, callbacks, running, sources>>
    BY <1>1, <1>11, OtherSteps DEF StartPass, Enter
  <2> QED BY <1>1, <2>1 DEF Inv, TypeInv, timing
<1>12. CASE PollSource
  <2>1. TimerInv' /\ UNCHANGED <<timing, limit, callbacks, sources>>
    BY <1>1, <1>12, OtherSteps DEF PollSource
  <2>2. running' \notin Timers
    <3>1. CASE Has(sources, at)
      <4>1. running' = at /\ at \in Sources
        BY <1>1, <1>12, <3>1, ElementOfSeq DEF PollSource, Has, TypeInv
      <4> QED BY <1>1, <4>1
    <3>2. CASE ~Has(sources, at)
      BY <1>1, <1>12, <3>2 DEF PollSource
    <3> QED BY <3>1, <3>2
  <2> QED BY <1>1, <2>1, <2>2 DEF Inv, TypeInv, timing
<1>13. CASE EndPoll
  <2>1. TimerInv' /\ UNCHANGED <<timing, limit, callbacks, running, sources>>
    BY <1>1, <1>13, OtherSteps DEF EndPoll, Enter
  <2> QED BY <1>1, <2>1 DEF Inv, TypeInv, timing
<1>14. CASE ExecuteCallback
  <2>1. TimerInv' /\ UNCHANGED <<timing, limit, sources>>
    BY <1>1, <1>14, OtherSteps DEF ExecuteCallback, polling
  <2>2. callbacks' \in Seq(Callbacks) /\ running' \in Callbacks
    BY <1>1, <1>14, HeadTailProperties DEF ExecuteCallback, TypeInv
  <2> QED BY <1>1, <2>1, <2>2 DEF Inv, TypeInv, timing
<1>15. CASE EndCallbacks
  <2>1. /\ phase' = "timers" /\ limit' = now /\ lag' = 0 /\ done' = {}
        /\ UNCHANGED <<now, timers, timeout, left, sources, callbacks, running>>
    BY <1>15 DEF EndCallbacks, polling
  <2>2. TypeInv'
    BY <1>1, <2>1, TimeAssumption DEF TypeInv
  <2>3. Apart(now, now, 0)
    BY <1>1 DEF TypeInv, Time, Apart
  <2>4. TimerInv'
    BY <1>1, <2>1, <2>3
       DEF TimerInv, Distinct, InRange, Linked, DueFirst, Lagging, NotAgain
  <2> QED BY <1>1, <2>1, <2>2, <2>4 DEF Inv
<1>16. CASE EndTimers
  <2>1. /\ phase' # "timers" /\ limit' = 0 /\ lag' = 0
        /\ UNCHANGED <<now, timers, timeout, left, sources, callbacks, running>>
    BY <1>16 DEF EndTimers, polling
  <2>2. TypeInv'
    BY <1>1, <2>1, TimeAssumption DEF TypeInv, Time
  <2>3. TimerInv'
    BY <1>1, <2>1 DEF TimerInv, Distinct, InRange, Linked, DueFirst, Lagging, NotAgain
  <2> QED BY <1>1, <2>1, <2>2, <2>3 DEF Inv
<1>17. CASE Return
  <2>1. TimerInv' /\ UNCHANGED <<timing, limit, callbacks, sources>> /\ running' = Nobody
    BY <1>1, <1>17, OtherSteps DEF Return, polling
  <2> QED BY <1>1, <2>1 DEF Inv, TypeInv, timing
<1> QED
  BY <1>2, <1>3, <1>4, <1>5, <1>6, <1>7, <1>8, <1>9, <1>10, <1>11, <1>12, <1>13, <1>14,
     <1>15, <1>16, <1>17 DEF Next, Loop

----------------------------------------------------------------------------
(* The theorems *)

(* The lists and the counter are as the run loop expects them, and the     *)
(* bookkeeping of the real time agrees with them.                          *)
THEOREM Invariant == Spec => []Inv
<1>1. Inv /\ [Next]_vars => Inv'
  BY StepInv
<1> QED BY InitInv, <1>1, PTL DEF Spec

(* The list of timers is in the order in which they are due.               *)
THEOREM TimersInOrder == Spec => []DueFirst
<1>1. Inv => DueFirst
  BY DEF Inv, TimerInv
<1> QED BY Invariant, <1>1, PTL

(* No timer fires before its time.                                         *)
THEOREM NoneTooEarly == Spec => NotEarly
<1>1. Inv /\ [Next]_vars => [\A t \in Timers : Calls({t}) => left[t] <= 0]_vars
  BY StepInv DEF Calls
<1> QED BY Invariant, <1>1, PTL DEF Spec, NotEarly

(* A timer fires once in a pass, however its handler sets it again.        *)
THEOREM TimersOnce == Spec => [][CalledOnce(Timers)]_vars
<1>1. Inv /\ [Next]_vars => [CalledOnce(Timers)]_vars
  BY StepInv DEF CalledOnce, Calls
<1> QED BY Invariant, <1>1, PTL DEF Spec

----------------------------------------------------------------------------
(* The list of sources while it is polled *)

Single(list) == \A i, j \in 1..Len(list) : list[i] = list[j] => i = j
First(list) == IF list = <<>> THEN Nil ELSE list[1]

(* NextOf of a list and of the links of what is not in it.                 *)
Follows(list, nx, s) ==
  IF ~Has(list, s) THEN nx[s]
  ELSE IF PositionOf(list, s) = Len(list) THEN Nil ELSE list[PositionOf(list, s) + 1]

(* The links lead along the sources of way, and to the end.                *)
Way(way, list, nx) ==
  /\ Single(way)
  /\ \A i \in 1..Len(way) :
       Follows(list, nx, way[i]) = IF i = Len(way) THEN Nil ELSE way[i + 1]

(* The links from the next source on lead to all that have not been        *)
(* polled, those with an interrupt that is not known yet among them.       *)
Ahead(way) ==
  /\ Way(way, sources, next) /\ at = First(way)
  /\ \A s \in Sources : /\ Has(way, s) => s \notin done
                        /\ Has(sources, s) => s \in done \/ Has(way, s)
                        /\ s \in raised => trigger \/ Has(way, s)

SourceInv ==
  /\ sources \in Seq(Sources) /\ next = [s \in Sources |-> next[s]] /\ Single(sources)
  /\ raised \subseteq Sources /\ staying \subseteq Sources
  /\ \A s \in raised \cup staying : Has(sources, s)
  /\ phase \in {"idle", "asleep"} => running = Nobody
  /\ phase = "poll" => running \in {Nobody} \cup done
  /\ phase = "poll" => \E way \in Seq(Sources) : Ahead(way)
  /\ phase \in {"callbacks", "timers"} /\ ~trigger => raised = {}
  /\ phase = "timers" /\ ~trigger => callbacks = <<>>
  /\ AsleepIdle

(* What OncePerPass says of the sources in a step.                         *)
PollsOnce == CalledOnce(Sources)

(* A source of a list without repetitions has one place in it.             *)
LEMMA PlaceInList ==
  ASSUME NEW list \in Seq(Sources), Single(list), NEW i \in 1..Len(list)
  PROVE  Has(list, list[i]) /\ PositionOf(list, list[i]) = i
BY DEF Has, PositionOf, Single

(* Who follows it, in the list or by its own link.                         *)
LEMMA FollowsIs ==
  ASSUME NEW list \in Seq(Sources), NEW nx, Single(list)
  PROVE  /\ \A i \in 1..Len(list) :
              Follows(list, nx, list[i]) = IF i = Len(list) THEN Nil ELSE list[i + 1]
         /\ \A s \in Sources : ~Has(list, s) => Follows(list, nx, s) = nx[s]
BY PlaceInList DEF Follows

(* Follows is what the loop reads.                                         *)
LEMMA NextIsFollows ==
  ASSUME sources \in Seq(Sources), NEW s
  PROVE  NextOf(s) = Follows(sources, next, s)
<1>1. CASE ~Has(sources, s)
  BY <1>1 DEF NextOf, Follows
<1>2. CASE Has(sources, s)
  <2>1. PICK p : p = PositionOf(sources, s)
    OBVIOUS
  <2>2. p \in 1..Len(sources)
    BY <1>2, <2>1 DEF Has, PositionOf
  <2>3. CASE p = Len(sources)
    BY <1>2, <2>1, <2>3 DEF NextOf, Follows
  <2>4. CASE p # Len(sources)
    <3>1. p < Len(sources)
      BY <2>2, <2>4
    <3> QED BY <1>2, <2>1, <2>2, <2>4, <3>1 DEF NextOf, Follows
  <2> QED BY <2>3, <2>4
<1> QED BY <1>1, <1>2

(* Where a source that is put first comes to lie.                          *)
LEMMA AddedFacts ==
  ASSUME NEW list \in Seq(Sources), NEW s \in Sources
  PROVE  /\ <<s>> \o list \in Seq(Sources) /\ Len(<<s>> \o list) = Len(list) + 1
         /\ (<<s>> \o list)[1] = s
         /\ \A i \in 1..Len(list) : (<<s>> \o list)[i + 1] = list[i]
OBVIOUS

(* r is list with s put first, and no other link has changed.              *)
Leads(r, ny, list, nx, s) ==
  /\ r \in Seq(Sources) /\ Single(r)
  /\ \A x \in Sources : Has(r, x) <=> x = s \/ Has(list, x)
  /\ \A x \in Sources : x # s => Follows(r, ny, x) = Follows(list, nx, x)

(* A source that is put first changes no other link.                       *)
LEMMA AddFollows ==
  ASSUME NEW list \in Seq(Sources), Single(list), NEW nx, nx = [x \in Sources |-> nx[x]],
         NEW s \in Sources, ~Has(list, s), NEW r, r = <<s>> \o list,
         NEW ny, ny = [nx EXCEPT ![s] = Nil]
  PROVE  Leads(r, ny, list, nx, s)
<1>1. /\ r \in Seq(Sources) /\ Len(r) = Len(list) + 1 /\ r[1] = s
      /\ \A i \in 1..Len(list) : r[i + 1] = list[i]
      /\ Len(list) \in Nat
  BY AddedFacts
<1>2. \A i \in 1..Len(r) : i = 1 \/ (i - 1 \in 1..Len(list) /\ r[i] = list[i - 1])
  <2> TAKE i \in 1..Len(r)
  <2>1. CASE i # 1
    <3>1. i - 1 \in 1..Len(list)
      BY <1>1, <2>1
    <3>2. r[(i - 1) + 1] = list[i - 1]
      BY <1>1, <3>1
    <3> QED BY <3>1, <3>2
  <2> QED BY <2>1
<1>3. Single(r)
  <2> SUFFICES ASSUME NEW i \in 1..Len(r), NEW j \in 1..Len(r), r[i] = r[j] PROVE i = j
    BY DEF Single
  <2>1. CASE i = 1
    BY <1>1, <1>2, <2>1 DEF Has
  <2>2. CASE j = 1
    BY <1>1, <1>2, <2>2 DEF Has
  <2>3. CASE i # 1 /\ j # 1
    BY <1>2, <2>3 DEF Single
  <2> QED BY <2>1, <2>2, <2>3
<1>4. ASSUME NEW x PROVE Has(r, x) <=> x = s \/ Has(list, x)
  <2>1. Has(r, x) => x = s \/ Has(list, x)
    BY <1>1, <1>2 DEF Has
  <2>2. x = s => Has(r, x)
    BY <1>1 DEF Has
  <2>3. ASSUME Has(list, x) PROVE Has(r, x)
    <3>1. PICK i \in 1..Len(list) : list[i] = x
      BY <2>3 DEF Has
    <3>2. i + 1 \in 1..Len(r) /\ r[i + 1] = x
      BY <1>1, <3>1
    <3> QED BY <3>2 DEF Has
  <2> QED BY <2>1, <2>2, <2>3
<1>5. ASSUME NEW x \in Sources, x # s PROVE Follows(r, ny, x) = Follows(list, nx, x)
  <2>1. CASE Has(list, x)
    <3>1. PICK i \in 1..Len(list) : list[i] = x
      BY <2>1 DEF Has
    <3>2. i + 1 \in 1..Len(r) /\ r[i + 1] = x /\ i \in Nat
      BY <1>1, <3>1
    <3>3. Follows(list, nx, x) = IF i = Len(list) THEN Nil ELSE list[i + 1]
      BY <3>1, FollowsIs
    <3>4. Follows(r, ny, x) = IF i + 1 = Len(r) THEN Nil ELSE r[(i + 1) + 1]
      BY <1>1, <1>3, <3>2, FollowsIs
    <3>5. i # Len(list) => i + 1 \in 1..Len(list)
      OBVIOUS
    <3> QED BY <1>1, <3>2, <3>3, <3>4, <3>5
  <2>2. CASE ~Has(list, x)
    <3>1. ~Has(r, x)
      BY <1>4, <1>5, <2>2
    <3>2. Follows(list, nx, x) = nx[x] /\ Follows(r, ny, x) = ny[x]
      BY <2>2, <3>1 DEF Follows
    <3> QED BY <1>5, <3>2
  <2> QED BY <2>1, <2>2
<1> QED BY <1>1, <1>3, <1>4, <1>5 DEF Leads

(* What is left of a list when the source at p is removed.                 *)
LEMMA RemovedFacts ==
  ASSUME NEW list \in Seq(Sources), Single(list), NEW p \in 1..Len(list), NEW r,
         r = RemoveAt(list, p)
  PROVE  /\ r \in Seq(Sources) /\ Removed(r, list, p) /\ Single(r) /\ Len(r) \in Nat
         /\ Len(list) \in Nat
         /\ \A x : Has(r, x) <=> Has(list, x) /\ x # list[p]
<1>1. /\ r \in Seq(Sources) /\ Removed(r, list, p) /\ Len(r) \in Nat /\ Len(list) \in Nat
      /\ Len(r) = Len(list) - 1
  <2>1. r \in Seq(Sources) /\ Removed(r, list, p)
    BY RemoveFacts
  <2>2. Len(r) \in Nat /\ Len(list) \in Nat
    BY <2>1, LenProperties
  <2> QED BY <2>1, <2>2 DEF Removed
<1>2. \A i \in 1..Len(r) :
        \E k \in 1..Len(list) : k # p /\ r[i] = list[k] /\ k = IF i < p THEN i ELSE i + 1
  <2> TAKE i \in 1..Len(r)
  <2>1. CASE i < p
    BY <1>1, <2>1 DEF Removed
  <2>2. CASE ~(i < p)
    <3>1. i + 1 \in 1..Len(list) /\ i + 1 # p /\ r[i] = list[i + 1]
      BY <1>1, <2>2 DEF Removed
    <3> QED BY <2>2, <3>1
  <2> QED BY <2>1, <2>2
<1>3. \A k \in 1..Len(list) : k # p => \E i \in 1..Len(r) : r[i] = list[k]
  <2> SUFFICES ASSUME NEW k \in 1..Len(list), k # p PROVE \E i \in 1..Len(r) : r[i] = list[k]
    OBVIOUS
  <2>1. CASE k < p
    BY <1>1, <2>1 DEF Removed
  <2>2. CASE k > p
    <3>1. k - 1 \in 1..Len(r) /\ ~(k - 1 < p) /\ (k - 1) + 1 = k
      BY <1>1, <2>2
    <3>2. r[k - 1] = list[(k - 1) + 1]
      BY <1>1, <3>1 DEF Removed
    <3> QED BY <3>1, <3>2
  <2> QED BY <2>1, <2>2
<1>4. Single(r)
  <2> SUFFICES ASSUME NEW i \in 1..Len(r), NEW j \in 1..Len(r), r[i] = r[j] PROVE i = j
    BY DEF Single
  <2>1. PICK k \in 1..Len(list) : r[i] = list[k] /\ k = IF i < p THEN i ELSE i + 1
    BY <1>2
  <2>2. PICK m \in 1..Len(list) : r[j] = list[m] /\ m = IF j < p THEN j ELSE j + 1
    BY <1>2
  <2>3. k = m
    BY <2>1, <2>2 DEF Single
  <2> QED BY <2>1, <2>2, <2>3
<1>5. ASSUME NEW x PROVE Has(r, x) <=> Has(list, x) /\ x # list[p]
  <2>1. Has(r, x) => Has(list, x) /\ x # list[p]
    BY <1>2 DEF Has, Single
  <2>2. Has(list, x) /\ x # list[p] => Has(r, x)
    BY <1>3 DEF Has
  <2> QED BY <2>1, <2>2
<1> QED BY <1>1, <1>4, <1>5

(* What is left, by its place.                                             *)
LEMMA RemainsAt ==
  ASSUME NEW list \in Seq(Sources), NEW p \in 1..Len(list), NEW r, Removed(r, list, p),
         NEW i \in Nat
  PROVE  /\ 0 < i /\ i < p => r[i] = list[i]
         /\ p <= i /\ i < Len(list) => r[i] = list[i + 1]
<1>1. Len(list) \in Nat /\ p \in Nat /\ 0 < p
  OBVIOUS
<1>2. 0 < i /\ i < Len(list) => i \in 1..Len(list) - 1
  BY <1>1
<1> QED BY <1>1, <1>2 DEF Removed

(* Who was linked to the source that is removed is linked to the one after *)
(* it, which the removed source still is linked to.                        *)
LEMMA RemoveFollows ==
  ASSUME NEW list \in Seq(Sources), Single(list), NEW nx, nx = [x \in Sources |-> nx[x]],
         NEW s \in Sources, Has(list, s), NEW r, r = Without(list, s),
         NEW ny, ny = [nx EXCEPT ![s] = Follows(list, nx, s)]
  PROVE  /\ r \in Seq(Sources) /\ Single(r)
         /\ \A x : Has(r, x) <=> Has(list, x) /\ x # s
         /\ \A x \in Sources :
              Follows(r, ny, x) =
                IF Has(list, x) /\ x # s /\ Follows(list, nx, x) = s
                THEN Follows(list, nx, s) ELSE Follows(list, nx, x)
<1>1. PICK p \in 1..Len(list) : list[p] = s
  BY DEF Has
<1>2. r = RemoveAt(list, p)
  BY <1>1, PlaceInList DEF Without
<1>3. /\ r \in Seq(Sources) /\ Removed(r, list, p) /\ Single(r) /\ Len(r) \in Nat
      /\ Len(list) \in Nat /\ Len(r) = Len(list) - 1
      /\ \A x : Has(r, x) <=> Has(list, x) /\ x # s
  BY <1>1, <1>2, RemovedFacts DEF Removed
<1>4. Follows(list, nx, s) = IF p = Len(list) THEN Nil ELSE list[p + 1]
  BY <1>1, FollowsIs
<1>5. ASSUME NEW x \in Sources, ~Has(list, x) \/ x = s
      PROVE  Follows(r, ny, x) = Follows(list, nx, x)
  <2>1. Follows(r, ny, x) = ny[x]
    BY <1>3, <1>5, FollowsIs
  <2>2. x # s => Follows(list, nx, x) = nx[x] /\ ny[x] = nx[x]
    BY <1>5, FollowsIs
  <2>3. ny[s] = Follows(list, nx, s)
    OBVIOUS
  <2> QED BY <2>1, <2>2, <2>3
<1>6. ASSUME NEW k \in 1..Len(list), k # p
      PROVE  Follows(r, ny, list[k]) =
               IF Follows(list, nx, list[k]) = s THEN Follows(list, nx, s)
               ELSE Follows(list, nx, list[k])
  <2>1. PICK i \in 1..Len(r) : i = IF k < p THEN k ELSE k - 1
    BY <1>3, <1>6
  <2>2. r[i] = list[k]
    BY <1>3, <1>6, <2>1 DEF Removed
  <2>3. Follows(r, ny, list[k]) = IF i = Len(r) THEN Nil ELSE r[i + 1]
    BY <1>3, <2>2, FollowsIs
  <2>4. Follows(list, nx, list[k]) = IF k = Len(list) THEN Nil ELSE list[k + 1]
    BY FollowsIs
  <2>5. Nil # s
    BY HandlersAssumption
  <2>6. Follows(list, nx, list[k]) = s <=> k + 1 = p
    BY <1>1, <1>3, <2>4, <2>5 DEF Single
  <2>7. CASE k + 1 = p
    <3>1. i = k /\ (i = Len(r) <=> p = Len(list)) /\ (i # Len(r) => r[i + 1] = list[p + 1])
      BY <1>3, <2>1, <2>7 DEF Removed
    <3> QED BY <1>4, <2>3, <2>6, <2>7, <3>1
  <2>8. CASE k + 1 # p
    <3>1. i \in Nat /\ k \in Nat /\ p \in Nat /\ i + 1 \in Nat
      OBVIOUS
    <3>2. i = Len(r) <=> k = Len(list)
      BY <1>3, <1>6, <2>1, <2>8, <3>1
    <3>3. CASE k < p
      <4>1. i = k /\ 0 < i + 1 /\ i + 1 < p
        BY <2>1, <2>8, <3>1, <3>3
      <4>2. r[i + 1] = list[i + 1]
        BY <1>3, <3>1, <4>1, RemainsAt
      <4> QED BY <4>1, <4>2, <3>2, <2>3, <2>4, <2>6, <2>8
    <3>4. CASE k > p
      <4>1. i + 1 = k /\ p <= k
        BY <2>1, <3>1, <3>4
      <4>2. k # Len(list) => r[k] = list[k + 1]
        <5>1. p <= k /\ k < Len(list) => r[k] = list[k + 1]
          BY <1>3, <3>1, RemainsAt
        <5>2. k # Len(list) => k < Len(list)
          BY <1>3
        <5> QED BY <4>1, <5>1, <5>2
      <4>3. i # Len(r) => r[i + 1] = list[k + 1]
        BY <3>2, <4>1, <4>2
      <4>4. Follows(list, nx, list[k]) # s
        BY <2>6, <2>8
      <4> QED BY <2>3, <2>4, <3>2, <4>3, <4>4
    <3> QED BY <1>6, <3>1, <3>3, <3>4
  <2> QED BY <2>7, <2>8
<1>7. ASSUME NEW x \in Sources, Has(list, x), x # s
      PROVE  Follows(r, ny, x) =
               IF Follows(list, nx, x) = s THEN Follows(list, nx, s) ELSE Follows(list, nx, x)
  <2>1. PICK k \in 1..Len(list) : list[k] = x
    BY <1>7 DEF Has
  <2> QED BY <1>1, <1>6, <1>7, <2>1
<1> QED BY <1>3, <1>5, <1>7

(* A way leads around the source that is removed, or still through it if   *)
(* it begins with it or comes from one that has been removed before.       *)
LEMMA RemoveWay ==
  ASSUME NEW list \in Seq(Sources), Single(list), NEW nx, nx = [x \in Sources |-> nx[x]],
         NEW s \in Sources, Has(list, s), NEW r, r = Without(list, s),
         NEW ny, ny = [nx EXCEPT ![s] = Follows(list, nx, s)],
         NEW way \in Seq(Sources), Way(way, list, nx)
  PROVE  \E w \in Seq(Sources) :
           /\ Way(w, r, ny) /\ First(w) = First(way)
           /\ \A x \in Sources : /\ Has(w, x) => Has(way, x)
                                 /\ Has(way, x) /\ x # s => Has(w, x)
<1>1. /\ r \in Seq(Sources) /\ Single(r)
      /\ \A x \in Sources :
           Follows(r, ny, x) =
             IF Has(list, x) /\ x # s /\ Follows(list, nx, x) = s
             THEN Follows(list, nx, s) ELSE Follows(list, nx, x)
  BY RemoveFollows
<1>2. /\ Single(way) /\ Len(way) \in Nat /\ Nil # s
      /\ \A i \in 1..Len(way) :
           /\ way[i] \in Sources
           /\ Follows(list, nx, way[i]) = IF i = Len(way) THEN Nil ELSE way[i + 1]
  BY HandlersAssumption DEF Way
<1>3. CASE \E i \in 1..Len(way) : Has(list, way[i]) /\ way[i] # s /\ Follows(list, nx, way[i]) = s
  <2>1. PICK k \in 1..Len(way) :
          Has(list, way[k]) /\ way[k] # s /\ Follows(list, nx, way[k]) = s
    BY <1>3
  <2>2. k + 1 \in 1..Len(way) /\ way[k + 1] = s
    BY <1>2, <2>1
  <2>3. PICK w : w = RemoveAt(way, k + 1)
    OBVIOUS
  <2>4. /\ w \in Seq(Sources) /\ Removed(w, way, k + 1) /\ Single(w) /\ Len(w) \in Nat
        /\ \A x : Has(w, x) <=> Has(way, x) /\ x # s
        /\ Len(w) = Len(way) - 1
    BY <1>2, <2>2, <2>3, RemovedFacts DEF Removed
  <2>5. First(w) = First(way)
    <3>1. w[1] = way[1]
      BY <2>2, <2>4, RemainsAt
    <3>2. way # <<>> /\ w # <<>>
      BY <1>2, <2>2, <2>4
    <3> QED BY <3>1, <3>2 DEF First
  <2>6. ASSUME NEW i \in 1..Len(w)
        PROVE  Follows(r, ny, w[i]) = IF i = Len(w) THEN Nil ELSE w[i + 1]
    <3>0. i \in Nat /\ i + 1 \in Nat /\ 0 < i /\ i + 1 \in 1..Len(way) /\ k \in Nat
          /\ i < Len(way) /\ i # Len(way) /\ i \in 1..Len(way)
      BY <1>2, <2>4
    <3>1. CASE i < k
      <4>0. i < k + 1 /\ 0 < i + 1 /\ i + 1 < k + 1 /\ i # Len(w)
        BY <2>2, <2>4, <3>0, <3>1
      <4>1. w[i] = way[i] /\ w[i + 1] = way[i + 1]
        BY <2>2, <2>4, <3>0, <4>0, RemainsAt
      <4>2. Follows(list, nx, way[i]) = way[i + 1]
        BY <1>2, <3>0
      <4>3. way[i + 1] # s
        BY <1>2, <2>2, <3>0, <3>1 DEF Single
      <4>4. Follows(r, ny, way[i]) = way[i + 1]
        BY <1>1, <1>2, <3>0, <4>2, <4>3
      <4> QED BY <4>0, <4>1, <4>4
    <3>2. CASE i = k
      <4>1. w[i] = way[k]
        BY <2>2, <2>4, <3>0, <3>2, RemainsAt
      <4>2. Follows(r, ny, w[i]) = Follows(list, nx, s)
        BY <1>1, <1>2, <2>1, <4>1
      <4>3. Follows(list, nx, s) = IF k + 1 = Len(way) THEN Nil ELSE way[(k + 1) + 1]
        BY <1>2, <2>2
      <4>4. i = Len(w) <=> k + 1 = Len(way)
        BY <1>2, <2>4, <3>2
      <4>5. i # Len(w) => k + 1 <= i + 1 /\ i + 1 < Len(way)
        BY <1>2, <2>4, <3>0, <3>2
      <4>6. i # Len(w) => w[i + 1] = way[(i + 1) + 1]
        BY <2>2, <2>4, <3>0, <4>5, RemainsAt
      <4> QED BY <3>2, <4>2, <4>3, <4>4, <4>6
    <3>3. CASE i > k
      <4>0. k + 1 <= i /\ (i # Len(w) => k + 1 <= i + 1 /\ i + 1 < Len(way))
        BY <1>2, <2>4, <3>0, <3>3
      <4>1. w[i] = way[i + 1] /\ i + 1 \in 1..Len(way)
        BY <2>2, <2>4, <3>0, <4>0, RemainsAt
      <4>2. Follows(list, nx, way[i + 1]) = IF i + 1 = Len(way) THEN Nil ELSE way[(i + 1) + 1]
        BY <1>2, <4>1
      <4>3. Follows(list, nx, way[i + 1]) # s
        <5>1. i + 1 # Len(way) => (i + 1) + 1 \in 1..Len(way) /\ (i + 1) + 1 # k + 1
          BY <1>2, <2>4, <3>3
        <5> QED BY <1>2, <2>2, <4>2, <5>1 DEF Single
      <4>4. Follows(r, ny, w[i]) = Follows(list, nx, way[i + 1])
        BY <1>1, <1>2, <4>1, <4>3
      <4>5. i # Len(w) => w[i + 1] = way[(i + 1) + 1]
        BY <2>2, <2>4, <3>0, <4>0, RemainsAt
      <4>6. i = Len(w) <=> i + 1 = Len(way)
        BY <1>2, <2>4
      <4> QED BY <4>2, <4>4, <4>5, <4>6
    <3> QED BY <3>0, <3>1, <3>2, <3>3
  <2>7. Way(w, r, ny)
    BY <2>4, <2>6 DEF Way
  <2> QED BY <2>4, <2>5, <2>7
<1>4. CASE \A i \in 1..Len(way) :
             ~(Has(list, way[i]) /\ way[i] # s /\ Follows(list, nx, way[i]) = s)
  <2>1. Way(way, r, ny)
    BY <1>1, <1>2, <1>4 DEF Way
  <2> QED BY <2>1
<1> QED BY <1>3, <1>4

----------------------------------------------------------------------------
(* The polling of the sources *)

(* Nothing is polled at first.                                             *)
LEMMA InitSources == Init => SourceInv
BY DEF Init, SourceInv, Single, AsleepIdle

(* A source is added by its own handler, or between two polls.             *)
LEMMA AddSourceStep ==
  ASSUME SourceInv, NEW s \in Sources, AddSource(s)
  PROVE  SourceInv'
<1>1. /\ sources \in Seq(Sources) /\ Single(sources) /\ ~Has(sources, s)
      /\ next = [x \in Sources |-> next[x]] /\ s # Nobody
      /\ sources' = <<s>> \o sources /\ next' = [next EXCEPT ![s] = Nil]
      /\ UNCHANGED <<at, staying, callbacks, phase, running, raised, trigger, done>>
  BY HandlersAssumption DEF AddSource, SourceInv
<1>2. Leads(sources', next', sources, next, s)
  BY <1>1, AddFollows
<1>3. /\ sources' \in Seq(Sources) /\ Single(sources')
      /\ \A x \in Sources : Has(sources', x) <=> x = s \/ Has(sources, x)
      /\ \A x \in Sources : x # s => Follows(sources', next', x) = Follows(sources, next, x)
  BY <1>2 DEF Leads
<1>4. next' = [x \in Sources |-> next'[x]]
  BY <1>1
<1>5. ASSUME phase = "poll"
      PROVE  \E way \in Seq(Sources) : Ahead(way)'
  <2>1. PICK way \in Seq(Sources) : Ahead(way)
    BY <1>5 DEF SourceInv
  <2>2. s \in done
    BY <1>1, <1>5 DEF AddSource, SourceInv
  <2>3. \A i \in 1..Len(way) : way[i] \in Sources /\ way[i] # s
    BY <2>1, <2>2 DEF Ahead, Has
  <2>4. Way(way, sources', next')
    BY <1>3, <2>1, <2>3 DEF Ahead, Way
  <2>5. \A x \in Sources : /\ Has(way, x) => x \notin done
                           /\ Has(sources', x) => x \in done \/ Has(way, x)
                           /\ x \in raised => trigger \/ Has(way, x)
    BY <1>3, <2>1, <2>2 DEF Ahead
  <2>6. at' = First(way)
    BY <1>1, <2>1 DEF Ahead
  <2>7. Ahead(way)'
    BY <1>1, <2>4, <2>5, <2>6 DEF Ahead
  <2> QED BY <2>7
<1> QED BY <1>1, <1>3, <1>4, <1>5 DEF SourceInv, AsleepIdle

(* A source is removed: the pass still comes to the others.                *)
LEMMA RemoveSourceStep ==
  ASSUME SourceInv, NEW s \in Sources, RemoveSource(s)
  PROVE  SourceInv'
<1>1. /\ sources \in Seq(Sources) /\ Single(sources) /\ Has(sources, s)
      /\ next = [x \in Sources |-> next[x]]
      /\ sources' = Without(sources, s) /\ next' = [next EXCEPT ![s] = Follows(sources, next, s)]
      /\ raised' = raised \ {s} /\ staying' = staying \ {s}
      /\ UNCHANGED <<at, callbacks, phase, running, trigger, done>>
  BY NextIsFollows DEF RemoveSource, SourceInv
<1>2. /\ sources' \in Seq(Sources) /\ Single(sources')
      /\ \A x : Has(sources', x) <=> Has(sources, x) /\ x # s
  BY <1>1, RemoveFollows
<1>3. next' = [x \in Sources |-> next'[x]]
  BY <1>1
<1>4. ASSUME phase = "poll"
      PROVE  \E way \in Seq(Sources) : Ahead(way)'
  <2>1. PICK way \in Seq(Sources) : Ahead(way)
    BY <1>4 DEF SourceInv
  <2>2. PICK w \in Seq(Sources) :
          /\ Way(w, sources', next') /\ First(w) = First(way)
          /\ \A x \in Sources : /\ Has(w, x) => Has(way, x)
                                /\ Has(way, x) /\ x # s => Has(w, x)
    BY <1>1, <2>1, RemoveWay, SMTT(30) DEF Ahead
  <2>3. \A x \in Sources : /\ Has(w, x) => x \notin done
                           /\ Has(sources', x) => x \in done \/ Has(w, x)
                           /\ x \in raised' => trigger \/ Has(w, x)
    BY <1>1, <1>2, <2>1, <2>2 DEF Ahead
  <2>4. at' = First(w)
    BY <1>1, <2>1, <2>2 DEF Ahead
  <2>5. Ahead(w)'
    BY <1>1, <2>2, <2>3, <2>4 DEF Ahead
  <2> QED BY <2>5
<1> QED BY <1>1, <1>2, <1>3, <1>4 DEF SourceInv, AsleepIdle

(* A pass begins: the way is the list itself.                              *)
LEMMA StartPassStep ==
  ASSUME SourceInv, StartPass
  PROVE  SourceInv'
<1>1. /\ phase' = "poll" /\ done' = {} /\ next' = [s \in Sources |-> Nil]
      /\ staying' = ToSet(sources) /\ at' = IF sources = <<>> THEN Nil ELSE Head(sources)
      /\ running = Nobody
      /\ UNCHANGED <<sources, callbacks, running, raised, trigger>>
      /\ sources \in Seq(Sources) /\ Single(sources) /\ raised \subseteq Sources
  BY DEF StartPass, Enter, SourceInv
<1>2. \A s \in staying' : s \in Sources /\ Has(sources, s)
  BY <1>1 DEF ToSet, Has
<1>3. Way(sources, sources, next') /\ at' = First(sources)
  BY <1>1, FollowsIs DEF Way, First
<1>4. Ahead(sources)'
  BY <1>1, <1>3 DEF Ahead, SourceInv
<1> QED BY <1>1, <1>2, <1>4 DEF SourceInv, AsleepIdle

(* A source, or one that has been removed meanwhile, is passed.            *)
LEMMA PollSourceStep ==
  ASSUME SourceInv, PollSource
  PROVE  SourceInv' /\ PollsOnce
<1>1. /\ phase = "poll" /\ at # Nil /\ at' = NextOf(at) /\ running = Nobody
      /\ UNCHANGED <<sources, next, staying, callbacks, phase, trigger>>
      /\ IF Has(sources, at)
         THEN running' = at /\ raised' = raised \ {at} /\ done' = done \cup {at}
         ELSE UNCHANGED <<running, raised, done>>
      /\ sources \in Seq(Sources) /\ Nobody \notin Sources /\ raised \subseteq Sources
      /\ \A s \in raised : Has(sources, s)
  BY HandlersAssumption DEF PollSource, SourceInv
<1>2. PICK way \in Seq(Sources) : Ahead(way)
  BY <1>1 DEF SourceInv
<1>3. way # <<>> /\ at = way[1] /\ at \in Sources /\ Has(way, at)
  BY <1>1, <1>2 DEF Ahead, First, Has
<1>4. PICK w : w = Tail(way)
  OBVIOUS
<1>5. /\ w \in Seq(Sources) /\ Len(w) \in Nat /\ Len(way) = Len(w) + 1
      /\ \A i \in 1..Len(w) : w[i] = way[i + 1] /\ i + 1 \in 1..Len(way)
  BY <1>3, <1>4
<1>6. /\ Single(way) /\ Way(way, sources, next)
      /\ \A i \in 1..Len(way) :
           Follows(sources, next, way[i]) = IF i = Len(way) THEN Nil ELSE way[i + 1]
  BY <1>2 DEF Ahead, Way
<1>7. at' = First(w)
  <2>1. 1 \in 1..Len(way) /\ at' = Follows(sources, next, way[1])
    BY <1>1, <1>3, <1>5, NextIsFollows
  <2>2. at' = IF 1 = Len(way) THEN Nil ELSE way[1 + 1]
    BY <1>6, <2>1
  <2>3. CASE Len(w) = 0
    BY <1>5, <2>2, <2>3 DEF First
  <2>4. CASE Len(w) # 0
    <3>1. 1 \in 1..Len(w) /\ w[1] = way[1 + 1] /\ w # <<>>
      BY <1>5, <2>4
    <3> QED BY <1>5, <2>2, <3>1 DEF First
  <2> QED BY <2>3, <2>4
<1>8. Way(w, sources, next)
  <2>1. Single(w)
    BY <1>5, <1>6 DEF Single
  <2>2. ASSUME NEW i \in 1..Len(w)
        PROVE  Follows(sources, next, w[i]) = IF i = Len(w) THEN Nil ELSE w[i + 1]
    <3>1. /\ i + 1 \in 1..Len(way) /\ w[i] = way[i + 1] /\ (i = Len(w) <=> i + 1 = Len(way))
          /\ i # Len(w) => i + 1 \in 1..Len(w)
      BY <1>5
    <3>2. i # Len(w) => w[i + 1] = way[(i + 1) + 1]
      BY <1>5, <3>1
    <3> QED BY <1>6, <3>1, <3>2
  <2> QED BY <2>1, <2>2 DEF Way
<1>9. \A s \in Sources : Has(w, s) <=> Has(way, s) /\ s # at
  <2> TAKE s \in Sources
  <2>1. Has(w, s) => Has(way, s) /\ s # at
    <3> SUFFICES ASSUME NEW i \in 1..Len(w), w[i] = s PROVE Has(way, s) /\ s # at
      BY DEF Has
    <3>1. i + 1 \in 1..Len(way) /\ way[i + 1] = s /\ i + 1 # 1
      BY <1>5
    <3> QED BY <1>3, <1>5, <1>6, <3>1 DEF Has, Single
  <2>2. ASSUME Has(way, s), s # at PROVE Has(w, s)
    <3>1. PICK k \in 1..Len(way) : way[k] = s
      BY <2>2 DEF Has
    <3>2. k - 1 \in 1..Len(w) /\ (k - 1) + 1 = k
      BY <1>3, <1>5, <2>2, <3>1
    <3>3. w[k - 1] = s
      BY <1>5, <3>1, <3>2
    <3> QED BY <3>2, <3>3 DEF Has
  <2> QED BY <2>1, <2>2
<1>10. \A s \in Sources : /\ Has(w, s) => s \notin done'
                          /\ Has(sources, s) => s \in done' \/ Has(w, s)
                          /\ s \in raised' => trigger \/ Has(w, s)
  BY <1>1, <1>2, <1>9 DEF Ahead
<1>11. Ahead(w)'
  BY <1>1, <1>7, <1>8, <1>10 DEF Ahead
<1>12. \E v \in Seq(Sources) : Ahead(v)'
  BY <1>5, <1>11
<1>13. at \notin done
  BY <1>2, <1>3 DEF Ahead
<1>14. SourceInv'
  BY <1>1, <1>12 DEF SourceInv, AsleepIdle
<1>15. PollsOnce
  BY <1>1, <1>13 DEF PollsOnce, CalledOnce, Calls
<1> QED BY <1>14, <1>15

(* When the way is at its end, no source has anything to say.              *)
LEMMA EndPollStep ==
  ASSUME SourceInv, EndPoll
  PROVE  SourceInv'
<1>1. /\ phase = "poll" /\ at = Nil /\ phase' = "callbacks" /\ staying' = {}
      /\ UNCHANGED <<sources, next, at, callbacks, running, raised, trigger>>
  BY DEF EndPoll, Enter
<1>2. PICK way \in Seq(Sources) : Ahead(way)
  BY <1>1 DEF SourceInv
<1>3. way = <<>>
  BY <1>1, <1>2, HandlersAssumption DEF Ahead, First
<1>4. ~trigger => raised = {}
  BY <1>2, <1>3 DEF Ahead, Has, SourceInv
<1> QED BY <1>1, <1>4 DEF SourceInv, AsleepIdle

(* Steps that leave what is polled alone, and raise no interrupt without   *)
(* the trigger.                                                            *)
LEMMA OtherSourceSteps ==
  ASSUME SourceInv, UNCHANGED <<polling, raised, phase>>, phase = "poll" => UNCHANGED done,
         UNCHANGED trigger \/ trigger',
         running' \in {running, Nobody} \/ phase \in {"callbacks", "timers"},
         phase = "timers" => UNCHANGED callbacks \/ trigger',
         phase = "asleep" => UNCHANGED callbacks
  PROVE  SourceInv'
<1>1. UNCHANGED <<sources, next, at, staying>>
  BY DEF polling
<1>2. ASSUME phase = "poll" PROVE \E way \in Seq(Sources) : Ahead(way)'
  <2>1. PICK way \in Seq(Sources) : Ahead(way)
    BY <1>2 DEF SourceInv
  <2>2. Ahead(way)'
    BY <1>1, <1>2, <2>1 DEF Ahead
  <2> QED BY <2>2
<1> QED BY <1>1, <1>2 DEF SourceInv, AsleepIdle

(* Every step keeps the invariant, and calls a source once in a pass.      *)
LEMMA SourceStep ==
  ASSUME Inv, SourceInv, [Next]_vars
  PROVE  SourceInv' /\ PollsOnce
<1>0. /\ Nobody \notin Timers \cup Sources \cup Callbacks
      /\ Timers \cap Sources = {} /\ Timers \cap Callbacks = {} /\ Sources \cap Callbacks = {}
      /\ CanCall => phase # "asleep"
      /\ running = Nobody \/ phase \notin {"idle", "asleep"}
      /\ timers \in Seq(Timers) /\ callbacks \in Seq(Callbacks)
  BY HandlersAssumption DEF SourceInv, CanCall, Inv, TypeInv
<1>a. ASSUME running' \in {running, Nobody} PROVE PollsOnce
  BY <1>0, <1>a DEF PollsOnce, CalledOnce, Calls
<1>1. CASE vars' = vars
  <2>1. UNCHANGED <<polling, raised, done, phase, trigger, running, callbacks>>
    BY <1>1 DEF vars
  <2> QED BY <1>a, <2>1, OtherSourceSteps
<1>2. CASE \E t \in Timers : RemoveTimer(t) \/ \E k \in 0..MaxDelay : SetTimer(t, k)
  <2>1. UNCHANGED <<polling, raised, done, phase, trigger, running, callbacks>>
    BY <1>2 DEF RemoveTimer, SetTimer
  <2> QED BY <1>a, <2>1, OtherSourceSteps
<1>3. CASE \E c \in Callbacks : ExecuteOnMainThread(c)
  <2>1. /\ UNCHANGED <<polling, raised, done, phase, running>> /\ trigger' = TRUE
        /\ phase # "asleep"
    BY <1>0, <1>3 DEF ExecuteOnMainThread
  <2> QED BY <1>a, <2>1, OtherSourceSteps
<1>4. CASE FireTimer
  <2>1. /\ UNCHANGED <<polling, raised, phase, trigger, callbacks>> /\ phase = "timers"
    BY <1>4 DEF FireTimer
  <2>2. running' = Head(timers) /\ timers # <<>>
    BY <1>4 DEF FireTimer
  <2>3. running' \in Timers
    BY <1>0, <2>2
  <2>4. PollsOnce
    BY <1>0, <2>3 DEF PollsOnce, CalledOnce, Calls
  <2> QED BY <2>1, <2>4, OtherSourceSteps
<1>5. CASE ExecuteCallback
  <2>1. /\ UNCHANGED <<polling, raised, done, phase, trigger>> /\ phase = "callbacks"
        /\ running' = Head(callbacks) /\ callbacks # <<>>
    BY <1>5 DEF ExecuteCallback
  <2>2. running' \in Callbacks
    BY <1>0, <2>1
  <2>3. PollsOnce
    BY <1>0, <2>2 DEF PollsOnce, CalledOnce, Calls
  <2> QED BY <2>1, <2>3, OtherSourceSteps
<1>6. CASE Return
  <2>1. UNCHANGED <<polling, raised, done, phase, trigger, callbacks>> /\ running' = Nobody
    BY <1>6 DEF Return
  <2> QED BY <1>a, <2>1, OtherSourceSteps
<1>7. CASE StartPass
  BY <1>7, <1>a, StartPassStep DEF StartPass, Enter
<1>8. CASE PollSource
  BY <1>8, PollSourceStep
<1>9. CASE EndPoll
  BY <1>9, <1>a, EndPollStep DEF EndPoll, Enter
<1>10. ASSUME NEW s \in Sources, AddSource(s) PROVE SourceInv' /\ PollsOnce
  BY <1>10, <1>a, AddSourceStep DEF AddSource
<1>11. ASSUME NEW s \in Sources, RemoveSource(s) PROVE SourceInv' /\ PollsOnce
  BY <1>11, <1>a, RemoveSourceStep DEF RemoveSource
<1>12. CASE EndCallbacks
  <2>1. /\ phase = "callbacks" /\ phase' = "timers" /\ callbacks = <<>>
        /\ UNCHANGED <<sources, next, at, staying, callbacks, running, raised, trigger>>
    BY <1>12 DEF EndCallbacks, polling
  <2>2. SourceInv'
    BY <2>1 DEF SourceInv, AsleepIdle
  <2> QED BY <1>a, <2>1, <2>2
<1>13. CASE EndTimers
  <2>1. /\ phase = "timers" /\ running = Nobody /\ phase' \in {"idle", "asleep"}
        /\ phase' = "asleep" => ~trigger
        /\ UNCHANGED <<sources, next, at, staying, callbacks, running, raised>>
    BY <1>13 DEF EndTimers, polling
  <2>2. SourceInv'
    BY <2>1 DEF SourceInv, AsleepIdle
  <2> QED BY <1>a, <2>1, <2>2
<1>14. CASE Tick \/ \E s \in Sources : Interrupt(s)
  <2>1. /\ UNCHANGED <<sources, next, at, staying, callbacks, running, done>>
        /\ phase' \in {phase, "idle"} /\ (phase' # phase => phase = "asleep") /\ phase' # "asleep"
    BY <1>14 DEF Tick, Interrupt, WakeUp, polling
  <2>2. /\ raised \subseteq raised' /\ raised' \subseteq Sources
        /\ \A s \in raised' : Has(sources, s)
        /\ UNCHANGED <<raised, trigger>> \/ trigger' = TRUE
    BY <1>14 DEF Tick, Interrupt, SourceInv
  <2>3. ASSUME phase' = "poll" PROVE \E way \in Seq(Sources) : Ahead(way)'
    <3>1. PICK way \in Seq(Sources) : Ahead(way)
      BY <2>1, <2>3 DEF SourceInv
    <3>2. Ahead(way)'
      BY <2>1, <2>2, <3>1 DEF Ahead
    <3> QED BY <3>2
  <2>4. SourceInv'
    BY <2>1, <2>2, <2>3 DEF SourceInv, AsleepIdle
  <2> QED BY <1>a, <2>1, <2>4
<1> QED
  BY <1>1, <1>2, <1>3, <1>4, <1>5, <1>6, <1>7, <1>8, <1>9, <1>10, <1>11, <1>12, <1>13, <1>14
     DEF Next, Loop

----------------------------------------------------------------------------
(* The theorems about sources *)

(* While sources are polled, the links lead to all that are left.          *)
THEOREM SourcesLinked == Spec => []SourceInv
<1>1. Inv /\ SourceInv /\ [Next]_vars => SourceInv'
  BY SourceStep
<1> QED BY InitSources, <1>1, Invariant, PTL DEF Spec

(* No interrupt and no callback is left over when the loop sleeps.         *)
THEOREM SleepsIdle == Spec => []AsleepIdle
<1>1. SourceInv => AsleepIdle
  BY DEF SourceInv
<1> QED BY <1>1, SourcesLinked, PTL

(* A pass calls timers and sources once, and polls every source that stays *)
(* registered, although handlers change the list it goes along.            *)
THEOREM PolledOnce == Spec => OncePerPass
<1>1. SourceInv => AllPolled
  <2> SUFFICES ASSUME SourceInv, phase = "poll", at = Nil PROVE staying \subseteq done
    BY DEF AllPolled
  <2>1. PICK way \in Seq(Sources) : Ahead(way)
    BY DEF SourceInv
  <2>2. way = <<>>
    BY <2>1, HandlersAssumption DEF Ahead, First
  <2> QED BY <2>1, <2>2 DEF Ahead, Has, SourceInv
<1>2. Inv /\ SourceInv /\ [Next]_vars => [CalledOnce(Sources)]_vars
  BY SourceStep DEF PollsOnce
<1>3. Spec => [][CalledOnce(Timers)]_vars
  BY TimersOnce
<1>4. CalledOnce(Timers) /\ CalledOnce(Sources) /\ AllPolled' =>
        CalledOnce(Timers \cup Sources) /\ AllPolled'
  BY DEF CalledOnce
<1> QED BY <1>1, <1>2, <1>3, <1>4, Invariant, SourcesLinked, PTL DEF Spec, OncePerPass
=============================================================================
