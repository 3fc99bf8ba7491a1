--------------------------- MODULE SlotListProofs ---------------------------
(***************************************************************************)
(* The linked list is a list, and implements the slot stream, for every    *)
(* finite set of slots and runs of every length.                           *)
(***************************************************************************)
EXTENDS SlotList, ListProofs, FiniteSetTheorems

(* q's i-th slot; there is none beyond either end. *)
At(q, i) == IF i \in 1..Len(q) THEN q[i] ELSE NULL

Distinct(q)    == \A i, j \in 1..Len(q) : q[i] = q[j] => i = j
Elsewhere(q, s) == \A i \in 1..Len(q) : q[i] # s

(* Ends and pointers, given as arguments, hold the list q and nothing else. *)
HoldsList(q, h, t, nx, pv) ==
  /\ q \in Seq(Slot)
  /\ Distinct(q)
  /\ h = At(q, 1) /\ t = At(q, Len(q))
  /\ nx \in [Slot -> Slot \cup {NULL}]
  /\ pv \in [Slot -> Slot \cup {NULL}]
  /\ \A i \in 1..Len(q) : nx[q[i]] = At(q, i + 1) /\ pv[q[i]] = At(q, i - 1)
  /\ \A s \in Slot : Elsewhere(q, s) => nx[s] = NULL /\ pv[s] = NULL

(* What is proved of the slot stream, of the list read forward. *)
Abs == INSTANCE SlotStreamProofs WITH stream <- Forward

(* The keys are part of the invariant: a splice divides the room between   *)
(* two of them, which is a key only if there is room.                      *)
Inv ==
  /\ TypeOK
  /\ HoldsList(Forward, head, tail, next, prev)
  /\ Abs!OrderMonotone

-----------------------------------------------------------------------------
(* Walks.                                                                  *)

LEMMA CountIsNat == SlotCount \in Nat
  BY SlotAssumption, FS_CardinalityType DEF SlotCount

(* The recursion of Walk has a solution: it is its own definition. *)
LEMMA WalkRecursion ==
  ASSUME NEW ptr, NEW s
  PROVE  Walk(ptr, s) =
           [i \in 0..SlotCount |->
              IF i = 0 THEN s
              ELSE IF Walk(ptr, s)[i - 1] = NULL THEN NULL ELSE ptr[Walk(ptr, s)[i - 1]]]
<1> DEFINE Sol(n, f) == f = [i \in 0..n |->
                               IF i = 0 THEN s
                               ELSE IF f[i - 1] = NULL THEN NULL ELSE ptr[f[i - 1]]]
           S == {n \in Nat : \E f : Sol(n, f)}
<1>1. 0 \in S
  <2> DEFINE g == [i \in 0..0 |-> s]
  <2>1. g = [i \in 0..0 |->
               IF i = 0 THEN s ELSE IF g[i - 1] = NULL THEN NULL ELSE ptr[g[i - 1]]]
    OBVIOUS
  <2>2. Sol(0, g)
    BY <2>1
  <2>3. QED
    BY <2>2
<1>2. ASSUME NEW n \in Nat, n \in S PROVE n + 1 \in S
  <2>1. PICK f : Sol(n, f)
    BY <1>2
  <2> DEFINE g == [i \in 0..(n + 1) |->
                     IF i <= n THEN f[i]
                     ELSE IF f[n] = NULL THEN NULL ELSE ptr[f[n]]]
  <2>2. ASSUME NEW i \in 0..(n + 1)
        PROVE  g[i] = IF i = 0 THEN s ELSE IF g[i - 1] = NULL THEN NULL ELSE ptr[g[i - 1]]
    <3>1. CASE i = 0
      BY <2>1, <3>1
    <3>2. CASE i # 0 /\ i <= n
      <4>1. i \in 0..n /\ i - 1 \in 0..n /\ i - 1 <= n /\ i - 1 \in 0..(n + 1)
        BY <3>2
      <4>2. f[i] = IF f[i - 1] = NULL THEN NULL ELSE ptr[f[i - 1]]
        BY <2>1, <3>2, <4>1
      <4>3. QED
        BY <3>2, <4>1, <4>2
    <3>3. CASE i = n + 1
      <4>1. i - 1 = n /\ n \in 0..(n + 1) /\ ~(i <= n) /\ i # 0 /\ g[n] = f[n]
        BY <3>3
      <4>2. QED
        BY <4>1
    <3>4. QED
      BY <3>1, <3>2, <3>3
  <2>3. g = [i \in 0..(n + 1) |-> g[i]]
    OBVIOUS
  <2> HIDE DEF g
  <2>4. Sol(n + 1, g)
    BY <2>2, <2>3
  <2>5. QED
    BY <2>4
<1>3. SlotCount \in S
  <2>1. \A n \in Nat : n \in S => n + 1 \in S
    BY <1>2
  <2> HIDE DEF S
  <2>2. QED
    BY <1>1, <2>1, CountIsNat, InductionOnSet
<1>4. PICK g : Sol(SlotCount, g)
  BY <1>3
<1>5. Walk(ptr, s) = CHOOSE f : Sol(SlotCount, f)
  BY DEF Walk
<1>6. Sol(SlotCount, Walk(ptr, s))
  <2> HIDE DEF Sol
  <2>1. Sol(SlotCount, CHOOSE f : Sol(SlotCount, f))
    BY <1>4
  <2>2. QED
    BY <1>5, <2>1
<1>7. QED
  BY <1>6

(* One step of a walk. *)
LEMMA WalkStep ==
  ASSUME NEW ptr, NEW s
  PROVE  /\ Walk(ptr, s)[0] = s
         /\ \A i \in 1..SlotCount :
              Walk(ptr, s)[i] = IF Walk(ptr, s)[i - 1] = NULL THEN NULL
                                ELSE ptr[Walk(ptr, s)[i - 1]]
<1> DEFINE w == Walk(ptr, s)
<1>1. w = [i \in 0..SlotCount |->
             IF i = 0 THEN s ELSE IF w[i - 1] = NULL THEN NULL ELSE ptr[w[i - 1]]]
  BY WalkRecursion
<1>2. 0 \in 0..SlotCount /\ \A i \in 1..SlotCount : i \in 0..SlotCount /\ i # 0
  BY CountIsNat
<1> HIDE DEF w
<1>3. w[0] = s
  BY <1>1, <1>2
<1>4. ASSUME NEW i \in 1..SlotCount
      PROVE  w[i] = IF w[i - 1] = NULL THEN NULL ELSE ptr[w[i - 1]]
  BY <1>1, <1>2
<1>5. QED
  BY <1>3, <1>4 DEF w

(* Walking along a list, either way, visits its slots and then nothing. *)
LEMMA WalkAlong ==
  ASSUME NEW q \in Seq(Slot), NEW ptr, \A i \in 1..Len(q) : ptr[q[i]] = At(q, i + 1),
         NEW j \in 1..(Len(q) + 1)
  PROVE  \A i \in 0..SlotCount : Walk(ptr, At(q, j))[i] = At(q, j + i)
<1> DEFINE w == Walk(ptr, At(q, j))
           S == {n \in Nat : n <= SlotCount => w[n] = At(q, j + n)}
<1>1. 0 \in S
  BY WalkStep
<1>2. ASSUME NEW n \in Nat, n \in S PROVE n + 1 \in S
  <2>1. SUFFICES ASSUME n + 1 <= SlotCount PROVE w[n + 1] = At(q, j + (n + 1))
    OBVIOUS
  <2>2. w[n] = At(q, j + n)
    BY <1>2, <2>1, CountIsNat
  <2>3. w[n + 1] = IF w[n] = NULL THEN NULL ELSE ptr[w[n]]
    <3>1. n + 1 \in 1..SlotCount /\ (n + 1) - 1 = n
      BY <2>1, CountIsNat
    <3>2. QED
      BY <3>1, WalkStep
  <2> HIDE DEF w
  <2>4. CASE j + n \in 1..Len(q)
    <3>1. w[n] = q[j + n] /\ q[j + n] \in Slot
      BY <2>2, <2>4 DEF At
    <3>2. w[n + 1] = At(q, (j + n) + 1)
      BY <2>3, <2>4, <3>1, NullAssumption
    <3>3. (j + n) + 1 = j + (n + 1)
      OBVIOUS
    <3>4. QED
      BY <3>2, <3>3
  <2>5. CASE j + n \notin 1..Len(q)
    <3>1. j + (n + 1) \notin 1..Len(q)
      BY <2>5
    <3>2. w[n] = NULL
      BY <2>2, <2>5 DEF At
    <3>3. QED
      BY <2>3, <3>1, <3>2 DEF At
  <2>6. QED
    BY <2>4, <2>5
<1>3. \A n \in Nat : n \in S
  <2>1. \A n \in Nat : n \in S => n + 1 \in S
    BY <1>2
  <2> HIDE DEF S
  <2>2. QED
    BY <1>1, <2>1, InductionOnSet
<1>4. QED
  BY <1>3, CountIsNat

LEMMA WalkBack ==
  ASSUME NEW q \in Seq(Slot), NEW ptr, \A i \in 1..Len(q) : ptr[q[i]] = At(q, i - 1),
         NEW j \in 0..Len(q)
  PROVE  \A i \in 0..SlotCount : Walk(ptr, At(q, j))[i] = At(q, j - i)
<1> DEFINE w == Walk(ptr, At(q, j))
           S == {n \in Nat : n <= SlotCount => w[n] = At(q, j - n)}
<1>1. 0 \in S
  BY WalkStep
<1>2. ASSUME NEW n \in Nat, n \in S PROVE n + 1 \in S
  <2>1. SUFFICES ASSUME n + 1 <= SlotCount PROVE w[n + 1] = At(q, j - (n + 1))
    OBVIOUS
  <2>2. w[n] = At(q, j - n)
    BY <1>2, <2>1, CountIsNat
  <2>3. w[n + 1] = IF w[n] = NULL THEN NULL ELSE ptr[w[n]]
    <3>1. n + 1 \in 1..SlotCount /\ (n + 1) - 1 = n
      BY <2>1, CountIsNat
    <3>2. QED
      BY <3>1, WalkStep
  <2> HIDE DEF w
  <2>4. CASE j - n \in 1..Len(q)
    <3>1. w[n] = q[j - n] /\ q[j - n] \in Slot
      BY <2>2, <2>4 DEF At
    <3>2. w[n + 1] = At(q, (j - n) - 1)
      BY <2>3, <2>4, <3>1, NullAssumption
    <3>3. (j - n) - 1 = j - (n + 1)
      OBVIOUS
    <3>4. QED
      BY <3>2, <3>3
  <2>5. CASE j - n \notin 1..Len(q)
    <3>1. j - (n + 1) \notin 1..Len(q)
      BY <2>5
    <3>2. w[n] = NULL
      BY <2>2, <2>5 DEF At
    <3>3. QED
      BY <2>3, <3>1, <3>2 DEF At
  <2>6. QED
    BY <2>4, <2>5
<1>3. \A n \in Nat : n \in S
  <2>1. \A n \in Nat : n \in S => n + 1 \in S
    BY <1>2
  <2> HIDE DEF S
  <2>2. QED
    BY <1>1, <2>1, InductionOnSet
<1>4. QED
  BY <1>3, CountIsNat

(* A walk is long enough for every list of distinct slots. *)
LEMMA ListFits ==
  ASSUME NEW q \in Seq(Slot), Distinct(q)
  PROVE  Len(q) \in Nat /\ Len(q) <= SlotCount
<1>1. q \in [1..Len(q) -> Slot] /\ Len(q) \in Nat
  OBVIOUS
<1>2. q \in Injection(1..Len(q), Slot)
  BY <1>1 DEF Injection, IsInjective, Distinct
<1>3. Cardinality(1..Len(q)) <= Cardinality(Slot)
  BY <1>2, SlotAssumption, FS_Injection
<1>4. Cardinality(1..Len(q)) = Len(q)
  <2>1. 1 \in Int /\ Len(q) \in Int
    BY <1>1
  <2>2. Cardinality(1..Len(q)) = IF 1 > Len(q) THEN 0 ELSE Len(q) - 1 + 1
    BY <2>1, FS_Interval
  <2>3. QED
    BY <1>1, <2>2
<1>5. QED
  BY <1>1, <1>3, <1>4 DEF SlotCount

(* A walk whose i-th stop is r's (i+1)-th slot reads r. *)
LEMMA WalkReads ==
  ASSUME NEW r \in Seq(Slot), Len(r) <= SlotCount, NEW w,
         \A i \in 0..SlotCount : w[i] = At(r, 1 + i)
  PROVE  /\ WalkLength(w) = Len(r)
         /\ Visited(w) = r
<1>1. Len(r) \in Nat /\ r \in [1..Len(r) -> Slot]
  OBVIOUS
<1>2. {i \in 0..SlotCount : w[i] # NULL} = 0..(Len(r) - 1)
  <2>1. ASSUME NEW i \in 0..SlotCount PROVE w[i] # NULL <=> i \in 0..(Len(r) - 1)
    <3>1. w[i] = At(r, 1 + i)
      OBVIOUS
    <3>2. 1 + i \in 1..Len(r) <=> i \in 0..(Len(r) - 1)
      BY <1>1
    <3>3. 1 + i \in 1..Len(r) => r[1 + i] \in Slot
      BY <1>1
    <3>4. QED
      BY <3>1, <3>2, <3>3, NullAssumption DEF At
  <2>2. 0..(Len(r) - 1) \subseteq 0..SlotCount
    BY <1>1, CountIsNat
  <2>3. QED
    BY <2>1, <2>2
<1>3. Cardinality(0..(Len(r) - 1)) = Len(r)
  <2>1. Len(r) - 1 \in Int /\ 0 \in Int
    BY <1>1
  <2>2. Cardinality(0..(Len(r) - 1)) = IF 0 > Len(r) - 1 THEN 0 ELSE (Len(r) - 1) - 0 + 1
    BY <2>1, FS_Interval
  <2>3. QED
    BY <1>1, <2>2
<1>4. WalkLength(w) = Len(r)
  BY <1>2, <1>3 DEF WalkLength
<1>5. \A i \in 1..Len(r) : w[i - 1] = r[i]
  <2>1. SUFFICES ASSUME NEW i \in 1..Len(r) PROVE w[i - 1] = r[i]
    OBVIOUS
  <2>2. i - 1 \in 0..SlotCount /\ 1 + (i - 1) = i
    BY <1>1, CountIsNat
  <2>3. QED
    BY <2>2 DEF At
<1>6. QED
  BY <1>1, <1>4, <1>5 DEF Visited

Reversed(q) == [i \in 1..Len(q) |-> q[Len(q) + 1 - i]]

(* Both walks read the list that the pointers hold. *)
LEMMA WalksReadList ==
  ASSUME NEW q, NEW h, NEW t, NEW nx, NEW pv, HoldsList(q, h, t, nx, pv)
  PROVE  /\ Visited(Walk(nx, h)) = q
         /\ Visited(Walk(pv, t)) = Reversed(q)
<1>1. q \in Seq(Slot) /\ Len(q) \in Nat /\ Len(q) <= SlotCount
  BY ListFits DEF HoldsList
<1>2. \A i \in 0..SlotCount : Walk(nx, h)[i] = At(q, 1 + i)
  <2>1. \A i \in 1..Len(q) : nx[q[i]] = At(q, i + 1)
    BY DEF HoldsList
  <2>2. 1 \in 1..(Len(q) + 1) /\ h = At(q, 1)
    BY <1>1 DEF HoldsList
  <2>3. QED
    BY <1>1, <2>1, <2>2, WalkAlong
<1>3. \A i \in 0..SlotCount : Walk(pv, t)[i] = At(q, Len(q) - i)
  <2>1. \A i \in 1..Len(q) : pv[q[i]] = At(q, i - 1)
    BY DEF HoldsList
  <2>2. Len(q) \in 0..Len(q) /\ t = At(q, Len(q))
    BY <1>1 DEF HoldsList
  <2>3. QED
    BY <1>1, <2>1, <2>2, WalkBack
<1>4. Reversed(q) \in Seq(Slot) /\ Len(Reversed(q)) = Len(q)
  BY <1>1 DEF Reversed
<1>5. \A i \in 0..SlotCount : At(q, Len(q) - i) = At(Reversed(q), 1 + i)
  <2>1. SUFFICES ASSUME NEW i \in 0..SlotCount
                 PROVE  At(q, Len(q) - i) = At(Reversed(q), 1 + i)
    OBVIOUS
  <2>2. Len(q) - i \in 1..Len(q) <=> 1 + i \in 1..Len(q)
    BY <1>1
  <2>3. 1 + i \in 1..Len(q) => Reversed(q)[1 + i] = q[Len(q) - i]
    BY <1>1 DEF Reversed
  <2>4. QED
    BY <1>4, <2>2, <2>3 DEF At
<1>6. \A i \in 0..SlotCount : Walk(pv, t)[i] = At(Reversed(q), 1 + i)
  BY <1>3, <1>5
<1>7. QED
  BY <1>1, <1>2, <1>4, <1>6, WalkReads

-----------------------------------------------------------------------------
(* Pointer surgery.                                                        *)

Splice(q, p, run) ==
  [i \in 1..(Len(q) + Len(run)) |->
     IF i <= p THEN q[i]
     ELSE IF i <= p + Len(run) THEN run[i - p]
     ELSE q[i - Len(run)]]

Cut(q, p) == [i \in 1..(Len(q) - 1) |-> IF i < p THEN q[i] ELSE q[i + 1]]

(* Where each slot of a spliced list comes from. *)
LEMMA SpliceParts ==
  ASSUME NEW q \in Seq(Slot), NEW p \in 0..Len(q), NEW k \in Nat, NEW run \in [1..k -> Slot]
  PROVE  LET new == Splice(q, p, run)
         IN  /\ Len(run) = k
             /\ new \in Seq(Slot) /\ Len(new) = Len(q) + k
             /\ \A i \in 1..p : new[i] = q[i]
             /\ \A i \in 1..k : new[p + i] = run[i]
             /\ \A i \in (p + 1)..Len(q) : new[i + k] = q[i]
<1> DEFINE new == Splice(q, p, run)
<1>1. Len(q) \in Nat /\ q \in [1..Len(q) -> Slot] /\ p \in Nat /\ p <= Len(q)
  OBVIOUS
<1>2. run \in Seq(Slot) /\ Len(run) = k
  OBVIOUS
<1>3. new = [i \in 1..(Len(q) + k) |->
               IF i <= p THEN q[i] ELSE IF i <= p + k THEN run[i - p] ELSE q[i - k]]
  BY <1>2 DEF Splice
<1> HIDE DEF new
<1>4. ASSUME NEW i \in 1..p PROVE i \in 1..(Len(q) + k) /\ new[i] = q[i]
  BY <1>1, <1>3
<1>5. ASSUME NEW i \in 1..k PROVE p + i \in 1..(Len(q) + k) /\ new[p + i] = run[i]
  <2>1. p + i \in 1..(Len(q) + k) /\ ~(p + i <= p) /\ p + i <= p + k /\ (p + i) - p = i
    BY <1>1
  <2>2. QED
    BY <1>3, <2>1
<1>6. ASSUME NEW i \in (p + 1)..Len(q)
      PROVE  i + k \in 1..(Len(q) + k) /\ new[i + k] = q[i]
  <2>1. i + k \in 1..(Len(q) + k) /\ ~(i + k <= p) /\ ~(i + k <= p + k) /\ (i + k) - k = i
    BY <1>1
  <2>2. QED
    BY <1>3, <2>1
<1>7. new \in [1..(Len(q) + k) -> Slot]
  <2>1. ASSUME NEW i \in 1..(Len(q) + k) PROVE new[i] \in Slot
    <3>1. CASE i <= p
      BY <1>1, <1>4, <3>1
    <3>2. CASE i > p /\ i <= p + k
      <4>1. i - p \in 1..k /\ p + (i - p) = i
        BY <1>1, <3>2
      <4>2. new[i] = run[i - p]
        BY <4>1, <1>5
      <4>3. QED
        BY <4>1, <4>2
    <3>3. CASE i > p + k
      <4>1. i - k \in (p + 1)..Len(q) /\ (i - k) + k = i /\ i - k \in 1..Len(q)
        BY <1>1, <3>3
      <4>2. new[i] = q[i - k]
        BY <4>1, <1>6
      <4>3. QED
        BY <1>1, <4>1, <4>2
    <3>4. QED
      BY <1>1, <3>1, <3>2, <3>3
  <2>2. QED
    BY <1>3, <2>1
<1>8. Len(q) + k \in Nat
  BY <1>1
<1>9. new \in Seq(Slot) /\ Len(new) = Len(q) + k
  BY <1>7, <1>8
<1>10. QED
  BY <1>2, <1>4, <1>5, <1>6, <1>9 DEF new

(* The slots of a spliced list are those of the list and of the run, in    *)
(* the places SpliceParts gives, and nothing else.                         *)
LEMMA SplicePlaces ==
  ASSUME NEW p \in Nat, NEW k \in Nat, NEW n \in Nat, p <= n, NEW i \in 1..(n + k)
  PROVE  \/ i \in 1..p
         \/ \E j \in 1..k : i = p + j
         \/ \E j \in (p + 1)..n : i = j + k
<1>1. CASE i <= p
  BY <1>1
<1>2. CASE i > p /\ i <= p + k
  <2>1. i - p \in 1..k /\ i = p + (i - p)
    BY <1>2
  <2>2. QED
    BY <2>1
<1>3. CASE i > p + k
  <2>1. i - k \in (p + 1)..n /\ i = (i - k) + k
    BY <1>3
  <2>2. QED
    BY <2>1
<1>4. QED
  BY <1>1, <1>2, <1>3

LEMMA SpliceDistinct ==
  ASSUME NEW q \in Seq(Slot), Distinct(q), NEW p \in 0..Len(q),
         NEW k \in Nat, NEW run \in [1..k -> Slot],
         \A i, j \in 1..k : run[i] = run[j] => i = j,
         \A i \in 1..k : Elsewhere(q, run[i])
  PROVE  Distinct(Splice(q, p, run))
<1> DEFINE new == Splice(q, p, run)
           n == Len(q)
<1>1. n \in Nat /\ p \in Nat /\ p <= n
  OBVIOUS
<1>2. /\ Len(new) = n + k
      /\ \A i \in 1..p : new[i] = q[i] /\ i \in 1..n
      /\ \A i \in 1..k : new[p + i] = run[i]
      /\ \A i \in (p + 1)..n : new[i + k] = q[i] /\ i \in 1..n
  BY <1>1, SpliceParts
<1>3. \A i, j \in 1..n : q[i] = q[j] => i = j
  BY DEF Distinct
<1>4. \A i \in 1..n, j \in 1..k : q[i] # run[j]
  BY DEF Elsewhere
<1> HIDE DEF new, n
<1>5. SUFFICES ASSUME NEW i \in 1..(n + k), NEW j \in 1..(n + k), new[i] = new[j]
               PROVE  i = j
  BY <1>2 DEF Distinct, new
<1>6. CASE i \in 1..p
  <2>1. new[i] = q[i] /\ i \in 1..n /\ i <= p
    BY <1>2, <1>6
  <2>2. CASE j \in 1..p
    <3>1. new[j] = q[j] /\ j \in 1..n
      BY <1>2, <2>2
    <3>2. QED
      BY <1>3, <1>5, <2>1, <3>1
  <2>3. ASSUME NEW b \in 1..k, j = p + b PROVE FALSE
    <3>1. new[j] = run[b]
      BY <1>2, <2>3
    <3>2. QED
      BY <1>4, <1>5, <2>1, <3>1
  <2>4. ASSUME NEW b \in (p + 1)..n, j = b + k PROVE FALSE
    <3>1. new[j] = q[b] /\ b \in 1..n /\ b > p
      BY <1>2, <2>4
    <3>2. i = b
      BY <1>3, <1>5, <2>1, <3>1
    <3>3. QED
      BY <2>1, <3>1, <3>2
  <2>5. QED
    BY <1>1, <2>2, <2>3, <2>4, SplicePlaces
<1>7. ASSUME NEW a \in 1..k, i = p + a PROVE i = j
  <2>1. new[i] = run[a]
    BY <1>2, <1>7
  <2>2. CASE j \in 1..p
    <3>1. new[j] = q[j] /\ j \in 1..n
      BY <1>2, <2>2
    <3>2. QED
      BY <1>4, <1>5, <2>1, <3>1
  <2>3. ASSUME NEW b \in 1..k, j = p + b PROVE i = j
    <3>1. new[j] = run[b]
      BY <1>2, <2>3
    <3>2. a = b
      BY <1>5, <2>1, <3>1
    <3>3. QED
      BY <1>7, <2>3, <3>2
  <2>4. ASSUME NEW b \in (p + 1)..n, j = b + k PROVE FALSE
    <3>1. new[j] = q[b] /\ b \in 1..n
      BY <1>2, <2>4
    <3>2. QED
      BY <1>4, <1>5, <2>1, <3>1
  <2>5. QED
    BY <1>1, <2>2, <2>3, <2>4, SplicePlaces
<1>8. ASSUME NEW a \in (p + 1)..n, i = a + k PROVE i = j
  <2>1. new[i] = q[a] /\ a \in 1..n /\ a > p
    BY <1>2, <1>8
  <2>2. CASE j \in 1..p
    <3>1. new[j] = q[j] /\ j \in 1..n /\ j <= p
      BY <1>2, <2>2
    <3>2. a = j
      BY <1>3, <1>5, <2>1, <3>1
    <3>3. QED
      BY <2>1, <3>1, <3>2
  <2>3. ASSUME NEW b \in 1..k, j = p + b PROVE FALSE
    <3>1. new[j] = run[b]
      BY <1>2, <2>3
    <3>2. QED
      BY <1>4, <1>5, <2>1, <3>1
  <2>4. ASSUME NEW b \in (p + 1)..n, j = b + k PROVE i = j
    <3>1. new[j] = q[b] /\ b \in 1..n
      BY <1>2, <2>4
    <3>2. a = b
      BY <1>3, <1>5, <2>1, <3>1
    <3>3. QED
      BY <1>8, <2>4, <3>2
  <2>5. QED
    BY <1>1, <2>2, <2>3, <2>4, SplicePlaces
<1>9. QED
  BY <1>1, <1>6, <1>7, <1>8, SplicePlaces

(* _link_run_between, at any seam of the list, splices the run in there. *)
LEMMA LinkSplices ==
  ASSUME NEW q, HoldsList(q, head, tail, next, prev), NEW p \in 0..Len(q),
         NEW k \in Nat, NEW run \in [1..k -> Slot],
         \A i, j \in 1..k : run[i] = run[j] => i = j,
         \A i \in 1..k : Elsewhere(q, run[i]),
         LinkRunBetween(At(q, p), run, At(q, p + 1))
  PROVE  HoldsList(Splice(q, p, run), head', tail', next', prev')
<1> DEFINE new == Splice(q, p, run)
           n == Len(q)
<1>1. /\ q \in Seq(Slot) /\ Distinct(q) /\ n \in Nat
      /\ p \in Nat /\ p <= n
      /\ \A i \in 1..n : q[i] \in Slot
  BY DEF HoldsList
<1>2. /\ Len(run) = k
      /\ new \in Seq(Slot) /\ Len(new) = n + k
      /\ \A i \in 1..p : new[i] = q[i]
      /\ \A i \in 1..k : new[p + i] = run[i]
      /\ \A i \in (p + 1)..n : new[i + k] = q[i]
  BY <1>1, SpliceParts
<1>3. Distinct(new)
  BY <1>1, SpliceDistinct
<1>4. \A i, j \in 1..n : q[i] = q[j] => i = j
  BY <1>1 DEF Distinct
<1>5. \A i \in 1..n, j \in 1..k : q[i] # run[j]
  BY DEF Elsewhere
<1>6. \A i \in 1..k : InRun(run, run[i]) /\ IndexIn(run, run[i]) = i
  BY <1>2 DEF InRun, IndexIn
<1>7. \A s \in Slot : InRun(run, s) <=> \E i \in 1..k : run[i] = s
  BY <1>2 DEF InRun
<1>8. \A i \in 1..n : ~InRun(run, q[i])
  BY <1>1, <1>5, <1>7
<1>9. (k > 0 <=> run # <<>>) /\ (k = 0 => run = <<>>)
  BY <1>2
<1>10. \A i \in 1..n : (q[i] = At(q, p) <=> i = p) /\ (q[i] = At(q, p + 1) <=> i = p + 1)
  BY <1>1, <1>4, NullAssumption DEF At
<1> HIDE DEF new, n
<1>11. \A i \in 1..k : next'[run[i]] = IF i = k THEN At(q, p + 1) ELSE run[i + 1]
  BY <1>2, <1>6 DEF LinkRunBetween, StitchRun
<1>12. \A i \in 1..k : prev'[run[i]] = IF i = 1 THEN At(q, p) ELSE run[i - 1]
  BY <1>2, <1>6 DEF LinkRunBetween, StitchRun
<1>13. \A i \in 1..n : next'[q[i]] = IF i = p /\ k > 0 THEN run[1] ELSE next[q[i]]
  BY <1>1, <1>2, <1>8, <1>10 DEF LinkRunBetween, StitchRun
<1>14. \A i \in 1..n : prev'[q[i]] = IF i = p + 1 THEN (IF k > 0 THEN run[k] ELSE At(q, p))
                                     ELSE prev[q[i]]
  BY <1>1, <1>2, <1>8, <1>10 DEF LinkRunBetween, StitchRun
<1>15. \A i \in 1..n : next[q[i]] = At(q, i + 1) /\ prev[q[i]] = At(q, i - 1)
  BY DEF HoldsList, n
<1>16. /\ \A i \in 1..p : At(new, i) = q[i]
       /\ \A i \in 1..k : At(new, p + i) = run[i]
       /\ \A i \in (p + 1)..(n + 1) : At(new, i + k) = At(q, i)
       /\ At(new, 0) = NULL
  <2>1. ASSUME NEW i \in 1..p PROVE At(new, i) = q[i]
    BY <1>1, <1>2 DEF At
  <2>2. ASSUME NEW i \in 1..k PROVE At(new, p + i) = run[i]
    BY <1>1, <1>2 DEF At
  <2>3. ASSUME NEW i \in (p + 1)..(n + 1) PROVE At(new, i + k) = At(q, i)
    <3>1. CASE i = n + 1
      BY <1>1, <1>2, <3>1 DEF At, n
    <3>2. CASE i # n + 1
      <4>1. i \in (p + 1)..n /\ i \in 1..n /\ i + k \in 1..(n + k)
        BY <1>1, <3>2
      <4>2. QED
        BY <1>2, <4>1 DEF At, n
    <3>3. QED
      BY <3>1, <3>2
  <2>4. At(new, 0) = NULL
    BY DEF At
  <2>5. QED
    BY <2>1, <2>2, <2>3, <2>4
<1>17. \A i \in 1..(n + k) : next'[new[i]] = At(new, i + 1) /\ prev'[new[i]] = At(new, i - 1)
  <2>1. ASSUME NEW i \in 1..p
        PROVE  next'[new[i]] = At(new, i + 1) /\ prev'[new[i]] = At(new, i - 1)
    <3>1. new[i] = q[i] /\ i \in 1..n /\ i # p + 1
      BY <1>1, <1>2
    <3>2. next'[q[i]] = At(new, i + 1)
      <4>1. CASE i = p /\ k > 0
        BY <1>13, <1>16, <3>1, <4>1
      <4>2. CASE i = p /\ k = 0
        <5>1. p + 1 \in (p + 1)..(n + 1) /\ (p + 1) + k = i + 1
          BY <1>1, <4>2
        <5>2. QED
          BY <1>13, <1>15, <1>16, <3>1, <4>2, <5>1
      <4>3. CASE i # p
        <5>1. i + 1 \in 1..p /\ i + 1 \in 1..n
          BY <1>1, <4>3
        <5>2. QED
          BY <1>13, <1>15, <1>16, <3>1, <4>3, <5>1 DEF At, n
      <4>4. QED
        BY <4>1, <4>2, <4>3
    <3>3. prev'[q[i]] = At(new, i - 1)
      <4>1. prev'[q[i]] = At(q, i - 1)
        BY <1>14, <1>15, <3>1
      <4>2. CASE i = 1
        BY <1>16, <4>1, <4>2 DEF At
      <4>3. CASE i # 1
        <5>1. i - 1 \in 1..p /\ i - 1 \in 1..n
          BY <1>1, <4>3
        <5>2. QED
          BY <1>16, <4>1, <5>1 DEF At, n
      <4>4. QED
        BY <4>2, <4>3
    <3>4. QED
      BY <3>1, <3>2, <3>3
  <2>2. ASSUME NEW i \in 1..k
        PROVE  next'[new[p + i]] = At(new, (p + i) + 1) /\ prev'[new[p + i]] = At(new, (p + i) - 1)
    <3>1. new[p + i] = run[i]
      BY <1>2
    <3>2. next'[run[i]] = At(new, (p + i) + 1)
      <4>1. CASE i = k
        <5>1. p + 1 \in (p + 1)..(n + 1) /\ (p + 1) + k = (p + i) + 1
          BY <1>1, <4>1
        <5>2. QED
          BY <1>11, <1>16, <4>1, <5>1
      <4>2. CASE i # k
        <5>1. i + 1 \in 1..k /\ p + (i + 1) = (p + i) + 1
          BY <1>1, <4>2
        <5>2. QED
          BY <1>11, <1>16, <4>2, <5>1
      <4>3. QED
        BY <4>1, <4>2
    <3>3. prev'[run[i]] = At(new, (p + i) - 1)
      <4>1. CASE i = 1
        <5>1. (p + i) - 1 = p
          BY <1>1, <4>1
        <5>2. At(new, p) = At(q, p)
          BY <1>1, <1>16 DEF At, n
        <5>3. QED
          BY <1>12, <4>1, <5>1, <5>2
      <4>2. CASE i # 1
        <5>1. i - 1 \in 1..k /\ p + (i - 1) = (p + i) - 1
          BY <1>1, <4>2
        <5>2. QED
          BY <1>12, <1>16, <4>2, <5>1
      <4>3. QED
        BY <4>1, <4>2
    <3>4. QED
      BY <3>1, <3>2, <3>3
  <2>3. ASSUME NEW i \in (p + 1)..n
        PROVE  next'[new[i + k]] = At(new, (i + k) + 1) /\ prev'[new[i + k]] = At(new, (i + k) - 1)
    <3>1. new[i + k] = q[i] /\ i \in 1..n /\ i # p
      <4>1. i \in 1..n /\ i # p
        BY <1>1
      <4>2. new[i + k] = q[i]
        BY <1>2
      <4>3. QED
        BY <4>1, <4>2
    <3>2. next'[q[i]] = At(new, (i + k) + 1)
      <4>1. i + 1 \in (p + 1)..(n + 1) /\ (i + 1) + k = (i + k) + 1
        BY <1>1
      <4>2. QED
        BY <1>13, <1>15, <1>16, <3>1, <4>1
    <3>3. prev'[q[i]] = At(new, (i + k) - 1)
      <4>1. CASE i = p + 1 /\ k > 0
        <5>1. k \in 1..k /\ p + k = (i + k) - 1
          BY <1>1, <4>1
        <5>2. QED
          BY <1>14, <1>16, <3>1, <4>1, <5>1
      <4>2. CASE i = p + 1 /\ k = 0
        <5>1. (i + k) - 1 = p
          BY <1>1, <4>2
        <5>2. At(new, p) = At(q, p)
          BY <1>1, <1>16 DEF At, n
        <5>3. QED
          BY <1>14, <3>1, <4>2, <5>1, <5>2
      <4>3. CASE i # p + 1
        <5>1. i - 1 \in (p + 1)..(n + 1) /\ (i - 1) + k = (i + k) - 1
          BY <1>1, <4>3
        <5>2. QED
          BY <1>14, <1>15, <1>16, <3>1, <4>3, <5>1
      <4>4. QED
        BY <4>1, <4>2, <4>3
    <3>4. QED
      BY <3>1, <3>2, <3>3
  <2>4. ASSUME NEW i \in 1..(n + k)
        PROVE  next'[new[i]] = At(new, i + 1) /\ prev'[new[i]] = At(new, i - 1)
    <3>1. \/ i \in 1..p
          \/ \E j \in 1..k : i = p + j
          \/ \E j \in (p + 1)..n : i = j + k
      BY <1>1, SplicePlaces
    <3>2. QED
      BY <2>1, <2>2, <2>3, <3>1
  <2>5. QED
    BY <2>4
<1>18. head' = At(new, 1)
  <2>1. head = At(q, 1)
    BY DEF HoldsList
  <2>2. CASE p > 0
    <3>1. At(q, p) # NULL /\ 1 \in 1..p /\ 1 \in 1..n
      BY <1>1, <2>2, NullAssumption DEF At, n
    <3>2. QED
      BY <1>16, <2>1, <3>1 DEF LinkRunBetween, At, n
  <2>3. CASE p = 0 /\ k > 0
    <3>1. At(q, p) = NULL /\ 1 \in 1..k /\ p + 1 = 1
      BY <2>3 DEF At
    <3>2. QED
      BY <1>9, <1>16, <2>3, <3>1 DEF LinkRunBetween
  <2>4. CASE p = 0 /\ k = 0
    <3>1. At(q, p) = NULL /\ 1 \in (p + 1)..(n + 1) /\ 1 + k = 1 /\ p + 1 = 1
      BY <1>1, <2>4 DEF At
    <3>2. QED
      BY <1>9, <1>16, <2>4, <3>1 DEF LinkRunBetween
  <2>5. QED
    BY <1>1, <2>2, <2>3, <2>4
<1>19. tail' = At(new, n + k)
  <2>1. tail = At(q, n)
    BY DEF HoldsList, n
  <2>2. CASE p < n
    <3>1. At(q, p + 1) # NULL /\ n \in (p + 1)..(n + 1)
      BY <1>1, <2>2, NullAssumption DEF At, n
    <3>2. QED
      BY <1>16, <2>1, <3>1 DEF LinkRunBetween
  <2>3. CASE p = n /\ k > 0
    <3>1. At(q, p + 1) = NULL /\ k \in 1..k
      BY <1>1, <2>3 DEF At, n
    <3>2. QED
      BY <1>2, <1>9, <1>16, <2>3, <3>1 DEF LinkRunBetween
  <2>4. CASE p = n /\ k = 0
    <3>1. At(q, p + 1) = NULL /\ n + k = n
      BY <1>1, <2>4 DEF At, n
    <3>2. At(new, p) = At(q, p)
      BY <1>1, <1>16 DEF At, n
    <3>3. QED
      BY <1>9, <2>4, <3>1, <3>2 DEF LinkRunBetween
  <2>5. QED
    BY <1>1, <2>2, <2>3, <2>4
<1>20. \A s \in Slot : Elsewhere(new, s) => next'[s] = NULL /\ prev'[s] = NULL
  <2>1. SUFFICES ASSUME NEW s \in Slot, Elsewhere(new, s)
                 PROVE  next'[s] = NULL /\ prev'[s] = NULL
    OBVIOUS
  <2>2. ~InRun(run, s)
    <3>1. \A i \in 1..k : p + i \in 1..(n + k)
      BY <1>1
    <3>2. \A i \in 1..k : new[p + i] # s
      BY <1>2, <2>1, <3>1 DEF Elsewhere
    <3>3. \A i \in 1..k : run[i] # s
      BY <1>2, <3>2
    <3>4. QED
      BY <1>7, <3>3
  <2>3. Elsewhere(q, s)
    <3>1. SUFFICES ASSUME NEW i \in 1..n PROVE q[i] # s
      BY DEF Elsewhere, n
    <3>2. CASE i <= p
      BY <1>1, <1>2, <2>1, <3>2 DEF Elsewhere
    <3>3. CASE i > p
      <4>1. i \in (p + 1)..n /\ i + k \in 1..(n + k)
        BY <1>1, <3>3
      <4>2. QED
        BY <1>2, <2>1, <4>1 DEF Elsewhere
    <3>4. QED
      BY <1>1, <3>2, <3>3
  <2>4. next[s] = NULL /\ prev[s] = NULL
    BY <2>3 DEF HoldsList
  <2>5. s # At(q, p) /\ s # At(q, p + 1)
    BY <2>3, NullAssumption DEF At, Elsewhere
  <2>6. QED
    BY <2>2, <2>4, <2>5 DEF LinkRunBetween, StitchRun
<1>21. \A i \in Int : At(q, i) \in Slot \cup {NULL}
  BY <1>1 DEF At, n
<1>22. next' \in [Slot -> Slot \cup {NULL}] /\ prev' \in [Slot -> Slot \cup {NULL}]
  <2>1. next \in [Slot -> Slot \cup {NULL}] /\ prev \in [Slot -> Slot \cup {NULL}]
    BY DEF HoldsList
  <2>2. \A s \in Slot : next'[s] \in Slot \cup {NULL} /\ prev'[s] \in Slot \cup {NULL}
    <3>1. SUFFICES ASSUME NEW s \in Slot
                   PROVE  next'[s] \in Slot \cup {NULL} /\ prev'[s] \in Slot \cup {NULL}
      OBVIOUS
    <3>2. CASE InRun(run, s)
      <4>1. PICK i \in 1..k : run[i] = s
        BY <1>7, <3>2
      <4>2. QED
        BY <1>1, <1>11, <1>12, <1>21, <4>1
    <3>3. CASE ~InRun(run, s)
      <4>1. next'[s] \in {next[s]} \cup {run[j] : j \in 1..k}
        BY <1>2, <3>3 DEF LinkRunBetween, StitchRun
      <4>2. prev'[s] \in {prev[s], At(q, p)} \cup {run[j] : j \in 1..k}
        BY <1>2, <3>3 DEF LinkRunBetween, StitchRun
      <4>3. QED
        BY <1>1, <1>21, <2>1, <4>1, <4>2
    <3>4. QED
      BY <3>2, <3>3
  <2>3. next' = [s \in Slot |-> next'[s]] /\ prev' = [s \in Slot |-> prev'[s]]
    BY DEF LinkRunBetween, StitchRun
  <2>4. QED
    BY <2>2, <2>3
<1>23. QED
  BY <1>2, <1>3, <1>17, <1>18, <1>19, <1>20, <1>22 DEF HoldsList, new

(* unlink_slot, at any slot of the list, cuts it out. *)
LEMMA UnlinkCuts ==
  ASSUME NEW q, HoldsList(q, head, tail, next, prev), NEW p \in 1..Len(q), UnlinkSlot(q[p])
  PROVE  HoldsList(Cut(q, p), head', tail', next', prev')
<1> DEFINE new == Cut(q, p)
           n == Len(q)
           at(i) == IF i < p THEN i ELSE i + 1
<1>1. /\ q \in Seq(Slot) /\ Distinct(q) /\ n \in Nat /\ n - 1 \in Nat
      /\ p \in Nat /\ p <= n
      /\ \A i \in 1..n : q[i] \in Slot
  BY DEF HoldsList
<1>2. \A i \in 1..(n - 1) : at(i) \in 1..n /\ at(i) # p
  BY <1>1
<1>3. new = [i \in 1..(n - 1) |-> q[at(i)]]
  BY DEF Cut
<1>4. new \in Seq(Slot) /\ Len(new) = n - 1
  BY <1>1, <1>2, <1>3
<1>5. \A i, j \in 1..n : q[i] = q[j] => i = j
  BY <1>1 DEF Distinct
<1>6. \A i \in 1..n : next[q[i]] = At(q, i + 1) /\ prev[q[i]] = At(q, i - 1)
  BY DEF HoldsList
<1>7. \A i \in 1..n : (q[i] = At(q, p - 1) <=> i = p - 1) /\ (q[i] = At(q, p + 1) <=> i = p + 1)
  BY <1>1, <1>5, NullAssumption DEF At
<1>8. next \in [Slot -> Slot \cup {NULL}] /\ prev \in [Slot -> Slot \cup {NULL}]
  BY DEF HoldsList
<1>9. /\ next' = [x \in Slot |-> IF x = q[p] THEN NULL
                                 ELSE IF x = At(q, p - 1) THEN At(q, p + 1) ELSE next[x]]
      /\ prev' = [x \in Slot |-> IF x = q[p] THEN NULL
                                 ELSE IF x = At(q, p + 1) THEN At(q, p - 1) ELSE prev[x]]
  BY <1>6 DEF UnlinkSlot
<1>10. \A i \in Int : At(q, i) \in Slot \cup {NULL}
  BY <1>1 DEF At
<1>11. next' \in [Slot -> Slot \cup {NULL}] /\ prev' \in [Slot -> Slot \cup {NULL}]
  BY <1>1, <1>8, <1>9, <1>10
<1>12. /\ \A i \in 0..(p - 1) : At(new, i) = At(q, i)
       /\ \A i \in p..n : At(new, i) = At(q, i + 1)
  <2>1. ASSUME NEW i \in 0..(p - 1) PROVE At(new, i) = At(q, i)
    <3>1. i \in 1..Len(new) <=> i \in 1..n
      BY <1>1, <1>4
    <3>2. i \in 1..(n - 1) => new[i] = q[i]
      BY <1>1, <1>3
    <3>3. QED
      BY <1>4, <3>1, <3>2 DEF At
  <2>2. ASSUME NEW i \in p..n PROVE At(new, i) = At(q, i + 1)
    <3>1. i \in 1..Len(new) <=> i + 1 \in 1..n
      BY <1>1, <1>4
    <3>2. i \in 1..(n - 1) => new[i] = q[i + 1]
      BY <1>1, <1>3
    <3>3. QED
      BY <1>4, <3>1, <3>2 DEF At
  <2>3. QED
    BY <2>1, <2>2
<1> HIDE DEF new
<1>13. ASSUME NEW i \in 1..(n - 1)
       PROVE  next'[new[i]] = At(new, i + 1) /\ prev'[new[i]] = At(new, i - 1)
  <2>1. new[i] = q[at(i)] /\ at(i) \in 1..n /\ at(i) # p /\ q[at(i)] # q[p]
    BY <1>2, <1>3, <1>5
  <2>2. /\ next'[q[at(i)]] = IF at(i) = p - 1 THEN At(q, p + 1) ELSE At(q, at(i) + 1)
        /\ prev'[q[at(i)]] = IF at(i) = p + 1 THEN At(q, p - 1) ELSE At(q, at(i) - 1)
    BY <1>1, <1>6, <1>7, <1>9, <2>1
  <2>3. CASE i < p - 1
    <3>1. i + 1 \in 0..(p - 1) /\ i - 1 \in 0..(p - 1) /\ at(i) = i
      BY <1>1, <2>3
    <3>2. QED
      BY <1>12, <2>1, <2>2, <2>3, <3>1
  <2>4. CASE i = p - 1
    <3>1. i + 1 \in p..n /\ i - 1 \in 0..(p - 1) /\ at(i) = i /\ (i + 1) + 1 = p + 1
      BY <1>1, <2>4
    <3>2. QED
      BY <1>12, <2>1, <2>2, <2>4, <3>1
  <2>5. CASE i = p
    <3>1. i + 1 \in p..n /\ i - 1 \in 0..(p - 1) /\ at(i) = p + 1 /\ i - 1 = p - 1
      BY <1>1, <2>5
    <3>2. QED
      BY <1>12, <2>1, <2>2, <2>5, <3>1
  <2>6. CASE i > p
    <3>1. i + 1 \in p..n /\ i - 1 \in p..n /\ at(i) = i + 1 /\ (i - 1) + 1 = (i + 1) - 1
      BY <1>1, <2>6
    <3>2. QED
      BY <1>12, <2>1, <2>2, <2>6, <3>1
  <2>7. QED
    BY <1>1, <2>3, <2>4, <2>5, <2>6
<1>14. Distinct(new)
  <2>1. SUFFICES ASSUME NEW i \in 1..(n - 1), NEW j \in 1..(n - 1), new[i] = new[j]
                 PROVE  i = j
    BY <1>4 DEF Distinct
  <2>2. at(i) = at(j)
    BY <1>2, <1>3, <1>5, <2>1
  <2>3. QED
    BY <1>1, <2>2
<1>15. head' = At(new, 1)
  <2>1. head = At(q, 1)
    BY DEF HoldsList
  <2>2. prev[q[p]] = At(q, p - 1) /\ next[q[p]] = At(q, p + 1)
    BY <1>6
  <2>3. CASE p = 1
    <3>1. At(q, p - 1) = NULL /\ 1 \in p..n
      BY <1>1, <2>3 DEF At
    <3>2. QED
      BY <1>12, <2>2, <2>3, <3>1 DEF UnlinkSlot
  <2>4. CASE p # 1
    <3>1. At(q, p - 1) # NULL /\ 1 \in 0..(p - 1)
      BY <1>1, <2>4, NullAssumption DEF At
    <3>2. QED
      BY <1>12, <2>1, <2>2, <3>1 DEF UnlinkSlot
  <2>5. QED
    BY <2>3, <2>4
<1>16. tail' = At(new, n - 1)
  <2>1. tail = At(q, n)
    BY DEF HoldsList
  <2>2. prev[q[p]] = At(q, p - 1) /\ next[q[p]] = At(q, p + 1)
    BY <1>6
  <2>3. CASE p = n
    <3>1. At(q, p + 1) = NULL /\ n - 1 \in 0..(p - 1)
      BY <1>1, <2>3 DEF At
    <3>2. QED
      BY <1>12, <2>2, <2>3, <3>1 DEF UnlinkSlot
  <2>4. CASE p # n
    <3>1. At(q, p + 1) # NULL /\ n - 1 \in p..n /\ (n - 1) + 1 = n
      BY <1>1, <2>4, NullAssumption DEF At
    <3>2. QED
      BY <1>12, <2>1, <2>2, <3>1 DEF UnlinkSlot
  <2>5. QED
    BY <2>3, <2>4
<1>17. ASSUME NEW s \in Slot, Elsewhere(new, s) PROVE next'[s] = NULL /\ prev'[s] = NULL
  <2>1. CASE s = q[p]
    BY <1>9, <2>1
  <2>2. CASE s # q[p]
    <3>1. ASSUME NEW i \in 1..n PROVE q[i] # s
      <4>1. CASE i < p
        <5>1. i \in 1..(n - 1) /\ new[i] = q[i]
          BY <1>1, <1>3, <4>1
        <5>2. QED
          BY <1>4, <1>17, <5>1 DEF Elsewhere
      <4>2. CASE i > p
        <5>1. i - 1 \in 1..(n - 1) /\ new[i - 1] = q[i]
          <6>1. i - 1 \in 1..(n - 1) /\ at(i - 1) = i
            BY <1>1, <4>2
          <6>2. QED
            BY <1>3, <6>1
        <5>2. QED
          BY <1>4, <1>17, <5>1 DEF Elsewhere
      <4>3. QED
        BY <1>1, <2>2, <4>1, <4>2
    <3>2. next[s] = NULL /\ prev[s] = NULL
      BY <3>1 DEF HoldsList, Elsewhere
    <3>3. s # At(q, p - 1) /\ s # At(q, p + 1)
      BY <3>1, NullAssumption DEF At
    <3>4. QED
      BY <1>9, <2>2, <3>2, <3>3
  <2>3. QED
    BY <2>1, <2>2
<1>18. QED
  BY <1>4, <1>11, <1>13, <1>14, <1>15, <1>16, <1>17 DEF HoldsList, new

-----------------------------------------------------------------------------
(* Keys.  The window walked over pointers is the window of positions.      *)

(* Walking out from the two sides of a seam. *)
LEMMA WindowWalks ==
  ASSUME NEW q, HoldsList(q, head, tail, next, prev), NEW p \in 0..Len(q)
  PROVE  \A r \in 0..SlotCount :
           /\ Below(At(q, p), r) = At(q, p - r)
           /\ Above(At(q, p + 1), r) = At(q, (p + 1) + r)
<1>1. /\ q \in Seq(Slot)
      /\ \A i \in 1..Len(q) : next[q[i]] = At(q, i + 1)
      /\ \A i \in 1..Len(q) : prev[q[i]] = At(q, i - 1)
      /\ p + 1 \in 1..(Len(q) + 1)
  BY DEF HoldsList
<1>2. \A r \in 0..SlotCount : Walk(prev, At(q, p))[r] = At(q, p - r)
  BY <1>1, WalkBack
<1>3. \A r \in 0..SlotCount : Walk(next, At(q, p + 1))[r] = At(q, (p + 1) + r)
  BY <1>1, WalkAlong
<1>4. QED
  BY <1>2, <1>3 DEF Below, Above

(* What the walks see, compared with what the sequence has. *)
LEMMA WindowsAgree ==
  ASSUME Inv, NEW p \in Nat, 0 < p, p < Len(Forward), NEW count \in Nat
  PROVE  LET left  == At(Forward, p)
             right == At(Forward, p + 1)
             R     == Abs!Reach(p)
         IN  /\ R \in 1..SlotCount
             /\ \A r \in 0..SlotCount : AtEnd(left, right, r) <=> r >= R
             /\ \A r \in 1..R : Roomy(left, right, count, r) <=> Abs!Roomy(p, count, r)
             /\ \A r \in 1..SlotCount : ~Roomy(left, right, count, r) =>
                  /\ r < R
                  /\ Grown(left, right, r) = Abs!Widened(p, r)
                  /\ Grown(left, right, r) \in (r + 1)..R
<1> DEFINE q     == Forward
           n     == Len(q)
           left  == At(q, p)
           right == At(q, p + 1)
           R     == Abs!Reach(p)
<1>1. /\ HoldsList(q, head, tail, next, prev)
      /\ q \in Seq(Slot) /\ n \in Nat /\ n <= SlotCount /\ p < n
      /\ \A i \in 1..n : q[i] \in Slot
  BY ListFits DEF Inv, HoldsList
<1>2. R \in Nat /\ 1 <= R /\ R <= p /\ p + R <= n /\ (R = p \/ p + R = n)
  BY <1>1 DEF Abs!Reach, Abs!Smaller
<1>3. R \in 1..SlotCount
  BY <1>1, <1>2, CountIsNat
<1>4. \A r \in 0..SlotCount : Below(left, r) = At(q, p - r) /\ Above(right, r) = At(q, (p + 1) + r)
  <2>1. p \in 0..Len(q)
    BY <1>1
  <2>2. QED
    BY <1>1, <2>1, WindowWalks
<1> HIDE DEF q, n, R
<1>5. \A r \in 0..SlotCount : AtEnd(left, right, r) <=> r >= R
  <2>1. SUFFICES ASSUME NEW r \in 0..SlotCount PROVE AtEnd(left, right, r) <=> r >= R
    OBVIOUS
  <2>2. At(q, p - r) = NULL <=> r >= p
    BY <1>1, NullAssumption, CountIsNat DEF At, n
  <2>3. At(q, (p + 1) + r) = NULL <=> p + r >= n
    BY <1>1, NullAssumption, CountIsNat DEF At, n
  <2>4. QED
    BY <1>1, <1>2, <1>4, <2>2, <2>3, CountIsNat DEF AtEnd
<1>6. ASSUME NEW r \in 1..R
      PROVE  Roomy(left, right, count, r) <=> Abs!Roomy(p, count, r)
  <2>1. r \in 0..SlotCount /\ r \in Nat
    BY <1>2, <1>3, CountIsNat
  <2>2. CASE r = R
    <3>1. Abs!AtEnd(p, r)
      BY <1>2, <2>2 DEF Abs!AtEnd, n, q
    <3>2. AtEnd(left, right, r)
      BY <1>5, <2>1, <2>2
    <3>3. QED
      BY <3>1, <3>2 DEF Roomy, Abs!Roomy
  <2>3. CASE r < R
    <3>1. ~Abs!AtEnd(p, r)
      BY <1>1, <1>2, <2>1, <2>3 DEF Abs!AtEnd, n, q
    <3>2. ~AtEnd(left, right, r)
      BY <1>5, <2>1, <2>3, <1>2
    <3>3. p - r \in 1..n /\ (p + 1) + r \in 1..n /\ (p + 1) + r = p + r + 1
      BY <1>1, <1>2, <2>1, <2>3
    <3>4. Below(left, r) = q[p - r] /\ Above(right, r) = q[p + r + 1]
      BY <1>4, <2>1, <3>3 DEF At, n
    <3>5. Need(count) = Abs!Need(count)
      BY DEF Need, Abs!Need, Larger, Abs!Larger
    <3>6. QED
      BY <3>1, <3>2, <3>4, <3>5 DEF Roomy, Abs!Roomy, Abs!Key, q
  <2>4. QED
    BY <1>2, <2>2, <2>3
<1>7. ASSUME NEW r \in 1..SlotCount, ~Roomy(left, right, count, r)
      PROVE  /\ r < R
             /\ Grown(left, right, r) = Abs!Widened(p, r)
             /\ Grown(left, right, r) \in (r + 1)..R
  <2>1. r \in Nat /\ r \in 0..SlotCount
    BY CountIsNat
  <2>2. r < R
    BY <1>2, <1>5, <1>7, <2>1 DEF Roomy
  <2> DEFINE w == Abs!Widened(p, r)
  <2>3. /\ w \in (r + 1)..R /\ w \in r..(2 * r)
        /\ w = 2 * r \/ w = R
    BY <1>2, <2>1, <2>2 DEF Abs!Widened, Abs!Smaller, R
  <2> HIDE DEF w
  <2> DEFINE G(g) == /\ g = 2 * r \/ AtEnd(left, right, g)
                     /\ \A x \in r..(g - 1) : ~AtEnd(left, right, x)
  <2>4. w \in r..(2 * r) /\ G(w)
    <3>1. w \in 0..SlotCount /\ w = R => AtEnd(left, right, w)
      BY <1>5, <1>2
    <3>2. w \in 0..SlotCount
      BY <1>3, <2>1, <2>3, CountIsNat
    <3>3. ASSUME NEW x \in r..(w - 1) PROVE ~AtEnd(left, right, x)
      <4>1. x \in 0..SlotCount /\ x < R
        BY <1>2, <1>3, <2>1, <2>3, CountIsNat
      <4>2. QED
        BY <1>2, <1>5, <4>1
    <3>4. QED
      BY <2>3, <3>1, <3>2, <3>3
  <2>5. ASSUME NEW g \in r..(2 * r), G(g) PROVE g = w
    <3>1. CASE g < w
      <4>1. g # 2 * r /\ g \in 0..SlotCount /\ g < R
        BY <1>2, <1>3, <2>1, <2>3, <3>1, CountIsNat
      <4>2. QED
        BY <1>2, <1>5, <2>5, <4>1
    <3>2. CASE g > w
      <4>1. w = R
        BY <2>1, <2>3, <3>2
      <4>2. w \in r..(g - 1) /\ w \in 0..SlotCount
        BY <1>2, <1>3, <2>1, <2>3, <3>2, CountIsNat
      <4>3. QED
        BY <1>2, <1>5, <2>5, <4>1, <4>2
    <3>3. QED
      BY <2>1, <2>3, <3>1, <3>2
  <2>6. Grown(left, right, r) = w
    BY <2>4, <2>5 DEF Grown
  <2>7. QED
    BY <2>2, <2>3, <2>6 DEF w
<1>8. QED
  BY <1>3, <1>5, <1>6, <1>7 DEF q, R

(* The radius the pointer walk settles on is the least roomy one tried. *)
LEMMA RadiiAgree ==
  ASSUME Inv, NEW p \in Nat, 0 < p, p < Len(Forward), NEW count \in Nat
  PROVE  /\ SettledRadius(At(Forward, p), At(Forward, p + 1), count)
               = Abs!RespreadRadius(p, count)
         /\ Abs!RespreadRadius(p, count) \in Nat \ {0}
         /\ Abs!RespreadRadius(p, count) <= p
         /\ p + Abs!RespreadRadius(p, count) <= Len(Forward)
<1> DEFINE left  == At(Forward, p)
           right == At(Forward, p + 1)
           R     == Abs!Reach(p)
           rho   == Abs!RespreadRadius(p, count)
           room(r)  == Roomy(left, right, count, r)
           grown(r) == Grown(left, right, r)
           Sol(m, f) == f = [r \in m..SlotCount |-> IF room(r) THEN r ELSE f[grown(r)]]
<1>1. /\ R \in 1..SlotCount
      /\ \A r \in 1..R : room(r) <=> Abs!Roomy(p, count, r)
      /\ \A r \in 1..SlotCount : ~room(r) =>
           /\ r < R
           /\ grown(r) = Abs!Widened(p, r)
           /\ grown(r) \in (r + 1)..R
  BY WindowsAgree
<1>2. SlotCount \in Nat /\ R \in Nat
  BY <1>1, CountIsNat
<1>3. /\ Abs!Probes(p) \subseteq 1..R
      /\ Abs!Closed(p, Abs!Probes(p))
      /\ rho \in Abs!Probes(p)
      /\ rho \in Nat \ {0} /\ rho <= p /\ p + rho <= Len(Forward)
      /\ Abs!Roomy(p, count, rho)
      /\ \A r \in Abs!Probes(p) : Abs!Roomy(p, count, r) => rho <= r
  <2>1. Abs!TypeOK
    BY DEF Inv, TypeOK, HoldsList, Abs!TypeOK
  <2>2. QED
    BY <2>1, KeyAssumption, RunAssumption, Abs!ProbesReachTheEnd, Abs!RadiusExists
<1> HIDE DEF room, grown, R, rho
<1>4. \E f : Sol(1, f)
  <2> DEFINE S == {m \in Nat : m >= 1 => \E f : Sol(m, f)}
  <2>1. SlotCount \in S
    <3> DEFINE f == [r \in SlotCount..SlotCount |-> r]
    <3>1. \A r \in SlotCount..SlotCount : r >= 1 => room(r)
      BY <1>1, <1>2
    <3>2. SlotCount >= 1 => Sol(SlotCount, f)
      BY <1>2, <3>1
    <3>3. QED
      BY <1>2, <3>2
  <2>2. ASSUME NEW m \in Nat, m < SlotCount, m + 1 \in S PROVE m \in S
    <3>1. SUFFICES ASSUME m >= 1 PROVE \E f : Sol(m, f)
      OBVIOUS
    <3>2. PICK f : Sol(m + 1, f)
      BY <2>2
    <3> DEFINE g == [r \in m..SlotCount |->
                       IF r > m THEN f[r] ELSE IF room(m) THEN m ELSE f[grown(m)]]
    <3>3. ASSUME NEW r \in m..SlotCount PROVE g[r] = IF room(r) THEN r ELSE g[grown(r)]
      <4>1. r \in 1..SlotCount /\ r \in Nat
        BY <1>2, <3>1
      <4>2. ~room(r) => grown(r) \in (m + 1)..SlotCount /\ grown(r) > m /\ grown(r) \in m..SlotCount
        BY <1>1, <1>2, <4>1
      <4>3. ~room(r) => g[grown(r)] = f[grown(r)]
        BY <4>2
      <4>4. CASE r > m
        <5>1. r \in (m + 1)..SlotCount
          BY <4>4
        <5>2. f[r] = IF room(r) THEN r ELSE f[grown(r)]
          BY <3>2, <5>1
        <5>3. g[r] = f[r]
          BY <4>4
        <5> HIDE DEF g
        <5>4. QED
          BY <4>3, <5>2, <5>3
      <4>5. CASE r = m
        <5>1. g[m] = IF room(m) THEN m ELSE f[grown(m)]
          <6>1. m \in m..SlotCount /\ ~(m > m)
            BY <1>2, <2>2
          <6>2. QED
            BY <6>1
        <5> HIDE DEF g
        <5>2. QED
          BY <4>3, <4>5, <5>1
      <4>6. QED
        BY <4>4, <4>5
    <3>4. g = [r \in m..SlotCount |-> g[r]]
      OBVIOUS
    <3> HIDE DEF g
    <3>5. Sol(m, g)
      BY <3>3, <3>4
    <3>6. QED
      BY <3>5
  <2>3. \A m \in Nat : m < SlotCount /\ m + 1 \in S => m \in S
    BY <2>2
  <2> HIDE DEF S
  <2>4. \A m \in 0..SlotCount : m \in S
    BY <1>2, <2>1, <2>3, InductionFromAbove
  <2>5. 1 \in 0..SlotCount
    BY <1>1, <1>2
  <2>6. QED
    BY <2>4, <2>5 DEF S
<1> DEFINE settle == CHOOSE f : Sol(1, f)
<1>5. SettledRadius(left, right, count) = settle[1]
  BY DEF SettledRadius, room, grown
<1>6. Sol(1, settle)
  BY <1>4
<1> HIDE DEF settle
<1>7. \A r \in 1..SlotCount : settle[r] = IF room(r) THEN r ELSE settle[grown(r)]
  BY <1>6
<1> DEFINE D == {r \in Abs!Probes(p) : r <= rho => settle[1] = settle[r]}
<1>8. Abs!Closed(p, D)
  <2>1. 1 \in D
    BY <1>3 DEF Abs!Closed
  <2>2. ASSUME NEW r \in D PROVE Abs!Widened(p, r) \in D
    <3> DEFINE w == Abs!Widened(p, r)
    <3>1. r \in Abs!Probes(p) /\ w \in Abs!Probes(p) /\ r \in 1..R /\ r \in 1..SlotCount
      BY <1>1, <1>2, <1>3 DEF Abs!Closed
    <3>2. SUFFICES ASSUME w <= rho PROVE settle[1] = settle[w]
      BY <3>1
    <3>3. r <= w /\ (w = r => r = R)
      BY <1>2, <3>1 DEF Abs!Widened, Abs!Smaller, R
    <3>4. r <= rho /\ settle[1] = settle[r]
      BY <1>2, <1>3, <3>1, <3>2, <3>3
    <3>5. CASE w = r
      BY <3>4, <3>5
    <3>6. CASE w # r
      <4>1. r < rho
        BY <1>2, <1>3, <3>1, <3>2, <3>3, <3>6
      <4>2. ~room(r)
        BY <1>1, <1>3, <3>1, <4>1
      <4>3. QED
        BY <1>1, <1>7, <3>1, <3>4, <4>2
    <3>7. QED
      BY <3>5, <3>6
  <2>3. QED
    BY <2>1, <2>2 DEF Abs!Closed
<1>9. rho \in D
  <2>1. D \in SUBSET (1..R)
    BY <1>3
  <2>2. QED
    BY <1>3, <1>8, <2>1 DEF Abs!Probes, R
<1>10. settle[1] = rho
  <2>1. rho \in 1..R /\ rho \in 1..SlotCount /\ room(rho) /\ rho <= rho
    BY <1>1, <1>2, <1>3
  <2>2. QED
    BY <1>7, <1>9, <2>1
<1>11. QED
  BY <1>3, <1>5, <1>10 DEF rho

(* The keys laid out by walking the window are those laid out by position. *)
LEMMA RespreadsAgree ==
  ASSUME Inv, NEW p \in Nat, 0 < p, p < Len(Forward), NEW count \in Nat
  PROVE  Respread(At(Forward, p), At(Forward, p + 1), count) = Abs!Respread(p, count)
<1> DEFINE q     == Forward
           n     == Len(q)
           left  == At(q, p)
           right == At(q, p + 1)
           r     == Abs!RespreadRadius(p, count)
           span  == (2 * r + 1) * Larger(OrderGap, Need(count))
           lo    == Below(left, r - 1)
           low   == IF Below(left, r) # NULL THEN order[Below(left, r)] ELSE order[lo] - span
           high  == IF Above(right, r) # NULL THEN order[Above(right, r)] ELSE low + span
           cur   == Walk(next, lo)
           alow  == Abs!RespreadLow(p, count, r)
           ahigh == Abs!RespreadHigh(p, count, r)
<1>1. /\ HoldsList(q, head, tail, next, prev)
      /\ q \in Seq(Slot) /\ n \in Nat /\ n <= SlotCount /\ p < n
      /\ Distinct(q)
      /\ \A i \in 1..n : q[i] \in Slot
      /\ \A i \in 1..n : next[q[i]] = At(q, i + 1)
  BY ListFits DEF Inv, HoldsList
<1>2. SettledRadius(left, right, count) = r /\ r \in Nat \ {0} /\ r <= p /\ p + r <= n
  BY RadiiAgree
<1>3. \A x \in 0..SlotCount : Below(left, x) = At(q, p - x) /\ Above(right, x) = At(q, (p + 1) + x)
  <2>1. p \in 0..Len(q)
    BY <1>1
  <2>2. QED
    BY <1>1, <2>1, WindowWalks
<1> HIDE DEF q, n, r
<1>4. r \in 0..SlotCount /\ r - 1 \in 0..SlotCount
  BY <1>1, <1>2, CountIsNat
<1>5. p - r + 1 \in 1..n /\ p - (r - 1) = p - r + 1
  BY <1>1, <1>2
<1>6. lo = At(q, p - r + 1) /\ lo = q[p - r + 1]
  BY <1>3, <1>4, <1>5 DEF At, n
<1>7. \A i \in 1..(2 * r) : cur[i - 1] = q[p - r + i] /\ p - r + i \in 1..n
  <2>1. p - r + 1 \in 1..(Len(q) + 1)
    BY <1>1, <1>5 DEF n
  <2>2. \A i \in 0..SlotCount : cur[i] = At(q, (p - r + 1) + i)
    BY <1>1, <1>6, <2>1, WalkAlong DEF n
  <2>3. SUFFICES ASSUME NEW i \in 1..(2 * r)
                 PROVE  cur[i - 1] = q[p - r + i] /\ p - r + i \in 1..n
    OBVIOUS
  <2>4. i - 1 \in 0..SlotCount /\ (p - r + 1) + (i - 1) = p - r + i /\ p - r + i \in 1..n
    BY <1>1, <1>2, CountIsNat
  <2>5. QED
    BY <2>2, <2>4 DEF At, n
<1>8. Larger(OrderGap, Need(count)) = Abs!Larger(OrderGap, Abs!Need(count))
  BY DEF Larger, Need, Abs!Larger, Abs!Need
<1>9. low = alow
  <2>1. CASE p - r >= 1
    <3>1. p - r \in 1..n
      BY <1>1, <1>2, <2>1
    <3>2. Below(left, r) = q[p - r] /\ Below(left, r) # NULL
      BY <1>1, <1>3, <1>4, <3>1, NullAssumption DEF At, n
    <3>3. QED
      BY <2>1, <3>2 DEF Abs!RespreadLow, Abs!Key, q
  <2>2. CASE ~(p - r >= 1)
    <3>1. p - r = 0
      BY <1>2, <2>2
    <3>2. Below(left, r) = NULL
      BY <1>3, <1>4, <3>1 DEF At
    <3>3. lo = q[1]
      BY <1>6, <3>1
    <3>4. QED
      BY <1>8, <2>2, <3>2, <3>3 DEF Abs!RespreadLow, Abs!Key, q
  <2>3. QED
    BY <2>1, <2>2
<1>10. high = ahigh
  <2>1. CASE p + r < n
    <3>1. (p + 1) + r \in 1..n /\ (p + 1) + r = p + r + 1
      BY <1>1, <1>2, <2>1
    <3>2. Above(right, r) = q[p + r + 1] /\ Above(right, r) # NULL
      BY <1>1, <1>3, <1>4, <3>1, NullAssumption DEF At, n
    <3>3. QED
      BY <2>1, <3>2 DEF Abs!RespreadHigh, Abs!Key, q, n
  <2>2. CASE ~(p + r < n)
    <3>1. (p + 1) + r \notin 1..n
      BY <1>1, <1>2, <2>2
    <3>2. Above(right, r) = NULL
      BY <1>3, <1>4, <3>1 DEF At, n
    <3>3. QED
      BY <1>8, <1>9, <2>2, <3>2 DEF Abs!RespreadHigh, q, n
  <2>3. QED
    BY <2>1, <2>2
<1> DEFINE step  == (high - low) \div (2 * r + 1)
           astep == (ahigh - alow) \div (2 * r + 1)
           mine  == [s \in Slot |->
                       IF \E i \in 1..(2 * r) : cur[i - 1] = s
                         THEN low + (CHOOSE i \in 1..(2 * r) : cur[i - 1] = s) * step
                         ELSE order[s]]
           theirs == [s \in Slot |->
                       IF \E j \in (p - r + 1)..(p + r) : q[j] = s
                         THEN alow + (CHOOSE i \in 1..(2 * r) : q[p - r + i] = s) * astep
                         ELSE order[s]]
<1>11. Respread(left, right, count) = mine
  BY <1>2 DEF Respread
<1>12. Abs!Respread(p, count) = theirs
  BY DEF Abs!Respread, q, r
<1>13. step = astep
  BY <1>9, <1>10
<1> HIDE DEF lo, low, high, cur, alow, ahigh, step, astep
<1>14. ASSUME NEW s \in Slot PROVE mine[s] = theirs[s]
  <2>1. (\E i \in 1..(2 * r) : cur[i - 1] = s) <=> \E j \in (p - r + 1)..(p + r) : q[j] = s
    <3>1. ASSUME NEW i \in 1..(2 * r), cur[i - 1] = s
          PROVE  \E j \in (p - r + 1)..(p + r) : q[j] = s
      <4>1. p - r + i \in (p - r + 1)..(p + r) /\ q[p - r + i] = s
        BY <1>2, <1>7, <3>1
      <4>2. QED
        BY <4>1
    <3>2. ASSUME NEW j \in (p - r + 1)..(p + r), q[j] = s
          PROVE  \E i \in 1..(2 * r) : cur[i - 1] = s
      <4>1. j - (p - r) \in 1..(2 * r) /\ p - r + (j - (p - r)) = j
        BY <1>2
      <4>2. cur[(j - (p - r)) - 1] = s
        BY <1>7, <3>2, <4>1
      <4>3. QED
        BY <4>1, <4>2
    <3>3. QED
      BY <3>1, <3>2
  <2>2. ASSUME NEW i \in 1..(2 * r), cur[i - 1] = s
        PROVE  /\ (CHOOSE x \in 1..(2 * r) : cur[x - 1] = s) = i
               /\ (CHOOSE x \in 1..(2 * r) : q[p - r + x] = s) = i
    <3>1. q[p - r + i] = s /\ p - r + i \in 1..n
      BY <1>7, <2>2
    <3>2. ASSUME NEW x \in 1..(2 * r), q[p - r + x] = s PROVE x = i
      <4>1. p - r + x = p - r + i
        BY <1>1, <1>7, <3>1, <3>2 DEF Distinct, n
      <4>2. QED
        BY <1>2, <4>1
    <3>3. \A x \in 1..(2 * r) : cur[x - 1] = s => x = i
      BY <1>7, <3>2
    <3>4. QED
      BY <2>2, <3>1, <3>2, <3>3
  <2>3. QED
    BY <1>9, <1>13, <2>1, <2>2
<1>15. mine = theirs
  BY <1>14
<1>16. QED
  BY <1>11, <1>12, <1>15 DEF q

(* The keys a spliced run gets, and those of the slots around it. *)
LEMMA StampsAgree ==
  ASSUME Inv, NEW p \in 0..Len(Forward), NEW run, Len(run) \in Nat
  PROVE  Stamp(OrderRunBetween(At(Forward, p), At(Forward, p + 1), Len(run)), run)
           = Abs!Stamped(Abs!Opened(p, Len(run)), p, run)
<1> DEFINE q     == Forward
           n     == Len(q)
           k     == Len(run)
           left  == At(q, p)
           right == At(q, p + 1)
           alloc == OrderRunBetween(left, right, k)
           ord   == Abs!Opened(p, k)
<1>1. q \in Seq(Slot) /\ n \in Nat /\ p \in Nat /\ p <= n /\ \A i \in 1..n : q[i] \in Slot
  BY DEF Inv, HoldsList
<1>2. /\ left = IF p = 0 THEN NULL ELSE q[p]
      /\ right = IF p = n THEN NULL ELSE q[p + 1]
      /\ left = NULL <=> p = 0
      /\ right = NULL <=> p = n
  BY <1>1, NullAssumption DEF At
<1>3. Exhausted(left, right, k) <=> Abs!Exhausted(p, k)
  BY <1>1, <1>2 DEF Exhausted, Abs!Exhausted, Abs!Key
<1>4. (IF Exhausted(left, right, k) THEN Respread(left, right, k) ELSE order) = ord
  <2>1. CASE Abs!Exhausted(p, k)
    <3>1. p \in Nat /\ 0 < p /\ p < n
      BY <2>1 DEF Abs!Exhausted
    <3>2. Respread(left, right, k) = Abs!Respread(p, k)
      BY <3>1, RespreadsAgree
    <3>3. QED
      BY <1>3, <2>1, <3>2 DEF Abs!Opened
  <2>2. CASE ~Abs!Exhausted(p, k)
    BY <1>3, <2>2 DEF Abs!Opened
  <2>3. QED
    BY <2>1, <2>2
<1>5. alloc = RunKeys(ord, left, right, k)
  BY <1>4 DEF OrderRunBetween
<1> HIDE DEF alloc, ord, left, right, q, n, k
<1>6. /\ alloc.keys = ord
      /\ alloc.first = Abs!RunFirst(ord, p, k)
      /\ alloc.step = Abs!RunStep(ord, p, k)
  <2>1. CASE p = 0
    <3>1. left = NULL
      BY <1>2, <2>1
    <3>2. alloc = [keys |-> ord, step |-> OrderGap,
                   first |-> (IF right # NULL THEN ord[right] ELSE k * OrderGap) - k * OrderGap]
      BY <1>5, <3>1 DEF RunKeys
    <3>3. Abs!RunStep(ord, p, k) = OrderGap
      BY <2>1 DEF Abs!RunStep
    <3>4. Abs!RunFirst(ord, p, k) = IF n > 0 THEN ord[q[1]] - k * OrderGap ELSE 0
      BY <2>1 DEF Abs!RunFirst, n, q
    <3>5. CASE n = 0
      <4>1. right = NULL
        BY <1>2, <2>1, <3>5
      <4>2. k * OrderGap \in Int
        BY KeyAssumption DEF k
      <4>3. (k * OrderGap) - k * OrderGap = 0
        BY <4>2
      <4>4. QED
        BY <3>2, <3>3, <3>4, <3>5, <4>1, <4>3
    <3>6. CASE n > 0
      <4>1. right # NULL /\ right = q[1]
        BY <1>2, <2>1, <3>6
      <4>2. QED
        BY <3>2, <3>3, <3>4, <3>6, <4>1
    <3>7. QED
      BY <1>1, <3>5, <3>6
  <2>2. CASE p > 0 /\ p = n
    <3>1. left # NULL /\ left = q[p] /\ right = NULL
      BY <1>1, <1>2, <2>2
    <3>2. alloc = [keys |-> ord, step |-> OrderGap, first |-> ord[left] + OrderGap]
      BY <1>5, <3>1 DEF RunKeys
    <3>3. Abs!RunStep(ord, p, k) = OrderGap
      BY <2>2 DEF Abs!RunStep, n, q
    <3>4. Abs!RunFirst(ord, p, k) = ord[q[p]] + OrderGap
      BY <2>2, <3>3 DEF Abs!RunFirst, q
    <3>5. QED
      BY <3>1, <3>2, <3>3, <3>4
  <2>3. CASE p > 0 /\ p < n
    <3>1. left # NULL /\ left = q[p] /\ right # NULL /\ right = q[p + 1]
      BY <1>1, <1>2, <2>3
    <3> DEFINE room == (ord[q[p + 1]] - ord[q[p]]) \div (k + 1)
    <3>2. alloc = [keys |-> ord, step |-> room, first |-> ord[left] + room]
      BY <1>5, <3>1 DEF RunKeys
    <3>3. Abs!RunStep(ord, p, k) = room
      BY <2>3 DEF Abs!RunStep, n, q
    <3>4. Abs!RunFirst(ord, p, k) = ord[q[p]] + room
      BY <2>3, <3>3 DEF Abs!RunFirst, q
    <3>5. QED
      BY <3>1, <3>2, <3>3, <3>4
  <2>4. QED
    BY <1>1, <2>1, <2>2, <2>3
<1>7. Stamp(alloc, run) = Abs!Stamped(ord, p, run)
  BY <1>6 DEF Stamp, InRun, IndexIn, Abs!Stamped, k
<1>8. QED
  BY <1>7 DEF alloc, ord, left, right, q, k

-----------------------------------------------------------------------------
(* The invariant, and the step each action takes of the slot stream.       *)

LEMMA InvOfStream == Inv => Abs!Inv
  BY DEF Inv, TypeOK, HoldsList, Distinct, Abs!Inv, Abs!TypeOK, Abs!NoRepeats

LEMMA RunsAgree == FreeRuns = Abs!Runs
  BY DEF FreeRuns, Free, LinkedSlots, Abs!Runs, Abs!Linked

(* Linking a run at the seam after the first p slots. *)
LEMMA LinkStep ==
  ASSUME Inv, NEW p \in 0..Len(Forward), NEW run \in FreeRuns,
         LinkRunBetween(At(Forward, p), run, At(Forward, p + 1))
  PROVE  Inv' /\ Abs!Next
<1> DEFINE q == Forward
<1>1. PICK k \in 0..MaxRun :
        /\ run \in [1..k -> Free]
        /\ \A i, j \in 1..k : run[i] = run[j] => i = j
  BY DEF FreeRuns
<1>2. k \in Nat /\ run \in [1..k -> Slot] /\ Len(run) \in Nat
  BY <1>1, RunAssumption DEF Free
<1>3. \A i \in 1..k : Elsewhere(q, run[i])
  BY <1>1 DEF Free, LinkedSlots, Elsewhere
<1>4. HoldsList(q, head, tail, next, prev)
  BY DEF Inv
<1>5. HoldsList(Splice(q, p, run), head', tail', next', prev')
  BY <1>1, <1>2, <1>3, <1>4, LinkSplices
<1>6. Forward' = Splice(q, p, run)
  BY <1>5, WalksReadList DEF Forward
<1>7. order' = Abs!Stamped(Abs!Opened(p, Len(run)), p, run)
  BY <1>2, StampsAgree DEF LinkRunBetween, StitchRun
<1>8. Abs!StitchRun(p, run)
  BY <1>6, <1>7 DEF Abs!StitchRun, Abs!Spliced, Splice
<1>9. run \in Abs!Runs
  BY RunsAgree
<1>10. Abs!Inv'
  BY <1>8, <1>9, InvOfStream, KeyAssumption, RunAssumption, Abs!StitchKeepsInv
<1>11. Abs!Next
  BY <1>8, <1>9 DEF Abs!Next
<1>12. HoldsList(Forward', head', tail', next', prev')
  BY <1>5, <1>6
<1>13. TypeOK'
  BY <1>10, <1>12 DEF TypeOK, HoldsList, At, Abs!Inv, Abs!TypeOK
<1>14. QED
  BY <1>10, <1>11, <1>12, <1>13 DEF Inv, Abs!Inv

LEMMA UnlinkStep ==
  ASSUME Inv, NEW p \in 1..Len(Forward), UnlinkSlot(Forward[p])
  PROVE  Inv' /\ Abs!Next
<1>1. HoldsList(Forward, head, tail, next, prev)
  BY DEF Inv
<1>2. HoldsList(Cut(Forward, p), head', tail', next', prev')
  BY <1>1, UnlinkCuts
<1>3. Forward' = Cut(Forward, p)
  BY <1>2, WalksReadList DEF Forward
<1>4. Abs!UnlinkSlot(p)
  BY <1>3 DEF UnlinkSlot, Abs!UnlinkSlot, Cut
<1>5. Abs!Inv'
  BY <1>4, InvOfStream, KeyAssumption, RunAssumption, Abs!UnlinkKeepsInv
<1>6. Abs!Next
  BY <1>4 DEF Abs!Next
<1>7. HoldsList(Forward', head', tail', next', prev')
  BY <1>2, <1>3
<1>8. TypeOK'
  BY <1>5, <1>7 DEF TypeOK, HoldsList, At, Abs!Inv, Abs!TypeOK
<1>9. QED
  BY <1>5, <1>6, <1>7, <1>8 DEF Inv, Abs!Inv

LEMMA InitStep == Init => Inv /\ Abs!Init
<1> SUFFICES ASSUME Init PROVE Inv /\ Abs!Init
  OBVIOUS
<1>1. HoldsList(<<>>, head, tail, next, prev)
  BY DEF Init, HoldsList, Distinct, Elsewhere, At
<1>2. Forward = <<>>
  BY <1>1, WalksReadList DEF Forward
<1>3. TypeOK
  BY DEF Init, TypeOK
<1>4. QED
  BY <1>1, <1>2, <1>3 DEF Inv, Init, Abs!Init, Abs!OrderMonotone

(* One step per splicing primitive. *)
LEMMA ListStep == Inv /\ [Next]_listVars => Inv' /\ [Abs!Next]_(Abs!streamVars)
<1> SUFFICES ASSUME Inv, [Next]_listVars PROVE Inv' /\ [Abs!Next]_(Abs!streamVars)
  OBVIOUS
<1> DEFINE q == Forward
<1>1. /\ q \in Seq(Slot) /\ Len(q) \in Nat
      /\ head = At(q, 1)
      /\ \A i \in 1..Len(q) : q[i] \in Slot /\ next[q[i]] = At(q, i + 1) /\ prev[q[i]] = At(q, i - 1)
  BY DEF Inv, HoldsList
<1>2. \A a \in LinkedSlots : \E i \in 1..Len(q) : a = q[i]
  BY DEF LinkedSlots
<1>3. \A s \in Free : <<s>> \in FreeRuns
  <2>1. SUFFICES ASSUME NEW s \in Free PROVE <<s>> \in FreeRuns
    OBVIOUS
  <2>2. <<s>> \in [1..1 -> Free] /\ \A i, j \in 1..1 : <<s>>[i] = <<s>>[j] => i = j
    OBVIOUS
  <2>3. 1 \in 0..MaxRun
    BY RunAssumption
  <2>4. QED
    BY <2>2, <2>3 DEF FreeRuns
<1>4. ASSUME NEW i \in 1..Len(q) PROVE i \in 0..Len(q) /\ i - 1 \in 0..Len(q) /\ (i - 1) + 1 = i
                                     /\ q[i] = At(q, i) /\ q[i] # NULL
  BY <1>1, NullAssumption DEF At
<1>5. ASSUME NEW a \in LinkedSlots \cup {NULL}, NEW run \in FreeRuns, RelinkRunAfter(a, run)
      PROVE  Inv' /\ Abs!Next
  <2>1. CASE a = NULL
    <3>1. 0 \in 0..Len(q) /\ At(q, 0) = NULL /\ 0 + 1 = 1
      BY <1>1 DEF At
    <3>2. LinkRunBetween(At(q, 0), run, At(q, 0 + 1))
      BY <1>1, <1>5, <2>1, <3>1 DEF RelinkRunAfter
    <3>3. QED
      BY <3>1, <3>2, LinkStep
  <2>2. CASE a # NULL
    <3>1. PICK i \in 1..Len(q) : a = q[i]
      BY <1>2, <2>2
    <3>2. LinkRunBetween(At(q, i), run, At(q, i + 1))
      BY <1>1, <1>4, <1>5, <2>2, <3>1 DEF RelinkRunAfter
    <3>3. QED
      BY <1>4, <3>2, LinkStep
  <2>3. QED
    BY <2>1, <2>2
<1>6. ASSUME NEW a \in LinkedSlots, NEW s \in Free, InsertAfter(a, s) PROVE Inv' /\ Abs!Next
  <2>1. PICK i \in 1..Len(q) : a = q[i]
    BY <1>2
  <2>2. LinkRunBetween(At(q, i), <<s>>, At(q, i + 1))
    BY <1>1, <1>4, <1>6, <2>1 DEF InsertAfter
  <2>3. QED
    BY <1>3, <1>4, <2>2, LinkStep
<1>7. ASSUME NEW a \in LinkedSlots, NEW s \in Free, InsertBefore(a, s) PROVE Inv' /\ Abs!Next
  <2>1. PICK i \in 1..Len(q) : a = q[i]
    BY <1>2
  <2>2. LinkRunBetween(At(q, i - 1), <<s>>, At(q, (i - 1) + 1))
    BY <1>1, <1>4, <1>7, <2>1 DEF InsertBefore
  <2>3. QED
    BY <1>3, <1>4, <2>2, LinkStep
<1>8. ASSUME NEW s \in Free, InsertBeforeHead(s) PROVE Inv' /\ Abs!Next
  <2>1. 0 \in 0..Len(q) /\ At(q, 0) = NULL /\ 0 + 1 = 1
    BY <1>1 DEF At
  <2>2. LinkRunBetween(At(q, 0), <<s>>, At(q, 0 + 1))
    BY <1>1, <1>8, <2>1 DEF InsertBeforeHead
  <2>3. QED
    BY <1>3, <2>1, <2>2, LinkStep
<1>9. ASSUME NEW s \in LinkedSlots, UnlinkSlot(s) PROVE Inv' /\ Abs!Next
  <2>1. PICK i \in 1..Len(q) : s = q[i]
    BY <1>2
  <2>2. QED
    BY <1>9, <2>1, UnlinkStep
<1>10. CASE UNCHANGED listVars
  <2>1. Forward' = Forward
    BY <1>10 DEF listVars, Forward
  <2>2. UNCHANGED <<head, tail, prev, next, order>>
    BY <1>10 DEF listVars
  <2>3. QED
    BY <2>1, <2>2 DEF Inv, TypeOK, HoldsList, Abs!OrderMonotone, Abs!Key, Abs!streamVars
<1>11. QED
  BY <1>5, <1>6, <1>7, <1>8, <1>9, <1>10 DEF Next

LEMMA Invariance == Spec => []Inv
  BY InitStep, ListStep, PTL DEF Spec

-----------------------------------------------------------------------------
(* The ends and pointers stay slots or None, and the keys integers.        *)
THEOREM TypeCorrect == Spec => []TypeOK
<1>1. Inv => TypeOK
  BY DEF Inv
<1>2. QED
  BY <1>1, Invariance, PTL

(* Walking back from `_tail` meets the slots met from `_head`, in reverse, *)
(* after any sequence of splices and unlinkings.                           *)
THEOREM EndsStayInAgreement == Spec => []EndsAgree
<1>1. Inv => EndsAgree
  <2>1. SUFFICES ASSUME Inv PROVE EndsAgree
    OBVIOUS
  <2>2. HoldsList(Forward, head, tail, next, prev)
    BY <2>1 DEF Inv
  <2>3. Backward = Reversed(Forward)
    BY <2>2, WalksReadList DEF Backward
  <2>4. Forward \in Seq(Slot) /\ Len(Forward) \in Nat
    BY <2>2 DEF HoldsList
  <2>5. Len(Backward) = Len(Forward)
    BY <2>3, <2>4 DEF Reversed
  <2>6. ASSUME NEW i \in 1..Len(Forward) PROVE Forward[i] = Backward[Len(Forward) + 1 - i]
    <3>1. Len(Forward) + 1 - i \in 1..Len(Forward) /\ Len(Forward) + 1 - (Len(Forward) + 1 - i) = i
      BY <2>4
    <3>2. QED
      BY <2>3, <3>1 DEF Reversed
  <2>7. QED
    BY <2>5, <2>6 DEF EndsAgree
<1>2. QED
  BY <1>1, Invariance, PTL

(* `_slot_is_linked` answers from a slot's own pointers whether the        *)
(* document reaches it.                                                    *)
THEOREM LinkTestIsExact == Spec => []LinkTestExact
<1>1. Inv => LinkTestExact
  <2>1. SUFFICES ASSUME Inv, NEW s \in Slot PROVE SlotIsLinked(s) <=> s \in LinkedSlots
    BY DEF LinkTestExact
  <2> DEFINE q == Forward
  <2>2. /\ q \in Seq(Slot) /\ Len(q) \in Nat /\ head = At(q, 1)
        /\ \A i \in 1..Len(q) : q[i] \in Slot /\ next[q[i]] = At(q, i + 1) /\ prev[q[i]] = At(q, i - 1)
        /\ Elsewhere(q, s) => next[s] = NULL /\ prev[s] = NULL
    BY <2>1 DEF Inv, HoldsList
  <2>3. s \in LinkedSlots <=> ~Elsewhere(q, s)
    BY DEF LinkedSlots, Elsewhere
  <2>4. CASE Elsewhere(q, s)
    <3>1. s # At(q, 1)
      BY <2>4, NullAssumption DEF At, Elsewhere
    <3>2. QED
      BY <2>2, <2>3, <2>4, <3>1 DEF SlotIsLinked
  <2>5. ASSUME NEW i \in 1..Len(q), q[i] = s PROVE SlotIsLinked(s)
    <3>1. CASE i = 1
      BY <2>2, <2>5, <3>1 DEF SlotIsLinked, At
    <3>2. CASE i # 1
      <4>1. i - 1 \in 1..Len(q)
        BY <2>2, <3>2
      <4>2. prev[s] = q[i - 1] /\ q[i - 1] \in Slot
        BY <2>2, <2>5, <4>1 DEF At
      <4>3. QED
        BY <4>2, NullAssumption DEF SlotIsLinked
    <3>3. QED
      BY <3>1, <3>2
  <2>6. QED
    BY <2>3, <2>4, <2>5 DEF Elsewhere
<1>2. QED
  BY <1>1, Invariance, PTL

(* The pointer surgery and its window walks implement the slot stream:     *)
(* each step splices or cuts the list, and allocates the same keys.        *)
THEOREM Refinement == Spec => ImplementsStream
<1>1. Abs!Init => Stream!Init
  BY DEF Abs!Init, Stream!Init
<1>2. [Abs!Next]_(Abs!streamVars) => [Stream!Next]_(Stream!streamVars)
  BY DEF Abs!Next, Stream!Next, Abs!streamVars, Stream!streamVars,
         Abs!Runs, Stream!Runs, Abs!Linked, Stream!Linked,
         Abs!StitchRun, Stream!StitchRun, Abs!UnlinkSlot, Stream!UnlinkSlot,
         Abs!Spliced, Stream!Spliced, Abs!Stamped, Stream!Stamped,
         Abs!Opened, Stream!Opened, Abs!RunFirst, Stream!RunFirst, Abs!RunStep, Stream!RunStep,
         Abs!Exhausted, Stream!Exhausted, Abs!Respread, Stream!Respread,
         Abs!RespreadRadius, Stream!RespreadRadius, Abs!RespreadLow, Stream!RespreadLow,
         Abs!RespreadHigh, Stream!RespreadHigh, Abs!Roomy, Stream!Roomy, Abs!AtEnd, Stream!AtEnd,
         Abs!Probes, Stream!Probes, Abs!Closed, Stream!Closed, Abs!Widened, Stream!Widened,
         Abs!Reach, Stream!Reach, Abs!Smaller, Stream!Smaller, Abs!Larger, Stream!Larger,
         Abs!Need, Stream!Need, Abs!Key, Stream!Key
<1>3. QED
  BY <1>1, <1>2, InitStep, ListStep, PTL DEF Spec, ImplementsStream, Stream!Spec

(* Keys stay strictly increasing along the pointers, and two slots that    *)
(* stay linked never change places: what bisection on `_order` rests on.   *)
THEOREM ListKeys == Spec => []Stream!OrderMonotone /\ Stream!KeysNeverReorder
<1>1. Inv => Stream!OrderMonotone
  BY DEF Inv, Abs!OrderMonotone, Abs!Key, Stream!OrderMonotone, Stream!Key
<1>2. Abs!Spec => Abs!KeysNeverReorder
  BY KeyAssumption, RunAssumption, Abs!KeysStayOrdered
<1>3. Spec => Abs!Spec
  BY InitStep, ListStep, PTL DEF Spec, Abs!Spec
<1>4. Abs!KeysNeverReorder => Stream!KeysNeverReorder
  BY DEF Abs!KeysNeverReorder, Stream!KeysNeverReorder, Abs!Linked, Stream!Linked,
         Abs!streamVars, Stream!streamVars
<1>5. QED
  BY <1>1, <1>2, <1>3, <1>4, Invariance, PTL
=============================================================================
