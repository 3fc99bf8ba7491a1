--------------------------- MODULE RefPatchProofs ---------------------------
(***************************************************************************)
(* Bisection finds the place of a key in a sorted list; and the patches,   *)
(* which find their places that way (record_slot, file_own_header,         *)
(* unfile_slot, the bulk _scrub_owned_slots_via_backptrs, _clear_child_refs*)
(* and _refile_slot_refs), keep every projection of every container exact, *)
(* whatever was filed before and wherever a slot goes.                     *)
(***************************************************************************)
EXTENDS RefPatches, ListProofs

Sorted(keys) ==
  /\ keys \in Seq(Int)
  /\ \A i, j \in 1..Len(keys) : i < j => keys[i] <= keys[j]

(* c parts keys at x: the smaller ones come before, the others after. *)
Parts(keys, x, c) ==
  /\ c \in 0..Len(keys)
  /\ \A i \in 1..c : keys[i] < x
  /\ \A i \in (c + 1)..Len(keys) : x <= keys[i]

LEMMA PartExists ==
  ASSUME NEW keys, Sorted(keys), NEW x \in Int
  PROVE  \E c : Parts(keys, x, c)
<1> DEFINE n == Len(keys)
           T == {c \in 0..n : \A i \in 1..c : keys[i] < x}
<1>1. n \in Nat /\ \A i \in 1..n : keys[i] \in Int
  BY DEF Sorted
<1>2. PICK c \in T : \A q \in T : q <= c
  <2>1. T \in SUBSET Nat /\ 0 \in T /\ \A q \in T : q <= n
    BY <1>1
  <2>2. QED
    BY <1>1, <2>1, GreatestElement
<1>3. ASSUME NEW i \in (c + 1)..n PROVE x <= keys[i]
  <2>1. c + 1 \in 1..n /\ c + 1 <= i /\ c + 1 \notin T
    <3>1. c \in 0..n /\ ~(c + 1 <= c)
      BY <1>1
    <3>2. c + 1 \notin T
      <4> HIDE DEF T
      <4>1. QED
        BY <1>2, <3>1
    <3>3. QED
      BY <1>1, <3>1, <3>2
  <2>2. ~(keys[c + 1] < x)
    <3>1. \A j \in 1..(c + 1) : j \in 1..c \/ j = c + 1
      BY <1>1
    <3>2. QED
      BY <1>2, <2>1, <3>1
  <2>3. keys[c + 1] <= keys[i]
    <3>1. CASE i = c + 1
      BY <1>1, <2>1, <3>1
    <3>2. CASE c + 1 < i
      BY <2>1, <3>2 DEF Sorted
    <3>3. QED
      BY <2>1, <3>1, <3>2
  <2>4. QED
    BY <1>1, <2>1, <2>2, <2>3
<1>4. Parts(keys, x, c)
  BY <1>1, <1>2, <1>3 DEF Parts
<1>5. QED
  BY <1>4

(* What the recursion computes between two positions. *)
Clamped(c, lo, hi) == IF lo >= hi \/ c <= lo THEN lo ELSE IF c >= hi THEN hi ELSE c

Mid(r) == (r[1] + r[2]) \div 2

LEMMA Halves ==
  ASSUME NEW n \in Nat, NEW r, r[1] \in 0..n, r[2] \in 0..n, r[1] < r[2], NEW c \in 0..n
  PROVE  /\ Mid(r) \in 0..n /\ Mid(r) + 1 \in 1..n /\ r[1] <= Mid(r) /\ Mid(r) < r[2]
         /\ Mid(r) + 1 <= c => Clamped(c, Mid(r) + 1, r[2]) = Clamped(c, r[1], r[2])
         /\ ~(Mid(r) + 1 <= c) => Clamped(c, r[1], Mid(r)) = Clamped(c, r[1], r[2])
<1>1. Mid(r) \in Int /\ 2 * Mid(r) <= r[1] + r[2] /\ r[1] + r[2] < 2 * Mid(r) + 2
  BY DEF Mid
<1>2. QED
  BY <1>1 DEF Clamped

(* The recursion of bisect_left, and the half it goes on with. *)
Ranges(n) == (0..n) \X (0..n)
Half(keys, x, r) == IF keys[Mid(r) + 1] < x THEN <<Mid(r) + 1, r[2]>> ELSE <<r[1], Mid(r)>>
Searches(keys, x, f) ==
  f = [r \in Ranges(Len(keys)) |->
         IF r[1] >= r[2] THEN r[1]
         ELSE IF keys[Mid(r) + 1] < x THEN f[<<Mid(r) + 1, r[2]>>] ELSE f[<<r[1], Mid(r)>>]]

LEMMA BisectIsSearch ==
  \A keys, x : BisectLeft(keys, x) = (CHOOSE f : Searches(keys, x, f))[<<0, Len(keys)>>]
BY DEF BisectLeft, Searches, Ranges, Mid

(* A solution is defined by what it does at each range. *)
LEMMA SearchesMeaning ==
  ASSUME NEW keys, NEW x, NEW f
  PROVE  Searches(keys, x, f) <=>
           /\ f = [r \in Ranges(Len(keys)) |-> f[r]]
           /\ \A r \in Ranges(Len(keys)) :
                f[r] = IF r[1] >= r[2] THEN r[1] ELSE f[Half(keys, x, r)]
<1> DEFINE Step(r) == IF r[1] >= r[2] THEN r[1]
                      ELSE IF keys[Mid(r) + 1] < x THEN f[<<Mid(r) + 1, r[2]>>]
                                                   ELSE f[<<r[1], Mid(r)>>]
<1>1. \A r : Step(r) = IF r[1] >= r[2] THEN r[1] ELSE f[Half(keys, x, r)]
  BY DEF Half
<1>2. Searches(keys, x, f) <=> f = [r \in Ranges(Len(keys)) |-> Step(r)]
  BY DEF Searches
<1> HIDE DEF Step
<1>3. (f = [r \in Ranges(Len(keys)) |-> Step(r)])
        <=> /\ f = [r \in Ranges(Len(keys)) |-> f[r]]
            /\ \A r \in Ranges(Len(keys)) : f[r] = Step(r)
  OBVIOUS
<1>4. QED
  BY <1>1, <1>2, <1>3

(* bisect_left on a sorted list: everything before the index it returns is *)
(* smaller than what is looked for, and nothing after it is (what          *)
(* _ordered_index and find_entry rely on).                                 *)
THEOREM BisectionParts ==
  ASSUME NEW keys, Sorted(keys), NEW x \in Int
  PROVE  Parts(keys, x, BisectLeft(keys, x))
<1> DEFINE n == Len(keys)
           R == Ranges(n)
<1>1. n \in Nat /\ \A i \in 1..n : keys[i] \in Int
  BY DEF Sorted
<1>2. PICK c : Parts(keys, x, c)
  BY PartExists
<1>3. c \in 0..n /\ \A i \in 1..n : keys[i] < x <=> i <= c
  BY <1>1, <1>2 DEF Parts
<1> DEFINE goal(r) == Clamped(c, r[1], r[2])
           width(r) == r[2] - r[1]
<1> HIDE DEF n
<1>4. \A r \in R : r[1] \in 0..n /\ r[2] \in 0..n
  BY DEF Ranges
<1>5. ASSUME NEW r \in R, ~(r[1] >= r[2])
      PROVE  /\ Half(keys, x, r) \in R
             /\ goal(Half(keys, x, r)) = goal(r)
             /\ width(Half(keys, x, r)) < width(r)
  <2>1. /\ Mid(r) \in 0..n /\ Mid(r) + 1 \in 1..n /\ r[1] <= Mid(r) /\ Mid(r) < r[2]
        /\ Mid(r) + 1 <= c => Clamped(c, Mid(r) + 1, r[2]) = Clamped(c, r[1], r[2])
        /\ ~(Mid(r) + 1 <= c) => Clamped(c, r[1], Mid(r)) = Clamped(c, r[1], r[2])
    <3>1. n \in Nat /\ r[1] \in 0..n /\ r[2] \in 0..n /\ r[1] < r[2]
      BY <1>1, <1>4, <1>5 DEF n
    <3>2. QED
      BY <1>3, <3>1, Halves
  <2>2. keys[Mid(r) + 1] < x <=> Mid(r) + 1 <= c
    BY <1>3, <2>1
  <2>3. CASE Mid(r) + 1 <= c
    <3>1. Half(keys, x, r) = <<Mid(r) + 1, r[2]>>
      BY <2>2, <2>3 DEF Half
    <3>2. QED
      BY <1>1, <1>4, <2>1, <2>3, <3>1 DEF Ranges, n
  <2>4. CASE ~(Mid(r) + 1 <= c)
    <3>1. Half(keys, x, r) = <<r[1], Mid(r)>>
      BY <2>2, <2>4 DEF Half
    <3>2. QED
      BY <1>1, <1>4, <2>1, <2>4, <3>1 DEF Ranges, n
  <2>5. QED
    BY <2>3, <2>4
<1>6. \E f : Searches(keys, x, f)
  <2> DEFINE g == [r \in R |-> goal(r)]
  <2>1. ASSUME NEW r \in R
        PROVE  g[r] = IF r[1] >= r[2] THEN r[1] ELSE g[Half(keys, x, r)]
    <3>1. CASE r[1] >= r[2]
      BY <3>1 DEF Clamped
    <3>2. CASE ~(r[1] >= r[2])
      <4> HIDE DEF goal
      <4>1. QED
        BY <1>5, <3>2
    <3>3. QED
      BY <3>1, <3>2
  <2>2. g = [r \in R |-> g[r]]
    <3> HIDE DEF goal
    <3>1. QED
      OBVIOUS
  <2> HIDE DEF g
  <2>3. Searches(keys, x, g)
    BY <2>1, <2>2, SearchesMeaning DEF n
  <2>4. QED
    BY <2>3
<1>7. ASSUME NEW f, Searches(keys, x, f)
      PROVE  f[<<0, n>>] = c
  <2> DEFINE S == {d \in Nat : \A r \in R : width(r) <= d => f[r] = goal(r)}
  <2>1. \A r \in R : f[r] = IF r[1] >= r[2] THEN r[1] ELSE f[Half(keys, x, r)]
    BY <1>7, SearchesMeaning DEF n
  <2>2. \A r \in R : r[1] >= r[2] => f[r] = goal(r)
    BY <2>1 DEF Clamped
  <2>3. 0 \in S
    <3>1. \A r \in R : width(r) <= 0 => r[1] >= r[2]
      BY <1>1, <1>4 DEF n
    <3> HIDE DEF goal, width
    <3>2. QED
      BY <2>2, <3>1
  <2>4. ASSUME NEW d \in Nat, d \in S
        PROVE  d + 1 \in S
    <3>1. ASSUME NEW r \in R, width(r) <= d + 1, ~(r[1] >= r[2])
          PROVE  f[r] = goal(r)
      <4>1. width(r) \in Int /\ width(Half(keys, x, r)) \in Int
        BY <1>1, <1>4, <1>5, <3>1 DEF n
      <4> HIDE DEF goal, width
      <4>2. f[Half(keys, x, r)] = goal(Half(keys, x, r))
        BY <1>5, <2>4, <3>1, <4>1
      <4>3. QED
        BY <1>5, <2>1, <3>1, <4>2
    <3> HIDE DEF goal, width
    <3>2. QED
      BY <2>2, <3>1
  <2>5. n \in S
    <3> HIDE DEF S
    <3>1. \A d \in Nat : d \in S => d + 1 \in S
      BY <2>4
    <3>2. n \in Nat
      BY <1>1 DEF n
    <3>3. QED
      BY <2>3, <3>1, <3>2, InductionOnSet
  <2>6. <<0, n>> \in R /\ width(<<0, n>>) <= n
    BY <1>1 DEF n, Ranges
  <2>7. goal(<<0, n>>) = c
    BY <1>1, <1>3 DEF n, Clamped
  <2> HIDE DEF goal, width
  <2>8. QED
    BY <2>5, <2>6, <2>7
<1>8. BisectLeft(keys, x) = c
  <2>1. Searches(keys, x, CHOOSE f : Searches(keys, x, f))
    BY <1>6
  <2>2. QED
    BY <1>7, <2>1, BisectIsSearch DEF n
<1>9. QED
  BY <1>2, <1>8

-----------------------------------------------------------------------------
(* Lists of slots.                                                         *)

(* The keys of the slots in S tell them apart. *)
Keyed(ord, S) ==
  /\ \A s \in S : ord[s] \in Int
  /\ \A s, t \in S : ord[s] = ord[t] => s = t

(* refs lists S in the order of the keys. *)
Orders(refs, ord, S) ==
  /\ refs \in Seq(S)
  /\ \A s \in S : \E i \in 1..Len(refs) : refs[i] = s
  /\ \A i, j \in 1..Len(refs) : i < j => ord[refs[i]] < ord[refs[j]]

LEMMA IndexParts ==
  ASSUME NEW refs, NEW ord, NEW S, Keyed(ord, S), Orders(refs, ord, S), NEW o \in Int
  PROVE  /\ OrderedIndex(refs, ord, o) \in 0..Len(refs)
         /\ \A i \in 1..OrderedIndex(refs, ord, o) : ord[refs[i]] < o
         /\ \A i \in (OrderedIndex(refs, ord, o) + 1)..Len(refs) : o <= ord[refs[i]]
<1> DEFINE keys == [i \in DOMAIN refs |-> ord[refs[i]]]
<1>1. /\ DOMAIN refs = 1..Len(refs) /\ Len(refs) \in Nat
      /\ \A i \in 1..Len(refs) : refs[i] \in S /\ ord[refs[i]] \in Int
  BY DEF Orders, Keyed
<1>2. /\ keys \in Seq(Int) /\ Len(keys) = Len(refs)
      /\ \A i \in 1..Len(refs) : keys[i] = ord[refs[i]]
  BY <1>1
<1> HIDE DEF keys
<1>3. Sorted(keys)
  <2>1. ASSUME NEW i \in 1..Len(refs), NEW j \in 1..Len(refs), i < j
        PROVE  keys[i] <= keys[j]
    <3>1. ord[refs[i]] < ord[refs[j]]
      BY <2>1 DEF Orders
    <3>2. QED
      BY <1>1, <1>2, <3>1
  <2>2. QED
    BY <1>2, <2>1 DEF Sorted
<1>4. Parts(keys, o, BisectLeft(keys, o))
  BY <1>3, BisectionParts
<1>5. OrderedIndex(refs, ord, o) = BisectLeft(keys, o)
  BY DEF OrderedIndex, keys
<1>6. BisectLeft(keys, o) \in 0..Len(refs)
  BY <1>2, <1>4 DEF Parts
<1>7. /\ \A i \in 1..BisectLeft(keys, o) : keys[i] < o
      /\ \A i \in (BisectLeft(keys, o) + 1)..Len(refs) : o <= keys[i]
  BY <1>2, <1>4 DEF Parts
<1>8. QED
  BY <1>2, <1>5, <1>6, <1>7

LEMMA Insertion ==
  ASSUME NEW S, NEW q \in Seq(S), NEW at \in 1..(Len(q) + 1), NEW s \in S
  PROVE  /\ InsertAt(q, at, s) \in Seq(S)
         /\ Len(InsertAt(q, at, s)) = Len(q) + 1
         /\ \A i \in 1..(Len(q) + 1) :
              InsertAt(q, at, s)[i] = IF i < at THEN q[i] ELSE IF i = at THEN s ELSE q[i - 1]
<1> DEFINE p == at - 1
           a == SubSeq(q, 1, p)
           b == SubSeq(q, p + 1, Len(q))
           n == Len(q)
<1>1. n \in Nat /\ p \in 0..n
  OBVIOUS
<1> HIDE DEF p
<1>2. a \in Seq(S) /\ Len(a) = p /\ \A i \in 1..p : a[i] = q[i]
  <2>1. 1 \in 1..(Len(q) + 1) /\ p \in 0..Len(q) /\ 1 <= p + 1
    BY <1>1
  <2>2. a \in Seq(S) /\ Len(a) = p - 1 + 1 /\ \A i \in 1..(p - 1 + 1) : a[i] = q[i + 1 - 1]
    BY <2>1, CutAt
  <2>3. QED
    BY <1>1, <2>2
<1>3. b \in Seq(S) /\ Len(b) = n - p /\ \A i \in 1..(n - p) : b[i] = q[i + p]
  <2>1. p + 1 \in 1..(Len(q) + 1) /\ Len(q) \in 0..Len(q) /\ p + 1 <= Len(q) + 1
    BY <1>1
  <2>2. b \in Seq(S) /\ Len(b) = n - (p + 1) + 1
        /\ \A i \in 1..(n - (p + 1) + 1) : b[i] = q[i + (p + 1) - 1]
    BY <2>1, CutAt
  <2>3. QED
    BY <1>1, <2>2
<1>4. <<s>> \in Seq(S) /\ Len(<<s>>) = 1 /\ <<s>>[1] = s
  OBVIOUS
<1>5. at = p + 1 /\ InsertAt(q, at, s) = (a \o <<s>>) \o b
  <2>1. at = p + 1 /\ at - 1 = p
    BY DEF p
  <2>2. QED
    BY <2>1 DEF InsertAt
<1> DEFINE as == a \o <<s>>
<1> HIDE DEF a, b, n
<1>6. as \in Seq(S) /\ Len(as) = p + 1 /\ \A i \in 1..(p + 1) : as[i] = IF i <= p THEN a[i] ELSE s
  <2>1. /\ as \in Seq(S) /\ Len(as) = Len(a) + 1
        /\ \A i \in 1..(Len(a) + 1) : as[i] = IF i <= Len(a) THEN a[i] ELSE <<s>>[i - Len(a)]
    BY <1>2, <1>4, Joined
  <2>2. QED
    BY <1>1, <1>2, <1>4, <2>1
<1> DEFINE new == as \o b
<1>7. InsertAt(q, at, s) = new
  BY <1>5
<1> HIDE DEF as
<1>8. /\ new \in Seq(S) /\ Len(new) = n + 1
      /\ \A i \in 1..(n + 1) : new[i] = IF i <= p + 1 THEN as[i] ELSE b[i - (p + 1)]
  <2>1. /\ new \in Seq(S) /\ Len(new) = Len(as) + Len(b)
        /\ \A i \in 1..(Len(as) + Len(b)) :
             new[i] = IF i <= Len(as) THEN as[i] ELSE b[i - Len(as)]
    BY <1>3, <1>6, Joined
  <2>2. Len(as) = p + 1 /\ Len(as) + Len(b) = n + 1
    BY <1>1, <1>3, <1>6
  <2>3. QED
    BY <2>1, <2>2
<1> HIDE DEF new
<1>9. ASSUME NEW i \in 1..(n + 1)
      PROVE  new[i] = IF i <= p THEN q[i] ELSE IF i = p + 1 THEN s ELSE q[i - 1]
  <2>1. new[i] = IF i <= p + 1 THEN as[i] ELSE b[i - (p + 1)]
    BY <1>8
  <2>2. CASE i <= p
    <3>1. i \in 1..p /\ i \in 1..(p + 1) /\ i <= p + 1
      BY <1>1, <2>2
    <3>2. new[i] = as[i]
      BY <2>1, <3>1
    <3>3. as[i] = a[i]
      BY <1>6, <2>2, <3>1
    <3>4. a[i] = q[i]
      BY <1>2, <3>1
    <3>5. QED
      BY <2>2, <3>2, <3>3, <3>4
  <2>3. CASE i = p + 1
    <3>1. i \in 1..(p + 1) /\ i <= p + 1 /\ ~(i <= p)
      BY <1>1, <2>3
    <3>2. new[i] = as[i]
      BY <2>1, <3>1
    <3>3. as[i] = s
      BY <1>6, <3>1
    <3>4. QED
      BY <2>3, <3>1, <3>2, <3>3
  <2>4. CASE i > p + 1
    <3>1. i - (p + 1) \in 1..(n - p) /\ (i - (p + 1)) + p = i - 1 /\ ~(i <= p + 1)
      BY <1>1, <2>4
    <3>2. b[i - (p + 1)] = q[i - 1]
      BY <1>3, <3>1
    <3>3. QED
      BY <1>1, <2>1, <2>4, <3>1, <3>2
  <2>5. QED
    BY <1>1, <2>2, <2>3, <2>4
<1>10. \A i \in 1..(n + 1) : i < at <=> i <= p
  BY <1>1, <1>5
<1>11. QED
  BY <1>5, <1>7, <1>8, <1>9, <1>10 DEF n

LEMMA Removal ==
  ASSUME NEW S, NEW q \in Seq(S), NEW p \in 1..Len(q)
  PROVE  /\ RemoveAt(q, p) \in Seq(S)
         /\ Len(RemoveAt(q, p)) = Len(q) - 1
         /\ \A i \in 1..(Len(q) - 1) :
              RemoveAt(q, p)[i] = IF i < p THEN q[i] ELSE q[i + 1]
<1> DEFINE a == SubSeq(q, 1, p - 1)
           b == SubSeq(q, p + 1, Len(q))
           n == Len(q)
<1>1. n \in Nat /\ p \in 1..n
  OBVIOUS
<1>2. a \in Seq(S) /\ Len(a) = p - 1 /\ \A i \in 1..(p - 1) : a[i] = q[i]
  <2>1. 1 \in 1..(Len(q) + 1) /\ p - 1 \in 0..Len(q) /\ 1 <= (p - 1) + 1
    BY <1>1
  <2>2. a \in Seq(S) /\ Len(a) = (p - 1) - 1 + 1 /\ \A i \in 1..((p - 1) - 1 + 1) : a[i] = q[i + 1 - 1]
    BY <2>1, CutAt
  <2>3. QED
    BY <1>1, <2>2
<1>3. b \in Seq(S) /\ Len(b) = n - p /\ \A i \in 1..(n - p) : b[i] = q[i + p]
  <2>1. p + 1 \in 1..(Len(q) + 1) /\ Len(q) \in 0..Len(q) /\ p + 1 <= Len(q) + 1
    BY <1>1
  <2>2. b \in Seq(S) /\ Len(b) = n - (p + 1) + 1
        /\ \A i \in 1..(n - (p + 1) + 1) : b[i] = q[i + (p + 1) - 1]
    BY <2>1, CutAt
  <2>3. QED
    BY <1>1, <2>2
<1> DEFINE new == a \o b
<1>4. RemoveAt(q, p) = new
  BY DEF RemoveAt
<1> HIDE DEF a, b, n
<1>5. /\ new \in Seq(S) /\ Len(new) = n - 1
      /\ \A i \in 1..(n - 1) : new[i] = IF i <= p - 1 THEN a[i] ELSE b[i - (p - 1)]
  <2>1. /\ new \in Seq(S) /\ Len(new) = Len(a) + Len(b)
        /\ \A i \in 1..(Len(a) + Len(b)) :
             new[i] = IF i <= Len(a) THEN a[i] ELSE b[i - Len(a)]
    BY <1>2, <1>3, Joined
  <2>2. Len(a) = p - 1 /\ Len(a) + Len(b) = n - 1
    BY <1>1, <1>2, <1>3
  <2>3. QED
    BY <2>1, <2>2
<1> HIDE DEF new
<1>6. ASSUME NEW i \in 1..(n - 1)
      PROVE  new[i] = IF i < p THEN q[i] ELSE q[i + 1]
  <2>1. new[i] = IF i <= p - 1 THEN a[i] ELSE b[i - (p - 1)]
    BY <1>5
  <2>2. CASE i < p
    <3>1. i \in 1..(p - 1) /\ i <= p - 1
      BY <1>1, <2>2
    <3>2. new[i] = a[i] /\ a[i] = q[i]
      BY <1>2, <2>1, <3>1
    <3>3. QED
      BY <2>2, <3>2
  <2>3. CASE ~(i < p)
    <3>1. i - (p - 1) \in 1..(n - p) /\ (i - (p - 1)) + p = i + 1 /\ ~(i <= p - 1)
      BY <1>1, <2>3
    <3>2. b[i - (p - 1)] = q[i + 1]
      BY <1>3, <3>1
    <3>3. QED
      BY <2>1, <2>3, <3>1, <3>2
  <2>4. QED
    BY <2>2, <2>3
<1>7. QED
  BY <1>4, <1>5, <1>6 DEF n

(* A list in the order of the keys lists nothing twice. *)
LEMMA OrdersFacts ==
  ASSUME NEW refs, NEW ord, NEW S, Keyed(ord, S), Orders(refs, ord, S)
  PROVE  /\ Len(refs) \in Nat /\ DOMAIN refs = 1..Len(refs)
         /\ \A i \in 1..Len(refs) : refs[i] \in S /\ ord[refs[i]] \in Int
         /\ \A i, j \in 1..Len(refs) : i <= j <=> ord[refs[i]] <= ord[refs[j]]
<1>1. /\ Len(refs) \in Nat /\ DOMAIN refs = 1..Len(refs)
      /\ \A i \in 1..Len(refs) : refs[i] \in S /\ ord[refs[i]] \in Int
  BY DEF Orders, Keyed
<1>2. \A i, j \in 1..Len(refs) : i < j => ord[refs[i]] < ord[refs[j]]
  BY DEF Orders
<1>3. ASSUME NEW i \in 1..Len(refs), NEW j \in 1..Len(refs)
      PROVE  i <= j <=> ord[refs[i]] <= ord[refs[j]]
  <2>1. i = j => ord[refs[i]] = ord[refs[j]]
    OBVIOUS
  <2>2. QED
    BY <1>1, <1>2, <2>1
<1>4. QED
  BY <1>1, <1>3

(* The test of record_slot: whether s comes after every slot listed. *)
LEMMA LatestMeaning ==
  ASSUME NEW refs, NEW ord, NEW S, Keyed(ord, S), Orders(refs, ord, S), NEW s, ord[s] \in Int
  PROVE  IsLatest(refs, ord, s) <=> \A t \in S : ord[t] < ord[s]
<1> DEFINE n == Len(refs)
<1>1. /\ n \in Nat
      /\ \A i \in 1..n : refs[i] \in S /\ ord[refs[i]] \in Int
      /\ \A i, j \in 1..n : i <= j <=> ord[refs[i]] <= ord[refs[j]]
      /\ \A t \in S : \E i \in 1..n : refs[i] = t
  <2>1. \A t \in S : \E i \in 1..n : refs[i] = t
    BY DEF Orders
  <2>2. QED
    BY <2>1, OrdersFacts
<1>2. refs = <<>> <=> n = 0
  BY DEF Orders
<1> HIDE DEF n
<1>3. CASE n = 0
  BY <1>1, <1>2, <1>3 DEF IsLatest
<1>4. CASE n > 0
  <2>1. n \in 1..n /\ Last(refs) = refs[n] /\ refs[n] \in S
    BY <1>1, <1>4 DEF Last, n
  <2>2. \A t \in S : ord[t] \in Int /\ ord[t] <= ord[refs[n]]
    BY <1>1, <2>1
  <2>3. IsLatest(refs, ord, s) <=> ord[refs[n]] < ord[s]
    BY <1>2, <1>4, <2>1 DEF IsLatest
  <2>4. ord[refs[n]] \in Int
    BY <2>1, <2>2
  <2>5. QED
    BY <2>1, <2>2, <2>3, <2>4
<1>5. QED
  BY <1>1, <1>3, <1>4

(* record_slot on one list, appending or inserting: `latest` was decided   *)
(* on the container's refs, of which the list may be a part.               *)
LEMMA RecordKeepsOrder ==
  ASSUME NEW refs, NEW ord, NEW S, NEW s, s \notin S, Keyed(ord, S \cup {s}), Orders(refs, ord, S),
         NEW latest \in BOOLEAN, latest => \A t \in S : ord[t] < ord[s]
  PROVE  Orders(WithRef(refs, ord, s, latest), ord, S \cup {s})
<1> DEFINE n   == Len(refs)
           p   == IF latest THEN n ELSE OrderedIndex(refs, ord, ord[s])
           new == WithRef(refs, ord, s, latest)
<1>1. Keyed(ord, S) /\ ord[s] \in Int /\ \A t \in S : ord[t] # ord[s]
  BY DEF Keyed
<1>2. /\ n \in Nat /\ refs \in Seq(S \cup {s})
      /\ \A i \in 1..n : refs[i] \in S /\ ord[refs[i]] \in Int
      /\ \A i, j \in 1..n : i < j => ord[refs[i]] < ord[refs[j]]
      /\ \A t \in S : \E i \in 1..n : refs[i] = t
  <2>1. /\ refs \in Seq(S)
        /\ \A i, j \in 1..n : i < j => ord[refs[i]] < ord[refs[j]]
        /\ \A t \in S : \E i \in 1..n : refs[i] = t
    BY DEF Orders
  <2>2. n \in Nat /\ refs \in Seq(S \cup {s}) /\ \A i \in 1..n : refs[i] \in S
    BY <2>1
  <2>3. QED
    BY <1>1, <2>1, <2>2 DEF Keyed
<1>3. /\ p \in 0..n
      /\ \A i \in 1..p : ord[refs[i]] < ord[s]
      /\ \A i \in (p + 1)..n : ord[s] < ord[refs[i]]
  <2>1. CASE latest
    BY <1>2, <2>1
  <2>2. CASE ~latest
    <3>1. /\ p \in 0..n
          /\ \A i \in 1..p : ord[refs[i]] < ord[s]
          /\ \A i \in (p + 1)..n : ord[s] <= ord[refs[i]]
      BY <1>1, <2>2, IndexParts
    <3>2. \A i \in (p + 1)..n : i \in 1..n
      BY <1>2, <3>1
    <3>3. QED
      BY <1>1, <1>2, <3>1, <3>2
  <2>3. QED
    BY <2>1, <2>2
<1>4. /\ new \in Seq(S \cup {s}) /\ Len(new) = n + 1
      /\ \A i \in 1..(n + 1) :
           new[i] = IF i <= p THEN refs[i] ELSE IF i = p + 1 THEN s ELSE refs[i - 1]
  <2>1. CASE latest
    <3>1. new = Append(refs, s) /\ p = n
      BY <2>1 DEF WithRef
    <3>2. QED
      BY <1>2, <3>1
  <2>2. CASE ~latest
    <3> DEFINE at == p + 1
    <3>1. new = InsertAt(refs, at, s)
      BY <2>2 DEF WithRef
    <3> HIDE DEF p, new
    <3>2. s \in S \cup {s} /\ p \in 0..Len(refs) /\ refs \in Seq(S \cup {s})
      BY <1>2, <1>3
    <3> DEFINE T == S \cup {s}
    <3>3. s \in T /\ refs \in Seq(T)
      BY <3>2
    <3>4. at \in 1..(Len(refs) + 1)
      BY <1>2, <3>2
    <3> HIDE DEF n, T, at
    <3>5. /\ new \in Seq(T) /\ Len(new) = Len(refs) + 1
          /\ \A i \in 1..(Len(refs) + 1) :
               new[i] = IF i < at THEN refs[i] ELSE IF i = at THEN s ELSE refs[i - 1]
      BY <3>1, <3>3, <3>4, Insertion
    <3>6. \A i \in 1..(n + 1) : i < at <=> i <= p
      BY <1>2, <3>2 DEF at
    <3>7. QED
      BY <3>5, <3>6 DEF n, T, at
  <2>3. QED
    BY <2>1, <2>2
<1> HIDE DEF n, p, new
<1>5. ASSUME NEW t \in S \cup {s}
      PROVE  \E i \in 1..(n + 1) : new[i] = t
  <2>1. CASE t = s
    <3>1. p + 1 \in 1..(n + 1) /\ new[p + 1] = s
      BY <1>2, <1>3, <1>4
    <3>2. QED
      BY <2>1, <3>1
  <2>2. CASE t \in S
    <3>1. PICK i \in 1..n : refs[i] = t
      BY <1>2, <2>2
    <3>2. CASE i <= p
      BY <1>2, <1>4, <3>1, <3>2
    <3>3. CASE i > p
      <4>1. i + 1 \in 1..(n + 1) /\ new[i + 1] = refs[i]
        BY <1>2, <1>3, <1>4, <3>3
      <4>2. QED
        BY <3>1, <4>1
    <3>4. QED
      BY <1>2, <1>3, <3>2, <3>3
  <2>3. QED
    BY <2>1, <2>2
<1>6. ASSUME NEW i \in 1..(n + 1), NEW j \in 1..(n + 1), i < j
      PROVE  ord[new[i]] < ord[new[j]]
  <2>1. CASE j <= p
    <3>1. i <= p /\ i \in 1..n /\ j \in 1..n
      BY <1>2, <1>3, <1>6, <2>1
    <3>2. new[i] = refs[i] /\ new[j] = refs[j]
      BY <1>4, <2>1, <3>1
    <3>3. QED
      BY <1>2, <1>6, <3>1, <3>2
  <2>2. CASE j = p + 1
    <3>1. i \in 1..p /\ new[i] = refs[i] /\ new[j] = s
      BY <1>2, <1>3, <1>4, <1>6, <2>2
    <3>2. QED
      BY <1>3, <3>1
  <2>3. CASE j > p + 1
    <3>1. j - 1 \in (p + 1)..n /\ j - 1 \in 1..n /\ new[j] = refs[j - 1]
      BY <1>2, <1>3, <1>4, <2>3
    <3>2. CASE i <= p
      <4>1. new[i] = refs[i] /\ i \in 1..n /\ i < j - 1
        BY <1>2, <1>3, <1>4, <2>3, <3>2
      <4>2. QED
        BY <1>2, <3>1, <4>1
    <3>3. CASE i = p + 1
      <4>1. new[i] = s
        BY <1>2, <1>3, <1>4, <3>3
      <4>2. QED
        BY <1>3, <3>1, <4>1
    <3>4. CASE i > p + 1
      <4>1. new[i] = refs[i - 1] /\ i - 1 \in 1..n /\ i - 1 < j - 1
        BY <1>2, <1>3, <1>4, <1>6, <3>4
      <4>2. QED
        BY <1>2, <3>1, <4>1
    <3>5. QED
      BY <1>2, <1>3, <3>2, <3>3, <3>4
  <2>4. QED
    BY <1>2, <1>3, <2>1, <2>2, <2>3
<1>7. QED
  BY <1>4, <1>5, <1>6 DEF Orders, new

(* _unfile_ordered: it finds the slot, at either end or by bisecting, and  *)
(* what is left is in order.                                               *)
LEMMA UnfileFinds ==
  ASSUME NEW refs, NEW ord, NEW S, NEW s \in S, Keyed(ord, S), Orders(refs, ord, S)
  PROVE  /\ Place(refs, ord, s) \in 1..Len(refs)
         /\ Place(refs, ord, s) # 0
         /\ refs[Place(refs, ord, s)] = s
         /\ Orders(UnfileOrdered(refs, ord, s), ord, S \ {s})
<1> DEFINE n == Len(refs)
           o == OrderedIndex(refs, ord, ord[s])
<1>1. /\ n \in Nat /\ DOMAIN refs = 1..n
      /\ \A i \in 1..n : refs[i] \in S /\ ord[refs[i]] \in Int
      /\ \A i, j \in 1..n : i <= j <=> ord[refs[i]] <= ord[refs[j]]
  BY OrdersFacts
<1>2. PICK m \in 1..n : refs[m] = s
  BY DEF Orders
<1>3. \A i \in 1..n : refs[i] = s => i = m
  BY <1>1, <1>2
<1>4. o + 1 = m
  <2>1. /\ o \in 0..n
        /\ \A i \in 1..o : ord[refs[i]] < ord[s]
        /\ \A i \in (o + 1)..n : ord[s] <= ord[refs[i]]
    BY IndexParts DEF Keyed
  <2> HIDE DEF n, o
  <2>2. ~(m <= o)
    BY <1>1, <1>2, <2>1
  <2>3. o + 1 \in 1..n /\ o + 1 \in (o + 1)..n
    BY <1>1, <1>2, <2>1, <2>2
  <2>4. ord[refs[m]] <= ord[refs[o + 1]]
    BY <1>2, <2>1, <2>3
  <2>5. m <= o + 1
    BY <1>1, <2>3, <2>4
  <2>6. QED
    BY <1>1, <2>1, <2>2, <2>5
<1>5. refs # <<>> /\ Last(refs) = refs[n]
  BY <1>1, <1>2 DEF Last
<1>6. Place(refs, ord, s) = m
  <2> HIDE DEF n, o
  <2>1. n \in 1..n /\ 1 \in 1..n
    BY <1>1, <1>2
  <2>2. Last(refs) = s => n = m
    BY <1>3, <1>5, <2>1
  <2>3. refs[1] = s => 1 = m
    BY <1>3, <2>1
  <2>4. m \in DOMAIN refs /\ refs[m] = s
    BY <1>1, <1>2
  <2>5. Place(refs, ord, s) =
          LET i == IF Last(refs) = s THEN n ELSE IF refs[1] = s THEN 1 ELSE o + 1
          IN  IF i \in DOMAIN refs /\ refs[i] = s THEN i ELSE 0
    BY <1>5 DEF Place, n, o
  <2>6. QED
    BY <1>4, <2>2, <2>3, <2>4, <2>5
<1>7. UnfileOrdered(refs, ord, s) = RemoveAt(refs, m)
  BY <1>1, <1>2, <1>6 DEF UnfileOrdered
<1> DEFINE new == RemoveAt(refs, m)
<1>8. /\ Len(new) = n - 1
      /\ new \in Seq(S)
      /\ \A i \in 1..(n - 1) : new[i] = IF i < m THEN refs[i] ELSE refs[i + 1]
  <2>1. refs \in Seq(S) /\ m \in 1..Len(refs)
    BY <1>2 DEF Orders
  <2>2. QED
    BY <2>1, Removal
<1> HIDE DEF n, o, new
<1>9. ASSUME NEW i \in 1..(n - 1) PROVE new[i] \in S \ {s}
  <2>1. CASE i < m
    BY <1>1, <1>2, <1>3, <1>8, <2>1
  <2>2. CASE ~(i < m)
    <3>1. i + 1 \in 1..n /\ i + 1 # m /\ new[i] = refs[i + 1]
      BY <1>1, <1>2, <1>8, <2>2
    <3>2. QED
      BY <1>1, <1>3, <3>1
  <2>3. QED
    BY <2>1, <2>2
<1>10. new \in Seq(S \ {s})
  <2>1. Len(new) \in Nat /\ new \in [1..Len(new) -> S]
    BY <1>8
  <2>2. \A i \in 1..Len(new) : new[i] \in S \ {s}
    BY <1>8, <1>9
  <2>3. new \in [1..Len(new) -> S \ {s}]
    BY <2>1, <2>2
  <2>4. QED
    BY <2>1, <2>3
<1>11. ASSUME NEW t \in S \ {s} PROVE \E i \in 1..(n - 1) : new[i] = t
  <2>1. PICK i \in 1..n : refs[i] = t
    BY DEF Orders, n
  <2>2. i # m
    BY <1>2, <2>1
  <2>3. CASE i < m
    <3>1. i \in 1..(n - 1) /\ new[i] = refs[i]
      BY <1>1, <1>2, <1>8, <2>3
    <3>2. QED
      BY <2>1, <3>1
  <2>4. CASE i > m
    <3>1. i - 1 \in 1..(n - 1) /\ new[i - 1] = refs[i]
      BY <1>1, <1>2, <1>8, <2>4
    <3>2. QED
      BY <2>1, <3>1
  <2>5. QED
    BY <1>1, <2>2, <2>3, <2>4
<1>12. ASSUME NEW i \in 1..(n - 1), NEW j \in 1..(n - 1), i < j
       PROVE  ord[new[i]] < ord[new[j]]
  <2> DEFINE at(k) == IF k < m THEN k ELSE k + 1
  <2>1. \A k \in 1..(n - 1) : at(k) \in 1..n /\ new[k] = refs[at(k)]
    BY <1>1, <1>2, <1>8
  <2>2. at(i) < at(j)
    BY <1>1, <1>2, <1>12
  <2> HIDE DEF at
  <2>3. QED
    BY <1>1, <2>1, <2>2
<1>13. Orders(new, ord, S \ {s})
  <2>1. Len(new) = n - 1
    BY <1>8
  <2>2. QED
    BY <1>10, <1>11, <1>12, <2>1 DEF Orders
<1>14. QED
  BY <1>2, <1>6, <1>7, <1>13, <1>1 DEF n, new

-----------------------------------------------------------------------------
(* Lists cut, joined and sifted.                                           *)

LEMMA OrderedSlice ==
  ASSUME NEW refs, NEW ord, NEW S, Orders(refs, ord, S),
         NEW lo \in 0..Len(refs), NEW hi \in 0..Len(refs), lo <= hi
  PROVE  Orders(Slice(refs, lo, hi), ord, {refs[i] : i \in (lo + 1)..hi})
<1> DEFINE q == Slice(refs, lo, hi)
           T == {refs[i] : i \in (lo + 1)..hi}
<1>1. refs \in Seq(S) /\ \A i, j \in 1..Len(refs) : i < j => ord[refs[i]] < ord[refs[j]]
  BY DEF Orders
<1>2. Len(q) = hi - lo /\ \A i \in 1..(hi - lo) : q[i] = refs[i + lo]
  <2>1. lo + 1 \in 1..(Len(refs) + 1) /\ hi \in 0..Len(refs) /\ lo + 1 <= hi + 1
    BY <1>1
  <2>2. /\ Len(SubSeq(refs, lo + 1, hi)) = hi - (lo + 1) + 1
        /\ \A i \in 1..(hi - (lo + 1) + 1) : SubSeq(refs, lo + 1, hi)[i] = refs[i + (lo + 1) - 1]
    BY <1>1, <2>1, CutAt
  <2>3. QED
    BY <1>1, <2>2 DEF Slice
<1>3. q \in Seq(S)
  BY <1>1 DEF Slice
<1>3a. \A i \in 1..(hi - lo) : i + lo \in (lo + 1)..hi /\ i + lo \in 1..Len(refs)
  BY <1>1
<1> HIDE DEF q
<1>4. \A i \in 1..Len(q) : q[i] \in T
  BY <1>1, <1>2, <1>3a
<1>5. q \in Seq(T)
  BY <1>3, <1>4
<1>6. \A s \in T : \E i \in 1..Len(q) : q[i] = s
  <2>1. ASSUME NEW i \in (lo + 1)..hi PROVE i - lo \in 1..Len(q) /\ q[i - lo] = refs[i]
    BY <1>1, <1>2
  <2>2. QED
    BY <2>1
<1>7. \A i, j \in 1..Len(q) : i < j => ord[q[i]] < ord[q[j]]
  <2>1. ASSUME NEW i \in 1..(hi - lo), NEW j \in 1..(hi - lo), i < j
        PROVE  ord[q[i]] < ord[q[j]]
    <3>1. i + lo \in 1..Len(refs) /\ j + lo \in 1..Len(refs) /\ i + lo < j + lo
      BY <1>3a, <2>1
    <3>2. ord[refs[i + lo]] < ord[refs[j + lo]]
      BY <1>1, <3>1
    <3>3. QED
      BY <1>2, <3>2
  <2>2. QED
    BY <1>2, <2>1
<1>8. QED
  BY <1>5, <1>6, <1>7 DEF Orders, q

LEMMA OrderedJoin ==
  ASSUME NEW ord, NEW A, NEW B, NEW a, NEW b, Orders(a, ord, A), Orders(b, ord, B),
         \A s \in A, t \in B : ord[s] < ord[t]
  PROVE  Orders(a \o b, ord, A \cup B)
<1> DEFINE q == a \o b
<1>1. /\ a \in Seq(A) /\ b \in Seq(B)
      /\ \A s \in A : \E i \in 1..Len(a) : a[i] = s
      /\ \A s \in B : \E i \in 1..Len(b) : b[i] = s
      /\ \A i, j \in 1..Len(a) : i < j => ord[a[i]] < ord[a[j]]
      /\ \A i, j \in 1..Len(b) : i < j => ord[b[i]] < ord[b[j]]
  BY DEF Orders
<1>2. a \in Seq(A \cup B) /\ b \in Seq(A \cup B) /\ Len(a) \in Nat /\ Len(b) \in Nat
  BY <1>1
<1>3. /\ q \in Seq(A \cup B) /\ Len(q) = Len(a) + Len(b)
      /\ \A i \in 1..(Len(a) + Len(b)) : q[i] = IF i <= Len(a) THEN a[i] ELSE b[i - Len(a)]
  BY <1>2, Joined
<1> HIDE DEF q
<1>4. ASSUME NEW s \in A \cup B PROVE \E i \in 1..Len(q) : q[i] = s
  <2>1. CASE s \in A
    <3>1. PICK i \in 1..Len(a) : a[i] = s
      BY <1>1, <2>1
    <3>2. i \in 1..Len(q) /\ q[i] = s
      BY <1>2, <1>3, <3>1
    <3>3. QED
      BY <3>2
  <2>2. CASE s \in B
    <3>1. PICK i \in 1..Len(b) : b[i] = s
      BY <1>1, <2>2
    <3>2. i + Len(a) \in 1..Len(q) /\ ~(i + Len(a) <= Len(a)) /\ (i + Len(a)) - Len(a) = i
      BY <1>2, <1>3, <3>1
    <3>3. q[i + Len(a)] = s
      BY <1>3, <3>1, <3>2
    <3>4. QED
      BY <3>2, <3>3
  <2>3. QED
    BY <2>1, <2>2
<1>5. ASSUME NEW i \in 1..Len(q), NEW j \in 1..Len(q), i < j PROVE ord[q[i]] < ord[q[j]]
  <2>1. CASE j <= Len(a)
    <3>1. i \in 1..Len(a) /\ j \in 1..Len(a) /\ q[i] = a[i] /\ q[j] = a[j]
      BY <1>2, <1>3, <1>5, <2>1
    <3>2. QED
      BY <1>1, <1>5, <3>1
  <2>2. CASE i <= Len(a) /\ ~(j <= Len(a))
    <3>1. i \in 1..Len(a) /\ j - Len(a) \in 1..Len(b) /\ q[i] = a[i] /\ q[j] = b[j - Len(a)]
      BY <1>2, <1>3, <2>2
    <3>2. a[i] \in A /\ b[j - Len(a)] \in B
      <4>1. \A x \in 1..Len(a) : a[x] \in A
        BY <1>1
      <4>2. \A x \in 1..Len(b) : b[x] \in B
        BY <1>1
      <4>3. QED
        BY <3>1, <4>1, <4>2
    <3>3. QED
      BY <3>1, <3>2
  <2>3. CASE ~(i <= Len(a))
    <3>1. /\ i - Len(a) \in 1..Len(b) /\ j - Len(a) \in 1..Len(b) /\ i - Len(a) < j - Len(a)
          /\ q[i] = b[i - Len(a)] /\ q[j] = b[j - Len(a)]
      BY <1>2, <1>3, <1>5, <2>3
    <3>2. QED
      BY <1>1, <3>1
  <2>4. QED
    BY <1>2, <1>3, <2>1, <2>2, <2>3
<1>6. QED
  BY <1>3, <1>4, <1>5 DEF Orders, q

(* There is one list of given slots in the order of their keys. *)
LEMMA NoLonger ==
  ASSUME NEW ord, NEW S, Keyed(ord, S), NEW a, NEW b, Orders(a, ord, S), Orders(b, ord, S)
  PROVE  /\ \A i \in 1..Len(a) : i \in 1..Len(b) => a[i] = b[i]
         /\ ~(Len(a) < Len(b))
<1> DEFINE n == Len(a)
           m == Len(b)
<1>1. /\ n \in Nat
      /\ \A s \in S : \E i \in 1..n : a[i] = s
      /\ \A i \in 1..n : a[i] \in S /\ ord[a[i]] \in Int
      /\ \A i, j \in 1..n : i <= j <=> ord[a[i]] <= ord[a[j]]
  BY OrdersFacts DEF Orders
<1>2. /\ m \in Nat
      /\ \A s \in S : \E i \in 1..m : b[i] = s
      /\ \A i \in 1..m : b[i] \in S /\ ord[b[i]] \in Int
      /\ \A i, j \in 1..m : i <= j <=> ord[b[i]] <= ord[b[j]]
  BY OrdersFacts DEF Orders
<1> DEFINE Differ == {i \in Nat : i \in 1..n /\ i \in 1..m /\ a[i] # b[i]}
<1> HIDE DEF n, m
<1>3. \A i \in 1..n : i \in 1..m => a[i] = b[i]
  <2> SUFFICES ASSUME NEW i0 \in Differ PROVE FALSE
    BY <1>1
  <2>1. PICK r \in Differ : \A q \in Differ : r <= q
    <3>1. Differ \in SUBSET Nat
      OBVIOUS
    <3> HIDE DEF Differ
    <3>2. QED
      BY <3>1, LeastElement
  <2>2. r \in Nat /\ r \in 1..n /\ r \in 1..m /\ a[r] # b[r]
    OBVIOUS
  <2>3. \A i \in Nat : i \in 1..n /\ i \in 1..m /\ i < r => a[i] = b[i]
    BY <2>1, <2>2
  <2>4. PICK j \in 1..m : b[j] = a[r]
    BY <1>1, <1>2, <2>2
  <2>5. PICK k \in 1..n : a[k] = b[r]
    BY <1>1, <1>2, <2>2
  <2> HIDE DEF Differ
  <2>6. r < j
    <3>1. ~(j < r)
      <4> SUFFICES ASSUME j < r PROVE FALSE
        OBVIOUS
      <4>1. j \in 1..n /\ a[j] = b[j]
        BY <1>1, <1>2, <2>2, <2>3
      <4>2. ord[a[r]] <= ord[a[j]]
        BY <1>1, <2>2, <2>4, <4>1
      <4>3. QED
        BY <1>1, <2>2, <4>1, <4>2
    <3>2. j # r
      BY <2>2, <2>4
    <3>3. QED
      BY <1>2, <2>2, <3>1, <3>2
  <2>7. r < k
    <3>1. ~(k < r)
      <4> SUFFICES ASSUME k < r PROVE FALSE
        OBVIOUS
      <4>1. k \in 1..m /\ a[k] = b[k]
        BY <1>1, <1>2, <2>2, <2>3
      <4>2. ord[b[r]] <= ord[b[k]]
        BY <1>2, <2>2, <2>5, <4>1
      <4>3. QED
        BY <1>2, <2>2, <4>1, <4>2
    <3>2. k # r
      BY <2>2, <2>5
    <3>3. QED
      BY <1>1, <2>2, <3>1, <3>2
  <2>8. ~(ord[b[j]] <= ord[b[r]])
    BY <1>2, <2>2, <2>6
  <2>9. ~(ord[a[k]] <= ord[a[r]])
    BY <1>1, <2>2, <2>7
  <2>10. ord[a[r]] \in Int /\ ord[b[r]] \in Int
    BY <1>1, <1>2, <2>2
  <2>11. QED
    BY <2>4, <2>5, <2>8, <2>9, <2>10
<1>4. ~(n < m)
  <2> SUFFICES ASSUME n < m PROVE FALSE
    OBVIOUS
  <2>1. m \in 1..m /\ b[m] \in S
    BY <1>1, <1>2
  <2>2. PICK i \in 1..n : a[i] = b[m]
    BY <1>1, <2>1
  <2>3. i \in 1..m /\ b[i] = b[m]
    BY <1>1, <1>2, <1>3, <2>2
  <2>4. ord[b[m]] <= ord[b[i]]
    BY <1>2, <2>1, <2>3
  <2>5. m <= i
    BY <1>2, <2>1, <2>3, <2>4
  <2>6. QED
    BY <1>1, <1>2, <2>2, <2>5
<1>5. QED
  BY <1>3, <1>4 DEF n, m

LEMMA OrderUnique ==
  ASSUME NEW ord, NEW S, Keyed(ord, S), NEW a, NEW b, Orders(a, ord, S), Orders(b, ord, S)
  PROVE  a = b
<1>1. a \in Seq(S) /\ b \in Seq(S)
  BY DEF Orders
<1>2. /\ \A i \in 1..Len(a) : i \in 1..Len(b) => a[i] = b[i]
      /\ ~(Len(a) < Len(b)) /\ ~(Len(b) < Len(a))
  BY NoLonger
<1>3. Len(a) \in Nat /\ Len(b) \in Nat
  BY <1>1
<1>4. Len(a) = Len(b)
  BY <1>2, <1>3
<1>5. \A i \in 1..Len(a) : a[i] = b[i]
  BY <1>2, <1>4
<1>6. QED
  BY <1>1, <1>4, <1>5

-----------------------------------------------------------------------------
(* Keeping some of a list.                                                 *)

(* What is kept of an ordered list is in order. *)
LEMMA KeepingOrders ==
  ASSUME NEW refs, NEW ord, NEW S, Orders(refs, ord, S), NEW R
  PROVE  Orders(Keeping(refs, R), ord, S \cap R)
<1> DEFINE n == Len(refs)
           Upto(m) == {refs[i] : i \in 1..m} \cap R
<1>1. /\ refs \in Seq(S) /\ n \in Nat
      /\ \A s \in S : \E i \in 1..n : refs[i] = s
      /\ \A i, j \in 1..n : i < j => ord[refs[i]] < ord[refs[j]]
  BY DEF Orders
<1>2. PICK f : KeptBy(refs, R, f, n) /\ Keeping(refs, R) = f[n]
  BY <1>1, KeepingMeaning
<1> HIDE DEF n
<1> DEFINE P == {m \in Nat : m <= n => Orders(f[m], ord, Upto(m))}
<1>3. 0 \in P
  <2>1. f[0] = <<>> /\ Upto(0) = {}
    BY <1>2 DEF KeptBy
  <2>2. Orders(<<>>, ord, {})
    BY DEF Orders
  <2> HIDE DEF Upto
  <2>3. QED
    BY <2>1, <2>2
<1>4. ASSUME NEW m \in Nat, m \in P PROVE m + 1 \in P
  <2> SUFFICES ASSUME m + 1 <= n PROVE Orders(f[m + 1], ord, Upto(m + 1))
    OBVIOUS
  <2>1. m + 1 \in 1..n /\ m <= n /\ Orders(f[m], ord, Upto(m))
    BY <1>1, <1>4
  <2>2. f[m + 1] = IF refs[m + 1] \in R THEN Append(f[m], refs[m + 1]) ELSE f[m]
    <3>1. (m + 1) - 1 = m
      OBVIOUS
    <3>2. QED
      BY <1>2, <2>1, <3>1 DEF KeptBy
  <2> DEFINE s == refs[m + 1]
  <2>3. {refs[i] : i \in 1..(m + 1)} = {refs[i] : i \in 1..m} \cup {s}
    <3>1. \A i : i \in 1..(m + 1) <=> i \in 1..m \/ i = m + 1
      OBVIOUS
    <3>2. QED
      BY <3>1
  <2>4. CASE s \in R
    <3>1. Upto(m + 1) = Upto(m) \cup {s}
      BY <2>3, <2>4
    <3>2. Orders(<<s>>, ord, {s})
      BY DEF Orders
    <3>3. \A x \in Upto(m), t \in {s} : ord[x] < ord[t]
      <4>1. \A i \in 1..m : i \in 1..n /\ i < m + 1
        BY <1>1, <2>1
      <4>2. QED
        BY <1>1, <2>1, <4>1
    <3>4. f[m] \o <<s>> = Append(f[m], s)
      <4>1. f[m] \in Seq(Upto(m))
        BY <2>1 DEF Orders
      <4> HIDE DEF Upto, s
      <4>2. QED
        BY <4>1
    <3> HIDE DEF Upto
    <3>5. Orders(f[m] \o <<s>>, ord, Upto(m) \cup {s})
      BY <2>1, <3>2, <3>3, OrderedJoin
    <3>6. QED
      BY <2>2, <2>4, <3>1, <3>4, <3>5
  <2>5. CASE s \notin R
    <3>1. Upto(m + 1) = Upto(m)
      BY <2>3, <2>5
    <3>2. QED
      BY <2>1, <2>2, <2>5, <3>1
  <2>6. QED
    BY <2>4, <2>5
<1> HIDE DEF P
<1>5. \A m \in Nat : m \in P
  BY <1>3, <1>4, InductionOnSet
<1>6. Orders(f[n], ord, Upto(n))
  <2>1. n \in P
    BY <1>1, <1>5
  <2> HIDE DEF Upto
  <2>2. QED
    BY <1>1, <2>1 DEF P
<1>7. {refs[i] : i \in 1..n} = S
  BY <1>1 DEF n
<1>8. QED
  BY <1>2, <1>6, <1>7
-----------------------------------------------------------------------------
(* Runs of a list deleted.                                                 *)

Picked(refs, I) == {refs[i] : i \in I}

LEMMA PartsJoin ==
  ASSUME NEW refs, NEW ord, NEW S, Orders(refs, ord, S),
         NEW A \in SUBSET (1..Len(refs)), NEW B \in SUBSET (1..Len(refs)),
         \A i \in A, j \in B : i < j,
         NEW a, NEW b, Orders(a, ord, Picked(refs, A)), Orders(b, ord, Picked(refs, B)),
         NEW C, \A i : i \in C <=> i \in A \/ i \in B
  PROVE  Orders(a \o b, ord, Picked(refs, C))
<1>1. \A i, j \in 1..Len(refs) : i < j => ord[refs[i]] < ord[refs[j]]
  BY DEF Orders
<1>2. \A s \in Picked(refs, A), t \in Picked(refs, B) : ord[s] < ord[t]
  BY <1>1 DEF Picked
<1>3. Picked(refs, C) = Picked(refs, A) \cup Picked(refs, B)
  BY DEF Picked
<1>4. QED
  BY <1>2, <1>3, OrderedJoin

LEMMA DeletedOrders ==
  ASSUME NEW refs, NEW ord, NEW S, Orders(refs, ord, S),
         NEW runs, NEW I, Cover(runs, I, Len(refs)), runs # <<>>
  PROVE  Orders(DeleteRuns(refs, runs), ord, Picked(refs, {i \in 1..Len(refs) : i - 1 \notin I}))
<1> DEFINE N == Len(refs)
           n == Len(runs)
           a(j) == runs[j][1]
           b(j) == runs[j][2]
           Free(lo, hi) == {i \in 1..N : lo < i /\ i <= hi /\ i - 1 \notin I}
<1>1. /\ refs \in Seq(S) /\ N \in Nat /\ n \in Nat \ {0} /\ Last(runs) = runs[n]
      /\ \A j \in 1..n : a(j) \in Nat /\ b(j) \in Nat
  <2>1. runs \in Seq(Nat \X Nat)
    BY DEF Cover
  <2>2. QED
    BY <2>1 DEF Orders, Last
<1>1a. runs \in Seq(Nat \X Nat)
  BY DEF Cover
<1>2. /\ \A j \in 1..n : a(j) < b(j) /\ b(j) <= N
      /\ \A i, j \in 1..n : i < j => b(i) <= a(j)
      /\ \A x \in Nat : x \in I <=> \E j \in 1..n : a(j) <= x /\ x < b(j)
  BY DEF Cover
<1>3. PICK f : /\ JoinedBy(refs, runs, f, n)
               /\ DeleteRuns(refs, runs) = Slice(refs, 0, a(1)) \o f[n] \o Slice(refs, b(n), N)
  BY <1>1, JoinedMeaning
<1>3a. Len(refs) = N
  OBVIOUS
<1> HIDE DEF a, b, n, N
\* Nothing between two runs belongs to one.
<1>4. ASSUME NEW lo \in 0..N, NEW hi \in 0..N, lo <= hi,
             \A j \in 1..n : b(j) <= lo \/ hi <= a(j)
      PROVE  Orders(Slice(refs, lo, hi), ord, Picked(refs, Free(lo, hi)))
  <2>1. Orders(Slice(refs, lo, hi), ord, {refs[i] : i \in (lo + 1)..hi})
    BY <1>3a, <1>4, OrderedSlice
  <2>2. \A i : i \in Free(lo, hi) <=> i \in (lo + 1)..hi
    <3>1. ASSUME NEW i \in (lo + 1)..hi PROVE i \in 1..N /\ lo < i /\ i <= hi /\ i - 1 \notin I
      <4>1. i \in 1..N /\ lo < i /\ i <= hi /\ i - 1 \in Nat
        BY <1>1
      <4>2. \A j \in 1..n : ~(a(j) <= i - 1 /\ i - 1 < b(j))
        BY <1>1, <1>4
      <4>3. QED
        BY <1>2, <4>1, <4>2
    <3>2. \A i \in 1..N : lo < i /\ i <= hi => i \in (lo + 1)..hi
      BY <1>1
    <3>3. QED
      BY <3>1, <3>2
  <2>3. Picked(refs, Free(lo, hi)) = {refs[i] : i \in (lo + 1)..hi}
    BY <2>2 DEF Picked
  <2>4. QED
    BY <2>1, <2>3
<1>5. ASSUME NEW lo \in 0..N, NEW hi \in 0..N, NEW j \in 1..n, lo <= a(j) \/ lo = b(1), b(j) <= hi,
             NEW p, Orders(p, ord, Picked(refs, Free(lo, a(j)))),
             NEW q, Orders(q, ord, Picked(refs, Free(b(j), hi)))
      PROVE  Orders(p \o q, ord, Picked(refs, Free(lo, hi)))
  <2>1. /\ Free(lo, a(j)) \in SUBSET (1..Len(refs)) /\ Free(b(j), hi) \in SUBSET (1..Len(refs))
    BY <1>3a
  <2>2. \A i \in Free(lo, a(j)), k \in Free(b(j), hi) : i < k
    BY <1>1, <1>2
  <2>3. \A i \in 1..N : a(j) < i /\ i <= b(j) => i - 1 \in I
    <3>1. ASSUME NEW i \in 1..N, a(j) < i, i <= b(j) PROVE i - 1 \in I
      <4>1. i - 1 \in Nat /\ a(j) <= i - 1 /\ i - 1 < b(j)
        BY <1>1, <3>1
      <4>2. QED
        BY <1>2, <4>1
    <3>2. QED
      BY <3>1
  <2>4. lo <= b(j)
    <3>1. CASE lo <= a(j)
      BY <1>1, <1>2, <3>1
    <3>2. CASE lo = b(1)
      <4>1. 1 \in 1..n
        BY <1>1
      <4>2. CASE j = 1
        BY <1>1, <3>2, <4>2
      <4>3. CASE j # 1
        <5>1. 1 < j
          BY <1>1, <4>3
        <5>2. b(1) <= a(j) /\ a(j) < b(j) /\ b(1) \in Nat /\ a(j) \in Nat /\ b(j) \in Nat
          BY <1>1, <1>2, <4>1, <5>1
        <5>3. QED
          BY <3>2, <5>2
      <4>4. QED
        BY <4>2, <4>3
    <3>3. QED
      BY <1>5, <3>1, <3>2
  <2>5. ASSUME NEW i
        PROVE  i \in Free(lo, hi) <=> i \in Free(lo, a(j)) \/ i \in Free(b(j), hi)
    <3>1. CASE i \in 1..N
      <4>1. a(j) \in Nat /\ b(j) \in Nat /\ a(j) < b(j)
        BY <1>1, <1>2
      <4>2. lo \in Nat /\ hi \in Nat /\ N \in Nat /\ i \in Nat
        BY <1>1, <3>1
      <4>3. CASE i <= a(j)
        BY <1>5, <3>1, <4>1, <4>2, <4>3
      <4>4. CASE a(j) < i /\ i <= b(j)
        BY <1>5, <2>3, <3>1, <4>1, <4>2, <4>4
      <4>5. CASE b(j) < i
        BY <1>5, <2>4, <3>1, <4>1, <4>2, <4>5
      <4>6. QED
        BY <4>1, <4>2, <4>3, <4>4, <4>5
    <3>2. CASE i \notin 1..N
      BY <3>2
    <3>3. QED
      BY <3>1, <3>2
  <2> HIDE DEF Free
  <2>6. QED
    BY <1>5, <2>1, <2>2, <2>5, PartsJoin
<1> DEFINE P == {m \in Nat : m + 1 <= n => Orders(f[m + 1], ord, Picked(refs, Free(b(1), a(m + 1))))}
<1>6. 0 \in P
  <2>1. f[1] = <<>> /\ a(1) < b(1) /\ a(1) \in Nat /\ b(1) \in Nat
    <3>1. 1 \in 1..n
      BY <1>1
    <3>2. QED
      BY <1>1, <1>2, <1>3, <3>1 DEF JoinedBy
  <2>2. Free(b(1), a(1)) = {}
    BY <2>1, <1>1
  <2>3. Picked(refs, {}) = {}
    BY DEF Picked
  <2>4. Orders(<<>>, ord, {})
    BY DEF Orders
  <2> HIDE DEF Free
  <2>5. 0 + 1 = 1
    OBVIOUS
  <2>6. QED
    BY <2>1, <2>2, <2>3, <2>4, <2>5
<1>7. ASSUME NEW m \in Nat, m \in P PROVE m + 1 \in P
  <2> SUFFICES ASSUME (m + 1) + 1 <= n
               PROVE  Orders(f[(m + 1) + 1], ord, Picked(refs, Free(b(1), a((m + 1) + 1))))
    OBVIOUS
  <2> DEFINE k == m + 1
  <2>1. k \in 1..n /\ k + 1 \in 2..n /\ k + 1 \in 1..n /\ k < k + 1 /\ (k + 1) - 1 = k /\ 1 \in 1..n
    BY <1>1
  <2>2. Orders(f[k], ord, Picked(refs, Free(b(1), a(k))))
    <3> HIDE DEF Free
    <3>1. k <= n
      BY <1>1, <2>1
    <3>2. QED
      BY <1>7, <3>1
  <2> HIDE DEF k
  <2>3. f[k + 1] = f[k] \o Slice(refs, b(k), a(k + 1))
    BY <1>3, <2>1 DEF JoinedBy, a, b
  <2>4. b(k) \in 0..N /\ a(k + 1) \in 0..N /\ b(k) <= a(k + 1) /\ b(1) \in 0..N
    <3>1. /\ b(k) \in Nat /\ a(k + 1) \in Nat /\ b(k + 1) \in Nat /\ b(1) \in Nat
          /\ b(k) <= a(k + 1) /\ a(k + 1) < b(k + 1) /\ b(k + 1) <= N /\ b(1) <= N
      BY <1>1, <1>2, <2>1
    <3>2. QED
      BY <1>1, <3>1
  <2>5. ASSUME NEW j \in 1..n PROVE b(j) <= b(k) \/ a(k + 1) <= a(j)
    <3>1. CASE j = k
      BY <1>1, <2>1, <3>1
    <3>2. CASE j = k + 1
      BY <1>1, <2>1, <3>2
    <3>3. CASE j < k
      <4>1. b(j) <= a(k) /\ a(k) < b(k) /\ b(j) \in Nat /\ a(k) \in Nat /\ b(k) \in Nat
        BY <1>1, <1>2, <2>1, <3>3
      <4>2. QED
        BY <4>1
    <3>4. CASE k + 1 < j
      <4>1. b(k + 1) <= a(j) /\ a(k + 1) < b(k + 1) /\ a(j) \in Nat /\ a(k + 1) \in Nat /\ b(k + 1) \in Nat
        BY <1>1, <1>2, <2>1, <3>4
      <4>2. QED
        BY <4>1
    <3>5. QED
      BY <1>1, <2>1, <3>1, <3>2, <3>3, <3>4
  <2> HIDE DEF Free
  <2>6. Orders(Slice(refs, b(k), a(k + 1)), ord, Picked(refs, Free(b(k), a(k + 1))))
    BY <1>4, <2>4, <2>5
  <2>7. Orders(f[k] \o Slice(refs, b(k), a(k + 1)), ord, Picked(refs, Free(b(1), a(k + 1))))
    BY <1>5, <2>1, <2>2, <2>4, <2>6
  <2>8. QED
    BY <2>3, <2>7 DEF k
<1> HIDE DEF P
<1>8. \A m \in Nat : m \in P
  BY <1>6, <1>7, InductionOnSet
<1>9. Orders(f[n], ord, Picked(refs, Free(b(1), a(n))))
  <2>1. n - 1 \in Nat /\ (n - 1) + 1 = n
    BY <1>1
  <2>2. n - 1 \in P
    BY <1>8, <2>1
  <2> HIDE DEF Free
  <2>3. (n - 1) + 1 <= n => Orders(f[(n - 1) + 1], ord, Picked(refs, Free(b(1), a((n - 1) + 1))))
    BY <2>2 DEF P
  <2>4. QED
    BY <1>1, <2>1, <2>3
<1>10. /\ 1 \in 1..n /\ n \in 1..n /\ 0 \in 0..N /\ N \in 0..N
       /\ \A j \in 1..n : a(j) \in 0..N /\ b(j) \in 0..N
  <2>1. ASSUME NEW j \in 1..n PROVE a(j) \in 0..N /\ b(j) \in 0..N
    <3>1. a(j) \in Nat /\ b(j) \in Nat /\ a(j) < b(j) /\ b(j) <= N
      BY <1>1, <1>2
    <3>2. QED
      BY <1>1, <3>1
  <2>2. QED
    BY <1>1, <2>1
<1>11. Orders(Slice(refs, 0, a(1)), ord, Picked(refs, Free(0, a(1))))
  <2>1. ASSUME NEW j \in 1..n PROVE b(j) <= 0 \/ a(1) <= a(j)
    <3>1. CASE j = 1
      BY <1>10, <3>1
    <3>2. CASE j # 1
      <4>1. b(1) <= a(j) /\ a(1) < b(1) /\ a(j) \in Nat /\ a(1) \in Nat /\ b(1) \in Nat
        <5>1. 1 < j
          BY <1>1, <3>2
        <5>2. QED
          BY <1>1, <1>2, <1>10, <5>1
      <4>2. QED
        BY <4>1
    <3>3. QED
      BY <3>1, <3>2
  <2>2. 0 <= a(1)
    BY <1>1, <1>10
  <2> HIDE DEF Free
  <2>3. QED
    BY <1>4, <1>10, <2>1, <2>2
<1>12. Orders(Slice(refs, b(n), N), ord, Picked(refs, Free(b(n), N)))
  <2>1. ASSUME NEW j \in 1..n PROVE b(j) <= b(n) \/ N <= a(j)
    <3>1. CASE j = n
      BY <1>10, <3>1
    <3>2. CASE j # n
      <4>1. b(j) <= a(n) /\ a(n) < b(n) /\ a(n) \in Nat /\ b(j) \in Nat /\ b(n) \in Nat
        <5>1. j < n
          BY <1>1, <3>2
        <5>2. QED
          BY <1>1, <1>2, <1>10, <5>1
      <4>2. QED
        BY <4>1
    <3>3. QED
      BY <3>1, <3>2
  <2>2. b(n) <= N
    BY <1>2, <1>10
  <2> HIDE DEF Free
  <2>3. QED
    BY <1>4, <1>10, <2>1, <2>2
<1>13. Orders(Slice(refs, 0, a(1)) \o f[n], ord, Picked(refs, Free(0, a(n))))
  <2>1. (0 <= a(1) /\ b(1) <= a(n)) \/ n = 1
    BY <1>1, <1>2, <1>10
  <2>2. CASE n = 1
    <3>1. Free(b(1), a(n)) = {}
      <4>1. a(1) < b(1) /\ a(1) \in Nat /\ b(1) \in Nat
        BY <1>1, <1>2, <1>10
      <4>2. QED
        BY <1>1, <2>2, <4>1
    <3>2. Picked(refs, {}) = {}
      BY DEF Picked
    <3> HIDE DEF Free
    <3>3. f[n] = <<>>
      BY <1>3, <2>2 DEF JoinedBy
    <3>4. Slice(refs, 0, a(1)) \in Seq(S)
      <4>1. SubSeq(refs, 0 + 1, a(1)) \in Seq(S)
        <5>1. 0 + 1 \in 1..(Len(refs) + 1) /\ a(1) \in 0..Len(refs) /\ 0 + 1 <= a(1) + 1
          BY <1>1, <1>3a, <1>10
        <5>2. QED
          BY <1>1, <5>1, CutAt
      <4>2. QED
        BY <4>1 DEF Slice
    <3>5. Slice(refs, 0, a(1)) \o f[n] = Slice(refs, 0, a(1))
      <4> DEFINE z == Slice(refs, 0, a(1))
      <4> HIDE DEF z
      <4>1. z \o <<>> = z
        BY <3>4 DEF z
      <4>2. QED
        BY <3>3, <4>1 DEF z
    <3>6. QED
      BY <1>11, <2>2, <3>5
  <2>3. CASE n # 1
    <3>1. b(1) <= a(n) /\ 0 <= a(1)
      <4>1. 1 < n
        BY <1>1, <2>3
      <4>2. QED
        BY <1>1, <1>2, <1>10, <4>1
    <3> HIDE DEF Free
    <3>2. QED
      BY <1>5, <1>9, <1>10, <1>11, <3>1
  <2>4. QED
    BY <2>2, <2>3
<1>14. Orders((Slice(refs, 0, a(1)) \o f[n]) \o Slice(refs, b(n), N), ord, Picked(refs, Free(0, N)))
  <2>1. 0 <= a(n) /\ b(n) <= N
    BY <1>1, <1>2, <1>10
  <2> HIDE DEF Free
  <2>2. QED
    BY <1>5, <1>10, <1>12, <1>13, <2>1
<1>15. Free(0, N) = {i \in 1..N : i - 1 \notin I}
  BY <1>1
<1>16. QED
  <2> HIDE DEF Free
  <2>1. QED
    BY <1>3, <1>14, <1>15 DEF N
-----------------------------------------------------------------------------
(* The places of slots that leave together.                                *)

Spot(refs, ord, removed, found, j) ==
  LET i == IF j = 1 THEN 0 ELSE Last(found) + 1
  IN  IF i < Len(refs) /\ refs[i + 1] = removed[j] THEN i ELSE OrderedIndex(refs, ord, ord[removed[j]])

PlacedBy(refs, ord, removed, f, n) ==
  /\ f = [i \in 0..n |-> f[i]]
  /\ f[0] = <<>>
  /\ \A i \in 1..n : f[i] = Append(f[i - 1], Spot(refs, ord, removed, f[i - 1], i))

LEMMA PlacedExists ==
  ASSUME NEW refs, NEW ord, NEW removed
  PROVE  \A n \in Nat : \E f : PlacedBy(refs, ord, removed, f, n)
<1> DEFINE P == {n \in Nat : \E f : PlacedBy(refs, ord, removed, f, n)}
<1>1. 0 \in P
  <2>1. PlacedBy(refs, ord, removed, [i \in 0..0 |-> <<>>], 0)
    BY DEF PlacedBy
  <2>2. QED
    BY <2>1
<1>2. ASSUME NEW n \in Nat, n \in P PROVE n + 1 \in P
  <2>1. PICK f : PlacedBy(refs, ord, removed, f, n)
    BY <1>2
  <2> DEFINE x == Append(f[n], Spot(refs, ord, removed, f[n], n + 1))
             g == [i \in 0..(n + 1) |-> IF i = n + 1 THEN x ELSE f[i]]
  <2> HIDE DEF x
  <2>2. /\ g = [i \in 0..(n + 1) |-> g[i]] /\ g[n + 1] = x
        /\ \A i \in 0..n : g[i] = f[i]
    OBVIOUS
  <2> HIDE DEF g
  <2>3. g[0] = <<>>
    BY <2>1, <2>2 DEF PlacedBy
  <2>4. ASSUME NEW i \in 1..(n + 1)
        PROVE  g[i] = Append(g[i - 1], Spot(refs, ord, removed, g[i - 1], i))
    <3>1. CASE i = n + 1
      <4>1. g[i - 1] = f[n]
        BY <2>2, <3>1
      <4>2. QED
        BY <2>2, <3>1, <4>1 DEF x
    <3>2. CASE i # n + 1
      <4>1. i \in 1..n /\ i - 1 \in 0..n /\ i \in 0..n
        BY <3>2
      <4>2. QED
        BY <2>1, <2>2, <4>1 DEF PlacedBy
    <3>3. QED
      BY <3>1, <3>2
  <2>5. PlacedBy(refs, ord, removed, g, n + 1)
    BY <2>2, <2>3, <2>4 DEF PlacedBy
  <2>6. QED
    BY <2>5
<1> HIDE DEF P
<1>3. \A n \in Nat : n \in P
  BY <1>1, <1>2, InductionOnSet
<1>4. QED
  BY <1>3 DEF P

LEMMA PlacesMeaning ==
  ASSUME NEW refs, NEW ord, NEW removed, Len(removed) \in Nat
  PROVE  \E f : /\ PlacedBy(refs, ord, removed, f, Len(removed))
                /\ PlacesOf(refs, ord, removed) = f[Len(removed)]
<1> DEFINE n == Len(removed)
           Is(f) == f = [i \in 0..n |->
                           IF i = 0 THEN <<>>
                           ELSE Append(f[i - 1], Spot(refs, ord, removed, f[i - 1], i))]
<1>1. PlacesOf(refs, ord, removed) = (CHOOSE f : Is(f))[n]
  BY DEF PlacesOf, Spot
<1>2. n \in Nat
  OBVIOUS
<1> HIDE DEF n
<1>3. \A f : Is(f) <=> PlacedBy(refs, ord, removed, f, n)
  <2> TAKE f
  <2> DEFINE g == [i \in 0..n |-> IF i = 0 THEN <<>>
                                 ELSE Append(f[i - 1], Spot(refs, ord, removed, f[i - 1], i))]
  <2>1. /\ g = [i \in 0..n |-> g[i]] /\ g[0] = <<>>
        /\ \A i \in 1..n : g[i] = Append(f[i - 1], Spot(refs, ord, removed, f[i - 1], i))
        /\ \A i \in 0..n : i = 0 \/ i \in 1..n
    BY <1>2
  <2> HIDE DEF g
  <2>2. ASSUME f = g PROVE PlacedBy(refs, ord, removed, f, n)
    BY <2>1, <2>2 DEF PlacedBy
  <2>3. ASSUME PlacedBy(refs, ord, removed, f, n) PROVE f = g
    <3>1. \A i \in 0..n : f[i] = g[i]
      BY <2>1, <2>3 DEF PlacedBy
    <3>2. [i \in 0..n |-> f[i]] = [i \in 0..n |-> g[i]]
      BY <3>1
    <3>3. QED
      BY <2>1, <2>3, <3>2 DEF PlacedBy
  <2>4. QED
    BY <2>2, <2>3 DEF g
<1> HIDE DEF Is
<1>4. \E f : PlacedBy(refs, ord, removed, f, n)
  BY <1>2, PlacedExists
<1>5. QED
  BY <1>1, <1>3, <1>4 DEF n

LEMMA PlaceOfRef ==
  ASSUME NEW refs, NEW ord, NEW S, NEW s \in S, Keyed(ord, S), Orders(refs, ord, S)
  PROVE  /\ OrderedIndex(refs, ord, ord[s]) \in 0..(Len(refs) - 1)
         /\ refs[OrderedIndex(refs, ord, ord[s]) + 1] = s
<1> DEFINE c == OrderedIndex(refs, ord, ord[s])
           N == Len(refs)
<1>1. ord[s] \in Int
  BY DEF Keyed
<1>2. /\ c \in 0..N
      /\ \A i \in 1..c : ord[refs[i]] < ord[s]
      /\ \A i \in (c + 1)..N : ord[s] <= ord[refs[i]]
  BY <1>1, IndexParts
<1>3. /\ N \in Nat
      /\ \A i \in 1..N : refs[i] \in S /\ ord[refs[i]] \in Int
      /\ \A i, j \in 1..N : i <= j <=> ord[refs[i]] <= ord[refs[j]]
  BY OrdersFacts
<1>4. PICK p \in 1..N : refs[p] = s
  BY DEF Orders
<1> HIDE DEF c, N
<1>5. ~(p <= c)
  <2>1. p <= c => p \in 1..c
    BY <1>2
  <2>2. ~(ord[s] < ord[s])
    BY <1>1
  <2>3. QED
    BY <1>2, <1>4, <2>1, <2>2
<1>6. c + 1 \in 1..N /\ c + 1 \in (c + 1)..N /\ c + 1 <= p
  BY <1>2, <1>3, <1>4, <1>5
<1>7. ord[refs[p]] <= ord[refs[c + 1]]
  BY <1>2, <1>4, <1>6
<1>8. p <= c + 1
  BY <1>3, <1>4, <1>6, <1>7
<1>9. p = c + 1 /\ c \in 0..(N - 1)
  BY <1>2, <1>3, <1>4, <1>6, <1>8
<1>10. QED
  BY <1>4, <1>9 DEF c, N

LEMMA PlacesFound ==
  ASSUME NEW refs, NEW ord, NEW S, Keyed(ord, S), Orders(refs, ord, S),
         NEW R \in SUBSET S, NEW removed, Orders(removed, ord, R)
  PROVE  /\ PlacesOf(refs, ord, removed) \in Seq(Nat)
         /\ Len(PlacesOf(refs, ord, removed)) = Len(removed)
         /\ \A j \in 1..Len(removed) : /\ PlacesOf(refs, ord, removed)[j] \in 0..(Len(refs) - 1)
                                       /\ refs[PlacesOf(refs, ord, removed)[j] + 1] = removed[j]
<1> DEFINE n == Len(removed)
           N == Len(refs)
           Good(i, j) == i \in 0..(N - 1) /\ refs[i + 1] = removed[j]
           Finds(q, m) == /\ q \in Seq(Nat) /\ Len(q) = m
                          /\ \A j \in 1..m : Good(q[j], j)
<1>1. n \in Nat /\ N \in Nat /\ \A j \in 1..n : removed[j] \in R
  BY DEF Orders
<1>2. PICK f : PlacedBy(refs, ord, removed, f, n) /\ PlacesOf(refs, ord, removed) = f[n]
  BY <1>1, PlacesMeaning
<1>3. \A j \in 1..n : Good(OrderedIndex(refs, ord, ord[removed[j]]), j)
  BY <1>1, PlaceOfRef
<1>3a. N = Len(refs)
  OBVIOUS
<1> HIDE DEF n, N
<1> DEFINE P == {m \in Nat : m <= n => Finds(f[m], m)}
<1>4. 0 \in P
  <2>1. f[0] = <<>>
    BY <1>2 DEF PlacedBy
  <2>2. Finds(<<>>, 0)
    OBVIOUS
  <2> HIDE DEF Finds
  <2>3. QED
    BY <2>1, <2>2
<1>5. ASSUME NEW m \in Nat, m \in P PROVE m + 1 \in P
  <2> SUFFICES ASSUME m + 1 <= n PROVE Finds(f[m + 1], m + 1)
    OBVIOUS
  <2> DEFINE x == Spot(refs, ord, removed, f[m], m + 1)
  <2>1. m + 1 \in 1..n /\ Finds(f[m], m)
    BY <1>1, <1>5
  <2>2. f[m + 1] = Append(f[m], x)
    <3>1. (m + 1) - 1 = m
      OBVIOUS
    <3>2. QED
      BY <1>2, <2>1, <3>1 DEF PlacedBy
  <2>3. Good(x, m + 1)
    <3> DEFINE i == IF m + 1 = 1 THEN 0 ELSE Last(f[m]) + 1
    <3>1. x = IF i < N /\ refs[i + 1] = removed[m + 1]
                THEN i ELSE OrderedIndex(refs, ord, ord[removed[m + 1]])
      BY <1>3a DEF Spot
    <3>2. i \in Nat
      <4>1. CASE m + 1 = 1
        BY <4>1
      <4>2. CASE m + 1 # 1
        <5>1. m \in 1..m /\ Last(f[m]) = f[m][m] /\ f[m][m] \in Nat
          BY <2>1, <4>2 DEF Last
        <5>2. QED
          BY <4>2, <5>1
      <4>3. QED
        BY <4>1, <4>2
    <3> HIDE DEF i, x
    <3>3. CASE i < N /\ refs[i + 1] = removed[m + 1]
      BY <1>1, <3>1, <3>2, <3>3
    <3>4. CASE ~(i < N /\ refs[i + 1] = removed[m + 1])
      <4>1. x = OrderedIndex(refs, ord, ord[removed[m + 1]])
        BY <3>1, <3>4
      <4>2. QED
        BY <1>3, <2>1, <4>1
    <3>5. QED
      BY <3>3, <3>4
  <2> HIDE DEF x
  <2>4. x \in Nat
    BY <1>1, <2>3
  <2>5. /\ Append(f[m], x) \in Seq(Nat) /\ Len(Append(f[m], x)) = m + 1
        /\ \A j \in 1..m : Append(f[m], x)[j] = f[m][j]
        /\ Append(f[m], x)[m + 1] = x
    <3>1. f[m] \in Seq(Nat) /\ Len(f[m]) = m
      BY <2>1
    <3>2. QED
      BY <2>4, <3>1
  <2>6. \A j \in 1..(m + 1) : j \in 1..m \/ j = m + 1
    OBVIOUS
  <2>7. QED
    <3>1. \A j \in 1..m : Good(f[m][j], j)
      BY <2>1
    <3> HIDE DEF Good
    <3>2. QED
      BY <2>2, <2>3, <2>5, <2>6, <3>1
<1> HIDE DEF P
<1>6. \A m \in Nat : m \in P
  BY <1>4, <1>5, InductionOnSet
<1>7. Finds(f[n], n)
  <2>1. n \in P /\ n <= n
    BY <1>1, <1>6
  <2> HIDE DEF Finds
  <2>2. QED
    BY <2>1 DEF P
<1>8. QED
  BY <1>2, <1>7 DEF n, N

LEMMA NoRoomToMove ==
  ASSUME NEW N \in Nat, NEW p, \A j \in 1..N : p[j] \in 1..N,
         \A i, j \in 1..N : i < j => p[i] < p[j]
  PROVE  \A j \in 1..N : p[j] = j
<1> DEFINE U == {j \in Nat : j + 1 <= N => j + 1 <= p[j + 1]}
           D == {j \in Nat : j \in 1..N => p[j] <= j}
<1>1. 0 \in U
  <2>1. 0 + 1 <= N => 1 \in 1..N
    OBVIOUS
  <2>2. QED
    BY <2>1
<1>2. ASSUME NEW j \in Nat, j \in U PROVE j + 1 \in U
  <2> SUFFICES ASSUME (j + 1) + 1 <= N PROVE (j + 1) + 1 <= p[(j + 1) + 1]
    OBVIOUS
  <2>1. j + 1 \in 1..N /\ (j + 1) + 1 \in 1..N /\ j + 1 < (j + 1) + 1
    OBVIOUS
  <2>2. j + 1 <= p[j + 1] /\ p[j + 1] < p[(j + 1) + 1]
    BY <1>2, <2>1
  <2>3. p[j + 1] \in Nat /\ p[(j + 1) + 1] \in Nat
    BY <2>1
  <2>4. QED
    BY <2>2, <2>3
<1>3. N \in D
  OBVIOUS
<1>4. ASSUME NEW j \in Nat, j < N, j + 1 \in D PROVE j \in D
  <2> SUFFICES ASSUME j \in 1..N PROVE p[j] <= j
    OBVIOUS
  <2>1. j + 1 \in 1..N /\ j < j + 1
    BY <1>4
  <2>2. p[j + 1] <= j + 1 /\ p[j] < p[j + 1] /\ p[j] \in Nat /\ p[j + 1] \in Nat
    BY <1>4, <2>1
  <2>3. QED
    BY <2>2
<1> HIDE DEF U, D
<1>5. \A j \in Nat : j \in U
  BY <1>1, <1>2, InductionOnSet
<1>6. \A j \in 0..N : j \in D
  BY <1>3, <1>4, InductionFromAbove
<1>7. ASSUME NEW j \in 1..N PROVE p[j] = j
  <2>1. j - 1 \in U /\ j \in D /\ (j - 1) + 1 = j
    BY <1>5, <1>6
  <2>2. j <= p[j] /\ p[j] <= j
    BY <2>1 DEF U, D
  <2>3. QED
    BY <2>2
<1>8. QED
  BY <1>7

(* _unfile_ordered_many finds every slot it is to remove.                  *)
LEMMA ManyFound ==
  ASSUME NEW refs, NEW ord, NEW S, Keyed(ord, S), Orders(refs, ord, S),
         NEW R \in SUBSET S, NEW removed, Orders(removed, ord, R), removed # <<>>
  PROVE  /\ FoundMany(refs, ord, removed)
         /\ Orders(UnfileOrderedMany(refs, ord, removed), ord, S \ R)
<1> DEFINE n == Len(removed)
           N == Len(refs)
           idx == PlacesOf(refs, ord, removed)
<1>1. /\ idx \in Seq(Nat) /\ Len(idx) = n
      /\ \A j \in 1..n : idx[j] \in 0..(N - 1) /\ refs[idx[j] + 1] = removed[j]
  BY PlacesFound
<1>2. /\ N \in Nat /\ \A i \in 1..N : refs[i] \in S /\ ord[refs[i]] \in Int
      /\ \A i, j \in 1..N : i <= j <=> ord[refs[i]] <= ord[refs[j]]
      /\ \A s \in S : \E i \in 1..N : refs[i] = s
  BY OrdersFacts DEF Orders
<1>3. /\ n \in Nat /\ n # 0 /\ \A j \in 1..n : removed[j] \in R
      /\ \A s \in R : \E j \in 1..n : removed[j] = s
      /\ \A i, j \in 1..n : i < j => ord[removed[i]] < ord[removed[j]]
  <2>1. removed \in Seq(R) /\ removed # <<>>
    BY DEF Orders
  <2>2. n \in Nat /\ n # 0 /\ \A j \in 1..n : removed[j] \in R
    BY <2>1
  <2>3. QED
    BY <2>2 DEF Orders
<1>4. FoundMany(refs, ord, removed)
  <2>1. DOMAIN idx = 1..n
    BY <1>1
  <2> HIDE DEF idx, n, N
  <2>2. \A j \in DOMAIN idx : idx[j] < N /\ refs[idx[j] + 1] = removed[j]
    BY <1>1, <1>2, <2>1
  <2>3. QED
    BY <2>2 DEF FoundMany, idx, N
<1>5a. N = Len(refs) /\ n = Len(removed)
  OBVIOUS
<1>5b. idx = PlacesOf(refs, ord, removed)
  OBVIOUS
<1> HIDE DEF idx, n, N
<1>5. ASSUME NEW i \in 1..n, NEW j \in 1..n, i < j PROVE idx[i] < idx[j]
  <2>1. idx[i] + 1 \in 1..N /\ idx[j] + 1 \in 1..N /\ idx[i] \in Nat /\ idx[j] \in Nat
    BY <1>1, <1>2
  <2>2. ord[refs[idx[i] + 1]] < ord[refs[idx[j] + 1]]
    BY <1>1, <1>3, <1>5
  <2>3. ~(idx[j] + 1 <= idx[i] + 1)
    <3>1. ~(ord[refs[idx[j] + 1]] <= ord[refs[idx[i] + 1]])
      BY <1>2, <2>1, <2>2
    <3>2. QED
      BY <1>2, <2>1, <3>1
  <2>4. QED
    BY <2>1, <2>3
<1>6. CASE N = n
  <2> DEFINE p == [j \in 1..N |-> idx[j] + 1]
  <2>1. \A j \in 1..N : p[j] \in 1..N
    BY <1>1, <1>2, <1>6
  <2>2. \A i, j \in 1..N : i < j => p[i] < p[j]
    <3>1. \A i \in 1..N : idx[i] \in Nat
      BY <1>1, <1>6
    <3>2. QED
      BY <1>5, <1>6, <3>1
  <2>2a. \A j \in 1..N : p[j] = idx[j] + 1
    OBVIOUS
  <2> HIDE DEF p
  <2>3. \A j \in 1..N : p[j] = j
    BY <1>2, <2>1, <2>2, NoRoomToMove
  <2>4. ASSUME NEW j \in 1..N PROVE refs[j] \in R
    <3>1. idx[j] + 1 = j /\ j \in 1..n
      BY <1>6, <2>2a, <2>3
    <3>2. refs[j] = removed[j]
      BY <1>1, <3>1
    <3>3. QED
      BY <1>3, <3>1, <3>2
  <2>5. S \ R = {}
    BY <1>2, <2>4
  <2>6. UnfileOrderedMany(refs, ord, removed) = <<>>
    BY <1>6, <1>5a DEF UnfileOrderedMany
  <2>7. Orders(<<>>, ord, {})
    BY DEF Orders
  <2>8. QED
    BY <1>4, <2>5, <2>6, <2>7
<1>7. CASE N # n
  <2> DEFINE I == {idx[j] : j \in 1..n}
             runs == IndexRuns(idx)
  <2>1. UnfileOrderedMany(refs, ord, removed) = DeleteRuns(refs, runs)
    BY <1>7, <1>5a, <1>5b DEF UnfileOrderedMany
  <2>2. Cover(runs, I, N)
    <3>1. \A j \in 1..n : idx[j] < N
      BY <1>1, <1>2
    <3>2. \A i, j \in 1..Len(idx) : i < j => idx[i] < idx[j]
      BY <1>1, <1>5
    <3>3. Cover(runs, {idx[j] : j \in 1..Len(idx)}, N)
      BY <1>1, <1>2, <3>1, <3>2, IndexRunsCover
    <3>4. QED
      BY <1>1, <3>3
  <2>3. runs # <<>>
    <3>1. 1 \in 1..n /\ idx[1] \in Nat /\ idx[1] \in I
      BY <1>1, <1>3
    <3> HIDE DEF runs, I
    <3>2. PICK j \in 1..Len(runs) : TRUE
      BY <2>2, <3>1 DEF Cover
    <3>3. runs \in Seq(Nat \X Nat)
      BY <2>2 DEF Cover
    <3>4. QED
      BY <3>2, <3>3
  <2>4. Orders(DeleteRuns(refs, runs), ord, Picked(refs, {i \in 1..N : i - 1 \notin I}))
    <3> HIDE DEF runs, I
    <3>1. QED
      BY <1>5a, <2>2, <2>3, DeletedOrders
  <2>5. Picked(refs, {i \in 1..N : i - 1 \notin I}) = S \ R
    <3>1. ASSUME NEW i \in 1..N PROVE i - 1 \in I <=> refs[i] \in R
      <4>1. ASSUME i - 1 \in I PROVE refs[i] \in R
        <5>1. PICK j \in 1..n : idx[j] = i - 1
          BY <4>1
        <5>2. idx[j] + 1 = i
          BY <1>2, <5>1
        <5>3. QED
          BY <1>1, <1>3, <5>2
      <4>2. ASSUME refs[i] \in R PROVE i - 1 \in I
        <5>1. PICK j \in 1..n : removed[j] = refs[i]
          BY <1>3, <4>2
        <5>2. idx[j] + 1 \in 1..N /\ refs[idx[j] + 1] = refs[i] /\ idx[j] \in Nat
          BY <1>1, <1>2, <5>1
        <5>3. ord[refs[i]] <= ord[refs[idx[j] + 1]] /\ ord[refs[idx[j] + 1]] <= ord[refs[i]]
          BY <1>2, <5>2
        <5>4. idx[j] + 1 = i
          <6>1. i <= idx[j] + 1 /\ idx[j] + 1 <= i
            BY <1>2, <5>2, <5>3
          <6>2. QED
            BY <5>2, <6>1
        <5>5. idx[j] = i - 1
          BY <1>2, <5>2, <5>4
        <5>6. QED
          BY <5>5
      <4>3. QED
        BY <4>1, <4>2
    <3> HIDE DEF I
    <3>2. QED
      BY <1>2, <3>1 DEF Picked
  <2>6. QED
    BY <1>4, <2>1, <2>4, <2>5
<1>8. QED
  BY <1>6, <1>7

-----------------------------------------------------------------------------
(* The view of one container.                                              *)

(* What the patches rely on, of the slots S of a container c: order keys   *)
(* tell them apart, and c has one header of its own at most, no line.      *)
HeadedBy(c, S, h) ==
  /\ ~IsKV(h)
  /\ \A s \in S : LocalKey(s, c) = OwnKey => s = h

Belong(ord, c, S) ==
  /\ Keyed(ord, S)
  /\ NoSlot \notin S
  /\ \A h \in S : LocalKey(h, c) = OwnKey => HeadedBy(c, S, h)

(* A line of c is filed below its header. *)
HeaderFirst(ord, c, S, s) ==
  \A h \in S : LocalKey(h, c) = OwnKey /\ IsOwnLine(s, c) => ord[h] < ord[s]

IsAFcn(f) == f = [x \in DOMAIN f |-> f[x]]

(* Every cached projection of c is what S makes it. *)
HeaderExact(header, c, S) ==
  \/ header \in S /\ LocalKey(header, c) = OwnKey
  \/ header = NoSlot /\ \A s \in S : LocalKey(s, c) # OwnKey

IndexExact(index, ord, c, S) ==
  /\ IsAFcn(index)
  /\ DOMAIN index = {LocalKey(s, c) : s \in S} \ {OwnKey}
  /\ \A k \in DOMAIN index : Orders(index[k], ord, {s \in S : LocalKey(s, c) = k})

TailExact(tail, header, ord, c, S) ==
  \/ /\ tail \in S /\ IsOwnLine(tail, c)
     /\ \A s \in S : IsOwnLine(s, c) => ord[s] <= ord[tail]
  \/ /\ tail = header
     /\ \A s \in S : ~IsOwnLine(s, c)

Exact(v, ord, c, S) ==
  /\ v = [refs |-> v.refs, index |-> v.index, header |-> v.header, tail |-> v.tail]
  /\ Orders(v.refs, ord, S)
  /\ IndexExact(v.index, ord, c, S)
  /\ HeaderExact(v.header, c, S)
  /\ TailExact(v.tail, v.header, ord, c, S)

LEMMA NewViewExact ==
  ASSUME NEW ord, NEW c
  PROVE  Exact(NewView, ord, c, {})
<1>1. Orders(<<>>, ord, {})
  BY DEF Orders
<1>2. /\ NewView.refs = <<>> /\ NewView.header = NoSlot /\ NewView.tail = NoSlot
      /\ NewView.index = [k \in {} |-> <<>>]
      /\ NewView = [refs |-> NewView.refs, index |-> NewView.index,
                    header |-> NewView.header, tail |-> NewView.tail]
  BY DEF NewView
<1>3. IndexExact(NewView.index, ord, c, {})
  BY <1>2 DEF IndexExact, IsAFcn
<1>4. QED
  BY <1>1, <1>2, <1>3 DEF Exact, HeaderExact, TailExact

LEMMA KeyedSubset ==
  ASSUME NEW ord, NEW S, NEW T, T \subseteq S, Keyed(ord, S)
  PROVE  Keyed(ord, T)
BY DEF Keyed

LEMMA BelongSubset ==
  ASSUME NEW ord, NEW c, NEW S, NEW T, T \subseteq S, Belong(ord, c, S)
  PROVE  Belong(ord, c, T)
<1>1. ASSUME NEW h \in T, LocalKey(h, c) = OwnKey
      PROVE  HeadedBy(c, T, h)
  <2>1. HeadedBy(c, S, h)
    BY <1>1 DEF Belong
  <2>2. QED
    BY <2>1 DEF HeadedBy
<1>2. Keyed(ord, T) /\ NoSlot \notin T
  BY KeyedSubset DEF Belong
<1>3. QED
  BY <1>1, <1>2 DEF Belong

(* The bucket of a key, whether or not it has slots yet. *)
LEMMA BucketExact ==
  ASSUME NEW v, NEW ord, NEW c, NEW S, NEW k, k # OwnKey, IndexExact(v.index, ord, c, S)
  PROVE  Orders(Bucket(v, k), ord, {s \in S : LocalKey(s, c) = k})
<1>1. CASE k \in DOMAIN v.index
  BY <1>1 DEF Bucket, IndexExact
<1>2. CASE k \notin DOMAIN v.index
  <2>1. {s \in S : LocalKey(s, c) = k} = {}
    BY <1>2 DEF IndexExact
  <2>2. Bucket(v, k) = <<>>
    BY <1>2 DEF Bucket
  <2>3. Orders(<<>>, ord, {})
    BY DEF Orders
  <2>4. QED
    BY <2>1, <2>2, <2>3
<1>3. QED
  BY <1>1, <1>2

LEMMA ViewBucketExact ==
  ASSUME NEW v, NEW ord, NEW c, NEW S, NEW k, k # OwnKey, Exact(v, ord, c, S),
         NEW Q, Q = {s \in S : LocalKey(s, c) = k}
  PROVE  Orders(Bucket(v, k), ord, Q)
<1>1. IndexExact(v.index, ord, c, S)
  BY DEF Exact
<1>2. QED
  BY <1>1, BucketExact

(* Replacing one bucket when the slots of its key change. *)
LEMMA IndexStaysExact ==
  ASSUME NEW index, NEW ord, NEW c, NEW S, NEW T, NEW k, k # OwnKey, NEW bucket,
         IndexExact(index, ord, c, S),
         Orders(bucket, ord, {s \in T : LocalKey(s, c) = k}),
         \A s : LocalKey(s, c) # k => (s \in S <=> s \in T)
  PROVE  IndexExact(WithBucket(index, k, bucket), ord, c, T)
<1> DEFINE new    == WithBucket(index, k, bucket)
           Of(Q, j) == {s \in Q : LocalKey(s, c) = j}
<1>1. /\ IsAFcn(new)
      /\ DOMAIN new = IF bucket = <<>> THEN DOMAIN index \ {k} ELSE DOMAIN index \cup {k}
      /\ \A j \in DOMAIN index : j # k => new[j] = index[j]
      /\ bucket # <<>> => new[k] = bucket
  <2>1. CASE bucket = <<>>
    <3>1. new = [j \in DOMAIN index \ {k} |-> index[j]]
      BY <2>1 DEF WithBucket
    <3> HIDE DEF new
    <3>2. QED
      BY <2>1, <3>1 DEF IsAFcn
  <2>2. CASE bucket # <<>>
    <3>1. new = [j \in DOMAIN index \cup {k} |-> IF j = k THEN bucket ELSE index[j]]
      BY <2>2 DEF WithBucket, PutAt
    <3> HIDE DEF new
    <3>2. QED
      BY <2>2, <3>1 DEF IsAFcn
  <2>3. QED
    BY <2>1, <2>2
<1>2. /\ DOMAIN index = {LocalKey(s, c) : s \in S} \ {OwnKey}
      /\ \A j \in DOMAIN index : Orders(index[j], ord, Of(S, j))
  BY DEF IndexExact
<1>3. bucket = <<>> <=> Of(T, k) = {}
  BY DEF Orders
<1>4. \A j : j # k => Of(S, j) = Of(T, j)
  OBVIOUS
<1> HIDE DEF new
<1>5. DOMAIN new = {LocalKey(s, c) : s \in T} \ {OwnKey}
  <2>1. \A j : j # k => (j \in DOMAIN new <=> j \in {LocalKey(s, c) : s \in T} \ {OwnKey})
    <3>1. \A j : j # k => (j \in DOMAIN new <=> j \in DOMAIN index)
      BY <1>1
    <3>2. \A j : j # k => (j \in {LocalKey(s, c) : s \in S} <=> j \in {LocalKey(s, c) : s \in T})
      OBVIOUS
    <3>3. QED
      BY <1>2, <3>1, <3>2
  <2>2. k \in DOMAIN new <=> k \in {LocalKey(s, c) : s \in T} \ {OwnKey}
    BY <1>1, <1>3
  <2>3. QED
    BY <2>1, <2>2
<1>6. ASSUME NEW j \in DOMAIN new PROVE Orders(new[j], ord, Of(T, j))
  <2>1. CASE j = k
    <3>1. bucket # <<>>
      BY <1>1, <2>1
    <3>2. QED
      BY <1>1, <2>1, <3>1
  <2>2. CASE j # k
    <3>1. j \in DOMAIN index /\ new[j] = index[j]
      BY <1>1, <2>2
    <3>2. QED
      BY <1>2, <1>4, <2>2, <3>1
  <2>3. QED
    BY <2>1, <2>2
<1>7. QED
  BY <1>1, <1>5, <1>6 DEF IndexExact, new

(* Slots of c's own key are in no bucket. *)
LEMMA IndexIgnoresHeader ==
  ASSUME NEW index, NEW ord, NEW c, NEW S, NEW T, IndexExact(index, ord, c, S),
         \A s : LocalKey(s, c) # OwnKey => (s \in S <=> s \in T)
  PROVE  IndexExact(index, ord, c, T)
<1> DEFINE Of(Q, j) == {s \in Q : LocalKey(s, c) = j}
<1>1. /\ IsAFcn(index)
      /\ DOMAIN index = {LocalKey(s, c) : s \in S} \ {OwnKey}
      /\ \A j \in DOMAIN index : Orders(index[j], ord, Of(S, j))
  BY DEF IndexExact
<1>2. \A j : j # OwnKey => Of(S, j) = Of(T, j)
  OBVIOUS
<1>3. {LocalKey(s, c) : s \in S} \ {OwnKey} = {LocalKey(s, c) : s \in T} \ {OwnKey}
  OBVIOUS
<1>4. \A j \in DOMAIN index : Orders(index[j], ord, Of(T, j))
  BY <1>1, <1>2
<1>5. QED
  BY <1>1, <1>3, <1>4 DEF IndexExact

LEMMA RecordedParts ==
  ASSUME NEW v, NEW ord, NEW c, NEW s,
         v = [refs |-> v.refs, index |-> v.index, header |-> v.header, tail |-> v.tail]
  PROVE  LET k      == LocalKey(s, c)
             latest == IsLatest(v.refs, ord, s)
         IN  Recorded(v, ord, c, s) =
               [refs   |-> WithRef(v.refs, ord, s, latest),
                index  |-> IF k = OwnKey THEN v.index
                           ELSE WithBucket(v.index, k, WithRef(Bucket(v, k), ord, s, latest)),
                header |-> v.header,
                tail   |-> IF IsOwnLine(s, c) /\ (v.tail = NoSlot \/ ord[v.tail] < ord[s])
                             THEN s ELSE v.tail]
<1> DEFINE k      == LocalKey(s, c)
           latest == IsLatest(v.refs, ord, s)
           refs   == WithRef(v.refs, ord, s, latest)
           index  == IF k = OwnKey THEN v.index
                     ELSE WithBucket(v.index, k, WithRef(Bucket(v, k), ord, s, latest))
           tail   == IF IsOwnLine(s, c) /\ (v.tail = NoSlot \/ ord[v.tail] < ord[s])
                       THEN s ELSE v.tail
<1>1. Recorded(v, ord, c, s) = [v EXCEPT !.refs = refs, !.index = index, !.tail = tail]
  BY DEF Recorded
<1> HIDE DEF k, latest, refs, index, tail
<1>2. Recorded(v, ord, c, s) = [refs |-> refs, index |-> index, header |-> v.header, tail |-> tail]
  BY <1>1
<1>3. QED
  BY <1>2 DEF refs, index, tail, k, latest

(* The refs and the buckets, after record_slot. *)
LEMMA RecordedListsExact ==
  ASSUME NEW v, NEW ord, NEW c, NEW S, NEW s, s \notin S, Belong(ord, c, S \cup {s}),
         Exact(v, ord, c, S)
  PROVE  /\ Orders(Recorded(v, ord, c, s).refs, ord, S \cup {s})
         /\ IndexExact(Recorded(v, ord, c, s).index, ord, c, S \cup {s})
<1> DEFINE k      == LocalKey(s, c)
           latest == IsLatest(v.refs, ord, s)
           T      == S \cup {s}
           Of(Q)  == {t \in Q : LocalKey(t, c) = k}
           refs   == WithRef(v.refs, ord, s, latest)
           bucket == WithRef(Bucket(v, k), ord, s, latest)
<1>1. /\ Recorded(v, ord, c, s).refs = refs
      /\ Recorded(v, ord, c, s).index =
           IF k = OwnKey THEN v.index ELSE WithBucket(v.index, k, bucket)
  <2>1. v = [refs |-> v.refs, index |-> v.index, header |-> v.header, tail |-> v.tail]
    BY DEF Exact
  <2> HIDE DEF refs, bucket
  <2>2. Recorded(v, ord, c, s) =
          [refs   |-> refs,
           index  |-> IF k = OwnKey THEN v.index ELSE WithBucket(v.index, k, bucket),
           header |-> v.header,
           tail   |-> IF IsOwnLine(s, c) /\ (v.tail = NoSlot \/ ord[v.tail] < ord[s])
                        THEN s ELSE v.tail]
    BY <2>1, RecordedParts DEF refs, bucket
  <2>3. QED
    BY <2>2
<1>2. /\ Keyed(ord, T) /\ Keyed(ord, S) /\ ord[s] \in Int
      /\ Orders(v.refs, ord, S) /\ IndexExact(v.index, ord, c, S)
  BY DEF Belong, Exact, Keyed
<1>3. latest \in BOOLEAN /\ (latest => \A t \in S : ord[t] < ord[s])
  BY <1>2, LatestMeaning DEF IsLatest
<1> HIDE DEF latest
<1>4. Orders(refs, ord, T)
  BY <1>2, <1>3, RecordKeepsOrder
<1>5. CASE k = OwnKey
  <2>1. IndexExact(v.index, ord, c, T)
    <3>1. \A t : LocalKey(t, c) # OwnKey => (t \in S <=> t \in T)
      BY <1>5
    <3> HIDE DEF T
    <3>2. QED
      BY <1>2, <3>1, IndexIgnoresHeader
  <2>2. QED
    BY <1>1, <1>4, <1>5, <2>1
<1>6. CASE k # OwnKey
  <2> DEFINE Q == Of(S)
  <2>1. s \notin Q /\ Of(T) = Q \cup {s} /\ Keyed(ord, Q \cup {s})
        /\ (latest => \A t \in Q : ord[t] < ord[s])
    BY <1>2, <1>3 DEF Keyed
  <2>2. Orders(Bucket(v, k), ord, Q)
    BY <1>2, <1>6, BucketExact
  <2> HIDE DEF Q
  <2>3. Orders(bucket, ord, Q \cup {s})
    BY <1>3, <2>1, <2>2, RecordKeepsOrder
  <2>4. Orders(bucket, ord, {t \in T : LocalKey(t, c) = k})
    BY <2>1, <2>3
  <2>5. \A t : LocalKey(t, c) # k => (t \in S <=> t \in T)
    OBVIOUS
  <2> HIDE DEF T, bucket, k
  <2>6. IndexExact(WithBucket(v.index, k, bucket), ord, c, T)
    BY <1>2, <1>6, <2>4, <2>5, IndexStaysExact
  <2>7. QED
    BY <1>1, <1>4, <1>6, <2>6 DEF T
<1>7. QED
  BY <1>5, <1>6

(* record_slot, for a slot that is not c's own header: a line, a header    *)
(* below c, filed in any order.                                            *)
LEMMA RecordKeepsExact ==
  ASSUME NEW v, NEW ord, NEW c, NEW S, NEW s, s \notin S, Belong(ord, c, S \cup {s}),
         Exact(v, ord, c, S), LocalKey(s, c) # OwnKey, HeaderFirst(ord, c, S, s)
  PROVE  Exact(Recorded(v, ord, c, s), ord, c, S \cup {s})
<1> DEFINE new == Recorded(v, ord, c, s)
           T   == S \cup {s}
<1>1. /\ new = [refs |-> new.refs, index |-> new.index, header |-> new.header, tail |-> new.tail]
      /\ new.header = v.header
      /\ new.tail = IF IsOwnLine(s, c) /\ (v.tail = NoSlot \/ ord[v.tail] < ord[s])
                      THEN s ELSE v.tail
  <2>1. v = [refs |-> v.refs, index |-> v.index, header |-> v.header, tail |-> v.tail]
    BY DEF Exact
  <2> DEFINE refs  == WithRef(v.refs, ord, s, IsLatest(v.refs, ord, s))
             k     == LocalKey(s, c)
             index == IF k = OwnKey THEN v.index
                      ELSE WithBucket(v.index, k, WithRef(Bucket(v, k), ord, s, IsLatest(v.refs, ord, s)))
  <2>2. new = [refs |-> refs, index |-> index, header |-> v.header,
               tail |-> IF IsOwnLine(s, c) /\ (v.tail = NoSlot \/ ord[v.tail] < ord[s])
                          THEN s ELSE v.tail]
    BY <2>1, RecordedParts
  <2> HIDE DEF new, refs, index
  <2>3. QED
    BY <2>2
<1>2. Orders(new.refs, ord, T) /\ IndexExact(new.index, ord, c, T)
  BY RecordedListsExact
<1> HIDE DEF new
<1>3. HeaderExact(v.header, c, S) /\ TailExact(v.tail, v.header, ord, c, S)
  BY DEF Exact
<1>4. HeaderExact(new.header, c, T)
  BY <1>1, <1>3 DEF HeaderExact
<1>5. Keyed(ord, T) /\ NoSlot \notin T /\ \A h \in T : LocalKey(h, c) = OwnKey => HeadedBy(c, T, h)
  BY DEF Belong
<1>6. TailExact(new.tail, new.header, ord, c, T)
  <2>1. CASE ~IsOwnLine(s, c)
    BY <1>1, <1>3, <2>1 DEF TailExact
  <2>2. CASE IsOwnLine(s, c)
    <3>1. CASE /\ v.tail \in S /\ IsOwnLine(v.tail, c)
               /\ \A t \in S : IsOwnLine(t, c) => ord[t] <= ord[v.tail]
      <4>1. v.tail # NoSlot /\ ord[v.tail] \in Int /\ ord[s] \in Int /\ \A t \in S : ord[t] \in Int
        BY <1>5, <3>1 DEF Keyed
      <4>2. CASE ord[v.tail] < ord[s]
        <5>1. new.tail = s
          BY <1>1, <2>2, <4>2
        <5>2. \A t \in T : IsOwnLine(t, c) => ord[t] <= ord[s]
          BY <3>1, <4>1, <4>2
        <5>3. QED
          BY <2>2, <5>1, <5>2 DEF TailExact
      <4>3. CASE ~(ord[v.tail] < ord[s])
        <5>1. new.tail = v.tail
          BY <1>1, <4>1, <4>3
        <5>2. \A t \in T : IsOwnLine(t, c) => ord[t] <= ord[v.tail]
          BY <3>1, <4>1, <4>3
        <5>3. QED
          BY <3>1, <5>1, <5>2 DEF TailExact
      <4>4. QED
        BY <4>2, <4>3
    <3>2. CASE v.tail = v.header /\ \A t \in S : ~IsOwnLine(t, c)
      <4>1. v.tail = NoSlot \/ ord[v.tail] < ord[s]
        <5>1. CASE v.header \in S /\ LocalKey(v.header, c) = OwnKey
          BY <2>2, <3>2, <5>1 DEF HeaderFirst
        <5>2. QED
          BY <1>3, <3>2, <5>1 DEF HeaderExact
      <4>2. new.tail = s
        BY <1>1, <2>2, <4>1
      <4>3. \A t \in T : IsOwnLine(t, c) => ord[t] <= ord[s]
        BY <1>5, <3>2 DEF Keyed
      <4>4. QED
        BY <2>2, <4>2, <4>3 DEF TailExact
    <3>3. QED
      BY <1>3, <3>1, <3>2 DEF TailExact
  <2>3. QED
    BY <2>1, <2>2
<1>7. QED
  BY <1>1, <1>2, <1>4, <1>6 DEF Exact, new

(* file_own_header, on a container that has none yet. *)
LEMMA OwnHeaderKeepsExact ==
  ASSUME NEW v, NEW ord, NEW c, NEW S, NEW h, h \notin S, Belong(ord, c, S \cup {h}),
         Exact(v, ord, c, S), LocalKey(h, c) = OwnKey
  PROVE  Exact(OwnHeaderFiled(v, ord, c, h), ord, c, S \cup {h})
<1> DEFINE rec == Recorded(v, ord, c, h)
           new == OwnHeaderFiled(v, ord, c, h)
           T   == S \cup {h}
<1>1. HeadedBy(c, T, h) /\ NoSlot \notin T
  BY DEF Belong
<1>2. ~IsKV(h) /\ ~IsOwnLine(h, c) /\ \A t \in S : LocalKey(t, c) # OwnKey
  BY <1>1 DEF HeadedBy, IsOwnLine
<1>3. /\ rec = [refs |-> rec.refs, index |-> rec.index, header |-> rec.header, tail |-> rec.tail]
      /\ rec.header = v.header
      /\ rec.tail = v.tail
  <2>1. v = [refs |-> v.refs, index |-> v.index, header |-> v.header, tail |-> v.tail]
    BY DEF Exact
  <2> DEFINE refs  == WithRef(v.refs, ord, h, IsLatest(v.refs, ord, h))
             k     == LocalKey(h, c)
             index == IF k = OwnKey THEN v.index
                      ELSE WithBucket(v.index, k, WithRef(Bucket(v, k), ord, h, IsLatest(v.refs, ord, h)))
  <2>2. rec = [refs |-> refs, index |-> index, header |-> v.header,
               tail |-> IF IsOwnLine(h, c) /\ (v.tail = NoSlot \/ ord[v.tail] < ord[h])
                          THEN h ELSE v.tail]
    BY <2>1, RecordedParts
  <2> HIDE DEF rec, refs, index
  <2>3. QED
    BY <1>2, <2>2
<1>4. Orders(rec.refs, ord, T) /\ IndexExact(rec.index, ord, c, T)
  BY RecordedListsExact
<1>5. new = [rec EXCEPT !.header = h, !.tail = IF IsKV(@) THEN @ ELSE h]
  BY DEF OwnHeaderFiled
<1> HIDE DEF rec, new
<1>6. new = [refs |-> rec.refs, index |-> rec.index, header |-> h,
             tail |-> IF IsKV(v.tail) THEN v.tail ELSE h]
  BY <1>3, <1>5
<1>7. v.header = NoSlot /\ TailExact(v.tail, v.header, ord, c, S)
  BY <1>2 DEF Exact, HeaderExact
<1>8. TailExact(new.tail, h, ord, c, T)
  <2>1. CASE /\ v.tail \in S /\ IsOwnLine(v.tail, c)
             /\ \A t \in S : IsOwnLine(t, c) => ord[t] <= ord[v.tail]
    <3>1. new.tail = v.tail
      BY <1>6, <2>1 DEF IsOwnLine
    <3>2. QED
      BY <1>2, <2>1, <3>1 DEF TailExact
  <2>2. CASE v.tail = v.header /\ \A t \in S : ~IsOwnLine(t, c)
    <3>1. ~IsKV(v.tail)
      BY <1>7, <2>2 DEF NoSlot, IsKV
    <3>2. new.tail = h
      BY <1>6, <3>1
    <3>3. QED
      BY <1>2, <2>2, <3>2 DEF TailExact
  <2>3. QED
    BY <1>7, <2>1, <2>2 DEF TailExact
<1>9. HeaderExact(h, c, T)
  BY DEF HeaderExact
<1>10. QED
  BY <1>4, <1>6, <1>8, <1>9 DEF Exact, new

LEMMA UnfiledParts ==
  ASSUME NEW v, NEW ord, NEW c, NEW s,
         v = [refs |-> v.refs, index |-> v.index, header |-> v.header, tail |-> v.tail]
  PROVE  \E tail :
           LET k    == LocalKey(s, c)
               refs == UnfileOrdered(v.refs, ord, s)
               new  == [refs   |-> refs,
                        index  |-> IF k = OwnKey THEN v.index
                                   ELSE WithBucket(v.index, k, UnfileOrdered(Bucket(v, k), ord, s)),
                        header |-> IF k = OwnKey THEN NoSlot ELSE v.header,
                        tail   |-> v.tail]
           IN  /\ Unfiled(v, ord, c, s) = [new EXCEPT !.tail = tail]
               /\ tail = IF v.tail = s
                           THEN RecomputeBodyTail(new, c, OrderedIndex(refs, ord, ord[s]))
                           ELSE v.tail
<1> DEFINE k      == LocalKey(s, c)
           refs   == UnfileOrdered(v.refs, ord, s)
           index  == IF k = OwnKey THEN v.index
                     ELSE WithBucket(v.index, k, UnfileOrdered(Bucket(v, k), ord, s))
           header == IF k = OwnKey THEN NoSlot ELSE v.header
           new    == [refs |-> refs, index |-> index, header |-> header, tail |-> v.tail]
           kept   == [v EXCEPT !.refs = refs, !.header = header, !.index = index]
           tail   == IF v.tail = s
                       THEN RecomputeBodyTail(new, c, OrderedIndex(refs, ord, ord[s]))
                       ELSE v.tail
<1>1. Unfiled(v, ord, c, s) =
        IF v.tail = s
          THEN [kept EXCEPT !.tail = RecomputeBodyTail(kept, c, OrderedIndex(refs, ord, ord[s]))]
          ELSE kept
  BY DEF Unfiled
<1>2. kept = new
  <2> HIDE DEF refs, index, header
  <2>1. DOMAIN v = {"refs", "index", "header", "tail"} /\ DOMAIN new = DOMAIN v
    OBVIOUS
  <2>2. DOMAIN kept = DOMAIN v
    OBVIOUS
  <2>3. kept["refs"] = refs /\ kept["index"] = index /\ kept["header"] = header
        /\ kept["tail"] = v.tail
    BY <2>1
  <2>4. kept = [f \in DOMAIN v |-> kept[f]]
    OBVIOUS
  <2> HIDE DEF kept
  <2>5. kept = [f \in {"refs", "index", "header", "tail"} |-> kept[f]]
    BY <2>1, <2>4
  <2>6. QED
    BY <2>3, <2>5
<1>3. Unfiled(v, ord, c, s) =
        IF v.tail = s
          THEN [new EXCEPT !.tail = RecomputeBodyTail(new, c, OrderedIndex(refs, ord, ord[s]))]
          ELSE new
  BY <1>1, <1>2
<1>4. Unfiled(v, ord, c, s) = [new EXCEPT !.tail = tail]
  <2> HIDE DEF refs, index, header
  <2>1. CASE v.tail = s
    BY <1>3, <2>1
  <2>2. CASE v.tail # s
    BY <1>3, <2>2
  <2>3. QED
    BY <2>1, <2>2
<1>5. QED
  BY <1>4

(* _recompute_body_tail, when the lines of c among T lie in the first n of *)
(* refs, which list T.                                                     *)
LEMMA RecomputedTailExact ==
  ASSUME NEW v, NEW ord, NEW c, NEW T, Keyed(ord, T), Orders(v.refs, ord, T),
         NEW n \in 0..Len(v.refs),
         \A i \in (n + 1)..Len(v.refs) : ~IsOwnLine(v.refs[i], c)
  PROVE  TailExact(RecomputeBodyTail(v, c, n), v.header, ord, c, T)
<1> DEFINE refs == v.refs
           I    == {i \in 1..n : IsOwnLine(refs[i], c)}
           tail == RecomputeBodyTail(v, c, n)
<1>1. /\ Len(refs) \in Nat /\ n \in Nat
      /\ \A i \in 1..Len(refs) : refs[i] \in T /\ ord[refs[i]] \in Int
      /\ \A i, j \in 1..Len(refs) : i <= j <=> ord[refs[i]] <= ord[refs[j]]
      /\ \A t \in T : \E i \in 1..Len(refs) : refs[i] = t
  <2>1. \A t \in T : \E i \in 1..Len(refs) : refs[i] = t
    BY DEF Orders
  <2>2. QED
    BY <2>1, OrdersFacts
<1>2. tail = IF I = {} THEN v.header ELSE refs[Max(I)]
  BY DEF RecomputeBodyTail
<1> HIDE DEF tail, refs
<1>3. \A i \in 1..Len(refs) : IsOwnLine(refs[i], c) => i \in I
  <2>1. \A i \in 1..Len(refs) : i \in 1..n \/ i \in (n + 1)..Len(refs)
    BY <1>1
  <2>2. QED
    BY <2>1 DEF refs
<1>4. CASE I = {}
  <2>1. \A t \in T : ~IsOwnLine(t, c)
    BY <1>1, <1>3, <1>4
  <2>2. QED
    BY <1>2, <1>4, <2>1 DEF TailExact, tail
<1>5. CASE I # {}
  <2>1. Max(I) \in I /\ \A y \in I : Max(I) >= y
    <3>1. PICK r \in I : \A q \in I : q <= r
      <4>1. PICK i : i \in I
        BY <1>5
      <4>2. I \in SUBSET Nat /\ \A q \in I : q <= n
        BY <1>1
      <4>3. QED
        BY <1>1, <4>1, <4>2, GreatestElement
    <3>2. \A y \in I : r >= y
      BY <3>1
    <3>3. QED
      BY <3>1, <3>2 DEF Max
  <2>2. Max(I) \in 1..Len(refs) /\ tail = refs[Max(I)] /\ tail \in T /\ IsOwnLine(tail, c)
    <3>1. Max(I) \in 1..Len(refs)
      BY <1>1, <2>1 DEF refs
    <3>2. QED
      BY <1>1, <1>2, <1>5, <2>1, <3>1
  <2>3. ASSUME NEW t \in T, IsOwnLine(t, c) PROVE ord[t] <= ord[tail]
    <3>1. PICK i \in 1..Len(refs) : refs[i] = t
      BY <1>1
    <3>2. i \in I /\ i <= Max(I)
      BY <1>1, <1>3, <2>1, <2>2, <2>3, <3>1
    <3>3. QED
      BY <1>1, <2>2, <3>1, <3>2
  <2>4. QED
    BY <2>2, <2>3 DEF TailExact, tail
<1>6. QED
  BY <1>4, <1>5

(* unfile_slot: none of its assertions fails, and what is left is exact,   *)
(* whichever slot goes.                                                    *)
LEMMA UnfileKeepsExact ==
  ASSUME NEW v, NEW ord, NEW c, NEW S, NEW s \in S, Belong(ord, c, S), Exact(v, ord, c, S)
  PROVE  /\ UnfileSound(v, ord, c, s)
         /\ Exact(Unfiled(v, ord, c, s), ord, c, S \ {s})
<1> DEFINE T      == S \ {s}
           k      == LocalKey(s, c)
           refs   == UnfileOrdered(v.refs, ord, s)
           bucket == UnfileOrdered(Bucket(v, k), ord, s)
           index  == IF k = OwnKey THEN v.index ELSE WithBucket(v.index, k, bucket)
           header == IF k = OwnKey THEN NoSlot ELSE v.header
           before == [refs |-> refs, index |-> index, header |-> header, tail |-> v.tail]
<1>1. /\ v = [refs |-> v.refs, index |-> v.index, header |-> v.header, tail |-> v.tail]
      /\ Orders(v.refs, ord, S) /\ IndexExact(v.index, ord, c, S)
      /\ HeaderExact(v.header, c, S) /\ TailExact(v.tail, v.header, ord, c, S)
  BY DEF Exact
<1>2. /\ Keyed(ord, S) /\ NoSlot \notin S /\ Keyed(ord, T)
      /\ \A h \in S : LocalKey(h, c) = OwnKey => HeadedBy(c, S, h)
  BY DEF Belong, Keyed
<1>3. Place(v.refs, ord, s) # 0 /\ Orders(refs, ord, T)
  BY <1>1, <1>2, UnfileFinds
<1>4. k = OwnKey => v.header = s
  BY <1>1, <1>2 DEF HeaderExact, HeadedBy
<1>5. /\ k # OwnKey => Place(Bucket(v, k), ord, s) # 0
      /\ IndexExact(index, ord, c, T)
  <2>1. CASE k = OwnKey
    <3>1. \A t : LocalKey(t, c) # OwnKey => (t \in S <=> t \in T)
      BY <2>1
    <3> HIDE DEF T
    <3>2. IndexExact(v.index, ord, c, T)
      BY <1>1, <3>1, IndexIgnoresHeader
    <3>3. QED
      BY <2>1, <3>2
  <2>2. CASE k # OwnKey
    <3> DEFINE Q == {t \in S : LocalKey(t, c) = k}
    <3>1. s \in Q /\ Keyed(ord, Q) /\ {t \in T : LocalKey(t, c) = k} = Q \ {s}
      BY <1>2 DEF Keyed
    <3>2. Orders(Bucket(v, k), ord, Q)
      BY <1>1, <2>2, BucketExact
    <3> HIDE DEF Q
    <3>3. Place(Bucket(v, k), ord, s) # 0 /\ Orders(bucket, ord, Q \ {s})
      BY <3>1, <3>2, UnfileFinds
    <3>4. Orders(bucket, ord, {t \in T : LocalKey(t, c) = k})
      BY <3>1, <3>3
    <3>5. \A t : LocalKey(t, c) # k => (t \in S <=> t \in T)
      OBVIOUS
    <3> HIDE DEF T, bucket, k
    <3>6. IndexExact(WithBucket(v.index, k, bucket), ord, c, T)
      BY <1>1, <2>2, <3>4, <3>5, IndexStaysExact
    <3>7. QED
      BY <2>2, <3>3, <3>6
  <2>3. QED
    BY <2>1, <2>2
<1>6. UnfileSound(v, ord, c, s)
  BY <1>3, <1>4, <1>5 DEF UnfileSound
<1>7. PICK tail :
        /\ Unfiled(v, ord, c, s) = [before EXCEPT !.tail = tail]
        /\ tail = IF v.tail = s
                    THEN RecomputeBodyTail(before, c, OrderedIndex(refs, ord, ord[s]))
                    ELSE v.tail
  BY <1>1, UnfiledParts
<1>8. before.refs = refs /\ before.index = index /\ before.header = header
  OBVIOUS
<1> DEFINE new == Unfiled(v, ord, c, s)
<1>9. /\ new = [refs |-> new.refs, index |-> new.index, header |-> new.header, tail |-> new.tail]
      /\ new.refs = refs /\ new.index = index /\ new.header = header /\ new.tail = tail
  <2> HIDE DEF refs, index, header, new
  <2>1. new = [before EXCEPT !.tail = tail]
    BY <1>7 DEF new
  <2>2. new = [refs |-> refs, index |-> index, header |-> header, tail |-> tail]
    BY <2>1
  <2>3. QED
    BY <2>2
<1>10. HeaderExact(header, c, T)
  <2>1. CASE k = OwnKey
    BY <1>2, <2>1 DEF HeaderExact, HeadedBy
  <2>2. CASE k # OwnKey
    BY <1>1, <2>2 DEF HeaderExact
  <2>3. QED
    BY <2>1, <2>2
<1>11. TailExact(tail, header, ord, c, T)
  <2>1. CASE v.tail = s
    <3> DEFINE n == OrderedIndex(refs, ord, ord[s])
    <3>1. /\ n \in 0..Len(refs)
          /\ \A i \in (n + 1)..Len(refs) : ord[s] <= ord[refs[i]]
      <4>1. ord[s] \in Int
        BY <1>2 DEF Keyed
      <4>2. QED
        BY <1>2, <1>3, <4>1, IndexParts
    <3>2. /\ Len(refs) \in Nat
          /\ \A i \in 1..Len(refs) : refs[i] \in T
      BY <1>2, <1>3, OrdersFacts
    <3>3. ASSUME NEW t \in T, IsOwnLine(t, c) PROVE ord[t] < ord[s]
      <4>1. IsOwnLine(s, c) /\ ord[t] <= ord[s]
        BY <1>1, <2>1, <3>3 DEF TailExact
      <4>2. ord[t] # ord[s] /\ ord[t] \in Int /\ ord[s] \in Int
        BY <1>2 DEF Keyed
      <4>3. QED
        BY <4>1, <4>2
    <3>4. ASSUME NEW i \in (n + 1)..Len(refs) PROVE ~IsOwnLine(refs[i], c)
      <4>1. i \in 1..Len(refs) /\ refs[i] \in T /\ ord[s] <= ord[refs[i]]
        BY <3>1, <3>2
      <4>2. ord[refs[i]] \in Int /\ ord[s] \in Int
        BY <1>2, <4>1 DEF Keyed
      <4>3. QED
        BY <3>3, <4>1, <4>2
    <3> HIDE DEF n, refs, index, header, T
    <3>5. Orders(before.refs, ord, T) /\ n \in 0..Len(before.refs)
          /\ \A i \in (n + 1)..Len(before.refs) : ~IsOwnLine(before.refs[i], c)
      BY <1>3, <1>8, <3>1, <3>4
    <3> HIDE DEF before
    <3>6. TailExact(RecomputeBodyTail(before, c, n), before.header, ord, c, T)
      BY <1>2, <3>5, RecomputedTailExact
    <3>7. tail = RecomputeBodyTail(before, c, n)
      BY <1>7, <2>1 DEF n
    <3>8. QED
      BY <1>8, <3>6, <3>7
  <2>2. CASE v.tail # s
    <3>1. tail = v.tail
      BY <1>7, <2>2
    <3>2. CASE /\ v.tail \in S /\ IsOwnLine(v.tail, c)
               /\ \A t \in S : IsOwnLine(t, c) => ord[t] <= ord[v.tail]
      BY <2>2, <3>1, <3>2 DEF TailExact
    <3>3. CASE v.tail = v.header /\ \A t \in S : ~IsOwnLine(t, c)
      BY <1>4, <2>2, <3>1, <3>3 DEF TailExact
    <3>4. QED
      BY <1>1, <3>2, <3>3 DEF TailExact
  <2>3. QED
    BY <2>1, <2>2
<1> HIDE DEF new, refs, index, header, T
<1>12. Exact(new, ord, c, T)
  BY <1>3, <1>5, <1>9, <1>10, <1>11 DEF Exact
<1>13. QED
  BY <1>6, <1>12 DEF new, T

LEMMA ManyUnfiledParts ==
  ASSUME NEW v, NEW ord, NEW c, NEW removed,
         v = [refs |-> v.refs, index |-> v.index, header |-> v.header, tail |-> v.tail]
  PROVE  \E tail :
           LET k    == LocalKey(removed[1], c)
               refs == UnfileOrderedMany(v.refs, ord, removed)
               new  == [refs   |-> refs,
                        index  |-> WithBucket(v.index, k, UnfileOrderedMany(Bucket(v, k), ord, removed)),
                        header |-> v.header,
                        tail   |-> v.tail]
           IN  /\ ManyUnfiled(v, ord, c, removed) = [new EXCEPT !.tail = tail]
               /\ tail = IF v.tail \in Range(removed)
                           THEN RecomputeBodyTail(new, c, OrderedIndex(refs, ord, ord[v.tail]))
                           ELSE v.tail
<1> DEFINE k      == LocalKey(removed[1], c)
           refs   == UnfileOrderedMany(v.refs, ord, removed)
           index  == WithBucket(v.index, k, UnfileOrderedMany(Bucket(v, k), ord, removed))
           new    == [refs |-> refs, index |-> index, header |-> v.header, tail |-> v.tail]
           kept   == [v EXCEPT !.refs = refs, !.index = index]
           tail   == IF v.tail \in Range(removed)
                       THEN RecomputeBodyTail(new, c, OrderedIndex(refs, ord, ord[v.tail]))
                       ELSE v.tail
<1>1. ManyUnfiled(v, ord, c, removed) =
        IF v.tail \in Range(removed)
          THEN [kept EXCEPT !.tail = RecomputeBodyTail(kept, c, OrderedIndex(kept.refs, ord, ord[v.tail]))]
          ELSE kept
  BY DEF ManyUnfiled
<1>2. kept = new
  <2> HIDE DEF refs, index
  <2>1. DOMAIN v = {"refs", "index", "header", "tail"} /\ DOMAIN new = DOMAIN v
    OBVIOUS
  <2>2. DOMAIN kept = DOMAIN v
    OBVIOUS
  <2>3. kept["refs"] = refs /\ kept["index"] = index /\ kept["header"] = v.header
        /\ kept["tail"] = v.tail
    BY <2>1
  <2>4. kept = [f \in DOMAIN v |-> kept[f]]
    OBVIOUS
  <2> HIDE DEF kept
  <2>5. kept = [f \in {"refs", "index", "header", "tail"} |-> kept[f]]
    BY <2>1, <2>4
  <2>6. QED
    BY <2>3, <2>5
<1>3. ManyUnfiled(v, ord, c, removed) =
        IF v.tail \in Range(removed)
          THEN [new EXCEPT !.tail = RecomputeBodyTail(new, c, OrderedIndex(refs, ord, ord[v.tail]))]
          ELSE new
  <2>1. kept.refs = refs
    BY <1>2
  <2> HIDE DEF kept, new, refs
  <2>2. QED
    BY <1>1, <1>2, <2>1
<1>4. ManyUnfiled(v, ord, c, removed) = [new EXCEPT !.tail = tail]
  <2> HIDE DEF refs, index
  <2>1. CASE v.tail \in Range(removed)
    BY <1>3, <2>1
  <2>2. CASE v.tail \notin Range(removed)
    BY <1>3, <2>2
  <2>3. QED
    BY <2>1, <2>2
<1>5. QED
  BY <1>4

(* The bulk removal of one container's share: it finds every slot, in the  *)
(* refs and in the one bucket they are of, and what is left is exact.      *)
LEMMA ManyUnfileKeepsExact ==
  ASSUME NEW v, NEW ord, NEW c, NEW S, Belong(ord, c, S), Exact(v, ord, c, S),
         NEW R \in SUBSET S, NEW removed, Orders(removed, ord, R), removed # <<>>,
         NEW k, k # OwnKey, \A s \in R : LocalKey(s, c) = k
  PROVE  /\ ManySound(v, ord, c, removed)
         /\ Exact(ManyUnfiled(v, ord, c, removed), ord, c, S \ R)
<1> DEFINE T      == S \ R
           refs   == UnfileOrderedMany(v.refs, ord, removed)
           bucket == UnfileOrderedMany(Bucket(v, k), ord, removed)
           index  == WithBucket(v.index, k, bucket)
           before == [refs |-> refs, index |-> index, header |-> v.header, tail |-> v.tail]
<1>1. /\ v = [refs |-> v.refs, index |-> v.index, header |-> v.header, tail |-> v.tail]
      /\ Orders(v.refs, ord, S) /\ IndexExact(v.index, ord, c, S)
      /\ HeaderExact(v.header, c, S) /\ TailExact(v.tail, v.header, ord, c, S)
  BY DEF Exact
<1>2. /\ Keyed(ord, S) /\ NoSlot \notin S /\ Keyed(ord, T)
      /\ \A h \in S : LocalKey(h, c) = OwnKey => HeadedBy(c, S, h)
  BY DEF Belong, Keyed
<1>3. FoundMany(v.refs, ord, removed) /\ Orders(refs, ord, T)
  BY <1>1, <1>2, ManyFound
<1>4. LocalKey(removed[1], c) = k /\ Range(removed) = R
  <2>1. removed \in Seq(R) /\ \A s \in R : \E i \in 1..Len(removed) : removed[i] = s
    BY DEF Orders
  <2>2. 1 \in 1..Len(removed) /\ \A i \in 1..Len(removed) : removed[i] \in R
    BY <2>1
  <2>3. DOMAIN removed = 1..Len(removed)
    BY <2>1
  <2>4. Range(removed) = R
    BY <2>1, <2>2, <2>3 DEF Range
  <2>5. QED
    BY <2>2, <2>4
<1>5. FoundMany(Bucket(v, k), ord, removed) /\ IndexExact(index, ord, c, T)
  <2> DEFINE Q == {t \in S : LocalKey(t, c) = k}
  <2>1. R \in SUBSET Q /\ Keyed(ord, Q) /\ {t \in T : LocalKey(t, c) = k} = Q \ R
    BY <1>2 DEF Keyed
  <2>1a. Q = {t \in S : LocalKey(t, c) = k}
    OBVIOUS
  <2> HIDE DEF Q
  <2>2. Orders(Bucket(v, k), ord, Q)
    BY <2>1a, ViewBucketExact
  <2>3. FoundMany(Bucket(v, k), ord, removed) /\ Orders(bucket, ord, Q \ R)
    BY <2>1, <2>2, ManyFound
  <2>4. Orders(bucket, ord, {t \in T : LocalKey(t, c) = k})
    BY <2>1, <2>3
  <2>5. \A t : LocalKey(t, c) # k => (t \in S <=> t \in T)
    OBVIOUS
  <2> HIDE DEF T, bucket
  <2>6. IndexExact(WithBucket(v.index, k, bucket), ord, c, T)
    BY <1>1, <2>4, <2>5, IndexStaysExact
  <2>7. QED
    BY <2>3, <2>6
<1>6. ManySound(v, ord, c, removed)
  BY <1>3, <1>4, <1>5 DEF ManySound
<1>7. PICK tail :
        /\ ManyUnfiled(v, ord, c, removed) = [before EXCEPT !.tail = tail]
        /\ tail = IF v.tail \in R
                    THEN RecomputeBodyTail(before, c, OrderedIndex(refs, ord, ord[v.tail]))
                    ELSE v.tail
  BY <1>1, <1>4, ManyUnfiledParts
<1>8. before.refs = refs /\ before.index = index /\ before.header = v.header
  OBVIOUS
<1> DEFINE new == ManyUnfiled(v, ord, c, removed)
<1>9. /\ new = [refs |-> new.refs, index |-> new.index, header |-> new.header, tail |-> new.tail]
      /\ new.refs = refs /\ new.index = index /\ new.header = v.header /\ new.tail = tail
  <2> HIDE DEF refs, index, new
  <2>1. new = [before EXCEPT !.tail = tail]
    BY <1>7 DEF new
  <2>2. new = [refs |-> refs, index |-> index, header |-> v.header, tail |-> tail]
    BY <2>1
  <2>3. QED
    BY <2>2
<1>10. HeaderExact(v.header, c, T)
  BY <1>1 DEF HeaderExact
<1>11. TailExact(tail, v.header, ord, c, T)
  <2>1. CASE v.tail \in R
    <3> DEFINE s == v.tail
               n == OrderedIndex(refs, ord, ord[s])
    <3>0. /\ s \in S /\ s \notin T
          /\ IsOwnLine(s, c) /\ \A t \in S : IsOwnLine(t, c) => ord[t] <= ord[s]
      <4>1. s \in S /\ s \notin T /\ LocalKey(s, c) # OwnKey /\ s # NoSlot
        BY <1>2, <2>1
      <4>2. s # v.header
        BY <1>1, <4>1 DEF HeaderExact
      <4>3. QED
        BY <1>1, <4>1, <4>2 DEF TailExact
    <3> HIDE DEF s
    <3>1. /\ n \in 0..Len(refs)
          /\ \A i \in (n + 1)..Len(refs) : ord[s] <= ord[refs[i]]
      <4>1. ord[s] \in Int
        BY <1>2, <3>0 DEF Keyed
      <4>2. QED
        BY <1>2, <1>3, <4>1, IndexParts
    <3>2. /\ Len(refs) \in Nat
          /\ \A i \in 1..Len(refs) : refs[i] \in T
      BY <1>2, <1>3, OrdersFacts
    <3>3. ASSUME NEW t \in T, IsOwnLine(t, c) PROVE ord[t] < ord[s]
      <4>1. IsOwnLine(s, c) /\ ord[t] <= ord[s] /\ t # s
        BY <3>0, <3>3
      <4>2. ord[t] # ord[s] /\ ord[t] \in Int /\ ord[s] \in Int
        BY <1>2, <3>0, <4>1 DEF Keyed
      <4>3. QED
        BY <4>1, <4>2
    <3>4. ASSUME NEW i \in (n + 1)..Len(refs) PROVE ~IsOwnLine(refs[i], c)
      <4>1. i \in 1..Len(refs) /\ refs[i] \in T /\ ord[s] <= ord[refs[i]]
        BY <3>1, <3>2
      <4>2. ord[refs[i]] \in Int /\ ord[s] \in Int
        BY <1>2, <3>0, <4>1 DEF Keyed
      <4>3. QED
        BY <3>3, <4>1, <4>2
    <3> HIDE DEF n, refs, index, T
    <3>5. Orders(before.refs, ord, T) /\ n \in 0..Len(before.refs)
          /\ \A i \in (n + 1)..Len(before.refs) : ~IsOwnLine(before.refs[i], c)
      BY <1>3, <1>8, <3>1, <3>4
    <3> HIDE DEF before
    <3>6. TailExact(RecomputeBodyTail(before, c, n), before.header, ord, c, T)
      BY <1>2, <3>5, RecomputedTailExact
    <3>7. tail = RecomputeBodyTail(before, c, n)
      BY <1>7, <2>1 DEF n, s
    <3>8. QED
      BY <1>8, <3>6, <3>7
  <2>2. CASE v.tail \notin R
    <3>1. tail = v.tail
      BY <1>7, <2>2
    <3>2. CASE /\ v.tail \in S /\ IsOwnLine(v.tail, c)
               /\ \A t \in S : IsOwnLine(t, c) => ord[t] <= ord[v.tail]
      BY <2>2, <3>1, <3>2 DEF TailExact
    <3>3. CASE v.tail = v.header /\ \A t \in S : ~IsOwnLine(t, c)
      BY <2>2, <3>1, <3>3 DEF TailExact
    <3>4. QED
      BY <1>1, <3>2, <3>3 DEF TailExact
  <2>3. QED
    BY <2>1, <2>2
<1> HIDE DEF new, refs, index, T
<1>12. Exact(new, ord, c, T)
  BY <1>3, <1>5, <1>9, <1>10, <1>11 DEF Exact
<1>13. QED
  BY <1>6, <1>12 DEF new, T

-----------------------------------------------------------------------------
(* All views, and the slots' back-pointers.                                *)

(* The slots that point back to a container are the ones its projections   *)
(* are exact for.                                                          *)
Consistent(F, ord) ==
  /\ F = [view |-> F.view, backs |-> F.backs, sound |-> F.sound]
  /\ IsAFcn(F.view) /\ IsAFcn(F.backs)
  /\ \A s \in DOMAIN F.backs : F.backs[s] \subseteq DOMAIN F.view
  /\ \A c \in DOMAIN F.view : /\ Belong(ord, c, Listing(F, c))
                              /\ Exact(F.view[c], ord, c, Listing(F, c))

(* The slot is new, and its containers can take it: `own` is the one it is *)
(* the header of, and a header among their refs comes before a body line.  *)
Fileable(F, ord, chain, own, s) ==
  /\ s \notin DOMAIN F.backs
  /\ \A c \in chain \cup own : /\ Belong(ord, c, Listing(F, c) \cup {s})
                               /\ HeaderFirst(ord, c, Listing(F, c), s)
  /\ \A c \in chain \cup own : LocalKey(s, c) = OwnKey <=> c \in own

(* What filing s on the containers C makes of F, their views apart. *)
FilesOn(G, F, C, s) ==
  /\ G.sound = F.sound
  /\ G.backs = PutAt(F.backs, s, C)
  /\ DOMAIN G.view = DOMAIN F.view \cup C

(* A new slot is filed on the containers `chain` above it and, if it is    *)
(* their header, on `own`: every projection of every container stays       *)
(* exact, of the ones that had no slot before too, wherever in the stream  *)
(* the slot was linked.                                                    *)
THEOREM FileKeepsViewsExact ==
  ASSUME NEW F, NEW ord, NEW chain, NEW own, NEW s,
         Consistent(F, ord), Fileable(F, ord, chain, own, s)
  PROVE  /\ Consistent(File(F, ord, chain, own, s), ord)
         /\ FilesOn(File(F, ord, chain, own, s), F, chain \cup own, s)
<1> DEFINE C     == chain \cup own
           patch == [c \in C |-> IF c \in own THEN OwnHeaderFiled(View(F, c), ord, c, s)
                                              ELSE Recorded(View(F, c), ord, c, s)]
           view  == Overlaid(F.view, patch)
           backs == PutAt(F.backs, s, C)
           new   == File(F, ord, chain, own, s)
<1>0. /\ s \notin DOMAIN F.backs
      /\ \A c \in C : /\ Belong(ord, c, Listing(F, c) \cup {s})
                      /\ HeaderFirst(ord, c, Listing(F, c), s)
      /\ \A c \in C : LocalKey(s, c) = OwnKey <=> c \in own
  BY DEF Fileable
<1> USE <1>0
<1>1. /\ F = [view |-> F.view, backs |-> F.backs, sound |-> F.sound]
      /\ IsAFcn(F.view) /\ IsAFcn(F.backs)
      /\ \A t \in DOMAIN F.backs : F.backs[t] \subseteq DOMAIN F.view
      /\ \A c \in DOMAIN F.view : Belong(ord, c, Listing(F, c)) /\ Exact(F.view[c], ord, c, Listing(F, c))
  BY DEF Consistent
<1>2. new = [view |-> view, backs |-> backs, sound |-> F.sound]
  <2>1. new = [F EXCEPT !.view = view, !.backs = backs]
    BY DEF File
  <2> HIDE DEF view, backs, new
  <2>2. QED
    BY <1>1, <2>1
<1>3. /\ IsAFcn(view) /\ DOMAIN view = DOMAIN F.view \cup C
      /\ \A c \in C : view[c] = patch[c]
      /\ \A c \in DOMAIN F.view : c \notin C => view[c] = F.view[c]
  <2> HIDE DEF view
  <2>1. DOMAIN patch = C
    OBVIOUS
  <2> HIDE DEF patch
  <2>2. /\ IsAFcn(view) /\ DOMAIN view = DOMAIN F.view \cup DOMAIN patch
        /\ \A x \in DOMAIN patch : view[x] = patch[x]
        /\ \A x \in DOMAIN F.view : x \notin DOMAIN patch => view[x] = F.view[x]
    BY DEF view, Overlaid, IsAFcn
  <2>3. QED
    BY <2>1, <2>2
<1>4. /\ IsAFcn(backs) /\ DOMAIN backs = DOMAIN F.backs \cup {s} /\ backs[s] = C
      /\ \A t \in DOMAIN F.backs : t # s => backs[t] = F.backs[t]
  <2> HIDE DEF C
  <2>1. QED
    BY DEF PutAt, IsAFcn
<1>5. ASSUME NEW c \in C
      PROVE  /\ Belong(ord, c, Listing(F, c) \cup {s})
             /\ Exact(patch[c], ord, c, Listing(F, c) \cup {s})
  <2> DEFINE S == Listing(F, c)
             v == View(F, c)
  <2>1. s \notin S
    BY DEF Listing
  <2>2. Exact(v, ord, c, S)
    <3>1. CASE c \in DOMAIN F.view
      BY <1>1, <3>1 DEF View
    <3>2. CASE c \notin DOMAIN F.view
      <4>1. S = {}
        BY <1>1, <3>2 DEF Listing
      <4>2. v = NewView
        BY <3>2 DEF View
      <4>3. QED
        BY <4>1, <4>2, NewViewExact
    <3>3. QED
      BY <3>1, <3>2
  <2>3. Belong(ord, c, S \cup {s}) /\ HeaderFirst(ord, c, S, s)
    BY <1>5
  <2> HIDE DEF S, v
  <2>4. CASE c \in own
    <3>1. patch[c] = OwnHeaderFiled(v, ord, c, s) /\ LocalKey(s, c) = OwnKey
      BY <1>5, <2>4 DEF v
    <3> HIDE DEF patch
    <3>2. Exact(patch[c], ord, c, S \cup {s})
      BY <2>1, <2>2, <2>3, <3>1, OwnHeaderKeepsExact
    <3>3. QED
      BY <2>3, <3>2 DEF S
  <2>5. CASE c \notin own
    <3>1. patch[c] = Recorded(v, ord, c, s) /\ LocalKey(s, c) # OwnKey
      BY <1>5, <2>5 DEF v
    <3> HIDE DEF patch
    <3>2. Exact(patch[c], ord, c, S \cup {s})
      BY <2>1, <2>2, <2>3, <3>1, RecordKeepsExact
    <3>3. QED
      BY <2>3, <3>2 DEF S
  <2>6. QED
    BY <2>4, <2>5
<1> HIDE DEF patch, view, backs, new
<1>6. /\ new = [view |-> new.view, backs |-> new.backs, sound |-> new.sound]
      /\ new.view = view /\ new.backs = backs /\ new.sound = F.sound
  BY <1>2
<1>7. /\ \A c \in C : Listing(new, c) = Listing(F, c) \cup {s}
      /\ \A c : c \notin C => Listing(new, c) = Listing(F, c)
  <2>1. \A c, t : t \in Listing(new, c) <=> (t \in DOMAIN backs /\ c \in backs[t])
    BY <1>6 DEF Listing
  <2>2. \A c, t : t \in Listing(F, c) <=> (t \in DOMAIN F.backs /\ c \in F.backs[t])
    BY DEF Listing
  <2> HIDE DEF C
  <2>3. ASSUME NEW c, NEW t
        PROVE  t \in Listing(new, c) <=> (t \in Listing(F, c) \/ (t = s /\ c \in C))
    BY <1>4, <2>1, <2>2
  <2>4. QED
    BY <2>3
<1>8. \A t \in DOMAIN backs : backs[t] \subseteq DOMAIN view
  BY <1>1, <1>3, <1>4
<1>9. ASSUME NEW c \in DOMAIN view
      PROVE  Belong(ord, c, Listing(new, c)) /\ Exact(view[c], ord, c, Listing(new, c))
  <2>1. CASE c \in C
    BY <1>3, <1>5, <1>7, <2>1
  <2>2. CASE c \notin C
    BY <1>1, <1>3, <1>7, <2>2
  <2>3. QED
    BY <2>1, <2>2
<1>10. Consistent(new, ord)
  BY <1>3, <1>4, <1>6, <1>8, <1>9 DEF Consistent
<1>11. QED
  BY <1>3, <1>6, <1>10 DEF new, backs, C, FilesOn

(* Each container that one slot, or several of one binding, are to leave.  *)
Separable(F, owned, R, skip) ==
  \/ Len(owned) = 1
  \/ \A c \in (UNION {F.backs[s] : s \in R}) \ skip :
       \E k : k # OwnKey /\ \A s \in R : c \in F.backs[s] => LocalKey(s, c) = k

(* What scrubbing the slots R everywhere but on the views `skip` makes of  *)
(* F, what the other views hold apart.                                     *)
ScrubsOf(G, F, R, skip) ==
  /\ G.sound = F.sound
  /\ DOMAIN G.view = DOMAIN F.view
  /\ DOMAIN G.backs = DOMAIN F.backs
  /\ \A t \in DOMAIN F.backs : G.backs[t] = IF t \in R THEN F.backs[t] \cap skip ELSE F.backs[t]

(* _scrub_owned_slots_via_backptrs: found in every projection they are to  *)
(* leave, by the back-pointers alone, the slots go; every projection of    *)
(* every container stays exact, of the departing ones (`skip`) too, which  *)
(* keep them.                                                              *)
THEOREM ScrubKeepsViewsExact ==
  ASSUME NEW F, NEW ord, NEW skip, Consistent(F, ord),
         NEW R \in SUBSET DOMAIN F.backs, NEW owned, Orders(owned, ord, R),
         Separable(F, owned, R, skip)
  PROVE  /\ Consistent(Scrub(F, ord, owned, skip), ord)
         /\ ScrubsOf(Scrub(F, ord, owned, skip), F, R, skip)
<1> DEFINE A     == (UNION {F.backs[s] : s \in R}) \ skip
           listed(c) == Keeping(owned, Listing(F, c))
           single == Len(owned) = 1
           share(c) == IF single THEN Unfiled(F.view[c], ord, c, owned[1])
                                 ELSE ManyUnfiled(F.view[c], ord, c, listed(c))
           patch == [c \in A |-> share(c)]
           cut   == [t \in R |-> F.backs[t] \cap skip]
           view  == Overlaid(F.view, patch)
           backs == Overlaid(F.backs, cut)
           new   == Scrub(F, ord, owned, skip)
           sound == \A c \in A : IF single THEN UnfileSound(F.view[c], ord, c, owned[1])
                                           ELSE ManySound(F.view[c], ord, c, listed(c))
<1>1. /\ F = [view |-> F.view, backs |-> F.backs, sound |-> F.sound]
      /\ IsAFcn(F.view) /\ IsAFcn(F.backs)
      /\ \A t \in DOMAIN F.backs : F.backs[t] \subseteq DOMAIN F.view
      /\ \A c \in DOMAIN F.view : Belong(ord, c, Listing(F, c)) /\ Exact(F.view[c], ord, c, Listing(F, c))
  BY DEF Consistent
<1>1a. /\ owned \in Seq(R) /\ Range(owned) = R
  <2>1. owned \in Seq(R) /\ \A s \in R : \E i \in 1..Len(owned) : owned[i] = s
    BY DEF Orders
  <2>2. DOMAIN owned = 1..Len(owned) /\ \A i \in 1..Len(owned) : owned[i] \in R
    BY <2>1
  <2>3. QED
    BY <2>1, <2>2 DEF Range
<1>2. ASSUME NEW c \in A
      PROVE  /\ c \in DOMAIN F.view
             /\ IF single THEN UnfileSound(F.view[c], ord, c, owned[1])
                          ELSE ManySound(F.view[c], ord, c, listed(c))
             /\ Belong(ord, c, Listing(F, c) \ R)
             /\ Exact(share(c), ord, c, Listing(F, c) \ R)
  <2> DEFINE S == Listing(F, c)
             v == F.view[c]
             Q == R \cap S
  <2>1. PICK s0 \in R : c \in F.backs[s0]
    OBVIOUS
  <2>2. c \in DOMAIN F.view /\ s0 \in Q
    BY <1>1, <2>1 DEF Listing
  <2>3. Belong(ord, c, S) /\ Exact(v, ord, c, S)
    BY <1>1, <2>2
  <2>4. S \ R \subseteq S /\ S \ R = S \ Q /\ Q \in SUBSET S
    OBVIOUS
  <2>4a. \A s \in Q : s \in R /\ c \in F.backs[s]
    BY DEF Listing
  <2>5. Belong(ord, c, S \ R)
    <3> HIDE DEF S
    <3>1. QED
      BY <2>3, <2>4, BelongSubset
  <2>6. CASE single
    <3>1. owned[1] = s0 /\ Q = {s0}
      <4>1. \A i \in 1..Len(owned) : i = 1
        BY <2>6
      <4>2. \A s \in R : s = owned[1]
        BY <4>1 DEF Orders
      <4>3. QED
        BY <2>2, <4>2
    <3> HIDE DEF S, v, Q
    <3>2. UnfileSound(v, ord, c, s0) /\ Exact(Unfiled(v, ord, c, s0), ord, c, S \ {s0})
      <4>1. s0 \in S
        BY <2>2, <2>4
      <4>2. QED
        BY <2>3, <4>1, UnfileKeepsExact
    <3>3. share(c) = Unfiled(v, ord, c, s0)
      BY <2>6, <3>1 DEF v
    <3> HIDE DEF share
    <3>4. Exact(share(c), ord, c, S \ R)
      BY <2>4, <3>1, <3>2, <3>3
    <3>5. UnfileSound(F.view[c], ord, c, owned[1])
      BY <3>1, <3>2 DEF v
    <3>6. QED
      BY <2>2, <2>5, <2>6, <3>4, <3>5 DEF S
  <2>7. CASE ~single
    <3>1. PICK k : k # OwnKey /\ \A s \in R : c \in F.backs[s] => LocalKey(s, c) = k
      BY <2>7 DEF Separable
    <3>2. \A s \in Q : LocalKey(s, c) = k
      BY <2>4a, <3>1
    <3> DEFINE removed == listed(c)
    <3>3. Orders(removed, ord, Q)
      BY KeepingOrders
    <3> HIDE DEF S, v, Q, removed
    <3>4. removed # <<>>
      <4>1. PICK i \in 1..Len(removed) : removed[i] = s0
        BY <2>2, <3>3 DEF Orders
      <4>2. ~(i \in 1..0)
        OBVIOUS
      <4>3. QED
        BY <4>1, <4>2
    <3>5. ManySound(v, ord, c, removed) /\ Exact(ManyUnfiled(v, ord, c, removed), ord, c, S \ Q)
      BY <2>3, <2>4, <3>1, <3>2, <3>3, <3>4, ManyUnfileKeepsExact
    <3>6. share(c) = ManyUnfiled(v, ord, c, removed)
      BY <2>7 DEF v, removed
    <3> HIDE DEF share
    <3>7. Exact(share(c), ord, c, S \ R)
      BY <2>4, <3>5, <3>6
    <3>8. ManySound(F.view[c], ord, c, listed(c))
      BY <3>5 DEF v, removed
    <3>9. QED
      BY <2>2, <2>5, <2>7, <3>7, <3>8 DEF S
  <2>8. QED
    BY <2>6, <2>7
<1>3. new = [view |-> view, backs |-> backs, sound |-> F.sound]
  <2>1. sound
    BY <1>2
  <2>2. new = IF ~sound THEN [F EXCEPT !.sound = FALSE]
              ELSE [F EXCEPT !.view = Overlaid(F.view, patch), !.backs = Overlaid(F.backs, cut)]
    <3> HIDE DEF listed
    <3>1. QED
      BY <1>1a DEF Scrub, listed
  <2> HIDE DEF sound, new, patch, cut
  <2>5. new = [F EXCEPT !.view = view, !.backs = backs]
    BY <2>1, <2>2
  <2> HIDE DEF view, backs
  <2>6. QED
    BY <1>1, <2>5
<1> HIDE DEF sound
<1>4. /\ IsAFcn(view) /\ DOMAIN view = DOMAIN F.view
      /\ \A c \in A : view[c] = share(c)
      /\ \A c \in DOMAIN F.view : c \notin A => view[c] = F.view[c]
  <2> HIDE DEF view
  <2>0. A \subseteq DOMAIN F.view
    BY <1>2
  <2>1. DOMAIN patch = A /\ \A c \in A : patch[c] = share(c)
    <3> HIDE DEF share, A
    <3>1. QED
      OBVIOUS
  <2> HIDE DEF patch, share, A
  <2>2. /\ IsAFcn(view) /\ DOMAIN view = DOMAIN F.view \cup DOMAIN patch
        /\ \A x \in DOMAIN patch : view[x] = patch[x]
        /\ \A x \in DOMAIN F.view : x \notin DOMAIN patch => view[x] = F.view[x]
    BY DEF view, Overlaid, IsAFcn
  <2>3. QED
    BY <2>0, <2>1, <2>2
<1>5. /\ IsAFcn(backs) /\ DOMAIN backs = DOMAIN F.backs
      /\ \A t \in R : backs[t] = F.backs[t] \cap skip
      /\ \A t \in DOMAIN F.backs : t \notin R => backs[t] = F.backs[t]
  <2> HIDE DEF backs
  <2>1. DOMAIN cut = R /\ \A t \in R : cut[t] = F.backs[t] \cap skip
    OBVIOUS
  <2> HIDE DEF cut
  <2>2. /\ IsAFcn(backs) /\ DOMAIN backs = DOMAIN F.backs \cup DOMAIN cut
        /\ \A x \in DOMAIN cut : backs[x] = cut[x]
        /\ \A x \in DOMAIN F.backs : x \notin DOMAIN cut => backs[x] = F.backs[x]
    BY DEF backs, Overlaid, IsAFcn
  <2>3. QED
    BY <2>1, <2>2
<1> HIDE DEF patch, cut, view, backs, new, share
<1>6. /\ new = [view |-> new.view, backs |-> new.backs, sound |-> new.sound]
      /\ new.view = view /\ new.backs = backs /\ new.sound = F.sound
  BY <1>3
<1>7. /\ \A c \in A : Listing(new, c) = Listing(F, c) \ R
      /\ \A c : c \notin A => Listing(new, c) = Listing(F, c)
  <2>1. \A c, t : t \in Listing(new, c) <=> (t \in DOMAIN backs /\ c \in backs[t])
    BY <1>6 DEF Listing
  <2>2. \A c, t : t \in Listing(F, c) <=> (t \in DOMAIN F.backs /\ c \in F.backs[t])
    BY DEF Listing
  <2>3. \A c, t : t \in R /\ c \in F.backs[t] /\ c \notin skip => c \in A
    OBVIOUS
  <2>3a. \A c : c \in A => c \notin skip
    OBVIOUS
  <2> HIDE DEF A
  <2>4. ASSUME NEW c \in A PROVE Listing(new, c) = Listing(F, c) \ R
    <3>1. ASSUME NEW t PROVE t \in Listing(new, c) <=> t \in Listing(F, c) \ R
      <4>1. CASE t \in R
        BY <1>5, <2>1, <2>3a, <4>1
      <4>2. CASE t \notin R
        BY <1>5, <2>1, <2>2, <4>2
      <4>3. QED
        BY <4>1, <4>2
    <3>2. QED
      BY <3>1
  <2>5. ASSUME NEW c, c \notin A PROVE Listing(new, c) = Listing(F, c)
    <3>1. ASSUME NEW t PROVE t \in Listing(new, c) <=> t \in Listing(F, c)
      <4>1. CASE t \in R
        BY <1>5, <2>1, <2>2, <2>3, <2>5, <4>1
      <4>2. CASE t \notin R
        BY <1>5, <2>1, <2>2, <4>2
      <4>3. QED
        BY <4>1, <4>2
    <3>2. (\A t : t \in Listing(new, c) <=> t \in Listing(F, c)) => Listing(new, c) = Listing(F, c)
      OBVIOUS
    <3>3. QED
      BY <3>1, <3>2
  <2>6. QED
    BY <2>4, <2>5
<1>8. \A t \in DOMAIN backs : backs[t] \subseteq DOMAIN view
  <2>1. ASSUME NEW t \in DOMAIN backs PROVE backs[t] \subseteq F.backs[t]
    BY <1>5
  <2>2. QED
    BY <1>1, <1>4, <1>5, <2>1
<1>9. ASSUME NEW c \in DOMAIN view
      PROVE  Belong(ord, c, Listing(new, c)) /\ Exact(view[c], ord, c, Listing(new, c))
  <2> HIDE DEF A
  <2>1. CASE c \in A
    BY <1>2, <1>4, <1>7, <2>1
  <2>2. CASE c \notin A
    BY <1>1, <1>4, <1>7, <2>2
  <2>3. QED
    BY <2>1, <2>2
<1>10. Consistent(new, ord)
  BY <1>4, <1>5, <1>6, <1>8, <1>9 DEF Consistent
<1>11. QED
  BY <1>4, <1>5, <1>6, <1>10 DEF new, ScrubsOf

(* Only the order of the keys matters: renumbering slots, or linking and   *)
(* unlinking others, leaves every projection exact (module SlotStream: no  *)
(* step reorders the keys of slots that stay).                             *)
THEOREM RenumberKeepsViewsExact ==
  ASSUME NEW F, NEW ord, NEW new, Consistent(F, ord),
         \A s \in DOMAIN F.backs : ord[s] \in Int /\ new[s] \in Int,
         \A s, t \in DOMAIN F.backs : ord[s] < ord[t] <=> new[s] < new[t]
  PROVE  Consistent(F, new)
<1> DEFINE D == DOMAIN F.backs
<1>1. \A S : S \subseteq D => (Keyed(ord, S) => Keyed(new, S))
  <2>1. ASSUME NEW s \in D, NEW t \in D, new[s] = new[t] PROVE ord[s] = ord[t]
    <3>1. ~(new[s] < new[t]) /\ ~(new[t] < new[s])
      BY <2>1
    <3>2. ~(ord[s] < ord[t]) /\ ~(ord[t] < ord[s])
      BY <3>1
    <3>3. QED
      BY <3>2
  <2>2. QED
    BY <2>1 DEF Keyed
<1>2. \A S, refs : S \subseteq D /\ Orders(refs, ord, S) => Orders(refs, new, S)
  <2>1. ASSUME NEW S, NEW refs, S \subseteq D, Orders(refs, ord, S)
        PROVE  Orders(refs, new, S)
    <3>1. /\ refs \in Seq(S)
          /\ \A s \in S : \E i \in 1..Len(refs) : refs[i] = s
          /\ \A i, j \in 1..Len(refs) : i < j => ord[refs[i]] < ord[refs[j]]
      BY <2>1 DEF Orders
    <3>2. \A i \in 1..Len(refs) : refs[i] \in D
      BY <2>1, <3>1
    <3>3. \A i, j \in 1..Len(refs) : i < j => new[refs[i]] < new[refs[j]]
      BY <3>1, <3>2
    <3>4. QED
      BY <3>1, <3>3 DEF Orders
  <2>2. QED
    BY <2>1
<1>3. ASSUME NEW c \in DOMAIN F.view
      PROVE  Belong(new, c, Listing(F, c)) /\ Exact(F.view[c], new, c, Listing(F, c))
  <2> DEFINE S == Listing(F, c)
             v == F.view[c]
  <2>1. S \subseteq D
    BY DEF Listing
  <2>2. Belong(ord, c, S) /\ Exact(v, ord, c, S)
    BY DEF Consistent
  <2> HIDE DEF S, v
  <2>3. Belong(new, c, S)
    <3>1. QED
      BY <1>1, <2>1, <2>2 DEF Belong
  <2>4. Orders(v.refs, new, S)
    BY <1>2, <2>1, <2>2 DEF Exact
  <2>5. IndexExact(v.index, new, c, S)
    <3>1. \A k : {s \in S : LocalKey(s, c) = k} \subseteq D
      BY <2>1
    <3>2. IndexExact(v.index, ord, c, S)
      BY <2>2 DEF Exact
    <3>3. ASSUME NEW k \in DOMAIN v.index
          PROVE  Orders(v.index[k], new, {s \in S : LocalKey(s, c) = k})
      <4>1. Orders(v.index[k], ord, {s \in S : LocalKey(s, c) = k})
        BY <3>2 DEF IndexExact
      <4>2. QED
        BY <1>2, <3>1, <4>1
    <3>4. QED
      BY <3>2, <3>3 DEF IndexExact
  <2>6. TailExact(v.tail, v.header, new, c, S)
    <3>1. TailExact(v.tail, v.header, ord, c, S)
      BY <2>2 DEF Exact
    <3>2. ASSUME NEW s \in S, NEW t \in S, ord[s] <= ord[t] PROVE new[s] <= new[t]
      <4>1. s \in D /\ t \in D
        BY <2>1
      <4>2. ~(ord[t] < ord[s])
        BY <3>2, <4>1
      <4>3. ~(new[t] < new[s])
        BY <4>1, <4>2
      <4>4. QED
        BY <4>1, <4>3
    <3>3. QED
      BY <3>1, <3>2 DEF TailExact
  <2>7. Exact(v, new, c, S)
    BY <2>2, <2>4, <2>5, <2>6 DEF Exact
  <2>8. QED
    BY <2>3, <2>7 DEF S, v
<1>4. QED
  BY <1>3 DEF Consistent

(* _clear_child_refs: a table loses everything but its own header.         *)
THEOREM ClearKeepsViewsExact ==
  ASSUME NEW F, NEW ord, Consistent(F, ord), NEW c \in DOMAIN F.view
  PROVE  /\ Consistent(ClearChildProjections(F, c), ord)
         /\ ClearChildProjections(F, c).sound = F.sound
         /\ DOMAIN ClearChildProjections(F, c).view = DOMAIN F.view
         /\ DOMAIN ClearChildProjections(F, c).backs = DOMAIN F.backs
         /\ \A t \in DOMAIN F.backs :
              ClearChildProjections(F, c).backs[t] =
                IF LocalKey(t, c) = OwnKey THEN F.backs[t] ELSE F.backs[t] \ {c}
<1> DEFINE v     == F.view[c]
           h     == v.header
           S     == Listing(F, c)
           T     == IF h = NoSlot THEN {} ELSE {h}
           refs  == IF h = NoSlot THEN <<>> ELSE <<h>>
           bare  == [NewView EXCEPT !.refs = refs, !.header = h, !.tail = h]
           view  == [F.view EXCEPT ![c] = bare]
           cut   == [s \in Range(v.refs) \ {h} |-> F.backs[s] \ {c}]
           backs == Overlaid(F.backs, cut)
           new   == ClearChildProjections(F, c)
<1>1. /\ F = [view |-> F.view, backs |-> F.backs, sound |-> F.sound]
      /\ IsAFcn(F.view) /\ IsAFcn(F.backs)
      /\ \A t \in DOMAIN F.backs : F.backs[t] \subseteq DOMAIN F.view
      /\ \A x \in DOMAIN F.view : Belong(ord, x, Listing(F, x)) /\ Exact(F.view[x], ord, x, Listing(F, x))
  BY DEF Consistent
<1>2. Belong(ord, c, S) /\ Exact(v, ord, c, S)
  BY <1>1
<1>3. new = [view |-> view, backs |-> backs, sound |-> F.sound]
  <2>1. new = [F EXCEPT !.view[c] = bare, !.backs = backs]
    BY DEF ClearChildProjections
  <2> HIDE DEF bare, backs, new
  <2>2. QED
    BY <1>1, <2>1
<1>4. Range(v.refs) = S
  <2>1. v.refs \in Seq(S) /\ \A s \in S : \E i \in 1..Len(v.refs) : v.refs[i] = s
    BY <1>2 DEF Exact, Orders
  <2> HIDE DEF S, v
  <2>2. DOMAIN v.refs = 1..Len(v.refs) /\ \A i \in 1..Len(v.refs) : v.refs[i] \in S
    BY <2>1
  <2>3. QED
    BY <2>1, <2>2 DEF Range
<1>5. /\ h = NoSlot \/ (h \in S /\ LocalKey(h, c) = OwnKey /\ HeadedBy(c, S, h))
      /\ NoSlot \notin S
  BY <1>2 DEF Exact, HeaderExact, Belong
<1>6. T \subseteq S /\ Belong(ord, c, T)
  <2>1. T \subseteq S
    BY <1>5
  <2> HIDE DEF S, T
  <2>2. QED
    BY <1>2, <2>1, BelongSubset
<1>7. Exact(bare, ord, c, T)
  <2> DEFINE none == [k \in {} |-> <<>>]
  <2>1. NewView = [refs |-> <<>>, index |-> none, header |-> NoSlot, tail |-> NoSlot]
    BY DEF NewView
  <2>2. bare = [refs |-> refs, index |-> none, header |-> h, tail |-> h]
    <3> HIDE DEF refs, h
    <3>1. bare = [[refs |-> <<>>, index |-> none, header |-> NoSlot, tail |-> NoSlot]
                    EXCEPT !.refs = refs, !.header = h, !.tail = h]
      BY DEF NewView
    <3> HIDE DEF bare, none
    <3>2. QED
      BY <3>1
  <2>3. CASE h = NoSlot
    <3>1. T = {} /\ bare = NewView
      <4> HIDE DEF none
      <4>1. QED
        BY <2>3, <2>1, <2>2
    <3>2. QED
      BY <3>1, NewViewExact
  <2>4. CASE h # NoSlot
    <3>1. /\ h \in S /\ LocalKey(h, c) = OwnKey /\ ~IsKV(h) /\ T = {h}
          /\ ~IsOwnLine(h, c)
      BY <1>5, <2>4 DEF HeadedBy, IsOwnLine
    <3>2. bare = [refs |-> <<h>>, index |-> NewView.index, header |-> h, tail |-> h]
      <4> HIDE DEF none, h
      <4>1. QED
        BY <2>4, <2>1, <2>2
    <3> HIDE DEF bare, T, S, h
    <3>3. Orders(<<h>>, ord, T)
      <4>1. <<h>> \in Seq(T) /\ Len(<<h>>) = 1 /\ <<h>>[1] = h
        BY <3>1
      <4>2. \A i, j \in 1..1 : ~(i < j)
        OBVIOUS
      <4>3. \A s \in T : \E i \in 1..1 : <<h>>[i] = s
        BY <3>1, <4>1
      <4>4. QED
        BY <4>1, <4>2, <4>3 DEF Orders
    <3>4. IndexExact(NewView.index, ord, c, T)
      <4>1. IndexExact(NewView.index, ord, c, {})
        BY NewViewExact DEF Exact
      <4>2. \A s : LocalKey(s, c) # OwnKey => (s \in {} <=> s \in T)
        BY <3>1
      <4>3. QED
        BY <4>1, <4>2, IndexIgnoresHeader
    <3>5. HeaderExact(h, c, T) /\ TailExact(h, h, ord, c, T)
      BY <3>1 DEF HeaderExact, TailExact
    <3>6. QED
      BY <3>2, <3>3, <3>4, <3>5 DEF Exact
  <2>5. QED
    BY <2>3, <2>4
<1>8. /\ IsAFcn(backs) /\ DOMAIN backs = DOMAIN F.backs
      /\ \A t \in S \ {h} : backs[t] = F.backs[t] \ {c}
      /\ \A t \in DOMAIN F.backs : t \notin S \ {h} => backs[t] = F.backs[t]
  <2>1. S \ {h} \subseteq DOMAIN F.backs
    BY DEF Listing
  <2>2. cut = [t \in S \ {h} |-> F.backs[t] \ {c}]
    BY <1>4
  <2> HIDE DEF S, cut
  <2>3. QED
    BY <2>1, <2>2 DEF Overlaid, IsAFcn
<1>9. /\ IsAFcn(view) /\ DOMAIN view = DOMAIN F.view /\ view[c] = bare
      /\ \A x \in DOMAIN F.view : x # c => view[x] = F.view[x]
  <2> HIDE DEF bare
  <2>1. QED
    BY <1>1 DEF IsAFcn
<1> HIDE DEF view, backs, new, bare
<1>10. /\ new = [view |-> new.view, backs |-> new.backs, sound |-> new.sound]
       /\ new.view = view /\ new.backs = backs /\ new.sound = F.sound
  BY <1>3
<1>11. Listing(new, c) = T
  <2>1. Listing(new, c) = {t \in DOMAIN F.backs : c \in backs[t]}
    BY <1>8, <1>10 DEF Listing
  <2>2. \A t \in DOMAIN F.backs : t \in S <=> c \in F.backs[t]
    BY DEF Listing
  <2>3. \A t \in DOMAIN F.backs : c \in backs[t] <=> t \in S /\ t = h
    BY <1>8, <2>2
  <2>4. \A t : t \in T <=> t \in S /\ t = h
    BY <1>5
  <2>5. S \subseteq DOMAIN F.backs
    BY DEF Listing
  <2> HIDE DEF S, T, h
  <2>6. QED
    BY <2>1, <2>3, <2>4, <2>5
<1>12. ASSUME NEW x, x # c PROVE Listing(new, x) = Listing(F, x)
  <2>1. Listing(new, x) = {t \in DOMAIN F.backs : x \in backs[t]}
    BY <1>8, <1>10 DEF Listing
  <2>2. \A t \in DOMAIN F.backs : x \in backs[t] <=> x \in F.backs[t]
    BY <1>8, <1>12
  <2>3. QED
    BY <2>1, <2>2 DEF Listing
<1>13. \A t \in DOMAIN backs : backs[t] \subseteq DOMAIN view
  BY <1>1, <1>8, <1>9
<1>14. ASSUME NEW x \in DOMAIN view
       PROVE  Belong(ord, x, Listing(new, x)) /\ Exact(view[x], ord, x, Listing(new, x))
  <2>1. CASE x = c
    BY <1>6, <1>7, <1>9, <1>11, <2>1
  <2>2. CASE x # c
    BY <1>1, <1>9, <1>12, <2>2
  <2>3. QED
    BY <2>1, <2>2
<1>15. Consistent(new, ord)
  BY <1>8, <1>9, <1>10, <1>13, <1>14 DEF Consistent
<1>16. ASSUME NEW t \in DOMAIN F.backs
       PROVE  backs[t] = IF LocalKey(t, c) = OwnKey THEN F.backs[t] ELSE F.backs[t] \ {c}
  <2>1. t \in S <=> c \in F.backs[t]
    BY DEF Listing
  <2>2. t \in S => (t = h <=> LocalKey(t, c) = OwnKey)
    <3>1. HeaderExact(h, c, S)
      BY <1>2 DEF Exact
    <3>2. QED
      BY <1>5, <3>1 DEF HeaderExact, HeadedBy
  <2>3. c \notin F.backs[t] => F.backs[t] \ {c} = F.backs[t]
    OBVIOUS
  <2> HIDE DEF S, h
  <2>4. QED
    BY <1>8, <2>1, <2>2, <2>3
<1>17. QED
  BY <1>8, <1>9, <1>10, <1>15, <1>16 DEF new

-----------------------------------------------------------------------------
(* A run of a list, put back in order under new keys.                      *)

(* R is a block: no other slot of S comes between two of its own. *)
Together(ord, S, R) ==
  \A t \in S \ R : (\A r \in S \cap R : ord[t] < ord[r]) \/ (\A r \in S \cap R : ord[r] < ord[t])

(* The slots of S but those of R keep their order from keys to keys. *)
KeepTheirOrder(ord, ord2, S, R) ==
  \A s, t \in S \ R : ord[s] < ord[t] => ord2[s] < ord2[t]

LEMMA OrdersUnderNewKeys ==
  ASSUME NEW refs, NEW ord, NEW ord2, NEW S, NEW Q, Orders(refs, ord, Q), Q \subseteq S,
         NEW R, KeepTheirOrder(ord, ord2, S, R), \A s \in Q : s \notin R
  PROVE  Orders(refs, ord2, Q)
<1>1. /\ refs \in Seq(Q)
      /\ \A s \in Q : \E i \in 1..Len(refs) : refs[i] = s
      /\ \A i, j \in 1..Len(refs) : i < j => ord[refs[i]] < ord[refs[j]]
  BY DEF Orders
<1>2. \A i \in 1..Len(refs) : refs[i] \in S \ R
  BY <1>1
<1>3. \A i, j \in 1..Len(refs) : i < j => ord2[refs[i]] < ord2[refs[j]]
  BY <1>1, <1>2 DEF KeepTheirOrder
<1>4. QED
  BY <1>1, <1>3 DEF Orders

SortSteps(ord, run, f, n) ==
  /\ f = [i \in 0..n |-> f[i]]
  /\ f[0] = <<>>
  /\ \A i \in 1..n : f[i] = InsertAt(f[i - 1], OrderedIndex(f[i - 1], ord, ord[run[i]]) + 1, run[i])

LEMMA SortStepsExist ==
  ASSUME NEW ord, NEW run
  PROVE  \A n \in Nat : \E f : SortSteps(ord, run, f, n)
<1> DEFINE next(x, i) == InsertAt(x, OrderedIndex(x, ord, ord[run[i]]) + 1, run[i])
           P == {n \in Nat : \E f : SortSteps(ord, run, f, n)}
<1>1. 0 \in P
  <2>1. SortSteps(ord, run, [i \in 0..0 |-> <<>>], 0)
    BY DEF SortSteps
  <2>2. QED
    BY <2>1
<1>2. ASSUME NEW n \in Nat, n \in P PROVE n + 1 \in P
  <2>1. PICK f : SortSteps(ord, run, f, n)
    BY <1>2
  <2>1a. f[0] = <<>> /\ \A i \in 1..n : f[i] = next(f[i - 1], i)
    BY <2>1 DEF SortSteps
  <2> DEFINE x == next(f[n], n + 1)
             g == [i \in 0..(n + 1) |-> IF i = n + 1 THEN x ELSE f[i]]
  <2> HIDE DEF x
  <2>2. /\ g = [i \in 0..(n + 1) |-> g[i]] /\ g[n + 1] = x
        /\ \A i \in 0..n : g[i] = f[i]
    OBVIOUS
  <2> HIDE DEF g
  <2>3. g[0] = <<>>
    BY <2>1a, <2>2
  <2>4. ASSUME NEW i \in 1..(n + 1) PROVE g[i] = next(g[i - 1], i)
    <3>1. CASE i = n + 1
      <4>1. g[i - 1] = f[n]
        BY <2>2, <3>1
      <4> HIDE DEF next
      <4>2. QED
        BY <2>2, <3>1, <4>1 DEF x
    <3>2. CASE i # n + 1
      <4>1. i \in 1..n /\ i - 1 \in 0..n /\ i \in 0..n
        BY <3>2
      <4> HIDE DEF next
      <4>2. QED
        BY <2>1a, <2>2, <4>1
    <3>3. QED
      BY <3>1, <3>2
  <2>5. SortSteps(ord, run, g, n + 1)
    BY <2>2, <2>3, <2>4 DEF SortSteps
  <2>6. QED
    BY <2>5
<1> HIDE DEF P
<1>3. \A n \in Nat : n \in P
  BY <1>1, <1>2, InductionOnSet
<1>4. QED
  BY <1>3 DEF P

LEMMA SortedByMeaning ==
  ASSUME NEW ord, NEW run, Len(run) \in Nat
  PROVE  \E f : SortSteps(ord, run, f, Len(run)) /\ SortedBy(ord, run) = f[Len(run)]
<1> DEFINE n == Len(run)
           next(x, i) == InsertAt(x, OrderedIndex(x, ord, ord[run[i]]) + 1, run[i])
           Is(f) == f = [i \in 0..n |-> IF i = 0 THEN <<>> ELSE next(f[i - 1], i)]
<1>1. SortedBy(ord, run) = (CHOOSE f : Is(f))[n]
  BY DEF SortedBy
<1>2. n \in Nat
  OBVIOUS
<1> HIDE DEF n
<1>3. \A f : Is(f) <=> SortSteps(ord, run, f, n)
  <2> TAKE f
  <2> DEFINE g == [i \in 0..n |-> IF i = 0 THEN <<>> ELSE next(f[i - 1], i)]
  <2>1. /\ g = [i \in 0..n |-> g[i]] /\ g[0] = <<>>
        /\ \A i \in 1..n : g[i] = next(f[i - 1], i)
        /\ \A i \in 0..n : i = 0 \/ i \in 1..n
    <3> HIDE DEF next
    <3>1. QED
      BY <1>2
  <2> HIDE DEF g
  <2>2. ASSUME f = g PROVE SortSteps(ord, run, f, n)
    BY <2>1, <2>2 DEF SortSteps
  <2>3. ASSUME SortSteps(ord, run, f, n) PROVE f = g
    <3>0. f[0] = <<>> /\ \A i \in 1..n : f[i] = next(f[i - 1], i)
      BY <2>3 DEF SortSteps
    <3> HIDE DEF next
    <3>1. \A i \in 0..n : f[i] = g[i]
      BY <2>1, <3>0
    <3>2. [i \in 0..n |-> f[i]] = [i \in 0..n |-> g[i]]
      BY <3>1
    <3>3. QED
      BY <2>1, <2>3, <3>2 DEF SortSteps
  <2>4. QED
    BY <2>2, <2>3 DEF g
<1> HIDE DEF Is
<1>4. \E f : SortSteps(ord, run, f, n)
  BY <1>2, SortStepsExist
<1>5. QED
  BY <1>1, <1>3, <1>4 DEF n

(* What the insertions amount to. *)
LEMMA SortedByOrders ==
  ASSUME NEW ord, NEW ord2, NEW Q, NEW run, Orders(run, ord, Q), Keyed(ord, Q), Keyed(ord2, Q)
  PROVE  Orders(SortedBy(ord2, run), ord2, Q)
<1> DEFINE n == Len(run)
           Upto(m) == {run[i] : i \in 1..m}
<1>1. /\ n \in Nat
      /\ \A i \in 1..n : run[i] \in Q /\ ord[run[i]] \in Int
      /\ \A i, j \in 1..n : i <= j <=> ord[run[i]] <= ord[run[j]]
      /\ \A s \in Q : \E i \in 1..n : run[i] = s
  BY OrdersFacts DEF Orders
<1>2. PICK f : SortSteps(ord2, run, f, n) /\ SortedBy(ord2, run) = f[n]
  BY <1>1, SortedByMeaning
<1>3a. n = Len(run)
  OBVIOUS
<1> HIDE DEF n
<1> DEFINE P == {m \in Nat : m <= n => Orders(f[m], ord2, Upto(m))}
<1>3. 0 \in P
  <2>1. f[0] = <<>> /\ Upto(0) = {}
    BY <1>2 DEF SortSteps
  <2>2. Orders(<<>>, ord2, {})
    BY DEF Orders
  <2> HIDE DEF Upto
  <2>3. QED
    BY <2>1, <2>2
<1>4. ASSUME NEW m \in Nat, m \in P PROVE m + 1 \in P
  <2> SUFFICES ASSUME m + 1 <= n PROVE Orders(f[m + 1], ord2, Upto(m + 1))
    OBVIOUS
  <2> DEFINE s == run[m + 1]
  <2>1. m + 1 \in 1..n /\ m <= n /\ Orders(f[m], ord2, Upto(m))
    BY <1>1, <1>4
  <2>2. f[m + 1] = InsertAt(f[m], OrderedIndex(f[m], ord2, ord2[s]) + 1, s)
    <3>1. (m + 1) - 1 = m
      OBVIOUS
    <3>2. QED
      BY <1>2, <2>1, <3>1 DEF SortSteps
  <2>3. f[m + 1] = WithRef(f[m], ord2, s, FALSE)
    BY <2>2 DEF WithRef
  <2>4. Upto(m + 1) = Upto(m) \cup {s}
    <3>1. \A i : i \in 1..(m + 1) <=> i \in 1..m \/ i = m + 1
      OBVIOUS
    <3>2. QED
      BY <3>1
  <2>5. s \notin Upto(m) /\ Upto(m) \cup {s} \subseteq Q
    <3>1. ASSUME NEW i \in 1..m PROVE run[i] # s /\ run[i] \in Q
      <4>1. i \in 1..n /\ ~(m + 1 <= i)
        BY <1>1, <2>1
      <4>2. QED
        BY <1>1, <2>1, <4>1
    <3>2. QED
      BY <1>1, <2>1, <3>1
  <2>6. Keyed(ord2, Upto(m) \cup {s})
    <3> HIDE DEF Upto
    <3>1. QED
      BY <2>5, KeyedSubset
  <2> HIDE DEF Upto, s
  <2>7. Orders(WithRef(f[m], ord2, s, FALSE), ord2, Upto(m) \cup {s})
    BY <2>1, <2>5, <2>6, RecordKeepsOrder
  <2>8. QED
    BY <2>3, <2>4, <2>7
<1> HIDE DEF P
<1>5. \A m \in Nat : m \in P
  BY <1>3, <1>4, InductionOnSet
<1>6. Orders(f[n], ord2, Upto(n))
  <2>1. n \in P
    BY <1>1, <1>5
  <2> HIDE DEF Upto
  <2>2. QED
    BY <1>1, <2>1 DEF P
<1>7. Upto(n) = Q
  BY <1>1
<1>8. QED
  <2> HIDE DEF Upto
  <2>1. QED
    BY <1>2, <1>6, <1>7

(* The assertion "region refs must be one run".                            *)
OneRun(refs, ord, run) ==
  Len(refs) > 1 /\ run # <<>> =>
    LET start == OrderedIndex(refs, ord, ord[run[1]])
    IN  Slice(refs, start, start + Len(run)) = run

(* A block of a list is found whole at the place of its first slot. *)
LEMMA BlockFound ==
  ASSUME NEW refs, NEW ord, NEW S, Keyed(ord, S), Orders(refs, ord, S),
         NEW R, Together(ord, S, R), NEW run, Orders(run, ord, S \cap R), run # <<>>
  PROVE  LET start == OrderedIndex(refs, ord, ord[run[1]])
             stop  == start + Len(run)
         IN  /\ start \in 0..Len(refs) /\ stop \in 0..Len(refs) /\ start < stop
             /\ OneRun(refs, ord, run)
             /\ \A i \in 1..start : refs[i] \in S \ R
             /\ \A i \in (stop + 1)..Len(refs) : refs[i] \in S \ R
             /\ \A i \in (start + 1)..stop : refs[i] \in S \cap R
<1> DEFINE N     == Len(refs)
           m     == Len(run)
           first == run[1]
           start == OrderedIndex(refs, ord, ord[first])
           stop  == start + m
           Q     == S \cap R
           I     == {i \in Nat : i \in 1..N /\ refs[i] \in Q}
<1>1. /\ N \in Nat
      /\ \A i \in 1..N : refs[i] \in S /\ ord[refs[i]] \in Int
      /\ \A i, j \in 1..N : i <= j <=> ord[refs[i]] <= ord[refs[j]]
      /\ \A s \in S : \E i \in 1..N : refs[i] = s
  BY OrdersFacts DEF Orders
<1>2. Keyed(ord, Q)
  BY DEF Keyed
<1>3. /\ m \in Nat /\ m >= 1
      /\ \A i \in 1..m : run[i] \in Q /\ ord[run[i]] \in Int
      /\ \A i, j \in 1..m : i <= j <=> ord[run[i]] <= ord[run[j]]
      /\ \A s \in Q : \E i \in 1..m : run[i] = s
  <2>1. run \in Seq(Q) /\ \A s \in Q : \E i \in 1..m : run[i] = s
    BY DEF Orders
  <2>2. m \in Nat /\ m >= 1
    BY <2>1
  <2> HIDE DEF Q, m
  <2>3. /\ \A i \in 1..Len(run) : run[i] \in Q /\ ord[run[i]] \in Int
        /\ \A i, j \in 1..Len(run) : i <= j <=> ord[run[i]] <= ord[run[j]]
    <3>1. Orders(run, ord, Q)
      BY DEF Q
    <3>2. QED
      BY <1>2, <3>1, OrdersFacts
  <2>4. QED
    BY <2>1, <2>2, <2>3 DEF m
<1>4. first \in Q /\ first \in S /\ ord[first] \in Int /\ \A s \in Q : ord[first] <= ord[s]
  <2>1. 1 \in 1..m
    BY <1>3
  <2>2. \A i \in 1..m : ord[first] <= ord[run[i]]
    BY <1>3, <2>1
  <2> HIDE DEF m, first
  <2>3. QED
    BY <1>3, <2>1, <2>2 DEF first
<1>5. start \in 0..(N - 1) /\ refs[start + 1] = first
  BY <1>4, PlaceOfRef
<1>6. /\ \A i \in 1..start : ord[refs[i]] < ord[first]
      /\ \A i \in (start + 1)..N : ord[first] <= ord[refs[i]]
  BY <1>4, IndexParts
<1>6a. Len(refs) = N /\ Len(run) = m /\ run[1] = first
  OBVIOUS
<1> HIDE DEF N, m, first, start
<1>7. \A i \in 1..start : refs[i] \in S \ R
  <2>1. ASSUME NEW i \in 1..start PROVE refs[i] \in S \ R
    <3>1. i \in 1..N
      BY <1>1, <1>5
    <3>2. ord[refs[i]] < ord[first] /\ refs[i] \in S /\ ord[refs[i]] \in Int
      BY <1>1, <1>6, <3>1
    <3>3. ~(ord[first] <= ord[refs[i]])
      BY <1>4, <3>2
    <3>4. refs[i] \notin Q
      BY <1>4, <3>3
    <3>5. QED
      BY <3>2, <3>4
  <2>2. QED
    BY <2>1
<1>8. PICK last \in I : \A i \in I : i <= last
  <2>1. start + 1 \in I
    BY <1>1, <1>4, <1>5
  <2>2. I \in SUBSET Nat /\ \A i \in I : i <= N
    BY <1>1
  <2> HIDE DEF I
  <2>3. QED
    BY <1>1, <2>1, <2>2, GreatestElement
<1>9. last \in 1..N /\ refs[last] \in Q /\ start + 1 <= last
  <2>1. start + 1 \in I
    BY <1>1, <1>4, <1>5
  <2>2. last \in 1..N /\ refs[last] \in Q
    BY <1>8
  <2> HIDE DEF I
  <2>3. QED
    BY <1>8, <2>1, <2>2
<1>10. \A i \in (last + 1)..N : refs[i] \in S \ R
  <2>1. ASSUME NEW i \in (last + 1)..N PROVE refs[i] \in S \ R
    <3>1. i \in 1..N /\ i \in Nat /\ ~(i <= last)
      BY <1>1, <1>9
    <3>2. i \notin I
      BY <1>8, <3>1
    <3>3. QED
      BY <1>1, <3>1, <3>2
  <2>2. QED
    BY <2>1
<1>11. \A i \in (start + 1)..last : refs[i] \in Q
  <2>1. ASSUME NEW i \in (start + 1)..last, refs[i] \notin Q PROVE FALSE
    <3>1. i \in 1..N /\ i \in (start + 1)..N /\ i <= last
      BY <1>1, <1>5, <1>9
    <3>2. refs[i] \in S \ R
      BY <1>1, <2>1, <3>1
    <3>3. ord[first] <= ord[refs[i]] /\ ord[refs[i]] <= ord[refs[last]]
      BY <1>1, <1>6, <1>9, <3>1
    <3>4. ord[first] \in Int /\ ord[refs[i]] \in Int /\ ord[refs[last]] \in Int
      BY <1>1, <1>4, <1>9, <3>1
    <3>5. ~(ord[refs[i]] < ord[first]) /\ ~(ord[refs[last]] < ord[refs[i]])
      BY <3>3, <3>4
    <3>6. first \in S \cap R /\ refs[last] \in S \cap R
      BY <1>4, <1>9
    <3>7. QED
      BY <3>2, <3>5, <3>6 DEF Together
  <2>2. QED
    BY <2>1
<1>12. /\ Orders(Slice(refs, start, last), ord, Q)
       /\ Len(Slice(refs, start, last)) = last - start
  <2>1. start \in 0..Len(refs) /\ last \in 0..Len(refs) /\ start <= last
    BY <1>1, <1>5, <1>6a, <1>9
  <2>2. Orders(Slice(refs, start, last), ord, {refs[i] : i \in (start + 1)..last})
    BY <2>1, OrderedSlice
  <2>3. \A s \in Q : \E i \in (start + 1)..last : refs[i] = s
    <3>1. ASSUME NEW s \in Q PROVE \E i \in (start + 1)..last : refs[i] = s
      <4>1. PICK i \in 1..N : refs[i] = s
        BY <1>1
      <4>2. i \in I
        BY <4>1
      <4>3. i <= last
        BY <1>8, <4>2
      <4>4. ~(i <= start)
        <5>1. i <= start => i \in 1..start
          BY <1>5
        <5>2. QED
          BY <1>7, <4>1, <5>1
      <4>5. i \in (start + 1)..last
        BY <1>5, <1>9, <4>3, <4>4
      <4>6. QED
        BY <4>1, <4>5
    <3>2. QED
      BY <3>1
  <2> HIDE DEF Q
  <2>4. {refs[i] : i \in (start + 1)..last} = Q
    BY <1>11, <2>3
  <2>5. Len(Slice(refs, start, last)) = last - start
    <3>1. refs \in Seq(S)
      BY DEF Orders
    <3>2. start + 1 \in 1..(Len(refs) + 1) /\ last \in 0..Len(refs) /\ start + 1 <= last + 1
      BY <1>1, <1>6a, <2>1
    <3>3. Len(SubSeq(refs, start + 1, last)) = last - (start + 1) + 1
      BY <3>1, <3>2, CutAt
    <3>4. QED
      BY <1>5, <2>1, <3>3 DEF Slice
  <2>6. QED
    BY <2>2, <2>4, <2>5
<1>13. Slice(refs, start, last) = run
  <2>1. Orders(run, ord, Q)
    OBVIOUS
  <2> HIDE DEF Q
  <2>2. QED
    BY <1>2, <1>12, <2>1, OrderUnique
<1>14. last = start + m
  <2>1. last - start = m
    BY <1>6a, <1>12, <1>13
  <2>2. QED
    BY <1>3, <1>5, <1>9, <2>1
<1>15. start \in 0..N /\ stop \in 0..N /\ start < stop
  BY <1>1, <1>3, <1>5, <1>9, <1>14
<1>16. OneRun(refs, ord, run)
  BY <1>13, <1>14 DEF OneRun, start, m, first
<1>17. QED
  BY <1>6a, <1>7, <1>10, <1>11, <1>14, <1>15, <1>16 DEF start, m, first, N

LEMMA EndsOfOrder ==
  ASSUME NEW q, NEW ord, NEW Q, Keyed(ord, Q), Orders(q, ord, Q), Q # {}
  PROVE  /\ Head(q) \in Q /\ Last(q) \in Q
         /\ \A s \in Q : ord[Head(q)] <= ord[s] /\ ord[s] <= ord[Last(q)]
<1> DEFINE n == Len(q)
<1>1. /\ n \in Nat
      /\ \A i \in 1..n : q[i] \in Q /\ ord[q[i]] \in Int
      /\ \A i, j \in 1..n : i <= j <=> ord[q[i]] <= ord[q[j]]
      /\ \A s \in Q : \E i \in 1..n : q[i] = s
  BY OrdersFacts DEF Orders
<1>2. q \in Seq(Q)
  BY DEF Orders
<1>2a. Last(q) = q[n]
  BY DEF Last
<1>3. 1 \in 1..n /\ n \in 1..n
  <2>1. PICK s \in Q : TRUE
    OBVIOUS
  <2> HIDE DEF n
  <2>2. PICK i \in 1..n : q[i] = s
    BY <1>1
  <2>3. QED
    BY <1>1, <2>2
<1>4. Head(q) = q[1]
  <2>1. q # <<>>
    BY <1>3
  <2>2. QED
    BY <1>2, <2>1
<1> HIDE DEF n
<1>5. ASSUME NEW s \in Q PROVE ord[q[1]] <= ord[s] /\ ord[s] <= ord[q[n]]
  <2>1. PICK i \in 1..n : q[i] = s
    BY <1>1
  <2>2. 1 <= i /\ i <= n
    BY <1>1, <2>1
  <2>3. ord[q[1]] <= ord[q[i]] /\ ord[q[i]] <= ord[q[n]]
    BY <1>1, <1>3, <2>2
  <2>4. QED
    BY <2>1, <2>3
<1>6. QED
  BY <1>1, <1>2a, <1>3, <1>4, <1>5

(* _replace_ordered_run: wherever the block goes, the list it leaves is in *)
(* the new order.                                                          *)
LEMMA RunReplaced ==
  ASSUME NEW refs, NEW ord, NEW ord2, NEW S, Keyed(ord, S), Keyed(ord2, S), Orders(refs, ord, S),
         NEW R, Together(ord, S, R), Together(ord2, S, R), KeepTheirOrder(ord, ord2, S, R),
         NEW run, Orders(run, ord, S \cap R), run # <<>>
  PROVE  Orders(ReplaceOrderedRun(refs, ord2, run, OrderedIndex(refs, ord, ord[run[1]])), ord2, S)
<1> DEFINE N      == Len(refs)
           start  == OrderedIndex(refs, ord, ord[run[1]])
           stop   == start + Len(run)
           Q      == S \cap R
           sorted == SortedBy(ord2, run)
           low    == Slice(refs, 0, start)
           high   == Slice(refs, stop, N)
           L      == {refs[i] : i \in 1..start}
           H      == {refs[i] : i \in (stop + 1)..N}
<1>1. /\ start \in 0..N /\ stop \in 0..N /\ start < stop
      /\ \A i \in 1..start : refs[i] \in S \ R
      /\ \A i \in (stop + 1)..N : refs[i] \in S \ R
      /\ \A i \in (start + 1)..stop : refs[i] \in Q
  BY BlockFound
<1>2. /\ N \in Nat
      /\ \A i \in 1..N : refs[i] \in S /\ ord[refs[i]] \in Int
      /\ \A i, j \in 1..N : i <= j <=> ord[refs[i]] <= ord[refs[j]]
      /\ \A i, j \in 1..N : i < j => ord[refs[i]] < ord[refs[j]]
      /\ \A s \in S : \E i \in 1..N : refs[i] = s
  BY OrdersFacts DEF Orders
<1>3. Keyed(ord, Q) /\ Keyed(ord2, Q)
  BY DEF Keyed
<1>4. Orders(sorted, ord2, Q)
  <2>1. Orders(run, ord, Q)
    OBVIOUS
  <2> HIDE DEF Q
  <2>2. QED
    BY <1>3, <2>1, SortedByOrders
<1>5. Q # {}
  <2>1. run \in Seq(Q)
    BY DEF Orders
  <2>2. run[1] \in Q
    BY <2>1
  <2>3. QED
    BY <2>2
<1>6. /\ Head(sorted) \in Q /\ Last(sorted) \in Q
      /\ \A s \in Q : ord2[Head(sorted)] <= ord2[s] /\ ord2[s] <= ord2[Last(sorted)]
  <2> HIDE DEF Q, sorted
  <2>1. QED
    BY <1>3, <1>4, <1>5, EndsOfOrder
<1>7. /\ \A s \in S : ord2[s] \in Int
      /\ \A s \in S \ R, t \in S \ R : ord[s] < ord[t] => ord2[s] < ord2[t]
  BY DEF Keyed, KeepTheirOrder
<1>7a. N = Len(refs)
  OBVIOUS
<1>7b. ReplaceOrderedRun(refs, ord2, run, start) =
         LET stays  == /\ start = 0 \/ ord2[refs[start]] < ord2[Head(sorted)]
                       /\ stop = N \/ ord2[Last(sorted)] < ord2[refs[stop + 1]]
             others == low \o high
             at     == OrderedIndex(others, ord2, ord2[Head(sorted)])
         IN  IF stays THEN low \o sorted \o high
             ELSE Slice(others, 0, at) \o sorted \o Slice(others, at, Len(others))
  BY DEF ReplaceOrderedRun
<1> HIDE DEF N, start, stop, sorted, low, high
<1>8. \A i \in 1..N : i \in 1..start \/ i \in (start + 1)..stop \/ i \in (stop + 1)..N
  BY <1>1, <1>2
<1>9. L \subseteq S \ R /\ H \subseteq S \ R /\ S \ R = L \cup H
  <2>1. ASSUME NEW s \in S \ R PROVE s \in L \cup H
    <3>1. PICK i \in 1..N : refs[i] = s
      BY <1>2
    <3>2. i \notin (start + 1)..stop
      BY <1>1, <3>1
    <3>3. QED
      BY <1>8, <3>1, <3>2
  <2>2. QED
    BY <1>1, <2>1
<1>10. Orders(low, ord2, L) /\ Orders(high, ord2, H)
  <2>1. 0 \in 0..Len(refs) /\ start \in 0..Len(refs) /\ stop \in 0..Len(refs) /\ N \in 0..Len(refs)
        /\ 0 <= start /\ stop <= N
    BY <1>1, <1>2, <1>7a
  <2>2. Orders(low, ord, {refs[i] : i \in (0 + 1)..start}) /\ Orders(high, ord, H)
    BY <2>1, OrderedSlice DEF low, high
  <2>3. (0 + 1)..start = 1..start
    OBVIOUS
  <2>4. Orders(low, ord, L)
    BY <2>2, <2>3
  <2>5. L \subseteq S /\ H \subseteq S /\ (\A s \in L : s \notin R) /\ (\A s \in H : s \notin R)
    BY <1>9
  <2> HIDE DEF L, H
  <2>6. QED
    BY <2>2, <2>4, <2>5, OrdersUnderNewKeys
<1>11. \A s \in L, t \in H : ord2[s] < ord2[t]
  <2>1. ASSUME NEW i \in 1..start, NEW j \in (stop + 1)..N PROVE ord2[refs[i]] < ord2[refs[j]]
    <3>1. i \in 1..N /\ j \in 1..N /\ i < j
      BY <1>1, <1>2
    <3>2. ord[refs[i]] < ord[refs[j]]
      BY <1>2, <3>1
    <3>3. QED
      BY <1>1, <1>7, <3>2
  <2>2. QED
    BY <2>1
<1>12. CASE /\ start = 0 \/ ord2[refs[start]] < ord2[Head(sorted)]
            /\ stop = N \/ ord2[Last(sorted)] < ord2[refs[stop + 1]]
  <2>1. ASSUME NEW i \in 1..start, NEW s \in Q PROVE ord2[refs[i]] < ord2[s]
    <3>1. start # 0 /\ start \in 1..start /\ start \in 1..N /\ i \in 1..N /\ i <= start
      BY <1>1, <1>2
    <3>2. refs[i] \in S \ R /\ refs[start] \in S \ R
      BY <1>1, <3>1
    <3>3. ord2[refs[i]] <= ord2[refs[start]]
      <4>1. CASE i = start
        BY <1>7, <3>2, <4>1
      <4>2. CASE i # start
        <5>1. i < start
          BY <3>1, <4>2
        <5>2. ord2[refs[i]] < ord2[refs[start]]
          BY <1>2, <1>7, <3>1, <3>2, <5>1
        <5>3. QED
          BY <1>7, <3>2, <5>2
      <4>3. QED
        BY <4>1, <4>2
    <3>4. ord2[refs[start]] < ord2[Head(sorted)] /\ ord2[Head(sorted)] <= ord2[s]
      BY <1>6, <1>12, <3>1
    <3>5. ord2[refs[i]] \in Int /\ ord2[refs[start]] \in Int /\ ord2[Head(sorted)] \in Int /\ ord2[s] \in Int
      BY <1>6, <1>7, <3>2
    <3>6. QED
      BY <3>3, <3>4, <3>5
  <2>2. ASSUME NEW j \in (stop + 1)..N, NEW s \in Q PROVE ord2[s] < ord2[refs[j]]
    <3>1. stop # N /\ stop + 1 \in (stop + 1)..N /\ stop + 1 \in 1..N /\ j \in 1..N /\ stop + 1 <= j
      BY <1>1, <1>2
    <3>2. refs[j] \in S \ R /\ refs[stop + 1] \in S \ R
      BY <1>1, <3>1
    <3>3. ord2[refs[stop + 1]] <= ord2[refs[j]]
      <4>1. CASE j = stop + 1
        BY <1>7, <3>2, <4>1
      <4>2. CASE j # stop + 1
        <5>1. stop + 1 < j
          BY <3>1, <4>2
        <5>2. ord2[refs[stop + 1]] < ord2[refs[j]]
          BY <1>2, <1>7, <3>1, <3>2, <5>1
        <5>3. QED
          BY <1>7, <3>2, <5>2
      <4>3. QED
        BY <4>1, <4>2
    <3>4. ord2[Last(sorted)] < ord2[refs[stop + 1]] /\ ord2[s] <= ord2[Last(sorted)]
      BY <1>6, <1>12, <3>1
    <3>5. ord2[refs[j]] \in Int /\ ord2[refs[stop + 1]] \in Int /\ ord2[Last(sorted)] \in Int /\ ord2[s] \in Int
      BY <1>6, <1>7, <3>2
    <3>6. QED
      BY <3>3, <3>4, <3>5
  <2>3. (\A s \in L, t \in Q : ord2[s] < ord2[t]) /\ (\A s \in L \cup Q, t \in H : ord2[s] < ord2[t])
    BY <1>11, <2>1, <2>2
  <2>4. (L \cup Q) \cup H = S
    BY <1>9
  <2> HIDE DEF L, Q, H
  <2>5. Orders(low \o sorted, ord2, L \cup Q)
    BY <1>4, <1>10, <2>3, OrderedJoin
  <2>6. Orders((low \o sorted) \o high, ord2, (L \cup Q) \cup H)
    BY <1>10, <2>3, <2>5, OrderedJoin
  <2>7. ReplaceOrderedRun(refs, ord2, run, start) = (low \o sorted) \o high
    BY <1>7b, <1>12
  <2>8. QED
    BY <2>4, <2>6, <2>7 DEF start
<1>13. CASE ~(/\ start = 0 \/ ord2[refs[start]] < ord2[Head(sorted)]
              /\ stop = N \/ ord2[Last(sorted)] < ord2[refs[stop + 1]])
  <2> DEFINE others == low \o high
             O      == S \ R
             o      == ord2[Head(sorted)]
             at     == OrderedIndex(others, ord2, o)
             below  == Slice(others, 0, at)
             above  == Slice(others, at, Len(others))
             B      == {others[i] : i \in 1..at}
             A      == {others[i] : i \in (at + 1)..Len(others)}
  <2>1. Orders(others, ord2, O)
    <3>1. L \cup H = O
      BY <1>9
    <3> HIDE DEF L, H, O
    <3>2. Orders(low \o high, ord2, L \cup H)
      BY <1>10, <1>11, OrderedJoin
    <3>3. QED
      BY <3>1, <3>2
  <2>2. Keyed(ord2, O) /\ o \in Int
    BY <1>6, <1>7 DEF Keyed
  <2>3. /\ at \in 0..Len(others)
        /\ \A i \in 1..at : ord2[others[i]] < o
        /\ \A i \in (at + 1)..Len(others) : o <= ord2[others[i]]
    <3> HIDE DEF others, O, o
    <3>1. QED
      BY <2>1, <2>2, IndexParts
  <2>4. /\ Len(others) \in Nat
        /\ \A i \in 1..Len(others) : others[i] \in O
        /\ \A i, j \in 1..Len(others) : i < j => ord2[others[i]] < ord2[others[j]]
        /\ \A s \in O : \E i \in 1..Len(others) : others[i] = s
    <3> HIDE DEF others, O
    <3>1. others \in Seq(O)
      BY <2>1 DEF Orders
    <3>2. QED
      BY <2>1, <3>1 DEF Orders
  <2> HIDE DEF at, others
  <2>5. \A i \in 1..at : i \in 1..Len(others)
    BY <2>3, <2>4
  <2>6. \A i \in (at + 1)..Len(others) : i \in 1..Len(others)
    BY <2>3, <2>4
  <2>7. ASSUME NEW i \in 1..at, NEW s \in Q PROVE ord2[others[i]] < ord2[s]
    <3>1. ord2[others[i]] < o /\ o <= ord2[s]
      BY <1>6, <2>3
    <3>2. others[i] \in O
      BY <2>4, <2>5
    <3>3. ord2[others[i]] \in Int /\ ord2[s] \in Int
      BY <1>7, <3>2
    <3>4. QED
      BY <2>2, <3>1, <3>3
  <2>8. ASSUME NEW i \in (at + 1)..Len(others), NEW s \in Q PROVE ord2[s] < ord2[others[i]]
    <3>1. o <= ord2[others[i]]
      BY <2>3
    <3>2. others[i] \in O
      BY <2>4, <2>6
    <3>3. ord2[others[i]] \in Int
      BY <1>7, <3>2
    <3>4. ~(ord2[others[i]] < ord2[Head(sorted)])
      BY <2>2, <3>1, <3>3
    <3>5. QED
      BY <1>6, <3>2, <3>4 DEF Together
  <2>9. ASSUME NEW i \in 1..at, NEW j \in (at + 1)..Len(others) PROVE ord2[others[i]] < ord2[others[j]]
    <3>1. i < j
      BY <2>3
    <3>2. QED
      BY <2>4, <2>5, <2>6, <3>1
  <2>10. (B \cup Q) \cup A = S
    <3>1. \A i \in 1..Len(others) : i \in 1..at \/ i \in (at + 1)..Len(others)
      BY <2>3, <2>4
    <3>2. B \cup A = O
      <4>1. B \subseteq O /\ A \subseteq O
        BY <2>4, <2>5, <2>6
      <4>2. \A s \in O : s \in B \cup A
        BY <2>4, <3>1
      <4> HIDE DEF O, A, B
      <4>3. QED
        BY <4>1, <4>2
    <3> HIDE DEF A, B
    <3>3. QED
      BY <3>2
  <2>11. Orders(below, ord2, B) /\ Orders(above, ord2, A)
    <3>1. /\ 0 \in 0..Len(others) /\ Len(others) \in 0..Len(others)
          /\ 0 <= at /\ at <= Len(others)
      BY <2>3, <2>4
    <3> HIDE DEF O
    <3>2. Orders(below, ord2, {others[i] : i \in (0 + 1)..at})
      BY <2>1, <2>3, <3>1, OrderedSlice
    <3>3. Orders(above, ord2, A)
      BY <2>1, <2>3, <3>1, OrderedSlice
    <3>4. (0 + 1)..at = 1..at
      OBVIOUS
    <3>5. QED
      BY <3>2, <3>3, <3>4
  <2>12. (\A s \in B, t \in Q : ord2[s] < ord2[t]) /\ (\A s \in B \cup Q, t \in A : ord2[s] < ord2[t])
    BY <2>7, <2>8, <2>9
  <2> HIDE DEF A, B, Q, below, above
  <2>13. Orders(below \o sorted, ord2, B \cup Q)
    BY <1>4, <2>11, <2>12, OrderedJoin
  <2>14. Orders((below \o sorted) \o above, ord2, (B \cup Q) \cup A)
    BY <2>11, <2>12, <2>13, OrderedJoin
  <2>15. ReplaceOrderedRun(refs, ord2, run, start) = (below \o sorted) \o above
    BY <1>7b, <1>13 DEF below, above, at, others
  <2>16. QED
    BY <2>10, <2>14, <2>15 DEF start
<1>14. QED
  BY <1>12, <1>13

-----------------------------------------------------------------------------
(* The view of one container.                                              *)

Refiled(refs, ord, ord2, run) ==
  IF Len(refs) > 1 /\ run # <<>>
    THEN ReplaceOrderedRun(refs, ord2, run, OrderedIndex(refs, ord, ord[run[1]]))
    ELSE refs

(* A list is put in the order of the new keys, and the run was found.      *)
LEMMA ListRefiled ==
  ASSUME NEW refs, NEW ord, NEW ord2, NEW S, Keyed(ord, S), Keyed(ord2, S), Orders(refs, ord, S),
         NEW R, Together(ord, S, R), Together(ord2, S, R), KeepTheirOrder(ord, ord2, S, R),
         NEW run, Orders(run, ord, S \cap R)
  PROVE  OneRun(refs, ord, run) /\ Orders(Refiled(refs, ord, ord2, run), ord2, S)
<1>1. CASE Len(refs) > 1 /\ run # <<>>
  <2>1. OneRun(refs, ord, run)
    BY <1>1, BlockFound
  <2>2. Orders(ReplaceOrderedRun(refs, ord2, run, OrderedIndex(refs, ord, ord[run[1]])), ord2, S)
    BY <1>1, RunReplaced
  <2>3. QED
    BY <1>1, <2>1, <2>2 DEF Refiled
<1>2. CASE ~(Len(refs) > 1)
  <2>1. Orders(refs, ord2, S)
    <3>1. Len(refs) \in Nat
      BY DEF Orders
    <3>2. \A i, j \in 1..Len(refs) : ~(i < j)
      BY <1>2, <3>1
    <3>3. QED
      BY <3>2 DEF Orders
  <2>2. QED
    BY <1>2, <2>1 DEF OneRun, Refiled
<1>3. CASE run = <<>>
  <2>1. \A s \in S : s \notin R
    <3>1. ASSUME NEW s \in S, s \in R PROVE FALSE
      <4>1. PICK i \in 1..Len(run) : run[i] = s
        BY <3>1 DEF Orders
      <4>2. Len(run) = 0
        BY <1>3
      <4>3. QED
        BY <4>1, <4>2
    <3>2. QED
      BY <3>1
  <2>2. Orders(refs, ord2, S)
    BY <2>1, OrdersUnderNewKeys
  <2>3. QED
    BY <1>3, <2>2 DEF OneRun, Refiled
<1>4. QED
  BY <1>1, <1>2, <1>3

(* What a re-filing of R, whose region it is, asks of its surroundings D:  *)
(* the keys tell the slots apart, the region is one run before and after,  *)
(* and nothing else changes places.                                        *)
Rearranged(ord, ord2, D, R) ==
  /\ Keyed(ord, D) /\ Keyed(ord2, D)
  /\ Together(ord, D, R) /\ Together(ord2, D, R)
  /\ KeepTheirOrder(ord, ord2, D, R)

LEMMA RearrangedSubset ==
  ASSUME NEW ord, NEW ord2, NEW D, NEW R, Rearranged(ord, ord2, D, R), NEW S, S \subseteq D
  PROVE  Rearranged(ord, ord2, S, R)
BY DEF Rearranged, Keyed, Together, KeepTheirOrder

RefiledView(v, ord, ord2, c, S, region) ==
  LET run == Keeping(region, S)
      new == [v EXCEPT !.refs  = Refiled(@, ord, ord2, run),
                       !.index = [k \in DOMAIN @ |->
                                    Refiled(@[k], ord, ord2, Keeping(region, {s \in S : LocalKey(s, c) = k}))]]
  IN  IF TailMoved(v, c, run, new.refs) THEN [new EXCEPT !.tail = RecomputeBodyTail(new, c, Len(new.refs))]
                                        ELSE new

LEMMA RefiledViewParts ==
  ASSUME NEW v, NEW ord, NEW c, NEW S, Exact(v, ord, c, S), NEW ord2, NEW region
  PROVE  LET new == RefiledView(v, ord, ord2, c, S, region)
             run == Keeping(region, S)
             refs == Refiled(v.refs, ord, ord2, run)
         IN  /\ new = [refs |-> new.refs, index |-> new.index, header |-> new.header, tail |-> new.tail]
             /\ new.refs = refs
             /\ new.header = v.header
             /\ new.index = [k \in DOMAIN v.index |->
                               Refiled(v.index[k], ord, ord2, Keeping(region, {s \in S : LocalKey(s, c) = k}))]
             /\ new.tail = IF TailMoved(v, c, run, refs) THEN RecomputeBodyTail(new, c, Len(refs)) ELSE v.tail
<1> DEFINE run == Keeping(region, S)
           refs == Refiled(v.refs, ord, ord2, run)
           index == [k \in DOMAIN v.index |->
                       Refiled(v.index[k], ord, ord2, Keeping(region, {s \in S : LocalKey(s, c) = k}))]
           mid  == [v EXCEPT !.refs = refs, !.index = index]
           new  == RefiledView(v, ord, ord2, c, S, region)
<1>1. v = [refs |-> v.refs, index |-> v.index, header |-> v.header, tail |-> v.tail]
  BY DEF Exact
<1>2. new = IF TailMoved(v, c, run, mid.refs) THEN [mid EXCEPT !.tail = RecomputeBodyTail(mid, c, Len(mid.refs))]
                                              ELSE mid
  BY DEF RefiledView
<1> HIDE DEF refs, index, new
<1>3. mid = [refs |-> refs, index |-> index, header |-> v.header, tail |-> v.tail]
  <2>1. DOMAIN v = {"refs", "index", "header", "tail"}
    BY <1>1
  <2>2. DOMAIN mid = DOMAIN v
    OBVIOUS
  <2>3. mid["refs"] = refs /\ mid["index"] = index /\ mid["header"] = v.header /\ mid["tail"] = v.tail
    BY <2>1
  <2>4. mid = [f \in DOMAIN v |-> mid[f]]
    OBVIOUS
  <2> HIDE DEF mid
  <2>5. mid = [f \in {"refs", "index", "header", "tail"} |-> mid[f]]
    BY <2>1, <2>4
  <2>6. QED
    BY <2>3, <2>5
<1> HIDE DEF mid, run
<1>4. /\ mid.refs = refs /\ mid.index = index /\ mid.header = v.header /\ mid.tail = v.tail
  BY <1>3
<1>5. CASE TailMoved(v, c, run, refs)
  <2> DEFINE t == RecomputeBodyTail(mid, c, Len(refs))
  <2>1. new = [mid EXCEPT !.tail = t]
    BY <1>2, <1>4, <1>5
  <2> HIDE DEF t
  <2>2. new = [refs |-> refs, index |-> index, header |-> v.header, tail |-> t]
    BY <1>3, <2>1
  <2>3. new.refs = refs /\ new.header = v.header /\ new.index = index /\ new.tail = t
    BY <2>2
  <2>4. RecomputeBodyTail(new, c, Len(refs)) = t
    BY <1>4, <2>3 DEF t, RecomputeBodyTail
  <2>5. QED
    BY <1>5, <2>2, <2>3, <2>4 DEF new, refs, index, run
<1>6. CASE ~TailMoved(v, c, run, refs)
  <2>1. new = mid
    BY <1>2, <1>4, <1>6
  <2>2. QED
    BY <1>3, <1>4, <1>6, <2>1 DEF new, refs, index, run
<1>7. QED
  BY <1>5, <1>6

(* _refile_slot_refs, on the view of c, which lists S.                     *)
LEMMA RefileKeepsExact ==
  ASSUME NEW ord, NEW ord2, NEW c, NEW S, NEW v, Exact(v, ord, c, S),
         NEW R, NEW region, Orders(region, ord, R), Rearranged(ord, ord2, S, R)
  PROVE  LET inBucket(k) == Keeping(region, {s \in S : LocalKey(s, c) = k})
         IN  /\ OneRun(v.refs, ord, Keeping(region, S))
             /\ \A k \in DOMAIN v.index : OneRun(v.index[k], ord, inBucket(k))
             /\ Exact(RefiledView(v, ord, ord2, c, S, region), ord2, c, S)
<1> DEFINE run  == Keeping(region, S)
           refs == Refiled(v.refs, ord, ord2, run)
           B(k) == {s \in S : LocalKey(s, c) = k}
           part(k) == Keeping(region, B(k))
           new  == RefiledView(v, ord, ord2, c, S, region)
<1>1. ASSUME NEW T, T \subseteq S, NEW q, Orders(q, ord, T)
      PROVE  /\ OneRun(q, ord, Keeping(region, T))
             /\ Orders(Refiled(q, ord, ord2, Keeping(region, T)), ord2, T)
  <2>1. Rearranged(ord, ord2, T, R)
    BY <1>1, RearrangedSubset
  <2>2. T \cap R = R \cap T
    OBVIOUS
  <2> DEFINE part0 == Keeping(region, T)
  <2>3. Orders(part0, ord, T \cap R)
    BY <2>2, KeepingOrders
  <2> HIDE DEF part0
  <2>4. OneRun(q, ord, part0) /\ Orders(Refiled(q, ord, ord2, part0), ord2, T)
    BY <1>1, <2>1, <2>3, ListRefiled DEF Rearranged
  <2>5. QED
    BY <2>4 DEF part0
<1>2. OneRun(v.refs, ord, run) /\ Orders(refs, ord2, S)
  BY <1>1 DEF Exact
<1>3. ASSUME NEW k \in DOMAIN v.index
      PROVE  /\ OneRun(v.index[k], ord, part(k))
             /\ Orders(Refiled(v.index[k], ord, ord2, part(k)), ord2, B(k))
  <2>1. Orders(v.index[k], ord, B(k)) /\ B(k) \subseteq S
    BY DEF Exact, IndexExact
  <2> HIDE DEF B
  <2>2. QED
    BY <1>1, <2>1
<1>4. /\ new = [refs |-> new.refs, index |-> new.index, header |-> new.header, tail |-> new.tail]
      /\ new.refs = refs
      /\ new.header = v.header
      /\ new.index = [k \in DOMAIN v.index |-> Refiled(v.index[k], ord, ord2, part(k))]
      /\ new.tail = IF TailMoved(v, c, run, refs) THEN RecomputeBodyTail(new, c, Len(refs)) ELSE v.tail
  BY RefiledViewParts
<1>5. Orders(run, ord, R \cap S)
  BY KeepingOrders
<1> HIDE DEF run, refs, part, new
<1>6. IndexExact(new.index, ord2, c, S)
  <2>1. DOMAIN v.index = {LocalKey(s, c) : s \in S} \ {OwnKey}
    BY DEF Exact, IndexExact
  <2>2. DOMAIN new.index = DOMAIN v.index /\ IsAFcn(new.index)
    <3> HIDE DEF B
    <3> DEFINE g(k) == Refiled(v.index[k], ord, ord2, part(k))
    <3>1. new.index = [k \in DOMAIN v.index |-> g(k)]
      BY <1>4
    <3> HIDE DEF g
    <3>2. QED
      BY <3>1 DEF IsAFcn
  <2>3. ASSUME NEW k \in DOMAIN new.index PROVE Orders(new.index[k], ord2, B(k))
    <3> HIDE DEF B
    <3>1. k \in DOMAIN v.index /\ new.index[k] = Refiled(v.index[k], ord, ord2, part(k))
      BY <1>4, <2>2
    <3>2. QED
      BY <1>3, <3>1
  <2>4. QED
    BY <2>1, <2>2, <2>3 DEF IndexExact
<1>7. HeaderExact(new.header, c, S)
  BY <1>4 DEF Exact
<1>8. TailExact(new.tail, new.header, ord2, c, S)
  <2>0. Keyed(ord, S) /\ Keyed(ord2, S) /\ KeepTheirOrder(ord, ord2, S, R)
    BY DEF Rearranged
  <2>1. CASE TailMoved(v, c, run, refs)
    <3> DEFINE n == Len(refs)
    <3>1. n \in Nat /\ Len(new.refs) = n /\ Orders(new.refs, ord2, S)
      BY <1>2, <1>4 DEF Orders
    <3>2. new.tail = RecomputeBodyTail(new, c, n)
      BY <1>4, <2>1
    <3> HIDE DEF n
    <3>3. n \in 0..Len(new.refs) /\ \A i \in (n + 1)..Len(new.refs) : ~IsOwnLine(new.refs[i], c)
      BY <3>1
    <3>4. QED
      BY <2>0, <3>1, <3>2, <3>3, RecomputedTailExact
  <2>2. CASE ~TailMoved(v, c, run, refs)
    <3>1. new.tail = v.tail /\ new.header = v.header
      BY <1>4, <2>2
    <3>2. TailExact(v.tail, v.header, ord, c, S)
      BY DEF Exact
    <3>3. CASE v.tail = v.header /\ \A s \in S : ~IsOwnLine(s, c)
      BY <3>1, <3>3 DEF TailExact
    <3>4. CASE /\ v.tail \in S /\ IsOwnLine(v.tail, c)
               /\ \A s \in S : IsOwnLine(s, c) => ord[s] <= ord[v.tail]
      <4>1. ASSUME NEW s \in S, IsOwnLine(s, c) PROVE ord2[s] <= ord2[v.tail]
        <5>0. ord[s] \in Int /\ ord2[s] \in Int /\ ord[v.tail] \in Int /\ ord2[v.tail] \in Int
          BY <2>0, <3>4 DEF Keyed
        <5>1. CASE s = v.tail
          BY <5>0, <5>1
        <5>2. CASE s # v.tail
          <6>1. ord[s] < ord[v.tail]
            BY <2>0, <3>4, <4>1, <5>0, <5>2 DEF Keyed
          <6>2. CASE ~(Len(refs) > 1)
            <7>1. Len(refs) \in Nat /\ (\A t \in S : \E i \in 1..Len(refs) : refs[i] = t)
              BY <1>2 DEF Orders
            <7>2. PICK i \in 1..Len(refs), j \in 1..Len(refs) : refs[i] = s /\ refs[j] = v.tail
              BY <3>4, <7>1
            <7>3. i = j
              BY <6>2, <7>1
            <7>4. QED
              BY <5>2, <7>2, <7>3
          <6>3. CASE s \notin R /\ v.tail \notin R
            BY <2>0, <3>4, <5>0, <6>1, <6>3 DEF KeepTheirOrder
          <6>4. CASE v.tail = Last(refs)
            <7>1. S # {}
              BY <4>1
            <7>2. ord2[s] <= ord2[Last(refs)]
              BY <1>2, <2>0, <7>1, EndsOfOrder
            <7>3. QED
              BY <6>4, <7>2
          <6>5. CASE run = <<>>
            <7>1. Len(run) = 0 /\ ~(\E i \in 1..0 : TRUE)
              BY <6>5
            <7>2. \A t \in R \cap S : \E i \in 1..Len(run) : run[i] = t
              BY <1>5 DEF Orders
            <7>3. s \notin R /\ v.tail \notin R
              BY <3>4, <7>1, <7>2
            <7>4. QED
              BY <6>3, <7>3
          <6>6. CASE ~\E t \in Range(run) : IsOwnLine(t, c)
            <7>1. /\ run \in Seq(R \cap S)
                  /\ \A t \in R \cap S : \E i \in 1..Len(run) : run[i] = t
              BY <1>5 DEF Orders
            <7>2. \A t \in R \cap S : t \in Range(run)
              BY <7>1 DEF Range
            <7>3. s \notin R /\ v.tail \notin R
              BY <3>4, <4>1, <6>6, <7>2
            <7>4. QED
              BY <6>3, <7>3
          <6>7. QED
            BY <2>2, <3>4, <6>2, <6>4, <6>5, <6>6 DEF TailMoved, IsOwnLine
        <5>3. QED
          BY <5>1, <5>2
      <4>2. QED
        BY <3>1, <3>4, <4>1 DEF TailExact
    <3>5. QED
      BY <3>2, <3>3, <3>4 DEF TailExact
  <2>3. QED
    BY <2>1, <2>2
<1>9. Exact(new, ord2, c, S)
  BY <1>2, <1>4, <1>6, <1>7, <1>8 DEF Exact
<1>10. QED
  BY <1>2, <1>3, <1>9 DEF run, part, new

(* _refile_slot_refs, around a move of a run of slots or a permutation of  *)
(* a region: every projection of every container is again exact, in the    *)
(* new order, and each run was found where the code asserts it.            *)
THEOREM RefileKeepsViewsExact ==
  ASSUME NEW F, NEW ord, Consistent(F, ord), NEW R \in SUBSET DOMAIN F.backs,
         NEW region, Orders(region, ord, R),
         NEW ord2, Rearranged(ord, ord2, DOMAIN F.backs, R)
  PROVE  /\ Consistent(Refile(F, ord, region, ord2), ord2)
         /\ Refile(F, ord, region, ord2).sound = F.sound
         /\ Refile(F, ord, region, ord2).backs = F.backs
         /\ DOMAIN Refile(F, ord, region, ord2).view = DOMAIN F.view
<1> DEFINE T == UNION {F.backs[s] : s \in Range(region)}
           inBucket(c, k) == Keeping(region, {s \in Listing(F, c) : LocalKey(s, c) = k})
           share(c) == RefiledView(F.view[c], ord, ord2, c, Listing(F, c), region)
           patch == [c \in T |-> share(c)]
           view  == Overlaid(F.view, patch)
           new   == Refile(F, ord, region, ord2)
           sound == \A c \in T :
                      /\ OneRun(F.view[c].refs, ord, Keeping(region, Listing(F, c)))
                      /\ \A k \in DOMAIN F.view[c].index : OneRun(F.view[c].index[k], ord, inBucket(c, k))
<1>1. /\ F = [view |-> F.view, backs |-> F.backs, sound |-> F.sound]
      /\ IsAFcn(F.view) /\ IsAFcn(F.backs)
      /\ \A s \in DOMAIN F.backs : F.backs[s] \subseteq DOMAIN F.view
      /\ \A c \in DOMAIN F.view : /\ Belong(ord, c, Listing(F, c))
                                  /\ Exact(F.view[c], ord, c, Listing(F, c))
  BY DEF Consistent
<1>2. Range(region) = R
  <2>1. DOMAIN region = 1..Len(region) /\ \A i \in 1..Len(region) : region[i] \in R
    BY DEF Orders
  <2>2. \A s \in R : \E i \in 1..Len(region) : region[i] = s
    BY DEF Orders
  <2>3. QED
    BY <2>1, <2>2 DEF Range
<1>3. \A c : Listing(F, c) \subseteq DOMAIN F.backs
  BY DEF Listing
<1>4. T \subseteq DOMAIN F.view
  BY <1>1, <1>2
<1>5. ASSUME NEW c \in DOMAIN F.view
      PROVE  /\ OneRun(F.view[c].refs, ord, Keeping(region, Listing(F, c)))
             /\ \A k \in DOMAIN F.view[c].index : OneRun(F.view[c].index[k], ord, inBucket(c, k))
             /\ Exact(share(c), ord2, c, Listing(F, c))
             /\ Belong(ord2, c, Listing(F, c))
  <2> DEFINE S == Listing(F, c)
             v == F.view[c]
  <2>1. Belong(ord, c, S) /\ Exact(v, ord, c, S) /\ S \subseteq DOMAIN F.backs
    BY <1>1, <1>3
  <2> HIDE DEF S, v
  <2>2. Rearranged(ord, ord2, S, R)
    BY <2>1, RearrangedSubset
  <2>3. /\ OneRun(v.refs, ord, Keeping(region, S))
        /\ \A k \in DOMAIN v.index : OneRun(v.index[k], ord, Keeping(region, {s \in S : LocalKey(s, c) = k}))
        /\ Exact(RefiledView(v, ord, ord2, c, S, region), ord2, c, S)
    BY <2>1, <2>2, RefileKeepsExact
  <2>4. Belong(ord2, c, S)
    BY <2>1, <2>2 DEF Belong, Rearranged
  <2>5. QED
    BY <2>3, <2>4 DEF S, v
<1>6. new = [view |-> view, backs |-> F.backs, sound |-> F.sound]
  <2>1. sound
    BY <1>4, <1>5
  <2>2. new = IF sound THEN [F EXCEPT !.view = Overlaid(F.view, patch)] ELSE [F EXCEPT !.sound = FALSE]
    BY DEF Refile, Refiled, RefiledView, OneRun
  <2> HIDE DEF sound, new, patch
  <2>3. new = [F EXCEPT !.view = view]
    BY <2>1, <2>2
  <2> HIDE DEF view
  <2>4. QED
    BY <1>1, <2>3
<1>7. /\ IsAFcn(view) /\ DOMAIN view = DOMAIN F.view
      /\ \A c \in T : view[c] = share(c)
      /\ \A c \in DOMAIN F.view : c \notin T => view[c] = F.view[c]
  <2> HIDE DEF view
  <2>1. DOMAIN patch = T /\ \A c \in T : patch[c] = share(c)
    <3> HIDE DEF share, T
    <3>1. QED
      OBVIOUS
  <2> HIDE DEF patch, share, T
  <2>2. /\ IsAFcn(view) /\ DOMAIN view = DOMAIN F.view \cup DOMAIN patch
        /\ \A x \in DOMAIN patch : view[x] = patch[x]
        /\ \A x \in DOMAIN F.view : x \notin DOMAIN patch => view[x] = F.view[x]
    BY DEF view, Overlaid, IsAFcn
  <2>3. QED
    BY <1>4, <2>1, <2>2
<1> HIDE DEF patch, view, new, share, sound
<1>8. /\ new = [view |-> new.view, backs |-> new.backs, sound |-> new.sound]
      /\ new.view = view /\ new.backs = F.backs /\ new.sound = F.sound
  BY <1>6
<1>9. \A c : Listing(new, c) = Listing(F, c)
  BY <1>8 DEF Listing
<1>10. ASSUME NEW c \in DOMAIN F.view, c \notin T PROVE Exact(F.view[c], ord2, c, Listing(F, c))
  <2> DEFINE S == Listing(F, c)
             v == F.view[c]
  <2>1. S \subseteq DOMAIN F.backs /\ \A s \in S : s \notin R
    BY <1>2, <1>10 DEF Listing
  <2>2. Exact(v, ord, c, S)
    BY <1>1
  <2> HIDE DEF S, v
  <2>3. Rearranged(ord, ord2, S, R)
    BY <2>1, RearrangedSubset
  <2>3a. KeepTheirOrder(ord, ord2, S, R) /\ Keyed(ord, S) /\ Keyed(ord2, S)
    BY <2>3 DEF Rearranged
  <2>4. ASSUME NEW Q, Q \subseteq S, NEW q, Orders(q, ord, Q) PROVE Orders(q, ord2, Q)
    BY <2>1, <2>3a, <2>4, OrdersUnderNewKeys
  <2>5. Orders(v.refs, ord2, S)
    BY <2>2, <2>4 DEF Exact
  <2>6. IndexExact(v.index, ord2, c, S)
    <3>1. IndexExact(v.index, ord, c, S)
      BY <2>2 DEF Exact
    <3>2. ASSUME NEW k \in DOMAIN v.index
          PROVE  Orders(v.index[k], ord2, {s \in S : LocalKey(s, c) = k})
      <4> DEFINE B == {s \in S : LocalKey(s, c) = k}
      <4>1. Orders(v.index[k], ord, B) /\ B \subseteq S
        BY <3>1 DEF IndexExact
      <4> HIDE DEF B
      <4>2. Orders(v.index[k], ord2, B)
        BY <2>4, <4>1
      <4>3. QED
        BY <4>2 DEF B
    <3>3. QED
      BY <3>1, <3>2 DEF IndexExact
  <2>7. TailExact(v.tail, v.header, ord2, c, S)
    <3>1. TailExact(v.tail, v.header, ord, c, S)
      BY <2>2 DEF Exact
    <3>2. ASSUME NEW s \in S, NEW t \in S, ord[s] <= ord[t] PROVE ord2[s] <= ord2[t]
      <4>1. ord[s] \in Int /\ ord2[s] \in Int /\ ord[t] \in Int /\ ord2[t] \in Int
        BY <2>3a DEF Keyed
      <4>2. CASE ord[s] = ord[t]
        BY <2>3a, <4>1, <4>2 DEF Keyed
      <4>3. CASE ord[s] < ord[t]
        BY <2>1, <2>3a, <4>1, <4>3 DEF KeepTheirOrder
      <4>4. QED
        BY <3>2, <4>1, <4>2, <4>3
    <3>3. QED
      BY <3>1, <3>2 DEF TailExact
  <2>8. Exact(v, ord2, c, S)
    BY <2>2, <2>5, <2>6, <2>7 DEF Exact
  <2>9. QED
    BY <2>8 DEF S, v
<1>11. ASSUME NEW c \in DOMAIN view
       PROVE  Belong(ord2, c, Listing(new, c)) /\ Exact(view[c], ord2, c, Listing(new, c))
  <2> HIDE DEF T
  <2>1. c \in DOMAIN F.view /\ Listing(new, c) = Listing(F, c)
    BY <1>7, <1>9
  <2>2. CASE c \in T
    BY <1>5, <1>7, <2>1, <2>2
  <2>3. CASE c \notin T
    BY <1>5, <1>7, <1>10, <2>1, <2>3
  <2>4. QED
    BY <2>2, <2>3
<1>12. Consistent(new, ord2)
  <2>1. \A s \in DOMAIN new.backs : new.backs[s] \subseteq DOMAIN new.view
    BY <1>1, <1>7, <1>8
  <2>2. IsAFcn(new.view) /\ IsAFcn(new.backs)
    BY <1>1, <1>7, <1>8
  <2>3. \A c \in DOMAIN new.view : /\ Belong(ord2, c, Listing(new, c))
                                   /\ Exact(new.view[c], ord2, c, Listing(new, c))
    BY <1>8, <1>11
  <2>4. QED
    BY <1>8, <2>1, <2>2, <2>3 DEF Consistent
<1>13. QED
  BY <1>7, <1>8, <1>12 DEF new

-----------------------------------------------------------------------------
(* One header takes another's place.                                       *)

(* new comes right before old among the slots of S. *)
JustAbove(ord, S, old, new) ==
  /\ Keyed(ord, S \cup {new}) /\ old \in S /\ new \notin S
  /\ ord[new] < ord[old]
  /\ \A t \in S : ord[t] < ord[old] => ord[t] < ord[new]

LEMMA PutOrders ==
  ASSUME NEW refs, NEW ord, NEW S, Orders(refs, ord, S), NEW old, NEW new, JustAbove(ord, S, old, new)
  PROVE  /\ Orders(PutFor(refs, ord, old, new), ord, (S \ {old}) \cup {new})
         /\ refs[OrderedIndex(refs, ord, ord[old]) + 1] = old
<1> DEFINE at  == OrderedIndex(refs, ord, ord[old]) + 1
           T   == (S \ {old}) \cup {new}
           put == PutFor(refs, ord, old, new)
           n   == Len(refs)
<1>1. /\ Keyed(ord, S \cup {new}) /\ old \in S /\ new \notin S /\ ord[new] < ord[old]
      /\ \A t \in S : ord[t] < ord[old] => ord[t] < ord[new]
  BY DEF JustAbove
<1>2. Keyed(ord, S)
  BY <1>1 DEF Keyed
<1>3. OrderedIndex(refs, ord, ord[old]) \in 0..(Len(refs) - 1) /\ refs[at] = old
  BY <1>1, <1>2, PlaceOfRef
<1>4. /\ n \in Nat /\ DOMAIN refs = 1..n
      /\ \A i \in 1..n : refs[i] \in S /\ ord[refs[i]] \in Int
      /\ \A i, j \in 1..n : i <= j <=> ord[refs[i]] <= ord[refs[j]]
  BY <1>2, OrdersFacts
<1>5. at \in 1..n
  BY <1>3, <1>4
<1>6. refs \in Seq(S) /\ \A s \in S : \E i \in 1..n : refs[i] = s
  BY DEF Orders
<1>7. refs = [i \in 1..n |-> refs[i]]
  BY <1>4, <1>6
<1>8. put = [i \in 1..n |-> IF i = at THEN new ELSE refs[i]]
  BY <1>4, <1>5, <1>7 DEF PutFor
<1> HIDE DEF at, put, n
<1>9. \A i \in 1..n : i # at => refs[i] # old
  BY <1>3, <1>4, <1>5
<1>10. put \in Seq(T) /\ Len(put) = n
  <2>1. \A i \in 1..n : put[i] \in T
    BY <1>4, <1>8, <1>9
  <2> HIDE DEF T
  <2>2. put \in [1..n -> T]
    BY <1>8, <2>1
  <2> QED BY <1>4, <2>2
<1>11. ASSUME NEW s \in T PROVE \E i \in 1..n : put[i] = s
  <2>1. CASE s = new
    BY <1>5, <1>8, <2>1
  <2>2. CASE s # new
    <3>1. s \in S /\ s # old
      BY <2>2
    <3>2. PICK i \in 1..n : refs[i] = s
      BY <1>6, <3>1
    <3>3. i # at
      BY <1>3, <3>1, <3>2 DEF at
    <3> QED BY <1>8, <3>2, <3>3
  <2> QED BY <2>1, <2>2
<1>12. ord[new] \in Int /\ ord[old] \in Int
  BY <1>1 DEF Keyed
<1>13. ASSUME NEW i \in 1..n, NEW j \in 1..n, i < j PROVE ord[put[i]] < ord[put[j]]
  <2>1. ord[refs[i]] < ord[refs[j]] /\ refs[i] \in S /\ refs[j] \in S
        /\ ord[refs[i]] \in Int /\ ord[refs[j]] \in Int
    BY <1>4, <1>13
  <2>2. CASE i = at
    <3>1. put[i] = new /\ put[j] = refs[j] /\ refs[i] = old
      BY <1>3, <1>8, <1>13, <2>2 DEF at
    <3> QED BY <1>1, <1>12, <2>1, <3>1
  <2>3. CASE j = at
    <3>1. put[j] = new /\ put[i] = refs[i] /\ refs[j] = old
      BY <1>3, <1>8, <1>13, <2>3 DEF at
    <3> QED BY <1>1, <2>1, <3>1
  <2>4. CASE i # at /\ j # at
    BY <1>8, <2>1, <2>4
  <2> QED BY <2>2, <2>3, <2>4
<1>14. Orders(put, ord, T)
  <2> HIDE DEF T
  <2> QED BY <1>10, <1>11, <1>13 DEF Orders
<1> QED BY <1>3, <1>14 DEF put, at, T

(* Both bind the same child of c, and are none of its own lines. *)
Exchanges(c, old, new) ==
  /\ LocalKey(old, c) # OwnKey /\ LocalKey(new, c) = LocalKey(old, c)
  /\ ~IsOwnLine(old, c) /\ ~IsOwnLine(new, c) /\ new # NoSlot

LEMMA ReplacedKeepsExact ==
  ASSUME NEW v, NEW ord, NEW c, NEW S, Belong(ord, c, S), Exact(v, ord, c, S),
         NEW old, NEW new, JustAbove(ord, S, old, new), Exchanges(c, old, new)
  PROVE  LET T == (S \ {old}) \cup {new}
         IN  /\ ReplaceSound(v, ord, c, old)
             /\ Belong(ord, c, T)
             /\ Exact(ReplacedView(v, ord, c, old, new), ord, c, T)
<1> DEFINE T      == (S \ {old}) \cup {new}
           k      == LocalKey(old, c)
           refs   == PutFor(v.refs, ord, old, new)
           Q      == {s \in S : LocalKey(s, c) = k}
           bucket == PutFor(v.index[k], ord, old, new)
           index  == WithBucket(v.index, k, bucket)
           res    == ReplacedView(v, ord, c, old, new)
<1>1. /\ v = [refs |-> v.refs, index |-> v.index, header |-> v.header, tail |-> v.tail]
      /\ Orders(v.refs, ord, S) /\ IndexExact(v.index, ord, c, S)
      /\ HeaderExact(v.header, c, S) /\ TailExact(v.tail, v.header, ord, c, S)
  BY DEF Exact
<1>2. /\ Keyed(ord, S \cup {new}) /\ old \in S /\ new \notin S /\ ord[new] < ord[old]
      /\ \A t \in S : ord[t] < ord[old] => ord[t] < ord[new]
  BY DEF JustAbove
<1>3. /\ k # OwnKey /\ LocalKey(new, c) = k
      /\ ~IsOwnLine(old, c) /\ ~IsOwnLine(new, c) /\ new # NoSlot
  BY DEF Exchanges
<1>4. Orders(refs, ord, T) /\ v.refs[OrderedIndex(v.refs, ord, ord[old]) + 1] = old
  BY <1>1, PutOrders
<1>5. /\ IsAFcn(v.index) /\ k \in DOMAIN v.index /\ Orders(v.index[k], ord, Q)
      /\ Bucket(v, k) = v.index[k]
  BY <1>1, <1>2, <1>3 DEF IndexExact, Bucket
<1>6. JustAbove(ord, Q, old, new)
  <2>1. old \in Q /\ new \notin Q /\ Q \subseteq S /\ Keyed(ord, Q \cup {new})
    BY <1>2 DEF Keyed
  <2> HIDE DEF Q
  <2> QED BY <1>2, <2>1 DEF JustAbove
<1>7. /\ Orders(bucket, ord, (Q \ {old}) \cup {new})
      /\ v.index[k][OrderedIndex(v.index[k], ord, ord[old]) + 1] = old
  <2> DEFINE b == v.index[k]
  <2>1. Orders(b, ord, Q)
    BY <1>5
  <2> HIDE DEF b, Q
  <2>2. /\ Orders(PutFor(b, ord, old, new), ord, (Q \ {old}) \cup {new})
        /\ b[OrderedIndex(b, ord, ord[old]) + 1] = old
    BY <1>6, <2>1, PutOrders
  <2> QED BY <2>2 DEF b
<1>8. ReplaceSound(v, ord, c, old)
  BY <1>4, <1>5, <1>7 DEF ReplaceSound
<1>9. IndexExact(index, ord, c, T)
  <2>1. (Q \ {old}) \cup {new} = {s \in T : LocalKey(s, c) = k}
    BY <1>3
  <2>2. Orders(bucket, ord, {s \in T : LocalKey(s, c) = k})
    BY <1>7, <2>1
  <2>3. \A s : LocalKey(s, c) # k => (s \in S <=> s \in T)
    BY <1>3
  <2> HIDE DEF T, bucket, k
  <2> QED BY <1>1, <1>3, <2>2, <2>3, IndexStaysExact
<1>10. res = [refs |-> refs, index |-> index, header |-> v.header, tail |-> v.tail]
  <2>1. bucket # <<>>
    BY <1>7 DEF Orders
  <2>2. index = [v.index EXCEPT ![k] = bucket]
    <3>1. index = [j \in DOMAIN v.index \cup {k} |-> IF j = k THEN bucket ELSE v.index[j]]
      BY <2>1 DEF WithBucket, PutAt
    <3> DEFINE ix == v.index
    <3>2. IsAFcn(ix) /\ k \in DOMAIN ix
      BY <1>5
    <3>3. index = [j \in DOMAIN ix \cup {k} |-> IF j = k THEN bucket ELSE ix[j]]
      BY <3>1
    <3> HIDE DEF index, k, bucket, ix
    <3>4. index = [ix EXCEPT ![k] = bucket]
      BY <3>2, <3>3 DEF IsAFcn
    <3> QED BY <3>4 DEF ix
  <2>3. res = [v EXCEPT !.refs = refs, !.index[k] = bucket]
    BY DEF ReplacedView
  <2> HIDE DEF res, refs, k, bucket, index
  <2>4. res = [[v EXCEPT !.refs = refs] EXCEPT !.index = [v.index EXCEPT ![k] = bucket]]
    BY <2>3
  <2>5. res = [[v EXCEPT !.refs = refs] EXCEPT !.index = index]
    BY <2>2, <2>4
  <2> QED BY <1>1, <2>5
<1>11. Belong(ord, c, T)
  <2>1. Keyed(ord, T) /\ NoSlot \notin T
    BY <1>2, <1>3 DEF Keyed, Belong
  <2>2. ASSUME NEW h \in T, LocalKey(h, c) = OwnKey PROVE HeadedBy(c, T, h)
    <3>1. h \in S
      BY <1>3, <2>2
    <3>2. HeadedBy(c, S, h)
      BY <2>2, <3>1 DEF Belong
    <3> QED BY <1>3, <3>2 DEF HeadedBy
  <2> HIDE DEF T
  <2> QED BY <2>1, <2>2 DEF Belong
<1>12. HeaderExact(v.header, c, T)
  BY <1>1, <1>3 DEF HeaderExact
<1>13. TailExact(v.tail, v.header, ord, c, T)
  BY <1>1, <1>3 DEF TailExact
<1>14. Exact(res, ord, c, T)
  <2> HIDE DEF res, refs, index, T
  <2>1. /\ res = [refs |-> res.refs, index |-> res.index, header |-> res.header, tail |-> res.tail]
        /\ res.refs = refs /\ res.index = index /\ res.header = v.header /\ res.tail = v.tail
    BY <1>10
  <2> QED BY <1>4, <1>9, <1>12, <1>13, <2>1 DEF Exact
<1> QED BY <1>8, <1>11, <1>14

(* On every table above, the two stand side by side under one key, and the *)
(* new one is not filed there yet.                                         *)
Replaceable(F, ord, old, new, prior) ==
  /\ old \in DOMAIN F.backs /\ new \in DOMAIN F.backs /\ old # new
  /\ prior \in F.backs[old]
  /\ \A c \in F.backs[old] \ {prior} :
       /\ c \notin F.backs[new]
       /\ JustAbove(ord, Listing(F, c), old, new)
       /\ Exchanges(c, old, new)

ReplacesOn(G, F, old, new, prior) ==
  /\ G.sound
  /\ DOMAIN G.view = DOMAIN F.view /\ DOMAIN G.backs = DOMAIN F.backs
  /\ G.backs[old] = {prior} /\ G.backs[new] = F.backs[new] \cup (F.backs[old] \ {prior})
  /\ \A t \in DOMAIN F.backs : t # old /\ t # new => G.backs[t] = F.backs[t]

LEMMA ReplaceKeepsViewsExact ==
  ASSUME NEW F, NEW ord, Consistent(F, ord), F.sound = TRUE,
         NEW old, NEW new, NEW prior, Replaceable(F, ord, old, new, prior)
  PROVE  /\ Consistent(Replaced(F, ord, old, new, prior), ord)
         /\ ReplacesOn(Replaced(F, ord, old, new, prior), F, old, new, prior)
<1> DEFINE above == F.backs[old] \ {prior}
           sound == \A c \in above : ReplaceSound(F.view[c], ord, c, old)
           Put(c) == ReplacedView(F.view[c], ord, c, old, new)
           puts  == [c \in above |-> Put(c)]
           view  == Overlaid(F.view, puts)
           mine  == F.backs[new] \cup above
           backs == [[F.backs EXCEPT ![old] = {prior}] EXCEPT ![new] = mine]
           G     == Replaced(F, ord, old, new, prior)
<1>1. /\ F = [view |-> F.view, backs |-> F.backs, sound |-> F.sound]
      /\ IsAFcn(F.view) /\ IsAFcn(F.backs)
      /\ \A s \in DOMAIN F.backs : F.backs[s] \subseteq DOMAIN F.view
      /\ \A c \in DOMAIN F.view : Belong(ord, c, Listing(F, c)) /\ Exact(F.view[c], ord, c, Listing(F, c))
  BY DEF Consistent
<1>2. /\ old \in DOMAIN F.backs /\ new \in DOMAIN F.backs /\ old # new
      /\ prior \in F.backs[old]
      /\ \A c \in above : /\ c \notin F.backs[new] /\ JustAbove(ord, Listing(F, c), old, new)
                          /\ Exchanges(c, old, new)
  BY DEF Replaceable
<1>3. above \subseteq DOMAIN F.view
  BY <1>1, <1>2
<1>4. ASSUME NEW c \in above
      PROVE  LET T == (Listing(F, c) \ {old}) \cup {new}
             IN  /\ ReplaceSound(F.view[c], ord, c, old)
                 /\ Belong(ord, c, T) /\ Exact(Put(c), ord, c, T)
  <2> DEFINE v == F.view[c]
             S == Listing(F, c)
  <2>1. Belong(ord, c, S) /\ Exact(v, ord, c, S) /\ JustAbove(ord, S, old, new) /\ Exchanges(c, old, new)
    BY <1>1, <1>2, <1>3, <1>4
  <2> HIDE DEF v, S
  <2>2. LET T == (S \ {old}) \cup {new}
        IN  /\ ReplaceSound(v, ord, c, old)
            /\ Belong(ord, c, T)
            /\ Exact(ReplacedView(v, ord, c, old, new), ord, c, T)
    BY <2>1, ReplacedKeepsExact
  <2> QED BY <2>2 DEF v, S
<1>5. sound
  BY <1>4
<1>6. G = [view |-> view, backs |-> backs, sound |-> TRUE]
  <2>1. G = [F EXCEPT !.view = view, !.backs[old] = {prior}, !.backs[new] = mine, !.sound = @ /\ sound]
    BY DEF Replaced
  <2> HIDE DEF G, view, mine, sound
  <2> DEFINE b1 == [F.backs EXCEPT ![old] = {prior}]
             F1 == [F EXCEPT !.view = view]
             F2 == [F1 EXCEPT !.backs = b1]
             F3 == [F2 EXCEPT !.backs = backs]
  <2>2. F1 = [view |-> view, backs |-> F.backs, sound |-> F.sound]
    BY <1>1
  <2> HIDE DEF F1
  <2>3. F2 = [view |-> view, backs |-> b1, sound |-> F.sound]
    <3> HIDE DEF b1
    <3> QED BY <2>2
  <2>4. F3 = [view |-> view, backs |-> backs, sound |-> F.sound]
    <3> HIDE DEF b1, backs, F2
    <3> QED BY <2>3
  <2>5. [F1 EXCEPT !.backs[old] = {prior}] = F2
    <3>1. [F1 EXCEPT !.backs[old] = {prior}] = [F1 EXCEPT !.backs = [F1.backs EXCEPT ![old] = {prior}]]
      OBVIOUS
    <3>2. F1.backs = F.backs
      BY <2>2
    <3> QED BY <3>1, <3>2
  <2>6. [F2 EXCEPT !.backs[new] = mine] = F3
    <3>1. [F2 EXCEPT !.backs[new] = mine] = [F2 EXCEPT !.backs = [F2.backs EXCEPT ![new] = mine]]
      <4> HIDE DEF F2
      <4> QED OBVIOUS
    <3>2. F2.backs = b1
      BY <2>3
    <3> QED BY <3>1, <3>2
  <2>7. G = [[[F1 EXCEPT !.backs[old] = {prior}] EXCEPT !.backs[new] = mine] EXCEPT !.sound = F.sound /\ sound]
    BY <2>1 DEF F1
  <2>8. G = [F3 EXCEPT !.sound = F.sound /\ sound]
    BY <2>5, <2>6, <2>7
  <2> HIDE DEF F2, F3, backs
  <2>9. (F.sound /\ sound) = TRUE
    BY <1>5
  <2> QED BY <2>4, <2>8, <2>9
<1>7. /\ IsAFcn(view) /\ DOMAIN view = DOMAIN F.view
      /\ \A c \in above : view[c] = Put(c)
      /\ \A c \in DOMAIN F.view : c \notin above => view[c] = F.view[c]
  <2> HIDE DEF above, Put
  <2> QED BY <1>3 DEF Overlaid, IsAFcn
<1>8. /\ IsAFcn(backs) /\ DOMAIN backs = DOMAIN F.backs
      /\ backs[old] = {prior} /\ backs[new] = F.backs[new] \cup above
      /\ \A t \in DOMAIN F.backs : t # old /\ t # new => backs[t] = F.backs[t]
  <2> HIDE DEF above
  <2> QED BY <1>1, <1>2 DEF IsAFcn
<1> HIDE DEF view, backs, G
<1>9. /\ G = [view |-> G.view, backs |-> G.backs, sound |-> G.sound]
      /\ G.view = view /\ G.backs = backs /\ G.sound = TRUE
  BY <1>6
<1>10. \A c : Listing(G, c) = {t \in DOMAIN F.backs : c \in backs[t]}
  BY <1>8, <1>9 DEF Listing
<1>11. ASSUME NEW c \in above PROVE Listing(G, c) = (Listing(F, c) \ {old}) \cup {new}
  <2>1. c \in F.backs[old] /\ c # prior
    OBVIOUS
  <2> HIDE DEF above
  <2>2. \A t \in DOMAIN F.backs : c \in backs[t] <=> t = new \/ (t # old /\ c \in F.backs[t])
    BY <1>2, <1>8, <1>11, <2>1
  <2> QED BY <1>2, <1>10, <2>2 DEF Listing
<1>12. ASSUME NEW c, c \notin above PROVE Listing(G, c) = Listing(F, c)
  <2>1. c \in F.backs[old] <=> c = prior
    BY <1>2, <1>12
  <2> HIDE DEF above
  <2>2. \A t \in DOMAIN F.backs : c \in backs[t] <=> c \in F.backs[t]
    BY <1>2, <1>8, <1>12, <2>1
  <2> QED BY <1>10, <2>2 DEF Listing
<1>13. \A t \in DOMAIN backs : backs[t] \subseteq DOMAIN view
  BY <1>1, <1>2, <1>3, <1>7, <1>8
<1>14. ASSUME NEW c \in DOMAIN view
       PROVE  Belong(ord, c, Listing(G, c)) /\ Exact(view[c], ord, c, Listing(G, c))
  <2>1. CASE c \in above
    BY <1>4, <1>7, <1>11, <2>1
  <2>2. CASE c \notin above
    BY <1>1, <1>7, <1>12, <2>2
  <2> QED BY <2>1, <2>2
<1>15. Consistent(G, ord)
  BY <1>7, <1>8, <1>9, <1>13, <1>14 DEF Consistent
<1>16. ReplacesOn(G, F, old, new, prior)
  <2> QED BY <1>7, <1>8, <1>9 DEF ReplacesOn
<1> QED BY <1>15, <1>16 DEF G
=============================================================================
