----------------------------- MODULE ListProofs ------------------------------
(***************************************************************************)
(* Facts about sets of naturals and about lists that the other proofs rest *)
(* on.  Induction is stated for a set, to be cited with the set of the     *)
(* numbers that have the property: it is what recursive functions are      *)
(* reasoned about with, those of ListOps among them.                       *)
(***************************************************************************)
EXTENDS ListOps, TLAPS, WellFoundedInduction

LT == {ss \in Nat \X Nat : ss[1] < ss[2]}

(* A set of naturals with a member has a least one, and if bounded a       *)
(* greatest one.                                                           *)
LEMMA LeastElement ==
  ASSUME NEW T \in SUBSET Nat, NEW t \in T
  PROVE  \E r \in T : \A q \in T : r <= q
<1>1. IsWellFoundedOn(LT, Nat)
  BY NatLessThanWellFounded DEF OpToRel, LT
<1>2. PICK r \in T : \A q \in T : ~(<<q, r>> \in LT)
  BY <1>1, WFMin
<1>3. ASSUME NEW q \in T, q < r PROVE FALSE
  <2>1. <<q, r>> \in LT
    BY <1>3 DEF LT
  <2>2. QED
    BY <1>2, <2>1
<1>4. \A q \in T : r <= q
  BY <1>3
<1>5. QED
  BY <1>4

LEMMA GreatestElement ==
  ASSUME NEW T \in SUBSET Nat, NEW t \in T, NEW b \in Nat, \A q \in T : q <= b
  PROVE  \E r \in T : \A q \in T : q <= r
<1> DEFINE U == {b - q : q \in T}
<1>1. U \in SUBSET Nat /\ b - t \in U
  OBVIOUS
<1>2. PICK u \in U : \A x \in U : u <= x
  BY <1>1, LeastElement
<1>3. PICK r \in T : u = b - r
  OBVIOUS
<1>4. \A q \in T : b - r <= b - q
  BY <1>2, <1>3
<1>5. QED
  BY <1>4

(* Induction: a set with 0 in it and every successor of a member. *)
LEMMA InductionOnSet ==
  ASSUME NEW S, 0 \in S, \A n \in Nat : n \in S => n + 1 \in S
  PROVE  \A n \in Nat : n \in S
<1> SUFFICES ASSUME NEW n \in Nat, n \notin S PROVE FALSE
  OBVIOUS
<1> DEFINE T == {m \in Nat : m \notin S}
<1>1. PICK r \in T : \A q \in T : r <= q
  <2>1. T \in SUBSET Nat /\ n \in T
    OBVIOUS
  <2>2. QED
    BY <2>1, LeastElement
<1>2. r # 0
  OBVIOUS
<1>3. r - 1 \in Nat /\ r - 1 \notin T
  BY <1>1, <1>2
<1>4. (r - 1) + 1 \in S
  BY <1>3
<1>5. QED
  BY <1>4

(* Induction downwards from a bound. *)
LEMMA InductionFromAbove ==
  ASSUME NEW S, NEW b \in Nat, b \in S,
         \A n \in Nat : n < b /\ n + 1 \in S => n \in S
  PROVE  \A n \in 0..b : n \in S
<1> SUFFICES ASSUME NEW n \in 0..b, n \notin S PROVE FALSE
  OBVIOUS
<1> DEFINE T == {m \in 0..b : m \notin S}
<1>1. PICK r \in T : \A q \in T : q <= r
  <2>1. T \in SUBSET Nat /\ n \in T /\ \A q \in T : q <= b
    OBVIOUS
  <2>2. QED
    BY <2>1, GreatestElement
<1>2. r < b /\ r \in Nat
  OBVIOUS
<1>3. r + 1 \in 0..b /\ r + 1 \notin T
  BY <1>1, <1>2
<1>4. QED
  BY <1>2, <1>3

-----------------------------------------------------------------------------
(* Lists cut, joined and sifted.                                           *)

(* Concatenation and cutting, place by place. *)
LEMMA Joined ==
  ASSUME NEW S, NEW a \in Seq(S), NEW b \in Seq(S)
  PROVE  /\ a \o b \in Seq(S) /\ Len(a \o b) = Len(a) + Len(b)
         /\ \A i \in 1..(Len(a) + Len(b)) :
              (a \o b)[i] = IF i <= Len(a) THEN a[i] ELSE b[i - Len(a)]
OBVIOUS

LEMMA CutAt ==
  ASSUME NEW S, NEW q \in Seq(S), NEW m \in 1..(Len(q) + 1), NEW n \in 0..Len(q), m <= n + 1
  PROVE  /\ SubSeq(q, m, n) \in Seq(S) /\ Len(SubSeq(q, m, n)) = n - m + 1
         /\ \A i \in 1..(n - m + 1) : SubSeq(q, m, n)[i] = q[i + m - 1]
OBVIOUS

KeptBy(items, R, f, n) ==
  /\ f = [i \in 0..n |-> f[i]]
  /\ f[0] = <<>>
  /\ \A i \in 1..n : f[i] = IF items[i] \in R THEN Append(f[i - 1], items[i]) ELSE f[i - 1]

LEMMA KeptExists ==
  ASSUME NEW items, NEW R
  PROVE  \A n \in Nat : \E f : KeptBy(items, R, f, n)
<1> DEFINE P == {n \in Nat : \E f : KeptBy(items, R, f, n)}
<1>1. 0 \in P
  <2>1. KeptBy(items, R, [i \in 0..0 |-> <<>>], 0)
    BY DEF KeptBy
  <2>2. QED
    BY <2>1
<1>2. ASSUME NEW n \in Nat, n \in P PROVE n + 1 \in P
  <2>1. PICK f : KeptBy(items, R, f, n)
    BY <1>2
  <2> DEFINE x == IF items[n + 1] \in R THEN Append(f[n], items[n + 1]) ELSE f[n]
             g == [i \in 0..(n + 1) |-> IF i = n + 1 THEN x ELSE f[i]]
  <2> HIDE DEF x
  <2>2. /\ g = [i \in 0..(n + 1) |-> g[i]] /\ g[n + 1] = x
        /\ \A i \in 0..n : g[i] = f[i]
    OBVIOUS
  <2> HIDE DEF g
  <2>3. g[0] = <<>>
    BY <2>1, <2>2 DEF KeptBy
  <2>4. ASSUME NEW i \in 1..(n + 1)
        PROVE  g[i] = IF items[i] \in R THEN Append(g[i - 1], items[i]) ELSE g[i - 1]
    <3>1. CASE i = n + 1
      <4>1. g[i - 1] = f[n]
        BY <2>2, <3>1
      <4>2. QED
        BY <2>2, <3>1, <4>1 DEF x
    <3>2. CASE i # n + 1
      <4>1. i \in 1..n /\ i - 1 \in 0..n /\ i \in 0..n
        BY <3>2
      <4>2. QED
        BY <2>1, <2>2, <4>1 DEF KeptBy
    <3>3. QED
      BY <3>1, <3>2
  <2>5. KeptBy(items, R, g, n + 1)
    BY <2>2, <2>3, <2>4 DEF KeptBy
  <2>6. QED
    BY <2>5
<1> HIDE DEF P
<1>3. \A n \in Nat : n \in P
  BY <1>1, <1>2, InductionOnSet
<1>4. QED
  BY <1>3 DEF P

LEMMA KeepingMeaning ==
  ASSUME NEW items, NEW R, Len(items) \in Nat
  PROVE  \E f : KeptBy(items, R, f, Len(items)) /\ Keeping(items, R) = f[Len(items)]
<1> DEFINE n == Len(items)
           Is(f) == f = [i \in 0..n |->
                           IF i = 0 THEN <<>>
                           ELSE IF items[i] \in R THEN Append(f[i - 1], items[i]) ELSE f[i - 1]]
<1>1. Keeping(items, R) = (CHOOSE f : Is(f))[n]
  BY DEF Keeping
<1>2. PICK f : KeptBy(items, R, f, n)
  BY KeptExists
<1>3. Is(f)
  <2> HIDE DEF n
  <2> DEFINE g == [i \in 0..n |->
                     IF i = 0 THEN <<>>
                     ELSE IF items[i] \in R THEN Append(f[i - 1], items[i]) ELSE f[i - 1]]
  <2>1. \A i \in 0..n : f[i] = g[i]
    BY <1>2 DEF KeptBy, n
  <2>2. g = [i \in 0..n |-> g[i]]
    OBVIOUS
  <2> HIDE DEF g
  <2>3. f = g
    BY <1>2, <2>1, <2>2 DEF KeptBy
  <2>4. QED
    BY <2>3 DEF g
<1> DEFINE h == CHOOSE x : Is(x)
<1>4. Is(h)
  BY <1>3
<1>5. KeptBy(items, R, h, n)
  <2>1. n \in Nat
    OBVIOUS
  <2> HIDE DEF h, n
  <2>2. h = [i \in 0..n |->
               IF i = 0 THEN <<>>
               ELSE IF items[i] \in R THEN Append(h[i - 1], items[i]) ELSE h[i - 1]]
    BY <1>4
  <2> DEFINE g == [i \in 0..n |->
               IF i = 0 THEN <<>>
               ELSE IF items[i] \in R THEN Append(h[i - 1], items[i]) ELSE h[i - 1]]
  <2>3. /\ g = [i \in 0..n |-> g[i]] /\ g[0] = <<>>
        /\ \A i \in 1..n : g[i] = IF items[i] \in R THEN Append(h[i - 1], items[i]) ELSE h[i - 1]
    BY <2>1
  <2>4. h = g
    BY <2>2
  <2> HIDE DEF g
  <2>5. QED
    BY <2>3, <2>4 DEF KeptBy
<1>6. QED
  BY <1>1, <1>5

Flattens(parts, f, n) ==
  /\ f = [i \in 1..n |-> f[i]]
  /\ f[1] = parts[1]
  /\ \A i \in 2..n : f[i] = f[i - 1] \o parts[i]

LEMMA FlattensExists ==
  ASSUME NEW parts
  PROVE  \A n \in Nat : \E f : Flattens(parts, f, n + 1)
<1> DEFINE P == {n \in Nat : \E f : Flattens(parts, f, n + 1)}
<1>1. 0 \in P
  <2>1. Flattens(parts, [i \in 1..1 |-> parts[i]], 0 + 1)
    BY DEF Flattens
  <2> QED BY <2>1
<1>2. ASSUME NEW n \in Nat, n \in P PROVE n + 1 \in P
  <2>1. PICK f : Flattens(parts, f, n + 1)
    BY <1>2
  <2> DEFINE z == f[n + 1] \o parts[n + 2]
             m == (n + 1) + 1
             g == [i \in 1..m |-> IF i = m THEN z ELSE f[i]]
  <2> HIDE DEF z
  <2>2. /\ g = [i \in 1..m |-> g[i]] /\ g[m] = z
        /\ \A i \in 1..(n + 1) : g[i] = f[i]
    OBVIOUS
  <2> HIDE DEF g
  <2>3. g[1] = parts[1]
    <3>1. 1 \in 1..(n + 1)
      OBVIOUS
    <3> QED BY <2>1, <2>2, <3>1 DEF Flattens
  <2>4. ASSUME NEW i \in 2..m PROVE g[i] = g[i - 1] \o parts[i]
    <3>1. CASE i = m
      <4>0. i = n + 2 /\ i - 1 = n + 1 /\ n + 1 \in 1..(n + 1)
        BY <3>1
      <4>1. g[i - 1] = f[n + 1] /\ i = n + 2
        BY <2>2, <4>0
      <4> QED BY <2>2, <3>1, <4>1 DEF z
    <3>2. CASE i # m
      <4>1. i \in 2..(n + 1) /\ i - 1 \in 1..(n + 1) /\ i \in 1..(n + 1)
        BY <3>2
      <4> QED BY <2>1, <2>2, <4>1 DEF Flattens
    <3> QED BY <3>1, <3>2
  <2>5. Flattens(parts, g, m)
    BY <2>2, <2>3, <2>4 DEF Flattens
  <2> QED BY <2>5
<1> HIDE DEF P
<1>3. \A n \in Nat : n \in P
  BY <1>1, <1>2, InductionOnSet
<1> QED BY <1>3 DEF P

LEMMA FlattenMeaning ==
  ASSUME NEW parts, Len(parts) \in Nat, Len(parts) # 0
  PROVE  \E f : Flattens(parts, f, Len(parts)) /\ FlattenSeq(parts) = f[Len(parts)]
<1> DEFINE n == Len(parts)
           Is(f) == f = [i \in 1..n |-> IF i = 1 THEN parts[i] ELSE f[i - 1] \o parts[i]]
           h == CHOOSE f : Is(f)
<1>1. FlattenSeq(parts) = h[n]
  BY DEF FlattenSeq
<1>0. n \in Nat /\ n # 0 /\ n - 1 \in Nat /\ (n - 1) + 1 = n
  OBVIOUS
<1> HIDE DEF n
<1>2. PICK up : Flattens(parts, up, n)
  <2>1. \E f : Flattens(parts, f, (n - 1) + 1)
    BY <1>0, FlattensExists
  <2> QED BY <1>0, <2>1
<1>3. Is(up)
  <2> DEFINE g == [i \in 1..n |-> IF i = 1 THEN parts[i] ELSE up[i - 1] \o parts[i]]
  <2>1. \A i \in 1..n : up[i] = g[i]
    <3> SUFFICES ASSUME NEW i \in 1..n PROVE up[i] = IF i = 1 THEN parts[i] ELSE up[i - 1] \o parts[i]
      OBVIOUS
    <3>1. i # 1 => i \in 2..n
      BY <1>0
    <3> QED BY <1>2, <3>1 DEF Flattens
  <2>2. g = [i \in 1..n |-> g[i]]
    OBVIOUS
  <2> HIDE DEF g
  <2>3. up = g
    BY <1>2, <2>1, <2>2 DEF Flattens
  <2> QED BY <2>3 DEF g
<1>4. Is(h)
  BY <1>3
<1> HIDE DEF h
<1>5. h = [i \in 1..n |-> h[i]] /\ h[1] = parts[1] /\ \A i \in 2..n : h[i] = h[i - 1] \o parts[i]
  <2>1. \A i \in 1..n : h[i] = IF i = 1 THEN parts[i] ELSE h[i - 1] \o parts[i]
    BY <1>4
  <2>2. h = [i \in 1..n |-> h[i]]
    BY <1>4
  <2>3. 1 \in 1..n /\ \A i \in 2..n : i \in 1..n /\ i # 1
    BY <1>0
  <2> QED BY <2>1, <2>2, <2>3
<1>6. Flattens(parts, h, n)
  BY <1>5 DEF Flattens
<1> QED BY <1>1, <1>6 DEF n

-----------------------------------------------------------------------------
(* Steps taken one after the other lead somewhere.                         *)

Steps(step, V, n) == step \in [(1..n) \X V -> V]
Walks(f, V, start, n, step) ==
  /\ f \in [0..n -> V]
  /\ f[0] = start
  /\ \A i \in 1..n : f[i] = step[<<i, f[i - 1]>>]

LEMMA StepsExist ==
  ASSUME NEW V, NEW start \in V, NEW N \in Nat, NEW step, Steps(step, V, N)
  PROVE  \E f : Walks(f, V, start, N, step)
<1> USE DEF Steps
<1> DEFINE Leads(n, f) == f[0] = start /\ \A i \in 1..n : f[i] = step[<<i, f[i - 1]>>]
           P == {n \in Nat : n <= N => \E f \in [0..n -> V] : Leads(n, f)}
<1>1. 0 \in P
  <2>1. [i \in 0..0 |-> start] \in [0..0 -> V] /\ Leads(0, [i \in 0..0 |-> start])
    OBVIOUS
  <2>2. QED
    BY <2>1
<1>2. ASSUME NEW n \in Nat, n \in P PROVE n + 1 \in P
  <2> SUFFICES ASSUME n + 1 <= N PROVE \E f \in [0..(n + 1) -> V] : Leads(n + 1, f)
    OBVIOUS
  <2>1. PICK f \in [0..n -> V] : Leads(n, f)
    BY <1>2
  <2> DEFINE x == step[<<n + 1, f[n]>>]
             g == [i \in 0..(n + 1) |-> IF i = n + 1 THEN x ELSE f[i]]
  <2>2. x \in V
    <3>1. f[n] \in V /\ n + 1 \in 1..N
      BY <2>1
    <3>2. QED
      BY <3>1
  <2> HIDE DEF x
  <2>3. /\ g \in [0..(n + 1) -> V] /\ g[n + 1] = x
        /\ \A i \in 0..n : g[i] = f[i]
    BY <2>1, <2>2
  <2> HIDE DEF g
  <2>4. ASSUME NEW i \in 1..(n + 1) PROVE g[i] = step[<<i, g[i - 1]>>]
    <3>1. CASE i = n + 1
      <4>1. i - 1 \in 0..n /\ i - 1 = n
        BY <3>1
      <4>2. QED
        BY <2>3, <3>1, <4>1 DEF x
    <3>2. CASE i # n + 1
      <4>1. i \in 1..n /\ i - 1 \in 0..n /\ i \in 0..n
        BY <3>2
      <4>2. QED
        BY <2>1, <2>3, <4>1
    <3>3. QED
      BY <3>1, <3>2
  <2>5. g[0] = start
    BY <2>1, <2>3
  <2>6. QED
    BY <2>3, <2>4, <2>5
<1> HIDE DEF P
<1>3. \A n \in Nat : n \in P
  BY <1>1, <1>2, InductionOnSet
<1>4. QED
  BY <1>3 DEF P, Walks

-----------------------------------------------------------------------------
(* The runs that sorted indices make, and what deleting runs joins.        *)

(* Disjoint, increasing ranges <<start, stop>> that cover I and end by top.*)
Cover(runs, I, top) ==
  /\ runs \in Seq(Nat \X Nat)
  /\ \A j \in 1..Len(runs) : runs[j][1] < runs[j][2] /\ runs[j][2] <= top
  /\ \A i, j \in 1..Len(runs) : i < j => runs[i][2] <= runs[j][1]
  /\ \A x \in Nat : x \in I <=> \E j \in 1..Len(runs) : runs[j][1] <= x /\ x < runs[j][2]

LEMMA GrownCovers ==
  ASSUME NEW runs, NEW I \in SUBSET Nat, NEW top \in Nat, Cover(runs, I, top),
         NEW i \in Nat, top <= i
  PROVE  Cover(GrownRuns(runs, i), I \cup {i}, i + 1)
<1> DEFINE n == Len(runs)
           Pair(j) == runs[j] = <<runs[j][1], runs[j][2]>> /\ runs[j][1] \in Nat /\ runs[j][2] \in Nat
<1>1. /\ runs \in Seq(Nat \X Nat) /\ n \in Nat
      /\ \A j \in 1..n : Pair(j)
      /\ \A j \in 1..n : runs[j][1] < runs[j][2] /\ runs[j][2] <= top
      /\ \A k, j \in 1..n : k < j => runs[k][2] <= runs[j][1]
      /\ \A x \in Nat : x \in I <=> \E j \in 1..n : runs[j][1] <= x /\ x < runs[j][2]
  BY DEF Cover
<1>1a. \A j \in 1..n : runs[j][1] \in Nat /\ runs[j][2] \in Nat
  BY <1>1
<1>1b. /\ \A j \in 1..n : runs[j][1] < runs[j][2] /\ runs[j][2] <= top
       /\ \A k, j \in 1..n : k < j => runs[k][2] <= runs[j][1]
       /\ n \in Nat
  BY <1>1
<1>2. CASE runs # <<>> /\ Last(runs)[2] = i
  <2> DEFINE front == Front(runs)
             q == Append(front, <<Last(runs)[1], i + 1>>)
  <2>1. GrownRuns(runs, i) = q
    BY <1>2 DEF GrownRuns
  <2>2. n >= 1 /\ Last(runs) = runs[n]
    BY <1>1, <1>2 DEF Last
  <2>3. front \in Seq(Nat \X Nat) /\ Len(front) = n - 1 /\ \A j \in 1..(n - 1) : front[j] = runs[j]
    <3>1. front = SubSeq(runs, 1, n - 1)
      BY DEF Front
    <3>2. 1 \in 1..(n + 1) /\ n - 1 \in 0..n /\ 1 <= (n - 1) + 1 /\ (n - 1) - 1 + 1 = n - 1
      BY <1>1, <2>2
    <3>3. \A j \in 1..(n - 1) : j + 1 - 1 = j
      BY <1>1, <2>2
    <3> HIDE DEF n, front
    <3>4. Len(runs) = n
      BY DEF n
    <3>5. QED
      BY <1>1, <3>1, <3>2, <3>3, <3>4, CutAt
  <2>4. n \in 1..n /\ Pair(n)
    BY <1>1, <2>2
  <2>5. q \in Seq(Nat \X Nat) /\ Len(q) = n /\ q[n] = <<runs[n][1], i + 1>>
        /\ \A j \in 1..(n - 1) : q[j] = runs[j]
    <3>1. <<runs[n][1], i + 1>> \in Nat \X Nat
      BY <2>4
    <3> HIDE DEF front, n
    <3>2. QED
      BY <1>1, <2>2, <2>3, <3>1
  <2> HIDE DEF q, front, n
  <2>6. runs[n][2] = i
    BY <1>2, <2>2
  <2>7. \A j \in 1..n : /\ q[j][1] = runs[j][1]
                        /\ q[j][2] = IF j = n THEN i + 1 ELSE runs[j][2]
    BY <1>1, <2>5
  <2>8. ASSUME NEW j \in 1..n PROVE q[j][1] < q[j][2] /\ q[j][2] <= i + 1
    <3>1. /\ runs[j][1] \in Nat /\ runs[j][2] \in Nat
          /\ runs[j][1] < runs[j][2] /\ runs[j][2] <= top
      BY <1>1a, <1>1b
    <3>2. CASE j = n
      BY <2>6, <2>7, <3>1, <3>2
    <3>3. CASE j # n
      BY <2>7, <3>1, <3>3
    <3>4. QED
      BY <3>2, <3>3
  <2>9. ASSUME NEW k \in 1..n, NEW j \in 1..n, k < j PROVE q[k][2] <= q[j][1]
    <3>1. k # n
      BY <1>1b, <2>9
    <3>2. q[k][2] = runs[k][2] /\ q[j][1] = runs[j][1]
      BY <2>7, <3>1
    <3>3. QED
      BY <1>1b, <2>9, <3>2
  <2>10. ASSUME NEW x \in Nat
         PROVE  x \in I \cup {i} <=> \E j \in 1..n : q[j][1] <= x /\ x < q[j][2]
    <3>1. CASE x = i
      <4>1. q[n][1] <= x /\ x < q[n][2]
        BY <1>1, <2>4, <2>6, <2>7, <3>1
      <4>2. QED
        BY <2>4, <3>1, <4>1
    <3>2. CASE x # i
      <4>1. \A j \in 1..n : (q[j][1] <= x /\ x < q[j][2]) <=> (runs[j][1] <= x /\ x < runs[j][2])
        BY <1>1, <2>6, <2>7, <3>2
      <4>2. QED
        BY <1>1, <3>2, <4>1
    <3>3. QED
      BY <3>1, <3>2
  <2>11. QED
    BY <2>1, <2>5, <2>8, <2>9, <2>10 DEF Cover
<1>3. CASE ~(runs # <<>> /\ Last(runs)[2] = i)
  <2> DEFINE q == Append(runs, <<i, i + 1>>)
  <2>1. GrownRuns(runs, i) = q
    BY <1>3 DEF GrownRuns
  <2>2. /\ q \in Seq(Nat \X Nat) /\ Len(q) = n + 1 /\ q[n + 1] = <<i, i + 1>>
        /\ \A j \in 1..n : q[j] = runs[j]
    <3>1. <<i, i + 1>> \in Nat \X Nat
      OBVIOUS
    <3>2. QED
      BY <1>1, <3>1
  <2> HIDE DEF q, n
  <2>3. ASSUME NEW j \in 1..(n + 1)
        PROVE  /\ j = n + 1 => q[j][1] = i /\ q[j][2] = i + 1
               /\ j # n + 1 => j \in 1..n /\ q[j][1] = runs[j][1] /\ q[j][2] = runs[j][2]
    <3>1. j # n + 1 => j \in 1..n
      BY <1>1b
    <3>2. QED
      BY <2>2, <3>1
  <2>4. ASSUME NEW j \in 1..(n + 1) PROVE q[j][1] < q[j][2] /\ q[j][2] <= i + 1
    <3>1. CASE j = n + 1
      BY <2>3, <3>1
    <3>2. CASE j # n + 1
      <4>1. /\ j \in 1..n /\ q[j][1] = runs[j][1] /\ q[j][2] = runs[j][2]
        BY <2>3, <3>2
      <4>2. QED
        BY <1>1a, <1>1b, <4>1
    <3>3. QED
      BY <3>1, <3>2
  <2>5. ASSUME NEW k \in 1..(n + 1), NEW j \in 1..(n + 1), k < j PROVE q[k][2] <= q[j][1]
    <3>1. k # n + 1 /\ k \in 1..n /\ q[k][2] = runs[k][2]
      <4>1. k # n + 1
        BY <1>1b, <2>5
      <4>2. QED
        BY <2>3, <4>1
    <3>2. CASE j = n + 1
      <4>1. q[j][1] = i
        BY <2>3, <3>2
      <4>2. runs[k][2] <= top /\ runs[k][2] \in Nat
        BY <1>1a, <1>1b, <3>1
      <4>3. QED
        BY <3>1, <4>1, <4>2
    <3>3. CASE j # n + 1
      BY <1>1b, <2>3, <2>5, <3>1, <3>3
    <3>4. QED
      BY <3>2, <3>3
  <2>6. ASSUME NEW x \in Nat
        PROVE  x \in I \cup {i} <=> \E j \in 1..(n + 1) : q[j][1] <= x /\ x < q[j][2]
    <3>1. CASE x = i
      <4>1. n + 1 \in 1..(n + 1) /\ q[n + 1][1] <= x /\ x < q[n + 1][2]
        BY <1>1, <2>3, <3>1
      <4>2. QED
        BY <3>1, <4>1
    <3>2. CASE x # i
      <4>1. ~(q[n + 1][1] <= x /\ x < q[n + 1][2])
        <5>1. n + 1 \in 1..(n + 1)
          BY <1>1b
        <5>2. q[n + 1][1] = i /\ q[n + 1][2] = i + 1
          BY <2>3, <5>1
        <5>3. QED
          BY <3>2, <5>2
      <4>2. \A j \in 1..n : q[j] = runs[j] /\ j \in 1..(n + 1)
        BY <1>1, <2>2
      <4>3. \A j \in 1..(n + 1) : j \in 1..n \/ j = n + 1
        BY <1>1
      <4>4. QED
        BY <1>1, <3>2, <4>1, <4>2, <4>3
    <3>3. QED
      BY <3>1, <3>2
  <2>7. QED
    BY <2>1, <2>2, <2>4, <2>5, <2>6 DEF Cover
<1>4. QED
  BY <1>2, <1>3
LEMMA GrownTyped ==
  ASSUME NEW runs \in Seq(Nat \X Nat), NEW i \in Nat
  PROVE  GrownRuns(runs, i) \in Seq(Nat \X Nat)
<1>1. CASE runs # <<>> /\ Last(runs)[2] = i
  <2>1. Len(runs) \in Nat /\ Len(runs) >= 1 /\ Last(runs) = runs[Len(runs)]
    BY <1>1 DEF Last
  <2>2. Last(runs)[1] \in Nat
    BY <2>1
  <2>3. Front(runs) \in Seq(Nat \X Nat)
    <3>1. 1 \in 1..(Len(runs) + 1) /\ Len(runs) - 1 \in 0..Len(runs) /\ 1 <= (Len(runs) - 1) + 1
      BY <2>1
    <3>2. QED
      BY <3>1, CutAt DEF Front
  <2>4. <<Last(runs)[1], i + 1>> \in Nat \X Nat
    BY <2>2
  <2>5. Append(Front(runs), <<Last(runs)[1], i + 1>>) \in Seq(Nat \X Nat)
    BY <2>3, <2>4
  <2>6. QED
    BY <1>1, <2>5 DEF GrownRuns
<1>2. CASE ~(runs # <<>> /\ Last(runs)[2] = i)
  <2>1. <<i, i + 1>> \in Nat \X Nat
    OBVIOUS
  <2>2. QED
    BY <1>2, <2>1 DEF GrownRuns
<1>3. QED
  BY <1>1, <1>2

GrownBy(idx, f, n) ==
  /\ f = [i \in 0..n |-> f[i]]
  /\ f[0] = <<>>
  /\ \A i \in 1..n : f[i] = GrownRuns(f[i - 1], idx[i])

LEMMA RunsMeaning ==
  ASSUME NEW idx \in Seq(Nat)
  PROVE  \E f : GrownBy(idx, f, Len(idx)) /\ IndexRuns(idx) = f[Len(idx)]
<1> DEFINE n == Len(idx)
           Is(f) == f = [i \in 0..n |-> IF i = 0 THEN <<>> ELSE GrownRuns(f[i - 1], idx[i])]
<1>1. IndexRuns(idx) = (CHOOSE f : Is(f))[n]
  BY DEF IndexRuns
<1>2. n \in Nat /\ \A i \in 1..n : idx[i] \in Nat
  OBVIOUS
<1> HIDE DEF n
<1>3. \A f : Is(f) <=> GrownBy(idx, f, n)
  <2> TAKE f
  <2> DEFINE g == [i \in 0..n |-> IF i = 0 THEN <<>> ELSE GrownRuns(f[i - 1], idx[i])]
  <2>1. /\ g = [i \in 0..n |-> g[i]] /\ g[0] = <<>>
        /\ \A i \in 1..n : g[i] = GrownRuns(f[i - 1], idx[i]) /\ i # 0
        /\ \A i \in 0..n : i = 0 \/ i \in 1..n
    BY <1>2
  <2> HIDE DEF g
  <2>2. ASSUME f = g PROVE GrownBy(idx, f, n)
    BY <2>1, <2>2 DEF GrownBy
  <2>3. ASSUME GrownBy(idx, f, n) PROVE f = g
    <3>1. \A i \in 0..n : f[i] = g[i]
      BY <2>1, <2>3 DEF GrownBy
    <3>2. [i \in 0..n |-> f[i]] = [i \in 0..n |-> g[i]]
      BY <3>1
    <3>3. QED
      BY <2>1, <2>3, <3>2 DEF GrownBy
  <2>4. QED
    BY <2>2, <2>3 DEF g
<1>4. \E f : GrownBy(idx, f, n)
  <2> DEFINE V == Seq(Nat \X Nat)
             step == [p \in (1..n) \X V |-> GrownRuns(p[2], idx[p[1]])]
  <2>1. Steps(step, V, n)
    <3>1. ASSUME NEW p \in (1..n) \X V PROVE GrownRuns(p[2], idx[p[1]]) \in V
      <4>1. p[1] \in 1..n /\ p[2] \in V /\ idx[p[1]] \in Nat
        BY <1>2
      <4>2. QED
        BY <4>1, GrownTyped
    <3> HIDE DEF V
    <3>2. QED
      BY <3>1 DEF Steps
  <2>2. <<>> \in V
    OBVIOUS
  <2>3. \A i \in 1..n, x \in V : step[<<i, x>>] = GrownRuns(x, idx[i])
    <3> HIDE DEF V
    <3>1. QED
      OBVIOUS
  <2> DEFINE none == <<>>
  <2> HIDE DEF V, step, none
  <2>4. PICK f : Walks(f, V, none, n, step)
    <3>1. n \in Nat /\ none \in V
      BY <1>2, <2>2 DEF none
    <3>2. QED
      BY <2>1, <3>1, StepsExist
  <2>5. \A i \in 1..n : f[i - 1] \in V
    BY <1>2, <2>4 DEF Walks
  <2>6. GrownBy(idx, f, n)
    BY <2>3, <2>4, <2>5 DEF GrownBy, Walks, none
  <2>7. QED
    BY <2>6
<1> HIDE DEF Is
<1>5. QED
  BY <1>1, <1>3, <1>4 DEF n

LEMMA IndexRunsCover ==
  ASSUME NEW idx \in Seq(Nat), \A i, j \in 1..Len(idx) : i < j => idx[i] < idx[j],
         NEW top \in Nat, \A i \in 1..Len(idx) : idx[i] < top
  PROVE  Cover(IndexRuns(idx), {idx[i] : i \in 1..Len(idx)}, top)
<1> DEFINE n == Len(idx)
           Upto(m) == {idx[i] : i \in 1..m}
           Top(m) == IF m = 0 THEN 0 ELSE idx[m] + 1
<1>1. n \in Nat /\ \A i \in 1..n : idx[i] \in Nat
  OBVIOUS
<1>2. PICK f : GrownBy(idx, f, n) /\ IndexRuns(idx) = f[n]
  BY RunsMeaning
<1>3. \A i, j \in 1..n : i < j => idx[i] < idx[j]
  OBVIOUS
<1>3a. \A i \in 1..n : idx[i] < top
  OBVIOUS
<1> HIDE DEF n
<1> DEFINE P == {m \in Nat : m <= n => Cover(f[m], Upto(m), Top(m))}
<1>4. 0 \in P
  <2>1. f[0] = <<>> /\ Upto(0) = {} /\ Top(0) = 0
    BY <1>2 DEF GrownBy
  <2>2. Cover(<<>>, {}, 0)
    BY DEF Cover
  <2> HIDE DEF Upto, Top
  <2>3. QED
    BY <2>1, <2>2
<1>5. ASSUME NEW m \in Nat, m \in P PROVE m + 1 \in P
  <2> SUFFICES ASSUME m + 1 <= n PROVE Cover(f[m + 1], Upto(m + 1), Top(m + 1))
    OBVIOUS
  <2>1. m + 1 \in 1..n /\ Cover(f[m], Upto(m), Top(m))
    BY <1>1, <1>5
  <2>2. f[m + 1] = GrownRuns(f[m], idx[m + 1])
    <3>1. (m + 1) - 1 = m
      OBVIOUS
    <3>2. QED
      BY <1>2, <2>1, <3>1 DEF GrownBy
  <2>3. idx[m + 1] \in Nat /\ Top(m) \in Nat /\ Top(m) <= idx[m + 1]
    <3>1. CASE m = 0
      BY <1>1, <2>1, <3>1
    <3>2. CASE m # 0
      <4>1. m \in 1..n /\ m < m + 1
        BY <1>1, <2>1, <3>2
      <4>2. idx[m] < idx[m + 1] /\ idx[m] \in Nat /\ idx[m + 1] \in Nat
        BY <1>1, <1>3, <2>1, <4>1
      <4>3. QED
        BY <3>2, <4>2
    <3>3. QED
      BY <3>1, <3>2
  <2>4. Upto(m + 1) = Upto(m) \cup {idx[m + 1]} /\ Top(m + 1) = idx[m + 1] + 1
    <3>1. \A i : i \in 1..(m + 1) <=> i \in 1..m \/ i = m + 1
      OBVIOUS
    <3>2. QED
      BY <3>1
  <2>5. Upto(m) \in SUBSET Nat
    <3>1. \A i \in 1..m : i \in 1..n
      BY <1>1, <2>1
    <3>2. QED
      BY <1>1, <3>1
  <2> HIDE DEF Upto, Top
  <2>6. Cover(GrownRuns(f[m], idx[m + 1]), Upto(m) \cup {idx[m + 1]}, idx[m + 1] + 1)
    BY <2>1, <2>3, <2>5, GrownCovers
  <2>7. QED
    BY <2>2, <2>4, <2>6
<1> HIDE DEF P
<1>6. \A m \in Nat : m \in P
  BY <1>4, <1>5, InductionOnSet
<1>7. Cover(f[n], Upto(n), Top(n))
  <2>1. n \in P /\ n <= n
    BY <1>1, <1>6
  <2> HIDE DEF Upto, Top
  <2>2. QED
    BY <2>1 DEF P
<1>8. Top(n) \in Nat /\ Top(n) <= top
  <2>1. CASE n = 0
    BY <2>1
  <2>2. CASE n # 0
    <3>1. n \in 1..n
      BY <1>1, <2>2
    <3>2. idx[n] \in Nat /\ idx[n] < top
      BY <1>1, <1>3a, <3>1
    <3>3. QED
      BY <2>2, <3>2
  <2>3. QED
    BY <2>1, <2>2
<1>9. Cover(f[n], Upto(n), top)
  <2> HIDE DEF Upto, Top
  <2>1. \A j \in 1..Len(f[n]) : f[n][j][2] \in Nat
    BY <1>7 DEF Cover
  <2>2. \A j \in 1..Len(f[n]) : f[n][j][2] <= top
    BY <1>7, <1>8, <2>1 DEF Cover
  <2>3. QED
    BY <1>7, <2>2 DEF Cover
<1>10. QED
  BY <1>2, <1>9 DEF n
-----------------------------------------------------------------------------
(* What is between the runs, joined.                                       *)

JoinedBy(items, runs, f, n) ==
  /\ f = [i \in 1..n |-> f[i]]
  /\ f[1] = <<>>
  /\ \A i \in 2..n : f[i] = f[i - 1] \o Slice(items, runs[i - 1][2], runs[i][1])

LEMMA JoinedMeaning ==
  ASSUME NEW S, NEW items \in Seq(S), NEW runs, NEW I, Cover(runs, I, Len(items)), NEW n \in Nat \ {0}, Len(runs) = n
  PROVE  \E f : /\ JoinedBy(items, runs, f, n)
                /\ DeleteRuns(items, runs) =
                     Slice(items, 0, runs[1][1]) \o f[n] \o Slice(items, Last(runs)[2], Len(items))
<1> DEFINE gap(i) == Slice(items, runs[i - 1][2], runs[i][1])
           Is(f) == f = [i \in 1..n |-> IF i = 1 THEN <<>> ELSE f[i - 1] \o gap(i)]
<1>1. DeleteRuns(items, runs) =
        Slice(items, 0, runs[1][1]) \o (CHOOSE f : Is(f))[n] \o Slice(items, Last(runs)[2], Len(items))
  BY DEF DeleteRuns
<1>3. \A f : Is(f) <=> JoinedBy(items, runs, f, n)
  <2> TAKE f
  <2> DEFINE g == [i \in 1..n |-> IF i = 1 THEN <<>> ELSE f[i - 1] \o gap(i)]
  <2>1. /\ g = [i \in 1..n |-> g[i]] /\ g[1] = <<>>
        /\ \A i \in 2..n : g[i] = f[i - 1] \o gap(i)
        /\ \A i \in 1..n : i = 1 \/ i \in 2..n
    <3> HIDE DEF gap
    <3>1. /\ 1 \in 1..n /\ \A i \in 2..n : i \in 1..n /\ i # 1
          /\ \A i \in 1..n : i = 1 \/ i \in 2..n
      OBVIOUS
    <3>2. \A i \in 1..n : g[i] = IF i = 1 THEN <<>> ELSE f[i - 1] \o gap(i)
      OBVIOUS
    <3>3. g = [i \in 1..n |-> g[i]]
      OBVIOUS
    <3>4. QED
      BY <3>1, <3>2, <3>3
  <2> HIDE DEF g
  <2>2. ASSUME f = g PROVE JoinedBy(items, runs, f, n)
    BY <2>1, <2>2 DEF JoinedBy
  <2>3. ASSUME JoinedBy(items, runs, f, n) PROVE f = g
    <3>0. \A i \in 2..n : f[i] = f[i - 1] \o gap(i)
      BY <2>3 DEF JoinedBy
    <3> HIDE DEF gap
    <3>1. \A i \in 1..n : f[i] = g[i]
      BY <2>1, <2>3, <3>0 DEF JoinedBy
    <3>2. [i \in 1..n |-> f[i]] = [i \in 1..n |-> g[i]]
      BY <3>1
    <3>3. QED
      BY <2>1, <2>3, <3>2 DEF JoinedBy
  <2>4. QED
    BY <2>2, <2>3 DEF g
<1>4. \E f : JoinedBy(items, runs, f, n)
  <2> DEFINE V == Seq(S)
             part(i) == IF i \in 2..n THEN gap(i) ELSE <<>>
             step == [p \in (1..n) \X V |-> p[2] \o part(p[1])]
  <2>1. ASSUME NEW i \in 1..n PROVE part(i) \in Seq(S)
    <3>1. CASE i \in 2..n
      <4>1. i - 1 \in 1..n
        BY <3>1
      <4>2. /\ runs[i - 1][2] \in Nat /\ runs[i][1] \in Nat /\ runs[i][2] \in Nat
            /\ runs[i - 1][2] <= runs[i][1] /\ runs[i][1] < runs[i][2] /\ runs[i][2] <= Len(items)
        <5>1. runs \in Seq(Nat \X Nat) /\ i \in 1..n /\ i - 1 < i
          BY <3>1 DEF Cover
        <5>2. QED
          BY <4>1, <5>1 DEF Cover
      <4>3. SubSeq(items, runs[i - 1][2] + 1, runs[i][1]) \in Seq(S)
        <5> DEFINE lo == runs[i - 1][2]
                   hi == runs[i][1]
        <5>1. lo + 1 \in 1..(Len(items) + 1) /\ hi \in 0..Len(items) /\ lo + 1 <= hi + 1
          BY <4>2
        <5> HIDE DEF lo, hi
        <5>2. SubSeq(items, lo + 1, hi) \in Seq(S)
          BY <5>1, CutAt
        <5>3. QED
          BY <5>2 DEF lo, hi
      <4>4. QED
        BY <3>1, <4>3 DEF Slice
    <3>2. CASE i \notin 2..n
      BY <3>2
    <3>3. QED
      BY <3>1, <3>2
  <2>2. Steps(step, V, n)
    <3> HIDE DEF part
    <3>1. ASSUME NEW p \in (1..n) \X V PROVE p[2] \o part(p[1]) \in V
      <4>1. p[1] \in 1..n /\ p[2] \in Seq(S)
        OBVIOUS
      <4>2. QED
        BY <2>1, <4>1
    <3> HIDE DEF V
    <3>2. QED
      BY <3>1 DEF Steps
  <2>3. \A i \in 1..n, x \in V : step[<<i, x>>] = x \o part(i)
    <3> HIDE DEF V, part
    <3>1. QED
      OBVIOUS
  <2> DEFINE none == <<>>
  <2>4. n \in Nat /\ none \in V
    OBVIOUS
  <2>4a. \A i \in 2..n : part(i) = gap(i)
    OBVIOUS
  <2>4b. part(1) = <<>>
    OBVIOUS
  <2> HIDE DEF V, step, none, part
  <2>5. PICK f : Walks(f, V, none, n, step)
    BY <2>2, <2>4, StepsExist
  <2> DEFINE g == [i \in 1..n |-> f[i]]
  <2>6. /\ \A i \in 1..n : f[i] = f[i - 1] \o part(i)
        /\ f[0] = <<>>
    <3>1. /\ f \in [0..n -> V] /\ f[0] = <<>>
          /\ \A i \in 1..n : f[i] = step[<<i, f[i - 1]>>]
      BY <2>5 DEF Walks, none
    <3>2. \A i \in 1..n : i - 1 \in 0..n
      OBVIOUS
    <3>3. \A i \in 1..n : f[i - 1] \in V
      BY <3>1, <3>2
    <3>4. QED
      BY <2>3, <3>1, <3>3
  <2>7. f[1] = <<>>
    <3>1. 1 \in 1..n /\ 1 - 1 = 0
      OBVIOUS
    <3>2. f[1] = <<>> \o <<>>
      BY <2>4b, <2>6, <3>1
    <3>3. QED
      BY <3>2
  <2>8. ASSUME NEW i \in 2..n PROVE g[i] = g[i - 1] \o gap(i)
    <3>1. i \in 1..n /\ i - 1 \in 1..n
      OBVIOUS
    <3>2. g[i] = f[i] /\ g[i - 1] = f[i - 1]
      BY <3>1
    <3> HIDE DEF g, gap
    <3>3. f[i] = f[i - 1] \o part(i)
      BY <2>6, <3>1
    <3>4. QED
      BY <2>4a, <3>2, <3>3
  <2>9. JoinedBy(items, runs, g, n)
    <3>1. g = [i \in 1..n |-> g[i]] /\ g[1] = f[1]
      OBVIOUS
    <3> HIDE DEF g
    <3>2. QED
      BY <2>7, <2>8, <3>1 DEF JoinedBy
  <2>10. QED
    BY <2>9
<1> HIDE DEF Is
<1>5. QED
  BY <1>1, <1>3, <1>4
=============================================================================
