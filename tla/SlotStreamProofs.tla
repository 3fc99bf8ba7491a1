-------------------------- MODULE SlotStreamProofs --------------------------
(***************************************************************************)
(* The order keys stay strictly increasing for every set of slots, every   *)
(* nominal gap, every minimum step and runs of every length.               *)
(***************************************************************************)
EXTENDS SlotStream, ListProofs

Inv == TypeOK /\ NoRepeats /\ OrderMonotone

-----------------------------------------------------------------------------
(* Integer division leaves at least k per part when there is room for k,   *)
(* and the parts fit in the whole.                                         *)
LEMMA DivRoom ==
  ASSUME NEW D \in Int, NEW m \in Nat \ {0}, NEW k \in Nat, D >= m * k
  PROVE  /\ D \div m \in Int
         /\ D \div m >= k
         /\ m * (D \div m) <= D
<1> DEFINE q == D \div m
<1>1. q \in Int /\ m * q <= D /\ D < m * q + m
  BY Z3
<1>2. q >= k
  <2>1. SUFFICES ASSUME q < k PROVE FALSE
    BY <1>1
  <2>2. q + 1 <= k
    BY <2>1, <1>1
  <2>3. m * (q + 1) <= m * k
    BY <2>2, <1>1
  <2>4. QED
    BY <1>1, <2>3
<1>3. QED
  BY <1>1, <1>2

(* A larger index of an even spread has a larger key. *)
LEMMA SpreadIncreases ==
  ASSUME NEW low \in Int, NEW step \in Nat \ {0}, NEW i \in Int, NEW j \in Int, i < j
  PROVE  /\ low + i * step \in Int
         /\ low + i * step < low + j * step
         /\ (low + j * step) - (low + i * step) >= step
<1>1. (j - i) * step >= step
  BY Z3
<1>2. j * step - i * step = (j - i) * step
  BY Z3
<1>3. i * step \in Int /\ j * step \in Int
  OBVIOUS
<1>4. QED
  BY <1>1, <1>2, <1>3

(* Widening reaches the end of the stream. *)
LEMMA ProbesReachTheEnd ==
  ASSUME TypeOK, NEW p \in Nat, 0 < p, p < Len(stream)
  PROVE  /\ Reach(p) \in Nat \ {0}
         /\ Reach(p) <= p
         /\ p + Reach(p) <= Len(stream)
         /\ AtEnd(p, Reach(p))
         /\ Probes(p) \subseteq 1..Reach(p)
         /\ Closed(p, Probes(p))
         /\ Reach(p) \in Probes(p)
<1>1. Len(stream) \in Nat
  BY DEF TypeOK
<1>2. /\ Reach(p) \in Nat \ {0}
      /\ Reach(p) <= p
      /\ p + Reach(p) <= Len(stream)
      /\ AtEnd(p, Reach(p))
  BY <1>1 DEF Reach, Smaller, AtEnd
<1>3. \A r \in 1..Reach(p) : Widened(p, r) \in 1..Reach(p)
  BY <1>2 DEF Widened, Smaller
<1>4. 1 \in Probes(p)
  BY <1>2 DEF Probes, Closed
<1>5. ASSUME NEW r \in Probes(p) PROVE Widened(p, r) \in Probes(p)
  BY <1>3 DEF Probes, Closed
<1>6. Closed(p, Probes(p))
  BY <1>4, <1>5 DEF Closed
<1>7. Probes(p) \in SUBSET Nat /\ \A r \in Probes(p) : r <= Reach(p)
  BY <1>2 DEF Probes
<1>8. PICK m \in Probes(p) : \A r \in Probes(p) : r <= m
  BY <1>2, <1>4, <1>7, GreatestElement
<1>9. m \in 1..Reach(p)
  BY DEF Probes
<1>10. Widened(p, m) \in Probes(p) /\ Widened(p, m) <= m
  BY <1>5, <1>8
<1>11. m = Reach(p)
  BY <1>2, <1>9, <1>10 DEF Widened, Smaller
<1>12. QED
  BY <1>2, <1>6, <1>11 DEF Probes

(* The doubling window always finds a radius with room. *)
LEMMA RadiusExists ==
  ASSUME TypeOK, NEW p \in Nat, NEW count \in Nat, 0 < p, p < Len(stream)
  PROVE  /\ RespreadRadius(p, count) \in Probes(p)
         /\ RespreadRadius(p, count) \in Nat \ {0}
         /\ RespreadRadius(p, count) <= p
         /\ p + RespreadRadius(p, count) <= Len(stream)
         /\ Roomy(p, count, RespreadRadius(p, count))
         /\ \A q \in Probes(p) : Roomy(p, count, q) => RespreadRadius(p, count) <= q
<1> DEFINE T == {r \in Probes(p) : Roomy(p, count, r)}
<1>1. Len(stream) \in Nat
  BY DEF TypeOK
<1>2. /\ Reach(p) \in Nat \ {0} /\ Reach(p) <= p /\ p + Reach(p) <= Len(stream)
      /\ Probes(p) \subseteq 1..Reach(p)
  BY ProbesReachTheEnd
<1>3. Reach(p) \in T
  BY ProbesReachTheEnd DEF Roomy
<1>4. T \in SUBSET Nat
  BY <1>2
<1>5. PICK r \in T : \A q \in T : r <= q
  BY <1>3, <1>4, LeastElement
<1>6. /\ RespreadRadius(p, count) \in Probes(p)
      /\ Roomy(p, count, RespreadRadius(p, count))
      /\ \A q \in Probes(p) : Roomy(p, count, q) => RespreadRadius(p, count) <= q
  BY <1>5 DEF RespreadRadius
<1>7. QED
  BY <1>1, <1>2, <1>6

(* A relabelling keeps the keys increasing and opens the seam. *)
LEMMA RespreadOpens ==
  ASSUME Inv, NEW p \in Nat, NEW count \in Nat, 0 < p, p < Len(stream)
  PROVE  LET ord == Respread(p, count)
         IN  /\ ord \in [Slot -> Int]
             /\ \A i, j \in 1..Len(stream) : i < j => ord[stream[i]] < ord[stream[j]]
             /\ ord[stream[p + 1]] - ord[stream[p]] >= count + 1
<1> DEFINE r    == RespreadRadius(p, count)
           lo   == RespreadLow(p, count, r)
           hi   == RespreadHigh(p, count, r)
           w    == 2 * r + 1
           step == (hi - lo) \div w
           ord  == Respread(p, count)
<1>1. /\ Len(stream) \in Nat
      /\ \A i \in 1..Len(stream) : stream[i] \in Slot /\ Key(i) \in Int
  BY DEF Inv, TypeOK, Key
<1>2. /\ r \in Nat \ {0} /\ r <= p /\ p + r <= Len(stream)
      /\ Roomy(p, count, r)
  BY RadiusExists DEF Inv
<1> HIDE DEF r
<1>3. w \in Nat \ {0} /\ 2 * r \in Nat
  BY <1>2
<1>4. Need(count) \in Nat /\ Need(count) >= count + 1
      /\ Larger(OrderGap, Need(count)) \in Nat
      /\ Larger(OrderGap, Need(count)) >= Need(count)
  BY GapAssumption, MinStepAssumption DEF Need, Larger
<1>5. /\ lo \in Int /\ hi \in Int
      /\ hi - lo >= w * Need(count)
  <2> DEFINE L == Larger(OrderGap, Need(count))
  <2>1. w * L >= w * Need(count) /\ w * L \in Int /\ w * Need(count) \in Int
    <3>1. L \in Nat /\ Need(count) \in Nat /\ L - Need(count) >= 0
      BY <1>4
    <3>2. w * (L - Need(count)) >= 0
      BY <3>1, <1>3
    <3>3. QED
      BY <3>1, <3>2, <1>3
  <2>2. CASE p - r >= 1 /\ p + r < Len(stream)
    <3>1. lo = Key(p - r) /\ hi = Key(p + r + 1)
      BY <2>2 DEF RespreadLow, RespreadHigh
    <3>2. Key(p + r + 1) - Key(p - r) >= w * Need(count)
      BY <1>1, <1>2, <2>2 DEF Roomy, AtEnd
    <3>3. QED
      BY <1>1, <1>2, <2>2, <3>1, <3>2
  <2>3. CASE p - r >= 1 /\ ~(p + r < Len(stream))
    <3>1. lo = Key(p - r) /\ hi = lo + w * L
      BY <2>3 DEF RespreadLow, RespreadHigh
    <3>2. QED
      BY <1>1, <1>2, <2>1, <2>3, <3>1
  <2>4. CASE ~(p - r >= 1) /\ ~(p + r < Len(stream))
    <3>1. lo = Key(1) - w * L /\ hi = lo + w * L
      BY <2>4 DEF RespreadLow, RespreadHigh
    <3>2. QED
      BY <1>1, <1>2, <2>1, <3>1
  <2>5. CASE ~(p - r >= 1) /\ p + r < Len(stream)
    <3>1. lo = Key(1) - w * L /\ hi = Key(p + r + 1)
      BY <2>5 DEF RespreadLow, RespreadHigh
    <3>2. Key(1) < Key(p + r + 1) /\ Key(1) \in Int /\ Key(p + r + 1) \in Int
      BY <1>1, <1>2, <2>5 DEF Inv, OrderMonotone
    <3>3. QED
      BY <2>1, <3>1, <3>2
  <2>6. QED
    BY <2>2, <2>3, <2>4, <2>5
<1> HIDE DEF lo, hi
<1>6. step \in Int /\ step >= Need(count) /\ w * step <= hi - lo
  <2>1. hi - lo \in Int
    BY <1>5
  <2>2. QED
    BY <2>1, <1>3, <1>4, <1>5, DivRoom
<1> HIDE DEF step, w
<1>7. \A s \in Slot :
        ord[s] = IF \E j \in (p - r + 1)..(p + r) : stream[j] = s
                   THEN lo + (CHOOSE i \in 1..(2 * r) : stream[p - r + i] = s) * step
                   ELSE order[s]
  BY DEF Respread, r, lo, hi, step, w
<1>8. \A i \in 1..(2 * r) :
        /\ p - r + i \in 1..Len(stream)
        /\ ord[stream[p - r + i]] = lo + i * step
  <2> SUFFICES ASSUME NEW i \in 1..(2 * r)
               PROVE  /\ p - r + i \in 1..Len(stream)
                      /\ ord[stream[p - r + i]] = lo + i * step
    OBVIOUS
  <2>1. /\ p - r + i \in 1..Len(stream)
        /\ p - r + i \in (p - r + 1)..(p + r)
    BY <1>1, <1>2
  <2>2. (CHOOSE k \in 1..(2 * r) : stream[p - r + k] = stream[p - r + i]) = i
    <3>1. \A k \in 1..(2 * r) : stream[p - r + k] = stream[p - r + i] => k = i
      <4>1. \A k \in 1..(2 * r) : p - r + k \in 1..Len(stream)
        BY <1>1, <1>2
      <4>2. \A k \in 1..(2 * r) :
              stream[p - r + k] = stream[p - r + i] => p - r + k = p - r + i
        BY <4>1, <2>1 DEF Inv, NoRepeats
      <4>3. QED
        BY <4>2, <1>2
    <3>2. QED
      BY <3>1
  <2>3. QED
    BY <2>1, <2>2, <1>7, <1>1
<1>9. \A k \in 1..Len(stream) : k <= p - r \/ k > p + r => ord[stream[k]] = Key(k)
  <2> SUFFICES ASSUME NEW k \in 1..Len(stream), k <= p - r \/ k > p + r
               PROVE  ord[stream[k]] = Key(k)
    OBVIOUS
  <2>1. \A j \in (p - r + 1)..(p + r) : j \in 1..Len(stream) /\ j # k
    BY <1>1, <1>2
  <2>2. ~ \E j \in (p - r + 1)..(p + r) : stream[j] = stream[k]
    BY <2>1 DEF Inv, NoRepeats
  <2>3. QED
    BY <2>2, <1>7, <1>1 DEF Key
<1>10. step \in Nat \ {0} /\ step >= count + 1
  BY <1>4, <1>6
<1>11. \A i \in 1..(2 * r) : lo < lo + i * step /\ lo + i * step < hi /\ lo + i * step \in Int
  <2> SUFFICES ASSUME NEW i \in 1..(2 * r)
               PROVE  lo < lo + i * step /\ lo + i * step < hi /\ lo + i * step \in Int
    OBVIOUS
  <2>1. i \in Int /\ 0 \in Int /\ 0 < i /\ i < w /\ w \in Int
    BY <1>2 DEF w
  <2>2. lo + 0 * step < lo + i * step /\ lo + i * step < lo + w * step /\ lo + i * step \in Int
    BY <2>1, <1>5, <1>10, SpreadIncreases
  <2>3. lo + w * step <= hi /\ w * step \in Int
    BY <1>5, <1>6, <2>1
  <2>4. lo + 0 * step = lo
    BY <1>5, <1>10
  <2>5. QED
    BY <2>2, <2>3, <2>4, <1>5
<1>12. /\ \A k \in 1..(p - r) : Key(k) <= lo
       /\ \A k \in (p + r + 1)..Len(stream) : hi <= Key(k)
  <2>1. ASSUME NEW k \in 1..(p - r) PROVE Key(k) <= lo
    <3>1. lo = Key(p - r) /\ p - r \in 1..Len(stream) /\ k \in 1..Len(stream)
      BY <1>1, <1>2, <2>1 DEF lo, RespreadLow
    <3>2. QED
      BY <3>1, <1>1 DEF Inv, OrderMonotone
  <2>2. ASSUME NEW k \in (p + r + 1)..Len(stream) PROVE hi <= Key(k)
    <3>1. hi = Key(p + r + 1) /\ p + r + 1 \in 1..Len(stream) /\ k \in 1..Len(stream)
      BY <1>1, <1>2, <2>2 DEF hi, RespreadHigh
    <3>2. QED
      BY <3>1, <1>1 DEF Inv, OrderMonotone
  <2>3. QED
    BY <2>1, <2>2
<1>13. ord \in [Slot -> Int]
  <2>1. ASSUME NEW s \in Slot, NEW j \in (p - r + 1)..(p + r), stream[j] = s
        PROVE  ord[s] \in Int
    <3>1. j - (p - r) \in 1..(2 * r) /\ p - r + (j - (p - r)) = j
      BY <1>2
    <3>2. QED
      BY <3>1, <2>1, <1>8, <1>11
  <2>2. ASSUME NEW s \in Slot PROVE ord[s] \in Int
    BY <2>1, <1>7 DEF Inv, TypeOK
  <2>3. QED
    BY <2>2 DEF Respread
<1>14. ASSUME NEW i \in 1..Len(stream), NEW j \in 1..Len(stream), i < j
       PROVE  ord[stream[i]] < ord[stream[j]]
  <2> DEFINE a == i - (p - r)
             b == j - (p - r)
  <2>1. CASE i <= p - r /\ j <= p - r
    BY <2>1, <1>1, <1>9, <1>14 DEF Inv, OrderMonotone
  <2>2. CASE i <= p - r /\ b \in 1..(2 * r)
    <3>1. ord[stream[i]] = Key(i) /\ Key(i) <= lo
      BY <2>2, <1>1, <1>2, <1>9, <1>12
    <3>2. ord[stream[j]] = lo + b * step
      <4>1. p - r + b = j
        BY <1>2, <2>2
      <4>2. QED
        BY <4>1, <2>2, <1>8
    <3>3. QED
      BY <3>1, <3>2, <2>2, <1>1, <1>5, <1>11
  <2>3. CASE i <= p - r /\ j > p + r
    BY <2>3, <1>1, <1>2, <1>9, <1>14 DEF Inv, OrderMonotone
  <2>4. CASE a \in 1..(2 * r) /\ b \in 1..(2 * r)
    <3>1. p - r + a = i /\ p - r + b = j /\ a < b /\ a \in Int /\ b \in Int
      BY <1>2, <1>14, <2>4
    <3>2. ord[stream[i]] = lo + a * step /\ ord[stream[j]] = lo + b * step
      <4>1. ord[stream[p - r + a]] = lo + a * step
        BY <2>4, <1>8
      <4>2. ord[stream[p - r + b]] = lo + b * step
        BY <2>4, <1>8
      <4>3. QED
        BY <4>1, <4>2, <3>1
    <3>3. lo + a * step < lo + b * step
      BY <3>1, <1>5, <1>10, SpreadIncreases
    <3>4. QED
      BY <3>2, <3>3
  <2>5. CASE a \in 1..(2 * r) /\ j > p + r
    <3>1. ord[stream[j]] = Key(j) /\ hi <= Key(j)
      BY <2>5, <1>1, <1>2, <1>9, <1>12
    <3>2. ord[stream[i]] = lo + a * step
      <4>1. p - r + a = i
        BY <1>2, <2>5
      <4>2. QED
        BY <4>1, <2>5, <1>8
    <3>3. QED
      BY <3>1, <3>2, <2>5, <1>1, <1>5, <1>11
  <2>6. CASE i > p + r /\ j > p + r
    BY <2>6, <1>1, <1>2, <1>9, <1>14 DEF Inv, OrderMonotone
  <2>7. QED
    BY <1>1, <1>2, <1>14, <2>1, <2>2, <2>3, <2>4, <2>5, <2>6
<1>15. ord[stream[p + 1]] - ord[stream[p]] >= count + 1
  <2>1. r \in 1..(2 * r) /\ r + 1 \in 1..(2 * r) /\ p - r + r = p /\ p - r + (r + 1) = p + 1
    BY <1>2
  <2>2. ord[stream[p - r + r]] = lo + r * step
    BY <2>1, <1>8
  <2>3. ord[stream[p - r + (r + 1)]] = lo + (r + 1) * step
    BY <2>1, <1>8
  <2>4. (lo + (r + 1) * step) - (lo + r * step) >= step
    <3>1. r \in Int /\ r + 1 \in Int /\ r < r + 1
      BY <1>2
    <3>2. QED
      BY <3>1, <1>5, <1>10, SpreadIncreases
  <2>5. lo + (r + 1) * step \in Int /\ lo + r * step \in Int
    BY <2>1, <1>11
  <2>6. ord[stream[p]] = lo + r * step /\ ord[stream[p + 1]] = lo + (r + 1) * step
    BY <2>1, <2>2, <2>3
  <2> HIDE DEF ord
  <2>7. ord[stream[p + 1]] - ord[stream[p]] >= step
    BY <2>4, <2>6, Zenon
  <2>8. ord[stream[p + 1]] \in Int /\ ord[stream[p]] \in Int
    BY <2>5, <2>6, Zenon
  <2>9. QED
    BY <2>7, <2>8, <1>10
<1>16. QED
  BY <1>13, <1>14, <1>15

-----------------------------------------------------------------------------
(* Once opened, every seam offers a step of at least one key.              *)
LEMMA OpenedSeam ==
  ASSUME Inv, NEW p \in 0..Len(stream), NEW count \in Nat
  PROVE  LET ord == Opened(p, count)
         IN  /\ ord \in [Slot -> Int]
             /\ \A i, j \in 1..Len(stream) : i < j => ord[stream[i]] < ord[stream[j]]
             /\ 0 < p /\ p < Len(stream)
                  => ord[stream[p + 1]] - ord[stream[p]] >= count + 1
<1>1. Len(stream) \in Nat
      /\ \A i \in 1..Len(stream) : stream[i] \in Slot
  BY DEF Inv, TypeOK
<1>2. CASE Exhausted(p, count)
  <2>1. p \in Nat /\ 0 < p /\ p < Len(stream)
    BY <1>1, <1>2 DEF Exhausted
  <2>2. Opened(p, count) = Respread(p, count)
    BY <1>2 DEF Opened
  <2>3. QED
    BY <2>1, <2>2, RespreadOpens
<1>3. CASE ~Exhausted(p, count)
  <2>1. Opened(p, count) = order
    BY <1>3 DEF Opened
  <2>2. 0 < p /\ p < Len(stream) => Key(p + 1) - Key(p) >= count + 1
    BY <1>1, <1>3 DEF Exhausted, Key, Inv, TypeOK
  <2>3. QED
    BY <2>1, <2>2 DEF Inv, TypeOK, OrderMonotone, Key
<1>4. QED
  BY <1>2, <1>3

(* The three parts of a spliced stream. *)
LEMMA SplicedParts ==
  ASSUME TypeOK, NEW p \in 0..Len(stream), NEW k \in Nat, NEW run \in [1..k -> Slot]
  PROVE  /\ Len(run) = k
         /\ Spliced(p, run) \in Seq(Slot)
         /\ Len(Spliced(p, run)) = Len(stream) + k
         /\ \A i \in 1..(Len(stream) + k) :
              Spliced(p, run)[i] = IF i <= p THEN stream[i]
                                   ELSE IF i <= p + k THEN run[i - p]
                                   ELSE stream[i - k]
<1>1. Len(stream) \in Nat /\ stream \in [1..Len(stream) -> Slot]
  BY DEF TypeOK
<1>2. Len(run) = k /\ run \in Seq(Slot)
  OBVIOUS
<1> DEFINE new == Spliced(p, run)
<1>3. new = [i \in 1..(Len(stream) + k) |->
               IF i <= p THEN stream[i]
               ELSE IF i <= p + k THEN run[i - p]
               ELSE stream[i - k]]
  BY <1>2 DEF Spliced
<1>4. ASSUME NEW i \in 1..(Len(stream) + k)
      PROVE  (IF i <= p THEN stream[i]
              ELSE IF i <= p + k THEN run[i - p]
              ELSE stream[i - k]) \in Slot
  <2>1. CASE i <= p
    BY <2>1, <1>1
  <2>2. CASE ~(i <= p) /\ i <= p + k
    <3>1. i - p \in 1..k
      BY <2>2, <1>1
    <3>2. QED
      BY <2>2, <3>1
  <2>3. CASE ~(i <= p) /\ ~(i <= p + k)
    <3>1. i - k \in 1..Len(stream)
      BY <2>3, <1>1
    <3>2. QED
      BY <2>3, <3>1, <1>1
  <2>4. QED
    BY <2>1, <2>2, <2>3
<1>5. new \in [1..(Len(stream) + k) -> Slot]
  BY <1>3, <1>4
<1>6. Len(stream) + k \in Nat
  BY <1>1
<1>7. QED
  BY <1>2, <1>3, <1>5, <1>6

(* Linking a run keeps the stream well formed and its keys increasing.     *)
LEMMA StitchKeepsInv ==
  ASSUME Inv, NEW p \in 0..Len(stream), NEW run \in Runs, StitchRun(p, run)
  PROVE  Inv'
<1>1. PICK k \in 0..MaxRun :
        /\ run \in [1..k -> Slot \ Linked]
        /\ \A i, j \in 1..k : run[i] = run[j] => i = j
  BY DEF Runs
<1> DEFINE n   == Len(stream)
           ord == Opened(p, k)
           new == Spliced(p, run)
           st  == RunStep(ord, p, k)
           fst == RunFirst(ord, p, k)
<1>2. /\ n \in Nat /\ k \in Nat /\ p \in Nat /\ p <= n
      /\ run \in [1..k -> Slot]
      /\ \A i \in 1..n : stream[i] \in Slot
  BY <1>1, MaxRunAssumption DEF Inv, TypeOK
<1>3. /\ Len(run) = k
      /\ new \in Seq(Slot)
      /\ Len(new) = n + k
      /\ \A i \in 1..(n + k) : new[i] = IF i <= p THEN stream[i]
                                        ELSE IF i <= p + k THEN run[i - p]
                                        ELSE stream[i - k]
  BY <1>2, SplicedParts DEF Inv
<1>4. stream' = new /\ order' = Stamped(ord, p, run)
  BY <1>3 DEF StitchRun
<1>5. /\ ord \in [Slot -> Int]
      /\ \A i, j \in 1..n : i < j => ord[stream[i]] < ord[stream[j]]
      /\ 0 < p /\ p < n => ord[stream[p + 1]] - ord[stream[p]] >= k + 1
  BY <1>2, OpenedSeam
<1> HIDE DEF new, ord
<1>6. \A i \in 1..n, j \in 1..k : stream[i] # run[j]
  BY <1>1 DEF Linked
<1>7. NoRepeats'
  <2>1. SUFFICES ASSUME NEW i \in 1..(n + k), NEW j \in 1..(n + k), new[i] = new[j], i < j
                 PROVE  FALSE
    BY <1>3, <1>4, <1>2 DEF NoRepeats
  <2>2. CASE j <= p
    <3>1. i \in 1..n /\ j \in 1..n /\ i <= p
      BY <2>1, <2>2, <1>2
    <3>2. new[i] = stream[i] /\ new[j] = stream[j]
      BY <2>2, <3>1, <1>3
    <3>3. stream[i] = stream[j]
      BY <3>2, <2>1
    <3>4. QED
      BY <3>1, <3>3, <2>1, <1>2 DEF Inv, NoRepeats
  <2>3. CASE i <= p /\ p < j /\ j <= p + k
    <3>1. i \in 1..n /\ j - p \in 1..k /\ stream[i] = run[j - p]
      BY <2>1, <2>3, <1>2, <1>3
    <3>2. QED
      BY <3>1, <1>6
  <2>4. CASE i <= p /\ p + k < j
    <3>1. i \in 1..n /\ j - k \in 1..n /\ stream[i] = stream[j - k] /\ i # j - k
      BY <2>1, <2>4, <1>2, <1>3
    <3>2. QED
      BY <3>1 DEF Inv, NoRepeats
  <2>5. CASE p < i /\ j <= p + k
    <3>1. i - p \in 1..k /\ j - p \in 1..k /\ run[i - p] = run[j - p] /\ i - p # j - p
      BY <2>1, <2>5, <1>2, <1>3
    <3>2. QED
      BY <3>1, <1>1
  <2>6. CASE p < i /\ i <= p + k /\ p + k < j
    <3>1. i - p \in 1..k /\ j - k \in 1..n /\ stream[j - k] = run[i - p]
      BY <2>1, <2>6, <1>2, <1>3
    <3>2. QED
      BY <3>1, <1>6
  <2>7. CASE p + k < i
    <3>1. i - k \in 1..n /\ j - k \in 1..n /\ stream[i - k] = stream[j - k] /\ i - k # j - k
      BY <2>1, <2>7, <1>2, <1>3
    <3>2. QED
      BY <3>1 DEF Inv, NoRepeats
  <2>8. QED
    BY <2>1, <2>2, <2>3, <2>4, <2>5, <2>6, <2>7, <1>2
<1>8. /\ st \in Nat \ {0}
      /\ fst \in Int
      /\ p > 0 => fst = ord[stream[p]] + st
      /\ p < n /\ k > 0 => fst + (k - 1) * st < ord[stream[p + 1]]
  <2>1. CASE 0 < p /\ p < n
    <3> DEFINE D == ord[stream[p + 1]] - ord[stream[p]]
    <3>1. D \in Int /\ ord[stream[p]] \in Int /\ ord[stream[p + 1]] \in Int
      BY <2>1, <1>2, <1>5
    <3>2. D >= (k + 1) * 1 /\ k + 1 \in Nat \ {0} /\ 1 \in Nat
      BY <2>1, <1>2, <1>5
    <3>3. st = D \div (k + 1) /\ fst = ord[stream[p]] + st
      BY <2>1 DEF RunStep, RunFirst
    <3>4. D = ord[stream[p + 1]] - ord[stream[p]]
      OBVIOUS
    <3> HIDE DEF st, fst, D
    <3>5. st \in Int /\ st >= 1 /\ (k + 1) * st <= D
      BY <3>1, <3>2, <3>3, DivRoom
    <3> DEFINE rest == (k - 1) * st
    <3>6. rest + st + st = (k + 1) * st /\ rest \in Int
      BY <3>5, <1>2
    <3> HIDE DEF rest
    <3>7. rest + st + st <= D
      BY <3>5, <3>6
    <3>8. fst + rest < ord[stream[p + 1]]
      <4>1. fst = ord[stream[p]] + st
        BY <3>3
      <4>2. st \in Int /\ st >= 1 /\ rest \in Int
        BY <3>5, <3>6
      <4>3. QED
        BY <4>1, <4>2, <3>1, <3>4, <3>7
    <3>9. fst + (k - 1) * st < ord[stream[p + 1]]
      BY <3>8 DEF rest
    <3>10. st \in Nat \ {0} /\ fst \in Int
      BY <3>1, <3>3, <3>5
    <3>11. QED
      BY <3>3, <3>9, <3>10
  <2>2. CASE p = 0 /\ n > 0
    <3>1. st = OrderGap /\ fst = ord[stream[1]] - k * OrderGap
      BY <2>2 DEF RunStep, RunFirst
    <3>2. k * OrderGap = (k - 1) * OrderGap + OrderGap /\ (k - 1) * OrderGap \in Int
      BY <1>2, GapAssumption
    <3>3. ord[stream[1]] \in Int
      BY <2>2, <1>2, <1>5
    <3> HIDE DEF st, fst
    <3>4. QED
      BY <2>2, <3>1, <3>2, <3>3, <1>2, GapAssumption
  <2>3. CASE p = n
    <3>1. st = OrderGap /\ (p > 0 => fst = ord[stream[p]] + OrderGap) /\ (p = 0 => fst = 0)
      BY <2>3 DEF RunStep, RunFirst
    <3>2. p > 0 => ord[stream[p]] \in Int
      BY <2>3, <1>2, <1>5
    <3> HIDE DEF st, fst
    <3>3. QED
      BY <2>3, <3>1, <3>2, <1>2, GapAssumption
  <2>4. QED
    BY <2>1, <2>2, <2>3, <1>2
<1>9. \A s \in Slot :
        order'[s] = IF \E i \in 1..k : run[i] = s
                      THEN fst + ((CHOOSE i \in 1..k : run[i] = s) - 1) * st
                      ELSE ord[s]
  BY <1>3, <1>4 DEF Stamped
<1> HIDE DEF st, fst
<1>10. \A i \in 1..k : order'[run[i]] = fst + (i - 1) * st
  <2> SUFFICES ASSUME NEW i \in 1..k PROVE order'[run[i]] = fst + (i - 1) * st
    OBVIOUS
  <2>1. (CHOOSE j \in 1..k : run[j] = run[i]) = i
    BY <1>1
  <2>2. QED
    BY <2>1, <1>2, <1>9
<1>11. \A i \in 1..n : order'[stream[i]] = ord[stream[i]]
  BY <1>2, <1>6, <1>9
<1>12. \A i \in 0..k : fst + (i - 1) * st \in Int
  BY <1>8, <1>2
<1>13. TypeOK'
  <2>1. ASSUME NEW s \in Slot PROVE order'[s] \in Int
    BY <1>2, <1>5, <1>9, <1>10, <1>12
  <2>2. order' \in [Slot -> Int]
    BY <2>1, <1>4 DEF Stamped
  <2>3. QED
    BY <2>2, <1>3, <1>4 DEF TypeOK
<1>14. OrderMonotone'
  <2>1. SUFFICES ASSUME NEW i \in 1..(n + k), NEW j \in 1..(n + k), i < j
                 PROVE  order'[new[i]] < order'[new[j]]
    BY <1>3, <1>4 DEF OrderMonotone, Key
  <2>2. CASE j <= p \/ p + k < i
    <3>1. PICK a \in 1..n, b \in 1..n : a < b /\ new[i] = stream[a] /\ new[j] = stream[b]
      <4>1. CASE j <= p
        <5>1. i \in 1..n /\ j \in 1..n /\ new[i] = stream[i] /\ new[j] = stream[j]
          BY <2>1, <4>1, <1>2, <1>3
        <5>2. QED
          BY <5>1, <2>1
      <4>2. CASE p + k < i
        <5>1. i - k \in 1..n /\ j - k \in 1..n /\ new[i] = stream[i - k] /\ new[j] = stream[j - k]
          BY <2>1, <4>2, <1>2, <1>3
        <5>2. i - k < j - k
          BY <2>1, <1>2
        <5>3. QED
          BY <5>1, <5>2
      <4>3. QED
        BY <2>2, <4>1, <4>2
    <3>2. QED
      BY <3>1, <1>5, <1>11
  <2>3. CASE i <= p /\ p + k < j
    <3>1. i \in 1..n /\ j - k \in 1..n /\ i < j - k /\ new[i] = stream[i] /\ new[j] = stream[j - k]
      BY <2>1, <2>3, <1>2, <1>3
    <3>2. QED
      BY <3>1, <1>5, <1>11
  <2>4. CASE p < i /\ j <= p + k
    <3> DEFINE a == i - p
               b == j - p
    <3>1. a \in 1..k /\ b \in 1..k /\ new[i] = run[a] /\ new[j] = run[b]
      BY <2>1, <2>4, <1>2, <1>3
    <3>2. a - 1 \in Int /\ b - 1 \in Int /\ a - 1 < b - 1
      BY <2>1, <3>1, <1>2
    <3>3. order'[run[a]] = fst + (a - 1) * st /\ order'[run[b]] = fst + (b - 1) * st
      BY <3>1, <1>10
    <3>4. fst + (a - 1) * st < fst + (b - 1) * st
      BY <3>2, <1>8, SpreadIncreases
    <3>5. QED
      BY <3>1, <3>3, <3>4
  <2>5. CASE i <= p /\ p < j /\ j <= p + k
    <3> DEFINE b == j - p
               x == (b - 1) * st
    <3>1. /\ i \in 1..n /\ p \in 1..n /\ b \in 1..k
          /\ new[i] = stream[i] /\ new[j] = run[b]
      BY <2>1, <2>5, <1>2, <1>3
    <3>2. ord[stream[i]] <= ord[stream[p]] /\ ord[stream[i]] \in Int /\ ord[stream[p]] \in Int
      BY <3>1, <2>5, <1>2, <1>5
    <3>3. fst = ord[stream[p]] + st
      BY <3>1, <1>8
    <3>4. x >= 0 /\ x \in Int
      <4>1. b - 1 \in Nat
        BY <3>1
      <4>2. QED
        BY <4>1, <1>8
    <3>5. order'[run[b]] = fst + x
      BY <3>1, <1>10
    <3> HIDE DEF b, x
    <3>6. ord[stream[i]] < fst + x
      <4>1. st \in Nat \ {0} /\ fst \in Int
        BY <1>8
      <4>2. QED
        BY <3>2, <3>3, <3>4, <4>1
    <3>7. QED
      BY <3>1, <3>5, <3>6, <1>11
  <2>6. CASE p < i /\ i <= p + k /\ p + k < j
    <3> DEFINE a == i - p
               b == j - k
    <3>1. /\ a \in 1..k /\ b \in 1..n /\ p + 1 \in 1..n /\ p + 1 <= b
          /\ new[i] = run[a] /\ new[j] = stream[b]
      BY <2>1, <2>6, <1>2, <1>3
    <3>2. ord[stream[p + 1]] <= ord[stream[b]]
          /\ ord[stream[p + 1]] \in Int /\ ord[stream[b]] \in Int
      <4> HIDE DEF b
      <4>1. ord[stream[p + 1]] \in Int /\ ord[stream[b]] \in Int
        BY <3>1, <1>2, <1>5
      <4>2. CASE p + 1 = b
        BY <4>1, <4>2
      <4>3. CASE p + 1 < b
        <5>1. ord[stream[p + 1]] < ord[stream[b]]
          BY <3>1, <4>3, <1>5
        <5>2. QED
          BY <4>1, <5>1
      <4>4. QED
        BY <3>1, <4>2, <4>3
    <3>3. fst + (k - 1) * st < ord[stream[p + 1]]
      BY <3>1, <1>2, <1>8
    <3>4. fst + (a - 1) * st <= fst + (k - 1) * st
      <4>1. CASE a = k
        BY <4>1, <1>12, <1>2
      <4>2. CASE a < k
        <5>1. a - 1 \in Int /\ k - 1 \in Int /\ a - 1 < k - 1
          BY <4>2, <3>1, <1>2
        <5>2. fst + (a - 1) * st < fst + (k - 1) * st
          BY <5>1, <1>8, SpreadIncreases
        <5>3. fst + (a - 1) * st \in Int /\ fst + (k - 1) * st \in Int
          BY <3>1, <1>2, <1>12
        <5>4. QED
          BY <5>2, <5>3
      <4>3. QED
        BY <4>1, <4>2, <3>1, <1>2
    <3>5. order'[run[a]] = fst + (a - 1) * st
      BY <3>1, <1>10
    <3>6. fst + (a - 1) * st \in Int /\ fst + (k - 1) * st \in Int
      BY <3>1, <1>2, <1>12
    <3> HIDE DEF a, b
    <3>7. fst + (a - 1) * st < ord[stream[b]]
      BY <3>2, <3>3, <3>4, <3>6
    <3>8. QED
      BY <3>1, <3>5, <3>7, <1>11
  <2>7. QED
    BY <2>1, <2>2, <2>3, <2>4, <2>5, <2>6, <1>2
<1>15. QED
  BY <1>7, <1>13, <1>14 DEF Inv

(* Dropping a slot keeps them too. *)
LEMMA UnlinkKeepsInv ==
  ASSUME Inv, NEW p \in 1..Len(stream), UnlinkSlot(p)
  PROVE  Inv'
<1> DEFINE n == Len(stream)
           at(i) == IF i < p THEN i ELSE i + 1
<1>1. n \in Nat /\ n - 1 \in Nat /\ \A i \in 1..n : stream[i] \in Slot
  BY DEF Inv, TypeOK
<1>2. \A i \in 1..(n - 1) : at(i) \in 1..n
  BY <1>1
<1>3. stream' = [i \in 1..(n - 1) |-> stream[at(i)]]
  BY DEF UnlinkSlot
<1>4. stream' \in Seq(Slot) /\ Len(stream') = n - 1
  BY <1>1, <1>2, <1>3
<1>5. order' = order
  BY DEF UnlinkSlot
<1>6. TypeOK'
  BY <1>4, <1>5 DEF Inv, TypeOK
<1>7. \A i, j \in 1..(n - 1) : i < j => at(i) < at(j)
  BY <1>1
<1>8. NoRepeats'
  <2>1. SUFFICES ASSUME NEW i \in 1..(n - 1), NEW j \in 1..(n - 1), i < j,
                        stream'[i] = stream'[j]
                 PROVE  FALSE
    BY <1>1, <1>4 DEF NoRepeats
  <2>2. at(i) \in 1..n /\ at(j) \in 1..n /\ at(i) # at(j) /\ stream[at(i)] = stream[at(j)]
    BY <2>1, <1>1, <1>2, <1>3, <1>7
  <2> HIDE DEF at
  <2>3. QED
    BY <2>2 DEF Inv, NoRepeats
<1>9. OrderMonotone'
  <2>1. SUFFICES ASSUME NEW i \in 1..(n - 1), NEW j \in 1..(n - 1), i < j
                 PROVE  order[stream'[i]] < order[stream'[j]]
    BY <1>4, <1>5 DEF OrderMonotone, Key
  <2>2. at(i) \in 1..n /\ at(j) \in 1..n /\ at(i) < at(j)
        /\ stream'[i] = stream[at(i)] /\ stream'[j] = stream[at(j)]
    BY <2>1, <1>2, <1>3, <1>7
  <2> HIDE DEF at
  <2>3. QED
    BY <2>2 DEF Inv, OrderMonotone, Key
<1>10. QED
  BY <1>6, <1>8, <1>9 DEF Inv

LEMMA InitInv == Init => Inv
  BY DEF Init, Inv, TypeOK, NoRepeats, OrderMonotone

LEMMA NextKeepsInv == Inv /\ [Next]_streamVars => Inv'
<1> SUFFICES ASSUME Inv, [Next]_streamVars PROVE Inv'
  OBVIOUS
<1>1. ASSUME NEW p \in 0..Len(stream), NEW run \in Runs, StitchRun(p, run) PROVE Inv'
  BY <1>1, StitchKeepsInv
<1>2. ASSUME NEW p \in 1..Len(stream), UnlinkSlot(p) PROVE Inv'
  BY <1>2, UnlinkKeepsInv
<1>3. CASE UNCHANGED streamVars
  BY <1>3 DEF Inv, TypeOK, NoRepeats, OrderMonotone, Key, streamVars
<1>4. QED
  BY <1>1, <1>2, <1>3 DEF Next

(* The three parts of the invariant hold of every reachable stream. *)
LEMMA Invariance == Spec => []Inv
  BY InitInv, NextKeepsInv, PTL DEF Spec

-----------------------------------------------------------------------------
(* Type correctness of the stream and of the key map (_slots.py Slot).     *)
THEOREM TypeCorrect == Spec => []TypeOK
<1>1. Inv => TypeOK
  BY DEF Inv
<1>2. QED
  BY <1>1, Invariance, PTL

(* stitch_run and unlink_slot never leave two linked slots whose order     *)
(* keys disagree with their position, however the seams are split.         *)
THEOREM KeysIncrease == Spec => []OrderMonotone
<1>1. Inv => OrderMonotone
  BY DEF Inv
<1>2. QED
  BY <1>1, Invariance, PTL

-----------------------------------------------------------------------------
(* A stitch keeps every linked slot linked, in the same relative place.    *)
LEMMA StitchKeepsPlaces ==
  ASSUME Inv, NEW p \in 0..Len(stream), NEW run \in Runs, StitchRun(p, run),
         NEW i \in 1..Len(stream), NEW j \in 1..Len(stream), i < j
  PROVE  \E a, b \in 1..Len(stream') :
           a < b /\ stream'[a] = stream[i] /\ stream'[b] = stream[j]
<1>1. PICK k \in 0..MaxRun : run \in [1..k -> Slot \ Linked]
  BY DEF Runs
<1>2. Len(stream) \in Nat /\ k \in Nat /\ p \in Nat /\ run \in [1..k -> Slot]
  BY <1>1, MaxRunAssumption DEF Inv, TypeOK
<1>3. /\ Len(stream') = Len(stream) + k
      /\ \A x \in 1..(Len(stream) + k) :
           stream'[x] = IF x <= p THEN stream[x]
                        ELSE IF x <= p + k THEN run[x - p]
                        ELSE stream[x - k]
  BY <1>2, SplicedParts DEF Inv, StitchRun
<1> DEFINE at(x) == IF x <= p THEN x ELSE x + k
<1>4. \A x \in 1..Len(stream) : at(x) \in 1..Len(stream') /\ stream'[at(x)] = stream[x]
  <2> SUFFICES ASSUME NEW x \in 1..Len(stream)
               PROVE  at(x) \in 1..Len(stream') /\ stream'[at(x)] = stream[x]
    OBVIOUS
  <2>1. at(x) \in 1..(Len(stream) + k)
    BY <1>2
  <2>2. CASE x <= p
    BY <2>1, <2>2, <1>2, <1>3
  <2>3. CASE ~(x <= p)
    <3>1. at(x) = x + k /\ ~(x + k <= p) /\ ~(x + k <= p + k) /\ x + k - k = x
      BY <2>3, <1>2
    <3>2. QED
      BY <2>1, <3>1, <1>3
  <2>4. QED
    BY <2>2, <2>3
<1>5. at(i) < at(j)
  BY <1>2
<1> HIDE DEF at
<1>6. QED
  BY <1>4, <1>5

(* No splice or relabelling reorders slots that stay linked, so lists kept *)
(* sorted by key outside the stream (Container._refs) stay sorted.         *)
THEOREM KeysStayOrdered == Spec => KeysNeverReorder
<1> DEFINE Keeps == \A s, t \in Linked \cap Linked' :
                      (order[s] < order[t]) <=> (order'[s] < order'[t])
<1>1. Inv /\ Inv' /\ [Next]_streamVars => [Keeps]_streamVars
  <2> SUFFICES ASSUME Inv, Inv', [Next]_streamVars, ~UNCHANGED streamVars
               PROVE  Keeps
    OBVIOUS
  <2> HIDE DEF Keeps
  <2>1. ASSUME NEW p \in 0..Len(stream), NEW run \in Runs, StitchRun(p, run)
        PROVE  Keeps
    <3>1. \A i, j \in 1..Len(stream) :
            i < j => /\ order[stream[i]] < order[stream[j]]
                     /\ order'[stream[i]] < order'[stream[j]]
      <4> SUFFICES ASSUME NEW i \in 1..Len(stream), NEW j \in 1..Len(stream), i < j
                   PROVE  /\ order[stream[i]] < order[stream[j]]
                          /\ order'[stream[i]] < order'[stream[j]]
        OBVIOUS
      <4>1. PICK a, b \in 1..Len(stream') :
              a < b /\ stream'[a] = stream[i] /\ stream'[b] = stream[j]
        BY <2>1, StitchKeepsPlaces
      <4>2. QED
        BY <4>1 DEF Inv, OrderMonotone, Key
    <3>2. SUFFICES ASSUME NEW i \in 1..Len(stream), NEW j \in 1..Len(stream)
                   PROVE  (order[stream[i]] < order[stream[j]])
                            <=> (order'[stream[i]] < order'[stream[j]])
      BY DEF Keeps, Linked
    <3>3. /\ order[stream[i]] \in Int /\ order[stream[j]] \in Int
          /\ order'[stream[i]] \in Int /\ order'[stream[j]] \in Int
          /\ i \in Int /\ j \in Int
      BY DEF Inv, TypeOK
    <3>4. QED
      BY <3>1, <3>3
  <2>2. ASSUME NEW p \in 1..Len(stream), UnlinkSlot(p)
        PROVE  Keeps
    BY <2>2 DEF Keeps, UnlinkSlot
  <2>3. QED
    BY <2>1, <2>2 DEF Next
<1>2. QED
  BY <1>1, Invariance, PTL DEF Spec, KeysNeverReorder
=============================================================================
