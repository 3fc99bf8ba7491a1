-------------------------- MODULE RefFilingProofs --------------------------
(***************************************************************************)
(* The projections stay exact: any change the editor makes of the stream,  *)
(* in the state the changes before it left, is followed by patches that    *)
(* leave every container's caches as building the new text would.          *)
(***************************************************************************)
EXTENDS RefFiling, TomlRulesProofs, RefPatchProofs

-----------------------------------------------------------------------------
(* A slot's key is its place in the stream.                                *)

Spread(run) == \A i, j \in 1..Len(run) : run[i] = run[j] => i = j

LEMMA KeysMeaning ==
  ASSUME NEW S, NEW run \in Seq(S), Spread(run)
  PROVE  /\ \A i \in 1..Len(run) : run[i] \in Range(run) /\ Keys(run)[run[i]] = i
         /\ \A s \in Range(run) : Keys(run)[s] \in 1..Len(run) /\ run[Keys(run)[s]] = s
         /\ Keyed(Keys(run), Range(run))
         /\ Orders(run, Keys(run), Range(run))
<1> DEFINE n == Len(run)
           ord == Keys(run)
<1>1. n \in Nat /\ DOMAIN run = 1..n
  OBVIOUS
<1>2. Range(run) = {run[i] : i \in 1..n}
  BY <1>1 DEF Range
<1>3. \A s \in Range(run) : ord[s] = CHOOSE i \in 1..n : run[i] = s
  BY <1>1 DEF Keys
<1> HIDE DEF n, ord
<1>4. \A s \in Range(run) : ord[s] \in 1..n /\ run[ord[s]] = s
  <2> SUFFICES ASSUME NEW s \in Range(run) PROVE ord[s] \in 1..n /\ run[ord[s]] = s
    OBVIOUS
  <2>1. \E i \in 1..n : run[i] = s
    BY <1>2
  <2> QED BY <1>3, <2>1
<1>5. \A i \in 1..n : run[i] \in Range(run) /\ ord[run[i]] = i
  <2> SUFFICES ASSUME NEW i \in 1..n PROVE run[i] \in Range(run) /\ ord[run[i]] = i
    OBVIOUS
  <2>1. run[i] \in Range(run)
    BY <1>2
  <2> QED BY <1>4, <2>1 DEF Spread, n
<1>6. Keyed(ord, Range(run))
  <2>1. \A s \in Range(run) : ord[s] \in Int
    BY <1>1, <1>4
  <2> QED BY <1>4, <2>1 DEF Keyed
<1>7. run \in Seq(Range(run))
  <2>1. \A i \in 1..Len(run) : run[i] \in Range(run)
    BY <1>5 DEF n
  <2> QED BY <2>1
<1>8. Orders(run, ord, Range(run))
  <2>1. \A s \in Range(run) : \E i \in 1..n : run[i] = s
    BY <1>2
  <2>2. \A i, j \in 1..n : i < j => ord[run[i]] < ord[run[j]]
    BY <1>5
  <2> QED BY <1>7, <2>1, <2>2 DEF Orders, n
<1> QED BY <1>4, <1>5, <1>6, <1>8 DEF n, ord

-----------------------------------------------------------------------------
(* The tables one slot is filed on.                                        *)

LEMMA FiledFacts ==
  ASSUME NEW v, NEW d, Reading(v, d)
  PROVE  /\ d.stream \in Seq(Slots) /\ Len(d.stream) \in Nat /\ DOMAIN d.stream = 1..Len(d.stream)
         /\ \A i \in 1..Len(d.stream) : d.stream[i] \in Slots /\ d.stream[i] \in Range(d.stream)
         /\ \A s \in Range(d.stream) : \E i \in 1..Len(d.stream) : d.stream[i] = s
         /\ DOMAIN d.filed = Range(d.stream) /\ Spread(d.stream)
         /\ NoSlot \notin Range(d.stream)
<1>1. d.stream \in Seq(Slots) /\ DOMAIN d.filed = Range(d.stream) /\ Spread(d.stream)
  BY DEF Reading, IsDocument, LinesApart, Spread
<1>2. Len(d.stream) \in Nat /\ DOMAIN d.stream = 1..Len(d.stream)
      /\ \A i \in 1..Len(d.stream) : d.stream[i] \in Slots
  BY <1>1
<1>3. \A s \in Slots : s # NoSlot
  BY SlotsType DEF Slots, IsKV, IsHeader, NoSlot
<1> QED BY <1>1, <1>2, <1>3 DEF Range

(* x is the table at level j. *)
LEMMA FiledLevels ==
  ASSUME NEW v, NEW d, Reading(v, d), NEW i \in 1..Len(d.stream)
  PROVE  LET s == d.stream[i]
             f == FullPath(s)
         IN  /\ \A x \in FiledAt(d, i) :
                  /\ x \in Nat \X Seq(Key) /\ x = <<x[1], x[2]>>
                  /\ Len(x[2]) \in Highest(s)..Lowest(s) /\ x[2] = Prefix(f, Len(x[2]))
                  /\ IsKV(s) \/ Len(x[2]) = Lowest(s) => x[1] = s.owner
             /\ \A x, y \in FiledAt(d, i) : Len(x[2]) = Len(y[2]) => x = y
             /\ \A j \in Highest(s)..Lowest(s) : \E x \in FiledAt(d, i) : Len(x[2]) = j
             /\ Top(s) \in FiledAt(d, i)
<1> DEFINE s == d.stream[i]
           f == FullPath(s)
<1>1. s \in Slots
  BY FiledFacts
<1>2. /\ f \in Seq(Key) /\ Highest(s) \in Nat /\ Lowest(s) \in Nat /\ Lowest(s) <= Len(f) /\ Len(f) \in Nat
      /\ Highest(s) <= Lowest(s) /\ Top(s) = <<s.owner, Prefix(f, Lowest(s))>>
  <2> HIDE DEF s
  <2> QED BY <1>1, LevelsOf
<1>3. LevelsAt(s, FiledAt(d, i))
  BY DEF Reading, Leveled
<1>4. PICK o \in [Highest(s)..Lowest(s) -> Nat] :
        /\ FiledAt(d, i) = {<<o[j], Prefix(f, j)>> : j \in Highest(s)..Lowest(s)}
        /\ o[Lowest(s)] = s.owner
        /\ IsKV(s) => \A j \in Highest(s)..Lowest(s) : o[j] = s.owner
  BY <1>3 DEF LevelsAt
<1> HIDE DEF s, f
<1>5. \A j \in Highest(s)..Lowest(s) : Prefix(f, j) \in Seq(Key) /\ Len(Prefix(f, j)) = j
  <2>1. \A j \in Highest(s)..Lowest(s) : j \in 0..Len(f)
    BY <1>2
  <2> QED BY <1>2, <2>1, PrefixType
<1>6. ASSUME NEW x \in FiledAt(d, i)
      PROVE  \E j \in Highest(s)..Lowest(s) : x = <<o[j], Prefix(f, j)>> /\ Len(x[2]) = j
  BY <1>4, <1>5
<1>7. \A x \in FiledAt(d, i) :
        /\ x \in Nat \X Seq(Key) /\ x = <<x[1], x[2]>>
        /\ Len(x[2]) \in Highest(s)..Lowest(s) /\ x[2] = Prefix(f, Len(x[2]))
        /\ IsKV(s) \/ Len(x[2]) = Lowest(s) => x[1] = s.owner
  BY <1>4, <1>5, <1>6
<1>8. \A x, y \in FiledAt(d, i) : Len(x[2]) = Len(y[2]) => x = y
  BY <1>6
<1>9. \A j \in Highest(s)..Lowest(s) : \E x \in FiledAt(d, i) : Len(x[2]) = j
  <2> SUFFICES ASSUME NEW j \in Highest(s)..Lowest(s)
               PROVE  \E x \in FiledAt(d, i) : Len(x[2]) = j
    OBVIOUS
  <2> DEFINE y == <<o[j], Prefix(f, j)>>
  <2>1. y \in FiledAt(d, i)
    BY <1>4
  <2>2. Len(y[2]) = j
    BY <1>5
  <2> QED BY <2>1, <2>2
<1>10. Top(s) \in FiledAt(d, i)
  <2>1. Lowest(s) \in Highest(s)..Lowest(s)
    BY <1>2
  <2> QED BY <1>2, <1>4, <2>1
<1> QED BY <1>7, <1>8, <1>9, <1>10 DEF s, f

(* The key a slot is filed under is the next of its path. *)
LEMMA LocalKeys ==
  ASSUME NEW v, NEW d, Reading(v, d), NEW i \in 1..Len(d.stream), NEW x \in FiledAt(d, i)
  PROVE  LET s == d.stream[i]
             f == FullPath(s)
         IN  /\ LocalKey(s, x) = OwnKey => IsHeader(s) /\ ~IsKV(s) /\ s.path = x[2] /\ x = Top(s)
             /\ IsHeader(s) /\ s.path = x[2] => LocalKey(s, x) = OwnKey
             /\ LocalKey(s, x) # OwnKey => /\ Len(x[2]) < Len(f) /\ LocalKey(s, x) = f[Len(x[2]) + 1]
                                           /\ LocalKey(s, x) \in Key
             /\ \A k : Names(s, x, k) <=> k # OwnKey /\ LocalKey(s, x) = k
<1> DEFINE s == d.stream[i]
           f == FullPath(s)
           m == Len(x[2])
<1>1. s \in Slots
  BY FiledFacts
<1>2. /\ x \in Nat \X Seq(Key) /\ x = <<x[1], x[2]>> /\ m \in Highest(s)..Lowest(s) /\ x[2] = Prefix(f, m)
      /\ IsKV(s) \/ m = Lowest(s) => x[1] = s.owner
  BY FiledLevels
<1> HIDE DEF s, f, m
<1>3. /\ f \in Seq(Key) /\ Highest(s) \in Nat /\ Lowest(s) \in Nat /\ Lowest(s) <= Len(f) /\ Len(f) \in Nat
      /\ Top(s) = <<s.owner, Prefix(f, Lowest(s))>>
      /\ s \in KVSlots => Lowest(s) = Len(f) - 1 /\ Highest(s) = Len(s.host) /\ s.host \in Seq(Key)
      /\ s \in HeaderSlots => Lowest(s) = Len(f) /\ Highest(s) = 0 /\ f = s.path /\ Top(s) = <<s.owner, s.path>>
  BY <1>1, LevelsOf DEF f
<1>4. m < Len(f) => f[m + 1] \in Key
  BY <1>2, <1>3
<1>5. CASE s \in KVSlots
  <2>1. IsKV(s) /\ ~IsHeader(s) /\ s.key \in Seq(Key) /\ f = s.host \o s.key
    BY <1>5, SlotsType DEF f, Path
  <2>2. LocalKey(s, x) = s.key[m - Len(s.host) + 1]
    BY <2>1 DEF LocalKey, m
  <2> DEFINE h == Len(s.host)
             k == m - h + 1
  <2>3. Len(f) = h + Len(s.key) /\ \A j \in 1..Len(s.key) : f[h + j] = s.key[j]
    <3>1. s.host \in Seq(Key)
      BY <1>3, <1>5
    <3>2. /\ Len(s.host \o s.key) = Len(s.host) + Len(s.key)
          /\ \A j \in 1..Len(s.key) : (s.host \o s.key)[Len(s.host) + j] = s.key[j]
      <4> DEFINE p == s.host
                 q == s.key
      <4>1. p \in Seq(Key) /\ q \in Seq(Key)
        BY <2>1, <3>1
      <4> HIDE DEF p, q
      <4>2. Len(p \o q) = Len(p) + Len(q) /\ \A j \in 1..Len(q) : (p \o q)[Len(p) + j] = q[j]
        BY <4>1, Below
      <4> QED BY <4>2 DEF p, q
    <3> QED BY <2>1, <3>2
  <2>4. h \in Nat /\ Len(s.key) \in Nat
    BY <1>3, <1>5, <2>1
  <2>5. k \in 1..Len(s.key) /\ h + k = m + 1 /\ m < Len(f)
    <3> DEFINE a == Len(s.key)
               b == Len(f)
    <3>1. b = h + a /\ h \in Nat /\ a \in Nat /\ m \in h..(b - 1)
      BY <1>2, <1>3, <1>5, <2>3, <2>4
    <3> HIDE DEF a, b, h
    <3>2. k \in 1..a /\ h + k = m + 1 /\ m < b
      BY <3>1
    <3> QED BY <3>2 DEF a, b
  <2>6. LocalKey(s, x) = f[m + 1]
    BY <2>2, <2>3, <2>5
  <2> HIDE DEF k, h
  <2>7. LocalKey(s, x) # OwnKey
    BY <1>4, <2>5, <2>6, KeysAssumption
  <2> QED BY <1>4, <2>1, <2>5, <2>6, <2>7 DEF Names, s, f, m
<1>6. CASE s \in HeaderSlots
  <2>1. IsHeader(s) /\ ~IsKV(s)
    BY <1>6, SlotsType
  <2>2. f = s.path /\ Lowest(s) = Len(f) /\ Prefix(f, Len(f)) = f
    BY <1>3, <1>6, PrefixType
  <2>3. LocalKey(s, x) = IF Len(f) > m THEN f[m + 1] ELSE OwnKey
    BY <2>1, <2>2 DEF LocalKey, m, OwnKey
  <2>4. m <= Len(f) /\ m \in Nat
    BY <1>2, <1>3, <2>2
  <2>5. CASE m < Len(f)
    <3>1. LocalKey(s, x) = f[m + 1] /\ LocalKey(s, x) # OwnKey
      BY <1>3, <1>4, <2>3, <2>4, <2>5, KeysAssumption
    <3>2. s.path # x[2]
      BY <2>2, <2>5 DEF m
    <3> QED BY <1>4, <2>5, <3>1, <3>2 DEF Names, s, f, m
  <2>6. CASE m = Len(f)
    <3>1. LocalKey(s, x) = OwnKey /\ ~(m < Len(f))
      BY <1>3, <2>3, <2>6
    <3>2. s.path = x[2] /\ x = Top(s)
      BY <1>2, <1>3, <1>6, <2>2, <2>6
    <3> QED BY <2>1, <3>1, <3>2 DEF Names, s, f, m
  <2> QED BY <1>3, <2>4, <2>5, <2>6
<1> QED BY <1>1, <1>5, <1>6 DEF Slots

-----------------------------------------------------------------------------
(* The slots listed on one table.                                          *)

LEMMA RefFacts ==
  ASSUME NEW v, NEW d, Reading(v, d), NEW c, NEW s \in RefSet(d, c)
  PROVE  \E i \in 1..Len(d.stream) :
           /\ s = d.stream[i] /\ s \in Range(d.stream) /\ c \in FiledAt(d, i)
           /\ Keys(d.stream)[s] = i
<1>1. s \in Range(d.stream) /\ c \in d.filed[s]
  BY FiledFacts DEF RefSet
<1>2. PICK i \in 1..Len(d.stream) : d.stream[i] = s
  BY <1>1, FiledFacts
<1>3. Keys(d.stream)[d.stream[i]] = i
  BY FiledFacts, KeysMeaning
<1> QED BY <1>1, <1>2, <1>3 DEF FiledAt

LEMMA ListedRead ==
  ASSUME NEW v, NEW d, Reading(v, d), NEW c
  PROVE  /\ RefSet(d, c) \subseteq Range(d.stream)
         /\ Belong(Keys(d.stream), c, RefSet(d, c))
         /\ \A s \in RefSet(d, c) : HeaderFirst(Keys(d.stream), c, RefSet(d, c), s)
         /\ \A s \in RefSet(d, c) : LocalKey(s, c) = OwnKey <=> IsHeader(s) /\ s.path = c[2]
<1> DEFINE ord == Keys(d.stream)
           S == RefSet(d, c)
           n == Len(d.stream)
<1>1. S \subseteq Range(d.stream) /\ NoSlot \notin S
  BY FiledFacts DEF RefSet
<1>2. Keyed(ord, S)
  <2>1. Keyed(ord, Range(d.stream))
    BY FiledFacts, KeysMeaning
  <2> HIDE DEF ord, S
  <2> QED BY <1>1, <2>1, KeyedSubset
<1>3. ASSUME NEW s \in S
      PROVE  \E i \in 1..n : s = d.stream[i] /\ c \in FiledAt(d, i) /\ ord[s] = i
  BY RefFacts
<1>4. ASSUME NEW s \in S
      PROVE  /\ LocalKey(s, c) = OwnKey => IsHeader(s) /\ ~IsKV(s) /\ s.path = c[2] /\ Top(s) = c
             /\ IsHeader(s) /\ s.path = c[2] => LocalKey(s, c) = OwnKey
  <2>1. PICK i \in 1..n : s = d.stream[i] /\ c \in FiledAt(d, i)
    BY <1>3
  <2> QED BY <2>1, LocalKeys
<1> HIDE DEF ord, S, n
<1>5. ASSUME NEW h \in S, LocalKey(h, c) = OwnKey
      PROVE  HeadedBy(c, S, h)
  <2>1. ASSUME NEW s \in S, LocalKey(s, c) = OwnKey PROVE s = h
    <3>1. PICK i \in 1..n : s = d.stream[i]
      BY <1>3
    <3>2. PICK j \in 1..n : h = d.stream[j]
      BY <1>3
    <3>3. IsHeader(s) /\ IsHeader(h) /\ Top(s) = Top(h)
      BY <1>4, <1>5, <2>1
    <3>4. HeadersApart(d)
      BY DEF Reading
    <3> QED BY <3>1, <3>2, <3>3, <3>4 DEF HeadersApart, n
  <2> QED BY <1>4, <1>5, <2>1 DEF HeadedBy
<1>6. ASSUME NEW h \in S, NEW s \in S, LocalKey(h, c) = OwnKey, IsOwnLine(s, c)
      PROVE  ord[h] < ord[s]
  <2>1. PICK i \in 1..n : h = d.stream[i] /\ ord[h] = i
    BY <1>3
  <2>2. PICK j \in 1..n : s = d.stream[j] /\ c \in FiledAt(d, j) /\ ord[s] = j
    BY <1>3
  <2>3. IsHeader(h) /\ Top(h) = c /\ IsKV(s)
    BY <1>4, <1>6 DEF IsOwnLine
  <2>4. HeadersFirst(d)
    BY DEF Reading
  <2>5. i < j
    BY <2>1, <2>2, <2>3, <2>4 DEF HeadersFirst, n
  <2> QED BY <2>1, <2>2, <2>5
<1>7. Belong(ord, c, S)
  BY <1>1, <1>2, <1>5 DEF Belong
<1>8. \A s \in S : HeaderFirst(ord, c, S, s)
  BY <1>6 DEF HeaderFirst
<1> QED BY <1>1, <1>4, <1>7, <1>8 DEF ord, S

LEMMA InOrderOrders ==
  ASSUME NEW v, NEW d, Reading(v, d), NEW S, S \subseteq Range(d.stream)
  PROVE  Orders(InOrder(d, S), Keys(d.stream), S)
<1>1. Orders(d.stream, Keys(d.stream), Range(d.stream))
  BY FiledFacts, KeysMeaning
<1>2. Orders(Keeping(d.stream, S), Keys(d.stream), Range(d.stream) \cap S)
  BY <1>1, KeepingOrders
<1>3. Range(d.stream) \cap S = S
  OBVIOUS
<1> QED BY <1>2, <1>3 DEF InOrder

-----------------------------------------------------------------------------
(* The inductive invariant: the document is what its text reads as, its    *)
(* array entries are told apart, and the views are exact under its keys.   *)

Tidy(d) ==
  /\ d.stream \in Seq(Slots)
  /\ Accepts(d.stream) /\ d = Reparsed(d.stream).d
  /\ EntriesApart(d)

Projected(F, d) ==
  /\ Consistent(F, Keys(d.stream))
  /\ DOMAIN F.backs = Range(d.stream)
  /\ \A s \in Range(d.stream) : F.backs[s] = d.filed[s]
  /\ DOMAIN F.view = {Root} \cup UNION Range(d.filed)
  /\ F.sound

FilingInv == Tidy(doc) /\ Projected(caches, doc)

LEMMA TidyReads ==
  ASSUME NEW d, Tidy(d)
  PROVE  Reading(Reparsed(d.stream).v, d)
<1>1. d.stream \in Seq(Slots) /\ Accepts(d.stream) /\ EntriesApart(Reparsed(d.stream).d)
      /\ d = Reparsed(d.stream).d
  BY DEF Tidy
<1> DEFINE run == d.stream
           v == Reparsed(run).v
<1>2. Reading(v, Reparsed(run).d)
  BY <1>1, TextReads
<1> HIDE DEF v
<1>3. Reading(v, d)
  BY <1>1, <1>2
<1> QED BY <1>3 DEF v

LEMMA ListingRefs ==
  ASSUME NEW F, NEW d, DOMAIN F.backs = Range(d.stream), \A s \in Range(d.stream) : F.backs[s] = d.filed[s],
         DOMAIN d.filed = Range(d.stream), NEW c
  PROVE  Listing(F, c) = RefSet(d, c)
BY DEF Listing, RefSet

LEMMA ViewFacts ==
  ASSUME NEW F, NEW d, Tidy(d), Projected(F, d), NEW c \in DOMAIN F.view
  PROVE  LET v == F.view[c]
             S == RefSet(d, c)
         IN  /\ Exact(v, Keys(d.stream), c, S) /\ Belong(Keys(d.stream), c, S)
             /\ S \subseteq Range(d.stream)
             /\ \A s \in S : LocalKey(s, c) = OwnKey <=> IsHeader(s) /\ s.path = c[2]
<1>1. PICK w : Reading(w, d)
  BY TidyReads
<1>2. DOMAIN d.filed = Range(d.stream)
  BY <1>1, FiledFacts
<1>3. Listing(F, c) = RefSet(d, c)
  BY <1>2, ListingRefs DEF Projected
<1>4. Exact(F.view[c], Keys(d.stream), c, Listing(F, c))
  BY DEF Projected, Consistent
<1> QED BY <1>1, <1>3, <1>4, ListedRead

LEMMA InvTypeOK == FilingInv => TypeOK
<1> SUFFICES ASSUME FilingInv PROVE TypeOK
  OBVIOUS
<1>1. Tidy(doc) /\ Projected(caches, doc)
  BY DEF FilingInv
<1>2. DOMAIN caches.backs = Range(doc.stream)
      /\ \A s \in DOMAIN caches.backs : caches.backs[s] \subseteq DOMAIN caches.view
  BY <1>1 DEF Projected, Consistent
<1>3. ASSUME NEW c \in DOMAIN caches.view
      PROVE  Orders(caches.view[c].refs, Keys(doc.stream), RefSet(doc, c)) /\ Keyed(Keys(doc.stream), RefSet(doc, c))
  BY <1>1, ViewFacts DEF Exact, Belong
<1>4. ASSUME NEW c \in DOMAIN caches.view
      PROVE  IsInjective(caches.view[c].refs) /\ Range(caches.view[c].refs) = RefSet(doc, c)
  <2> DEFINE refs == caches.view[c].refs
             ord == Keys(doc.stream)
             S == RefSet(doc, c)
  <2>1. Orders(refs, ord, S) /\ Keyed(ord, S)
    BY <1>3
  <2> HIDE DEF refs, ord, S
  <2>2. /\ Len(refs) \in Nat /\ DOMAIN refs = 1..Len(refs)
        /\ \A i \in 1..Len(refs) : refs[i] \in S
        /\ \A i, j \in 1..Len(refs) : i <= j <=> ord[refs[i]] <= ord[refs[j]]
    BY <2>1, OrdersFacts
  <2>3. \A s \in S : \E i \in 1..Len(refs) : refs[i] = s
    BY <2>1 DEF Orders
  <2>4. IsInjective(refs)
    <3> SUFFICES ASSUME NEW i \in 1..Len(refs), NEW j \in 1..Len(refs), refs[i] = refs[j] PROVE i = j
      BY <2>2 DEF IsInjective
    <3>1. ord[refs[i]] \in Int
      BY <2>1, <2>2 DEF Keyed
    <3>2. i <= j /\ j <= i
      BY <2>2, <3>1
    <3> QED BY <2>2, <3>2
  <2>5. Range(refs) = S
    BY <2>2, <2>3 DEF Range
  <2> QED BY <2>4, <2>5 DEF refs, S
<1>5. DOMAIN doc.filed = Range(doc.stream)
  BY <1>1, TidyReads, FiledFacts
<1>6. ASSUME NEW s \in DOMAIN caches.backs
      PROVE  caches.backs[s] = {c \in DOMAIN caches.view : s \in Range(caches.view[c].refs)}
  <2>1. \A c : c \in caches.backs[s] <=> s \in RefSet(doc, c)
    BY <1>1, <1>2, <1>5 DEF Projected, RefSet
  <2> QED BY <1>2, <1>4, <2>1
<1> QED BY <1>2, <1>4, <1>6 DEF TypeOK

LEMMA HeaderRead ==
  ASSUME NEW F, NEW d, Tidy(d), Projected(F, d), NEW c \in DOMAIN F.view
  PROVE  F.view[c].header = OwnHeader(d, c)
<1> DEFINE S == RefSet(d, c)
           h == F.view[c].header
           H == {s \in S : IsHeader(s) /\ s.path = c[2]}
<1>1. HeaderExact(h, c, S) /\ \A s \in S : LocalKey(s, c) = OwnKey <=> IsHeader(s) /\ s.path = c[2]
  <2>1. Exact(F.view[c], Keys(d.stream), c, S)
        /\ \A s \in S : LocalKey(s, c) = OwnKey <=> IsHeader(s) /\ s.path = c[2]
    BY ViewFacts
  <2> QED BY <2>1 DEF Exact
<1>2. \A t \in S : LocalKey(t, c) = OwnKey => HeadedBy(c, S, t)
  BY ViewFacts DEF Belong
<1>3. OwnHeader(d, c) = IF H = {} THEN NoSlot ELSE CHOOSE t \in H : TRUE
  BY DEF OwnHeader
<1> HIDE DEF S, h
<1>4. H = {s \in S : LocalKey(s, c) = OwnKey}
  BY <1>1
<1> HIDE DEF H
<1>5. CASE h \in S /\ LocalKey(h, c) = OwnKey
  <2>1. h \in H /\ \A t \in H : t = h
    BY <1>2, <1>4, <1>5 DEF HeadedBy
  <2>2. (CHOOSE t \in H : TRUE) \in H
    BY <2>1
  <2> QED BY <1>3, <2>1, <2>2 DEF h
<1>6. CASE h = NoSlot /\ \A s \in S : LocalKey(s, c) # OwnKey
  BY <1>3, <1>4, <1>6 DEF h
<1> QED BY <1>1, <1>5, <1>6 DEF HeaderExact

LEMMA InvProjectionsExact == FilingInv => ProjectionsExact
<1> SUFFICES ASSUME FilingInv PROVE ProjectionsExact
  OBVIOUS
<1>1. Tidy(doc) /\ Projected(caches, doc)
  BY DEF FilingInv
<1>2. DOMAIN caches.view = {Root} \cup UNION Range(doc.filed)
  BY <1>1 DEF Projected
<1>3. PICK w : Reading(w, doc)
  BY <1>1, TidyReads
<1>4. ASSUME NEW c \in DOMAIN caches.view
      PROVE  LET v == caches.view[c]
             IN  /\ v.refs = Refs(doc, c)
                 /\ v.header = OwnHeader(doc, c)
                 /\ v.index = [k \in {LocalKey(s, c) : s \in RefSet(doc, c) \ {v.header}} |->
                                 InOrder(doc, IndexSet(doc, c, k))]
  <2> DEFINE v == caches.view[c]
             S == RefSet(doc, c)
             ord == Keys(doc.stream)
             K == {LocalKey(s, c) : s \in S \ {v.header}}
  <2>1. Exact(v, ord, c, S) /\ Belong(ord, c, S) /\ S \subseteq Range(doc.stream)
        /\ \A s \in S : LocalKey(s, c) = OwnKey <=> IsHeader(s) /\ s.path = c[2]
    BY <1>1, ViewFacts
  <2>2. v.header = OwnHeader(doc, c)
    BY <1>1, HeaderRead
  <2>3. \A T : T \subseteq S => Orders(InOrder(doc, T), ord, T)
    <3> SUFFICES ASSUME NEW T, T \subseteq S PROVE Orders(InOrder(doc, T), ord, T)
      OBVIOUS
    <3> QED BY <1>3, <2>1, InOrderOrders
  <2>4. Refs(doc, c) = InOrder(doc, S)
    BY DEF Refs
  <2>5. \A k : IndexSet(doc, c, k) = {s \in S : (IsHeader(s) => s.path # c[2]) /\ LocalKey(s, c) = k}
    BY DEF IndexSet
  <2> HIDE DEF S, v, ord
  <2>6. Keyed(ord, S) /\ Orders(v.refs, ord, S) /\ IndexExact(v.index, ord, c, S) /\ HeaderExact(v.header, c, S)
    BY <2>1 DEF Exact, Belong
  <2>7. v.refs = InOrder(doc, S)
    <3> DEFINE q == InOrder(doc, S)
    <3>1. Orders(q, ord, S)
      BY <2>3
    <3> HIDE DEF q
    <3>2. v.refs = q
      BY <2>6, <3>1, OrderUnique
    <3> QED BY <3>2 DEF q
  <2>8. K = {LocalKey(s, c) : s \in S} \ {OwnKey}
    <3>1. \A s \in S : s # v.header <=> LocalKey(s, c) # OwnKey
      <4>1. \A s, h \in S : LocalKey(s, c) = OwnKey /\ LocalKey(h, c) = OwnKey => s = h
        BY <2>1 DEF Belong, HeadedBy
      <4>2. NoSlot \notin S
        BY <2>1 DEF Belong
      <4> QED BY <2>6, <4>1, <4>2 DEF HeaderExact
    <3> QED BY <3>1
  <2>9. ASSUME NEW k \in K PROVE v.index[k] = InOrder(doc, IndexSet(doc, c, k))
    <3> DEFINE Q == {s \in S : LocalKey(s, c) = k}
               q == InOrder(doc, Q)
    <3>1. IndexSet(doc, c, k) = Q
      BY <2>1, <2>5, <2>8
    <3>2. k \in DOMAIN v.index
      BY <2>6, <2>8 DEF IndexExact
    <3>3. Orders(v.index[k], ord, Q)
      BY <2>6, <3>2 DEF IndexExact
    <3>4. Orders(q, ord, Q)
      BY <2>3
    <3>5. Keyed(ord, Q)
      BY <2>6 DEF Keyed
    <3> HIDE DEF Q, q
    <3>6. v.index[k] = q
      BY <3>3, <3>4, <3>5, OrderUnique
    <3> QED BY <3>1, <3>6 DEF q
  <2>10. v.index = [k \in K |-> InOrder(doc, IndexSet(doc, c, k))]
    <3> HIDE DEF K
    <3>1. IsAFcn(v.index) /\ DOMAIN v.index = K
      BY <2>6, <2>8 DEF IndexExact
    <3> QED BY <2>9, <3>1 DEF IsAFcn
  <2> QED BY <2>2, <2>4, <2>7, <2>10 DEF v, S
<1> QED BY <1>2, <1>4 DEF ProjectionsExact

LEMMA InvBodyTails == FilingInv => BodyTailsCurrent
<1> SUFFICES ASSUME FilingInv, NEW c \in DOMAIN caches.view
             PROVE  caches.view[c].tail = BodyTail(doc, c)
  BY DEF BodyTailsCurrent
<1>1. Tidy(doc) /\ Projected(caches, doc)
  BY DEF FilingInv
<1>2. PICK w : Reading(w, doc)
  BY <1>1, TidyReads
<1> DEFINE v == caches.view[c]
           S == RefSet(doc, c)
           ord == Keys(doc.stream)
           K == {i \in Positions(doc, S) : IsKV(doc.stream[i]) /\ doc.stream[i].owner = c[1]}
<1>3. TailExact(v.tail, v.header, ord, c, S)
  BY <1>1, ViewFacts DEF Exact
<1>4. v.header = OwnHeader(doc, c)
  BY <1>1, HeaderRead
<1>5. /\ Len(doc.stream) \in Nat /\ DOMAIN doc.stream = 1..Len(doc.stream)
      /\ S \subseteq Range(doc.stream)
      /\ \A s \in Range(doc.stream) : ord[s] \in 1..Len(doc.stream) /\ doc.stream[ord[s]] = s
      /\ \A i \in 1..Len(doc.stream) : ord[doc.stream[i]] = i
  BY <1>2, FiledFacts, KeysMeaning, ListedRead
<1>6. BodyTail(doc, c) = IF K # {} THEN SlotAt(doc, Max(K)) ELSE OwnHeader(doc, c)
  BY DEF BodyTail
<1> HIDE DEF v, S, ord
<1>7. \A i : i \in K <=> i \in 1..Len(doc.stream) /\ doc.stream[i] \in S /\ IsOwnLine(doc.stream[i], c)
  BY <1>5 DEF Positions, IsOwnLine
<1> HIDE DEF K
<1>8. CASE /\ v.tail \in S /\ IsOwnLine(v.tail, c)
           /\ \A s \in S : IsOwnLine(s, c) => ord[s] <= ord[v.tail]
  <2> DEFINE m == ord[v.tail]
  <2>1. m \in 1..Len(doc.stream) /\ doc.stream[m] = v.tail
    BY <1>5, <1>8
  <2>2. m \in K /\ \A i \in K : m >= i
    <3>1. m \in K
      BY <1>7, <1>8, <2>1
    <3>2. ASSUME NEW i \in K PROVE m >= i
      <4>1. ord[doc.stream[i]] = i /\ doc.stream[i] \in S /\ IsOwnLine(doc.stream[i], c) /\ i \in 1..Len(doc.stream)
        BY <1>5, <1>7
      <4>2. i <= m
        BY <1>8, <4>1
      <4> QED BY <1>5, <2>1, <4>1, <4>2
    <3> QED BY <3>1, <3>2
  <2> HIDE DEF m
  <2>3. Max(K) = m
    <3>1. \A x \in K : (\A y \in K : x >= y) => x = m
      <4>1. \A x \in K : x \in Int
        BY <1>5, <1>7
      <4> QED BY <2>2, <4>1
    <3> QED BY <2>2, <3>1 DEF Max
  <2>4. SlotAt(doc, m) = v.tail
    BY <1>5, <2>1 DEF SlotAt
  <2> QED BY <1>6, <2>2, <2>3, <2>4 DEF v
<1>9. CASE v.tail = v.header /\ \A s \in S : ~IsOwnLine(s, c)
  <2>1. K = {}
    BY <1>7, <1>9
  <2> QED BY <1>4, <1>6, <1>9, <2>1 DEF v
<1> QED BY <1>3, <1>8, <1>9 DEF TailExact

LEMMA InvAssertions == FilingInv => AssertionsHold
BY DEF FilingInv, Projected, AssertionsHold

-----------------------------------------------------------------------------
(* After the patches.                                                      *)

LEMMA EmptyViewIsNew ==
  ASSUME NEW v, NEW ord, NEW c, Exact(v, ord, c, {})
  PROVE  v = NewView
<1>1. /\ v = [refs |-> v.refs, index |-> v.index, header |-> v.header, tail |-> v.tail]
      /\ Orders(v.refs, ord, {}) /\ IndexExact(v.index, ord, c, {})
      /\ HeaderExact(v.header, c, {}) /\ TailExact(v.tail, v.header, ord, c, {})
  BY DEF Exact
<1>2. v.refs = <<>>
  BY <1>1 DEF Orders
<1>3. v.index = [k \in {} |-> <<>>]
  <2>1. IsAFcn(v.index) /\ DOMAIN v.index = {}
    BY <1>1 DEF IndexExact
  <2> QED BY <2>1 DEF IsAFcn
<1>4. v.header = NoSlot /\ v.tail = NoSlot
  BY <1>1 DEF HeaderExact, TailExact
<1> QED BY <1>1, <1>2, <1>3, <1>4 DEF NewView

LEMMA TrimKeepsExact ==
  ASSUME NEW F, NEW ord, Consistent(F, ord), Root \in DOMAIN F.view
  PROVE  /\ Consistent(Trimmed(F), ord)
         /\ Trimmed(F).backs = F.backs /\ Trimmed(F).sound = F.sound
         /\ DOMAIN Trimmed(F).view = {Root} \cup UNION Range(F.backs)
<1> DEFINE G == Trimmed(F)
           D == {c \in DOMAIN F.view : c = Root \/ F.view[c] # NewView}
           W == [c \in D |-> F.view[c]]
<1>1. F = [view |-> F.view, backs |-> F.backs, sound |-> F.sound]
  BY DEF Consistent
<1>2. G = [F EXCEPT !.view = W]
  BY DEF Trimmed
<1> HIDE DEF W
<1>3. G = [view |-> W, backs |-> F.backs, sound |-> F.sound]
  BY <1>1, <1>2
<1> HIDE DEF G
<1>4. G.view = W /\ G.backs = F.backs /\ G.sound = F.sound
  BY <1>3
<1>5. DOMAIN W = D /\ (\A c \in D : W[c] = F.view[c]) /\ IsAFcn(W)
  BY DEF W, IsAFcn
<1>6. \A c : Listing(G, c) = Listing(F, c)
  BY <1>4 DEF Listing
<1>7. ASSUME NEW s \in DOMAIN F.backs, NEW c \in F.backs[s]
      PROVE  c \in D
  <2>1. c \in DOMAIN F.view /\ s \in Listing(F, c)
    BY <1>7 DEF Consistent, Listing
  <2>2. Orders(F.view[c].refs, ord, Listing(F, c))
    BY <2>1 DEF Consistent, Exact
  <2>3. F.view[c].refs # <<>>
    BY <2>1, <2>2 DEF Orders
  <2> QED BY <2>1, <2>3 DEF NewView
<1>8. ASSUME NEW c \in D, c # Root
      PROVE  \E s \in DOMAIN F.backs : c \in F.backs[s]
  <2>1. Exact(F.view[c], ord, c, Listing(F, c))
    BY DEF Consistent
  <2>2. Listing(F, c) # {}
    BY <1>8, <2>1, EmptyViewIsNew
  <2> QED BY <2>2 DEF Listing
<1>9. D = {Root} \cup UNION Range(F.backs)
  <2>1. \A c : c \in UNION Range(F.backs) <=> \E s \in DOMAIN F.backs : c \in F.backs[s]
    BY DEF Range
  <2>2. Root \in D
    OBVIOUS
  <2> HIDE DEF D
  <2> QED BY <1>7, <1>8, <2>1, <2>2
<1>10. \A c \in D : c \in DOMAIN F.view
  OBVIOUS
<1> HIDE DEF D
<1>11. Consistent(G, ord)
  <2>1. G = [view |-> G.view, backs |-> G.backs, sound |-> G.sound]
    BY <1>3, <1>4
  <2>2. IsAFcn(G.view) /\ IsAFcn(G.backs)
    BY <1>4, <1>5 DEF Consistent
  <2>3. \A s \in DOMAIN G.backs : G.backs[s] \subseteq DOMAIN G.view
    BY <1>4, <1>5, <1>7
  <2>4. \A c \in DOMAIN G.view : /\ Belong(ord, c, Listing(G, c))
                                 /\ Exact(G.view[c], ord, c, Listing(G, c))
    BY <1>4, <1>5, <1>6, <1>10 DEF Consistent
  <2> QED BY <2>1, <2>2, <2>3, <2>4 DEF Consistent
<1> QED BY <1>4, <1>5, <1>9, <1>11 DEF G

(* The keys a patch works with and those of the stream it leaves tell the  *)
(* same order.                                                             *)
Agreeing(ord, new, D) ==
  /\ \A s \in D : ord[s] \in Int /\ new[s] \in Int
  /\ \A s, t \in D : ord[s] < ord[t] <=> new[s] < new[t]

LEMMA Became ==
  ASSUME NEW run \in Seq(Slots), NEW F, Tidy(doc), Becomes(run, F),
         EntriesApart(Reparsed(run).d),
         NEW ord, Consistent(F, ord), Agreeing(ord, Keys(run), Range(run)),
         DOMAIN F.backs = Range(run), F.sound, Root \in DOMAIN F.view,
         \A s \in Range(run) : s \in Range(doc.stream) => F.backs[s] = doc.filed[s],
         \A s \in Range(run) : s \notin Range(doc.stream) => F.backs[s] = Reparsed(run).d.filed[s]
  PROVE  FilingInv'
<1> DEFINE e == Reparsed(run).d
<1>1. Reparsed(run).ok /\ e.stream = run /\ doc' = e /\ caches' = Trimmed(F)
      /\ \A s \in Range(run) \cap Range(doc.stream) : e.filed[s] = doc.filed[s]
  BY DEF Becomes
<1>2. Tidy(e)
  BY <1>1 DEF Tidy, Accepts
<1>3. \A s \in Range(run) : F.backs[s] = e.filed[s]
  BY <1>1
<1>4. DOMAIN e.filed = Range(run)
  BY <1>1, <1>2, TidyReads, FiledFacts
<1> HIDE DEF e
<1>5. Consistent(F, Keys(run))
  <2>1. /\ \A s \in DOMAIN F.backs : ord[s] \in Int /\ Keys(run)[s] \in Int
        /\ \A s, t \in DOMAIN F.backs : ord[s] < ord[t] <=> Keys(run)[s] < Keys(run)[t]
    BY DEF Agreeing
  <2> DEFINE new == Keys(run)
  <2> HIDE DEF new
  <2>2. Consistent(F, new)
    BY <2>1, RenumberKeepsViewsExact DEF new
  <2> QED BY <2>2 DEF new
<1>6. /\ Consistent(Trimmed(F), Keys(run))
      /\ Trimmed(F).backs = F.backs /\ Trimmed(F).sound = F.sound
      /\ DOMAIN Trimmed(F).view = {Root} \cup UNION Range(F.backs)
  BY <1>5, TrimKeepsExact
<1>7. Range(F.backs) = Range(e.filed)
  BY <1>3, <1>4 DEF Range
<1>8. Projected(Trimmed(F), e)
  BY <1>1, <1>3, <1>6, <1>7 DEF Projected
<1> QED BY <1>1, <1>2, <1>8 DEF FilingInv

LEMMA AgreeingItself ==
  ASSUME NEW S, NEW run \in Seq(S), Spread(run)
  PROVE  Agreeing(Keys(run), Keys(run), Range(run))
BY KeysMeaning DEF Agreeing, Keyed

(* Entries told apart: by slot, whatever their order.                      *)
Apart(S) == \A s, t \in S : \A e : Opens(s, e) /\ Opens(t, e) => s = t

LEMMA ApartAgain ==
  ASSUME NEW run \in Seq(Slots), Spread(run), Reparsed(run).d.stream = run, Apart(Range(run))
  PROVE  EntriesApart(Reparsed(run).d)
<1> DEFINE d == Reparsed(run).d
<1>1. d.stream = run
  OBVIOUS
<1> HIDE DEF d
<1>2. \A i \in 1..Len(run) : run[i] \in Range(run)
  BY DEF Range
<1> QED BY <1>1, <1>2 DEF EntriesApart, Spread, Apart, d

LEMMA SlotsApart ==
  ASSUME NEW d, Tidy(d)
  PROVE  Apart(Range(d.stream))
<1> SUFFICES ASSUME NEW s \in Range(d.stream), NEW t \in Range(d.stream), NEW e, Opens(s, e), Opens(t, e)
             PROVE  s = t
  BY DEF Apart
<1>1. PICK w : Reading(w, d)
  BY TidyReads
<1>2. PICK i \in 1..Len(d.stream) : d.stream[i] = s
  BY <1>1, FiledFacts
<1>3. PICK j \in 1..Len(d.stream) : d.stream[j] = t
  BY <1>1, FiledFacts
<1> QED BY <1>2, <1>3 DEF Tidy, EntriesApart

-----------------------------------------------------------------------------
(* The empty document.                                                     *)

LEMMA InitFiling == Init => FilingInv
<1> SUFFICES ASSUME Init PROVE FilingInv
  OBVIOUS
<1> DEFINE ord == Keys(doc.stream)
<1>1. doc = EmptyDocument /\ caches = NoCaches
  BY DEF Init
<1>2. doc.stream = <<>> /\ DOMAIN doc.filed = {}
  BY <1>1 DEF EmptyDocument
<1>3. Reparsed(<<>>) = [ok |-> TRUE, v |-> FreshValidator, d |-> EmptyDocument]
  <2> DEFINE run == <<>>
  <2>1. Len(run) \in Nat /\ Len(run) = 0
    OBVIOUS
  <2> HIDE DEF run
  <2>2. PICK f : ReadBy(run, f, Len(run)) /\ Reparsed(run) = f[Len(run)]
    BY <2>1, ReparsedMeaning
  <2> QED BY <2>1, <2>2 DEF ReadBy, run
<1>4. Tidy(doc)
  <2>1. Reparsed(doc.stream).ok /\ Reparsed(doc.stream).d = doc
    BY <1>1, <1>2, <1>3
  <2>2. EntriesApart(doc)
    BY <1>2 DEF EntriesApart
  <2> QED BY <1>2, <2>1, <2>2 DEF Tidy, Accepts
<1>5. Range(doc.stream) = {} /\ Range(doc.filed) = {}
  BY <1>2 DEF Range
<1>6. caches = [view |-> [c \in {Root} |-> NewView], backs |-> [s \in {} |-> {}], sound |-> TRUE]
  BY <1>1 DEF NoCaches
<1> HIDE DEF ord
<1>7. Consistent(caches, ord)
  <2>1. Listing(caches, Root) = {}
    BY <1>6 DEF Listing
  <2>2. Belong(ord, Root, {})
    BY DEF Belong, Keyed
  <2>3. Exact(NewView, ord, Root, {})
    BY NewViewExact
  <2> QED BY <1>6, <2>1, <2>2, <2>3 DEF Consistent, IsAFcn
<1>8. Projected(caches, doc)
  BY <1>5, <1>6, <1>7 DEF Projected, ord
<1> QED BY <1>4, <1>8 DEF FilingInv

-----------------------------------------------------------------------------
(* A region leaves its place, or changes its order.                        *)

LEMMA MovedAlong ==
  ASSUME NEW D, NEW ord, Keyed(ord, D), NEW R \in SUBSET D, Together(ord, D, R),
         NEW A, NEW B, \A s : s \in D \ R <=> s \in A \/ s \in B,
         \A s \in A, t \in B : ord[s] < ord[t],
         NEW a, Orders(a, ord, A), NEW b, Orders(b, ord, B),
         NEW m \in Seq(R), Spread(m), \A s \in R : \E i \in 1..Len(m) : m[i] = s
  PROVE  LET new == a \o m \o b
         IN  new \in Seq(D) /\ Spread(new) /\ Range(new) = D /\ Rearranged(ord, Keys(new), D, R)
<1> DEFINE new == a \o m \o b
           x == Len(a)
           y == x + Len(m)
           z == y + Len(b)
           ord2 == Keys(new)
<1>1. a \in Seq(D) /\ b \in Seq(D) /\ m \in Seq(D) /\ a \in Seq(A) /\ b \in Seq(B)
  <2>1. a \in Seq(A) /\ b \in Seq(B) /\ A \subseteq D /\ B \subseteq D
    BY DEF Orders
  <2> QED BY <2>1
<1>2. x \in Nat /\ Len(m) \in Nat /\ Len(b) \in Nat /\ y \in Nat /\ z \in Nat
  BY <1>1
<1>3. /\ new \in Seq(D) /\ Len(new) = z
      /\ \A i \in 1..x : new[i] = a[i] /\ new[i] \in A
      /\ \A i \in (x + 1)..y : new[i] = m[i - x] /\ new[i] \in R
      /\ \A i \in (y + 1)..z : new[i] = b[i - y] /\ new[i] \in B
  <2> DEFINE am == a \o m
  <2>1. /\ am \in Seq(D) /\ Len(am) = y
        /\ \A i \in 1..y : am[i] = IF i <= x THEN a[i] ELSE m[i - x]
    BY <1>1, Joined
  <2>2. new = am \o b
    OBVIOUS
  <2> HIDE DEF am, new, y, x
  <2>3. /\ new \in Seq(D) /\ Len(new) = y + Len(b)
        /\ \A i \in 1..(y + Len(b)) : new[i] = IF i <= y THEN am[i] ELSE b[i - y]
    BY <1>1, <2>1, <2>2, Joined
  <2>4. \A i \in 1..x : new[i] = a[i]
    BY <1>2, <2>1, <2>3 DEF y
  <2>5. \A i \in (x + 1)..y : new[i] = m[i - x] /\ i - x \in 1..Len(m)
    BY <1>2, <2>1, <2>3 DEF y
  <2>6. \A i \in (y + 1)..z : new[i] = b[i - y] /\ i - y \in 1..Len(b)
    BY <1>2, <2>3 DEF y
  <2>7. \A i \in 1..x : a[i] \in A
    BY <1>1 DEF x
  <2>8. \A i \in 1..Len(m) : m[i] \in R
    OBVIOUS
  <2>9. \A i \in 1..Len(b) : b[i] \in B
    BY <1>1
  <2> QED BY <2>3, <2>4, <2>5, <2>6, <2>7, <2>8, <2>9
<1> HIDE DEF new
<1>4. \A i \in 1..z : i \in 1..x \/ i \in (x + 1)..y \/ i \in (y + 1)..z
  BY <1>2
<1>5. Keyed(ord, A) /\ Keyed(ord, B)
  <2>1. A \subseteq D /\ B \subseteq D
    OBVIOUS
  <2> QED BY <2>1, KeyedSubset
<1>6. \A s \in A : s \notin B
  <2> SUFFICES ASSUME NEW s \in A, s \in B PROVE FALSE
    OBVIOUS
  <2>1. ord[s] < ord[s] /\ ord[s] \in Int
    BY <1>5 DEF Keyed
  <2> QED BY <2>1
<1>7. /\ \A i, j \in 1..Len(a) : i <= j <=> ord[a[i]] <= ord[a[j]]
      /\ \A i, j \in 1..Len(b) : i <= j <=> ord[b[i]] <= ord[b[j]]
  BY <1>5, OrdersFacts
<1>8. Spread(new)
  <2> SUFFICES ASSUME NEW i \in 1..z, NEW j \in 1..z, new[i] = new[j] PROVE i = j
    BY <1>3 DEF Spread
  <2> HIDE DEF x, y, z
  <2>1. CASE i \in 1..x
    <3>1. j \in 1..x
      BY <1>3, <1>4, <1>6, <2>1
    <3>2. a[i] = a[j] /\ i \in 1..Len(a) /\ j \in 1..Len(a) /\ ord[a[i]] \in Int
      BY <1>3, <1>5, <2>1, <3>1 DEF x, Keyed
    <3>3. i <= j /\ j <= i
      BY <1>7, <3>2
    <3> QED BY <1>2, <2>1, <3>1, <3>3
  <2>2. CASE i \in (x + 1)..y
    <3>1. j \in (x + 1)..y
      BY <1>3, <1>4, <2>2
    <3>2. i - x \in 1..Len(m) /\ j - x \in 1..Len(m)
      BY <1>2, <2>2, <3>1 DEF y, x
    <3>4. m[i - x] = m[j - x]
      BY <1>3, <2>2, <3>1
    <3>3. i - x = j - x
      BY <3>2, <3>4 DEF Spread
    <3> QED BY <1>2, <2>2, <3>1, <3>3
  <2>3. CASE i \in (y + 1)..z
    <3>1. j \in (y + 1)..z
      BY <1>3, <1>4, <1>6, <2>3
    <3>2. b[i - y] = b[j - y] /\ i - y \in 1..Len(b) /\ j - y \in 1..Len(b) /\ ord[b[i - y]] \in Int
      BY <1>2, <1>3, <1>5, <2>3, <3>1 DEF z, Keyed
    <3>3. i - y <= j - y /\ j - y <= i - y
      BY <1>7, <3>2
    <3> QED BY <1>2, <2>3, <3>1, <3>3
  <2> QED BY <1>4, <2>1, <2>2, <2>3
<1>9. /\ \A s \in A : \E i \in 1..x : new[i] = s
      /\ \A s \in R : \E i \in (x + 1)..y : new[i] = s
      /\ \A s \in B : \E i \in (y + 1)..z : new[i] = s
  <2>1. ASSUME NEW s \in A PROVE \E i \in 1..x : new[i] = s
    <3>1. PICK i \in 1..Len(a) : a[i] = s
      BY DEF Orders
    <3> QED BY <1>3, <3>1
  <2>2. ASSUME NEW s \in R PROVE \E i \in (x + 1)..y : new[i] = s
    <3>1. PICK i \in 1..Len(m) : m[i] = s
      OBVIOUS
    <3>2. x + i \in (x + 1)..y /\ (x + i) - x = i
      BY <1>2
    <3>3. new[x + i] = s
      BY <1>3, <3>1, <3>2
    <3> QED BY <3>2, <3>3
  <2>3. ASSUME NEW s \in B PROVE \E i \in (y + 1)..z : new[i] = s
    <3>1. PICK i \in 1..Len(b) : b[i] = s
      BY DEF Orders
    <3>2. y + i \in (y + 1)..z /\ (y + i) - y = i
      BY <1>2
    <3>3. new[y + i] = s
      BY <1>3, <3>1, <3>2
    <3> QED BY <3>2, <3>3
  <2> QED BY <2>1, <2>2, <2>3
<1>10. Range(new) = D
  <2>1. DOMAIN new = 1..z
    BY <1>3
  <2>2. \A i \in 1..z : new[i] \in D
    BY <1>3, <1>4
  <2>3. (1..x) \subseteq 1..z /\ ((x + 1)..y) \subseteq 1..z /\ ((y + 1)..z) \subseteq 1..z
    BY <1>2
  <2> HIDE DEF x, y, z
  <2>4. \A s \in D : \E i \in 1..z : new[i] = s
    BY <1>9, <2>3
  <2> QED BY <2>1, <2>2, <2>4 DEF Range
<1>11. /\ \A i \in 1..z : ord2[new[i]] = i
       /\ Keyed(ord2, D)
  BY <1>3, <1>8, <1>10, KeysMeaning
<1> HIDE DEF ord2
<1>12. /\ \A s \in A : \E i \in 1..Len(a) : a[i] = s /\ ord2[s] = i
       /\ \A s \in R : ord2[s] \in (x + 1)..y
       /\ \A s \in B : \E i \in 1..Len(b) : b[i] = s /\ ord2[s] = y + i
  <2>1. ASSUME NEW s \in A PROVE \E i \in 1..Len(a) : a[i] = s /\ ord2[s] = i
    <3>1. PICK i \in 1..x : new[i] = s
      BY <1>9
    <3>2. i \in 1..z
      BY <1>2
    <3> QED BY <1>3, <1>11, <3>1, <3>2
  <2>2. ASSUME NEW s \in R PROVE ord2[s] \in (x + 1)..y
    <3>1. PICK i \in (x + 1)..y : new[i] = s
      BY <1>9
    <3>2. i \in 1..z
      BY <1>2
    <3> QED BY <1>11, <3>1, <3>2
  <2>3. ASSUME NEW s \in B PROVE \E i \in 1..Len(b) : b[i] = s /\ ord2[s] = y + i
    <3>1. PICK i \in (y + 1)..z : new[i] = s
      BY <1>9
    <3>2. i \in 1..z /\ i - y \in 1..Len(b) /\ y + (i - y) = i
      BY <1>2
    <3>3. b[i - y] = s /\ ord2[s] = i
      BY <1>3, <1>11, <3>1, <3>2
    <3> QED BY <3>2, <3>3
  <2> QED BY <2>1, <2>2, <2>3
<1>13. \A s \in A, r \in R : ord2[s] < ord2[r]
  <2> SUFFICES ASSUME NEW s \in A, NEW r \in R PROVE ord2[s] < ord2[r]
    OBVIOUS
  <2>1. ord2[s] \in 1..x /\ ord2[r] \in (x + 1)..y
    BY <1>12
  <2> HIDE DEF x, y
  <2> QED BY <1>2, <2>1
<1>14. \A s \in B : \A r : r \in A \/ r \in R => ord2[r] < ord2[s]
  <2> SUFFICES ASSUME NEW s \in B, NEW r, r \in A \/ r \in R PROVE ord2[r] < ord2[s]
    OBVIOUS
  <2>1. ord2[r] \in 1..x \/ ord2[r] \in (x + 1)..y
    BY <1>12
  <2>2. PICK i \in 1..Len(b) : ord2[s] = y + i
    BY <1>12
  <2> QED BY <1>2, <2>1, <2>2
<1>15. Together(ord2, D, R)
  BY <1>13, <1>14 DEF Together
<1>16. KeepTheirOrder(ord, ord2, D, R)
  <2> SUFFICES ASSUME NEW s \in D \ R, NEW t \in D \ R, ord[s] < ord[t] PROVE ord2[s] < ord2[t]
    BY DEF KeepTheirOrder
  <2>1. ord[s] \in Int /\ ord[t] \in Int
    BY DEF Keyed
  <2>2. CASE s \in A /\ t \in A
    <3>1. PICK i \in 1..Len(a) : a[i] = s /\ ord2[s] = i
      BY <1>12, <2>2
    <3>2. PICK j \in 1..Len(a) : a[j] = t /\ ord2[t] = j
      BY <1>12, <2>2
    <3>3. ~(j <= i)
      BY <1>7, <2>1, <3>1, <3>2
    <3> QED BY <3>1, <3>2, <3>3
  <2>3. CASE s \in A /\ t \in B
    BY <1>14, <2>3
  <2>4. CASE s \in B /\ t \in A
    <3>1. ord[t] < ord[s]
      BY <2>4
    <3> QED BY <2>1, <3>1
  <2>5. CASE s \in B /\ t \in B
    <3>1. PICK i \in 1..Len(b) : b[i] = s /\ ord2[s] = y + i
      BY <1>12, <2>5
    <3>2. PICK j \in 1..Len(b) : b[j] = t /\ ord2[t] = y + j
      BY <1>12, <2>5
    <3>3. ~(j <= i)
      BY <1>7, <2>1, <3>1, <3>2
    <3> QED BY <1>2, <3>1, <3>2, <3>3
  <2> QED BY <2>2, <2>3, <2>4, <2>5
<1> QED BY <1>3, <1>8, <1>10, <1>11, <1>15, <1>16 DEF Rearranged, new, ord2

LEMMA RearrangedFiling ==
  ASSUME FilingInv, NEW R \in SUBSET Range(doc.stream), NEW region, Orders(region, Keys(doc.stream), R),
         NEW run \in Seq(Range(doc.stream)), Spread(run), Range(run) = Range(doc.stream),
         Rearranged(Keys(doc.stream), Keys(run), Range(doc.stream), R),
         Becomes(run, Refile(caches, Keys(doc.stream), region, Keys(run)))
  PROVE  FilingInv'
<1> DEFINE old == Keys(doc.stream)
           new == Keys(run)
           F == Refile(caches, old, region, new)
<1>1. Tidy(doc) /\ Projected(caches, doc)
  BY DEF FilingInv
<1>2. run \in Seq(Slots)
  <2>1. Range(doc.stream) \subseteq Slots
    BY <1>1 DEF Tidy, Range
  <2> QED BY <2>1
<1>3. /\ Consistent(caches, old) /\ DOMAIN caches.backs = Range(doc.stream) /\ caches.sound
      /\ Root \in DOMAIN caches.view
      /\ \A s \in Range(doc.stream) : caches.backs[s] = doc.filed[s]
  BY <1>1 DEF Projected
<1>4. /\ Becomes(run, F) /\ R \in SUBSET DOMAIN caches.backs
      /\ Rearranged(old, new, DOMAIN caches.backs, R) /\ Orders(region, old, R)
  BY <1>3
<1>5. EntriesApart(Reparsed(run).d)
  <2>1. Reparsed(run).d.stream = run
    BY DEF Becomes
  <2>2. Apart(Range(run))
    BY <1>1, SlotsApart
  <2> QED BY <1>2, <2>1, <2>2, ApartAgain
<1>6. Agreeing(new, new, Range(run))
  BY AgreeingItself
<1> HIDE DEF old, new
<1>7. /\ Consistent(F, new) /\ F.sound = caches.sound /\ F.backs = caches.backs
      /\ DOMAIN F.view = DOMAIN caches.view
  <2>1. Consistent(caches, old)
    BY <1>3
  <2> QED BY <2>1, <1>4, RefileKeepsViewsExact
<1>8. Agreeing(new, Keys(run), Range(run))
  BY <1>6 DEF new
<1> HIDE DEF F
<1> QED BY <1>1, <1>2, <1>3, <1>4, <1>5, <1>7, <1>8, Became

(* The slots of a stretch of the stream, and of what lies around it. *)
LEMMA Stretch ==
  ASSUME NEW S, NEW q \in Seq(S), Spread(q), NEW i \in 1..Len(q), NEW j \in 1..Len(q), i <= j
  PROVE  LET R == {q[k] : k \in i..j}
             ord == Keys(q)
             run == SubSeq(q, i, j)
         IN  /\ R \subseteq Range(q) /\ Orders(run, ord, R) /\ Range(run) = R
             /\ Together(ord, Range(q), R)
             /\ \A k \in 1..Len(q) : q[k] \in R <=> k \in i..j
<1> DEFINE R == {q[k] : k \in i..j}
           ord == Keys(q)
           run == SubSeq(q, i, j)
           n == Len(q)
<1>1. n \in Nat /\ \A k \in i..j : k \in 1..n
  OBVIOUS
<1>2. /\ \A k \in 1..n : q[k] \in Range(q) /\ ord[q[k]] = k
      /\ \A s \in Range(q) : ord[s] \in 1..n /\ q[ord[s]] = s
      /\ Orders(q, ord, Range(q))
  BY KeysMeaning
<1> HIDE DEF n, ord
<1>3. \A k \in 1..n : q[k] \in R <=> k \in i..j
  <2> SUFFICES ASSUME NEW k \in 1..n, q[k] \in R PROVE k \in i..j
    OBVIOUS
  <2>1. PICK l \in i..j : q[k] = q[l]
    OBVIOUS
  <2>2. k = l
    BY <1>1, <2>1 DEF Spread, n
  <2> QED BY <2>2
<1>4. R \subseteq Range(q)
  BY <1>1, <1>2
<1>5. Orders(run, ord, R)
  <2>1. i - 1 \in 0..n /\ j \in 0..n /\ i - 1 <= j /\ (i - 1) + 1 = i
    BY <1>1
  <2>2. Orders(Slice(q, i - 1, j), ord, {q[k] : k \in ((i - 1) + 1)..j})
    BY <1>2, <2>1, OrderedSlice DEF n
  <2>3. Slice(q, i - 1, j) = run
    BY <2>1 DEF Slice
  <2> QED BY <2>1, <2>2, <2>3
<1>6. Range(run) = R
  <2>1. run \in Seq(R) /\ \A s \in R : \E k \in 1..Len(run) : run[k] = s
    BY <1>5 DEF Orders
  <2> HIDE DEF run, R
  <2> QED BY <2>1 DEF Range
<1>7. Together(ord, Range(q), R)
  <2> SUFFICES ASSUME NEW t \in Range(q) \ R
               PROVE  (\A r \in R : ord[t] < ord[r]) \/ (\A r \in R : ord[r] < ord[t])
    BY <1>4 DEF Together
  <2>1. ord[t] \in 1..n /\ ord[t] \notin i..j
    BY <1>2, <1>3
  <2>2. \A r \in R : ord[r] \in i..j
    BY <1>1, <1>2
  <2>3. ord[t] < i \/ ord[t] > j
    BY <1>1, <2>1
  <2> QED BY <1>1, <2>1, <2>2, <2>3
<1> QED BY <1>3, <1>4, <1>5, <1>6, <1>7 DEF n, ord

LEMMA MoveFiling == FilingInv /\ MoveSlots => FilingInv'
<1> SUFFICES ASSUME FilingInv, MoveSlots PROVE FilingInv'
  OBVIOUS
<1> DEFINE q == doc.stream
           n == Len(q)
           ord == Keys(q)
<1>1. PICK i \in DOMAIN q, j \in DOMAIN q, p \in 0..n :
        /\ p \notin (i - 1)..j
        /\ i <= j
        /\ Becomes(MoveRun(doc, SubSeq(q, i, j), SlotAt(doc, p)).stream,
                   Refile(caches, ord, SubSeq(q, i, j),
                          Keys(MoveRun(doc, SubSeq(q, i, j), SlotAt(doc, p)).stream)))
  BY DEF MoveSlots
<1>2. PICK w : Reading(w, doc)
  BY TidyReads DEF FilingInv
<1>3. q \in Seq(Slots) /\ n \in Nat /\ DOMAIN q = 1..n /\ Spread(q) /\ NoSlot \notin Range(q)
  BY <1>2, FiledFacts
<1>4. /\ \A k \in 1..n : q[k] \in Range(q) /\ ord[q[k]] = k
      /\ Keyed(ord, Range(q)) /\ Orders(q, ord, Range(q))
  BY <1>3, KeysMeaning
<1> DEFINE R == {q[k] : k \in i..j}
           run == SubSeq(q, i, j)
           rest == Dropping(q, Range(run))
           anchor == SlotAt(doc, p)
           at == IF anchor = NoSlot THEN 0 ELSE CHOOSE k \in DOMAIN rest : rest[k] = anchor
           new == SubSeq(rest, 1, at) \o run \o SubSeq(rest, at + 1, Len(rest))
<1>5. MoveRun(doc, run, anchor).stream = new
  <2>1. doc = [stream |-> doc.stream, filed |-> doc.filed, tree |-> doc.tree, aot |-> doc.aot]
    BY <1>2 DEF Reading, IsDocument, IsRecord
  <2> HIDE DEF new
  <2>2. MoveRun(doc, run, anchor) = [doc EXCEPT !.stream = new]
    BY DEF MoveRun, new
  <2> QED BY <2>1, <2>2
<1>6. /\ R \subseteq Range(q) /\ Orders(run, ord, R) /\ Range(run) = R
      /\ Together(ord, Range(q), R)
      /\ \A k \in 1..n : q[k] \in R <=> k \in i..j
  BY <1>1, <1>3, Stretch
<1>7. Orders(rest, ord, Range(q) \ R)
  <2>1. Orders(Keeping(q, Range(q) \ R), ord, Range(q) \cap (Range(q) \ R))
    BY <1>4, KeepingOrders
  <2>2. Range(q) \cap (Range(q) \ R) = Range(q) \ R
    OBVIOUS
  <2> QED BY <1>6, <2>1, <2>2 DEF Dropping
<1> HIDE DEF q, rest, run, ord, R
<1>8. at \in 0..Len(rest) /\ Len(rest) \in Nat
  <2>1. rest \in Seq(Range(q) \ R) /\ \A s \in Range(q) \ R : \E k \in 1..Len(rest) : rest[k] = s
    BY <1>7 DEF Orders
  <2>2. Len(rest) \in Nat /\ DOMAIN rest = 1..Len(rest)
    BY <2>1
  <2>3. CASE anchor = NoSlot
    BY <2>2, <2>3
  <2>4. CASE anchor # NoSlot
    <3>1. p \in 1..n /\ p \notin i..j /\ anchor = q[p]
      BY <1>1, <1>3, <2>4 DEF SlotAt, q
    <3>2. anchor \in Range(q) \ R
      BY <1>4, <1>6, <3>1
    <3>3. \E k \in DOMAIN rest : rest[k] = anchor
      BY <2>1, <2>2, <3>2
    <3> HIDE DEF anchor
    <3>4. (CHOOSE k \in DOMAIN rest : rest[k] = anchor) \in DOMAIN rest
      BY <3>3
    <3> QED BY <2>2, <2>4, <3>4
  <2> QED BY <2>3, <2>4
<1> HIDE DEF at
<1> DEFINE l == Len(rest)
           a == SubSeq(rest, 1, at)
           b == SubSeq(rest, at + 1, l)
           A == {rest[k] : k \in 1..at}
           B == {rest[k] : k \in (at + 1)..l}
<1>9. Orders(a, ord, A) /\ Orders(b, ord, B)
  <2>1. 0 \in 0..l /\ l \in 0..l /\ 0 <= at /\ at <= l /\ 0 + 1 = 1
    BY <1>8
  <2>2. Orders(Slice(rest, 0, at), ord, {rest[k] : k \in (0 + 1)..at})
        /\ Orders(Slice(rest, at, l), ord, {rest[k] : k \in (at + 1)..l})
    BY <1>7, <1>8, <2>1, OrderedSlice
  <2>3. Slice(rest, 0, at) = a /\ Slice(rest, at, l) = b
    BY <2>1 DEF Slice
  <2> QED BY <2>1, <2>2, <2>3
<1>10. \A s : s \in Range(q) \ R <=> s \in A \/ s \in B
  <2>1. rest \in Seq(Range(q) \ R) /\ \A s \in Range(q) \ R : \E k \in 1..l : rest[k] = s
    BY <1>7 DEF Orders
  <2>2. \A k \in 1..l : rest[k] \in Range(q) \ R
    BY <2>1
  <2>3. \A k : k \in 1..l <=> k \in 1..at \/ k \in (at + 1)..l
    BY <1>8
  <2> QED BY <2>1, <2>2, <2>3
<1>11. \A s \in A, t \in B : ord[s] < ord[t]
  <2>1. \A x, y \in 1..l : x < y => ord[rest[x]] < ord[rest[y]]
    BY <1>7 DEF Orders
  <2>2. \A x \in 1..at, y \in (at + 1)..l : x \in 1..l /\ y \in 1..l /\ x < y
    BY <1>8
  <2> QED BY <2>1, <2>2
<1>12. run \in Seq(R) /\ Spread(run) /\ \A s \in R : \E k \in 1..Len(run) : run[k] = s
  <2>1. run \in Seq(R) /\ \A s \in R : \E k \in 1..Len(run) : run[k] = s
    BY <1>6 DEF Orders
  <2>2. Keyed(ord, R)
    BY <1>4, <1>6, KeyedSubset
  <2>3. \A x, y \in 1..Len(run) : x <= y <=> ord[run[x]] <= ord[run[y]]
    BY <1>6, <2>2, OrdersFacts
  <2>4. Spread(run)
    <3> SUFFICES ASSUME NEW x \in 1..Len(run), NEW y \in 1..Len(run), run[x] = run[y] PROVE x = y
      BY DEF Spread
    <3>1. ord[run[x]] \in Int /\ Len(run) \in Nat
      BY <2>1, <2>2 DEF Keyed
    <3>2. x <= y /\ y <= x
      BY <2>3, <3>1
    <3> QED BY <3>1, <3>2
  <2> QED BY <2>1, <2>4
<1> DEFINE D == Range(q)
<1>13. new = a \o run \o b
  OBVIOUS
<1>14. Keyed(ord, D) /\ R \in SUBSET D /\ Together(ord, D, R)
  BY <1>4, <1>6
<1> HIDE DEF a, b, A, B, new, D, l
<1>15. new \in Seq(D) /\ Spread(new) /\ Range(new) = D /\ Rearranged(ord, Keys(new), D, R)
  <2>1. \A s : s \in D \ R <=> s \in A \/ s \in B
    BY <1>10 DEF D
  <2>2. /\ a \o run \o b \in Seq(D) /\ Spread(a \o run \o b) /\ Range(a \o run \o b) = D
        /\ Rearranged(ord, Keys(a \o run \o b), D, R)
    BY <1>9, <1>11, <1>12, <1>14, <2>1, MovedAlong
  <2> QED BY <1>13, <2>2
<1>16. Becomes(new, Refile(caches, ord, run, Keys(new)))
  BY <1>1, <1>5 DEF q, run, ord, anchor
<1> QED BY <1>6, <1>14, <1>15, <1>16, RearrangedFiling DEF D, q, ord

(* Each slot of the region once. *)
LEMMA PermutedMeaning ==
  ASSUME NEW i \in Int, NEW j \in Int, i <= j, NEW order \in Permuted(i..j)
  PROVE  /\ order \in [1..(j - i + 1) -> i..j]
         /\ \A k \in i..j : \E x \in 1..(j - i + 1) : order[x] = k
         /\ \A x, y \in 1..(j - i + 1) : order[x] = order[y] => x = y
<1> DEFINE n == j - i + 1
           T == i..j
           S == 1..n
<1>1. IsFiniteSet(T) /\ Cardinality(T) = n /\ n \in Nat
  BY FS_Interval
<1>2. IsFiniteSet(S) /\ Cardinality(S) = n
  BY <1>1, FS_Interval
<1>3. order \in [S -> T] /\ Range(order) = T
  BY <1>1 DEF Permuted
<1> HIDE DEF T, n
<1>4. \A k \in T : \E x \in S : order[x] = k
  BY <1>3 DEF Range
<1>5. order \in Surjection(S, T)
  BY <1>3, <1>4 DEF Surjection
<1>6. order \in Injection(S, T)
  BY <1>1, <1>2, <1>5, FS_SurjSameCardinalityImpliesInj
<1>7. \A x, y \in S : order[x] = order[y] => x = y
  <2>1. IsInjective(order) /\ DOMAIN order = S
    BY <1>3, <1>6 DEF Injection
  <2> QED BY <2>1 DEF IsInjective
<1> QED BY <1>3, <1>4, <1>7 DEF T, n

LEMMA PermuteFiling == FilingInv /\ PermuteRegion => FilingInv'
<1> SUFFICES ASSUME FilingInv, PermuteRegion PROVE FilingInv'
  OBVIOUS
<1> DEFINE q == doc.stream
           n == Len(q)
           ord == Keys(q)
<1>1. PICK i \in DOMAIN q, j \in DOMAIN q :
        /\ i < j
        /\ \E order \in Permuted(i..j) :
             LET region == SubSeq(q, i, j)
                 new == SubSeq(q, 1, i - 1) \o [k \in DOMAIN order |-> q[order[k]]] \o SubSeq(q, j + 1, n)
             IN  Becomes(new, Refile(caches, ord, region, Keys(new)))
  BY DEF PermuteRegion
<1> DEFINE R == {q[k] : k \in i..j}
           region == SubSeq(q, i, j)
           a == SubSeq(q, 1, i - 1)
           b == SubSeq(q, j + 1, n)
<1>2. PICK order \in Permuted(i..j) :
        LET m == [k \in DOMAIN order |-> q[order[k]]]
        IN  Becomes(a \o m \o b, Refile(caches, ord, region, Keys(a \o m \o b)))
  BY <1>1
<1> DEFINE m == [k \in DOMAIN order |-> q[order[k]]]
           new == a \o m \o b
<1>3. PICK w : Reading(w, doc)
  BY TidyReads DEF FilingInv
<1>4. q \in Seq(Slots) /\ n \in Nat /\ DOMAIN q = 1..n /\ Spread(q)
  BY <1>3, FiledFacts
<1>5. /\ \A k \in 1..n : q[k] \in Range(q) /\ ord[q[k]] = k
      /\ \A s \in Range(q) : ord[s] \in 1..n /\ q[ord[s]] = s
      /\ Keyed(ord, Range(q)) /\ Orders(q, ord, Range(q))
  BY <1>4, KeysMeaning
<1>6. i \in 1..n /\ j \in 1..n /\ i <= j
  BY <1>1, <1>4
<1> HIDE DEF q
<1>7. /\ R \subseteq Range(q) /\ Orders(region, ord, R) /\ Range(region) = R
      /\ Together(ord, Range(q), R)
      /\ \A k \in 1..n : q[k] \in R <=> k \in i..j
  <2>1. q \in Seq(Slots) /\ Spread(q) /\ i \in 1..n /\ j \in 1..n /\ i <= j
    BY <1>4, <1>6
  <2> QED BY <2>1, Stretch
<1>8. /\ order \in [1..(j - i + 1) -> i..j]
      /\ \A k \in i..j : \E x \in 1..(j - i + 1) : order[x] = k
      /\ \A x, y \in 1..(j - i + 1) : order[x] = order[y] => x = y
  <2>1. i \in Int /\ j \in Int /\ i <= j /\ order \in Permuted(i..j)
    BY <1>4, <1>6
  <2> QED BY <2>1, PermutedMeaning
<1> DEFINE A == {q[k] : k \in 1..(i - 1)}
           B == {q[k] : k \in (j + 1)..n}
<1> HIDE DEF ord
<1>9. Orders(a, ord, A) /\ Orders(b, ord, B)
  <2>1. 0 \in 0..n /\ n \in 0..n /\ i - 1 \in 0..n /\ j \in 0..n /\ 0 <= i - 1 /\ j <= n /\ 0 + 1 = 1
    BY <1>4, <1>6
  <2>2. Orders(Slice(q, 0, i - 1), ord, {q[k] : k \in (0 + 1)..(i - 1)})
        /\ Orders(Slice(q, j, n), ord, {q[k] : k \in (j + 1)..n})
    BY <1>5, <2>1, OrderedSlice
  <2>3. Slice(q, 0, i - 1) = a /\ Slice(q, j, n) = b
    BY <2>1 DEF Slice
  <2> QED BY <2>1, <2>2, <2>3
<1>10. \A s : s \in Range(q) \ R <=> s \in A \/ s \in B
  <2>1. \A k \in 1..n : k \notin i..j <=> k \in 1..(i - 1) \/ k \in (j + 1)..n
    BY <1>4, <1>6
  <2>2. \A k : k \in 1..(i - 1) \/ k \in (j + 1)..n => k \in 1..n
    BY <1>4, <1>6
  <2> HIDE DEF n, R
  <2> QED BY <1>5, <1>7, <2>1, <2>2
<1>11. \A s \in A, t \in B : ord[s] < ord[t]
  <2> SUFFICES ASSUME NEW x \in 1..(i - 1), NEW y \in (j + 1)..n PROVE ord[q[x]] < ord[q[y]]
    OBVIOUS
  <2>1. x \in 1..n /\ y \in 1..n /\ x < y
    BY <1>4, <1>6
  <2> QED BY <1>5, <2>1
<1>12. m \in Seq(R) /\ Spread(m) /\ \A s \in R : \E k \in 1..Len(m) : m[k] = s
  <2> DEFINE l == j - i + 1
  <2>1. l \in Nat /\ DOMAIN order = 1..l
    BY <1>6, <1>8
  <2>2. m = [k \in 1..l |-> q[order[k]]]
    BY <2>1
  <2> HIDE DEF l, m
  <2>3. \A k \in 1..l : order[k] \in i..j /\ m[k] = q[order[k]] /\ m[k] \in R
    BY <1>8, <2>2 DEF l
  <2>4. m \in Seq(R) /\ Len(m) = l
    BY <2>1, <2>2, <2>3
  <2>5. Spread(m)
    <3> SUFFICES ASSUME NEW x \in 1..l, NEW y \in 1..l, m[x] = m[y] PROVE x = y
      BY <2>4 DEF Spread
    <3>1. order[x] \in 1..n /\ order[y] \in 1..n
      BY <1>4, <1>6, <2>3
    <3>2. order[x] = order[y]
      BY <1>4, <2>3, <3>1 DEF Spread
    <3> QED BY <1>8, <3>2 DEF l
  <2>6. ASSUME NEW s \in R PROVE \E k \in 1..l : m[k] = s
    <3>1. PICK k \in i..j : s = q[k]
      OBVIOUS
    <3>2. PICK x \in 1..l : order[x] = k
      BY <1>8 DEF l
    <3> QED BY <2>3, <3>1, <3>2
  <2> QED BY <2>4, <2>5, <2>6
<1> DEFINE D == Range(q)
<1>13. Keyed(ord, D) /\ R \in SUBSET D /\ Together(ord, D, R) /\ \A s : s \in D \ R <=> s \in A \/ s \in B
  BY <1>5, <1>7, <1>10
<1>14. Becomes(new, Refile(caches, ord, region, Keys(new)))
  BY <1>2
<1>15. FilingInv /\ Orders(region, ord, R)
  BY <1>7
<1> HIDE DEF a, b, A, B, m, R, D, region
<1>16. /\ a \o m \o b \in Seq(D) /\ Spread(a \o m \o b) /\ Range(a \o m \o b) = D
       /\ Rearranged(ord, Keys(a \o m \o b), D, R)
  BY <1>9, <1>11, <1>12, <1>13, MovedAlong
<1> QED BY <1>13, <1>14, <1>15, <1>16, RearrangedFiling DEF D, q, ord

-----------------------------------------------------------------------------
(* A new line.                                                             *)

LEMMA FreshUnused ==
  ASSUME NEW v, NEW d, Reading(v, d)
  PROVE  /\ FreshEntry(d) \in Nat \ {0}
         /\ \A a \in DOMAIN d.aot : FreshEntry(d) \notin Range(d.aot[a])
         /\ \A i \in 1..Len(d.stream) : ~Opens(d.stream[i], FreshEntry(d))
<1> DEFINE n == Len(d.stream)
           U(e) == \E a \in DOMAIN d.aot : e \in Range(d.aot[a])
           M == {e \in 1..(n + 1) : ~U(e)}
<1>1. n \in Nat
  BY FiledFacts
<1>2. ASSUME NEW e, U(e) PROVE \E g \in 1..n : Opens(d.stream[g], e)
  <2>1. PICK a \in DOMAIN d.aot : e \in Range(d.aot[a])
    BY <1>2
  <2>2. d.aot[a] \in Seq(Nat)
    BY DEF Reading, Agree
  <2>3. PICK j \in 1..Len(d.aot[a]) : d.aot[a][j] = e
    BY <2>1, <2>2 DEF Range
  <2> QED BY <2>3 DEF Reading, ArraysHomed
<1>3. M # {}
  <2> SUFFICES ASSUME M = {} PROVE FALSE
    OBVIOUS
  <2>1. \A e \in 1..(n + 1) : \E g \in 1..n : Opens(d.stream[g], e)
    BY <1>2
  <2> DEFINE f == [e \in 1..(n + 1) |-> CHOOSE g \in 1..n : Opens(d.stream[g], e)]
             S == 1..(n + 1)
             T == 1..n
  <2>2. \A e \in S : f[e] \in T /\ Opens(d.stream[f[e]], e)
    BY <2>1
  <2>3. f \in [S -> T]
    BY <2>2
  <2>4. IsFiniteSet(S) /\ IsFiniteSet(T) /\ Cardinality(T) < Cardinality(S)
    <3> HIDE DEF n
    <3>1. n \in Int /\ n + 1 \in Int /\ 1 \in Int
      BY <1>1
    <3>2. IsFiniteSet(1..n) /\ Cardinality(1..n) = IF 1 > n THEN 0 ELSE n - 1 + 1
      BY <3>1, FS_Interval
    <3>3. IsFiniteSet(1..(n + 1)) /\ Cardinality(1..(n + 1)) = IF 1 > n + 1 THEN 0 ELSE (n + 1) - 1 + 1
      BY <3>1, FS_Interval
    <3> QED BY <1>1, <3>2, <3>3
  <2> HIDE DEF f, S, T
  <2>5. PICK x \in S, y \in S : x # y /\ f[x] = f[y]
    BY <2>3, <2>4, FS_PigeonHole
  <2> QED BY <2>2, <2>5 DEF Opens
<1>4. FreshEntry(d) \in M
  <2>1. FreshEntry(d) = Min(M)
    BY DEF FreshEntry
  <2>2. M \in SUBSET Nat
    BY <1>1
  <2> HIDE DEF M
  <2>3. PICK r \in M : \A q \in M : r <= q
    BY <1>3, <2>2, LeastElement
  <2>4. Min(M) \in M
    BY <2>3 DEF Min
  <2> QED BY <2>1, <2>4
<1>5. FreshEntry(d) \in 1..(n + 1) /\ ~U(FreshEntry(d))
  BY <1>4
<1>6. \A i \in 1..n : ~Opens(d.stream[i], FreshEntry(d))
  BY <1>5 DEF Reading, EntriesListed
<1> QED BY <1>1, <1>5, <1>6

(* `run` is q with s put behind its p-th slot. *)
Inserts(run, q, p, s) == p \in 0..Len(q) /\ run = InsertAt(q, p + 1, s)

(* One slot more in the stream. *)
LEMMA InsertionKeys ==
  ASSUME NEW S, NEW q \in Seq(S), NEW s \in S, NEW run, NEW p, Inserts(run, q, p, s)
  PROVE  /\ run \in Seq(S) /\ Len(run) = Len(q) + 1 /\ run[p + 1] = s
         /\ \A i \in 1..p : run[i] = q[i]
         /\ \A i \in (p + 1)..Len(q) : run[i + 1] = q[i]
         /\ \A k \in 1..Len(run) : k = p + 1 \/ k \in 1..p \/ \E i \in (p + 1)..Len(q) : k = i + 1
         /\ Range(run) = Range(q) \cup {s}
         /\ Spread(run) => /\ s \notin Range(q) /\ Spread(q)
                           /\ \A i \in 1..p : Keys(run)[q[i]] = i
                           /\ \A i \in (p + 1)..Len(q) : Keys(run)[q[i]] = i + 1
                           /\ Keys(run)[s] = p + 1
                           /\ \A x, y \in Range(q) : Keys(q)[x] < Keys(q)[y] <=> Keys(run)[x] < Keys(run)[y]
                           /\ \A x \in Range(q) : Keys(q)[x] \in Int /\ Keys(run)[x] \in Int
<1>0. p \in 0..Len(q) /\ run = InsertAt(q, p + 1, s)
  BY DEF Inserts
<1> USE <1>0
<1> DEFINE n == Len(q)
<1>1. n \in Nat /\ p \in Nat /\ p <= n
  OBVIOUS
<1>2. /\ run \in Seq(S) /\ Len(run) = n + 1
      /\ \A i \in 1..(n + 1) : run[i] = IF i < p + 1 THEN q[i] ELSE IF i = p + 1 THEN s ELSE q[i - 1]
  <2> DEFINE at == p + 1
             new == InsertAt(q, at, s)
  <2>1. at \in 1..(Len(q) + 1)
    OBVIOUS
  <2> HIDE DEF at
  <2>2. /\ new \in Seq(S) /\ Len(new) = Len(q) + 1
        /\ \A i \in 1..(Len(q) + 1) : new[i] = IF i < at THEN q[i] ELSE IF i = at THEN s ELSE q[i - 1]
    BY <2>1, Insertion
  <2>3. run = new
    BY DEF at
  <2> HIDE DEF new
  <2> QED BY <2>2, <2>3 DEF at
<1>3. DOMAIN q = 1..n /\ DOMAIN run = 1..(n + 1)
  BY <1>2
<1> HIDE DEF n
<1>4. run[p + 1] = s
  BY <1>1, <1>2
<1>5. \A i \in 1..p : run[i] = q[i]
  BY <1>1, <1>2
<1>6. \A i \in (p + 1)..n : run[i + 1] = q[i]
  <2> SUFFICES ASSUME NEW i \in (p + 1)..n PROVE run[i + 1] = q[i]
    OBVIOUS
  <2>1. i + 1 \in 1..(n + 1) /\ ~(i + 1 < p + 1) /\ i + 1 # p + 1 /\ (i + 1) - 1 = i
    BY <1>1
  <2> QED BY <1>2, <2>1
<1>7. \A k \in 1..(n + 1) : k = p + 1 \/ k \in 1..p \/ \E i \in (p + 1)..n : k = i + 1
  <2> SUFFICES ASSUME NEW k \in 1..(n + 1), k # p + 1, k \notin 1..p PROVE \E i \in (p + 1)..n : k = i + 1
    OBVIOUS
  <2>1. k - 1 \in (p + 1)..n /\ k = (k - 1) + 1
    BY <1>1
  <2> QED BY <2>1
<1>8. Range(run) = Range(q) \cup {s}
  <2>1. \A t : t \in Range(q) <=> \E i \in 1..n : q[i] = t
    BY <1>3 DEF Range
  <2>2. \A t : t \in Range(run) <=> \E i \in 1..(n + 1) : run[i] = t
    BY <1>3 DEF Range
  <2>3. \A i \in 1..n : i \in 1..p \/ i \in (p + 1)..n
    BY <1>1
  <2>4. \A i \in 1..p : i \in 1..n /\ i \in 1..(n + 1)
    BY <1>1
  <2>5. \A i \in (p + 1)..n : i \in 1..n /\ i + 1 \in 1..(n + 1)
    BY <1>1
  <2>6. p + 1 \in 1..(n + 1)
    BY <1>1
  <2>7. ASSUME NEW t \in Range(run) PROVE t \in Range(q) \cup {s}
    <3>1. PICK k \in 1..(n + 1) : run[k] = t
      BY <2>2
    <3> QED BY <1>4, <1>5, <1>6, <1>7, <2>1, <2>4, <2>5, <3>1
  <2>8. ASSUME NEW t \in Range(q) PROVE t \in Range(run)
    <3>1. PICK i \in 1..n : q[i] = t
      BY <2>1
    <3> QED BY <1>5, <1>6, <2>2, <2>3, <2>4, <2>5, <3>1
  <2> QED BY <1>4, <2>2, <2>6, <2>7, <2>8
<1>9. ASSUME Spread(run)
      PROVE  /\ s \notin Range(q) /\ Spread(q)
             /\ \A i \in 1..p : Keys(run)[q[i]] = i
             /\ \A i \in (p + 1)..n : Keys(run)[q[i]] = i + 1
             /\ Keys(run)[s] = p + 1
             /\ \A x, y \in Range(q) : Keys(q)[x] < Keys(q)[y] <=> Keys(run)[x] < Keys(run)[y]
             /\ \A x \in Range(q) : Keys(q)[x] \in Int /\ Keys(run)[x] \in Int
  <2> DEFINE ord == Keys(run)
             old == Keys(q)
             at(i) == IF i <= p THEN i ELSE i + 1
  <2>1. \A i \in 1..(n + 1) : ord[run[i]] = i
    BY <1>2, <1>9, KeysMeaning
  <2> HIDE DEF ord
  <2>2. \A i \in 1..p : i \in 1..n /\ i \in 1..(n + 1) /\ ord[q[i]] = i
    <3>1. \A i \in 1..p : i \in 1..n /\ i \in 1..(n + 1)
      BY <1>1
    <3> QED BY <1>5, <2>1, <3>1
  <2>3. \A i \in (p + 1)..n : i \in 1..n /\ i + 1 \in 1..(n + 1) /\ ord[q[i]] = i + 1
    <3>1. \A i \in (p + 1)..n : i \in 1..n /\ i + 1 \in 1..(n + 1)
      BY <1>1
    <3> QED BY <1>6, <2>1, <3>1
  <2>4. \A i \in 1..n : i \in 1..p \/ i \in (p + 1)..n
    BY <1>1
  <2>5. \A i \in 1..n : ord[q[i]] = at(i) /\ at(i) \in Int
    <3>1. \A i \in 1..p : at(i) = i
      BY <1>1
    <3>2. \A i \in (p + 1)..n : at(i) = i + 1
      BY <1>1
    <3> QED BY <2>2, <2>3, <2>4, <3>1, <3>2
  <2>6. \A i, j \in 1..n : (i < j <=> at(i) < at(j)) /\ (at(i) = at(j) => i = j)
    BY <1>1
  <2> HIDE DEF at
  <2>7. Spread(q)
    BY <2>5, <2>6 DEF Spread, n
  <2>8. /\ \A i \in 1..n : old[q[i]] = i
        /\ \A x \in Range(q) : old[x] \in 1..n /\ q[old[x]] = x
    BY <2>7, KeysMeaning DEF n
  <2> HIDE DEF old
  <2>9. ord[s] = p + 1 /\ p + 1 \in 1..(n + 1)
    BY <1>1, <1>4, <2>1
  <2>10. s \notin Range(q)
    <3> SUFFICES ASSUME s \in Range(q) PROVE FALSE
      OBVIOUS
    <3>1. PICK i \in 1..n : q[i] = s
      BY <1>3 DEF Range
    <3> QED BY <1>1, <2>2, <2>3, <2>4, <2>9, <3>1
  <2>11. \A x \in Range(q) : ord[x] = at(old[x]) /\ ord[x] \in Int /\ old[x] \in Int
    BY <1>1, <2>5, <2>8
  <2>12. \A x, y \in Range(q) : old[x] < old[y] <=> ord[x] < ord[y]
    BY <2>6, <2>8, <2>11
  <2> QED BY <2>2, <2>3, <2>7, <2>9, <2>10, <2>11, <2>12 DEF ord, old
<1> QED BY <1>2, <1>4, <1>5, <1>6, <1>7, <1>8, <1>9 DEF n

(* The tables a line goes to are those the builder files it on. *)
LEMMA LineFiled ==
  ASSUME NEW v, NEW d, NEW w, NEW e, NEW s, Step(v, d, w, e, s), Allowed(v, s)
  PROVE  LET chain == IF IsKV(s) THEN KVChain(s) ELSE HeaderChain(d, Root, s.path)
             own   == IF IsKV(s) THEN {} ELSE {OwnTable(chain, s)}
         IN  /\ e.filed[s] = Range(chain) \cup own
             /\ ~IsKV(s) => own = {Top(s)} /\ IsHeader(s)
<1> DEFINE f == FullPath(s)
           H == Highest(s)
           L == Lowest(s)
<1>1. /\ s \in Slots /\ Declares(v, w, s) /\ IsValidator(v) /\ Nested(v) /\ Matches(v, d)
      /\ e.filed[s] = {At(w, Prefix(f, j)) : j \in H..L}
      /\ IsEntryHeader(s) => s.entry \in Nat \ {0} /\ s.owner = s.entry
  <2>1. s \in Slots /\ Declares(v, w, s) /\ IsValidator(v) /\ Nested(v) /\ Matches(v, d)
        /\ e.filed[s] = {At(w, Prefix(f, j)) : j \in H..L}
    BY DEF Step, Advances, Agree, FiledAlong
  <2>2. IsEntryHeader(s) => s.entry \in Nat \ {0} /\ s.owner = s.entry
    BY OpenedAt
  <2> QED BY <2>1, <2>2
<1>2. \A q \in Seq(Key) : ~OpensAbove(s, q) => At(w, q) = At(v, q)
  BY <1>1 DEF Declares, At
<1>3. CASE s \in KVSlots
  <2> DEFINE k == Len(s.key)
             h == Len(s.host)
  <2>1. IsKV(s) /\ ~IsHeader(s) /\ f = s.host \o s.key /\ f \in Seq(Key) /\ s.host = v.section /\ s.owner = v.owner
        /\ s.host \in Seq(Key) /\ s.key \in Seq(Key)
    BY <1>1, <1>3, SlotsType DEF Declares, Path
  <2>2. KeyAllowed(v, s.key)
    BY <2>1 DEF Allowed
  <2>3. KVChain(s) = PathChain(v, s.host \o s.key, h, k)
    BY <1>1, <1>3, <2>1, <2>2, KVChainIs
  <2>4. Len(f) = h + k /\ h \in Nat /\ k \in Nat /\ H = h /\ L = Len(f) - 1
    <3>1. Len(s.host \o s.key) = Len(s.host) + Len(s.key)
      BY <2>1, Joined
    <3>2. L = Len(f) - 1 /\ H = Len(s.host)
      BY <1>1, <1>3, LevelsOf
    <3>3. Len(f) = h + k
      BY <2>1, <3>1
    <3>4. h \in Nat /\ k \in Nat
      BY <2>1
    <3> HIDE DEF f, H, L
    <3> QED BY <3>2, <3>3, <3>4
  <2> HIDE DEF f, H, L, h, k
  <2>5. Range(KVChain(s)) = {At(v, Prefix(f, j)) : j \in h..(h + k - 1)}
    BY <2>1, <2>3, <2>4, PathChainRange
  <2>6. \A j \in H..L : At(w, Prefix(f, j)) = At(v, Prefix(f, j))
    <3> SUFFICES ASSUME NEW j \in H..L PROVE At(w, Prefix(f, j)) = At(v, Prefix(f, j))
      OBVIOUS
    <3>1. j \in 0..Len(f)
      BY <2>4
    <3>2. Prefix(f, j) \in Seq(Key)
      BY <2>1, <3>1, PrefixType
    <3> QED BY <1>2, <2>1, <3>2 DEF OpensAbove, IsEntryHeader
  <2>7. h..(h + k - 1) = H..L
    BY <2>4
  <2> QED BY <1>1, <2>1, <2>5, <2>6, <2>7 DEF f
<1>4. CASE s \in HeaderSlots
  <2> DEFINE t == s.path
             n == Len(t)
             chain == HeaderChain(d, Root, t)
             q == Prefix(t, n - 1)
  <2>1. IsHeader(s) /\ ~IsKV(s) /\ t \in Path /\ t \in Seq(Key) /\ n \in Nat \ {0} /\ f = t /\ H = 0 /\ L = n
        /\ s.entry \in Nat /\ Top(s) = <<s.owner, t>>
    BY <1>1, <1>4, SlotsType, LevelsOf DEF Path
  <2>2. chain = PathChain(v, t, 0, n)
    BY <1>1, <2>1, HeaderChainIs
  <2> HIDE DEF f, H, L
  <2>3. Range(chain) = {At(v, Prefix(t, j)) : j \in 0..(n - 1)}
    <3>1. Range(PathChain(v, t, 0, n)) = {At(v, Prefix(t, j)) : j \in 0..(0 + n - 1)}
      BY <2>1, PathChainRange
    <3>2. 0 + n - 1 = n - 1
      BY <2>1
    <3> QED BY <2>2, <3>1, <3>2
  <2>4. \A j \in 0..(n - 1) : At(w, Prefix(t, j)) = At(v, Prefix(t, j))
    <3> SUFFICES ASSUME NEW j \in 0..(n - 1) PROVE At(w, Prefix(t, j)) = At(v, Prefix(t, j))
      OBVIOUS
    <3>1. j \in 0..Len(t) /\ j < n
      BY <2>1
    <3>2. Prefix(t, j) \in Seq(Key) /\ IsStrictPrefix(Prefix(t, j), t)
      BY <2>1, <3>1, PrefixType
    <3>3. ~OpensAbove(s, Prefix(t, j))
      <4>1. Prefix(t, j) # t
        BY <3>1, <2>1, PrefixType
      <4>2. ~IsStrictPrefix(t, Prefix(t, j))
        BY <2>1, <3>1, <3>2, PrefixType DEF IsStrictPrefix, IsPrefix
      <4> QED BY <4>1, <4>2 DEF OpensAbove
    <3> QED BY <1>2, <3>2, <3>3
  <2>5. At(w, t) = Top(s) /\ Prefix(t, n) = t
    <3>1. Prefix(t, n) = t /\ L \in H..L
      BY <2>1, PrefixType
    <3>2. At(w, Prefix(f, L)) = <<s.owner, Prefix(f, L)>>
      BY <1>1, <3>1 DEF Declares, f, H, L
    <3> QED BY <2>1, <3>1, <3>2
  <2>6. OwnTable(chain, s) = Top(s)
    <3>1. CASE s.entry # NoEntry
      BY <1>1, <2>1, <3>1 DEF OwnTable, IsEntryHeader
    <3>2. CASE s.entry = NoEntry
      <4>1. Child(Last(chain), Last(t)) = At(v, t)
        <5>1. KindAt(v, t) # "entry"
          BY <1>1, <1>4, <3>2 DEF Declares
        <5> QED BY <1>1, <2>1, <2>2, <5>1, HeaderTarget
      <4>2. At(w, t) = At(v, t)
        BY <1>2, <2>1, <3>2 DEF OpensAbove, IsEntryHeader
      <4> QED BY <2>5, <3>2, <4>1, <4>2 DEF OwnTable
    <3> QED BY <3>1, <3>2
  <2>7. \A j : j \in H..L <=> j \in 0..(n - 1) \/ j = n
    BY <2>1
  <2> HIDE DEF chain, t, n
  <2>8. e.filed[s] = Range(chain) \cup {Top(s)}
    <3>1. \A x \in e.filed[s] : x \in Range(chain) \cup {Top(s)}
      BY <1>1, <2>1, <2>3, <2>4, <2>5, <2>7
    <3>2. \A x \in Range(chain) : x \in e.filed[s]
      BY <1>1, <2>1, <2>3, <2>4, <2>7
    <3>3. Top(s) \in e.filed[s]
      BY <1>1, <2>1, <2>5, <2>7
    <3> QED BY <3>1, <3>2, <3>3
  <2> QED BY <2>1, <2>6, <2>8 DEF chain, t
<1> QED BY <1>1, <1>3, <1>4 DEF Slots

(* What filing one line more makes of the projections of the document. *)
FiledToo(F, run, C, s) ==
  /\ Consistent(F, Keys(run)) /\ F.sound
  /\ DOMAIN F.backs = Range(run) /\ F.backs[s] = C
  /\ \A t \in Range(doc.stream) : F.backs[t] = doc.filed[t]
  /\ DOMAIN F.view = DOMAIN caches.view \cup C

(* One line filed on the views the document has. *)
LEMMA FiledOne ==
  ASSUME FilingInv, NEW s \in Slots, NEW p \in 0..Len(doc.stream),
         NEW run, run = InsertAt(doc.stream, p + 1, s), Spread(run), NEW chain, NEW own,
         \A c \in chain \cup own : Belong(Keys(run), c, RefSet(doc, c) \cup {s}),
         \A c \in chain \cup own : HeaderFirst(Keys(run), c, RefSet(doc, c), s),
         \A c \in chain \cup own : LocalKey(s, c) = OwnKey <=> c \in own
  PROVE  FiledToo(File(caches, Keys(run), chain, own, s), run, chain \cup own, s)
<1> DEFINE ord == Keys(run)
           old == Keys(doc.stream)
           F == File(caches, ord, chain, own, s)
<1>1. Tidy(doc) /\ Projected(caches, doc)
  BY DEF FilingInv
<1>2. PICK w : Reading(w, doc)
  BY <1>1, TidyReads
<1>3. /\ Consistent(caches, old) /\ DOMAIN caches.backs = Range(doc.stream) /\ caches.sound
      /\ \A t \in Range(doc.stream) : caches.backs[t] = doc.filed[t]
      /\ DOMAIN doc.filed = Range(doc.stream)
  BY <1>1, <1>2, FiledFacts DEF Projected
<1>4. /\ Range(run) = Range(doc.stream) \cup {s} /\ s \notin Range(doc.stream)
      /\ \A x, y \in Range(doc.stream) : old[x] < old[y] <=> ord[x] < ord[y]
      /\ \A x \in Range(doc.stream) : old[x] \in Int /\ ord[x] \in Int
  <2>1. doc.stream \in Seq(Slots)
    BY <1>2, FiledFacts
  <2> DEFINE q == doc.stream
  <2>2. Inserts(run, q, p, s)
    BY DEF Inserts
  <2> HIDE DEF q
  <2> QED BY <2>1, <2>2, InsertionKeys DEF q
<1>5. \A c : Listing(caches, c) = RefSet(doc, c)
  BY <1>3, ListingRefs
<1>6. /\ \A c \in chain \cup own : Belong(ord, c, RefSet(doc, c) \cup {s})
      /\ \A c \in chain \cup own : HeaderFirst(ord, c, RefSet(doc, c), s)
  OBVIOUS
<1> HIDE DEF ord, old
<1>7. Consistent(caches, ord)
  BY <1>3, <1>4, RenumberKeepsViewsExact
<1>8. /\ Consistent(F, ord) /\ F.sound = caches.sound
      /\ F.backs = PutAt(caches.backs, s, chain \cup own)
      /\ DOMAIN F.view = DOMAIN caches.view \cup (chain \cup own)
  <2>1. \A c \in chain \cup own : /\ Belong(ord, c, Listing(caches, c) \cup {s})
                                  /\ HeaderFirst(ord, c, Listing(caches, c), s)
    BY <1>5, <1>6
  <2>2. s \notin DOMAIN caches.backs
    BY <1>3, <1>4
  <2>3. \A c \in chain \cup own : LocalKey(s, c) = OwnKey <=> c \in own
    OBVIOUS
  <2>4. Fileable(caches, ord, chain, own, s)
    BY <2>1, <2>2, <2>3 DEF Fileable
  <2> HIDE DEF F
  <2>5. F = File(caches, ord, chain, own, s)
    BY DEF F
  <2>6. Consistent(File(caches, ord, chain, own, s), ord)
        /\ FilesOn(File(caches, ord, chain, own, s), caches, chain \cup own, s)
    BY <1>7, <2>4, FileKeepsViewsExact
  <2> QED BY <2>5, <2>6 DEF FilesOn
<1>9. /\ DOMAIN F.backs = Range(run) /\ F.backs[s] = chain \cup own
      /\ \A t \in Range(doc.stream) : F.backs[t] = doc.filed[t]
  <2> DEFINE B == chain \cup own
  <2>1. F.backs = PutAt(caches.backs, s, B)
    BY <1>8
  <2> HIDE DEF B, F
  <2>2. /\ DOMAIN F.backs = DOMAIN caches.backs \cup {s} /\ F.backs[s] = B
        /\ \A t \in DOMAIN caches.backs : t # s => F.backs[t] = caches.backs[t]
    BY <2>1 DEF PutAt
  <2> QED BY <1>3, <1>4, <2>2 DEF B
<1> QED BY <1>3, <1>4, <1>8, <1>9 DEF ord, FiledToo

LEMMA StampedIsSlot ==
  ASSUME NEW v, IsValidator(v), NEW line \in Lines, NEW e \in Nat
  PROVE  Stamped(v, line, e) \in Slots
<1> DEFINE t == IF IsHeader(line) /\ line.entry # NoEntry THEN [line EXCEPT !.entry = e] ELSE line
<1>1. t \in Slots
  <2>1. CASE IsKV(line) /\ line = KV(<<>>, line.key, NoEntry, line.val)
             /\ line.key \in Seq(Key) /\ line.key # <<>> /\ line.val \in Vals
    <3>1. line \in KVSlots
      <4>1. <<>> \in Seq(Key) /\ line.key \in Path /\ NoEntry \in Nat
        BY <2>1 DEF Path, NoEntry
      <4>2. \A k \in Path, x \in Vals : KV(<<>>, k, NoEntry, x) \in KVSlots
        BY <4>1 DEF KV, KVSlots
      <4> QED BY <2>1, <4>1, <4>2
    <3>2. ~IsHeader(line)
      BY <3>1, SlotsType
    <3> QED BY <3>1, <3>2 DEF Slots
  <2>2. CASE IsHeader(line) /\ line = Header(line.path, NoEntry, line.entry, line.synthetic)
             /\ line.path \in Seq(Key) /\ line.path # <<>> /\ line.entry \in Nat /\ line.synthetic \in BOOLEAN
    <3>1. line.path \in Path /\ NoEntry \in Nat
      BY <2>2 DEF Path, NoEntry
    <3>2. line \in HeaderSlots
      BY <2>2, <3>1 DEF Header, HeaderSlots
    <3>3. [line EXCEPT !.entry = e] \in HeaderSlots
      BY <3>2 DEF HeaderSlots
    <3> QED BY <3>2, <3>3 DEF Slots
  <2> QED BY <2>1, <2>2, LinesAssumption
<1>2. Stamped(v, line, e) = Reread(v, t)
  BY DEF Stamped
<1> HIDE DEF t
<1> QED BY <1>1, <1>2, RereadType

LEMMA ReadSoFar ==
  ASSUME NEW run \in Seq(Slots), Accepts(run), EntriesApart(Reparsed(run).d), NEW k \in 0..Len(run)
  PROVE  Reading(Reparsed(SubSeq(run, 1, k)).v, Reparsed(SubSeq(run, 1, k)).d)
<1>1. CASE k = 0
  <2> DEFINE none == SubSeq(run, 1, 0)
  <2>1. Len(none) = 0 /\ Len(none) \in Nat
    OBVIOUS
  <2> HIDE DEF none
  <2>2. PICK f : ReadBy(none, f, Len(none)) /\ Reparsed(none) = f[Len(none)]
    BY <2>1, ReparsedMeaning
  <2>3. Reparsed(none) = [ok |-> TRUE, v |-> FreshValidator, d |-> EmptyDocument]
    BY <2>1, <2>2 DEF ReadBy
  <2>4. Reparsed(SubSeq(run, 1, k)) = Reparsed(none)
    BY <1>1 DEF none
  <2> QED BY <2>3, <2>4, ReadingEmpty
<1>2. CASE k \in 1..Len(run)
  BY <1>2, LineRead
<1> QED BY <1>1, <1>2

(* The stamp of an inserted line opens no entry but the fresh one.         *)
LEMMA StampOpens ==
  ASSUME NEW v, NEW line, NEW e, NEW x, Stamped(v, line, e) \in Slots, Opens(Stamped(v, line, e), x)
  PROVE  x = e
<1> DEFINE t == IF IsHeader(line) /\ line.entry # NoEntry THEN [line EXCEPT !.entry = e] ELSE line
           s == Stamped(v, line, e)
<1>1. s = Reread(v, t)
  BY DEF Stamped
<1>2. s \in HeaderSlots /\ IsHeader(s) /\ ~IsKV(s) /\ s.entry # NoEntry /\ s.entry = x
  <2>1. IsHeader(s) /\ s.entry # NoEntry /\ s.entry = x
    BY DEF Opens, IsEntryHeader
  <2>2. s \notin KVSlots
    BY <2>1, SlotsType
  <2> QED BY <2>1, <2>2, SlotsType DEF Slots
<1>3. CASE IsKV(t)
  <2>1. s.kind = t.kind
    BY <1>1, <1>3 DEF Reread, IsKV
  <2> QED BY <1>2, <1>3, <2>1 DEF IsKV
<1>4. CASE ~IsKV(t)
  <2>1. s = [t EXCEPT !.owner = AfterSlot(v, t).owner]
    BY <1>1, <1>4 DEF Reread
  <2> HIDE DEF t, s
  <2>2. s.entry = t.entry /\ s.kind = t.kind
    BY <2>1
  <2>3. IsHeader(t) /\ t.entry # NoEntry
    BY <1>2, <2>2 DEF IsHeader
  <2>4. CASE IsHeader(line) /\ line.entry # NoEntry
    <3>1. t = [line EXCEPT !.entry = e]
      BY <2>4 DEF t
    <3>2. "entry" \in DOMAIN line => t.entry = e
      BY <3>1
    <3>3. "entry" \in DOMAIN t
      <4>1. "entry" \in DOMAIN s
        BY <1>2 DEF HeaderSlots
      <4>2. DOMAIN s = DOMAIN t
        BY <2>1
      <4> QED BY <4>1, <4>2
    <3>4. DOMAIN t = DOMAIN line
      BY <3>1
    <3> QED BY <1>2, <2>2, <3>2, <3>3, <3>4
  <2>5. CASE ~(IsHeader(line) /\ line.entry # NoEntry)
    <3>1. t = line
      BY <2>5 DEF t
    <3> QED BY <2>3, <2>5, <3>1
  <2> QED BY <2>4, <2>5
<1> QED BY <1>3, <1>4

LEMMA InsertFiling == FilingInv /\ InsertLine => FilingInv'
<1> SUFFICES ASSUME FilingInv, InsertLine PROVE FilingInv'
  OBVIOUS
<1> DEFINE q == doc.stream
           new == FreshEntry(doc)
<1>1. PICK p \in 0..Len(q), line \in Lines :
        LET above == Reparsed(SubSeq(q, 1, p))
            s     == Stamped(above.v, line, new)
            run   == InsertAt(q, p + 1, s)
            chain == IF IsKV(s) THEN KVChain(s) ELSE HeaderChain(above.d, Root, s.path)
            own   == IF IsKV(s) THEN {} ELSE {OwnTable(chain, s)}
        IN  /\ Allowed(above.v, s)
            /\ Becomes(run, File(caches, Keys(run), Range(chain), own, s))
  BY DEF InsertLine
<1> DEFINE above == Reparsed(SubSeq(q, 1, p))
           s     == Stamped(above.v, line, new)
           run   == InsertAt(q, p + 1, s)
           chain == IF IsKV(s) THEN KVChain(s) ELSE HeaderChain(above.d, Root, s.path)
           own   == IF IsKV(s) THEN {} ELSE {OwnTable(chain, s)}
           ord   == Keys(run)
           F     == File(caches, ord, Range(chain), own, s)
           C     == Range(chain) \cup own
<1>2. Allowed(above.v, s) /\ Becomes(run, F)
  BY <1>1
<1>3. Tidy(doc) /\ Projected(caches, doc)
  BY DEF FilingInv
<1>4. PICK w : Reading(w, doc)
  BY <1>3, TidyReads
<1>5. /\ q \in Seq(Slots) /\ Len(q) \in Nat /\ Spread(q) /\ DOMAIN doc.filed = Range(q)
      /\ \A i \in 1..Len(q) : q[i] \in Range(q)
      /\ \A t \in Range(q) : \E i \in 1..Len(q) : q[i] = t
  BY <1>4, FiledFacts
<1>6. new \in Nat \ {0} /\ \A i \in 1..Len(q) : ~Opens(q[i], new)
  BY <1>4, FreshUnused
<1>7. IsValidator(above.v) /\ p \in 0..Len(q)
  <2>1. Accepts(q) /\ EntriesApart(Reparsed(q).d)
    BY <1>3 DEF Tidy
  <2>2. Reading(above.v, above.d)
    BY <1>5, <2>1, ReadSoFar
  <2> QED BY <2>2 DEF Reading, Agree
<1> HIDE DEF new, above
<1>8. s \in Slots
  BY <1>6, <1>7, StampedIsSlot
<1>9. \A x : Opens(s, x) => x = new
  BY <1>8, StampOpens
<1> HIDE DEF s, q
<1>10. /\ run \in Seq(Slots) /\ Len(run) = Len(q) + 1 /\ run[p + 1] = s
       /\ \A i \in 1..p : run[i] = q[i]
       /\ \A i \in (p + 1)..Len(q) : run[i + 1] = q[i]
       /\ \A k \in 1..Len(run) : k = p + 1 \/ k \in 1..p \/ \E i \in (p + 1)..Len(q) : k = i + 1
       /\ Range(run) = Range(q) \cup {s}
       /\ Spread(run) => /\ s \notin Range(q)
                         /\ \A x, y \in Range(q) : Keys(q)[x] < Keys(q)[y] <=> ord[x] < ord[y]
                         /\ \A x \in Range(q) : Keys(q)[x] \in Int /\ ord[x] \in Int
  <2>1. q \in Seq(Slots) /\ s \in Slots /\ Inserts(run, q, p, s)
    BY <1>5, <1>7, <1>8 DEF Inserts
  <2> HIDE DEF run
  <2>2. /\ run \in Seq(Slots) /\ Len(run) = Len(q) + 1 /\ run[p + 1] = s
        /\ \A i \in 1..p : run[i] = q[i]
        /\ \A i \in (p + 1)..Len(q) : run[i + 1] = q[i]
        /\ \A k \in 1..Len(run) : k = p + 1 \/ k \in 1..p \/ \E i \in (p + 1)..Len(q) : k = i + 1
        /\ Range(run) = Range(q) \cup {s}
    BY <2>1, InsertionKeys
  <2>3. Spread(run) => /\ s \notin Range(q) /\ Spread(q)
                       /\ \A x, y \in Range(q) : Keys(q)[x] < Keys(q)[y] <=> Keys(run)[x] < Keys(run)[y]
                       /\ \A x \in Range(q) : Keys(q)[x] \in Int /\ Keys(run)[x] \in Int
    BY <2>1, InsertionKeys
  <2> QED BY <2>2, <2>3
<1> DEFINE e == Reparsed(run).d
<1> HIDE DEF run
<1>11. Accepts(run) /\ e.stream = run /\ \A t \in Range(q) : e.filed[t] = doc.filed[t]
  <2>1. /\ Reparsed(run).ok /\ e.stream = run
        /\ \A t \in Range(run) \cap Range(q) : e.filed[t] = doc.filed[t]
    BY <1>2 DEF Becomes, q
  <2> QED BY <1>10, <2>1 DEF Accepts
<1> HIDE DEF F, C, chain, own, ord
<1>12. EntriesApart(e)
  <2> SUFFICES ASSUME NEW g \in 1..Len(run), NEW h \in 1..Len(run), NEW x, Opens(run[g], x), Opens(run[h], x)
               PROVE  g = h
    BY <1>11 DEF EntriesApart
  <2>1. \A i, j \in 1..Len(q) : Opens(q[i], x) /\ Opens(q[j], x) => i = j
    BY <1>3, <1>4 DEF Reading, EntriesApart, q
  <2>2. \A k \in 1..Len(run) : k # p + 1 =>
          \E i \in 1..Len(q) : q[i] = run[k] /\ ((k = i /\ i <= p) \/ (k = i + 1 /\ i > p))
    <3> SUFFICES ASSUME NEW k \in 1..Len(run), k # p + 1
                 PROVE  \E i \in 1..Len(q) : q[i] = run[k] /\ ((k = i /\ i <= p) \/ (k = i + 1 /\ i > p))
      OBVIOUS
    <3>1. CASE k \in 1..p
      <4>1. k \in 1..Len(q) /\ k <= p
        BY <1>5, <1>7, <3>1
      <4> QED BY <1>10, <3>1, <4>1
    <3>2. CASE \E i \in (p + 1)..Len(q) : k = i + 1
      <4>1. PICK i \in (p + 1)..Len(q) : k = i + 1
        BY <3>2
      <4>2. i \in 1..Len(q) /\ i > p
        BY <1>5, <1>7
      <4> QED BY <1>10, <4>1, <4>2
    <3> QED BY <1>10, <3>1, <3>2
  <2>3. \A k \in 1..Len(run) : k # p + 1 /\ Opens(run[k], x) => x # new
    BY <1>6, <2>2
  <2>4. CASE g = p + 1
    BY <1>9, <1>10, <2>3, <2>4
  <2>5. CASE h = p + 1
    BY <1>9, <1>10, <2>3, <2>5
  <2>6. CASE g # p + 1 /\ h # p + 1
    <3>1. PICK i \in 1..Len(q) : q[i] = run[g] /\ ((g = i /\ i <= p) \/ (g = i + 1 /\ i > p))
      BY <2>2, <2>6
    <3>2. PICK j \in 1..Len(q) : q[j] = run[h] /\ ((h = j /\ j <= p) \/ (h = j + 1 /\ j > p))
      BY <2>2, <2>6
    <3>3. i = j
      BY <2>1, <3>1, <3>2
    <3> QED BY <1>7, <3>1, <3>2, <3>3
  <2> QED BY <2>4, <2>5, <2>6
<1>13. Reading(Reparsed(run).v, e)
  BY <1>10, <1>11, <1>12, TextReads
<1>14. Spread(run)
  BY <1>11, <1>13, FiledFacts
<1>15. e.filed[s] = C /\ (IsKV(s) => own = {}) /\ (~IsKV(s) => own = {Top(s)} /\ IsHeader(s))
  <2>1. p + 1 \in 1..Len(run) /\ (p + 1) - 1 = p
    BY <1>5, <1>7, <1>10
  <2>2. SubSeq(run, 1, p) = SubSeq(q, 1, p)
    <3>1. \A i \in 1..p : run[i] = q[i]
      BY <1>10
    <3>2. p <= Len(q) /\ p <= Len(run) /\ p \in Nat
      BY <1>5, <1>7, <1>10
    <3> QED BY <1>5, <1>10, <3>1, <3>2
  <2> DEFINE y == Reparsed(SubSeq(run, 1, p + 1))
  <2>3. /\ Step(above.v, above.d, y.v, y.d, s)
        /\ FiledAt(e, p + 1) = y.d.filed[s]
    <3>1. Step(Reparsed(SubSeq(run, 1, (p + 1) - 1)).v, Reparsed(SubSeq(run, 1, (p + 1) - 1)).d, y.v, y.d, run[p + 1])
          /\ FiledAt(e, p + 1) = y.d.filed[run[p + 1]]
      BY <1>10, <1>11, <1>12, <2>1, LineRead
    <3> QED BY <1>10, <2>1, <2>2, <3>1 DEF above
  <2> HIDE DEF y
  <2>4. /\ y.d.filed[s] = Range(chain) \cup own
        /\ ~IsKV(s) => own = {Top(s)} /\ IsHeader(s)
    BY <1>2, <2>3, LineFiled DEF chain, own
  <2>5. FiledAt(e, p + 1) = e.filed[s]
    BY <1>10, <1>11 DEF FiledAt
  <2>6. IsKV(s) => own = {}
    BY DEF own
  <2> QED BY <2>3, <2>4, <2>5, <2>6 DEF C
<1>16. DOMAIN e.filed = Range(q) \cup {s} /\ s \notin Range(q)
  BY <1>10, <1>11, <1>13, <1>14, FiledFacts
<1>17. \A c \in C : RefSet(e, c) = RefSet(doc, c) \cup {s}
  BY <1>5, <1>11, <1>15, <1>16 DEF RefSet
<1>18. \A c \in C : /\ Belong(ord, c, RefSet(doc, c) \cup {s})
                    /\ HeaderFirst(ord, c, RefSet(doc, c), s)
                    /\ LocalKey(s, c) = OwnKey <=> c \in own
  <2> SUFFICES ASSUME NEW c \in C
               PROVE  /\ Belong(ord, c, RefSet(doc, c) \cup {s})
                      /\ HeaderFirst(ord, c, RefSet(doc, c), s)
                      /\ LocalKey(s, c) = OwnKey <=> c \in own
    OBVIOUS
  <2>1. /\ Belong(Keys(e.stream), c, RefSet(e, c))
        /\ \A t \in RefSet(e, c) : HeaderFirst(Keys(e.stream), c, RefSet(e, c), t)
        /\ \A t \in RefSet(e, c) : LocalKey(t, c) = OwnKey <=> IsHeader(t) /\ t.path = c[2]
    BY <1>13, ListedRead
  <2>2. RefSet(e, c) = RefSet(doc, c) \cup {s} /\ Keys(e.stream) = ord
    BY <1>11, <1>17 DEF ord
  <2>3. Belong(ord, c, RefSet(doc, c) \cup {s}) /\ HeaderFirst(ord, c, RefSet(doc, c) \cup {s}, s)
    BY <2>1, <2>2
  <2>4. LocalKey(s, c) = OwnKey <=> c \in own
    <3>1. p + 1 \in 1..Len(e.stream) /\ e.stream[p + 1] = s /\ c \in FiledAt(e, p + 1)
      BY <1>5, <1>7, <1>10, <1>11, <1>15 DEF FiledAt
    <3>2. /\ LocalKey(s, c) = OwnKey => IsHeader(s) /\ ~IsKV(s) /\ s.path = c[2] /\ c = Top(s)
          /\ IsHeader(s) /\ s.path = c[2] => LocalKey(s, c) = OwnKey
      BY <1>13, <3>1, LocalKeys
    <3>3. CASE IsKV(s)
      BY <1>15, <3>2, <3>3
    <3>4. CASE ~IsKV(s)
      BY <1>15, <3>2, <3>4 DEF Top
    <3> QED BY <3>3, <3>4
  <2> QED BY <2>3, <2>4 DEF HeaderFirst
<1>19. /\ Consistent(F, ord) /\ F.sound
       /\ DOMAIN F.backs = Range(run) /\ F.backs[s] = C
       /\ \A t \in Range(q) : F.backs[t] = doc.filed[t]
       /\ DOMAIN F.view = DOMAIN caches.view \cup C
  <2> DEFINE H == Range(chain)
  <2> HIDE DEF H
  <2>1. /\ \A c \in H \cup own : Belong(Keys(run), c, RefSet(doc, c) \cup {s})
        /\ \A c \in H \cup own : HeaderFirst(Keys(run), c, RefSet(doc, c), s)
        /\ \A c \in H \cup own : LocalKey(s, c) = OwnKey <=> c \in own
    BY <1>18 DEF ord, C, H
  <2>2. p \in 0..Len(doc.stream) /\ run = InsertAt(doc.stream, p + 1, s)
    BY <1>7 DEF q, run
  <2>3. FiledToo(File(caches, Keys(run), H, own, s), run, H \cup own, s)
    BY <1>8, <1>14, <2>1, <2>2, FiledOne
  <2> QED BY <2>3 DEF F, ord, C, H, q, FiledToo
<1>20. Agreeing(ord, Keys(run), Range(run))
  BY <1>10, <1>14, AgreeingItself DEF ord
<1>21. Root \in DOMAIN F.view
  BY <1>3, <1>19 DEF Projected
<1>22. /\ \A t \in Range(run) : t \in Range(doc.stream) => F.backs[t] = doc.filed[t]
       /\ \A t \in Range(run) : t \notin Range(doc.stream) => F.backs[t] = Reparsed(run).d.filed[t]
  BY <1>10, <1>15, <1>19 DEF q
<1> QED BY <1>2, <1>3, <1>10, <1>12, <1>19, <1>20, <1>21, <1>22, Became

-----------------------------------------------------------------------------
(* Slots leave the document.                                               *)

(* The views of the slots that leave go with them.                         *)
LEMMA WithoutKeepsExact ==
  ASSUME NEW F, NEW ord, Consistent(F, ord), NEW views, NEW slots,
         \A t \in DOMAIN F.backs : t \in Range(slots) => F.backs[t] \subseteq views,
         \A t \in DOMAIN F.backs : t \notin Range(slots) => F.backs[t] \cap views = {}
  PROVE  LET W == Without(F, views, slots)
         IN  /\ Consistent(W, ord)
             /\ W.sound = F.sound
             /\ DOMAIN W.view = DOMAIN F.view \ views
             /\ DOMAIN W.backs = DOMAIN F.backs \ Range(slots)
             /\ \A t \in DOMAIN W.backs : W.backs[t] = F.backs[t]
<1> DEFINE W == Without(F, views, slots)
           D == DOMAIN F.view \ views
           B == DOMAIN F.backs \ Range(slots)
<1>1. /\ F = [view |-> F.view, backs |-> F.backs, sound |-> F.sound]
      /\ \A s \in DOMAIN F.backs : F.backs[s] \subseteq DOMAIN F.view
      /\ \A c \in DOMAIN F.view : /\ Belong(ord, c, Listing(F, c))
                                  /\ Exact(F.view[c], ord, c, Listing(F, c))
  BY DEF Consistent
<1>2. /\ W.view = [c \in D |-> F.view[c]] /\ W.backs = [s \in B |-> F.backs[s]] /\ W.sound = F.sound
      /\ W = [view |-> W.view, backs |-> W.backs, sound |-> W.sound]
  <2> DEFINE nv == [c \in D |-> F.view[c]]
             nb == [s \in B |-> F.backs[s]]
  <2>1. W = [F EXCEPT !.view = nv, !.backs = nb]
    BY DEF Without
  <2> HIDE DEF nv, nb, W
  <2>2. W = [view |-> nv, backs |-> nb, sound |-> F.sound]
    BY <1>1, <2>1
  <2>3. W.view = nv /\ W.backs = nb /\ W.sound = F.sound
    BY <2>2
  <2> QED BY <2>2, <2>3 DEF nv, nb
<1> HIDE DEF W
<1>3. \A c \in D : Listing(W, c) = Listing(F, c)
  <2> SUFFICES ASSUME NEW c \in D PROVE Listing(W, c) = Listing(F, c)
    OBVIOUS
  <2>1. \A s \in DOMAIN F.backs : c \in F.backs[s] => s \notin Range(slots)
    OBVIOUS
  <2> QED BY <1>2, <2>1 DEF Listing
<1>4. \A s \in B : F.backs[s] \subseteq D
  BY <1>1
<1>5. Consistent(W, ord)
  <2>1. \A c \in DOMAIN W.view : Belong(ord, c, Listing(W, c)) /\ Exact(W.view[c], ord, c, Listing(W, c))
    BY <1>1, <1>2, <1>3
  <2>2. IsAFcn(W.view) /\ IsAFcn(W.backs)
    BY <1>2 DEF IsAFcn
  <2>3. \A s \in DOMAIN W.backs : W.backs[s] \subseteq DOMAIN W.view
    BY <1>2, <1>4
  <2> QED BY <1>2, <2>1, <2>2, <2>3 DEF Consistent
<1> QED BY <1>2, <1>5 DEF W

(* Projections of a stream, not necessarily of the document's. *)
UpToDate(F, q) ==
  /\ q \in Seq(Slots) /\ Spread(q)
  /\ Consistent(F, Keys(q))
  /\ DOMAIN F.backs = Range(q)
  /\ F.sound /\ Root \in DOMAIN F.view

(* The slots R can go, with the views `skip`: no other slot is filed on    *)
(* those, and on each of the others they are of one binding.               *)
MayLeave(F, q, owned, R, skip) ==
  /\ R \subseteq Range(q) /\ Orders(owned, Keys(q), R)
  /\ Separable(F, owned, R, skip)
  /\ Root \notin skip
  /\ \A t \in Range(q) \ R : F.backs[t] \cap skip = {}

LEMMA InvCurrent ==
  ASSUME FilingInv
  PROVE  /\ UpToDate(caches, doc.stream) /\ Tidy(doc) /\ Projected(caches, doc)
         /\ \A t \in Range(doc.stream) : caches.backs[t] = doc.filed[t]
         /\ \E w : Reading(w, doc)
<1>1. Tidy(doc) /\ Projected(caches, doc)
  BY DEF FilingInv
<1>2. PICK w : Reading(w, doc)
  BY <1>1, TidyReads
<1>3. doc.stream \in Seq(Slots) /\ Spread(doc.stream)
  BY <1>2, FiledFacts
<1> QED BY <1>1, <1>2, <1>3 DEF Projected, UpToDate

LEMMA KeptRun ==
  ASSUME NEW q \in Seq(Slots), Spread(q), NEW R \in SUBSET Range(q)
  PROVE  LET run == Dropping(q, R)
         IN  /\ run \in Seq(Slots) /\ Range(run) = Range(q) \ R /\ Spread(run)
             /\ Orders(run, Keys(q), Range(q) \ R)
             /\ Agreeing(Keys(q), Keys(run), Range(run))
<1> DEFINE run == Dropping(q, R)
           S == Range(q) \ R
           ord == Keys(q)
<1>1. Orders(q, ord, Range(q)) /\ Keyed(ord, Range(q))
  BY KeysMeaning
<1>2. Range(q) \subseteq Slots
  BY DEF Range
<1> HIDE DEF ord
<1>3. Orders(run, ord, S)
  <2>1. Orders(Keeping(q, S), ord, Range(q) \cap S)
    BY <1>1, KeepingOrders
  <2>2. Range(q) \cap S = S
    OBVIOUS
  <2> QED BY <2>1, <2>2 DEF Dropping
<1> HIDE DEF run
<1>4. /\ run \in Seq(S) /\ \A s \in S : \E i \in 1..Len(run) : run[i] = s
      /\ \A i, j \in 1..Len(run) : i < j => ord[run[i]] < ord[run[j]]
  BY <1>3 DEF Orders
<1>5. /\ Len(run) \in Nat /\ DOMAIN run = 1..Len(run) /\ \A i \in 1..Len(run) : run[i] \in S
  BY <1>4
<1>6. \A s \in S : ord[s] \in Int
  BY <1>1 DEF Keyed
<1>7. Range(run) = S
  BY <1>4, <1>5 DEF Range
<1>8. Spread(run)
  <2> SUFFICES ASSUME NEW i \in 1..Len(run), NEW j \in 1..Len(run), run[i] = run[j] PROVE i = j
    BY DEF Spread
  <2>1. ~(i < j) /\ ~(j < i)
    BY <1>4, <1>5, <1>6
  <2> QED BY <1>5, <2>1
<1>9. run \in Seq(Slots)
  <2>1. S \subseteq Slots
    BY <1>2
  <2> HIDE DEF S
  <2> QED BY <1>4, <2>1
<1>10. Agreeing(ord, Keys(run), Range(run))
  <2> DEFINE new == Keys(run)
  <2>1. /\ \A s \in Range(run) : new[s] \in 1..Len(run) /\ run[new[s]] = s
    BY <1>8, <1>9, KeysMeaning
  <2> HIDE DEF new
  <2>2. \A s \in Range(run) : ord[s] \in Int /\ new[s] \in Int
    BY <1>5, <1>6, <1>7, <2>1
  <2>3. ASSUME NEW s \in Range(run), NEW t \in Range(run) PROVE ord[s] < ord[t] <=> new[s] < new[t]
    <3>1. new[s] < new[t] => ord[s] < ord[t]
      BY <1>4, <2>1
    <3>2. new[t] < new[s] => ord[t] < ord[s]
      BY <1>4, <2>1
    <3>3. new[s] = new[t] => ord[s] = ord[t]
      BY <2>1
    <3> QED BY <2>2, <3>1, <3>2, <3>3
  <2> QED BY <2>2, <2>3 DEF Agreeing, new
<1> QED BY <1>3, <1>7, <1>8, <1>9, <1>10 DEF run, ord

(* Slots leave a stream whose projections are current. *)
LEMMA LeavingFiling ==
  ASSUME FilingInv, NEW F, NEW q, UpToDate(F, q), NEW owned, NEW R, NEW skip, MayLeave(F, q, owned, R, skip),
         Apart(Range(q)),
         Becomes(Dropping(q, R), Without(Scrub(F, Keys(q), owned, skip), skip, owned)),
         \A t \in Range(q) \ R : t \in Range(doc.stream) => F.backs[t] = doc.filed[t],
         \A t \in Range(q) \ R : t \notin Range(doc.stream) =>
                                   F.backs[t] = Reparsed(Dropping(q, R)).d.filed[t]
  PROVE  FilingInv'
<1> DEFINE ord == Keys(q)
           run == Dropping(q, R)
           G == Scrub(F, ord, owned, skip)
           W == Without(G, skip, owned)
<1>1. /\ run \in Seq(Slots) /\ Range(run) = Range(q) \ R /\ Spread(run)
      /\ Agreeing(ord, Keys(run), Range(run))
  BY KeptRun DEF UpToDate, MayLeave
<1>2. Tidy(doc) /\ Becomes(run, W)
  BY DEF FilingInv
<1>3. /\ Consistent(F, ord) /\ DOMAIN F.backs = Range(q) /\ F.sound /\ Root \in DOMAIN F.view
      /\ R \in SUBSET DOMAIN F.backs /\ Orders(owned, ord, R) /\ Separable(F, owned, R, skip)
      /\ Root \notin skip
      /\ \A t \in Range(q) \ R : F.backs[t] \cap skip = {}
  BY DEF UpToDate, MayLeave
<1> HIDE DEF ord, run
<1>4. /\ Consistent(G, ord) /\ G.sound = F.sound
      /\ DOMAIN G.view = DOMAIN F.view /\ DOMAIN G.backs = DOMAIN F.backs
      /\ \A t \in DOMAIN F.backs : G.backs[t] = IF t \in R THEN F.backs[t] \cap skip ELSE F.backs[t]
  <2>1. /\ Consistent(F, ord) /\ R \in SUBSET DOMAIN F.backs /\ Orders(owned, ord, R)
        /\ Separable(F, owned, R, skip)
    BY <1>3
  <2>2. Consistent(Scrub(F, ord, owned, skip), ord) /\ ScrubsOf(Scrub(F, ord, owned, skip), F, R, skip)
    BY <2>1, ScrubKeepsViewsExact
  <2>3. Consistent(G, ord) /\ ScrubsOf(G, F, R, skip)
    BY <2>2
  <2> HIDE DEF G
  <2> QED BY <2>3 DEF ScrubsOf
<1>5. Range(owned) = R
  <2>1. owned \in Seq(R) /\ \A s \in R : \E i \in 1..Len(owned) : owned[i] = s
    BY <1>3 DEF Orders
  <2> QED BY <2>1 DEF Range
<1> HIDE DEF G
<1>6. /\ Consistent(W, ord) /\ W.sound = G.sound
      /\ DOMAIN W.view = DOMAIN G.view \ skip /\ DOMAIN W.backs = DOMAIN G.backs \ Range(owned)
      /\ \A t \in DOMAIN W.backs : W.backs[t] = G.backs[t]
  <2>1. \A t \in DOMAIN G.backs : t \in Range(owned) => G.backs[t] \subseteq skip
    BY <1>4, <1>5
  <2>2. \A t \in DOMAIN G.backs : t \notin Range(owned) => G.backs[t] \cap skip = {}
    BY <1>3, <1>4, <1>5
  <2> QED BY <1>4, <2>1, <2>2, WithoutKeepsExact
<1> HIDE DEF W
<1>7. /\ DOMAIN W.backs = Range(run) /\ W.sound /\ Root \in DOMAIN W.view
      /\ \A t \in Range(run) : W.backs[t] = F.backs[t]
  BY <1>1, <1>3, <1>4, <1>5, <1>6
<1>8. EntriesApart(Reparsed(run).d)
  <2>1. Reparsed(run).d.stream = run
    BY <1>2 DEF Becomes
  <2>2. Apart(Range(run))
    BY <1>1 DEF Apart
  <2> QED BY <1>1, <2>1, <2>2, ApartAgain
<1>9. /\ \A t \in Range(run) : t \in Range(doc.stream) => W.backs[t] = doc.filed[t]
      /\ \A t \in Range(run) : t \notin Range(doc.stream) => W.backs[t] = Reparsed(run).d.filed[t]
  BY <1>1, <1>7 DEF run
<1> QED BY <1>1, <1>2, <1>6, <1>7, <1>8, <1>9, Became

LEMMA DemoteFiling == FilingInv /\ DemoteHeader => FilingInv'
<1> SUFFICES ASSUME FilingInv, DemoteHeader PROVE FilingInv'
  OBVIOUS
<1> DEFINE q == doc.stream
<1>1. PICK c \in DOMAIN caches.view :
        LET h == caches.view[c].header
        IN  /\ h # NoSlot
            /\ Becomes(Dropping(q, {h}), Without(Scrub(caches, Keys(q), <<h>>, {}), {}, <<h>>))
  BY DEF DemoteHeader
<1> DEFINE h == caches.view[c].header
<1>2. /\ UpToDate(caches, q) /\ Tidy(doc) /\ Projected(caches, doc)
      /\ \A t \in Range(q) : caches.backs[t] = doc.filed[t]
  BY InvCurrent
<1>3. h \in Range(q)
  <2>1. Exact(caches.view[c], Keys(q), c, RefSet(doc, c)) /\ RefSet(doc, c) \subseteq Range(q)
    BY <1>2, ViewFacts
  <2>2. h \in RefSet(doc, c)
    BY <1>1, <2>1 DEF Exact, HeaderExact
  <2> QED BY <2>1, <2>2
<1>4. Apart(Range(q))
  BY <1>2, SlotsApart
<1> HIDE DEF h, q
<1> DEFINE R == {h}
           owned == <<h>>
           skip == {}
<1>5. MayLeave(caches, q, owned, R, skip)
  <2>1. Orders(<<h>>, Keys(q), {h})
    BY DEF Orders
  <2>2. Separable(caches, <<h>>, {h}, {})
    BY DEF Separable
  <2> QED BY <1>3, <2>1, <2>2 DEF MayLeave
<1>6. Becomes(Dropping(q, R), Without(Scrub(caches, Keys(q), owned, skip), skip, owned))
  BY <1>1 DEF h
<1> HIDE DEF R, owned, skip
<1>7. /\ \A t \in Range(q) \ R : t \in Range(doc.stream) => caches.backs[t] = doc.filed[t]
      /\ \A t \in Range(q) \ R : t \notin Range(doc.stream) =>
                                     caches.backs[t] = Reparsed(Dropping(q, R)).d.filed[t]
  BY <1>2 DEF q
<1> QED BY <1>2, <1>4, <1>5, <1>6, <1>7, LeavingFiling

-----------------------------------------------------------------------------
(* The way up from a container.                                            *)

(* An array's entries are opened under its path, and are in no other.      *)
LEMMA EntryArray ==
  ASSUME NEW v, NEW d, Reading(v, d), NEW a, NEW e \in Range(EntriesOf(d, a))
  PROVE  /\ ArrayOf(d, e) = a /\ e # NoEntry /\ a \in DOMAIN d.aot /\ a \in Nat \X Path
         /\ \E g \in 1..Len(d.stream) : /\ Opens(d.stream[g], e) /\ d.stream[g].path = a[2]
                                        /\ <<a[1], Front(a[2])>> \in FiledAt(d, g)
<1>1. /\ ArraysHomed(d) /\ EntriesApart(d) /\ \A b \in DOMAIN d.aot : d.aot[b] \in Seq(Nat)
  BY DEF Reading, Agree
<1>2. a \in DOMAIN d.aot /\ e \in Range(d.aot[a])
  <2>1. CASE a \in DOMAIN d.aot
    BY <2>1 DEF EntriesOf
  <2>2. CASE a \notin DOMAIN d.aot
    <3>1. EntriesOf(d, a) = <<>>
      BY <2>2 DEF EntriesOf
    <3>2. Range(<<>>) = {}
      BY DEF Range
    <3> QED BY <3>1, <3>2
  <2> QED BY <2>1, <2>2
<1>3. ASSUME NEW b \in DOMAIN d.aot, e \in Range(d.aot[b])
      PROVE  /\ b \in Nat \X Path
             /\ \E g \in 1..Len(d.stream) : /\ Opens(d.stream[g], e) /\ d.stream[g].path = b[2]
                                            /\ <<b[1], Front(b[2])>> \in FiledAt(d, g)
  <2>1. PICK j \in 1..Len(d.aot[b]) : d.aot[b][j] = e
    BY <1>1, <1>3 DEF Range
  <2> QED BY <1>1, <2>1 DEF ArraysHomed
<1>4. PICK g \in 1..Len(d.stream) : /\ Opens(d.stream[g], e) /\ d.stream[g].path = a[2]
                                    /\ <<a[1], Front(a[2])>> \in FiledAt(d, g)
  BY <1>2, <1>3
<1>5. ASSUME NEW b \in DOMAIN d.aot, e \in Range(d.aot[b]) PROVE b = a
  <2>1. PICK h \in 1..Len(d.stream) : /\ Opens(d.stream[h], e) /\ d.stream[h].path = b[2]
                                      /\ <<b[1], Front(b[2])>> \in FiledAt(d, h)
    BY <1>3, <1>5
  <2>2. g = h
    BY <1>1, <1>4, <2>1 DEF EntriesApart
  <2> DEFINE x == <<a[1], Front(a[2])>>
             y == <<b[1], Front(b[2])>>
  <2>3. a[2] = b[2] /\ x[2] = y[2] /\ x \in FiledAt(d, g) /\ y \in FiledAt(d, g)
    BY <1>4, <2>1, <2>2
  <2> HIDE DEF x, y
  <2>4. x = y
    BY <2>3, FiledLevels
  <2>5. a[1] = b[1]
    BY <2>4 DEF x, y
  <2>6. a \in Nat \X Path /\ b \in Nat \X Path
    BY <1>2, <1>3, <1>5
  <2> QED BY <2>3, <2>5, <2>6
<1>6. ArrayOf(d, e) = a
  BY <1>2, <1>5 DEF ArrayOf
<1>7. e # NoEntry
  BY <1>4 DEF Opens, IsEntryHeader
<1> QED BY <1>2, <1>3, <1>4, <1>6, <1>7

(* The container above one is its parent. *)
LEMMA ParentIs ==
  ASSUME NEW v, NEW d, Reading(v, d), NEW y, NEW x, Above(d, y, x), x = <<x[1], x[2]>>, x[2] \in Path
  PROVE  /\ Parent(d, x) = y /\ y = <<y[1], y[2]>>
         /\ \E i \in 1..Len(d.stream) : y \in FiledAt(d, i)
<1> DEFINE t == x[2]
<1>1. /\ Held(d) /\ FiledInForce(d) /\ EntriesListed(d) /\ EntriesApart(d)
  BY DEF Reading
<1>2. y[2] = Front(t) /\ Len(t) \in Nat \ {0} /\ Len(Front(t)) = Len(t) - 1
      /\ Front(t) \in Seq(Key)
  BY FrontLast DEF Above
<1>3. PICK i \in 1..Len(d.stream) : y \in FiledAt(d, i)
  BY <1>1 DEF Above, Held
<1>4. y = <<y[1], y[2]>>
  BY <1>3, FiledLevels
<1> HIDE DEF t
<1>5. CASE KindOf(d, y, Last(t)) = "section" /\ y[1] = x[1]
  <2>1. ~IsEntry(d, x)
    <3> SUFFICES ASSUME x[1] # NoEntry, ArrayOf(d, x[1])[2] = t PROVE FALSE
      BY DEF IsEntry, t
    <3>1. PICK g \in 1..i : Rules(d, g, i, y[1], y[2])
      BY <1>1, <1>3, <1>5 DEF FiledInForce
    <3>2. Opens(d.stream[g], x[1]) /\ OpensAbove(d.stream[g], y[2]) /\ g \in 1..Len(d.stream)
      BY <1>5, <3>1 DEF Rules
    <3>3. PICK a \in DOMAIN d.aot : x[1] \in Range(d.aot[a])
      BY <1>1, <3>2 DEF EntriesListed
    <3> DEFINE e == x[1]
    <3>4. e \in Range(EntriesOf(d, a))
      BY <3>3 DEF EntriesOf
    <3> HIDE DEF e
    <3>5. /\ ArrayOf(d, e) = a
          /\ \E h \in 1..Len(d.stream) : /\ Opens(d.stream[h], e) /\ d.stream[h].path = a[2]
                                         /\ <<a[1], Front(a[2])>> \in FiledAt(d, h)
      BY <3>4, EntryArray
    <3>6. d.stream[g].path = t
      BY <1>1, <3>2, <3>5 DEF EntriesApart, e
    <3>7. t = Front(t) \/ IsStrictPrefix(t, Front(t))
      BY <1>2, <3>2, <3>6 DEF OpensAbove
    <3>8. t \in Seq(Key)
      BY DEF t, Path
    <3>9. Len(t) <= Len(Front(t))
      BY <1>2, <3>7, <3>8, StrictPrefixMeaning
    <3> QED BY <1>2, <3>9
  <2> QED BY <1>2, <1>3, <1>4, <1>5, <2>1 DEF Parent, t
<1>6. CASE KindOf(d, y, Last(t)) = "aot" /\ x[1] \in Range(EntriesOf(d, <<y[1], t>>))
  <2> DEFINE e == x[1]
             a == <<y[1], t>>
  <2>0. e \in Range(EntriesOf(d, a))
    BY <1>6
  <2> HIDE DEF e, a
  <2>1. ArrayOf(d, e) = a /\ e # NoEntry
    BY <2>0, EntryArray
  <2>2. IsEntry(d, x) /\ ArrayOf(d, x[1])[1] = y[1]
    BY <2>1 DEF IsEntry, t, e, a
  <2> QED BY <1>2, <1>3, <1>4, <2>2 DEF Parent, t
<1> QED BY <1>5, <1>6 DEF Above, t

Climbs(d, x, up, n) ==
  /\ up = [i \in 0..n |-> up[i]]
  /\ up[0] = x
  /\ \A i \in 1..n : up[i] = Parent(d, up[i - 1])

LEMMA ClimbExists ==
  ASSUME NEW d, NEW x
  PROVE  \A n \in Nat : \E up : Climbs(d, x, up, n)
<1> DEFINE P == {n \in Nat : \E up : Climbs(d, x, up, n)}
<1>1. 0 \in P
  <2>1. Climbs(d, x, [i \in 0..0 |-> x], 0)
    BY DEF Climbs
  <2> QED BY <2>1
<1>2. ASSUME NEW n \in Nat, n \in P PROVE n + 1 \in P
  <2>1. PICK f : Climbs(d, x, f, n)
    BY <1>2
  <2> DEFINE z == Parent(d, f[n])
             g == [i \in 0..(n + 1) |-> IF i = n + 1 THEN z ELSE f[i]]
  <2> HIDE DEF z
  <2>2. /\ g = [i \in 0..(n + 1) |-> g[i]] /\ g[n + 1] = z
        /\ \A i \in 0..n : g[i] = f[i]
    OBVIOUS
  <2> HIDE DEF g
  <2>3. g[0] = x
    <3>1. 0 \in 0..n /\ f[0] = x
      BY <2>1 DEF Climbs
    <3> QED BY <2>2, <3>1
  <2>4. ASSUME NEW i \in 1..(n + 1) PROVE g[i] = Parent(d, g[i - 1])
    <3>1. CASE i = n + 1
      <4>1. g[i - 1] = f[n]
        BY <2>2, <3>1
      <4> QED BY <2>2, <3>1, <4>1 DEF z
    <3>2. CASE i # n + 1
      <4>1. i \in 1..n /\ i - 1 \in 0..n /\ i \in 0..n
        BY <3>2
      <4> QED BY <2>1, <2>2, <4>1 DEF Climbs
    <3> QED BY <3>1, <3>2
  <2>5. Climbs(d, x, g, n + 1)
    BY <2>2, <2>3, <2>4 DEF Climbs
  <2> QED BY <2>5
<1> HIDE DEF P
<1>3. \A n \in Nat : n \in P
  BY <1>1, <1>2, InductionOnSet
<1> QED BY <1>3 DEF P

LEMMA LineageMeaning ==
  ASSUME NEW d, NEW x, Len(x[2]) \in Nat, NEW up, Climbs(d, x, up, Len(x[2]))
  PROVE  Lineage(d, x) = {up[i] : i \in 0..Len(x[2])}
<1> DEFINE n == Len(x[2])
           Is(f) == f = [i \in 0..n |-> IF i = 0 THEN x ELSE Parent(d, f[i - 1])]
           h == CHOOSE f : Is(f)
<1>1. Lineage(d, x) = {h[i] : i \in 0..n}
  BY DEF Lineage
<1>2. n \in Nat /\ Climbs(d, x, up, n)
  OBVIOUS
<1> HIDE DEF n
<1>3. Is(up)
  <2> DEFINE g == [i \in 0..n |-> IF i = 0 THEN x ELSE Parent(d, up[i - 1])]
  <2>1. \A i \in 0..n : up[i] = g[i]
    <3> SUFFICES ASSUME NEW i \in 0..n PROVE up[i] = IF i = 0 THEN x ELSE Parent(d, up[i - 1])
      OBVIOUS
    <3>1. i # 0 => i \in 1..n
      BY <1>2
    <3> QED BY <1>2, <3>1 DEF Climbs
  <2>2. g = [i \in 0..n |-> g[i]]
    OBVIOUS
  <2> HIDE DEF g
  <2>3. up = g
    BY <1>2, <2>1, <2>2 DEF Climbs
  <2> QED BY <2>3 DEF g
<1>4. Is(h)
  BY <1>3
<1> HIDE DEF h
<1>5. h[0] = x /\ \A i \in 1..n : h[i] = Parent(d, h[i - 1])
  BY <1>2, <1>4
<1> DEFINE P == {m \in Nat : m <= n => h[m] = up[m]}
<1>6. 0 \in P
  BY <1>2, <1>5 DEF Climbs
<1>7. ASSUME NEW m \in Nat, m \in P PROVE m + 1 \in P
  <2> SUFFICES ASSUME m + 1 <= n PROVE h[m + 1] = up[m + 1]
    OBVIOUS
  <2>1. m + 1 \in 1..n /\ (m + 1) - 1 = m /\ m <= n
    BY <1>2
  <2> QED BY <1>2, <1>5, <1>7, <2>1 DEF Climbs
<1> HIDE DEF P
<1>8. \A m \in Nat : m \in P
  BY <1>6, <1>7, InductionOnSet
<1>9. \A i \in 0..n : h[i] = up[i]
  BY <1>2, <1>8 DEF P
<1> QED BY <1>1, <1>9 DEF n

(* What is above a container: one of each length of its path.              *)
LEMMA LineageFacts ==
  ASSUME NEW d, NEW x, x[2] \in Seq(Key)
  PROVE  /\ x \in Lineage(d, x)
         /\ \A z \in Lineage(d, x) : /\ Len(z[2]) \in 0..Len(x[2]) /\ z[2] = Prefix(x[2], Len(z[2]))
                                     /\ z[2] \in Seq(Key)
                                     /\ Lineage(d, z) \subseteq Lineage(d, x)
                                     /\ Len(z[2]) # 0 => Parent(d, z) \in Lineage(d, x)
         /\ \A j \in 0..Len(x[2]) : \E z \in Lineage(d, x) : Len(z[2]) = j
         /\ \A y, z \in Lineage(d, x) : Len(y[2]) = Len(z[2]) => y = z
         /\ \A y, z \in Lineage(d, x) : Len(y[2]) <= Len(z[2]) => y \in Lineage(d, z)
<1> DEFINE t == x[2]
           n == Len(t)
           L == Lineage(d, x)
<1>1. n \in Nat /\ t \in Seq(Key)
  OBVIOUS
<1>2. PICK up : Climbs(d, x, up, n)
  BY <1>1, ClimbExists
<1>3. L = {up[i] : i \in 0..n}
  BY <1>1, <1>2, LineageMeaning
<1>4. up[0] = x /\ \A i \in 1..n : up[i] = Parent(d, up[i - 1])
  BY <1>2 DEF Climbs
<1> HIDE DEF L, n
<1> DEFINE P == {m \in Nat : m <= n => up[m][2] = Prefix(t, n - m)}
<1>5. 0 \in P
  BY <1>1, <1>4, PrefixType DEF n
<1>6. ASSUME NEW m \in Nat, m \in P PROVE m + 1 \in P
  <2> SUFFICES ASSUME m + 1 <= n PROVE up[m + 1][2] = Prefix(t, n - (m + 1))
    OBVIOUS
  <2>1. m + 1 \in 1..n /\ (m + 1) - 1 = m /\ n - m \in 1..n /\ n - m \in 0..n /\ (n - m) - 1 = n - (m + 1)
    BY <1>1
  <2>2. up[m + 1][2] = Front(up[m][2]) /\ up[m][2] = Prefix(t, n - m)
    BY <1>1, <1>4, <1>6, <2>1 DEF Parent
  <2> DEFINE u == Prefix(t, n - m)
  <2>a. u \in Seq(Key) /\ Len(u) = n - m
    BY <1>1, <2>1, PrefixType DEF n
  <2>3. u \in Path /\ Len(u) = n - m
    <3> HIDE DEF t, n, u
    <3>1. Len(u) # 0
      BY <1>1, <2>1, <2>a
    <3>2. u # <<>>
      BY <3>1
    <3> QED BY <2>a, <3>2 DEF Path
  <2>4. Front(u) = Prefix(u, (n - m) - 1)
    BY <2>3, FrontLast
  <2>5. Prefix(Prefix(t, n - m), (n - m) - 1) = Prefix(t, (n - m) - 1)
    BY <1>1, <2>1, PrefixOfPrefix DEF n
  <2> HIDE DEF t
  <2> QED BY <2>1, <2>2, <2>4, <2>5
<1> HIDE DEF P
<1>7. \A m \in Nat : m \in P
  BY <1>5, <1>6, InductionOnSet
<1>8. \A m \in 0..n : up[m][2] = Prefix(t, n - m) /\ up[m][2] \in Seq(Key) /\ Len(up[m][2]) = n - m
  <2> SUFFICES ASSUME NEW m \in 0..n
               PROVE  up[m][2] = Prefix(t, n - m) /\ up[m][2] \in Seq(Key) /\ Len(up[m][2]) = n - m
    OBVIOUS
  <2>1. m \in Nat /\ m <= n /\ n - m \in 0..n
    BY <1>1
  <2>2. up[m][2] = Prefix(t, n - m)
    BY <1>7, <2>1 DEF P
  <2> QED BY <1>1, <2>1, <2>2, PrefixType DEF n
<1> HIDE DEF t
<1>9. x \in L
  BY <1>1, <1>3, <1>4
<1>10. \A j \in 0..n : \E z \in L : Len(z[2]) = j
  <2> SUFFICES ASSUME NEW j \in 0..n PROVE \E z \in L : Len(z[2]) = j
    OBVIOUS
  <2>1. n - j \in 0..n /\ n - (n - j) = j
    BY <1>1
  <2> QED BY <1>3, <1>8, <2>1
<1>11. \A y, z \in L : Len(y[2]) = Len(z[2]) => y = z
  <2> SUFFICES ASSUME NEW a \in 0..n, NEW b \in 0..n, Len(up[a][2]) = Len(up[b][2]) PROVE up[a] = up[b]
    BY <1>3
  <2>1. n - a = n - b
    BY <1>8
  <2>2. a = b
    BY <1>1, <2>1
  <2> QED BY <2>2
<1>12. ASSUME NEW k \in 0..n PROVE Lineage(d, up[k]) = {up[i] : i \in k..n}
  <2> DEFINE g == [i \in 0..(n - k) |-> up[k + i]]
  <2>1. n - k \in Nat /\ Len(up[k][2]) = n - k /\ k \in Nat
    BY <1>1, <1>8
  <2>2. /\ g = [i \in 0..(n - k) |-> g[i]] /\ \A i \in 0..(n - k) : g[i] = up[k + i]
    OBVIOUS
  <2> HIDE DEF g
  <2>3. g[0] = up[k]
    BY <2>1, <2>2
  <2>4. ASSUME NEW i \in 1..(n - k) PROVE g[i] = Parent(d, g[i - 1])
    <3>1. i \in 0..(n - k) /\ i - 1 \in 0..(n - k) /\ k + i \in 1..n /\ (k + i) - 1 = k + (i - 1)
      BY <1>1, <2>1
    <3>2. g[i] = up[k + i] /\ g[i - 1] = up[(k + i) - 1]
      BY <2>2, <3>1
    <3> QED BY <1>4, <3>1, <3>2
  <2>5. Climbs(d, up[k], g, n - k)
    BY <2>2, <2>3, <2>4 DEF Climbs
  <2> DEFINE z == up[k]
  <2>6. Len(z[2]) \in Nat /\ Climbs(d, z, g, Len(z[2]))
    BY <2>1, <2>5
  <2> HIDE DEF z
  <2>7. Lineage(d, z) = {g[i] : i \in 0..Len(z[2])}
    BY <2>6, LineageMeaning
  <2>8. Lineage(d, up[k]) = {g[i] : i \in 0..(n - k)}
    BY <2>1, <2>7 DEF z
  <2>9. \A i \in 0..(n - k) : k + i \in k..n
    BY <1>1, <2>1
  <2>10. \A i \in k..n : i - k \in 0..(n - k) /\ k + (i - k) = i
    BY <1>1, <2>1
  <2>11. ASSUME NEW y \in {g[i] : i \in 0..(n - k)} PROVE y \in {up[i] : i \in k..n}
    <3>1. PICK i \in 0..(n - k) : y = g[i]
      OBVIOUS
    <3> QED BY <2>2, <2>9, <3>1
  <2>12. ASSUME NEW y \in {up[i] : i \in k..n} PROVE y \in {g[i] : i \in 0..(n - k)}
    <3>1. PICK i \in k..n : y = up[i]
      OBVIOUS
    <3>2. y = g[i - k]
      BY <2>2, <2>10, <3>1
    <3> QED BY <2>10, <3>2
  <2> QED BY <2>8, <2>11, <2>12
<1>13. ASSUME NEW z \in L
       PROVE  /\ Len(z[2]) \in 0..n /\ z[2] = Prefix(t, Len(z[2])) /\ z[2] \in Seq(Key)
              /\ Lineage(d, z) \subseteq L
              /\ Len(z[2]) # 0 => Parent(d, z) \in L
  <2>1. PICK k \in 0..n : z = up[k]
    BY <1>3
  <2>2. Len(z[2]) = n - k /\ n - k \in 0..n
    BY <1>1, <1>8, <2>1
  <2>3. \A i \in k..n : i \in 0..n
    BY <1>1
  <2>a. Lineage(d, z) = {up[i] : i \in k..n}
    BY <1>12, <2>1
  <2>4. Lineage(d, z) \subseteq L
    <3> SUFFICES ASSUME NEW y \in {up[i] : i \in k..n} PROVE y \in {up[i] : i \in 0..n}
      BY <1>3, <2>a
    <3>1. PICK i \in k..n : y = up[i]
      OBVIOUS
    <3> QED BY <2>3, <3>1
  <2>5. Len(z[2]) # 0 => Parent(d, z) \in L
    <3> SUFFICES ASSUME Len(z[2]) # 0 PROVE Parent(d, z) \in L
      OBVIOUS
    <3>1. k + 1 \in 1..n /\ k + 1 \in 0..n /\ (k + 1) - 1 = k
      BY <1>1, <2>2
    <3>2. up[k + 1] = Parent(d, z)
      BY <1>4, <2>1, <3>1
    <3> QED BY <1>3, <3>1, <3>2
  <2> QED BY <1>8, <2>1, <2>2, <2>4, <2>5
<1>14. \A y, z \in L : Len(y[2]) <= Len(z[2]) => y \in Lineage(d, z)
  <2> SUFFICES ASSUME NEW a \in 0..n, NEW b \in 0..n, Len(up[a][2]) <= Len(up[b][2])
               PROVE  up[a] \in Lineage(d, up[b])
    BY <1>3
  <2>1. n - a <= n - b
    BY <1>8
  <2>2. a \in b..n
    BY <1>1, <2>1
  <2> QED BY <1>12, <2>2
<1> QED BY <1>9, <1>10, <1>11, <1>13, <1>14 DEF L, n, t

(* A line is filed on what is above any of its containers, from its own    *)
(* first level on.                                                         *)
LEMMA LineageFiled ==
  ASSUME NEW v, NEW d, Reading(v, d), NEW i \in 1..Len(d.stream), NEW x \in FiledAt(d, i)
  PROVE  /\ x[2] \in Seq(Key)
         /\ \A y \in FiledAt(d, i) : Len(y[2]) <= Len(x[2]) => y \in Lineage(d, x)
         /\ \A z \in Lineage(d, x) : Highest(d.stream[i]) <= Len(z[2]) => z \in FiledAt(d, i)
<1> DEFINE C == FiledAt(d, i)
           H == Highest(d.stream[i])
           n == Len(x[2])
<1>1. /\ \A y \in C : /\ y \in Nat \X Seq(Key) /\ y = <<y[1], y[2]>>
                      /\ Len(y[2]) \in H..Lowest(d.stream[i])
      /\ \A y, z \in C : Len(y[2]) = Len(z[2]) => y = z
  BY FiledLevels
<1>2. H \in Nat /\ Lowest(d.stream[i]) \in Nat
  BY FiledFacts, LevelsOf
<1>3. x[2] \in Seq(Key) /\ n \in Nat /\ H <= n
  BY <1>1, <1>2
<1>a. x[2] \in Seq(Key)
  BY <1>3
<1>b. /\ x \in Lineage(d, x)
      /\ \A z \in Lineage(d, x) : /\ Len(z[2]) \in 0..Len(x[2]) /\ z[2] = Prefix(x[2], Len(z[2]))
                                  /\ z[2] \in Seq(Key)
                                  /\ Lineage(d, z) \subseteq Lineage(d, x)
                                  /\ Len(z[2]) # 0 => Parent(d, z) \in Lineage(d, x)
      /\ \A j \in 0..Len(x[2]) : \E z \in Lineage(d, x) : Len(z[2]) = j
      /\ \A y, z \in Lineage(d, x) : Len(y[2]) = Len(z[2]) => y = z
      /\ \A y, z \in Lineage(d, x) : Len(y[2]) <= Len(z[2]) => y \in Lineage(d, z)
  <2> HIDE DEF C, H, n
  <2> QED BY <1>a, LineageFacts
<1>4. /\ x \in Lineage(d, x)
      /\ \A z \in Lineage(d, x) : /\ Len(z[2]) \in 0..n /\ z[2] \in Seq(Key)
                                  /\ Len(z[2]) # 0 => Parent(d, z) \in Lineage(d, x)
      /\ \A y, z \in Lineage(d, x) : Len(y[2]) = Len(z[2]) => y = z
      /\ \A j \in 0..n : \E z \in Lineage(d, x) : Len(z[2]) = j
  BY <1>b
<1>5. ASSUME NEW z \in C, Len(z[2]) > H
      PROVE  Parent(d, z) \in C /\ Len(Parent(d, z)[2]) = Len(z[2]) - 1
  <2>1. PICK y \in C : Above(d, y, z)
    BY <1>5 DEF Reading, Chained
  <2>2. z[2] \in Path /\ z = <<z[1], z[2]>>
    BY <1>1, <2>1 DEF Above, Path
  <2>3. Parent(d, z) = y
    BY <2>1, <2>2, ParentIs
  <2>4. Len(y[2]) = Len(z[2]) - 1
    BY <2>1, <2>2, FrontLast DEF Above
  <2> QED BY <2>1, <2>3, <2>4
<1> HIDE DEF C, H, n
<1> DEFINE P == {m \in Nat : m <= n - H => \E z \in C : z \in Lineage(d, x) /\ Len(z[2]) = n - m}
<1>6. 0 \in P
  BY <1>2, <1>3, <1>4 DEF C, n
<1>7. ASSUME NEW m \in Nat, m \in P PROVE m + 1 \in P
  <2> SUFFICES ASSUME m + 1 <= n - H
               PROVE  \E z \in C : z \in Lineage(d, x) /\ Len(z[2]) = n - (m + 1)
    OBVIOUS
  <2>1. m <= n - H
    BY <1>2, <1>3
  <2>2. PICK z \in C : z \in Lineage(d, x) /\ Len(z[2]) = n - m
    BY <1>7, <2>1
  <2>3. Len(z[2]) > H /\ Len(z[2]) # 0 /\ Len(z[2]) - 1 = n - (m + 1)
    BY <1>2, <1>3, <2>2
  <2>4. Parent(d, z) \in C /\ Len(Parent(d, z)[2]) = n - (m + 1)
    BY <1>5, <2>3
  <2>5. Parent(d, z) \in Lineage(d, x)
    BY <1>4, <2>2, <2>3
  <2> DEFINE y == Parent(d, z)
  <2>6. y \in C /\ y \in Lineage(d, x) /\ Len(y[2]) = n - (m + 1)
    BY <2>4, <2>5
  <2> HIDE DEF y
  <2> QED BY <2>6
<1> HIDE DEF P
<1>8. \A m \in Nat : m \in P
  BY <1>6, <1>7, InductionOnSet
<1>9. \A j \in H..n : \E z \in C : z \in Lineage(d, x) /\ Len(z[2]) = j
  <2> SUFFICES ASSUME NEW j \in H..n PROVE \E z \in C : z \in Lineage(d, x) /\ Len(z[2]) = j
    OBVIOUS
  <2>1. n - j \in Nat /\ n - j <= n - H /\ n - (n - j) = j
    BY <1>2, <1>3
  <2> QED BY <1>8, <2>1 DEF P
<1>10. ASSUME NEW y \in C, Len(y[2]) <= n PROVE y \in Lineage(d, x)
  <2>1. Len(y[2]) \in H..n
    BY <1>1, <1>2, <1>3, <1>10
  <2>2. PICK z \in C : z \in Lineage(d, x) /\ Len(z[2]) = Len(y[2])
    BY <1>9, <2>1
  <2> QED BY <1>1, <2>2
<1>11. ASSUME NEW y \in Lineage(d, x), H <= Len(y[2]) PROVE y \in C
  <2>0. Len(y[2]) \in 0..n
    BY <1>4
  <2>1. Len(y[2]) \in H..n
    BY <1>2, <1>3, <1>11, <2>0
  <2>2. PICK z \in C : z \in Lineage(d, x) /\ Len(z[2]) = Len(y[2])
    BY <1>9, <2>1
  <2> QED BY <1>4, <2>2
<1> QED BY <1>3, <1>10, <1>11 DEF C, H, n

-----------------------------------------------------------------------------
(* What is below a container, and the slots that go with it.               *)

Beneath(d, z) == {x \in DOMAIN d.tree : z \in Lineage(d, x)}

(* A line with a scope sits under the header of that scope. *)
LEMMA UnderHeader ==
  ASSUME NEW v, NEW d, Reading(v, d), NEW i \in 1..Len(d.stream), IsKV(d.stream[i])
  PROVE  /\ <<d.stream[i].owner, d.stream[i].host>> \in FiledAt(d, i)
         /\ \A j \in 1..i : IsHeader(d.stream[j]) =>
              \E h \in 1..i : /\ h # i /\ h \in 1..Len(d.stream) /\ j <= h
                              /\ Under(d, h, i, d.stream[i].owner, d.stream[i].host)
         /\ d.stream[i].host # <<>> => \E j \in 1..i : IsHeader(d.stream[j])
<1> DEFINE s == d.stream[i]
           p == s.host
<1>1. /\ Sectioned(d) /\ s \in KVSlots /\ s \in Slots
      /\ \A j \in 1..Len(d.stream) : d.stream[j] \in Slots
  BY FiledFacts, SlotsType DEF Reading, Slots
<1>2. /\ Highest(s) = Len(p) /\ Prefix(FullPath(s), Highest(s)) = p /\ Highest(s) \in Highest(s)..Lowest(s)
  BY <1>1, LevelsOf
<1>3. \E x \in FiledAt(d, i) : Len(x[2]) = Highest(s) /\ x = <<x[1], x[2]>> /\ x[1] = s.owner
                                 /\ x[2] = Prefix(FullPath(s), Len(x[2]))
  BY <1>2, FiledLevels
<1>4. <<s.owner, p>> \in FiledAt(d, i)
  BY <1>2, <1>3
<1>5. Within(d, i, s.owner, p)
  BY <1>1 DEF Sectioned
<1>6. ~IsHeader(s)
  BY <1>1, SlotsType
<1>7. ASSUME NEW j \in 1..i, IsHeader(d.stream[j])
      PROVE  \E h \in 1..i : h # i /\ h \in 1..Len(d.stream) /\ j <= h /\ Under(d, h, i, s.owner, p)
  <2>1. j \in 1..Len(d.stream) /\ ~IsKV(d.stream[j])
    <3>1. j \in 1..Len(d.stream)
      OBVIOUS
    <3> QED BY <1>1, <1>7, <3>1 DEF IsKV, IsHeader
  <2>2. PICK h \in 1..i : Under(d, h, i, s.owner, p)
    BY <1>5, <2>1 DEF Within
  <2>3. h # i
    BY <1>6, <2>2 DEF Under
  <2>4. j <= h
    BY <2>1, <2>2 DEF Under
  <2> QED BY <2>2, <2>3, <2>4
<1>8. p # <<>> => \E j \in 1..i : IsHeader(d.stream[j])
  BY <1>5 DEF Within, Under
<1> QED BY <1>4, <1>7, <1>8

(* Of the containers a departing slot is filed on, those below are the     *)
(* deep ones; and where it is on one above, it is on the top one.          *)
LEMMA OwnedBelow ==
  ASSUME NEW v, NEW d, Reading(v, d), NEW z, z # Root, z[2] \in Seq(Key),
         NEW s \in OwnedByContainer(d, z)
  PROVE  \E i \in 1..Len(d.stream) :
           /\ s = d.stream[i]
           /\ \A x \in FiledAt(d, i) : /\ x \in Beneath(d, z) <=> Len(z[2]) <= Len(x[2])
                                       /\ Len(x[2]) < Len(z[2]) => z \in FiledAt(d, i)
<1> DEFINE n == Len(z[2])
           D == 1..Len(d.stream)
<1>0. n \in Nat /\ DOMAIN d.stream = D /\ DOMAIN d.filed = Range(d.stream)
  BY FiledFacts
<1>1. \A i \in D : \A x \in FiledAt(d, i) : x \in DOMAIN d.tree /\ x[2] \in Seq(Key) /\ Len(x[2]) \in Nat
  <2> SUFFICES ASSUME NEW i \in D, NEW x \in FiledAt(d, i)
               PROVE  x \in DOMAIN d.tree /\ x[2] \in Seq(Key) /\ Len(x[2]) \in Nat
    OBVIOUS
  <2>1. x[2] \in Seq(Key)
    BY LineageFiled
  <2>2. d.stream[i] \in DOMAIN d.filed
    BY FiledFacts
  <2>3. FiledAt(d, i) \subseteq DOMAIN d.tree
    BY <2>2 DEF Reading, FiledAt
  <2> QED BY <2>1, <2>3
<1>2. \A x : x[2] \in Seq(Key) /\ z \in Lineage(d, x) => Len(z[2]) \in 0..Len(x[2])
  BY LineageFacts
<1>3. ASSUME NEW i \in D, z \in FiledAt(d, i)
      PROVE  \A x \in FiledAt(d, i) : /\ x \in Beneath(d, z) <=> n <= Len(x[2])
                                      /\ Len(x[2]) < n => z \in FiledAt(d, i)
  <2> SUFFICES ASSUME NEW x \in FiledAt(d, i) PROVE z \in Lineage(d, x) <=> n <= Len(x[2])
    BY <1>1, <1>3 DEF Beneath
  <2>1. n <= Len(x[2]) => z \in Lineage(d, x)
    BY <1>3, LineageFiled
  <2>2. z \in Lineage(d, x) => n \in 0..Len(x[2])
    BY <1>1, <1>2
  <2> QED BY <1>1, <2>1, <2>2
<1>4. ASSUME NEW h \in D, z \in FiledAt(d, h), IsHeader(d.stream[h]), d.stream[h].path # z[2],
             NEW i \in BodyRun(d, h)
      PROVE  i \in D /\ \A x \in FiledAt(d, i) : x \in Beneath(d, z) /\ n <= Len(x[2])
  <2> DEFINE s0 == d.stream[i]
             y == Top(d.stream[h])
  <2>1. /\ i \in D /\ h < i /\ h \in 1..i
        /\ \A k \in (h + 1)..i : IsKV(d.stream[k]) /\ d.stream[k].host = d.stream[h].path
    BY <1>0, <1>4 DEF BodyRun, KVAt
  <2>2. IsKV(s0) /\ s0.host = d.stream[h].path
    BY <2>1
  <2>3. PICK j \in 1..i : j # i /\ j \in D /\ h <= j /\ Under(d, j, i, s0.owner, s0.host)
    BY <1>4, <2>1, <2>2, UnderHeader
  <2>4. d.stream[j] \in Slots /\ ~IsKV(d.stream[j])
    BY <2>3, FiledFacts DEF Under, IsKV, IsHeader
  <2>5. j = h
    BY <2>1, <2>3, <2>4
  <2>6. y = <<s0.owner, s0.host>> /\ d.stream[h] \in HeaderSlots
    <3>1. d.stream[h] \in Slots
      BY FiledFacts
    <3> QED BY <1>4, <2>3, <2>5, <3>1, SlotsType DEF Under, Slots
  <2>7. y \in FiledAt(d, i) /\ y \in FiledAt(d, h)
    <3>1. <<d.stream[i].owner, d.stream[i].host>> \in FiledAt(d, i)
      BY <2>1, <2>2, UnderHeader
    <3>2. Top(d.stream[h]) \in FiledAt(d, h)
      BY FiledLevels
    <3> QED BY <2>6, <3>1, <3>2
  <2>8. Highest(s0) = Len(y[2]) /\ y[2] = d.stream[h].path
    BY <2>2, <2>6 DEF Highest
  <2>9. n <= Len(y[2])
    <3>1. n \in Highest(d.stream[h])..Lowest(d.stream[h])
      BY <1>4, FiledLevels
    <3>2. Lowest(d.stream[h]) = Len(y[2]) /\ Lowest(d.stream[h]) \in Nat /\ Highest(d.stream[h]) \in Nat
      BY <2>6, <2>8, LevelsOf DEF Slots
    <3> QED BY <3>1, <3>2
  <2>10. z \in Lineage(d, y)
    BY <1>4, <2>7, <2>9, LineageFiled
  <2> HIDE DEF y, n, s0
  <2>11. ASSUME NEW x \in FiledAt(d, i) PROVE x \in Beneath(d, z) /\ n <= Len(x[2])
    <3>1. Len(x[2]) \in Highest(d.stream[i])..Lowest(d.stream[i]) /\ x[2] \in Seq(Key)
          /\ Highest(d.stream[i]) \in Nat /\ Lowest(d.stream[i]) \in Nat
      BY <1>1, <2>1, FiledLevels, FiledFacts, LevelsOf
    <3>2. Len(y[2]) <= Len(x[2])
      BY <2>8, <3>1 DEF s0
    <3>3. y \in Lineage(d, x)
      BY <2>1, <2>7, <3>2, LineageFiled
    <3>4. Lineage(d, y) \subseteq Lineage(d, x)
      BY <3>1, <3>3, LineageFacts
    <3>5. n <= Len(x[2])
      BY <1>0, <1>1, <2>1, <2>7, <2>9, <3>1, <3>2
    <3> QED BY <1>1, <2>1, <2>10, <3>4, <3>5 DEF Beneath
  <2> QED BY <2>1, <2>11
<1>5. PICK p : /\ s = d.stream[p]
               /\ \/ p \in Positions(d, RefSet(d, z))
                  \/ \E h \in Positions(d, RefSet(d, z)) :
                       IsHeader(d.stream[h]) /\ d.stream[h].path # z[2] /\ p \in BodyRun(d, h)
  BY DEF OwnedByContainer
<1>6. \A q \in Positions(d, RefSet(d, z)) : q \in D /\ z \in FiledAt(d, q)
  BY <1>0 DEF Positions, RefSet, FiledAt
<1>7. CASE p \in Positions(d, RefSet(d, z))
  <2>1. p \in D /\ z \in FiledAt(d, p)
    BY <1>6, <1>7
  <2> QED BY <1>3, <1>5, <2>1
<1>8. CASE p \notin Positions(d, RefSet(d, z))
  <2>1. PICK h \in Positions(d, RefSet(d, z)) :
               IsHeader(d.stream[h]) /\ d.stream[h].path # z[2] /\ p \in BodyRun(d, h)
    BY <1>5, <1>8
  <2>2. h \in D /\ z \in FiledAt(d, h)
    BY <1>6
  <2>3. p \in D /\ \A x \in FiledAt(d, p) : x \in Beneath(d, z) /\ n <= Len(x[2])
    BY <1>4, <2>1, <2>2
  <2>4. \A x \in FiledAt(d, p) : x \in Beneath(d, z) /\ n <= Len(x[2]) /\ ~(Len(x[2]) < n)
    BY <1>0, <1>1, <2>3
  <2> QED BY <1>5, <2>3, <2>4
<1> QED BY <1>7, <1>8

(* A slot filed anywhere below goes too. *)
LEMMA BelowOwned ==
  ASSUME NEW v, NEW d, Reading(v, d), NEW z, z # Root, z[2] \in Seq(Key),
         NEW i \in 1..Len(d.stream), NEW x \in FiledAt(d, i), z \in Lineage(d, x)
  PROVE  d.stream[i] \in OwnedByContainer(d, z)
<1> DEFINE s == d.stream[i]
           D == 1..Len(d.stream)
<1>0. /\ DOMAIN d.stream = D /\ DOMAIN d.filed = Range(d.stream)
      /\ \A j \in D : d.stream[j] \in Range(d.stream) /\ d.stream[j] \in Slots
  BY FiledFacts
<1>1. \A q \in D : z \in FiledAt(d, q) => q \in Positions(d, RefSet(d, z))
  BY <1>0 DEF Positions, RefSet, FiledAt
<1>2. x[2] \in Seq(Key) /\ Len(z[2]) \in Nat
  BY LineageFiled
<1>3. CASE Highest(s) <= Len(z[2])
  <2>1. z \in FiledAt(d, i)
    BY <1>3, LineageFiled
  <2> QED BY <1>1, <2>1 DEF OwnedByContainer
<1>4. CASE ~(Highest(s) <= Len(z[2]))
  <2>1. IsKV(s) /\ Highest(s) = Len(s.host) /\ s.host # <<>>
    BY <1>2, <1>4 DEF Highest
  <2> DEFINE y == <<s.owner, s.host>>
  <2>2. PICK j \in 1..i : j # i /\ j \in D /\ Under(d, j, i, s.owner, s.host)
    BY <2>1, UnderHeader
  <2>3. y \in FiledAt(d, i) /\ y \in FiledAt(d, j) /\ IsHeader(d.stream[j]) /\ d.stream[j].path = s.host
    <3>1. y = Top(d.stream[j]) /\ IsHeader(d.stream[j])
      BY <2>2 DEF Under
    <3>2. d.stream[j] \in HeaderSlots
      BY <1>0, <2>2, <3>1, SlotsType DEF Slots
    <3>3. <<d.stream[i].owner, d.stream[i].host>> \in FiledAt(d, i)
      BY <2>1, UnderHeader
    <3>4. Top(d.stream[j]) \in FiledAt(d, j)
      BY <2>2, FiledLevels
    <3>5. d.stream[j].path = s.host
      BY <2>2, <3>1, <3>2, LevelsOf DEF Slots
    <3> QED BY <3>1, <3>3, <3>4, <3>5
  <2>4. Len(y[2]) = Highest(s)
    BY <2>1
  <2>5. y[2] \in Seq(Key) /\ Len(y[2]) \in Nat
    BY <2>3, LineageFiled
  <2> HIDE DEF y
  <2>6. Len(y[2]) <= Len(x[2])
    <3>1. Len(x[2]) \in Highest(s)..Lowest(s) /\ Highest(s) \in Nat /\ Lowest(s) \in Nat
      BY <1>0, FiledLevels, LevelsOf
    <3> QED BY <2>4, <3>1
  <2>7. y \in Lineage(d, x)
    BY <2>3, <2>6, LineageFiled
  <2>8. Len(z[2]) <= Len(y[2])
    BY <1>2, <1>4, <2>4, <2>5
  <2>9. z \in Lineage(d, y)
    BY <1>2, <2>7, <2>8, LineageFacts
  <2>10. z \in FiledAt(d, j)
    <3>1. Highest(d.stream[j]) = 0
      BY <2>3 DEF Highest, IsHeader, IsKV
    <3> QED BY <1>2, <2>2, <2>3, <2>9, <3>1, LineageFiled
  <2>11. i \in BodyRun(d, j)
    BY <1>0, <2>2, <2>3 DEF BodyRun, KVAt, Under
  <2>12. d.stream[j].path # z[2]
    BY <1>2, <1>4, <2>1, <2>3
  <2>13. j \in Positions(d, RefSet(d, z))
    BY <1>1, <2>2, <2>10
  <2> QED BY <2>3, <2>11, <2>12, <2>13 DEF OwnedByContainer
<1> QED BY <1>3, <1>4

LEMMA RootAbove ==
  ASSUME NEW d, NEW z, z # Root
  PROVE  Root \notin Beneath(d, z)
<1> SUFFICES ASSUME z \in Lineage(d, Root) PROVE FALSE
  BY DEF Beneath
<1> DEFINE x == Root
<1>1. x[2] \in Seq(Key) /\ x[2] = <<>>
  BY DEF Root
<1>2. z \in Lineage(d, x)
  OBVIOUS
<1>3. Len(x[2]) = 0
  BY <1>1
<1> HIDE DEF x
<1>4. x \in Lineage(d, x) /\ Len(z[2]) \in 0..Len(x[2])
  BY <1>1, <1>2, LineageFacts
<1>5. Len(z[2]) = Len(x[2])
  BY <1>3, <1>4
<1>6. z = x
  BY <1>1, <1>2, <1>4, <1>5, LineageFacts
<1> QED BY <1>6 DEF x

(* A departing slot binds, on any container above, the next key of the way *)
(* down.                                                                   *)
LEMMA LeavesFrom ==
  ASSUME NEW v, NEW d, Reading(v, d), NEW z, z # Root, z[2] \in Seq(Key),
         NEW s \in OwnedByContainer(d, z), NEW x \in d.filed[s], x \notin Beneath(d, z)
  PROVE  /\ Len(x[2]) < Len(z[2]) /\ x[2] \in Seq(Key)
         /\ LocalKey(s, x) = z[2][Len(x[2]) + 1] /\ LocalKey(s, x) # OwnKey
<1>1. PICK i \in 1..Len(d.stream) :
           /\ s = d.stream[i]
           /\ \A y \in FiledAt(d, i) : /\ y \in Beneath(d, z) <=> Len(z[2]) <= Len(y[2])
                                       /\ Len(y[2]) < Len(z[2]) => z \in FiledAt(d, i)
  BY OwnedBelow
<1>2. x \in FiledAt(d, i)
  BY <1>1 DEF FiledAt
<1> DEFINE f == FullPath(d.stream[i])
           m == Len(z[2])
           n == Len(x[2])
<1>3. x[2] \in Seq(Key) /\ n \in Nat /\ m \in Nat
  BY <1>2, LineageFiled
<1>4. n < m /\ z \in FiledAt(d, i)
  <2>1. ~(m <= n)
    BY <1>1, <1>2
  <2>2. n < m
    BY <1>3, <2>1
  <2> QED BY <1>1, <1>2, <2>2
<1>5. d.stream[i] \in Slots
  BY FiledFacts
<1>6. /\ m \in Highest(d.stream[i])..Lowest(d.stream[i]) /\ z[2] = Prefix(f, m)
      /\ Lowest(d.stream[i]) <= Len(f) /\ f \in Seq(Key) /\ Len(f) \in Nat
      /\ Highest(d.stream[i]) \in Nat /\ Lowest(d.stream[i]) \in Nat
  BY <1>4, <1>5, FiledLevels, LevelsOf
<1>7. LocalKey(d.stream[i], x) # OwnKey
  <2> SUFFICES ASSUME LocalKey(d.stream[i], x) = OwnKey PROVE FALSE
    OBVIOUS
  <2>1. IsHeader(d.stream[i]) /\ ~IsKV(d.stream[i]) /\ d.stream[i].path = x[2]
    BY <1>2, LocalKeys
  <2>2. f = x[2]
    BY <2>1 DEF FullPath
  <2>3. m <= Len(f) /\ Len(f) = n
    BY <1>3, <1>6, <2>2
  <2> QED BY <1>3, <1>4, <2>3
<1>8. LocalKey(d.stream[i], x) = f[n + 1]
  BY <1>2, <1>7, LocalKeys
<1>9. m \in 0..Len(f) /\ n + 1 \in 1..m
  BY <1>3, <1>4, <1>6
<1>10. Prefix(f, m)[n + 1] = f[n + 1]
  <2> HIDE DEF f, m, n
  <2> QED BY <1>6, <1>9, PrefixType
<1> QED BY <1>1, <1>3, <1>4, <1>6, <1>7, <1>8, <1>10

-----------------------------------------------------------------------------
(* Lists one after the other.                                              *)

LEMMA FlattenOrders ==
  ASSUME NEW ord, NEW parts, NEW S, Len(parts) \in Nat, Len(parts) # 0,
         \A i \in 1..Len(parts) : Orders(parts[i], ord, S[i]),
         \A i, j \in 1..Len(parts) : i < j => \A s \in S[i], t \in S[j] : ord[s] < ord[t]
  PROVE  Orders(FlattenSeq(parts), ord, UNION {S[i] : i \in 1..Len(parts)})
<1> DEFINE n == Len(parts)
           All(m) == UNION {S[i] : i \in 1..m}
<1>1. PICK f : Flattens(parts, f, n) /\ FlattenSeq(parts) = f[n]
  BY FlattenMeaning
<1>0. n \in Nat /\ n # 0 /\ n >= 1
  OBVIOUS
<1> HIDE DEF n
<1> DEFINE P == {m \in Nat : m + 1 <= n => Orders(f[m + 1], ord, All(m + 1))}
<1>2. 0 \in P
  <2>1. All(1) = S[1]
    OBVIOUS
  <2>2. f[1] = parts[1] /\ 1 \in 1..n
    BY <1>0, <1>1 DEF Flattens
  <2>3. Orders(f[1], ord, All(1))
    BY <2>1, <2>2 DEF n
  <2> HIDE DEF All
  <2> QED BY <2>3
<1>3. ASSUME NEW m \in Nat, m \in P PROVE m + 1 \in P
  <2> SUFFICES ASSUME (m + 1) + 1 <= n PROVE Orders(f[(m + 1) + 1], ord, All((m + 1) + 1))
    OBVIOUS
  <2> DEFINE k == (m + 1) + 1
  <2>1. k \in 2..n /\ k \in 1..n /\ k - 1 = m + 1 /\ m + 1 <= n
    BY <1>0
  <2>2. f[k] = f[m + 1] \o parts[k]
    BY <1>1, <2>1 DEF Flattens
  <2>3. Orders(f[m + 1], ord, All(m + 1)) /\ Orders(parts[k], ord, S[k])
    BY <1>3, <2>1 DEF n
  <2>4. \A s \in All(m + 1), t \in S[k] : ord[s] < ord[t]
    <3> SUFFICES ASSUME NEW i \in 1..(m + 1), NEW s \in S[i], NEW t \in S[k] PROVE ord[s] < ord[t]
      OBVIOUS
    <3>0. k = m + 2 /\ m + 1 <= n /\ m \in Nat
      BY <2>1
    <3>1. i < k /\ i \in 1..n
      <4> HIDE DEF k, All
      <4> QED BY <1>0, <3>0
    <3> QED BY <2>1, <3>1 DEF n
  <2>5. All(k) = All(m + 1) \cup S[k]
    OBVIOUS
  <2> HIDE DEF All, k
  <2>6. Orders(f[m + 1] \o parts[k], ord, All(m + 1) \cup S[k])
    BY <2>3, <2>4, OrderedJoin
  <2> QED BY <2>2, <2>5, <2>6 DEF k
<1> HIDE DEF P
<1>4. \A m \in Nat : m \in P
  BY <1>2, <1>3, InductionOnSet
<1>5. n - 1 \in P /\ (n - 1) + 1 = n
  BY <1>0, <1>4
<1>6. Orders(f[n], ord, All(n))
  <2> HIDE DEF All
  <2> QED BY <1>0, <1>5 DEF P
<1> QED BY <1>1, <1>6 DEF n

-----------------------------------------------------------------------------
(* The slots of an entry.                                                  *)

(* They lie between its header and the next of the array.                  *)
LEMMA EntryStretch ==
  ASSUME NEW v, NEW d, Reading(v, d), NEW a, NEW e \in Range(EntriesOf(d, a)),
         NEW g \in 1..Len(d.stream), Opens(d.stream[g], e),
         NEW s \in OwnedByContainer(d, EntryTable(a, e))
  PROVE  \E p \in 1..Len(d.stream) :
           /\ s = d.stream[p] /\ g <= p
           /\ \A k \in (g + 1)..p : ~OpensAbove(d.stream[k], a[2])
<1> DEFINE z == EntryTable(a, e)
           D == 1..Len(d.stream)
<1>0. /\ DOMAIN d.stream = D /\ DOMAIN d.filed = Range(d.stream)
      /\ \A j \in D : d.stream[j] \in Slots
  BY FiledFacts
<1>1. e # NoEntry /\ z[1] = e /\ z[2] = a[2] /\ z # Root
  <2>1. e # NoEntry
    BY EntryArray
  <2> QED BY <2>1 DEF EntryTable, Root
<1>2. FiledInForce(d) /\ EntriesApart(d)
  BY DEF Reading
<1> HIDE DEF z
<1>3. \A q \in Positions(d, RefSet(d, z)) : q \in D /\ z \in FiledAt(d, q)
  BY <1>0 DEF Positions, RefSet, FiledAt
<1>4. PICK p \in D, q \in D : /\ s = d.stream[p] /\ q <= p /\ z \in FiledAt(d, q)
                              /\ \A k \in (q + 1)..p : IsKV(d.stream[k])
  <2>1. PICK p : /\ s = d.stream[p]
                 /\ \/ p \in Positions(d, RefSet(d, z))
                    \/ \E h \in Positions(d, RefSet(d, z)) : p \in BodyRun(d, h)
    BY <1>1 DEF OwnedByContainer, z
  <2>2. CASE p \in Positions(d, RefSet(d, z))
    <3>1. p \in D /\ z \in FiledAt(d, p) /\ p <= p /\ \A k \in (p + 1)..p : IsKV(d.stream[k])
      BY <1>3, <2>2
    <3> QED BY <2>1, <3>1
  <2>3. CASE p \notin Positions(d, RefSet(d, z))
    <3>1. PICK h \in Positions(d, RefSet(d, z)) : p \in BodyRun(d, h)
      BY <2>1, <2>3
    <3>2. h \in D /\ z \in FiledAt(d, h)
      BY <1>3
    <3>3. p \in D /\ h <= p /\ \A k \in (h + 1)..p : IsKV(d.stream[k])
      BY <1>0, <3>1, <3>2 DEF BodyRun, KVAt
    <3> QED BY <2>1, <3>2, <3>3
  <2> QED BY <2>2, <2>3
<1>5. PICK h \in 1..q : Rules(d, h, q, e, a[2])
  BY <1>1, <1>2, <1>4 DEF FiledInForce
<1>6. h = g
  <2>1. h \in 1..Len(d.stream) /\ Opens(d.stream[h], e)
    BY <1>5 DEF Rules
  <2> QED BY <1>2, <2>1 DEF EntriesApart
<1>7. \A k \in (g + 1)..p : ~OpensAbove(d.stream[k], a[2])
  <2> SUFFICES ASSUME NEW k \in (g + 1)..p PROVE ~OpensAbove(d.stream[k], a[2])
    OBVIOUS
  <2>1. CASE k <= q
    BY <1>5, <1>6, <2>1 DEF Rules
  <2>2. CASE ~(k <= q)
    <3>1. k \in (q + 1)..p /\ k \in D
      BY <1>4, <2>2
    <3>2. IsKV(d.stream[k])
      BY <1>4, <3>1
    <3> QED BY <3>2 DEF OpensAbove, IsEntryHeader, IsHeader, IsKV
  <2> QED BY <2>1, <2>2
<1> QED BY <1>4, <1>5, <1>6, <1>7

(* Entries do not repeat, and their slots come entry after entry.          *)
LEMMA EntriesInLine ==
  ASSUME NEW v, NEW d, Reading(v, d), NEW a \in DOMAIN d.aot
  PROVE  /\ d.aot[a] \in Seq(Nat) /\ Spread(d.aot[a]) /\ EntriesOf(d, a) = d.aot[a]
         /\ \A i, j \in 1..Len(d.aot[a]) : i < j =>
              \A s \in OwnedByContainer(d, EntryTable(a, d.aot[a][i])),
                 t \in OwnedByContainer(d, EntryTable(a, d.aot[a][j])) : Keys(d.stream)[s] < Keys(d.stream)[t]
<1> DEFINE q == d.aot[a]
<1>1. q \in Seq(Nat) /\ EntriesOf(d, a) = q /\ ArraysHomed(d) /\ EntriesInTurn(d) /\ EntriesApart(d)
  BY DEF Reading, Agree, EntriesOf
<1>2. \A i \in 1..Len(q) : q[i] \in Range(EntriesOf(d, a))
        /\ \E g \in 1..Len(d.stream) : Opens(d.stream[g], q[i]) /\ d.stream[g].path = a[2]
  <2>1. \A j \in 1..Len(d.aot[a]) : \E g \in 1..Len(d.stream) :
            Opens(d.stream[g], d.aot[a][j]) /\ d.stream[g].path = a[2]
    BY <1>1 DEF ArraysHomed
  <2>2. DOMAIN q = 1..Len(q)
    BY <1>1
  <2>3. \A i \in 1..Len(q) : q[i] \in Range(q)
    BY <2>2 DEF Range
  <2> QED BY <1>1, <2>1, <2>3
<1>3. \A i, j \in 1..Len(q) : \A g, h \in 1..Len(d.stream) :
        i < j /\ Opens(d.stream[g], q[i]) /\ Opens(d.stream[h], q[j]) => g < h
  BY <1>1 DEF EntriesInTurn
<1> HIDE DEF q
<1>4. Spread(q)
  <2> SUFFICES ASSUME NEW i \in 1..Len(q), NEW j \in 1..Len(q), i < j, q[i] = q[j] PROVE FALSE
    BY DEF Spread
  <2>1. PICK g \in 1..Len(d.stream) : Opens(d.stream[g], q[i])
    BY <1>2
  <2>2. g < g
    BY <1>3, <2>1
  <2> QED BY <2>2
<1>5. ASSUME NEW i \in 1..Len(q), NEW j \in 1..Len(q), i < j,
             NEW s \in OwnedByContainer(d, EntryTable(a, q[i])),
             NEW t \in OwnedByContainer(d, EntryTable(a, q[j]))
      PROVE  Keys(d.stream)[s] < Keys(d.stream)[t]
  <2>1. PICK g \in 1..Len(d.stream) : Opens(d.stream[g], q[i]) /\ d.stream[g].path = a[2]
    BY <1>2
  <2>2. PICK h \in 1..Len(d.stream) : Opens(d.stream[h], q[j]) /\ d.stream[h].path = a[2]
    BY <1>2
  <2>3. g < h
    BY <1>3, <1>5, <2>1, <2>2
  <2>4. PICK x \in 1..Len(d.stream) : s = d.stream[x] /\ g <= x
                                       /\ \A k \in (g + 1)..x : ~OpensAbove(d.stream[k], a[2])
    <3>1. q[i] \in Range(EntriesOf(d, a))
      BY <1>2
    <3> QED BY <2>1, <3>1, EntryStretch
  <2>5. PICK y \in 1..Len(d.stream) : t = d.stream[y] /\ h <= y
    <3>1. q[j] \in Range(EntriesOf(d, a))
      BY <1>2
    <3> QED BY <2>2, <3>1, EntryStretch
  <2>6. OpensAbove(d.stream[h], a[2])
    BY <2>2 DEF OpensAbove, Opens
  <2>7. x < h
    BY <2>3, <2>4, <2>6
  <2>8. x < y
    BY <2>5, <2>7
  <2>9. /\ d.stream \in Seq(Slots) /\ Spread(d.stream)
    BY FiledFacts
  <2>10. Keys(d.stream)[d.stream[x]] = x /\ Keys(d.stream)[d.stream[y]] = y
    BY <2>9, KeysMeaning
  <2> QED BY <2>4, <2>5, <2>8, <2>10
<1> QED BY <1>1, <1>4, <1>5 DEF q

(* A slot that belongs to an entry is one of the document's.               *)
LEMMA OwnedListed ==
  ASSUME NEW v, NEW d, Reading(v, d), NEW z, z # Root, z[2] \in Seq(Key)
  PROVE  OwnedByContainer(d, z) \subseteq Range(d.stream)
<1> SUFFICES ASSUME NEW s \in OwnedByContainer(d, z) PROVE s \in Range(d.stream)
  OBVIOUS
<1>1. \E i \in 1..Len(d.stream) : s = d.stream[i]
  BY OwnedBelow
<1> QED BY <1>1, FiledFacts

(* _orphan_aot_entries keeps the projections exact.                        *)
LEMMA OrphanFiling == FilingInv /\ OrphanEntries => FilingInv'
<1> SUFFICES ASSUME FilingInv, OrphanEntries PROVE FilingInv'
  OBVIOUS
<1> DEFINE q == doc.stream
           ord == Keys(q)
<1>1. /\ UpToDate(caches, q) /\ Tidy(doc)
      /\ \A t \in Range(q) : caches.backs[t] = doc.filed[t]
  BY InvCurrent
<1>2. PICK w : Reading(w, doc)
  BY InvCurrent
<1>3. PICK a \in DOMAIN doc.aot : \E I \in (SUBSET DOMAIN doc.aot[a]) \ {{}} :
    LET gone  == Keeping(doc.aot[a], {doc.aot[a][i] : i \in I})
        slots == FlattenSeq([i \in DOMAIN gone |-> EntrySlots(doc, a, gone[i])])
        skip  == UNION {EntryViews(doc, a, e) : e \in Range(gone)}
    IN  Becomes(Dropping(q, Range(slots)), Without(Scrub(caches, ord, slots, skip), skip, slots))
  BY DEF OrphanEntries
<1> DEFINE ents == doc.aot[a]
<1>4. PICK I \in (SUBSET DOMAIN ents) \ {{}} :
    LET gone  == Keeping(ents, {ents[i] : i \in I})
        slots == FlattenSeq([i \in DOMAIN gone |-> EntrySlots(doc, a, gone[i])])
        skip  == UNION {EntryViews(doc, a, e) : e \in Range(gone)}
    IN  Becomes(Dropping(q, Range(slots)), Without(Scrub(caches, ord, slots, skip), skip, slots))
  BY <1>3
<1> DEFINE gone == Keeping(ents, {ents[i] : i \in I})
           slots == FlattenSeq([i \in DOMAIN gone |-> EntrySlots(doc, a, gone[i])])
           skip  == UNION {EntryViews(doc, a, e) : e \in Range(gone)}
           R     == Range(slots)
           At_(e) == EntryTable(a, e)
           S     == [i \in 1..Len(gone) |-> OwnedByContainer(doc, At_(gone[i]))]
<1>5. Becomes(Dropping(q, R), Without(Scrub(caches, ord, slots, skip), skip, slots))
  BY <1>4
<1>6. /\ ents \in Seq(Nat) /\ Spread(ents) /\ EntriesOf(doc, a) = ents
      /\ \A i, j \in 1..Len(ents) : i < j =>
           \A s \in OwnedByContainer(doc, At_(ents[i])), t \in OwnedByContainer(doc, At_(ents[j])) :
             Keys(doc.stream)[s] < Keys(doc.stream)[t]
  BY <1>2, EntriesInLine
<1> HIDE DEF ents, R, skip, slots, q
<1>7. Orders(gone, Keys(ents), Range(ents) \cap {ents[i] : i \in I})
  <2>1. Orders(ents, Keys(ents), Range(ents))
    BY <1>6, KeysMeaning
  <2> QED BY <2>1, KeepingOrders
<1>8. I # {} /\ I \subseteq 1..Len(ents)
  BY <1>4, <1>6
<1> HIDE DEF gone
<1>9. /\ gone \in Seq(Nat) /\ Len(gone) \in Nat /\ Len(gone) # 0 /\ DOMAIN gone = 1..Len(gone)
      /\ \A i \in 1..Len(gone) : gone[i] \in Range(ents)
      /\ Range(gone) = {gone[i] : i \in 1..Len(gone)}
  <2>1. gone \in Seq(Range(ents) \cap {ents[i] : i \in I})
    BY <1>7 DEF Orders
  <2>2. gone \in Seq(Range(ents)) /\ Range(ents) \subseteq Nat
    BY <1>6, <2>1 DEF Range
  <2>3. PICK at \in I : TRUE
    BY <1>8
  <2>4. ents[at] \in Range(ents) \cap {ents[j] : j \in I}
    BY <1>6, <1>8 DEF Range
  <2>5. Len(gone) # 0
    BY <1>7, <2>1, <2>4 DEF Orders
  <2>6. gone \in Seq(Nat) /\ Len(gone) \in Nat /\ DOMAIN gone = 1..Len(gone)
        /\ \A i \in 1..Len(gone) : gone[i] \in Range(ents)
    BY <2>2
  <2>7. Range(gone) = {gone[i] : i \in 1..Len(gone)}
    BY <2>6 DEF Range
  <2> QED BY <2>5, <2>6, <2>7
<1>10. \A i, j \in 1..Len(gone) : i < j =>
         \A s \in S[i], t \in S[j] : ord[s] < ord[t]
  <2> SUFFICES ASSUME NEW i \in 1..Len(gone), NEW j \in 1..Len(gone), i < j,
                      NEW s \in S[i], NEW t \in S[j]
               PROVE  ord[s] < ord[t]
    OBVIOUS
  <2>1. Keys(ents)[gone[i]] < Keys(ents)[gone[j]]
    BY <1>7 DEF Orders
  <2> DEFINE x == Keys(ents)[gone[i]]
             y == Keys(ents)[gone[j]]
  <2>2. x \in 1..Len(ents) /\ ents[x] = gone[i] /\ y \in 1..Len(ents) /\ ents[y] = gone[j]
    BY <1>6, <1>9, KeysMeaning
  <2>3. s \in OwnedByContainer(doc, At_(ents[x])) /\ t \in OwnedByContainer(doc, At_(ents[y]))
    BY <2>2
  <2> HIDE DEF x, y, At_
  <2>4. x < y
    BY <2>1 DEF x, y
  <2> QED BY <1>6, <2>2, <2>3, <2>4 DEF q
<1>11. \A i \in 1..Len(gone) : /\ gone[i] \in Range(EntriesOf(doc, a))
                               /\ At_(gone[i]) # Root /\ At_(gone[i])[2] = a[2] /\ a[2] \in Seq(Key)
  <2> SUFFICES ASSUME NEW i \in 1..Len(gone)
               PROVE  /\ gone[i] \in Range(EntriesOf(doc, a))
                      /\ At_(gone[i]) # Root /\ At_(gone[i])[2] = a[2] /\ a[2] \in Seq(Key)
    OBVIOUS
  <2>1. gone[i] \in Range(EntriesOf(doc, a))
    BY <1>6, <1>9
  <2>2. gone[i] # NoEntry /\ a \in Nat \X Path
    BY <1>2, <2>1, EntryArray
  <2> QED BY <2>1, <2>2 DEF EntryTable, Root, Path
<1>12. \A i \in 1..Len(gone) : S[i] \subseteq Range(q)
  <2> SUFFICES ASSUME NEW i \in 1..Len(gone) PROVE S[i] \subseteq Range(q)
    OBVIOUS
  <2> DEFINE z == At_(gone[i])
  <2>1. z # Root /\ z[2] \in Seq(Key)
    BY <1>11
  <2> HIDE DEF z, At_
  <2>2. OwnedByContainer(doc, z) \subseteq Range(doc.stream)
    BY <1>2, <2>1, OwnedListed
  <2> QED BY <2>2 DEF z, q
<1> DEFINE parts == [i \in DOMAIN gone |-> EntrySlots(doc, a, gone[i])]
           All == UNION {S[i] : i \in 1..Len(gone)}
<1>13. Orders(slots, ord, All)
  <2>1. /\ DOMAIN parts = 1..Len(gone) /\ Len(parts) = Len(gone)
    BY <1>9
  <2>2. ASSUME NEW i \in 1..Len(gone) PROVE Orders(parts[i], ord, S[i])
    <3>1. parts[i] = InOrder(doc, S[i])
      BY <1>9 DEF EntrySlots
    <3>2. S[i] \subseteq Range(doc.stream)
      BY <1>12 DEF q
    <3> HIDE DEF S, parts
    <3>3. Orders(InOrder(doc, S[i]), Keys(doc.stream), S[i])
      BY <1>2, <3>2, InOrderOrders
    <3> QED BY <3>1, <3>3 DEF q
  <2> HIDE DEF S, parts, ord
  <2>3. /\ Len(parts) \in Nat /\ Len(parts) # 0
        /\ \A i \in 1..Len(parts) : Orders(parts[i], ord, S[i])
        /\ \A i, j \in 1..Len(parts) : i < j => \A s \in S[i], t \in S[j] : ord[s] < ord[t]
    BY <1>9, <1>10, <2>1, <2>2
  <2>4. Orders(FlattenSeq(parts), ord, UNION {S[i] : i \in 1..Len(parts)})
    BY <2>3, FlattenOrders
  <2> QED BY <2>1, <2>4 DEF slots, parts
<1>14. R = All
  <2>1. slots \in Seq(All) /\ \A s \in All : \E i \in 1..Len(slots) : slots[i] = s
    BY <1>13 DEF Orders
  <2> HIDE DEF All
  <2> QED BY <2>1 DEF R, Range
<1>15. /\ \A s \in R : \E i \in 1..Len(gone) : s \in OwnedByContainer(doc, At_(gone[i]))
       /\ \A i \in 1..Len(gone) : OwnedByContainer(doc, At_(gone[i])) \subseteq R
  BY <1>14
<1>16. skip = UNION {Beneath(doc, At_(gone[i])) : i \in 1..Len(gone)}
  <2>1. \A e : EntryViews(doc, a, e) = Beneath(doc, At_(e))
    BY DEF EntryViews, Beneath
  <2> QED BY <1>9, <2>1 DEF skip
<1> HIDE DEF S, All, parts, ord
<1>17. MayLeave(caches, q, slots, R, skip)
  <2>1. R \subseteq Range(q)
    BY <1>12, <1>14 DEF All
  <2>2. Orders(slots, Keys(q), R)
    BY <1>13, <1>14 DEF ord
  <2>3. Separable(caches, slots, R, skip)
    <3> SUFFICES ASSUME NEW c \in (UNION {caches.backs[s] : s \in R}) \ skip
                 PROVE  \E k : k # OwnKey /\ \A s \in R : c \in caches.backs[s] => LocalKey(s, c) = k
      BY DEF Separable
    <3> DEFINE k == a[2][Len(c[2]) + 1]
    <3>1. ASSUME NEW s \in R, c \in caches.backs[s] PROVE LocalKey(s, c) = k /\ LocalKey(s, c) # OwnKey
      <4>1. PICK i \in 1..Len(gone) : s \in OwnedByContainer(doc, At_(gone[i]))
        BY <1>15
      <4> DEFINE z == At_(gone[i])
      <4>2. z # Root /\ z[2] \in Seq(Key) /\ z[2] = a[2]
        BY <1>11
      <4>3. c \in doc.filed[s]
        BY <1>1, <2>1, <3>1
      <4>4. c \notin Beneath(doc, z)
        BY <1>16
      <4> HIDE DEF z, k, At_
      <4>5. s \in OwnedByContainer(doc, z)
        BY <4>1 DEF z
      <4>6. LocalKey(s, c) = z[2][Len(c[2]) + 1] /\ LocalKey(s, c) # OwnKey
        BY <1>2, <4>2, <4>3, <4>4, <4>5, LeavesFrom
      <4> QED BY <4>2, <4>6 DEF k
    <3>2. PICK s \in R : c \in caches.backs[s]
      OBVIOUS
    <3>3. k # OwnKey
      BY <3>1, <3>2
    <3> HIDE DEF k
    <3> QED BY <3>1, <3>3
  <2>4. Root \notin skip
    <3> SUFFICES ASSUME NEW i \in 1..Len(gone) PROVE Root \notin Beneath(doc, At_(gone[i]))
      BY <1>16
    <3> DEFINE z == At_(gone[i])
    <3>1. z # Root
      BY <1>11
    <3> HIDE DEF z, At_
    <3>2. Root \notin Beneath(doc, z)
      BY <3>1, RootAbove
    <3> QED BY <3>2 DEF z
  <2>5. ASSUME NEW t \in Range(q) \ R, NEW x \in caches.backs[t], x \in skip PROVE FALSE
    <3>1. PICK i \in 1..Len(gone) : x \in Beneath(doc, At_(gone[i]))
      BY <1>16, <2>5
    <3> DEFINE z == At_(gone[i])
    <3>2. z # Root /\ z[2] \in Seq(Key)
      BY <1>11
    <3>3. OwnedByContainer(doc, z) \subseteq R /\ z \in Lineage(doc, x)
      BY <1>15, <3>1 DEF Beneath
    <3> HIDE DEF z, At_
    <3>4. PICK j \in 1..Len(doc.stream) : t = doc.stream[j]
      BY <1>2, FiledFacts DEF q
    <3>5. x \in FiledAt(doc, j)
      BY <1>1, <2>5, <3>4 DEF FiledAt
    <3>6. doc.stream[j] \in OwnedByContainer(doc, z)
      BY <1>2, <3>2, <3>3, <3>5, BelowOwned
    <3> QED BY <3>3, <3>4, <3>6
  <2> QED BY <2>1, <2>2, <2>3, <2>4, <2>5 DEF MayLeave
<1>18. Apart(Range(q))
  BY <1>1, SlotsApart DEF q
<1>19. /\ \A t \in Range(q) \ R : t \in Range(doc.stream) => caches.backs[t] = doc.filed[t]
       /\ \A t \in Range(q) \ R : t \notin Range(doc.stream) =>
                                     caches.backs[t] = Reparsed(Dropping(q, R)).d.filed[t]
  BY <1>1 DEF q
<1>20. Becomes(Dropping(q, R), Without(Scrub(caches, Keys(q), slots, skip), skip, slots))
  BY <1>5 DEF ord
<1> QED BY <1>1, <1>17, <1>18, <1>19, <1>20, LeavingFiling

-----------------------------------------------------------------------------
(* What goes with a binding.                                               *)

(* The tables bound at a key: one, an array's, or none. *)
TablesOf(d, c, k) ==
  CASE KindOf(d, c, k) = "section" -> {Child(c, k)}
    [] KindOf(d, c, k) = "aot"     -> {EntryTable(Child(c, k), e) : e \in Range(EntriesOf(d, Child(c, k)))}
    [] OTHER -> {}

LEMMA BoundAt ==
  ASSUME NEW v, NEW d, Reading(v, d), NEW c, NEW k, KindOf(d, c, k) # "none"
  PROVE  /\ k \in Key /\ c[2] \in Seq(Key) /\ c = <<c[1], c[2]>> /\ c[1] \in Nat
         /\ \E i \in 1..Len(d.stream) : c \in FiledAt(d, i) /\ Names(d.stream[i], c, k)
<1>1. PICK i \in 1..Len(d.stream) : c \in FiledAt(d, i) /\ Names(d.stream[i], c, k)
  BY DEF Reading, Held
<1>2. c \in Nat \X Seq(Key) /\ c = <<c[1], c[2]>>
  BY <1>1, FiledLevels
<1>3. k \in Key
  BY BoundKey DEF Reading, Agree
<1> QED BY <1>1, <1>2, <1>3

LEMMA TablesBelow ==
  ASSUME NEW v, NEW d, Reading(v, d), NEW c, NEW k, KindOf(d, c, k) # "none"
  PROVE  /\ \A z \in TablesOf(d, c, k) : /\ Above(d, c, z) /\ z[2] = Append(c[2], k)
                                         /\ z = <<z[1], z[2]>> /\ z # Root /\ z[2] \in Path
         /\ \A z : Above(d, c, z) /\ z[2] = Append(c[2], k) /\ z = <<z[1], z[2]>>
                     => z \in TablesOf(d, c, k)
<1> DEFINE t == Append(c[2], k)
           a == Child(c, k)
<1>1. k \in Key /\ c[2] \in Seq(Key) /\ c = <<c[1], c[2]>> /\ c[1] \in Nat
  BY BoundAt
<1>2. Front(t) = c[2] /\ Last(t) = k /\ t \in Path /\ t # <<>>
  BY <1>1, FrontOf
<1>3. a = <<c[1], t>> /\ a[1] = c[1] /\ a[2] = t
  BY DEF Child
<1> HIDE DEF t, a
<1>4. \A z : z[2] = t => (Above(d, c, z) <=>
               \/ KindOf(d, c, k) = "section" /\ c[1] = z[1]
               \/ KindOf(d, c, k) = "aot" /\ z[1] \in Range(EntriesOf(d, a)))
  BY <1>2, <1>3 DEF Above
<1>5. ASSUME NEW z \in TablesOf(d, c, k)
      PROVE  /\ Above(d, c, z) /\ z[2] = t /\ z = <<z[1], z[2]>> /\ z # Root /\ z[2] \in Path
  <2>1. CASE KindOf(d, c, k) = "section"
    <3>1. z = a
      BY <2>1 DEF TablesOf, a
    <3> QED BY <1>2, <1>3, <1>4, <2>1, <3>1 DEF Root
  <2>2. CASE KindOf(d, c, k) = "aot"
    <3>1. PICK e \in Range(EntriesOf(d, a)) : z = EntryTable(a, e)
      BY <2>2 DEF TablesOf, a
    <3>2. z = <<e, t>> /\ z[1] = e /\ z[2] = t
      BY <1>3, <3>1 DEF EntryTable
    <3> QED BY <1>2, <1>4, <2>2, <3>2 DEF Root
  <2> QED BY <2>1, <2>2 DEF TablesOf
<1>6. ASSUME NEW z, Above(d, c, z), z[2] = t, z = <<z[1], z[2]>> PROVE z \in TablesOf(d, c, k)
  <2>1. CASE KindOf(d, c, k) = "section"
    <3>1. z = a
      BY <1>3, <1>4, <1>6, <2>1
    <3> QED BY <2>1, <3>1 DEF TablesOf, a
  <2>2. CASE KindOf(d, c, k) # "section"
    <3>1. KindOf(d, c, k) = "aot" /\ z[1] \in Range(EntriesOf(d, a))
      BY <1>4, <1>6, <2>2
    <3>2. z = EntryTable(a, z[1])
      BY <1>3, <1>6 DEF EntryTable
    <3> QED BY <3>1, <3>2 DEF TablesOf, a
  <2> QED BY <2>1, <2>2
<1> QED BY <1>5, <1>6 DEF t

LEMMA DepartingTables ==
  ASSUME NEW d, NEW c, NEW k
  PROVE  /\ Departing(d, c, k) = IndexSet(d, c, k) \cup UNION {OwnedByContainer(d, z) : z \in TablesOf(d, c, k)}
         /\ BelowKey(d, c, k) = UNION {Beneath(d, z) : z \in TablesOf(d, c, k)}
<1>1. CASE KindOf(d, c, k) = "section"
  <2>1. TablesOf(d, c, k) = {Child(c, k)}
    BY <1>1 DEF TablesOf
  <2>2. Departing(d, c, k) = IndexSet(d, c, k) \cup OwnedByContainer(d, Child(c, k))
    BY <1>1 DEF Departing
  <2>3. BelowKey(d, c, k) = Beneath(d, Child(c, k))
    BY <1>1 DEF BelowKey, Beneath
  <2> QED BY <2>1, <2>2, <2>3
<1>2. CASE KindOf(d, c, k) = "aot"
  <2> DEFINE a == Child(c, k)
             E == Range(EntriesOf(d, a))
  <2>1. TablesOf(d, c, k) = {EntryTable(a, e) : e \in E}
    BY <1>2 DEF TablesOf
  <2>2. Departing(d, c, k) = IndexSet(d, c, k) \cup UNION {OwnedByContainer(d, EntryTable(a, e)) : e \in E}
    BY <1>2 DEF Departing, OwnedByArray
  <2>3. BelowKey(d, c, k) = {x \in DOMAIN d.tree : \E e \in E : EntryTable(a, e) \in Lineage(d, x)}
    BY <1>2 DEF BelowKey
  <2> HIDE DEF a, E
  <2>4. BelowKey(d, c, k) = UNION {Beneath(d, z) : z \in TablesOf(d, c, k)}
    <3>1. \A x : x \in BelowKey(d, c, k) <=> \E z \in TablesOf(d, c, k) : x \in Beneath(d, z)
      BY <2>1, <2>3 DEF Beneath
    <3> QED BY <3>1
  <2>5. UNION {OwnedByContainer(d, EntryTable(a, e)) : e \in E} = UNION {OwnedByContainer(d, z) : z \in TablesOf(d, c, k)}
    BY <2>1
  <2> QED BY <2>2, <2>4, <2>5
<1>3. CASE KindOf(d, c, k) # "section" /\ KindOf(d, c, k) # "aot"
  <2>1. TablesOf(d, c, k) = {} /\ BelowKey(d, c, k) = {}
    BY <1>3 DEF TablesOf, BelowKey
  <2>2. Departing(d, c, k) = IndexSet(d, c, k)
    BY <1>3 DEF Departing
  <2> QED BY <2>1, <2>2
<1> QED BY <1>1, <1>2, <1>3

(* A departing slot's containers are below the binding, or on the way to   *)
(* it, where the slot binds the next key.                                  *)
OnTheWay(s, c, k, x) ==
  /\ x[2] \in Seq(Key) /\ Len(x[2]) <= Len(c[2])
  /\ Len(x[2]) = Len(c[2]) => x = c /\ LocalKey(s, x) = k
  /\ Len(x[2]) < Len(c[2]) => LocalKey(s, x) = c[2][Len(x[2]) + 1]
  /\ LocalKey(s, x) # OwnKey

LEMMA IndexedWay ==
  ASSUME NEW v, NEW d, Reading(v, d), NEW c, NEW k, KindOf(d, c, k) # "none",
         NEW s \in IndexSet(d, c, k), NEW x \in d.filed[s], x \notin BelowKey(d, c, k)
  PROVE  OnTheWay(s, c, k, x)
<1>1. PICK i \in 1..Len(d.stream) : s = d.stream[i] /\ c \in FiledAt(d, i)
  BY RefFacts DEF IndexSet
<1>2. x \in FiledAt(d, i) /\ (IsHeader(s) => s.path # c[2]) /\ LocalKey(s, c) = k
  BY <1>1 DEF FiledAt, IndexSet
<1>3. LocalKey(s, c) # OwnKey
  BY <1>1, <1>2, LocalKeys
<1> DEFINE f == FullPath(d.stream[i])
           m == Len(c[2])
           n == Len(x[2])
           lo == Lowest(d.stream[i])
           hi == Highest(d.stream[i])
<1>4. d.stream[i] \in Slots
  BY FiledFacts
<1>5. /\ f \in Seq(Key) /\ Len(f) \in Nat /\ lo \in Nat /\ hi \in Nat /\ lo <= Len(f)
      /\ m \in hi..lo /\ n \in hi..lo /\ c[2] = Prefix(f, m) /\ x[2] = Prefix(f, n)
      /\ n = m => x = c
  BY <1>1, <1>2, <1>4, FiledLevels, LevelsOf
<1>6. m < Len(f) /\ k = f[m + 1] /\ k \in Key
  BY <1>1, <1>2, <1>3, LocalKeys
<1> HIDE DEF f, m, n, lo, hi
<1>7. n <= m
  <2> SUFFICES ASSUME ~(n <= m) PROVE FALSE
    OBVIOUS
  <2>1. m + 1 \in hi..lo /\ m + 1 <= n /\ m + 1 \in 1..Len(f) /\ (m + 1) - 1 = m
    BY <1>5
  <2>2. PICK z \in FiledAt(d, i) : Len(z[2]) = m + 1
    BY <2>1, FiledLevels DEF hi, lo
  <2>3. z = <<z[1], z[2]>> /\ z[2] = Prefix(f, m + 1)
    BY <2>2, FiledLevels DEF f
  <2>4. z[2] = Append(c[2], k)
    <3> DEFINE j == m + 1
    <3>1. f \in Seq(Key) /\ j \in 1..Len(f) /\ j - 1 = m
      BY <1>5, <2>1
    <3> HIDE DEF j
    <3>2. Prefix(f, j) = Append(Prefix(f, j - 1), f[j])
      BY <3>1, PrefixStep
    <3>3. z[2] = Prefix(f, j) /\ c[2] = Prefix(f, j - 1) /\ k = f[j]
      BY <1>5, <1>6, <2>3, <3>1 DEF j
    <3> QED BY <3>2, <3>3
  <2>5. Len(z[2]) > hi
    BY <1>5, <2>2
  <2>6. PICK y \in FiledAt(d, i) : Above(d, y, z)
    BY <2>2, <2>5 DEF Reading, Chained, hi
  <2>7. y = c
    <3>1. c[2] \in Seq(Key)
      BY <1>1, FiledLevels
    <3>2. y[2] = c[2]
      BY <1>6, <2>4, <2>6, <3>1, FrontOf DEF Above
    <3> QED BY <1>1, <2>6, <3>2, FiledLevels
  <2>8. z \in TablesOf(d, c, k)
    BY <2>3, <2>4, <2>6, <2>7, TablesBelow
  <2>9. z \in Lineage(d, x)
    <3>1. Len(z[2]) <= Len(x[2])
      BY <2>1, <2>2 DEF n
    <3> QED BY <1>2, <2>2, <3>1, LineageFiled
  <2>10. x \in DOMAIN d.tree
    BY <1>1, <1>2, FiledFacts DEF Reading, FiledAt
  <2>11. x \in Beneath(d, z)
    BY <2>9, <2>10 DEF Beneath
  <2> QED BY <2>8, <2>11, DepartingTables
<1>8. LocalKey(s, x) # OwnKey
  <2> SUFFICES ASSUME LocalKey(s, x) = OwnKey PROVE FALSE
    OBVIOUS
  <2>1. IsHeader(s) /\ ~IsKV(s) /\ s.path = x[2]
    BY <1>1, <1>2, LocalKeys
  <2>2. f = x[2]
    BY <1>1, <2>1 DEF FullPath, f
  <2>3. Len(f) = n
    BY <2>2 DEF n
  <2> QED BY <1>5, <1>6, <1>7, <2>3
<1>9. LocalKey(s, x) = f[n + 1]
  BY <1>1, <1>2, <1>8, LocalKeys DEF f, n
<1>10. n < m => LocalKey(s, x) = c[2][n + 1]
  <2> SUFFICES ASSUME n < m PROVE f[n + 1] = c[2][n + 1]
    BY <1>9
  <2>1. m \in 0..Len(f) /\ n + 1 \in 1..m
    BY <1>5
  <2> QED BY <1>5, <2>1, PrefixType
<1>11. x[2] \in Seq(Key)
  BY <1>2, LineageFiled
<1> QED BY <1>2, <1>5, <1>7, <1>8, <1>10, <1>11 DEF OnTheWay, n, m

LEMMA OwnedWay ==
  ASSUME NEW v, NEW d, Reading(v, d), NEW c, NEW k, KindOf(d, c, k) # "none",
         NEW z \in TablesOf(d, c, k), NEW s \in OwnedByContainer(d, z),
         NEW x \in d.filed[s], x \notin BelowKey(d, c, k)
  PROVE  OnTheWay(s, c, k, x)
<1>1. /\ Above(d, c, z) /\ z[2] = Append(c[2], k) /\ z = <<z[1], z[2]>> /\ z # Root /\ z[2] \in Path
  BY TablesBelow
<1>2. k \in Key /\ c[2] \in Seq(Key)
  BY BoundAt
<1>3. z[2] \in Seq(Key) /\ x \notin Beneath(d, z)
  BY <1>1, DepartingTables DEF Path
<1> DEFINE m == Len(c[2])
           n == Len(x[2])
<1>4. Len(x[2]) < Len(z[2]) /\ x[2] \in Seq(Key) /\ LocalKey(s, x) = z[2][Len(x[2]) + 1] /\ LocalKey(s, x) # OwnKey
  <2>1. z # Root /\ z[2] \in Seq(Key) /\ x \notin Beneath(d, z)
    BY <1>1, <1>3
  <2> HIDE DEF m, n
  <2>2. /\ Len(x[2]) < Len(z[2]) /\ x[2] \in Seq(Key)
        /\ LocalKey(s, x) = z[2][Len(x[2]) + 1] /\ LocalKey(s, x) # OwnKey
    BY <2>1, LeavesFrom
  <2> QED BY <2>2
<1>5. /\ Len(z[2]) = m + 1 /\ m \in Nat /\ z[2][m + 1] = k
      /\ \A i \in 1..m : z[2][i] = c[2][i]
  <2> DEFINE t == Append(c[2], k)
  <2>1. /\ Len(t) = Len(c[2]) + 1 /\ Len(c[2]) \in Nat /\ t[Len(c[2]) + 1] = k
        /\ \A i \in 1..Len(c[2]) : t[i] = c[2][i]
    BY <1>2
  <2> QED BY <1>1, <2>1
<1>6. n \in Nat /\ n < m + 1
  BY <1>4, <1>5
<1>7. n = m => x = c
  <2> SUFFICES ASSUME n = m PROVE x = c
    OBVIOUS
  <2>1. PICK i \in 1..Len(d.stream) :
           /\ s = d.stream[i]
           /\ \A y \in FiledAt(d, i) : Len(y[2]) < Len(z[2]) => z \in FiledAt(d, i)
    <3>1. \E i \in 1..Len(d.stream) :
           /\ s = d.stream[i]
           /\ \A y \in FiledAt(d, i) : /\ y \in Beneath(d, z) <=> Len(z[2]) <= Len(y[2])
                                       /\ Len(y[2]) < Len(z[2]) => z \in FiledAt(d, i)
      BY <1>1, <1>3, OwnedBelow
    <3> QED BY <3>1
  <2>2. x \in FiledAt(d, i)
    BY <2>1 DEF FiledAt
  <2>3. z \in FiledAt(d, i)
    BY <1>4, <2>1, <2>2
  <2>4. Len(z[2]) > Highest(d.stream[i])
    <3>1. n \in Highest(d.stream[i])..Lowest(d.stream[i]) /\ Highest(d.stream[i]) \in Nat
      BY <2>2, FiledLevels, FiledFacts, LevelsOf
    <3> QED BY <1>5, <1>6, <3>1
  <2>5. PICK y \in FiledAt(d, i) : Above(d, y, z)
    BY <2>3, <2>4 DEF Reading, Chained
  <2>6. Parent(d, z) = y /\ Parent(d, z) = c
    <3>1. Above(d, y, z) /\ Above(d, c, z) /\ z = <<z[1], z[2]>> /\ z[2] \in Path
      BY <1>1, <2>5
    <3>2. Parent(d, z) = y
      BY <3>1, ParentIs
    <3>3. Parent(d, z) = c
      BY <3>1, ParentIs
    <3> QED BY <3>2, <3>3
  <2>7. Len(y[2]) = Len(x[2])
    BY <2>6
  <2>8. y = x
    BY <2>2, <2>5, <2>7, FiledLevels
  <2> QED BY <2>6, <2>8
<1> HIDE DEF m, n
<1>8. n <= m
  BY <1>5, <1>6
<1>9. n = m => LocalKey(s, x) = k
  BY <1>4, <1>5 DEF n
<1>10. n < m => LocalKey(s, x) = c[2][n + 1]
  <2> SUFFICES ASSUME n < m PROVE z[2][n + 1] = c[2][n + 1]
    BY <1>4 DEF n
  <2>1. n + 1 \in 1..m
    BY <1>5, <1>6
  <2> QED BY <1>5, <2>1
<1> QED BY <1>4, <1>7, <1>8, <1>9, <1>10 DEF OnTheWay, n, m

(* The slots of a binding, and what they are filed on.                     *)
LEMMA DepartingFacts ==
  ASSUME NEW v, NEW d, Reading(v, d), NEW c, NEW k, KindOf(d, c, k) # "none"
  PROVE  /\ Departing(d, c, k) \subseteq Range(d.stream)
         /\ \A s \in Departing(d, c, k) : \A x \in d.filed[s] \ BelowKey(d, c, k) : OnTheWay(s, c, k, x)
         /\ \A t \in Range(d.stream) \ Departing(d, c, k) : d.filed[t] \cap BelowKey(d, c, k) = {}
         /\ Root \notin BelowKey(d, c, k)
         /\ \A x \in BelowKey(d, c, k) : x[2] \in Seq(Key) => Len(c[2]) < Len(x[2])
<1>1. /\ \A z \in TablesOf(d, c, k) : /\ Above(d, c, z) /\ z[2] = Append(c[2], k)
                                      /\ z = <<z[1], z[2]>> /\ z # Root /\ z[2] \in Path
  BY TablesBelow
<1>2. /\ Departing(d, c, k) = IndexSet(d, c, k) \cup UNION {OwnedByContainer(d, z) : z \in TablesOf(d, c, k)}
      /\ BelowKey(d, c, k) = UNION {Beneath(d, z) : z \in TablesOf(d, c, k)}
  BY DepartingTables
<1>3. \A z \in TablesOf(d, c, k) : z # Root /\ z[2] \in Seq(Key) /\ Len(z[2]) = Len(c[2]) + 1 /\ Len(c[2]) \in Nat
  <2> SUFFICES ASSUME NEW z \in TablesOf(d, c, k)
               PROVE  z # Root /\ z[2] \in Seq(Key) /\ Len(z[2]) = Len(c[2]) + 1 /\ Len(c[2]) \in Nat
    OBVIOUS
  <2>1. k \in Key /\ c[2] \in Seq(Key)
    BY BoundAt
  <2>2. Append(c[2], k) \in Path /\ Len(Append(c[2], k)) = Len(c[2]) + 1
    BY <2>1, FrontOf
  <2> QED BY <1>1, <2>1, <2>2 DEF Path
<1>4. Departing(d, c, k) \subseteq Range(d.stream)
  <2>1. IndexSet(d, c, k) \subseteq Range(d.stream)
    BY FiledFacts DEF IndexSet, RefSet
  <2>2. \A z \in TablesOf(d, c, k) : OwnedByContainer(d, z) \subseteq Range(d.stream)
    BY <1>3, OwnedListed
  <2> QED BY <1>2, <2>1, <2>2
<1>5. ASSUME NEW s \in Departing(d, c, k), NEW x \in d.filed[s] \ BelowKey(d, c, k)
      PROVE  OnTheWay(s, c, k, x)
  <2>1. CASE s \in IndexSet(d, c, k)
    BY <2>1, IndexedWay
  <2>2. CASE s \notin IndexSet(d, c, k)
    <3>1. PICK z \in TablesOf(d, c, k) : s \in OwnedByContainer(d, z)
      BY <1>2, <2>2
    <3> QED BY <3>1, OwnedWay
  <2> QED BY <2>1, <2>2
<1>6. ASSUME NEW t \in Range(d.stream) \ Departing(d, c, k), NEW x \in d.filed[t], x \in BelowKey(d, c, k)
      PROVE  FALSE
  <2>1. PICK i \in 1..Len(d.stream) : t = d.stream[i]
    BY FiledFacts
  <2>2. PICK z \in TablesOf(d, c, k) : x \in Beneath(d, z)
    BY <1>2, <1>6
  <2>3. x \in FiledAt(d, i) /\ z \in Lineage(d, x)
    BY <1>6, <2>1, <2>2 DEF FiledAt, Beneath
  <2>4. d.stream[i] \in OwnedByContainer(d, z)
    BY <1>3, <2>3, BelowOwned
  <2> QED BY <1>2, <2>1, <2>4
<1>7. Root \notin BelowKey(d, c, k)
  BY <1>2, <1>3, RootAbove
<1>8. ASSUME NEW x \in BelowKey(d, c, k), x[2] \in Seq(Key) PROVE Len(c[2]) < Len(x[2])
  <2>1. PICK z \in TablesOf(d, c, k) : x \in Beneath(d, z)
    BY <1>2
  <2>2. Len(z[2]) \in 0..Len(x[2])
    BY <1>8, <2>1, LineageFacts DEF Beneath
  <2> QED BY <1>3, <1>8, <2>2
<1> QED BY <1>4, <1>5, <1>6, <1>7, <1>8


(* The keys of a dict are what is bound in it. *)
LEMMA KeysBound ==
  ASSUME NEW v, NEW d, Reading(v, d), NEW c \in DOMAIN d.tree
  PROVE  /\ c \in Nat \X Seq(Key)
         /\ \A k : k \in KeysOf(d, c) <=> KindOf(d, c, k) # "none"
         /\ KeysOf(d, c) \subseteq Key
         /\ Range(AllKeys(d, c)) = KeysOf(d, c)
         /\ Len(AllKeys(d, c)) = Len(d.tree[c]) /\ Len(d.tree[c]) \in Nat
         /\ AllKeys(d, c) \in Seq(Key)
         /\ \A k \in KeysOf(d, c) : Len(d.tree[c]) = 1 => KeysOf(d, c) = {k}
<1> DEFINE items == d.tree[c]
           keys  == AllKeys(d, c)
<1>1. IsTree(d.tree)
  BY DEF Reading, Agree
<1>2. c \in Nat \X Seq(Key) /\ IsDict(items) /\ Bindings(d, c) = items
  BY <1>1 DEF IsTree, Containers, Bindings
<1>3. items \in Seq(BindingSet) /\ Len(items) \in Nat /\ DOMAIN items = 1..Len(items)
      /\ \A i \in 1..Len(items) : items[i] \in BindingSet
  BY <1>2 DEF IsDict
<1>4. Range(items) = {items[i] : i \in 1..Len(items)}
  BY <1>3 DEF Range
<1>5. KeysOf(d, c) = {items[i].key : i \in 1..Len(items)}
  BY <1>2, <1>4 DEF KeysOf
<1>6. \A i \in 1..Len(items) : items[i].key \in Key /\ items[i].kind # "none"
  BY <1>3 DEF BindingSet
<1>7. \A k : k \in KeysOf(d, c) <=> KindOf(d, c, k) # "none"
  <2>1. \A k : KindOf(d, c, k) = KindIn(items, k)
    BY <1>2, KindIsKindIn
  <2>2. /\ \A i \in 1..Len(items) : KindIn(items, items[i].key) = items[i].kind
        /\ \A key : (\A i \in 1..Len(items) : items[i].key # key) => KindIn(items, key) = "none"
    BY <1>2, KindInMeaning
  <2> QED BY <1>5, <1>6, <2>1, <2>2
<1>8. keys = [i \in 1..Len(items) |-> items[i].key]
  BY <1>3 DEF AllKeys
<1>9. keys \in Seq(Key) /\ Len(keys) = Len(items) /\ DOMAIN keys = 1..Len(items)
  BY <1>3, <1>6, <1>8
<1>10. Range(keys) = KeysOf(d, c)
  BY <1>5, <1>8, <1>9 DEF Range
<1>11. ASSUME NEW k \in KeysOf(d, c), Len(items) = 1 PROVE KeysOf(d, c) = {k}
  BY <1>5, <1>11
<1> QED BY <1>2, <1>3, <1>5, <1>6, <1>7, <1>9, <1>10, <1>11

(* What leaves with the bindings K of c: the slots R go, and with them the *)
(* views `skip`.  Above those a slot that goes names the way down to c, or *)
(* in c one of K; the others name none of the views.                       *)
Deletion(d, c, K, R, skip) ==
  /\ c[2] \in Seq(Key) /\ K \subseteq Key
  /\ R \subseteq Range(d.stream)
  /\ \A s \in R : \A x \in d.filed[s] \ skip : \E k \in K : OnTheWay(s, c, k, x)
  /\ \A t \in Range(d.stream) \ R : d.filed[t] \cap skip = {}
  /\ Root \notin skip /\ c \notin skip
  /\ \A x \in skip : x[2] \in Seq(Key) => Len(c[2]) < Len(x[2])
  /\ K = KeysOf(d, c) =>
       \A t \in Range(d.stream) \ R : c \in d.filed[t] => LocalKey(t, c) = OwnKey

LEMMA DeletionFacts ==
  ASSUME NEW v, NEW d, Reading(v, d), NEW c \in DOMAIN d.tree, NEW K \in SUBSET KeysOf(d, c)
  PROVE  Deletion(d, c, K, UNION {Departing(d, c, k) : k \in K}, UNION {BelowKey(d, c, k) : k \in K})
<1> DEFINE R    == UNION {Departing(d, c, k) : k \in K}
           skip == UNION {BelowKey(d, c, k) : k \in K}
<1>1. /\ c[2] \in Seq(Key) /\ K \subseteq Key /\ Len(c[2]) \in Nat
      /\ \A k \in K : KindOf(d, c, k) # "none"
      /\ \A k : KindOf(d, c, k) # "none" => k \in KeysOf(d, c)
  BY KeysBound
<1>2. ASSUME NEW k \in K
      PROVE  /\ Departing(d, c, k) \subseteq Range(d.stream)
             /\ \A s \in Departing(d, c, k) : \A x \in d.filed[s] \ BelowKey(d, c, k) : OnTheWay(s, c, k, x)
             /\ \A t \in Range(d.stream) \ Departing(d, c, k) : d.filed[t] \cap BelowKey(d, c, k) = {}
             /\ Root \notin BelowKey(d, c, k)
             /\ \A x \in BelowKey(d, c, k) : x[2] \in Seq(Key) => Len(c[2]) < Len(x[2])
  <2>1. KindOf(d, c, k) # "none"
    BY <1>1
  <2> QED BY <2>1, DepartingFacts
<1>3. R \subseteq Range(d.stream)
  BY <1>2
<1>4. \A s \in R : \A x \in d.filed[s] \ skip : \E k \in K : OnTheWay(s, c, k, x)
  BY <1>2
<1>5. \A t \in Range(d.stream) \ R : d.filed[t] \cap skip = {}
  BY <1>2
<1>6. \A x \in skip : x[2] \in Seq(Key) => Len(c[2]) < Len(x[2])
  BY <1>2
<1>7. Root \notin skip /\ c \notin skip
  BY <1>1, <1>2, <1>6
<1>8. ASSUME K = KeysOf(d, c), NEW t \in Range(d.stream) \ R, c \in d.filed[t]
      PROVE  LocalKey(t, c) = OwnKey
  <2> DEFINE named == LocalKey(t, c)
  <2> SUFFICES ASSUME named # OwnKey PROVE FALSE
    OBVIOUS
  <2>1. PICK i \in 1..Len(d.stream) : d.stream[i] = t
    BY FiledFacts
  <2>2. c \in FiledAt(d, i)
    BY <1>8, <2>1 DEF FiledAt
  <2>3. Names(t, c, named) /\ ~(IsHeader(t) /\ t.path = c[2])
    <3> HIDE DEF named
    <3>1. IsHeader(d.stream[i]) /\ d.stream[i].path = c[2] => LocalKey(d.stream[i], c) = OwnKey
      BY <2>2, LocalKeys
    <3>2. \A k : Names(d.stream[i], c, k) <=> k # OwnKey /\ LocalKey(d.stream[i], c) = k
      BY <2>2, LocalKeys
    <3>3. LocalKey(d.stream[i], c) = named /\ named # OwnKey
      BY <2>1 DEF named
    <3> QED BY <2>1, <3>1, <3>2, <3>3
  <2>4. KindOf(d, c, named) # "none"
    BY <2>1, <2>2, <2>3 DEF Reading, Named
  <2>5. named \in K
    BY <1>1, <1>8, <2>4
  <2>6. t \in IndexSet(d, c, named)
    BY <1>8, <2>3, FiledFacts DEF IndexSet, RefSet
  <2>7. t \in Departing(d, c, named)
    BY <2>6 DEF Departing
  <2> QED BY <2>5, <2>7
<1> HIDE DEF R, skip
<1>9. Deletion(d, c, K, R, skip)
  BY <1>1, <1>3, <1>4, <1>5, <1>6, <1>7, <1>8 DEF Deletion
<1> QED BY <1>9 DEF R, skip

(* The projections a deletion starts from, which may have gained lines in  *)
(* its stead: cleared or not, the slots that go can be taken out of them.  *)
Starts(F, q, c, K, R, skip, all) ==
  /\ UpToDate(F, q) /\ Range(doc.stream) \subseteq Range(q) /\ c \in DOMAIN F.view
  /\ \A t \in Range(doc.stream) : F.backs[t] = doc.filed[t]
  /\ \A t \in Range(q) \ Range(doc.stream) : F.backs[t] \cap skip = {}
  /\ all \in BOOLEAN
  /\ all => K = KeysOf(doc, c)
  /\ ~all => \E k : K = {k}

LEMMA DeletionLeaves ==
  ASSUME FilingInv, NEW c, NEW K, NEW R, NEW skip, Deletion(doc, c, K, R, skip),
         NEW G, NEW q, NEW all, Starts(G, q, c, K, R, skip, all), NEW owned, Orders(owned, Keys(q), R)
  PROVE  LET F == IF all THEN ClearChildProjections(G, c) ELSE G
         IN  /\ UpToDate(F, q) /\ MayLeave(F, q, owned, R, skip)
             /\ \A t \in Range(doc.stream) \ R : F.backs[t] = doc.filed[t]
             /\ \A t \in Range(q) \ Range(doc.stream) :
                  F.backs[t] = IF all /\ LocalKey(t, c) # OwnKey THEN G.backs[t] \ {c} ELSE G.backs[t]
<1> DEFINE F == IF all THEN ClearChildProjections(G, c) ELSE G
           O == Range(doc.stream)
<1>1. /\ UpToDate(G, q) /\ O \subseteq Range(q) /\ c \in DOMAIN G.view
      /\ \A t \in O : G.backs[t] = doc.filed[t]
      /\ \A t \in Range(q) \ O : G.backs[t] \cap skip = {}
      /\ all \in BOOLEAN
      /\ all => K = KeysOf(doc, c)
      /\ ~all => \E k : K = {k}
  BY DEF Starts
<1>2. /\ c[2] \in Seq(Key) /\ K \subseteq Key
      /\ R \subseteq O
      /\ \A s \in R : \A x \in doc.filed[s] \ skip : \E k \in K : OnTheWay(s, c, k, x)
      /\ \A t \in O \ R : doc.filed[t] \cap skip = {}
      /\ Root \notin skip /\ c \notin skip
      /\ K = KeysOf(doc, c) => \A t \in O \ R : c \in doc.filed[t] => LocalKey(t, c) = OwnKey
  BY DEF Deletion
<1>3. /\ Consistent(G, Keys(q)) /\ DOMAIN G.backs = Range(q)
      /\ G.sound /\ Root \in DOMAIN G.view /\ q \in Seq(Slots) /\ Spread(q)
  BY <1>1 DEF UpToDate
<1>4. UpToDate(F, q)
  <2>1. CASE all
    <3>1. /\ Consistent(ClearChildProjections(G, c), Keys(q))
          /\ ClearChildProjections(G, c).sound = G.sound
          /\ DOMAIN ClearChildProjections(G, c).view = DOMAIN G.view
          /\ DOMAIN ClearChildProjections(G, c).backs = DOMAIN G.backs
      BY <1>1, <1>3, ClearKeepsViewsExact
    <3>2. F = ClearChildProjections(G, c)
      BY <2>1
    <3> HIDE DEF F
    <3> QED BY <1>3, <3>1, <3>2 DEF UpToDate
  <2>2. CASE ~all
    BY <1>1, <2>2
  <2> QED BY <2>1, <2>2
<1>5. \A t \in Range(q) :
        F.backs[t] = IF all /\ LocalKey(t, c) # OwnKey THEN G.backs[t] \ {c} ELSE G.backs[t]
  <2>1. CASE all
    <3>1. \A t \in DOMAIN G.backs :
              ClearChildProjections(G, c).backs[t] =
                IF LocalKey(t, c) = OwnKey THEN G.backs[t] ELSE G.backs[t] \ {c}
      BY <1>1, <1>3, ClearKeepsViewsExact
    <3> QED BY <1>3, <2>1, <3>1
  <2>2. CASE ~all
    BY <2>2
  <2> QED BY <2>1, <2>2
<1> HIDE DEF F
<1>6. \A t \in O \ R : F.backs[t] = doc.filed[t]
  <2> TAKE t \in O \ R
  <2>1. t \in Range(q) /\ G.backs[t] = doc.filed[t]
    BY <1>1
  <2>2. CASE all /\ LocalKey(t, c) # OwnKey
    BY <1>1, <1>2, <1>5, <2>1, <2>2
  <2>3. CASE ~(all /\ LocalKey(t, c) # OwnKey)
    BY <1>5, <2>1, <2>3
  <2> QED BY <2>2, <2>3
<1>7. \A t \in Range(q) \ R : F.backs[t] \cap skip = {}
  BY <1>1, <1>2, <1>5, <1>6
<1>8. ASSUME NEW x \in (UNION {F.backs[s] : s \in R}) \ skip
      PROVE  \E k : k # OwnKey /\ \A s \in R : x \in F.backs[s] => LocalKey(s, x) = k
  <2>1. \A s \in R : F.backs[s] \subseteq doc.filed[s]
    BY <1>1, <1>2, <1>5
  <2>2. PICK r \in R : x \in F.backs[r]
    BY <1>8
  <2>3. PICK j \in K : OnTheWay(r, c, j, x)
    BY <1>2, <1>8, <2>1, <2>2
  <2>4. Len(x[2]) \in Nat /\ Len(c[2]) \in Nat /\ Len(x[2]) <= Len(c[2])
    BY <1>2, <2>3 DEF OnTheWay
  <2>5. ASSUME NEW s \in R, x \in F.backs[s] PROVE \E k \in K : OnTheWay(s, c, k, x)
    BY <1>2, <1>8, <2>1, <2>5
  <2>6. CASE Len(x[2]) < Len(c[2])
    <3> DEFINE key == c[2][Len(x[2]) + 1]
    <3>1. key # OwnKey
      BY <2>3, <2>6 DEF OnTheWay
    <3>2. \A s \in R : x \in F.backs[s] => LocalKey(s, x) = key
      BY <2>5, <2>6 DEF OnTheWay
    <3> HIDE DEF key
    <3> QED BY <3>1, <3>2
  <2>7. CASE Len(x[2]) = Len(c[2])
    <3>1. x = c /\ LocalKey(r, c) # OwnKey
      BY <2>3, <2>7 DEF OnTheWay
    <3>2. ~all
      BY <1>1, <1>2, <1>5, <2>2, <3>1
    <3>3. PICK k : K = {k}
      BY <1>1, <3>2
    <3>4. \A s \in R : x \in F.backs[s] => LocalKey(s, x) = k
      BY <2>5, <2>7, <3>3 DEF OnTheWay
    <3>5. k # OwnKey
      BY <1>2, <3>3, KeysAssumption
    <3> QED BY <3>4, <3>5
  <2> QED BY <2>4, <2>6, <2>7
<1>9. Separable(F, owned, R, skip)
  BY <1>8 DEF Separable
<1>10. MayLeave(F, q, owned, R, skip)
  BY <1>1, <1>2, <1>7, <1>9 DEF MayLeave
<1>11. \A t \in Range(q) \ O :
         F.backs[t] = IF all /\ LocalKey(t, c) # OwnKey THEN G.backs[t] \ {c} ELSE G.backs[t]
  BY <1>5
<1> QED BY <1>4, <1>6, <1>10, <1>11 DEF F

-----------------------------------------------------------------------------
(* Reviving a table.                                                       *)

(* What a line binds, once read, stays bound as a value.                   *)
LEMMA LeafBound ==
  ASSUME NEW d, Tidy(d), NEW i \in 1..Len(d.stream), IsKV(d.stream[i])
  PROVE  KindOf(d, Top(d.stream[i]), Last(FullPath(d.stream[i]))) = "value"
<1> DEFINE run == d.stream
           n   == Len(run)
           s   == run[i]
           p   == FullPath(s)
           Value(x) == KindOf(x, Top(s), Last(p)) = "value"
<1>1. run \in Seq(Slots) /\ n \in Nat /\ Accepts(run) /\ d = Reparsed(run).d /\ EntriesApart(d)
  BY DEF Tidy
<1>2. PICK f : ReadBy(run, f, n) /\ Reparsed(run) = f[n]
  BY <1>1, ReparsedMeaning
<1>3. \A k \in 1..n : Step(f[k - 1].v, f[k - 1].d, f[k].v, f[k].d, run[k])
  <2>1. f[n].ok /\ f[n].d.stream = run /\ EntriesApart(f[n].d)
    BY <1>1, <1>2 DEF Accepts
  <2> QED BY <1>1, <1>2, <2>1, EveryLine
<1>4. ASSUME NEW k \in 1..n PROVE Kept(f[k - 1].d, f[k].d)
  <2> DEFINE v0 == f[k - 1].v
             d0 == f[k - 1].d
             v1 == f[k].v
             d1 == f[k].d
             r  == run[k]
  <2>1. Step(v0, d0, v1, d1, r)
    BY <1>3
  <2> HIDE DEF v0, d0, v1, d1, r
  <2>2. Kept(d0, d1)
    BY <2>1, StepFacts
  <2> QED BY <2>2 DEF d0, d1
<1>5. i \in 1..n /\ IsKV(s)
  OBVIOUS
<1>6. s \in Slots
  BY <1>1
<1>7. Value(f[i].d)
  <2> DEFINE v0 == f[i - 1].v
             d0 == f[i - 1].d
             v1 == f[i].v
             d1 == f[i].d
  <2>1. Step(v0, d0, v1, d1, s)
    BY <1>3, <1>5
  <2> HIDE DEF v0, d0, v1, d1, s, n
  <2>2. Declares(v0, v1, s) /\ s \in Slots
    BY <2>1, StepFacts
  <2>3. s \in KVSlots
    BY <1>5, <2>2, SlotsType DEF Slots
  <2>4. KindAt(v1, p) = "value"
    BY <2>2, <2>3 DEF Declares
  <2>5. /\ p \in Path /\ Lowest(s) = Len(p) - 1 /\ Top(s) = <<s.owner, Prefix(p, Lowest(s))>>
        /\ Top(s) = <<s.owner, Front(p)>>
        /\ Highest(s) <= Lowest(s) /\ Highest(s) \in Nat /\ Lowest(s) \in Nat
    BY <2>2, <2>3, LevelsOf
  <2>6. At(v1, Prefix(p, Lowest(s))) = <<s.owner, Prefix(p, Lowest(s))>>
    <3>1. Lowest(s) \in Highest(s)..Lowest(s)
      BY <2>5
    <3> QED BY <2>2, <3>1 DEF Declares
  <2> HIDE DEF p
  <2>7. /\ Front(p) \in Seq(Key) /\ Last(p) \in Key /\ p = Append(Front(p), Last(p))
        /\ Front(p) = Prefix(p, Len(p) - 1)
    BY <2>5, FrontLast
  <2>8. At(v1, Front(p)) = Top(s)
    BY <2>5, <2>6, <2>7
  <2>9. Matches(v1, d1)
    BY <2>1 DEF Step, Agree
  <2>10. KindOf(d1, At(v1, Front(p)), Last(p)) = TreeKind("value")
    BY <2>4, <2>7, <2>9 DEF Matches, Match
  <2> QED BY <2>8, <2>10 DEF TreeKind, d1
<1> HIDE DEF n, s, p
<1>8. ASSUME NEW k \in 1..n, Value(f[k - 1].d) PROVE Value(f[k].d)
  BY <1>4, <1>8 DEF Kept
<1> HIDE DEF Value
<1> DEFINE S == {m \in Nat : i + m \in i..n => Value(f[i + m].d)}
<1>9. 0 \in S
  BY <1>5, <1>7
<1>10. \A m \in Nat : m \in S => m + 1 \in S
  <2> SUFFICES ASSUME NEW m \in Nat, m \in S, i + (m + 1) \in i..n PROVE Value(f[i + (m + 1)].d)
    OBVIOUS
  <2> DEFINE k == i + (m + 1)
  <2>1. k \in 1..n /\ k - 1 = i + m /\ i + m \in i..n
    BY <1>1, <1>5
  <2>2. Value(f[k - 1].d)
    BY <2>1
  <2> HIDE DEF k
  <2>3. Value(f[k].d)
    BY <1>8, <2>1, <2>2
  <2> QED BY <2>3 DEF k
<1>11. \A m \in Nat : m \in S
  <2> HIDE DEF S
  <2> QED BY <1>9, <1>10, InductionOnSet
<1>12. n - i \in Nat /\ i + (n - i) = n /\ n \in i..n
  BY <1>1, <1>5
<1>13. Value(f[n].d)
  BY <1>11, <1>12
<1> QED BY <1>1, <1>2, <1>13 DEF Value, s, p, n

(* Both streams run in the order ord; up to i and to j the same headers    *)
(* have opened an entry at p or above it.                                  *)
InOneOrder(d, e, ord) ==
  /\ Keyed(ord, Range(d.stream) \cup Range(e.stream))
  /\ Orders(d.stream, ord, Range(d.stream)) /\ Orders(e.stream, ord, Range(e.stream))

OpenedAlike(d, i, e, j, p) ==
  \A t : OpensAbove(t, p) => ((\E g \in 1..i : t = d.stream[g]) <=> (\E h \in 1..j : t = e.stream[h]))

(* The containers of two lines that stand for one path are owned by the    *)
(* same entry if the same headers opened one at or above it so far.        *)
LEMMA SameRuler ==
  ASSUME NEW v, NEW d, Reading(v, d), NEW w, NEW e, Reading(w, e),
         NEW i \in 1..Len(d.stream), NEW j \in 1..Len(e.stream),
         NEW x \in FiledAt(d, i), NEW y \in FiledAt(e, j), x[2] = y[2],
         NEW ord, InOneOrder(d, e, ord), OpenedAlike(d, i, e, j, x[2])
  PROVE  x[1] = y[1]
<1>0. /\ Keyed(ord, Range(d.stream) \cup Range(e.stream))
      /\ Orders(d.stream, ord, Range(d.stream)) /\ Orders(e.stream, ord, Range(e.stream))
  BY DEF InOneOrder
<1> USE <1>0
<1> DEFINE p == x[2]
<1>1. /\ x[1] # NoEntry => \E g \in 1..i : Rules(d, g, i, x[1], p)
      /\ x[1] = NoEntry => Unruled(d, i, p)
  BY DEF Reading, FiledInForce
<1>2. /\ y[1] # NoEntry => \E h \in 1..j : Rules(e, h, j, y[1], p)
      /\ y[1] = NoEntry => Unruled(e, j, p)
  BY DEF Reading, FiledInForce
<1>3. /\ Len(d.stream) \in Nat /\ \A k \in 1..Len(d.stream) : d.stream[k] \in Range(d.stream)
      /\ Len(e.stream) \in Nat /\ \A k \in 1..Len(e.stream) : e.stream[k] \in Range(e.stream)
  BY FiledFacts
<1>4. \A t : OpensAbove(t, p) =>
           ((\E g \in 1..i : t = d.stream[g]) <=> (\E h \in 1..j : t = e.stream[h]))
  BY DEF OpenedAlike
<1> HIDE DEF p
<1>5. /\ \A k, m \in 1..Len(d.stream) : k < m => ord[d.stream[k]] < ord[d.stream[m]]
      /\ \A k, m \in 1..Len(e.stream) : k < m => ord[e.stream[k]] < ord[e.stream[m]]
  BY DEF Orders
<1>6. CASE x[1] = NoEntry
  <2> SUFFICES ASSUME y[1] # NoEntry PROVE FALSE
    BY <1>6
  <2>1. PICK h \in 1..j : Rules(e, h, j, y[1], p)
    BY <1>2
  <2>2. OpensAbove(e.stream[h], p)
    BY <2>1 DEF Rules
  <2>3. PICK g \in 1..i : e.stream[h] = d.stream[g]
    BY <1>4, <2>2
  <2> QED BY <1>1, <1>6, <2>2, <2>3 DEF Unruled
<1>7. CASE y[1] = NoEntry
  <2> SUFFICES ASSUME x[1] # NoEntry PROVE FALSE
    BY <1>7
  <2>1. PICK g \in 1..i : Rules(d, g, i, x[1], p)
    BY <1>1
  <2>2. OpensAbove(d.stream[g], p)
    BY <2>1 DEF Rules
  <2>3. PICK h \in 1..j : d.stream[g] = e.stream[h]
    BY <1>4, <2>2
  <2> QED BY <1>2, <1>7, <2>2, <2>3 DEF Unruled
<1>8. CASE x[1] # NoEntry /\ y[1] # NoEntry
  <2>1. PICK g \in 1..i : Rules(d, g, i, x[1], p)
    BY <1>1, <1>8
  <2>2. PICK h \in 1..j : Rules(e, h, j, y[1], p)
    BY <1>2, <1>8
  <2>3. /\ OpensAbove(d.stream[g], p) /\ Opens(d.stream[g], x[1])
        /\ \A k \in (g + 1)..i : ~OpensAbove(d.stream[k], p)
    BY <2>1 DEF Rules
  <2>4. /\ OpensAbove(e.stream[h], p) /\ Opens(e.stream[h], y[1])
        /\ \A k \in (h + 1)..j : ~OpensAbove(e.stream[k], p)
    BY <2>2 DEF Rules
  <2>5. PICK k \in 1..j : d.stream[g] = e.stream[k]
    BY <1>4, <2>3
  <2>6. PICK m \in 1..i : e.stream[h] = d.stream[m]
    BY <1>4, <2>4
  <2>7. k <= h /\ m <= g
    BY <2>3, <2>4, <2>5, <2>6
  <2>8. k \in 1..Len(e.stream) /\ h \in 1..Len(e.stream) /\ (k = h \/ k < h)
    BY <1>3, <2>7
  <2>9. m \in 1..Len(d.stream) /\ g \in 1..Len(d.stream) /\ (m = g \/ m < g)
    BY <1>3, <2>7
  <2>10. k = h \/ ord[e.stream[k]] < ord[e.stream[h]]
    BY <1>5, <2>8
  <2>11. m = g \/ ord[d.stream[m]] < ord[d.stream[g]]
    BY <1>5, <2>9
  <2>12. ord[d.stream[g]] \in Int /\ ord[e.stream[h]] \in Int
    BY <1>3 DEF Keyed
  <2>13. d.stream[g] = e.stream[h]
    BY <2>5, <2>6, <2>10, <2>11, <2>12
  <2> QED BY <2>3, <2>4, <2>13 DEF Opens
<1> QED BY <1>6, <1>7, <1>8

(* The line s, new in the document, takes the place of the one at p and is *)
(* filed on C: containers that one is filed on, a level of s's path each,  *)
(* down to c or just above it.                                             *)
Revival(d, c, p, s, C) ==
  /\ p \in 1..Len(d.stream) /\ s \in Slots /\ s \notin Range(d.stream) /\ ~IsEntryHeader(s)
  /\ C \subseteq FiledAt(d, p)
  /\ \A x \in C : /\ x = <<x[1], x[2]>> /\ x[2] \in Seq(Key)
                  /\ Len(x[2]) \in Highest(s)..Lowest(s) /\ x[2] = Prefix(FullPath(s), Len(x[2]))
                  /\ IsKV(s) \/ Len(x[2]) = Lowest(s) => x[1] = s.owner
  /\ \A m \in Highest(s)..Lowest(s) : \E x \in C : Len(x[2]) = m
  /\ Lowest(s) <= Len(c[2])
  /\ \A x \in C : LocalKey(s, x) = OwnKey <=> x = c
  /\ c \in C => ~IsKV(s) /\ \A h \in RefSet(d, c) : LocalKey(h, c) # OwnKey
  /\ IsKV(s) => IsKV(d.stream[p]) /\ s.owner = d.stream[p].owner

LEMMA InsertedSpread ==
  ASSUME NEW S, NEW q \in Seq(S), Spread(q), NEW s \in S, s \notin Range(q), NEW p \in 1..Len(q)
  PROVE  LET run == InsertAt(q, p, s)
         IN  /\ run \in Seq(S) /\ Spread(run) /\ Range(run) = Range(q) \cup {s}
             /\ Keys(run)[s] = p
             /\ \A i \in 1..(p - 1) : Keys(run)[q[i]] = i /\ run[i] = q[i]
             /\ \A i \in 1..Len(q) : i < p \/ p < Keys(run)[q[i]]
             /\ \A i, j \in 1..Len(q) : i < j => Keys(run)[q[i]] < Keys(run)[q[j]]
             /\ \A i \in 1..Len(q) : Keys(run)[q[i]] \in Int
             /\ Orders(q, Keys(run), Range(q))
<1> DEFINE m   == p - 1
           run == InsertAt(q, p, s)
           n   == Len(q)
           ord == Keys(run)
<1>1. n \in Nat /\ m \in 0..n /\ p = m + 1 /\ p \in 1..n /\ DOMAIN q = 1..n
  OBVIOUS
<1>2. run = InsertAt(q, m + 1, s)
  BY <1>1
<1> HIDE DEF m, run
<1>3. /\ run \in Seq(S) /\ Len(run) = n + 1 /\ run[m + 1] = s
      /\ \A i \in 1..m : run[i] = q[i]
      /\ \A i \in (m + 1)..n : run[i + 1] = q[i]
      /\ \A k \in 1..Len(run) : k = m + 1 \/ k \in 1..m \/ \E i \in (m + 1)..n : k = i + 1
      /\ Range(run) = Range(q) \cup {s}
      /\ Spread(run) => /\ \A i \in 1..m : Keys(run)[q[i]] = i
                        /\ \A i \in (m + 1)..n : Keys(run)[q[i]] = i + 1
                        /\ Keys(run)[s] = m + 1
  <2>1. Inserts(run, q, m, s)
    BY <1>1, <1>2 DEF Inserts
  <2> HIDE DEF n, ord
  <2>2. /\ run \in Seq(S) /\ Len(run) = Len(q) + 1 /\ run[m + 1] = s
        /\ \A i \in 1..m : run[i] = q[i]
        /\ \A i \in (m + 1)..Len(q) : run[i + 1] = q[i]
    BY <2>1, InsertionKeys
  <2>3. \A k \in 1..Len(run) : k = m + 1 \/ k \in 1..m \/ \E i \in (m + 1)..Len(q) : k = i + 1
    BY <2>1, InsertionKeys
  <2>4. Range(run) = Range(q) \cup {s}
    BY <2>1, InsertionKeys
  <2>5. Spread(run) => /\ \A i \in 1..m : Keys(run)[q[i]] = i
                       /\ \A i \in (m + 1)..Len(q) : Keys(run)[q[i]] = i + 1
                       /\ Keys(run)[s] = m + 1
    BY <2>1, InsertionKeys
  <2> QED BY <2>1, <2>2, <2>3, <2>4, <2>5 DEF n
<1> HIDE DEF n
<1>4. \A i \in 1..n : q[i] \in Range(q) /\ q[i] # s
  BY <1>1 DEF Range
<1>5. Spread(run)
  <2> SUFFICES ASSUME NEW i \in 1..Len(run), NEW j \in 1..Len(run), run[i] = run[j] PROVE i = j
    BY DEF Spread
  <2>1. \A a, b \in 1..n : q[a] = q[b] => a = b
    BY DEF Spread, n
  <2>2. /\ i = m + 1 \/ \E a \in 1..n : run[i] = q[a] /\ i = (IF a <= m THEN a ELSE a + 1)
        /\ j = m + 1 \/ \E b \in 1..n : run[j] = q[b] /\ j = (IF b <= m THEN b ELSE b + 1)
    <3>1. ASSUME NEW k \in 1..Len(run), k # m + 1
          PROVE  \E a \in 1..n : run[k] = q[a] /\ k = (IF a <= m THEN a ELSE a + 1)
      <4>1. CASE k \in 1..m
        <5>1. k \in 1..n /\ run[k] = q[k] /\ k <= m
          BY <1>1, <1>3, <4>1
        <5> QED BY <5>1
      <4>2. ASSUME NEW a \in (m + 1)..n, k = a + 1 PROVE run[k] = q[a] /\ a \in 1..n /\ ~(a <= m)
        BY <1>1, <1>3, <4>2
      <4> QED BY <1>3, <3>1, <4>1, <4>2
    <3> QED BY <3>1
  <2>3. CASE i = m + 1 /\ j = m + 1
    BY <2>3
  <2>4. CASE i = m + 1 /\ j # m + 1
    BY <1>3, <1>4, <2>2, <2>4
  <2>5. CASE i # m + 1 /\ j = m + 1
    BY <1>3, <1>4, <2>2, <2>5
  <2>6. CASE i # m + 1 /\ j # m + 1
    BY <2>1, <2>2, <2>6
  <2> QED BY <2>3, <2>4, <2>5, <2>6
<1>6. /\ \A i \in 1..m : ord[q[i]] = i
      /\ \A i \in (m + 1)..n : ord[q[i]] = i + 1
      /\ ord[s] = m + 1
  BY <1>3, <1>5
<1> HIDE DEF ord
<1>7. ASSUME NEW i \in 1..n
      PROVE  /\ i < p \/ p < ord[q[i]]
             /\ ord[q[i]] = IF i <= m THEN i ELSE i + 1
  <2>1. CASE i <= m
    <3>1. i \in 1..m
      BY <1>1, <2>1
    <3> QED BY <1>1, <1>6, <2>1, <3>1
  <2>2. CASE ~(i <= m)
    <3>1. i \in (m + 1)..n
      BY <1>1, <2>2
    <3> QED BY <1>1, <1>6, <2>2, <3>1
  <2> QED BY <2>1, <2>2
<1>8. \A i, j \in 1..n : i < j => ord[q[i]] < ord[q[j]]
  BY <1>1, <1>7
<1>9. \A i \in 1..n : ord[q[i]] \in Int
  BY <1>1, <1>7
<1>10. Orders(q, ord, Range(q))
  <2>1. q \in Seq(Range(q)) /\ \A t \in Range(q) : \E i \in 1..Len(q) : q[i] = t
    BY <1>1 DEF Range, n
  <2> QED BY <1>8, <2>1 DEF Orders, n
<1>11. \A i \in 1..(p - 1) : ord[q[i]] = i /\ run[i] = q[i]
  BY <1>1, <1>3, <1>6
<1> QED BY <1>1, <1>3, <1>5, <1>6, <1>7, <1>8, <1>9, <1>10, <1>11 DEF run, ord, n

LEMMA RevivalFiled ==
  ASSUME FilingInv, NEW c, NEW p, NEW s, NEW C, Revival(doc, c, p, s, C)
  PROVE  LET run == InsertAt(doc.stream, p, s)
         IN  FiledToo(File(caches, Keys(run), C \ {c}, C \cap {c}, s), run, C, s)
<1> DEFINE q   == doc.stream
           run == InsertAt(q, p, s)
           ord == Keys(run)
           chain == C \ {c}
           own   == C \cap {c}
           m   == p - 1
<1>1. /\ p \in 1..Len(q) /\ s \in Slots /\ s \notin Range(q)
      /\ C \subseteq FiledAt(doc, p)
      /\ \A x \in C : x[2] \in Seq(Key)
      /\ \A x \in C : IsKV(s) => x[1] = s.owner
      /\ \A x \in C : LocalKey(s, x) = OwnKey <=> x = c
      /\ c \in C => ~IsKV(s) /\ \A h \in RefSet(doc, c) : LocalKey(h, c) # OwnKey
      /\ IsKV(s) => IsKV(q[p]) /\ s.owner = q[p].owner
  BY DEF Revival
<1>2. Tidy(doc) /\ \E w : Reading(w, doc)
  BY InvCurrent
<1>3. PICK w : Reading(w, doc)
  BY <1>2
<1>4. /\ q \in Seq(Slots) /\ Len(q) \in Nat /\ Spread(q) /\ NoSlot \notin Range(q)
      /\ \A i \in 1..Len(q) : q[i] \in Slots /\ q[i] \in Range(q)
      /\ DOMAIN doc.filed = Range(q)
  BY <1>3, FiledFacts
<1>5. /\ run \in Seq(Slots) /\ Spread(run) /\ Range(run) = Range(q) \cup {s}
      /\ ord[s] = p
      /\ \A i \in 1..(p - 1) : ord[q[i]] = i /\ run[i] = q[i]
      /\ \A i \in 1..Len(q) : i < p \/ p < ord[q[i]]
  BY <1>1, <1>4, InsertedSpread
<1>6. Keyed(ord, Range(run))
  BY <1>5, KeysMeaning
<1>7. m \in 0..Len(q) /\ run = InsertAt(q, m + 1, s)
  BY <1>1
<1> HIDE DEF ord, run, q, m
<1>8. s # NoSlot
  BY <1>1 DEF Slots, KVSlots, HeaderSlots, NoSlot
<1>9. ASSUME NEW x \in C
      PROVE  /\ Belong(ord, x, RefSet(doc, x) \cup {s})
             /\ HeaderFirst(ord, x, RefSet(doc, x), s)
  <2> DEFINE S == RefSet(doc, x)
  <2>1. /\ S \subseteq Range(q)
        /\ Belong(Keys(q), x, S)
        /\ \A t \in S : HeaderFirst(Keys(q), x, S, t)
    BY <1>3, ListedRead DEF q
  <2>2. q[p] \in S
    BY <1>1, <1>4, <1>9 DEF RefSet, FiledAt, q
  <2> HIDE DEF S
  <2>3. Keyed(ord, S \cup {s}) /\ NoSlot \notin S \cup {s}
    <3>1. S \cup {s} \subseteq Range(run)
      BY <1>5, <2>1
    <3>2. Keyed(ord, S \cup {s})
      <4> DEFINE T == S \cup {s}
      <4>1. T \subseteq Range(run)
        BY <3>1
      <4> HIDE DEF T
      <4>2. Keyed(ord, T)
        BY <1>6, <4>1, KeyedSubset
      <4> QED BY <4>2 DEF T
    <3> QED BY <1>4, <1>8, <2>1, <3>2
  <2>4. ASSUME NEW h \in S \cup {s}, LocalKey(h, x) = OwnKey
        PROVE  HeadedBy(x, S \cup {s}, h)
    <3>1. CASE x = c
      <4>1. h = s /\ ~IsKV(s) /\ \A t \in S : LocalKey(t, x) # OwnKey
        BY <1>1, <1>9, <2>4, <3>1 DEF S
      <4> QED BY <4>1 DEF HeadedBy
    <3>2. CASE x # c
      <4>1. LocalKey(s, x) # OwnKey
        BY <1>1, <1>9, <3>2
      <4>2. h \in S
        BY <2>4, <4>1
      <4>3. HeadedBy(x, S, h)
        BY <2>1, <2>4, <4>2 DEF Belong
      <4> QED BY <4>1, <4>3 DEF HeadedBy
    <3> QED BY <3>1, <3>2
  <2>5. Belong(ord, x, S \cup {s})
    BY <2>3, <2>4 DEF Belong
  <2>6. HeaderFirst(ord, x, S, s)
    <3> SUFFICES ASSUME NEW h \in S, LocalKey(h, x) = OwnKey, IsOwnLine(s, x) PROVE ord[h] < ord[s]
      BY DEF HeaderFirst
    <3>1. IsKV(q[p]) /\ q[p].owner = x[1]
      BY <1>1, <1>9 DEF IsOwnLine
    <3>2. Keys(q)[h] < Keys(q)[q[p]]
      <4>1. HeaderFirst(Keys(q), x, S, q[p]) /\ IsOwnLine(q[p], x)
        BY <2>1, <2>2, <3>1 DEF IsOwnLine
      <4> QED BY <4>1 DEF HeaderFirst
    <3>3. h \in Range(q)
      BY <2>1
    <3>4. /\ \A i \in 1..Len(q) : Keys(q)[q[i]] = i
          /\ \A t \in Range(q) : Keys(q)[t] \in 1..Len(q) /\ q[Keys(q)[t]] = t
      BY <1>4, KeysMeaning
    <3> DEFINE g == Keys(q)[h]
    <3>5. g \in 1..Len(q) /\ q[g] = h /\ g < p
      BY <1>1, <3>2, <3>3, <3>4
    <3> HIDE DEF g
    <3>6. g \in 1..(p - 1)
      BY <1>1, <1>4, <3>5
    <3> QED BY <1>5, <3>5, <3>6
  <2> QED BY <2>5, <2>6 DEF S
<1>10. chain \cup own = C
  OBVIOUS
<1>11. \A x \in chain \cup own : LocalKey(s, x) = OwnKey <=> x \in own
  BY <1>1
<1> HIDE DEF chain, own
<1>12. /\ \A x \in chain \cup own : Belong(Keys(run), x, RefSet(doc, x) \cup {s})
       /\ \A x \in chain \cup own : HeaderFirst(Keys(run), x, RefSet(doc, x), s)
  BY <1>9, <1>10 DEF ord
<1>13. m \in 0..Len(doc.stream) /\ run = InsertAt(doc.stream, m + 1, s)
  BY <1>7 DEF q
<1>14. FiledToo(File(caches, Keys(run), chain, own, s), run, chain \cup own, s)
  BY <1>1, <1>5, <1>11, <1>12, <1>13, FiledOne
<1> QED BY <1>10, <1>14 DEF chain, own, run, q

(* What an implicit table is: filed on somewhere, with no header of its    *)
(* own and a path of some length.                                          *)
LEMMA ImplicitFacts ==
  ASSUME NEW v, NEW d, Reading(v, d), NEW p \in 1..Len(d.stream), NEW c \in FiledAt(d, p), Implicit(d, c)
  PROVE  /\ c = <<c[1], c[2]>> /\ c[1] \in Nat /\ c[2] \in Path
         /\ \A i \in 1..Len(d.stream) : IsHeader(d.stream[i]) => Top(d.stream[i]) # c
         /\ \A h \in RefSet(d, c) : LocalKey(h, c) # OwnKey
<1>1. c \in Nat \X Seq(Key) /\ c = <<c[1], c[2]>>
  BY FiledLevels
<1>2. c[2] # <<>>
  <2> SUFFICES ASSUME c[2] = <<>> PROVE FALSE
    OBVIOUS
  <2>1. \A t \in Slots : ~OpensAbove(t, <<>>)
    <3> SUFFICES ASSUME NEW t \in Slots, OpensAbove(t, <<>>) PROVE FALSE
      OBVIOUS
    <3>1. t \in HeaderSlots
      BY SlotsType DEF OpensAbove, IsEntryHeader, Slots
    <3>2. t.path \in Seq(Key) /\ t.path # <<>>
      BY <3>1 DEF HeaderSlots, Path
    <3>3. IsStrictPrefix(t.path, <<>>)
      BY <3>2 DEF OpensAbove
    <3> QED BY <3>2, <3>3 DEF IsStrictPrefix, IsPrefix
  <2>2. c[1] = NoEntry
    <3> SUFFICES ASSUME c[1] # NoEntry PROVE FALSE
      OBVIOUS
    <3>1. PICK g \in 1..p : Rules(d, g, p, c[1], c[2])
      BY DEF Reading, FiledInForce
    <3>2. g \in 1..Len(d.stream)
      BY FiledFacts
    <3>3. d.stream[g] \in Slots
      BY <3>2, FiledFacts
    <3> QED BY <2>1, <3>1, <3>3 DEF Rules
  <2> QED BY <1>1, <2>2 DEF Implicit, Root
<1>3. ASSUME NEW h \in RefSet(d, c), IsHeader(h), h.path = c[2] PROVE FALSE
  <2> DEFINE H == {t \in RefSet(d, c) : IsHeader(t) /\ t.path = c[2]}
  <2>1. H # {}
    BY <1>3
  <2>2. OwnHeader(d, c) \in H
    BY <2>1 DEF OwnHeader
  <2>3. OwnHeader(d, c) \in Range(d.stream)
    BY <2>2, ListedRead
  <2> QED BY <2>3, FiledFacts DEF Implicit
<1>4. ASSUME NEW h \in RefSet(d, c) PROVE LocalKey(h, c) # OwnKey
  BY <1>3, ListedRead
<1>5. ASSUME NEW i \in 1..Len(d.stream), IsHeader(d.stream[i]), Top(d.stream[i]) = c PROVE FALSE
  <2>1. Top(d.stream[i]) \in FiledAt(d, i) /\ d.stream[i] \in Range(d.stream) /\ DOMAIN d.filed = Range(d.stream)
    BY FiledLevels, FiledFacts
  <2>2. d.stream[i] \in RefSet(d, c)
    BY <1>5, <2>1 DEF RefSet, FiledAt
  <2>3. d.stream[i].path = c[2]
    BY <1>5 DEF Top, IsHeader, IsKV
  <2> QED BY <1>3, <1>5, <2>2, <2>3
<1> QED BY <1>1, <1>2, <1>4, <1>5 DEF Path

LEMMA HeaderRevival ==
  ASSUME NEW d, Tidy(d), NEW p \in 1..Len(d.stream), NEW c \in FiledAt(d, p), Implicit(d, c),
         IsHeader(d.stream[p])
  PROVE  Revival(d, c, p, Header(c[2], c[1], NoEntry, TRUE), Lineage(d, c))
<1> DEFINE s == Header(c[2], c[1], NoEntry, TRUE)
           C == Lineage(d, c)
<1>1. PICK v : Reading(v, d)
  BY TidyReads
<1>2. /\ c = <<c[1], c[2]>> /\ c[1] \in Nat /\ c[2] \in Path /\ c[2] \in Seq(Key) /\ Len(c[2]) \in Nat
      /\ \A i \in 1..Len(d.stream) : IsHeader(d.stream[i]) => Top(d.stream[i]) # c
      /\ \A h \in RefSet(d, c) : LocalKey(h, c) # OwnKey
  BY <1>1, ImplicitFacts DEF Path
<1>3. /\ s \in Slots /\ IsHeader(s) /\ ~IsKV(s) /\ ~IsEntryHeader(s)
      /\ s.path = c[2] /\ s.owner = c[1] /\ FullPath(s) = c[2]
      /\ Highest(s) = 0 /\ Lowest(s) = Len(c[2]) /\ Top(s) = c
  BY <1>2 DEF Slots, HeaderSlots, Header, IsHeader, IsKV, IsEntryHeader, NoEntry, FullPath, Highest, Lowest, Top
<1> HIDE DEF s
<1>4. s \notin Range(d.stream)
  <2> SUFFICES ASSUME s \in Range(d.stream) PROVE FALSE
    OBVIOUS
  <2>1. PICK i \in 1..Len(d.stream) : d.stream[i] = s
    BY <1>1, FiledFacts
  <2> QED BY <1>2, <1>3, <2>1
<1>5. Highest(d.stream[p]) = 0
  BY DEF Highest, IsHeader, IsKV
<1>6. /\ c \in C
      /\ \A z \in C : /\ Len(z[2]) \in 0..Len(c[2]) /\ z[2] = Prefix(c[2], Len(z[2]))
                      /\ z[2] \in Seq(Key)
      /\ \A j \in 0..Len(c[2]) : \E z \in C : Len(z[2]) = j
      /\ \A y, z \in C : Len(y[2]) = Len(z[2]) => y = z
  BY <1>2, LineageFacts
<1>7. \A z \in C : Highest(d.stream[p]) <= Len(z[2]) => z \in FiledAt(d, p)
  BY <1>1, LineageFiled
<1> HIDE DEF C
<1>8. C \subseteq FiledAt(d, p)
  BY <1>5, <1>6, <1>7
<1>9. ASSUME NEW x \in C
      PROVE  /\ x = <<x[1], x[2]>>
             /\ IsKV(s) \/ Len(x[2]) = Lowest(s) => x[1] = s.owner
             /\ LocalKey(s, x) = OwnKey <=> x = c
  <2>1. x = <<x[1], x[2]>>
    BY <1>1, <1>8, FiledLevels
  <2>2. Len(x[2]) = Len(c[2]) <=> x = c
    BY <1>6
  <2>3. LocalKey(s, x) = OwnKey <=> Len(x[2]) = Len(c[2])
    <3>1. CASE Len(c[2]) > Len(x[2])
      <4>1. LocalKey(s, x) = c[2][Len(x[2]) + 1]
        BY <1>3, <3>1 DEF LocalKey
      <4>2. Len(x[2]) + 1 \in 1..Len(c[2])
        BY <1>2, <1>6, <3>1
      <4>3. c[2][Len(x[2]) + 1] \in Key
        BY <1>2, <4>2
      <4> QED BY <1>2, <1>6, <3>1, <4>1, <4>3, KeysAssumption
    <3>2. CASE ~(Len(c[2]) > Len(x[2]))
      <4>1. Len(x[2]) = Len(c[2])
        BY <1>2, <1>6, <3>2
      <4> QED BY <1>3, <3>2, <4>1 DEF LocalKey, OwnKey
    <3> QED BY <3>1, <3>2
  <2> QED BY <1>3, <2>1, <2>2, <2>3
<1>10. Revival(d, c, p, s, C)
  <2>1. \A x \in C : /\ x = <<x[1], x[2]>> /\ x[2] \in Seq(Key)
                     /\ Len(x[2]) \in Highest(s)..Lowest(s) /\ x[2] = Prefix(FullPath(s), Len(x[2]))
                     /\ IsKV(s) \/ Len(x[2]) = Lowest(s) => x[1] = s.owner
    BY <1>3, <1>6, <1>9
  <2>2. \A m \in Highest(s)..Lowest(s) : \E x \in C : Len(x[2]) = m
    BY <1>3, <1>6
  <2>3. Lowest(s) <= Len(c[2])
    BY <1>2, <1>3
  <2> QED BY <1>2, <1>3, <1>4, <1>8, <1>9, <2>1, <2>2, <2>3 DEF Revival
<1> QED BY <1>10 DEF s, C

(* A path is what comes before a key, and the rest. *)
LEMMA SplitPath ==
  ASSUME NEW q \in Seq(Key), NEW h \in Nat, h < Len(q)
  PROVE  LET rest == SubSeq(q, h + 1, Len(q))
         IN  /\ rest \in Seq(Key) /\ rest # <<>> /\ Len(rest) = Len(q) - h
             /\ Prefix(q, h) \o rest = q
<1> DEFINE a == SubSeq(q, 1, h)
           b == SubSeq(q, h + 1, Len(q))
           n == Len(q)
<1>1. n \in Nat /\ h \in 0..n /\ h < n
  OBVIOUS
<1>2. a \in Seq(Key) /\ Len(a) = h /\ \A i \in 1..h : a[i] = q[i]
  OBVIOUS
<1>3. b \in Seq(Key) /\ Len(b) = n - h /\ \A i \in 1..(n - h) : b[i] = q[h + i]
  OBVIOUS
<1> HIDE DEF a, b, n
<1>4. /\ a \o b \in Seq(Key) /\ Len(a \o b) = n
      /\ \A i \in 1..n : (a \o b)[i] = IF i <= h THEN a[i] ELSE b[i - h]
  <2>1. a \in Seq(Key) /\ b \in Seq(Key)
    BY <1>2, <1>3
  <2>2. /\ a \o b \in Seq(Key) /\ Len(a \o b) = Len(a) + Len(b)
        /\ \A i \in 1..(Len(a) + Len(b)) : (a \o b)[i] = IF i <= Len(a) THEN a[i] ELSE b[i - Len(a)]
    BY <2>1
  <2>3. Len(a) = h /\ Len(a) + Len(b) = n
    BY <1>1, <1>2, <1>3
  <2> QED BY <2>2, <2>3
<1>5. \A i \in 1..n : (a \o b)[i] = q[i]
  <2> SUFFICES ASSUME NEW i \in 1..n PROVE (a \o b)[i] = q[i]
    OBVIOUS
  <2>1. CASE i <= h
    BY <1>1, <1>2, <1>4, <2>1
  <2>2. CASE ~(i <= h)
    <3>1. i - h \in 1..(n - h) /\ h + (i - h) = i
      BY <1>1, <2>2
    <3>2. b[i - h] = q[h + (i - h)]
      BY <1>3, <3>1
    <3> QED BY <1>4, <2>2, <3>1, <3>2
  <2> QED BY <2>1, <2>2
<1>6. a \o b = q
  <2> DEFINE x == a \o b
  <2>1. x \in Seq(Key) /\ Len(x) = Len(q) /\ \A i \in 1..Len(q) : x[i] = q[i]
    BY <1>4, <1>5 DEF n
  <2> HIDE DEF x
  <2>2. x = q
    BY <2>1
  <2> QED BY <2>2 DEF x
<1>7. b # <<>>
  BY <1>1, <1>3
<1> QED BY <1>3, <1>6, <1>7 DEF a, b, n, Prefix

(* The line `a.b = {}` that stands for a table no header stands for.       *)
InlineHost(d, c, p) == CHOOSE x \in Lineage(d, c) : x[2] = d.stream[p].host
InlineLine(d, c, p) ==
  LET host == InlineHost(d, c, p)
  IN  KV(host[2], SubSeq(c[2], Len(host[2]) + 1, Len(c[2])), c[1], EmptyInline)

LEMMA InlineRevival ==
  ASSUME NEW d, Tidy(d), NEW p \in 1..Len(d.stream), NEW c \in FiledAt(d, p), Implicit(d, c),
         IsKV(d.stream[p])
  PROVE  Revival(d, c, p, InlineLine(d, c, p), Between(d, InlineHost(d, c, p), Parent(d, c)))
<1> DEFINE t    == d.stream[p]
           f    == FullPath(t)
           host == InlineHost(d, c, p)
           s    == InlineLine(d, c, p)
           C    == Between(d, host, Parent(d, c))
           h    == Len(t.host)
<1>1. PICK v : Reading(v, d)
  BY TidyReads
<1>2. /\ c = <<c[1], c[2]>> /\ c[1] \in Nat /\ c[2] \in Path /\ c[2] \in Seq(Key) /\ Len(c[2]) \in Nat
      /\ Len(c[2]) # 0
      /\ \A i \in 1..Len(d.stream) : IsHeader(d.stream[i]) => Top(d.stream[i]) # c
      /\ \A g \in RefSet(d, c) : LocalKey(g, c) # OwnKey
  BY <1>1, ImplicitFacts DEF Path
<1>3. /\ t \in Slots /\ t \in KVSlots
  BY <1>1, FiledFacts, SlotsType DEF Slots
<1>4. /\ f \in Seq(Key) /\ Len(f) \in Nat /\ Lowest(t) = Len(f) - 1 /\ Highest(t) = h /\ h \in Nat
      /\ Prefix(f, h) = t.host /\ t.host \in Seq(Key) /\ h <= Lowest(t)
  BY <1>3, LevelsOf
<1>5. /\ \A x \in FiledAt(d, p) : /\ x = <<x[1], x[2]>> /\ Len(x[2]) \in h..Lowest(t) /\ x[2] = Prefix(f, Len(x[2]))
                                  /\ x[1] = t.owner
      /\ \A m \in h..Lowest(t) : \E x \in FiledAt(d, p) : Len(x[2]) = m
  BY <1>1, <1>4, FiledLevels
<1>6. /\ \A y \in FiledAt(d, p) : Len(y[2]) <= Len(c[2]) => y \in Lineage(d, c)
      /\ \A z \in Lineage(d, c) : h <= Len(z[2]) => z \in FiledAt(d, p)
  BY <1>1, <1>4, LineageFiled
<1>7. /\ \A z \in Lineage(d, c) : /\ Len(z[2]) \in 0..Len(c[2]) /\ z[2] = Prefix(c[2], Len(z[2]))
                                  /\ z[2] \in Seq(Key)
                                  /\ Lineage(d, z) \subseteq Lineage(d, c)
                                  /\ Len(z[2]) # 0 => Parent(d, z) \in Lineage(d, c)
      /\ \A y, z \in Lineage(d, c) : Len(y[2]) = Len(z[2]) => y = z
      /\ c \in Lineage(d, c)
  BY <1>2, LineageFacts
<1> HIDE DEF t, f, h
<1>8. host \in Lineage(d, c) /\ host[2] = t.host /\ Len(host[2]) = h
  <2>1. PICK x \in FiledAt(d, p) : Len(x[2]) = h
    BY <1>4, <1>5
  <2>2. x \in Lineage(d, c) /\ x[2] = t.host
    BY <1>4, <1>5, <1>6, <2>1
  <2>3. \E z \in Lineage(d, c) : z[2] = d.stream[p].host
    BY <2>2 DEF t
  <2>4. host \in Lineage(d, c) /\ host[2] = d.stream[p].host
    BY <2>3 DEF InlineHost
  <2> QED BY <2>4 DEF t, h
<1>9. h < Len(c[2]) /\ c[1] = t.owner
  <2>1. c[1] = t.owner /\ h <= Len(c[2])
    BY <1>4, <1>5
  <2>2. Len(c[2]) # h
    <3> SUFFICES ASSUME Len(c[2]) = h PROVE FALSE
      OBVIOUS
    <3>1. c = <<t.owner, t.host>>
      BY <1>4, <1>5
    <3>2. Within(d, p, t.owner, t.host)
      BY <1>1 DEF Reading, Sectioned, t
    <3>3. CASE \E j \in 1..p : Under(d, j, p, t.owner, t.host)
      <4>1. PICK j \in 1..p : IsHeader(d.stream[j]) /\ Top(d.stream[j]) = c
        BY <3>1, <3>3 DEF Under
      <4>2. j \in 1..Len(d.stream)
        BY <1>1, FiledFacts
      <4> QED BY <1>2, <4>1, <4>2
    <3>4. CASE t.owner = NoEntry /\ t.host = <<>>
      BY <1>2, <3>1, <3>4 DEF Path
    <3> QED BY <3>2, <3>3, <3>4 DEF Within
  <2> QED BY <1>2, <1>4, <2>1, <2>2
<1> DEFINE key == SubSeq(c[2], h + 1, Len(c[2]))
<1>10. /\ key \in Seq(Key) /\ Len(key) = Len(c[2]) - h /\ key \in Path
       /\ t.host \o key = c[2]
  <2>1. t.host = Prefix(c[2], h)
    BY <1>7, <1>8
  <2> DEFINE q == c[2]
  <2>2. q \in Seq(Key) /\ h \in Nat /\ h < Len(q)
    BY <1>2, <1>4, <1>9
  <2> HIDE DEF q
  <2>3. LET rest == SubSeq(q, h + 1, Len(q))
        IN  /\ rest \in Seq(Key) /\ rest # <<>> /\ Len(rest) = Len(q) - h
            /\ Prefix(q, h) \o rest = q
    BY <2>2, SplitPath
  <2> QED BY <2>1, <2>3 DEF Path, q
<1>11. s = KV(t.host, key, c[1], EmptyInline)
  BY <1>8 DEF InlineLine
<1> HIDE DEF s, key
<1>12. /\ s \in Slots /\ IsKV(s) /\ ~IsHeader(s) /\ ~IsEntryHeader(s)
       /\ s.host = t.host /\ s.key = key /\ s.owner = c[1] /\ FullPath(s) = c[2]
       /\ Highest(s) = h /\ Lowest(s) = Len(c[2]) - 1
       /\ Top(s) = <<c[1], Front(c[2])>>
  <2>1. s \in KVSlots
    BY <1>2, <1>4, <1>10, <1>11, EmptyAssumption DEF KVSlots, KV
  <2>2. IsKV(s) /\ ~IsHeader(s) /\ s.host = t.host /\ s.key = key /\ s.owner = c[1]
    BY <1>11 DEF KV, IsKV, IsHeader
  <2>3. FullPath(s) = c[2]
    BY <1>10, <2>2 DEF FullPath
  <2> QED BY <2>1, <2>2, <2>3 DEF Slots, IsEntryHeader, Highest, Lowest, Top, h
<1>13. s \notin Range(d.stream)
  <2> SUFFICES ASSUME s \in Range(d.stream) PROVE FALSE
    OBVIOUS
  <2>1. PICK i \in 1..Len(d.stream) : d.stream[i] = s
    BY <1>1, FiledFacts
  <2>2. KindOf(d, Top(s), Last(c[2])) = "value"
    BY <1>12, <2>1, LeafBound
  <2>3. PICK y \in FiledAt(d, p) : Above(d, y, c)
    BY <1>1, <1>4, <1>9 DEF Reading, Chained, t
  <2>4. y = Top(s)
    <3>1. y = <<y[1], y[2]>> /\ y[1] = c[1]
      BY <1>5, <1>9
    <3>2. y[2] = Front(c[2])
      BY <2>3 DEF Above
    <3> QED BY <1>12, <3>1, <3>2
  <2> QED BY <2>2, <2>3, <2>4 DEF Above
<1> DEFINE up == Parent(d, c)
<1>14. up \in Lineage(d, c) /\ Len(up[2]) = Len(c[2]) - 1 /\ up[2] \in Seq(Key)
  <2>1. up[2] = Front(c[2])
    BY DEF Parent
  <2>2. Len(Front(c[2])) = Len(c[2]) - 1
    BY <1>2, FrontLast
  <2> QED BY <1>2, <1>7, <2>1, <2>2
<1> HIDE DEF up
<1>15. /\ \A z \in Lineage(d, up) : Len(z[2]) \in 0..Len(up[2]) /\ z \in Lineage(d, c)
       /\ \A j \in 0..Len(up[2]) : \E z \in Lineage(d, up) : Len(z[2]) = j
  BY <1>7, <1>14, LineageFacts
<1>16. C = {x \in Lineage(d, up) : Len(x[2]) >= h}
  BY <1>8 DEF Between, up
<1> HIDE DEF C, host
<1>17. ASSUME NEW x \in C
       PROVE  /\ x \in FiledAt(d, p) /\ x = <<x[1], x[2]>> /\ x[2] \in Seq(Key)
              /\ Len(x[2]) \in h..(Len(c[2]) - 1) /\ x[2] = Prefix(c[2], Len(x[2]))
              /\ x[1] = c[1]
              /\ x # c /\ LocalKey(s, x) # OwnKey
  <2>1. x \in Lineage(d, c) /\ Len(x[2]) \in h..(Len(c[2]) - 1)
    BY <1>2, <1>4, <1>14, <1>15, <1>16
  <2>2. x \in FiledAt(d, p) /\ x[2] \in Seq(Key) /\ x[2] = Prefix(c[2], Len(x[2]))
    BY <1>6, <1>7, <2>1, <1>4
  <2>3. x # c
    BY <1>2, <2>1
  <2>4. LocalKey(s, x) = key[Len(x[2]) - h + 1]
    BY <1>12 DEF LocalKey, h
  <2>5. Len(x[2]) - h + 1 \in 1..Len(key)
    BY <1>2, <1>4, <1>10, <2>1
  <2>6. key[Len(x[2]) - h + 1] \in Key
    BY <1>10, <2>5
  <2> QED BY <1>5, <1>9, <2>1, <2>2, <2>3, <2>4, <2>6, KeysAssumption
<1>18. \A m \in h..(Len(c[2]) - 1) : \E x \in C : Len(x[2]) = m
  <2> SUFFICES ASSUME NEW m \in h..(Len(c[2]) - 1) PROVE \E x \in C : Len(x[2]) = m
    OBVIOUS
  <2>1. m \in 0..Len(up[2]) /\ m >= h
    BY <1>2, <1>4, <1>14
  <2>2. PICK z \in Lineage(d, up) : Len(z[2]) = m
    BY <1>15, <2>1
  <2> QED BY <1>16, <2>1, <2>2
<1>19. Revival(d, c, p, s, C)
  <2>1. \A x \in C : /\ x = <<x[1], x[2]>> /\ x[2] \in Seq(Key)
                     /\ Len(x[2]) \in Highest(s)..Lowest(s) /\ x[2] = Prefix(FullPath(s), Len(x[2]))
                     /\ IsKV(s) \/ Len(x[2]) = Lowest(s) => x[1] = s.owner
    BY <1>12, <1>17
  <2>2. \A m \in Highest(s)..Lowest(s) : \E x \in C : Len(x[2]) = m
    BY <1>12, <1>18
  <2>3. Lowest(s) <= Len(c[2])
    BY <1>2, <1>12
  <2>4. C \subseteq FiledAt(d, p) /\ c \notin C
    BY <1>17
  <2>5. \A x \in C : LocalKey(s, x) = OwnKey <=> x = c
    BY <1>17
  <2>6. IsKV(d.stream[p]) /\ s.owner = d.stream[p].owner
    BY <1>9, <1>12 DEF t
  <2> QED BY <1>12, <1>13, <2>1, <2>2, <2>3, <2>4, <2>5, <2>6 DEF Revival
<1> QED BY <1>19 DEF s, C, host

(* Where a slot is; and what putting a line there, filed on C, makes.      *)
LEMMA PutInPlace ==
  ASSUME NEW v, NEW d, Reading(v, d), NEW p \in 1..Len(d.stream)
  PROVE  /\ Posn(d, d.stream[p]) = p
         /\ \A s, C : s \in Slots /\ s \notin Range(d.stream) =>
              LET d1 == FileOn(Splice(d, p - 1, <<s>>), s, C)
              IN  d1.stream = InsertAt(d.stream, p, s) /\ d1.stream[p] = s /\ d1.filed[s] = C
<1> DEFINE q == d.stream
           n == Len(q)
<1>1. /\ q \in Seq(Slots) /\ n \in Nat /\ DOMAIN q = 1..n /\ p \in 1..n
      /\ DOMAIN d.filed = Range(q) /\ Spread(q) /\ NoSlot \notin Range(q)
      /\ q[p] \in Range(q)
  BY FiledFacts
<1>2. Posn(d, q[p]) = p
  <2>1. \A i \in DOMAIN q : q[i] = q[p] => i = p
    BY <1>1 DEF Spread
  <2>2. (CHOOSE i \in DOMAIN d.stream : d.stream[i] = q[p]) = p
    BY <1>1, <2>1
  <2>3. q[p] # NoSlot
    BY <1>1
  <2> QED BY <2>2, <2>3 DEF Posn
<1>3. ASSUME NEW s \in Slots, s \notin Range(q), NEW C
      PROVE  LET d1 == FileOn(Splice(d, p - 1, <<s>>), s, C)
             IN  d1.stream = InsertAt(q, p, s) /\ d1.stream[p] = s /\ d1.filed[s] = C
  <2> DEFINE d0 == Splice(d, p - 1, <<s>>)
             d1 == FileOn(d0, s, C)
  <2>1. d = [stream |-> d.stream, filed |-> d.filed, tree |-> d.tree, aot |-> d.aot]
    BY DEF Reading, IsDocument
  <2>2. (p - 1) + 1 = p
    BY <1>1
  <2>3. d0.stream = SubSeq(q, 1, p - 1) \o <<s>> \o SubSeq(q, p, Len(q))
    BY <2>1, <2>2 DEF Splice
  <2>4. d0.filed = Overlaid(d.filed, [x \in Range(<<s>>) |-> {}])
    BY <2>1 DEF Splice
  <2>5. Range(<<s>>) = {s}
    <3>1. DOMAIN <<s>> = {1} /\ <<s>>[1] = s
      OBVIOUS
    <3> QED BY <3>1 DEF Range
  <2>6. s \in DOMAIN d0.filed /\ d0.filed[s] = {}
    BY <2>4, <2>5 DEF Overlaid
  <2>7. DOMAIN d0 = {"stream", "filed", "tree", "aot"}
    BY <2>1 DEF Splice
  <2> HIDE DEF d0
  <2>8. d1.stream = d0.stream /\ d1.filed = [d0.filed EXCEPT ![s] = @ \cup C]
    BY <2>7 DEF FileOn
  <2>9. d1.filed[s] = C
    BY <2>6, <2>8
  <2>10. d1.stream = InsertAt(q, p, s)
    BY <2>3, <2>8 DEF InsertAt
  <2> HIDE DEF d1
  <2>11. d1.stream[p] = s
    <3> DEFINE m   == p - 1
               run == InsertAt(q, p, s)
    <3>1. Inserts(run, q, m, s) /\ m + 1 = p
      BY <1>1 DEF Inserts
    <3> HIDE DEF m, run, q
    <3>2. run[m + 1] = s
      BY <1>1, <1>3, <3>1, InsertionKeys
    <3> QED BY <2>10, <3>1, <3>2 DEF run
  <2> QED BY <2>9, <2>10, <2>11 DEF d0, d1
<1> QED BY <1>2, <1>3

(* Where a line s that is put right above the slot at p is filed: on C,    *)
(* which takes over from that slot whatever s does not say itself.         *)
Stands(d, p, s, C) ==
  /\ p \in 1..Len(d.stream) /\ s \in Slots /\ s \notin Range(d.stream)
  /\ \A x \in C : /\ x = <<x[1], x[2]>> /\ x[2] \in Seq(Key)
                  /\ Len(x[2]) \in Highest(s)..Lowest(s) /\ x[2] = Prefix(FullPath(s), Len(x[2]))
                  /\ IsKV(s) \/ Len(x[2]) = Lowest(s) => x[1] = s.owner
                  /\ IsKV(s) \/ Len(x[2]) = Lowest(s) \/ (x \in FiledAt(d, p) /\ ~OpensAbove(s, x[2]))
  /\ \A m \in Highest(s)..Lowest(s) : \E x \in C : Len(x[2]) = m

(* Read again, once the slots R that bound something below have gone, the  *)
(* line that stands in their place is filed where it was put.              *)
LEMMA StandsReread ==
  ASSUME FilingInv, NEW p, NEW s, NEW C, Stands(doc, p, s, C),
         NEW R, R \subseteq Range(doc.stream), doc.stream[p] \in R,
         \A t \in R : \A x \in doc.filed[t] :
           x[2] \in Seq(Key) /\ Len(x[2]) < Lowest(s) => LocalKey(t, x) # OwnKey,
         NEW w, NEW e, Reading(w, e), e.stream = Dropping(InsertAt(doc.stream, p, s), R)
  PROVE  e.filed[s] = C
<1> DEFINE q   == doc.stream
           run == InsertAt(q, p, s)
           ord == Keys(run)
           new == e.stream
<1>1. PICK v : Reading(v, doc)
  BY InvCurrent
<1>2. /\ p \in 1..Len(q) /\ s \in Slots /\ s \notin Range(q)
      /\ \A x \in C : /\ x = <<x[1], x[2]>> /\ x[2] \in Seq(Key)
                      /\ Len(x[2]) \in Highest(s)..Lowest(s) /\ x[2] = Prefix(FullPath(s), Len(x[2]))
                      /\ IsKV(s) \/ Len(x[2]) = Lowest(s) => x[1] = s.owner
                      /\ IsKV(s) \/ Len(x[2]) = Lowest(s) \/ (x \in FiledAt(doc, p) /\ ~OpensAbove(s, x[2]))
      /\ \A m \in Highest(s)..Lowest(s) : \E x \in C : Len(x[2]) = m
  BY DEF Stands
<1>3. /\ q \in Seq(Slots) /\ Len(q) \in Nat /\ Spread(q)
      /\ \A i \in 1..Len(q) : q[i] \in Slots /\ q[i] \in Range(q)
      /\ \A t \in Range(q) : \E i \in 1..Len(q) : q[i] = t
      /\ DOMAIN doc.filed = Range(q)
  BY <1>1, FiledFacts
<1>4. /\ run \in Seq(Slots) /\ Spread(run) /\ Range(run) = Range(q) \cup {s}
      /\ ord[s] = p
      /\ \A i \in 1..(p - 1) : ord[q[i]] = i /\ run[i] = q[i]
      /\ \A i \in 1..Len(q) : i < p \/ p < ord[q[i]]
      /\ Orders(q, ord, Range(q))
  <2>1. q \in Seq(Slots) /\ Spread(q) /\ s \in Slots /\ s \notin Range(q) /\ p \in 1..Len(q)
    BY <1>2, <1>3
  <2> HIDE DEF q
  <2> QED BY <2>1, InsertedSpread
<1>5. Keyed(ord, Range(run))
  BY <1>4, KeysMeaning
<1> HIDE DEF run, ord
<1>6. R \subseteq Range(run) /\ s \in Range(run) \ R
  BY <1>2, <1>4
<1>7. /\ Range(new) = Range(run) \ R
      /\ Orders(new, ord, Range(run) \ R)
      /\ Agreeing(ord, Keys(new), Range(new))
  BY <1>4, <1>6, KeptRun DEF run, ord
<1>8. /\ new \in Seq(Slots) /\ Len(new) \in Nat
      /\ \A i \in 1..Len(new) : new[i] \in Slots /\ new[i] \in Range(new)
      /\ \A t \in Range(new) : \E i \in 1..Len(new) : new[i] = t
      /\ Spread(new) /\ DOMAIN e.filed = Range(new)
  BY FiledFacts
<1>9. \A i \in 1..Len(new) : Keys(new)[new[i]] = i
  BY <1>8, KeysMeaning
<1> HIDE DEF q, new
<1>10. PICK j \in 1..Len(new) : new[j] = s
  BY <1>6, <1>7, <1>8
<1>11. ASSUME NEW i \in 1..Len(new), NEW k \in 1..Len(new)
       PROVE  i <= k <=> ord[new[i]] <= ord[new[k]]
  <2>1. new[i] \in Range(new) /\ new[k] \in Range(new) /\ Keys(new)[new[i]] = i /\ Keys(new)[new[k]] = k
    BY <1>8, <1>9
  <2>2. /\ ord[new[i]] \in Int /\ ord[new[k]] \in Int
        /\ ord[new[k]] < ord[new[i]] <=> Keys(new)[new[k]] < Keys(new)[new[i]]
    BY <1>7, <2>1 DEF Agreeing
  <2> QED BY <2>1, <2>2
<1>12. /\ \A y \in FiledAt(e, j) : /\ y = <<y[1], y[2]>>
                                   /\ Len(y[2]) \in Highest(s)..Lowest(s) /\ y[2] = Prefix(FullPath(s), Len(y[2]))
                                   /\ IsKV(s) \/ Len(y[2]) = Lowest(s) => y[1] = s.owner
       /\ \A x, y \in FiledAt(e, j) : Len(x[2]) = Len(y[2]) => x = y
       /\ \A m \in Highest(s)..Lowest(s) : \E y \in FiledAt(e, j) : Len(y[2]) = m
  <2> DEFINE r == e.stream[j]
  <2>1. r = s /\ j \in 1..Len(e.stream)
    BY <1>10 DEF new
  <2>2. /\ \A y \in FiledAt(e, j) : /\ y = <<y[1], y[2]>>
                                    /\ Len(y[2]) \in Highest(r)..Lowest(r) /\ y[2] = Prefix(FullPath(r), Len(y[2]))
                                    /\ IsKV(r) \/ Len(y[2]) = Lowest(r) => y[1] = r.owner
        /\ \A x, y \in FiledAt(e, j) : Len(x[2]) = Len(y[2]) => x = y
        /\ \A m \in Highest(r)..Lowest(r) : \E y \in FiledAt(e, j) : Len(y[2]) = m
    BY <2>1, FiledLevels
  <2> HIDE DEF r
  <2> QED BY <2>1, <2>2
<1>13. e.filed[s] = FiledAt(e, j)
  BY <1>10 DEF FiledAt, new
<1>14. Highest(s) \in Nat /\ Lowest(s) \in Nat
  BY <1>2, LevelsOf
<1>15. ASSUME NEW x \in C, NEW y \in FiledAt(e, j), Len(x[2]) = Len(y[2]) PROVE x = y
  <2>1. /\ x[2] = y[2] /\ x = <<x[1], x[2]>> /\ y = <<y[1], y[2]>>
        /\ Len(x[2]) \in Highest(s)..Lowest(s) /\ x[2] \in Seq(Key)
    BY <1>2, <1>12, <1>15
  <2>2. CASE IsKV(s) \/ Len(x[2]) = Lowest(s)
    <3>1. x[1] = s.owner /\ y[1] = s.owner
      BY <1>2, <1>12, <1>15, <2>2
    <3> QED BY <2>1, <3>1
  <2>3. CASE ~(IsKV(s) \/ Len(x[2]) = Lowest(s))
    <3>1. Len(x[2]) < Lowest(s) /\ x \in FiledAt(doc, p) /\ ~OpensAbove(s, x[2])
      BY <1>2, <1>14, <2>1, <2>3
    <3>2. ASSUME NEW t, OpensAbove(t, x[2]), NEW g \in 1..p, t = q[g]
          PROVE  \E h \in 1..j : t = new[h]
      <4>1. g \in 1..Len(q) /\ t \in Range(q)
        BY <1>2, <1>3, <3>2
      <4>2. t \notin R
        <5> SUFFICES ASSUME t \in R PROVE FALSE
          OBVIOUS
        <5> DEFINE top == Top(t)
        <5>1. t \in HeaderSlots /\ IsHeader(t) /\ ~IsKV(t)
          <6>1. t \in Slots /\ IsHeader(t)
            BY <1>3, <3>2, <4>1 DEF OpensAbove, IsEntryHeader
          <6> QED BY <6>1, SlotsType DEF Slots, IsHeader, IsKV
        <5>2. top[2] = t.path /\ t.path \in Seq(Key)
          BY <5>1 DEF Top, HeaderSlots, Path
        <5>3. Len(t.path) <= Len(x[2])
          BY <2>1, <3>2, <5>2 DEF OpensAbove, IsStrictPrefix, IsPrefix
        <5>4. top \in FiledAt(doc, g) /\ FiledAt(doc, g) = doc.filed[t]
          BY <1>1, <3>2, <4>1, FiledLevels DEF FiledAt, q
        <5> HIDE DEF top
        <5>5. LocalKey(t, top) # OwnKey
          BY <1>14, <2>1, <3>1, <5>2, <5>3, <5>4
        <5>6. LocalKey(t, top) = OwnKey
          BY <1>1, <3>2, <4>1, <5>1, <5>2, <5>4, LocalKeys DEF q
        <5> QED BY <5>5, <5>6
      <4>3. g # p
        BY <3>2, <4>2 DEF q
      <4>4. ord[t] = g /\ g < p
        <5>1. g \in 1..(p - 1)
          BY <1>2, <1>3, <4>3
        <5> QED BY <1>2, <1>3, <1>4, <3>2, <5>1
      <4>5. PICK h \in 1..Len(new) : new[h] = t
        BY <1>4, <1>7, <1>8, <4>1, <4>2
      <4>6. h <= j
        BY <1>2, <1>3, <1>4, <1>10, <1>11, <4>4, <4>5
      <4>7. h \in 1..j
        BY <4>6, <1>8
      <4> QED BY <4>5, <4>7
    <3>3. ASSUME NEW t, OpensAbove(t, x[2]), NEW h \in 1..j, t = new[h]
          PROVE  \E g \in 1..p : t = q[g]
      <4>1. h \in 1..Len(new) /\ h <= j /\ t \in Range(new)
        BY <1>8, <3>3
      <4>2. t # s
        BY <3>1, <3>3
      <4>3. t \in Range(q)
        BY <1>4, <1>7, <4>1, <4>2
      <4>4. PICK g \in 1..Len(q) : q[g] = t
        BY <1>3, <4>3
      <4>5. ord[t] <= p
        BY <1>4, <1>10, <1>11, <3>3, <4>1
      <4>6. ord[t] \in Int
        BY <1>4, <1>5, <4>3 DEF Keyed
      <4>7. g < p
        BY <1>2, <1>3, <1>4, <4>4, <4>5, <4>6
      <4>8. g \in 1..p
        BY <4>7, <1>2, <1>3
      <4> QED BY <4>4, <4>8
    <3>4. OpenedAlike(doc, p, e, j, x[2])
      BY <3>2, <3>3 DEF OpenedAlike, q, new
    <3>5. InOneOrder(doc, e, ord)
      <4> DEFINE both == Range(q) \cup Range(new)
      <4>1. both \subseteq Range(run)
        BY <1>4, <1>7
      <4> HIDE DEF both
      <4>2. Keyed(ord, both)
        BY <1>5, <4>1, KeyedSubset
      <4> QED BY <1>4, <1>7, <4>2 DEF InOneOrder, both, q, new
    <3>6. p \in 1..Len(doc.stream) /\ j \in 1..Len(e.stream) /\ x \in FiledAt(doc, p)
      BY <1>2, <3>1 DEF q, new
    <3>7. x[2] = y[2]
      BY <2>1
    <3>8. x[1] = y[1]
      <4>1. Reading(v, doc) /\ Reading(w, e) /\ y \in FiledAt(e, j)
        BY <1>1
      <4> HIDE DEF ord
      <4> QED BY <3>4, <3>5, <3>6, <3>7, <4>1, SameRuler
    <3> QED BY <2>1, <3>8
  <2> QED BY <2>2, <2>3
<1>16. ASSUME NEW x \in C PROVE x \in FiledAt(e, j)
  <2>1. PICK y \in FiledAt(e, j) : Len(y[2]) = Len(x[2])
    BY <1>2, <1>12, <1>16
  <2> QED BY <1>15, <2>1
<1>17. ASSUME NEW y \in FiledAt(e, j) PROVE y \in C
  <2>1. PICK x \in C : Len(x[2]) = Len(y[2])
    BY <1>2, <1>12, <1>17
  <2> QED BY <1>15, <2>1
<1> QED BY <1>13, <1>16, <1>17

LEMMA RevivalStands ==
  ASSUME NEW d, NEW c, NEW p, NEW s, NEW C, Revival(d, c, p, s, C)
  PROVE  Stands(d, p, s, C)
<1>1. /\ p \in 1..Len(d.stream) /\ s \in Slots /\ s \notin Range(d.stream) /\ ~IsEntryHeader(s)
      /\ C \subseteq FiledAt(d, p)
      /\ \A x \in C : /\ x = <<x[1], x[2]>> /\ x[2] \in Seq(Key)
                      /\ Len(x[2]) \in Highest(s)..Lowest(s) /\ x[2] = Prefix(FullPath(s), Len(x[2]))
                      /\ IsKV(s) \/ Len(x[2]) = Lowest(s) => x[1] = s.owner
      /\ \A m \in Highest(s)..Lowest(s) : \E x \in C : Len(x[2]) = m
  BY DEF Revival
<1>2. \A y : ~OpensAbove(s, y)
  BY <1>1 DEF OpensAbove
<1> QED BY <1>1, <1>2 DEF Stands

(* A listing of R lists nothing else.                                      *)
LEMMA OrdersRange ==
  ASSUME NEW a, NEW ord, NEW R, Orders(a, ord, R)
  PROVE  Range(a) = R
<1>1. a \in Seq(R) /\ \A s \in R : \E i \in 1..Len(a) : a[i] = s
  BY DEF Orders
<1>2. DOMAIN a = 1..Len(a) /\ \A i \in 1..Len(a) : a[i] \in R
  BY <1>1
<1> QED BY <1>1, <1>2 DEF Range

(* The slot that comes first is one of them.                               *)
LEMMA FirstAmong ==
  ASSUME NEW v, NEW d, Reading(v, d), NEW S, S \subseteq Range(d.stream), S # {}
  PROVE  FirstOf(d, S) \in S
<1>1. /\ Len(d.stream) \in Nat
      /\ \A s \in Range(d.stream) : \E i \in 1..Len(d.stream) : d.stream[i] = s
  BY FiledFacts
<1>2. \A i \in 1..Len(d.stream) : Posn(d, d.stream[i]) = i
  BY PutInPlace
<1>3. \A s \in S : Posn(d, s) \in Nat
  BY <1>1, <1>2
<1> DEFINE T == {Posn(d, s) : s \in S}
<1>4. PICK t \in T : TRUE
  OBVIOUS
<1>5. T \in SUBSET Nat
  BY <1>3
<1> HIDE DEF T
<1>6. PICK r \in T : \A x \in T : r <= x
  BY <1>4, <1>5, LeastElement
<1>7. \E s \in S : \A x \in S : Posn(d, s) <= Posn(d, x)
  BY <1>6 DEF T
<1> QED BY <1>7 DEF FirstOf

LEMMA DeletionEnds ==
  ASSUME FilingInv, NEW c, NEW K, NEW R, NEW skip, Deletion(doc, c, K, R, skip),
         NEW G, NEW q, NEW all, Starts(G, q, c, K, R, skip, all), Apart(Range(q)),
         NEW owned, Orders(owned, Keys(q), R),
         NEW F, F = (IF all THEN ClearChildProjections(G, c) ELSE G),
         Becomes(Dropping(q, R), Without(Scrub(F, Keys(q), owned, skip), skip, owned)),
         \A t \in Range(q) \ Range(doc.stream) :
           /\ c \in G.backs[t] => LocalKey(t, c) = OwnKey
           /\ G.backs[t] = Reparsed(Dropping(q, R)).d.filed[t]
  PROVE  FilingInv'
<1>1. /\ UpToDate(F, q) /\ MayLeave(F, q, owned, R, skip)
      /\ \A t \in Range(doc.stream) \ R : F.backs[t] = doc.filed[t]
      /\ \A t \in Range(q) \ Range(doc.stream) :
           F.backs[t] = IF all /\ LocalKey(t, c) # OwnKey THEN G.backs[t] \ {c} ELSE G.backs[t]
  BY DeletionLeaves
<1>2. \A t \in Range(q) \ R : t \in Range(doc.stream) => F.backs[t] = doc.filed[t]
  BY <1>1
<1>3. ASSUME NEW t \in Range(q) \ R, t \notin Range(doc.stream)
      PROVE  F.backs[t] = Reparsed(Dropping(q, R)).d.filed[t]
  <2>1. t \in Range(q) \ Range(doc.stream)
    BY <1>3
  <2>2. /\ c \in G.backs[t] => LocalKey(t, c) = OwnKey
        /\ G.backs[t] = Reparsed(Dropping(q, R)).d.filed[t]
    BY <2>1
  <2>3. F.backs[t] = G.backs[t]
    BY <1>1, <2>1, <2>2
  <2> QED BY <2>2, <2>3
<1> QED BY <1>1, <1>2, <1>3, LeavingFiling

(* A table revived where its first line was: what its deletion starts from *)
(* and where it ends.                                                      *)
LEMMA RevivedFiling ==
  ASSUME FilingInv, NEW c \in DOMAIN caches.view, NEW K, NEW R, NEW skip, Deletion(doc, c, K, R, skip),
         K = KeysOf(doc, c), NEW p, doc.stream[p] \in R, NEW s, NEW C, Revival(doc, c, p, s, C),
         NEW run, run = InsertAt(doc.stream, p, s), NEW slots, Orders(slots, Keys(doc.stream), R),
         NEW G, G = File(caches, Keys(run), C \ {c}, C \cap {c}, s),
         Becomes(Dropping(run, R),
                 Without(Scrub(ClearChildProjections(G, c), Keys(run), slots, skip), skip, slots))
  PROVE  FilingInv'
<1> DEFINE q == doc.stream
<1>1. PICK v : Reading(v, doc)
  BY InvCurrent
<1>2. /\ UpToDate(caches, q) /\ Tidy(doc)
  BY InvCurrent
<1>3. /\ p \in 1..Len(q) /\ s \in Slots /\ s \notin Range(q) /\ ~IsEntryHeader(s)
      /\ \A x \in C : x[2] \in Seq(Key) /\ Len(x[2]) \in Highest(s)..Lowest(s)
      /\ Lowest(s) <= Len(c[2])
      /\ \A x \in C : LocalKey(s, x) = OwnKey <=> x = c
  BY DEF Revival
<1>4. /\ q \in Seq(Slots) /\ Len(q) \in Nat /\ Spread(q)
      /\ \A t \in Range(q) : \E i \in 1..Len(q) : q[i] = t
      /\ DOMAIN doc.filed = Range(q)
  BY <1>1, FiledFacts
<1>5. /\ c[2] \in Seq(Key) /\ K \subseteq Key
      /\ R \subseteq Range(doc.stream)
      /\ \A t \in R : \A x \in doc.filed[t] \ skip : \E k \in K : OnTheWay(t, c, k, x)
      /\ \A x \in skip : x[2] \in Seq(Key) => Len(c[2]) < Len(x[2])
  BY DEF Deletion
<1>6. FiledToo(G, run, C, s)
  BY RevivalFiled
<1>7. /\ run \in Seq(Slots) /\ Spread(run) /\ Range(run) = Range(q) \cup {s}
      /\ \A i, j \in 1..Len(q) : i < j => Keys(run)[q[i]] < Keys(run)[q[j]]
  <2>1. q \in Seq(Slots) /\ Spread(q) /\ s \in Slots /\ s \notin Range(q) /\ p \in 1..Len(q)
    BY <1>3, <1>4
  <2>2. run = InsertAt(q, p, s)
    OBVIOUS
  <2> HIDE DEF q
  <2> QED BY <2>1, <2>2, InsertedSpread
<1>8. Len(c[2]) \in Nat /\ Highest(s) \in Nat /\ Lowest(s) \in Nat
  BY <1>3, <1>5, LevelsOf
<1>9. C \cap skip = {}
  <2> SUFFICES ASSUME NEW x \in C, x \in skip PROVE FALSE
    OBVIOUS
  <2>1. x[2] \in Seq(Key) /\ Len(x[2]) \in Highest(s)..Lowest(s) /\ Len(c[2]) < Len(x[2])
    BY <1>3, <1>5
  <2> QED BY <1>3, <1>8, <2>1
<1>10. Starts(G, run, c, K, R, skip, TRUE)
  <2>1. /\ Consistent(G, Keys(run)) /\ G.sound
        /\ DOMAIN G.backs = Range(run) /\ G.backs[s] = C
        /\ \A t \in Range(doc.stream) : G.backs[t] = doc.filed[t]
        /\ DOMAIN G.view = DOMAIN caches.view \cup C
    BY <1>6 DEF FiledToo
  <2>2. UpToDate(G, run)
    BY <1>2, <1>7, <2>1 DEF UpToDate
  <2> HIDE DEF q
  <2>3. Range(run) \ Range(doc.stream) \subseteq {s}
    BY <1>7 DEF q
  <2> QED BY <1>7, <1>9, <2>1, <2>2, <2>3 DEF Starts, q
<1>11. Apart(Range(run))
  <2>1. Apart(Range(q)) /\ \A x : ~Opens(s, x)
    BY <1>2, <1>3, SlotsApart DEF Opens
  <2> QED BY <1>7, <2>1 DEF Apart
<1>12. Orders(slots, Keys(run), R)
  <2>1. /\ slots \in Seq(R) /\ \A t \in R : \E i \in 1..Len(slots) : slots[i] = t
        /\ \A i, j \in 1..Len(slots) : i < j => Keys(q)[slots[i]] < Keys(q)[slots[j]]
    BY DEF Orders
  <2>2. \A t \in Range(q) : Keys(q)[t] \in 1..Len(q) /\ q[Keys(q)[t]] = t
    BY <1>4, KeysMeaning
  <2>3. \A x, y \in Range(q) : Keys(q)[x] < Keys(q)[y] => Keys(run)[x] < Keys(run)[y]
    <3> HIDE DEF q
    <3> QED BY <1>7, <2>2
  <2>4. \A i \in 1..Len(slots) : slots[i] \in Range(q)
    BY <1>5, <2>1
  <2> HIDE DEF q
  <2>5. \A i, j \in 1..Len(slots) : i < j => Keys(run)[slots[i]] < Keys(run)[slots[j]]
    BY <2>1, <2>3, <2>4
  <2> QED BY <2>1, <2>5 DEF Orders
<1> DEFINE new == Dropping(run, R)
           e   == Reparsed(new).d
           w   == Reparsed(new).v
<1>13. /\ new \in Seq(Slots) /\ Range(new) = Range(run) \ R /\ Spread(new)
  <2>1. R \subseteq Range(run)
    BY <1>5, <1>7
  <2> QED BY <1>7, <2>1, KeptRun
<1> HIDE DEF new
<1>14. Reparsed(new).ok /\ e.stream = new
  BY DEF Becomes, new
<1>15. Reading(w, e)
  <2>1. Apart(Range(new))
    BY <1>11, <1>13 DEF Apart
  <2>2. EntriesApart(Reparsed(new).d)
    BY <1>13, <1>14, <2>1, ApartAgain
  <2> QED BY <1>13, <1>14, <2>2, TextReads DEF Accepts
<1> HIDE DEF e, w
<1>16. e.filed[s] = C
  <2>1. \A t \in R : \A x \in doc.filed[t] :
          x[2] \in Seq(Key) /\ Len(x[2]) < Lowest(s) => LocalKey(t, x) # OwnKey
    <3> SUFFICES ASSUME NEW t \in R, NEW x \in doc.filed[t],
                        x[2] \in Seq(Key), Len(x[2]) < Lowest(s)
                 PROVE  LocalKey(t, x) # OwnKey
      OBVIOUS
    <3>1. Len(x[2]) < Len(c[2])
      BY <1>3, <1>8
    <3>2. x \notin skip
      BY <1>5, <1>8, <3>1
    <3> QED BY <1>5, <3>2 DEF OnTheWay
  <2>2. e.stream = Dropping(InsertAt(doc.stream, p, s), R)
    BY <1>14 DEF new
  <2>3. Stands(doc, p, s, C)
    BY RevivalStands
  <2> QED BY <1>5, <1>15, <2>1, <2>2, <2>3, StandsReread
<1>17. \A t \in Range(run) \ Range(doc.stream) :
         /\ c \in G.backs[t] => LocalKey(t, c) = OwnKey
         /\ G.backs[t] = Reparsed(Dropping(run, R)).d.filed[t]
  <2> SUFFICES ASSUME NEW t \in Range(run) \ Range(doc.stream)
               PROVE  /\ c \in G.backs[t] => LocalKey(t, c) = OwnKey
                      /\ G.backs[t] = Reparsed(Dropping(run, R)).d.filed[t]
    OBVIOUS
  <2>1. t = s
    BY <1>7
  <2>2. G.backs[s] = C
    BY <1>6 DEF FiledToo
  <2> QED BY <1>3, <1>16, <2>1, <2>2 DEF e, new
<1> DEFINE all == TRUE
           F   == ClearChildProjections(G, c)
<1>18. /\ Starts(G, run, c, K, R, skip, all) /\ F = (IF all THEN ClearChildProjections(G, c) ELSE G)
       /\ Becomes(Dropping(run, R), Without(Scrub(F, Keys(run), slots, skip), skip, slots))
  BY <1>10
<1> HIDE DEF all, F
<1> QED BY ONLY FilingInv, Deletion(doc, c, K, R, skip), <1>11, <1>12, <1>17, <1>18, DeletionEnds

LEMMA DeleteFiling == FilingInv /\ DeleteBindings => FilingInv'
<1> SUFFICES ASSUME FilingInv, DeleteBindings PROVE FilingInv'
  OBVIOUS
<1> DEFINE q == doc.stream
           Gone(c, keys)  == UNION {Departing(doc, c, k) : k \in Range(keys)}
           Lower(c, keys) == UNION {BelowKey(doc, c, k) : k \in Range(keys)}
<1>1. PICK w : Reading(w, doc)
  BY InvCurrent
<1>2. /\ UpToDate(caches, q) /\ Tidy(doc) /\ Projected(caches, doc)
      /\ \A t \in Range(q) : caches.backs[t] = doc.filed[t]
  BY InvCurrent
<1>3a. PICK c \in DOMAIN doc.tree :
  \E keys \in {<<k>> : k \in KeysOf(doc, c)} \cup ({AllKeys(doc, c)} \ {<<>>}), public \in BOOLEAN :
      LET all     == Len(keys) = Len(doc.tree[c])
          slots   == InOrder(doc, Gone(c, keys))
          skip    == Lower(c, keys)
          primary == FirstOf(doc, IndexSet(doc, c, Last(keys)))
          revive  == public /\ all /\ Implicit(doc, c)
          d1      == IF ~revive THEN doc
                     ELSE IF IsKV(primary) THEN MaterialiseInline(doc, c, primary)
                     ELSE MaterialiseHeader(doc, c, primary)
          ord     == Keys(d1.stream)
          s       == d1.stream[Posn(doc, primary)]
          F1      == IF ~revive THEN caches
                     ELSE File(caches, ord, d1.filed[s] \ {c}, d1.filed[s] \cap {c}, s)
          F2      == IF all THEN ClearChildProjections(F1, c) ELSE F1
      IN  Becomes(Dropping(d1.stream, Range(slots)), Without(Scrub(F2, ord, slots, skip), skip, slots))
  BY DEF DeleteBindings
<1>3. PICK keys \in {<<k>> : k \in KeysOf(doc, c)} \cup ({AllKeys(doc, c)} \ {<<>>}), public \in BOOLEAN :
      LET all     == Len(keys) = Len(doc.tree[c])
          slots   == InOrder(doc, Gone(c, keys))
          skip    == Lower(c, keys)
          primary == FirstOf(doc, IndexSet(doc, c, Last(keys)))
          revive  == public /\ all /\ Implicit(doc, c)
          d1      == IF ~revive THEN doc
                     ELSE IF IsKV(primary) THEN MaterialiseInline(doc, c, primary)
                     ELSE MaterialiseHeader(doc, c, primary)
          ord     == Keys(d1.stream)
          s       == d1.stream[Posn(doc, primary)]
          F1      == IF ~revive THEN caches
                     ELSE File(caches, ord, d1.filed[s] \ {c}, d1.filed[s] \cap {c}, s)
          F2      == IF all THEN ClearChildProjections(F1, c) ELSE F1
      IN  Becomes(Dropping(d1.stream, Range(slots)), Without(Scrub(F2, ord, slots, skip), skip, slots))
  BY <1>3a
<1> DEFINE K       == Range(keys)
           R       == Gone(c, keys)
           skip    == Lower(c, keys)
           slots   == InOrder(doc, R)
           all     == Len(keys) = Len(doc.tree[c])
           last    == Last(keys)
           primary == FirstOf(doc, IndexSet(doc, c, last))
           revive  == public /\ all /\ Implicit(doc, c)
           d1      == IF ~revive THEN doc
                      ELSE IF IsKV(primary) THEN MaterialiseInline(doc, c, primary)
                      ELSE MaterialiseHeader(doc, c, primary)
           ord     == Keys(d1.stream)
           s       == d1.stream[Posn(doc, primary)]
           F1      == IF ~revive THEN caches
                      ELSE File(caches, ord, d1.filed[s] \ {c}, d1.filed[s] \cap {c}, s)
           F2      == IF all THEN ClearChildProjections(F1, c) ELSE F1
<1>4. Becomes(Dropping(d1.stream, Range(slots)), Without(Scrub(F2, ord, slots, skip), skip, slots))
  BY <1>3
<1>5. /\ c \in Nat \X Seq(Key)
      /\ \A k : k \in KeysOf(doc, c) <=> KindOf(doc, c, k) # "none"
      /\ KeysOf(doc, c) \subseteq Key
      /\ Range(AllKeys(doc, c)) = KeysOf(doc, c)
      /\ Len(AllKeys(doc, c)) = Len(doc.tree[c]) /\ Len(doc.tree[c]) \in Nat
      /\ AllKeys(doc, c) \in Seq(Key)
      /\ \A k \in KeysOf(doc, c) : Len(doc.tree[c]) = 1 => KeysOf(doc, c) = {k}
  BY <1>1, KeysBound
<1>6. /\ K \subseteq KeysOf(doc, c) /\ last \in K
      /\ all => K = KeysOf(doc, c)
      /\ ~all => \E k : K = {k}
  <2>1. ASSUME NEW k \in KeysOf(doc, c), keys = <<k>>
        PROVE  K = {k} /\ last = k /\ Len(keys) = 1
    <3>1. DOMAIN keys = {1} /\ keys[1] = k /\ Len(keys) = 1
      BY <2>1
    <3> QED BY <3>1 DEF Range, Last
  <2>2. ASSUME keys = AllKeys(doc, c), keys # <<>>
        PROVE  K = KeysOf(doc, c) /\ last \in K /\ all
    <3>1. keys \in Seq(Key) /\ Len(keys) \in Nat /\ Len(keys) # 0
      BY <1>5, <2>2
    <3>2. Len(keys) \in DOMAIN keys /\ last = keys[Len(keys)]
      BY <3>1 DEF Last
    <3>3. K = KeysOf(doc, c) /\ all
      BY <1>5, <2>2
    <3> QED BY <3>2, <3>3 DEF Range
  <2>3. CASE \E k \in KeysOf(doc, c) : keys = <<k>>
    <3>1. PICK k \in KeysOf(doc, c) : keys = <<k>>
      BY <2>3
    <3> QED BY <1>5, <2>1, <3>1
  <2>4. CASE keys = AllKeys(doc, c) /\ keys # <<>>
    BY <2>2, <2>4
  <2> QED BY <1>3, <2>3, <2>4
<1>7. Deletion(doc, c, K, R, skip)
  <2>1. K \in SUBSET KeysOf(doc, c)
    BY <1>6
  <2> HIDE DEF K
  <2>2. Deletion(doc, c, K, UNION {Departing(doc, c, k) : k \in K}, UNION {BelowKey(doc, c, k) : k \in K})
    BY <1>1, <2>1, DeletionFacts
  <2> QED BY <2>2 DEF K
<1> HIDE DEF K, R, skip, slots, primary, q
<1>8. Orders(slots, Keys(q), R) /\ Range(slots) = R
  <2>1. R \subseteq Range(doc.stream)
    BY <1>7 DEF Deletion
  <2>2. Orders(InOrder(doc, R), Keys(doc.stream), R)
    BY <1>1, <2>1, InOrderOrders
  <2> QED BY <2>2, OrdersRange DEF slots, q
<1>9. primary \in IndexSet(doc, c, last) /\ IndexSet(doc, c, last) \subseteq R /\ c \in DOMAIN caches.view
  <2>1. KindOf(doc, c, last) # "none"
    BY <1>5, <1>6
  <2> HIDE DEF last
  <2>2. PICK i \in 1..Len(doc.stream) : c \in FiledAt(doc, i) /\ Names(doc.stream[i], c, last)
    BY <1>1, <2>1, BoundAt
  <2> DEFINE t == doc.stream[i]
  <2>3. /\ IsHeader(t) /\ t.path = c[2] => LocalKey(t, c) = OwnKey
        /\ LocalKey(t, c) = last /\ last # OwnKey
    BY <1>1, <2>2, LocalKeys
  <2>4. t \in Range(doc.stream) /\ DOMAIN doc.filed = Range(doc.stream) /\ c \in doc.filed[t]
    BY <1>1, <2>2, FiledFacts DEF FiledAt
  <2> HIDE DEF t
  <2>5. t \in IndexSet(doc, c, last)
    BY <2>3, <2>4 DEF IndexSet, RefSet
  <2>6. IndexSet(doc, c, last) \subseteq Range(doc.stream)
    BY <2>4 DEF IndexSet, RefSet
  <2>7. primary \in IndexSet(doc, c, last)
    BY <1>1, <2>5, <2>6, FirstAmong DEF primary
  <2>8. IndexSet(doc, c, last) \subseteq R
    <3>1. IndexSet(doc, c, last) \subseteq Departing(doc, c, last)
      BY DEF Departing
    <3>2. last \in Range(keys)
      BY <1>6 DEF K
    <3> QED BY <3>1, <3>2 DEF R
  <2>9. c \in DOMAIN caches.view
    <3>1. DOMAIN caches.view = {Root} \cup UNION Range(doc.filed)
      BY <1>2 DEF Projected
    <3>2. doc.filed[t] \in Range(doc.filed)
      BY <2>4 DEF Range
    <3> QED BY <2>4, <3>1, <3>2
  <2> QED BY <2>7, <2>8, <2>9
<1> HIDE DEF last
<1>10. CASE ~revive
  <2>1. d1 = doc /\ F1 = caches
    BY <1>10
  <2>2. Becomes(Dropping(q, R), Without(Scrub(F2, Keys(q), slots, skip), skip, slots))
    BY <1>4, <1>8, <2>1 DEF q
  <2>3. Starts(caches, q, c, K, R, skip, all)
    BY <1>2, <1>6, <1>9 DEF Starts, q
  <2>4. Apart(Range(q))
    BY <1>2, SlotsApart DEF q
  <2>5. F2 = (IF all THEN ClearChildProjections(caches, c) ELSE caches)
    BY <2>1
  <2>6. \A t \in Range(q) \ Range(doc.stream) :
          /\ c \in caches.backs[t] => LocalKey(t, c) = OwnKey
          /\ caches.backs[t] = Reparsed(Dropping(q, R)).d.filed[t]
    BY DEF q
  <2> HIDE DEF F2, F1, d1, all, revive
  <2> QED BY <1>7, <1>8, <2>2, <2>3, <2>4, <2>5, <2>6, DeletionEnds
<1>11. CASE revive
  <2>1. all /\ Implicit(doc, c) /\ K = KeysOf(doc, c)
    BY <1>6, <1>11
  <2>2. primary \in Range(doc.stream) /\ c \in doc.filed[primary] /\ primary \in R
    <3>1. DOMAIN doc.filed = Range(doc.stream)
      BY <1>1, FiledFacts
    <3> QED BY <1>9, <3>1 DEF IndexSet, RefSet
  <2>3. PICK p \in 1..Len(doc.stream) : doc.stream[p] = primary
    BY <1>1, <2>2, FiledFacts
  <2>4. c \in FiledAt(doc, p) /\ Posn(doc, primary) = p
    BY <1>1, <2>2, <2>3, PutInPlace DEF FiledAt
  <2>5. ASSUME NEW z, NEW C, Revival(doc, c, p, z, C), d1 = FileOn(Splice(doc, p - 1, <<z>>), z, C)
        PROVE  FilingInv'
    <3> DEFINE run == InsertAt(doc.stream, p, z)
               G   == File(caches, Keys(run), C \ {c}, C \cap {c}, z)
    <3>1. z \in Slots /\ z \notin Range(doc.stream)
      BY <2>5 DEF Revival
    <3>2. d1.stream = run /\ d1.stream[p] = z /\ d1.filed[z] = C
      <4> HIDE DEF d1
      <4> QED BY <1>1, <2>5, <3>1, PutInPlace
    <3>3. s = z
      BY <2>4, <3>2
    <3>4. F1 = G
      <4> HIDE DEF d1, s
      <4> QED BY <1>11, <3>2, <3>3
    <3>5. F2 = ClearChildProjections(G, c)
      <4> HIDE DEF F1, G
      <4> QED BY <2>1, <3>4
    <3>6. Becomes(Dropping(run, R),
                  Without(Scrub(ClearChildProjections(G, c), Keys(run), slots, skip), skip, slots))
      <4> HIDE DEF F2, G, d1, run
      <4> QED BY <1>4, <1>8, <3>2, <3>5
    <3>7. run = InsertAt(doc.stream, p, z) /\ G = File(caches, Keys(run), C \ {c}, C \cap {c}, z)
      OBVIOUS
    <3>8. /\ c \in DOMAIN caches.view /\ doc.stream[p] \in R
          /\ Orders(slots, Keys(doc.stream), R)
      BY <1>8, <1>9, <2>2, <2>3 DEF q
    <3> HIDE DEF G, run, F2, F1, d1, s, all, revive
    <3> QED BY <1>7, <2>1, <2>5, <3>6, <3>7, <3>8, RevivedFiling
  <2>6. CASE IsKV(primary)
    <3> DEFINE host == InlineHost(doc, c, p)
               z    == InlineLine(doc, c, p)
               C    == Between(doc, host, Parent(doc, c))
    <3>1. Revival(doc, c, p, z, C)
      BY <1>2, <2>1, <2>3, <2>4, <2>6, InlineRevival
    <3>2. d1 = FileOn(Splice(doc, p - 1, <<z>>), z, C)
      BY <1>11, <2>3, <2>4, <2>6 DEF MaterialiseInline, InlineHost, InlineLine
    <3> HIDE DEF z, C, d1
    <3> QED BY <2>5, <3>1, <3>2
  <2>7. CASE ~IsKV(primary)
    <3> DEFINE z == Header(c[2], c[1], NoEntry, TRUE)
               C == Lineage(doc, c)
    <3>1. IsHeader(doc.stream[p])
      <4>1. doc.stream[p] \in Slots
        BY <1>1, FiledFacts
      <4> QED BY <2>3, <2>7, <4>1, SlotsType DEF Slots, IsHeader, IsKV
    <3>2. Revival(doc, c, p, z, C)
      BY <1>2, <2>1, <2>4, <3>1, HeaderRevival
    <3>3. d1 = FileOn(Splice(doc, p - 1, <<z>>), z, C)
      BY <1>11, <2>4, <2>7 DEF MaterialiseHeader
    <3> HIDE DEF z, C, d1
    <3> QED BY <2>5, <3>2, <3>3
  <2> QED BY <2>6, <2>7
<1> QED BY <1>10, <1>11

-----------------------------------------------------------------------------
(* An entry's header replaced.                                             *)

(* The header g opens entry e of array a. *)
EntryAt(d, a, e, g) ==
  /\ d.stream[g] \in HeaderSlots /\ d.stream[g].path = a[2] /\ Opens(d.stream[g], e)
  /\ EntryTable(a, e) \in FiledAt(d, g) /\ EntryTable(a, e) = Top(d.stream[g])
  /\ EntryTable(a, e) # Root

(* `new` is the header g of entry e of array a, for an entry of its own.   *)
Renewal(d, a, e, g, new) ==
  /\ a \in Nat \X Path /\ e \in Range(EntriesOf(d, a)) /\ g \in 1..Len(d.stream)
  /\ EntryAt(d, a, e, g)
  /\ new \in HeaderSlots /\ new \notin Range(d.stream)
  /\ new.path = a[2] /\ Opens(new, new.entry) /\ new.owner = new.entry /\ new.entry # e
  /\ \A i \in 1..Len(d.stream) : ~Opens(d.stream[i], new.entry)
  /\ \A x : LocalKey(new, x) = LocalKey(d.stream[g], x)
  /\ RefSet(d, EntryTable(a, new.entry)) = {}

LEMMA EntryHeaderAt ==
  ASSUME FilingInv, NEW a, NEW e \in Range(EntriesOf(doc, a))
  PROVE  \E g \in 1..Len(doc.stream) :
           EntryAt(doc, a, e, g) /\ caches.view[EntryTable(a, e)].header = doc.stream[g]
<1> DEFINE prior == EntryTable(a, e)
<1>1. Tidy(doc) /\ Projected(caches, doc) /\ \E w : Reading(w, doc)
  BY InvCurrent
<1>2. PICK w : Reading(w, doc)
  BY <1>1
<1>2a. \E g \in 1..Len(doc.stream) : /\ Opens(doc.stream[g], e) /\ doc.stream[g].path = a[2]
                                     /\ <<a[1], Front(a[2])>> \in FiledAt(doc, g)
  BY <1>2, EntryArray
<1>3. PICK g \in 1..Len(doc.stream) : Opens(doc.stream[g], e) /\ doc.stream[g].path = a[2]
  BY <1>2a
<1>4. e # NoEntry /\ a \in Nat \X Path
  BY <1>2, EntryArray
<1> DEFINE old == doc.stream[g]
<1>5. old \in Slots /\ old \in Range(doc.stream) /\ DOMAIN doc.filed = Range(doc.stream)
  BY <1>2, FiledFacts
<1>6. old \in HeaderSlots /\ IsHeader(old) /\ ~IsKV(old)
  <2>1. IsHeader(old)
    BY <1>3 DEF Opens, IsEntryHeader
  <2> QED BY <1>5, <2>1, SlotsType DEF Slots
<1>7. old.owner = e
  BY <1>2, <1>3 DEF Reading, EntriesListed
<1>8. prior = Top(old)
  BY <1>3, <1>6, <1>7 DEF Top, EntryTable
<1>9. prior \in FiledAt(doc, g)
  <2>1. Top(doc.stream[g]) \in FiledAt(doc, g)
    BY <1>2, FiledLevels
  <2> QED BY <1>8, <2>1
<1>10. prior \in DOMAIN caches.view
  BY <1>1, <1>5, <1>9 DEF Projected, FiledAt, Range
<1>11. prior # Root
  BY <1>4 DEF EntryTable, Root
<1>12. old \in RefSet(doc, prior) /\ prior[2] = a[2]
  BY <1>5, <1>9 DEF RefSet, FiledAt, EntryTable
<1> HIDE DEF prior, old
<1>13. LocalKey(old, prior) = OwnKey
  <2>1. LocalKey(doc.stream[g], prior) = OwnKey
    BY <1>2, <1>3, <1>6, <1>9, <1>12, LocalKeys DEF old
  <2> QED BY <2>1 DEF old
<1>14. caches.view[prior].header = old
  <2> DEFINE v == caches.view[prior]
             S == RefSet(doc, prior)
             ord == Keys(doc.stream)
  <2>1. Exact(v, ord, prior, S) /\ Belong(ord, prior, S)
    BY <1>1, <1>10, ViewFacts
  <2> HIDE DEF v, S, ord
  <2>2. HeaderExact(v.header, prior, S) /\ old \in S
    BY <1>12, <2>1 DEF Exact, S
  <2>3. HeadedBy(prior, S, old)
    BY <1>13, <2>1, <2>2 DEF Belong
  <2>4. v.header = old
    BY <1>13, <2>2, <2>3 DEF HeaderExact, HeadedBy
  <2> QED BY <2>4 DEF v
<1>15. EntryAt(doc, a, e, g)
  BY <1>3, <1>6, <1>8, <1>9, <1>11 DEF EntryAt, prior, old
<1>16. EntryAt(doc, a, e, g) /\ caches.view[EntryTable(a, e)].header = doc.stream[g]
  BY <1>14, <1>15 DEF prior, old
<1> QED BY <1>16

LEMMA RenewalOf ==
  ASSUME FilingInv, NEW a, NEW e \in Range(EntriesOf(doc, a)), NEW g \in 1..Len(doc.stream),
         EntryAt(doc, a, e, g)
  PROVE  LET f == FreshEntry(doc)
             new == [doc.stream[g] EXCEPT !.entry = f, !.owner = f]
         IN  Renewal(doc, a, e, g, new) /\ new.entry = f
<1> DEFINE f == FreshEntry(doc)
           old == doc.stream[g]
           new == [old EXCEPT !.entry = f, !.owner = f]
           z   == EntryTable(a, f)
<1>1. PICK w : Reading(w, doc)
  BY InvCurrent
<1>2. f \in Nat \ {0} /\ \A i \in 1..Len(doc.stream) : ~Opens(doc.stream[i], f)
  BY <1>1, FreshUnused
<1> HIDE DEF f
<1>3. a \in Nat \X Path
  BY <1>1, EntryArray
<1>4. /\ old \in HeaderSlots /\ old.path = a[2] /\ Opens(old, e)
  BY DEF EntryAt
<1> HIDE DEF old
<1>6. /\ new \in HeaderSlots /\ new.path = old.path /\ new.owner = f /\ new.entry = f
  BY <1>2, <1>4 DEF HeaderSlots
<1> HIDE DEF new
<1>7. new \in HeaderSlots /\ new.path = a[2] /\ new.owner = f /\ new.entry = f /\ IsHeader(new) /\ ~IsKV(new)
  BY <1>4, <1>6, SlotsType
<1>8. Opens(new, f)
  BY <1>2, <1>7 DEF Opens, IsEntryHeader, NoEntry
<1>9. new \notin Range(doc.stream)
  <2> SUFFICES ASSUME new \in Range(doc.stream) PROVE FALSE
    OBVIOUS
  <2>1. PICK i \in 1..Len(doc.stream) : doc.stream[i] = new
    BY <1>1, FiledFacts
  <2> QED BY <1>2, <1>8, <2>1
<1>10. f # e
  BY <1>2, <1>4 DEF old
<1>11. \A x : LocalKey(new, x) = LocalKey(old, x)
  <2>1. ~IsKV(old)
    BY <1>4, SlotsType
  <2> QED BY <1>4, <1>7, <2>1 DEF LocalKey
<1>12. RefSet(doc, z) = {}
  <2> SUFFICES ASSUME NEW s \in RefSet(doc, z) PROVE FALSE
    OBVIOUS
  <2>1. z[1] = f /\ f # NoEntry
    BY <1>2 DEF EntryTable, NoEntry
  <2> HIDE DEF z
  <2>2. PICK i \in 1..Len(doc.stream) : z \in FiledAt(doc, i)
    BY <1>1, RefFacts
  <2>3. PICK h \in 1..Len(doc.stream) : Opens(doc.stream[h], f)
    BY <1>1, <2>1, <2>2 DEF Reading, FiledInForce, Rules
  <2> QED BY <1>2, <2>3
<1>13. Renewal(doc, a, e, g, new)
  BY <1>2, <1>3, <1>4, <1>7, <1>8, <1>9, <1>10, <1>11, <1>12 DEF Renewal, old, z
<1> QED BY <1>7, <1>13 DEF new, old, f

LEMMA RenewalFiled ==
  ASSUME FilingInv, NEW a, NEW e, NEW g, NEW new, Renewal(doc, a, e, g, new)
  PROVE  LET run == InsertAt(doc.stream, g, new)
             z   == EntryTable(a, new.entry)
         IN  FiledToo(File(caches, Keys(run), {}, {z}, new), run, {z}, new)
<1> DEFINE q   == doc.stream
           run == InsertAt(q, g, new)
           ord == Keys(run)
           z   == EntryTable(a, new.entry)
           m   == g - 1
<1>1. PICK w : Reading(w, doc)
  BY InvCurrent
<1>2. /\ g \in 1..Len(q) /\ new \in HeaderSlots /\ new \notin Range(q) /\ new.path = a[2]
      /\ RefSet(doc, z) = {}
  BY DEF Renewal
<1>3. q \in Seq(Slots) /\ Len(q) \in Nat /\ Spread(q)
  BY <1>1, FiledFacts
<1>4. new \in Slots /\ ~IsKV(new) /\ new # NoSlot
  BY <1>2, SlotsType DEF Slots, HeaderSlots, NoSlot
<1>5. run \in Seq(Slots) /\ Spread(run) /\ Range(run) = Range(q) \cup {new}
  BY <1>2, <1>3, <1>4, InsertedSpread
<1>6. m \in 0..Len(q) /\ run = InsertAt(q, m + 1, new)
  BY <1>2
<1> HIDE DEF q, m, run
<1>7. Keyed(ord, {new})
  <2>1. Keyed(ord, Range(run))
    BY <1>5, KeysMeaning
  <2> HIDE DEF ord
  <2> QED BY <1>5, <2>1 DEF Keyed
<1> HIDE DEF ord
<1>8. LocalKey(new, z) = OwnKey
  <2>1. z[2] = new.path
    BY <1>2 DEF EntryTable
  <2>2. Len(new.path) \in Nat
    <3>1. new.path \in Seq(Key)
      BY <1>2, SlotsType DEF Path
    <3> QED BY <3>1
  <2> HIDE DEF z
  <2>3. ~(Len(new.path) > Len(z[2]))
    BY <2>1, <2>2
  <2> QED BY <1>4, <2>3 DEF LocalKey, OwnKey
<1> HIDE DEF z
<1>9. /\ Belong(ord, z, RefSet(doc, z) \cup {new})
      /\ HeaderFirst(ord, z, RefSet(doc, z), new)
  BY <1>2, <1>4, <1>7 DEF Belong, HeadedBy, HeaderFirst
<1> DEFINE chain == {}
           own   == {z}
<1>10. /\ \A x \in chain \cup own : Belong(Keys(run), x, RefSet(doc, x) \cup {new})
       /\ \A x \in chain \cup own : HeaderFirst(Keys(run), x, RefSet(doc, x), new)
       /\ \A x \in chain \cup own : LocalKey(new, x) = OwnKey <=> x \in own
  BY <1>8, <1>9 DEF ord
<1>11. chain \cup own = {z}
  OBVIOUS
<1>12. m \in 0..Len(doc.stream) /\ run = InsertAt(doc.stream, m + 1, new)
  BY <1>6 DEF q
<1> HIDE DEF chain, own
<1>13. FiledToo(File(caches, Keys(run), chain, own, new), run, chain \cup own, new)
  BY <1>4, <1>5, <1>10, <1>12, FiledOne
<1> QED BY <1>11, <1>13 DEF chain, own, run, q, z

(* The new header filed on its own table, the old one can be exchanged for *)
(* it above: on each table there, the two stand side by side, under the    *)
(* same key.                                                               *)
LEMMA RenewalReplaceable ==
  ASSUME FilingInv, NEW a, NEW e, NEW g, NEW new, Renewal(doc, a, e, g, new),
         NEW run, run = InsertAt(doc.stream, g, new),
         NEW F, FiledToo(F, run, {EntryTable(a, new.entry)}, new)
  PROVE  Replaceable(F, Keys(run), doc.stream[g], new, EntryTable(a, e))
<1> DEFINE q     == doc.stream
           old   == q[g]
           prior == EntryTable(a, e)
           z     == EntryTable(a, new.entry)
           ord   == Keys(run)
<1>1. PICK w : Reading(w, doc)
  BY InvCurrent
<1>2. /\ g \in 1..Len(q) /\ new \in HeaderSlots /\ new \notin Range(q)
      /\ \A x : LocalKey(new, x) = LocalKey(old, x)
      /\ RefSet(doc, z) = {}
      /\ old \in HeaderSlots /\ prior \in FiledAt(doc, g) /\ prior = Top(old)
  BY DEF Renewal, EntryAt
<1>3. /\ q \in Seq(Slots) /\ Len(q) \in Nat /\ Spread(q)
      /\ \A t \in Range(q) : \E i \in 1..Len(q) : q[i] = t
      /\ \A i \in 1..Len(q) : q[i] \in Slots /\ q[i] \in Range(q)
      /\ DOMAIN doc.filed = Range(q)
  BY <1>1, FiledFacts
<1>4. DOMAIN F.backs = Range(run) /\ F.backs[new] = {z} /\ \A t \in Range(q) : F.backs[t] = doc.filed[t]
  BY DEF FiledToo
<1>5. new \in Slots /\ ~IsKV(new) /\ ~IsKV(old) /\ new # NoSlot
  BY <1>2, SlotsType DEF Slots, HeaderSlots, NoSlot
<1>6. /\ run \in Seq(Slots) /\ Spread(run) /\ Range(run) = Range(q) \cup {new}
      /\ ord[new] = g
      /\ \A i \in 1..(g - 1) : ord[q[i]] = i
      /\ \A i \in 1..Len(q) : i < g \/ g < ord[q[i]]
      /\ \A i, j \in 1..Len(q) : i < j => ord[q[i]] < ord[q[j]]
      /\ \A i \in 1..Len(q) : ord[q[i]] \in Int
  <2>1. q \in Seq(Slots) /\ Spread(q) /\ new \in Slots /\ new \notin Range(q) /\ g \in 1..Len(q)
    BY <1>2, <1>3, <1>5
  <2>2. run = InsertAt(q, g, new)
    OBVIOUS
  <2> HIDE DEF q
  <2> QED BY <2>1, <2>2, InsertedSpread
<1>7. old \in Range(q) /\ old \in DOMAIN F.backs /\ new \in DOMAIN F.backs /\ old # new
  BY <1>2, <1>3, <1>4, <1>6
<1>8. F.backs[old] = doc.filed[old] /\ prior \in F.backs[old]
  BY <1>2, <1>4, <1>7 DEF FiledAt
<1>9. Keyed(ord, Range(run))
  BY <1>6, KeysMeaning
<1> HIDE DEF q, ord, prior, z
<1>10. ASSUME NEW c \in F.backs[old] \ {prior}
       PROVE  c \notin F.backs[new] /\ JustAbove(ord, Listing(F, c), old, new) /\ Exchanges(c, old, new)
  <2> DEFINE S == RefSet(doc, c)
  <2>1. old \in S /\ S \subseteq Range(q)
    BY <1>3, <1>7, <1>8 DEF RefSet
  <2>2. c # z
    BY <1>2, <2>1
  <2>3. Listing(F, c) = S
    <3>1. \A t \in Range(q) : c \in F.backs[t] <=> t \in S
      BY <1>3, <1>4 DEF RefSet
    <3>2. c \notin F.backs[new]
      BY <1>4, <2>2
    <3> HIDE DEF S, old
    <3> QED BY <1>4, <1>6, <2>1, <3>1, <3>2 DEF Listing
  <2> HIDE DEF S
  <2>4. JustAbove(ord, S, old, new)
    <3>1. Keyed(ord, S \cup {new})
      <4> DEFINE T == S \cup {new}
      <4>1. T \subseteq Range(run)
        BY <1>6, <2>1
      <4> HIDE DEF T
      <4>2. Keyed(ord, T)
        BY <1>9, <4>1, KeyedSubset
      <4> QED BY <4>2 DEF T
    <3>2. ord[new] < ord[old]
      BY <1>2, <1>3, <1>6
    <3>3. ASSUME NEW t \in S, ord[t] < ord[old] PROVE ord[t] < ord[new]
      <4>1. PICK i \in 1..Len(q) : q[i] = t
        BY <1>3, <2>1
      <4>2. ~(g < i) /\ i # g
        BY <1>2, <1>3, <1>6, <3>3, <4>1
      <4>3. i \in 1..(g - 1) /\ i < g
        BY <1>2, <1>3, <4>1, <4>2
      <4> QED BY <1>6, <4>1, <4>3
    <3>4. new \notin S
      BY <1>2, <2>1
    <3> HIDE DEF old
    <3> QED BY <2>1, <3>1, <3>2, <3>3, <3>4 DEF JustAbove
  <2>5. LocalKey(old, c) # OwnKey
    <3>1. c \in FiledAt(doc, g)
      BY <1>8 DEF FiledAt, q
    <3>2. LocalKey(doc.stream[g], c) = OwnKey => c = Top(doc.stream[g])
      BY <1>1, <1>2, <3>1, LocalKeys DEF q
    <3> QED BY <1>2, <3>2 DEF q
  <2>6. Exchanges(c, old, new)
    BY <1>2, <1>5, <2>5 DEF Exchanges, IsOwnLine
  <2>7. c \notin F.backs[new]
    BY <1>4, <2>2
  <2> HIDE DEF old
  <2> QED BY <2>3, <2>4, <2>6, <2>7
<1> HIDE DEF old
<1>11. Replaceable(F, ord, old, new, prior)
  BY <1>7, <1>8, <1>10 DEF Replaceable
<1> QED BY <1>11 DEF ord, old, prior, q

(* Where the projections stand once the new header has the old one's place *)
(* in them.                                                                *)
Renewed(G, a, e, g, new, run) ==
  LET old == doc.stream[g]
  IN  /\ UpToDate(G, run)
      /\ G.backs[old] = {EntryTable(a, e)}
      /\ G.backs[new] = {EntryTable(a, new.entry)} \cup (doc.filed[old] \ {EntryTable(a, e)})
      /\ \A t \in Range(doc.stream) : t # old => G.backs[t] = doc.filed[t]

LEMMA RenewalReplaces ==
  ASSUME FilingInv, NEW a, NEW e, NEW g, NEW new, Renewal(doc, a, e, g, new),
         NEW run, run = InsertAt(doc.stream, g, new),
         NEW F, FiledToo(F, run, {EntryTable(a, new.entry)}, new)
  PROVE  Renewed(Replaced(F, Keys(run), doc.stream[g], new, EntryTable(a, e)), a, e, g, new, run)
<1> DEFINE q     == doc.stream
           old   == q[g]
           prior == EntryTable(a, e)
           z     == EntryTable(a, new.entry)
           ord   == Keys(run)
           G     == Replaced(F, ord, old, new, prior)
<1>1. PICK w : Reading(w, doc)
  BY InvCurrent
<1>2. /\ g \in 1..Len(q) /\ new \in HeaderSlots /\ new \notin Range(q)
  BY DEF Renewal
<1>3. /\ q \in Seq(Slots) /\ Spread(q) /\ old \in Range(q)
  BY <1>1, <1>2, FiledFacts
<1>4. /\ DOMAIN F.backs = Range(run) /\ F.backs[new] = {z} /\ \A t \in Range(q) : F.backs[t] = doc.filed[t]
      /\ Consistent(F, ord) /\ F.sound
      /\ DOMAIN F.view = DOMAIN caches.view \cup {z}
  BY DEF FiledToo
<1>5. new \in Slots
  BY <1>2 DEF Slots
<1>6. /\ run \in Seq(Slots) /\ Spread(run) /\ Range(run) = Range(q) \cup {new}
  BY <1>2, <1>3, <1>5, InsertedSpread
<1>7. Replaceable(F, ord, old, new, prior)
  BY RenewalReplaceable
<1>8. Root \in DOMAIN caches.view
  BY InvCurrent DEF UpToDate
<1> HIDE DEF q, old, ord, prior, z
<1>9. F.sound = TRUE
  BY <1>4
<1>10. Consistent(G, ord) /\ ReplacesOn(G, F, old, new, prior)
  BY <1>4, <1>7, <1>9, ReplaceKeepsViewsExact
<1> HIDE DEF G
<1>11. UpToDate(G, run)
  BY <1>4, <1>6, <1>8, <1>10 DEF UpToDate, ReplacesOn, ord
<1>12. /\ G.backs[old] = {prior}
       /\ G.backs[new] = {z} \cup (doc.filed[old] \ {prior})
       /\ \A t \in Range(q) : t # old => G.backs[t] = doc.filed[t]
  BY <1>2, <1>3, <1>4, <1>6, <1>10 DEF ReplacesOn
<1> QED BY <1>11, <1>12 DEF Renewed, G, q, old, ord, prior, z

(* The keys of a stream with a slot put in keep the order the others had.  *)
LEMMA OrdersAfterInsert ==
  ASSUME NEW S, NEW q \in Seq(S), Spread(q), NEW s \in S, s \notin Range(q), NEW p \in 1..Len(q),
         NEW R \in SUBSET Range(q), NEW slots, Orders(slots, Keys(q), R)
  PROVE  Orders(slots, Keys(InsertAt(q, p, s)), R)
<1> DEFINE run == InsertAt(q, p, s)
<1>1. \A i, j \in 1..Len(q) : i < j => Keys(run)[q[i]] < Keys(run)[q[j]]
  BY InsertedSpread
<1>2. /\ slots \in Seq(R) /\ \A t \in R : \E i \in 1..Len(slots) : slots[i] = t
      /\ \A i, j \in 1..Len(slots) : i < j => Keys(q)[slots[i]] < Keys(q)[slots[j]]
  BY DEF Orders
<1>3. \A t \in Range(q) : Keys(q)[t] \in 1..Len(q) /\ q[Keys(q)[t]] = t
  BY KeysMeaning
<1> HIDE DEF run
<1>4. \A x, y \in Range(q) : Keys(q)[x] < Keys(q)[y] => Keys(run)[x] < Keys(run)[y]
  BY <1>1, <1>3
<1>5. \A i \in 1..Len(slots) : slots[i] \in Range(q)
  BY <1>2
<1>6. \A i, j \in 1..Len(slots) : i < j => Keys(run)[slots[i]] < Keys(run)[slots[j]]
  BY <1>2, <1>4, <1>5
<1> QED BY <1>2, <1>6 DEF Orders, run

(* The slots the replaced entry owns leave.  Above its table each names    *)
(* it by the array's key, and what stays is filed on nothing beneath it.   *)
LEMMA RenewalLeaves ==
  ASSUME FilingInv, NEW a, NEW e, NEW g, NEW new, Renewal(doc, a, e, g, new),
         NEW run, run = InsertAt(doc.stream, g, new), NEW G, Renewed(G, a, e, g, new, run),
         NEW z, z = EntryTable(a, e)
  PROVE  /\ MayLeave(G, run, InOrder(doc, OwnedByContainer(doc, z)), OwnedByContainer(doc, z), Beneath(doc, z))
         /\ doc.stream[g] \in OwnedByContainer(doc, z)
         /\ Apart(Range(run))
<1> DEFINE q     == doc.stream
           old   == q[g]
           mine  == EntryTable(a, new.entry)
           R     == OwnedByContainer(doc, z)
           skip  == Beneath(doc, z)
           slots == InOrder(doc, R)
<1>1. PICK w : Reading(w, doc)
  BY InvCurrent
<1>2. /\ a \in Nat \X Path /\ e \in Range(EntriesOf(doc, a)) /\ g \in 1..Len(q)
      /\ new \in HeaderSlots /\ new \notin Range(q) /\ new.entry # e
      /\ \A i \in 1..Len(q) : ~Opens(q[i], new.entry)
      /\ Opens(new, new.entry)
      /\ z \in FiledAt(doc, g) /\ z # Root
  BY DEF Renewal, EntryAt
<1>3. /\ q \in Seq(Slots) /\ Spread(q) /\ old \in Range(q) /\ Len(q) \in Nat
      /\ \A t \in Range(q) : \E i \in 1..Len(q) : q[i] = t
      /\ DOMAIN doc.filed = Range(q)
  BY <1>1, <1>2, FiledFacts
<1>4. new \in Slots
  BY <1>2 DEF Slots
<1>5. run \in Seq(Slots) /\ Spread(run) /\ Range(run) = Range(q) \cup {new}
  BY <1>2, <1>3, <1>4, InsertedSpread
<1>6. z[2] \in Seq(Key) /\ z[2] = a[2]
  BY <1>2 DEF EntryTable, Path
<1>7. /\ G.backs[old] = {z}
      /\ G.backs[new] = {mine} \cup (doc.filed[old] \ {z})
      /\ \A t \in Range(q) : t # old => G.backs[t] = doc.filed[t]
  BY DEF Renewed
<1>8. mine[2] = a[2] /\ mine # z
  BY <1>2 DEF EntryTable
<1> HIDE DEF q, old, mine
<1>9. z \in Lineage(doc, z)
  BY <1>6, LineageFacts
<1>10. old \in R
  <2>1. doc.stream[g] \in OwnedByContainer(doc, z)
    BY <1>1, <1>2, <1>6, <1>9, BelowOwned DEF q
  <2> QED BY <2>1 DEF old, q
<1>11. R \subseteq Range(q)
  BY <1>1, <1>2, <1>6, OwnedListed DEF q
<1>12. z \in skip
  <2>1. \A s \in DOMAIN doc.filed : doc.filed[s] \subseteq DOMAIN doc.tree
    BY <1>1 DEF Reading
  <2>2. z \in doc.filed[old] /\ old \in DOMAIN doc.filed
    BY <1>2, <1>3 DEF FiledAt, old, q
  <2>3. z \in DOMAIN doc.tree
    BY <2>1, <2>2
  <2> QED BY <1>9, <2>3 DEF Beneath
<1>13. Orders(slots, Keys(run), R)
  <2>1. Orders(slots, Keys(q), R)
    BY <1>1, <1>11, InOrderOrders DEF q
  <2> HIDE DEF slots, R
  <2>2. run = InsertAt(q, g, new) /\ R \in SUBSET Range(q)
    BY <1>11 DEF q
  <2> QED BY <1>2, <1>3, <1>4, <2>1, <2>2, OrdersAfterInsert
<1>14. Root \notin skip
  BY <1>2, RootAbove
<1>15. ASSUME NEW s \in R, NEW x \in doc.filed[s], x \notin skip
       PROVE  LocalKey(s, x) = a[2][Len(x[2]) + 1] /\ LocalKey(s, x) # OwnKey /\ Len(x[2]) < Len(a[2])
  BY <1>1, <1>2, <1>6, <1>15, LeavesFrom
<1>16. ASSUME NEW s \in R, NEW x \in G.backs[s], x \notin skip
       PROVE  LocalKey(s, x) = a[2][Len(x[2]) + 1] /\ LocalKey(s, x) # OwnKey
  <2>1. s # old
    BY <1>7, <1>12, <1>16
  <2>2. x \in doc.filed[s]
    BY <1>7, <1>11, <1>16, <2>1
  <2> HIDE DEF R, skip
  <2> QED BY <1>15, <1>16, <2>2
<1>17. Separable(G, slots, R, skip)
  <2> SUFFICES ASSUME NEW c \in (UNION {G.backs[s] : s \in R}) \ skip
               PROVE  \E k : k # OwnKey /\ \A s \in R : c \in G.backs[s] => LocalKey(s, c) = k
    BY DEF Separable
  <2> DEFINE k == a[2][Len(c[2]) + 1]
  <2>1. \A s \in R : c \in G.backs[s] => LocalKey(s, c) = k /\ LocalKey(s, c) # OwnKey
    BY <1>16
  <2>2. PICK s \in R : c \in G.backs[s]
    OBVIOUS
  <2>3. k # OwnKey
    BY <2>1, <2>2
  <2> HIDE DEF k
  <2> QED BY <2>1, <2>3
<1>18. ASSUME NEW t \in Range(run) \ R, NEW x \in G.backs[t], x \in skip PROVE FALSE
  <2>1. z \in Lineage(doc, x)
    BY <1>18 DEF Beneath
  <2>2. CASE t # new
    <3>1. t \in Range(q) /\ t # old
      BY <1>5, <1>10, <1>18, <2>2
    <3>2. x \in doc.filed[t]
      BY <1>7, <1>18, <3>1
    <3>3. PICK j \in 1..Len(q) : q[j] = t
      BY <1>3, <3>1
    <3>4. x \in FiledAt(doc, j)
      BY <3>2, <3>3 DEF FiledAt, q
    <3>5. doc.stream[j] \in OwnedByContainer(doc, z)
      BY <1>1, <1>2, <1>6, <2>1, <3>3, <3>4, BelowOwned DEF q
    <3> QED BY <1>18, <3>3, <3>5 DEF q
  <2>3. CASE t = new
    <3>1. x = mine \/ (x \in doc.filed[old] /\ x # z)
      BY <1>7, <1>18, <2>3
    <3>2. CASE x = mine
      <4>1. x[2] \in Seq(Key) /\ Len(x[2]) = Len(z[2]) /\ x \in Lineage(doc, x)
        BY <1>6, <1>8, <3>2, LineageFacts
      <4>2. x = z
        BY <2>1, <4>1, LineageFacts
      <4> QED BY <1>8, <3>2, <4>2
    <3>3. CASE x \in doc.filed[old] /\ x # z
      <4>1. x \in FiledAt(doc, g) /\ x[2] \in Seq(Key)
        <5>1. x \in FiledAt(doc, g)
          BY <3>3 DEF FiledAt, old, q
        <5> QED BY <1>1, <1>2, <5>1, FiledLevels DEF q
      <4>2. Len(x[2]) <= Len(z[2])
        <5>1. /\ Len(x[2]) \in Highest(doc.stream[g])..Lowest(doc.stream[g])
              /\ doc.stream[g] \in HeaderSlots /\ doc.stream[g].path = a[2]
          BY <1>1, <1>2, <4>1, FiledLevels DEF Renewal, EntryAt, q
        <5>2. Lowest(doc.stream[g]) = Len(a[2]) /\ Highest(doc.stream[g]) = 0
          BY <5>1, SlotsType DEF Lowest, Highest
        <5>3. Len(a[2]) \in Nat
          BY <1>6
        <5> QED BY <1>6, <5>1, <5>2, <5>3
      <4>3. Len(z[2]) \in 0..Len(x[2])
        BY <2>1, <4>1, LineageFacts
      <4>4. Len(z[2]) = Len(x[2])
        BY <1>6, <4>1, <4>2, <4>3
      <4>5. x = z
        BY <1>1, <1>2, <4>1, <4>4, FiledLevels DEF q
      <4> QED BY <3>3, <4>5
    <3> QED BY <3>1, <3>2, <3>3
  <2> QED BY <2>2, <2>3
<1>19. MayLeave(G, run, slots, R, skip)
  <2> HIDE DEF R, skip, slots
  <2> QED BY <1>5, <1>11, <1>13, <1>14, <1>17, <1>18 DEF MayLeave
<1>20. Apart(Range(run))
  <2>1. Apart(Range(q))
    BY InvCurrent, SlotsApart DEF q
  <2>2. \A t \in Range(q) : ~Opens(t, new.entry)
    BY <1>2, <1>3
  <2>3. \A x : Opens(new, x) => x = new.entry
    BY DEF Opens
  <2> QED BY <1>5, <2>1, <2>2, <2>3 DEF Apart
<1> QED BY <1>10, <1>19, <1>20 DEF old, q

(* Read where the old header stood, the new one is filed on its own table, *)
(* and above it where the old one was.                                     *)
LEMMA RenewalStands ==
  ASSUME FilingInv, NEW a, NEW e, NEW g, NEW new, Renewal(doc, a, e, g, new)
  PROVE  /\ Stands(doc, g, new, {EntryTable(a, new.entry)} \cup (doc.filed[doc.stream[g]] \ {EntryTable(a, e)}))
         /\ Lowest(new) = Len(a[2])
<1> DEFINE q     == doc.stream
           old   == q[g]
           prior == EntryTable(a, e)
           z     == EntryTable(a, new.entry)
           C     == {z} \cup (doc.filed[old] \ {prior})
           n     == Len(a[2])
<1>1. PICK w : Reading(w, doc)
  BY InvCurrent
<1>2. /\ a \in Nat \X Path /\ g \in 1..Len(q)
      /\ new \in HeaderSlots /\ new \notin Range(q) /\ new.path = a[2] /\ new.owner = new.entry
      /\ old \in HeaderSlots /\ old.path = a[2]
      /\ prior \in FiledAt(doc, g)
  BY DEF Renewal, EntryAt
<1>3. a[2] \in Seq(Key) /\ n \in Nat /\ a[2] \in Path
  BY <1>2 DEF Path
<1>4. /\ FullPath(new) = a[2] /\ Highest(new) = 0 /\ Lowest(new) = n /\ new \in Slots
      /\ FullPath(old) = a[2] /\ Highest(old) = 0 /\ Lowest(old) = n
      /\ ~IsKV(new)
  BY <1>2, SlotsType DEF Highest, Lowest, Slots
<1>5. /\ \A x \in FiledAt(doc, g) : /\ x \in Nat \X Seq(Key) /\ x = <<x[1], x[2]>>
                                    /\ Len(x[2]) \in 0..n /\ x[2] = Prefix(a[2], Len(x[2]))
      /\ \A x, y \in FiledAt(doc, g) : Len(x[2]) = Len(y[2]) => x = y
      /\ \A j \in 0..n : \E x \in FiledAt(doc, g) : Len(x[2]) = j
  <2>1. /\ \A x \in FiledAt(doc, g) : /\ x \in Nat \X Seq(Key) /\ x = <<x[1], x[2]>>
                                      /\ Len(x[2]) \in Highest(old)..Lowest(old)
                                      /\ x[2] = Prefix(FullPath(old), Len(x[2]))
        /\ \A x, y \in FiledAt(doc, g) : Len(x[2]) = Len(y[2]) => x = y
        /\ \A j \in Highest(old)..Lowest(old) : \E x \in FiledAt(doc, g) : Len(x[2]) = j
    BY <1>1, <1>2, FiledLevels
  <2> HIDE DEF old, n
  <2> QED BY <1>4, <2>1
<1>6. doc.filed[old] = FiledAt(doc, g)
  BY DEF FiledAt
<1>7. prior[2] = a[2] /\ z[2] = a[2] /\ z[1] = new.entry /\ z = <<z[1], z[2]>>
  BY DEF EntryTable
<1> HIDE DEF q, old, prior, z, n
<1>8. n = Len(a[2])
  BY DEF n
<1>9. ASSUME NEW x \in FiledAt(doc, g), x # prior
      PROVE  Len(x[2]) \in 0..n /\ Len(x[2]) # n /\ ~OpensAbove(new, x[2])
  <2>1. Len(x[2]) \in 0..n /\ Len(x[2]) # n /\ x[2] \in Seq(Key)
    BY <1>2, <1>5, <1>7, <1>8, <1>9
  <2>2. Len(x[2]) < n
    BY <1>3, <2>1
  <2>3. ~IsStrictPrefix(a[2], x[2])
    BY <1>3, <1>8, <2>1, <2>2, StrictPrefixMeaning
  <2>4. a[2] # x[2]
    BY <1>8, <2>1
  <2> QED BY <1>2, <2>1, <2>3, <2>4 DEF OpensAbove
<1>10. ASSUME NEW x \in C
       PROVE  /\ x = <<x[1], x[2]>> /\ x[2] \in Seq(Key)
              /\ Len(x[2]) \in 0..n /\ x[2] = Prefix(a[2], Len(x[2]))
              /\ Len(x[2]) = n => x[1] = new.owner
              /\ Len(x[2]) = n \/ (x \in FiledAt(doc, g) /\ ~OpensAbove(new, x[2]))
  <2>1. CASE x = z
    <3>1. Prefix(a[2], n) = a[2] /\ n \in 0..n
      BY <1>3, PrefixType DEF n
    <3> QED BY <1>2, <1>3, <1>7, <1>8, <2>1, <3>1
  <2>2. CASE x \in FiledAt(doc, g) /\ x # prior
    <3>1. Len(x[2]) \in 0..n /\ Len(x[2]) # n /\ ~OpensAbove(new, x[2])
      BY <1>9, <2>2
    <3>2. x = <<x[1], x[2]>> /\ x[2] \in Seq(Key) /\ x[2] = Prefix(a[2], Len(x[2]))
      BY <1>5, <2>2
    <3> QED BY <2>2, <3>1, <3>2
  <2> QED BY <1>6, <1>10, <2>1, <2>2
<1>11. ASSUME NEW m \in 0..n PROVE \E x \in C : Len(x[2]) = m
  <2>1. CASE m = n
    BY <1>7, <1>8, <2>1
  <2>2. CASE m # n
    <3>1. PICK x \in FiledAt(doc, g) : Len(x[2]) = m
      BY <1>5
    <3>2. x # prior
      BY <1>7, <1>8, <2>2, <3>1
    <3> QED BY <1>6, <3>1, <3>2
  <2> QED BY <2>1, <2>2
<1> HIDE DEF C
<1>12. Stands(doc, g, new, C)
  BY <1>2, <1>4, <1>10, <1>11 DEF Stands, q
<1> QED BY <1>4, <1>12 DEF C, n, z, old, prior, q

LEMMA RenewalFiling ==
  ASSUME FilingInv, NEW a, NEW e, NEW g, NEW new, Renewal(doc, a, e, g, new),
         NEW run, run = InsertAt(doc.stream, g, new), NEW G, Renewed(G, a, e, g, new, run),
         NEW z, z = EntryTable(a, e), NEW R, R = OwnedByContainer(doc, z), NEW skip, skip = Beneath(doc, z),
         NEW slots, slots = InOrder(doc, R),
         Becomes(Dropping(run, R), Without(Scrub(G, Keys(run), slots, skip), skip, slots))
  PROVE  FilingInv'
<1> DEFINE q   == doc.stream
           old == q[g]
           C   == {EntryTable(a, new.entry)} \cup (doc.filed[old] \ {z})
           kept == Dropping(run, R)
           d   == Reparsed(kept).d
           w   == Reparsed(kept).v
<1>1. PICK v : Reading(v, doc)
  BY InvCurrent
<1>2. /\ g \in 1..Len(q) /\ new \in HeaderSlots /\ new \notin Range(q) /\ a \in Nat \X Path /\ z # Root
  BY DEF Renewal, EntryAt
<1>3. q \in Seq(Slots) /\ Spread(q)
  BY <1>1, FiledFacts
<1>4. new \in Slots /\ z[2] = a[2] /\ z[2] \in Seq(Key)
  BY <1>2 DEF Slots, EntryTable, Path
<1>5. run \in Seq(Slots) /\ Spread(run) /\ Range(run) = Range(q) \cup {new}
  BY <1>2, <1>3, <1>4, InsertedSpread
<1>6. MayLeave(G, run, slots, R, skip) /\ old \in R /\ Apart(Range(run))
  BY RenewalLeaves
<1>7. UpToDate(G, run) /\ G.backs[new] = C /\ \A t \in Range(q) : t # old => G.backs[t] = doc.filed[t]
  BY DEF Renewed
<1>8. R \subseteq Range(q)
  BY <1>1, <1>2, <1>4, OwnedListed
<1> HIDE DEF kept, d, w
<1>9. kept \in Seq(Slots) /\ Spread(kept) /\ Range(kept) = Range(run) \ R
  <2>1. R \in SUBSET Range(run)
    BY <1>5, <1>8
  <2> QED BY <1>5, <2>1, KeptRun DEF kept
<1>10. Reparsed(kept).ok /\ d.stream = kept
  BY DEF Becomes, kept, d
<1>11. Reading(w, d)
  <2>1. Apart(Range(kept))
    BY <1>6, <1>9 DEF Apart
  <2>2. EntriesApart(Reparsed(kept).d)
    BY <1>9, <1>10, <2>1, ApartAgain DEF d
  <2> QED BY <1>9, <1>10, <2>2, TextReads DEF Accepts, d, w
<1>12. d.filed[new] = C
  <2>1. Stands(doc, g, new, C) /\ Lowest(new) = Len(a[2])
    BY RenewalStands
  <2>2. \A t \in R : \A x \in doc.filed[t] : x[2] \in Seq(Key) /\ Len(x[2]) < Lowest(new) => LocalKey(t, x) # OwnKey
    <3> SUFFICES ASSUME NEW t \in R, NEW x \in doc.filed[t], x[2] \in Seq(Key), Len(x[2]) < Lowest(new)
                 PROVE  LocalKey(t, x) # OwnKey
      OBVIOUS
    <3>1. x \notin Beneath(doc, z)
      <4> SUFFICES ASSUME z \in Lineage(doc, x) PROVE FALSE
        BY DEF Beneath
      <4>1. Len(z[2]) \in 0..Len(x[2])
        BY LineageFacts
      <4> QED BY <1>4, <2>1, <4>1
    <3> QED BY <1>1, <1>2, <1>4, <3>1, LeavesFrom
  <2>3. d.stream = Dropping(InsertAt(doc.stream, g, new), R)
    BY <1>10 DEF kept
  <2> HIDE DEF C
  <2> QED BY <1>6, <1>8, <1>11, <2>1, <2>2, <2>3, StandsReread
<1>13. /\ \A t \in Range(run) \ R : t \in Range(doc.stream) => G.backs[t] = doc.filed[t]
       /\ \A t \in Range(run) \ R : t \notin Range(doc.stream) =>
                                      G.backs[t] = Reparsed(Dropping(run, R)).d.filed[t]
  <2>1. \A t \in Range(run) \ R : t # old
    BY <1>6
  <2>2. \A t \in Range(run) : t \notin Range(doc.stream) => t = new
    BY <1>5
  <2> QED BY <1>7, <1>12, <2>1, <2>2 DEF d, kept
<1> QED BY ONLY FilingInv, <1>6, <1>7, <1>13, LeavingFiling,
           Becomes(Dropping(run, R), Without(Scrub(G, Keys(run), slots, skip), skip, slots))

LEMMA ReplaceFiling == FilingInv /\ ReplaceEntryHeader => FilingInv'
<1> SUFFICES ASSUME FilingInv, ReplaceEntryHeader PROVE FilingInv'
  OBVIOUS
<1>1. PICK v : Reading(v, doc)
  BY InvCurrent
<1>2. PICK a \in DOMAIN doc.aot : \E i \in DOMAIN doc.aot[a] :
    LET e     == doc.aot[a][i]
        prior == EntryTable(a, e)
        old   == caches.view[prior].header
        new   == [old EXCEPT !.entry = FreshEntry(doc), !.owner = FreshEntry(doc)]
        run   == InsertAt(doc.stream, Posn(doc, old), new)
        ord   == Keys(run)
        F1    == File(caches, ord, {}, {EntryTable(a, FreshEntry(doc))}, new)
        F2    == Replaced(F1, ord, old, new, prior)
        slots == EntrySlots(doc, a, e)
    IN  Becomes(Dropping(run, Range(slots)),
                Without(Scrub(F2, ord, slots, EntryViews(doc, a, e)), EntryViews(doc, a, e), slots))
  BY DEF ReplaceEntryHeader
<1>3. PICK i \in DOMAIN doc.aot[a] :
    LET e     == doc.aot[a][i]
        prior == EntryTable(a, e)
        old   == caches.view[prior].header
        new   == [old EXCEPT !.entry = FreshEntry(doc), !.owner = FreshEntry(doc)]
        run   == InsertAt(doc.stream, Posn(doc, old), new)
        ord   == Keys(run)
        F1    == File(caches, ord, {}, {EntryTable(a, FreshEntry(doc))}, new)
        F2    == Replaced(F1, ord, old, new, prior)
        slots == EntrySlots(doc, a, e)
    IN  Becomes(Dropping(run, Range(slots)),
                Without(Scrub(F2, ord, slots, EntryViews(doc, a, e)), EntryViews(doc, a, e), slots))
  BY <1>2
<1> DEFINE e     == doc.aot[a][i]
           f     == FreshEntry(doc)
           prior == EntryTable(a, e)
           old   == caches.view[prior].header
           new   == [old EXCEPT !.entry = f, !.owner = f]
           run   == InsertAt(doc.stream, Posn(doc, old), new)
           ord   == Keys(run)
           F1    == File(caches, ord, {}, {EntryTable(a, f)}, new)
           slots == EntrySlots(doc, a, e)
           R     == OwnedByContainer(doc, prior)
           skip  == Beneath(doc, prior)
           G     == Replaced(F1, ord, old, new, prior)
<1>4. Becomes(Dropping(run, Range(slots)),
              Without(Scrub(G, ord, slots, EntryViews(doc, a, e)), EntryViews(doc, a, e), slots))
  BY <1>3
<1>5. e \in Range(EntriesOf(doc, a))
  <2>1. EntriesOf(doc, a) = doc.aot[a]
    BY <1>1, EntriesInLine
  <2> QED BY <2>1 DEF Range
<1> HIDE DEF e
<1>6. PICK g \in 1..Len(doc.stream) : EntryAt(doc, a, e, g) /\ caches.view[prior].header = doc.stream[g]
  BY <1>5, EntryHeaderAt
<1>7. old = doc.stream[g] /\ Posn(doc, old) = g
  BY <1>1, <1>6, PutInPlace
<1>8. Renewal(doc, a, e, g, new) /\ new.entry = f
  <2>1. new = [doc.stream[g] EXCEPT !.entry = f, !.owner = f]
    BY <1>7
  <2> HIDE DEF new
  <2> QED BY <1>5, <1>6, <2>1, RenewalOf
<1> HIDE DEF new, old, f
<1>9. run = InsertAt(doc.stream, g, new)
  BY <1>7
<1>10. FiledToo(F1, run, {EntryTable(a, new.entry)}, new)
  BY <1>8, <1>9, RenewalFiled
<1> HIDE DEF run, F1
<1>11. Renewed(G, a, e, g, new, run)
  BY <1>7, <1>8, <1>9, <1>10, RenewalReplaces
<1>12. Range(slots) = R /\ slots = InOrder(doc, R) /\ EntryViews(doc, a, e) = skip
  <2>1. slots = InOrder(doc, R) /\ EntryViews(doc, a, e) = skip
    BY DEF EntrySlots, EntryViews, Beneath
  <2>2. prior # Root /\ prior[2] \in Seq(Key)
    BY <1>8 DEF Renewal, EntryAt, EntryTable, Path
  <2> HIDE DEF prior, slots, skip
  <2>3. R \subseteq Range(doc.stream)
    BY <1>1, <2>2, OwnedListed
  <2> HIDE DEF R
  <2>4. Orders(slots, Keys(doc.stream), R)
    BY <1>1, <2>1, <2>3, InOrderOrders
  <2> QED BY <2>1, <2>4, OrdersRange
<1> HIDE DEF G, slots
<1>13. Becomes(Dropping(run, R), Without(Scrub(G, Keys(run), slots, skip), skip, slots))
  BY <1>4, <1>12
<1> DEFINE z == prior
<1>14. z = EntryTable(a, e) /\ R = OwnedByContainer(doc, z) /\ skip = Beneath(doc, z)
  OBVIOUS
<1> HIDE DEF z, R, skip
<1> QED BY ONLY FilingInv, <1>8, <1>9, <1>11, <1>12, <1>13, <1>14, RenewalFiling

-----------------------------------------------------------------------------
(* Every change.                                                           *)

LEMMA NextFiling == FilingInv /\ [Next]_filingVars => FilingInv'
<1> SUFFICES ASSUME FilingInv, [Next]_filingVars PROVE FilingInv'
  OBVIOUS
<1>1. CASE InsertLine
  BY <1>1, InsertFiling
<1>2. CASE DemoteHeader
  BY <1>2, DemoteFiling
<1>3. CASE DeleteBindings
  BY <1>3, DeleteFiling
<1>4. CASE OrphanEntries
  BY <1>4, OrphanFiling
<1>5. CASE ReplaceEntryHeader
  BY <1>5, ReplaceFiling
<1>6. CASE MoveSlots
  BY <1>6, MoveFiling
<1>7. CASE PermuteRegion
  BY <1>7, PermuteFiling
<1>8. CASE UNCHANGED filingVars
  BY <1>8 DEF filingVars, FilingInv
<1> QED BY <1>1, <1>2, <1>3, <1>4, <1>5, <1>6, <1>7, <1>8 DEF Next

(* Whatever the keys, the values and the lines, and however many changes   *)
(* follow one another, the projections stay what a build of the text that  *)
(* stands from nothing would give: the inductive invariant.                *)
THEOREM FilingHolds == Spec => []FilingInv
<1>1. Init => FilingInv
  BY InitFiling
<1>2. FilingInv /\ [Next]_filingVars => FilingInv'
  BY NextFiling
<1> QED BY <1>1, <1>2, PTL DEF Spec

(* A slot's `_containers` and the containers' `_refs` always say the same, *)
(* and no container lists a slot twice.                                    *)
THEOREM FilingTypeOK == Spec => []TypeOK
<1>1. FilingInv => TypeOK
  BY InvTypeOK
<1> QED BY <1>1, FilingHolds, PTL

(* `_refs`, each bucket of `_index` and `_header` are always in document   *)
(* order what a build from nothing would file, though the code only ever   *)
(* bisects and patches them.                                               *)
THEOREM FilingProjectionsExact == Spec => []ProjectionsExact
<1>1. FilingInv => ProjectionsExact
  BY InvProjectionsExact
<1> QED BY <1>1, FilingHolds, PTL

(* `_body_tail` always marks the last of the container's own lines, though *)
(* only some patches recompute it.                                         *)
THEOREM FilingBodyTailsCurrent == Spec => []BodyTailsCurrent
<1>1. FilingInv => BodyTailsCurrent
  BY InvBodyTails
<1> QED BY <1>1, FilingHolds, PTL

(* No assertion on the way of a patch ever fails: each bisection finds the *)
(* slot it looks for, by the keys it is given.                             *)
THEOREM FilingAssertionsHold == Spec => []AssertionsHold
<1>1. FilingInv => AssertionsHold
  BY InvAssertions
<1> QED BY <1>1, FilingHolds, PTL
=============================================================================
