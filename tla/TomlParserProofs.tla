------------------------- MODULE TomlParserProofs --------------------------
(***************************************************************************)
(* Proofs about reading a document.  The validator keeps one declaration   *)
(* per path and overwrites it as lines come; the reference reads all the   *)
(* lines that still count.  KindsExact says that the two describe the same *)
(* scopes, path by path, and every step preserves it.                      *)
(***************************************************************************)
EXTENDS TomlParser, TomlRulesProofs

Typed ==
  /\ IsValidator(validator)
  /\ validator.section \in Paths \cup {<<>>}
  /\ IsDocument(doc)
  /\ bound \in Bounds

-----------------------------------------------------------------------------
(* Slots and the lines that make them.                                     *)

LEMMA PathsType == bound \in Bounds => Paths \subseteq Path
<1> SUFFICES ASSUME bound \in Bounds, NEW p \in Paths
             PROVE  p \in Path
  OBVIOUS
<1>1. PICK n \in 1..bound.depth : p \in [1..n -> bound.keys]
  BY DEF Paths
<1>2. n \in Nat \ {0} /\ bound.keys \subseteq Key
  BY BoundsAssumption
<1>3. p \in [1..n -> Key]
  BY <1>1, <1>2
<1>4. p \in Seq(Key) /\ Len(p) = n
  BY <1>2, <1>3
<1> QED BY <1>2, <1>4 DEF Path

LEMMA LatestEntryType == IsDocument(doc) => LatestEntry \in Nat
<1> SUFFICES ASSUME IsDocument(doc) PROVE LatestEntry \in Nat
  OBVIOUS
<1> DEFINE entries == {s \in Range(doc.stream) : IsHeader(s) /\ s.entry # NoEntry}
           n == Len(doc.stream)
<1>1. n \in Nat /\ IsFiniteSet(1..n)
  <2>1. n \in Nat
    BY DEF IsDocument
  <2> QED BY <2>1, FS_Interval
<1>2. Range(doc.stream) = {doc.stream[i] : i \in 1..n}
  BY DEF IsDocument, Range
<1>3. IsFiniteSet({doc.stream[i] : i \in 1..n})
  <2> DEFINE f == [i \in 1..n |-> doc.stream[i]]
             T == {doc.stream[i] : i \in 1..n}
  <2>1. f \in Surjection(1..n, T)
    BY DEF Surjection
  <2> HIDE DEF f, T
  <2>2. IsFiniteSet(T)
    BY <1>1, <2>1, FS_Surjection
  <2> QED BY <2>2 DEF T
<1>4. IsFiniteSet(entries)
  BY <1>2, <1>3, FS_Subset
<1> QED BY <1>4, FS_CardinalityType DEF LatestEntry

(* A line is a `key = value` stamped with the section in force, or a header *)
(* stamped with the entry the validator gives it.                          *)
LEMMA LineShapes ==
  ASSUME Typed, NEW s \in Lines
  PROVE  \/ /\ s \in KVSlots /\ s.key \in Paths
            /\ s.host = validator.section /\ s.owner = validator.owner
         \/ /\ s \in HeaderSlots /\ s.path \in Paths
            /\ s.entry \in {NoEntry, LatestEntry + 1}
            /\ s.owner = EnterHeader(validator, s.path, s.entry).owner
<1> USE DEF IsKV, IsHeader, Header, KV
<1>1. Paths \subseteq Path /\ LatestEntry \in Nat
  BY PathsType, LatestEntryType DEF Typed
<1>2. ASSUME NEW p \in Paths, NEW e \in {NoEntry, LatestEntry + 1},
             s = Reread(validator, Header(p, NoEntry, e, FALSE))
      PROVE  /\ s \in HeaderSlots /\ s.path \in Paths /\ s.entry = e
             /\ s.owner = EnterHeader(validator, s.path, s.entry).owner
  <2> DEFINE o == EnterHeader(validator, p, e).owner
  <2>1. s = Header(p, o, e, FALSE)
    BY <1>2 DEF Reread, AfterSlot
  <2>2. o \in Nat
    BY <1>1, EnclosingEntryType DEF EnterHeader, Typed, NoEntry
  <2> HIDE DEF o
  <2>3. s \in HeaderSlots /\ s.path = p /\ s.entry = e /\ s.owner = o
    BY <1>1, <2>1, <2>2 DEF HeaderSlots, NoEntry
  <2> QED BY <2>3 DEF o
<1>3. ASSUME NEW k \in Paths, NEW x \in Vals, s = Reread(validator, KV(<<>>, k, NoEntry, x))
      PROVE  /\ s \in KVSlots /\ s.key \in Paths
             /\ s.host = validator.section /\ s.owner = validator.owner
  <2>1. s = KV(validator.section, k, validator.owner, x)
    BY <1>3 DEF Reread
  <2> QED BY <1>1, <2>1 DEF KVSlots, Typed, IsValidator
<1>4. CASE \E p \in Paths, e \in {NoEntry, LatestEntry + 1} :
             s = Reread(validator, Header(p, NoEntry, e, FALSE))
  BY <1>2, <1>4
<1>5. CASE \E k \in Paths, x \in Vals : s = Reread(validator, KV(<<>>, k, NoEntry, x))
  BY <1>3, <1>5
<1>6. \/ \E p \in Paths, e \in {NoEntry, LatestEntry + 1} :
            s = Reread(validator, Header(p, NoEntry, e, FALSE))
      \/ \E k \in Paths, x \in Vals : s = Reread(validator, KV(<<>>, k, NoEntry, x))
  BY DEF Lines
<1> QED BY <1>4, <1>5, <1>6

-----------------------------------------------------------------------------
(* The reference for redefinition, for any set of lines that still count:   *)
(* how one more line changes it.                                           *)

(* A fresh array entry clears what the lines under its path declared. *)
Clears(s, x) == IsHeader(s) /\ s.entry # NoEntry /\ IsStrictPrefix(s.path, FullPath(x))

ValueIn(L, p)    == \E s \in L : IsKV(s) /\ FullPath(s) = p
DottedIn(L, p)   == \E s \in L : IsKV(s) /\ IsStrictPrefix(s.host, p)
                                         /\ IsStrictPrefix(p, FullPath(s))
ExplicitIn(L, p) == \E s \in L : IsHeader(s) /\ s.path = p /\ s.entry = NoEntry
EntryIn(L, p)    == \E s \in L : IsHeader(s) /\ s.path = p /\ s.entry # NoEntry
AboveIn(L, p)    == \E s \in L : IsHeader(s) /\ IsStrictPrefix(p, s.path)

KindExact(v, L, p) ==
  LET kind == KindAt(v, p)
  IN  /\ kind = "value"    <=> ValueIn(L, p)
      /\ kind = "dotted"   <=> DottedIn(L, p)
      /\ kind = "explicit" <=> ExplicitIn(L, p)
      /\ kind = "entry"    <=> EntryIn(L, p)
      /\ kind = "implicit" <=> /\ AboveIn(L, p)
                               /\ kind \notin {"value", "dotted", "explicit", "entry"}

After(L, s) == {x \in L : ~Clears(s, x)} \cup {s}

LiveIn(q) ==
  {q[i] : i \in {k \in DOMAIN q :
     \A j \in (k + 1)..Len(q) : ~(IsHeader(q[j]) /\ q[j].entry # NoEntry
                                   /\ IsStrictPrefix(q[j].path, FullPath(q[k])))}}

LEMMA LiveAfter ==
  ASSUME NEW q \in Seq(Slots), NEW s \in Slots
  PROVE  LiveIn(Append(q, s)) = After(LiveIn(q), s)
<1> DEFINE r == Append(q, s)
           n == Len(q)
           Counts(t, k) == k \in DOMAIN t /\ \A j \in (k + 1)..Len(t) : ~Clears(t[j], t[k])
<1>1. /\ \A x : x \in LiveIn(q) <=> \E k : Counts(q, k) /\ x = q[k]
      /\ \A x : x \in LiveIn(r) <=> \E k : Counts(r, k) /\ x = r[k]
  BY DEF LiveIn, Clears
<1>2. /\ n \in Nat /\ DOMAIN q = 1..n /\ DOMAIN r = 1..(n + 1) /\ Len(r) = n + 1
      /\ r[n + 1] = s /\ \A k \in 1..n : r[k] = q[k]
  OBVIOUS
<1> HIDE DEF r, n
<1>3. ASSUME NEW k \in 1..n
      PROVE  Counts(r, k) <=> Counts(q, k) /\ ~Clears(s, q[k])
  <2>1. r[k] = q[k] /\ \A j \in (k + 1)..n : r[j] = q[j]
    BY <1>2
  <2>2. (\A j \in (k + 1)..(n + 1) : ~Clears(r[j], r[k]))
          <=> (\A j \in (k + 1)..n : ~Clears(r[j], r[k])) /\ ~Clears(r[n + 1], r[k])
    <3>1. \A j : j \in (k + 1)..(n + 1) <=> j \in (k + 1)..n \/ j = n + 1
      BY <1>2
    <3> QED BY <3>1
  <2> QED BY <1>2, <2>1, <2>2 DEF n
<1>4. Counts(r, n + 1)
  BY <1>2
<1>5. ASSUME NEW x
      PROVE  x \in LiveIn(r) <=> x \in After(LiveIn(q), s)
  <2>1. x \in LiveIn(r) <=> (\E k \in 1..n : Counts(r, k) /\ x = r[k]) \/ x = s
    <3>1. \A k : Counts(r, k) => k \in 1..n \/ k = n + 1
      BY <1>2
    <3> HIDE DEF Counts
    <3> QED BY <1>1, <1>2, <1>4, <3>1
  <2>2. x \in LiveIn(q) <=> \E k \in 1..n : Counts(q, k) /\ x = q[k]
    <3>1. \A k : Counts(q, k) => k \in 1..n
      BY <1>2
    <3> HIDE DEF Counts
    <3> QED BY <1>1, <3>1
  <2> HIDE DEF Counts
  <2> QED BY <1>2, <1>3, <2>1, <2>2 DEF After
<1> QED BY <1>5 DEF r

LEMMA HeaderStaysExact ==
  ASSUME NEW v, IsValidator(v), NEW L \in SUBSET Slots, \A p \in Path : KindExact(v, L, p),
         NEW s \in HeaderSlots, HeaderAllowed(v, s.path, s.entry # NoEntry)
  PROVE  \A p \in Path : KindExact(EnterHeader(v, s.path, s.entry), After(L, s), p)
<1> DEFINE w == EnterHeader(v, s.path, s.entry)
           M == After(L, s)
           path == s.path
           isEntry == s.entry # NoEntry
<1>1. /\ IsHeader(s) /\ ~IsKV(s) /\ path \in Path /\ s.entry \in Nat
      /\ \A x \in L : /\ FullPath(x) \in Path
                      /\ IsKV(x) <=> ~IsHeader(x)
                      /\ IsHeader(x) => x.path = FullPath(x)
                      /\ IsKV(x) => x.host \in Seq(Key)
  BY SlotsType DEF Slots
<1>2. \A x : x \in M <=> x = s \/ (x \in L /\ ~(isEntry /\ IsStrictPrefix(path, FullPath(x))))
  BY <1>1 DEF After, Clears
<1>3. \A p \in Path :
        KindAt(w, p) =
          IF p = path THEN IF ~isEntry THEN "explicit" ELSE "entry"
          ELSE IF IsStrictPrefix(p, path) /\ KindAt(v, p) = "none" THEN "implicit"
          ELSE IF IsStrictPrefix(path, p) /\ isEntry THEN "none"
          ELSE KindAt(v, p)
  <2>1. ASSUME NEW q \in Path, NEW e \in Nat
        PROVE  \A p \in Path :
                 KindAt(EnterHeader(v, q, e), p) =
                   IF p = q THEN IF e = NoEntry THEN "explicit" ELSE "entry"
                   ELSE IF IsStrictPrefix(p, q) /\ KindAt(v, p) = "none" THEN "implicit"
                   ELSE IF IsStrictPrefix(q, p) /\ e # NoEntry THEN "none"
                   ELSE KindAt(v, p)
    BY HeaderDeclares
  <2> QED BY <1>1, <2>1
<1>4. /\ KindAt(v, path) \notin {"value", "dotted"}
      /\ isEntry => KindAt(v, path) \notin {"explicit", "implicit"}
      /\ ~isEntry => KindAt(v, path) \notin {"explicit", "entry"}
  BY DEF HeaderAllowed
<1>5. \A p \in Path : KindExact(v, L, p)
  OBVIOUS
<1>6. ASSUME NEW x \in Path
      PROVE  ~IsStrictPrefix(path, path) /\ (IsStrictPrefix(path, x) => ~IsStrictPrefix(x, path))
  BY <1>1, <1>6, StrictPrefixIrreflexive, StrictPrefixAsymmetric DEF Path
<1>7. ASSUME NEW x \in Path, NEW y \in Path, IsStrictPrefix(path, x), IsStrictPrefix(x, y)
      PROVE  IsStrictPrefix(path, y)
  BY <1>1, <1>7, StrictPrefixTransitive DEF Path
<1>8. ASSUME NEW x \in Path, NEW y \in Path, IsStrictPrefix(x, y), IsStrictPrefix(path, y)
      PROVE  x = path \/ IsStrictPrefix(x, path) \/ IsStrictPrefix(path, x)
  BY <1>1, <1>8, PrefixesComparable DEF Path
<1> HIDE DEF w, M, path
<1> SUFFICES ASSUME NEW p \in Path
             PROVE  KindExact(w, M, p)
  BY DEF w, M, path
<1> DEFINE cleared == isEntry /\ IsStrictPrefix(path, p)
<1>9. ValueIn(M, p) <=> ValueIn(L, p) /\ ~cleared
  BY <1>1, <1>2 DEF ValueIn
<1>10. DottedIn(M, p) <=> DottedIn(L, p) /\ ~cleared
  <2>1. ASSUME DottedIn(M, p)
        PROVE  DottedIn(L, p) /\ ~cleared
    <3>1. PICK x \in M : IsKV(x) /\ IsStrictPrefix(x.host, p) /\ IsStrictPrefix(p, FullPath(x))
      BY <2>1 DEF DottedIn
    <3>2. x \in L /\ ~(isEntry /\ IsStrictPrefix(path, FullPath(x)))
      BY <1>1, <1>2, <3>1
    <3> QED BY <1>1, <1>7, <3>1, <3>2 DEF DottedIn
  <2>2. ASSUME DottedIn(L, p), ~cleared
        PROVE  DottedIn(M, p)
    <3>1. PICK x \in L : IsKV(x) /\ IsStrictPrefix(x.host, p) /\ IsStrictPrefix(p, FullPath(x))
      BY <2>2 DEF DottedIn
    <3>2. CASE x \in M
      BY <3>1, <3>2 DEF DottedIn
    <3>3. CASE x \notin M
      <4>1. isEntry /\ IsStrictPrefix(path, FullPath(x))
        BY <1>2, <3>3
      <4>2. p = path \/ IsStrictPrefix(p, path)
        BY <1>1, <1>8, <2>2, <3>1, <4>1
      <4>3. IsStrictPrefix(x.host, path)
        <5>1. p \in Seq(Key) /\ path \in Seq(Key) /\ x.host \in Seq(Key)
          BY <1>1, <3>1 DEF Path
        <5> QED BY <3>1, <4>2, <5>1, StrictPrefixTransitive
      <4>4. DottedIn(L, path)
        BY <3>1, <4>1, <4>3 DEF DottedIn
      <4>5. KindAt(v, path) = "dotted"
        BY <1>1, <1>5, <4>4 DEF KindExact
      <4> QED BY <1>4, <4>5
    <3> QED BY <3>2, <3>3
  <2> QED BY <2>1, <2>2
<1>11. ExplicitIn(M, p) <=> (ExplicitIn(L, p) /\ ~cleared) \/ (p = path /\ ~isEntry)
  <2>1. s \in M /\ IsHeader(s) /\ s.path = path
    BY <1>1, <1>2 DEF path
  <2> QED BY <1>1, <1>2, <2>1 DEF ExplicitIn, isEntry
<1>12. EntryIn(M, p) <=> (EntryIn(L, p) /\ ~cleared) \/ (p = path /\ isEntry)
  <2>1. s \in M /\ IsHeader(s) /\ s.path = path
    BY <1>1, <1>2 DEF path
  <2> QED BY <1>1, <1>2, <2>1 DEF EntryIn, isEntry
<1>13. p # path => (AboveIn(M, p) <=> (AboveIn(L, p) /\ ~cleared) \/ IsStrictPrefix(p, path))
  <2>1. s \in M /\ IsHeader(s) /\ s.path = path
    BY <1>1, <1>2 DEF path
  <2>2. ASSUME AboveIn(M, p)
        PROVE  (AboveIn(L, p) /\ ~cleared) \/ IsStrictPrefix(p, path)
    <3>1. PICK x \in M : IsHeader(x) /\ IsStrictPrefix(p, x.path)
      BY <2>2 DEF AboveIn
    <3>2. CASE x = s
      BY <2>1, <3>1, <3>2
    <3>3. CASE x \in L /\ ~(isEntry /\ IsStrictPrefix(path, FullPath(x)))
      BY <1>1, <1>7, <3>1, <3>3 DEF AboveIn
    <3> QED BY <1>2, <3>2, <3>3
  <2>3. ASSUME AboveIn(L, p), ~cleared, p # path
        PROVE  AboveIn(M, p)
    <3>1. PICK x \in L : IsHeader(x) /\ IsStrictPrefix(p, x.path)
      BY <2>3 DEF AboveIn
    <3>2. CASE x \in M
      BY <3>1, <3>2 DEF AboveIn
    <3>3. CASE x \notin M
      <4>1. isEntry /\ IsStrictPrefix(path, FullPath(x))
        BY <1>2, <3>3
      <4>2. IsStrictPrefix(p, path)
        BY <1>1, <1>8, <2>3, <3>1, <4>1
      <4> QED BY <2>1, <4>2 DEF AboveIn
    <3> QED BY <3>2, <3>3
  <2>4. IsStrictPrefix(p, path) => AboveIn(M, p)
    BY <2>1 DEF AboveIn
  <2> QED BY <2>2, <2>3, <2>4
<1>14. KindAt(v, p) \in Kinds \cup {"none"}
  BY Undeclared
<1>15. CASE p = path
  BY <1>3, <1>4, <1>5, <1>6, <1>9, <1>10, <1>11, <1>12, <1>15 DEF KindExact
<1>16. CASE p # path /\ IsStrictPrefix(p, path)
  <2>1. ~cleared
    BY <1>6, <1>16
  <2>2. KindAt(w, p) = IF KindAt(v, p) = "none" THEN "implicit" ELSE KindAt(v, p)
    BY <1>3, <1>16, <2>1
  <2> QED BY <1>5, <1>9, <1>10, <1>11, <1>12, <1>13, <1>14, <1>16, <2>1, <2>2 DEF KindExact, Kinds
<1>17. CASE p # path /\ ~IsStrictPrefix(p, path) /\ cleared
  <2>1. KindAt(w, p) = "none"
    BY <1>3, <1>17
  <2> QED BY <1>9, <1>10, <1>11, <1>12, <1>13, <1>17, <2>1 DEF KindExact
<1>18. CASE p # path /\ ~IsStrictPrefix(p, path) /\ ~cleared
  <2>1. KindAt(w, p) = KindAt(v, p)
    BY <1>3, <1>18
  <2> QED BY <1>5, <1>9, <1>10, <1>11, <1>12, <1>13, <1>18, <2>1 DEF KindExact
<1> QED BY <1>15, <1>16, <1>17, <1>18

LEMMA KeyStaysExact ==
  ASSUME NEW v, IsValidator(v), NEW L \in SUBSET Slots, \A p \in Path : KindExact(v, L, p),
         NEW s \in KVSlots, s.host = v.section, KeyAllowed(v, s.key)
  PROVE  \A p \in Path : KindExact(RecordKeyvalue(v, s.key), After(L, s), p)
<1> DEFINE w == RecordKeyvalue(v, s.key)
           M == After(L, s)
           leaf == FullPath(s)
<1>1. /\ IsKV(s) /\ ~IsHeader(s) /\ s.key \in Path /\ leaf = v.section \o s.key
      /\ leaf \in Path /\ v.section \in Seq(Key)
  BY SlotsType DEF IsValidator
<1>2. M = L \cup {s}
  BY <1>1 DEF After, Clears
<1>3. \A p \in Path :
        KindAt(w, p) =
          IF p = leaf THEN "value"
          ELSE IF IsStrictPrefix(v.section, p) /\ IsStrictPrefix(p, leaf) THEN "dotted"
          ELSE KindAt(v, p)
  <2>1. \A p \in Path :
          KindAt(w, p) =
            IF p = v.section \o s.key THEN "value"
            ELSE IF IsStrictPrefix(v.section, p) /\ IsStrictPrefix(p, v.section \o s.key)
              THEN "dotted"
            ELSE KindAt(v, p)
    BY <1>1, KeyDeclares
  <2> HIDE DEF w, leaf
  <2> QED BY <1>1, <2>1
<1>4. KindAt(v, leaf) = "none"
  BY <1>1 DEF KeyAllowed
<1>5. ASSUME NEW p \in Path, IsStrictPrefix(v.section, p), IsStrictPrefix(p, leaf)
      PROVE  KindAt(v, p) \in {"none", "dotted", "implicit"}
  <2>1. PathBetween(p, v.section, s.key)
    <3>1. p \in Seq(Key) /\ s.key \in Seq(Key)
      BY <1>1 DEF Path
    <3> QED BY <1>1, <1>5, <3>1, PathsBetween
  <2> QED BY <2>1 DEF PathBetween, KeyAllowed
<1>6. \A p \in Path : KindExact(v, L, p)
  OBVIOUS
<1>7. ~IsStrictPrefix(leaf, leaf)
  BY StrictPrefixIrreflexive
<1> HIDE DEF w, M, leaf
<1> SUFFICES ASSUME NEW p \in Path
             PROVE  KindExact(w, M, p)
  BY DEF w, M
<1>8. /\ ValueIn(M, p) <=> ValueIn(L, p) \/ p = leaf
      /\ ExplicitIn(M, p) <=> ExplicitIn(L, p)
      /\ EntryIn(M, p) <=> EntryIn(L, p)
      /\ AboveIn(M, p) <=> AboveIn(L, p)
  BY <1>1, <1>2 DEF ValueIn, ExplicitIn, EntryIn, AboveIn, leaf
<1>9. DottedIn(M, p) <=> DottedIn(L, p) \/ (IsStrictPrefix(v.section, p) /\ IsStrictPrefix(p, leaf))
  BY <1>1, <1>2 DEF DottedIn, leaf
<1>10. KindAt(v, p) \in Kinds \cup {"none"}
  BY Undeclared
<1>11. CASE p = leaf
  BY <1>3, <1>4, <1>6, <1>7, <1>8, <1>9, <1>11 DEF KindExact
<1>12. CASE p # leaf /\ IsStrictPrefix(v.section, p) /\ IsStrictPrefix(p, leaf)
  BY <1>3, <1>5, <1>6, <1>8, <1>9, <1>12 DEF KindExact
<1>13. CASE p # leaf /\ ~(IsStrictPrefix(v.section, p) /\ IsStrictPrefix(p, leaf))
  BY <1>3, <1>6, <1>8, <1>9, <1>13 DEF KindExact
<1> QED BY <1>11, <1>12, <1>13

(* What the invariant says of the next line: the validator takes it exactly *)
(* when it redefines nothing.                                              *)
ConflictIn(L, s) ==
  LET p == FullPath(s)
  IN  IF IsKV(s)
        THEN \/ \E q \in UpTo(p, Len(s.host)) :
                  ValueIn(L, q) \/ ExplicitIn(L, q) \/ EntryIn(L, q)
             \/ DottedIn(L, p) \/ AboveIn(L, p)
        ELSE \/ \E q \in UpTo(p, 0) : ValueIn(L, q)
             \/ DottedIn(L, p) \/ ExplicitIn(L, p)
             \/ s.entry = NoEntry /\ EntryIn(L, p)
             \/ s.entry # NoEntry /\ AboveIn(L, p) /\ ~EntryIn(L, p)

LEMMA ExactRefusals ==
  ASSUME NEW v, IsValidator(v), NEW L \in SUBSET Slots, \A p \in Path : KindExact(v, L, p),
         NEW s \in Slots, IsKV(s) => s.host = v.section
  PROVE  Allowed(v, s) <=> ~ConflictIn(L, s)
<1>1. \A p \in Path : KindExact(v, L, p) /\ KindAt(v, p) \in Kinds \cup {"none"}
  BY Undeclared
<1>2. CASE s \in HeaderSlots
  <2> DEFINE n == Len(s.path)
  <2>1. /\ ~IsKV(s) /\ s.path \in Path /\ s.path \in Seq(Key) /\ FullPath(s) = s.path
        /\ n \in Nat \ {0}
    BY <1>2, SlotsType DEF Path
  <2>2. \A i \in 1..n : Prefix(s.path, i) \in Path
    BY <2>1, PrefixType DEF Path
  <2>3. Prefix(s.path, n) = s.path
    BY <2>1, PrefixType
  <2>4. (\E q \in UpTo(s.path, 0) : ValueIn(L, q))
          <=> \E i \in 1..n : KindAt(v, Prefix(s.path, i)) = "value"
    BY <1>1, <2>2 DEF UpTo, KindExact
  <2>5. (\E i \in 1..n : KindAt(v, Prefix(s.path, i)) = "value")
          <=> \/ \E i \in 1..(n - 1) : KindAt(v, Prefix(s.path, i)) = "value"
              \/ KindAt(v, s.path) = "value"
    <3>1. \A i : i \in 1..n <=> i \in 1..(n - 1) \/ i = n
      BY <2>1
    <3> QED BY <2>3, <3>1
  <2>6. Allowed(v, s) <=> HeaderAllowed(v, s.path, s.entry # NoEntry)
    BY <2>1 DEF Allowed
  <2>7. KindExact(v, L, s.path) /\ KindAt(v, s.path) \in Kinds \cup {"none"}
    BY <1>1, <2>1
  <2> QED BY <2>1, <2>4, <2>5, <2>6, <2>7 DEF HeaderAllowed, ConflictIn, KindExact, Kinds
<1>3. CASE s \in KVSlots
  <2> DEFINE h == Len(s.host)
             k == Len(s.key)
             leaf == FullPath(s)
             Taken(q) == KindAt(v, q) \in {"value", "explicit", "entry"}
  <2>1. /\ IsKV(s) /\ s.host = v.section /\ s.host \in Seq(Key)
        /\ s.key \in Path /\ s.key \in Seq(Key)
        /\ leaf = s.host \o s.key /\ leaf \in Path /\ leaf \in Seq(Key)
        /\ h \in Nat /\ k \in Nat \ {0} /\ Len(leaf) = h + k
    <3>1. /\ IsKV(s) /\ s.host = v.section /\ s.host \in Seq(Key)
          /\ s.key \in Path /\ s.key \in Seq(Key)
          /\ leaf = s.host \o s.key /\ leaf \in Path /\ leaf \in Seq(Key)
      BY <1>3, SlotsType DEF Path
    <3>2. h \in Nat /\ k \in Nat \ {0}
      BY <3>1 DEF Path
    <3>3. Len(s.host \o s.key) = h + k
      BY <3>1, Below
    <3> QED BY <3>1, <3>2, <3>3
  <2>2. \A i \in 1..k : s.host \o Prefix(s.key, i) = Prefix(leaf, h + i)
    <3>1. ASSUME NEW i \in 1..k
          PROVE  s.host \o Prefix(s.key, i) = Prefix(leaf, h + i)
      <4>1. i \in 0..Len(s.key)
        BY <2>1
      <4>2. \A x, y \in Seq(Key) : i \in 0..Len(y) =>
              x \o Prefix(y, i) = Prefix(x \o y, Len(x) + i)
        BY DottedStep
      <4>3. s.host \o Prefix(s.key, i) = Prefix(s.host \o s.key, Len(s.host) + i)
        BY <2>1, <4>1, <4>2
      <4> QED BY <2>1, <4>3
    <3> QED BY <3>1
  <2>3. Prefix(leaf, h + k) = leaf
    <3> HIDE DEF leaf, h, k
    <3>1. Len(leaf) \in 0..Len(leaf)
      BY <2>1
    <3>2. Prefix(leaf, Len(leaf)) = leaf
      BY <2>1, <3>1, PrefixType
    <3> QED BY <2>1, <3>2
  <2> HIDE DEF leaf, h, k
  <2>4. \A i \in 1..k : Prefix(leaf, h + i) \in Path
    <3>1. ASSUME NEW i \in 1..k
          PROVE  Prefix(leaf, h + i) \in Path
      <4> DEFINE m == h + i
      <4>1. m \in 0..Len(leaf) /\ m # 0
        BY <2>1
      <4>2. leaf \in Seq(Key)
        BY <2>1 DEF Path
      <4> HIDE DEF m
      <4>3. Prefix(leaf, m) \in Seq(Key) /\ Len(Prefix(leaf, m)) # 0
        BY <4>1, <4>2, PrefixType
      <4> QED BY <4>3 DEF Path, m
    <3> QED BY <3>1
  <2>5. UpTo(leaf, h) = {Prefix(leaf, h + i) : i \in 1..k}
    <3>1. \A j \in (h + 1)..(h + k) : j - h \in 1..k /\ j = h + (j - h)
      BY <2>1
    <3>2. \A i \in 1..k : h + i \in (h + 1)..(h + k)
      BY <2>1
    <3> QED BY <2>1, <3>1, <3>2 DEF UpTo
  <2>6. (\E q \in UpTo(leaf, h) : ValueIn(L, q) \/ ExplicitIn(L, q) \/ EntryIn(L, q))
          <=> \E i \in 1..k : Taken(Prefix(leaf, h + i))
    BY <1>1, <2>4, <2>5 DEF KindExact
  <2>7. (\E i \in 1..k : Taken(Prefix(leaf, h + i)))
          <=> (\E i \in 1..(k - 1) : Taken(Prefix(leaf, h + i))) \/ Taken(leaf)
    <3>1. \A i : i \in 1..k <=> i \in 1..(k - 1) \/ i = k
      BY <2>1
    <3> HIDE DEF Taken
    <3> QED BY <2>3, <3>1
  <2>8. Allowed(v, s) <=> (~\E i \in 1..(k - 1) : Taken(Prefix(leaf, h + i))) /\ KindAt(v, leaf) = "none"
    <3>1. Allowed(v, s) <=> /\ \A i \in 1..(k - 1) : KindAt(v, s.host \o Prefix(s.key, i)) \in {"none", "dotted", "implicit"}
                            /\ KindAt(v, leaf) = "none"
      BY <2>1 DEF Allowed, KeyAllowed, k
    <3>2. \A i \in 1..(k - 1) : s.host \o Prefix(s.key, i) = Prefix(leaf, h + i)
                                 /\ Prefix(leaf, h + i) \in Path
      <4>1. \A i \in 1..(k - 1) : i \in 1..k
        BY <2>1
      <4> QED BY <2>2, <2>4, <4>1
    <3>3. \A q \in Path : KindAt(v, q) \in {"none", "dotted", "implicit"} <=> ~Taken(q)
      BY <1>1 DEF Kinds
    <3> HIDE DEF Taken
    <3> QED BY <3>1, <3>2, <3>3
  <2>9. KindExact(v, L, leaf) /\ KindAt(v, leaf) \in Kinds \cup {"none"}
    BY <1>1, <2>1
  <2>10. ConflictIn(L, s) <=> \/ \E q \in UpTo(leaf, h) : ValueIn(L, q) \/ ExplicitIn(L, q) \/ EntryIn(L, q)
                              \/ DottedIn(L, leaf) \/ AboveIn(L, leaf)
    BY <2>1 DEF ConflictIn, leaf, h
  <2> QED BY <2>6, <2>7, <2>8, <2>9, <2>10 DEF KindExact, Kinds
<1> QED BY <1>2, <1>3 DEF Slots

-----------------------------------------------------------------------------
(* The invariant, step by step.                                            *)

KindsExact == \A p \in Path : KindExact(validator, Live, p)

ScopesExact == Typed /\ KindsExact

LEMMA LiveIsLiveIn == Live = LiveIn(doc.stream)
BY DEF Live, LiveIn

LEMMA LiveSlots ==
  ASSUME NEW q \in Seq(Slots)
  PROVE  LiveIn(q) \in SUBSET Slots
BY DEF LiveIn

LEMMA InitExact == Init => ScopesExact
<1> SUFFICES ASSUME Init
             PROVE  ScopesExact
  OBVIOUS
<1>1. validator = FreshValidator /\ doc = EmptyDocument /\ bound \in Bounds
  BY DEF Init
<1>2. IsValidator(validator) /\ DOMAIN validator.scopes = {} /\ validator.section = <<>>
  BY <1>1 DEF FreshValidator, IsValidator, NoEntry
<1>3. IsDocument(doc) /\ doc.stream = <<>>
  BY <1>1 DEF EmptyDocument, IsDocument
<1>4. Live = {}
  BY <1>3 DEF Live
<1>5. KindsExact
  BY <1>2, <1>4 DEF KindsExact, KindExact, KindAt, ValueIn, DottedIn, ExplicitIn, EntryIn, AboveIn
<1> QED BY <1>1, <1>2, <1>3, <1>5 DEF ScopesExact, Typed

LEMMA ReadExact ==
  ASSUME ScopesExact, NEW s \in Lines, Read(s)
  PROVE  ScopesExact'
<1> DEFINE w == AfterSlot(validator, s)
<1>1. /\ IsValidator(validator) /\ IsDocument(doc)
      /\ \A p \in Path : KindExact(validator, Live, p)
      /\ Live = LiveIn(doc.stream) /\ Live \in SUBSET Slots
  BY LiveIsLiveIn, LiveSlots DEF ScopesExact, Typed, KindsExact, IsDocument
<1>2. Allowed(validator, s) /\ validator' = w /\ doc' = ApplySlot(doc, s) /\ bound' = bound
  BY DEF Read
<1>3. s \in Slots
  BY LineShapes DEF ScopesExact, Slots
<1>4. IsDocument(doc') /\ doc'.stream = Append(doc.stream, s)
  BY <1>1, <1>2, <1>3, SlotAppended
<1>5. Live' = After(Live, s)
  <2>1. Live' = LiveIn(doc'.stream)
    BY DEF Live, LiveIn
  <2>2. LiveIn(Append(doc.stream, s)) = After(LiveIn(doc.stream), s)
    BY <1>1, <1>3, LiveAfter DEF IsDocument
  <2> QED BY <1>1, <1>4, <2>1, <2>2
<1>6. Paths' = Paths
  BY <1>2 DEF Paths
<1>7. /\ IsValidator(w) /\ w.section \in Paths \cup {<<>>}
      /\ \A p \in Path : KindExact(w, After(Live, s), p)
  <2>1. CASE s \in KVSlots
    <3>1. IsKV(s) /\ s.key \in Path /\ s.host = validator.section
      BY <2>1, LineShapes, SlotsType DEF ScopesExact
    <3>2. w = RecordKeyvalue(validator, s.key) /\ KeyAllowed(validator, s.key)
      BY <1>2, <3>1 DEF AfterSlot, Allowed
    <3>3. IsValidator(w) /\ w.section = validator.section
      BY <1>1, <3>1, <3>2, KeyDeclares
    <3>4. \A p \in Path : KindExact(RecordKeyvalue(validator, s.key), After(Live, s), p)
      BY <1>1, <2>1, <3>1, <3>2, KeyStaysExact
    <3> QED BY <3>2, <3>3, <3>4 DEF ScopesExact, Typed
  <2>2. CASE s \in HeaderSlots
    <3>1. ~IsKV(s) /\ s.path \in Path /\ s.entry \in Nat /\ s.path \in Paths
      BY <2>2, LineShapes, SlotsType DEF ScopesExact
    <3>2. /\ w = EnterHeader(validator, s.path, s.entry)
          /\ HeaderAllowed(validator, s.path, s.entry # NoEntry)
      BY <1>2, <3>1 DEF AfterSlot, Allowed
    <3>3. IsValidator(w) /\ w.section = s.path
      BY <1>1, <3>1, <3>2, HeaderDeclares
    <3>4. \A p \in Path :
            KindExact(EnterHeader(validator, s.path, s.entry), After(Live, s), p)
      BY <1>1, <2>2, <3>2, HeaderStaysExact
    <3> QED BY <3>1, <3>2, <3>3, <3>4
  <2> QED BY <1>3, <2>1, <2>2 DEF Slots
<1> HIDE DEF w
<1>8. KindsExact'
  BY <1>2, <1>5, <1>7 DEF KindsExact
<1>9. Typed'
  BY <1>2, <1>4, <1>6, <1>7 DEF Typed, ScopesExact
<1> QED BY <1>8, <1>9 DEF ScopesExact

LEMMA ScopesStayExact == Spec => []ScopesExact
<1>1. ASSUME ScopesExact, [Next]_parserVars
      PROVE  ScopesExact'
  <2>1. ASSUME NEW s \in Lines, Read(s)
        PROVE  ScopesExact'
    BY <1>1, <2>1, ReadExact
  <2>2. CASE Next
    BY <2>1, <2>2 DEF Next, ReadKeyValue, ReadTable, ReadEntry
  <2>3. CASE UNCHANGED parserVars
    <3>1. validator' = validator /\ doc' = doc /\ bound' = bound
      BY <2>3 DEF parserVars
    <3>2. Live' = Live /\ Paths' = Paths
      BY <3>1 DEF Live, Paths
    <3> QED BY <1>1, <3>1, <3>2 DEF ScopesExact, Typed, KindsExact
  <2> QED BY <1>1, <2>2, <2>3
<1> QED BY InitExact, <1>1, PTL DEF Spec

(* The validator's incremental scope tree refuses exactly the lines that   *)
(* redefine something an earlier, still current line defined, whatever the *)
(* keys, the values and the bounds: _Validator.enter_header and            *)
(* record_keyvalue.                                                        *)
THEOREM RefusalsExact == Spec => []RefusesExactlyRedefinitions
<1>1. ASSUME ScopesExact
      PROVE  RefusesExactlyRedefinitions
  <2> SUFFICES ASSUME NEW s \in Lines
               PROVE  Allowed(validator, s) <=> ~Conflict(s)
    BY DEF RefusesExactlyRedefinitions
  <2>1. /\ IsValidator(validator) /\ Live \in SUBSET Slots
        /\ \A p \in Path : KindExact(validator, Live, p)
    BY <1>1, LiveIsLiveIn, LiveSlots DEF ScopesExact, Typed, KindsExact, IsDocument
  <2>2. s \in Slots /\ (IsKV(s) => s.host = validator.section)
    BY <1>1, LineShapes, SlotsType DEF ScopesExact, Slots
  <2>3. Allowed(validator, s) <=> ~ConflictIn(Live, s)
    BY <2>1, <2>2, ExactRefusals
  <2>4. Conflict(s) <=> ConflictIn(Live, s)
    BY DEF Conflict, ConflictIn, ValueAt, DottedAt, ExplicitAt, EntryAt, AboveAt,
           ValueIn, DottedIn, ExplicitIn, EntryIn, AboveIn
  <2> QED BY <2>3, <2>4
<1> QED BY <1>1, ScopesStayExact, PTL
-----------------------------------------------------------------------------
(* The invariant.                                                          *)

EntrySlots(q) == {s \in Range(q) : IsHeader(s) /\ s.entry # NoEntry}

LEMMA RangeAppend ==
  ASSUME NEW q \in Seq(Slots), NEW s \in Slots
  PROVE  Range(Append(q, s)) = Range(q) \cup {s} /\ IsFiniteSet(EntrySlots(q))
<1> DEFINE n == Len(q)
           r == Append(q, s)
<1>1. n \in Nat /\ DOMAIN q = 1..n /\ DOMAIN r = 1..(n + 1) /\ r[n + 1] = s
      /\ \A i \in 1..n : r[i] = q[i]
  OBVIOUS
<1> HIDE DEF n, r
<1>2. Range(q) = {q[i] : i \in 1..n} /\ Range(r) = {r[i] : i \in 1..(n + 1)}
  BY <1>1 DEF Range
<1>3. \A i : i \in 1..(n + 1) <=> i \in 1..n \/ i = n + 1
  BY <1>1
<1>4. Range(r) = Range(q) \cup {s}
  BY <1>1, <1>2, <1>3
<1>5. IsFiniteSet(Range(q))
  <2>1. IsFiniteSet(1..n)
    BY <1>1, FS_Interval
  <2>2. IsFiniteSet({q[i] : i \in 1..n})
    <3> DEFINE f == [i \in 1..n |-> q[i]]
               T == {q[i] : i \in 1..n}
    <3>1. f \in Surjection(1..n, T)
      BY DEF Surjection
    <3> HIDE DEF f, T
    <3>2. IsFiniteSet(T)
      BY <2>1, <3>1, FS_Surjection
    <3> QED BY <3>2 DEF T
  <2> QED BY <1>2, <2>2
<1>6. IsFiniteSet(EntrySlots(q))
  <2>1. EntrySlots(q) \subseteq Range(q)
    BY DEF EntrySlots
  <2> QED BY <1>5, <2>1, FS_Subset
<1> QED BY <1>4, <1>6 DEF r

(* Entries are numbered in the order they open. *)
EntriesOld == \A s \in EntrySlots(doc.stream) : s.entry <= LatestEntry

Filings ==
  /\ DOMAIN doc.filed = Range(doc.stream)
  /\ \A s \in DOMAIN doc.filed : doc.filed[s] \subseteq DOMAIN doc.tree

Built ==
  /\ Agree(validator, doc, 0..LatestEntry)
  /\ EntriesOld
  /\ current = At(validator, validator.section)
  /\ Filings

LEMMA LatestIs == LatestEntry = Cardinality(EntrySlots(doc.stream))
BY DEF LatestEntry, EntrySlots

LEMMA LatestStep ==
  ASSUME IsDocument(doc), EntriesOld, NEW s \in Slots, doc'.stream = Append(doc.stream, s),
         IsHeader(s) => s.entry \in {NoEntry, LatestEntry + 1}
  PROVE  /\ EntriesOld'
         /\ ~IsHeader(s) \/ s.entry = NoEntry => LatestEntry' = LatestEntry
         /\ IsHeader(s) /\ s.entry # NoEntry => LatestEntry' = LatestEntry + 1
<1> DEFINE q == doc.stream
           E == EntrySlots(q)
           F == EntrySlots(Append(q, s))
<1>1. q \in Seq(Slots) /\ LatestEntry \in Nat
  BY LatestEntryType DEF IsDocument
<1>2. Range(Append(q, s)) = Range(q) \cup {s} /\ IsFiniteSet(E)
  BY <1>1, RangeAppend
<1>3. LatestEntry = Cardinality(E) /\ LatestEntry' = Cardinality(F)
  BY LatestIs DEF LatestEntry, EntrySlots
<1>4. EntriesOld' <=> \A x \in F : x.entry <= LatestEntry'
  BY DEF EntriesOld
<1>5. \A x \in E : x.entry <= LatestEntry
  BY DEF EntriesOld
<1>6. CASE ~IsHeader(s) \/ s.entry = NoEntry
  <2>1. F = E
    BY <1>2, <1>6 DEF EntrySlots
  <2> HIDE DEF E, F
  <2>2. LatestEntry' = LatestEntry
    BY <1>3, <2>1
  <2> QED BY <1>4, <1>5, <1>6, <2>1, <2>2
<1>7. CASE IsHeader(s) /\ s.entry # NoEntry
  <2>1. F = E \cup {s} /\ s.entry = LatestEntry + 1
    BY <1>2, <1>7 DEF EntrySlots
  <2>0. \A x \in E : x.entry \in Nat
    <3>1. Range(q) \subseteq Slots
      BY <1>1 DEF Range
    <3> QED BY <3>1, SlotsType DEF EntrySlots, Slots
  <2> HIDE DEF E, F
  <2>2. s \notin E
    BY <1>1, <1>5, <2>1
  <2>3. LatestEntry' = LatestEntry + 1
    BY <1>2, <1>3, <2>1, <2>2, FS_AddElement
  <2> QED BY <1>1, <1>4, <1>5, <1>7, <2>0, <2>1, <2>3
<1> QED BY <1>6, <1>7

LEMMA InitBuilt == Init => Built
<1> SUFFICES ASSUME Init
             PROVE  Built
  OBVIOUS
<1>1. /\ validator = FreshValidator /\ doc = EmptyDocument /\ current = Root
      /\ IsValidator(validator) /\ IsDocument(doc)
  BY InitExact DEF Init, ScopesExact, Typed
<1>2. /\ DOMAIN validator.scopes = {} /\ validator.section = <<>> /\ validator.owner = NoEntry
      /\ \A p : KindAt(validator, p) = "none"
  BY <1>1 DEF FreshValidator, KindAt
<1>3. \A q : Own(validator, q) = NoEntry /\ At(validator, q) = <<NoEntry, q>>
  BY <1>2, OwnNone DEF EntriesAbove, At
<1>4. /\ doc.stream = <<>> /\ DOMAIN doc.filed = {} /\ DOMAIN doc.aot = {}
      /\ DOMAIN doc.tree = {Root} /\ doc.tree[Root] = <<>>
  BY <1>1 DEF EmptyDocument
<1>5. Range(doc.stream) = {}
  BY <1>4 DEF Range
<1>6. EntrySlots(doc.stream) = {}
  BY <1>5 DEF EntrySlots
<1>7. LatestEntry = 0
  BY <1>6, LatestIs, FS_EmptySet
<1>8. Nested(validator)
  BY <1>2, <1>3 DEF Nested, ScopesClosed, SectionDeclared, OwnerExact
<1>9. IsTree(doc.tree)
  <2>1. Root \in Containers
    <3>1. <<>> \in Seq(Key)
      OBVIOUS
    <3> QED BY <3>1 DEF Containers, Root, NoEntry
  <2> QED BY <1>4, <2>1, EmptyDict DEF IsTree
<1>10. Matches(validator, doc)
  <2>1. \A c : Bindings(doc, c) = <<>>
    BY <1>4 DEF Bindings
  <2>2. \A c, key : KindOf(doc, c, key) = "none"
    BY <2>1, EmptyDict, KindIsKindIn
  <2> QED BY <1>2, <2>2 DEF Matches, Match, TreeKind
<1>11. TablesExist(validator, doc)
  BY <1>2, <1>3, <1>4 DEF TablesExist, TableKinds, Root
<1>12. OwnersOld(validator, doc, 0..LatestEntry)
  BY <1>3, <1>4, <1>7 DEF OwnersOld, Root, NoEntry
<1>13. Agree(validator, doc, 0..LatestEntry)
  BY <1>1, <1>4, <1>8, <1>9, <1>10, <1>11, <1>12 DEF Agree, IsDocument, IsRecord
<1> QED BY <1>1, <1>2, <1>3, <1>4, <1>5, <1>6, <1>13 DEF Built, EntriesOld, Filings, Root

LEMMA ReadBuilt ==
  ASSUME ScopesExact, Built, NEW s \in Lines, Read(s)
  PROVE  Built'
<1>1. /\ IsValidator(validator) /\ IsDocument(doc) /\ Typed
  BY DEF ScopesExact, Typed
<1>2. /\ Allowed(validator, s) /\ validator' = AfterSlot(validator, s)
      /\ doc' = ApplySlot(doc, s) /\ current' = Current(doc, current, s)
  BY DEF Read
<1>3. /\ Agree(validator, doc, 0..LatestEntry) /\ EntriesOld /\ Filings
      /\ current = At(validator, validator.section)
      /\ LatestEntry \in Nat /\ Matches(validator, doc) /\ Nested(validator)
  BY <1>1, LatestEntryType DEF Built, Agree
<1>4. \/ /\ s \in KVSlots
         /\ s.host = validator.section /\ s.owner = validator.owner
      \/ s \in HeaderSlots /\ s.entry \in {NoEntry, LatestEntry + 1}
  BY <1>1, LineShapes
<1>5. s \in Slots /\ (IsHeader(s) => s.entry \in {NoEntry, LatestEntry + 1})
  BY <1>4, SlotsType DEF Slots
<1>6. doc'.stream = Append(doc.stream, s) /\ Range(doc'.stream) = Range(doc.stream) \cup {s}
  BY <1>1, <1>2, <1>5, SlotAppended, RangeAppend DEF IsDocument
<1>7. /\ EntriesOld'
      /\ ~IsHeader(s) \/ s.entry = NoEntry => LatestEntry' = LatestEntry
      /\ IsHeader(s) /\ s.entry # NoEntry => LatestEntry' = LatestEntry + 1
  BY <1>1, <1>3, <1>5, <1>6, LatestStep
<1>8. Files(doc, doc', s) => Filings'
  BY <1>3, <1>6 DEF Files, Filings
<1>9. CASE s \in KVSlots
  <2>1. IsKV(s) /\ ~IsHeader(s) /\ s.key \in Path
    BY <1>9, SlotsType
  <2>2. s.host = validator.section /\ s.owner = validator.owner
    BY <1>4, <1>5, <1>9, <2>1, SlotsType
  <2>3. /\ KeyAllowed(validator, s.key) /\ validator' = RecordKeyvalue(validator, s.key)
        /\ doc' = ApplyKV(Linked(doc, s), KVChain(s), s) /\ current' = current
    BY <1>2, <2>1 DEF Allowed, AfterSlot, ApplySlot, Current
  <2>4. Agree(validator', doc', 0..LatestEntry) /\ Files(doc, doc', s)
    BY <1>3, <1>9, <2>2, <2>3, KeyStep
  <2>5. current' = At(validator', validator'.section)
    <3>1. KeyDeclared(validator, validator', validator.section, validator.section \o s.key)
      BY <1>1, <1>3, <2>1, <2>3, KeyDeclaresLeaf
    <3> QED BY <1>1, <1>3, <2>3, <3>1 DEF KeyDeclared, IsValidator
  <2> QED BY <1>7, <1>8, <2>1, <2>4, <2>5 DEF Built
<1>10. CASE s \in HeaderSlots
  <2>1. IsHeader(s) /\ ~IsKV(s) /\ s.path \in Path /\ s.path \in Seq(Key) /\ s.entry \in Nat
    BY <1>10, SlotsType DEF Path
  <2>2. /\ HeaderAllowed(validator, s.path, s.entry # NoEntry)
        /\ validator' = EnterHeader(validator, s.path, s.entry)
        /\ doc' = OpenHeader(Linked(doc, s), Root, s)
    BY <1>2, <2>1 DEF Allowed, AfterSlot, ApplySlot
  <2>3. validator'.section = s.path
    BY <2>2 DEF EnterHeader
  <2>4. CASE s.entry = NoEntry
    <3>1. doc' = OpenTable(Linked(doc, s), Root, s) /\ LatestEntry' = LatestEntry
      BY <1>7, <2>2, <2>4 DEF OpenHeader
    <3>2. Agree(validator', doc', 0..LatestEntry) /\ Files(doc, doc', s)
      BY <1>3, <1>10, <2>2, <2>4, <3>1, TableStep
    <3>3. current' = At(validator', s.path)
      <4>1. TableOpened(validator, validator', s.path)
        BY <1>1, <1>3, <2>1, <2>2, <2>4, TableDeclares
      <4>2. KindAt(validator, s.path) # "entry"
        BY <2>2, <2>4 DEF HeaderAllowed
      <4>3. HeaderChain(doc, Root, s.path) = PathChain(validator, s.path, 0, Len(s.path))
        BY <1>1, <1>3, <2>1, HeaderChainIs
      <4>4. current' = At(validator, s.path)
        BY <1>1, <1>2, <2>1, <2>4, <4>2, <4>3, HeaderTarget DEF Current
      <4> QED BY <2>1, <4>1, <4>4 DEF TableOpened
    <3> QED BY <1>7, <1>8, <2>3, <3>1, <3>2, <3>3 DEF Built
  <2>5. CASE s.entry # NoEntry
    <3>1. /\ doc' = OpenAoTEntry(Linked(doc, s), Root, s)
          /\ s.entry = LatestEntry + 1 /\ LatestEntry' = LatestEntry + 1
      BY <1>5, <1>7, <2>1, <2>2, <2>5 DEF OpenHeader
    <3>2. Agree(validator', doc', 0..LatestEntry') /\ Files(doc, doc', s)
      <4>1. s.entry # NoEntry /\ s.entry \notin 0..LatestEntry
        BY <1>3, <2>5, <3>1
      <4>2. (0..LatestEntry) \cup {s.entry} = 0..LatestEntry'
        BY <1>3, <3>1
      <4>3. /\ Agree(validator', doc', (0..LatestEntry) \cup {s.entry})
            /\ Files(doc, doc', s)
        <5>1. Agree(validator, doc, 0..LatestEntry)
          BY <1>3
        <5>2. /\ validator' = EnterHeader(validator, s.path, s.entry)
              /\ doc' = OpenAoTEntry(Linked(doc, s), Root, s)
              /\ HeaderAllowed(validator, s.path, s.entry # NoEntry)
          BY <2>2, <3>1
        <5> DEFINE old == 0..LatestEntry
        <5> HIDE DEF old
        <5>3. Agree(validator, doc, old) /\ s.entry \notin old
          BY <4>1, <5>1 DEF old
        <5>4. LET w == EnterHeader(validator, s.path, s.entry)
                  e == OpenAoTEntry(Linked(doc, s), Root, s)
              IN  Agree(w, e, old \cup {s.entry}) /\ Files(doc, e, s)
          BY <1>10, <4>1, <5>2, <5>3, EntryStep
        <5> QED BY <5>2, <5>4 DEF old
      <4> QED BY <4>2, <4>3
    <3>3. current' = At(validator', s.path)
      <4>1. EntryOpened(validator, validator', s.path, s.entry)
        BY <1>1, <1>3, <2>1, <2>2, <2>5, EntryDeclares
      <4> QED BY <1>2, <2>1, <2>5, <4>1 DEF Current, EntryOpened
    <3> QED BY <1>7, <1>8, <2>3, <3>1, <3>2, <3>3 DEF Built
  <2> QED BY <2>4, <2>5
<1> QED BY <1>5, <1>9, <1>10 DEF Slots

LEMMA StaysBuilt == Spec => [](ScopesExact /\ Built)
<1>1. ASSUME ScopesExact, Built, [Next]_parserVars
      PROVE  Built'
  <2>1. ASSUME NEW s \in Lines, Read(s)
        PROVE  Built'
    BY <1>1, <2>1, ReadBuilt
  <2>2. CASE Next
    BY <2>1, <2>2 DEF Next, ReadKeyValue, ReadTable, ReadEntry
  <2>3. CASE UNCHANGED parserVars
    BY <1>1, <2>3 DEF parserVars, Built, EntriesOld, Filings, LatestEntry
  <2> QED BY <1>1, <2>2, <2>3
<1>2. Spec => []ScopesExact
  BY ScopesStayExact
<1> QED BY <1>1, <1>2, InitBuilt, PTL DEF Spec

-----------------------------------------------------------------------------
(* The parser's state is well formed: the section is a path a line spelled, *)
(* every slot of the stream is filed, on tables that exist, and the table  *)
(* the builder files the next line on is one it made.                      *)
THEOREM ParserTyped == Spec => []TypeOK
<1>1. ASSUME ScopesExact, Built
      PROVE  TypeOK
  <2>1. current \in DOMAIN doc.tree
    <3>1. /\ IsValidator(validator) /\ SectionDeclared(validator)
          /\ TablesExist(validator, doc) /\ current = At(validator, validator.section)
      BY <1>1 DEF Built, Agree, Nested
    <3>2. validator.section \in Seq(Key)
      BY <3>1 DEF IsValidator
    <3> QED BY <3>1, <3>2 DEF SectionDeclared, TablesExist, TableKinds
  <2>2. validator.section \in Paths \cup {<<>>}
    BY <1>1 DEF ScopesExact, Typed
  <2> QED BY <1>1, <2>1, <2>2 DEF TypeOK, Built, Filings
<1> QED BY <1>1, StaysBuilt, PTL

(* The entry the validator stamps on the next line owns the container the  *)
(* builder files it on: _Validator.section_owner and _Builder's current    *)
(* section agree, across nested arrays and headers that leave them.        *)
THEOREM OwnerFollows == Spec => []OwnerIsCurrent
<1>1. ASSUME Built
      PROVE  OwnerIsCurrent
  <2>1. validator.owner = Own(validator, validator.section)
    BY <1>1 DEF Built, Agree, Nested, OwnerExact
  <2> QED BY <1>1, <2>1 DEF OwnerIsCurrent, Built, At
<1> QED BY <1>1, StaysBuilt, PTL

(* A line the validator accepts never trips one of the builder's           *)
(* "validator drift" assertions (_open_table, _open_aot_entry,             *)
(* _resolve_parent, _apply_kv), for any document of any length.            *)
THEOREM BuilderNeverDrifts == Spec => []BuilderFollows
<1>1. ASSUME ScopesExact, Built
      PROVE  BuilderFollows
  <2> SUFFICES ASSUME NEW s \in Lines, Allowed(validator, s)
               PROVE  NoDrift(doc, current, s)
    BY DEF BuilderFollows
  <2>1. /\ IsValidator(validator) /\ Typed /\ Matches(validator, doc) /\ Nested(validator)
        /\ current = At(validator, validator.section)
    BY <1>1 DEF ScopesExact, Typed, Built, Agree
  <2>2. \/ /\ s \in KVSlots
           /\ s.host = validator.section /\ s.owner = validator.owner
        \/ s \in HeaderSlots
    BY <2>1, LineShapes
  <2>3. CASE s \in KVSlots
    <3>1. IsKV(s) /\ s.key \in Path /\ s.host = validator.section /\ s.owner = validator.owner
      BY <2>2, <2>3, SlotsType
    <3>2. KeyAllowed(validator, s.key)
      BY <3>1 DEF Allowed
    <3> QED BY <2>1, <2>3, <3>1, <3>2, KeyNeverDrifts
  <2>4. CASE s \in HeaderSlots
    <3>1. ~IsKV(s) /\ IsHeader(s) /\ s.path \in Path /\ s.entry \in Nat
      BY <2>4, SlotsType
    <3>2. HeaderAllowed(validator, s.path, s.entry # NoEntry)
      BY <3>1 DEF Allowed
    <3> QED BY <2>1, <2>4, <3>1, <3>2, HeaderNeverDrifts
  <2> QED BY <2>2, <2>3, <2>4
<1> QED BY <1>1, StaysBuilt, PTL
=============================================================================
