-------------------------- MODULE TomlRulesProofs --------------------------
(***************************************************************************)
(* Proofs about reading lines.                                             *)
(*                                                                         *)
(* First, the validator: paths of keys, and when one lies under another;   *)
(* what a line does to its declarations, and which array entry owns a      *)
(* path; what binding a key and creating a chain of tables do to the tree  *)
(* of a document.                                                          *)
(*                                                                         *)
(* Then the builder: the tree of tables it makes from the lines the        *)
(* validator accepts is the tree of declarations the validator keeps,      *)
(* although the builder never looks at the validator and knows containers  *)
(* by the array entry that owns them where the validator knows paths.      *)
(*                                                                         *)
(* Last, what reading a whole text makes of it, as the layout editor       *)
(* relies on it: how the filing of a slot, the tree of tables, the arrays  *)
(* and the order of the lines hang together in every document the builder  *)
(* returns, and how much of that depends on the lines above alone.         *)
(***************************************************************************)
EXTENDS DocLayout, TomlTokens, ListProofs, FiniteSetTheorems, TLAPS

(* Lying strictly under, read index by index. *)
LEMMA StrictPrefixMeaning ==
  ASSUME NEW S, NEW s \in Seq(S), NEW t \in Seq(S)
  PROVE  IsStrictPrefix(s, t) <=> Len(s) < Len(t) /\ \A i \in 1..Len(s) : s[i] = t[i]
BY DEF IsStrictPrefix, IsPrefix

(* A prefix of a path is a path, as long as it was cut. *)
LEMMA PrefixType ==
  ASSUME NEW S, NEW t \in Seq(S), NEW n \in 0..Len(t)
  PROVE  /\ Prefix(t, n) \in Seq(S)
         /\ Len(Prefix(t, n)) = n
         /\ \A i \in 1..n : Prefix(t, n)[i] = t[i]
         /\ n = Len(t) => Prefix(t, n) = t
         /\ n < Len(t) => IsStrictPrefix(Prefix(t, n), t)
<1>1. Prefix(t, n) \in Seq(S) /\ Len(Prefix(t, n)) = n /\ \A i \in 1..n : Prefix(t, n)[i] = t[i]
  BY DEF Prefix
<1>2. n = Len(t) => Prefix(t, n) = t
  BY <1>1
<1>3. n < Len(t) => IsStrictPrefix(Prefix(t, n), t)
  BY <1>1, StrictPrefixMeaning
<1> QED BY <1>1, <1>2, <1>3

(* Paths of the same length and the same keys are the same path. *)
LEMMA SamePath ==
  ASSUME NEW S, NEW s \in Seq(S), NEW t \in Seq(S), Len(s) = Len(t),
         \A i \in 1..Len(s) : s[i] = t[i]
  PROVE  s = t
OBVIOUS

LEMMA StrictPrefixTransitive ==
  ASSUME NEW S, NEW s \in Seq(S), NEW t \in Seq(S), NEW u \in Seq(S),
         IsStrictPrefix(s, t), IsStrictPrefix(t, u)
  PROVE  IsStrictPrefix(s, u)
BY StrictPrefixMeaning

LEMMA StrictPrefixIrreflexive ==
  ASSUME NEW s
  PROVE  ~IsStrictPrefix(s, s)
BY DEF IsStrictPrefix

(* Nothing lies both above and under a path. *)
LEMMA StrictPrefixAsymmetric ==
  ASSUME NEW S, NEW s \in Seq(S), NEW t \in Seq(S), IsStrictPrefix(s, t)
  PROVE  ~IsStrictPrefix(t, s)
BY StrictPrefixMeaning

(* The paths above one path form a chain. *)
LEMMA PrefixesComparable ==
  ASSUME NEW S, NEW s \in Seq(S), NEW t \in Seq(S), NEW u \in Seq(S),
         IsStrictPrefix(s, u), IsStrictPrefix(t, u)
  PROVE  s = t \/ IsStrictPrefix(s, t) \/ IsStrictPrefix(t, s)
<1>1. \A i \in 1..Len(s) : s[i] = u[i]
  BY StrictPrefixMeaning
<1>2. \A i \in 1..Len(t) : t[i] = u[i]
  BY StrictPrefixMeaning
<1>3. CASE Len(s) = Len(t)
  BY <1>1, <1>2, <1>3, SamePath
<1>4. CASE Len(s) < Len(t)
  BY <1>1, <1>2, <1>4, StrictPrefixMeaning
<1>5. CASE Len(t) < Len(s)
  BY <1>1, <1>2, <1>5, StrictPrefixMeaning
<1> QED BY <1>3, <1>4, <1>5

(* The tables a header passes: the paths strictly above its own. *)
LEMMA PathsAbove ==
  ASSUME NEW S, NEW p \in Seq(S), NEW t \in Seq(S)
  PROVE  p # <<>> /\ IsStrictPrefix(p, t) <=> \E i \in 1..(Len(t) - 1) : p = Prefix(t, i)
<1>1. ASSUME p # <<>>, IsStrictPrefix(p, t)
      PROVE  \E i \in 1..(Len(t) - 1) : p = Prefix(t, i)
  <2>1. Len(p) \in 1..(Len(t) - 1) /\ \A i \in 1..Len(p) : p[i] = t[i]
    BY <1>1, StrictPrefixMeaning
  <2>2. p = Prefix(t, Len(p))
    BY <2>1, PrefixType, SamePath
  <2> QED BY <2>1, <2>2
<1>2. ASSUME NEW i \in 1..(Len(t) - 1), p = Prefix(t, i)
      PROVE  p # <<>> /\ IsStrictPrefix(p, t)
  BY <1>2, PrefixType
<1> QED BY <1>1, <1>2

(* A dotted key below its host, index by index. *)
LEMMA Below ==
  ASSUME NEW S, NEW h \in Seq(S), NEW k \in Seq(S)
  PROVE  /\ h \o k \in Seq(S)
         /\ Len(h \o k) = Len(h) + Len(k)
         /\ \A i \in 1..Len(h) : (h \o k)[i] = h[i]
         /\ \A i \in 1..Len(k) : (h \o k)[Len(h) + i] = k[i]
OBVIOUS

LEMMA DottedStep ==
  ASSUME NEW S, NEW h \in Seq(S), NEW k \in Seq(S), NEW i \in 0..Len(k)
  PROVE  /\ h \o Prefix(k, i) = Prefix(h \o k, Len(h) + i)
         /\ h \o Prefix(k, i) \in Seq(S)
         /\ Len(h \o Prefix(k, i)) = Len(h) + i
<1> DEFINE ki == Prefix(k, i)
           hk == h \o k
           hi == h \o ki
           m  == Len(h) + i
<1>1. ki \in Seq(S) /\ Len(ki) = i /\ \A j \in 1..i : ki[j] = k[j]
  BY PrefixType
<1>2. /\ hk \in Seq(S) /\ Len(hk) = Len(h) + Len(k)
      /\ \A j \in 1..Len(h) : hk[j] = h[j]
      /\ \A j \in 1..Len(k) : hk[Len(h) + j] = k[j]
  BY Below
<1> HIDE DEF ki
<1>3. /\ hi \in Seq(S) /\ Len(hi) = Len(h) + i
      /\ \A j \in 1..Len(h) : hi[j] = h[j]
      /\ \A j \in 1..i : hi[Len(h) + j] = ki[j]
  <2>1. ki \in Seq(S)
    BY <1>1
  <2>2. /\ h \o ki \in Seq(S) /\ Len(h \o ki) = Len(h) + Len(ki)
        /\ \A j \in 1..Len(h) : (h \o ki)[j] = h[j]
        /\ \A j \in 1..Len(ki) : (h \o ki)[Len(h) + j] = ki[j]
    BY <2>1, Below
  <2> QED BY <1>1, <2>2
<1> HIDE DEF hk, hi, m
<1>4. m \in 0..Len(hk) /\ m = Len(h) + i
  BY <1>2 DEF m
<1>5. /\ Prefix(hk, m) \in Seq(S) /\ Len(Prefix(hk, m)) = m
      /\ \A j \in 1..m : Prefix(hk, m)[j] = hk[j]
  BY <1>2, <1>4, PrefixType
<1>6. \A j \in 1..m : hi[j] = hk[j]
  <2> SUFFICES ASSUME NEW j \in 1..m
               PROVE  hi[j] = hk[j]
    OBVIOUS
  <2>1. CASE j \in 1..Len(h)
    BY <1>2, <1>3, <2>1
  <2>2. CASE j \notin 1..Len(h)
    <3>1. j - Len(h) \in 1..i /\ j = Len(h) + (j - Len(h))
      BY <2>2, <1>4
    <3>2. PICK b \in 1..i : j = Len(h) + b
      BY <3>1
    <3>3. hi[j] = ki[b] /\ ki[b] = k[b]
      BY <1>1, <1>3, <3>2
    <3>4. b \in 1..Len(k)
      OBVIOUS
    <3>5. hk[j] = k[b]
      BY <1>2, <3>2, <3>4
    <3> QED BY <3>3, <3>5
  <2> QED BY <2>1, <2>2
<1>7. hi = Prefix(hk, m)
  BY <1>3, <1>4, <1>5, <1>6, SamePath
<1> QED BY <1>3, <1>7 DEF hi, hk, ki, m

(* The tables a dotted key passes: the paths strictly between its host and *)
(* the value it binds.                                                     *)
PathBetween(p, h, k) == \E i \in 1..(Len(k) - 1) : p = h \o Prefix(k, i)

LEMMA PathsBetween ==
  ASSUME NEW S, NEW p \in Seq(S), NEW h \in Seq(S), NEW k \in Seq(S)
  PROVE  IsStrictPrefix(h, p) /\ IsStrictPrefix(p, h \o k) <=> PathBetween(p, h, k)
<1> DEFINE hk == h \o k
<1>1. hk \in Seq(S) /\ Len(hk) = Len(h) + Len(k) /\ \A i \in 1..Len(h) : hk[i] = h[i]
  BY Below
<1>2. ASSUME NEW i \in 1..(Len(k) - 1)
      PROVE  h \o Prefix(k, i) = Prefix(hk, Len(h) + i)
  <2>1. i \in 0..Len(k)
    OBVIOUS
  <2> QED BY <2>1, DottedStep
<1> HIDE DEF hk
<1>3. ASSUME IsStrictPrefix(h, p), IsStrictPrefix(p, hk)
      PROVE  \E i \in 1..(Len(k) - 1) : p = Prefix(hk, Len(h) + i)
  <2>1. Len(h) < Len(p) /\ Len(p) < Len(h) + Len(k)
    BY <1>1, <1>3, StrictPrefixMeaning
  <2>2. \E j \in 1..(Len(hk) - 1) : p = Prefix(hk, j)
    <3>1. p # <<>>
      BY <2>1
    <3> QED BY <1>1, <1>3, <3>1, PathsAbove
  <2>3. PICK j \in 1..(Len(hk) - 1) : p = Prefix(hk, j)
    BY <2>2
  <2>4. Len(p) = j
    BY <1>1, <2>3, PrefixType
  <2>5. j - Len(h) \in 1..(Len(k) - 1) /\ j = Len(h) + (j - Len(h))
    BY <1>1, <2>1, <2>4
  <2> QED BY <2>3, <2>5
<1>4. ASSUME NEW i \in 1..(Len(k) - 1), p = Prefix(hk, Len(h) + i)
      PROVE  IsStrictPrefix(h, p) /\ IsStrictPrefix(p, hk)
  <2> DEFINE m == Len(h) + i
  <2>1. m \in 0..Len(hk) /\ m < Len(hk) /\ m > Len(h)
    BY <1>1
  <2> HIDE DEF m
  <2>2. p = Prefix(hk, m)
    BY <1>4 DEF m
  <2>3. p \in Seq(S) /\ Len(p) = m /\ (\A j \in 1..m : p[j] = hk[j]) /\ IsStrictPrefix(p, hk)
    BY <1>1, <2>1, <2>2, PrefixType
  <2>4. \A j \in 1..Len(h) : h[j] = p[j]
    BY <1>1, <2>1, <2>3
  <2>5. IsStrictPrefix(h, p)
    BY <2>1, <2>3, <2>4, StrictPrefixMeaning
  <2> QED BY <2>3, <2>5
<1>5. IsStrictPrefix(h, p) /\ IsStrictPrefix(p, hk)
        <=> \E i \in 1..(Len(k) - 1) : p = Prefix(hk, Len(h) + i)
  BY <1>3, <1>4
<1>6. IsStrictPrefix(h, p) /\ IsStrictPrefix(p, hk)
        <=> \E i \in 1..(Len(k) - 1) : p = h \o Prefix(k, i)
  BY <1>2, <1>5
<1> QED BY <1>6 DEF hk, PathBetween

(* The last step of a path, and what lies above it. *)
LEMMA LastStep ==
  ASSUME NEW S, NEW t \in Seq(S), t # <<>>
  PROVE  /\ Len(t) \in Nat \ {0}
         /\ Prefix(t, Len(t) - 1) \in Seq(S)
         /\ Last(t) = t[Len(t)] /\ Last(t) \in S
         /\ t = Append(Prefix(t, Len(t) - 1), Last(t))
<1>1. Len(t) \in Nat \ {0}
  OBVIOUS
<1>2. Prefix(t, Len(t) - 1) \in Seq(S)
  BY <1>1, PrefixType
<1>3. Last(t) = t[Len(t)] /\ Last(t) \in S
  BY <1>1 DEF Last
<1>4. t = Append(Prefix(t, Len(t) - 1), Last(t))
  <2> DEFINE q == Prefix(t, Len(t) - 1)
  <2>1. q \in Seq(S) /\ Len(q) = Len(t) - 1 /\ \A i \in 1..(Len(t) - 1) : q[i] = t[i]
    BY <1>1, PrefixType
  <2>2. Append(q, Last(t)) \in Seq(S) /\ Len(Append(q, Last(t))) = Len(t)
    BY <1>1, <1>3, <2>1
  <2>3. \A i \in 1..Len(t) : Append(q, Last(t))[i] = t[i]
    BY <1>1, <1>3, <2>1
  <2> QED BY <2>2, <2>3, SamePath
<1> QED BY <1>1, <1>2, <1>3, <1>4

(* The children of a path: nothing lies between them and it. *)
LEMMA ChildPath ==
  ASSUME NEW S, NEW q \in Seq(S), NEW n \in S, NEW p \in Seq(S)
  PROVE  /\ Append(q, n) \in Seq(S) /\ Append(q, n) # <<>>
         /\ Len(Append(q, n)) = Len(q) + 1
         /\ IsStrictPrefix(p, Append(q, n)) <=> p = q \/ IsStrictPrefix(p, q)
         /\ IsStrictPrefix(Append(q, n), p) => IsStrictPrefix(q, p)
<1> DEFINE c == Append(q, n)
<1>1. c \in Seq(S) /\ c # <<>> /\ Len(c) = Len(q) + 1 /\ \A i \in 1..Len(q) : c[i] = q[i]
  OBVIOUS
<1> HIDE DEF c
<1>2. IsStrictPrefix(q, c)
  BY <1>1, StrictPrefixMeaning
<1>3. ASSUME IsStrictPrefix(p, c)
      PROVE  p = q \/ IsStrictPrefix(p, q)
  <2>1. ~IsStrictPrefix(q, p)
    BY <1>1, <1>3, StrictPrefixMeaning
  <2> QED BY <1>1, <1>2, <1>3, <2>1, PrefixesComparable
<1>4. ASSUME p = q \/ IsStrictPrefix(p, q)
      PROVE  IsStrictPrefix(p, c)
  BY <1>1, <1>2, <1>4, StrictPrefixTransitive
<1>5. ASSUME IsStrictPrefix(c, p)
      PROVE  IsStrictPrefix(q, p)
  BY <1>1, <1>2, <1>5, StrictPrefixTransitive
<1> QED BY <1>1, <1>3, <1>4, <1>5 DEF c

LEMMA SameChild ==
  ASSUME NEW S, NEW q \in Seq(S), NEW r \in Seq(S), NEW n \in S, NEW m \in S,
         Append(q, n) = Append(r, m)
  PROVE  q = r /\ n = m
<1> DEFINE x == Append(q, n)
           y == Append(r, m)
<1>1. Len(x) = Len(q) + 1 /\ x[Len(q) + 1] = n /\ \A i \in 1..Len(q) : x[i] = q[i]
  OBVIOUS
<1>2. Len(y) = Len(r) + 1 /\ y[Len(r) + 1] = m /\ \A i \in 1..Len(r) : y[i] = r[i]
  OBVIOUS
<1>3. x = y
  OBVIOUS
<1> HIDE DEF x, y
<1>4. Len(q) = Len(r)
  BY <1>1, <1>2, <1>3
<1>5. n = m /\ \A i \in 1..Len(q) : q[i] = r[i]
  BY <1>1, <1>2, <1>3, <1>4
<1> QED BY <1>4, <1>5, SamePath

LEMMA PrefixOfPrefix ==
  ASSUME NEW S, NEW t \in Seq(S), NEW n \in 0..Len(t), NEW i \in 0..n
  PROVE  Prefix(Prefix(t, n), i) = Prefix(t, i)
<1> DEFINE q == Prefix(t, n)
<1>1. q \in Seq(S) /\ Len(q) = n /\ \A j \in 1..n : q[j] = t[j]
  BY PrefixType
<1> HIDE DEF q
<1>2. Prefix(q, i) \in Seq(S) /\ Len(Prefix(q, i)) = i /\ \A j \in 1..i : Prefix(q, i)[j] = q[j]
  BY <1>1, PrefixType
<1>3. i \in 0..Len(t)
  OBVIOUS
<1>4. Prefix(t, i) \in Seq(S) /\ Len(Prefix(t, i)) = i /\ \A j \in 1..i : Prefix(t, i)[j] = t[j]
  BY <1>3, PrefixType
<1>5. Prefix(q, i) = Prefix(t, i)
  BY <1>1, <1>2, <1>4, SamePath
<1> QED BY <1>5 DEF q

LEMMA PrefixOfAppend ==
  ASSUME NEW S, NEW q \in Seq(S), NEW n \in S, NEW i \in 0..Len(q)
  PROVE  Prefix(Append(q, n), i) = Prefix(q, i) /\ Prefix(Append(q, n), Len(q) + 1) = Append(q, n)
<1> DEFINE c == Append(q, n)
<1>1. c \in Seq(S) /\ Len(c) = Len(q) + 1 /\ \A j \in 1..Len(q) : c[j] = q[j]
  OBVIOUS
<1> HIDE DEF c
<1>2. Len(q) \in Nat /\ i \in 0..Len(c) /\ Len(c) \in 0..Len(c)
  BY <1>1
<1>3. /\ Prefix(c, i) \in Seq(S) /\ Len(Prefix(c, i)) = i
      /\ \A j \in 1..i : Prefix(c, i)[j] = c[j]
  BY <1>1, <1>2, PrefixType
<1>4. /\ Prefix(q, i) \in Seq(S) /\ Len(Prefix(q, i)) = i
      /\ \A j \in 1..i : Prefix(q, i)[j] = q[j]
  BY PrefixType
<1>5. Prefix(c, i) = Prefix(q, i)
  <2>1. \A j \in 1..i : Prefix(c, i)[j] = Prefix(q, i)[j]
    BY <1>1, <1>2, <1>3, <1>4
  <2> QED BY <1>3, <1>4, <2>1, SamePath
<1>6. Prefix(c, Len(c)) = c
  BY <1>1, <1>2, PrefixType
<1> QED BY <1>1, <1>5, <1>6 DEF c

(* Descending a path: from the container above a key to the key's own path. *)
LEMMA PrefixStep ==
  ASSUME NEW S, NEW t \in Seq(S), NEW i \in 1..Len(t)
  PROVE  /\ Prefix(t, i - 1) \in Seq(S) /\ Prefix(t, i) \in Seq(S) /\ t[i] \in S
         /\ Prefix(t, i) = Append(Prefix(t, i - 1), t[i])
         /\ Prefix(t, i) # <<>> /\ Last(Prefix(t, i)) = t[i]
<1>1. i \in 0..Len(t) /\ i - 1 \in 0..Len(t) /\ i \in Nat \ {0} /\ t[i] \in S
  OBVIOUS
<1>2. /\ Prefix(t, i) \in Seq(S) /\ Len(Prefix(t, i)) = i
      /\ \A j \in 1..i : Prefix(t, i)[j] = t[j]
  BY <1>1, PrefixType
<1>3. Prefix(t, i) # <<>>
  BY <1>1, <1>2
<1>4. Last(Prefix(t, i)) = t[i] /\ Prefix(t, i) = Append(Prefix(Prefix(t, i), i - 1), t[i])
  BY <1>1, <1>2, <1>3, LastStep
<1>5. Prefix(Prefix(t, i), i - 1) = Prefix(t, i - 1)
  BY <1>1, PrefixOfPrefix
<1>6. Prefix(t, i - 1) \in Seq(S)
  BY <1>1, PrefixType
<1> QED BY <1>1, <1>2, <1>3, <1>4, <1>5, <1>6

-----------------------------------------------------------------------------
(* Declarations and slots.                                                 *)

Path == Seq(Key) \ {<<>>}

Kinds == {"value", "dotted", "explicit", "entry", "implicit"}

Declarations == [kind : Kinds, entry : Nat]

IsValidator(v) ==
  /\ v = [scopes |-> v.scopes, section |-> v.section, owner |-> v.owner]
  /\ DOMAIN v.scopes \subseteq Path
  /\ \A p \in DOMAIN v.scopes : v.scopes[p] \in Declarations
  /\ v.section \in Seq(Key)
  /\ v.owner \in Nat

KVSlots     == [kind : {"kv"}, host : Seq(Key), key : Path, owner : Nat, val : Vals]
HeaderSlots == [kind : {"header"}, path : Path, owner : Nat, entry : Nat,
                synthetic : BOOLEAN]

Slots == KVSlots \cup HeaderSlots

IsDocument(d) ==
  /\ d = [stream |-> d.stream, filed |-> d.filed, tree |-> d.tree, aot |-> d.aot]
  /\ d.stream \in Seq(Slots)

LEMMA SlotsType ==
  /\ \A s \in KVSlots : /\ IsKV(s) /\ ~IsHeader(s)
                        /\ s.host \in Seq(Key) /\ s.key \in Path /\ s.owner \in Nat
                        /\ FullPath(s) = s.host \o s.key /\ FullPath(s) \in Path
  /\ \A s \in HeaderSlots : /\ IsHeader(s) /\ ~IsKV(s)
                            /\ s.path \in Path /\ s.owner \in Nat /\ s.entry \in Nat
                            /\ FullPath(s) = s.path
<1>1. ASSUME NEW s \in KVSlots
      PROVE  /\ IsKV(s) /\ ~IsHeader(s)
             /\ s.host \in Seq(Key) /\ s.key \in Path /\ s.owner \in Nat
             /\ FullPath(s) = s.host \o s.key /\ FullPath(s) \in Path
  <2>1. s.kind = "kv" /\ s.host \in Seq(Key) /\ s.key \in Path /\ s.owner \in Nat
    BY DEF KVSlots
  <2>2. IsKV(s) /\ ~IsHeader(s) /\ FullPath(s) = s.host \o s.key
    BY <2>1 DEF IsKV, IsHeader, FullPath
  <2>3. ASSUME NEW h \in Seq(Key), NEW k \in Path
        PROVE  h \o k \in Path
    <3>1. h \o k \in Seq(Key) /\ Len(h \o k) = Len(h) + Len(k) /\ Len(k) \in Nat \ {0}
      BY Below DEF Path
    <3> QED BY <3>1 DEF Path
  <2> QED BY <2>1, <2>2, <2>3
<1>2. ASSUME NEW s \in HeaderSlots
      PROVE  /\ IsHeader(s) /\ ~IsKV(s)
             /\ s.path \in Path /\ s.owner \in Nat /\ s.entry \in Nat
             /\ FullPath(s) = s.path
  BY DEF HeaderSlots, IsKV, IsHeader, FullPath
<1> QED BY <1>1, <1>2

LEMMA EnclosingEntryType ==
  ASSUME NEW v, IsValidator(v), NEW path \in Path
  PROVE  EnclosingEntry(v, path) \in Nat
<1> DEFINE I == {i \in 1..(Len(path) - 1) : KindAt(v, Prefix(path, i)) = "entry"}
           m == CHOOSE i \in I : \A j \in I : j <= i
<1>1. CASE I = {}
  BY <1>1 DEF EnclosingEntry, NoEntry
<1>2. CASE I # {}
  <2>1. Len(path) \in Nat /\ I \in SUBSET Nat /\ \A i \in I : i <= Len(path)
    BY DEF Path
  <2>2. \E i \in I : \A j \in I : j <= i
    <3> HIDE DEF I
    <3> QED BY <1>2, <2>1, GreatestElement
  <2>3. m \in I
    BY <2>2
  <2>4. Prefix(path, m) \in DOMAIN v.scopes
    BY <2>3 DEF KindAt
  <2>5. v.scopes[Prefix(path, m)].entry \in Nat
    BY <2>4 DEF IsValidator, Declarations
  <2> QED BY <1>2, <2>5 DEF EnclosingEntry
<1> QED BY <1>1, <1>2

-----------------------------------------------------------------------------
(* What a line does to the declarations, path by path.                     *)

LEMMA Undeclared ==
  ASSUME NEW v, IsValidator(v), NEW p
  PROVE  /\ KindAt(v, p) \in Kinds \cup {"none"}
         /\ KindAt(v, p) = "none" <=> p \notin DOMAIN v.scopes
BY DEF IsValidator, KindAt, Declarations, Kinds

LEMMA HeaderDeclares ==
  ASSUME NEW v, IsValidator(v), NEW path \in Path, NEW e \in Nat
  PROVE  LET w == EnterHeader(v, path, e)
         IN  /\ IsValidator(w)
             /\ w.section = path
             /\ \A p \in Path :
                  KindAt(w, p) =
                    IF p = path THEN IF e = NoEntry THEN "explicit" ELSE "entry"
                    ELSE IF IsStrictPrefix(p, path) /\ KindAt(v, p) = "none" THEN "implicit"
                    ELSE IF IsStrictPrefix(path, p) /\ e # NoEntry THEN "none"
                    ELSE KindAt(v, p)
<1> DEFINE w == EnterHeader(v, path, e)
           missing == {Prefix(path, i) : i \in 1..(Len(path) - 1)} \ DOMAIN v.scopes
           kept    == {p \in DOMAIN v.scopes : e = NoEntry \/ ~IsStrictPrefix(path, p)}
           here    == IF e = NoEntry THEN Declared("explicit") ELSE DeclaredEntry(e)
           scopes  == [p \in kept \cup missing \cup {path} |->
                         IF p = path THEN here
                         ELSE IF p \in missing THEN Declared("implicit") ELSE v.scopes[p]]
           owner   == IF e = NoEntry THEN EnclosingEntry(v, path) ELSE e
<1>1. w = [scopes |-> scopes, section |-> path, owner |-> owner]
  BY DEF EnterHeader
<1>2. owner \in Nat
  BY EnclosingEntryType
<1>3. here \in Declarations /\ Declared("implicit") \in Declarations
  BY DEF Declared, DeclaredEntry, Declarations, Kinds, NoEntry
<1>4. here.kind = IF e = NoEntry THEN "explicit" ELSE "entry"
  BY DEF Declared, DeclaredEntry
<1>5. ASSUME NEW p
      PROVE  p \in missing <=> p \in Path /\ IsStrictPrefix(p, path) /\ p \notin DOMAIN v.scopes
  <2>1. ASSUME NEW i \in 1..(Len(path) - 1)
        PROVE  Prefix(path, i) \in Path
    BY PrefixType DEF Path
  <2>2. ASSUME p \in Path
        PROVE  IsStrictPrefix(p, path) <=> \E i \in 1..(Len(path) - 1) : p = Prefix(path, i)
    BY <2>2, PathsAbove DEF Path
  <2> QED BY <2>1, <2>2
<1> HIDE DEF here, missing, owner
<1>6. ASSUME NEW p \in DOMAIN scopes
      PROVE  scopes[p] \in Declarations
  BY <1>3, <1>5 DEF IsValidator
<1>7. IsValidator(w)
  <2>1. DOMAIN scopes \subseteq Path
    BY <1>5 DEF IsValidator
  <2> HIDE DEF scopes
  <2> QED BY <1>1, <1>2, <1>6, <2>1 DEF IsValidator, Path
<1>8. ASSUME NEW p \in Path
      PROVE  KindAt(w, p) =
               IF p = path THEN IF e = NoEntry THEN "explicit" ELSE "entry"
               ELSE IF IsStrictPrefix(p, path) /\ KindAt(v, p) = "none" THEN "implicit"
               ELSE IF IsStrictPrefix(path, p) /\ e # NoEntry THEN "none"
               ELSE KindAt(v, p)
  <2>1. p \in DOMAIN scopes <=> p \in kept \/ p \in missing \/ p = path
    OBVIOUS
  <2>2. KindAt(w, p) = IF p \in DOMAIN scopes THEN scopes[p].kind ELSE "none"
    BY <1>1 DEF KindAt
  <2>3. CASE p = path
    BY <1>4, <2>1, <2>2, <2>3
  <2>4. CASE p # path /\ p \in missing
    <3>1. KindAt(w, p) = "implicit"
      BY <2>1, <2>2, <2>4 DEF Declared
    <3> QED BY <1>5, <2>4, <3>1, Undeclared
  <2>5. CASE p # path /\ p \notin missing /\ p \in kept
    <3>1. KindAt(w, p) = KindAt(v, p) /\ p \in DOMAIN v.scopes
      BY <2>1, <2>2, <2>5 DEF KindAt
    <3> QED BY <1>5, <2>5, <3>1, Undeclared
  <2>6. CASE p # path /\ p \notin missing /\ p \notin kept
    <3>1. KindAt(w, p) = "none"
      BY <2>1, <2>2, <2>6
    <3> QED BY <1>5, <2>6, <3>1, Undeclared
  <2> QED BY <2>3, <2>4, <2>5, <2>6
<1>9. w.section = path
  BY <1>1
<1> QED BY <1>7, <1>8, <1>9

LEMMA KeyDeclares ==
  ASSUME NEW v, IsValidator(v), NEW key \in Path
  PROVE  LET w == RecordKeyvalue(v, key)
         IN  /\ IsValidator(w)
             /\ w.section = v.section /\ w.owner = v.owner
             /\ \A p \in Path :
                  KindAt(w, p) =
                    IF p = v.section \o key THEN "value"
                    ELSE IF IsStrictPrefix(v.section, p) /\ IsStrictPrefix(p, v.section \o key)
                      THEN "dotted"
                    ELSE KindAt(v, p)
<1> DEFINE w == RecordKeyvalue(v, key)
           dotted == {v.section \o Prefix(key, i) : i \in 1..(Len(key) - 1)}
           leaf   == v.section \o key
           scopes == [p \in DOMAIN v.scopes \cup dotted \cup {leaf} |->
                        IF p = leaf THEN Declared("value")
                        ELSE IF p \in dotted THEN Declared("dotted") ELSE v.scopes[p]]
<1>1. w = [scopes |-> scopes, section |-> v.section, owner |-> v.owner]
  <2>1. w = [v EXCEPT !.scopes = scopes]
    BY DEF RecordKeyvalue
  <2> HIDE DEF w, scopes
  <2> QED BY <2>1 DEF IsValidator
<1>2. Declared("value") \in Declarations /\ Declared("dotted") \in Declarations
  BY DEF Declared, Declarations, Kinds, NoEntry
<1>3. leaf \in Path
  <2>1. Len(key) \in Nat \ {0} /\ key \in Seq(Key) /\ v.section \in Seq(Key)
    BY DEF Path, IsValidator
  <2>2. leaf \in Seq(Key) /\ Len(leaf) = Len(v.section) + Len(key)
    BY <2>1, Below
  <2> QED BY <2>1, <2>2 DEF Path
<1>4. ASSUME NEW p
      PROVE  p \in dotted <=>
               p \in Path /\ IsStrictPrefix(v.section, p) /\ IsStrictPrefix(p, leaf)
  <2>1. ASSUME NEW i \in 1..(Len(key) - 1)
        PROVE  v.section \o Prefix(key, i) \in Path
    <3>1. key \in Seq(Key) /\ v.section \in Seq(Key) /\ i \in 0..Len(key)
      BY DEF Path, IsValidator
    <3>2. /\ v.section \o Prefix(key, i) \in Seq(Key)
          /\ Len(v.section \o Prefix(key, i)) = Len(v.section) + i
      BY <3>1, DottedStep
    <3> QED BY <3>1, <3>2 DEF Path
  <2>2. ASSUME p \in Path
        PROVE  IsStrictPrefix(v.section, p) /\ IsStrictPrefix(p, leaf)
                 <=> \E i \in 1..(Len(key) - 1) : p = v.section \o Prefix(key, i)
    <3>1. p \in Seq(Key) /\ key \in Seq(Key) /\ v.section \in Seq(Key)
      BY <2>2 DEF Path, IsValidator
    <3>2. IsStrictPrefix(v.section, p) /\ IsStrictPrefix(p, v.section \o key)
            <=> PathBetween(p, v.section, key)
      BY <3>1, PathsBetween
    <3> QED BY <3>2 DEF PathBetween
  <2> QED BY <2>1, <2>2
<1> HIDE DEF dotted, leaf
<1>5. DOMAIN scopes \subseteq Path
  BY <1>3, <1>4 DEF IsValidator
<1>6. ASSUME NEW p \in DOMAIN scopes
      PROVE  scopes[p] \in Declarations
  BY <1>2, <1>4 DEF IsValidator
<1>7. IsValidator(w)
  <2> HIDE DEF scopes
  <2> QED BY <1>1, <1>5, <1>6 DEF IsValidator
<1>8. ASSUME NEW p \in Path
      PROVE  KindAt(w, p) =
               IF p = leaf THEN "value"
               ELSE IF IsStrictPrefix(v.section, p) /\ IsStrictPrefix(p, leaf) THEN "dotted"
               ELSE KindAt(v, p)
  <2>1. KindAt(w, p) = IF p \in DOMAIN scopes THEN scopes[p].kind ELSE "none"
    BY <1>1 DEF KindAt
  <2>2. p \in DOMAIN scopes <=> p \in DOMAIN v.scopes \/ p \in dotted \/ p = leaf
    OBVIOUS
  <2> QED BY <1>4, <2>1, <2>2 DEF KindAt, Declared
<1>9. w.section = v.section /\ w.owner = v.owner
  BY <1>1
<1> QED BY <1>7, <1>8, <1>9 DEF leaf

(* Whatever a line binds, it goes to the end of the stream. *)
LEMMA SlotAppended ==
  ASSUME NEW d, IsDocument(d), NEW s \in Slots
  PROVE  IsDocument(ApplySlot(d, s)) /\ ApplySlot(d, s).stream = Append(d.stream, s)
<1> DEFINE Rec(a, f, tr, ao) == [stream |-> a, filed |-> f, tree |-> tr, aot |-> ao]
           IsRec(e) == e = Rec(e.stream, e.filed, e.tree, e.aot)
           HasStream(e) == IsRec(e) /\ e.stream = Append(d.stream, s)
<1>1. HasStream(Linked(d, s))
  <2> DEFINE m == [d EXCEPT !.stream = Append(d.stream, s)]
  <2>1. m = Rec(Append(d.stream, s), d.filed, d.tree, d.aot)
    <3>1. ASSUME NEW X
          PROVE  [d EXCEPT !.stream = X] = Rec(X, d.filed, d.tree, d.aot)
      <4>1. d = Rec(d.stream, d.filed, d.tree, d.aot)
        BY DEF IsDocument
      <4> QED BY <4>1
    <3> QED BY <3>1
  <2>2. Linked(d, s) = [m EXCEPT !.filed = PutAt(d.filed, s, {})]
    BY DEF Linked
  <2> HIDE DEF m
  <2>3. Linked(d, s) = Rec(Append(d.stream, s), PutAt(d.filed, s, {}), d.tree, d.aot)
    BY <2>1, <2>2
  <2> QED BY <2>3
<1>2. ASSUME NEW e, HasStream(e), NEW X
      PROVE  /\ HasStream([e EXCEPT !.filed = X]) /\ HasStream([e EXCEPT !.tree = X])
             /\ HasStream([e EXCEPT !.aot = X])
  <2>1. [e EXCEPT !.filed = X] = Rec(e.stream, X, e.tree, e.aot)
    BY <1>2
  <2>2. [e EXCEPT !.tree = X] = Rec(e.stream, e.filed, X, e.aot)
    BY <1>2
  <2>3. [e EXCEPT !.aot = X] = Rec(e.stream, e.filed, e.tree, X)
    BY <1>2
  <2> QED BY <1>2, <2>1, <2>2, <2>3
<1> HIDE DEF HasStream
<1>3. ASSUME NEW e, HasStream(e), NEW chain, NEW C, NEW c, NEW key, NEW kind
      PROVE  /\ HasStream(WithChain(e, chain))
             /\ HasStream(FileOn(e, s, C))
             /\ HasStream(Bind(e, c, key, kind))
  BY <1>2, <1>3 DEF WithChain, FileOn, Bind
<1>4. ASSUME NEW e, HasStream(e), NEW f, NEW g
      PROVE  HasStream([e EXCEPT !.aot = f, !.tree = g])
  <2>1. [e EXCEPT !.aot = f, !.tree = g] = [[e EXCEPT !.aot = f] EXCEPT !.tree = g]
    OBVIOUS
  <2> QED BY <1>2, <1>4, <2>1
<1>5. HasStream(ApplyKV(Linked(d, s), KVChain(s), s))
  BY <1>1, <1>3 DEF ApplyKV
<1>6. HasStream(OpenTable(Linked(d, s), Root, s))
  BY <1>1, <1>3 DEF OpenTable
<1>7. HasStream(OpenAoTEntry(Linked(d, s), Root, s))
  BY <1>1, <1>3, <1>4 DEF OpenAoTEntry
<1>8. HasStream(ApplySlot(d, s))
  BY <1>5, <1>6, <1>7 DEF ApplySlot, OpenHeader
<1> QED BY <1>8 DEF HasStream, IsDocument

Containers == Nat \X Seq(Key)

BindingSet == [key : Key, kind : {"section", "aot", "value"}]

(* A dict: no key is bound twice. *)
IsDict(items) ==
  /\ items \in Seq(BindingSet)
  /\ \A i, j \in 1..Len(items) : items[i].key = items[j].key => i = j

IsTree(t) == DOMAIN t \subseteq Containers /\ \A c \in DOMAIN t : IsDict(t[c])

-----------------------------------------------------------------------------
(* Dict operations.                                                        *)

KindIn(items, key) ==
  IF key \in {b.key : b \in Range(items)}
    THEN (CHOOSE b \in Range(items) : b.key = key).kind ELSE "none"

LEMMA KindIsKindIn == \A d, c, key : KindOf(d, c, key) = KindIn(Bindings(d, c), key)
BY DEF KindOf, KeysOf, KindIn

LEMMA KindInMeaning ==
  ASSUME NEW items, IsDict(items)
  PROVE  /\ \A i \in 1..Len(items) : KindIn(items, items[i].key) = items[i].kind
         /\ \A key : (\A i \in 1..Len(items) : items[i].key # key) => KindIn(items, key) = "none"
<1>1. Range(items) = {items[i] : i \in 1..Len(items)}
  BY DEF IsDict, Range
<1>2. ASSUME NEW i \in 1..Len(items)
      PROVE  KindIn(items, items[i].key) = items[i].kind
  <2> DEFINE b == CHOOSE x \in Range(items) : x.key = items[i].key
  <2>1. items[i] \in Range(items)
    BY <1>1
  <2>2. b \in Range(items) /\ b.key = items[i].key
    BY <2>1
  <2>3. b = items[i]
    BY <1>1, <2>2 DEF IsDict
  <2>4. items[i].key \in {x.key : x \in Range(items)}
    BY <2>1
  <2> QED BY <2>3, <2>4 DEF KindIn
<1>3. ASSUME NEW key, \A i \in 1..Len(items) : items[i].key # key
      PROVE  KindIn(items, key) = "none"
  BY <1>1, <1>3 DEF KindIn
<1> QED BY <1>2, <1>3

LEMMA EmptyDict == IsDict(<<>>) /\ \A key : KindIn(<<>>, key) = "none"
<1>1. IsDict(<<>>)
  BY DEF IsDict
<1> QED BY <1>1, KindInMeaning

(* dict.__setitem__ changes the one key, and keeps the rest of the dict. *)
LEMMA BoundKinds ==
  ASSUME NEW items, IsDict(items), NEW key \in Key, NEW kind \in {"section", "aot", "value"}
  PROVE  /\ IsDict(Bound(items, key, kind))
         /\ \A other : KindIn(Bound(items, key, kind), other) =
                         IF other = key THEN kind ELSE KindIn(items, other)
<1> DEFINE new == Bound(items, key, kind)
           n == Len(items)
<1>1. /\ n \in Nat /\ items \in Seq(BindingSet) /\ \A i \in 1..n : items[i] \in BindingSet
      /\ \A i, j \in 1..n : items[i].key = items[j].key => i = j
  BY DEF IsDict
<1>2. Binding(key, kind) \in BindingSet
  BY DEF Binding, BindingSet
<1>3. Binding(key, kind).key = key /\ Binding(key, kind).kind = kind
  BY DEF Binding
<1>4. (\E b \in Range(items) : b.key = key) <=> \E i \in 1..n : items[i].key = key
  BY <1>1 DEF Range
<1>5. CASE \E i \in 1..n : items[i].key = key
  <2>1. PICK m \in 1..n : items[m].key = key
    BY <1>5
  <2>2. new = [i \in 1..n |-> IF items[i].key = key THEN Binding(key, kind) ELSE items[i]]
    BY <1>1, <1>4, <1>5 DEF Bound
  <2>3. new \in Seq(BindingSet) /\ Len(new) = n
    BY <1>1, <1>2, <2>2
  <2>4. \A i \in 1..n : /\ i = m => new[i] = Binding(key, kind)
                        /\ i # m => new[i] = items[i] /\ items[i].key # key
    BY <1>1, <2>1, <2>2
  <2> HIDE DEF new
  <2>5. \A i \in 1..n : new[i].key = items[i].key
    BY <1>3, <2>1, <2>4
  <2>6. IsDict(new)
    BY <1>1, <2>3, <2>5 DEF IsDict
  <2>7. ASSUME NEW other
        PROVE  KindIn(new, other) = IF other = key THEN kind ELSE KindIn(items, other)
    <3>1. CASE other = key
      BY <1>3, <2>1, <2>3, <2>4, <2>6, <3>1, KindInMeaning
    <3>2. CASE other # key /\ \E i \in 1..n : items[i].key = other
      <4>1. PICK i \in 1..n : items[i].key = other
        BY <3>2
      <4>2. KindIn(items, other) = items[i].kind
        BY <4>1, KindInMeaning
      <4>3. KindIn(new, other) = new[i].kind
        BY <2>3, <2>5, <2>6, <4>1, KindInMeaning
      <4> QED BY <2>1, <2>4, <3>2, <4>1, <4>2, <4>3
    <3>3. CASE other # key /\ ~\E i \in 1..n : items[i].key = other
      <4>1. KindIn(items, other) = "none"
        BY <3>3, KindInMeaning
      <4>2. KindIn(new, other) = "none"
        BY <2>3, <2>5, <2>6, <3>3, KindInMeaning
      <4> QED BY <3>3, <4>1, <4>2
    <3> QED BY <3>1, <3>2, <3>3
  <2> QED BY <2>6, <2>7 DEF new
<1>6. CASE ~\E i \in 1..n : items[i].key = key
  <2>1. new = Append(items, Binding(key, kind))
    BY <1>4, <1>6 DEF Bound
  <2>2. /\ new \in Seq(BindingSet) /\ Len(new) = n + 1
        /\ new[n + 1] = Binding(key, kind) /\ \A i \in 1..n : new[i] = items[i]
    BY <1>1, <1>2, <2>1
  <2> HIDE DEF new
  <2>3. \A i \in 1..(n + 1) : i \in 1..n \/ i = n + 1
    BY <1>1
  <2>4. IsDict(new)
    BY <1>1, <1>3, <1>6, <2>2, <2>3 DEF IsDict
  <2>5. ASSUME NEW other
        PROVE  KindIn(new, other) = IF other = key THEN kind ELSE KindIn(items, other)
    <3>1. CASE other = key
      <4>1. n + 1 \in 1..Len(new)
        BY <1>1, <2>2
      <4> QED BY <1>3, <2>2, <2>4, <3>1, <4>1, KindInMeaning
    <3>2. CASE other # key /\ \E i \in 1..n : items[i].key = other
      <4>1. PICK i \in 1..n : items[i].key = other
        BY <3>2
      <4>2. KindIn(items, other) = items[i].kind
        BY <4>1, KindInMeaning
      <4>3. i \in 1..Len(new) /\ new[i] = items[i]
        BY <1>1, <2>2
      <4>4. KindIn(new, other) = items[i].kind
        BY <2>4, <4>1, <4>3, KindInMeaning
      <4> QED BY <3>2, <4>2, <4>4
    <3>3. CASE other # key /\ ~\E i \in 1..n : items[i].key = other
      <4>1. KindIn(items, other) = "none"
        BY <3>3, KindInMeaning
      <4>2. \A i \in 1..Len(new) : new[i].key # other
        BY <1>3, <2>2, <2>3, <3>3
      <4>3. KindIn(new, other) = "none"
        BY <2>4, <4>2, KindInMeaning
      <4> QED BY <3>3, <4>1, <4>3
    <3> QED BY <3>1, <3>2, <3>3
  <2> QED BY <2>4, <2>5 DEF new
<1> QED BY <1>5, <1>6

IsRecord(d) == d = [stream |-> d.stream, filed |-> d.filed, tree |-> d.tree, aot |-> d.aot]

LEMMA NewTree ==
  ASSUME NEW d, IsRecord(d), NEW X
  PROVE  LET e == [d EXCEPT !.tree = X]
         IN  /\ IsRecord(e) /\ e.tree = X
             /\ e.stream = d.stream /\ e.filed = d.filed /\ e.aot = d.aot
<1>1. [d EXCEPT !.tree = X] = [stream |-> d.stream, filed |-> d.filed, tree |-> X, aot |-> d.aot]
  BY DEF IsRecord
<1> QED BY <1>1 DEF IsRecord

LEMMA BindingsType ==
  ASSUME NEW d, IsTree(d.tree), NEW c
  PROVE  IsDict(Bindings(d, c))
BY EmptyDict DEF Bindings, IsTree

LEMMA BindKinds ==
  ASSUME NEW d, IsRecord(d), IsTree(d.tree), NEW c \in Containers, NEW key \in Key,
         NEW kind \in {"section", "aot", "value"}
  PROVE  LET e == Bind(d, c, key, kind)
         IN  /\ IsRecord(e) /\ IsTree(e.tree)
             /\ e.stream = d.stream /\ e.filed = d.filed /\ e.aot = d.aot
             /\ DOMAIN e.tree = DOMAIN d.tree \cup {c}
             /\ \A other, k : KindOf(e, other, k) =
                  IF other = c /\ k = key THEN kind ELSE KindOf(d, other, k)
<1> DEFINE e == Bind(d, c, key, kind)
           new == Bound(Bindings(d, c), key, kind)
           X == [z \in DOMAIN d.tree \cup {c} |-> IF z = c THEN new ELSE d.tree[z]]
<1>1. e = [d EXCEPT !.tree = X]
  BY DEF Bind, PutAt
<1>2. /\ IsRecord(e) /\ e.tree = X
      /\ e.stream = d.stream /\ e.filed = d.filed /\ e.aot = d.aot
  BY <1>1, NewTree
<1>3. IsDict(new) /\ \A k : KindIn(new, k) = IF k = key THEN kind ELSE KindIn(Bindings(d, c), k)
  BY BindingsType, BoundKinds
<1> HIDE DEF e, new
<1>4. \A z : Bindings(e, z) = IF z = c THEN new ELSE Bindings(d, z)
  BY <1>2 DEF Bindings
<1>5. DOMAIN e.tree = DOMAIN d.tree \cup {c}
  BY <1>2
<1>6. IsTree(e.tree)
  BY <1>2, <1>3 DEF IsTree
<1>7. \A other, k : KindOf(e, other, k) =
        IF other = c /\ k = key THEN kind ELSE KindOf(d, other, k)
  BY <1>3, <1>4, KindIsKindIn
<1> QED BY <1>2, <1>5, <1>6, <1>7 DEF e

(* The containers a slot passes: each below the one before it. *)
IsChain(chain) ==
  /\ chain \in Seq(Containers) /\ Len(chain) > 0
  /\ \A i, j \in 1..Len(chain) : chain[i] = chain[j] => i = j
  /\ \A i \in 1..(Len(chain) - 1) : Last(chain[i + 1][2]) \in Key

(* The step a chain takes from container c. *)
PassedOn(chain, c, key) ==
  \E i \in 1..(Len(chain) - 1) : c = chain[i] /\ key = Last(chain[i + 1][2])

LEMMA WithChainKinds ==
  ASSUME NEW d, IsRecord(d), IsTree(d.tree), NEW chain, IsChain(chain)
  PROVE  LET e == WithChain(d, chain)
         IN  /\ IsRecord(e) /\ IsTree(e.tree)
             /\ e.stream = d.stream /\ e.filed = d.filed /\ e.aot = d.aot
             /\ DOMAIN e.tree = DOMAIN d.tree \cup {chain[i] : i \in 1..Len(chain)}
             /\ \A c, key : KindOf(e, c, key) =
                  IF PassedOn(chain, c, key) /\ KindOf(d, c, key) = "none" THEN "section"
                  ELSE KindOf(d, c, key)
<1> DEFINE e == WithChain(d, chain)
           n == Len(chain)
           all == {chain[i] : i \in 1..n}
           front == {chain[i] : i \in 1..(n - 1)}
           next(c) == chain[1 + CHOOSE i \in DOMAIN chain : chain[i] = c]
           new(c, name) == IF KindOf(d, c, name) = "none"
                             THEN Bound(Bindings(d, c), name, "section") ELSE Bindings(d, c)
           X == [c \in DOMAIN d.tree \cup all |->
                   IF c \in front THEN new(c, Last(next(c)[2])) ELSE Bindings(d, c)]
<1>1. n \in Nat \ {0} /\ DOMAIN chain = 1..n /\ \A i \in 1..n : chain[i] \in Containers
  BY DEF IsChain
<1>2. Range(chain) = all /\ Range(Front(chain)) = front
  <2>1. Range(chain) = all
    BY <1>1 DEF Range
  <2>2. Front(chain) = SubSeq(chain, 1, n - 1)
    BY DEF Front
  <2>3. DOMAIN Front(chain) = 1..(n - 1) /\ \A i \in 1..(n - 1) : Front(chain)[i] = chain[i]
    BY <1>1, <2>2 DEF IsChain
  <2>4. Range(Front(chain)) = front
    BY <2>3 DEF Range
  <2> QED BY <2>1, <2>4
<1>3. e = [d EXCEPT !.tree = X]
  BY <1>2 DEF WithChain
<1>4. /\ IsRecord(e) /\ e.tree = X
      /\ e.stream = d.stream /\ e.filed = d.filed /\ e.aot = d.aot
  <2> HIDE DEF e, X
  <2> QED BY <1>3, NewTree
<1>5. \A i \in 1..(n - 1) : next(chain[i]) = chain[i + 1]
  <2>1. ASSUME NEW i \in 1..(n - 1)
        PROVE  (CHOOSE j \in DOMAIN chain : chain[j] = chain[i]) = i
    <3>1. i \in DOMAIN chain
      BY <1>1
    <3>2. \A j \in DOMAIN chain : chain[j] = chain[i] => j = i
      BY <1>1 DEF IsChain
    <3> QED BY <3>1, <3>2
  <2>2. ASSUME NEW i \in 1..(n - 1)
        PROVE  next(chain[i]) = chain[i + 1]
    <3> DEFINE m == CHOOSE j \in DOMAIN chain : chain[j] = chain[i]
    <3>1. next(chain[i]) = chain[1 + m]
      OBVIOUS
    <3>2. m = i
      BY <2>1
    <3>3. 1 + i = i + 1
      BY <1>1
    <3> HIDE DEF m
    <3> QED BY <3>1, <3>2, <3>3
  <2> QED BY <2>2
<1> HIDE DEF e, next
<1>6. \A c : Bindings(e, c) = IF c \in front THEN new(c, Last(next(c)[2])) ELSE Bindings(d, c)
  <2>1. front \subseteq all
    BY <1>1
  <2> HIDE DEF front, all, new
  <2> QED BY <1>4, <2>1 DEF Bindings
<1>7. ASSUME NEW c, NEW name \in Key
      PROVE  /\ IsDict(new(c, name))
             /\ \A key : KindIn(new(c, name), key) =
                           IF key = name /\ KindOf(d, c, key) = "none" THEN "section"
                           ELSE KindOf(d, c, key)
  <2>1. IsDict(Bindings(d, c)) /\ \A key : KindOf(d, c, key) = KindIn(Bindings(d, c), key)
    BY BindingsType, KindIsKindIn
  <2> QED BY <2>1, BoundKinds
<1> HIDE DEF new
<1>8. \A c : IsDict(Bindings(e, c))
  <2>1. ASSUME NEW c \in front PROVE Last(next(c)[2]) \in Key
    <3>1. PICK i \in 1..(n - 1) : c = chain[i]
      BY <1>1
    <3>2. next(c) = chain[i + 1] /\ Last(chain[i + 1][2]) \in Key
      BY <1>5, <3>1 DEF IsChain
    <3> QED BY <3>2
  <2> HIDE DEF front
  <2> QED BY <1>6, <1>7, <2>1, BindingsType
<1>9. DOMAIN e.tree = DOMAIN d.tree \cup all
  BY <1>4
<1>10. IsTree(e.tree)
  <2>1. \A c \in DOMAIN e.tree : e.tree[c] = Bindings(e, c)
    BY DEF Bindings
  <2>2. DOMAIN e.tree \subseteq Containers
    BY <1>1, <1>9 DEF IsTree
  <2> QED BY <1>8, <2>1, <2>2 DEF IsTree
<1>11. ASSUME NEW c, NEW key
       PROVE  KindOf(e, c, key) =
                IF PassedOn(chain, c, key) /\ KindOf(d, c, key) = "none" THEN "section"
                ELSE KindOf(d, c, key)
  <2>1. CASE c \in front
    <3>1. PICK i \in 1..(n - 1) : c = chain[i]
      BY <2>1
    <3>2. Last(next(c)[2]) = Last(chain[i + 1][2]) /\ Last(chain[i + 1][2]) \in Key
      BY <1>5, <3>1 DEF IsChain
    <3>3. PassedOn(chain, c, key) <=> key = Last(chain[i + 1][2])
      <4>1. \A j \in 1..(n - 1) : chain[j] = chain[i] => j = i
        BY <1>1 DEF IsChain
      <4> QED BY <3>1, <4>1 DEF PassedOn
    <3>4. KindOf(e, c, key) = KindIn(new(c, Last(chain[i + 1][2])), key)
      BY <1>6, <2>1, <3>2, KindIsKindIn
    <3> QED BY <1>7, <3>2, <3>3, <3>4
  <2>2. CASE c \notin front
    <3>1. ~PassedOn(chain, c, key)
      BY <2>2 DEF PassedOn
    <3>2. KindOf(e, c, key) = KindOf(d, c, key)
      BY <1>6, <2>2, KindIsKindIn
    <3> QED BY <3>1, <3>2
  <2> QED BY <2>1, <2>2
<1> QED BY <1>4, <1>9, <1>10, <1>11 DEF e

-----------------------------------------------------------------------------
(* The entry that owns what is declared at a path: the current entry of the *)
(* deepest array of tables on the way, the path itself included.           *)

EntriesAbove(v, p) == {i \in 1..Len(p) : KindAt(v, Prefix(p, i)) = "entry"}

Own(v, p) ==
  LET I == EntriesAbove(v, p)
  IN  IF I = {} THEN NoEntry
      ELSE v.scopes[Prefix(p, CHOOSE i \in I : \A j \in I : j <= i)].entry

(* The container that stands for path p. *)
At(v, p) == <<Own(v, p), p>>

SameEntries(v, p, w, q) ==
  /\ EntriesAbove(v, p) = EntriesAbove(w, q)
  /\ \A i \in EntriesAbove(v, p) :
       v.scopes[Prefix(p, i)].entry = w.scopes[Prefix(q, i)].entry

LEMMA OwnCongruent ==
  ASSUME NEW v, NEW w, NEW p \in Seq(Key), NEW q \in Seq(Key), SameEntries(v, p, w, q)
  PROVE  Own(v, p) = Own(w, q)
<1> DEFINE I == EntriesAbove(v, p)
           m == CHOOSE i \in I : \A j \in I : j <= i
<1>1. CASE I = {}
  BY <1>1 DEF Own, SameEntries
<1>2. CASE I # {}
  <2>1. I \in SUBSET Nat /\ Len(p) \in Nat /\ \A i \in I : i <= Len(p)
    BY DEF EntriesAbove
  <2>2. Own(v, p) = v.scopes[Prefix(p, m)].entry /\ Own(w, q) = w.scopes[Prefix(q, m)].entry
    BY <1>2 DEF Own, SameEntries
  <2>3. m \in I
    <3> HIDE DEF I
    <3>1. \E i \in I : \A j \in I : j <= i
      BY <1>2, <2>1, GreatestElement
    <3> QED BY <3>1
  <2> QED BY <2>2, <2>3 DEF SameEntries
<1> QED BY <1>1, <1>2

LEMMA OwnNone ==
  ASSUME NEW v, NEW p, EntriesAbove(v, p) = {}
  PROVE  Own(v, p) = NoEntry
BY DEF Own

LEMMA OwnAt ==
  ASSUME NEW v, NEW p \in Seq(Key), NEW i \in EntriesAbove(v, p),
         \A j \in (i + 1)..Len(p) : KindAt(v, Prefix(p, j)) # "entry"
  PROVE  Own(v, p) = v.scopes[Prefix(p, i)].entry
<1> DEFINE I == EntriesAbove(v, p)
           m == CHOOSE k \in I : \A j \in I : j <= k
<1>1. \A k \in I : k \in Nat /\ k <= Len(p) /\ KindAt(v, Prefix(p, k)) = "entry"
  BY DEF EntriesAbove
<1>2. \A j \in I : j <= i
  BY <1>1
<1>3. m \in I /\ \A j \in I : j <= m
  <2>1. i \in I
    OBVIOUS
  <2> HIDE DEF I
  <2> QED BY <1>2, <2>1
<1>4. m = i
  BY <1>1, <1>2, <1>3
<1>5. Own(v, p) = v.scopes[Prefix(p, m)].entry
  BY DEF Own
<1> QED BY <1>4, <1>5

LEMMA OwnType ==
  ASSUME NEW v, IsValidator(v), NEW p \in Seq(Key)
  PROVE  Own(v, p) \in Nat /\ At(v, p) \in Containers
<1> DEFINE I == EntriesAbove(v, p)
<1>1. CASE I = {}
  BY <1>1, OwnNone DEF At, Containers, NoEntry
<1>2. CASE I # {}
  <2>1. I \in SUBSET Nat /\ Len(p) \in Nat /\ \A i \in I : i <= Len(p)
    BY DEF EntriesAbove
  <2>2. PICK i \in I : \A j \in I : j <= i
    <3> HIDE DEF I
    <3> QED BY <1>2, <2>1, GreatestElement
  <2>3. \A j \in (i + 1)..Len(p) : KindAt(v, Prefix(p, j)) # "entry"
    BY <2>1, <2>2 DEF EntriesAbove
  <2>4. Own(v, p) = v.scopes[Prefix(p, i)].entry
    BY <2>2, <2>3, OwnAt
  <2>5. Prefix(p, i) \in DOMAIN v.scopes
    BY <2>2 DEF EntriesAbove, KindAt
  <2> QED BY <2>4, <2>5 DEF IsValidator, Declarations, At, Containers
<1> QED BY <1>1, <1>2

(* One step down a path enters the current entry of an array of tables, and *)
(* otherwise stays in the entry it was in.                                 *)
LEMMA OwnStep ==
  ASSUME NEW v, NEW q \in Seq(Key), NEW n \in Key
  PROVE  LET c == Append(q, n)
         IN  Own(v, c) = IF KindAt(v, c) = "entry" THEN v.scopes[c].entry ELSE Own(v, q)
<1> DEFINE c == Append(q, n)
<1>1. /\ c \in Seq(Key) /\ Len(c) = Len(q) + 1 /\ Len(q) \in Nat
      /\ Prefix(c, Len(q) + 1) = c /\ \A i \in 1..Len(q) : Prefix(c, i) = Prefix(q, i)
  <2>1. c \in Seq(Key) /\ Len(c) = Len(q) + 1 /\ Len(q) \in Nat
    OBVIOUS
  <2>2. \A i \in 0..Len(q) : Prefix(c, i) = Prefix(q, i) /\ Prefix(c, Len(q) + 1) = c
    BY PrefixOfAppend
  <2>3. 0 \in 0..Len(q) /\ \A i \in 1..Len(q) : i \in 0..Len(q)
    BY <2>1
  <2> QED BY <2>1, <2>2, <2>3
<1> HIDE DEF c
<1>2. CASE KindAt(v, c) = "entry"
  <2>1. Len(c) \in EntriesAbove(v, c)
    BY <1>1, <1>2 DEF EntriesAbove
  <2>2. \A j \in (Len(c) + 1)..Len(c) : KindAt(v, Prefix(c, j)) # "entry"
    BY <1>1
  <2>3. Own(v, c) = v.scopes[Prefix(c, Len(c))].entry
    BY <1>1, <2>1, <2>2, OwnAt
  <2> QED BY <1>1, <1>2, <2>3 DEF c
<1>3. CASE KindAt(v, c) # "entry"
  <2>1. EntriesAbove(v, c) = EntriesAbove(v, q)
    <3>1. \A i : i \in 1..Len(c) <=> i \in 1..Len(q) \/ i = Len(q) + 1
      BY <1>1
    <3> QED BY <1>1, <1>3, <3>1 DEF EntriesAbove
  <2>2. \A i \in EntriesAbove(v, c) : Prefix(c, i) = Prefix(q, i)
    BY <1>1, <2>1 DEF EntriesAbove
  <2>3. \A i \in EntriesAbove(v, c) :
          v.scopes[Prefix(c, i)].entry = v.scopes[Prefix(q, i)].entry
    BY <2>2
  <2>4. Own(v, c) = Own(v, q)
    <3>1. SameEntries(v, c, v, q)
      BY <2>1, <2>3 DEF SameEntries
    <3> QED BY <1>1, <3>1, OwnCongruent
  <2> QED BY <1>3, <2>4 DEF c
<1> QED BY <1>2, <1>3

LEMMA OwnRoot == \A v : Own(v, <<>>) = NoEntry
BY OwnNone DEF EntriesAbove

(* The entry a header is stamped with, when it opens no entry of its own. *)
LEMMA EnclosingIsOwn ==
  ASSUME NEW v, NEW path \in Path
  PROVE  EnclosingEntry(v, path) = Own(v, Prefix(path, Len(path) - 1))
<1> DEFINE q == Prefix(path, Len(path) - 1)
           I == {i \in 1..(Len(path) - 1) : KindAt(v, Prefix(path, i)) = "entry"}
<1>1. /\ path \in Seq(Key) /\ Len(path) \in Nat \ {0} /\ Len(path) - 1 \in 0..Len(path)
  BY DEF Path
<1>2. Len(q) = Len(path) - 1
  BY <1>1, PrefixType
<1>3. \A i \in 1..(Len(path) - 1) : Prefix(q, i) = Prefix(path, i)
  <2>1. \A i \in 0..(Len(path) - 1) : Prefix(q, i) = Prefix(path, i)
    BY <1>1, PrefixOfPrefix
  <2> QED BY <1>1, <2>1
<1> HIDE DEF q
<1>4. EntriesAbove(v, q) = I
  BY <1>2, <1>3 DEF EntriesAbove
<1>5. Own(v, q) = IF I = {} THEN NoEntry
                  ELSE v.scopes[Prefix(q, CHOOSE i \in I : \A j \in I : j <= i)].entry
  BY <1>4 DEF Own
<1>6. CASE I = {}
  BY <1>5, <1>6 DEF EnclosingEntry, q
<1>7. CASE I # {}
  <2> DEFINE m == CHOOSE i \in I : \A j \in I : j <= i
  <2>1. I \in SUBSET Nat /\ Len(path) \in Nat /\ \A i \in I : i <= Len(path)
    BY <1>1
  <2>2. m \in I
    <3> HIDE DEF I
    <3>1. \E i \in I : \A j \in I : j <= i
      BY <1>7, <2>1, GreatestElement
    <3> QED BY <3>1
  <2>3. Prefix(q, m) = Prefix(path, m)
    BY <1>3, <2>2
  <2>4. EnclosingEntry(v, path) = v.scopes[Prefix(path, m)].entry
    BY <1>7 DEF EnclosingEntry
  <2> QED BY <1>5, <1>7, <2>3, <2>4 DEF q
<1> QED BY <1>6, <1>7

-----------------------------------------------------------------------------
(* The scopes the validator keeps are nested: what lies above a declared    *)
(* path is declared too, as a table, and the section in force is one whose  *)
(* entry the validator carries along.                                      *)

ScopesClosed(v) ==
  \A p \in Path, q \in Path :
    p \in DOMAIN v.scopes /\ IsStrictPrefix(q, p) => KindAt(v, q) \notin {"none", "value"}

SectionDeclared(v) == v.section = <<>> \/ KindAt(v, v.section) \in {"explicit", "entry"}

OwnerExact(v) == v.owner = Own(v, v.section)

Nested(v) == ScopesClosed(v) /\ SectionDeclared(v) /\ OwnerExact(v)

LEMMA EntriesDeclared ==
  ASSUME NEW v, IsValidator(v)
  PROVE  /\ \A path \in Path, e \in Nat, p \in Path :
              LET w == EnterHeader(v, path, e)
              IN  KindAt(w, p) = "entry" =>
                    w.scopes[p].entry = IF p = path THEN e ELSE v.scopes[p].entry
         /\ \A key \in Path, p \in Path :
              LET w == RecordKeyvalue(v, key)
              IN  KindAt(w, p) = "entry" => w.scopes[p].entry = v.scopes[p].entry
<1>1. ASSUME NEW path \in Path, NEW e \in Nat, NEW p \in Path,
             KindAt(EnterHeader(v, path, e), p) = "entry"
      PROVE  EnterHeader(v, path, e).scopes[p].entry =
               IF p = path THEN e ELSE v.scopes[p].entry
  <2> DEFINE w == EnterHeader(v, path, e)
             missing == {Prefix(path, i) : i \in 1..(Len(path) - 1)} \ DOMAIN v.scopes
             kept    == {r \in DOMAIN v.scopes : e = NoEntry \/ ~IsStrictPrefix(path, r)}
             here    == IF e = NoEntry THEN Declared("explicit") ELSE DeclaredEntry(e)
             scopes  == [r \in kept \cup missing \cup {path} |->
                           IF r = path THEN here
                           ELSE IF r \in missing THEN Declared("implicit") ELSE v.scopes[r]]
  <2>1. w.scopes = scopes
    BY DEF EnterHeader
  <2>2. here.kind = "entry" => here.entry = e
    BY DEF Declared, DeclaredEntry
  <2>3. Declared("implicit").kind # "entry"
    BY DEF Declared
  <2> HIDE DEF here, missing, kept
  <2>4. p \in DOMAIN scopes /\ scopes[p].kind = "entry"
    BY <1>1, <2>1 DEF KindAt
  <2>5. scopes[p].entry = IF p = path THEN e ELSE v.scopes[p].entry
    BY <2>2, <2>3, <2>4
  <2> QED BY <2>1, <2>5
<1>2. ASSUME NEW key \in Path, NEW p \in Path, KindAt(RecordKeyvalue(v, key), p) = "entry"
      PROVE  RecordKeyvalue(v, key).scopes[p].entry = v.scopes[p].entry
  <2> DEFINE w == RecordKeyvalue(v, key)
             dotted == {v.section \o Prefix(key, i) : i \in 1..(Len(key) - 1)}
             leaf   == v.section \o key
             scopes == [r \in DOMAIN v.scopes \cup dotted \cup {leaf} |->
                          IF r = leaf THEN Declared("value")
                          ELSE IF r \in dotted THEN Declared("dotted") ELSE v.scopes[r]]
  <2>1. w.scopes = scopes
    <3>1. w = [v EXCEPT !.scopes = scopes]
      BY DEF RecordKeyvalue
    <3> HIDE DEF w, scopes
    <3> QED BY <3>1 DEF IsValidator
  <2>2. Declared("value").kind # "entry" /\ Declared("dotted").kind # "entry"
    BY DEF Declared
  <2> HIDE DEF dotted, leaf
  <2>3. p \in DOMAIN scopes /\ scopes[p].kind = "entry"
    BY <1>2, <2>1 DEF KindAt
  <2>4. scopes[p].entry = v.scopes[p].entry
    BY <2>2, <2>3
  <2> QED BY <2>1, <2>4
<1> QED BY <1>1, <1>2

(* Prefixes of a path, and the paths that lie at or under another. *)
LEMMA PrefixesOf ==
  ASSUME NEW q \in Seq(Key), NEW i \in 1..Len(q)
  PROVE  /\ Prefix(q, i) \in Path
         /\ i = Len(q) => Prefix(q, i) = q
         /\ i < Len(q) => IsStrictPrefix(Prefix(q, i), q)
         /\ \A path \in Path :
              path = Prefix(q, i) \/ IsStrictPrefix(path, Prefix(q, i))
                => path = q \/ IsStrictPrefix(path, q)
<1>1. i \in 0..Len(q) /\ i # 0
  OBVIOUS
<1>2. /\ Prefix(q, i) \in Seq(Key) /\ Len(Prefix(q, i)) = i
      /\ i = Len(q) => Prefix(q, i) = q
      /\ i < Len(q) => IsStrictPrefix(Prefix(q, i), q)
  BY <1>1, PrefixType
<1>3. Prefix(q, i) \in Path
  BY <1>1, <1>2 DEF Path
<1>4. ASSUME NEW path \in Path, path = Prefix(q, i) \/ IsStrictPrefix(path, Prefix(q, i))
      PROVE  path = q \/ IsStrictPrefix(path, q)
  <2>1. path \in Seq(Key)
    BY DEF Path
  <2>2. i = Len(q) \/ i < Len(q)
    OBVIOUS
  <2> QED BY <1>2, <1>4, <2>1, <2>2, StrictPrefixTransitive
<1> QED BY <1>2, <1>3, <1>4

LEMMA HeaderOwns ==
  ASSUME NEW v, IsValidator(v), NEW path \in Path, NEW e \in Nat,
         HeaderAllowed(v, path, e # NoEntry)
  PROVE  LET w == EnterHeader(v, path, e)
         IN  /\ \A q \in Seq(Key) :
                  e = NoEntry \/ ~(q = path \/ IsStrictPrefix(path, q)) => Own(w, q) = Own(v, q)
             /\ e # NoEntry =>
                  \A q \in Seq(Key) : q = path \/ IsStrictPrefix(path, q) => Own(w, q) = e
<1> DEFINE w == EnterHeader(v, path, e)
<1>1. \A p \in Path :
        KindAt(w, p) = IF p = path THEN IF e = NoEntry THEN "explicit" ELSE "entry"
                       ELSE IF IsStrictPrefix(p, path) /\ KindAt(v, p) = "none" THEN "implicit"
                       ELSE IF IsStrictPrefix(path, p) /\ e # NoEntry THEN "none"
                       ELSE KindAt(v, p)
  BY HeaderDeclares
<1>2. \A p \in Path : KindAt(w, p) = "entry" =>
        w.scopes[p].entry = IF p = path THEN e ELSE v.scopes[p].entry
  BY EntriesDeclared
<1>3. e = NoEntry => KindAt(v, path) # "entry"
  BY DEF HeaderAllowed
<1> HIDE DEF w
<1>4. ASSUME NEW q \in Seq(Key), e = NoEntry \/ ~(q = path \/ IsStrictPrefix(path, q))
      PROVE  Own(w, q) = Own(v, q)
  <2>1. ASSUME NEW i \in 1..Len(q)
        PROVE  /\ KindAt(w, Prefix(q, i)) = "entry" <=> KindAt(v, Prefix(q, i)) = "entry"
               /\ KindAt(w, Prefix(q, i)) = "entry" =>
                    w.scopes[Prefix(q, i)].entry = v.scopes[Prefix(q, i)].entry
    <3>1. Prefix(q, i) \in Path
      BY PrefixesOf
    <3>2. e = NoEntry \/ ~(Prefix(q, i) = path \/ IsStrictPrefix(path, Prefix(q, i)))
      BY <1>4, PrefixesOf
    <3> QED BY <1>1, <1>2, <1>3, <3>1, <3>2
  <2>2. EntriesAbove(w, q) = EntriesAbove(v, q)
    BY <2>1 DEF EntriesAbove
  <2>3. \A i \in EntriesAbove(w, q) :
          w.scopes[Prefix(q, i)].entry = v.scopes[Prefix(q, i)].entry
    BY <2>1 DEF EntriesAbove
  <2>4. SameEntries(w, q, v, q)
    BY <2>2, <2>3 DEF SameEntries
  <2> QED BY <2>4, OwnCongruent
<1>5. ASSUME e # NoEntry, NEW q \in Seq(Key), q = path \/ IsStrictPrefix(path, q)
      PROVE  Own(w, q) = e
  <2> DEFINE n == Len(path)
  <2>1. /\ path \in Seq(Key) /\ n \in Nat \ {0} /\ Len(q) \in Nat /\ n <= Len(q)
        /\ \A j \in 1..n : path[j] = q[j]
    BY <1>5, StrictPrefixMeaning DEF Path
  <2>2. Prefix(q, n) = path
    <3>1. n \in 0..Len(q)
      BY <2>1
    <3>2. /\ Prefix(q, n) \in Seq(Key) /\ Len(Prefix(q, n)) = n
          /\ \A j \in 1..n : Prefix(q, n)[j] = q[j]
      BY <3>1, PrefixType
    <3> QED BY <2>1, <3>2, SamePath
  <2>3. KindAt(w, path) = "entry"
    BY <1>1, <1>5
  <2>4. n \in EntriesAbove(w, q)
    BY <2>1, <2>2, <2>3 DEF EntriesAbove
  <2>5. ASSUME NEW j \in (n + 1)..Len(q)
        PROVE  KindAt(w, Prefix(q, j)) # "entry"
    <3>1. j \in 1..Len(q) /\ j \in 0..Len(q) /\ n < j
      BY <2>1
    <3>2. /\ Prefix(q, j) \in Seq(Key) /\ Len(Prefix(q, j)) = j
          /\ \A k \in 1..j : Prefix(q, j)[k] = q[k]
      BY <3>1, PrefixType
    <3>3. \A k \in 1..n : path[k] = Prefix(q, j)[k]
      BY <2>1, <3>1, <3>2
    <3>4. IsStrictPrefix(path, Prefix(q, j))
      BY <2>1, <3>1, <3>2, <3>3, StrictPrefixMeaning
    <3>5. ~IsStrictPrefix(Prefix(q, j), path) /\ Prefix(q, j) # path
      BY <2>1, <3>1, <3>2, <3>4, StrictPrefixAsymmetric
    <3>6. Prefix(q, j) \in Path
      BY <3>1, PrefixesOf
    <3> QED BY <1>1, <1>5, <3>4, <3>5, <3>6
  <2>6. Own(w, q) = w.scopes[Prefix(q, n)].entry
    BY <2>4, <2>5, OwnAt
  <2> QED BY <1>2, <2>2, <2>3, <2>6
<1> QED BY <1>4, <1>5 DEF w

LEMMA HeaderNests ==
  ASSUME NEW v, IsValidator(v), Nested(v), NEW path \in Path, NEW e \in Nat,
         HeaderAllowed(v, path, e # NoEntry)
  PROVE  Nested(EnterHeader(v, path, e))
<1> DEFINE w == EnterHeader(v, path, e)
<1>1. /\ IsValidator(w) /\ w.section = path
      /\ \A p \in Path :
           KindAt(w, p) = IF p = path THEN IF e = NoEntry THEN "explicit" ELSE "entry"
                          ELSE IF IsStrictPrefix(p, path) /\ KindAt(v, p) = "none" THEN "implicit"
                          ELSE IF IsStrictPrefix(path, p) /\ e # NoEntry THEN "none"
                          ELSE KindAt(v, p)
  BY HeaderDeclares
<1>2. w.owner = IF e = NoEntry THEN EnclosingEntry(v, path) ELSE e
  BY DEF EnterHeader
<1>3. /\ \A q \in Seq(Key) :
           e = NoEntry \/ ~(q = path \/ IsStrictPrefix(path, q)) => Own(w, q) = Own(v, q)
      /\ e # NoEntry =>
           \A q \in Seq(Key) : q = path \/ IsStrictPrefix(path, q) => Own(w, q) = e
  BY HeaderOwns
<1>4. \A p \in Path : /\ KindAt(v, p) = "none" <=> p \notin DOMAIN v.scopes
                      /\ KindAt(w, p) = "none" <=> p \notin DOMAIN w.scopes
  BY <1>1, Undeclared
<1>5. \A p \in Path : IsStrictPrefix(p, path) => KindAt(v, p) # "value"
  <2>1. ASSUME NEW p \in Path, IsStrictPrefix(p, path)
        PROVE  KindAt(v, p) # "value"
    <3>1. p \in Seq(Key) /\ path \in Seq(Key) /\ p # <<>>
      BY DEF Path
    <3>2. PICK i \in 1..(Len(path) - 1) : p = Prefix(path, i)
      BY <2>1, <3>1, PathsAbove
    <3> QED BY <3>2 DEF HeaderAllowed
  <2> QED BY <2>1
<1> HIDE DEF w
<1>6. ScopesClosed(w)
  <2> SUFFICES ASSUME NEW p \in Path, NEW q \in Path, p \in DOMAIN w.scopes, IsStrictPrefix(q, p)
               PROVE  KindAt(w, q) \notin {"none", "value"}
    BY DEF ScopesClosed
  <2>1. p \in Seq(Key) /\ q \in Seq(Key) /\ path \in Seq(Key)
    BY DEF Path
  <2>2. p = path \/ IsStrictPrefix(p, path)
          \/ (p \in DOMAIN v.scopes /\ ~(IsStrictPrefix(path, p) /\ e # NoEntry))
    BY <1>1, <1>4
  <2>3. CASE p = path \/ IsStrictPrefix(p, path)
    <3>1. IsStrictPrefix(q, path)
      BY <2>1, <2>3, StrictPrefixTransitive
    <3>2. q # path /\ ~IsStrictPrefix(path, q)
      BY <2>1, <3>1, StrictPrefixAsymmetric, StrictPrefixIrreflexive
    <3>3. KindAt(v, q) # "value"
      BY <1>5, <3>1
    <3> QED BY <1>1, <3>1, <3>2, <3>3
  <2>4. CASE p \in DOMAIN v.scopes /\ ~(IsStrictPrefix(path, p) /\ e # NoEntry)
    <3>1. KindAt(v, q) \notin {"none", "value"}
      BY <2>4 DEF Nested, ScopesClosed
    <3>2. ~(IsStrictPrefix(path, q) /\ e # NoEntry)
      BY <2>1, <2>4, StrictPrefixTransitive
    <3> QED BY <1>1, <3>1, <3>2
  <2> QED BY <2>2, <2>3, <2>4
<1>7. SectionDeclared(w)
  BY <1>1 DEF SectionDeclared
<1>8. OwnerExact(w)
  <2>1. CASE e # NoEntry
    BY <1>1, <1>2, <1>3, <2>1 DEF OwnerExact, Path
  <2>2. CASE e = NoEntry
    <3> DEFINE q == Prefix(path, Len(path) - 1)
    <3>1. path \in Seq(Key) /\ path # <<>>
      BY DEF Path
    <3>2. q \in Seq(Key) /\ Last(path) \in Key /\ path = Append(q, Last(path))
      BY <3>1, LastStep
    <3>3. w.owner = Own(v, q)
      BY <1>2, <2>2, EnclosingIsOwn
    <3> HIDE DEF q
    <3>4. Own(w, path) = Own(w, q)
      <4>1. KindAt(w, path) # "entry"
        BY <1>1, <2>2
      <4> QED BY <3>2, <4>1, OwnStep
    <3>5. Own(w, q) = Own(v, q)
      BY <1>3, <2>2, <3>2
    <3> QED BY <1>1, <3>3, <3>4, <3>5 DEF OwnerExact
  <2> QED BY <2>1, <2>2
<1> QED BY <1>6, <1>7, <1>8 DEF Nested, w

LEMMA KeyPasses ==
  ASSUME NEW v, IsValidator(v), NEW key \in Path, KeyAllowed(v, key)
  PROVE  /\ v.section \o key \in Path /\ KindAt(v, v.section \o key) = "none"
         /\ IsStrictPrefix(v.section, v.section \o key)
         /\ \A p \in Path :
              IsStrictPrefix(v.section, p) /\ IsStrictPrefix(p, v.section \o key)
                => KindAt(v, p) \in {"none", "dotted", "implicit"}
<1>1. key \in Seq(Key) /\ v.section \in Seq(Key) /\ Len(key) \in Nat \ {0}
  BY DEF Path, IsValidator
<1>2. /\ v.section \o key \in Seq(Key)
      /\ Len(v.section \o key) = Len(v.section) + Len(key)
      /\ \A i \in 1..Len(v.section) : (v.section \o key)[i] = v.section[i]
  BY <1>1, Below
<1>3. v.section \o key \in Path
  BY <1>1, <1>2 DEF Path
<1>4. IsStrictPrefix(v.section, v.section \o key)
  <2> DEFINE leaf == v.section \o key
  <2>1. leaf \in Seq(Key) /\ Len(v.section) < Len(leaf) /\ \A i \in 1..Len(v.section) : v.section[i] = leaf[i]
    BY <1>1, <1>2
  <2> HIDE DEF leaf
  <2>2. IsStrictPrefix(v.section, leaf)
    BY <1>1, <2>1, StrictPrefixMeaning
  <2> QED BY <2>2 DEF leaf
<1>5. ASSUME NEW p \in Path, IsStrictPrefix(v.section, p), IsStrictPrefix(p, v.section \o key)
      PROVE  KindAt(v, p) \in {"none", "dotted", "implicit"}
  <2>1. PathBetween(p, v.section, key)
    <3>1. p \in Seq(Key)
      BY DEF Path
    <3> QED BY <1>1, <1>5, <3>1, PathsBetween
  <2> QED BY <2>1 DEF PathBetween, KeyAllowed
<1> QED BY <1>3, <1>4, <1>5 DEF KeyAllowed

LEMMA KeyOwns ==
  ASSUME NEW v, IsValidator(v), NEW key \in Path, KeyAllowed(v, key)
  PROVE  \A q \in Seq(Key) : Own(RecordKeyvalue(v, key), q) = Own(v, q)
<1> DEFINE w == RecordKeyvalue(v, key)
           leaf == v.section \o key
<1>1. \A p \in Path :
        KindAt(w, p) = IF p = leaf THEN "value"
                       ELSE IF IsStrictPrefix(v.section, p) /\ IsStrictPrefix(p, leaf) THEN "dotted"
                       ELSE KindAt(v, p)
  BY KeyDeclares
<1>2. \A p \in Path : KindAt(w, p) = "entry" => w.scopes[p].entry = v.scopes[p].entry
  BY EntriesDeclared
<1>3. /\ KindAt(v, leaf) = "none"
      /\ \A p \in Path : IsStrictPrefix(v.section, p) /\ IsStrictPrefix(p, leaf)
                           => KindAt(v, p) \in {"none", "dotted", "implicit"}
  BY KeyPasses
<1> HIDE DEF w, leaf
<1>4. ASSUME NEW q \in Seq(Key)
      PROVE  Own(w, q) = Own(v, q)
  <2>1. ASSUME NEW i \in 1..Len(q)
        PROVE  /\ KindAt(w, Prefix(q, i)) = "entry" <=> KindAt(v, Prefix(q, i)) = "entry"
               /\ KindAt(w, Prefix(q, i)) = "entry" =>
                    w.scopes[Prefix(q, i)].entry = v.scopes[Prefix(q, i)].entry
    <3>1. Prefix(q, i) \in Path
      BY PrefixesOf
    <3> QED BY <1>1, <1>2, <1>3, <3>1
  <2>2. SameEntries(w, q, v, q)
    BY <2>1 DEF SameEntries, EntriesAbove
  <2> QED BY <2>2, OwnCongruent
<1> QED BY <1>4 DEF w

LEMMA KeyNests ==
  ASSUME NEW v, IsValidator(v), Nested(v), NEW key \in Path, KeyAllowed(v, key)
  PROVE  Nested(RecordKeyvalue(v, key))
<1> DEFINE w == RecordKeyvalue(v, key)
           leaf == v.section \o key
           sec == v.section
<1>1. /\ IsValidator(w) /\ w.section = sec /\ w.owner = v.owner
      /\ \A p \in Path :
           KindAt(w, p) = IF p = leaf THEN "value"
                          ELSE IF IsStrictPrefix(sec, p) /\ IsStrictPrefix(p, leaf) THEN "dotted"
                          ELSE KindAt(v, p)
  BY KeyDeclares
<1>2. /\ leaf \in Path /\ KindAt(v, leaf) = "none" /\ IsStrictPrefix(sec, leaf)
      /\ \A p \in Path : IsStrictPrefix(sec, p) /\ IsStrictPrefix(p, leaf)
                           => KindAt(v, p) \in {"none", "dotted", "implicit"}
  BY KeyPasses
<1>3. \A p \in Path : /\ KindAt(v, p) = "none" <=> p \notin DOMAIN v.scopes
                      /\ KindAt(w, p) = "none" <=> p \notin DOMAIN w.scopes
  BY <1>1, Undeclared
<1>4. Own(w, sec) = Own(v, sec)
  BY KeyOwns DEF IsValidator
<1>5. sec \in Seq(Key) /\ leaf \in Seq(Key)
  BY <1>2 DEF IsValidator, Path
<1> HIDE DEF w, leaf, sec
<1>6. ScopesClosed(w)
  <2> SUFFICES ASSUME NEW p \in Path, NEW q \in Path, p \in DOMAIN w.scopes, IsStrictPrefix(q, p)
               PROVE  KindAt(w, q) \notin {"none", "value"}
    BY DEF ScopesClosed
  <2>1. p \in Seq(Key) /\ q \in Seq(Key)
    BY DEF Path
  <2>2. q # leaf
    <3>1. CASE p \in DOMAIN v.scopes
      BY <1>2, <3>1 DEF Nested, ScopesClosed
    <3>2. CASE p \notin DOMAIN v.scopes
      <4>1. p = leaf \/ IsStrictPrefix(p, leaf)
        BY <1>1, <1>3, <3>2
      <4> QED BY <1>5, <2>1, <4>1, StrictPrefixAsymmetric, StrictPrefixIrreflexive
    <3> QED BY <3>1, <3>2
  <2>3. CASE IsStrictPrefix(sec, q) /\ IsStrictPrefix(q, leaf)
    BY <1>1, <2>2, <2>3
  <2>4. CASE ~(IsStrictPrefix(sec, q) /\ IsStrictPrefix(q, leaf))
    <3>1. CASE p \in DOMAIN v.scopes
      <4>1. KindAt(v, q) \notin {"none", "value"}
        BY <3>1 DEF Nested, ScopesClosed
      <4> QED BY <1>1, <2>2, <2>4, <4>1
    <3>2. CASE p \notin DOMAIN v.scopes
      <4>1. IsStrictPrefix(q, leaf)
        <5>1. p = leaf \/ IsStrictPrefix(p, leaf)
          BY <1>1, <1>3, <3>2
        <5> QED BY <1>5, <2>1, <5>1, StrictPrefixTransitive
      <4>2. q = sec \/ IsStrictPrefix(q, sec)
        BY <1>2, <1>5, <2>1, <2>4, <4>1, PrefixesComparable
      <4>3. sec # <<>>
        <5>1. q # <<>>
          BY DEF Path
        <5>2. IsStrictPrefix(q, sec) => Len(q) < Len(sec)
          BY <1>5, <2>1, StrictPrefixMeaning
        <5> QED BY <2>1, <4>2, <5>1, <5>2
      <4>4. KindAt(v, sec) \in {"explicit", "entry"} /\ sec \in Path
        BY <1>5, <4>3 DEF Nested, SectionDeclared, sec, Path
      <4>5. KindAt(v, q) \notin {"none", "value"}
        BY <1>3, <4>2, <4>4 DEF Nested, ScopesClosed
      <4> QED BY <1>1, <2>2, <2>4, <4>5
    <3> QED BY <3>1, <3>2
  <2> QED BY <2>3, <2>4
<1>7. SectionDeclared(w)
  <2>1. CASE sec = <<>>
    BY <1>1, <2>1 DEF SectionDeclared
  <2>2. CASE sec # <<>>
    <3>1. sec \in Path /\ KindAt(v, sec) \in {"explicit", "entry"}
      BY <1>5, <2>2 DEF Nested, SectionDeclared, sec, Path
    <3>2. sec # leaf /\ ~IsStrictPrefix(sec, sec)
      BY <1>2, StrictPrefixIrreflexive
    <3> QED BY <1>1, <3>1, <3>2 DEF SectionDeclared
  <2> QED BY <2>1, <2>2
<1>8. OwnerExact(w)
  BY <1>1, <1>4 DEF OwnerExact, Nested, sec
<1> QED BY <1>6, <1>7, <1>8 DEF Nested, w

(* A dotted key stays in the entry its section is in. *)
LEMMA KeyStaysInEntry ==
  ASSUME NEW v, IsValidator(v), NEW key \in Path, KeyAllowed(v, key),
         NEW i \in 0..(Len(key) - 1)
  PROVE  Own(v, v.section \o Prefix(key, i)) = Own(v, v.section)
<1> DEFINE sec == v.section
           q == sec \o Prefix(key, i)
           h == Len(sec)
<1>1. key \in Seq(Key) /\ sec \in Seq(Key) /\ Len(key) \in Nat \ {0} /\ h \in Nat
  BY DEF Path, IsValidator
<1>2. i \in 0..Len(key)
  BY <1>1
<1>3. q \in Seq(Key) /\ Len(q) = h + i
  BY <1>1, <1>2, DottedStep
<1>4. \A j \in 1..h : q[j] = sec[j]
  <2>1. Prefix(key, i) \in Seq(Key)
    BY <1>1, <1>2, PrefixType
  <2> QED BY <1>1, <2>1, Below
<1>5. \A j \in 1..i : Prefix(q, h + j) = sec \o Prefix(key, j)
  <2>1. ASSUME NEW j \in 1..i
        PROVE  Prefix(q, h + j) = sec \o Prefix(key, j)
    <3>1. j \in 0..Len(key) /\ j \in 0..i /\ h + j \in 0..(h + i) /\ h + i \in 0..Len(sec \o key)
      <4>1. Len(sec \o key) = h + Len(key)
        BY <1>1, Below
      <4> QED BY <1>1, <1>2, <4>1
    <3>2. sec \o Prefix(key, j) = Prefix(sec \o key, h + j)
      <4>1. j \in 0..Len(key)
        BY <3>1
      <4> HIDE DEF sec
      <4>2. sec \o Prefix(key, j) = Prefix(sec \o key, Len(sec) + j)
        BY <1>1, <4>1, DottedStep
      <4> QED BY <4>2
    <3>3. q = Prefix(sec \o key, h + i)
      <4> HIDE DEF sec
      <4>1. sec \o Prefix(key, i) = Prefix(sec \o key, Len(sec) + i)
        BY <1>1, <1>2, DottedStep
      <4> QED BY <4>1
    <3>4. sec \o key \in Seq(Key)
      BY <1>1, Below
    <3>5. Prefix(Prefix(sec \o key, h + i), h + j) = Prefix(sec \o key, h + j)
      <4> DEFINE t == sec \o key
                 m == h + i
                 k == h + j
      <4>1. t \in Seq(Key) /\ m \in 0..Len(t) /\ k \in 0..m
        BY <3>1, <3>4
      <4> HIDE DEF t, m, k
      <4>2. Prefix(Prefix(t, m), k) = Prefix(t, k)
        BY <4>1, PrefixOfPrefix
      <4> QED BY <4>2 DEF t, m, k
    <3> QED BY <3>2, <3>3, <3>5
  <2> QED BY <2>1
<1> HIDE DEF q
<1>6. \A j \in 1..h : Prefix(q, j) = Prefix(sec, j)
  <2>1. ASSUME NEW j \in 1..h
        PROVE  Prefix(q, j) = Prefix(sec, j)
    <3>1. j \in 0..Len(q) /\ j \in 0..Len(sec)
      BY <1>1, <1>3
    <3>2. /\ Prefix(q, j) \in Seq(Key) /\ Len(Prefix(q, j)) = j
          /\ \A k \in 1..j : Prefix(q, j)[k] = q[k]
      BY <1>3, <3>1, PrefixType
    <3>3. /\ Prefix(sec, j) \in Seq(Key) /\ Len(Prefix(sec, j)) = j
          /\ \A k \in 1..j : Prefix(sec, j)[k] = sec[k]
      BY <1>1, <3>1, PrefixType
    <3>4. \A k \in 1..j : Prefix(q, j)[k] = Prefix(sec, j)[k]
      BY <1>1, <1>4, <3>2, <3>3
    <3> QED BY <3>2, <3>3, <3>4, SamePath
  <2> QED BY <2>1
<1>7. \A j \in 1..i : KindAt(v, sec \o Prefix(key, j)) # "entry"
  <2>1. \A j \in 1..i : j \in 1..(Len(key) - 1)
    BY <1>1
  <2> QED BY <2>1 DEF KeyAllowed
<1>8. EntriesAbove(v, q) = EntriesAbove(v, sec)
  <2>1. \A j : j \in 1..Len(q) <=> j \in 1..h \/ \E k \in 1..i : j = h + k
    <3>1. ASSUME NEW j \in 1..Len(q), j \notin 1..h
          PROVE  \E k \in 1..i : j = h + k
      <4>1. j - h \in 1..i /\ j = h + (j - h)
        BY <1>1, <1>3, <3>1
      <4> QED BY <4>1
    <3>2. \A k \in 1..i : h + k \in 1..Len(q)
      BY <1>1, <1>3
    <3>3. \A j \in 1..h : j \in 1..Len(q)
      BY <1>1, <1>3
    <3> QED BY <3>1, <3>2, <3>3
  <2> HIDE DEF h
  <2>2. \A j : j \in EntriesAbove(v, q) <=> j \in 1..h /\ KindAt(v, Prefix(sec, j)) = "entry"
    <3>1. \A j : j \in EntriesAbove(v, q) <=> j \in 1..Len(q) /\ KindAt(v, Prefix(q, j)) = "entry"
      BY DEF EntriesAbove
    <3>2. \A k \in 1..i : KindAt(v, Prefix(q, h + k)) # "entry"
      BY <1>5, <1>7
    <3> QED BY <1>6, <2>1, <3>1, <3>2
  <2> QED BY <2>2 DEF EntriesAbove, h
<1>9. SameEntries(v, q, v, sec)
  BY <1>6, <1>8 DEF SameEntries, EntriesAbove
<1>10. Own(v, q) = Own(v, sec)
  BY <1>1, <1>3, <1>9, OwnCongruent
<1> QED BY <1>10 DEF q
-----------------------------------------------------------------------------
(* The builder follows the validator, line by line.                        *)

(* What a dict holds for a declaration. *)
TreeKind(kind) ==
  IF kind \in {"explicit", "implicit", "dotted"} THEN "section"
  ELSE IF kind = "entry" THEN "aot" ELSE kind

(* The dict of the container at q and the validator agree on q.n. *)
Match(v, d, q, n) ==
  /\ KindOf(d, At(v, q), n) = TreeKind(KindAt(v, Append(q, n)))
  /\ KindAt(v, Append(q, n)) = "entry" =>
       LET a == Child(At(v, q), n)
       IN  /\ a \in DOMAIN d.aot /\ d.aot[a] # <<>>
           /\ Last(d.aot[a]) = v.scopes[Append(q, n)].entry

Matches(v, d) == \A q \in Seq(Key), n \in Key : Match(v, d, q, n)

-----------------------------------------------------------------------------
(* The chains of containers a slot passes.                                 *)

LEMMA ChildAt ==
  ASSUME NEW v, NEW q \in Seq(Key), NEW n \in Key
  PROVE  /\ KindAt(v, Append(q, n)) # "entry" => Child(At(v, q), n) = At(v, Append(q, n))
         /\ KindAt(v, Append(q, n)) = "entry" =>
              At(v, Append(q, n)) = <<v.scopes[Append(q, n)].entry, Append(q, n)>>
         /\ Child(At(v, q), n) = <<Own(v, q), Append(q, n)>>
<1>1. At(v, q)[1] = Own(v, q) /\ At(v, q)[2] = q
  BY DEF At
<1>2. Child(At(v, q), n) = <<Own(v, q), Append(q, n)>>
  BY <1>1 DEF Child
<1> QED BY <1>2, OwnStep DEF At

(* One step of the way down: into the latest entry of an array of tables. *)
Down(d, path, up, i) ==
  IF KindOf(d, up, path[i]) = "aot"
    THEN <<Last(d.aot[Child(up, path[i])]), Prefix(path, i)>>
    ELSE Child(up, path[i])

LEMMA DownAt ==
  ASSUME NEW v, IsValidator(v), NEW d, Matches(v, d), NEW path \in Seq(Key), NEW i \in 1..Len(path)
  PROVE  Down(d, path, At(v, Prefix(path, i - 1)), i) = At(v, Prefix(path, i))
<1> DEFINE q == Prefix(path, i - 1)
           n == path[i]
           c == Prefix(path, i)
<1>1. q \in Seq(Key) /\ n \in Key /\ c = Append(q, n)
  BY PrefixStep
<1>2. Match(v, d, q, n)
  BY <1>1 DEF Matches
<1> HIDE DEF q, n, c
<1>3. CASE KindAt(v, c) = "entry"
  <2>1. KindOf(d, At(v, q), n) = "aot" /\ Last(d.aot[Child(At(v, q), n)]) = v.scopes[c].entry
    BY <1>1, <1>2, <1>3 DEF Match, TreeKind
  <2>2. Down(d, path, At(v, q), i) = <<v.scopes[c].entry, c>>
    BY <2>1 DEF Down, n, c
  <2> QED BY <1>1, <1>3, <2>2, ChildAt DEF q, c
<1>4. CASE KindAt(v, c) # "entry"
  <2>1. KindOf(d, At(v, q), n) # "aot"
    <3>1. KindAt(v, c) # "aot"
      BY Undeclared DEF Kinds
    <3> QED BY <1>1, <1>2, <1>4, <3>1 DEF Match, TreeKind
  <2>2. Down(d, path, At(v, q), i) = Child(At(v, q), n)
    BY <2>1 DEF Down, n
  <2> QED BY <1>1, <1>4, <2>2, ChildAt DEF q, c
<1> QED BY <1>3, <1>4

(* The containers along path t from the m-th key on, k of them. *)
PathChain(v, t, m, k) == [i \in 1..k |-> At(v, Prefix(t, m + i - 1))]

LEMMA PathChainSteps ==
  ASSUME NEW v, IsValidator(v), NEW t \in Seq(Key), NEW m \in Nat, NEW k \in Nat \ {0},
         m + k - 1 <= Len(t)
  PROVE  /\ IsChain(PathChain(v, t, m, k)) /\ Len(PathChain(v, t, m, k)) = k
         /\ \A i \in 1..k : PathChain(v, t, m, k)[i] = At(v, Prefix(t, m + i - 1))
         /\ \A q \in Seq(Key), n \in Key :
              PassedOn(PathChain(v, t, m, k), At(v, q), n)
                <=> \E j \in (m + 1)..(m + k - 1) : Append(q, n) = Prefix(t, j)
<1> DEFINE chain == PathChain(v, t, m, k)
<1>1. \A i \in 1..k : m + i - 1 \in 0..Len(t)
  OBVIOUS
<1>2. \A i \in 1..k : /\ Prefix(t, m + i - 1) \in Seq(Key)
                      /\ Len(Prefix(t, m + i - 1)) = m + i - 1
  BY <1>1, PrefixType
<1>3. \A i \in 1..k : At(v, Prefix(t, m + i - 1)) \in Containers
  BY <1>2, OwnType
<1>4. chain = [i \in 1..k |-> At(v, Prefix(t, m + i - 1))]
  BY DEF PathChain
<1> HIDE DEF chain
<1>5. /\ chain \in Seq(Containers) /\ Len(chain) = k
      /\ \A i \in 1..k : chain[i] = At(v, Prefix(t, m + i - 1))
  BY <1>3, <1>4
<1>6. \A i \in 1..k : chain[i][2] = Prefix(t, m + i - 1)
  BY <1>5 DEF At
<1>7. \A i, j \in 1..k : chain[i] = chain[j] => i = j
  <2>1. ASSUME NEW i \in 1..k, NEW j \in 1..k, chain[i] = chain[j]
        PROVE  i = j
    <3>1. m + i - 1 = m + j - 1
      BY <1>2, <1>6, <2>1
    <3> QED BY <3>1
  <2> QED BY <2>1
<1>8. ASSUME NEW i \in 1..(k - 1)
      PROVE  /\ m + i \in 1..Len(t) /\ m + i \in (m + 1)..(m + k - 1)
             /\ chain[i] = At(v, Prefix(t, (m + i) - 1))
             /\ Last(chain[i + 1][2]) = t[m + i] /\ t[m + i] \in Key
  <2>1. m + i \in 1..Len(t) /\ m + i \in (m + 1)..(m + k - 1) /\ m + (i + 1) - 1 = m + i
        /\ i + 1 \in 1..k /\ i \in 1..k /\ m + i - 1 = (m + i) - 1
    OBVIOUS
  <2>2. Last(Prefix(t, m + i)) = t[m + i] /\ t[m + i] \in Key
    BY <2>1, PrefixStep
  <2>3. chain[i + 1][2] = Prefix(t, m + i)
    BY <1>6, <2>1
  <2> QED BY <1>5, <2>1, <2>2, <2>3
<1>9. IsChain(chain)
  <2>1. \A i \in 1..(k - 1) : Last(chain[i + 1][2]) \in Key
    BY <1>8
  <2>2. k > 0
    OBVIOUS
  <2> QED BY <1>5, <1>7, <2>1, <2>2 DEF IsChain
<1>10. ASSUME NEW q \in Seq(Key), NEW n \in Key
       PROVE  PassedOn(chain, At(v, q), n)
                <=> \E j \in (m + 1)..(m + k - 1) : Append(q, n) = Prefix(t, j)
  <2>1. ASSUME NEW j \in 1..Len(t)
        PROVE  /\ At(v, q) = At(v, Prefix(t, j - 1)) /\ n = t[j] => Append(q, n) = Prefix(t, j)
               /\ Append(q, n) = Prefix(t, j) =>
                    At(v, q) = At(v, Prefix(t, j - 1)) /\ n = t[j]
    <3> DEFINE r == Prefix(t, j - 1)
    <3>1. Prefix(t, j) = Append(r, t[j]) /\ r \in Seq(Key) /\ t[j] \in Key
      BY PrefixStep
    <3> HIDE DEF r
    <3>2. At(v, q) = At(v, r) => q = r
      BY DEF At
    <3>3. Append(q, n) = Append(r, t[j]) => q = r /\ n = t[j]
      BY <3>1, SameChild
    <3> QED BY <3>1, <3>2, <3>3 DEF r
  <2>2. ASSUME NEW i \in 1..(k - 1), At(v, q) = chain[i], n = Last(chain[i + 1][2])
        PROVE  \E j \in (m + 1)..(m + k - 1) : Append(q, n) = Prefix(t, j)
    <3>1. Append(q, n) = Prefix(t, m + i)
      BY <1>8, <2>1, <2>2
    <3> QED BY <1>8, <3>1
  <2>3. ASSUME NEW j \in (m + 1)..(m + k - 1), Append(q, n) = Prefix(t, j)
        PROVE  PassedOn(chain, At(v, q), n)
    <3> DEFINE i == j - m
    <3>1. i \in 1..(k - 1) /\ m + i = j /\ j \in 1..Len(t)
      OBVIOUS
    <3> HIDE DEF i
    <3>2. At(v, q) = chain[i] /\ n = Last(chain[i + 1][2])
      BY <1>8, <2>1, <2>3, <3>1
    <3> QED BY <1>5, <3>1, <3>2 DEF PassedOn
  <2> QED BY <1>5, <2>2, <2>3 DEF PassedOn
<1> QED BY <1>5, <1>9, <1>10 DEF chain

LEMMA PathChainAppend ==
  ASSUME NEW v, IsValidator(v), NEW t \in Seq(Key), NEW m \in Nat, NEW k \in Nat \ {0},
         m + k <= Len(t)
  PROVE  Append(PathChain(v, t, m, k), At(v, Prefix(t, m + k))) = PathChain(v, t, m, k + 1)
<1> DEFINE c == PathChain(v, t, m, k)
           d == PathChain(v, t, m, k + 1)
           x == At(v, Prefix(t, m + k))
<1>1. m + k - 1 <= Len(t) /\ m + (k + 1) - 1 <= Len(t) /\ k + 1 \in Nat \ {0}
  OBVIOUS
<1>2. IsChain(c) /\ Len(c) = k /\ \A i \in 1..k : c[i] = At(v, Prefix(t, m + i - 1))
  BY <1>1, PathChainSteps
<1>3. /\ IsChain(d) /\ Len(d) = k + 1
      /\ \A i \in 1..(k + 1) : d[i] = At(v, Prefix(t, m + i - 1))
  BY <1>1, PathChainSteps
<1>4. d[k + 1] = x
  <2>1. m + (k + 1) - 1 = m + k
    OBVIOUS
  <2> QED BY <1>3, <2>1
<1>5. c \in Seq(Containers) /\ d \in Seq(Containers) /\ x \in Containers
  <2>1. k + 1 \in 1..(k + 1)
    OBVIOUS
  <2> HIDE DEF x
  <2> QED BY <1>2, <1>3, <1>4, <2>1 DEF IsChain
<1> HIDE DEF c, d, x
<1>6. /\ Append(c, x) \in Seq(Containers) /\ Len(Append(c, x)) = k + 1
      /\ Append(c, x)[k + 1] = x /\ \A i \in 1..k : Append(c, x)[i] = c[i]
  BY <1>2, <1>5
<1>7. \A i \in 1..(k + 1) : Append(c, x)[i] = d[i]
  <2>1. \A i \in 1..(k + 1) : i \in 1..k \/ i = k + 1
    OBVIOUS
  <2> QED BY <1>2, <1>3, <1>4, <1>6, <2>1
<1>8. Append(c, x) = d
  BY <1>3, <1>5, <1>6, <1>7, SamePath
<1> QED BY <1>8 DEF c, d, x

(* _resolve_parent follows the validator's path, entry by entry. *)
LEMMA HeaderChainIs ==
  ASSUME NEW v, IsValidator(v), NEW d, Matches(v, d), NEW path \in Path
  PROVE  HeaderChain(d, Root, path) = PathChain(v, path, 0, Len(path))
<1> DEFINE n == Len(path)
           Body(f, i) == IF i = 1 THEN Root ELSE Down(d, path, f[i - 1], i - 1)
           h == HeaderChain(d, Root, path)
           g == PathChain(v, path, 0, Len(path))
<1>1. path \in Seq(Key) /\ n \in Nat \ {0} /\ Len(Root[2]) = 0
  BY DEF Path, Root
<1>2. ASSUME NEW f
      PROVE  [i \in 1..(Len(path) - Len(Root[2])) |->
                IF i = 1 THEN Root
                ELSE LET up == f[i - 1]
                         name == path[Len(Root[2]) + i - 1]
                     IN  IF KindOf(d, up, name) = "aot"
                           THEN <<Last(d.aot[Child(up, name)]), Prefix(path, Len(Root[2]) + i - 1)>>
                           ELSE Child(up, name)]
             = [i \in 1..n |-> Body(f, i)]
  BY <1>1 DEF Down
<1>3. h = CHOOSE f : f = [i \in 1..n |-> Body(f, i)]
  BY <1>2 DEF HeaderChain
<1>4. g = [i \in 1..n |-> Body(g, i)]
  <2>1. g = [i \in 1..n |-> At(v, Prefix(path, i - 1))]
    <3>1. \A i \in 1..n : 0 + i - 1 = i - 1
      OBVIOUS
    <3> QED BY <3>1 DEF PathChain
  <2>2. At(v, Prefix(path, 0)) = Root
    <3>1. Prefix(path, 0) = <<>>
      <4>1. 0 \in 0..Len(path)
        BY <1>1
      <4>2. Prefix(path, 0) \in Seq(Key) /\ Len(Prefix(path, 0)) = 0
        BY <1>1, <4>1, PrefixType
      <4> QED BY <4>2
    <3> QED BY <3>1, OwnRoot DEF At, Root
  <2> HIDE DEF g
  <2>3. ASSUME NEW i \in 1..n
        PROVE  At(v, Prefix(path, i - 1)) = Body(g, i)
    <3>1. CASE i = 1
      BY <2>2, <3>1
    <3>2. CASE i # 1
      <4>1. i - 1 \in 1..n
        BY <1>1, <3>2
      <4>2. g[i - 1] = At(v, Prefix(path, (i - 1) - 1))
        BY <2>1, <4>1
      <4>3. Down(d, path, At(v, Prefix(path, (i - 1) - 1)), i - 1) = At(v, Prefix(path, i - 1))
        BY <1>1, <4>1, DownAt
      <4> QED BY <3>2, <4>2, <4>3
    <3> QED BY <3>1, <3>2
  <2> HIDE DEF Body
  <2> QED BY <2>1, <2>3
<1>5. h = [i \in 1..n |-> Body(h, i)]
  <2> HIDE DEF g, h, Body
  <2> QED BY <1>3, <1>4
<1> HIDE DEF h, g
<1> DEFINE S == {m \in Nat : m \in 1..n => h[m] = g[m]}
<1>6. 0 \in S
  OBVIOUS
<1>7. ASSUME NEW m \in Nat, m \in S
      PROVE  m + 1 \in S
  <2> SUFFICES ASSUME m + 1 \in 1..n
               PROVE  h[m + 1] = g[m + 1]
    OBVIOUS
  <2>1. h[m + 1] = Body(h, m + 1) /\ g[m + 1] = Body(g, m + 1)
    <3> HIDE DEF Body
    <3> QED BY <1>4, <1>5
  <2>2. m # 0 => h[m] = g[m]
    BY <1>7
  <2>3. Body(h, m + 1) = Body(g, m + 1)
    BY <2>2
  <2> QED BY <2>1, <2>3
<1>8. \A m \in Nat : m \in S
  <2> HIDE DEF S
  <2> QED BY <1>6, <1>7, InductionOnSet
<1>9. \A m \in 1..n : h[m] = g[m]
  BY <1>8
<1>10. h = [i \in 1..n |-> h[i]] /\ g = [i \in 1..n |-> g[i]]
  <2> HIDE DEF Body
  <2> QED BY <1>4, <1>5
<1>11. h = g
  BY <1>9, <1>10
<1> QED BY <1>11 DEF h, g

-----------------------------------------------------------------------------
(* What filing a slot leaves of the rest of the document.                  *)

LEMMA LinkedIs ==
  ASSUME NEW d, IsRecord(d), NEW s
  PROVE  LET e == Linked(d, s)
         IN  /\ IsRecord(e) /\ e.stream = Append(d.stream, s)
             /\ e.filed = PutAt(d.filed, s, {})
             /\ e.tree = d.tree /\ e.aot = d.aot
<1> DEFINE m == [d EXCEPT !.stream = Append(d.stream, s)]
<1>1. m = [stream |-> Append(d.stream, s), filed |-> d.filed, tree |-> d.tree, aot |-> d.aot]
  <2>1. ASSUME NEW X
        PROVE  [d EXCEPT !.stream = X]
                 = [stream |-> X, filed |-> d.filed, tree |-> d.tree, aot |-> d.aot]
    BY DEF IsRecord
  <2> QED BY <2>1
<1>2. Linked(d, s) = [m EXCEPT !.filed = PutAt(d.filed, s, {})]
  BY DEF Linked
<1> HIDE DEF m
<1>3. Linked(d, s) = [stream |-> Append(d.stream, s), filed |-> PutAt(d.filed, s, {}),
                      tree |-> d.tree, aot |-> d.aot]
  BY <1>1, <1>2
<1> QED BY <1>3 DEF IsRecord

LEMMA FileOnIs ==
  ASSUME NEW e, IsRecord(e), NEW f, NEW s, e.filed = PutAt(f, s, {}), NEW C
  PROVE  LET r == FileOn(e, s, C)
         IN  /\ IsRecord(r) /\ r.stream = e.stream /\ r.tree = e.tree /\ r.aot = e.aot
             /\ DOMAIN r.filed = DOMAIN f \cup {s} /\ r.filed[s] = C
             /\ \A z \in DOMAIN f : z # s => r.filed[z] = f[z]
<1> DEFINE r == FileOn(e, s, C)
           X == [e.filed EXCEPT ![s] = e.filed[s] \cup C]
<1>1. r = [e EXCEPT !.filed = X]
  BY DEF FileOn
<1>2. X = [z \in DOMAIN f \cup {s} |-> IF z = s THEN C ELSE f[z]]
  BY DEF PutAt
<1> HIDE DEF X
<1>3. r = [stream |-> e.stream, filed |-> X, tree |-> e.tree, aot |-> e.aot]
  <2> HIDE DEF r
  <2> QED BY <1>1 DEF IsRecord
<1> HIDE DEF r
<1> QED BY <1>2, <1>3 DEF IsRecord, r

(* Only the tree and the arrays of tables say what a container holds. *)
LEMMA SameTree ==
  ASSUME NEW d, NEW e, d.tree = e.tree, d.aot = e.aot
  PROVE  /\ \A c, key : KindOf(d, c, key) = KindOf(e, c, key)
         /\ \A v : Matches(v, d) => Matches(v, e)
<1>1. \A c, key : KindOf(d, c, key) = KindOf(e, c, key)
  BY DEF KindOf, KeysOf, Bindings
<1>2. ASSUME NEW v, Matches(v, d)
      PROVE  Matches(v, e)
  BY <1>1, <1>2 DEF Matches, Match
<1> QED BY <1>1, <1>2

-----------------------------------------------------------------------------
(* What the builder's tree and the validator's scopes have in common.      *)

TableKinds == {"explicit", "implicit", "dotted", "entry"}

(* Every declared table has its container. *)
TablesExist(v, d) ==
  \A p \in Seq(Key) : p = <<>> \/ KindAt(v, p) \in TableKinds => At(v, p) \in DOMAIN d.tree

(* No container belongs to an entry that is yet to come. *)
OwnersOld(v, d, old) ==
  /\ \A q \in Seq(Key) : Own(v, q) \in old
  /\ \A c \in DOMAIN d.tree : c[1] \in old

Agree(v, d, old) ==
  /\ IsValidator(v) /\ Nested(v)
  /\ IsRecord(d) /\ IsTree(d.tree) /\ \A a \in DOMAIN d.aot : d.aot[a] \in Seq(Nat)
  /\ Matches(v, d)
  /\ TablesExist(v, d)
  /\ OwnersOld(v, d, old)

(* What is bound stays bound to the same. *)
Kept(d, e) == \A c, key : KindOf(d, c, key) # "none" => KindOf(e, c, key) = KindOf(d, c, key)

(* Only tables of C gain a binding. *)
Elsewhere(d, e, C) == \A c, key : c \notin C => KindOf(e, c, key) = KindOf(d, c, key)

(* The slot is filed along its path, from its host down, and nothing else  *)
(* comes into being.                                                       *)
Highest(s) == IF IsKV(s) THEN Len(s.host) ELSE 0
Lowest(s) == IF IsKV(s) THEN Len(FullPath(s)) - 1 ELSE Len(FullPath(s))
FiledAlong(w, d, e, s) ==
  /\ e.filed[s] = {At(w, Prefix(FullPath(s), j)) : j \in Highest(s)..Lowest(s)}
  /\ DOMAIN e.tree = DOMAIN d.tree \cup e.filed[s]
  /\ Kept(d, e) /\ Elsewhere(d, e, e.filed[s])

(* s is filed, on containers that exist, and nothing else is refiled. *)
Files(d, e, s) ==
  /\ DOMAIN e.filed = DOMAIN d.filed \cup {s}
  /\ \A z \in DOMAIN d.filed : z # s => e.filed[z] = d.filed[z]
  /\ e.filed[s] \subseteq DOMAIN e.tree
  /\ DOMAIN d.tree \subseteq DOMAIN e.tree

(* e is d with the tables at the prefixes of t from the m-th on, k of them. *)
Descended(v, d, e, t, m, k) ==
  /\ IsRecord(e) /\ IsTree(e.tree)
  /\ e.filed = d.filed /\ e.aot = d.aot
  /\ DOMAIN e.tree = DOMAIN d.tree \cup {At(v, Prefix(t, j)) : j \in m..(m + k - 1)}
  /\ \A q \in Seq(Key), n \in Key :
       KindOf(e, At(v, q), n) =
         IF /\ \E j \in (m + 1)..(m + k - 1) : Append(q, n) = Prefix(t, j)
            /\ KindAt(v, Append(q, n)) = "none"
           THEN "section" ELSE KindOf(d, At(v, q), n)
  /\ Kept(d, e) /\ Elsewhere(d, e, {At(v, Prefix(t, j)) : j \in m..(m + k - 1)})

(* Creating the missing tables of a chain declares nothing else. *)
LEMMA DescendKinds ==
  ASSUME NEW v, IsValidator(v), NEW d, IsRecord(d), IsTree(d.tree), Matches(v, d),
         NEW t \in Seq(Key), NEW m \in Nat, NEW k \in Nat \ {0}, m + k - 1 <= Len(t)
  PROVE  Descended(v, d, WithChain(d, PathChain(v, t, m, k)), t, m, k)
<1> DEFINE chain == PathChain(v, t, m, k)
           e == WithChain(d, chain)
<1>1. /\ IsChain(chain) /\ Len(chain) = k
      /\ \A i \in 1..k : chain[i] = At(v, Prefix(t, m + i - 1))
      /\ \A q \in Seq(Key), n \in Key :
           PassedOn(chain, At(v, q), n)
             <=> \E j \in (m + 1)..(m + k - 1) : Append(q, n) = Prefix(t, j)
  BY PathChainSteps
<1> HIDE DEF chain
<1>2. {chain[i] : i \in 1..Len(chain)} = {At(v, Prefix(t, j)) : j \in m..(m + k - 1)}
  <2>1. \A i \in 1..k : m + i - 1 \in m..(m + k - 1)
    OBVIOUS
  <2>2. \A j \in m..(m + k - 1) : j - m + 1 \in 1..k /\ m + (j - m + 1) - 1 = j
    OBVIOUS
  <2> QED BY <1>1, <2>1, <2>2
<1>4. /\ IsRecord(e) /\ IsTree(e.tree)
      /\ e.stream = d.stream /\ e.filed = d.filed /\ e.aot = d.aot
      /\ DOMAIN e.tree = DOMAIN d.tree \cup {chain[i] : i \in 1..Len(chain)}
      /\ \A c, key : KindOf(e, c, key) =
           IF PassedOn(chain, c, key) /\ KindOf(d, c, key) = "none" THEN "section"
           ELSE KindOf(d, c, key)
  BY <1>1, WithChainKinds
<1> HIDE DEF e
<1>5. ASSUME NEW q \in Seq(Key), NEW n \in Key
      PROVE  KindOf(e, At(v, q), n) =
               IF /\ \E j \in (m + 1)..(m + k - 1) : Append(q, n) = Prefix(t, j)
                  /\ KindAt(v, Append(q, n)) = "none"
                 THEN "section" ELSE KindOf(d, At(v, q), n)
  <2>1. KindOf(d, At(v, q), n) = "none" <=> KindAt(v, Append(q, n)) = "none"
    <3>1. KindOf(d, At(v, q), n) = TreeKind(KindAt(v, Append(q, n)))
      BY DEF Matches, Match
    <3> QED BY <3>1 DEF TreeKind
  <2> QED BY <1>1, <1>4, <2>1
<1>6. Kept(d, e)
  BY <1>4 DEF Kept
<1>7. Elsewhere(d, e, {chain[i] : i \in 1..Len(chain)})
  BY <1>4 DEF Elsewhere, PassedOn
<1> QED BY <1>2, <1>4, <1>5, <1>6, <1>7 DEF chain, e, Descended

LEMMA PathChainRange ==
  ASSUME NEW v, NEW t, NEW m \in Nat, NEW k \in Nat
  PROVE  Range(PathChain(v, t, m, k)) = {At(v, Prefix(t, j)) : j \in m..(m + k - 1)}
<1>1. Range(PathChain(v, t, m, k)) = {At(v, Prefix(t, m + i - 1)) : i \in 1..k}
  BY DEF PathChain, Range
<1>2. \A i \in 1..k : m + i - 1 \in m..(m + k - 1)
  OBVIOUS
<1>3. \A j \in m..(m + k - 1) : j - m + 1 \in 1..k /\ m + (j - m + 1) - 1 = j
  OBVIOUS
<1> QED BY <1>1, <1>2, <1>3

(* The paths of the tables a header makes sure of. *)
LEMMA HeaderPassed ==
  ASSUME NEW path \in Path, NEW c \in Path
  PROVE  /\ (\E j \in (0 + 1)..(0 + Len(path) - 1) : c = Prefix(path, j))
              <=> IsStrictPrefix(c, path)
         /\ (\E j \in (0 + 1)..(0 + (Len(path) + 1) - 1) : c = Prefix(path, j))
              <=> c = path \/ IsStrictPrefix(c, path)
<1>1. path \in Seq(Key) /\ c \in Seq(Key) /\ c # <<>> /\ Len(path) \in Nat \ {0}
  BY DEF Path
<1>2. IsStrictPrefix(c, path) <=> \E j \in 1..(Len(path) - 1) : c = Prefix(path, j)
  BY <1>1, PathsAbove
<1>3. Prefix(path, Len(path)) = path
  <2>1. Len(path) \in 1..Len(path)
    BY <1>1
  <2> QED BY <1>1, <2>1, PrefixesOf
<1>4. \A j : /\ j \in (0 + 1)..(0 + Len(path) - 1) <=> j \in 1..(Len(path) - 1)
             /\ j \in (0 + 1)..(0 + (Len(path) + 1) - 1)
                  <=> j \in 1..(Len(path) - 1) \/ j = Len(path)
  BY <1>1
<1> QED BY <1>2, <1>3, <1>4

(* A header's parent and the key it ends with. *)
LEMMA HeaderTarget ==
  ASSUME NEW v, IsValidator(v), NEW path \in Path
  PROVE  LET chain == PathChain(v, path, 0, Len(path))
             q == Prefix(path, Len(path) - 1)
         IN  /\ q \in Seq(Key) /\ Last(path) \in Key /\ path = Append(q, Last(path))
             /\ Last(chain) = At(v, q)
             /\ Child(Last(chain), Last(path)) = <<Own(v, q), path>>
             /\ KindAt(v, path) # "entry" => Child(Last(chain), Last(path)) = At(v, path)
<1> DEFINE chain == PathChain(v, path, 0, Len(path))
           q == Prefix(path, Len(path) - 1)
           n == Len(path)
<1>1. path \in Seq(Key) /\ path # <<>> /\ n \in Nat \ {0} /\ 0 + n - 1 <= Len(path)
  BY DEF Path
<1>2. q \in Seq(Key) /\ Last(path) \in Key /\ path = Append(q, Last(path))
  BY <1>1, LastStep
<1>3. Len(chain) = n /\ \A i \in 1..n : chain[i] = At(v, Prefix(path, 0 + i - 1))
  BY <1>1, PathChainSteps
<1>4. Last(chain) = At(v, q)
  <2>1. n \in 1..n /\ 0 + n - 1 = n - 1
    BY <1>1
  <2>2. chain[n] = At(v, Prefix(path, 0 + n - 1))
    BY <1>3, <2>1
  <2> HIDE DEF chain
  <2> QED BY <1>3, <2>1, <2>2 DEF Last
<1> HIDE DEF chain, q
<1>5. /\ KindAt(v, path) # "entry" => Child(At(v, q), Last(path)) = At(v, path)
      /\ Child(At(v, q), Last(path)) = <<Own(v, q), path>>
  BY <1>2, ChildAt
<1> QED BY <1>2, <1>4, <1>5 DEF chain, q

-----------------------------------------------------------------------------
(* One line is built.                                                      *)

(* What the validator declares when a header opens the table at path. *)
TableOpened(v, w, path) ==
  /\ IsValidator(w) /\ Nested(w)
  /\ \A p \in Path :
       KindAt(w, p) = IF p = path THEN "explicit"
                      ELSE IF IsStrictPrefix(p, path) /\ KindAt(v, p) = "none" THEN "implicit"
                      ELSE KindAt(v, p)
  /\ \A q \in Seq(Key) : Own(w, q) = Own(v, q) /\ At(w, q) = At(v, q)
  /\ \A p \in Path : KindAt(w, p) = "entry" /\ p # path =>
                       w.scopes[p].entry = v.scopes[p].entry

LEMMA TableDeclares ==
  ASSUME NEW v, IsValidator(v), Nested(v), NEW path \in Path, NEW e \in Nat, e = NoEntry,
         HeaderAllowed(v, path, e # NoEntry)
  PROVE  TableOpened(v, EnterHeader(v, path, e), path)
<1> DEFINE w == EnterHeader(v, path, e)
<1>1. IsValidator(w) /\ Nested(w)
  BY HeaderDeclares, HeaderNests
<1>2. \A p \in Path :
        KindAt(w, p) = IF p = path THEN IF e = NoEntry THEN "explicit" ELSE "entry"
                       ELSE IF IsStrictPrefix(p, path) /\ KindAt(v, p) = "none" THEN "implicit"
                       ELSE IF IsStrictPrefix(path, p) /\ e # NoEntry THEN "none"
                       ELSE KindAt(v, p)
  BY HeaderDeclares
<1>3. \A q \in Seq(Key) : Own(w, q) = Own(v, q) /\ At(w, q) = At(v, q)
  BY HeaderOwns DEF At
<1>4. \A p \in Path : KindAt(w, p) = "entry" /\ p # path =>
                        w.scopes[p].entry = v.scopes[p].entry
  BY EntriesDeclared
<1> HIDE DEF w
<1> QED BY <1>1, <1>2, <1>3, <1>4 DEF TableOpened, w

LEMMA TableStep ==
  ASSUME NEW v, NEW d, NEW old, Agree(v, d, old),
         NEW s \in HeaderSlots, s.entry = NoEntry, HeaderAllowed(v, s.path, s.entry # NoEntry)
  PROVE  LET w == EnterHeader(v, s.path, s.entry)
             e == OpenTable(Linked(d, s), Root, s)
         IN  /\ Agree(w, e, old) /\ Files(d, e, s)
             /\ FiledAlong(w, d, e, s) /\ e.aot = d.aot
<1> DEFINE path == s.path
           n == Len(path)
           w == EnterHeader(v, path, s.entry)
           l == Linked(d, s)
           chain == PathChain(v, path, 0, n)
           whole == PathChain(v, path, 0, n + 1)
           own == At(v, path)
           f == WithChain(l, whole)
           C == Range(chain) \cup {own}
           e == FileOn(f, s, C)
<1>1. /\ path \in Path /\ path \in Seq(Key) /\ n \in Nat \ {0} /\ s.entry \in Nat
      /\ 0 \in Nat /\ 0 + n <= Len(path) /\ 0 + (n + 1) - 1 <= Len(path)
      /\ n + 1 \in Nat \ {0}
  BY DEF HeaderSlots, Path
<1> IsValidator(v)
  BY DEF Agree
<1>2. /\ Nested(v) /\ IsRecord(d) /\ IsTree(d.tree) /\ Matches(v, d)
      /\ TablesExist(v, d) /\ OwnersOld(v, d, old)
      /\ \A a \in DOMAIN d.aot : d.aot[a] \in Seq(Nat)
  BY DEF Agree
<1>3. /\ IsRecord(l) /\ IsTree(l.tree) /\ Matches(v, l)
      /\ l.tree = d.tree /\ l.aot = d.aot /\ l.filed = PutAt(d.filed, s, {})
      /\ \A c, key : KindOf(l, c, key) = KindOf(d, c, key)
  BY <1>2, LinkedIs, SameTree
<1>4. KindAt(v, path) \in {"none", "implicit"}
  <2>1. KindAt(v, path) \notin {"value", "dotted", "explicit", "entry"}
    BY DEF HeaderAllowed
  <2> QED BY <1>2, <2>1, Undeclared DEF Kinds
<1>5. OpenTable(l, Root, s) = e
  <2>1. HeaderChain(l, Root, path) = chain
    BY <1>1, <1>2, <1>3, HeaderChainIs
  <2>2. Child(Last(chain), Last(path)) = own
    BY <1>1, <1>2, <1>4, HeaderTarget
  <2>3. Append(chain, own) = whole
    <3>1. 0 + n = n /\ Prefix(path, n) = path
      <4>1. n \in 1..Len(path)
        BY <1>1
      <4> QED BY <1>1, <4>1, PrefixesOf
    <3>2. Append(chain, At(v, Prefix(path, 0 + n))) = whole
      BY <1>1, <1>2, PathChainAppend
    <3> QED BY <3>1, <3>2
  <2> HIDE DEF l, chain, own, whole
  <2> QED BY <2>1, <2>2, <2>3 DEF OpenTable
<1>6. /\ IsRecord(f) /\ IsTree(f.tree) /\ f.filed = PutAt(d.filed, s, {}) /\ f.aot = d.aot
      /\ DOMAIN f.tree = DOMAIN d.tree \cup {At(v, Prefix(path, j)) : j \in 0..n}
      /\ \A q \in Seq(Key), key \in Key :
           KindOf(f, At(v, q), key) =
             IF /\ \E j \in (0 + 1)..(0 + (n + 1) - 1) : Append(q, key) = Prefix(path, j)
                /\ KindAt(v, Append(q, key)) = "none"
               THEN "section" ELSE KindOf(d, At(v, q), key)
      /\ Kept(d, f) /\ Elsewhere(d, f, {At(v, Prefix(path, j)) : j \in 0..n})
  <2> HIDE DEF l, path, n
  <2>1. Descended(v, l, f, path, 0, n + 1)
    BY <1>1, <1>3, DescendKinds
  <2>2. 0..(0 + (n + 1) - 1) = 0..n
    BY <1>1
  <2> HIDE DEF f
  <2>4. Elsewhere(l, f, {At(v, Prefix(path, j)) : j \in 0..n})
    BY <2>1, <2>2 DEF Descended
  <2>3. Kept(d, f) /\ Elsewhere(d, f, {At(v, Prefix(path, j)) : j \in 0..n})
    BY <1>3, <2>1, <2>4 DEF Descended, Kept, Elsewhere
  <2> QED BY <1>3, <2>1, <2>2, <2>3 DEF Descended
<1> HIDE DEF f, l
<1>7. /\ IsRecord(e) /\ e.tree = f.tree /\ e.aot = d.aot
      /\ DOMAIN e.filed = DOMAIN d.filed \cup {s} /\ e.filed[s] = C
      /\ \A z \in DOMAIN d.filed : z # s => e.filed[z] = d.filed[z]
      /\ \A c, key : KindOf(e, c, key) = KindOf(f, c, key)
  <2> HIDE DEF C
  <2>1. /\ IsRecord(e) /\ e.tree = f.tree /\ e.aot = f.aot
        /\ DOMAIN e.filed = DOMAIN d.filed \cup {s} /\ e.filed[s] = C
        /\ \A z \in DOMAIN d.filed : z # s => e.filed[z] = d.filed[z]
    BY <1>6, FileOnIs
  <2> HIDE DEF e
  <2> QED BY <1>6, <2>1, SameTree
<1>15. C = {At(v, Prefix(path, j)) : j \in 0..n}
  <2>1. Range(chain) = {At(v, Prefix(path, j)) : j \in 0..(0 + n - 1)}
    <3> HIDE DEF path, n
    <3> QED BY <1>1, PathChainRange
  <2>2. Prefix(path, n) = path
    <3>1. n \in 1..Len(path)
      BY <1>1
    <3> QED BY <1>1, <3>1, PrefixesOf
  <2>3. 0..n = (0..(0 + n - 1)) \cup {n}
    BY <1>1
  <2> HIDE DEF path, n
  <2> QED BY <2>1, <2>2, <2>3 DEF C, own
<1>16. /\ FullPath(s) = path /\ Highest(s) = 0 /\ Lowest(s) = n
  BY SlotsType DEF Highest, Lowest
<1>8. TableOpened(v, w, path)
  BY <1>1, <1>2, TableDeclares
<1>9. \A p \in Seq(Key) : p = <<>> \/ p = path \/ IsStrictPrefix(p, path) => At(v, p) \in DOMAIN e.tree
  <2> SUFFICES ASSUME NEW p \in Seq(Key), p = <<>> \/ p = path \/ IsStrictPrefix(p, path)
               PROVE  \E i \in 0..n : p = Prefix(path, i)
    BY <1>6, <1>7
  <2>1. CASE p = <<>>
    <3>1. 0 \in 0..Len(path) /\ 0 \in 0..n
      BY <1>1
    <3>2. Prefix(path, 0) \in Seq(Key) /\ Len(Prefix(path, 0)) = 0
      BY <1>1, <3>1, PrefixType
    <3>3. Prefix(path, 0) = <<>>
      BY <3>2
    <3> QED BY <2>1, <3>1, <3>3
  <2>2. CASE p # <<>>
    <3>1. p \in Path
      BY <2>2 DEF Path
    <3>2. PICK j \in (0 + 1)..(0 + (n + 1) - 1) : p = Prefix(path, j)
      BY <1>1, <2>2, <3>1, HeaderPassed
    <3>3. j \in 0..n
      BY <1>1
    <3> QED BY <3>2, <3>3
  <2> QED BY <2>1, <2>2
<1> HIDE DEF e, w, path
<1> USE <1>8 DEF TableOpened
<1>10. Matches(w, e)
  <2> SUFFICES ASSUME NEW q \in Seq(Key), NEW key \in Key
               PROVE  Match(w, e, q, key)
    BY DEF Matches
  <2> DEFINE c == Append(q, key)
  <2>1. c \in Path
    BY DEF Path
  <2>2. Match(v, d, q, key)
    BY <1>2 DEF Matches
  <2>3. KindOf(e, At(w, q), key) =
          IF (c = path \/ IsStrictPrefix(c, path)) /\ KindAt(v, c) = "none"
            THEN "section" ELSE KindOf(d, At(v, q), key)
    <3>1. KindOf(e, At(w, q), key) = KindOf(f, At(v, q), key)
      BY <1>7, <1>8
    <3>2. (\E j \in (0 + 1)..(0 + (n + 1) - 1) : c = Prefix(path, j))
            <=> c = path \/ IsStrictPrefix(c, path)
      BY <1>1, <2>1, HeaderPassed
    <3> QED BY <1>6, <3>1, <3>2
  <2>4. Child(At(w, q), key) = Child(At(v, q), key)
    BY <1>8
  <2> HIDE DEF c
  <2>5. KindOf(d, At(v, q), key) = TreeKind(KindAt(v, c))
    BY <2>2 DEF Match, c
  <2>6. KindOf(e, At(w, q), key) = TreeKind(KindAt(w, c))
    BY <1>4, <1>8, <2>1, <2>3, <2>5 DEF TreeKind
  <2>7. KindAt(w, c) = "entry" =>
          /\ KindAt(v, c) = "entry" /\ w.scopes[c].entry = v.scopes[c].entry
    BY <1>8, <2>1
  <2> QED BY <1>7, <2>2, <2>4, <2>6, <2>7 DEF Match, c
<1>11. TablesExist(w, e)
  <2> SUFFICES ASSUME NEW p \in Seq(Key), p = <<>> \/ KindAt(w, p) \in TableKinds
               PROVE  At(v, p) \in DOMAIN e.tree
    BY <1>8 DEF TablesExist
  <2>1. CASE p = <<>> \/ p = path \/ IsStrictPrefix(p, path)
    BY <1>9, <2>1
  <2>2. CASE ~(p = <<>> \/ p = path \/ IsStrictPrefix(p, path))
    <3>1. p \in Path
      BY <2>2 DEF Path
    <3>2. KindAt(v, p) \in TableKinds
      BY <1>8, <2>2, <3>1
    <3>3. At(v, p) \in DOMAIN d.tree
      BY <1>2, <3>2 DEF TablesExist
    <3> QED BY <1>6, <1>7, <3>3
  <2> QED BY <2>1, <2>2
<1>12. OwnersOld(w, e, old)
  <2>1. \A q \in Seq(Key) : Own(w, q) \in old /\ Own(v, q) \in old
    BY <1>2, <1>8 DEF OwnersOld
  <2>2. ASSUME NEW c \in DOMAIN e.tree
        PROVE  c[1] \in old
    <3>1. CASE c \in DOMAIN d.tree
      BY <1>2, <3>1 DEF OwnersOld
    <3>2. CASE c \notin DOMAIN d.tree
      <4>1. PICK i \in 0..n : c = At(v, Prefix(path, i))
        BY <1>6, <1>7, <3>2
      <4>2. i \in 0..Len(path)
        BY <1>1 DEF n
      <4>3. Prefix(path, i) \in Seq(Key)
        BY <1>1, <4>2, PrefixType
      <4> QED BY <2>1, <4>1, <4>3 DEF At
    <3> QED BY <3>1, <3>2
  <2> QED BY <2>1, <2>2 DEF OwnersOld
<1>13. Files(d, e, s) /\ FiledAlong(w, d, e, s)
  <2>1. C \subseteq DOMAIN e.tree /\ DOMAIN e.tree = DOMAIN d.tree \cup C
    BY <1>6, <1>7, <1>15
  <2>2. Kept(d, e) /\ Elsewhere(d, e, C)
    <3> HIDE DEF C
    <3> QED BY <1>6, <1>7, <1>15 DEF Kept, Elsewhere
  <2>3. \A j \in 0..n : Prefix(path, j) \in Seq(Key)
    <3>1. \A j \in 0..n : j \in 0..Len(path)
      BY <1>1 DEF n
    <3> QED BY <1>1, <3>1, PrefixType
  <2>4. e.filed[s] = {At(w, Prefix(path, j)) : j \in 0..n}
    BY <1>7, <1>8, <1>15, <2>3
  <2> HIDE DEF C, n
  <2> QED BY <1>7, <1>16, <2>1, <2>2, <2>4 DEF Files, FiledAlong
<1>14. Agree(w, e, old)
  BY <1>2, <1>6, <1>7, <1>8, <1>10, <1>11, <1>12 DEF Agree
<1> QED BY <1>5, <1>7, <1>13, <1>14 DEF l, w, e, path

(* What the validator declares when a header opens an entry of the array at *)
(* path.                                                                   *)
EntryOpened(v, w, path, e) ==
  /\ IsValidator(w) /\ Nested(w)
  /\ \A p \in Path :
       KindAt(w, p) = IF p = path THEN "entry"
                      ELSE IF IsStrictPrefix(p, path) /\ KindAt(v, p) = "none" THEN "implicit"
                      ELSE IF IsStrictPrefix(path, p) THEN "none"
                      ELSE KindAt(v, p)
  /\ \A q \in Seq(Key) : ~(q = path \/ IsStrictPrefix(path, q)) =>
                           Own(w, q) = Own(v, q) /\ At(w, q) = At(v, q)
  /\ \A q \in Seq(Key) : q = path \/ IsStrictPrefix(path, q) =>
                           Own(w, q) = e /\ At(w, q) = <<e, q>>
  /\ \A p \in Path : KindAt(w, p) = "entry" =>
                       w.scopes[p].entry = IF p = path THEN e ELSE v.scopes[p].entry

LEMMA EntryDeclares ==
  ASSUME NEW v, IsValidator(v), Nested(v), NEW path \in Path, NEW e \in Nat, e # NoEntry,
         HeaderAllowed(v, path, e # NoEntry)
  PROVE  EntryOpened(v, EnterHeader(v, path, e), path, e)
<1> DEFINE w == EnterHeader(v, path, e)
<1>1. IsValidator(w) /\ Nested(w)
  BY HeaderDeclares, HeaderNests
<1>2. \A p \in Path :
        KindAt(w, p) = IF p = path THEN IF e = NoEntry THEN "explicit" ELSE "entry"
                       ELSE IF IsStrictPrefix(p, path) /\ KindAt(v, p) = "none" THEN "implicit"
                       ELSE IF IsStrictPrefix(path, p) /\ e # NoEntry THEN "none"
                       ELSE KindAt(v, p)
  BY HeaderDeclares
<1>3. /\ \A q \in Seq(Key) :
           e = NoEntry \/ ~(q = path \/ IsStrictPrefix(path, q)) => Own(w, q) = Own(v, q)
      /\ e # NoEntry =>
           \A q \in Seq(Key) : q = path \/ IsStrictPrefix(path, q) => Own(w, q) = e
  BY HeaderOwns
<1>4. \A p \in Path : KindAt(w, p) = "entry" =>
                        w.scopes[p].entry = IF p = path THEN e ELSE v.scopes[p].entry
  BY EntriesDeclared
<1> HIDE DEF w
<1> QED BY <1>1, <1>2, <1>3, <1>4 DEF EntryOpened, At, w

(* A fresh entry: one more in the array, and an empty table of its own. *)
WithEntry(d, a, A, own) ==
  [d EXCEPT !.aot = PutAt(d.aot, a, A), !.tree = PutAt(d.tree, own, <<>>)]

LEMMA FreshDict ==
  ASSUME NEW d, IsRecord(d), IsTree(d.tree), NEW a, NEW A, NEW own \in Containers
  PROVE  LET e == WithEntry(d, a, A, own)
         IN  /\ IsRecord(e) /\ IsTree(e.tree)
             /\ e.filed = d.filed /\ e.aot = PutAt(d.aot, a, A)
             /\ DOMAIN e.tree = DOMAIN d.tree \cup {own}
             /\ \A c, key : KindOf(e, c, key) = IF c = own THEN "none" ELSE KindOf(d, c, key)
<1> DEFINE X == PutAt(d.aot, a, A)
           Y == PutAt(d.tree, own, <<>>)
           e == [d EXCEPT !.aot = X, !.tree = Y]
           m == [d EXCEPT !.aot = X]
<1>1. DOMAIN Y = DOMAIN d.tree \cup {own} /\ \A z \in DOMAIN Y : Y[z] = IF z = own THEN <<>> ELSE d.tree[z]
  BY DEF PutAt
<1> HIDE DEF X, Y
<1>2. m = [stream |-> d.stream, filed |-> d.filed, tree |-> d.tree, aot |-> X]
  BY DEF IsRecord
<1>3. e = [m EXCEPT !.tree = Y]
  OBVIOUS
<1> HIDE DEF m
<1>4. e = [stream |-> d.stream, filed |-> d.filed, tree |-> Y, aot |-> X]
  <2> HIDE DEF e
  <2> QED BY <1>2, <1>3
<1> HIDE DEF e
<1>5. IsRecord(e) /\ e.filed = d.filed /\ e.aot = X /\ e.tree = Y
  BY <1>4 DEF IsRecord
<1>6. IsTree(e.tree)
  BY <1>1, <1>5, EmptyDict DEF IsTree
<1>7. \A c : Bindings(e, c) = IF c = own THEN <<>> ELSE Bindings(d, c)
  BY <1>1, <1>5 DEF Bindings
<1>8. \A c, key : KindOf(e, c, key) = IF c = own THEN "none" ELSE KindOf(d, c, key)
  BY <1>7, EmptyDict, KindIsKindIn
<1> QED BY <1>1, <1>5, <1>6, <1>8 DEF e, X, Y, WithEntry

(* A container that does not exist yet binds nothing. *)
LEMMA NoDict ==
  ASSUME NEW d, NEW c, c \notin DOMAIN d.tree
  PROVE  \A key : KindOf(d, c, key) = "none"
BY EmptyDict, KindIsKindIn DEF Bindings

LEMMA EntryStep ==
  ASSUME NEW v, NEW d, NEW old, Agree(v, d, old),
         NEW s \in HeaderSlots, s.entry # NoEntry, s.entry \notin old,
         HeaderAllowed(v, s.path, s.entry # NoEntry)
  PROVE  LET w == EnterHeader(v, s.path, s.entry)
             e == OpenAoTEntry(Linked(d, s), Root, s)
                      a == <<Own(v, Prefix(s.path, Len(s.path) - 1)), s.path>>
         IN  /\ Agree(w, e, old \cup {s.entry}) /\ Files(d, e, s)
             /\ FiledAlong(w, d, e, s)
             /\ e.aot = PutAt(d.aot, a, Append(EntriesOf(d, a), s.entry))
<1> DEFINE path == s.path
           n == Len(path)
           name == Last(path)
           q0 == Prefix(path, n - 1)
           w == EnterHeader(v, path, s.entry)
           l == Linked(d, s)
           chain == PathChain(v, path, 0, n)
           a == <<Own(v, q0), path>>
           own == <<s.entry, path>>
           f == WithChain(l, chain)
           g == Bind(f, At(v, q0), name, "aot")
           A == Append(EntriesOf(l, a), s.entry)
           h == WithEntry(g, a, A, own)
           C == Range(chain) \cup {own}
           e == FileOn(h, s, C)
<1>1. /\ path \in Path /\ path \in Seq(Key) /\ n \in Nat \ {0} /\ s.entry \in Nat
      /\ 0 \in Nat /\ 0 + n - 1 <= Len(path) /\ s.entry # NoEntry
  BY DEF HeaderSlots, Path, NoEntry
<1> IsValidator(v)
  BY DEF Agree
<1>2. /\ Nested(v) /\ IsRecord(d) /\ IsTree(d.tree) /\ Matches(v, d)
      /\ TablesExist(v, d) /\ OwnersOld(v, d, old)
      /\ \A z \in DOMAIN d.aot : d.aot[z] \in Seq(Nat)
  BY DEF Agree
<1>3. /\ IsRecord(l) /\ IsTree(l.tree) /\ Matches(v, l)
      /\ l.tree = d.tree /\ l.aot = d.aot /\ l.filed = PutAt(d.filed, s, {})
      /\ \A c, key : KindOf(l, c, key) = KindOf(d, c, key)
  BY <1>2, LinkedIs, SameTree
<1>4. KindAt(v, path) \in {"none", "entry"}
  <2>1. KindAt(v, path) \notin {"value", "dotted", "explicit", "implicit"}
    BY <1>1 DEF HeaderAllowed
  <2> QED BY <1>2, <2>1, Undeclared DEF Kinds
<1>5. /\ q0 \in Seq(Key) /\ name \in Key /\ path = Append(q0, name)
      /\ Last(chain) = At(v, q0) /\ Child(Last(chain), name) = a
  BY <1>1, HeaderTarget
<1>6. OpenAoTEntry(l, Root, s) = e
  <2>1. HeaderChain(l, Root, path) = chain
    BY <1>1, <1>3, HeaderChainIs
  <2> HIDE DEF l, chain, a, q0
  <2> QED BY <1>5, <2>1 DEF OpenAoTEntry, WithEntry
<1>7. At(v, q0) \in Containers /\ own \in Containers /\ Own(v, q0) \in old
  BY <1>1, <1>2, <1>5, OwnType DEF Containers, OwnersOld
<1>8. /\ A \in Seq(Nat) /\ Len(A) > 0 /\ Last(A) = s.entry
  <2>1. EntriesOf(l, a) \in Seq(Nat)
    BY <1>2, <1>3 DEF EntriesOf
  <2> HIDE DEF a, l
  <2> QED BY <1>1, <2>1 DEF Last
<1>9. /\ IsRecord(f) /\ IsTree(f.tree) /\ f.filed = PutAt(d.filed, s, {}) /\ f.aot = d.aot
      /\ DOMAIN f.tree = DOMAIN d.tree \cup {At(v, Prefix(path, j)) : j \in 0..(n - 1)}
      /\ \A q \in Seq(Key), key \in Key :
           KindOf(f, At(v, q), key) =
             IF /\ \E j \in (0 + 1)..(0 + n - 1) : Append(q, key) = Prefix(path, j)
                /\ KindAt(v, Append(q, key)) = "none"
               THEN "section" ELSE KindOf(d, At(v, q), key)
      /\ Kept(d, f) /\ Elsewhere(d, f, {At(v, Prefix(path, j)) : j \in 0..(n - 1)})
  <2> HIDE DEF l, path, n
  <2>1. Descended(v, l, f, path, 0, n)
    BY <1>1, <1>3, DescendKinds
  <2>2. 0..(0 + n - 1) = 0..(n - 1)
    BY <1>1
  <2> HIDE DEF f
  <2>4. Elsewhere(l, f, {At(v, Prefix(path, j)) : j \in 0..(n - 1)})
    BY <2>1, <2>2 DEF Descended
  <2>3. Kept(d, f) /\ Elsewhere(d, f, {At(v, Prefix(path, j)) : j \in 0..(n - 1)})
    BY <1>3, <2>1, <2>4 DEF Descended, Kept, Elsewhere
  <2> QED BY <1>3, <2>1, <2>2, <2>3 DEF Descended
<1>23. A = Append(EntriesOf(d, a), s.entry)
  BY <1>3 DEF EntriesOf
<1> HIDE DEF f, l, A
<1>10. /\ IsRecord(g) /\ IsTree(g.tree) /\ g.filed = PutAt(d.filed, s, {}) /\ g.aot = d.aot
       /\ DOMAIN g.tree = DOMAIN f.tree \cup {At(v, q0)}
       /\ \A c, key : KindOf(g, c, key) =
            IF c = At(v, q0) /\ key = name THEN "aot" ELSE KindOf(f, c, key)
  <2> HIDE DEF q0, name
  <2>1. /\ IsRecord(g) /\ IsTree(g.tree) /\ g.filed = f.filed /\ g.aot = f.aot
        /\ DOMAIN g.tree = DOMAIN f.tree \cup {At(v, q0)}
        /\ \A c, key : KindOf(g, c, key) =
             IF c = At(v, q0) /\ key = name THEN "aot" ELSE KindOf(f, c, key)
    <3>1. IsRecord(f) /\ IsTree(f.tree) /\ At(v, q0) \in Containers /\ name \in Key
      BY <1>5, <1>7, <1>9
    <3> QED BY <3>1, BindKinds
  <2> HIDE DEF g
  <2> QED BY <1>9, <2>1
<1> HIDE DEF g, a
<1>11. /\ IsRecord(h) /\ IsTree(h.tree) /\ h.filed = PutAt(d.filed, s, {})
       /\ h.aot = PutAt(d.aot, a, A)
       /\ DOMAIN h.tree = DOMAIN g.tree \cup {own}
       /\ \A c, key : KindOf(h, c, key) = IF c = own THEN "none" ELSE KindOf(g, c, key)
  <2> HIDE DEF own
  <2>1. /\ IsRecord(h) /\ IsTree(h.tree) /\ h.filed = g.filed
        /\ h.aot = PutAt(g.aot, a, A)
        /\ DOMAIN h.tree = DOMAIN g.tree \cup {own}
        /\ \A c, key : KindOf(h, c, key) = IF c = own THEN "none" ELSE KindOf(g, c, key)
    BY <1>7, <1>10, FreshDict
  <2> HIDE DEF h
  <2> QED BY <1>10, <2>1
<1> HIDE DEF h
<1>12. /\ IsRecord(e) /\ e.tree = h.tree /\ e.aot = h.aot
       /\ DOMAIN e.filed = DOMAIN d.filed \cup {s} /\ e.filed[s] = C
       /\ \A z \in DOMAIN d.filed : z # s => e.filed[z] = d.filed[z]
       /\ \A c, key : KindOf(e, c, key) = KindOf(h, c, key)
  <2> HIDE DEF C
  <2>1. /\ IsRecord(e) /\ e.tree = h.tree /\ e.aot = h.aot
        /\ DOMAIN e.filed = DOMAIN d.filed \cup {s} /\ e.filed[s] = C
        /\ \A z \in DOMAIN d.filed : z # s => e.filed[z] = d.filed[z]
    BY <1>11, FileOnIs
  <2> HIDE DEF e
  <2> QED BY <2>1, SameTree
<1>24. KindOf(d, At(v, q0), name) \in {"none", "aot"} /\ own \notin DOMAIN d.tree
  <2>1. Match(v, d, q0, name)
    BY <1>2, <1>5 DEF Matches
  <2>2. KindOf(d, At(v, q0), name) = TreeKind(KindAt(v, path))
    BY <1>5, <2>1 DEF Match
  <2>3. own \notin DOMAIN d.tree
    BY <1>2 DEF OwnersOld
  <2> QED BY <1>4, <2>2, <2>3 DEF TreeKind
<1>25. Kept(d, e)
  <2> SUFFICES ASSUME NEW c, NEW key, KindOf(d, c, key) # "none"
               PROVE  KindOf(e, c, key) = KindOf(d, c, key)
    BY DEF Kept
  <2>1. c # own
    BY <1>24, NoDict
  <2>2. KindOf(e, c, key) = KindOf(g, c, key)
    <3> HIDE DEF own, e
    <3> QED BY <1>11, <1>12, <2>1
  <2>3. KindOf(f, c, key) = KindOf(d, c, key)
    BY <1>9 DEF Kept
  <2>4. CASE c = At(v, q0) /\ key = name
    BY <1>10, <1>24, <2>2, <2>4
  <2>5. CASE ~(c = At(v, q0) /\ key = name)
    BY <1>10, <2>2, <2>3, <2>5
  <2> QED BY <2>4, <2>5
<1>26. FullPath(s) = path /\ Highest(s) = 0 /\ Lowest(s) = n
  BY SlotsType DEF Highest, Lowest
<1>13. EntryOpened(v, w, path, s.entry)
  BY <1>1, <1>2, EntryDeclares
<1> HIDE DEF e, w, path, q0, name
<1> USE <1>13 DEF EntryOpened
<1>14. \A j \in 0..(n - 1) : /\ Prefix(path, j) \in Seq(Key)
                             /\ Prefix(path, j) = <<>> \/ IsStrictPrefix(Prefix(path, j), path)
  <2> SUFFICES ASSUME NEW j \in 0..(n - 1)
               PROVE  /\ Prefix(path, j) \in Seq(Key)
                      /\ Prefix(path, j) = <<>> \/ IsStrictPrefix(Prefix(path, j), path)
    OBVIOUS
  <2>1. j \in 0..Len(path) /\ j < Len(path)
    BY <1>1 DEF n
  <2> QED BY <1>1, <2>1, PrefixType
<1>15. \A p \in Seq(Key) : p = <<>> \/ IsStrictPrefix(p, path) =>
         At(v, p) \in DOMAIN e.tree /\ ~(p = path \/ IsStrictPrefix(path, p))
  <2> SUFFICES ASSUME NEW p \in Seq(Key), p = <<>> \/ IsStrictPrefix(p, path)
               PROVE  /\ \E i \in 0..(n - 1) : p = Prefix(path, i)
                      /\ ~(p = path \/ IsStrictPrefix(path, p))
    BY <1>9, <1>10, <1>11, <1>12
  <2>1. CASE p = <<>>
    <3>1. 0 \in 0..Len(path) /\ 0 \in 0..(n - 1)
      BY <1>1
    <3>2. Prefix(path, 0) \in Seq(Key) /\ Len(Prefix(path, 0)) = 0
      BY <1>1, <3>1, PrefixType
    <3>3. Prefix(path, 0) = <<>>
      BY <3>2
    <3>4. ~(path = <<>> \/ IsStrictPrefix(path, <<>>))
      <4>1. IsStrictPrefix(path, p) => Len(path) < Len(p)
        BY <1>1, StrictPrefixMeaning
      <4> QED BY <1>1, <2>1, <4>1 DEF n
    <3> QED BY <2>1, <3>1, <3>3, <3>4
  <2>2. CASE p # <<>>
    <3>1. p \in Path
      BY <2>2 DEF Path
    <3>2. PICK j \in (0 + 1)..(0 + n - 1) : p = Prefix(path, j)
      BY <1>1, <2>2, <3>1, HeaderPassed
    <3>3. j \in 0..(n - 1)
      BY <1>1
    <3>4. p # path /\ ~IsStrictPrefix(path, p)
      BY <1>1, <2>2, StrictPrefixAsymmetric, StrictPrefixIrreflexive
    <3> QED BY <3>2, <3>3, <3>4
  <2> QED BY <2>1, <2>2
<1>16. \A c \in DOMAIN e.tree : c # own => c[1] \in old
  <2> SUFFICES ASSUME NEW c \in DOMAIN e.tree, c # own
               PROVE  c[1] \in old
    OBVIOUS
  <2>1. \A q \in Seq(Key) : Own(v, q) \in old
    BY <1>2 DEF OwnersOld
  <2>2. CASE c \in DOMAIN d.tree
    BY <1>2, <2>2 DEF OwnersOld
  <2>3. CASE c = At(v, q0)
    BY <1>7, <2>3 DEF At
  <2>4. CASE \E j \in 0..(n - 1) : c = At(v, Prefix(path, j))
    BY <1>14, <2>1, <2>4 DEF At
  <2> QED BY <1>9, <1>10, <1>11, <1>12, <2>2, <2>3, <2>4
<1>17. ASSUME NEW q \in Seq(Key), NEW key \in Key
       PROVE  Match(w, e, q, key)
  <2> DEFINE c == Append(q, key)
  <2>1. /\ c \in Path /\ c \in Seq(Key)
        /\ IsStrictPrefix(path, c) <=> path = q \/ IsStrictPrefix(path, q)
    BY <1>1, ChildPath DEF Path
  <2>2. Match(v, d, q, key)
    BY <1>2 DEF Matches
  <2>3. c = path <=> q = q0 /\ key = name
    BY <1>5, SameChild
  <2>4. KindOf(d, At(v, q), key) = TreeKind(KindAt(v, c))
    BY <2>2 DEF Match
  <2>5. c = path => c # <<>> /\ ~IsStrictPrefix(path, c)
    BY <1>1, StrictPrefixIrreflexive
  <2> HIDE DEF c
  <2>6. CASE q = path \/ IsStrictPrefix(path, q)
    <3>1. c # path /\ IsStrictPrefix(path, c) /\ ~IsStrictPrefix(c, path)
      BY <1>1, <2>1, <2>5, <2>6, StrictPrefixAsymmetric
    <3>2. KindAt(w, c) = "none"
      BY <2>1, <3>1
    <3>3. At(w, q) = <<s.entry, q>>
      BY <2>6
    <3>4. KindOf(e, At(w, q), key) = "none"
      <4>1. CASE q = path
        BY <1>11, <1>12, <3>3, <4>1
      <4>2. CASE q # path
        <5>1. At(w, q) # own /\ At(w, q)[1] = s.entry /\ s.entry \notin old
          BY <3>3, <4>2
        <5>2. At(w, q) \notin DOMAIN e.tree
          BY <1>16, <5>1
        <5> QED BY <5>2, NoDict
      <4> QED BY <4>1, <4>2
    <3> QED BY <3>2, <3>4 DEF Match, TreeKind, c
  <2>7. CASE ~(q = path \/ IsStrictPrefix(path, q))
    <3>1. At(w, q) = At(v, q) /\ Child(At(w, q), key) = Child(At(v, q), key)
          /\ Child(At(v, q), key) = <<Own(v, q), c>>
      BY <2>7, ChildAt DEF c
    <3>2. At(v, q) # own
      BY <2>7 DEF At
    <3>3. At(v, q) = At(v, q0) <=> q = q0
      BY DEF At
    <3>4. KindOf(e, At(w, q), key) =
            IF c = path THEN "aot"
            ELSE IF IsStrictPrefix(c, path) /\ KindAt(v, c) = "none" THEN "section"
            ELSE TreeKind(KindAt(v, c))
      <4>1. KindOf(e, At(w, q), key) =
              IF c = path THEN "aot" ELSE KindOf(f, At(v, q), key)
        BY <1>10, <1>11, <1>12, <2>3, <3>1, <3>2, <3>3
      <4>2. KindOf(f, At(v, q), key) =
              IF IsStrictPrefix(c, path) /\ KindAt(v, c) = "none" THEN "section"
              ELSE TreeKind(KindAt(v, c))
        BY <1>1, <1>9, <2>1, <2>4, HeaderPassed DEF c
      <4> QED BY <4>1, <4>2
    <3>5. KindAt(w, c) = IF c = path THEN "entry"
                         ELSE IF IsStrictPrefix(c, path) /\ KindAt(v, c) = "none" THEN "implicit"
                         ELSE KindAt(v, c)
      BY <2>1, <2>5, <2>7
    <3>6. KindOf(e, At(w, q), key) = TreeKind(KindAt(w, c))
      BY <3>4, <3>5 DEF TreeKind
    <3>7. ASSUME KindAt(w, c) = "entry"
          PROVE  LET b == Child(At(w, q), key)
                 IN  b \in DOMAIN e.aot /\ e.aot[b] # <<>> /\ Last(e.aot[b]) = w.scopes[c].entry
      <4>1. w.scopes[c].entry = IF c = path THEN s.entry ELSE v.scopes[c].entry
        BY <2>1, <3>7
      <4>2. e.aot = PutAt(d.aot, a, A)
        BY <1>11, <1>12
      <4>3. CASE c = path
        <5>1. Child(At(w, q), key) = a
          BY <2>3, <3>1, <4>3 DEF a
        <5> QED BY <1>8, <4>1, <4>2, <4>3, <5>1 DEF PutAt
      <4>4. CASE c # path
        <5>1. KindAt(v, c) = "entry"
          BY <3>5, <3>7, <4>4
        <5>2. Child(At(w, q), key) # a
          BY <3>1, <4>4 DEF a
        <5>3. LET b == Child(At(v, q), key)
              IN  b \in DOMAIN d.aot /\ d.aot[b] # <<>> /\ Last(d.aot[b]) = v.scopes[c].entry
          BY <2>2, <5>1 DEF Match, c
        <5> QED BY <3>1, <4>1, <4>2, <4>4, <5>2, <5>3 DEF PutAt
      <4> QED BY <4>3, <4>4
    <3> QED BY <3>6, <3>7 DEF Match, c
  <2> QED BY <2>6, <2>7
<1>18. TablesExist(w, e)
  <2> SUFFICES ASSUME NEW p \in Seq(Key), p = <<>> \/ KindAt(w, p) \in TableKinds
               PROVE  At(w, p) \in DOMAIN e.tree
    BY DEF TablesExist
  <2>1. CASE p = <<>> \/ IsStrictPrefix(p, path)
    BY <1>15, <2>1
  <2>2. CASE p = path
    BY <1>1, <1>11, <1>12, <2>2
  <2>3. CASE ~(p = <<>> \/ p = path \/ IsStrictPrefix(p, path))
    <3>1. p \in Path
      BY <2>3 DEF Path
    <3>2. ~IsStrictPrefix(path, p) /\ KindAt(v, p) \in TableKinds
      BY <2>3, <3>1 DEF TableKinds
    <3>3. At(v, p) \in DOMAIN d.tree
      BY <1>2, <3>2 DEF TablesExist
    <3> QED BY <1>9, <1>10, <1>11, <1>12, <2>3, <3>2, <3>3
  <2> QED BY <2>1, <2>2, <2>3
<1>19. OwnersOld(w, e, old \cup {s.entry})
  <2>1. \A q \in Seq(Key) : Own(v, q) \in old /\ Own(v, q) \in Nat
    BY <1>2, OwnType DEF OwnersOld
  <2>2. \A q \in Seq(Key) : Own(w, q) \in old \cup {s.entry}
    BY <2>1
  <2>3. \A c \in DOMAIN e.tree : c \in Containers
    BY <1>11, <1>12 DEF IsTree
  <2>4. \A c \in DOMAIN e.tree : c[1] \in old \cup {s.entry}
    <3>1. own[1] = s.entry
      OBVIOUS
    <3> HIDE DEF own
    <3> QED BY <1>16, <2>3, <3>1 DEF Containers
  <2> QED BY <2>2, <2>4 DEF OwnersOld
<1>20. Files(d, e, s) /\ FiledAlong(w, d, e, s)
  <2>1. Range(chain) = {At(v, Prefix(path, j)) : j \in 0..(n - 1)}
    <3>1. Range(chain) = {At(v, Prefix(path, j)) : j \in 0..(0 + n - 1)}
      <4> HIDE DEF n
      <4> QED BY <1>1, PathChainRange
    <3>2. 0..(0 + n - 1) = 0..(n - 1)
      BY <1>1
    <3> QED BY <3>1, <3>2
  <2>2. At(v, q0) \in Range(chain)
    <3>1. n - 1 \in 0..(n - 1)
      BY <1>1
    <3> QED BY <2>1, <3>1 DEF q0
  <2>3. C \subseteq DOMAIN e.tree /\ DOMAIN e.tree = DOMAIN d.tree \cup C
    BY <1>9, <1>10, <1>11, <1>12, <2>1, <2>2
  <2>4. \A j \in 0..(n - 1) : At(w, Prefix(path, j)) = At(v, Prefix(path, j))
    BY <1>14, <1>15
  <2>5. Prefix(path, n) = path /\ At(w, path) = own
    <3>1. n \in 1..Len(path)
      BY <1>1
    <3> QED BY <1>1, <3>1, PrefixesOf
  <2>6. 0..n = (0..(n - 1)) \cup {n}
    BY <1>1
  <2>7. C = {At(w, Prefix(path, j)) : j \in 0..n}
    <3>1. Range(chain) = {At(w, Prefix(path, j)) : j \in 0..(n - 1)}
      BY <2>1, <2>4
    <3> HIDE DEF chain, own, n
    <3> QED BY <2>5, <2>6, <3>1 DEF C
  <2>8. At(v, q0) \in C /\ own \in C /\ \A j \in 0..(n - 1) : At(v, Prefix(path, j)) \in C
    BY <2>1, <2>2
  <2> HIDE DEF C, own, n
  <2>9. Elsewhere(d, e, C)
    BY <1>9, <1>10, <1>11, <1>12, <2>8 DEF Elsewhere
  <2> QED BY <1>12, <1>25, <1>26, <2>3, <2>7, <2>9 DEF Files, FiledAlong
<1>21. \A z \in DOMAIN e.aot : e.aot[z] \in Seq(Nat)
  BY <1>2, <1>8, <1>11, <1>12 DEF PutAt
<1>22. Agree(w, e, old \cup {s.entry})
  BY <1>11, <1>12, <1>17, <1>18, <1>19, <1>21 DEF Agree, Matches
<1>27. e.aot = PutAt(d.aot, a, Append(EntriesOf(d, a), s.entry))
  BY <1>11, <1>12, <1>23
<1> QED BY <1>6, <1>20, <1>22, <1>27 DEF l, w, e, path, a, q0

(* What the validator declares for a `key = value` line below sec. *)
KeyDeclared(v, w, sec, leaf) ==
  /\ IsValidator(w) /\ Nested(w) /\ w.section = v.section
  /\ \A p \in Path :
       KindAt(w, p) = IF p = leaf THEN "value"
                      ELSE IF IsStrictPrefix(sec, p) /\ IsStrictPrefix(p, leaf) THEN "dotted"
                      ELSE KindAt(v, p)
  /\ \A q \in Seq(Key) : Own(w, q) = Own(v, q) /\ At(w, q) = At(v, q)
  /\ \A p \in Path : KindAt(w, p) = "entry" => w.scopes[p].entry = v.scopes[p].entry
  /\ leaf \in Path /\ KindAt(v, leaf) = "none"
  /\ \A p \in Path : IsStrictPrefix(sec, p) /\ IsStrictPrefix(p, leaf)
                       => KindAt(v, p) \in {"none", "dotted", "implicit"}

LEMMA KeyDeclaresLeaf ==
  ASSUME NEW v, IsValidator(v), Nested(v), NEW key \in Path, KeyAllowed(v, key)
  PROVE  KeyDeclared(v, RecordKeyvalue(v, key), v.section, v.section \o key)
<1> DEFINE w == RecordKeyvalue(v, key)
           leaf == v.section \o key
<1>1. IsValidator(w) /\ Nested(w) /\ w.section = v.section
  BY KeyDeclares, KeyNests
<1>2. \A p \in Path :
        KindAt(w, p) = IF p = leaf THEN "value"
                       ELSE IF IsStrictPrefix(v.section, p) /\ IsStrictPrefix(p, leaf)
                         THEN "dotted" ELSE KindAt(v, p)
  BY KeyDeclares
<1>3. \A q \in Seq(Key) : Own(w, q) = Own(v, q) /\ At(w, q) = At(v, q)
  BY KeyOwns DEF At
<1>4. \A p \in Path : KindAt(w, p) = "entry" => w.scopes[p].entry = v.scopes[p].entry
  BY EntriesDeclared
<1>5. /\ leaf \in Path /\ KindAt(v, leaf) = "none"
      /\ \A p \in Path : IsStrictPrefix(v.section, p) /\ IsStrictPrefix(p, leaf)
                           => KindAt(v, p) \in {"none", "dotted", "implicit"}
  BY KeyPasses
<1> HIDE DEF w, leaf
<1> QED BY <1>1, <1>2, <1>3, <1>4, <1>5 DEF KeyDeclared, w, leaf

(* The paths of the tables a dotted key makes sure of. *)
LEMMA KeyPassed ==
  ASSUME NEW h \in Seq(Key), NEW key \in Path, NEW c \in Path
  PROVE  (\E j \in (Len(h) + 1)..(Len(h) + Len(key) - 1) : c = Prefix(h \o key, j))
           <=> IsStrictPrefix(h, c) /\ IsStrictPrefix(c, h \o key)
<1> DEFINE m == Len(h)
           k == Len(key)
           t == h \o key
<1>1. c \in Seq(Key) /\ key \in Seq(Key) /\ m \in Nat /\ k \in Nat \ {0}
  BY DEF Path
<1>2. IsStrictPrefix(h, c) /\ IsStrictPrefix(c, t) <=> PathBetween(c, h, key)
  BY <1>1, PathsBetween
<1>3. ASSUME NEW i \in 1..(k - 1)
      PROVE  h \o Prefix(key, i) = Prefix(t, m + i)
  <2>1. i \in 0..Len(key)
    BY <1>1
  <2> QED BY <1>1, <2>1, DottedStep
<1> HIDE DEF t
<1>4. PathBetween(c, h, key) <=> \E i \in 1..(k - 1) : c = Prefix(t, m + i)
  BY <1>3 DEF PathBetween
<1> HIDE DEF m, k
<1>5. (\E i \in 1..(k - 1) : c = Prefix(t, m + i)) <=> \E j \in (m + 1)..(m + k - 1) : c = Prefix(t, j)
  <2>1. \A i \in 1..(k - 1) : m + i \in (m + 1)..(m + k - 1)
    BY <1>1
  <2>2. \A j \in (m + 1)..(m + k - 1) : j - m \in 1..(k - 1) /\ m + (j - m) = j
    BY <1>1
  <2> QED BY <2>1, <2>2
<1> QED BY <1>2, <1>4, <1>5 DEF m, k, t

(* The containers a key passes are those at its prefixes. *)
LEMMA KVChainIs ==
  ASSUME NEW v, IsValidator(v), Nested(v), NEW s \in KVSlots,
         s.host = v.section, s.owner = v.owner, KeyAllowed(v, s.key)
  PROVE  LET h == s.host
             t == h \o s.key
             k == Len(s.key)
             q == Prefix(t, Len(h) + k - 1)
         IN  /\ KVChain(s) = PathChain(v, t, Len(h), k)
             /\ q \in Seq(Key) /\ Last(s.key) \in Key /\ t = Append(q, Last(s.key))
             /\ Last(KVChain(s)) = At(v, q)
<1> DEFINE h == s.host
           key == s.key
           t == h \o key
           k == Len(key)
           m == Len(h)
           q == Prefix(t, m + k - 1)
<1>1. /\ h \in Seq(Key) /\ key \in Path /\ key \in Seq(Key) /\ k \in Nat \ {0} /\ m \in Nat
      /\ t \in Seq(Key) /\ Len(t) = m + k
  <2>1. h \in Seq(Key) /\ key \in Path /\ key \in Seq(Key) /\ k \in Nat \ {0} /\ m \in Nat
    BY DEF KVSlots, Path
  <2> QED BY <2>1, Below
<1>2. v.owner = Own(v, v.section)
  BY DEF Nested, OwnerExact
<1>3. ASSUME NEW i \in 1..k
      PROVE  <<s.owner, h \o Prefix(key, i - 1)>> = At(v, Prefix(t, m + i - 1))
  <2>1. i - 1 \in 0..(Len(key) - 1) /\ i - 1 \in 0..Len(key) /\ m + i - 1 = m + (i - 1)
    BY <1>1
  <2>2. Own(v, h \o Prefix(key, i - 1)) = Own(v, v.section)
    <3> DEFINE j == i - 1
    <3>1. j \in 0..(Len(key) - 1)
      BY <2>1
    <3> HIDE DEF j
    <3>2. Own(v, v.section \o Prefix(key, j)) = Own(v, v.section)
      BY <1>1, <3>1, KeyStaysInEntry
    <3> QED BY <3>2 DEF j
  <2>3. h \o Prefix(key, i - 1) = Prefix(t, m + (i - 1))
    BY <1>1, <2>1, DottedStep
  <2> HIDE DEF t, m
  <2> QED BY <1>2, <2>1, <2>2, <2>3 DEF At
<1>4. KVChain(s) = PathChain(v, t, m, k)
  BY <1>3 DEF KVChain, PathChain
<1>5. q \in Seq(Key) /\ Last(key) \in Key /\ t = Append(q, Last(key))
  <2>0. \A i \in 1..k : t[m + i] = key[i]
    <3> HIDE DEF h, key
    <3> QED BY <1>1, Below
  <2> HIDE DEF t, m, k, key
  <2>1. m + k \in 1..Len(t)
    BY <1>1
  <2>2. /\ Prefix(t, (m + k) - 1) \in Seq(Key) /\ t[m + k] \in Key
        /\ Prefix(t, m + k) = Append(Prefix(t, (m + k) - 1), t[m + k])
    BY <1>1, <2>1, PrefixStep
  <2>3. Prefix(t, m + k) = t
    BY <1>1, <2>1, PrefixesOf
  <2>4. t[m + k] = key[k]
    <3>1. k \in 1..k
      BY <1>1
    <3> QED BY <1>1, <2>0, <3>1 DEF k
  <2>5. Last(key) = key[k]
    BY DEF Last, k
  <2> QED BY <1>1, <2>2, <2>3, <2>4, <2>5
<1>6. Last(KVChain(s)) = At(v, q)
  <2> DEFINE chain == PathChain(v, t, m, k)
  <2>1. m + k - 1 <= Len(t)
    <3> HIDE DEF t, m, k
    <3> QED BY <1>1
  <2>2. Len(chain) = k /\ \A i \in 1..k : chain[i] = At(v, Prefix(t, m + i - 1))
    <3> HIDE DEF t, m, k
    <3> QED BY <1>1, <2>1, PathChainSteps
  <2>3. k \in 1..k
    BY <1>1
  <2> HIDE DEF chain
  <2>4. chain[k] = At(v, q)
    BY <2>2, <2>3
  <2> QED BY <1>4, <2>2, <2>4 DEF Last, chain
<1> QED BY <1>4, <1>5, <1>6

LEMMA KeyStep ==
  ASSUME NEW v, NEW d, NEW old, Agree(v, d, old),
         NEW s \in KVSlots, s.host = v.section, s.owner = v.owner, KeyAllowed(v, s.key)
  PROVE  LET w == RecordKeyvalue(v, s.key)
             e == ApplyKV(Linked(d, s), KVChain(s), s)
         IN  /\ Agree(w, e, old) /\ Files(d, e, s)
             /\ FiledAlong(w, d, e, s) /\ e.aot = d.aot
<1> DEFINE sec == s.host
           leaf == sec \o s.key
           m == Len(sec)
           k == Len(s.key)
           name == Last(s.key)
           q0 == Prefix(leaf, m + k - 1)
           w == RecordKeyvalue(v, s.key)
           l == Linked(d, s)
           chain == PathChain(v, leaf, m, k)
           f == WithChain(l, chain)
           g == Bind(f, At(v, q0), name, "value")
           C == Range(chain)
           e == FileOn(g, s, C)
<1>1. /\ s.key \in Path /\ s.key \in Seq(Key) /\ sec \in Seq(Key)
      /\ m \in Nat /\ k \in Nat \ {0} /\ leaf \in Seq(Key) /\ Len(leaf) = m + k
  <2>1. s.key \in Path /\ s.key \in Seq(Key) /\ sec \in Seq(Key) /\ m \in Nat /\ k \in Nat \ {0}
    BY DEF KVSlots, Path
  <2> QED BY <2>1, Below
<1> IsValidator(v)
  BY DEF Agree
<1>2. /\ Nested(v) /\ IsRecord(d) /\ IsTree(d.tree) /\ Matches(v, d)
      /\ TablesExist(v, d) /\ OwnersOld(v, d, old)
      /\ \A z \in DOMAIN d.aot : d.aot[z] \in Seq(Nat)
  BY DEF Agree
<1>3. /\ IsRecord(l) /\ IsTree(l.tree) /\ Matches(v, l)
      /\ l.tree = d.tree /\ l.aot = d.aot /\ l.filed = PutAt(d.filed, s, {})
      /\ \A c, key : KindOf(l, c, key) = KindOf(d, c, key)
  BY <1>2, LinkedIs, SameTree
<1>4. /\ KVChain(s) = chain /\ q0 \in Seq(Key) /\ name \in Key /\ leaf = Append(q0, name)
      /\ Last(chain) = At(v, q0)
  <2>1. /\ KVChain(s) = chain /\ q0 \in Seq(Key) /\ name \in Key /\ leaf = Append(q0, name)
        /\ Last(KVChain(s)) = At(v, q0)
    BY <1>2, KVChainIs
  <2> QED BY <2>1
<1>5. ApplyKV(l, KVChain(s), s) = e
  <2> HIDE DEF l, chain, q0
  <2> QED BY <1>4 DEF ApplyKV
<1>6. At(v, q0) \in Containers
  BY <1>4, OwnType
<1>7. /\ IsRecord(f) /\ IsTree(f.tree) /\ f.filed = PutAt(d.filed, s, {}) /\ f.aot = d.aot
      /\ DOMAIN f.tree = DOMAIN d.tree \cup {At(v, Prefix(leaf, j)) : j \in m..(m + k - 1)}
      /\ \A q \in Seq(Key), key \in Key :
           KindOf(f, At(v, q), key) =
             IF /\ \E j \in (m + 1)..(m + k - 1) : Append(q, key) = Prefix(leaf, j)
                /\ KindAt(v, Append(q, key)) = "none"
               THEN "section" ELSE KindOf(d, At(v, q), key)
      /\ Kept(d, f) /\ Elsewhere(d, f, {At(v, Prefix(leaf, j)) : j \in m..(m + k - 1)})
  <2> HIDE DEF l, leaf, m, k
  <2>1. m + k - 1 <= Len(leaf)
    BY <1>1
  <2>2. Descended(v, l, f, leaf, m, k)
    BY <1>1, <1>3, <2>1, DescendKinds
  <2> HIDE DEF f
  <2>4. Elsewhere(l, f, {At(v, Prefix(leaf, j)) : j \in m..(m + k - 1)})
    BY <2>2 DEF Descended
  <2>3. Kept(d, f) /\ Elsewhere(d, f, {At(v, Prefix(leaf, j)) : j \in m..(m + k - 1)})
    BY <1>3, <2>2, <2>4 DEF Descended, Kept, Elsewhere
  <2> QED BY <1>3, <2>2, <2>3 DEF Descended
<1> HIDE DEF f, l
<1>8. /\ IsRecord(g) /\ IsTree(g.tree) /\ g.filed = PutAt(d.filed, s, {}) /\ g.aot = d.aot
      /\ DOMAIN g.tree = DOMAIN f.tree \cup {At(v, q0)}
      /\ \A c, key : KindOf(g, c, key) =
           IF c = At(v, q0) /\ key = name THEN "value" ELSE KindOf(f, c, key)
  <2> HIDE DEF q0, name, leaf, sec, m, k
  <2>1. /\ IsRecord(g) /\ IsTree(g.tree) /\ g.filed = f.filed /\ g.aot = f.aot
        /\ DOMAIN g.tree = DOMAIN f.tree \cup {At(v, q0)}
        /\ \A c, key : KindOf(g, c, key) =
             IF c = At(v, q0) /\ key = name THEN "value" ELSE KindOf(f, c, key)
    BY <1>4, <1>6, <1>7, BindKinds
  <2> HIDE DEF g
  <2> QED BY <1>7, <2>1
<1> HIDE DEF g
<1>9. /\ IsRecord(e) /\ e.tree = g.tree /\ e.aot = d.aot
      /\ DOMAIN e.filed = DOMAIN d.filed \cup {s} /\ e.filed[s] = C
      /\ \A z \in DOMAIN d.filed : z # s => e.filed[z] = d.filed[z]
      /\ \A c, key : KindOf(e, c, key) = KindOf(g, c, key)
  <2> HIDE DEF C
  <2>1. /\ IsRecord(e) /\ e.tree = g.tree /\ e.aot = g.aot
        /\ DOMAIN e.filed = DOMAIN d.filed \cup {s} /\ e.filed[s] = C
        /\ \A z \in DOMAIN d.filed : z # s => e.filed[z] = d.filed[z]
    BY <1>8, FileOnIs
  <2> HIDE DEF e
  <2> QED BY <1>8, <2>1, SameTree
<1>20. KindOf(d, At(v, q0), name) = "none"
  <2>1. Match(v, d, q0, name)
    BY <1>2, <1>4 DEF Matches
  <2>2. KindAt(v, leaf) = "none"
    BY <1>1, KeyPasses
  <2> HIDE DEF q0, name, leaf
  <2> QED BY <1>4, <2>1, <2>2 DEF Match, TreeKind
<1>21. Kept(d, e)
  <2> HIDE DEF q0, name, leaf, e
  <2> QED BY <1>7, <1>8, <1>9, <1>20 DEF Kept
<1>22. FullPath(s) = leaf /\ Highest(s) = m /\ Lowest(s) = m + k - 1
  <2>1. FullPath(s) = leaf /\ IsKV(s)
    BY SlotsType
  <2> HIDE DEF leaf, m, k
  <2>2. Len(leaf) - 1 = m + k - 1
    BY <1>1
  <2> QED BY <2>1, <2>2 DEF Highest, Lowest, m
<1>10. KeyDeclared(v, w, sec, leaf)
  BY <1>1, <1>2, KeyDeclaresLeaf
<1>11. \A c \in Path : (\E j \in (m + 1)..(m + k - 1) : c = Prefix(leaf, j))
                         <=> IsStrictPrefix(sec, c) /\ IsStrictPrefix(c, leaf)
  BY <1>1, KeyPassed
<1>12. \A c \in Path : IsStrictPrefix(sec, c) /\ IsStrictPrefix(c, leaf) => At(v, c) \in DOMAIN e.tree
  <2> SUFFICES ASSUME NEW c \in Path, IsStrictPrefix(sec, c), IsStrictPrefix(c, leaf)
               PROVE  At(v, c) \in DOMAIN e.tree
    OBVIOUS
  <2>1. PICK j \in (m + 1)..(m + k - 1) : c = Prefix(leaf, j)
    BY <1>11
  <2> HIDE DEF m, k, leaf, e, q0
  <2>2. j \in m..(m + k - 1)
    BY <1>1
  <2> QED BY <1>7, <1>8, <1>9, <2>1, <2>2
<1>13. \A j \in m..(m + k - 1) : Prefix(leaf, j) \in Seq(Key)
  <2> HIDE DEF m, k, leaf
  <2>1. \A j \in m..(m + k - 1) : j \in 0..Len(leaf)
    BY <1>1
  <2> QED BY <1>1, <2>1, PrefixType
<1>14. ~IsStrictPrefix(leaf, leaf)
  BY StrictPrefixIrreflexive
<1> HIDE DEF e, w, leaf, sec, q0, name, m, k
<1> USE <1>10 DEF KeyDeclared
<1>15. ASSUME NEW q \in Seq(Key), NEW key \in Key
       PROVE  Match(w, e, q, key)
  <2> DEFINE c == Append(q, key)
  <2>1. c \in Path
    BY DEF Path
  <2>2. Match(v, d, q, key)
    BY <1>2 DEF Matches
  <2>3. c = leaf <=> q = q0 /\ key = name
    BY <1>4, SameChild
  <2>4. KindOf(d, At(v, q), key) = TreeKind(KindAt(v, c))
    BY <2>2 DEF Match
  <2>5. At(v, q) = At(v, q0) <=> q = q0
    BY DEF At
  <2>6. At(w, q) = At(v, q) /\ Child(At(w, q), key) = Child(At(v, q), key)
    OBVIOUS
  <2> HIDE DEF c
  <2>7. KindOf(e, At(w, q), key) =
          IF c = leaf THEN "value"
          ELSE IF IsStrictPrefix(sec, c) /\ IsStrictPrefix(c, leaf) /\ KindAt(v, c) = "none"
            THEN "section" ELSE TreeKind(KindAt(v, c))
    <3>1. KindOf(e, At(w, q), key) =
            IF c = leaf THEN "value" ELSE KindOf(f, At(v, q), key)
      BY <1>8, <1>9, <2>3, <2>5, <2>6
    <3>2. KindOf(f, At(v, q), key) =
            IF IsStrictPrefix(sec, c) /\ IsStrictPrefix(c, leaf) /\ KindAt(v, c) = "none"
              THEN "section" ELSE TreeKind(KindAt(v, c))
      <4>1. KindOf(f, At(v, q), key) =
              IF /\ \E j \in (m + 1)..(m + k - 1) : c = Prefix(leaf, j)
                 /\ KindAt(v, c) = "none"
                THEN "section" ELSE KindOf(d, At(v, q), key)
        BY <1>7 DEF c
      <4>2. (\E j \in (m + 1)..(m + k - 1) : c = Prefix(leaf, j))
              <=> IsStrictPrefix(sec, c) /\ IsStrictPrefix(c, leaf)
        BY <1>11, <2>1
      <4> QED BY <2>4, <4>1, <4>2
    <3> QED BY <3>1, <3>2
  <2>8. KindOf(e, At(w, q), key) = TreeKind(KindAt(w, c))
    BY <1>14, <2>1, <2>7 DEF TreeKind
  <2>9. KindAt(w, c) = "entry" =>
          /\ KindAt(v, c) = "entry" /\ w.scopes[c].entry = v.scopes[c].entry
    BY <2>1
  <2> QED BY <1>9, <2>2, <2>6, <2>8, <2>9 DEF Match, c
<1>16. TablesExist(w, e)
  <2> SUFFICES ASSUME NEW p \in Seq(Key), p = <<>> \/ KindAt(w, p) \in TableKinds
               PROVE  At(v, p) \in DOMAIN e.tree
    BY DEF TablesExist
  <2>1. CASE p # <<>> /\ IsStrictPrefix(sec, p) /\ IsStrictPrefix(p, leaf)
    BY <1>12, <2>1 DEF Path
  <2>2. CASE p = <<>> \/ ~(IsStrictPrefix(sec, p) /\ IsStrictPrefix(p, leaf))
    <3>1. p = <<>> \/ (p \in Path /\ KindAt(v, p) \in TableKinds)
      BY <2>2 DEF Path, TableKinds
    <3>2. At(v, p) \in DOMAIN d.tree
      BY <1>2, <3>1 DEF TablesExist
    <3> QED BY <1>7, <1>8, <1>9, <3>2
  <2> QED BY <2>1, <2>2
<1>17. OwnersOld(w, e, old)
  <2>1. \A q \in Seq(Key) : Own(w, q) \in old /\ Own(v, q) \in old
    BY <1>2 DEF OwnersOld
  <2>2. ASSUME NEW c \in DOMAIN e.tree
        PROVE  c[1] \in old
    <3>1. CASE c \in DOMAIN d.tree
      BY <1>2, <3>1 DEF OwnersOld
    <3>2. CASE c = At(v, q0)
      BY <1>4, <2>1, <3>2 DEF At
    <3>3. CASE \E j \in m..(m + k - 1) : c = At(v, Prefix(leaf, j))
      BY <1>13, <2>1, <3>3 DEF At
    <3> QED BY <1>7, <1>8, <1>9, <3>1, <3>2, <3>3
  <2> QED BY <2>1, <2>2 DEF OwnersOld
<1>18. Files(d, e, s) /\ FiledAlong(w, d, e, s)
  <2>1. C = {At(v, Prefix(leaf, j)) : j \in m..(m + k - 1)}
    <3>1. m \in Nat /\ k \in Nat
      BY <1>1
    <3>2. C = Range(PathChain(v, leaf, m, k))
      OBVIOUS
    <3> HIDE DEF C, chain
    <3> QED BY <3>1, <3>2, PathChainRange
  <2>2. C = {At(w, Prefix(leaf, j)) : j \in m..(m + k - 1)}
    <3> HIDE DEF C, chain
    <3> QED BY <1>10, <1>13, <2>1 DEF KeyDeclared
  <2>3. At(v, q0) \in C
    <3>1. m + k - 1 \in m..(m + k - 1)
      BY <1>1
    <3> HIDE DEF C, chain
    <3> QED BY <2>1, <3>1 DEF q0
  <2> HIDE DEF C, chain
  <2>4. C \subseteq DOMAIN e.tree /\ DOMAIN e.tree = DOMAIN d.tree \cup C
    BY <1>7, <1>8, <1>9, <2>1, <2>3
  <2>5. Elsewhere(d, e, C)
    BY <1>7, <1>8, <1>9, <2>1, <2>3 DEF Elsewhere
  <2> QED BY <1>9, <1>21, <1>22, <2>2, <2>4, <2>5 DEF Files, FiledAlong
<1>19. Agree(w, e, old)
  BY <1>2, <1>8, <1>9, <1>15, <1>16, <1>17 DEF Agree, Matches
<1> QED BY <1>5, <1>9, <1>18, <1>19 DEF l, w, e

-----------------------------------------------------------------------------
(* Nothing the builder asserts of an accepted line fails.                  *)

LEMMA KeyNeverDrifts ==
  ASSUME NEW v, IsValidator(v), Nested(v), NEW d, Matches(v, d), NEW s \in KVSlots,
         s.host = v.section, s.owner = v.owner, KeyAllowed(v, s.key)
  PROVE  NoDrift(d, At(v, v.section), s)
<1> DEFINE h == s.host
           leaf == h \o s.key
           m == Len(h)
           k == Len(s.key)
           name == Last(s.key)
           q0 == Prefix(leaf, m + k - 1)
           chain == PathChain(v, leaf, m, k)
<1>1. /\ s.key \in Path /\ s.key \in Seq(Key) /\ h \in Seq(Key) /\ IsKV(s)
      /\ m \in Nat /\ k \in Nat \ {0} /\ leaf \in Seq(Key) /\ Len(leaf) = m + k
      /\ \A i \in 1..k : leaf[m + i] = s.key[i]
  <2>1. /\ s.key \in Path /\ s.key \in Seq(Key) /\ h \in Seq(Key) /\ IsKV(s)
        /\ m \in Nat /\ k \in Nat \ {0}
    <3>1. s.key \in Path /\ h \in Seq(Key) /\ IsKV(s)
      BY SlotsType
    <3> QED BY <3>1 DEF Path
  <2> HIDE DEF h
  <2> QED BY <2>1, Below
<1>2. /\ KVChain(s) = chain /\ q0 \in Seq(Key) /\ name \in Key /\ leaf = Append(q0, name)
      /\ Last(KVChain(s)) = At(v, q0)
  BY KVChainIs
<1>3. /\ leaf \in Path /\ KindAt(v, leaf) = "none"
      /\ \A p \in Path : IsStrictPrefix(h, p) /\ IsStrictPrefix(p, leaf)
                           => KindAt(v, p) \in {"none", "dotted", "implicit"}
  BY <1>1, KeyPasses
<1>4. \A c \in Path : (\E j \in (m + 1)..(m + k - 1) : c = Prefix(leaf, j))
                        <=> IsStrictPrefix(h, c) /\ IsStrictPrefix(c, leaf)
  BY <1>1, KeyPassed
<1>5. Len(chain) = k /\ \A i \in 1..k : chain[i] = At(v, Prefix(leaf, m + i - 1))
  <2> HIDE DEF leaf, m, k
  <2>1. m + k - 1 <= Len(leaf)
    BY <1>1
  <2> QED BY <1>1, <2>1, PathChainSteps
<1>6. At(v, v.section)[2] = s.host
  BY DEF At
<1> HIDE DEF chain, leaf, m, k, q0, name, h
<1>7. ASSUME NEW i \in 1..(k - 1)
      PROVE  KindOf(d, chain[i], s.key[i]) \in {"none", "section"}
  <2>1. i \in 1..k /\ m + i \in 1..Len(leaf) /\ m + i \in (m + 1)..(m + k - 1)
        /\ m + i - 1 = (m + i) - 1
    BY <1>1
  <2> DEFINE q == Prefix(leaf, (m + i) - 1)
             c == Prefix(leaf, m + i)
             n == leaf[m + i]
  <2>2. q \in Seq(Key) /\ n \in Key /\ c = Append(q, n) /\ c \in Path
    BY <1>1, <2>1, PrefixStep DEF Path
  <2>3. chain[i] = At(v, q) /\ s.key[i] = n
    BY <1>1, <1>5, <2>1
  <2> HIDE DEF q, n
  <2>4. KindAt(v, c) \in {"none", "dotted", "implicit"}
    BY <1>3, <1>4, <2>1, <2>2
  <2> HIDE DEF c
  <2>5. KindOf(d, At(v, q), n) = TreeKind(KindAt(v, c))
    BY <2>2 DEF Matches, Match
  <2> QED BY <2>3, <2>4, <2>5 DEF TreeKind
<1>8. KindOf(d, At(v, q0), name) = "none"
  <2>1. KindOf(d, At(v, q0), name) = TreeKind(KindAt(v, leaf))
    BY <1>2 DEF Matches, Match
  <2> QED BY <1>3, <2>1 DEF TreeKind
<1> QED BY <1>1, <1>2, <1>6, <1>7, <1>8 DEF NoDrift, k, name

LEMMA HeaderNeverDrifts ==
  ASSUME NEW v, IsValidator(v), NEW d, Matches(v, d), NEW s \in HeaderSlots,
         HeaderAllowed(v, s.path, s.entry # NoEntry), NEW c
  PROVE  NoDrift(d, c, s)
<1> DEFINE path == s.path
           n == Len(path)
           name == Last(path)
           q0 == Prefix(path, n - 1)
           chain == PathChain(v, path, 0, n)
<1>1. /\ path \in Path /\ path \in Seq(Key) /\ n \in Nat \ {0} /\ ~IsKV(s)
      /\ 0 \in Nat /\ 0 + n - 1 <= Len(path)
  <2>1. path \in Path /\ ~IsKV(s)
    BY SlotsType
  <2> HIDE DEF path
  <2> QED BY <2>1 DEF Path
<1>2. HeaderChain(d, Root, path) = chain
  BY <1>1, HeaderChainIs
<1>3. q0 \in Seq(Key) /\ name \in Key /\ path = Append(q0, name) /\ Last(chain) = At(v, q0)
  BY <1>1, HeaderTarget
<1>4. \A i \in 1..n : chain[i] = At(v, Prefix(path, 0 + i - 1))
  <2> HIDE DEF path, n
  <2> QED BY <1>1, PathChainSteps
<1>5. ASSUME NEW i \in 1..(n - 1)
      PROVE  KindOf(d, chain[i], path[i]) \in {"none", "section", "aot"}
  <2>1. i \in 1..n /\ 0 + i - 1 = i - 1 /\ i \in 1..Len(path)
    BY <1>1
  <2> DEFINE q == Prefix(path, i - 1)
             x == Prefix(path, i)
             key == path[i]
  <2>2. q \in Seq(Key) /\ key \in Key /\ x = Append(q, key)
    BY <1>1, <2>1, PrefixStep
  <2>3. chain[i] = At(v, q)
    BY <1>4, <2>1
  <2>4. KindAt(v, x) # "value" /\ KindAt(v, x) \in Kinds \cup {"none"}
    BY Undeclared DEF HeaderAllowed
  <2> HIDE DEF q, x, key, chain
  <2>5. KindOf(d, At(v, q), key) = TreeKind(KindAt(v, x))
    BY <2>2 DEF Matches, Match
  <2>6. KindOf(d, At(v, q), key) \in {"none", "section", "aot"}
    BY <2>4, <2>5 DEF TreeKind, Kinds
  <2> QED BY <2>3, <2>6 DEF key
<1>6. KindOf(d, At(v, q0), name)
        \in (IF s.entry = NoEntry THEN {"none", "section"} ELSE {"none", "aot"})
  <2>1. KindOf(d, At(v, q0), name) = TreeKind(KindAt(v, path))
    BY <1>3 DEF Matches, Match
  <2>2. KindAt(v, path) \in Kinds \cup {"none"}
    BY Undeclared
  <2>3. /\ KindAt(v, path) \notin {"value", "dotted"}
        /\ s.entry # NoEntry => KindAt(v, path) \notin {"explicit", "implicit"}
        /\ s.entry = NoEntry => KindAt(v, path) \notin {"explicit", "entry"}
    BY DEF HeaderAllowed
  <2> QED BY <2>1, <2>2, <2>3 DEF TreeKind, Kinds
<1> HIDE DEF chain, q0
<1> QED BY <1>1, <1>2, <1>3, <1>5, <1>6 DEF NoDrift

-----------------------------------------------------------------------------
(* A whole text.                                                           *)

IsEntryHeader(s) == IsHeader(s) /\ s.entry # NoEntry

(* A line that opens a fresh entry at or above p. *)
OpensAbove(s, p) == IsEntryHeader(s) /\ (s.path = p \/ IsStrictPrefix(s.path, p))

(* The deepest table a slot is filed on. *)
Top(s) == <<s.owner, IF IsKV(s) THEN Front(FullPath(s)) ELSE s.path>>

(* The array a header opens an entry of. *)
OpenedArray(v, s) == <<Own(v, Front(s.path)), s.path>>

(* What declaring s changes, and what it leaves. *)
Declares(v, w, s) ==
  /\ IsValidator(w) /\ Nested(w)
  /\ w.section = Scope(s) /\ w.owner = s.owner
  /\ \A q \in Seq(Key) : Own(w, q) = IF OpensAbove(s, q) THEN s.entry ELSE Own(v, q)
  /\ \A p \in Path :
       KindAt(v, p) \in {"explicit", "dotted", "value", "entry"} /\ ~(IsEntryHeader(s) /\ IsStrictPrefix(s.path, p))
         => KindAt(w, p) = KindAt(v, p)
  /\ \A p \in Path : KindAt(v, p) = "none" /\ KindAt(w, p) # "none"
                        => p = FullPath(s) \/ IsStrictPrefix(p, FullPath(s))
  /\ \A p \in Path : IsEntryHeader(s) /\ IsStrictPrefix(s.path, p) => KindAt(w, p) = "none"
  /\ s \in KVSlots =>
       /\ s.host = v.section /\ s.owner = v.owner
       /\ KindAt(v, FullPath(s)) = "none" /\ KindAt(w, FullPath(s)) = "value"
       /\ \A p \in Path : IsStrictPrefix(s.host, p) /\ IsStrictPrefix(p, FullPath(s))
            => KindAt(w, p) = "dotted"
  /\ s \in HeaderSlots =>
       /\ KindAt(v, s.path) \notin {"value", "dotted", "explicit"}
       /\ \A p \in Path : IsStrictPrefix(p, s.path) => KindAt(w, p) \in TableKinds
       /\ s.entry = NoEntry => KindAt(v, s.path) # "entry" /\ KindAt(w, s.path) = "explicit"
       /\ s.entry # NoEntry => KindAt(w, s.path) = "entry"
  /\ \A j \in Highest(s)..Lowest(s) :
       s \in KVSlots \/ j = Lowest(s) => At(w, Prefix(FullPath(s), j)) = <<s.owner, Prefix(FullPath(s), j)>>

(* One line is read. *)
Advances(v, d, w, e, s) ==
  /\ e.stream = Append(d.stream, s)
  /\ Declares(v, w, s)
  /\ Files(d, e, s) /\ FiledAlong(w, d, e, s)
  /\ e.aot = IF IsEntryHeader(s)
               THEN PutAt(d.aot, OpenedArray(v, s), Append(EntriesOf(d, OpenedArray(v, s)), s.entry))
               ELSE d.aot

LEMMA LevelsOf ==
  ASSUME NEW s \in Slots
  PROVE  /\ FullPath(s) \in Path /\ FullPath(s) \in Seq(Key) /\ Len(FullPath(s)) \in Nat \ {0}
         /\ Highest(s) \in Nat /\ Lowest(s) \in Nat /\ Highest(s) <= Lowest(s) /\ Lowest(s) <= Len(FullPath(s))
         /\ Top(s) = <<s.owner, Prefix(FullPath(s), Lowest(s))>> /\ s.owner \in Nat
         /\ s \in KVSlots => /\ Lowest(s) = Len(FullPath(s)) - 1 /\ Highest(s) = Len(s.host)
                             /\ Prefix(FullPath(s), Highest(s)) = s.host /\ s.host \in Seq(Key)
                             /\ IsStrictPrefix(s.host, FullPath(s))
                             /\ Top(s) = <<s.owner, Front(FullPath(s))>>
         /\ s \in HeaderSlots => /\ Lowest(s) = Len(FullPath(s)) /\ Highest(s) = 0
                                 /\ FullPath(s) = s.path /\ Top(s) = <<s.owner, s.path>>
<1> DEFINE f == FullPath(s)
<1>1. f \in Path /\ f \in Seq(Key) /\ Len(f) \in Nat \ {0} /\ s.owner \in Nat
  <2>1. f \in Path /\ s.owner \in Nat
    BY SlotsType DEF Slots
  <2> HIDE DEF f
  <2> QED BY <2>1 DEF Path
<1>2. CASE s \in KVSlots
  <2>1. IsKV(s) /\ s.host \in Seq(Key) /\ s.key \in Path /\ f = s.host \o s.key
    BY <1>2, SlotsType
  <2> DEFINE m == Len(s.host)
             k == Len(s.key)
             n == Len(f)
  <2>2. n = m + k /\ k \in Nat \ {0} /\ m \in Nat /\ \A i \in 1..m : f[i] = s.host[i]
    <3>1. s.key \in Seq(Key) /\ s.key # <<>>
      BY <2>1 DEF Path
    <3>2. k \in Nat \ {0}
      BY <3>1
    <3>3. m \in Nat
      BY <2>1
    <3> HIDE DEF f
    <3> QED BY <2>1, <3>1, <3>2, <3>3, Below
  <2>3. Highest(s) = m /\ Lowest(s) = n - 1 /\ Top(s) = <<s.owner, Front(f)>>
    BY <2>1 DEF Highest, Lowest, Top
  <2>4. Front(f) = Prefix(f, n - 1)
    BY DEF Front, Prefix
  <2> HIDE DEF m, k, n, f
  <2>9. m < n /\ m \in 0..n /\ n \in Nat
    BY <2>2
  <2>5. IsStrictPrefix(s.host, f)
    <3>1. Len(s.host) < Len(f) /\ \A i \in 1..Len(s.host) : s.host[i] = f[i]
      BY <2>2, <2>9 DEF m, n
    <3> QED BY <1>1, <2>1, <3>1, StrictPrefixMeaning
  <2>6. Prefix(f, m) = s.host
    <3>1. m \in 0..Len(f)
      BY <2>9 DEF n
    <3>2. Prefix(f, m) \in Seq(Key) /\ Len(Prefix(f, m)) = m /\ \A i \in 1..m : Prefix(f, m)[i] = f[i]
      BY <1>1, <3>1, PrefixType
    <3>3. Len(Prefix(f, m)) = Len(s.host) /\ \A i \in 1..Len(Prefix(f, m)) : Prefix(f, m)[i] = s.host[i]
      BY <2>2, <3>2 DEF m
    <3> QED BY <2>1, <3>2, <3>3, SamePath
  <2>7. s \notin HeaderSlots
    BY <2>1, SlotsType
  <2>8. /\ Highest(s) \in Nat /\ Lowest(s) \in Nat /\ Highest(s) <= Lowest(s) /\ Lowest(s) <= n
    BY <2>2, <2>3
  <2> QED BY <1>1, <2>1, <2>3, <2>4, <2>5, <2>6, <2>7, <2>8 DEF f, m, n
<1>3. CASE s \in HeaderSlots
  <2>1. ~IsKV(s) /\ f = s.path
    BY <1>3, SlotsType
  <2>2. Highest(s) = 0 /\ Lowest(s) = Len(f) /\ Top(s) = <<s.owner, s.path>>
    BY <2>1 DEF Highest, Lowest, Top
  <2>3. Prefix(f, Len(f)) = f
    <3> HIDE DEF f
    <3>1. Len(f) \in 1..Len(f)
      BY <1>1
    <3> QED BY <1>1, <3>1, PrefixesOf
  <2>4. s \notin KVSlots
    BY <2>1, SlotsType
  <2> HIDE DEF f
  <2> QED BY <1>1, <2>1, <2>2, <2>3, <2>4 DEF f
<1> QED BY <1>2, <1>3 DEF Slots

LEMMA TablesAbove ==
  ASSUME NEW v, IsValidator(v), NEW path \in Path, NEW isAot, HeaderAllowed(v, path, isAot),
         NEW p \in Path, IsStrictPrefix(p, path)
  PROVE  KindAt(v, p) \in TableKinds \cup {"none"}
<1>1. PICK i \in 1..(Len(path) - 1) : p = Prefix(path, i)
  BY PathsAbove DEF Path
<1>2. KindAt(v, p) # "value"
  BY <1>1 DEF HeaderAllowed
<1> QED BY <1>2, Undeclared DEF Kinds, TableKinds

LEMMA TableDeclaresLine ==
  ASSUME NEW v, IsValidator(v), Nested(v), NEW s \in HeaderSlots, s.entry = NoEntry,
         HeaderAllowed(v, s.path, s.entry # NoEntry),
         s.owner = EnterHeader(v, s.path, s.entry).owner
  PROVE  Declares(v, EnterHeader(v, s.path, s.entry), s)
<1> DEFINE w == EnterHeader(v, s.path, s.entry)
<1>1. s.path \in Path /\ s.path \in Seq(Key) /\ s.entry \in Nat /\ IsHeader(s) /\ ~IsKV(s) /\ s \notin KVSlots
  BY SlotsType DEF Path
<1>2. TableOpened(v, w, s.path)
  BY <1>1, TableDeclares
<1>3. w.section = s.path /\ w.owner = s.owner
  BY DEF EnterHeader
<1>4. KindAt(v, s.path) \notin {"value", "dotted", "explicit", "entry"}
  BY DEF HeaderAllowed
<1>5. ~IsEntryHeader(s) /\ \A q : ~OpensAbove(s, q)
  BY DEF IsEntryHeader, OpensAbove
<1>6. w.owner = Own(w, w.section)
  BY <1>2 DEF TableOpened, Nested, OwnerExact
<1>7. Prefix(FullPath(s), Lowest(s)) = s.path
  <2>1. s \in Slots
    BY DEF Slots
  <2> QED BY <1>1, <2>1, LevelsOf DEF Top
<1>8. ~IsStrictPrefix(s.path, s.path) /\ FullPath(s) = s.path
  BY <1>1, StrictPrefixIrreflexive, SlotsType
<1> HIDE DEF w
<1>9. \A p \in Path : KindAt(v, p) \in {"explicit", "dotted", "value", "entry"} => KindAt(w, p) = KindAt(v, p)
  BY <1>1, <1>2, <1>4 DEF TableOpened
<1>10. \A p \in Path : KindAt(v, p) = "none" /\ KindAt(w, p) # "none"
                          => p = FullPath(s) \/ IsStrictPrefix(p, FullPath(s))
  BY <1>1, <1>2, <1>8 DEF TableOpened
<1>11. \A p \in Path : IsStrictPrefix(p, s.path) => KindAt(w, p) \in TableKinds
  <2> SUFFICES ASSUME NEW p \in Path, IsStrictPrefix(p, s.path)
               PROVE  KindAt(w, p) \in TableKinds
    OBVIOUS
  <2>1. KindAt(v, p) \in TableKinds \cup {"none"}
    BY <1>1, TablesAbove
  <2>2. p # s.path
    BY <1>8
  <2>3. KindAt(w, p) = IF KindAt(v, p) = "none" THEN "implicit" ELSE KindAt(v, p)
    BY <1>2, <2>2 DEF TableOpened
  <2> QED BY <2>1, <2>3 DEF TableKinds
<1>12. KindAt(w, s.path) = "explicit" /\ IsValidator(w) /\ Nested(w) /\ \A q \in Seq(Key) : Own(w, q) = Own(v, q)
  BY <1>1, <1>2 DEF TableOpened
<1>13. \A j \in Highest(s)..Lowest(s) :
         s \in KVSlots \/ j = Lowest(s) => At(w, Prefix(FullPath(s), j)) = <<s.owner, Prefix(FullPath(s), j)>>
  BY <1>1, <1>3, <1>6, <1>7 DEF At
<1> QED BY <1>1, <1>3, <1>4, <1>5, <1>9, <1>10, <1>11, <1>12, <1>13 DEF Declares, Scope, w

LEMMA EntryDeclaresLine ==
  ASSUME NEW v, IsValidator(v), Nested(v), NEW s \in HeaderSlots, s.entry # NoEntry,
         HeaderAllowed(v, s.path, s.entry # NoEntry),
         s.owner = EnterHeader(v, s.path, s.entry).owner
  PROVE  Declares(v, EnterHeader(v, s.path, s.entry), s)
<1> DEFINE w == EnterHeader(v, s.path, s.entry)
<1>1. s.path \in Path /\ s.path \in Seq(Key) /\ s.entry \in Nat /\ IsHeader(s) /\ ~IsKV(s) /\ s \notin KVSlots
  BY SlotsType DEF Path
<1>2. EntryOpened(v, w, s.path, s.entry)
  BY <1>1, EntryDeclares
<1>3. w.section = s.path /\ w.owner = s.owner
  BY DEF EnterHeader
<1>4. KindAt(v, s.path) \notin {"value", "dotted", "explicit", "implicit"}
  BY DEF HeaderAllowed
<1>5. IsEntryHeader(s) /\ \A q : OpensAbove(s, q) <=> (q = s.path \/ IsStrictPrefix(s.path, q))
  BY <1>1 DEF IsEntryHeader, OpensAbove
<1>6. w.owner = Own(w, w.section)
  BY <1>2 DEF EntryOpened, Nested, OwnerExact
<1>7. Prefix(FullPath(s), Lowest(s)) = s.path
  <2>1. s \in Slots
    BY DEF Slots
  <2> QED BY <1>1, <2>1, LevelsOf DEF Top
<1> HIDE DEF w
<1>8. \A p \in Path : KindAt(v, p) \in {"explicit", "dotted", "value", "entry"} /\ ~IsStrictPrefix(s.path, p)
        => KindAt(w, p) = KindAt(v, p)
  BY <1>1, <1>2, <1>4 DEF EntryOpened
<1>9. KindAt(w, s.path) = "entry"
  BY <1>1, <1>2 DEF EntryOpened
<1>10. \A q \in Seq(Key) : Own(w, q) = IF OpensAbove(s, q) THEN s.entry ELSE Own(v, q)
  BY <1>2, <1>5 DEF EntryOpened
<1>11. IsValidator(w) /\ Nested(w)
  BY <1>2 DEF EntryOpened
<1>12. ~IsStrictPrefix(s.path, s.path) /\ FullPath(s) = s.path
  BY <1>1, StrictPrefixIrreflexive, SlotsType
<1>13. \A p \in Path : IsStrictPrefix(s.path, p) => KindAt(w, p) = "none"
  <2> SUFFICES ASSUME NEW p \in Path, IsStrictPrefix(s.path, p)
               PROVE  KindAt(w, p) = "none"
    OBVIOUS
  <2>1. p # s.path /\ ~IsStrictPrefix(p, s.path)
    BY <1>1, <1>12, StrictPrefixAsymmetric DEF Path
  <2> QED BY <1>2, <2>1 DEF EntryOpened
<1>14. \A p \in Path : KindAt(v, p) = "none" /\ KindAt(w, p) # "none"
                          => p = FullPath(s) \/ IsStrictPrefix(p, FullPath(s))
  BY <1>1, <1>2, <1>12 DEF EntryOpened
<1>15. \A p \in Path : IsStrictPrefix(p, s.path) => KindAt(w, p) \in TableKinds
  <2> SUFFICES ASSUME NEW p \in Path, IsStrictPrefix(p, s.path)
               PROVE  KindAt(w, p) \in TableKinds
    OBVIOUS
  <2>1. KindAt(v, p) \in TableKinds \cup {"none"}
    BY <1>1, TablesAbove
  <2>2. p # s.path /\ ~IsStrictPrefix(s.path, p)
    BY <1>1, <1>12, StrictPrefixAsymmetric DEF Path
  <2>3. KindAt(w, p) = IF KindAt(v, p) = "none" THEN "implicit" ELSE KindAt(v, p)
    BY <1>2, <2>2 DEF EntryOpened
  <2> QED BY <2>1, <2>3 DEF TableKinds
<1>16. \A j \in Highest(s)..Lowest(s) :
         s \in KVSlots \/ j = Lowest(s) => At(w, Prefix(FullPath(s), j)) = <<s.owner, Prefix(FullPath(s), j)>>
  BY <1>1, <1>3, <1>6, <1>7 DEF At
<1> QED BY <1>1, <1>3, <1>4, <1>5, <1>8, <1>9, <1>10, <1>11, <1>13, <1>14, <1>15, <1>16 DEF Declares, Scope, w

LEMMA KeyDeclaresLine ==
  ASSUME NEW v, IsValidator(v), Nested(v), NEW s \in KVSlots,
         s.host = v.section, s.owner = v.owner, KeyAllowed(v, s.key)
  PROVE  Declares(v, RecordKeyvalue(v, s.key), s)
<1> DEFINE w == RecordKeyvalue(v, s.key)
           f == FullPath(s)
<1>1. /\ IsKV(s) /\ ~IsHeader(s) /\ s.key \in Path /\ f = s.host \o s.key /\ f \in Path
      /\ s \notin HeaderSlots /\ s.host \in Seq(Key) /\ s.key \in Seq(Key)
  BY SlotsType DEF Path
<1>2. KeyDeclared(v, w, s.host, f)
  BY <1>1, KeyDeclaresLeaf
<1>3. w.section = v.section /\ w.owner = v.owner
  BY DEF RecordKeyvalue
<1>4. ~IsEntryHeader(s) /\ \A q : ~OpensAbove(s, q)
  BY <1>1 DEF IsEntryHeader, OpensAbove
<1>5. s \in Slots /\ f \in Seq(Key) /\ Lowest(s) = Len(f) - 1 /\ Highest(s) = Len(s.host) /\ Len(f) \in Nat \ {0}
  BY LevelsOf DEF Slots
<1>6. ASSUME NEW j \in Highest(s)..Lowest(s)
      PROVE  Own(w, Prefix(f, j)) = s.owner /\ Prefix(f, j) \in Seq(Key)
  <2> DEFINE i == j - Len(s.host)
             m == Len(s.host)
             k == Len(s.key)
  <2>1. Len(f) = m + k /\ m \in Nat /\ k \in Nat \ {0}
    <3>1. s.key # <<>>
      BY <1>1 DEF Path
    <3>2. k \in Nat \ {0} /\ m \in Nat
      BY <1>1, <3>1
    <3> QED BY <1>1, <3>2, Below
  <2>2. i \in 0..(k - 1) /\ i \in 0..k /\ m + i = j
    <3> HIDE DEF f, m, k
    <3> QED BY <1>5, <2>1 DEF m
  <2>3. s.host \o Prefix(s.key, i) = Prefix(f, m + i) /\ s.host \o Prefix(s.key, i) \in Seq(Key)
    <3>1. s.host \o Prefix(s.key, i) = Prefix(s.host \o s.key, m + i) /\ s.host \o Prefix(s.key, i) \in Seq(Key)
      <4> HIDE DEF i
      <4> QED BY <1>1, <2>2, DottedStep
    <3> HIDE DEF i, m
    <3> QED BY <1>1, <3>1
  <2>4. Own(v, v.section \o Prefix(s.key, i)) = Own(v, v.section)
    <3> HIDE DEF i
    <3> QED BY <1>1, <2>2, KeyStaysInEntry
  <2>5. Own(v, v.section) = s.owner
    BY DEF Nested, OwnerExact
  <2>6. Prefix(f, j) = s.host \o Prefix(s.key, i)
    <3> HIDE DEF f, m, i
    <3> QED BY <2>2, <2>3
  <2> HIDE DEF w, f, i
  <2>7. Prefix(f, j) \in Seq(Key) /\ Own(v, Prefix(f, j)) = s.owner
    BY <2>3, <2>4, <2>5, <2>6
  <2> QED BY <1>2, <2>7 DEF KeyDeclared
<1>7. \A p \in Path : KindAt(v, p) \in {"explicit", "dotted", "value", "entry"} => KindAt(w, p) = KindAt(v, p)
  <2> HIDE DEF w, f
  <2> QED BY <1>2 DEF KeyDeclared
<1>12. \A p \in Path : KindAt(v, p) = "none" /\ KindAt(w, p) # "none" => p = f \/ IsStrictPrefix(p, f)
  <2> HIDE DEF w, f
  <2> QED BY <1>2 DEF KeyDeclared
<1>8. KindAt(v, f) = "none" /\ KindAt(w, f) = "value"
  <2> HIDE DEF w, f
  <2> QED BY <1>1, <1>2 DEF KeyDeclared
<1>9. \A p \in Path : IsStrictPrefix(s.host, p) /\ IsStrictPrefix(p, f) => KindAt(w, p) = "dotted"
  <2>1. ~IsStrictPrefix(f, f)
    BY StrictPrefixIrreflexive
  <2> HIDE DEF w, f
  <2> QED BY <1>2, <2>1 DEF KeyDeclared
<1>10. IsValidator(w) /\ Nested(w) /\ \A q \in Seq(Key) : Own(w, q) = Own(v, q)
  <2> HIDE DEF w, f
  <2> QED BY <1>2 DEF KeyDeclared
<1> HIDE DEF w
<1> QED BY <1>1, <1>3, <1>4, <1>6, <1>7, <1>8, <1>9, <1>10, <1>12 DEF Declares, Scope, At, w, f

(* Reading a line it accepts, validator and builder move on together. *)
LEMMA SlotAdvances ==
  ASSUME NEW v, NEW d, NEW old, Agree(v, d, old), IsDocument(d),
         NEW s \in Slots, Allowed(v, s), Reread(v, s) = s,
         IsEntryHeader(s) => s.entry \notin old
  PROVE  /\ Advances(v, d, AfterSlot(v, s), ApplySlot(d, s), s)
         /\ Agree(AfterSlot(v, s), ApplySlot(d, s), IF IsEntryHeader(s) THEN old \cup {s.entry} ELSE old)
         /\ IsDocument(ApplySlot(d, s))
<1> DEFINE w == AfterSlot(v, s)
           e == ApplySlot(d, s)
<1>1. e.stream = Append(d.stream, s) /\ IsDocument(e)
  BY SlotAppended
<1>2. IsValidator(v) /\ Nested(v)
  BY DEF Agree
<1>3. CASE s \in KVSlots
  <2>1. IsKV(s) /\ ~IsHeader(s) /\ ~IsEntryHeader(s)
    BY <1>3, SlotsType DEF IsEntryHeader
  <2>2. KeyAllowed(v, s.key) /\ w = RecordKeyvalue(v, s.key) /\ e = ApplyKV(Linked(d, s), KVChain(s), s)
    BY <2>1 DEF Allowed, AfterSlot, ApplySlot
  <2>3. s.host = v.section /\ s.owner = v.owner
    <3>1. s = [s EXCEPT !.host = v.section, !.owner = v.owner]
      BY <2>1 DEF Reread
    <3>2. s \in [kind : {"kv"}, host : Seq(Key), key : Path, owner : Nat, val : Vals]
      BY <1>3 DEF KVSlots
    <3> QED BY <3>1, <3>2
  <2>4. Declares(v, w, s)
    BY <1>2, <1>3, <2>2, <2>3, KeyDeclaresLine
  <2>5. Agree(w, e, old) /\ Files(d, e, s) /\ FiledAlong(w, d, e, s) /\ e.aot = d.aot
    BY <1>3, <2>2, <2>3, KeyStep
  <2> HIDE DEF w, e
  <2> QED BY <1>1, <2>1, <2>4, <2>5 DEF Advances, w, e
<1>4. CASE s \in HeaderSlots
  <2>1. ~IsKV(s) /\ IsHeader(s)
    BY <1>4, SlotsType
  <2>2. HeaderAllowed(v, s.path, s.entry # NoEntry) /\ w = EnterHeader(v, s.path, s.entry)
    BY <2>1 DEF Allowed, AfterSlot
  <2>3. s.owner = w.owner
    <3>1. s = [s EXCEPT !.owner = w.owner]
      BY <2>1 DEF Reread
    <3>2. s \in [kind : {"header"}, path : Path, owner : Nat, entry : Nat, synthetic : BOOLEAN]
      BY <1>4 DEF HeaderSlots
    <3> QED BY <3>1, <3>2
  <2>4. CASE s.entry = NoEntry
    <3>1. e = OpenTable(Linked(d, s), Root, s) /\ ~IsEntryHeader(s)
      BY <2>1, <2>4 DEF ApplySlot, OpenHeader, IsEntryHeader
    <3>2. Declares(v, w, s)
      BY <1>2, <1>4, <2>2, <2>3, <2>4, TableDeclaresLine
    <3>3. Agree(w, e, old) /\ Files(d, e, s) /\ FiledAlong(w, d, e, s) /\ e.aot = d.aot
      BY <1>4, <2>2, <2>4, <3>1, TableStep
    <3> HIDE DEF w, e
    <3> QED BY <1>1, <3>1, <3>2, <3>3 DEF Advances, w, e
  <2>5. CASE s.entry # NoEntry
    <3>1. e = OpenAoTEntry(Linked(d, s), Root, s) /\ IsEntryHeader(s)
      BY <2>1, <2>5 DEF ApplySlot, OpenHeader, IsEntryHeader
    <3>2. Declares(v, w, s)
      BY <1>2, <1>4, <2>2, <2>3, <2>5, EntryDeclaresLine
    <3>3. s.entry \notin old
      BY <3>1
    <3>4. OpenedArray(v, s) = <<Own(v, Prefix(s.path, Len(s.path) - 1)), s.path>>
      BY DEF OpenedArray, Front, Prefix
    <3>5. /\ Agree(w, e, old \cup {s.entry}) /\ Files(d, e, s) /\ FiledAlong(w, d, e, s)
          /\ e.aot = PutAt(d.aot, OpenedArray(v, s), Append(EntriesOf(d, OpenedArray(v, s)), s.entry))
      <4> HIDE DEF w, e
      <4>1. /\ Agree(EnterHeader(v, s.path, s.entry), OpenAoTEntry(Linked(d, s), Root, s), old \cup {s.entry})
            /\ Files(d, OpenAoTEntry(Linked(d, s), Root, s), s)
            /\ FiledAlong(EnterHeader(v, s.path, s.entry), d, OpenAoTEntry(Linked(d, s), Root, s), s)
            /\ OpenAoTEntry(Linked(d, s), Root, s).aot =
                 PutAt(d.aot, <<Own(v, Prefix(s.path, Len(s.path) - 1)), s.path>>,
                       Append(EntriesOf(d, <<Own(v, Prefix(s.path, Len(s.path) - 1)), s.path>>), s.entry))
        BY <1>4, <2>2, <2>5, <3>3, EntryStep
      <4> QED BY <2>2, <3>1, <3>4, <4>1
    <3> HIDE DEF w, e
    <3> QED BY <1>1, <3>1, <3>2, <3>5 DEF Advances, w, e
  <2> QED BY <2>4, <2>5
<1> QED BY <1>3, <1>4 DEF Slots

-----------------------------------------------------------------------------
(* What holds of every document read, part by part.                        *)

FiledAt(d, i) == d.filed[d.stream[i]]

Old(d) == {NoEntry} \cup {d.stream[i].entry : i \in {k \in 1..Len(d.stream) : IsEntryHeader(d.stream[k])}}

(* A slot is filed on one table for each step of its path, from its host   *)
(* (a header: from the root) down.                                         *)
LevelsAt(s, C) ==
  \E o \in [Highest(s)..Lowest(s) -> Nat] :
    /\ C = {<<o[j], Prefix(FullPath(s), j)>> : j \in Highest(s)..Lowest(s)}
    /\ o[Lowest(s)] = s.owner
    /\ IsKV(s) => \A j \in Highest(s)..Lowest(s) : o[j] = s.owner

Leveled(d) == \A i \in 1..Len(d.stream) : LevelsAt(d.stream[i], FiledAt(d, i))

(* y binds x: as a section, or as an entry of an array. *)
Above(d, y, x) ==
  /\ x[2] # <<>> /\ y[2] = Front(x[2])
  /\ \/ KindOf(d, y, Last(x[2])) = "section" /\ y[1] = x[1]
     \/ KindOf(d, y, Last(x[2])) = "aot" /\ x[1] \in Range(EntriesOf(d, <<y[1], x[2]>>))

Chained(d) ==
  \A i \in 1..Len(d.stream) : \A x \in FiledAt(d, i) :
    Len(x[2]) > Highest(d.stream[i]) => \E y \in FiledAt(d, i) : Above(d, y, x)

(* What slot s binds in a table c it is filed on. *)
Names(s, c, key) == Len(c[2]) < Len(FullPath(s)) /\ key = FullPath(s)[Len(c[2]) + 1]

Named(d) ==
  \A i \in 1..Len(d.stream) : \A x \in FiledAt(d, i) : \A key :
    Names(d.stream[i], x, key) => KindOf(d, x, key) # "none"

Held(d) ==
  \A c, key : KindOf(d, c, key) # "none" =>
    \E i \in 1..Len(d.stream) : c \in FiledAt(d, i) /\ Names(d.stream[i], c, key)

(* The arrays of tables, and the headers their entries open with. *)
Opens(s, e) == IsEntryHeader(s) /\ s.entry = e

ArraysHomed(d) ==
  \A a \in DOMAIN d.aot :
    /\ a \in Nat \X Path
    /\ \A j \in 1..Len(d.aot[a]) : \E g \in 1..Len(d.stream) :
         /\ Opens(d.stream[g], d.aot[a][j]) /\ d.stream[g].path = a[2]
         /\ <<a[1], Front(a[2])>> \in FiledAt(d, g)

EntriesApart(d) ==
  \A g, h \in 1..Len(d.stream) : \A e : Opens(d.stream[g], e) /\ Opens(d.stream[h], e) => g = h

EntriesListed(d) ==
  \A g \in 1..Len(d.stream) : \A e : Opens(d.stream[g], e) =>
    /\ d.stream[g].owner = e
    /\ \E a \in DOMAIN d.aot : e \in Range(d.aot[a])

EntriesInTurn(d) ==
  \A a \in DOMAIN d.aot : \A i, j \in 1..Len(d.aot[a]) : \A g, h \in 1..Len(d.stream) :
    i < j /\ Opens(d.stream[g], d.aot[a][i]) /\ Opens(d.stream[h], d.aot[a][j]) => g < h

(* The header g that opened entry e is the last above line i to open one   *)
(* at or above p; where none does, no entry is in force.                   *)
Rules(d, g, i, e, p) ==
  /\ Opens(d.stream[g], e) /\ OpensAbove(d.stream[g], p)
  /\ \A k \in (g + 1)..i : ~OpensAbove(d.stream[k], p)

Unruled(d, i, p) == \A k \in 1..i : ~OpensAbove(d.stream[k], p)

EntryInForce(v, d) ==
  \A q \in Seq(Key) :
    /\ Own(v, q) # NoEntry => \E g \in 1..Len(d.stream) : Rules(d, g, Len(d.stream), Own(v, q), q)
    /\ Own(v, q) = NoEntry => Unruled(d, Len(d.stream), q)

FiledInForce(d) ==
  \A i \in 1..Len(d.stream) : \A x \in FiledAt(d, i) :
    /\ x[1] # NoEntry => \E g \in 1..i : Rules(d, g, i, x[1], x[2])
    /\ x[1] = NoEntry => Unruled(d, i, x[2])

(* The header j opens the section [p] of entry o, still read at line i. *)
Under(d, j, i, o, p) ==
  /\ IsHeader(d.stream[j]) /\ Top(d.stream[j]) = <<o, p>>
  /\ \A k \in (j + 1)..i : IsKV(d.stream[k]) /\ d.stream[k].host = p

Within(d, i, o, p) ==
  \/ o = NoEntry /\ p = <<>> /\ \A k \in 1..i : IsKV(d.stream[k])
  \/ \E j \in 1..i : Under(d, j, i, o, p)

SectionInForce(v, d) == Within(d, Len(d.stream), v.owner, v.section)

Sectioned(d) ==
  \A i \in 1..Len(d.stream) :
    IsKV(d.stream[i]) => Within(d, i, d.stream[i].owner, d.stream[i].host)

(* What a line declared, the validator still knows while its entry is the  *)
(* one in force.                                                           *)
KnownAt(v, s) ==
  LET f == FullPath(s)
  IN  /\ IsKV(s) =>
           /\ \A p \in Path : IsStrictPrefix(s.host, p) /\ IsStrictPrefix(p, f) /\ Own(v, p) = s.owner
                                => KindAt(v, p) = "dotted"
           /\ Own(v, Front(f)) = s.owner => KindAt(v, f) = "value"
      /\ IsHeader(s) /\ s.entry = NoEntry /\ Own(v, Front(f)) = s.owner => KindAt(v, f) = "explicit"
      /\ IsEntryHeader(s) /\ Own(v, f) = s.entry => KindAt(v, f) = "entry"

KindsKnown(v, d) == \A i \in 1..Len(d.stream) : KnownAt(v, d.stream[i])

(* No table is opened twice, and its header comes before its lines. *)
LinesApart(d) == \A i, j \in 1..Len(d.stream) : d.stream[i] = d.stream[j] => i = j

HeadersApart(d) ==
  \A i, j \in 1..Len(d.stream) :
    IsHeader(d.stream[i]) /\ IsHeader(d.stream[j]) /\ Top(d.stream[i]) = Top(d.stream[j]) => i = j

HeadersFirst(d) ==
  \A i, j \in 1..Len(d.stream) :
    IsHeader(d.stream[i]) /\ IsKV(d.stream[j]) /\ Top(d.stream[i]) \in FiledAt(d, j) => i < j

Reading(v, d) ==
  /\ Agree(v, d, Old(d)) /\ IsDocument(d)
  /\ DOMAIN d.filed = Range(d.stream) /\ \A s \in DOMAIN d.filed : d.filed[s] \subseteq DOMAIN d.tree
  /\ Leveled(d) /\ Chained(d) /\ Named(d) /\ Held(d)
  /\ ArraysHomed(d) /\ EntriesApart(d) /\ EntriesListed(d) /\ EntriesInTurn(d)
  /\ EntryInForce(v, d) /\ FiledInForce(d)
  /\ SectionInForce(v, d) /\ Sectioned(d)
  /\ KindsKnown(v, d)
  /\ LinesApart(d) /\ HeadersApart(d) /\ HeadersFirst(d)

-----------------------------------------------------------------------------
(* One more line.                                                          *)

Step(v, d, w, e, s) ==
  /\ s \in Slots /\ Advances(v, d, w, e, s)
  /\ IsDocument(d) /\ IsDocument(e) /\ Agree(v, d, Old(d)) /\ Agree(w, e, Old(e))
  /\ IsEntryHeader(s) => s.entry \notin Old(d)
  /\ DOMAIN d.filed = Range(d.stream) /\ s \notin Range(d.stream)

LEMMA StepFacts ==
  ASSUME NEW v, NEW d, NEW w, NEW e, NEW s, Step(v, d, w, e, s)
  PROVE  LET n == Len(d.stream)
         IN  /\ s \in Slots /\ n \in Nat /\ Len(e.stream) = n + 1 /\ e.stream[n + 1] = s
             /\ \A i \in 1..n : /\ e.stream[i] = d.stream[i] /\ d.stream[i] \in Slots /\ d.stream[i] # s
                                /\ FiledAt(e, i) = FiledAt(d, i)
             /\ FiledAt(e, n + 1) = {At(w, Prefix(FullPath(s), j)) : j \in Highest(s)..Lowest(s)}
             /\ DOMAIN e.filed = Range(e.stream)
             /\ Declares(v, w, s) /\ Kept(d, e) /\ Elsewhere(d, e, FiledAt(e, n + 1))
<1> DEFINE n == Len(d.stream)
<1>1. d.stream \in Seq(Slots) /\ s \in Slots /\ e.stream = Append(d.stream, s) /\ DOMAIN d.filed = Range(d.stream)
      /\ s \notin Range(d.stream) /\ Declares(v, w, s) /\ Files(d, e, s) /\ FiledAlong(w, d, e, s)
  BY DEF Step, IsDocument, Advances
<1>2. n \in Nat /\ Len(e.stream) = n + 1 /\ e.stream[n + 1] = s
      /\ \A i \in 1..n : e.stream[i] = d.stream[i] /\ d.stream[i] \in Slots
  BY <1>1
<1>3. \A i \in 1..n : d.stream[i] \in Range(d.stream)
  BY <1>1 DEF Range
<1>4. \A i \in 1..n : d.stream[i] # s /\ e.filed[d.stream[i]] = d.filed[d.stream[i]]
  BY <1>1, <1>3 DEF Files
<1>5. Range(e.stream) = Range(d.stream) \cup {s}
  BY <1>1 DEF Range
<1>6. DOMAIN e.filed = Range(e.stream)
  BY <1>1, <1>5 DEF Files
<1> HIDE DEF n
<1>7. FiledAt(e, n + 1) = {At(w, Prefix(FullPath(s), j)) : j \in Highest(s)..Lowest(s)}
  BY <1>1, <1>2 DEF FiledAlong, FiledAt
<1>8. Elsewhere(d, e, FiledAt(e, n + 1)) /\ Kept(d, e)
  BY <1>1, <1>2 DEF FiledAlong, FiledAt
<1>9. \A i \in 1..n : FiledAt(e, i) = FiledAt(d, i)
  BY <1>2, <1>4 DEF FiledAt
<1> QED BY <1>1, <1>2, <1>4, <1>6, <1>7, <1>8, <1>9 DEF n

LEMMA LeveledStep ==
  ASSUME NEW v, NEW d, NEW w, NEW e, NEW s, Step(v, d, w, e, s), Leveled(d)
  PROVE  Leveled(e)
<1> DEFINE n == Len(d.stream)
           H == Highest(s)
           L == Lowest(s)
           o == [j \in H..L |-> Own(w, Prefix(FullPath(s), j))]
<1>1. /\ s \in Slots /\ n \in Nat /\ Len(e.stream) = n + 1 /\ e.stream[n + 1] = s
      /\ \A i \in 1..n : e.stream[i] = d.stream[i] /\ FiledAt(e, i) = FiledAt(d, i)
      /\ FiledAt(e, n + 1) = {At(w, Prefix(FullPath(s), j)) : j \in H..L}
      /\ Declares(v, w, s)
  BY StepFacts
<1>2. /\ FullPath(s) \in Seq(Key) /\ H \in Nat /\ L \in Nat /\ H <= L /\ L <= Len(FullPath(s))
      /\ Len(FullPath(s)) \in Nat
  BY <1>1, LevelsOf
<1>3. IsValidator(w)
  BY <1>1 DEF Declares
<1>4. \A j \in H..L : Own(w, Prefix(FullPath(s), j)) \in Nat
  <2> SUFFICES ASSUME NEW j \in H..L PROVE Own(w, Prefix(FullPath(s), j)) \in Nat
    OBVIOUS
  <2>1. j \in 0..Len(FullPath(s))
    BY <1>2
  <2>2. Prefix(FullPath(s), j) \in Seq(Key)
    BY <1>2, <2>1, PrefixType
  <2> QED BY <1>3, <2>2, OwnType
<1>5. L \in H..L
  BY <1>2
<1>6. \A j \in H..L : s \in KVSlots \/ j = L => At(w, Prefix(FullPath(s), j)) = <<s.owner, Prefix(FullPath(s), j)>>
  BY <1>1 DEF Declares
<1> HIDE DEF H, L
<1>7. o \in [H..L -> Nat] /\ \A j \in H..L : o[j] = Own(w, Prefix(FullPath(s), j))
  BY <1>4
<1>8. \A j \in H..L : At(w, Prefix(FullPath(s), j)) = <<o[j], Prefix(FullPath(s), j)>>
  BY <1>7 DEF At
<1> HIDE DEF o
<1>9. IsKV(s) => s \in KVSlots
  BY <1>1, SlotsType DEF Slots
<1>10. \A j \in H..L : s \in KVSlots \/ j = L => o[j] = s.owner
  BY <1>6, <1>8
<1>11. FiledAt(e, n + 1) = {<<o[j], Prefix(FullPath(s), j)>> : j \in H..L}
  BY <1>1, <1>8
<1>12. LevelsAt(s, FiledAt(e, n + 1))
  BY <1>5, <1>7, <1>9, <1>10, <1>11 DEF LevelsAt, H, L
<1> HIDE DEF n
<1> QED BY <1>1, <1>12 DEF Leveled, n

LEMMA EntriesGrow ==
  ASSUME NEW v, NEW d, NEW w, NEW e, NEW s, Step(v, d, w, e, s)
  PROVE  /\ DOMAIN d.aot \subseteq DOMAIN e.aot
         /\ \A a \in DOMAIN d.aot : d.aot[a] \in Seq(Nat)
         /\ \A a \in DOMAIN e.aot :
              \/ a \in DOMAIN d.aot /\ e.aot[a] = d.aot[a]
              \/ /\ a = OpenedArray(v, s) /\ IsEntryHeader(s) /\ EntriesOf(d, a) \in Seq(Nat)
                 /\ e.aot[a] = Append(EntriesOf(d, a), s.entry)
         /\ IsEntryHeader(s) => /\ OpenedArray(v, s) \in DOMAIN e.aot
                                /\ e.aot[OpenedArray(v, s)] = Append(EntriesOf(d, OpenedArray(v, s)), s.entry)
         /\ \A a : Range(EntriesOf(d, a)) \subseteq Range(EntriesOf(e, a))
<1> DEFINE b == OpenedArray(v, s)
<1>1. \A a \in DOMAIN d.aot : d.aot[a] \in Seq(Nat)
  BY DEF Step, Agree
<1>2. e.aot = IF IsEntryHeader(s) THEN PutAt(d.aot, b, Append(EntriesOf(d, b), s.entry)) ELSE d.aot
  BY DEF Step, Advances
<1>3. \A a : EntriesOf(d, a) \in Seq(Nat)
  BY <1>1 DEF EntriesOf
<1> HIDE DEF b
<1>4. CASE ~IsEntryHeader(s)
  <2>1. e.aot = d.aot
    BY <1>2, <1>4
  <2> QED BY <1>1, <1>4, <2>1 DEF EntriesOf, b
<1>5. CASE IsEntryHeader(s)
  <2> DEFINE new == Append(EntriesOf(d, b), s.entry)
  <2>1. e.aot = PutAt(d.aot, b, new)
    BY <1>2, <1>5
  <2>2. DOMAIN e.aot = DOMAIN d.aot \cup {b} /\ e.aot[b] = new /\ \A a \in DOMAIN d.aot : a # b => e.aot[a] = d.aot[a]
    BY <2>1 DEF PutAt
  <2>3. Range(EntriesOf(d, b)) \subseteq Range(new)
    <3> DEFINE q == EntriesOf(d, b)
    <3>1. q \in Seq(Nat) /\ new = Append(q, s.entry)
      BY <1>3
    <3> HIDE DEF q, new
    <3>2. \A i \in 1..Len(q) : i \in 1..Len(new) /\ new[i] = q[i]
      BY <3>1
    <3>3. Len(new) = Len(q) + 1 /\ DOMAIN new = 1..Len(new) /\ DOMAIN q = 1..Len(q)
      BY <3>1
    <3> QED BY <3>2, <3>3 DEF Range, q
  <2>4. \A a : Range(EntriesOf(d, a)) \subseteq Range(EntriesOf(e, a))
    <3> SUFFICES ASSUME NEW a PROVE Range(EntriesOf(d, a)) \subseteq Range(EntriesOf(e, a))
      OBVIOUS
    <3>1. CASE a = b
      BY <2>2, <2>3, <3>1 DEF EntriesOf
    <3>2. CASE a # b
      <4>1. EntriesOf(e, a) = EntriesOf(d, a)
        BY <2>2, <3>2 DEF EntriesOf
      <4> QED BY <4>1
    <3> QED BY <3>1, <3>2
  <2> HIDE DEF new
  <2>5. new = Append(EntriesOf(d, b), s.entry)
    BY DEF new
  <2> QED BY <1>1, <1>3, <1>5, <2>2, <2>4, <2>5 DEF b
<1> QED BY <1>4, <1>5

LEMMA AboveKept ==
  ASSUME NEW v, NEW d, NEW w, NEW e, NEW s, Step(v, d, w, e, s), NEW y, NEW x, Above(d, y, x)
  PROVE  Above(e, y, x)
<1>1. Kept(d, e)
  BY StepFacts
<1>2. Range(EntriesOf(d, <<y[1], x[2]>>)) \subseteq Range(EntriesOf(e, <<y[1], x[2]>>))
  BY EntriesGrow
<1> QED BY <1>1, <1>2 DEF Above, Kept

LEMMA FrontOf ==
  ASSUME NEW q \in Seq(Key), NEW k \in Key
  PROVE  /\ Front(Append(q, k)) = q /\ Last(Append(q, k)) = k
         /\ Append(q, k) # <<>> /\ Append(q, k) \in Path /\ Len(Append(q, k)) = Len(q) + 1
<1> DEFINE t == Append(q, k)
<1>1. t \in Seq(Key) /\ t # <<>> /\ Len(t) = Len(q) + 1
  BY ChildPath
<1> HIDE DEF t
<1>2. /\ Prefix(t, Len(t) - 1) \in Seq(Key) /\ Last(t) \in Key
      /\ t = Append(Prefix(t, Len(t) - 1), Last(t))
  BY <1>1, LastStep
<1>3. Prefix(t, Len(t) - 1) = q /\ Last(t) = k
  <2>1. Append(q, k) = Append(Prefix(t, Len(t) - 1), Last(t))
    BY <1>2 DEF t
  <2> QED BY <1>2, <2>1, SameChild
<1>4. Front(t) = Prefix(t, Len(t) - 1)
  BY DEF Front, Prefix
<1> QED BY <1>1, <1>3, <1>4 DEF t, Path

(* A path is its front and its last key. *)
LEMMA FrontLast ==
  ASSUME NEW t \in Path
  PROVE  /\ Len(t) \in Nat \ {0} /\ Front(t) \in Seq(Key) /\ Last(t) \in Key /\ t = Append(Front(t), Last(t))
         /\ Front(t) = Prefix(t, Len(t) - 1) /\ Len(Front(t)) = Len(t) - 1
<1>1. t \in Seq(Key) /\ t # <<>>
  BY DEF Path
<1>2. /\ Len(t) \in Nat \ {0} /\ Prefix(t, Len(t) - 1) \in Seq(Key) /\ Last(t) \in Key
      /\ t = Append(Prefix(t, Len(t) - 1), Last(t))
  BY <1>1, LastStep
<1>3. Front(t) = Prefix(t, Len(t) - 1)
  BY DEF Front, Prefix
<1>4. Len(Prefix(t, Len(t) - 1)) = Len(t) - 1
  <2>1. Len(t) - 1 \in 0..Len(t)
    BY <1>2
  <2> QED BY <1>1, <2>1, PrefixType
<1> QED BY <1>2, <1>3, <1>4

LEMMA EntryAbove ==
  ASSUME NEW w, NEW e, Matches(w, e), \A a \in DOMAIN e.aot : e.aot[a] \in Seq(Nat),
         NEW q \in Seq(Key), NEW k \in Key, KindAt(w, Append(q, k)) \in TableKinds
  PROVE  Above(e, At(w, q), At(w, Append(q, k)))
<1> DEFINE p == Append(q, k)
           a == <<Own(w, q), p>>
<1>1. p # <<>> /\ Front(p) = q /\ Last(p) = k
  BY FrontOf
<1>2. /\ KindAt(w, p) # "entry" => a = At(w, p)
      /\ KindAt(w, p) = "entry" => At(w, p) = <<w.scopes[p].entry, p>>
      /\ Child(At(w, q), k) = a
  BY ChildAt
<1>3. /\ KindOf(e, At(w, q), k) = TreeKind(KindAt(w, p))
      /\ KindAt(w, p) = "entry" => a \in DOMAIN e.aot /\ e.aot[a] # <<>> /\ Last(e.aot[a]) = w.scopes[p].entry
  BY <1>2 DEF Matches, Match
<1>4. At(w, q)[1] = Own(w, q) /\ At(w, q)[2] = q /\ At(w, p)[1] = Own(w, p) /\ At(w, p)[2] = p /\ a[1] = Own(w, q)
  BY DEF At
<1> HIDE DEF p, a
<1>5. CASE KindAt(w, p) = "entry"
  <2>1. KindOf(e, At(w, q), k) = "aot"
    BY <1>3, <1>5 DEF TreeKind
  <2>2. e.aot[a] \in Seq(Nat) /\ e.aot[a] # <<>> /\ EntriesOf(e, a) = e.aot[a]
    BY <1>3, <1>5 DEF EntriesOf
  <2>3. Last(e.aot[a]) \in Range(EntriesOf(e, a))
    <3> DEFINE Q == e.aot[a]
    <3>1. Q \in Seq(Nat) /\ Q # <<>>
      BY <2>2
    <3> HIDE DEF Q
    <3>2. Last(Q) \in Range(Q)
      BY <3>1 DEF Last, Range
    <3> QED BY <2>2, <3>2 DEF Q
  <2>4. At(w, p)[1] = w.scopes[p].entry
    BY <1>2, <1>5
  <2>5. At(w, p)[1] \in Range(EntriesOf(e, a))
    BY <1>3, <1>5, <2>3, <2>4
  <2> QED BY <1>1, <1>4, <2>1, <2>5 DEF Above, a, p
<1>6. CASE KindAt(w, p) # "entry"
  <2>1. KindOf(e, At(w, q), k) = "section"
    BY <1>3, <1>6 DEF TreeKind, TableKinds, p
  <2>2. At(w, p)[1] = Own(w, q)
    BY <1>2, <1>4, <1>6
  <2> QED BY <1>1, <1>4, <2>1, <2>2 DEF Above, p
<1> QED BY <1>5, <1>6

LEMMA FilingKinds ==
  ASSUME NEW v, NEW w, NEW s \in Slots, Declares(v, w, s), NEW j \in (Highest(s) + 1)..Lowest(s)
  PROVE  KindAt(w, Prefix(FullPath(s), j)) \in TableKinds
<1> DEFINE f == FullPath(s)
           p == Prefix(f, j)
<1>1. /\ f \in Path /\ f \in Seq(Key) /\ Len(f) \in Nat /\ Highest(s) \in Nat /\ Lowest(s) \in Nat /\ Lowest(s) <= Len(f)
  BY LevelsOf
<1>2. j \in 1..Len(f) /\ j \in 0..Len(f)
  BY <1>1
<1>3. p \in Path /\ (j < Len(f) => IsStrictPrefix(p, f)) /\ (j = Len(f) => p = f)
  BY <1>1, <1>2, PrefixesOf
<1>4. CASE s \in KVSlots
  <2>1. /\ Highest(s) = Len(s.host) /\ Lowest(s) = Len(f) - 1 /\ Prefix(f, Highest(s)) = s.host /\ s.host \in Seq(Key)
    BY <1>4, LevelsOf
  <2>2. IsStrictPrefix(p, f)
    <3>1. j < Len(f)
      BY <1>1, <2>1
    <3> QED BY <1>3, <3>1
  <2>3. IsStrictPrefix(s.host, p)
    <3> DEFINE h == Highest(s)
    <3>1. h \in 0..j /\ h < j
      BY <1>1
    <3>2. p \in Seq(Key) /\ Len(p) = j
      BY <1>1, <1>2, PrefixType
    <3>3. Prefix(p, h) = Prefix(f, h)
      BY <1>1, <1>2, <3>1, PrefixOfPrefix
    <3>4. IsStrictPrefix(Prefix(p, h), p)
      <4> HIDE DEF p, h
      <4>1. h \in 0..Len(p) /\ h < Len(p)
        BY <3>1, <3>2
      <4> QED BY <3>2, <4>1, PrefixType
    <3> QED BY <2>1, <3>3, <3>4
  <2>4. KindAt(w, p) = "dotted"
    <3> HIDE DEF p
    <3> QED BY <1>3, <1>4, <2>2, <2>3 DEF Declares, f
  <2> QED BY <2>4 DEF TableKinds
<1>5. CASE s \in HeaderSlots
  <2>1. f = s.path
    BY <1>5, LevelsOf
  <2> HIDE DEF p
  <2>2. /\ \A q \in Path : IsStrictPrefix(q, s.path) => KindAt(w, q) \in TableKinds
        /\ KindAt(w, s.path) \in TableKinds
    BY <1>5 DEF Declares, TableKinds
  <2> QED BY <1>2, <1>3, <2>1, <2>2 DEF p
<1> QED BY <1>4, <1>5 DEF Slots

LEMMA ChainedStep ==
  ASSUME NEW v, NEW d, NEW w, NEW e, NEW s, Step(v, d, w, e, s), Chained(d)
  PROVE  Chained(e)
<1> DEFINE n == Len(d.stream)
           H == Highest(s)
           L == Lowest(s)
           f == FullPath(s)
<1>1. /\ s \in Slots /\ n \in Nat /\ Len(e.stream) = n + 1 /\ e.stream[n + 1] = s
      /\ \A i \in 1..n : e.stream[i] = d.stream[i] /\ FiledAt(e, i) = FiledAt(d, i)
      /\ FiledAt(e, n + 1) = {At(w, Prefix(f, j)) : j \in H..L}
      /\ Declares(v, w, s)
  BY StepFacts
<1>2. f \in Seq(Key) /\ H \in Nat /\ L \in Nat /\ L <= Len(f) /\ Len(f) \in Nat
  BY <1>1, LevelsOf
<1>3. Matches(w, e) /\ \A a \in DOMAIN e.aot : e.aot[a] \in Seq(Nat)
  BY DEF Step, Agree
<1>4. ASSUME NEW j \in H..L, Len(At(w, Prefix(f, j))[2]) > H
      PROVE  \E y \in FiledAt(e, n + 1) : Above(e, y, At(w, Prefix(f, j)))
  <2>1. At(w, Prefix(f, j))[2] = Prefix(f, j)
    BY DEF At
  <2>2. j \in 0..Len(f)
    BY <1>2
  <2>3. Len(Prefix(f, j)) = j
    <3> HIDE DEF f
    <3> QED BY <1>2, <2>2, PrefixType
  <2>4. j \in (H + 1)..L /\ j \in 1..Len(f) /\ j - 1 \in H..L
    BY <1>2, <1>4, <2>1, <2>3
  <2>5. KindAt(w, Prefix(f, j)) \in TableKinds
    BY <1>1, <2>4, FilingKinds
  <2>6. Prefix(f, j) = Append(Prefix(f, j - 1), f[j]) /\ Prefix(f, j - 1) \in Seq(Key) /\ f[j] \in Key
    <3> HIDE DEF f
    <3> QED BY <1>2, <2>4, PrefixStep
  <2>7. Above(e, At(w, Prefix(f, j - 1)), At(w, Prefix(f, j)))
    <3> DEFINE q == Prefix(f, j - 1)
               k == f[j]
    <3>1. q \in Seq(Key) /\ k \in Key /\ KindAt(w, Append(q, k)) \in TableKinds
      BY <2>5, <2>6
    <3> HIDE DEF q, k
    <3>2. Above(e, At(w, q), At(w, Append(q, k)))
      BY <1>3, <3>1, EntryAbove
    <3> QED BY <2>6, <3>2 DEF q, k
  <2>8. At(w, Prefix(f, j - 1)) \in FiledAt(e, n + 1)
    BY <1>1, <2>4
  <2> QED BY <2>7, <2>8
<1>5. \A x \in FiledAt(e, n + 1) : Len(x[2]) > H => \E y \in FiledAt(e, n + 1) : Above(e, y, x)
  BY <1>1, <1>4
<1> HIDE DEF n, H, L
<1>6. ASSUME NEW i \in 1..n, NEW x \in FiledAt(e, i), Len(x[2]) > Highest(e.stream[i])
      PROVE  \E y \in FiledAt(e, i) : Above(e, y, x)
  <2>1. x \in FiledAt(d, i) /\ Len(x[2]) > Highest(d.stream[i])
    BY <1>1, <1>6
  <2>2. PICK y \in FiledAt(d, i) : Above(d, y, x)
    BY <2>1 DEF Chained, n
  <2>3. Above(e, y, x)
    BY <2>2, AboveKept
  <2> QED BY <1>1, <2>2, <2>3
<1> QED BY <1>1, <1>5, <1>6 DEF Chained, H

LEMMA NamedStep ==
  ASSUME NEW v, NEW d, NEW w, NEW e, NEW s, Step(v, d, w, e, s), Named(d)
  PROVE  Named(e)
<1> DEFINE n == Len(d.stream)
           H == Highest(s)
           L == Lowest(s)
           f == FullPath(s)
<1>1. /\ s \in Slots /\ n \in Nat /\ Len(e.stream) = n + 1 /\ e.stream[n + 1] = s
      /\ \A i \in 1..n : e.stream[i] = d.stream[i] /\ FiledAt(e, i) = FiledAt(d, i)
      /\ FiledAt(e, n + 1) = {At(w, Prefix(f, j)) : j \in H..L}
      /\ Declares(v, w, s)
  BY StepFacts
<1>7. Kept(d, e)
  BY StepFacts
<1>2. f \in Seq(Key) /\ H \in Nat /\ L \in Nat /\ L <= Len(f) /\ Len(f) \in Nat
      /\ (s \in KVSlots => L = Len(f) - 1) /\ (s \in HeaderSlots => L = Len(f))
  BY <1>1, LevelsOf
<1>3. Matches(w, e)
  BY DEF Step, Agree
<1>4. ASSUME NEW j \in H..L, NEW key, Names(s, At(w, Prefix(f, j)), key)
      PROVE  KindOf(e, At(w, Prefix(f, j)), key) # "none"
  <2>1. At(w, Prefix(f, j))[2] = Prefix(f, j) /\ j \in 0..Len(f)
    BY <1>2 DEF At
  <2>2. Len(Prefix(f, j)) = j
    <3> HIDE DEF f
    <3> QED BY <1>2, <2>1, PrefixType
  <2>3. j < Len(f) /\ key = f[j + 1]
    BY <1>4, <2>1, <2>2 DEF Names
  <2>4. j + 1 \in 1..Len(f)
    BY <1>2, <2>3
  <2>5. Prefix(f, j + 1) = Append(Prefix(f, j), f[j + 1]) /\ Prefix(f, j) \in Seq(Key) /\ f[j + 1] \in Key
    <3> DEFINE i == j + 1
    <3>1. i \in 1..Len(f) /\ i - 1 = j
      BY <1>2, <2>4
    <3> HIDE DEF f, i
    <3>2. Prefix(f, i) = Append(Prefix(f, i - 1), f[i]) /\ Prefix(f, i - 1) \in Seq(Key) /\ f[i] \in Key
      BY <1>2, <3>1, PrefixStep
    <3> QED BY <3>1, <3>2 DEF i
  <2>6. KindAt(w, Prefix(f, j + 1)) \in TableKinds \cup {"value"}
    <3>1. CASE j + 1 <= L
      <4>1. j + 1 \in (H + 1)..L
        BY <1>2, <3>1
      <4> QED BY <1>1, <4>1, FilingKinds
    <3>2. CASE ~(j + 1 <= L)
      <4>1. s \in KVSlots /\ j + 1 = Len(f)
        BY <1>1, <1>2, <2>3, <3>2 DEF Slots
      <4>2. Prefix(f, j + 1) = f
        <5> HIDE DEF f
        <5> QED BY <1>2, <2>4, <4>1, PrefixesOf
      <4>3. KindAt(w, f) = "value"
        BY <1>1, <4>1 DEF Declares
      <4> QED BY <4>2, <4>3
    <3> QED BY <3>1, <3>2
  <2>7. KindOf(e, At(w, Prefix(f, j)), key) = TreeKind(KindAt(w, Prefix(f, j + 1)))
    <3> DEFINE q == Prefix(f, j)
    <3>1. Match(w, e, q, key) /\ Append(q, key) = Prefix(f, j + 1)
      BY <1>3, <2>3, <2>5 DEF Matches
    <3> HIDE DEF q
    <3>2. KindOf(e, At(w, q), key) = TreeKind(KindAt(w, Append(q, key)))
      BY <3>1 DEF Match
    <3> QED BY <3>1, <3>2 DEF q
  <2> QED BY <2>6, <2>7 DEF TreeKind, TableKinds
<1>5. \A x \in FiledAt(e, n + 1) : \A key : Names(s, x, key) => KindOf(e, x, key) # "none"
  BY <1>1, <1>4
<1> HIDE DEF n, H, L, f
<1>6. ASSUME NEW i \in 1..n, NEW x \in FiledAt(e, i), NEW key, Names(e.stream[i], x, key)
      PROVE  KindOf(e, x, key) # "none"
  <2>1. x \in FiledAt(d, i) /\ Names(d.stream[i], x, key)
    BY <1>1, <1>6
  <2>2. KindOf(d, x, key) # "none"
    BY <2>1 DEF Named, n
  <2> QED BY <1>7, <2>2 DEF Kept
<1> QED BY <1>1, <1>5, <1>6 DEF Named

LEMMA BoundKey ==
  ASSUME NEW d, IsTree(d.tree), NEW c, NEW key, KindOf(d, c, key) # "none"
  PROVE  key \in Key
<1>1. IsDict(Bindings(d, c))
  BY BindingsType
<1>2. KindIn(Bindings(d, c), key) # "none"
  BY KindIsKindIn
<1> DEFINE items == Bindings(d, c)
<1>3. PICK i \in 1..Len(items) : items[i].key = key
  BY <1>1, <1>2, KindInMeaning
<1>4. items \in Seq(BindingSet)
  BY <1>1 DEF IsDict
<1> HIDE DEF items
<1>5. items[i] \in BindingSet
  BY <1>3, <1>4
<1> QED BY <1>3, <1>5 DEF BindingSet

LEMMA HeldStep ==
  ASSUME NEW v, NEW d, NEW w, NEW e, NEW s, Step(v, d, w, e, s), Held(d)
  PROVE  Held(e)
<1> DEFINE n == Len(d.stream)
           H == Highest(s)
           L == Lowest(s)
           f == FullPath(s)
<1>1. /\ s \in Slots /\ n \in Nat /\ Len(e.stream) = n + 1 /\ e.stream[n + 1] = s
      /\ \A i \in 1..n : e.stream[i] = d.stream[i] /\ FiledAt(e, i) = FiledAt(d, i)
      /\ FiledAt(e, n + 1) = {At(w, Prefix(f, j)) : j \in H..L}
      /\ Declares(v, w, s)
  BY StepFacts
<1>2. Elsewhere(d, e, FiledAt(e, n + 1))
  BY StepFacts
<1>3. f \in Seq(Key) /\ f \in Path /\ H \in Nat /\ L \in Nat /\ L <= Len(f) /\ Len(f) \in Nat
  BY <1>1, LevelsOf
<1>4. Matches(v, d) /\ Matches(w, e) /\ IsTree(e.tree)
  BY DEF Step, Agree
<1>5. ASSUME NEW j \in H..L, NEW key, KindOf(e, At(w, Prefix(f, j)), key) # "none",
             KindOf(d, At(w, Prefix(f, j)), key) = "none"
      PROVE  Names(s, At(w, Prefix(f, j)), key)
  <2> DEFINE q == Prefix(f, j)
             p == Append(q, key)
  <2>1. j \in 0..Len(f) /\ key \in Key
    BY <1>3, <1>4, <1>5, BoundKey
  <2>2. q \in Seq(Key) /\ Len(q) = j /\ At(w, q)[2] = q
    <3> HIDE DEF f
    <3> QED BY <1>3, <2>1, PrefixType DEF At
  <2> HIDE DEF q
  <2>3. p \in Path /\ Len(p) = Len(q) + 1 /\ IsStrictPrefix(q, p)
    BY <2>1, <2>2, ChildPath DEF Path
  <2>4. KindAt(w, p) # "none"
    <3>1. KindOf(e, At(w, q), key) = TreeKind(KindAt(w, p))
      BY <1>4, <2>1, <2>2 DEF Matches, Match
    <3> QED BY <1>5, <3>1 DEF TreeKind, q
  <2>5. ~OpensAbove(s, q)
    <3> SUFFICES ASSUME OpensAbove(s, q) PROVE FALSE
      OBVIOUS
    <3>1. IsEntryHeader(s) /\ (s.path = q \/ IsStrictPrefix(s.path, q)) /\ s.path \in Seq(Key)
      BY <1>1, SlotsType DEF OpensAbove, IsEntryHeader, Slots, Path
    <3>2. IsStrictPrefix(s.path, p)
      BY <2>1, <2>2, <2>3, <3>1, ChildPath
    <3> QED BY <1>1, <2>3, <2>4, <3>1, <3>2 DEF Declares
  <2>6. At(w, q) = At(v, q)
    BY <1>1, <2>2, <2>5 DEF Declares, At
  <2>7. KindAt(v, p) = "none"
    <3>1. KindOf(d, At(v, q), key) = TreeKind(KindAt(v, p))
      BY <1>4, <2>1, <2>2 DEF Matches, Match
    <3> QED BY <1>5, <2>6, <3>1 DEF TreeKind, q
  <2>8. p = f \/ IsStrictPrefix(p, f)
    BY <1>1, <2>3, <2>4, <2>7 DEF Declares
  <2>9. Len(p) <= Len(f) /\ p[Len(q) + 1] = f[Len(q) + 1]
    <3>1. p \in Seq(Key) /\ Len(p) \in Nat
      BY <2>3 DEF Path
    <3>2. CASE p = f
      BY <3>1, <3>2
    <3>3. CASE IsStrictPrefix(p, f)
      <4>1. Len(p) < Len(f) /\ \A i \in 1..Len(p) : p[i] = f[i]
        <5> HIDE DEF f, p
        <5> QED BY <1>3, <3>1, <3>3, StrictPrefixMeaning
      <4>2. Len(q) + 1 \in 1..Len(p)
        BY <2>2, <2>3
      <4> QED BY <1>3, <3>1, <4>1, <4>2
    <3> QED BY <2>8, <3>2, <3>3
  <2>10. p[Len(q) + 1] = key
    BY <2>1, <2>2
  <2>11. Len(q) < Len(f)
    <3> HIDE DEF p, f
    <3> QED BY <1>3, <2>2, <2>3, <2>9
  <2> QED BY <2>2, <2>9, <2>10, <2>11 DEF Names, q
<1> HIDE DEF n, H, L, f
<1>6. ASSUME NEW c, NEW key, KindOf(e, c, key) # "none"
      PROVE  \E i \in 1..(n + 1) : c \in FiledAt(e, i) /\ Names(e.stream[i], c, key)
  <2>1. CASE KindOf(d, c, key) # "none"
    <3>1. PICK i \in 1..n : c \in FiledAt(d, i) /\ Names(d.stream[i], c, key)
      BY <2>1 DEF Held, n
    <3>2. i \in 1..(n + 1)
      BY <1>1, <3>1
    <3> QED BY <1>1, <3>1, <3>2
  <2>2. CASE KindOf(d, c, key) = "none"
    <3>1. c \in FiledAt(e, n + 1)
      BY <1>2, <1>6, <2>2 DEF Elsewhere
    <3>2. PICK j \in H..L : c = At(w, Prefix(f, j))
      BY <1>1, <3>1
    <3>3. Names(s, c, key)
      BY <1>5, <1>6, <2>2, <3>2
    <3>4. n + 1 \in 1..(n + 1)
      BY <1>1
    <3> QED BY <1>1, <3>1, <3>3, <3>4
  <2> QED BY <2>1, <2>2
<1> QED BY <1>1, <1>6 DEF Held

-----------------------------------------------------------------------------
(* Arrays of tables.                                                       *)

(* Opening an entry, a header is filed on the table that binds the array.  *)
LEMMA OpenedAt ==
  ASSUME NEW v, NEW d, NEW w, NEW e, NEW s, Step(v, d, w, e, s), IsEntryHeader(s)
  PROVE  /\ s \in HeaderSlots /\ s.entry \in Nat \ {0} /\ s.owner = s.entry /\ s.path \in Path
         /\ OpenedArray(v, s) \in Nat \X Path /\ OpenedArray(v, s)[2] = s.path
         /\ <<OpenedArray(v, s)[1], Front(s.path)>> \in FiledAt(e, Len(d.stream) + 1)
<1> DEFINE n == Len(d.stream)
           f == FullPath(s)
           q == Front(s.path)
<1>1. /\ s \in Slots
      /\ FiledAt(e, n + 1) = {At(w, Prefix(f, j)) : j \in Highest(s)..Lowest(s)}
      /\ Declares(v, w, s)
  BY StepFacts
<1>2. /\ s \in HeaderSlots /\ s.path \in Path /\ s.entry \in Nat \ {0} /\ s.owner \in Nat
  BY <1>1, SlotsType DEF Slots, IsEntryHeader, NoEntry
<1>3. f = s.path /\ Highest(s) = 0 /\ Lowest(s) = Len(f)
  BY <1>1, <1>2, LevelsOf
<1>4. Len(s.path) \in Nat \ {0} /\ q \in Seq(Key) /\ q = Prefix(s.path, Len(s.path) - 1) /\ Len(q) = Len(s.path) - 1
  BY <1>2, FrontLast
<1> HIDE DEF q
<1>5. ~OpensAbove(s, q) /\ OpensAbove(s, s.path)
  <2>1. s.path # q
    BY <1>4
  <2>2. ~IsStrictPrefix(s.path, q)
    <3>1. s.path \in Seq(Key)
      BY <1>2 DEF Path
    <3>2. ~(Len(s.path) < Len(q))
      BY <1>4
    <3> QED BY <1>4, <3>1, <3>2, StrictPrefixMeaning
  <2> QED BY <2>1, <2>2 DEF OpensAbove
<1>6. At(w, q) = <<Own(v, q), q>>
  BY <1>1, <1>4, <1>5 DEF Declares, At
<1>7. At(w, q) \in FiledAt(e, n + 1)
  <2>1. Len(f) - 1 \in Highest(s)..Lowest(s)
    BY <1>3, <1>4
  <2>2. At(w, Prefix(f, Len(f) - 1)) \in FiledAt(e, n + 1)
    BY <1>1, <2>1
  <2> QED BY <1>3, <1>4, <2>2
<1>8. s.owner = s.entry
  <2>1. Len(f) \in Highest(s)..Lowest(s)
    BY <1>3, <1>4
  <2>2. At(w, Prefix(f, Len(f))) = <<s.owner, Prefix(f, Len(f))>>
    BY <1>1, <1>3, <2>1 DEF Declares
  <2>3. Prefix(f, Len(f)) = s.path
    <3>1. Len(f) \in 1..Len(f) /\ f \in Seq(Key)
      BY <1>2, <1>3, <1>4 DEF Path
    <3>2. Prefix(f, Len(f)) = f
      <4> HIDE DEF f
      <4> QED BY <3>1, PrefixesOf
    <3> QED BY <1>3, <3>2
  <2>4. Own(w, s.path) = s.entry
    <3>1. s.path \in Seq(Key)
      BY <1>2 DEF Path
    <3> QED BY <1>1, <1>5, <3>1 DEF Declares
  <2> QED BY <2>2, <2>3, <2>4 DEF At
<1>9. Own(v, q) \in Nat
  <2>1. IsValidator(v)
    BY DEF Step, Agree
  <2> QED BY <1>4, <2>1, OwnType
<1> QED BY <1>2, <1>6, <1>7, <1>8, <1>9 DEF OpenedArray, q

LEMMA ArraysHomedStep ==
  ASSUME NEW v, NEW d, NEW w, NEW e, NEW s, Step(v, d, w, e, s), ArraysHomed(d)
  PROVE  ArraysHomed(e)
<1> DEFINE n == Len(d.stream)
<1>1. /\ n \in Nat /\ Len(e.stream) = n + 1 /\ e.stream[n + 1] = s
      /\ \A i \in 1..n : e.stream[i] = d.stream[i] /\ FiledAt(e, i) = FiledAt(d, i)
  BY StepFacts
<1>2. /\ \A a \in DOMAIN d.aot : d.aot[a] \in Seq(Nat)
      /\ \A a \in DOMAIN e.aot :
              \/ a \in DOMAIN d.aot /\ e.aot[a] = d.aot[a]
              \/ /\ a = OpenedArray(v, s) /\ IsEntryHeader(s) /\ EntriesOf(d, a) \in Seq(Nat)
                 /\ e.aot[a] = Append(EntriesOf(d, a), s.entry)
  BY EntriesGrow
<1> DEFINE Home(a, x) == \E g \in 1..Len(e.stream) :
                           /\ Opens(e.stream[g], x) /\ e.stream[g].path = a[2]
                           /\ <<a[1], Front(a[2])>> \in FiledAt(e, g)
<1>3. ASSUME NEW a \in DOMAIN d.aot, NEW j \in 1..Len(d.aot[a])
      PROVE  a \in Nat \X Path /\ Home(a, d.aot[a][j])
  <2>1. PICK g \in 1..n : /\ Opens(d.stream[g], d.aot[a][j]) /\ d.stream[g].path = a[2]
                          /\ <<a[1], Front(a[2])>> \in FiledAt(d, g)
    BY <1>3 DEF ArraysHomed, n
  <2>2. g \in 1..Len(e.stream) /\ e.stream[g] = d.stream[g] /\ FiledAt(e, g) = FiledAt(d, g)
    BY <1>1, <2>1
  <2>3. a \in Nat \X Path
    BY <1>3 DEF ArraysHomed
  <2> QED BY <2>1, <2>2, <2>3
<1>4. ASSUME NEW a \in DOMAIN e.aot
      PROVE  a \in Nat \X Path /\ \A j \in 1..Len(e.aot[a]) : Home(a, e.aot[a][j])
  <2>1. CASE a \in DOMAIN d.aot /\ e.aot[a] = d.aot[a]
    <3>1. a \in Nat \X Path
      BY <2>1 DEF ArraysHomed
    <3> HIDE DEF Home
    <3> QED BY <1>3, <2>1, <3>1
  <2>2. CASE /\ a = OpenedArray(v, s) /\ IsEntryHeader(s) /\ EntriesOf(d, a) \in Seq(Nat)
             /\ e.aot[a] = Append(EntriesOf(d, a), s.entry)
    <3> DEFINE Q == EntriesOf(d, a)
    <3>1. /\ a \in Nat \X Path /\ a[2] = s.path /\ <<a[1], Front(a[2])>> \in FiledAt(e, n + 1)
      BY <2>2, OpenedAt
    <3>2. Home(a, s.entry)
      <4>1. n + 1 \in 1..Len(e.stream)
        BY <1>1
      <4> QED BY <1>1, <2>2, <3>1, <4>1 DEF Opens
    <3>3. \A j \in 1..Len(Q) : Home(a, Q[j])
      <4>1. CASE a \in DOMAIN d.aot
        <5>1. Q = d.aot[a]
          BY <4>1 DEF EntriesOf
        <5> HIDE DEF Home, Q
        <5> QED BY <1>3, <4>1, <5>1
      <4>2. CASE a \notin DOMAIN d.aot
        <5>1. Q = <<>>
          BY <4>2 DEF EntriesOf
        <5> QED BY <5>1
      <4> QED BY <4>1, <4>2
    <3>4. Q \in Seq(Nat) /\ e.aot[a] = Append(Q, s.entry)
      BY <2>2
    <3> HIDE DEF Home, Q
    <3>5. ASSUME NEW j \in 1..Len(e.aot[a]) PROVE Home(a, e.aot[a][j])
      <4>1. (j \in 1..Len(Q) /\ e.aot[a][j] = Q[j]) \/ e.aot[a][j] = s.entry
        BY <3>4
      <4> QED BY <3>2, <3>3, <4>1
    <3> QED BY <3>1, <3>5
  <2> HIDE DEF Home
  <2> QED BY <1>2, <2>1, <2>2
<1> QED BY <1>4 DEF ArraysHomed

LEMMA EntriesApartStep ==
  ASSUME NEW v, NEW d, NEW w, NEW e, NEW s, Step(v, d, w, e, s), EntriesApart(d)
  PROVE  EntriesApart(e)
<1> DEFINE n == Len(d.stream)
<1>1. /\ n \in Nat /\ Len(e.stream) = n + 1 /\ e.stream[n + 1] = s
      /\ \A i \in 1..n : e.stream[i] = d.stream[i]
  BY StepFacts
<1>2. \A i \in 1..n : \A x : Opens(d.stream[i], x) => ~Opens(s, x)
  <2> SUFFICES ASSUME NEW i \in 1..n, NEW x, Opens(d.stream[i], x), Opens(s, x) PROVE FALSE
    OBVIOUS
  <2>1. x \in Old(d)
    BY DEF Opens, Old
  <2> QED BY <2>1 DEF Step, Opens
<1>3. \A g, h \in 1..n : \A x : Opens(d.stream[g], x) /\ Opens(d.stream[h], x) => g = h
  BY DEF EntriesApart
<1> HIDE DEF n
<1>4. \A g \in 1..Len(e.stream) : g \in 1..n \/ g = n + 1
  BY <1>1
<1> QED BY <1>1, <1>2, <1>3, <1>4 DEF EntriesApart

LEMMA EntriesListedStep ==
  ASSUME NEW v, NEW d, NEW w, NEW e, NEW s, Step(v, d, w, e, s), EntriesListed(d)
  PROVE  EntriesListed(e)
<1> DEFINE n == Len(d.stream)
<1>1. /\ n \in Nat /\ Len(e.stream) = n + 1 /\ e.stream[n + 1] = s
      /\ \A i \in 1..n : e.stream[i] = d.stream[i]
  BY StepFacts
<1>2. /\ DOMAIN d.aot \subseteq DOMAIN e.aot
      /\ IsEntryHeader(s) => /\ OpenedArray(v, s) \in DOMAIN e.aot
                             /\ e.aot[OpenedArray(v, s)] = Append(EntriesOf(d, OpenedArray(v, s)), s.entry)
      /\ \A a : Range(EntriesOf(d, a)) \subseteq Range(EntriesOf(e, a))
  BY EntriesGrow
<1>3. ASSUME NEW g \in 1..n, NEW x, Opens(d.stream[g], x)
      PROVE  d.stream[g].owner = x /\ \E a \in DOMAIN e.aot : x \in Range(e.aot[a])
  <2>1. PICK a \in DOMAIN d.aot : x \in Range(d.aot[a])
    BY <1>3 DEF EntriesListed
  <2>2. a \in DOMAIN e.aot /\ EntriesOf(d, a) = d.aot[a] /\ EntriesOf(e, a) = e.aot[a]
    BY <1>2, <2>1 DEF EntriesOf
  <2>3. x \in Range(e.aot[a])
    BY <1>2, <2>1, <2>2
  <2>4. d.stream[g].owner = x
    BY <1>3 DEF EntriesListed
  <2> QED BY <2>2, <2>3, <2>4
<1>4. ASSUME IsEntryHeader(s)
      PROVE  s.owner = s.entry /\ \E a \in DOMAIN e.aot : s.entry \in Range(e.aot[a])
  <2> DEFINE a == OpenedArray(v, s)
             Q == EntriesOf(d, a)
  <2>1. \A b \in DOMAIN d.aot : d.aot[b] \in Seq(Nat)
    BY EntriesGrow
  <2>2. Q \in Seq(Nat)
    BY <2>1 DEF EntriesOf
  <2>3. a \in DOMAIN e.aot /\ e.aot[a] = Append(Q, s.entry)
    BY <1>2, <1>4
  <2> HIDE DEF a, Q
  <2>4. s.entry \in Range(e.aot[a])
    <3>1. Len(Q) + 1 \in DOMAIN Append(Q, s.entry) /\ Append(Q, s.entry)[Len(Q) + 1] = s.entry
      BY <2>2
    <3> QED BY <2>3, <3>1 DEF Range
  <2>5. s.owner = s.entry
    BY <1>4, OpenedAt
  <2> QED BY <2>3, <2>4, <2>5
<1> HIDE DEF n
<1>5. \A g \in 1..Len(e.stream) : g \in 1..n \/ g = n + 1
  BY <1>1
<1>6. ASSUME NEW g \in 1..Len(e.stream), NEW x, Opens(e.stream[g], x)
      PROVE  e.stream[g].owner = x /\ \E a \in DOMAIN e.aot : x \in Range(e.aot[a])
  <2>1. CASE g \in 1..n
    BY <1>1, <1>3, <1>6, <2>1
  <2>2. CASE g = n + 1
    <3>1. IsEntryHeader(s) /\ x = s.entry
      BY <1>1, <1>6, <2>2 DEF Opens
    <3> QED BY <1>1, <1>4, <2>2, <3>1
  <2> QED BY <1>5, <2>1, <2>2
<1> QED BY <1>6 DEF EntriesListed

LEMMA EntriesInTurnStep ==
  ASSUME NEW v, NEW d, NEW w, NEW e, NEW s, Step(v, d, w, e, s), EntriesInTurn(d), ArraysHomed(d),
         EntriesApart(e)
  PROVE  EntriesInTurn(e)
<1> DEFINE n == Len(d.stream)
<1>1. /\ n \in Nat /\ Len(e.stream) = n + 1 /\ e.stream[n + 1] = s
      /\ \A i \in 1..n : e.stream[i] = d.stream[i]
  BY StepFacts
<1>2. /\ \A a \in DOMAIN d.aot : d.aot[a] \in Seq(Nat)
      /\ \A a \in DOMAIN e.aot :
              \/ a \in DOMAIN d.aot /\ e.aot[a] = d.aot[a]
              \/ /\ a = OpenedArray(v, s) /\ IsEntryHeader(s) /\ EntriesOf(d, a) \in Seq(Nat)
                 /\ e.aot[a] = Append(EntriesOf(d, a), s.entry)
  BY EntriesGrow
<1>3. ASSUME NEW a \in DOMAIN d.aot, NEW j \in 1..Len(d.aot[a]), NEW g \in 1..Len(e.stream),
             Opens(e.stream[g], d.aot[a][j])
      PROVE  g \in 1..n /\ Opens(d.stream[g], d.aot[a][j])
  <2>1. PICK h \in 1..n : Opens(d.stream[h], d.aot[a][j])
    BY <1>3 DEF ArraysHomed, n
  <2>2. h \in 1..Len(e.stream) /\ Opens(e.stream[h], d.aot[a][j])
    BY <1>1, <2>1
  <2>3. g = h
    BY <1>3, <2>2 DEF EntriesApart
  <2> QED BY <2>1, <2>3
<1>4. ASSUME NEW a \in DOMAIN d.aot, NEW i \in 1..Len(d.aot[a]), NEW j \in 1..Len(d.aot[a]), i < j,
             NEW g \in 1..Len(e.stream), NEW h \in 1..Len(e.stream),
             Opens(e.stream[g], d.aot[a][i]), Opens(e.stream[h], d.aot[a][j])
      PROVE  g < h
  <2>1. g \in 1..n /\ h \in 1..n /\ Opens(d.stream[g], d.aot[a][i]) /\ Opens(d.stream[h], d.aot[a][j])
    BY <1>3, <1>4
  <2> QED BY <1>4, <2>1 DEF EntriesInTurn
<1>5. ASSUME NEW a \in DOMAIN e.aot, NEW i \in 1..Len(e.aot[a]), NEW j \in 1..Len(e.aot[a]), i < j,
             NEW g \in 1..Len(e.stream), NEW h \in 1..Len(e.stream),
             Opens(e.stream[g], e.aot[a][i]), Opens(e.stream[h], e.aot[a][j])
      PROVE  g < h
  <2>1. CASE a \in DOMAIN d.aot /\ e.aot[a] = d.aot[a]
    BY <1>4, <1>5, <2>1
  <2>2. CASE /\ a = OpenedArray(v, s) /\ IsEntryHeader(s) /\ EntriesOf(d, a) \in Seq(Nat)
             /\ e.aot[a] = Append(EntriesOf(d, a), s.entry)
    <3> DEFINE Q == EntriesOf(d, a)
    <3>1. Q \in Seq(Nat) /\ e.aot[a] = Append(Q, s.entry)
      BY <2>2
    <3> HIDE DEF Q, n
    <3>2. i \in 1..Len(Q) /\ e.aot[a][i] = Q[i]
      BY <1>5, <3>1
    <3>3. a \in DOMAIN d.aot /\ Q = d.aot[a]
      <4>1. Q # <<>>
        BY <3>1, <3>2
      <4> QED BY <4>1 DEF EntriesOf, Q
    <3>4. g \in 1..n
      BY <1>3, <1>5, <3>2, <3>3
    <3>5. CASE j \in 1..Len(Q)
      <4>1. e.aot[a][j] = Q[j]
        BY <3>1, <3>5
      <4> QED BY <1>4, <1>5, <3>2, <3>3, <3>5, <4>1
    <3>6. CASE j \notin 1..Len(Q)
      <4>1. e.aot[a][j] = s.entry
        BY <3>1, <3>6
      <4>2. n + 1 \in 1..Len(e.stream) /\ Opens(e.stream[n + 1], s.entry)
        BY <1>1, <2>2 DEF Opens
      <4>3. h = n + 1
        BY <1>5, <4>1, <4>2 DEF EntriesApart
      <4> QED BY <1>1, <3>4, <4>3
    <3> QED BY <3>5, <3>6
  <2> QED BY <1>2, <2>1, <2>2
<1> QED BY <1>5 DEF EntriesInTurn

-----------------------------------------------------------------------------
(* What is in force.                                                       *)

LEMMA RulesKept ==
  ASSUME NEW v, NEW d, NEW w, NEW e, NEW s, Step(v, d, w, e, s),
         NEW i \in 1..Len(d.stream), NEW g \in 1..i, NEW x, NEW p, Rules(d, g, i, x, p)
  PROVE  /\ Rules(e, g, i, x, p)
         /\ i = Len(d.stream) /\ ~OpensAbove(s, p) => Rules(e, g, i + 1, x, p)
<1> DEFINE n == Len(d.stream)
<1>1. /\ n \in Nat /\ Len(e.stream) = n + 1 /\ e.stream[n + 1] = s
      /\ \A k \in 1..n : e.stream[k] = d.stream[k]
  BY StepFacts
<1>2. g \in 1..n /\ \A k \in (g + 1)..i : k \in 1..n
  OBVIOUS
<1>3. Opens(e.stream[g], x) /\ OpensAbove(e.stream[g], p) /\ \A k \in (g + 1)..i : ~OpensAbove(e.stream[k], p)
  BY <1>1, <1>2 DEF Rules
<1>4. ASSUME i = n, ~OpensAbove(s, p), NEW k \in (g + 1)..(i + 1)
      PROVE  ~OpensAbove(e.stream[k], p)
  <2>1. k \in (g + 1)..i \/ k = n + 1
    BY <1>4
  <2> QED BY <1>1, <1>3, <1>4, <2>1
<1> QED BY <1>3, <1>4 DEF Rules

LEMMA EntryInForceStep ==
  ASSUME NEW v, NEW d, NEW w, NEW e, NEW s, Step(v, d, w, e, s), EntryInForce(v, d)
  PROVE  EntryInForce(w, e)
<1> DEFINE n == Len(d.stream)
<1>1. /\ n \in Nat /\ Len(e.stream) = n + 1 /\ e.stream[n + 1] = s /\ Declares(v, w, s)
  BY StepFacts
<1>2. ASSUME NEW q \in Seq(Key), Own(w, q) # NoEntry
      PROVE  \E g \in 1..(n + 1) : Rules(e, g, n + 1, Own(w, q), q)
  <2>1. CASE OpensAbove(s, q)
    <3>1. Own(w, q) = s.entry /\ Opens(s, s.entry)
      BY <1>1, <2>1 DEF Declares, Opens, OpensAbove
    <3>2. n + 1 \in 1..(n + 1) /\ \A k \in ((n + 1) + 1)..(n + 1) : FALSE
      BY <1>1
    <3> QED BY <1>1, <2>1, <3>1, <3>2 DEF Rules
  <2>2. CASE ~OpensAbove(s, q)
    <3>1. Own(w, q) = Own(v, q)
      BY <1>1, <2>2 DEF Declares
    <3>2. PICK g \in 1..n : Rules(d, g, n, Own(v, q), q)
      BY <1>2, <3>1 DEF EntryInForce
    <3>3. n \in 1..n /\ g \in 1..(n + 1)
      BY <1>1, <3>2
    <3>4. Rules(e, g, n + 1, Own(v, q), q)
      BY <2>2, <3>2, <3>3, RulesKept
    <3> QED BY <3>1, <3>3, <3>4
  <2> QED BY <2>1, <2>2
<1>3. ASSUME NEW q \in Seq(Key), Own(w, q) = NoEntry
      PROVE  Unruled(e, n + 1, q)
  <2>1. ~OpensAbove(s, q)
    <3>1. OpensAbove(s, q) => Own(w, q) = s.entry /\ s.entry # NoEntry
      BY <1>1 DEF Declares, OpensAbove, IsEntryHeader
    <3> QED BY <1>3, <3>1
  <2>2. Own(v, q) = NoEntry
    BY <1>1, <1>3, <2>1 DEF Declares
  <2>3. Unruled(d, n, q)
    BY <2>2 DEF EntryInForce
  <2>4. \A i \in 1..n : e.stream[i] = d.stream[i]
    BY StepFacts
  <2>5. \A i \in 1..(n + 1) : i \in 1..n \/ i = n + 1
    BY <1>1
  <2> QED BY <1>1, <2>1, <2>3, <2>4, <2>5 DEF Unruled
<1> HIDE DEF n
<1> QED BY <1>1, <1>2, <1>3 DEF EntryInForce

LEMMA FiledInForceStep ==
  ASSUME NEW v, NEW d, NEW w, NEW e, NEW s, Step(v, d, w, e, s), FiledInForce(d), EntryInForce(w, e)
  PROVE  FiledInForce(e)
<1> DEFINE n == Len(d.stream)
           f == FullPath(s)
<1>1. /\ s \in Slots /\ n \in Nat /\ Len(e.stream) = n + 1
      /\ \A i \in 1..n : FiledAt(e, i) = FiledAt(d, i)
      /\ FiledAt(e, n + 1) = {At(w, Prefix(f, j)) : j \in Highest(s)..Lowest(s)}
  <2>1. /\ s \in Slots /\ n \in Nat /\ Len(e.stream) = n + 1 /\ e.stream[n + 1] = s
        /\ \A i \in 1..n : /\ e.stream[i] = d.stream[i] /\ d.stream[i] \in Slots /\ d.stream[i] # s
                           /\ FiledAt(e, i) = FiledAt(d, i)
    BY StepFacts
  <2>2. FiledAt(e, n + 1) = {At(w, Prefix(f, j)) : j \in Highest(s)..Lowest(s)}
    BY StepFacts
  <2> QED BY <2>1, <2>2
<1>2. /\ f \in Seq(Key) /\ Highest(s) \in Nat /\ Lowest(s) \in Nat /\ Lowest(s) <= Len(f) /\ Len(f) \in Nat
  BY <1>1, LevelsOf
<1>3. ASSUME NEW x \in FiledAt(e, n + 1), x[1] # NoEntry
      PROVE  \E g \in 1..(n + 1) : Rules(e, g, n + 1, x[1], x[2])
  <2>1. PICK j \in Highest(s)..Lowest(s) : x = At(w, Prefix(f, j))
    BY <1>1, <1>3
  <2> DEFINE q == Prefix(f, j)
  <2>2. j \in 0..Len(f)
    BY <1>2
  <2>3. q \in Seq(Key)
    <3> HIDE DEF f
    <3> QED BY <1>2, <2>2, PrefixType
  <2> HIDE DEF q
  <2>4. x[1] = Own(w, q) /\ x[2] = q
    BY <2>1 DEF At, q
  <2> QED BY <1>1, <1>3, <2>3, <2>4 DEF EntryInForce
<1>6. ASSUME NEW x \in FiledAt(e, n + 1), x[1] = NoEntry
      PROVE  Unruled(e, n + 1, x[2])
  <2>1. PICK j \in Highest(s)..Lowest(s) : x = At(w, Prefix(f, j))
    BY <1>1, <1>6
  <2> DEFINE q == Prefix(f, j)
  <2>2. j \in 0..Len(f)
    BY <1>2
  <2>3. q \in Seq(Key)
    <3> HIDE DEF f
    <3> QED BY <1>2, <2>2, PrefixType
  <2> HIDE DEF q
  <2>4. x[1] = Own(w, q) /\ x[2] = q
    BY <2>1 DEF At, q
  <2> QED BY <1>1, <1>6, <2>3, <2>4 DEF EntryInForce
<1>7. \A i \in 1..n : e.stream[i] = d.stream[i]
  BY StepFacts
<1> HIDE DEF n, f
<1>8. ASSUME NEW i \in 1..n, NEW x \in FiledAt(e, i), x[1] = NoEntry
      PROVE  Unruled(e, i, x[2])
  <2>1. Unruled(d, i, x[2])
    BY <1>1, <1>8 DEF FiledInForce, n
  <2>2. \A k \in 1..i : k \in 1..n
    BY <1>1
  <2> QED BY <1>7, <2>1, <2>2 DEF Unruled
<1>4. ASSUME NEW i \in 1..n, NEW x \in FiledAt(e, i), x[1] # NoEntry
      PROVE  \E g \in 1..i : Rules(e, g, i, x[1], x[2])
  <2>1. PICK g \in 1..i : Rules(d, g, i, x[1], x[2])
    BY <1>1, <1>4 DEF FiledInForce, n
  <2>2. Rules(e, g, i, x[1], x[2])
    BY <2>1, RulesKept DEF n
  <2> QED BY <2>2
<1>5. \A i \in 1..Len(e.stream) : i \in 1..n \/ i = n + 1
  BY <1>1
<1> QED BY <1>1, <1>3, <1>4, <1>5, <1>6, <1>8 DEF FiledInForce

LEMMA WithinKept ==
  ASSUME NEW v, NEW d, NEW w, NEW e, NEW s, Step(v, d, w, e, s),
         NEW i \in 0..Len(d.stream), NEW o, NEW p, Within(d, i, o, p)
  PROVE  /\ Within(e, i, o, p)
         /\ i = Len(d.stream) /\ IsKV(s) /\ s.host = p => Within(e, i + 1, o, p)
<1> DEFINE n == Len(d.stream)
<1>1. /\ n \in Nat /\ Len(e.stream) = n + 1 /\ e.stream[n + 1] = s
      /\ \A k \in 1..n : e.stream[k] = d.stream[k]
  BY StepFacts
<1> HIDE DEF n
<1>2. CASE o = NoEntry /\ p = <<>> /\ \A k \in 1..i : IsKV(d.stream[k])
  <2>1. i \in 0..n /\ \A k \in 1..i : k \in 1..n
    BY <1>1 DEF n
  <2>2. \A k \in 1..i : IsKV(e.stream[k])
    BY <1>1, <1>2, <2>1
  <2>3. \A k \in 1..(i + 1) : k \in 1..i \/ k = i + 1
    BY <1>1, <2>1
  <2>4. i = n /\ IsKV(s) => \A k \in 1..(i + 1) : IsKV(e.stream[k])
    BY <1>1, <2>2, <2>3
  <2> QED BY <1>2, <2>2, <2>4 DEF Within, n
<1>3. ASSUME NEW j \in 1..i, Under(d, j, i, o, p)
      PROVE  /\ Within(e, i, o, p)
             /\ i = n /\ IsKV(s) /\ s.host = p => Within(e, i + 1, o, p)
  <2>1. i \in 0..n /\ j \in 1..n /\ j \in 1..(i + 1) /\ \A k \in (j + 1)..i : k \in 1..n
    BY <1>1 DEF n
  <2>2. IsHeader(e.stream[j]) /\ Top(e.stream[j]) = <<o, p>>
    BY <1>1, <1>3, <2>1 DEF Under
  <2>3. \A k \in (j + 1)..i : IsKV(e.stream[k]) /\ e.stream[k].host = p
    BY <1>1, <1>3, <2>1 DEF Under
  <2>4. \A k \in (j + 1)..(i + 1) : k \in (j + 1)..i \/ k = i + 1
    BY <1>1, <2>1
  <2>5. i = n /\ IsKV(s) /\ s.host = p =>
          \A k \in (j + 1)..(i + 1) : IsKV(e.stream[k]) /\ e.stream[k].host = p
    BY <1>1, <2>3, <2>4
  <2> QED BY <2>1, <2>2, <2>3, <2>5 DEF Within, Under
<1> QED BY <1>2, <1>3 DEF Within, n

LEMMA SectionInForceStep ==
  ASSUME NEW v, NEW d, NEW w, NEW e, NEW s, Step(v, d, w, e, s), SectionInForce(v, d)
  PROVE  SectionInForce(w, e)
<1> DEFINE n == Len(d.stream)
<1>1. /\ s \in Slots /\ n \in Nat /\ Len(e.stream) = n + 1 /\ e.stream[n + 1] = s /\ Declares(v, w, s)
  BY StepFacts
<1>2. w.section = Scope(s) /\ w.owner = s.owner
  BY <1>1 DEF Declares
<1>3. CASE s \in KVSlots
  <2>1. IsKV(s) /\ s.host = v.section /\ s.owner = v.owner
    BY <1>1, <1>3, SlotsType DEF Declares
  <2>2. n \in 0..n /\ Within(d, n, v.owner, v.section)
    BY <1>1 DEF SectionInForce
  <2>3. Within(e, n + 1, v.owner, v.section)
    BY <2>1, <2>2, WithinKept
  <2> QED BY <1>1, <1>2, <2>1, <2>3 DEF SectionInForce, Scope
<1>4. CASE s \in HeaderSlots
  <2>1. IsHeader(s) /\ ~IsKV(s) /\ Top(s) = <<s.owner, s.path>>
    BY <1>1, <1>4, SlotsType, LevelsOf
  <2>2. n + 1 \in 1..(n + 1) /\ \A k \in ((n + 1) + 1)..(n + 1) : FALSE
    BY <1>1
  <2>3. Under(e, n + 1, n + 1, s.owner, s.path)
    BY <1>1, <2>1, <2>2 DEF Under
  <2> QED BY <1>1, <1>2, <2>1, <2>2, <2>3 DEF SectionInForce, Within, Scope
<1> QED BY <1>1, <1>3, <1>4 DEF Slots

LEMMA SectionedStep ==
  ASSUME NEW v, NEW d, NEW w, NEW e, NEW s, Step(v, d, w, e, s), Sectioned(d), SectionInForce(w, e)
  PROVE  Sectioned(e)
<1> DEFINE n == Len(d.stream)
<1>1. /\ n \in Nat /\ Len(e.stream) = n + 1 /\ e.stream[n + 1] = s /\ Declares(v, w, s)
      /\ \A k \in 1..n : e.stream[k] = d.stream[k]
  BY StepFacts
<1>2. IsKV(s) => Within(e, n + 1, s.owner, s.host)
  BY <1>1 DEF SectionInForce, Declares, Scope
<1>3. ASSUME NEW i \in 1..n, IsKV(e.stream[i])
      PROVE  Within(e, i, e.stream[i].owner, e.stream[i].host)
  <2>1. Within(d, i, e.stream[i].owner, e.stream[i].host)
    BY <1>1, <1>3 DEF Sectioned
  <2>2. i \in 0..n
    OBVIOUS
  <2> QED BY <2>1, <2>2, WithinKept
<1> HIDE DEF n
<1>4. \A i \in 1..Len(e.stream) : i \in 1..n \/ i = n + 1
  BY <1>1
<1> QED BY <1>1, <1>2, <1>3, <1>4 DEF Sectioned

-----------------------------------------------------------------------------
(* What a line declared is still known.                                    *)

LEMMA TopFiled ==
  ASSUME NEW s \in Slots, NEW C, LevelsAt(s, C)
  PROVE  Top(s) \in C
<1>1. PICK o \in [Highest(s)..Lowest(s) -> Nat] :
        /\ C = {<<o[j], Prefix(FullPath(s), j)>> : j \in Highest(s)..Lowest(s)}
        /\ o[Lowest(s)] = s.owner
  BY DEF LevelsAt
<1>2. Highest(s) \in Nat /\ Lowest(s) \in Nat /\ Highest(s) <= Lowest(s)
      /\ Top(s) = <<s.owner, Prefix(FullPath(s), Lowest(s))>>
  BY LevelsOf
<1>3. Lowest(s) \in Highest(s)..Lowest(s)
  BY <1>2
<1> QED BY <1>1, <1>2, <1>3

FilingsInTree(d) == \A s \in DOMAIN d.filed : d.filed[s] \subseteq DOMAIN d.tree

LEMMA OwnersKnown ==
  ASSUME NEW v, NEW d, NEW w, NEW e, NEW s, Step(v, d, w, e, s), Leveled(d), FilingsInTree(d),
         NEW i \in 1..Len(d.stream)
  PROVE  d.stream[i].owner \in Old(d) /\ \A x \in FiledAt(d, i) : x[1] \in Old(d)
<1>1. d.stream[i] \in Slots /\ LevelsAt(d.stream[i], FiledAt(d, i))
  BY StepFacts DEF Leveled
<1>2. d.stream[i] \in DOMAIN d.filed
  <2>1. d.stream \in Seq(Slots) /\ DOMAIN d.filed = Range(d.stream)
    BY DEF Step, IsDocument
  <2> QED BY <2>1 DEF Range
<1>3. FiledAt(d, i) \subseteq DOMAIN d.tree
  BY <1>2 DEF FilingsInTree, FiledAt
<1>4. \A c \in DOMAIN d.tree : c[1] \in Old(d)
  BY DEF Step, Agree, OwnersOld
<1>5. Top(d.stream[i]) \in FiledAt(d, i) /\ Top(d.stream[i])[1] = d.stream[i].owner
  BY <1>1, TopFiled DEF Top
<1> QED BY <1>3, <1>4, <1>5

LEMMA StaysKnown ==
  ASSUME NEW v, NEW d, NEW w, NEW e, NEW s, Step(v, d, w, e, s), NEW t \in Slots, t.owner \in Old(d),
         IsEntryHeader(t) => t.entry \in Old(d), KnownAt(v, t)
  PROVE  KnownAt(w, t)
<1> DEFINE f == FullPath(t)
<1>1. Declares(v, w, s) /\ s \in Slots /\ (IsEntryHeader(s) => s.entry \notin Old(d))
  BY StepFacts DEF Step
<1>2. f \in Path /\ f \in Seq(Key)
  BY LevelsOf
<1>3. Front(f) \in Seq(Key) /\ Last(f) \in Key /\ f = Append(Front(f), Last(f))
  <2> HIDE DEF f
  <2> QED BY <1>2, FrontLast
<1>4. IsEntryHeader(s) => s.path \in Seq(Key)
  BY <1>1, SlotsType DEF Slots, IsEntryHeader, Path
<1>5. ASSUME NEW p \in Seq(Key), NEW x \in Old(d), Own(w, p) = x
      PROVE  Own(v, p) = x /\ ~OpensAbove(s, p)
  <2>1. ~OpensAbove(s, p)
    BY <1>1, <1>5 DEF Declares, OpensAbove
  <2> QED BY <1>1, <1>5, <2>1 DEF Declares
<1>6. ~OpensAbove(s, Front(f)) => ~(IsEntryHeader(s) /\ IsStrictPrefix(s.path, f))
  <2> SUFFICES ASSUME IsEntryHeader(s), IsStrictPrefix(s.path, f) PROVE OpensAbove(s, Front(f))
    OBVIOUS
  <2> DEFINE q == Front(f)
             k == Last(f)
  <2>1. q \in Seq(Key) /\ k \in Key /\ f = Append(q, k) /\ s.path \in Seq(Key)
    BY <1>3, <1>4
  <2> HIDE DEF q, k, f
  <2>2. s.path = q \/ IsStrictPrefix(s.path, q)
    BY <2>1, ChildPath
  <2> QED BY <2>2 DEF OpensAbove, q
<1>7. \A p \in Path : p \in Seq(Key)
  BY DEF Path
<1> HIDE DEF f
<1>8. ASSUME IsKV(t), NEW p \in Path, IsStrictPrefix(t.host, p), IsStrictPrefix(p, f), Own(w, p) = t.owner
      PROVE  KindAt(w, p) = "dotted"
  <2>1. Own(v, p) = t.owner /\ ~OpensAbove(s, p)
    BY <1>5, <1>7, <1>8
  <2>2. KindAt(v, p) = "dotted"
    BY <1>8, <2>1 DEF KnownAt, f
  <2>3. ~(IsEntryHeader(s) /\ IsStrictPrefix(s.path, p))
    BY <2>1 DEF OpensAbove
  <2> QED BY <1>1, <2>2, <2>3 DEF Declares
<1>9. ASSUME Own(w, Front(f)) = t.owner
      PROVE  /\ IsKV(t) => KindAt(w, f) = "value"
             /\ IsHeader(t) /\ t.entry = NoEntry => KindAt(w, f) = "explicit"
  <2>1. Own(v, Front(f)) = t.owner /\ ~OpensAbove(s, Front(f))
    BY <1>3, <1>5, <1>9
  <2>2. /\ IsKV(t) => KindAt(v, f) = "value"
        /\ IsHeader(t) /\ t.entry = NoEntry => KindAt(v, f) = "explicit"
    BY <2>1 DEF KnownAt, f
  <2>3. ~(IsEntryHeader(s) /\ IsStrictPrefix(s.path, f))
    BY <1>6, <2>1
  <2> QED BY <1>1, <1>2, <2>2, <2>3 DEF Declares
<1>10. ASSUME IsEntryHeader(t), Own(w, f) = t.entry
       PROVE  KindAt(w, f) = "entry"
  <2>1. Own(v, f) = t.entry /\ ~OpensAbove(s, f)
    BY <1>2, <1>5, <1>10
  <2>2. KindAt(v, f) = "entry"
    BY <1>10, <2>1 DEF KnownAt, f
  <2>3. ~(IsEntryHeader(s) /\ IsStrictPrefix(s.path, f))
    BY <2>1 DEF OpensAbove
  <2> QED BY <1>1, <1>2, <2>2, <2>3 DEF Declares
<1> QED BY <1>8, <1>9, <1>10 DEF KnownAt, f

LEMMA KindsKnownStep ==
  ASSUME NEW v, NEW d, NEW w, NEW e, NEW s, Step(v, d, w, e, s), Leveled(d), FilingsInTree(d),
         KindsKnown(v, d)
  PROVE  KindsKnown(w, e)
<1> DEFINE n == Len(d.stream)
<1>1. /\ s \in Slots /\ n \in Nat /\ Len(e.stream) = n + 1 /\ e.stream[n + 1] = s /\ Declares(v, w, s)
      /\ \A i \in 1..n : e.stream[i] = d.stream[i] /\ d.stream[i] \in Slots
  BY StepFacts
<1>2. KnownAt(w, s)
  <2>1. CASE s \in KVSlots
    <3>1. ~IsHeader(s) /\ ~IsEntryHeader(s)
      BY <2>1, SlotsType DEF IsEntryHeader
    <3> QED BY <1>1, <2>1, <3>1 DEF Declares, KnownAt
  <2>2. CASE s \in HeaderSlots
    <3>1. ~IsKV(s) /\ FullPath(s) = s.path
      BY <2>2, SlotsType
    <3> QED BY <1>1, <2>2, <3>1 DEF Declares, KnownAt, IsEntryHeader
  <2> QED BY <1>1, <2>1, <2>2 DEF Slots
<1>3. ASSUME NEW i \in 1..n PROVE KnownAt(w, d.stream[i])
  <2> DEFINE t == d.stream[i]
  <2>1. t \in Slots /\ KnownAt(v, t)
    BY <1>1 DEF KindsKnown
  <2>2. t.owner \in Old(d)
    BY OwnersKnown
  <2>3. IsEntryHeader(t) => t.entry \in Old(d)
    BY DEF Old
  <2> HIDE DEF t
  <2>4. KnownAt(w, t)
    BY <2>1, <2>2, <2>3, StaysKnown
  <2> QED BY <2>4 DEF t
<1> HIDE DEF n
<1>4. \A i \in 1..Len(e.stream) : i \in 1..n \/ i = n + 1
  BY <1>1
<1> QED BY <1>1, <1>2, <1>3, <1>4 DEF KindsKnown

-----------------------------------------------------------------------------
(* No table is opened twice.                                               *)

(* What a key-value line or a table header would declare again is known.   *)
LEMMA NotAgain ==
  ASSUME NEW v, NEW w, IsValidator(v), NEW s \in Slots, Declares(v, w, s), NEW t \in Slots, KnownAt(v, t),
         t.owner = s.owner, FullPath(t) = FullPath(s), IsKV(s) <=> IsKV(t), ~IsEntryHeader(s),
         IsEntryHeader(t) => t.owner = t.entry
  PROVE  FALSE
<1> DEFINE f == FullPath(s)
           q == Front(f)
<1>1. f \in Path /\ f \in Seq(Key) /\ Len(f) \in Nat \ {0}
  BY LevelsOf
<1>2. q \in Seq(Key) /\ Last(f) \in Key /\ f = Append(q, Last(f)) /\ q = Prefix(f, Len(f) - 1)
  <2> HIDE DEF f
  <2> QED BY <1>1, FrontLast
<1>3. \A p \in Seq(Key) : Own(w, p) = Own(v, p)
  BY DEF Declares, OpensAbove
<1>4. CASE s \in KVSlots
  <2>1. IsKV(t) /\ Lowest(s) = Len(f) - 1 /\ Highest(s) \in Nat /\ Highest(s) <= Lowest(s)
    BY <1>4, SlotsType, LevelsOf
  <2>2. Lowest(s) \in Highest(s)..Lowest(s)
    BY <1>1, <2>1
  <2>3. At(w, q) = <<s.owner, q>>
    <3>1. At(w, Prefix(FullPath(s), Lowest(s))) = <<s.owner, Prefix(FullPath(s), Lowest(s))>>
      BY <1>4, <2>2 DEF Declares
    <3> QED BY <1>2, <2>1, <3>1
  <2>4. Own(v, q) = s.owner
    <3> HIDE DEF q
    <3> QED BY <1>2, <1>3, <2>3 DEF At
  <2>5. KindAt(v, f) = "value"
    BY <2>1, <2>4 DEF KnownAt
  <2>6. KindAt(v, f) = "none"
    BY <1>4 DEF Declares
  <2> QED BY <2>5, <2>6
<1>5. CASE s \in HeaderSlots
  <2>1. /\ IsHeader(s) /\ IsHeader(t) /\ s.entry = NoEntry /\ f = s.path
        /\ Lowest(s) = Len(f) /\ Highest(s) = 0
    BY <1>5, SlotsType, LevelsOf DEF Slots, IsEntryHeader
  <2>2. Own(v, f) = s.owner
    <3>1. Len(f) \in Highest(s)..Lowest(s) /\ Len(f) \in 1..Len(f)
      BY <1>1, <2>1
    <3>2. At(w, Prefix(FullPath(s), Len(f))) = <<s.owner, Prefix(FullPath(s), Len(f))>>
      BY <2>1, <3>1 DEF Declares
    <3>3. Prefix(f, Len(f)) = f
      <4> HIDE DEF f
      <4> QED BY <1>1, <3>1, PrefixesOf
    <3>4. At(w, f) = <<s.owner, f>>
      BY <3>2, <3>3
    <3> QED BY <1>1, <1>3, <3>4 DEF At
  <2>3. KindAt(v, f) \notin {"explicit", "entry"}
    BY <1>5, <2>1 DEF Declares
  <2>4. Own(v, q) = s.owner
    <3> DEFINE k == Last(f)
    <3>1. k \in Key /\ f = Append(q, k)
      BY <1>2
    <3> HIDE DEF k, q, f
    <3>2. Own(v, f) = IF KindAt(v, f) = "entry" THEN v.scopes[f].entry ELSE Own(v, q)
      BY <1>2, <3>1, OwnStep
    <3> QED BY <2>2, <2>3, <3>2
  <2>5. CASE t.entry = NoEntry
    BY <2>1, <2>3, <2>4, <2>5 DEF KnownAt
  <2>6. CASE t.entry # NoEntry
    <3>1. IsEntryHeader(t) /\ Own(v, f) = t.entry
      BY <2>1, <2>2, <2>6 DEF IsEntryHeader
    <3> QED BY <2>3, <3>1 DEF KnownAt
  <2> QED BY <2>5, <2>6
<1> QED BY <1>4, <1>5 DEF Slots

LEMMA FreshLine ==
  ASSUME NEW v, NEW d, Reading(v, d), NEW w, NEW s \in Slots, Declares(v, w, s),
         IsEntryHeader(s) => s.entry \notin Old(d)
  PROVE  s \notin Range(d.stream)
<1> SUFFICES ASSUME s \in Range(d.stream) PROVE FALSE
  OBVIOUS
<1>1. d.stream \in Seq(Slots)
  BY DEF Reading, IsDocument
<1>2. PICK i \in 1..Len(d.stream) : d.stream[i] = s
  BY <1>1 DEF Range
<1>3. KnownAt(v, s) /\ IsValidator(v)
  BY <1>2 DEF Reading, KindsKnown, Agree
<1>4. ~IsEntryHeader(s)
  BY <1>2 DEF Old
<1> QED BY <1>3, <1>4, NotAgain

LEMMA LinesApartStep ==
  ASSUME NEW v, NEW d, NEW w, NEW e, NEW s, Step(v, d, w, e, s), LinesApart(d)
  PROVE  LinesApart(e)
<1> DEFINE n == Len(d.stream)
<1>1. /\ n \in Nat /\ Len(e.stream) = n + 1 /\ e.stream[n + 1] = s
      /\ \A i \in 1..n : e.stream[i] = d.stream[i] /\ d.stream[i] # s
  BY StepFacts
<1>2. \A i, j \in 1..n : d.stream[i] = d.stream[j] => i = j
  BY DEF LinesApart
<1> HIDE DEF n
<1>3. \A i \in 1..Len(e.stream) : i \in 1..n \/ i = n + 1
  BY <1>1
<1> QED BY <1>1, <1>2, <1>3 DEF LinesApart

LEMMA HeadersApartStep ==
  ASSUME NEW v, NEW d, NEW w, NEW e, NEW s, Step(v, d, w, e, s), Leveled(d), FilingsInTree(d),
         KindsKnown(v, d), EntriesListed(d), HeadersApart(d)
  PROVE  HeadersApart(e)
<1> DEFINE n == Len(d.stream)
<1>1. /\ s \in Slots /\ n \in Nat /\ Len(e.stream) = n + 1 /\ e.stream[n + 1] = s /\ Declares(v, w, s)
      /\ \A i \in 1..n : e.stream[i] = d.stream[i] /\ d.stream[i] \in Slots
  BY StepFacts
<1>2. ASSUME IsHeader(s), NEW i \in 1..n, IsHeader(d.stream[i]), Top(d.stream[i]) = Top(s)
      PROVE  FALSE
  <2> DEFINE t == d.stream[i]
  <2>1. t \in Slots /\ KnownAt(v, t) /\ t.owner \in Old(d)
    BY <1>1, OwnersKnown DEF KindsKnown
  <2>2. IsEntryHeader(t) => t.owner = t.entry
    BY DEF EntriesListed, Opens
  <2>3. IsHeader(t) /\ Top(t) = Top(s)
    BY <1>2
  <2> HIDE DEF t
  <2>4. s \in HeaderSlots /\ t \in HeaderSlots
    BY <1>1, <1>2, <2>1, <2>3, SlotsType DEF Slots
  <2>5. ~IsKV(s) /\ ~IsKV(t) /\ FullPath(s) = s.path /\ FullPath(t) = t.path
    BY <2>4, SlotsType
  <2>6. t.owner = s.owner /\ t.path = s.path
    BY <2>3, <2>5 DEF Top
  <2>7. ~IsEntryHeader(s)
    <3> SUFFICES ASSUME IsEntryHeader(s) PROVE FALSE
      OBVIOUS
    <3>1. s.owner = s.entry
      BY OpenedAt
    <3> QED BY <2>1, <2>6, <3>1 DEF Step
  <2>8. IsValidator(v)
    BY DEF Step, Agree
  <2> QED BY <1>1, <2>1, <2>2, <2>5, <2>6, <2>7, <2>8, NotAgain
<1>3. \A i, j \in 1..n : IsHeader(d.stream[i]) /\ IsHeader(d.stream[j]) /\ Top(d.stream[i]) = Top(d.stream[j]) => i = j
  BY DEF HeadersApart
<1> HIDE DEF n
<1>4. \A i \in 1..Len(e.stream) : i \in 1..n \/ i = n + 1
  BY <1>1
<1> QED BY <1>1, <1>2, <1>3, <1>4 DEF HeadersApart

LEMMA HeadersFirstStep ==
  ASSUME NEW v, NEW d, NEW w, NEW e, NEW s, Step(v, d, w, e, s), Leveled(d), FilingsInTree(d),
         KindsKnown(v, d), Sectioned(d), HeadersFirst(d), HeadersApart(e)
  PROVE  HeadersFirst(e)
<1> DEFINE n == Len(d.stream)
<1>1. /\ s \in Slots /\ n \in Nat /\ Len(e.stream) = n + 1 /\ e.stream[n + 1] = s /\ Declares(v, w, s)
      /\ \A i \in 1..n : e.stream[i] = d.stream[i] /\ d.stream[i] \in Slots /\ FiledAt(e, i) = FiledAt(d, i)
  BY StepFacts
<1>2. ASSUME IsHeader(s), NEW j \in 1..n, IsKV(d.stream[j]), Top(s) \in FiledAt(d, j)
      PROVE  FALSE
  <2> DEFINE t == d.stream[j]
             f == FullPath(t)
             p == s.path
  <2>1. t \in Slots /\ KnownAt(v, t) /\ LevelsAt(t, FiledAt(d, j)) /\ \A x \in FiledAt(d, j) : x[1] \in Old(d)
    BY <1>1, OwnersKnown DEF KindsKnown, Leveled
  <2>2. IsKV(t) /\ Top(s) \in FiledAt(d, j)
    BY <1>2
  <2>3. Within(d, j, t.owner, t.host)
    BY <1>2 DEF Sectioned
  <2> HIDE DEF t
  <2>4. t \in KVSlots /\ s \in HeaderSlots
    BY <1>1, <1>2, <2>1, <2>2, SlotsType DEF Slots
  <2>5. Top(s) = <<s.owner, p>> /\ p \in Path /\ p \in Seq(Key) /\ FullPath(s) = p /\ Lowest(s) = Len(p)
        /\ Highest(s) = 0 /\ Len(p) \in Nat \ {0}
    BY <1>1, <2>4, SlotsType, LevelsOf
  <2>6. ~IsEntryHeader(s)
    <3> SUFFICES ASSUME IsEntryHeader(s) PROVE FALSE
      OBVIOUS
    <3>1. s.owner = s.entry
      BY OpenedAt
    <3> QED BY <2>1, <2>2, <2>5, <3>1 DEF Step
  <2>7. Own(v, p) = s.owner
    <3>1. Len(p) \in Highest(s)..Lowest(s) /\ Len(p) \in 1..Len(p)
      BY <2>5
    <3>2. At(w, Prefix(FullPath(s), Len(p))) = <<s.owner, Prefix(FullPath(s), Len(p))>>
      BY <1>1, <2>5, <3>1 DEF Declares
    <3>3. Prefix(p, Len(p)) = p
      <4> HIDE DEF p
      <4> QED BY <2>5, <3>1, PrefixesOf
    <3>4. At(w, p) = <<s.owner, p>>
      BY <2>5, <3>2, <3>3
    <3>5. Own(w, p) = Own(v, p)
      BY <1>1, <2>5, <2>6 DEF Declares, OpensAbove
    <3> QED BY <3>4, <3>5 DEF At
  <2>8. /\ f \in Seq(Key) /\ f \in Path /\ Len(f) \in Nat \ {0} /\ Highest(t) \in Nat /\ Lowest(t) = Len(f) - 1
        /\ Prefix(f, Highest(t)) = t.host /\ t.host \in Seq(Key) /\ Highest(t) = Len(t.host)
    BY <2>1, <2>4, LevelsOf
  <2>9. PICK o \in [Highest(t)..Lowest(t) -> Nat] :
          /\ FiledAt(d, j) = {<<o[m], Prefix(f, m)>> : m \in Highest(t)..Lowest(t)}
          /\ \A m \in Highest(t)..Lowest(t) : o[m] = t.owner
    BY <2>1, <2>2 DEF LevelsAt
  <2>10. PICK m \in Highest(t)..Lowest(t) : Top(s) = <<o[m], Prefix(f, m)>>
    BY <2>2, <2>9
  <2>11. s.owner = t.owner /\ p = Prefix(f, m)
    BY <2>5, <2>9, <2>10
  <2> HIDE DEF f, p
  <2>12. CASE m = Highest(t)
    <3>1. t.host = p
      BY <2>8, <2>11, <2>12
    <3>2. t.host # <<>>
      BY <2>5, <3>1 DEF Path
    <3>3. PICK k \in 1..j : Under(d, k, j, t.owner, t.host)
      BY <2>3, <3>2 DEF Within
    <3>4. k \in 1..n /\ k \in 1..Len(e.stream) /\ n + 1 \in 1..Len(e.stream) /\ k # n + 1
      BY <1>1, <3>3
    <3>5. IsHeader(e.stream[k]) /\ Top(e.stream[k]) = Top(s)
      BY <1>1, <2>5, <2>11, <3>1, <3>3, <3>4 DEF Under
    <3> QED BY <1>1, <1>2, <3>4, <3>5 DEF HeadersApart
  <2>13. CASE m # Highest(t)
    <3> DEFINE h == Highest(t)
    <3>1. m \in 1..Len(f) /\ m \in 0..Len(f) /\ m < Len(f) /\ h \in 0..m /\ h < m
      BY <2>8, <2>13
    <3>2. IsStrictPrefix(p, f) /\ Len(p) = m
      BY <2>8, <2>11, <3>1, PrefixType
    <3>3. Prefix(p, h) = t.host
      BY <2>8, <2>11, <3>1, PrefixOfPrefix
    <3>4. IsStrictPrefix(Prefix(p, h), p)
      <4> HIDE DEF h
      <4>1. h \in 0..Len(p) /\ h < Len(p)
        BY <3>1, <3>2
      <4> QED BY <2>5, <4>1, PrefixType
    <3>5. KindAt(v, p) = "dotted"
      BY <2>1, <2>2, <2>5, <2>7, <2>11, <3>2, <3>3, <3>4 DEF KnownAt, f
    <3> QED BY <1>1, <2>4, <3>5 DEF Declares, p
  <2> QED BY <2>12, <2>13
<1>3. \A i, j \in 1..n : IsHeader(d.stream[i]) /\ IsKV(d.stream[j]) /\ Top(d.stream[i]) \in FiledAt(d, j) => i < j
  BY DEF HeadersFirst
<1>4. ~(IsHeader(s) /\ IsKV(s))
  BY <1>1, SlotsType DEF Slots
<1> HIDE DEF n
<1>5. \A i \in 1..Len(e.stream) : i \in 1..n \/ i = n + 1
  BY <1>1
<1>6. \A i \in 1..n : i < n + 1
  BY <1>1
<1> QED BY <1>1, <1>2, <1>3, <1>4, <1>5, <1>6 DEF HeadersFirst

-----------------------------------------------------------------------------
(* Reading goes on.                                                        *)

LEMMA OldGrows ==
  ASSUME NEW d, NEW e, NEW s, d.stream \in Seq(Slots), e.stream = Append(d.stream, s)
  PROVE  Old(e) = IF IsEntryHeader(s) THEN Old(d) \cup {s.entry} ELSE Old(d)
<1> DEFINE n == Len(d.stream)
<1>1. /\ n \in Nat /\ Len(e.stream) = n + 1 /\ e.stream[n + 1] = s
      /\ \A i \in 1..n : e.stream[i] = d.stream[i]
  OBVIOUS
<1>2. Old(d) = {NoEntry} \cup {d.stream[i].entry : i \in {k \in 1..n : IsEntryHeader(d.stream[k])}}
  BY DEF Old
<1>3. Old(e) = {NoEntry} \cup {e.stream[i].entry : i \in {k \in 1..(n + 1) : IsEntryHeader(e.stream[k])}}
  BY <1>1 DEF Old
<1> HIDE DEF n
<1>4. \A i \in 1..(n + 1) : i \in 1..n \/ i = n + 1
  BY <1>1
<1>5. \A i \in 1..n : i \in 1..(n + 1)
  BY <1>1
<1>6. n + 1 \in 1..(n + 1)
  BY <1>1
<1> QED BY <1>1, <1>2, <1>3, <1>4, <1>5, <1>6

(* An accepted line, stamped as its place demands and with no old entry,   *)
(* leaves a document read.                                                 *)
LEMMA ReadingStep ==
  ASSUME NEW v, NEW d, Reading(v, d), NEW s \in Slots, Allowed(v, s), Reread(v, s) = s,
         IsEntryHeader(s) => s.entry \notin Old(d)
  PROVE  /\ Step(v, d, AfterSlot(v, s), ApplySlot(d, s), s)
         /\ Reading(AfterSlot(v, s), ApplySlot(d, s))
<1> DEFINE w == AfterSlot(v, s)
           e == ApplySlot(d, s)
<1>1. /\ Agree(v, d, Old(d)) /\ IsDocument(d) /\ d.stream \in Seq(Slots)
      /\ DOMAIN d.filed = Range(d.stream) /\ FilingsInTree(d)
  BY DEF Reading, FilingsInTree, IsDocument
<1>2. /\ Advances(v, d, w, e, s)
      /\ Agree(w, e, IF IsEntryHeader(s) THEN Old(d) \cup {s.entry} ELSE Old(d))
      /\ IsDocument(e)
  BY <1>1, SlotAdvances
<1> HIDE DEF w, e
<1>3. Declares(v, w, s) /\ e.stream = Append(d.stream, s) /\ Files(d, e, s)
  BY <1>2 DEF Advances
<1>4. s \notin Range(d.stream)
  BY <1>3, FreshLine
<1>5. Agree(w, e, Old(e))
  BY <1>1, <1>2, <1>3, OldGrows
<1>6. Step(v, d, w, e, s)
  BY <1>1, <1>2, <1>4, <1>5 DEF Step
<1>7. DOMAIN e.filed = Range(e.stream)
  BY <1>6, StepFacts
<1>8. \A t \in DOMAIN e.filed : e.filed[t] \subseteq DOMAIN e.tree
  <2> SUFFICES ASSUME NEW t \in DOMAIN e.filed PROVE e.filed[t] \subseteq DOMAIN e.tree
    OBVIOUS
  <2>1. CASE t = s
    BY <1>3, <2>1 DEF Files
  <2>2. CASE t # s
    <3>1. t \in DOMAIN d.filed /\ e.filed[t] = d.filed[t] /\ DOMAIN d.tree \subseteq DOMAIN e.tree
      BY <1>3, <2>2 DEF Files
    <3> QED BY <1>1, <3>1 DEF FilingsInTree
  <2> QED BY <2>1, <2>2
<1>9. Leveled(e) /\ Chained(e) /\ Named(e) /\ Held(e)
  BY <1>6, LeveledStep, ChainedStep, NamedStep, HeldStep DEF Reading
<1>10. ArraysHomed(e) /\ EntriesApart(e) /\ EntriesListed(e)
  BY <1>6, ArraysHomedStep, EntriesApartStep, EntriesListedStep DEF Reading
<1>11. EntriesInTurn(e)
  BY <1>6, <1>10, EntriesInTurnStep DEF Reading
<1>12. EntryInForce(w, e) /\ SectionInForce(w, e)
  BY <1>6, EntryInForceStep, SectionInForceStep DEF Reading
<1>13. FiledInForce(e) /\ Sectioned(e)
  BY <1>6, <1>12, FiledInForceStep, SectionedStep DEF Reading
<1>14. KindsKnown(w, e) /\ LinesApart(e) /\ HeadersApart(e)
  BY <1>1, <1>6, KindsKnownStep, LinesApartStep, HeadersApartStep DEF Reading
<1>15. HeadersFirst(e)
  BY <1>1, <1>6, <1>14, HeadersFirstStep DEF Reading
<1>16. Reading(w, e)
  BY <1>2, <1>5, <1>7, <1>8, <1>9, <1>10, <1>11, <1>12, <1>13, <1>14, <1>15 DEF Reading
<1> QED BY <1>6, <1>16 DEF w, e

LEMMA ReadingEmpty == Reading(FreshValidator, EmptyDocument)
<1> DEFINE v == FreshValidator
           d == EmptyDocument
<1>1. /\ v = [scopes |-> v.scopes, section |-> v.section, owner |-> v.owner]
      /\ DOMAIN v.scopes = {} /\ v.section = <<>> /\ v.owner = NoEntry
      /\ \A p : KindAt(v, p) = "none"
  BY DEF FreshValidator, KindAt
<1>2. /\ d = [stream |-> d.stream, filed |-> d.filed, tree |-> d.tree, aot |-> d.aot]
      /\ d.stream = <<>> /\ DOMAIN d.filed = {} /\ DOMAIN d.aot = {}
      /\ DOMAIN d.tree = {Root} /\ d.tree[Root] = <<>>
  BY DEF EmptyDocument
<1> HIDE DEF v, d
<1>3. IsValidator(v) /\ IsDocument(d)
  BY <1>1, <1>2 DEF IsValidator, IsDocument, NoEntry
<1>4. \A q : Own(v, q) = NoEntry /\ At(v, q) = <<NoEntry, q>>
  BY <1>1, OwnNone DEF EntriesAbove, At
<1>5. Nested(v)
  BY <1>1, <1>4 DEF Nested, ScopesClosed, SectionDeclared, OwnerExact
<1>6. IsTree(d.tree)
  <2>1. Root \in Containers
    <3>1. <<>> \in Seq(Key)
      OBVIOUS
    <3> QED BY <3>1 DEF Containers, Root, NoEntry
  <2> QED BY <1>2, <2>1, EmptyDict DEF IsTree
<1>7. \A c, key : KindOf(d, c, key) = "none"
  <2>1. \A c : Bindings(d, c) = <<>>
    BY <1>2 DEF Bindings
  <2> QED BY <2>1, EmptyDict, KindIsKindIn
<1>8. Matches(v, d)
  BY <1>1, <1>7 DEF Matches, Match, TreeKind
<1>9. TablesExist(v, d)
  BY <1>1, <1>2, <1>4 DEF TablesExist, TableKinds, Root
<1>10. Len(d.stream) = 0 /\ \A i \in 1..Len(d.stream) : FALSE
  BY <1>2
<1>11. Range(d.stream) = {}
  BY <1>2 DEF Range
<1>12. OwnersOld(v, d, Old(d))
  BY <1>2, <1>4 DEF OwnersOld, Root, Old
<1>13. Agree(v, d, Old(d))
  BY <1>2, <1>3, <1>5, <1>6, <1>8, <1>9, <1>12 DEF Agree, IsRecord
<1>14. Leveled(d) /\ Chained(d) /\ Named(d) /\ Held(d) /\ FiledInForce(d) /\ Sectioned(d) /\ KindsKnown(v, d)
  BY <1>7, <1>10 DEF Leveled, Chained, Named, Held, FiledInForce, Sectioned, KindsKnown
<1>15. ArraysHomed(d) /\ EntriesApart(d) /\ EntriesListed(d) /\ EntriesInTurn(d)
       /\ LinesApart(d) /\ HeadersApart(d) /\ HeadersFirst(d)
  BY <1>2, <1>10 DEF ArraysHomed, EntriesApart, EntriesListed, EntriesInTurn, LinesApart, HeadersApart, HeadersFirst
<1>16. EntryInForce(v, d) /\ SectionInForce(v, d)
  BY <1>1, <1>4, <1>10 DEF EntryInForce, Unruled, SectionInForce, Within
<1>17. Reading(v, d)
  BY <1>2, <1>3, <1>11, <1>13, <1>14, <1>15, <1>16 DEF Reading
<1> QED BY <1>17 DEF v, d

-----------------------------------------------------------------------------
(* The lines of a stream, read one after the other (Reparsed).             *)

ReadLine(x, s) ==
  IF x.ok /\ Allowed(x.v, s)
    THEN [ok |-> TRUE, v |-> AfterSlot(x.v, Reread(x.v, s)), d |-> ApplySlot(x.d, Reread(x.v, s))]
    ELSE [x EXCEPT !.ok = FALSE]

ReadBy(run, f, n) ==
  /\ f = [i \in 0..n |-> f[i]]
  /\ f[0] = [ok |-> TRUE, v |-> FreshValidator, d |-> EmptyDocument]
  /\ \A i \in 1..n : f[i] = ReadLine(f[i - 1], run[i])

LEMMA ReadByExists ==
  ASSUME NEW run
  PROVE  \A n \in Nat : \E f : ReadBy(run, f, n)
<1> DEFINE P == {n \in Nat : \E f : ReadBy(run, f, n)}
           start == [ok |-> TRUE, v |-> FreshValidator, d |-> EmptyDocument]
<1>1. 0 \in P
  <2> HIDE DEF start
  <2>1. ReadBy(run, [i \in 0..0 |-> start], 0)
    BY DEF ReadBy, start
  <2> QED BY <2>1
<1>2. ASSUME NEW n \in Nat, n \in P PROVE n + 1 \in P
  <2>1. PICK f : ReadBy(run, f, n)
    BY <1>2
  <2> DEFINE x == ReadLine(f[n], run[n + 1])
             g == [i \in 0..(n + 1) |-> IF i = n + 1 THEN x ELSE f[i]]
  <2> HIDE DEF x
  <2>2. /\ g = [i \in 0..(n + 1) |-> g[i]] /\ g[n + 1] = x
        /\ \A i \in 0..n : g[i] = f[i]
    OBVIOUS
  <2> HIDE DEF g, start
  <2>3. g[0] = start
    <3>1. f[0] = start
      BY <2>1 DEF ReadBy, start
    <3>2. 0 \in 0..n
      OBVIOUS
    <3> QED BY <2>2, <3>1, <3>2
  <2>4. ASSUME NEW i \in 1..(n + 1)
        PROVE  g[i] = ReadLine(g[i - 1], run[i])
    <3>1. CASE i = n + 1
      <4>1. g[i - 1] = f[n]
        BY <2>2, <3>1
      <4> QED BY <2>2, <3>1, <4>1 DEF x
    <3>2. CASE i # n + 1
      <4>1. i \in 1..n /\ i - 1 \in 0..n /\ i \in 0..n
        BY <3>2
      <4> QED BY <2>1, <2>2, <4>1 DEF ReadBy
    <3> QED BY <3>1, <3>2
  <2>5. ReadBy(run, g, n + 1)
    BY <2>2, <2>3, <2>4 DEF ReadBy, start
  <2> QED BY <2>5
<1> HIDE DEF P
<1>3. \A n \in Nat : n \in P
  BY <1>1, <1>2, InductionOnSet
<1> QED BY <1>3 DEF P

LEMMA ReparsedMeaning ==
  ASSUME NEW run, Len(run) \in Nat
  PROVE  \E f : ReadBy(run, f, Len(run)) /\ Reparsed(run) = f[Len(run)]
<1> DEFINE n == Len(run)
           Is(f) == f = [i \in 0..n |->
                           IF i = 0 THEN [ok |-> TRUE, v |-> FreshValidator, d |-> EmptyDocument]
                           ELSE LET x == f[i - 1]
                                    t == Reread(x.v, run[i])
                                IN  IF x.ok /\ Allowed(x.v, run[i])
                                      THEN [ok |-> TRUE, v |-> AfterSlot(x.v, t), d |-> ApplySlot(x.d, t)]
                                      ELSE [x EXCEPT !.ok = FALSE]]
<1>1. Reparsed(run) = (CHOOSE f : Is(f))[n]
  BY DEF Reparsed
<1>2. PICK f : ReadBy(run, f, n)
  BY ReadByExists
<1>3. \A g : Is(g) <=> ReadBy(run, g, n)
  <2> HIDE DEF n
  <2> SUFFICES ASSUME NEW g PROVE Is(g) <=> ReadBy(run, g, n)
    OBVIOUS
  <2> DEFINE h == [i \in 0..n |->
                     IF i = 0 THEN [ok |-> TRUE, v |-> FreshValidator, d |-> EmptyDocument]
                     ELSE ReadLine(g[i - 1], run[i])]
  <2>1. Is(g) <=> g = h
    BY DEF ReadLine
  <2>2. n \in Nat
    BY DEF n
  <2>3. ASSUME g = h PROVE ReadBy(run, g, n)
    <3>1. 0 \in 0..n /\ \A i \in 1..n : i \in 0..n /\ i # 0
      BY <2>2
    <3>2. h[0] = [ok |-> TRUE, v |-> FreshValidator, d |-> EmptyDocument]
      BY <3>1
    <3>3. \A i \in 1..n : h[i] = ReadLine(g[i - 1], run[i])
      BY <3>1
    <3>4. h = [i \in 0..n |-> h[i]]
      OBVIOUS
    <3> HIDE DEF h
    <3> QED BY <2>3, <3>2, <3>3, <3>4 DEF ReadBy
  <2>4. ASSUME ReadBy(run, g, n) PROVE g = h
    <3>1. \A i \in 0..n : g[i] = h[i]
      <4>1. \A i \in 0..n : i = 0 \/ i \in 1..n
        BY <2>2
      <4> QED BY <2>4, <4>1 DEF ReadBy
    <3>2. g = [i \in 0..n |-> g[i]]
      BY <2>4 DEF ReadBy
    <3> QED BY <3>1, <3>2
  <2> HIDE DEF h, Is
  <2> QED BY <2>1, <2>3, <2>4
<1> HIDE DEF Is
<1>4. Is(CHOOSE g : Is(g))
  BY <1>2, <1>3
<1> QED BY <1>1, <1>3, <1>4

(* Lines above alone decide.                                               *)
LEMMA ReadAlike ==
  ASSUME NEW run, NEW other, NEW f, NEW g, NEW m \in Nat, NEW n \in Nat,
         ReadBy(run, f, m), ReadBy(other, g, n), NEW k \in 0..m, k <= n,
         \A i \in 1..k : run[i] = other[i]
  PROVE  f[k] = g[k]
<1> DEFINE P == {i \in Nat : i <= k => f[i] = g[i]}
<1>1. 0 \in P
  BY DEF ReadBy
<1>2. ASSUME NEW i \in Nat, i \in P PROVE i + 1 \in P
  <2> SUFFICES ASSUME i + 1 <= k PROVE f[i + 1] = g[i + 1]
    OBVIOUS
  <2>1. i + 1 \in 1..m /\ i + 1 \in 1..n /\ i + 1 \in 1..k /\ (i + 1) - 1 = i
    OBVIOUS
  <2>2. f[i] = g[i]
    BY <1>2, <2>1
  <2>3. f[i + 1] = ReadLine(f[i], run[i + 1]) /\ g[i + 1] = ReadLine(g[i], other[i + 1])
    BY <2>1 DEF ReadBy
  <2> QED BY <2>1, <2>2, <2>3
<1> HIDE DEF P
<1>3. \A i \in Nat : i \in P
  BY <1>1, <1>2, InductionOnSet
<1> QED BY <1>3 DEF P

LEMMA RereadType ==
  ASSUME NEW v, IsValidator(v), NEW s \in Slots
  PROVE  /\ Reread(v, s) \in Slots
         /\ IsValidator(AfterSlot(v, Reread(v, s)))
         /\ Allowed(v, Reread(v, s)) <=> Allowed(v, s)
<1> DEFINE t == Reread(v, s)
<1>1. CASE s \in KVSlots
  <2>1. IsKV(s) /\ s.key \in Path
    BY <1>1, SlotsType
  <2>2. t = [s EXCEPT !.host = v.section, !.owner = v.owner]
    BY <2>1 DEF Reread
  <2>3. t \in KVSlots /\ t.key = s.key
    BY <1>1, <2>2 DEF KVSlots, IsValidator
  <2>4. IsKV(t)
    BY <2>3, SlotsType
  <2> HIDE DEF t
  <2> QED BY <2>1, <2>3, <2>4, KeyDeclares DEF Slots, AfterSlot, Allowed, t
<1>2. CASE s \in HeaderSlots
  <2>1. ~IsKV(s) /\ s.path \in Path /\ s.entry \in Nat
    BY <1>2, SlotsType
  <2>2. t = [s EXCEPT !.owner = EnterHeader(v, s.path, s.entry).owner]
    BY <2>1 DEF Reread, AfterSlot
  <2>3. EnterHeader(v, s.path, s.entry).owner \in Nat
    BY <2>1, HeaderDeclares DEF IsValidator
  <2>4. t \in HeaderSlots /\ t.path = s.path /\ t.entry = s.entry
    BY <1>2, <2>2, <2>3 DEF HeaderSlots
  <2>5. ~IsKV(t)
    BY <2>4, SlotsType
  <2> HIDE DEF t
  <2> QED BY <2>1, <2>4, <2>5, HeaderDeclares DEF Slots, AfterSlot, Allowed, t
<1> QED BY <1>1, <1>2 DEF Slots

-----------------------------------------------------------------------------
(* A text that reads as its slots say.                                     *)

Accepts(run) == Reparsed(run).ok /\ Reparsed(run).d.stream = run

(* The reading after k lines. *)
ReadWell(run, f, k) ==
  /\ IsValidator(f[k].v) /\ IsDocument(f[k].d) /\ Len(f[k].d.stream) = k
  /\ \A i \in 1..k : /\ f[i - 1].ok /\ Allowed(f[i - 1].v, run[i])
                     /\ f[k].d.stream[i] = Reread(f[i - 1].v, run[i])

LEMMA LinesRead ==
  ASSUME NEW run \in Seq(Slots), NEW f, ReadBy(run, f, Len(run))
  PROVE  \A k \in 0..Len(run) : f[k].ok => ReadWell(run, f, k)
<1> DEFINE n == Len(run)
           Record(x) == x = [ok |-> x.ok, v |-> x.v, d |-> x.d]
           P == {k \in Nat : k <= n => Record(f[k]) /\ (f[k].ok => ReadWell(run, f, k))}
<1>1. n \in Nat /\ \A k \in 1..n : run[k] \in Slots
  OBVIOUS
<1> HIDE DEF n
<1>2. 0 \in P
  <2>1. f[0] = [ok |-> TRUE, v |-> FreshValidator, d |-> EmptyDocument]
    BY DEF ReadBy
  <2>2. IsValidator(FreshValidator) /\ IsDocument(EmptyDocument)
    BY ReadingEmpty DEF Reading, Agree
  <2>3. Len(EmptyDocument.stream) = 0
    BY DEF EmptyDocument
  <2>4. f[0].v = FreshValidator /\ f[0].d = EmptyDocument /\ Record(f[0])
    BY <2>1
  <2>5. ReadWell(run, f, 0)
    BY <2>2, <2>3, <2>4 DEF ReadWell
  <2> QED BY <2>4, <2>5
<1>3. ASSUME NEW k \in Nat, k \in P PROVE k + 1 \in P
  <2> SUFFICES ASSUME k + 1 <= n
               PROVE  Record(f[k + 1]) /\ (f[k + 1].ok => ReadWell(run, f, k + 1))
    OBVIOUS
  <2> DEFINE x == f[k]
             s == run[k + 1]
             t == Reread(x.v, s)
  <2>1. k + 1 \in 1..n /\ k <= n /\ (k + 1) - 1 = k
    BY <1>1
  <2>2. Record(x) /\ (x.ok => ReadWell(run, f, k))
    BY <1>3, <2>1
  <2>3. f[k + 1] = ReadLine(x, s) /\ s \in Slots
    BY <1>1, <2>1 DEF ReadBy, n
  <2>4. CASE ~(x.ok /\ Allowed(x.v, s))
    <3>1. f[k + 1] = [x EXCEPT !.ok = FALSE]
      BY <2>3, <2>4 DEF ReadLine
    <3> HIDE DEF x, s
    <3>2. f[k + 1] = [ok |-> FALSE, v |-> x.v, d |-> x.d]
      BY <2>2, <3>1
    <3> QED BY <3>2
  <2>5. CASE x.ok /\ Allowed(x.v, s)
    <3>1. f[k + 1] = [ok |-> TRUE, v |-> AfterSlot(x.v, t), d |-> ApplySlot(x.d, t)]
      BY <2>3, <2>5 DEF ReadLine
    <3>2. IsValidator(x.v) /\ IsDocument(x.d) /\ Len(x.d.stream) = k
          /\ \A i \in 1..k : /\ f[i - 1].ok /\ Allowed(f[i - 1].v, run[i])
                             /\ x.d.stream[i] = Reread(f[i - 1].v, run[i])
      BY <2>2, <2>5 DEF ReadWell
    <3>3. t \in Slots /\ IsValidator(AfterSlot(x.v, t))
      BY <2>3, <3>2, RereadType
    <3>4. IsDocument(ApplySlot(x.d, t)) /\ ApplySlot(x.d, t).stream = Append(x.d.stream, t)
      BY <3>2, <3>3, SlotAppended
    <3>5. f[k + 1].v = AfterSlot(x.v, t) /\ f[k + 1].d = ApplySlot(x.d, t) /\ Record(f[k + 1])
      BY <3>1
    <3>6. x.d.stream \in Seq(Slots)
      BY <3>2 DEF IsDocument
    <3>7. Len(f[k + 1].d.stream) = k + 1 /\ f[k + 1].d.stream[k + 1] = t
          /\ \A i \in 1..k : f[k + 1].d.stream[i] = x.d.stream[i]
      <4> DEFINE q == x.d.stream
      <4> HIDE DEF q, t
      <4>1. q \in Seq(Slots) /\ Len(q) = k
        BY <3>2, <3>6 DEF q
      <4>2. f[k + 1].d.stream = Append(q, t)
        BY <3>4, <3>5 DEF q
      <4>3. Len(Append(q, t)) = k + 1 /\ Append(q, t)[k + 1] = t /\ \A i \in 1..k : Append(q, t)[i] = q[i]
        BY <3>3, <4>1
      <4> QED BY <4>2, <4>3 DEF q
    <3>8. \A i \in 1..(k + 1) : i \in 1..k \/ i = k + 1
      OBVIOUS
    <3>9. f[(k + 1) - 1] = x /\ run[k + 1] = s
      BY <2>1
    <3>10. \A i \in 1..(k + 1) : /\ f[i - 1].ok /\ Allowed(f[i - 1].v, run[i])
                                 /\ f[k + 1].d.stream[i] = Reread(f[i - 1].v, run[i])
      <4> SUFFICES ASSUME NEW i \in 1..(k + 1)
                   PROVE  /\ f[i - 1].ok /\ Allowed(f[i - 1].v, run[i])
                          /\ f[k + 1].d.stream[i] = Reread(f[i - 1].v, run[i])
        OBVIOUS
      <4>1. CASE i \in 1..k
        BY <3>2, <3>7, <4>1
      <4>2. CASE i = k + 1
        BY <2>5, <3>7, <3>9, <4>2
      <4> QED BY <3>8, <4>1, <4>2
    <3> HIDE DEF x, s, t
    <3>11. ReadWell(run, f, k + 1)
      BY <3>3, <3>4, <3>5, <3>7, <3>10 DEF ReadWell
    <3> QED BY <3>5, <3>11
  <2> QED BY <2>4, <2>5
<1> HIDE DEF P
<1>4. \A k \in Nat : k \in P
  BY <1>2, <1>3, InductionOnSet
<1>5. \A k \in 0..n : k \in Nat /\ k <= n
  BY <1>1
<1> QED BY <1>4, <1>5 DEF P, n

(* Reading such a text, Reading holds after every line.                    *)
LEMMA EveryLine ==
  ASSUME NEW run \in Seq(Slots), NEW f, ReadBy(run, f, Len(run)), f[Len(run)].ok,
         f[Len(run)].d.stream = run, EntriesApart(f[Len(run)].d)
  PROVE  /\ \A k \in 0..Len(run) :
              /\ f[k].ok /\ Reading(f[k].v, f[k].d) /\ f[k].d.stream = SubSeq(run, 1, k)
              /\ \A i \in 1..k : FiledAt(f[k].d, i) = FiledAt(f[i].d, i)
         /\ \A k \in 1..Len(run) :
              /\ Allowed(f[k - 1].v, run[k]) /\ Reread(f[k - 1].v, run[k]) = run[k]
              /\ f[k].v = AfterSlot(f[k - 1].v, run[k]) /\ f[k].d = ApplySlot(f[k - 1].d, run[k])
              /\ Step(f[k - 1].v, f[k - 1].d, f[k].v, f[k].d, run[k])
<1> DEFINE n == Len(run)
<1>1. n \in Nat /\ DOMAIN run = 1..n /\ \A k \in 1..n : run[k] \in Slots
  OBVIOUS
<1> HIDE DEF n
<1>2. ReadWell(run, f, n)
  <2>1. n \in 0..n
    BY <1>1
  <2> QED BY <2>1, LinesRead DEF n
<1>3. \A i \in 1..n : f[i - 1].ok /\ Allowed(f[i - 1].v, run[i]) /\ Reread(f[i - 1].v, run[i]) = run[i]
  BY <1>2 DEF ReadWell, n
<1>4. \A k \in 0..n : f[k].ok
  <2>1. ASSUME NEW k \in 0..n PROVE k = n \/ (k + 1 \in 1..n /\ (k + 1) - 1 = k)
    BY <1>1
  <2> QED BY <1>3, <2>1 DEF n
<1>5. \A k \in 0..n : Len(f[k].d.stream) = k /\ f[k].d.stream \in Seq(Slots)
                      /\ \A i \in 1..k : f[k].d.stream[i] = run[i]
  <2> SUFFICES ASSUME NEW k \in 0..n
               PROVE  Len(f[k].d.stream) = k /\ f[k].d.stream \in Seq(Slots)
                      /\ \A i \in 1..k : f[k].d.stream[i] = run[i]
    OBVIOUS
  <2>1. ReadWell(run, f, k)
    BY <1>4, LinesRead DEF n
  <2>2. \A i \in 1..k : i \in 1..n
    BY <1>1
  <2> QED BY <1>3, <2>1, <2>2 DEF ReadWell, IsDocument
<1>6. \A k \in 0..n : f[k].d.stream = SubSeq(run, 1, k)
  <2> SUFFICES ASSUME NEW k \in 0..n PROVE f[k].d.stream = SubSeq(run, 1, k)
    OBVIOUS
  <2> DEFINE a == f[k].d.stream
             b == SubSeq(run, 1, k)
  <2>1. a \in Seq(Slots) /\ Len(a) = k /\ \A i \in 1..k : a[i] = run[i]
    BY <1>5
  <2>2. b \in Seq(Slots) /\ Len(b) = k /\ \A i \in 1..k : b[i] = run[i]
    BY <1>1 DEF n
  <2> HIDE DEF a, b
  <2>3. a = b
    BY <2>1, <2>2, SamePath
  <2> QED BY <2>3 DEF a, b
<1>7. \A k \in 1..n : f[k].v = AfterSlot(f[k - 1].v, run[k]) /\ f[k].d = ApplySlot(f[k - 1].d, run[k])
  <2> SUFFICES ASSUME NEW k \in 1..n
               PROVE  f[k].v = AfterSlot(f[k - 1].v, run[k]) /\ f[k].d = ApplySlot(f[k - 1].d, run[k])
    OBVIOUS
  <2>1. f[k] = ReadLine(f[k - 1], run[k])
    BY DEF ReadBy, n
  <2> QED BY <1>3, <2>1 DEF ReadLine
<1>8. \A k \in 1..n : IsEntryHeader(run[k]) => run[k].entry \notin Old(f[k - 1].d)
  <2> SUFFICES ASSUME NEW k \in 1..n, IsEntryHeader(run[k]), run[k].entry \in Old(f[k - 1].d)
               PROVE  FALSE
    OBVIOUS
  <2>1. run[k].entry # NoEntry
    BY DEF IsEntryHeader
  <2>2. PICK i \in 1..(k - 1) : IsEntryHeader(run[i]) /\ run[k].entry = run[i].entry
    <3>1. k - 1 \in 0..n
      BY <1>1
    <3>2. Len(f[k - 1].d.stream) = k - 1 /\ \A i \in 1..(k - 1) : f[k - 1].d.stream[i] = run[i]
      BY <1>5, <3>1
    <3>3. \E i \in {j \in 1..(k - 1) : IsEntryHeader(f[k - 1].d.stream[j])} : run[k].entry = f[k - 1].d.stream[i].entry
      BY <2>1, <3>2 DEF Old
    <3> QED BY <3>2, <3>3
  <2>3. i \in 1..n /\ i # k
    BY <1>1
  <2>4. Opens(run[i], run[k].entry) /\ Opens(run[k], run[k].entry)
    BY <2>2 DEF Opens
  <2> QED BY <2>3, <2>4 DEF EntriesApart, n
<1> DEFINE Good(k) == Reading(f[k].v, f[k].d) /\ \A i \in 1..k : FiledAt(f[k].d, i) = FiledAt(f[i].d, i)
           P == {k \in Nat : k <= n => Good(k)}
<1>9. ASSUME NEW k \in 1..n, Reading(f[k - 1].v, f[k - 1].d)
      PROVE  /\ Step(f[k - 1].v, f[k - 1].d, f[k].v, f[k].d, run[k])
             /\ Reading(f[k].v, f[k].d)
  <2> DEFINE v == f[k - 1].v
             d == f[k - 1].d
             s == run[k]
  <2>1. s \in Slots /\ Allowed(v, s) /\ Reread(v, s) = s /\ (IsEntryHeader(s) => s.entry \notin Old(d))
    BY <1>1, <1>3, <1>8
  <2>2. f[k].v = AfterSlot(v, s) /\ f[k].d = ApplySlot(d, s)
    BY <1>7
  <2>3. Reading(v, d)
    BY <1>9
  <2> HIDE DEF v, d, s
  <2>4. Step(v, d, f[k].v, f[k].d, s) /\ Reading(f[k].v, f[k].d)
    BY <2>1, <2>2, <2>3, ReadingStep
  <2> QED BY <2>4 DEF v, d, s
<1>10. 0 \in P
  <2>1. f[0] = [ok |-> TRUE, v |-> FreshValidator, d |-> EmptyDocument]
    BY DEF ReadBy
  <2> QED BY <2>1, ReadingEmpty
<1>11. ASSUME NEW k \in Nat, k \in P PROVE k + 1 \in P
  <2> SUFFICES ASSUME k + 1 <= n PROVE Good(k + 1)
    OBVIOUS
  <2>1. k + 1 \in 1..n /\ (k + 1) - 1 = k /\ k \in 0..n /\ Good(k)
    BY <1>1, <1>11
  <2>2. Step(f[k].v, f[k].d, f[k + 1].v, f[k + 1].d, run[k + 1]) /\ Reading(f[k + 1].v, f[k + 1].d)
    BY <1>9, <2>1
  <2>3. Len(f[k].d.stream) = k
    BY <1>5, <2>1
  <2> DEFINE d == f[k].d
             e == f[k + 1].d
  <2>4. \A i \in 1..k : FiledAt(e, i) = FiledAt(d, i)
    <3>1. \A i \in 1..Len(d.stream) : FiledAt(e, i) = FiledAt(d, i)
      <4> DEFINE v == f[k].v
                 w == f[k + 1].v
                 s == run[k + 1]
      <4>1. Step(v, d, w, e, s)
        BY <2>2
      <4> HIDE DEF v, w, s, d, e
      <4> QED BY <4>1, StepFacts
    <3> QED BY <2>3, <3>1
  <2>5. \A i \in 1..(k + 1) : i \in 1..k \/ i = k + 1
    OBVIOUS
  <2>6. \A i \in 1..(k + 1) : FiledAt(f[k + 1].d, i) = FiledAt(f[i].d, i)
    BY <2>1, <2>4, <2>5
  <2> QED BY <2>2, <2>6
<1> HIDE DEF P
<1>12. \A k \in Nat : k \in P
  BY <1>10, <1>11, InductionOnSet
<1>13. \A k \in 0..n : Good(k)
  BY <1>1, <1>12 DEF P
<1>14. \A k \in 1..n : Step(f[k - 1].v, f[k - 1].d, f[k].v, f[k].d, run[k])
  <2> SUFFICES ASSUME NEW k \in 1..n PROVE Step(f[k - 1].v, f[k - 1].d, f[k].v, f[k].d, run[k])
    OBVIOUS
  <2>1. k - 1 \in 0..n
    BY <1>1
  <2> QED BY <1>9, <1>13, <2>1
<1> QED BY <1>3, <1>4, <1>6, <1>7, <1>13, <1>14 DEF n

(* What a text reads as, when its arrays' entries are told apart: each slot *)
(* is filed on one table per step of its path, the entry of each the one in *)
(* force at its line; what it binds there is bound, and nothing else is;    *)
(* a table's lines follow its header; no line, no table is there twice.     *)
THEOREM TextReads ==
  ASSUME NEW run \in Seq(Slots), Accepts(run), EntriesApart(Reparsed(run).d)
  PROVE  Reading(Reparsed(run).v, Reparsed(run).d)
<1>1. Len(run) \in Nat
  OBVIOUS
<1>2. PICK f : ReadBy(run, f, Len(run)) /\ Reparsed(run) = f[Len(run)]
  BY <1>1, ReparsedMeaning
<1>3. \A k \in 0..Len(run) : Reading(f[k].v, f[k].d)
  <2>1. f[Len(run)].ok /\ f[Len(run)].d.stream = run /\ EntriesApart(f[Len(run)].d)
    BY <1>2 DEF Accepts
  <2> QED BY <1>2, <2>1, EveryLine
<1>4. Len(run) \in 0..Len(run)
  BY <1>1
<1> QED BY <1>2, <1>3, <1>4

(* The line at k, read after the lines above it alone, is filed as it is in *)
(* the whole text.                                                         *)
LEMMA LineRead ==
  ASSUME NEW run \in Seq(Slots), Accepts(run), EntriesApart(Reparsed(run).d), NEW k \in 1..Len(run)
  PROVE  LET x == Reparsed(SubSeq(run, 1, k - 1))
             y == Reparsed(SubSeq(run, 1, k))
         IN  /\ Accepts(SubSeq(run, 1, k - 1)) /\ Accepts(SubSeq(run, 1, k))
             /\ Reading(x.v, x.d) /\ Reading(y.v, y.d)
             /\ Allowed(x.v, run[k]) /\ Reread(x.v, run[k]) = run[k]
             /\ y.v = AfterSlot(x.v, run[k]) /\ y.d = ApplySlot(x.d, run[k])
             /\ Step(x.v, x.d, y.v, y.d, run[k])
             /\ FiledAt(Reparsed(run).d, k) = y.d.filed[run[k]]
<1> DEFINE n == Len(run)
<1>1. n \in Nat
  OBVIOUS
<1>2. PICK f : ReadBy(run, f, n) /\ Reparsed(run) = f[n]
  BY <1>1, ReparsedMeaning
<1>3. /\ \A i \in 0..n : f[i].ok /\ Reading(f[i].v, f[i].d) /\ f[i].d.stream = SubSeq(run, 1, i)
      /\ \A i \in 0..n : \A j \in 1..i : FiledAt(f[i].d, j) = FiledAt(f[j].d, j)
      /\ Allowed(f[k - 1].v, run[k]) /\ Reread(f[k - 1].v, run[k]) = run[k]
      /\ f[k].v = AfterSlot(f[k - 1].v, run[k]) /\ f[k].d = ApplySlot(f[k - 1].d, run[k])
      /\ Step(f[k - 1].v, f[k - 1].d, f[k].v, f[k].d, run[k])
  BY <1>2, EveryLine DEF Accepts
<1>4. ASSUME NEW m \in 0..n
      PROVE  Reparsed(SubSeq(run, 1, m)) = f[m]
  <2> DEFINE other == SubSeq(run, 1, m)
  <2>1. Len(other) = m /\ \A i \in 1..m : run[i] = other[i]
    OBVIOUS
  <2> HIDE DEF other
  <2>2. m \in Nat /\ Len(other) \in Nat
    BY <2>1
  <2>3. PICK g : ReadBy(other, g, Len(other)) /\ Reparsed(other) = g[Len(other)]
    BY <2>2, ReparsedMeaning
  <2>4. f[m] = g[m]
    <3>1. ReadBy(other, g, m) /\ m <= m
      BY <2>1, <2>2, <2>3
    <3> HIDE DEF n
    <3> QED BY <1>1, <1>2, <2>1, <2>2, <3>1, ReadAlike
  <2> QED BY <2>1, <2>3, <2>4 DEF other
<1>5. k - 1 \in 0..n /\ k \in 0..n /\ k \in 1..n /\ n \in 0..n
  BY <1>1
<1>6. Reparsed(SubSeq(run, 1, k - 1)) = f[k - 1] /\ Reparsed(SubSeq(run, 1, k)) = f[k]
  BY <1>4, <1>5
<1>7. FiledAt(f[n].d, k) = FiledAt(f[k].d, k)
  BY <1>3, <1>5
<1>8. f[k].d.stream[k] = run[k]
  <2>1. f[k].d.stream = SubSeq(run, 1, k)
    BY <1>3, <1>5
  <2>2. SubSeq(run, 1, k)[k] = run[k]
    BY <1>5
  <2> QED BY <2>1, <2>2
<1>9. FiledAt(f[n].d, k) = f[k].d.filed[run[k]]
  BY <1>7, <1>8 DEF FiledAt
<1>10. /\ f[k - 1].ok /\ Reading(f[k - 1].v, f[k - 1].d) /\ f[k - 1].d.stream = SubSeq(run, 1, k - 1)
       /\ f[k].ok /\ Reading(f[k].v, f[k].d) /\ f[k].d.stream = SubSeq(run, 1, k)
  BY <1>3, <1>5
<1> HIDE DEF n
<1> QED BY <1>2, <1>3, <1>6, <1>9, <1>10 DEF Accepts

=============================================================================
