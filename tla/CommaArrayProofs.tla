-------------------------- MODULE CommaArrayProofs --------------------------
(***************************************************************************)
(* An inline array keeps its form under every edit: what lies between its  *)
(* items stays trivia, every comment ends its line, and the text and the   *)
(* decoded list have the same items in the same order.                     *)
(***************************************************************************)
EXTENDS CommaArray, ListProofs, FiniteSetTheorems

(* Texts over S whose comments end their lines; and gaps, those without    *)
(* commas and items. *)
Ended(S) == {t \in Seq(S) : EndsLines(t)}
Trivia   == Comment \cup {WS, NL}
Gap      == Ended(Trivia)

(* A cut behind n tokens that parts no comment from its line break.        *)
Clean(t, n) == n \in 0..Len(t) /\ (n > 0 => ~IsComment(t[n]))

(* The tokens are told apart. *)
LEMMA TokensDiffer == WS # NL /\ ~IsComment(WS) /\ ~IsComment(NL) /\ ~IsComment(COMMA) /\ ~IsComment(None)
BY CommentAssumption DEF WS, NL, COMMA, None, IsComment

(* What such a text is, in numbers. *)
LEMMA EndedMeaning ==
  ASSUME NEW S, NEW t \in Ended(S)
  PROVE  /\ t \in Seq(S) /\ Len(t) \in Nat /\ DOMAIN t = 1..Len(t)
         /\ \A i \in 1..Len(t) : t[i] \in S
         /\ \A i \in 1..Len(t) : IsComment(t[i]) => i + 1 \in 1..Len(t) /\ t[i + 1] = NL
<1>1. t \in Seq(S) /\ \A i \in DOMAIN t : IsComment(t[i]) => i < Len(t) /\ t[i + 1] = NL
  BY DEF Ended, EndsLines
<1>2. Len(t) \in Nat /\ DOMAIN t = 1..Len(t) /\ \A i \in 1..Len(t) : t[i] \in S
  BY <1>1
<1> QED BY <1>1, <1>2

LEMMA EndedFrom ==
  ASSUME NEW S, NEW t \in Seq(S),
         \A i \in 1..Len(t) : IsComment(t[i]) => i + 1 \in 1..Len(t) /\ t[i + 1] = NL
  PROVE  t \in Ended(S)
<1>1. Len(t) \in Nat /\ DOMAIN t = 1..Len(t)
  OBVIOUS
<1>2. \A i \in DOMAIN t : IsComment(t[i]) => i < Len(t) /\ t[i + 1] = NL
  BY <1>1
<1> QED BY <1>2 DEF Ended, EndsLines

(* Joining two of them joins no comment to what follows. *)
LEMMA EndedJoin ==
  ASSUME NEW S, NEW a \in Ended(S), NEW b \in Ended(S)
  PROVE  a \o b \in Ended(S)
<1> DEFINE c == a \o b
<1>1. a \in Seq(S) /\ b \in Seq(S) /\ Len(a) \in Nat /\ Len(b) \in Nat
  BY EndedMeaning
<1>2. c \in Seq(S) /\ Len(c) = Len(a) + Len(b)
      /\ \A i \in 1..(Len(a) + Len(b)) : c[i] = IF i <= Len(a) THEN a[i] ELSE b[i - Len(a)]
  BY <1>1, Joined
<1> HIDE DEF c
<1>3. ASSUME NEW i \in 1..Len(c), IsComment(c[i]) PROVE i + 1 \in 1..Len(c) /\ c[i + 1] = NL
  <2>1. CASE i <= Len(a)
    <3>1. i \in 1..Len(a) /\ IsComment(a[i])
      BY <1>1, <1>2, <1>3, <2>1
    <3>2. i + 1 \in 1..Len(a) /\ a[i + 1] = NL
      BY <3>1, EndedMeaning
    <3> QED BY <1>1, <1>2, <3>2
  <2>2. CASE ~(i <= Len(a))
    <3>1. i - Len(a) \in 1..Len(b) /\ IsComment(b[i - Len(a)])
      BY <1>1, <1>2, <1>3, <2>2
    <3>2. (i - Len(a)) + 1 \in 1..Len(b) /\ b[(i - Len(a)) + 1] = NL
      BY <3>1, EndedMeaning
    <3>3. (i - Len(a)) + 1 = (i + 1) - Len(a) /\ i + 1 \in 1..(Len(a) + Len(b)) /\ ~(i + 1 <= Len(a))
      BY <1>1, <1>2, <2>2, <3>2
    <3> QED BY <1>2, <3>2, <3>3
  <2> QED BY <2>1, <2>2
<1> QED BY <1>2, <1>3, EndedFrom DEF c

(* A stretch of a text, cut clean at its end.                              *)
LEMMA EndedStretch ==
  ASSUME NEW S, NEW t \in Ended(S), NEW m \in Nat, NEW n, Clean(t, n), m <= n
  PROVE  /\ SubSeq(t, m + 1, n) \in Ended(S)
         /\ Len(SubSeq(t, m + 1, n)) = n - m
         /\ \A i \in 1..(n - m) : SubSeq(t, m + 1, n)[i] = t[i + m]
<1> DEFINE c == SubSeq(t, m + 1, n)
<1>1. t \in Seq(S) /\ Len(t) \in Nat /\ n \in 0..Len(t) /\ m + 1 \in 1..(Len(t) + 1) /\ m + 1 <= n + 1
  BY EndedMeaning DEF Clean
<1>2. c \in Seq(S) /\ Len(c) = n - (m + 1) + 1 /\ \A i \in 1..(n - (m + 1) + 1) : c[i] = t[i + (m + 1) - 1]
  BY <1>1, CutAt
<1>3. Len(c) = n - m /\ \A i \in 1..(n - m) : c[i] = t[i + m]
  <2>1. n - (m + 1) + 1 = n - m /\ \A i \in 1..(n - m) : i + (m + 1) - 1 = i + m
    BY <1>1
  <2> QED BY <1>2, <2>1
<1> HIDE DEF c
<1>4. ASSUME NEW i \in 1..Len(c), IsComment(c[i]) PROVE i + 1 \in 1..Len(c) /\ c[i + 1] = NL
  <2>1. i + m \in 1..Len(t) /\ IsComment(t[i + m]) /\ i \in 1..(n - m)
    BY <1>1, <1>3, <1>4
  <2>2. t[(i + m) + 1] = NL
    BY <2>1, EndedMeaning
  <2>3. i + m # n
    BY <1>1, <2>1 DEF Clean
  <2>4. i + 1 \in 1..(n - m) /\ (i + 1) + m = (i + m) + 1
    BY <1>1, <2>1, <2>3
  <2> QED BY <1>3, <2>2, <2>4
<1> QED BY <1>2, <1>3, <1>4, EndedFrom DEF c

LEMMA WholeClean ==
  ASSUME NEW S, NEW t \in Ended(S)
  PROVE  Clean(t, Len(t))
<1>1. Len(t) \in Nat
  BY EndedMeaning
<1>2. Len(t) > 0 => Len(t) \in 1..Len(t) /\ Len(t) + 1 \notin 1..Len(t)
  BY <1>1
<1> QED BY <1>1, <1>2, EndedMeaning DEF Clean

LEMMA EndedUpto ==
  ASSUME NEW S, NEW t \in Ended(S), NEW n, Clean(t, n)
  PROVE  /\ Upto(t, n) \in Ended(S) /\ Len(Upto(t, n)) = n
         /\ \A i \in 1..n : Upto(t, n)[i] = t[i]
<1>1. PICK m \in Nat : m = 0
  OBVIOUS
<1>2. m <= n /\ n \in Nat
  BY <1>1 DEF Clean
<1>3. /\ SubSeq(t, m + 1, n) \in Ended(S) /\ Len(SubSeq(t, m + 1, n)) = n - m
      /\ \A i \in 1..(n - m) : SubSeq(t, m + 1, n)[i] = t[i + m]
  BY <1>2, EndedStretch
<1>4. m + 1 = 1 /\ n - m = n /\ \A i \in 1..n : i + m = i
  BY <1>1, <1>2
<1> QED BY <1>3, <1>4 DEF Upto

LEMMA EndedRest ==
  ASSUME NEW S, NEW t \in Ended(S), NEW n \in 0..Len(t)
  PROVE  /\ From(t, n) \in Ended(S) /\ Len(From(t, n)) = Len(t) - n
         /\ \A i \in 1..(Len(t) - n) : From(t, n)[i] = t[i + n]
<1>1. n \in Nat /\ n <= Len(t)
  BY EndedMeaning
<1>2. Clean(t, Len(t))
  BY WholeClean
<1> QED BY <1>1, <1>2, EndedStretch DEF From

-----------------------------------------------------------------------------
(* Where a gap is cut.                                                     *)

(* The least and the greatest of a set of numbers. *)
LEMMA LeastOf ==
  ASSUME NEW T \in SUBSET Nat, NEW t \in T
  PROVE  Min(T) \in T /\ \A q \in T : Min(T) <= q
<1>1. \E r \in T : \A q \in T : r <= q
  BY LeastElement
<1>2. \E r : r \in T /\ \A q \in T : r <= q
  BY <1>1
<1> QED BY <1>2 DEF Min

LEMMA GreatestOf ==
  ASSUME NEW T \in SUBSET Nat, NEW t \in T, NEW b \in Nat, \A q \in T : q <= b
  PROVE  Max(T) \in T /\ \A q \in T : q <= Max(T)
<1>1. \E r \in T : \A q \in T : q <= r
  BY GreatestElement
<1>2. \E r : r \in T /\ \A q \in T : r >= q
  BY <1>1
<1>3. Max(T) \in T /\ \A q \in T : Max(T) >= q
  BY <1>2 DEF Max
<1> QED BY <1>3

(* Where CommaTrivia cuts a gap, it cuts clean: the leading blanks, the    *)
(* core, the last and the first break, the row comment.                    *)
LEMMA LeadingWsCut ==
  ASSUME NEW S, NEW t \in Ended(S)
  PROVE  /\ LeadingWs(t) \in 0..Len(t)
         /\ \A i \in 1..LeadingWs(t) : t[i] = WS
         /\ LeadingWs(t) + 1 <= Len(t) => t[LeadingWs(t) + 1] # WS
         /\ Clean(t, LeadingWs(t))
<1> DEFINE T == {i \in 0..Len(t) : i = Len(t) \/ t[i + 1] # WS}
<1>1. Len(t) \in Nat /\ T \in SUBSET Nat /\ Len(t) \in T
  BY EndedMeaning
<1>2. Min(T) \in T /\ \A q \in T : Min(T) <= q
  BY <1>1, LeastOf
<1>3. LeadingWs(t) = Min(T)
  BY DEF LeadingWs
<1> DEFINE n == Min(T)
<1>4. n \in 0..Len(t) /\ (n + 1 <= Len(t) => t[n + 1] # WS)
  BY <1>1, <1>2
<1>5. ASSUME NEW i \in 1..n PROVE t[i] = WS
  <2>1. i - 1 \in 0..Len(t) /\ i - 1 # Len(t) /\ ~(n <= i - 1) /\ (i - 1) + 1 = i
    BY <1>1, <1>4
  <2> QED BY <1>2, <2>1
<1> HIDE DEF n
<1>6. n > 0 => n \in 1..n
  BY <1>4
<1>7. Clean(t, n)
  BY <1>4, <1>5, <1>6, TokensDiffer DEF Clean
<1> QED BY <1>3, <1>4, <1>5, <1>7 DEF n

LEMMA CoreLenCut ==
  ASSUME NEW S, NEW t \in Ended(S)
  PROVE  /\ Clean(t, CoreLen(t))
         /\ \A i \in 1..Len(t) : i > CoreLen(t) => t[i] = WS
<1> DEFINE T == {0} \cup {i \in DOMAIN t : t[i] # WS}
<1>1. Len(t) \in Nat /\ DOMAIN t = 1..Len(t)
  BY EndedMeaning
<1>2. T \in SUBSET Nat /\ 0 \in T /\ \A q \in T : q <= Len(t)
  BY <1>1
<1>3. Max(T) \in T /\ \A q \in T : q <= Max(T)
  BY <1>1, <1>2, GreatestOf
<1>4. CoreLen(t) = Max(T)
  BY DEF CoreLen
<1> DEFINE n == Max(T)
<1>5. n \in 0..Len(t)
  BY <1>1, <1>3
<1>6. ASSUME NEW i \in 1..Len(t), i > n PROVE t[i] = WS
  BY <1>1, <1>3, <1>5, <1>6
<1> HIDE DEF n
<1>7. ASSUME n > 0, IsComment(t[n]) PROVE FALSE
  <2>1. n \in 1..Len(t)
    BY <1>5, <1>7
  <2>2. n + 1 \in 1..Len(t) /\ t[n + 1] = NL /\ n + 1 > n
    BY <1>7, <2>1, EndedMeaning
  <2> QED BY <1>6, <2>2, TokensDiffer
<1>8. Clean(t, n)
  BY <1>5, <1>7 DEF Clean
<1> QED BY <1>4, <1>6, <1>8 DEF n

LEMMA LastNlCut ==
  ASSUME NEW S, NEW t \in Ended(S)
  PROVE  Clean(t, LastNl(t))
<1> DEFINE T == {0} \cup {i \in DOMAIN t : t[i] = NL}
<1>1. Len(t) \in Nat /\ DOMAIN t = 1..Len(t)
  BY EndedMeaning
<1>2. T \in SUBSET Nat /\ 0 \in T /\ \A q \in T : q <= Len(t)
  BY <1>1
<1>3. Max(T) \in T
  BY <1>1, <1>2, GreatestOf
<1>4. LastNl(t) = Max(T)
  BY DEF LastNl
<1> QED BY <1>1, <1>3, <1>4, TokensDiffer DEF Clean

LEMMA FirstNlCut ==
  ASSUME NEW S, NEW t \in Ended(S)
  PROVE  Clean(t, FirstNl(t)) /\ (HasNl(t) => FirstNl(t) > 0 /\ t[FirstNl(t)] = NL)
<1> DEFINE T == {i \in 1..Len(t) : t[i] = NL}
<1>1. Len(t) \in Nat /\ DOMAIN t = 1..Len(t) /\ T \in SUBSET Nat
  BY EndedMeaning
<1>2. FirstNl(t) = IF T # {} THEN Min(T) ELSE 0
  BY DEF FirstNl, SelectInSeq
<1>3. T # {} => Min(T) \in T
  BY <1>1, LeastOf
<1>4. HasNl(t) => T # {}
  BY <1>1 DEF HasNl
<1> QED BY <1>1, <1>2, <1>3, <1>4, TokensDiffer DEF Clean

LEMMA LeadingBreakCut ==
  ASSUME NEW S, NEW t \in Ended(S)
  PROVE  Clean(t, LeadingBreak(t)) /\ (LeadingBreak(t) > 0 => t[LeadingBreak(t)] = NL)
<1> DEFINE k == LeadingWs(t) + 1
<1>1. Len(t) \in Nat /\ k \in 1..(Len(t) + 1)
  BY LeadingWsCut, EndedMeaning
<1>2. LeadingBreak(t) = IF k <= Len(t) /\ t[k] = NL THEN k ELSE 0
  BY DEF LeadingBreak
<1> HIDE DEF k
<1> QED BY <1>1, <1>2, TokensDiffer DEF Clean

(* The comment on the row, if any, follows whitespace only; its line break *)
(* comes with it. *)
LEMMA EolCut ==
  ASSUME NEW S, NEW t \in Ended(S)
  PROVE  /\ Clean(t, EolLen(t))
         /\ EolLen(t) > 0 => /\ EolLen(t) >= 2 /\ t[EolLen(t)] = NL /\ IsComment(t[EolLen(t) - 1])
                             /\ \A i \in 1..(EolLen(t) - 2) : t[i] = WS
<1> DEFINE k == LeadingWs(t) + 1
<1>1. Len(t) \in Nat /\ k \in 1..(Len(t) + 1) /\ \A i \in 1..(k - 1) : t[i] = WS
  BY LeadingWsCut, EndedMeaning
<1>2. EolLen(t) = IF k > Len(t) \/ ~IsComment(t[k]) THEN 0
                  ELSE IF k < Len(t) /\ t[k + 1] = NL THEN k + 1 ELSE k
  BY DEF EolLen
<1> HIDE DEF k
<1>3. CASE k > Len(t) \/ ~IsComment(t[k])
  <2>1. EolLen(t) = 0
    BY <1>2, <1>3
  <2> QED BY <1>1, <2>1 DEF Clean
<1>4. CASE ~(k > Len(t) \/ ~IsComment(t[k]))
  <2>1. k \in 1..Len(t) /\ IsComment(t[k])
    BY <1>1, <1>4
  <2>2. k + 1 \in 1..Len(t) /\ t[k + 1] = NL
    BY <2>1, EndedMeaning
  <2>3. EolLen(t) = k + 1
    BY <1>1, <1>2, <1>4, <2>2
  <2>4. (k + 1) - 1 = k /\ (k + 1) - 2 = k - 1 /\ k + 1 >= 2
    BY <1>1
  <2> QED BY <1>1, <2>1, <2>2, <2>3, <2>4, TokensDiffer DEF Clean
<1> QED BY <1>3, <1>4

-----------------------------------------------------------------------------
(* The parts of a gap are gaps.                                            *)

LEMMA SmallGaps ==
  /\ <<>> \in Gap /\ <<NL>> \in Gap /\ <<WS>> \in Gap
  /\ \A c \in Comment : <<c, NL>> \in Gap /\ <<WS, c, NL>> \in Gap
<1>1. <<>> \in Gap
  <2> DEFINE t == <<>>
  <2>1. t \in Seq(Trivia) /\ Len(t) = 0
    OBVIOUS
  <2> HIDE DEF t
  <2>2. \A i \in 1..Len(t) : FALSE
    BY <2>1
  <2>3. t \in Gap
    BY <2>1, <2>2, EndedFrom DEF Gap
  <2> QED BY <2>3 DEF t
<1>2. ASSUME NEW x \in {NL, WS} PROVE <<x>> \in Gap
  <2>1. <<x>> \in Seq(Trivia) /\ \A i \in 1..Len(<<x>>) : <<x>>[i] = x
    BY DEF Trivia
  <2>2. ~IsComment(x)
    BY TokensDiffer
  <2> QED BY <2>1, <2>2, EndedFrom DEF Gap
<1>3. ASSUME NEW c \in Comment PROVE <<c, NL>> \in Gap
  <2> DEFINE t == <<c, NL>>
  <2>1. t \in Seq(Trivia) /\ Len(t) = 2 /\ t[1] = c /\ t[2] = NL
    BY DEF Trivia
  <2> HIDE DEF t
  <2>2. \A i \in 1..Len(t) : IsComment(t[i]) => i + 1 \in 1..Len(t) /\ t[i + 1] = NL
    BY <2>1, TokensDiffer
  <2>3. t \in Gap
    BY <2>1, <2>2, EndedFrom DEF Gap
  <2> QED BY <2>3 DEF t
<1>4. ASSUME NEW c \in Comment PROVE <<WS, c, NL>> \in Gap
  <2> DEFINE t == <<WS, c, NL>>
  <2>1. t \in Seq(Trivia) /\ Len(t) = 3 /\ t[1] = WS /\ t[2] = c /\ t[3] = NL
    BY DEF Trivia
  <2> HIDE DEF t
  <2>2. \A i \in 1..Len(t) : IsComment(t[i]) => i + 1 \in 1..Len(t) /\ t[i + 1] = NL
    BY <2>1, TokensDiffer
  <2>3. t \in Gap
    BY <2>1, <2>2, EndedFrom DEF Gap
  <2> QED BY <2>3 DEF t
<1> QED BY <1>1, <1>2, <1>3, <1>4

LEMMA GapJoin ==
  ASSUME NEW a \in Gap, NEW b \in Gap
  PROVE  a \o b \in Gap
BY EndedJoin DEF Gap

(* Hence every piece CommaTrivia takes from a gap is a gap again. *)
LEMMA GapParts ==
  ASSUME NEW t \in Gap
  PROVE  /\ StripTrailingWs(t) \in Gap /\ TrailingWs(t) \in Gap /\ StripLeadingWs(t) \in Gap
         /\ EolPart(t) \in Gap /\ EolRest(t) \in Gap
         /\ ItemHead(t) \in Gap /\ ItemAbove(t) \in Gap /\ ItemTail(t) \in Gap
         /\ PadAbove(t) \in Gap
         /\ From(t, Len(ItemHead(t))) \in Gap
         /\ From(t, LeadingBreak(t)) \in Gap
         /\ From(t, FirstNl(t)) \in Gap
         /\ Upto(t, LastNl(t)) \in Gap /\ From(t, LastNl(t)) \in Gap
         /\ Upto(t, LeadingWs(t)) \in Gap
<1>1. ASSUME NEW u \in Gap PROVE /\ StripTrailingWs(u) \in Gap /\ TrailingWs(u) \in Gap
  <2>1. Clean(u, CoreLen(u)) /\ CoreLen(u) \in 0..Len(u)
    BY CoreLenCut DEF Gap, Clean
  <2> QED BY <2>1, EndedUpto, EndedRest DEF Gap, StripTrailingWs, TrailingWs
<1>2. StripLeadingWs(t) \in Gap /\ Upto(t, LeadingWs(t)) \in Gap
  BY LeadingWsCut, EndedRest, EndedUpto DEF Gap, StripLeadingWs
<1>3. EolPart(t) \in Gap /\ EolRest(t) \in Gap
  BY EolCut, EndedRest, EndedUpto DEF Gap, EolPart, EolRest, Clean
<1>4. ItemHead(t) \in Gap /\ From(t, Len(ItemHead(t))) \in Gap
  <2>1. CASE t # <<>> /\ t[1] = NL
    <3>1. ItemHead(t) = <<NL>> /\ Len(ItemHead(t)) = 1
      BY <2>1 DEF ItemHead
    <3>2. 1 \in 0..Len(t)
      BY <2>1, EndedMeaning DEF Gap
    <3> QED BY <3>1, <3>2, SmallGaps, EndedRest DEF Gap
  <2>2. CASE ~(t # <<>> /\ t[1] = NL)
    <3>1. ItemHead(t) = <<>> /\ Len(ItemHead(t)) = 0
      BY <2>2 DEF ItemHead
    <3>2. 0 \in 0..Len(t)
      BY EndedMeaning DEF Gap
    <3> QED BY <3>1, <3>2, SmallGaps, EndedRest DEF Gap
  <2> QED BY <2>1, <2>2
<1>5. ItemAbove(t) \in Gap /\ ItemTail(t) \in Gap
  BY <1>1, <1>4 DEF ItemAbove, ItemTail
<1>6. From(t, LeadingBreak(t)) \in Gap
  BY LeadingBreakCut, EndedRest DEF Gap, Clean
<1>7. From(t, FirstNl(t)) \in Gap
  BY FirstNlCut, EndedRest DEF Gap, Clean
<1>8. Upto(t, LastNl(t)) \in Gap /\ From(t, LastNl(t)) \in Gap
  BY LastNlCut, EndedRest, EndedUpto DEF Gap, Clean
<1>9. PadAbove(t) \in Gap
  BY <1>1, <1>7, SmallGaps DEF PadAbove
<1> QED BY <1>1, <1>2, <1>3, <1>4, <1>5, <1>6, <1>7, <1>8, <1>9

(* What is kept of a list.                                                 *)
LEMMA KeptIn ==
  ASSUME NEW S, NEW items \in Seq(S), NEW R
  PROVE  Keeping(items, R) \in Seq(S \cap R)
<1> DEFINE n == Len(items)
<1>1. n \in Nat /\ \A i \in 1..n : items[i] \in S
  OBVIOUS
<1>2. PICK f : KeptBy(items, R, f, n) /\ Keeping(items, R) = f[n]
  BY <1>1, KeepingMeaning
<1> HIDE DEF n
<1> DEFINE P == {m \in Nat : m <= n => f[m] \in Seq(S \cap R)}
<1>3. 0 \in P
  <2>1. f[0] = <<>>
    BY <1>2 DEF KeptBy
  <2>2. <<>> \in Seq(S \cap R)
    OBVIOUS
  <2>3. f[0] \in Seq(S \cap R)
    BY <2>1, <2>2
  <2> QED BY <2>3
<1>4. ASSUME NEW m \in Nat, m \in P PROVE m + 1 \in P
  <2> SUFFICES ASSUME m + 1 <= n PROVE f[m + 1] \in Seq(S \cap R)
    OBVIOUS
  <2>1. m + 1 \in 1..n /\ (m + 1) - 1 = m /\ f[m] \in Seq(S \cap R)
    BY <1>1, <1>4
  <2>2. f[m + 1] = IF items[m + 1] \in R THEN Append(f[m], items[m + 1]) ELSE f[m]
    BY <1>2, <2>1 DEF KeptBy
  <2>3. items[m + 1] \in S
    BY <1>1, <2>1
  <2> QED BY <2>1, <2>2, <2>3
<1> HIDE DEF P
<1>5. n \in P
  BY <1>1, <1>3, <1>4, InductionOnSet
<1> QED BY <1>1, <1>2, <1>5 DEF P

(* All but the last kept. *)
LEMMA KeptButLast ==
  ASSUME NEW S, NEW items \in Seq(S), NEW R, items # <<>>,
         \A i \in 1..(Len(items) - 1) : items[i] \in R, items[Len(items)] \notin R
  PROVE  /\ Keeping(items, R) \in Seq(S) /\ Len(Keeping(items, R)) = Len(items) - 1
         /\ \A i \in 1..(Len(items) - 1) : Keeping(items, R)[i] = items[i]
<1> DEFINE n == Len(items)
<1>1. n \in Nat /\ n >= 1 /\ \A i \in 1..n : items[i] \in S
  OBVIOUS
<1>2. PICK f : KeptBy(items, R, f, n) /\ Keeping(items, R) = f[n]
  BY <1>1, KeepingMeaning
<1> DEFINE Same(q, m) == q \in Seq(S) /\ Len(q) = m /\ \A i \in 1..m : q[i] = items[i]
<1>3. \A i \in 1..(n - 1) : items[i] \in R
  OBVIOUS
<1>4. items[n] \notin R
  OBVIOUS
<1> HIDE DEF n
<1> DEFINE P == {m \in Nat : m < n => Same(f[m], m)}
<1>5. 0 \in P
  <2>1. f[0] = <<>>
    BY <1>2 DEF KeptBy
  <2>2. Same(<<>>, 0)
    OBVIOUS
  <2>3. Same(f[0], 0)
    BY <2>1, <2>2
  <2> HIDE DEF Same
  <2> QED BY <2>3
<1>6. ASSUME NEW m \in Nat, m \in P PROVE m + 1 \in P
  <2> SUFFICES ASSUME m + 1 < n PROVE Same(f[m + 1], m + 1)
    OBVIOUS
  <2>1. m + 1 \in 1..(n - 1) /\ m + 1 \in 1..n /\ (m + 1) - 1 = m /\ Same(f[m], m)
    BY <1>1, <1>6
  <2>2. f[m + 1] = Append(f[m], items[m + 1]) /\ items[m + 1] \in S
    BY <1>1, <1>2, <1>3, <2>1 DEF KeptBy
  <2> QED BY <2>1, <2>2
<1> HIDE DEF P
<1>7. n - 1 \in P /\ n - 1 \in Nat /\ n \in 1..n
  BY <1>1, <1>5, <1>6, InductionOnSet
<1>8. f[n] = f[n - 1]
  BY <1>2, <1>4, <1>7 DEF KeptBy
<1>9. Same(f[n - 1], n - 1)
  BY <1>1, <1>7 DEF P
<1> QED BY <1>2, <1>8, <1>9 DEF n

-----------------------------------------------------------------------------
(* Lines.                                                                  *)

(* Texts whose comments end their lines, one after another. *)
LEMMA FlattenEnded ==
  ASSUME NEW S, NEW parts \in Seq(Ended(S))
  PROVE  FlattenSeq(parts) \in Ended(S)
<1> DEFINE n == Len(parts)
<1>1. n \in Nat /\ \A i \in 1..n : parts[i] \in Ended(S)
  OBVIOUS
<1>2. CASE n = 0
  <2>1. FlattenSeq(parts) = parts /\ parts \in Seq(S) /\ \A i \in 1..Len(parts) : FALSE
    BY <1>2 DEF FlattenSeq
  <2> QED BY <2>1, EndedFrom
<1>3. CASE n # 0
  <2>1. PICK f : Flattens(parts, f, n) /\ FlattenSeq(parts) = f[n]
    BY <1>1, <1>3, FlattenMeaning
  <2> HIDE DEF n
  <2> DEFINE P == {m \in Nat : m + 1 <= n => f[m + 1] \in Ended(S)}
  <2>2. 0 \in P
    <3>1. f[1] = parts[1]
      BY <2>1 DEF Flattens
    <3>2. f[0 + 1] \in Ended(S)
      BY <1>1, <1>3, <3>1
    <3> QED BY <3>2
  <2>3. ASSUME NEW m \in Nat, m \in P PROVE m + 1 \in P
    <3> SUFFICES ASSUME (m + 1) + 1 <= n PROVE f[(m + 1) + 1] \in Ended(S)
      OBVIOUS
    <3>1. (m + 1) + 1 \in 2..n /\ (m + 1) + 1 \in 1..n /\ ((m + 1) + 1) - 1 = m + 1 /\ f[m + 1] \in Ended(S)
      BY <1>1, <2>3
    <3>2. f[(m + 1) + 1] = f[m + 1] \o parts[(m + 1) + 1]
      BY <2>1, <3>1 DEF Flattens
    <3> QED BY <1>1, <3>1, <3>2, EndedJoin
  <2> HIDE DEF P
  <2>4. n - 1 \in P /\ n - 1 \in Nat /\ (n - 1) + 1 = n
    BY <1>1, <1>3, <2>2, <2>3, InductionOnSet
  <2>5. f[(n - 1) + 1] \in Ended(S)
    BY <1>1, <2>4 DEF P
  <2> QED BY <2>1, <2>4, <2>5
<1> QED BY <1>2, <1>3

LEMMA FlattenGap ==
  ASSUME NEW parts \in Seq(Gap)
  PROVE  FlattenSeq(parts) \in Gap
BY FlattenEnded DEF Gap

(* A stretch that may be empty. *)
LEMMA GapStretch ==
  ASSUME NEW t \in Gap, NEW m \in Nat, NEW n, Clean(t, n)
  PROVE  SubSeq(t, m + 1, n) \in Gap
<1>1. CASE m <= n
  BY <1>1, EndedStretch DEF Gap
<1>2. CASE ~(m <= n)
  <2>1. n \in Nat
    BY EndedMeaning DEF Clean, Gap
  <2>2. SubSeq(t, m + 1, n) = <<>>
    BY <1>2, <2>1
  <2> QED BY <2>2, SmallGaps
<1> QED BY <1>1, <1>2

LEMMA NlEndsIn ==
  ASSUME NEW t \in Gap
  PROVE  NlEnds(t) \in Seq({i \in 1..Len(t) : t[i] = NL})
<1> DEFINE q == [i \in 1..Len(t) |-> i]
           R == {i \in DOMAIN t : t[i] = NL}
<1>1. Len(t) \in Nat /\ DOMAIN t = 1..Len(t)
  BY EndedMeaning DEF Gap
<1>2. q \in Seq(1..Len(t))
  BY <1>1
<1>3. Keeping(q, R) \in Seq((1..Len(t)) \cap R)
  BY <1>2, KeptIn
<1>4. (1..Len(t)) \cap R = {i \in 1..Len(t) : t[i] = NL}
  BY <1>1
<1> QED BY <1>3, <1>4 DEF NlEnds

(* The lines of a gap, and lines written from comments, are gaps. *)
LEMMA LinesAreGaps ==
  ASSUME NEW t \in Gap
  PROVE  LinesOf(t) \in Seq(Gap)
<1> DEFINE ends   == NlEnds(t)
           starts == <<0>> \o ends
           whole  == [k \in 1..Len(ends) |-> SubSeq(t, starts[k] + 1, ends[k])]
<1>1. Len(t) \in Nat /\ ends \in Seq({i \in 1..Len(t) : t[i] = NL}) /\ Len(ends) \in Nat
  BY NlEndsIn, EndedMeaning DEF Gap
<1>2. ASSUME NEW k \in 1..Len(ends) PROVE starts[k] \in Nat /\ Clean(t, ends[k])
  <2>1. ends[k] \in 1..Len(t) /\ t[ends[k]] = NL
    BY <1>1
  <2>2. CASE k = 1
    <3>1. starts[k] = 0
      BY <1>1, <2>2
    <3> QED BY <2>1, <3>1, TokensDiffer DEF Clean
  <2>3. CASE k # 1
    <3>1. k - 1 \in 1..Len(ends) /\ starts[k] = ends[k - 1]
      BY <1>1, <2>3
    <3>2. ends[k - 1] \in 1..Len(t)
      BY <1>1, <3>1
    <3> QED BY <2>1, <3>1, <3>2, TokensDiffer DEF Clean
  <2> QED BY <2>2, <2>3
<1> HIDE DEF starts, ends
<1>3. \A k \in 1..Len(ends) : SubSeq(t, starts[k] + 1, ends[k]) \in Gap
  BY <1>2, GapStretch
<1>4. whole \in Seq(Gap)
  BY <1>1, <1>3
<1>5. From(t, LastNl(t)) \in Gap
  BY GapParts
<1>6. LinesOf(t) = IF LastNl(t) = Len(t) THEN whole ELSE Append(whole, From(t, LastNl(t)))
  BY DEF LinesOf, ends, starts
<1> HIDE DEF whole
<1> QED BY <1>4, <1>5, <1>6

LEMMA RenderedGap ==
  ASSUME NEW block \in Seq(Comment \cup {None}), NEW indent \in Gap
  PROVE  RenderLines(block, indent) \in Gap
<1> DEFINE part(k) == IF block[k] = None THEN <<NL>> ELSE indent \o <<block[k], NL>>
           parts == [k \in 1..Len(block) |-> part(k)]
<1>1. Len(block) \in Nat /\ \A k \in 1..Len(block) : block[k] \in Comment \cup {None}
  OBVIOUS
<1>2. ASSUME NEW k \in 1..Len(block) PROVE part(k) \in Gap
  BY <1>1, SmallGaps, GapJoin
<1> HIDE DEF part
<1>3. parts \in Seq(Gap)
  BY <1>1, <1>2
<1>4. RenderLines(block, indent) = FlattenSeq(parts)
  BY DEF RenderLines, part
<1> QED BY <1>3, <1>4, FlattenGap

LEMMA CanonGap ==
  ASSUME NEW t \in Gap, NEW indent \in Gap, NEW firstIsEol
  PROVE  CanonText(t, indent, firstIsEol) \in Gap
<1> DEFINE lines == LinesOf(t)
           blank(k) == /\ Last(lines[k]) = NL /\ ~HasComment(lines[k])
                       /\ ~(firstIsEol /\ k = 1)
           canon(k) ==
             CASE HasComment(lines[k]) ->
                    (IF firstIsEol /\ k = 1 THEN Upto(lines[k], LeadingWs(lines[k])) ELSE indent)
                      \o StripLeadingWs(lines[k])
               [] blank(k) -> IF k > 1 /\ blank(k - 1) THEN <<>> ELSE <<NL>>
               [] ~HasComment(lines[k]) /\ ~blank(k) /\ HasNl(lines[k]) -> <<NL>>
               [] OTHER -> lines[k]
           parts == [k \in 1..Len(lines) |-> canon(k)]
<1>1. Len(lines) \in Nat /\ \A k \in 1..Len(lines) : lines[k] \in Gap
  BY LinesAreGaps
<1>2. CanonText(t, indent, firstIsEol) = FlattenSeq(parts)
  BY DEF CanonText
<1> HIDE DEF lines
<1>3. ASSUME NEW k \in 1..Len(lines) PROVE canon(k) \in Gap
  <2>1. lines[k] \in Gap
    BY <1>1
  <2>2. StripLeadingWs(lines[k]) \in Gap /\ Upto(lines[k], LeadingWs(lines[k])) \in Gap
    BY <2>1, GapParts
  <2>3. (IF firstIsEol /\ k = 1 THEN Upto(lines[k], LeadingWs(lines[k])) ELSE indent)
           \o StripLeadingWs(lines[k]) \in Gap
    BY <2>2, GapJoin
  <2> HIDE DEF blank
  <2> QED BY <2>1, <2>3, SmallGaps
<1> HIDE DEF canon
<1>4. parts \in Seq(Gap)
  BY <1>1, <1>3
<1> QED BY <1>2, <1>4, FlattenGap

(* The pads at the brackets when the first item comes or the last one      *)
(* goes.                                                                   *)
LEMMA PadsAreGaps ==
  ASSUME NEW pad \in Gap, NEW closing \in Gap
  PROVE  FirstOpening(pad) \in Gap /\ FirstFinal(pad) \in Gap /\ EmptiedPad(pad, closing) \in Gap
<1>1. FirstFinal(pad) \in Gap
  BY SmallGaps DEF FirstFinal
<1>2. FirstOpening(pad) \in Gap
  <2> DEFINE rest == From(pad, LastNl(pad))
             indent == Upto(rest, LeadingWs(rest))
             led == IF indent = <<>> THEN <<WS>> ELSE indent
  <2>1. rest \in Gap /\ Upto(pad, LastNl(pad)) \in Gap
    BY GapParts
  <2>2. indent \in Gap
    BY <2>1, GapParts
  <2>3. led \in Gap
    BY <2>2, SmallGaps
  <2>4. FirstOpening(pad) = IF ~HasNl(pad) THEN pad ELSE Upto(pad, LastNl(pad)) \o led
    BY DEF FirstOpening
  <2> HIDE DEF rest, indent, led
  <2> QED BY <2>1, <2>3, <2>4, GapJoin
<1>3. EmptiedPad(pad, closing) \in Gap
  <2> DEFINE kept == StripTrailingWs(pad)
  <2>1. kept \in Gap
    BY GapParts
  <2>2. closing # <<>> => Tail(closing) \in Gap
    <3> SUFFICES ASSUME closing # <<>> PROVE Tail(closing) \in Gap
      OBVIOUS
    <3>1. closing \in Seq(Trivia) /\ Len(closing) \in Nat
      BY EndedMeaning DEF Gap
    <3>2. 1 \in 0..Len(closing) /\ Tail(closing) = From(closing, 1)
      BY <3>1 DEF From
    <3> QED BY <3>2, EndedRest DEF Gap
  <2>3. kept \o closing \in Gap /\ (closing # <<>> => kept \o Tail(closing) \in Gap)
    BY <2>1, <2>2, GapJoin
  <2>4. EmptiedPad(pad, closing) =
          CASE ~HasComment(pad) -> closing
            [] HasComment(pad) /\ Last(kept) = NL /\ closing # <<>> /\ closing[1] = NL ->
                 kept \o Tail(closing)
            [] OTHER -> kept \o closing
    BY DEF EmptiedPad
  <2> HIDE DEF kept
  <2> QED BY <2>3, <2>4
<1> QED BY <1>1, <1>2, <1>3

-----------------------------------------------------------------------------
(* Items, values and boundaries made of gaps.                              *)

ItemType  == [id : Item0, before : Gap, comma : BOOLEAN, after : Gap, following : Gap]
ValueType == [opening : Gap, items : Seq(ItemType)]
LaneType  == [head : Gap, above : Gap, tail : Gap]
BoundType == [before : LaneType, after : Gap, comma : BOOLEAN, atOpening : BOOLEAN,
              following : LaneType]
BreakType == {t \in Gap : t # <<>> => t[1] = NL}
StyleType == [multi : BOOLEAN, separator : Gap, trailing : BOOLEAN, preBreak : BreakType]

(* The parts of a value. *)
LEMMA ValueParts ==
  ASSUME NEW v \in ValueType
  PROVE  /\ v.opening \in Gap /\ v.items \in Seq(ItemType) /\ Len(v.items) \in Nat
         /\ DOMAIN v.items = 1..Len(v.items)
         /\ \A k \in 1..Len(v.items) : /\ v.items[k] \in ItemType /\ v.items[k].id \in Item0
                                       /\ v.items[k].before \in Gap /\ v.items[k].after \in Gap
                                       /\ v.items[k].following \in Gap
                                       /\ v.items[k].comma \in BOOLEAN
         /\ v = [opening |-> v.opening, items |-> v.items]
<1>1. /\ v.opening \in Gap /\ v.items \in Seq(ItemType)
      /\ v = [opening |-> v.opening, items |-> v.items]
  BY DEF ValueType
<1>2. Len(v.items) \in Nat /\ DOMAIN v.items = 1..Len(v.items)
      /\ \A k \in 1..Len(v.items) : v.items[k] \in ItemType
  BY <1>1
<1> QED BY <1>1, <1>2 DEF ItemType

(* Cut into its lanes and joined again, a boundary is made of gaps. *)
LEMMA LaneCut ==
  ASSUME NEW t \in Gap, NEW start, Clean(t, start)
  PROVE  Lane(t, start) \in LaneType
<1> DEFINE end == IF CoreLen(t) < start THEN start ELSE CoreLen(t)
<1>1. Clean(t, CoreLen(t)) /\ Len(t) \in Nat
  BY CoreLenCut, EndedMeaning DEF Gap
<1>2. Clean(t, end) /\ start \in Nat /\ start <= end /\ end \in 0..Len(t) /\ start \in 0..Len(t)
  BY <1>1 DEF Clean
<1>3. Lane(t, start) = [head |-> Upto(t, start), above |-> SubSeq(t, start + 1, end), tail |-> From(t, end)]
  BY DEF Lane
<1> HIDE DEF end
<1>4. Upto(t, start) \in Gap /\ SubSeq(t, start + 1, end) \in Gap /\ From(t, end) \in Gap
  BY <1>2, EndedUpto, EndedRest, GapStretch DEF Gap
<1> QED BY <1>3, <1>4 DEF LaneType

LEMMA LaneJoined ==
  ASSUME NEW lane \in LaneType
  PROVE  JoinLane(lane) \in Gap
BY GapJoin DEF LaneType, JoinLane

LEMMA NoLaneTyped == NoLane \in LaneType
BY SmallGaps DEF NoLane, LaneType

(* Boundary.capture and Boundary.restore: the shell of every boundary      *)
(* there is, written back, leaves a value with the same items.             *)
LEMMA CaptureTyped ==
  ASSUME NEW v \in ValueType, NEW b \in 0..Len(v.items)
  PROVE  Capture(v, b) \in BoundType
<1>1. ASSUME NEW t \in Gap PROVE Clean(t, Len(t)) /\ Clean(t, FirstNl(t)) /\ Clean(t, 0)
                                 /\ Clean(t, LeadingBreak(t))
  <2>1. Clean(t, Len(t)) /\ Clean(t, FirstNl(t)) /\ Clean(t, LeadingBreak(t)) /\ Len(t) \in Nat
    BY WholeClean, FirstNlCut, LeadingBreakCut, EndedMeaning DEF Gap
  <2> QED BY <2>1 DEF Clean
<1>2. CASE b = 0
  <2>1. v.opening \in Gap
    BY ValueParts
  <2>2. Lane(v.opening, IF HasNl(v.opening) THEN FirstNl(v.opening) ELSE Len(v.opening)) \in LaneType
    BY <1>1, <2>1, LaneCut
  <2> QED BY <1>2, <2>2, NoLaneTyped, SmallGaps DEF Capture, CaptureOpening, BoundType
<1>3. CASE b # 0
  <2> DEFINE it == v.items[b]
  <2>1. it.before \in Gap /\ it.after \in Gap /\ it.following \in Gap /\ it.comma \in BOOLEAN
    BY <1>3, ValueParts
  <2>2. Capture(v, b) = CaptureSeam(it)
    BY <1>3 DEF Capture
  <2> HIDE DEF it
  <2>3. Lane(it.before, IF BreaksBeforeComma(it) THEN FirstNl(it.before) ELSE Len(it.before)) \in LaneType
    BY <1>1, <2>1, LaneCut
  <2>4. Lane(it.following, IF HasNl(IF it.comma THEN it.after ELSE it.before) THEN 0
                           ELSE LeadingBreak(it.following)) \in LaneType
    BY <1>1, <2>1, LaneCut
  <2> QED BY <2>1, <2>2, <2>3, <2>4 DEF CaptureSeam, BoundType
<1> QED BY <1>2, <1>3

(* The same items in the same order. *)
SameIds(v, w) ==
  /\ Len(v.items) = Len(w.items)
  /\ \A k \in 1..Len(v.items) : v.items[k].id = w.items[k].id

LEMMA SameIdsTwice ==
  ASSUME NEW u, NEW v, NEW w, SameIds(u, v), SameIds(v, w)
  PROVE  SameIds(u, w)
BY DEF SameIds

(* One item rewritten: outside the list, nothing is. *)
WithItem(v, b, it) == [v EXCEPT !.items[b] = it]

LEMMA ItemRewritten ==
  ASSUME NEW v \in ValueType, NEW b, NEW it,
         b \in 1..Len(v.items) => it \in ItemType /\ it.id = v.items[b].id
  PROVE  WithItem(v, b, it) \in ValueType /\ SameIds(WithItem(v, b, it), v)
<1> DEFINE q == [v.items EXCEPT ![b] = it]
<1>1. v.items \in Seq(ItemType) /\ Len(v.items) \in Nat /\ v.opening \in Gap
      /\ DOMAIN v.items = 1..Len(v.items)
  BY ValueParts
<1>2. WithItem(v, b, it) = [opening |-> v.opening, items |-> q]
  BY ValueParts DEF WithItem
<1>3. q \in Seq(ItemType) /\ Len(q) = Len(v.items)
      /\ \A k \in 1..Len(v.items) : q[k] = IF k = b THEN it ELSE v.items[k]
  <2>1. CASE b \in 1..Len(v.items)
    BY <1>1, <2>1
  <2>2. CASE b \notin 1..Len(v.items)
    <3>1. q = v.items
      BY <1>1, <2>2
    <3> QED BY <1>1, <2>2, <3>1
  <2> QED BY <2>1, <2>2
<1> HIDE DEF q
<1>4. WithItem(v, b, it) \in ValueType
  BY <1>1, <1>2, <1>3 DEF ValueType
<1>5. WithItem(v, b, it).items = q
  BY <1>2
<1> HIDE DEF ValueType
<1>6. SameIds(WithItem(v, b, it), v)
  BY <1>3, <1>5 DEF SameIds
<1> QED BY <1>4, <1>6

LEMMA RestoreTyped ==
  ASSUME NEW v \in ValueType, NEW b \in Int, NEW bound,
         b \in 0..Len(v.items) => bound \in BoundType
  PROVE  Restore(v, b, bound) \in ValueType /\ SameIds(Restore(v, b, bound), v)
<1>1. Len(v.items) \in Nat /\ v.opening \in Gap /\ v.items \in Seq(ItemType)
  BY ValueParts
<1>2. CASE b = 0
  <2>1. JoinLane(bound.following) \in Gap
    BY <1>1, <1>2, LaneJoined DEF BoundType
  <2>2. Restore(v, b, bound) = [opening |-> JoinLane(bound.following), items |-> v.items]
    BY <1>2, ValueParts DEF Restore
  <2> QED BY <1>1, <2>1, <2>2 DEF ValueType, SameIds
<1>3. CASE b # 0
  <2> DEFINE it == RestoreSeam(v.items[b], bound)
  <2>1. Restore(v, b, bound) = WithItem(v, b, it)
    BY <1>3 DEF Restore, WithItem
  <2>2. ASSUME b \in 1..Len(v.items) PROVE it \in ItemType /\ it.id = v.items[b].id
    <3>1. bound \in BoundType /\ v.items[b].id \in Item0
      BY <1>1, <2>2, ValueParts
    <3>2. JoinLane(bound.before) \in Gap /\ JoinLane(bound.following) \in Gap
          /\ bound.after \in Gap /\ bound.comma \in BOOLEAN
      BY <3>1, LaneJoined DEF BoundType
    <3> QED BY <3>1, <3>2 DEF RestoreSeam, Item, ItemType
  <2> HIDE DEF it
  <2> QED BY <2>1, <2>2, ItemRewritten
<1> QED BY <1>2, <1>3

-----------------------------------------------------------------------------
(* The operations on boundaries.                                           *)

LEMMA BoundParts ==
  ASSUME NEW bound \in BoundType
  PROVE  /\ bound.before \in LaneType /\ bound.following \in LaneType
         /\ bound.before.head \in Gap /\ bound.before.above \in Gap /\ bound.before.tail \in Gap
         /\ bound.following.head \in Gap /\ bound.following.above \in Gap
         /\ bound.following.tail \in Gap
         /\ bound.after \in Gap /\ bound.comma \in BOOLEAN /\ bound.atOpening \in BOOLEAN
         /\ JoinLane(bound.before) \in Gap /\ JoinLane(bound.following) \in Gap
         /\ Above(bound) \in Gap
<1>1. bound.before \in LaneType /\ bound.following \in LaneType
      /\ bound.after \in Gap /\ bound.comma \in BOOLEAN /\ bound.atOpening \in BOOLEAN
  BY DEF BoundType
<1>2. /\ bound.before.head \in Gap /\ bound.before.above \in Gap /\ bound.before.tail \in Gap
      /\ bound.following.head \in Gap /\ bound.following.above \in Gap
      /\ bound.following.tail \in Gap
  BY <1>1 DEF LaneType
<1>3. JoinLane(bound.before) \in Gap /\ JoinLane(bound.following) \in Gap
  BY <1>1, LaneJoined
<1>4. Above(bound) \in Gap
  BY <1>2, GapJoin DEF Above
<1> QED BY <1>1, <1>2, <1>3, <1>4

LEMMA BoundEolGap ==
  ASSUME NEW bound \in BoundType
  PROVE  BoundEol(bound) \in Gap
<1>1. EolPart(JoinLane(bound.before)) \in Gap /\ EolPart(bound.after) \in Gap
  BY BoundParts, GapParts
<1> QED BY <1>1, SmallGaps DEF BoundEol

(* A boundary with new parts. *)
LEMMA LaneReplaced ==
  ASSUME NEW bound \in BoundType, NEW lane \in LaneType
  PROVE  /\ [bound EXCEPT !.before = lane] \in BoundType
         /\ [bound EXCEPT !.following = lane] \in BoundType
BY DEF BoundType

(* The writes of a boundary keep it one: replace_lane, remove_above,       *)
(* remove_eol, set_attached, set_above, carry_above_from, put_eol_from,    *)
(* shift_carried_from.                                                     *)
LEMMA ReplaceLaneTyped ==
  ASSUME NEW bound \in BoundType, NEW lane \in {"before", "following"},
         NEW block \in Gap, NEW indent \in Gap
  PROVE  ReplaceLane(bound, lane, block, indent) \in BoundType
<1> DEFINE upstream == IF lane = "before" THEN BreakBeforeComma(bound)
                       ELSE ~bound.atOpening /\ RowClosed(bound)
           promotes == block # <<>> /\ ~upstream /\ ~HasNl(bound[lane].head)
           head == IF promotes THEN StripTrailingWs(bound[lane].head) \o <<NL>> ELSE bound[lane].head
           tail == IF promotes \/ (block # <<>> /\ bound[lane].tail = <<>>) THEN indent
                   ELSE bound[lane].tail
<1>1. bound[lane] \in LaneType
  BY DEF BoundType
<1>2. bound[lane].head \in Gap /\ bound[lane].tail \in Gap
  BY <1>1 DEF LaneType
<1>3. StripTrailingWs(bound[lane].head) \o <<NL>> \in Gap
  BY <1>2, GapParts, GapJoin, SmallGaps
<1>4. ReplaceLane(bound, lane, block, indent) =
        [bound EXCEPT ![lane] = [head |-> head, above |-> block, tail |-> tail]]
  BY DEF ReplaceLane
<1> HIDE DEF promotes
<1>5. head \in Gap /\ tail \in Gap
  BY <1>2, <1>3
<1> HIDE DEF head, tail
<1>6. [head |-> head, above |-> block, tail |-> tail] \in LaneType
  BY <1>5 DEF LaneType
<1>7. CASE lane = "before"
  BY <1>4, <1>6, <1>7, LaneReplaced
<1>8. CASE lane = "following"
  BY <1>4, <1>6, <1>8, LaneReplaced
<1> QED BY <1>7, <1>8

LEMMA RemoveAboveTyped ==
  ASSUME NEW bound \in BoundType
  PROVE  RemoveAbove(bound) \in BoundType
<1> DEFINE pre  == [bound.before EXCEPT !.above = <<>>]
           post == [bound.following EXCEPT !.above = <<>>]
<1>1. pre \in LaneType /\ post \in LaneType
  BY BoundParts, SmallGaps DEF LaneType
<1>2. RemoveAbove(bound) = [bound EXCEPT !.before = pre, !.following = post]
  BY DEF RemoveAbove, BoundType
<1> HIDE DEF pre, post
<1> QED BY <1>1, <1>2 DEF BoundType

LEMMA HeadReplaced ==
  ASSUME NEW bound \in BoundType, NEW t \in Gap
  PROVE  /\ [bound EXCEPT !.before.head = t] \in BoundType
         /\ [bound EXCEPT !.after = t] \in BoundType
<1>1. [bound.before EXCEPT !.head = t] \in LaneType
  BY BoundParts DEF LaneType
<1>2. [bound EXCEPT !.before.head = t] = [bound EXCEPT !.before = [bound.before EXCEPT !.head = t]]
  BY DEF BoundType
<1>3. [bound EXCEPT !.after = t] \in BoundType
  BY DEF BoundType
<1> QED BY <1>1, <1>2, <1>3, LaneReplaced

LEMMA RemoveEolTyped ==
  ASSUME NEW bound \in BoundType
  PROVE  RemoveEol(bound) \in BoundType
<1> DEFINE eol  == EolPart(bound.before.head)
           led  == IF BreakBeforeComma(bound) /\ eol # <<>> /\ Last(eol) = NL THEN <<NL>> ELSE <<>>
           head == led \o EolRest(bound.before.head)
           after == EolRest(bound.after)
<1>1. EolRest(bound.before.head) \in Gap /\ after \in Gap
  BY BoundParts, GapParts
<1>2. head \in Gap
  BY <1>1, SmallGaps, GapJoin
<1>3. RemoveEol(bound) =
        CASE EolLane(bound) = "before" -> [bound EXCEPT !.before.head = head]
          [] EolLane(bound) = "after" -> [bound EXCEPT !.after = after]
          [] OTHER -> bound
  BY DEF RemoveEol
<1> HIDE DEF head, after
<1>4. CASE EolLane(bound) = "before"
  BY <1>2, <1>3, <1>4, HeadReplaced
<1>5. CASE EolLane(bound) = "after"
  BY <1>1, <1>3, <1>5, HeadReplaced
<1>6. CASE EolLane(bound) # "before" /\ EolLane(bound) # "after"
  BY <1>3, <1>6
<1> QED BY <1>4, <1>5, <1>6

LEMMA LanesNamed ==
  ASSUME NEW bound
  PROVE  /\ TargetLane(bound) \in {"before", "following"}
         /\ AttachedLane(bound) \in {"before", "following", None}
BY DEF TargetLane, AttachedLane

LEMMA SetAttachedTyped ==
  ASSUME NEW bound \in BoundType, NEW block \in Gap, NEW indent \in Gap
  PROVE  SetAttached(bound, block, indent) \in BoundType
BY LanesNamed, ReplaceLaneTyped DEF SetAttached

(* Some of a list's items. *)
LEMMA SomeOf ==
  ASSUME NEW S, NEW q \in Seq(S), NEW m \in Nat, NEW n \in 0..Len(q)
  PROVE  SubSeq(q, m + 1, n) \in Seq(S)
<1>1. CASE m <= n
  <2>1. m + 1 \in 1..(Len(q) + 1) /\ m + 1 <= n + 1
    BY <1>1
  <2> QED BY <2>1, CutAt
<1>2. CASE ~(m <= n)
  <2>1. SubSeq(q, m + 1, n) = <<>>
    BY <1>2
  <2> QED BY <2>1
<1> QED BY <1>1, <1>2

LEMMA SetAboveTyped ==
  ASSUME NEW bound \in BoundType, NEW block \in Gap, NEW indent \in Gap
  PROVE  SetAbove(bound, block, indent) \in BoundType
<1> DEFINE was   == bound.before.above
           lines == LinesOf(block)
           cut   == Len(LinesOf(was))
           bare  == RemoveAbove(bound)
           over  == FlattenSeq(Upto(lines, Min({cut, Len(lines)})))
           below == FlattenSeq(From(lines, cut))
           place == CASE was # <<>>                    -> "before"
                      [] bound.following.above # <<>>  -> "following"
                      [] OTHER                         -> TargetLane(bound)
           plain == IF was # <<>> THEN "before"
                    ELSE IF bound.following.above # <<>> THEN "following" ELSE TargetLane(bound)
<1>1. bare \in BoundType
  BY RemoveAboveTyped
<1>2. lines \in Seq(Gap) /\ cut \in Nat /\ Len(lines) \in Nat
  <2>1. lines \in Seq(Gap) /\ LinesOf(was) \in Seq(Gap)
    BY BoundParts, LinesAreGaps
  <2> QED BY <2>1
<1>3. over \in Gap
  <2> DEFINE T == {cut, Len(lines)}
  <2>1. T \in SUBSET Nat /\ cut \in T /\ Len(lines) \in T
    BY <1>2
  <2> HIDE DEF cut
  <2>2. Min(T) \in 0..Len(lines)
    BY <1>2, <2>1, LeastOf
  <2> HIDE DEF lines
  <2>3. PICK m \in Nat : m = 0
    OBVIOUS
  <2>4. SubSeq(lines, m + 1, Min(T)) \in Seq(Gap)
    BY <1>2, <2>2, SomeOf
  <2>5. m + 1 = 1
    BY <2>3
  <2>6. Upto(lines, Min(T)) \in Seq(Gap)
    BY <2>4, <2>5 DEF Upto
  <2> QED BY <2>6, FlattenGap
<1>4. below \in Gap
  <2> HIDE DEF lines, cut
  <2>1. Len(lines) \in 0..Len(lines)
    BY <1>2
  <2>2. From(lines, cut) \in Seq(Gap)
    BY <1>2, <2>1, SomeOf DEF From
  <2> QED BY <2>2, FlattenGap
<1>5. SetAbove(bound, block, indent) =
        IF was # <<>> /\ bound.following.above # <<>>
          THEN ReplaceLane(ReplaceLane(bare, "before", over, indent), "following", below, indent)
          ELSE ReplaceLane(bare, place, block, indent)
  BY DEF SetAbove
<1> HIDE DEF over, below, bare
<1>6. CASE was # <<>> /\ bound.following.above # <<>>
  <2>1. ReplaceLane(bare, "before", over, indent) \in BoundType
    BY <1>1, <1>3, ReplaceLaneTyped
  <2> QED BY <1>4, <1>5, <1>6, <2>1, ReplaceLaneTyped
<1>7. CASE ~(was # <<>> /\ bound.following.above # <<>>)
  <2>1. place = plain /\ plain \in {"before", "following"}
    BY <1>7, LanesNamed
  <2> QED BY <1>1, <1>5, <1>7, <2>1, ReplaceLaneTyped
<1> QED BY <1>6, <1>7

LEMMA CarryAboveTyped ==
  ASSUME NEW bound \in BoundType, NEW source \in BoundType, NEW indent \in Gap, NEW positional
  PROVE  CarryAbove(bound, source, indent, positional) \in BoundType
<1> DEFINE bare == IF positional /\ ~HasComment(Above(bound)) THEN bound ELSE RemoveAbove(bound)
           attached == AttachedLane(source) # "before"
                         \/ (~RowClosed(bound) /\ bound.following.head = <<>>)
           blank == positional /\ ~HasComment(Above(source))
           both == source.before.above # <<>> /\ BreakBeforeComma(bound) /\ attached
<1>1. bare \in BoundType
  BY RemoveAboveTyped
<1>2. ASSUME NEW b \in BoundType, NEW lane \in {"before", "following"}, NEW block \in Gap
      PROVE  AppendTo(b, lane, block, indent) \in BoundType
  <2>1. b[lane].above \in Gap
    BY DEF BoundType, LaneType
  <2> QED BY <2>1, GapJoin, ReplaceLaneTyped DEF AppendTo
<1>3. CarryAbove(bound, source, indent, positional) =
        CASE blank -> bare
          [] ~blank /\ source.before.above # <<>> /\ BreakBeforeComma(bound) /\ attached ->
               AppendTo(AppendTo(bare, "before", source.before.above, indent),
                        "following", source.following.above, indent)
          [] OTHER -> AppendTo(bare, TargetLane(bound), Above(source), indent)
  BY DEF CarryAbove
<1> HIDE DEF bare, blank, attached
<1>4. CASE blank
  BY <1>1, <1>3, <1>4
<1>5. CASE ~blank /\ both
  <2>1. AppendTo(bare, "before", source.before.above, indent) \in BoundType
    BY <1>1, <1>2, BoundParts
  <2>2. AppendTo(AppendTo(bare, "before", source.before.above, indent),
                 "following", source.following.above, indent) \in BoundType
    BY <1>2, <2>1, BoundParts
  <2> QED BY <1>3, <1>5, <2>2
<1>6. CASE ~blank /\ ~both
  <2>1. AppendTo(bare, TargetLane(bound), Above(source), indent) \in BoundType
    BY <1>1, <1>2, BoundParts, LanesNamed
  <2> QED BY <1>3, <1>6, <2>1
<1> QED BY <1>4, <1>5, <1>6

LEMMA PutEolFromTyped ==
  ASSUME NEW bound \in BoundType, NEW source \in BoundType, NEW place
  PROVE  PutEolFrom(bound, source, place) \in BoundType
<1> DEFINE lane == CASE EolLane(place) # None -> EolLane(place)
                     [] EolLane(place) = None /\ bound.comma
                          /\ ~(EolLane(source) = "before" /\ BreakBeforeComma(place)) -> "after"
                     [] OTHER -> "before"
           head  == BoundEol(source) \o From(bound.before.head, LeadingBreak(bound.before.head))
           after == BoundEol(source) \o From(bound.after, LeadingBreak(bound.after))
<1>1. head \in Gap /\ after \in Gap
  BY BoundParts, BoundEolGap, GapParts, GapJoin
<1>2. PutEolFrom(bound, source, place) =
        CASE BoundEol(source) = <<>> -> bound
          [] BoundEol(source) # <<>> /\ lane = "before" -> [bound EXCEPT !.before.head = head]
          [] OTHER -> [bound EXCEPT !.after = after]
  BY DEF PutEolFrom
<1> HIDE DEF lane, head, after
<1>3. CASE BoundEol(source) = <<>>
  BY <1>2, <1>3
<1>4. CASE BoundEol(source) # <<>> /\ lane = "before"
  BY <1>1, <1>2, <1>4, HeadReplaced
<1>5. CASE BoundEol(source) # <<>> /\ lane # "before"
  BY <1>1, <1>2, <1>5, HeadReplaced
<1> QED BY <1>3, <1>4, <1>5

LEMMA ShiftBreaksGap ==
  ASSUME NEW t \in Gap, NEW delta \in Int
  PROVE  ShiftBreaks(t, delta) \in Gap
<1>1. <<NL>> \o t \in Gap /\ From(t, LeadingBreak(t)) \in Gap
  BY SmallGaps, GapJoin, GapParts
<1>2. CASE delta > 0
  BY <1>1, <1>2 DEF ShiftBreaks
<1>3. CASE delta < 0
  BY <1>1, <1>3 DEF ShiftBreaks
<1>4. CASE delta = 0
  BY <1>1, <1>4 DEF ShiftBreaks
<1> QED BY <1>2, <1>3, <1>4

LEMMA ShiftCarriedTyped ==
  ASSUME NEW bound \in BoundType, NEW old, NEW indent \in Gap, NEW terminal
  PROVE  ShiftCarried(bound, old, indent, terminal) \in BoundType
<1> DEFINE closed == RowClosed(bound)
           breaks == ~closed /\ (RowClosed(old) \/ FollowingBreaks(old))
           delta  == (IF breaks THEN 1 ELSE 0) - (IF FollowingBreaks(old) THEN 1 ELSE 0)
           led(t) == CASE terminal \/ ~(closed \/ BreakBeforeComma(bound)) \/ LeadingBreak(t) > 0 -> t
                       [] OTHER -> (IF closed THEN indent ELSE <<>>) \o StripLeadingWs(t)
           recut(t) == Lane(t, IF closed THEN 0 ELSE LeadingBreak(t))
           joined == JoinLane(bound.following)
           moved  == ShiftBreaks(joined, delta)
           indented == (IF closed THEN indent ELSE <<>>) \o StripLeadingWs(moved)
<1>1. joined \in Gap
  BY BoundParts
<1>2. delta \in Int
  OBVIOUS
<1>3. ShiftCarried(bound, old, indent, terminal) =
        IF ~NeedsCarriedRepair(bound, old) THEN bound
        ELSE [bound EXCEPT !.following = recut(led(moved))]
  BY DEF ShiftCarried
<1> HIDE DEF joined, delta, closed
<1>4. moved \in Gap
  BY <1>1, <1>2, ShiftBreaksGap
<1>5. indented \in Gap
  BY <1>4, GapParts, GapJoin, SmallGaps
<1>6. led(moved) = moved \/ led(moved) = indented
  OBVIOUS
<1> HIDE DEF moved, indented, led
<1>7. led(moved) \in Gap
  BY <1>4, <1>5, <1>6
<1>8. Clean(led(moved), 0) /\ Clean(led(moved), LeadingBreak(led(moved)))
  <2>1. Clean(led(moved), LeadingBreak(led(moved))) /\ Len(led(moved)) \in Nat
    BY <1>7, LeadingBreakCut, EndedMeaning DEF Gap
  <2> QED BY <2>1 DEF Clean
<1>9. recut(led(moved)) \in LaneType
  BY <1>7, <1>8, LaneCut
<1> HIDE DEF recut
<1> QED BY <1>3, <1>9, LaneReplaced

-----------------------------------------------------------------------------
(* Items rewritten, and the style sampled.                                 *)

(* A rewritten item: still the same one. *)
Rewrites(x, it) == x \in ItemType /\ x.id = it.id

LEMMA FieldsRewritten ==
  ASSUME NEW it \in ItemType, NEW t \in Gap, NEW c \in BOOLEAN
  PROVE  /\ Rewrites([it EXCEPT !.before = t], it) /\ Rewrites([it EXCEPT !.after = t], it)
         /\ Rewrites([it EXCEPT !.following = t], it) /\ Rewrites([it EXCEPT !.comma = c], it)
         /\ [it EXCEPT !.before = t].following = it.following
         /\ [it EXCEPT !.after = t].following = it.following
         /\ [it EXCEPT !.comma = c].following = it.following
BY DEF ItemType, Rewrites

LEMMA RewritesTwice ==
  ASSUME NEW x, NEW y, NEW z, Rewrites(x, y), Rewrites(y, z)
  PROVE  Rewrites(x, z)
BY DEF Rewrites

LEMMA ItemParts ==
  ASSUME NEW it \in ItemType
  PROVE  /\ it.before \in Gap /\ it.after \in Gap /\ it.following \in Gap /\ it.comma \in BOOLEAN
         /\ it.id \in Item0
         /\ EolChannel(it) \in Gap /\ TakenEol(it) \in Gap /\ EolRest(EolChannel(it)) \in Gap
<1>1. /\ it.before \in Gap /\ it.after \in Gap /\ it.following \in Gap /\ it.comma \in BOOLEAN
      /\ it.id \in Item0
  BY DEF ItemType
<1>2. EolChannel(it) \in Gap
  BY <1>1 DEF EolChannel
<1> QED BY <1>1, <1>2, GapParts DEF TakenEol

(* An item with its row comment written, taken or moved stays an item. *)
LEMMA EolRewritten ==
  ASSUME NEW it \in ItemType, NEW t \in Gap
  PROVE  /\ Rewrites(SetEolChannel(it, t), it) /\ Rewrites(WithoutEol(it), it)
         /\ Rewrites(PutEol(it, t), it)
         /\ SetEolChannel(it, t).following = it.following
         /\ WithoutEol(it).following = it.following
<1>1. ASSUME NEW u \in Gap PROVE /\ Rewrites(SetEolChannel(it, u), it)
                                 /\ SetEolChannel(it, u).following = it.following
  BY FieldsRewritten DEF SetEolChannel
<1>2. Rewrites(WithoutEol(it), it) /\ WithoutEol(it).following = it.following
  BY <1>1, ItemParts DEF WithoutEol
<1>3. it.before \o t \in Gap /\ it.after \o t \in Gap
  BY ItemParts, GapJoin
<1>4. PutEol(it, t) = IF it.comma THEN [it EXCEPT !.after = it.after \o t]
                      ELSE [it EXCEPT !.before = it.before \o t]
  BY DEF PutEol
<1>5. Rewrites(PutEol(it, t), it)
  BY <1>3, <1>4, FieldsRewritten
<1> QED BY <1>1, <1>2, <1>5

LEMMA BreakRewritten ==
  ASSUME NEW it \in ItemType
  PROVE  Rewrites(StructuralBreak(it), it) /\ Rewrites(FlipToInternal(it), it)
<1>1. Rewrites(StructuralBreak(it), it)
  <2> DEFINE t == ShiftBreaks(it.following, IF HasNl(EolChannel(it)) THEN -1 ELSE 0)
  <2>1. (IF HasNl(EolChannel(it)) THEN -1 ELSE 0) \in Int
    OBVIOUS
  <2>2. t \in Gap
    BY <2>1, ItemParts, ShiftBreaksGap
  <2>3. StructuralBreak(it) = [it EXCEPT !.following = t]
    BY DEF StructuralBreak
  <2> HIDE DEF t
  <2> QED BY <2>2, <2>3, FieldsRewritten
<1>2. Rewrites(FlipToInternal(it), it)
  <2> DEFINE bare == WithoutEol(it)
             flipped == [bare EXCEPT !.comma = TRUE]
  <2>1. Rewrites(bare, it) /\ bare \in ItemType /\ TakenEol(it) \in Gap
    BY EolRewritten, ItemParts, SmallGaps DEF Rewrites
  <2>2. Rewrites(flipped, bare) /\ flipped \in ItemType
    BY <2>1, FieldsRewritten, SmallGaps DEF Rewrites
  <2>3. Rewrites(PutEol(flipped, TakenEol(it)), flipped)
    BY <2>1, <2>2, EolRewritten
  <2>4. Rewrites(PutEol(flipped, TakenEol(it)), it)
    BY <2>1, <2>2, <2>3, RewritesTwice
  <2>5. FlipToInternal(it) = IF it.comma THEN it ELSE PutEol(flipped, TakenEol(it))
    BY DEF FlipToInternal
  <2>6. Rewrites(it, it)
    BY DEF Rewrites
  <2> HIDE DEF flipped, bare
  <2> QED BY <2>4, <2>5, <2>6
<1> QED BY <1>1, <1>2

LEMMA IndentGap ==
  ASSUME NEW v
  PROVE  ValueIndent(v) \in Gap
<1>1. ValueIndent(v) = <<WS>> \/ ValueIndent(v) = <<>>
  BY DEF ValueIndent
<1> QED BY <1>1, SmallGaps

LEMMA ItemsBreakBool ==
  ASSUME NEW it \in ItemType
  PROVE  BreaksBeforeComma(it) \in BOOLEAN
BY DEF BreaksBeforeComma

(* detect_style samples gaps, and a break before the comma starts with     *)
(* one.                                                                    *)
LEMMA StyleTyped ==
  ASSUME NEW v \in ValueType, NEW multi \in BOOLEAN
  PROVE  DetectStyle(v, multi) \in StyleType
<1> DEFINE leader == v.items # <<>> /\ BreaksBeforeComma(v.items[1])
           head == ItemHead(v.items[1].following) \o ItemTail(v.items[1].following)
           sampled == IF Len(v.items) >= 2 THEN head ELSE <<WS>>
           trailing == IF v.items # <<>> THEN Last(v.items).comma ELSE multi
           breaks == <<NL>> \o TrailingWs(v.items[1].before)
           preBreak == IF leader THEN breaks ELSE <<>>
<1>1. v.items \in Seq(ItemType) /\ Len(v.items) \in Nat /\ (v.items # <<>> => Len(v.items) >= 1)
  BY ValueParts
<1>2. ASSUME v.items # <<>> PROVE v.items[1] \in ItemType /\ Last(v.items) \in ItemType
  BY <1>1, <1>2 DEF Last
<1>3. Len(v.items) >= 2 => head \in Gap
  <2> SUFFICES ASSUME Len(v.items) >= 2 PROVE head \in Gap
    OBVIOUS
  <2>1. v.items # <<>>
    BY <1>1
  <2>2. v.items[1].following \in Gap
    BY <1>2, <2>1, ItemParts
  <2> QED BY <2>2, GapParts, GapJoin
<1> HIDE DEF head
<1>4. sampled \in Gap
  BY <1>3, SmallGaps
<1> HIDE DEF sampled
<1>5. SeparatorOf(v, multi, leader) \in Gap
  <2>1. SeparatorOf(v, multi, leader) =
          IF multi /\ ~leader /\ ~HasNl(sampled) THEN <<NL>> \o ValueIndent(v) ELSE sampled
    BY DEF SeparatorOf, sampled, head
  <2>2. <<NL>> \o ValueIndent(v) \in Gap
    BY IndentGap, SmallGaps, GapJoin
  <2> QED BY <1>4, <2>1, <2>2
<1>6. trailing \in BOOLEAN
  BY <1>2, ItemParts
<1>7. preBreak \in BreakType
  <2>1. leader => breaks \in Gap
    <3> SUFFICES ASSUME v.items # <<>> PROVE breaks \in Gap
      OBVIOUS
    <3>1. TrailingWs(v.items[1].before) \in Gap
      BY <1>2, ItemParts, GapParts
    <3> QED BY <3>1, SmallGaps, GapJoin
  <2>2. leader => breaks[1] = NL
    <3> SUFFICES ASSUME leader PROVE breaks[1] = NL
      OBVIOUS
    <3>1. TrailingWs(v.items[1].before) \in Seq(Trivia)
      BY <1>2, ItemParts, GapParts, EndedMeaning DEF Gap
    <3> QED BY <3>1
  <2> HIDE DEF leader, breaks
  <2> QED BY <2>1, <2>2, SmallGaps DEF BreakType
<1>8. DetectStyle(v, multi) =
        [multi |-> multi, separator |-> SeparatorOf(v, multi, leader),
         trailing |-> trailing, preBreak |-> preBreak]
  BY DEF DetectStyle
<1> HIDE DEF leader, trailing, preBreak
<1> QED BY <1>5, <1>6, <1>7, <1>8 DEF StyleType

-----------------------------------------------------------------------------
(* Boundaries rewritten in a value.                                        *)

(* The rewrites of one boundary of a value keep its items. *)
LEMMA ShiftCarriedAtTyped ==
  ASSUME NEW v \in ValueType, NEW b \in Int, NEW old
  PROVE  ShiftCarriedAt(v, b, old) \in ValueType /\ SameIds(ShiftCarriedAt(v, b, old), v)
<1> DEFINE bound == ShiftCarried(Capture(v, b), old, ValueIndent(v), b >= Len(v.items))
<1>1. b \in 0..Len(v.items) => bound \in BoundType
  BY CaptureTyped, ShiftCarriedTyped, IndentGap
<1>2. ShiftCarriedAt(v, b, old) = Restore(v, b, bound)
  BY DEF ShiftCarriedAt
<1> HIDE DEF bound
<1> QED BY <1>1, <1>2, RestoreTyped

LEMMA CarryAboveAtTyped ==
  ASSUME NEW v \in ValueType, NEW b \in Int, NEW source \in BoundType, NEW indent \in Gap,
         NEW positional
  PROVE  /\ CarryAboveAt(v, b, source, indent, positional) \in ValueType
         /\ SameIds(CarryAboveAt(v, b, source, indent, positional), v)
<1> DEFINE bound == CarryAbove(Capture(v, b), source, indent, positional)
<1>1. b \in 0..Len(v.items) => bound \in BoundType
  BY CaptureTyped, CarryAboveTyped
<1>2. CarryAboveAt(v, b, source, indent, positional) = Restore(v, b, bound)
  BY DEF CarryAboveAt
<1> HIDE DEF bound
<1> QED BY <1>1, <1>2, RestoreTyped

LEMMA AboveRemovedTyped ==
  ASSUME NEW v \in ValueType, NEW b \in Int
  PROVE  /\ Restore(v, b, RemoveAbove(Capture(v, b))) \in ValueType
         /\ SameIds(Restore(v, b, RemoveAbove(Capture(v, b))), v)
BY CaptureTyped, RemoveAboveTyped, RestoreTyped

LEMMA DetachAboveTyped ==
  ASSUME NEW v \in ValueType, NEW b \in Int
  PROVE  DetachAbove(v, b) \in ValueType /\ SameIds(DetachAbove(v, b), v)
<1>1. SameIds(v, v)
  BY DEF SameIds
<1> QED BY <1>1, AboveRemovedTyped DEF DetachAbove

LEMMA RehomeAboveTyped ==
  ASSUME NEW v \in ValueType, NEW b \in Int, NEW source \in BoundType, NEW style \in StyleType
  PROVE  /\ RehomeAbove(v, b, source, style) \in ValueType
         /\ SameIds(RehomeAbove(v, b, source, style), v)
<1> DEFINE indent == IF CommaFirst(style) THEN TrailingWs(style.preBreak) ELSE ValueIndent(v)
<1>1. style.preBreak \in Gap
  BY DEF StyleType, BreakType
<1>2. indent \in Gap
  BY <1>1, IndentGap, GapParts
<1>3. RehomeAbove(v, b, source, style) =
        IF ~HasComment(Above(source)) THEN v ELSE CarryAboveAt(v, b, source, indent, TRUE)
  BY DEF RehomeAbove
<1>4. SameIds(v, v)
  BY DEF SameIds
<1> HIDE DEF indent
<1> QED BY <1>2, <1>3, <1>4, CarryAboveAtTyped

-----------------------------------------------------------------------------
(* The items of a value, and an item appended to it.                       *)

LEMMA IdsTyped ==
  ASSUME NEW v \in ValueType
  PROVE  /\ Ids(v) \in Seq(Item0) /\ Len(Ids(v)) = Len(v.items)
         /\ \A k \in 1..Len(v.items) : Ids(v)[k] = v.items[k].id
BY ValueParts DEF Ids

LEMMA SameIdsMeaning ==
  ASSUME NEW v, NEW w, SameIds(v, w)
  PROVE  Ids(v) = Ids(w)
BY DEF SameIds, Ids

(* Lists that agree place by place. *)
LEMMA SameLists ==
  ASSUME NEW S, NEW a \in Seq(S), NEW b \in Seq(S), Len(a) = Len(b),
         \A i \in 1..Len(a) : a[i] = b[i]
  PROVE  a = b
OBVIOUS

LEMMA FrontAndLast ==
  ASSUME NEW S, NEW q \in Seq(S), q # <<>>
  PROVE  /\ Front(q) \in Seq(S) /\ Len(Front(q)) = Len(q) - 1 /\ Len(q) >= 1
         /\ \A i \in 1..(Len(q) - 1) : Front(q)[i] = q[i]
         /\ Last(q) = q[Len(q)] /\ Last(q) \in S
<1>1. Len(q) \in Nat /\ Len(q) >= 1
  OBVIOUS
<1>2. Front(q) = SubSeq(q, 1, Len(q) - 1) /\ Last(q) = q[Len(q)]
  BY DEF Front, Last
<1>3. 1 \in 1..(Len(q) + 1) /\ Len(q) - 1 \in 0..Len(q) /\ 1 <= (Len(q) - 1) + 1
      /\ (Len(q) - 1) - 1 + 1 = Len(q) - 1 /\ \A i \in 1..(Len(q) - 1) : i + 1 - 1 = i
  BY <1>1
<1>4. /\ SubSeq(q, 1, Len(q) - 1) \in Seq(S) /\ Len(SubSeq(q, 1, Len(q) - 1)) = (Len(q) - 1) - 1 + 1
      /\ \A i \in 1..((Len(q) - 1) - 1 + 1) : SubSeq(q, 1, Len(q) - 1)[i] = q[i + 1 - 1]
  BY <1>3, CutAt
<1> QED BY <1>1, <1>2, <1>3, <1>4

LEMMA PadTyped == SingleLinePad \in Gap /\ <<WS>> \in Gap
<1>1. SingleLinePad \in Seq({WS}) /\ WS \in Trivia
  BY SingleLinePadAssumption DEF Trivia
<1>2. SingleLinePad \in Seq(Trivia)
  BY <1>1
<1>3. \A i \in 1..Len(SingleLinePad) : ~IsComment(SingleLinePad[i])
  BY <1>1, TokensDiffer
<1> QED BY <1>2, <1>3, EndedFrom, SmallGaps DEF Gap

(* The comment of a row that its comma now closes loses its newline, and   *)
(* the break of a comma-first row takes its place. *)
LEMMA BreakInPlace ==
  ASSUME NEW t \in Gap, NEW brk \in BreakType, brk # <<>>
  PROVE  WithoutBreaks(EolPart(t)) \o brk \in Gap
<1> DEFINE eol == EolPart(t)
           kept == WithoutBreaks(eol)
           n == Len(eol)
<1>1. eol \in Gap /\ n \in Nat /\ eol \in Seq(Trivia)
  BY GapParts, EndedMeaning DEF Gap
<1>2. brk \in Gap /\ brk \in Seq(Trivia) /\ Len(brk) \in Nat /\ Len(brk) >= 1 /\ brk[1] = NL
  BY EndedMeaning DEF BreakType, Gap
<1>3. n = EolLen(t) /\ \A i \in 1..n : eol[i] = t[i]
  BY EolCut, EndedUpto DEF Gap, EolPart
<1>4. kept = Keeping(eol, Comment \cup {WS})
  BY DEF WithoutBreaks
<1>5. CASE n = 0
  <2>1. PICK f : KeptBy(eol, Comment \cup {WS}, f, n) /\ kept = f[n]
    BY <1>1, <1>4, KeepingMeaning
  <2>2. kept = <<>>
    BY <1>5, <2>1 DEF KeptBy
  <2> HIDE DEF kept
  <2>3. kept \o brk \in Gap
    BY <1>2, <2>2, GapJoin, SmallGaps
  <2> QED BY <2>3 DEF kept, eol
<1>6. CASE n # 0
  <2>1. /\ n >= 2 /\ eol[n] = NL /\ IsComment(eol[n - 1])
        /\ \A i \in 1..(n - 2) : eol[i] = WS
    <3>1. n \in 1..n /\ n - 1 \in 1..n /\ \A i \in 1..(n - 2) : i \in 1..n
      BY <1>1, <1>3, <1>6, EolCut DEF Gap
    <3> QED BY <1>1, <1>3, <1>6, <3>1, EolCut DEF Gap
  <2>2. \A i \in 1..(n - 1) : eol[i] \in Comment \cup {WS}
    <3>1. \A i \in 1..(n - 1) : i = n - 1 \/ i \in 1..(n - 2)
      BY <1>1
    <3> QED BY <2>1, <3>1 DEF IsComment
  <2>3. eol[n] \notin Comment \cup {WS} /\ eol # <<>>
    BY <1>1, <1>6, <2>1, TokensDiffer DEF IsComment
  <2>4. /\ kept \in Seq(Trivia) /\ Len(kept) = n - 1
        /\ \A i \in 1..(n - 1) : kept[i] = eol[i]
    BY <1>1, <1>4, <2>2, <2>3, KeptButLast
  <2> HIDE DEF kept, eol, n
  <2> DEFINE c == kept \o brk
  <2>5. c \in Seq(Trivia) /\ Len(c) = (n - 1) + Len(brk)
        /\ \A i \in 1..((n - 1) + Len(brk)) : c[i] = IF i <= n - 1 THEN kept[i] ELSE brk[i - (n - 1)]
    <3>1. kept \in Seq(Trivia) /\ brk \in Seq(Trivia) /\ Len(kept) = n - 1
      BY <1>2, <2>4
    <3>2. c \in Seq(Trivia) /\ Len(c) = Len(kept) + Len(brk)
          /\ \A i \in 1..(Len(kept) + Len(brk)) :
               c[i] = IF i <= Len(kept) THEN kept[i] ELSE brk[i - Len(kept)]
      BY <3>1, Joined
    <3> HIDE DEF c
    <3> QED BY <3>1, <3>2
  <2> HIDE DEF c
  <2>6. ASSUME NEW i \in 1..Len(c), IsComment(c[i]) PROVE i + 1 \in 1..Len(c) /\ c[i + 1] = NL
    <3>1. CASE i <= n - 1
      <4>1. i \in 1..(n - 1) /\ IsComment(eol[i])
        BY <1>1, <2>4, <2>5, <2>6, <3>1
      <4>2. i = n - 1
        BY <1>1, <2>1, <4>1, TokensDiffer
      <4>3. i + 1 \in 1..Len(c) /\ ~(i + 1 <= n - 1) /\ (i + 1) - (n - 1) = 1
        BY <1>1, <1>2, <2>1, <2>5, <4>2
      <4> QED BY <1>2, <2>5, <4>3
    <3>2. CASE ~(i <= n - 1)
      <4>1. i - (n - 1) \in 1..Len(brk) /\ IsComment(brk[i - (n - 1)])
        BY <1>1, <1>2, <2>1, <2>5, <2>6, <3>2
      <4>2. (i - (n - 1)) + 1 \in 1..Len(brk) /\ brk[(i - (n - 1)) + 1] = NL
        BY <1>2, <4>1, EndedMeaning DEF Gap
      <4>3. (i - (n - 1)) + 1 = (i + 1) - (n - 1) /\ i + 1 \in 1..Len(c) /\ ~(i + 1 <= n - 1)
        BY <1>1, <1>2, <2>1, <2>5, <3>2, <4>2
      <4> QED BY <2>5, <4>2, <4>3
    <3> QED BY <3>1, <3>2
  <2>7. c \in Gap
    BY <2>5, <2>6, EndedFrom DEF Gap
  <2> QED BY <2>7 DEF c, kept, eol
<1> QED BY <1>5, <1>6

(* splice_in: the former last item, the appended one, the value of both. *)
LEMMA FormerTailTyped ==
  ASSUME NEW it \in ItemType, NEW style \in StyleType
  PROVE  Rewrites(FormerTail(it, style), it)
<1> DEFINE led == [it EXCEPT !.following = style.separator]
           pre == WithoutBreaks(TakenEol(led)) \o style.preBreak
           bare == WithoutEol(led)
           one == [bare EXCEPT !.before = pre]
           first == [one EXCEPT !.comma = TRUE]
           flipped == FlipToInternal(led)
<1>1. style.separator \in Gap /\ style.preBreak \in BreakType
  BY DEF StyleType
<1>2. Rewrites(led, it) /\ led \in ItemType
  BY <1>1, FieldsRewritten DEF Rewrites
<1>3. FormerTail(it, style) =
        IF CommaFirst(style)
          THEN [bare EXCEPT !.before = pre, !.comma = TRUE]
          ELSE IF style.multi THEN StructuralBreak(flipped) ELSE flipped
  BY DEF FormerTail
<1> HIDE DEF led
<1>4. Rewrites(bare, led) /\ bare \in ItemType
  BY <1>2, EolRewritten, SmallGaps DEF Rewrites
<1>5. CASE CommaFirst(style)
  <2>1. pre \in Gap
    BY <1>1, <1>2, <1>5, ItemParts, BreakInPlace DEF CommaFirst, TakenEol
  <2> HIDE DEF pre, bare
  <2>2. Rewrites(one, bare) /\ one \in ItemType
    BY <1>4, <2>1, FieldsRewritten DEF Rewrites
  <2>3. [bare EXCEPT !.before = pre, !.comma = TRUE] = first
    BY <1>4 DEF ItemType
  <2> HIDE DEF one
  <2>4. Rewrites(first, one)
    BY <2>2, FieldsRewritten, SmallGaps
  <2> HIDE DEF first
  <2>5. Rewrites(first, bare)
    BY <2>2, <2>4, RewritesTwice
  <2>6. Rewrites(first, led)
    BY <1>4, <2>5, RewritesTwice
  <2>7. Rewrites(first, it)
    BY <1>2, <2>6, RewritesTwice
  <2> QED BY <1>3, <1>5, <2>3, <2>7
<1>6. CASE ~CommaFirst(style)
  <2>1. Rewrites(flipped, led) /\ flipped \in ItemType
    BY <1>2, BreakRewritten DEF Rewrites
  <2>2. Rewrites(StructuralBreak(flipped), flipped)
    BY <2>1, BreakRewritten
  <2>3. Rewrites(StructuralBreak(flipped), led)
    BY <2>1, <2>2, RewritesTwice
  <2> HIDE DEF flipped
  <2>4. Rewrites(StructuralBreak(flipped), it) /\ Rewrites(flipped, it)
    BY <1>2, <2>1, <2>3, RewritesTwice
  <2> QED BY <1>3, <1>6, <2>4
<1> QED BY <1>5, <1>6

(* One item more, at the end. *)
Appends(w, v, id) ==
  /\ Len(w.items) = Len(v.items) + 1
  /\ \A k \in 1..Len(v.items) : w.items[k].id = v.items[k].id
  /\ w.items[Len(v.items) + 1].id = id

LEMMA AppendsTo ==
  ASSUME NEW u, NEW v \in ValueType, NEW id, NEW w, NEW d, Appends(w, d, id), SameIds(d, v), SameIds(u, w)
  PROVE  Appends(u, v, id)
<1>1. Len(v.items) \in Nat
  BY ValueParts
<1>2. Len(d.items) = Len(v.items) /\ Len(w.items) = Len(v.items) + 1 /\ Len(u.items) = Len(v.items) + 1
  BY <1>1 DEF Appends, SameIds
<1>3. \A k \in 1..Len(v.items) : k \in 1..(Len(v.items) + 1)
  BY <1>1
<1>4. Len(v.items) + 1 \in 1..(Len(v.items) + 1)
  BY <1>1
<1> QED BY <1>2, <1>3, <1>4 DEF Appends, SameIds

LEMMA AppendTailTyped ==
  ASSUME NEW v \in ValueType, v.items # <<>>, NEW id \in Item0, NEW style \in StyleType
  PROVE  AppendTail(v, id, style) \in ValueType /\ Appends(AppendTail(v, id, style), v, id)
<1> DEFINE n == Len(v.items)
           it == Last(v.items)
           final == it.following
           end == IF CommaFirst(style) /\ ~HasNl(final) THEN <<NL>> \o final ELSE final
           former == FormerTail(it, style)
           more == AppendedItem(id, final, style)
           front == Front(v.items)
           pair == <<former, more>>
           q == front \o pair
<1>1. /\ v.opening \in Gap /\ v.items \in Seq(ItemType) /\ n \in Nat
  BY ValueParts
<1>2. /\ front \in Seq(ItemType) /\ Len(front) = n - 1 /\ n >= 1
      /\ \A i \in 1..(n - 1) : front[i] = v.items[i]
      /\ it = v.items[n] /\ it \in ItemType
  BY <1>1, FrontAndLast
<1>3. former \in ItemType /\ former.id = it.id
  BY <1>2, FormerTailTyped DEF Rewrites
<1>4. end \in Gap
  <2>1. final \in Gap
    BY <1>2, ItemParts
  <2> HIDE DEF final
  <2>2. <<NL>> \o final \in Gap
    BY <2>1, SmallGaps, GapJoin
  <2> QED BY <2>1, <2>2
<1>5. more \in ItemType /\ more.id = id
  <2>1. more = [id |-> id, before |-> <<>>, comma |-> style.trailing, after |-> <<>>, following |-> end]
    BY DEF AppendedItem, Item
  <2>2. style.trailing \in BOOLEAN
    BY DEF StyleType
  <2> HIDE DEF end
  <2> QED BY <1>4, <2>1, <2>2, SmallGaps DEF ItemType
<1>6. AppendTail(v, id, style) = [opening |-> v.opening, items |-> q]
  <2>1. AppendTail(v, id, style) = [v EXCEPT !.items = q]
    BY DEF AppendTail
  <2> HIDE DEF q
  <2> QED BY <2>1, ValueParts
<1> HIDE DEF former, more, front, it
<1>7. pair \in Seq(ItemType) /\ Len(pair) = 2 /\ pair[1] = former /\ pair[2] = more
  BY <1>3, <1>5
<1> HIDE DEF pair, n
<1>8. /\ q \in Seq(ItemType) /\ Len(q) = (n - 1) + 2
      /\ \A i \in 1..((n - 1) + 2) : q[i] = IF i <= n - 1 THEN front[i] ELSE pair[i - (n - 1)]
  <2>1. q \in Seq(ItemType) /\ Len(q) = Len(front) + Len(pair)
        /\ \A i \in 1..(Len(front) + Len(pair)) :
             q[i] = IF i <= Len(front) THEN front[i] ELSE pair[i - Len(front)]
    BY <1>2, <1>7, Joined
  <2> HIDE DEF q
  <2> QED BY <1>2, <1>7, <2>1
<1> HIDE DEF q
<1>9. Len(q) = n + 1 /\ q[n] = former /\ q[n + 1] = more /\ \A i \in 1..(n - 1) : q[i] = v.items[i]
  <2>1. n \in 1..((n - 1) + 2) /\ n + 1 \in 1..((n - 1) + 2) /\ n - (n - 1) = 1 /\ (n + 1) - (n - 1) = 2
        /\ ~(n <= n - 1) /\ ~(n + 1 <= n - 1) /\ (n - 1) + 2 = n + 1
    BY <1>1, <1>2
  <2>2. \A i \in 1..(n - 1) : i \in 1..((n - 1) + 2) /\ i <= n - 1
    BY <1>1, <1>2
  <2> QED BY <1>2, <1>7, <1>8, <2>1, <2>2
<1>10. \A i \in 1..n : q[i].id = v.items[i].id
  <2>1. \A i \in 1..n : i = n \/ i \in 1..(n - 1)
    BY <1>1
  <2> QED BY <1>2, <1>3, <1>9, <2>1
<1> DEFINE w == AppendTail(v, id, style)
<1>11. w.items = q /\ w \in ValueType
  BY <1>1, <1>6, <1>8 DEF ValueType
<1> HIDE DEF w
<1> QED BY <1>5, <1>9, <1>10, <1>11 DEF Appends, n, w

LEMMA FirstItemTyped ==
  ASSUME NEW v \in ValueType, v.items = <<>>, NEW id \in Item0, NEW style \in StyleType
  PROVE  FirstItem(v, id, style) \in ValueType /\ Appends(FirstItem(v, id, style), v, id)
<1> DEFINE bare == v.opening = <<>>
           open == IF bare THEN SingleLinePad ELSE FirstOpening(v.opening)
           end  == IF bare THEN SingleLinePad ELSE FirstFinal(v.opening)
           it   == Item(id, <<>>, style.trailing, <<>>, end)
           w    == FirstItem(v, id, style)
<1>1. open \in Gap /\ end \in Gap
  BY ValueParts, PadTyped, PadsAreGaps
<1>2. it \in ItemType /\ it.id = id
  <2>1. style.trailing \in BOOLEAN
    BY DEF StyleType
  <2> HIDE DEF end
  <2> QED BY <1>1, <2>1, SmallGaps DEF Item, ItemType
<1>3. w = [opening |-> open, items |-> <<it>>]
  BY DEF FirstItem
<1> HIDE DEF open, it, w
<1>4. w.items = <<it>> /\ w \in ValueType
  BY <1>1, <1>2, <1>3 DEF ValueType
<1>5. Len(v.items) = 0 /\ Len(w.items) = 1 /\ w.items[1] = it
  BY <1>4
<1>6. Len(w.items) = Len(v.items) + 1 /\ w.items[Len(v.items) + 1].id = id
      /\ \A k \in 1..Len(v.items) : FALSE
  BY <1>2, <1>5
<1> QED BY <1>4, <1>6 DEF Appends, w

LEMMA SpliceInTyped ==
  ASSUME NEW v \in ValueType, NEW id \in Item0, NEW style \in StyleType
  PROVE  SpliceIn(v, id, style) \in ValueType /\ Appends(SpliceIn(v, id, style), v, id)
<1> DEFINE n == Len(v.items)
           old == Capture(v, n)
           bare == DetachAbove(v, n)
           appended == AppendTail(bare, id, style)
           settled == IF style.multi /\ ~CommaFirst(style)
                        THEN ShiftCarriedAt(appended, n + 1, old) ELSE appended
           w == RehomeAbove(settled, n, old, style)
<1>1. n \in Nat /\ n \in 0..n /\ n \in Int /\ n + 1 \in Int /\ (n = 0 <=> v.items = <<>>)
  BY ValueParts
<1>2. SpliceIn(v, id, style) = IF n = 0 THEN FirstItem(v, id, style) ELSE w
  BY DEF SpliceIn
<1>3. old \in BoundType
  BY <1>1, CaptureTyped
<1>4. CASE n = 0
  BY <1>1, <1>2, <1>4, FirstItemTyped
<1>5. CASE n # 0
  <2>1. bare \in ValueType /\ SameIds(bare, v)
    BY <1>1, DetachAboveTyped
  <2>2. bare.items # <<>>
    <3>1. Len(bare.items) = n
      BY <2>1 DEF SameIds
    <3> QED BY <1>5, <3>1
  <2> HIDE DEF bare, old
  <2>3. appended \in ValueType /\ Appends(appended, bare, id)
    BY <2>1, <2>2, AppendTailTyped
  <2> HIDE DEF appended
  <2>4. SameIds(appended, appended)
    BY DEF SameIds
  <2>5. settled \in ValueType /\ SameIds(settled, appended)
    BY <1>1, <2>3, <2>4, ShiftCarriedAtTyped
  <2> HIDE DEF settled
  <2>6. w \in ValueType /\ SameIds(w, settled)
    BY <1>1, <1>3, <2>5, RehomeAboveTyped
  <2> HIDE DEF w
  <2>7. SameIds(w, appended)
    BY <2>5, <2>6, SameIdsTwice
  <2>8. Appends(w, v, id)
    BY <2>1, <2>3, <2>7, AppendsTo
  <2> QED BY <1>2, <1>5, <2>6, <2>8
<1> QED BY <1>4, <1>5

(* An edit of the value and the list of its items, in step.                *)
Matches(w, list0) == w \in ValueType /\ Ids(w) = list0

LEMMA AppendsList ==
  ASSUME NEW v \in ValueType, NEW w \in ValueType, NEW id \in Item0, Appends(w, v, id)
  PROVE  Ids(w) = Append(Ids(v), id)
<1>1. /\ Ids(v) \in Seq(Item0) /\ Len(Ids(v)) = Len(v.items) /\ Len(v.items) \in Nat
      /\ \A k \in 1..Len(v.items) : Ids(v)[k] = v.items[k].id
  BY IdsTyped, ValueParts
<1>2. /\ Ids(w) \in Seq(Item0) /\ Len(Ids(w)) = Len(w.items)
      /\ \A k \in 1..Len(w.items) : Ids(w)[k] = w.items[k].id
  BY IdsTyped
<1>3. /\ Len(w.items) = Len(v.items) + 1
      /\ \A k \in 1..Len(v.items) : w.items[k].id = v.items[k].id
      /\ w.items[Len(v.items) + 1].id = id
  BY DEF Appends
<1> DEFINE q == Append(Ids(v), id)
<1>4. /\ q \in Seq(Item0) /\ Len(q) = Len(v.items) + 1
      /\ \A k \in 1..Len(v.items) : q[k] = Ids(v)[k]
      /\ q[Len(v.items) + 1] = id
  BY <1>1
<1> HIDE DEF q
<1>5. \A k \in 1..(Len(v.items) + 1) : Ids(w)[k] = q[k]
  <2>1. \A k \in 1..(Len(v.items) + 1) : k = Len(v.items) + 1 \/ k \in 1..Len(v.items)
    BY <1>1
  <2> QED BY <1>1, <1>2, <1>3, <1>4, <2>1
<1>6. Ids(w) = q
  BY <1>2, <1>3, <1>4, <1>5, SameLists
<1> QED BY <1>6 DEF q

(* A batch appended one at a time spells the old items and then the new. *)
LEMMA ExtendWithTyped ==
  ASSUME NEW v \in ValueType, NEW ids \in Seq(Item0), NEW multi \in BOOLEAN
  PROVE  Matches(ExtendWith(v, ids, multi), Ids(v) \o ids)
<1> DEFINE n == Len(ids)
           start == [cv |-> v, style |-> DetectStyle(v, multi)]
           Is(f) == f = [i \in 0..n |-> IF i = 0 THEN start ELSE Extended(f[i - 1], ids[i])]
           V == [cv : ValueType, style : StyleType]
           step == [p \in (1..n) \X V |-> Extended(p[2], ids[p[1]])]
<1>1. ExtendWith(v, ids, multi) = (CHOOSE f : Is(f))[n].cv
  BY DEF ExtendWith
<1>2. n \in Nat /\ \A i \in 1..n : ids[i] \in Item0
  OBVIOUS
<1>3. start \in V
  BY StyleTyped
<1>4. ASSUME NEW acc \in V, NEW id \in Item0
      PROVE  Extended(acc, id) \in V /\ Appends(Extended(acc, id).cv, acc.cv, id)
  <2> DEFINE next == SpliceIn(acc.cv, id, acc.style)
             sampled == IF Len(next.items) <= 2 THEN DetectStyle(next, acc.style.multi)
                        ELSE acc.style
  <2>1. acc.cv \in ValueType /\ acc.style \in StyleType
    OBVIOUS
  <2>2. acc.style.multi \in BOOLEAN
    BY <2>1 DEF StyleType
  <2>3. next \in ValueType /\ Appends(next, acc.cv, id)
    BY <2>1, SpliceInTyped
  <2>4. Extended(acc, id) = [cv |-> next, style |-> sampled]
    BY DEF Extended
  <2> HIDE DEF next
  <2>5. sampled \in StyleType
    BY <2>1, <2>2, <2>3, StyleTyped
  <2> HIDE DEF sampled
  <2> QED BY <2>3, <2>4, <2>5
<1> HIDE DEF start, n
<1>5. Steps(step, V, n)
  <2>1. ASSUME NEW p \in (1..n) \X V PROVE Extended(p[2], ids[p[1]]) \in V
    <3>1. p[1] \in 1..n /\ p[2] \in V /\ ids[p[1]] \in Item0
      BY <1>2
    <3> HIDE DEF V
    <3> QED BY <1>4, <3>1
  <2> HIDE DEF V
  <2> QED BY <2>1 DEF Steps
<1>6. \A i \in 1..n, x \in V : step[<<i, x>>] = Extended(x, ids[i])
  <2> HIDE DEF V
  <2> QED OBVIOUS
<1> HIDE DEF V, step
<1>7. PICK f : Walks(f, V, start, n, step)
  BY <1>2, <1>3, <1>5, StepsExist
<1>8. Is(f)
  <2>1. f \in [0..n -> V] /\ f[0] = start /\ \A i \in 1..n : f[i] = step[<<i, f[i - 1]>>]
    BY <1>7 DEF Walks
  <2>2. \A i \in 1..n : i - 1 \in 0..n /\ i # 0
    BY <1>2
  <2>3. \A i \in 1..n : f[i] = Extended(f[i - 1], ids[i])
    BY <1>6, <2>1, <2>2
  <2>4. \A i \in 0..n : f[i] = IF i = 0 THEN start ELSE Extended(f[i - 1], ids[i])
    <3>1. \A i \in 0..n : i = 0 \/ i \in 1..n
      BY <1>2
    <3> QED BY <2>1, <2>2, <2>3, <3>1
  <2> QED BY <2>1, <2>4
<1> DEFINE h == CHOOSE g : Is(g)
<1>9. Is(h)
  <2> HIDE DEF Is
  <2> QED BY <1>8
<1>10. h[0] = start /\ \A i \in 1..n : h[i] = Extended(h[i - 1], ids[i])
  <2> HIDE DEF h
  <2>1. h = [i \in 0..n |-> IF i = 0 THEN start ELSE Extended(h[i - 1], ids[i])]
    BY <1>9
  <2>2. 0 \in 0..n /\ \A i \in 1..n : i \in 0..n /\ i # 0
    BY <1>2
  <2>3. \A i \in 0..n : h[i] = IF i = 0 THEN start ELSE Extended(h[i - 1], ids[i])
    BY <2>1
  <2> HIDE DEF Is
  <2> QED BY <2>2, <2>3
<1>11. ExtendWith(v, ids, multi) = h[n].cv
  BY <1>1
<1> HIDE DEF h, Is
<1> DEFINE L == Len(v.items)
           Spells(m) == /\ h[m] \in V /\ Len(Ids(h[m].cv)) = L + m
                        /\ \A i \in 1..L : Ids(h[m].cv)[i] = Ids(v)[i]
                        /\ \A i \in 1..m : Ids(h[m].cv)[L + i] = ids[i]
           P == {m \in Nat : m <= n => Spells(m)}
<1>12. Ids(v) \in Seq(Item0) /\ Len(Ids(v)) = L /\ L \in Nat
  BY IdsTyped, ValueParts
<1> HIDE DEF L
<1>13. 0 \in P
  <2>1. h[0] \in V /\ h[0].cv = v
    BY <1>3, <1>10 DEF start
  <2>2. L + 0 = L /\ \A i \in 1..0 : FALSE
    BY <1>12
  <2>3. Spells(0)
    BY <1>12, <2>1, <2>2
  <2> HIDE DEF Spells
  <2> QED BY <2>3
<1>14. ASSUME NEW m \in Nat, m \in P PROVE m + 1 \in P
  <2> HIDE DEF Spells
  <2> SUFFICES ASSUME m + 1 <= n PROVE Spells(m + 1)
    OBVIOUS
  <2> USE DEF Spells
  <2>1. Spells(m) /\ m + 1 \in 1..n /\ (m + 1) - 1 = m
    BY <1>2, <1>14
  <2> DEFINE a == h[m].cv
             c == h[m + 1].cv
  <2>2. h[m + 1] = Extended(h[m], ids[m + 1]) /\ ids[m + 1] \in Item0
    BY <1>2, <1>10, <2>1
  <2>3. h[m + 1] \in V /\ Appends(c, a, ids[m + 1])
    BY <1>4, <2>1, <2>2
  <2>4. a \in ValueType /\ c \in ValueType
    BY <2>1, <2>3 DEF V
  <2> HIDE DEF a, c
  <2>5. Ids(c) = Append(Ids(a), ids[m + 1])
    BY <2>2, <2>3, <2>4, AppendsList
  <2>6. Ids(a) \in Seq(Item0) /\ Len(Ids(a)) = L + m
        /\ (\A i \in 1..L : Ids(a)[i] = Ids(v)[i])
        /\ \A i \in 1..m : Ids(a)[L + i] = ids[i]
    BY <2>1, <2>4, IdsTyped DEF a
  <2>7. /\ Len(Ids(c)) = (L + m) + 1 /\ Ids(c)[(L + m) + 1] = ids[m + 1]
        /\ \A i \in 1..(L + m) : Ids(c)[i] = Ids(a)[i]
    <3> HIDE DEF Spells
    <3> QED BY <1>12, <2>2, <2>5, <2>6
  <2>8. (L + m) + 1 = L + (m + 1) /\ (\A i \in 1..L : i \in 1..(L + m))
        /\ (\A i \in 1..m : L + i \in 1..(L + m))
        /\ \A i \in 1..(m + 1) : i = m + 1 \/ i \in 1..m
    <3> HIDE DEF Spells
    <3> QED BY <1>12
  <2>9. /\ Len(Ids(c)) = L + (m + 1)
        /\ \A i \in 1..L : Ids(c)[i] = Ids(v)[i]
        /\ \A i \in 1..(m + 1) : Ids(c)[L + i] = ids[i]
    BY <2>6, <2>7, <2>8
  <2> QED BY <2>3, <2>9 DEF c
<1> HIDE DEF P
<1>15. n \in P
  BY <1>2, <1>13, <1>14, InductionOnSet
<1>16. Spells(n)
  BY <1>2, <1>15 DEF P
<1> DEFINE w == h[n].cv
           q == Ids(v) \o ids
<1>17. w \in ValueType
  BY <1>16 DEF V
<1>18. q \in Seq(Item0) /\ Len(q) = L + n
       /\ \A i \in 1..(L + n) : q[i] = IF i <= L THEN Ids(v)[i] ELSE ids[i - L]
  <2>1. ids \in Seq(Item0) /\ Len(ids) = n
    BY DEF n
  <2>2. q \in Seq(Item0) /\ Len(q) = Len(Ids(v)) + Len(ids)
        /\ \A i \in 1..(Len(Ids(v)) + Len(ids)) :
             q[i] = IF i <= Len(Ids(v)) THEN Ids(v)[i] ELSE ids[i - Len(Ids(v))]
    BY <1>12, <2>1, Joined
  <2> HIDE DEF q
  <2> QED BY <1>12, <2>1, <2>2
<1>19. Ids(w) \in Seq(Item0)
  BY <1>17, IdsTyped
<1>20. Len(Ids(w)) = L + n /\ (\A i \in 1..L : Ids(w)[i] = Ids(v)[i])
       /\ \A i \in 1..n : Ids(w)[L + i] = ids[i]
  BY <1>16
<1> HIDE DEF w, q, Spells
<1>21. \A i \in 1..(L + n) : Ids(w)[i] = q[i]
  <2>1. ASSUME NEW i \in 1..(L + n) PROVE Ids(w)[i] = q[i]
    <3>1. CASE i <= L
      BY <1>2, <1>12, <1>18, <1>20, <3>1
    <3>2. CASE ~(i <= L)
      <4>1. i - L \in 1..n /\ L + (i - L) = i
        BY <1>2, <1>12, <3>2
      <4> QED BY <1>18, <1>20, <3>2, <4>1
    <3> QED BY <3>1, <3>2
  <2> QED BY <2>1
<1>22. Ids(w) = q
  BY <1>18, <1>19, <1>20, <1>21, SameLists
<1> QED BY <1>11, <1>17, <1>22 DEF Matches, w, q

-----------------------------------------------------------------------------
(* Items inserted.                                                         *)

(* The list r put into q behind b items. *)
Spliced(q, b, r) == Upto(q, b) \o r \o From(q, b)

(* A sequence cut in two and a run put between: splice_insert and its      *)
(* batches.                                                                *)
LEMMA Cut ==
  ASSUME NEW S, NEW q \in Seq(S), NEW b \in 0..Len(q)
  PROVE  /\ Upto(q, b) \in Seq(S) /\ Len(Upto(q, b)) = b
         /\ \A i \in 1..b : Upto(q, b)[i] = q[i]
         /\ From(q, b) \in Seq(S) /\ Len(From(q, b)) = Len(q) - b
         /\ \A i \in 1..(Len(q) - b) : From(q, b)[i] = q[i + b]
<1>1. Len(q) \in Nat /\ b \in Nat
  OBVIOUS
<1>2. PICK m \in Nat : m = 1
  OBVIOUS
<1>3. m \in 1..(Len(q) + 1) /\ m <= b + 1 /\ b - m + 1 = b /\ \A i \in 1..b : i + m - 1 = i
  BY <1>1, <1>2
<1>4. /\ SubSeq(q, m, b) \in Seq(S) /\ Len(SubSeq(q, m, b)) = b - m + 1
      /\ \A i \in 1..(b - m + 1) : SubSeq(q, m, b)[i] = q[i + m - 1]
  BY <1>3, CutAt
<1>5. Upto(q, b) = SubSeq(q, m, b)
  BY <1>2 DEF Upto
<1>6. b + 1 \in 1..(Len(q) + 1) /\ Len(q) \in 0..Len(q) /\ b + 1 <= Len(q) + 1
      /\ Len(q) - (b + 1) + 1 = Len(q) - b /\ \A i \in 1..(Len(q) - b) : i + (b + 1) - 1 = i + b
  BY <1>1
<1>7. /\ SubSeq(q, b + 1, Len(q)) \in Seq(S)
      /\ Len(SubSeq(q, b + 1, Len(q))) = Len(q) - (b + 1) + 1
      /\ \A i \in 1..(Len(q) - (b + 1) + 1) : SubSeq(q, b + 1, Len(q))[i] = q[i + (b + 1) - 1]
  BY <1>6, CutAt
<1>8. From(q, b) = SubSeq(q, b + 1, Len(q))
  BY DEF From
<1>9. Upto(q, b) \in Seq(S) /\ Len(Upto(q, b)) = b /\ \A i \in 1..b : Upto(q, b)[i] = q[i]
  BY <1>3, <1>4, <1>5
<1>10. From(q, b) \in Seq(S) /\ Len(From(q, b)) = Len(q) - b
       /\ \A i \in 1..(Len(q) - b) : From(q, b)[i] = q[i + b]
  BY <1>6, <1>7, <1>8
<1> QED BY <1>9, <1>10

LEMMA SplicedMeaning ==
  ASSUME NEW S, NEW q \in Seq(S), NEW b \in 0..Len(q), NEW r \in Seq(S)
  PROVE  /\ Spliced(q, b, r) \in Seq(S) /\ Len(Spliced(q, b, r)) = Len(q) + Len(r)
         /\ \A i \in 1..b : Spliced(q, b, r)[i] = q[i]
         /\ \A i \in 1..Len(r) : Spliced(q, b, r)[b + i] = r[i]
         /\ \A i \in (b + 1)..Len(q) : Spliced(q, b, r)[i + Len(r)] = q[i]
<1> DEFINE a == Upto(q, b)
           z == From(q, b)
           ar == a \o r
           c == ar \o z
           L == Len(r)
           N == Len(q)
<1>1. /\ a \in Seq(S) /\ Len(a) = b /\ \A i \in 1..b : a[i] = q[i]
      /\ z \in Seq(S) /\ Len(z) = N - b /\ \A i \in 1..(N - b) : z[i] = q[i + b]
  BY Cut
<1>2. N \in Nat /\ L \in Nat /\ b \in 0..N /\ b \in Nat
  OBVIOUS
<1>3. Spliced(q, b, r) = c
  BY DEF Spliced
<1> HIDE DEF a, z
<1>4. /\ ar \in Seq(S) /\ Len(ar) = Len(a) + Len(r)
      /\ \A i \in 1..(Len(a) + Len(r)) : ar[i] = IF i <= Len(a) THEN a[i] ELSE r[i - Len(a)]
  <2>1. a \in Seq(S) /\ r \in Seq(S)
    BY <1>1
  <2> QED BY <2>1, Joined
<1> HIDE DEF L, ar
<1>5. /\ ar \in Seq(S) /\ Len(ar) = b + L
      /\ \A i \in 1..(b + L) : ar[i] = IF i <= b THEN a[i] ELSE r[i - b]
  BY <1>1, <1>4 DEF L
<1>6. /\ c \in Seq(S) /\ Len(c) = Len(ar) + Len(z)
      /\ \A i \in 1..(Len(ar) + Len(z)) : c[i] = IF i <= Len(ar) THEN ar[i] ELSE z[i - Len(ar)]
  BY <1>1, <1>5, Joined
<1> HIDE DEF c, N
<1>7. /\ c \in Seq(S) /\ Len(c) = N + L
      /\ \A i \in 1..(N + L) : c[i] = IF i <= b + L THEN ar[i] ELSE z[i - (b + L)]
  <2>1. (b + L) + (N - b) = N + L
    BY <1>2
  <2> QED BY <1>1, <1>5, <1>6, <2>1
<1>8. \A i \in 1..b : c[i] = q[i]
  <2>1. \A i \in 1..b : i \in 1..(N + L) /\ i <= b + L /\ i \in 1..(b + L) /\ i <= b
    BY <1>2
  <2> QED BY <1>1, <1>5, <1>7, <2>1
<1>9. \A i \in 1..L : c[b + i] = r[i]
  <2>1. \A i \in 1..L : b + i \in 1..(N + L) /\ b + i <= b + L /\ b + i \in 1..(b + L)
                        /\ ~(b + i <= b) /\ (b + i) - b = i
    BY <1>2
  <2> QED BY <1>5, <1>7, <2>1
<1>10. \A i \in (b + 1)..N : c[i + L] = q[i]
  <2>1. \A i \in (b + 1)..N : i + L \in 1..(N + L) /\ ~(i + L <= b + L)
                              /\ (i + L) - (b + L) = i - b /\ i - b \in 1..(N - b) /\ (i - b) + b = i
    BY <1>2
  <2> QED BY <1>1, <1>7, <2>1
<1> QED BY <1>3, <1>7, <1>8, <1>9, <1>10 DEF L, N

(* Items with the names ids put into v behind b items. *)
Inserts(w, v, b, ids) ==
  /\ Len(w.items) = Len(v.items) + Len(ids)
  /\ \A k \in 1..b : w.items[k].id = v.items[k].id
  /\ \A k \in 1..Len(ids) : w.items[b + k].id = ids[k]
  /\ \A k \in (b + 1)..Len(v.items) : w.items[k + Len(ids)].id = v.items[k].id

LEMMA InsertsList ==
  ASSUME NEW v \in ValueType, NEW w \in ValueType, NEW b \in 0..Len(v.items),
         NEW ids \in Seq(Item0), Inserts(w, v, b, ids)
  PROVE  Ids(w) = Spliced(Ids(v), b, ids)
<1> DEFINE L == Len(ids)
           N == Len(v.items)
           q == Spliced(Ids(v), b, ids)
<1>1. L \in Nat /\ N \in Nat /\ b \in 0..N
  BY ValueParts
<1>2. /\ Ids(v) \in Seq(Item0) /\ Len(Ids(v)) = N /\ \A k \in 1..N : Ids(v)[k] = v.items[k].id
      /\ Ids(w) \in Seq(Item0) /\ Len(Ids(w)) = Len(w.items)
      /\ \A k \in 1..Len(w.items) : Ids(w)[k] = w.items[k].id
  BY IdsTyped
<1>3. /\ q \in Seq(Item0) /\ Len(q) = N + L
      /\ \A i \in 1..b : q[i] = Ids(v)[i]
      /\ \A i \in 1..L : q[b + i] = ids[i]
      /\ \A i \in (b + 1)..N : q[i + L] = Ids(v)[i]
  <2>1. Ids(v) \in Seq(Item0) /\ b \in 0..Len(Ids(v)) /\ ids \in Seq(Item0)
    BY <1>1, <1>2
  <2>2. /\ q \in Seq(Item0) /\ Len(q) = Len(Ids(v)) + Len(ids)
        /\ \A i \in 1..b : q[i] = Ids(v)[i]
        /\ \A i \in 1..Len(ids) : q[b + i] = ids[i]
        /\ \A i \in (b + 1)..Len(Ids(v)) : q[i + Len(ids)] = Ids(v)[i]
    BY <2>1, SplicedMeaning
  <2> HIDE DEF q
  <2> QED BY <1>2, <2>2
<1> HIDE DEF q
<1>4. /\ Len(w.items) = N + L
      /\ \A k \in 1..b : w.items[k].id = v.items[k].id
      /\ \A k \in 1..L : w.items[b + k].id = ids[k]
      /\ \A k \in (b + 1)..N : w.items[k + L].id = v.items[k].id
  BY DEF Inserts
<1> HIDE DEF L, N
<1>5. ASSUME NEW k \in 1..(N + L) PROVE Ids(w)[k] = q[k]
  <2>0. Ids(w)[k] = w.items[k].id
    BY <1>2, <1>4
  <2>1. CASE k <= b
    <3>1. k \in 1..b /\ k \in 1..N
      BY <1>1, <2>1
    <3> QED BY <1>2, <1>3, <1>4, <2>0, <3>1
  <2>2. CASE b < k /\ k <= b + L
    <3>1. PICK j \in 1..L : k = b + j
      <4>1. k - b \in 1..L /\ k = b + (k - b)
        BY <1>1, <2>2
      <4> QED BY <4>1
    <3> QED BY <1>3, <1>4, <2>0, <3>1
  <2>3. CASE b + L < k
    <3>1. PICK j \in (b + 1)..N : k = j + L
      <4>1. k - L \in (b + 1)..N /\ k = (k - L) + L
        BY <1>1, <2>3
      <4> QED BY <4>1
    <3>2. j \in 1..N
      BY <1>1, <3>1
    <3> QED BY <1>2, <1>3, <1>4, <2>0, <3>1, <3>2
  <2> QED BY <1>1, <2>1, <2>2, <2>3
<1>6. Ids(w) = q
  BY <1>2, <1>3, <1>4, <1>5, SameLists
<1> QED BY <1>6 DEF q

LEMMA InsertsSame ==
  ASSUME NEW v, NEW d, NEW w, NEW u, NEW b \in 0..Len(v.items), Len(v.items) \in Nat, NEW ids,
         Len(ids) \in Nat, SameIds(d, v), Inserts(w, d, b, ids), SameIds(u, w)
  PROVE  Inserts(u, v, b, ids)
<1> DEFINE N == Len(v.items)
           L == Len(ids)
<1>1. /\ Len(d.items) = N /\ \A k \in 1..N : d.items[k].id = v.items[k].id
  BY DEF SameIds
<1>2. /\ Len(w.items) = N + L
      /\ \A k \in 1..b : w.items[k].id = d.items[k].id
      /\ \A k \in 1..L : w.items[b + k].id = ids[k]
      /\ \A k \in (b + 1)..N : w.items[k + L].id = d.items[k].id
  BY <1>1 DEF Inserts
<1>3. Len(u.items) = N + L /\ \A k \in 1..(N + L) : u.items[k].id = w.items[k].id
  BY <1>2 DEF SameIds
<1>4. N \in Nat /\ L \in Nat /\ b \in 0..N
  OBVIOUS
<1> HIDE DEF N, L
<1>5. /\ \A k \in 1..b : k \in 1..N /\ k \in 1..(N + L)
      /\ \A k \in 1..L : b + k \in 1..(N + L)
      /\ \A k \in (b + 1)..N : k \in 1..N /\ k + L \in 1..(N + L)
  BY <1>4
<1>6. /\ Len(u.items) = N + L
      /\ \A k \in 1..b : u.items[k].id = v.items[k].id
      /\ \A k \in 1..L : u.items[b + k].id = ids[k]
      /\ \A k \in (b + 1)..N : u.items[k + L].id = v.items[k].id
  BY <1>1, <1>2, <1>3, <1>5
<1> QED BY <1>6 DEF Inserts, N, L

LEMMA InsertItemsTyped ==
  ASSUME NEW v \in ValueType, NEW ids \in Seq(Item0), NEW b \in 0..Len(v.items),
         NEW style \in StyleType
  PROVE  /\ InsertItems(v, ids, b, style) \in ValueType
         /\ Inserts(InsertItems(v, ids, b, style), v, b, ids)
<1> DEFINE carried == IF b = 0 THEN style.separator ELSE v.items[b].following
           run == NewItems(ids, style, carried)
           moved == [v.items[b] EXCEPT !.following = style.separator]
           led == IF b = 0 THEN v.items ELSE [v.items EXCEPT ![b] = moved]
           q == Spliced(led, b, run)
           w == InsertItems(v, ids, b, style)
           L == Len(ids)
           N == Len(v.items)
<1>1. /\ v.items \in Seq(ItemType) /\ N \in Nat /\ v.opening \in Gap /\ L \in Nat /\ b \in 0..N
      /\ \A k \in 1..N : v.items[k] \in ItemType
  BY ValueParts
<1>2. style.separator \in Gap /\ style.preBreak \in Gap
  BY DEF StyleType, BreakType
<1>3. carried \in Gap
  <2>1. b # 0 => v.items[b] \in ItemType
    BY <1>1
  <2> QED BY <1>2, <2>1, ItemParts
<1> HIDE DEF carried
<1>4. /\ run \in Seq(ItemType) /\ Len(run) = L /\ \A k \in 1..L : run[k].id = ids[k]
  <2> DEFINE new(k) == Item(ids[k], style.preBreak, TRUE, <<>>,
                            IF k = Len(ids) THEN carried ELSE style.separator)
  <2>1. ASSUME NEW k \in 1..L PROVE new(k) \in ItemType /\ new(k).id = ids[k]
    <3>1. ids[k] \in Item0
      OBVIOUS
    <3>2. (IF k = Len(ids) THEN carried ELSE style.separator) \in Gap
      BY <1>2, <1>3
    <3> QED BY <1>2, <3>1, <3>2, SmallGaps DEF Item, ItemType
  <2>2. run = [k \in 1..L |-> new(k)]
    BY DEF NewItems
  <2> HIDE DEF new, run
  <2> QED BY <1>1, <2>1, <2>2
<1> HIDE DEF run
<1>5. /\ led \in Seq(ItemType) /\ Len(led) = N /\ \A k \in 1..N : led[k].id = v.items[k].id
  <2>1. b # 0 => b \in 1..N /\ moved \in ItemType /\ moved.id = v.items[b].id
    <3> SUFFICES ASSUME b # 0 PROVE b \in 1..N /\ moved \in ItemType /\ moved.id = v.items[b].id
      OBVIOUS
    <3>1. b \in 1..N /\ v.items[b] \in ItemType
      BY <1>1
    <3> QED BY <1>2, <3>1, FieldsRewritten DEF Rewrites
  <2> HIDE DEF moved
  <2> QED BY <1>1, <2>1
<1>6. w = [opening |-> v.opening, items |-> q]
  <2>1. led = IF b = 0 THEN v.items ELSE [v.items EXCEPT ![b].following = style.separator]
    OBVIOUS
  <2>2. w = [v EXCEPT !.items = q]
    BY <2>1 DEF InsertItems, carried, run, Spliced
  <2> HIDE DEF q, w
  <2> QED BY <2>2, ValueParts
<1> HIDE DEF led, N, L
<1>7. /\ q \in Seq(ItemType) /\ Len(q) = N + L
      /\ \A i \in 1..b : q[i] = led[i]
      /\ \A i \in 1..L : q[b + i] = run[i]
      /\ \A i \in (b + 1)..N : q[i + L] = led[i]
  <2>1. led \in Seq(ItemType) /\ b \in 0..Len(led) /\ run \in Seq(ItemType)
    BY <1>1, <1>4, <1>5
  <2>2. /\ q \in Seq(ItemType) /\ Len(q) = Len(led) + Len(run)
        /\ \A i \in 1..b : q[i] = led[i]
        /\ \A i \in 1..Len(run) : q[b + i] = run[i]
        /\ \A i \in (b + 1)..Len(led) : q[i + Len(run)] = led[i]
    BY <2>1, SplicedMeaning
  <2> HIDE DEF q
  <2> QED BY <1>4, <1>5, <2>2
<1> HIDE DEF q, w
<1>8. w \in ValueType /\ w.items = q
  BY <1>1, <1>6, <1>7 DEF ValueType
<1>9. (\A k \in 1..b : k \in 1..N) /\ \A k \in (b + 1)..N : k \in 1..N
  BY <1>1
<1>10. /\ Len(w.items) = N + L
       /\ \A k \in 1..b : w.items[k].id = v.items[k].id
       /\ \A k \in 1..L : w.items[b + k].id = ids[k]
       /\ \A k \in (b + 1)..N : w.items[k + L].id = v.items[k].id
  BY <1>4, <1>5, <1>7, <1>8, <1>9
<1> QED BY <1>8, <1>10 DEF Inserts, N, L, w

LEMMA InsertRunTyped ==
  ASSUME NEW v \in ValueType, NEW ids \in Seq(Item0), NEW b \in 0..Len(v.items),
         NEW style \in StyleType
  PROVE  InsertRun(v, ids, b, style) \in ValueType /\ Inserts(InsertRun(v, ids, b, style), v, b, ids)
<1> DEFINE old      == Capture(v, b)
           count    == Len(ids)
           bare     == DetachAbove(v, b)
           inserted == InsertItems(bare, ids, b, style)
           fresh    == IF b = 0 THEN count ELSE b
           broken   == WithItem(inserted, fresh, StructuralBreak(inserted.items[fresh]))
           carried  == ShiftCarriedAt(broken, b + count, old)
           settled  == CASE ~style.multi \/ CommaFirst(style) -> inserted
                         [] style.multi /\ ~CommaFirst(style) /\ b = 0 -> broken
                         [] OTHER -> carried
           w == RehomeAbove(settled, b + count, old, style)
<1>1. Len(v.items) \in Nat /\ b \in Int /\ count \in Nat /\ b + count \in Int
  BY ValueParts
<1>2. old \in BoundType
  BY CaptureTyped
<1>3. bare \in ValueType /\ SameIds(bare, v)
  BY <1>1, DetachAboveTyped
<1>4. InsertRun(v, ids, b, style) = w
  BY DEF InsertRun, WithItem
<1> HIDE DEF old, bare
<1>5. Len(bare.items) = Len(v.items)
  BY <1>3 DEF SameIds
<1>6. inserted \in ValueType /\ Inserts(inserted, bare, b, ids)
  BY <1>3, <1>5, InsertItemsTyped
<1> HIDE DEF inserted, fresh, count
<1>7. broken \in ValueType /\ SameIds(broken, inserted)
  <2> DEFINE it == StructuralBreak(inserted.items[fresh])
  <2>1. fresh \in 1..Len(inserted.items) => it \in ItemType /\ it.id = inserted.items[fresh].id
    <3> SUFFICES ASSUME fresh \in 1..Len(inserted.items)
                 PROVE  it \in ItemType /\ it.id = inserted.items[fresh].id
      OBVIOUS
    <3>1. inserted.items[fresh] \in ItemType
      BY <1>6, ValueParts
    <3> QED BY <3>1, BreakRewritten DEF Rewrites
  <2> HIDE DEF it
  <2>2. WithItem(inserted, fresh, it) \in ValueType /\ SameIds(WithItem(inserted, fresh, it), inserted)
    BY <1>6, <2>1, ItemRewritten
  <2> QED BY <2>2 DEF it
<1> HIDE DEF broken
<1>8. carried \in ValueType /\ SameIds(carried, inserted)
  <2>1. carried \in ValueType /\ SameIds(carried, broken)
    BY <1>1, <1>7, ShiftCarriedAtTyped
  <2> HIDE DEF carried
  <2> QED BY <1>7, <2>1, SameIdsTwice
<1>9. SameIds(inserted, inserted)
  BY DEF SameIds
<1> HIDE DEF carried
<1>10. settled \in ValueType /\ SameIds(settled, inserted)
  <2>1. settled = inserted \/ settled = broken \/ settled = carried
    OBVIOUS
  <2> HIDE DEF settled
  <2> QED BY <1>6, <1>7, <1>8, <1>9, <2>1
<1> HIDE DEF settled
<1>11. w \in ValueType /\ SameIds(w, settled)
  BY <1>1, <1>2, <1>10, RehomeAboveTyped
<1> HIDE DEF w
<1>12. SameIds(w, inserted)
  BY <1>10, <1>11, SameIdsTwice
<1>13. Inserts(w, v, b, ids)
  <2>1. Len(ids) \in Nat
    BY <1>1 DEF count
  <2> QED BY <1>1, <1>3, <1>6, <1>12, <2>1, InsertsSame
<1> QED BY <1>4, <1>11, <1>13

(* A run inserted before item b + 1 stands there, in its order. *)
LEMMA SpliceInsertTyped ==
  ASSUME NEW v \in ValueType, NEW ids \in Seq(Item0), ids # <<>>, NEW b \in 0..Len(v.items),
         NEW multi \in BOOLEAN
  PROVE  Matches(SpliceInsert(v, ids, b, multi), Spliced(Ids(v), b, ids))
<1> DEFINE one   == Upto(ids, 1)
           rest  == Tail(ids)
           first == InsertRun(v, one, b, DetectStyle(v, multi))
           w     == InsertRun(first, rest, b + 1, DetectStyle(first, multi))
           N == Len(v.items)
           L == Len(ids)
<1>1. L \in Nat /\ L >= 1 /\ N \in Nat /\ b \in 0..N
  BY ValueParts
<1>2. /\ one \in Seq(Item0) /\ Len(one) = 1 /\ one[1] = ids[1]
  <2>1. 1 \in 0..Len(ids) /\ 1 \in 1..1
    BY <1>1
  <2> QED BY <2>1, Cut
<1>3. /\ rest \in Seq(Item0) /\ Len(rest) = L - 1 /\ \A i \in 1..(L - 1) : rest[i] = ids[i + 1]
  BY <1>1
<1>4. SpliceInsert(v, ids, b, multi) = IF L = 1 THEN first ELSE w
  BY DEF SpliceInsert
<1> HIDE DEF one, rest
<1>5. first \in ValueType /\ Inserts(first, v, b, one)
  BY <1>2, StyleTyped, InsertRunTyped
<1> HIDE DEF first
<1>6. /\ Len(first.items) = N + 1
      /\ \A k \in 1..b : first.items[k].id = v.items[k].id
      /\ \A k \in 1..1 : first.items[b + k].id = one[k]
      /\ \A k \in (b + 1)..N : first.items[k + 1].id = v.items[k].id
  BY <1>2, <1>5 DEF Inserts
<1>7. CASE L = 1
  <2>1. Inserts(first, v, b, ids)
    <3>1. \A k \in 1..1 : one[k] = ids[k]
      BY <1>2
    <3> QED BY <1>6, <1>7, <3>1 DEF Inserts
  <2>2. Ids(first) = Spliced(Ids(v), b, ids)
    BY <1>5, <2>1, InsertsList
  <2> QED BY <1>4, <1>5, <1>7, <2>2 DEF Matches
<1>8. CASE L # 1
  <2>1. b + 1 \in 0..Len(first.items)
    BY <1>1, <1>6
  <2>2. w \in ValueType /\ Inserts(w, first, b + 1, rest)
    BY <1>3, <1>5, <2>1, StyleTyped, InsertRunTyped
  <2> HIDE DEF w
  <2>3. /\ Len(w.items) = (N + 1) + (L - 1)
        /\ \A k \in 1..(b + 1) : w.items[k].id = first.items[k].id
        /\ \A k \in 1..(L - 1) : w.items[(b + 1) + k].id = rest[k]
        /\ \A k \in ((b + 1) + 1)..(N + 1) : w.items[k + (L - 1)].id = first.items[k].id
    BY <1>3, <1>6, <2>2 DEF Inserts
  <2> HIDE DEF N, L
  <2>4. Len(w.items) = N + L
    BY <1>1, <2>3
  <2>5. ASSUME NEW k \in 1..b PROVE w.items[k].id = v.items[k].id
    BY <1>1, <1>6, <2>3
  <2>6. ASSUME NEW k \in 1..L PROVE w.items[b + k].id = ids[k]
    <3>1. CASE k = 1
      <4>1. b + k \in 1..(b + 1) /\ k \in 1..1
        BY <1>1, <3>1
      <4> QED BY <1>2, <1>6, <2>3, <3>1, <4>1
    <3>2. CASE k # 1
      <4>1. PICK j \in 1..(L - 1) : k = j + 1
        <5>1. k - 1 \in 1..(L - 1) /\ k = (k - 1) + 1
          BY <1>1, <3>2
        <5> QED BY <5>1
      <4>2. b + k = (b + 1) + j
        BY <1>1, <4>1
      <4> QED BY <1>3, <2>3, <4>1, <4>2
    <3> QED BY <3>1, <3>2
  <2>7. ASSUME NEW k \in (b + 1)..N PROVE w.items[k + L].id = v.items[k].id
    <3>1. k + 1 \in ((b + 1) + 1)..(N + 1) /\ (k + 1) + (L - 1) = k + L
      BY <1>1
    <3> QED BY <1>6, <2>3, <3>1
  <2>8. Inserts(w, v, b, ids)
    BY <2>4, <2>5, <2>6, <2>7 DEF Inserts, N, L
  <2>9. Ids(w) = Spliced(Ids(v), b, ids)
    BY <2>2, <2>8, InsertsList
  <2> QED BY <1>4, <1>8, <2>2, <2>9 DEF Matches
<1> QED BY <1>7, <1>8

-----------------------------------------------------------------------------
(* Items removed.                                                          *)

(* What is kept of an increasing list is increasing, and is what there is. *)
Rising(q) == q \in Seq(Nat) /\ \A i, j \in 1..Len(q) : i < j => q[i] < q[j]
(* Keeping some of a rising list of numbers leaves a rising list of those. *)
LEMMA KeptInOrder ==
  ASSUME NEW q, Rising(q), NEW R
  PROVE  /\ Rising(Keeping(q, R))
         /\ \A x \in Nat : (x \in R /\ \E k \in 1..Len(q) : q[k] = x)
                              <=> \E i \in 1..Len(Keeping(q, R)) : Keeping(q, R)[i] = x
<1> DEFINE n   == Len(q)
           idx == Keeping(q, R)
           Good(p, m) == /\ p \in Seq(Nat)
                         /\ \A i, j \in 1..Len(p) : i < j => p[i] < p[j]
                         /\ \A x \in Nat : (x \in R /\ \E k \in 1..m : q[k] = x)
                                              <=> \E i \in 1..Len(p) : p[i] = x
<1>1. n \in Nat /\ \A k \in 1..n : q[k] \in Nat
  BY DEF Rising
<1>2. PICK f : KeptBy(q, R, f, n) /\ idx = f[n]
  BY <1>1, KeepingMeaning DEF Rising
<1>2a. \A i, j \in 1..n : i < j => q[i] < q[j]
  BY DEF Rising
<1> HIDE DEF n
<1> DEFINE P == {m \in Nat : m <= n => Good(f[m], m)}
<1>3. 0 \in P
  <2> DEFINE none == <<>>
  <2>1. f[0] = none
    BY <1>2 DEF KeptBy
  <2>2. none \in Seq(Nat) /\ Len(none) = 0
    OBVIOUS
  <2> HIDE DEF none
  <2>3. Good(none, 0)
    BY <2>2
  <2> HIDE DEF Good
  <2> QED BY <2>1, <2>3
<1>4. ASSUME NEW m \in Nat, m \in P PROVE m + 1 \in P
  <2> HIDE DEF Good
  <2> SUFFICES ASSUME m + 1 <= n PROVE Good(f[m + 1], m + 1)
    OBVIOUS
  <2>1. m + 1 \in 1..n /\ (m + 1) - 1 = m /\ Good(f[m], m)
    BY <1>1, <1>4
  <2> DEFINE y == q[m + 1]
             p == f[m]
  <2>2. f[m + 1] = IF y \in R THEN Append(p, y) ELSE p
    BY <1>2, <2>1 DEF KeptBy
  <2>3. /\ p \in Seq(Nat) /\ Len(p) \in Nat
        /\ \A i, j \in 1..Len(p) : i < j => p[i] < p[j]
        /\ \A x \in Nat : (x \in R /\ \E k \in 1..m : q[k] = x) <=> \E i \in 1..Len(p) : p[i] = x
    BY <2>1 DEF Good
  <2>4. y \in Nat /\ \A k \in 1..m : q[k] < y
    BY <1>1, <1>2a, <2>1
  <2>5. \A x \in Nat : (\E k \in 1..(m + 1) : q[k] = x) <=> x = y \/ \E k \in 1..m : q[k] = x
    <3>1. \A k \in 1..(m + 1) : k = m + 1 \/ k \in 1..m
      OBVIOUS
    <3>2. m + 1 \in 1..(m + 1) /\ \A k \in 1..m : k \in 1..(m + 1)
      OBVIOUS
    <3> QED BY <3>1, <3>2
  <2>6. \A i \in 1..Len(p) : p[i] \in Nat /\ p[i] < y
    <3> SUFFICES ASSUME NEW i \in 1..Len(p) PROVE p[i] \in Nat /\ p[i] < y
      OBVIOUS
    <3>1. p[i] \in Nat
      BY <2>3
    <3>2. \E k \in 1..m : q[k] = p[i]
      BY <2>3, <3>1
    <3> HIDE DEF y
    <3> QED BY <2>4, <3>1, <3>2
  <2> HIDE DEF p, y
  <2>7. CASE y \in R
    <3> DEFINE s == Append(p, y)
    <3>1. /\ s \in Seq(Nat) /\ Len(s) = Len(p) + 1 /\ s[Len(p) + 1] = y
          /\ \A i \in 1..Len(p) : s[i] = p[i]
          /\ \A i \in 1..(Len(p) + 1) : i = Len(p) + 1 \/ i \in 1..Len(p)
      BY <2>3, <2>4
    <3> HIDE DEF s
    <3>2. ASSUME NEW i \in 1..Len(s), NEW j \in 1..Len(s), i < j PROVE s[i] < s[j]
      <4>1. i \in 1..Len(p)
        BY <2>3, <3>1, <3>2
      <4>2. CASE j = Len(p) + 1
        BY <2>6, <3>1, <4>1, <4>2
      <4>3. CASE j \in 1..Len(p)
        BY <2>3, <3>1, <3>2, <4>1, <4>3
      <4> QED BY <3>1, <4>2, <4>3
    <3>3. ASSUME NEW x \in Nat
          PROVE  (\E i \in 1..Len(s) : s[i] = x) <=> x = y \/ \E i \in 1..Len(p) : p[i] = x
      <4>1. Len(p) + 1 \in 1..Len(s) /\ \A i \in 1..Len(p) : i \in 1..Len(s)
        BY <2>3, <3>1
      <4> QED BY <3>1, <4>1
    <3>4. ASSUME NEW x \in Nat
          PROVE  (x \in R /\ \E k \in 1..(m + 1) : q[k] = x) <=> \E i \in 1..Len(s) : s[i] = x
      BY <2>3, <2>5, <2>7, <3>3
    <3>5. Good(s, m + 1)
      BY <3>1, <3>2, <3>4 DEF Good
    <3> QED BY <2>2, <2>7, <3>5 DEF s
  <2>8. CASE y \notin R
    <3>1. \A x \in Nat : (x \in R /\ \E k \in 1..(m + 1) : q[k] = x) <=> \E i \in 1..Len(p) : p[i] = x
      BY <2>3, <2>5, <2>8
    <3>2. Good(p, m + 1)
      BY <2>3, <3>1 DEF Good
    <3> QED BY <2>2, <2>8, <3>2
  <2> QED BY <2>7, <2>8
<1> HIDE DEF P, Good
<1>5. n \in P
  BY <1>1, <1>3, <1>4, InductionOnSet
<1>6. Good(idx, n)
  BY <1>1, <1>2, <1>5 DEF P
<1> QED BY <1>6 DEF Good, n, Rising

(* The positions of a deletion as Python numbers them.                     *)
LEMMA PositionsInOrder ==
  ASSUME NEW n \in Nat, NEW R
  PROVE  LET idx == Keeping([i \in 1..n |-> i - 1], R)
         IN  /\ idx \in Seq(Nat)
             /\ \A i \in 1..Len(idx) : idx[i] < n
             /\ \A i, j \in 1..Len(idx) : i < j => idx[i] < idx[j]
             /\ \A x \in Nat : x < n /\ x \in R <=> \E i \in 1..Len(idx) : idx[i] = x
<1> DEFINE q == [i \in 1..n |-> i - 1]
           idx == Keeping(q, R)
<1>1. q \in Seq(Nat) /\ Len(q) = n /\ \A i \in 1..n : q[i] = i - 1
  OBVIOUS
<1> HIDE DEF q
<1>2. Rising(q)
  BY <1>1 DEF Rising
<1>3. /\ Rising(idx)
      /\ \A x \in Nat : (x \in R /\ \E k \in 1..Len(q) : q[k] = x) <=> \E i \in 1..Len(idx) : idx[i] = x
  BY <1>2, KeptInOrder
<1>4. \A x \in Nat : (\E k \in 1..Len(q) : q[k] = x) <=> x < n
  <2>1. \A x \in Nat : x < n => x + 1 \in 1..n /\ (x + 1) - 1 = x
    OBVIOUS
  <2>2. \A x \in Nat : x < n => \E k \in 1..Len(q) : q[k] = x
    BY <1>1, <2>1
  <2>3. \A k \in 1..Len(q) : q[k] < n
    BY <1>1
  <2> QED BY <2>2, <2>3
<1> HIDE DEF idx
<1>5. \A x \in Nat : x < n /\ x \in R <=> \E i \in 1..Len(idx) : idx[i] = x
  BY <1>3, <1>4
<1>6. \A i \in 1..Len(idx) : idx[i] < n
  <2>1. \A i \in 1..Len(idx) : idx[i] \in Nat
    BY <1>3 DEF Rising
  <2> QED BY <1>5, <2>1
<1> QED BY <1>3, <1>5, <1>6 DEF idx, q, Rising

(* What a run is: a half-open stretch of the n positions. *)
RunType(n) == {r \in Nat \X Nat : r[1] < r[2] /\ r[2] <= n}

(* Their runs are stretches within the value. *)
LEMMA RunsTyped ==
  ASSUME NEW n \in Nat, NEW I \in SUBSET (1..n), I # {}
  PROVE  /\ Cover(RunsOf(I, n), {i - 1 : i \in I}, n)
         /\ RunsOf(I, n) \in Seq(RunType(n)) /\ RunsOf(I, n) # <<>>
<1> DEFINE R == {i - 1 : i \in I}
           idx == Keeping([i \in 1..n |-> i - 1], R)
           runs == RunsOf(I, n)
<1>1. runs = IndexRuns(idx)
  BY DEF RunsOf
<1>2. /\ idx \in Seq(Nat)
      /\ \A i \in 1..Len(idx) : idx[i] < n
      /\ \A i, j \in 1..Len(idx) : i < j => idx[i] < idx[j]
      /\ \A x \in Nat : x < n /\ x \in R <=> \E i \in 1..Len(idx) : idx[i] = x
  BY PositionsInOrder
<1> HIDE DEF idx, runs
<1>3. Cover(runs, {idx[i] : i \in 1..Len(idx)}, n)
  BY <1>1, <1>2, IndexRunsCover
<1>4. {idx[i] : i \in 1..Len(idx)} = R
  <2>1. \A x \in R : x \in Nat /\ x < n
    OBVIOUS
  <2> HIDE DEF R
  <2>2. \A i \in 1..Len(idx) : idx[i] \in Nat
    BY <1>2
  <2> QED BY <1>2, <2>1, <2>2
<1>5. Cover(runs, R, n)
  BY <1>3, <1>4
<1>6. PICK x \in Nat : x \in R
  <2>1. PICK i \in I : TRUE
    OBVIOUS
  <2>2. i - 1 \in Nat /\ i - 1 \in R
    OBVIOUS
  <2> QED BY <2>2
<1> HIDE DEF R
<1>7. /\ runs \in Seq(Nat \X Nat)
      /\ \A j \in 1..Len(runs) : runs[j][1] < runs[j][2] /\ runs[j][2] <= n
      /\ \E j \in 1..Len(runs) : runs[j][1] <= x /\ x < runs[j][2]
  BY <1>5, <1>6 DEF Cover
<1>8. runs \in Seq(RunType(n)) /\ runs # <<>>
  <2>1. \A j \in 1..Len(runs) : runs[j] \in RunType(n)
    BY <1>7 DEF RunType
  <2>2. runs # <<>>
    <3>1. Len(runs) # 0
      BY <1>7
    <3> QED BY <3>1
  <2> QED BY <1>7, <2>1, <2>2
<1> QED BY <1>5, <1>8 DEF runs, R

(* Items and their names. *)
Alike(a, b) ==
  /\ a \in Seq(ItemType) /\ b \in Seq(Item0) /\ Len(a) = Len(b)
  /\ \A k \in 1..Len(a) : a[k].id = b[k]

LEMMA AlikeJoin ==
  ASSUME NEW a, NEW b, NEW c, NEW d, Alike(a, b), Alike(c, d)
  PROVE  Alike(a \o c, b \o d)
<1> DEFINE p == a \o c
           q == b \o d
<1>1. /\ a \in Seq(ItemType) /\ b \in Seq(Item0) /\ c \in Seq(ItemType) /\ d \in Seq(Item0)
      /\ Len(a) = Len(b) /\ Len(c) = Len(d) /\ Len(a) \in Nat /\ Len(c) \in Nat
      /\ \A k \in 1..Len(a) : a[k].id = b[k]
      /\ \A k \in 1..Len(c) : c[k].id = d[k]
  BY DEF Alike
<1>2. /\ p \in Seq(ItemType) /\ Len(p) = Len(a) + Len(c)
      /\ \A i \in 1..(Len(a) + Len(c)) : p[i] = IF i <= Len(a) THEN a[i] ELSE c[i - Len(a)]
  <2>1. a \in Seq(ItemType) /\ c \in Seq(ItemType)
    BY <1>1
  <2> QED BY <2>1, Joined
<1>3. /\ q \in Seq(Item0) /\ Len(q) = Len(b) + Len(d)
      /\ \A i \in 1..(Len(b) + Len(d)) : q[i] = IF i <= Len(b) THEN b[i] ELSE d[i - Len(b)]
  BY <1>1, Joined
<1> HIDE DEF p, q
<1>4. ASSUME NEW k \in 1..Len(p) PROVE p[k].id = q[k]
  <2>1. CASE k <= Len(a)
    <3>1. k \in 1..Len(a)
      BY <1>1, <1>2, <2>1
    <3> QED BY <1>1, <1>2, <1>3, <2>1, <3>1
  <2>2. CASE ~(k <= Len(a))
    <3>1. k - Len(a) \in 1..Len(c)
      BY <1>1, <1>2, <2>2
    <3> QED BY <1>1, <1>2, <1>3, <2>2, <3>1
  <2> QED BY <2>1, <2>2
<1> QED BY <1>1, <1>2, <1>3, <1>4 DEF Alike, p, q

LEMMA AlikeSlice ==
  ASSUME NEW a, NEW b, Alike(a, b), NEW lo \in 0..Len(a), NEW hi \in 0..Len(a), lo <= hi
  PROVE  Alike(Slice(a, lo, hi), Slice(b, lo, hi))
<1> DEFINE p == SubSeq(a, lo + 1, hi)
           q == SubSeq(b, lo + 1, hi)
<1>1. /\ a \in Seq(ItemType) /\ b \in Seq(Item0) /\ Len(a) = Len(b) /\ Len(a) \in Nat
      /\ \A k \in 1..Len(a) : a[k].id = b[k]
  BY DEF Alike
<1>2. lo + 1 \in 1..(Len(a) + 1) /\ lo + 1 <= hi + 1 /\ lo \in Nat /\ hi \in Nat
  BY <1>1
<1>3. /\ p \in Seq(ItemType) /\ Len(p) = hi - (lo + 1) + 1
      /\ \A i \in 1..(hi - (lo + 1) + 1) : p[i] = a[i + (lo + 1) - 1]
  BY <1>1, <1>2, CutAt
<1>4. /\ q \in Seq(Item0) /\ Len(q) = hi - (lo + 1) + 1
      /\ \A i \in 1..(hi - (lo + 1) + 1) : q[i] = b[i + (lo + 1) - 1]
  BY <1>1, <1>2, CutAt
<1> HIDE DEF p, q
<1>5. \A i \in 1..(hi - (lo + 1) + 1) : i + (lo + 1) - 1 \in 1..Len(a)
  BY <1>1, <1>2
<1>6. Alike(p, q)
  BY <1>1, <1>3, <1>4, <1>5 DEF Alike
<1> QED BY <1>6 DEF Slice, p, q

(* Deleting the same runs from two lists that agree leaves lists that      *)
(* agree: the value and the decoded list lose the same items.              *)
LEMMA DeletedAlike ==
  ASSUME NEW a, NEW b, Alike(a, b), NEW runs, NEW I, Cover(runs, I, Len(a)), runs # <<>>
  PROVE  Alike(DeleteRuns(a, runs), DeleteRuns(b, runs))
<1> DEFINE n == Len(runs)
           N == Len(a)
           s(j) == runs[j][1]
           t(j) == runs[j][2]
<1>1. /\ a \in Seq(ItemType) /\ b \in Seq(Item0) /\ N = Len(b) /\ N \in Nat
  BY DEF Alike
<1>2. /\ n \in Nat \ {0} /\ Last(runs) = runs[n]
      /\ \A j \in 1..n : s(j) \in Nat /\ t(j) \in Nat /\ s(j) < t(j) /\ t(j) <= N
      /\ \A i, j \in 1..n : i < j => t(i) <= s(j)
  <2>1. /\ runs \in Seq(Nat \X Nat)
        /\ \A j \in 1..Len(runs) : runs[j][1] < runs[j][2] /\ runs[j][2] <= N
        /\ \A i, j \in 1..Len(runs) : i < j => runs[i][2] <= runs[j][1]
    BY DEF Cover
  <2> QED BY <2>1 DEF Last
<1>3. PICK f : /\ JoinedBy(a, runs, f, n)
               /\ DeleteRuns(a, runs) = Slice(a, 0, s(1)) \o f[n] \o Slice(a, t(n), N)
  BY <1>1, <1>2, JoinedMeaning
<1>4. PICK e : /\ JoinedBy(b, runs, e, n)
               /\ DeleteRuns(b, runs) = Slice(b, 0, s(1)) \o e[n] \o Slice(b, t(n), N)
  <2>1. Cover(runs, I, Len(b))
    BY <1>1
  <2> QED BY <1>1, <1>2, <2>1, JoinedMeaning
<1>5. 1 \in 1..n /\ n \in 1..n
  BY <1>2
<1>5a. /\ f[1] = <<>> /\ e[1] = <<>>
       /\ \A i \in 2..n : f[i] = f[i - 1] \o Slice(a, t(i - 1), s(i))
                          /\ e[i] = e[i - 1] \o Slice(b, t(i - 1), s(i))
  BY <1>3, <1>4 DEF JoinedBy
<1> HIDE DEF s, t, n
<1> DEFINE P == {m \in Nat : m + 1 <= n => Alike(f[m + 1], e[m + 1])}
<1>6. 0 \in P
  <2>1. Alike(<<>>, <<>>)
    BY DEF Alike
  <2>2. Alike(f[1], e[1])
    BY <1>5a, <2>1
  <2>3. 0 + 1 = 1
    OBVIOUS
  <2> QED BY <2>2, <2>3
<1>7. ASSUME NEW m \in Nat, m \in P PROVE m + 1 \in P
  <2> SUFFICES ASSUME (m + 1) + 1 <= n PROVE Alike(f[(m + 1) + 1], e[(m + 1) + 1])
    OBVIOUS
  <2> DEFINE i == (m + 1) + 1
  <2>1. i \in 2..n /\ i \in 1..n /\ m + 1 \in 1..n /\ i - 1 = m + 1 /\ Alike(f[m + 1], e[m + 1])
    BY <1>2, <1>7
  <2>2. t(m + 1) \in 0..N /\ s(i) \in 0..N /\ t(m + 1) <= s(i)
    <3>1. m + 1 < i
      OBVIOUS
    <3> HIDE DEF i
    <3>2. t(m + 1) <= s(i) /\ t(m + 1) \in Nat /\ s(i) \in Nat /\ s(i) < t(i) /\ t(i) <= N
          /\ t(i) \in Nat
      BY <1>2, <2>1, <3>1
    <3> QED BY <1>1, <3>2
  <2> HIDE DEF i
  <2>3. Alike(Slice(a, t(m + 1), s(i)), Slice(b, t(m + 1), s(i)))
    BY <2>2, AlikeSlice
  <2>4. f[i] = f[m + 1] \o Slice(a, t(m + 1), s(i)) /\ e[i] = e[m + 1] \o Slice(b, t(m + 1), s(i))
    BY <1>5a, <2>1
  <2>5. Alike(f[i], e[i])
    BY <2>1, <2>3, <2>4, AlikeJoin
  <2> QED BY <2>5 DEF i
<1> HIDE DEF P
<1>8. Alike(f[n], e[n])
  <2>1. n - 1 \in Nat /\ (n - 1) + 1 = n
    BY <1>2
  <2>2. n - 1 \in P
    BY <1>6, <1>7, <2>1, InductionOnSet
  <2> QED BY <1>2, <2>1, <2>2 DEF P
<1>9. Alike(Slice(a, 0, s(1)), Slice(b, 0, s(1))) /\ Alike(Slice(a, t(n), N), Slice(b, t(n), N))
  <2>1. 0 \in 0..N /\ N \in 0..N /\ s(1) \in 0..N /\ t(n) \in 0..N /\ 0 <= s(1) /\ t(n) <= N
    <3>1. /\ s(1) \in Nat /\ t(1) \in Nat /\ s(1) < t(1) /\ t(1) <= N
          /\ t(n) \in Nat /\ t(n) <= N
      BY <1>2, <1>5
    <3> QED BY <1>1, <3>1
  <2> QED BY <2>1, AlikeSlice
<1> DEFINE a1 == Slice(a, 0, s(1)) \o f[n]
           b1 == Slice(b, 0, s(1)) \o e[n]
<1>10. Alike(a1, b1)
  BY <1>8, <1>9, AlikeJoin
<1> HIDE DEF a1, b1
<1>11. Alike(a1 \o Slice(a, t(n), N), b1 \o Slice(b, t(n), N))
  BY <1>9, <1>10, AlikeJoin
<1> QED BY <1>3, <1>4, <1>11 DEF a1, b1

(* splice_out, part by part: closing up, the new last item, the seams,     *)
(* the blocks put back.                                                    *)
LEMMA CloseUpTyped ==
  ASSUME NEW v \in ValueType, NEW I, NEW runs \in Seq(RunType(Len(v.items))), runs # <<>>,
         Cover(runs, I, Len(v.items))
  PROVE  Matches(CloseUp(v, runs), DeleteRuns(Ids(v), runs))
<1> DEFINE n == Len(v.items)
           led(k) == IF \E r \in DOMAIN runs : runs[r][1] = k
                       THEN [v.items[k] EXCEPT !.following =
                               v.items[runs[CHOOSE r \in DOMAIN runs : runs[r][1] = k][2]].following]
                       ELSE v.items[k]
           a == [k \in 1..n |-> led(k)]
           q == DeleteRuns(a, runs)
           w == CloseUp(v, runs)
<1>1. /\ v.opening \in Gap /\ n \in Nat /\ \A k \in 1..n : v.items[k] \in ItemType
      /\ Ids(v) \in Seq(Item0) /\ Len(Ids(v)) = n /\ \A k \in 1..n : Ids(v)[k] = v.items[k].id
  BY ValueParts, IdsTyped
<1>2. w = [opening |-> v.opening, items |-> q]
  <2>1. w = [v EXCEPT !.items = q]
    BY DEF CloseUp
  <2> HIDE DEF q, w
  <2> QED BY <2>1, ValueParts
<1>3. ASSUME NEW k \in 1..n PROVE led(k) \in ItemType /\ led(k).id = v.items[k].id
  <2>1. CASE \E r \in DOMAIN runs : runs[r][1] = k
    <3> DEFINE r0 == CHOOSE r \in DOMAIN runs : runs[r][1] = k
    <3>1. r0 \in DOMAIN runs
      BY <2>1
    <3> HIDE DEF r0
    <3>2. runs[r0] \in RunType(n)
      BY <3>1
    <3>3. runs[r0][2] \in 1..n
      BY <1>1, <3>2 DEF RunType
    <3>4. v.items[runs[r0][2]].following \in Gap
      BY <1>1, <3>3, ItemParts
    <3>5. led(k) = [v.items[k] EXCEPT !.following = v.items[runs[r0][2]].following]
      BY <2>1 DEF r0
    <3> DEFINE it == v.items[k]
               t  == v.items[runs[r0][2]].following
    <3>6. it \in ItemType /\ t \in Gap /\ led(k) = [it EXCEPT !.following = t]
      BY <1>1, <3>4, <3>5
    <3> HIDE DEF it, t, led
    <3>7. Rewrites(led(k), it)
      BY <3>6, FieldsRewritten
    <3> QED BY <3>7 DEF Rewrites, it
  <2>2. CASE ~\E r \in DOMAIN runs : runs[r][1] = k
    BY <1>1, <2>2
  <2> QED BY <2>1, <2>2
<1> HIDE DEF led
<1>4. Alike(a, Ids(v)) /\ Len(a) = n
  <2>1. a \in Seq(ItemType) /\ Len(a) = n /\ \A k \in 1..n : a[k] = led(k)
    BY <1>1, <1>3
  <2> HIDE DEF a
  <2> QED BY <1>1, <1>3, <2>1 DEF Alike
<1> HIDE DEF a
<1>5. Alike(q, DeleteRuns(Ids(v), runs))
  <2>1. Cover(runs, I, Len(a))
    BY <1>4
  <2> QED BY <1>4, <2>1, DeletedAlike
<1> HIDE DEF q, w
<1>6. /\ q \in Seq(ItemType) /\ DeleteRuns(Ids(v), runs) \in Seq(Item0)
      /\ Len(q) = Len(DeleteRuns(Ids(v), runs))
      /\ \A k \in 1..Len(q) : q[k].id = DeleteRuns(Ids(v), runs)[k]
  BY <1>5 DEF Alike
<1>7. w \in ValueType /\ w.items = q
  BY <1>1, <1>2, <1>6 DEF ValueType
<1>8. Ids(w) = DeleteRuns(Ids(v), runs)
  BY <1>6, <1>7, IdsTyped, SameLists
<1> QED BY <1>7, <1>8 DEF Matches, w

LEMMA TerminalTyped ==
  ASSUME NEW it \in ItemType, NEW comma \in BOOLEAN
  PROVE  Rewrites(NewTerminal(it, comma), it)
<1> DEFINE bare == WithoutEol(it)
           pre  == IF ~comma /\ HasNl(bare.before) THEN <<>> ELSE bare.before
           x1   == [bare EXCEPT !.after = <<>>]
           x2   == [x1 EXCEPT !.comma = comma]
           x3   == [x2 EXCEPT !.before = pre]
<1>1. Rewrites(bare, it) /\ bare \in ItemType /\ TakenEol(it) \in Gap
  BY EolRewritten, ItemParts, SmallGaps DEF Rewrites
<1>2. pre \in Gap
  BY <1>1, ItemParts, SmallGaps
<1>3. NewTerminal(it, comma) = PutEol([bare EXCEPT !.after = <<>>, !.comma = comma, !.before = pre], TakenEol(it))
  BY DEF NewTerminal
<1> HIDE DEF bare, pre
<1>4. [bare EXCEPT !.after = <<>>, !.comma = comma, !.before = pre] = x3
  BY <1>1 DEF ItemType
<1>5. Rewrites(x1, bare) /\ x1 \in ItemType
  BY <1>1, SmallGaps, FieldsRewritten DEF Rewrites
<1> HIDE DEF x1
<1>6. Rewrites(x2, x1) /\ x2 \in ItemType
  BY <1>5, SmallGaps, FieldsRewritten DEF Rewrites
<1> HIDE DEF x2
<1>7. Rewrites(x3, x2) /\ x3 \in ItemType
  BY <1>2, <1>6, FieldsRewritten DEF Rewrites
<1> HIDE DEF x3
<1>8. Rewrites(PutEol(x3, TakenEol(it)), x3)
  BY <1>1, <1>7, EolRewritten
<1>9. Rewrites(PutEol(x3, TakenEol(it)), it)
  BY <1>1, <1>5, <1>6, <1>7, <1>8 DEF Rewrites
<1> QED BY <1>3, <1>4, <1>9

LEMMA RetireTyped ==
  ASSUME NEW v \in ValueType, NEW runs \in Seq(RunType(Len(v.items))), runs # <<>>
  PROVE  Retire(v, runs) \in ValueType /\ SameIds(Retire(v, runs), v)
<1> DEFINE start == Last(runs)[1]
           n     == Len(v.items)
           bare  == Restore(v, start, RemoveAbove(Capture(v, start)))
           it    == NewTerminal(bare.items[start], Last(v.items).comma)
<1>1. Last(runs) \in RunType(n) /\ n \in Nat
  BY ValueParts, FrontAndLast
<1>2. start \in Nat /\ start < n
  BY <1>1 DEF RunType
<1>3. Retire(v, runs) = IF ~EndRun(runs, n) THEN v ELSE WithItem(bare, start, it)
  BY DEF Retire, WithItem
<1> HIDE DEF start
<1>4. bare \in ValueType /\ SameIds(bare, v)
  BY <1>2, AboveRemovedTyped
<1> HIDE DEF bare
<1>5. start \in 1..Len(bare.items) => it \in ItemType /\ it.id = bare.items[start].id
  <2> SUFFICES ASSUME start \in 1..Len(bare.items)
               PROVE  it \in ItemType /\ it.id = bare.items[start].id
    OBVIOUS
  <2>1. bare.items[start] \in ItemType
    BY <1>4, ValueParts
  <2>2. Last(v.items).comma \in BOOLEAN
    <3>1. v.items # <<>> /\ v.items \in Seq(ItemType)
      BY <1>2, ValueParts
    <3>2. Last(v.items) \in ItemType
      BY <3>1, FrontAndLast
    <3> QED BY <3>2, ItemParts
  <2> QED BY <2>1, <2>2, TerminalTyped DEF Rewrites
<1> HIDE DEF it
<1>6. WithItem(bare, start, it) \in ValueType /\ SameIds(WithItem(bare, start, it), bare)
  BY <1>4, <1>5, ItemRewritten
<1>7. SameIds(WithItem(bare, start, it), v) /\ SameIds(v, v)
  BY <1>4, <1>6, SameIdsTwice DEF SameIds
<1> QED BY <1>3, <1>6, <1>7

LEMMA InnerRunsTyped ==
  ASSUME NEW n \in Nat, NEW runs \in Seq(RunType(n))
  PROVE  InnerRuns(runs, n) \in Seq(RunType(n))
<1> DEFINE R == {r \in ToSet(runs) : r[1] > 0 /\ r[2] < n}
<1>1. Keeping(runs, R) \in Seq(RunType(n) \cap R)
  BY KeptIn
<1>2. Keeping(runs, R) \in Seq(RunType(n))
  <2> HIDE DEF R
  <2> QED BY <1>1
<1> QED BY <1>2 DEF InnerRuns

LEMMA SeamTyped ==
  ASSUME NEW n \in Nat, NEW I \in SUBSET (1..n), NEW run \in RunType(n)
  PROVE  SeamAfter(run, I) \in Int
<1> DEFINE T == {i \in I : i <= run[1]}
<1>1. IsFiniteSet(1..n) /\ T \subseteq 1..n
  <2>1. 1 \in Int /\ n \in Int
    OBVIOUS
  <2>2. IsFiniteSet(1..n)
    BY <2>1, FS_Interval
  <2> QED BY <2>2
<1>2. IsFiniteSet(T)
  BY <1>1, FS_Subset
<1>3. Cardinality(T) \in Nat
  BY <1>2, FS_CardinalityType
<1>4. run[1] \in Nat
  BY DEF RunType
<1>5. SeamAfter(run, I) = run[1] - Cardinality(T)
  BY DEF SeamAfter
<1> HIDE DEF T
<1> QED BY <1>3, <1>4, <1>5

LEMMA ShiftSeamsTyped ==
  ASSUME NEW v \in ValueType, NEW was \in ValueType, NEW I \in SUBSET (1..Len(was.items)),
         NEW runs \in Seq(RunType(Len(was.items)))
  PROVE  ShiftSeams(v, was, runs, I) \in ValueType /\ SameIds(ShiftSeams(v, was, runs, I), v)
<1> DEFINE n     == Len(was.items)
           inner == InnerRuns(runs, n)
           N     == Len(inner)
           start == IF EndRun(runs, n) THEN ShiftCarriedAt(v, Len(v.items), Capture(was, n)) ELSE v
           next(x, j) == ShiftCarriedAt(x, SeamAfter(inner[j], I), Capture(was, inner[j][2]))
           Is(f) == f = [j \in 0..N |-> IF j = 0 THEN start ELSE next(f[j - 1], j)]
           V == {w \in ValueType : SameIds(w, v)}
           step == [p \in (1..N) \X V |-> next(p[2], p[1])]
           h == CHOOSE f : Is(f)
<1>1. ShiftSeams(v, was, runs, I) = h[N]
  BY DEF ShiftSeams
<1>2. n \in Nat /\ inner \in Seq(RunType(n)) /\ N \in Nat
  BY ValueParts, InnerRunsTyped
<1>3. start \in V
  <2>1. Len(v.items) \in Int /\ SameIds(v, v)
    BY ValueParts DEF SameIds
  <2> QED BY <2>1, ShiftCarriedAtTyped
<1>4. ASSUME NEW x \in V, NEW j \in 1..N PROVE next(x, j) \in V
  <2>1. x \in ValueType /\ SameIds(x, v) /\ inner[j] \in RunType(n)
    BY <1>2
  <2>2. SeamAfter(inner[j], I) \in Int
    BY <1>2, <2>1, SeamTyped
  <2>3. next(x, j) \in ValueType /\ SameIds(next(x, j), x)
    BY <2>1, <2>2, ShiftCarriedAtTyped
  <2> HIDE DEF next
  <2> QED BY <2>1, <2>3, SameIdsTwice
<1> HIDE DEF start, next, N, V
<1>5. Steps(step, V, N) /\ \A j \in 1..N, x \in V : step[<<j, x>>] = next(x, j)
  <2>1. ASSUME NEW p \in (1..N) \X V PROVE next(p[2], p[1]) \in V
    BY <1>4
  <2> QED BY <2>1 DEF Steps
<1> HIDE DEF step
<1>6. PICK f : Walks(f, V, start, N, step)
  BY <1>2, <1>3, <1>5, StepsExist
<1>7. Is(f)
  <2>1. f \in [0..N -> V] /\ f[0] = start /\ \A j \in 1..N : f[j] = step[<<j, f[j - 1]>>]
    BY <1>6 DEF Walks
  <2>2. (\A j \in 1..N : j - 1 \in 0..N /\ j # 0) /\ \A j \in 0..N : j = 0 \/ j \in 1..N
    BY <1>2
  <2>3. \A j \in 0..N : f[j] = IF j = 0 THEN start ELSE next(f[j - 1], j)
    BY <1>5, <2>1, <2>2
  <2> QED BY <2>1, <2>3
<1>8. Is(h)
  <2> HIDE DEF Is
  <2> QED BY <1>7
<1>9. h[0] = start /\ \A j \in 1..N : h[j] = next(h[j - 1], j)
  <2> HIDE DEF h
  <2>1. \A j \in 0..N : h[j] = IF j = 0 THEN start ELSE next(h[j - 1], j)
    BY <1>8
  <2>2. 0 \in 0..N /\ \A j \in 1..N : j \in 0..N /\ j # 0
    BY <1>2
  <2> HIDE DEF Is
  <2> QED BY <2>1, <2>2
<1> HIDE DEF h, Is
<1> DEFINE P == {m \in Nat : m <= N => h[m] \in V}
<1>10. 0 \in P
  BY <1>3, <1>9
<1>11. ASSUME NEW m \in Nat, m \in P PROVE m + 1 \in P
  <2> SUFFICES ASSUME m + 1 <= N PROVE h[m + 1] \in V
    OBVIOUS
  <2>1. m + 1 \in 1..N /\ (m + 1) - 1 = m /\ h[m] \in V
    BY <1>2, <1>11
  <2> QED BY <1>4, <1>9, <2>1
<1> HIDE DEF P
<1>12. h[N] \in V
  <2>1. N \in P
    BY <1>2, <1>10, <1>11, InductionOnSet
  <2> QED BY <1>2, <2>1 DEF P
<1> QED BY <1>1, <1>12 DEF V

LEMMA ReplaceBlocksTyped ==
  ASSUME NEW v \in ValueType, NEW was \in ValueType, NEW I \in SUBSET (1..Len(was.items)),
         NEW runs \in Seq(RunType(Len(was.items))), runs # <<>>
  PROVE  ReplaceBlocks(v, was, runs, I) \in ValueType /\ SameIds(ReplaceBlocks(v, was, runs, I), v)
<1> DEFINE n     == Len(was.items)
           first == IF runs[1][1] = 0 /\ runs[1][2] < n THEN {runs[1][2]} ELSE {}
           inner == InnerRuns(runs, n)
           N     == Len(inner)
           kept  == first \cup {inner[r][2] : r \in DOMAIN inner}
                      \cup (IF EndRun(runs, n) THEN {Last(runs)[1], n} ELSE {})
           indent == IF \E b \in kept : Above(Capture(was, b)) # <<>> THEN ValueIndent(v) ELSE <<>>
           start == IF first = {} THEN v
                    ELSE CarryAboveAt(v, 0, Capture(was, runs[1][2]), indent, FALSE)
           next(x, j) == CarryAboveAt(x, SeamAfter(inner[j], I), Capture(was, inner[j][2]),
                                      indent, FALSE)
           Is(f) == f = [j \in 0..N |-> IF j = 0 THEN start ELSE next(f[j - 1], j)]
           V == {w \in ValueType : SameIds(w, v)}
           step == [p \in (1..N) \X V |-> next(p[2], p[1])]
           h == CHOOSE f : Is(f)
           all == h[N]
           w == CarryAboveAt(all, Len(all.items), Capture(was, n), <<>>, FALSE)
<1>1. ReplaceBlocks(v, was, runs, I) = IF EndRun(runs, n) THEN w ELSE all
  BY DEF ReplaceBlocks
<1>2. n \in Nat /\ inner \in Seq(RunType(n)) /\ N \in Nat
  BY ValueParts, InnerRunsTyped
<1>2a. \A run \in RunType(n) : run[2] \in 0..n
  BY <1>2 DEF RunType
<1>2b. indent \in Gap
  <2> HIDE DEF kept
  <2> QED BY IndentGap, SmallGaps
<1> HIDE DEF indent
<1>3. start \in V
  <2>1. runs[1] \in RunType(n)
    <3>1. Len(runs) \in Nat /\ Len(runs) # 0 /\ \A j \in 1..Len(runs) : runs[j] \in RunType(n)
      OBVIOUS
    <3> QED BY <3>1
  <2>2. Capture(was, runs[1][2]) \in BoundType
    BY <1>2a, <2>1, CaptureTyped
  <2>3. SameIds(v, v) /\ 0 \in Int
    BY DEF SameIds
  <2>4. PICK z \in Int : z = 0
    OBVIOUS
  <2> HIDE DEF first
  <2>5. CarryAboveAt(v, z, Capture(was, runs[1][2]), indent, FALSE) \in ValueType
        /\ SameIds(CarryAboveAt(v, z, Capture(was, runs[1][2]), indent, FALSE), v)
    BY <1>2b, <2>2, CarryAboveAtTyped
  <2> QED BY <2>3, <2>4, <2>5
<1>4. ASSUME NEW x \in V, NEW j \in 1..N PROVE next(x, j) \in V
  <2>1. x \in ValueType /\ SameIds(x, v) /\ inner[j] \in RunType(n)
    BY <1>2
  <2>2. SeamAfter(inner[j], I) \in Int
    BY <1>2, <2>1, SeamTyped
  <2>3. Capture(was, inner[j][2]) \in BoundType
    BY <1>2a, <2>1, CaptureTyped
  <2>4. next(x, j) \in ValueType /\ SameIds(next(x, j), x)
    BY <1>2b, <2>1, <2>2, <2>3, CarryAboveAtTyped
  <2> HIDE DEF next
  <2> QED BY <2>1, <2>4, SameIdsTwice
<1>4a. Capture(was, n) \in BoundType
  <2>1. n \in 0..n
    BY <1>2
  <2> QED BY <2>1, CaptureTyped
<1> HIDE DEF start, next, N, V
<1>5. Steps(step, V, N) /\ \A j \in 1..N, x \in V : step[<<j, x>>] = next(x, j)
  <2>1. ASSUME NEW p \in (1..N) \X V PROVE next(p[2], p[1]) \in V
    BY <1>4
  <2> QED BY <2>1 DEF Steps
<1> HIDE DEF step
<1>6. PICK f : Walks(f, V, start, N, step)
  BY <1>2, <1>3, <1>5, StepsExist
<1>7. Is(f)
  <2>1. f \in [0..N -> V] /\ f[0] = start /\ \A j \in 1..N : f[j] = step[<<j, f[j - 1]>>]
    BY <1>6 DEF Walks
  <2>2. (\A j \in 1..N : j - 1 \in 0..N /\ j # 0) /\ \A j \in 0..N : j = 0 \/ j \in 1..N
    BY <1>2
  <2>3. \A j \in 0..N : f[j] = IF j = 0 THEN start ELSE next(f[j - 1], j)
    BY <1>5, <2>1, <2>2
  <2> QED BY <2>1, <2>3
<1>8. Is(h)
  <2> HIDE DEF Is
  <2> QED BY <1>7
<1>9. h[0] = start /\ \A j \in 1..N : h[j] = next(h[j - 1], j)
  <2> HIDE DEF h
  <2>1. \A j \in 0..N : h[j] = IF j = 0 THEN start ELSE next(h[j - 1], j)
    BY <1>8
  <2>2. 0 \in 0..N /\ \A j \in 1..N : j \in 0..N /\ j # 0
    BY <1>2
  <2> HIDE DEF Is
  <2> QED BY <2>1, <2>2
<1> HIDE DEF h, Is
<1> DEFINE P == {m \in Nat : m <= N => h[m] \in V}
<1>10. 0 \in P
  BY <1>3, <1>9
<1>11. ASSUME NEW m \in Nat, m \in P PROVE m + 1 \in P
  <2> SUFFICES ASSUME m + 1 <= N PROVE h[m + 1] \in V
    OBVIOUS
  <2>1. m + 1 \in 1..N /\ (m + 1) - 1 = m /\ h[m] \in V
    BY <1>2, <1>11
  <2> QED BY <1>4, <1>9, <2>1
<1> HIDE DEF P
<1>12. all \in V
  <2>1. N \in P
    BY <1>2, <1>10, <1>11, InductionOnSet
  <2> QED BY <1>2, <2>1 DEF P
<1>13. all \in ValueType /\ SameIds(all, v)
  BY <1>12 DEF V
<1> HIDE DEF all
<1>14. w \in ValueType /\ SameIds(w, all)
  <2>1. Len(all.items) \in Int
    BY <1>13, ValueParts
  <2> QED BY <1>4a, <1>13, <2>1, SmallGaps, CarryAboveAtTyped
<1> HIDE DEF w
<1>15. SameIds(w, v)
  BY <1>13, <1>14, SameIdsTwice
<1> QED BY <1>1, <1>13, <1>14, <1>15

(* One stretch of a list removed. *)
LEMMA StretchDeleted ==
  ASSUME NEW S, NEW items \in Seq(S), NEW lo \in Nat, NEW hi \in Nat, lo < hi, hi <= Len(items),
         NEW runs, NEW I, \A x \in Nat : x \in I <=> lo <= x /\ x < hi,
         Cover(runs, I, Len(items)), runs # <<>>
  PROVE  DeleteRuns(items, runs) = Upto(items, lo) \o From(items, hi)
<1> DEFINE n == Len(runs)
           N == Len(items)
           s(j) == runs[j][1]
           t(j) == runs[j][2]
<1>1. /\ n \in Nat \ {0} /\ Last(runs) = runs[n] /\ N \in Nat
      /\ \A j \in 1..n : s(j) \in Nat /\ t(j) \in Nat /\ s(j) < t(j) /\ t(j) <= N
      /\ \A i, j \in 1..n : i < j => t(i) <= s(j)
      /\ \A x \in Nat : x \in I <=> \E j \in 1..n : s(j) <= x /\ x < t(j)
  <2>1. /\ runs \in Seq(Nat \X Nat)
        /\ \A j \in 1..Len(runs) : runs[j][1] < runs[j][2] /\ runs[j][2] <= N
        /\ \A i, j \in 1..Len(runs) : i < j => runs[i][2] <= runs[j][1]
        /\ \A x \in Nat : x \in I <=> \E j \in 1..Len(runs) : runs[j][1] <= x /\ x < runs[j][2]
    BY DEF Cover
  <2>2. n \in Nat \ {0} /\ Last(runs) = runs[n] /\ N \in Nat
    BY <2>1 DEF Last
  <2>3. \A j \in 1..n : s(j) \in Nat /\ t(j) \in Nat
    BY <2>1
  <2> QED BY <2>1, <2>2, <2>3
<1>2. PICK f : /\ JoinedBy(items, runs, f, n)
               /\ DeleteRuns(items, runs) = Slice(items, 0, s(1)) \o f[n] \o Slice(items, t(n), N)
  BY <1>1, JoinedMeaning
<1>3. f[1] = <<>> /\ \A i \in 2..n : f[i] = f[i - 1] \o Slice(items, t(i - 1), s(i))
  BY <1>2 DEF JoinedBy
<1> HIDE DEF s, t, n, N
<1>4. ASSUME NEW j \in 1..n PROVE lo <= s(j) /\ s(j) < hi /\ t(j) <= hi
  <2>1. s(j) \in Nat /\ t(j) \in Nat /\ s(j) < t(j) /\ t(j) - 1 \in Nat
    BY <1>1
  <2>2. s(j) \in I
    BY <1>1, <2>1
  <2>3. t(j) - 1 \in I
    <3>1. s(j) <= t(j) - 1 /\ t(j) - 1 < t(j)
      BY <2>1
    <3> HIDE DEF s, t
    <3> QED BY <1>1, <2>1, <3>1
  <2>4. lo <= s(j) /\ s(j) < hi
    BY <2>1, <2>2
  <2>5. t(j) - 1 < hi
    BY <2>1, <2>3
  <2> QED BY <2>1, <2>4, <2>5
<1>5. ASSUME NEW i \in 2..n PROVE t(i - 1) = s(i)
  <2>1. i \in 1..n /\ i - 1 \in 1..n /\ i - 1 < i
    BY <1>1
  <2> DEFINE x == t(i - 1)
  <2>2. x <= s(i) /\ x \in Nat /\ s(i) \in Nat /\ s(i - 1) \in Nat /\ s(i - 1) < x
    BY <1>1, <2>1
  <2> SUFFICES ASSUME x < s(i) PROVE FALSE
    BY <2>2
  <2>3. x \in I
    <3>1. lo <= s(i - 1) /\ s(i) < hi
      BY <1>4, <2>1
    <3> QED BY <2>2, <3>1
  <2>4. PICK j \in 1..n : s(j) <= x /\ x < t(j)
    BY <1>1, <2>2, <2>3
  <2>5. s(j) \in Nat /\ t(j) \in Nat
    BY <1>1
  <2>6. CASE j < i - 1
    <3>1. t(j) <= s(i - 1)
      BY <1>1, <2>1, <2>6
    <3> QED BY <2>2, <2>4, <2>5, <3>1
  <2>7. CASE j = i - 1
    BY <2>4, <2>7, <2>2
  <2>8. CASE i - 1 < j
    <3>1. j = i \/ i < j
      BY <1>1, <2>1, <2>8
    <3>2. CASE j = i
      BY <2>2, <2>4, <3>2
    <3>3. CASE i < j
      <4>1. t(i) <= s(j) /\ s(i) < t(i) /\ t(i) \in Nat
        BY <1>1, <2>1, <3>3
      <4> QED BY <2>2, <2>4, <2>5, <4>1
    <3> QED BY <3>1, <3>2, <3>3
  <2> QED BY <1>1, <2>1, <2>6, <2>7, <2>8
<1>6. 1 \in 1..n /\ n \in 1..n
  BY <1>1
<1>7. s(1) = lo
  <2>1. PICK j \in 1..n : s(j) <= lo /\ lo < t(j)
    <3>1. lo \in I
      OBVIOUS
    <3> QED BY <1>1, <3>1
  <2>2. s(1) \in Nat /\ t(1) \in Nat /\ s(1) < t(1) /\ lo <= s(1)
    BY <1>1, <1>4, <1>6
  <2>3. CASE j = 1
    BY <2>1, <2>2, <2>3
  <2>4. CASE j # 1
    <3>1. 1 < j
      BY <1>1, <2>4
    <3>2. t(1) <= s(j) /\ s(j) \in Nat
      BY <1>1, <1>6, <3>1
    <3> QED BY <2>1, <2>2, <3>2
  <2> QED BY <2>3, <2>4
<1>8. t(n) = hi
  <2>1. PICK j \in 1..n : s(j) <= hi - 1 /\ hi - 1 < t(j)
    <3>1. hi - 1 \in I /\ hi - 1 \in Nat
      OBVIOUS
    <3> QED BY <1>1, <3>1
  <2>2. t(j) \in Nat /\ s(n) \in Nat /\ s(n) < hi /\ t(j) <= hi
    BY <1>1, <1>4, <1>6
  <2>3. CASE j = n
    BY <2>1, <2>2, <2>3
  <2>4. CASE j # n
    <3>1. j < n
      BY <1>1, <2>4
    <3>2. t(j) <= s(n)
      BY <1>1, <1>6, <3>1
    <3> QED BY <2>1, <2>2, <3>2
  <2> QED BY <2>3, <2>4
<1> DEFINE P == {m \in Nat : m + 1 <= n => f[m + 1] = <<>>}
<1>9. 0 \in P
  <2>1. 0 + 1 = 1
    OBVIOUS
  <2> QED BY <1>3, <2>1
<1>10. ASSUME NEW m \in Nat, m \in P PROVE m + 1 \in P
  <2> SUFFICES ASSUME (m + 1) + 1 <= n PROVE f[(m + 1) + 1] = <<>>
    OBVIOUS
  <2> DEFINE i == (m + 1) + 1
  <2>1. i \in 2..n /\ i \in 1..n /\ m + 1 \in 1..n /\ i - 1 = m + 1 /\ f[m + 1] = <<>>
    BY <1>1, <1>10
  <2> HIDE DEF i
  <2>2. f[i] = <<>> \o Slice(items, s(i), s(i))
    BY <1>3, <1>5, <2>1
  <2>3. Slice(items, s(i), s(i)) = <<>>
    <3>1. s(i) \in Nat
      BY <1>1, <2>1
    <3>2. SubSeq(items, s(i) + 1, s(i)) = <<>>
      BY <3>1
    <3> QED BY <3>2 DEF Slice
  <2>4. f[i] = <<>>
    BY <2>2, <2>3
  <2> QED BY <2>4 DEF i
<1> HIDE DEF P
<1>11. f[n] = <<>>
  <2>1. n - 1 \in Nat /\ (n - 1) + 1 = n
    BY <1>1
  <2>2. n - 1 \in P
    BY <1>9, <1>10, <2>1, InductionOnSet
  <2> QED BY <1>1, <2>1, <2>2 DEF P
<1>12. Slice(items, 0, s(1)) = Upto(items, lo) /\ Slice(items, t(n), N) = From(items, hi)
  <2>1. SubSeq(items, 0 + 1, lo) = SubSeq(items, 1, lo)
    <3>1. 0 + 1 = 1
      OBVIOUS
    <3> QED BY <3>1
  <2> QED BY <1>7, <1>8, <2>1 DEF Slice, Upto, From, N
<1>13. Upto(items, lo) \o <<>> = Upto(items, lo)
  <2>1. lo \in 0..Len(items)
    OBVIOUS
  <2>2. Upto(items, lo) \in Seq(S)
    BY <2>1, Cut
  <2> QED BY <2>2
<1> QED BY <1>2, <1>11, <1>12, <1>13

LEMMA EmptiedTyped ==
  ASSUME NEW v \in ValueType, v.items # <<>>
  PROVE  Matches(Emptied(v), <<>>)
<1> DEFINE none == <<>>
<1>1. v.items \in Seq(ItemType) /\ v.opening \in Gap
  BY ValueParts
<1>2. Last(v.items) \in ItemType
  BY <1>1, FrontAndLast
<1>3. EmptiedPad(v.opening, Last(v.items).following) \in Gap
  BY <1>1, <1>2, ItemParts, PadsAreGaps
<1>4. Emptied(v) = [opening |-> EmptiedPad(v.opening, Last(v.items).following), items |-> none]
  BY DEF Emptied
<1>5. none \in Seq(ItemType) /\ Len(none) = 0
  OBVIOUS
<1> HIDE DEF none
<1>6. Emptied(v) \in ValueType /\ Len(Emptied(v).items) = 0
  BY <1>3, <1>4, <1>5 DEF ValueType
<1>7. Ids(Emptied(v)) \in Seq(Item0) /\ Len(Ids(Emptied(v))) = 0
  BY <1>6, IdsTyped
<1> QED BY <1>6, <1>7 DEF Matches

(* What is left after a removal spells the list with the same runs         *)
(* deleted.                                                                *)
LEMMA SpliceOutTyped ==
  ASSUME NEW v \in ValueType, NEW I \in SUBSET (1..Len(v.items)), I # {}, NEW multi \in BOOLEAN
  PROVE  Matches(SpliceOut(v, I, multi), DeleteRuns(Ids(v), RunsOf(I, Len(v.items))))
<1> DEFINE n    == Len(v.items)
           runs == RunsOf(I, n)
           rest == CloseUp(Retire(v, runs), runs)
           mid  == IF multi THEN ShiftSeams(rest, v, runs, I) ELSE rest
           w    == ReplaceBlocks(mid, v, runs, I)
           list0 == DeleteRuns(Ids(v), runs)
<1>1. n \in Nat /\ Ids(v) \in Seq(Item0) /\ Len(Ids(v)) = n
  BY ValueParts, IdsTyped
<1>2. Cover(runs, {i - 1 : i \in I}, n) /\ runs \in Seq(RunType(n)) /\ runs # <<>>
  BY <1>1, RunsTyped
<1>3. SpliceOut(v, I, multi) = IF Cardinality(I) = n THEN Emptied(v) ELSE w
  BY DEF SpliceOut
<1> HIDE DEF runs
<1>4. CASE Cardinality(I) = n
  <2>1. I = 1..n /\ n > 0
    <3>1. 1 \in Int /\ n \in Int
      BY <1>1
    <3>2. IsFiniteSet(1..n) /\ Cardinality(1..n) = n
      <4>1. IsFiniteSet(1..n) /\ Cardinality(1..n) = IF 1 > n THEN 0 ELSE n - 1 + 1
        BY <3>1, FS_Interval
      <4> QED BY <1>1, <4>1
    <3>3. I = 1..n
      BY <1>4, <3>2, FS_Subset
    <3> QED BY <1>1, <3>3
  <2>2. Emptied(v) \in ValueType /\ Ids(Emptied(v)) = <<>>
    <3>1. v.items # <<>>
      BY <2>1, ValueParts
    <3> QED BY <3>1, EmptiedTyped DEF Matches
  <2>3. list0 = <<>>
    <3>1. \A x \in Nat : x \in {i - 1 : i \in I} <=> 0 <= x /\ x < n
      <4>1. ASSUME NEW x \in Nat, x < n PROVE x \in {i - 1 : i \in I}
        <5>1. x + 1 \in I /\ (x + 1) - 1 = x
          BY <1>1, <2>1, <4>1
        <5> QED BY <5>1
      <4> QED BY <1>1, <2>1, <4>1
    <3>2. PICK lo \in Nat : lo = 0
      OBVIOUS
    <3>3. \A x \in Nat : x \in {i - 1 : i \in I} <=> lo <= x /\ x < n
      BY <3>1, <3>2
    <3> HIDE DEF n, list0
    <3>4. lo < n /\ n \in Nat /\ n <= Len(Ids(v)) /\ Cover(runs, {i - 1 : i \in I}, Len(Ids(v)))
      BY <1>1, <1>2, <2>1, <3>2
    <3>5. DeleteRuns(Ids(v), runs) = Upto(Ids(v), lo) \o From(Ids(v), n)
      BY <1>1, <1>2, <3>3, <3>4, StretchDeleted
    <3>6. Upto(Ids(v), lo) = <<>> /\ From(Ids(v), n) = <<>>
      <4>1. /\ Upto(Ids(v), lo) \in Seq(Item0) /\ Len(Upto(Ids(v), lo)) = lo
        BY <1>1, <3>2, <3>4, Cut
      <4>2. /\ From(Ids(v), n) \in Seq(Item0) /\ Len(From(Ids(v), n)) = Len(Ids(v)) - n
        <5>1. n \in 0..Len(Ids(v))
          BY <1>1
        <5> QED BY <1>1, <5>1, Cut
      <4> QED BY <1>1, <3>2, <4>1, <4>2
    <3>7. <<>> \o <<>> = <<>>
      OBVIOUS
    <3> QED BY <3>5, <3>6, <3>7 DEF list0
  <2> QED BY <1>3, <1>4, <2>2, <2>3 DEF Matches, runs
<1>5. CASE Cardinality(I) # n
  <2> DEFINE bare == Retire(v, runs)
  <2>1. bare \in ValueType /\ SameIds(bare, v)
    BY <1>2, RetireTyped
  <2> HIDE DEF bare
  <2>2. Len(bare.items) = n /\ Ids(bare) = Ids(v)
    BY <2>1, SameIdsMeaning DEF SameIds
  <2>3. Matches(rest, list0)
    <3>1. /\ runs \in Seq(RunType(Len(bare.items)))
          /\ Cover(runs, {i - 1 : i \in I}, Len(bare.items))
      BY <1>2, <2>2
    <3>2. Matches(CloseUp(bare, runs), DeleteRuns(Ids(bare), runs))
      BY <1>2, <2>1, <3>1, CloseUpTyped
    <3> QED BY <2>2, <3>2 DEF bare
  <2> HIDE DEF rest, list0
  <2>4. rest \in ValueType /\ Ids(rest) = list0
    BY <2>3 DEF Matches
  <2>5. mid \in ValueType /\ SameIds(mid, rest)
    <3>1. SameIds(rest, rest)
      BY DEF SameIds
    <3>2. ShiftSeams(rest, v, runs, I) \in ValueType /\ SameIds(ShiftSeams(rest, v, runs, I), rest)
      BY <1>2, <2>4, ShiftSeamsTyped
    <3> QED BY <2>4, <3>1, <3>2
  <2> HIDE DEF mid
  <2>6. w \in ValueType /\ SameIds(w, mid)
    BY <1>2, <2>5, ReplaceBlocksTyped
  <2> HIDE DEF w
  <2>7. Ids(w) = list0
    BY <2>4, <2>5, <2>6, SameIdsTwice, SameIdsMeaning
  <2> QED BY <1>3, <1>5, <2>6, <2>7 DEF Matches, list0, runs
<1> QED BY <1>4, <1>5

-----------------------------------------------------------------------------
(* Items reordered.                                                        *)

(* reorder_owned: the items change places as the permutation says,         *)
(* whatever the shells of the boundaries take along.                       *)
LEMMA ShellTyped ==
  ASSUME NEW v \in ValueType, NEW b \in 0..Len(v.items), NEW multi,
         NEW order \in [1..Len(v.items) -> 1..Len(v.items)]
  PROVE  Shell(v, b, 1..Len(v.items), order, multi) \in BoundType
<1> DEFINE n     == Len(v.items)
           bound == Capture(v, b)
           clear == IF b + 1 \in 1..n /\ HasComment(Above(bound)) THEN RemoveAbove(bound) ELSE bound
           bare  == IF b \in 1..n THEN PutEolFrom(RemoveEol(clear), Capture(v, order[b]), bound)
                    ELSE clear
           whole == IF multi /\ b \in 1..n
                      THEN ShiftCarried(bare, bound, ValueIndent(v), b = n) ELSE bare
           above == CarryAbove(whole, Capture(v, order[b + 1] - 1), ValueIndent(v), TRUE)
<1>1. n \in Nat /\ \A k \in 1..n : order[k] \in 1..n /\ order[k] \in 0..n /\ order[k] - 1 \in 0..n
  <2>1. n \in Nat
    BY ValueParts
  <2> HIDE DEF n
  <2>2. \A k \in 1..n : order[k] \in 1..n
    BY DEF n
  <2> QED BY <2>1, <2>2
<1>2. bound \in BoundType /\ ValueIndent(v) \in Gap
  BY CaptureTyped, IndentGap
<1>3. Shell(v, b, 1..n, order, multi) = IF b + 1 \in 1..n THEN above ELSE whole
  BY DEF Shell
<1> HIDE DEF bound
<1>4. clear \in BoundType
  BY <1>2, RemoveAboveTyped
<1> HIDE DEF clear
<1>5. bare \in BoundType
  <2>1. b \in 1..n => PutEolFrom(RemoveEol(clear), Capture(v, order[b]), bound) \in BoundType
    <3> SUFFICES ASSUME b \in 1..n
                 PROVE  PutEolFrom(RemoveEol(clear), Capture(v, order[b]), bound) \in BoundType
      OBVIOUS
    <3>1. Capture(v, order[b]) \in BoundType /\ RemoveEol(clear) \in BoundType
      BY <1>1, <1>4, CaptureTyped, RemoveEolTyped
    <3> QED BY <3>1, PutEolFromTyped
  <2> QED BY <1>4, <2>1
<1> HIDE DEF bare
<1>6. whole \in BoundType
  BY <1>2, <1>5, ShiftCarriedTyped
<1> HIDE DEF whole
<1>7. b + 1 \in 1..n => above \in BoundType
  <2> SUFFICES ASSUME b + 1 \in 1..n PROVE above \in BoundType
    OBVIOUS
  <2>1. Capture(v, order[b + 1] - 1) \in BoundType
    BY <1>1, CaptureTyped
  <2> QED BY <1>2, <1>6, <2>1, CarryAboveTyped
<1> HIDE DEF above
<1> QED BY <1>3, <1>6, <1>7

LEMMA ReorderOwnedTyped ==
  ASSUME NEW v \in ValueType, NEW order \in [1..Len(v.items) -> 1..Len(v.items)], NEW multi
  PROVE  Matches(ReorderOwned(v, 1..Len(v.items), order, multi),
                 [k \in 1..Len(v.items) |-> Ids(v)[order[k]]])
<1> DEFINE n == Len(v.items)
           w == ReorderOwned(v, 1..n, order, multi)
           touched == (1..n) \cup {p - 1 : p \in 1..n}
           open == IF 0 \in touched THEN JoinLane(Shell(v, 0, 1..n, order, multi).following)
                   ELSE v.opening
           seam(k) == RestoreSeam([v.items[k] EXCEPT !.id = v.items[order[k]].id],
                                  Shell(v, k, 1..n, order, multi))
           q == [k \in 1..n |-> seam(k)]
           list0 == [k \in 1..n |-> Ids(v)[order[k]]]
<1>1. n \in Nat /\ v.opening \in Gap /\ \A k \in 1..n : v.items[k] \in ItemType /\ v.items[k].id \in Item0
  BY ValueParts
<1>2. Ids(v) \in Seq(Item0) /\ Len(Ids(v)) = n /\ \A k \in 1..n : Ids(v)[k] = v.items[k].id
  BY IdsTyped
<1>3. \A k \in 1..n : order[k] \in 1..n
  OBVIOUS
<1>4. open \in Gap
  <2>1. PICK z \in 0..n : z = 0
    BY <1>1
  <2>2. Shell(v, z, 1..n, order, multi) \in BoundType
    BY <2>1, ShellTyped
  <2>3. JoinLane(Shell(v, z, 1..n, order, multi).following) \in Gap
    BY <2>2, BoundParts
  <2> HIDE DEF touched
  <2> QED BY <1>1, <2>1, <2>3
<1>5. ASSUME NEW k \in 1..n PROVE seam(k) \in ItemType /\ seam(k).id = list0[k]
  <2> DEFINE bound == Shell(v, k, 1..n, order, multi)
             it    == [v.items[k] EXCEPT !.id = v.items[order[k]].id]
  <2>1. bound \in BoundType
    <3>1. k \in 0..n
      BY <1>1
    <3> QED BY <3>1, ShellTyped
  <2>2. it.id = v.items[order[k]].id
    BY <1>1 DEF ItemType
  <2>3. v.items[order[k]].id \in Item0 /\ list0[k] = v.items[order[k]].id
    BY <1>1, <1>2, <1>3
  <2>4. seam(k) = RestoreSeam(it, bound)
    OBVIOUS
  <2> HIDE DEF bound, it, seam
  <2>5. JoinLane(bound.before) \in Gap /\ JoinLane(bound.following) \in Gap
        /\ bound.after \in Gap /\ bound.comma \in BOOLEAN
    BY <2>1, BoundParts
  <2>6. seam(k) = [id |-> it.id, before |-> JoinLane(bound.before), comma |-> bound.comma,
                   after |-> bound.after, following |-> JoinLane(bound.following)]
    BY <2>4 DEF RestoreSeam, Item
  <2> HIDE DEF list0
  <2> QED BY <2>2, <2>3, <2>5, <2>6 DEF ItemType
<1>6. w = [opening |-> open, items |-> q]
  <2>1. w = [opening |-> open,
             items |-> [k \in 1..n |-> IF k \in touched
                          THEN RestoreSeam([v.items[k] EXCEPT !.id =
                                              v.items[IF k \in 1..n THEN order[k] ELSE k].id],
                                           Shell(v, k, 1..n, order, multi))
                          ELSE v.items[k]]]
    BY DEF ReorderOwned
  <2>2. \A k \in 1..n : k \in touched
    OBVIOUS
  <2> HIDE DEF w, open, touched
  <2> QED BY <2>1, <2>2
<1> HIDE DEF seam, open, w
<1>7. q \in Seq(ItemType) /\ Len(q) = n /\ \A k \in 1..n : q[k].id = list0[k]
  <2> HIDE DEF list0
  <2>1. \A k \in 1..n : seam(k) \in ItemType /\ seam(k).id = list0[k]
    BY <1>5
  <2>2. q = [k \in 1..n |-> seam(k)]
    OBVIOUS
  <2> HIDE DEF q, n
  <2> QED BY <1>1, <2>1, <2>2
<1>8. list0 \in Seq(Item0) /\ Len(list0) = n
  BY <1>1, <1>2, <1>3
<1> HIDE DEF q, list0
<1>9. w \in ValueType /\ w.items = q
  BY <1>4, <1>6, <1>7 DEF ValueType
<1>10. Ids(w) = list0
  <2> HIDE DEF n
  <2>1. Ids(w) \in Seq(Item0) /\ Len(Ids(w)) = n /\ \A k \in 1..n : Ids(w)[k] = q[k].id
    BY <1>7, <1>9, IdsTyped
  <2>2. \A k \in 1..n : Ids(w)[k] = list0[k]
    BY <1>7, <2>1
  <2> QED BY <1>1, <1>8, <2>1, <2>2, SameLists
<1> QED BY <1>9, <1>10 DEF Matches, w, list0

-----------------------------------------------------------------------------
(* Comments written.                                                       *)

(* The writes of comments keep the items and end every comment. *)
LEMMA SetEolTyped ==
  ASSUME NEW v \in ValueType, NEW k \in 1..Len(v.items), NEW comment \in Comment
  PROVE  Matches(SetEol(v, k, comment), Ids(v))
<1> DEFINE it   == v.items[k]
           rest == EolRest(EolChannel(it))
           had  == EolLen(EolChannel(it)) > 0
           open == ~had /\ ItemHead(rest) = <<>>
           led  == IF LeadingBreak(it.following) > 0 THEN ShiftBreaks(it.following, -1)
                   ELSE ReindentAsLeader(it.following, ValueIndent(v))
           next == IF open THEN led ELSE it.following
           moved == [it EXCEPT !.following = next]
           tail == IF had THEN rest ELSE From(rest, Len(ItemHead(rest)))
           line == <<WS, comment, NL>> \o tail
           new  == SetEolChannel(moved, line)
<1>1. it \in ItemType
  BY ValueParts
<1>2. SetEol(v, k, comment) = WithItem(v, k, new)
  BY DEF SetEol, WithItem
<1> HIDE DEF it
<1>3. rest \in Gap /\ it.following \in Gap
  BY <1>1, ItemParts
<1>4. led \in Gap
  <2>1. ShiftBreaks(it.following, -1) \in Gap
    <3>1. -1 \in Int
      OBVIOUS
    <3> QED BY <1>3, <3>1, ShiftBreaksGap
  <2>2. ReindentAsLeader(it.following, ValueIndent(v)) \in Gap
    BY <1>3, IndentGap, GapParts, GapJoin DEF ReindentAsLeader
  <2> QED BY <2>1, <2>2
<1> HIDE DEF led, rest, had
<1>5. tail \in Gap
  BY <1>3, GapParts
<1>6. next \in Gap
  BY <1>3, <1>4
<1> HIDE DEF tail, next
<1>7. line \in Gap
  BY <1>5, SmallGaps, GapJoin
<1>8. Rewrites(moved, it) /\ moved \in ItemType
  BY <1>1, <1>6, FieldsRewritten DEF Rewrites
<1> HIDE DEF moved, line
<1>9. Rewrites(new, moved)
  BY <1>7, <1>8, EolRewritten
<1>10. new \in ItemType /\ new.id = v.items[k].id
  BY <1>8, <1>9 DEF Rewrites, it
<1> HIDE DEF new
<1>11. WithItem(v, k, new) \in ValueType /\ SameIds(WithItem(v, k, new), v)
  BY <1>10, ItemRewritten
<1> QED BY <1>2, <1>11, SameIdsMeaning DEF Matches

LEMMA DelEolTyped ==
  ASSUME NEW v \in ValueType, NEW k \in 1..Len(v.items)
  PROVE  Matches(DelEol(v, k), Ids(v))
<1> DEFINE it   == v.items[k]
           rest == EolRest(EolChannel(it))
           bare == SetEolChannel(it, <<>>)
           pre  == <<NL>> \o rest
           post == <<NL>> \o rest \o bare.following
           new  == IF it.comma /\ EolOnBefore(it) THEN [it EXCEPT !.before = pre]
                   ELSE [bare EXCEPT !.following = post]
<1>1. it \in ItemType
  BY ValueParts
<1>2. DelEol(v, k) = WithItem(v, k, new)
  BY DEF DelEol, WithItem
<1> HIDE DEF it
<1>3. rest \in Gap
  BY <1>1, ItemParts
<1>4. Rewrites(bare, it) /\ bare \in ItemType
  BY <1>1, SmallGaps, EolRewritten DEF Rewrites
<1> HIDE DEF rest, bare
<1>5. pre \in Gap
  BY <1>3, SmallGaps, GapJoin
<1>6. post \in Gap
  <2>1. <<NL>> \o rest \in Gap /\ bare.following \in Gap
    BY <1>3, <1>4, SmallGaps, GapJoin, ItemParts
  <2> QED BY <2>1, GapJoin
<1> HIDE DEF pre, post
<1>7. Rewrites(new, it)
  <2>1. Rewrites([it EXCEPT !.before = pre], it)
    BY <1>1, <1>5, FieldsRewritten
  <2>2. Rewrites([bare EXCEPT !.following = post], bare)
    BY <1>4, <1>6, FieldsRewritten
  <2>3. Rewrites([bare EXCEPT !.following = post], it)
    BY <1>4, <2>2, RewritesTwice
  <2> QED BY <2>1, <2>3
<1>8. new \in ItemType /\ new.id = v.items[k].id
  BY <1>7 DEF Rewrites, it
<1> HIDE DEF new
<1>9. WithItem(v, k, new) \in ValueType /\ SameIds(WithItem(v, k, new), v)
  BY <1>8, ItemRewritten
<1> QED BY <1>2, <1>9, SameIdsMeaning DEF Matches

LEMMA AttachedFromCut ==
  ASSUME NEW t \in Gap
  PROVE  Upto(t, AttachedFrom(t)) \in Gap
<1> DEFINE T == {0} \cup {i \in DOMAIN t : t[i] = NL /\ (i = 1 \/ ~IsComment(t[i - 1]))}
<1>1. Len(t) \in Nat /\ DOMAIN t = 1..Len(t)
  BY EndedMeaning DEF Gap
<1>2. T \in SUBSET Nat /\ 0 \in T /\ \A q \in T : q <= Len(t)
  BY <1>1
<1>3. Max(T) \in T
  BY <1>1, <1>2, GreatestOf
<1>4. AttachedFrom(t) = Max(T)
  BY DEF AttachedFrom
<1>5. Clean(t, AttachedFrom(t))
  BY <1>1, <1>3, <1>4, TokensDiffer DEF Clean
<1> QED BY <1>5, EndedUpto DEF Gap

LEMMA WriteAttachedTyped ==
  ASSUME NEW v \in ValueType, NEW k \in 1..Len(v.items), NEW lines \in Gap, NEW indent \in Gap
  PROVE  Matches(WriteAttached(v, k, lines, indent), Ids(v))
<1> DEFINE bound == Capture(v, k - 1)
           part  == AttachedBlock(bound)
           block == Upto(part, AttachedFrom(part)) \o lines
           b     == k - 1
<1>1. b \in 0..Len(v.items) /\ b \in Int
  BY ValueParts
<1>2. bound \in BoundType
  BY <1>1, CaptureTyped
<1> HIDE DEF bound
<1>3. part \in Gap
  <2> DEFINE lane == IF AttachedLane(bound) = None THEN TargetLane(bound) ELSE AttachedLane(bound)
  <2>1. lane \in {"before", "following"}
    BY LanesNamed
  <2>2. part = bound[lane].above
    BY DEF AttachedBlock
  <2> HIDE DEF lane
  <2>3. bound[lane] \in LaneType
    BY <1>2, <2>1 DEF BoundType
  <2> QED BY <2>2, <2>3 DEF LaneType
<1> HIDE DEF part
<1>4. block \in Gap
  BY <1>3, AttachedFromCut, GapJoin
<1> HIDE DEF block
<1>5. SetAttached(bound, block, indent) \in BoundType
  BY <1>2, <1>4, SetAttachedTyped
<1>6. WriteAttached(v, k, lines, indent) = Restore(v, b, SetAttached(bound, block, indent))
  BY DEF WriteAttached, bound, part, block
<1> HIDE DEF b
<1> QED BY <1>1, <1>5, <1>6, RestoreTyped, SameIdsMeaning DEF Matches

LEMMA SetAttachedCommentsTyped ==
  ASSUME NEW v \in ValueType, NEW k \in 1..Len(v.items), NEW comments \in Seq(Comment \cup {None})
  PROVE  /\ Matches(SetAttachedComments(v, k, comments), Ids(v))
         /\ Matches(ClearAttachedComments(v, k), Ids(v))
<1>1. ValueIndent(v) \in Gap /\ RenderLines(comments, ValueIndent(v)) \in Gap /\ <<>> \in Gap
  BY IndentGap, RenderedGap, SmallGaps
<1> QED BY <1>1, WriteAttachedTyped DEF SetAttachedComments, ClearAttachedComments

LEMMA AboveBlockTyped ==
  ASSUME NEW v \in ValueType, NEW k \in 1..Len(v.items), NEW block \in Seq(Comment \cup {None})
  PROVE  /\ Matches(SetAboveBlock(v, k, block), Ids(v))
         /\ Matches(ClearAboveBlock(v, k), Ids(v))
<1> DEFINE b == k - 1
           bound == SetAbove(Capture(v, b), RenderLines(block, ValueIndent(v)), ValueIndent(v))
<1>1. b \in 0..Len(v.items) /\ b \in Int
  BY ValueParts
<1>2. ValueIndent(v) \in Gap /\ RenderLines(block, ValueIndent(v)) \in Gap
  BY IndentGap, RenderedGap
<1>3. bound \in BoundType
  BY <1>1, <1>2, CaptureTyped, SetAboveTyped
<1>4. SetAboveBlock(v, k, block) = Restore(v, b, bound)
      /\ ClearAboveBlock(v, k) = Restore(v, b, RemoveAbove(Capture(v, b)))
  BY DEF SetAboveBlock, ClearAboveBlock
<1> HIDE DEF bound, b
<1>5. Restore(v, b, bound) \in ValueType /\ SameIds(Restore(v, b, bound), v)
  BY <1>1, <1>3, RestoreTyped
<1>6. /\ Restore(v, b, RemoveAbove(Capture(v, b))) \in ValueType
      /\ SameIds(Restore(v, b, RemoveAbove(Capture(v, b))), v)
  BY <1>1, AboveRemovedTyped
<1> QED BY <1>4, <1>5, <1>6, SameIdsMeaning DEF Matches

-----------------------------------------------------------------------------
(* The whole value laid out anew.                                          *)

(* The shapes format writes are made of gaps and keep the items. *)
LEMMA ComposedGap ==
  ASSUME NEW eol \in Gap, NEW above \in Gap, NEW indent \in Gap, NEW closed \in BOOLEAN
  PROVE  ComposePad(eol, above, indent, closed) \in Gap
<1> DEFINE head == IF eol # <<>> \/ closed THEN eol ELSE <<NL>>
           text == head \o above \o indent
<1>1. head \in Gap
  BY SmallGaps
<1>2. ComposePad(eol, above, indent, closed)
        = IF eol = <<>> /\ above = <<>> THEN text ELSE CanonText(text, Indent, eol # <<>> \/ ~closed)
  BY DEF ComposePad
<1> HIDE DEF head
<1>3. text \in Gap
  <2>1. head \o above \in Gap
    BY <1>1, GapJoin
  <2> QED BY <2>1, GapJoin
<1> HIDE DEF text
<1>4. Indent \in Gap
  BY SmallGaps DEF Indent
<1> QED BY <1>2, <1>3, <1>4, CanonGap

LEMMA FormatAboveGap ==
  ASSUME NEW t \in Gap, NEW closed \in BOOLEAN
  PROVE  FormatAbove(t, closed) \in Gap /\ FormatAboveBlock(t) \in Gap
<1>1. ItemAbove(t) \in Gap /\ ItemHead(t) \o ItemAbove(t) \in Gap /\ <<>> \in Gap
  BY GapParts, GapJoin, SmallGaps
<1>2. CASE ~HasComment(ItemAbove(t))
  BY <1>1, <1>2 DEF FormatAbove, FormatAboveBlock
<1>3. CASE HasComment(ItemAbove(t)) /\ closed
  BY <1>1, <1>3 DEF FormatAbove, FormatAboveBlock
<1>4. CASE HasComment(ItemAbove(t)) /\ ~closed
  BY <1>1, <1>4 DEF FormatAbove, FormatAboveBlock
<1> QED BY <1>2, <1>3, <1>4

LEMMA EolRowsGap ==
  ASSUME NEW comments \in Seq(Comment)
  PROVE  EolRows(comments) \in Gap
<1> DEFINE parts == [k \in 1..Len(comments) |-> <<WS, comments[k], NL>>]
<1>1. Len(comments) \in Nat /\ \A k \in 1..Len(comments) : comments[k] \in Comment
  OBVIOUS
<1>2. \A k \in 1..Len(comments) : <<WS, comments[k], NL>> \in Gap
  BY <1>1, SmallGaps
<1>3. parts \in Seq(Gap)
  BY <1>1, <1>2
<1> HIDE DEF parts
<1> QED BY <1>3, FlattenGap DEF EolRows, parts

LEMMA CommentsTyped ==
  ASSUME NEW t \in Gap
  PROVE  CommentsIn(t) \in Seq(Comment)
<1>1. t \in Seq(Trivia)
  BY EndedMeaning DEF Gap
<1>2. Keeping(t, Comment) \in Seq(Trivia \cap Comment)
  BY <1>1, KeptIn
<1> QED BY <1>2 DEF CommentsIn

LEMMA AboveBlocksTyped ==
  ASSUME NEW v \in ValueType
  PROVE  /\ AboveBlocks(v) \in Seq(Gap) /\ Len(AboveBlocks(v)) = Len(v.items)
<1> DEFINE n == Len(v.items)
           block(k) == IF HasComment(OwnText(v)) THEN FormatAboveBlock(Above(Capture(v, k - 1)))
                       ELSE <<>>
<1>1. n \in Nat
  BY ValueParts
<1>2. ASSUME NEW k \in 1..n PROVE block(k) \in Gap
  <2>1. k - 1 \in 0..n
    BY <1>1
  <2>2. Above(Capture(v, k - 1)) \in Gap
    BY <2>1, CaptureTyped, BoundParts
  <2>3. PICK c \in BOOLEAN : c = TRUE
    OBVIOUS
  <2>4. FormatAboveBlock(Above(Capture(v, k - 1))) \in Gap
    BY <2>2, <2>3, FormatAboveGap
  <2> QED BY <2>4, SmallGaps
<1>3. AboveBlocks(v) = [k \in 1..n |-> block(k)]
  BY DEF AboveBlocks
<1> HIDE DEF block
<1>4. [k \in 1..n |-> block(k)] \in Seq(Gap) /\ Len([k \in 1..n |-> block(k)]) = n
  <2> HIDE DEF n
  <2> QED BY <1>1, <1>2
<1> QED BY <1>3, <1>4

LEMMA HarvestedTyped ==
  ASSUME NEW v \in ValueType
  PROVE  Harvested(v) \in ValueType /\ SameIds(Harvested(v), v)
<1> DEFINE N == Len(v.items)
           next(x, j) == ClearAboveBlock(x, j)
           Is(f) == f = [j \in 0..N |-> IF j = 0 THEN v ELSE next(f[j - 1], j)]
           V == {w \in ValueType : SameIds(w, v)}
           step == [p \in (1..N) \X V |-> next(p[2], p[1])]
           h == CHOOSE f : Is(f)
<1>1. Harvested(v) = IF ~HasComment(OwnText(v)) THEN v ELSE h[N]
  BY DEF Harvested
<1>2. N \in Nat
  BY ValueParts
<1>3. v \in V
  BY DEF SameIds
<1>4. ASSUME NEW x \in V, NEW j \in 1..N PROVE next(x, j) \in V
  <2>1. x \in ValueType /\ SameIds(x, v) /\ j - 1 \in Int
    BY <1>2
  <2>2. next(x, j) \in ValueType /\ SameIds(next(x, j), x)
    BY <2>1, AboveRemovedTyped DEF ClearAboveBlock
  <2> HIDE DEF next
  <2> QED BY <2>1, <2>2, SameIdsTwice
<1> HIDE DEF next, N, V
<1>5. Steps(step, V, N) /\ \A j \in 1..N, x \in V : step[<<j, x>>] = next(x, j)
  <2>1. ASSUME NEW p \in (1..N) \X V PROVE next(p[2], p[1]) \in V
    BY <1>4
  <2> QED BY <2>1 DEF Steps
<1> HIDE DEF step
<1>6. PICK f : Walks(f, V, v, N, step)
  BY <1>2, <1>3, <1>5, StepsExist
<1>7. Is(f)
  <2>1. f \in [0..N -> V] /\ f[0] = v /\ \A j \in 1..N : f[j] = step[<<j, f[j - 1]>>]
    BY <1>6 DEF Walks
  <2>2. (\A j \in 1..N : j - 1 \in 0..N /\ j # 0) /\ \A j \in 0..N : j = 0 \/ j \in 1..N
    BY <1>2
  <2>3. \A j \in 0..N : f[j] = IF j = 0 THEN v ELSE next(f[j - 1], j)
    BY <1>5, <2>1, <2>2
  <2> QED BY <2>1, <2>3
<1>8. Is(h)
  <2> HIDE DEF Is
  <2> QED BY <1>7
<1>9. h[0] = v /\ \A j \in 1..N : h[j] = next(h[j - 1], j)
  <2> HIDE DEF h
  <2>1. \A j \in 0..N : h[j] = IF j = 0 THEN v ELSE next(h[j - 1], j)
    BY <1>8
  <2>2. 0 \in 0..N /\ \A j \in 1..N : j \in 0..N /\ j # 0
    BY <1>2
  <2> HIDE DEF Is
  <2> QED BY <2>1, <2>2
<1> HIDE DEF h, Is
<1> DEFINE P == {m \in Nat : m <= N => h[m] \in V}
<1>10. 0 \in P
  BY <1>3, <1>9
<1>11. ASSUME NEW m \in Nat, m \in P PROVE m + 1 \in P
  <2> SUFFICES ASSUME m + 1 <= N PROVE h[m + 1] \in V
    OBVIOUS
  <2>1. m + 1 \in 1..N /\ (m + 1) - 1 = m /\ h[m] \in V
    BY <1>2, <1>11
  <2> QED BY <1>4, <1>9, <2>1
<1> HIDE DEF P
<1>12. h[N] \in V
  <2>1. N \in P
    BY <1>2, <1>10, <1>11, InductionOnSet
  <2> QED BY <1>2, <2>1 DEF P
<1> QED BY <1>1, <1>3, <1>12 DEF V

LEMMA CanonItemTyped ==
  ASSUME NEW it \in ItemType, NEW n \in Nat, NEW k \in 1..n, NEW blocks \in Seq(Gap),
         Len(blocks) = n
  PROVE  Rewrites(CanonItem(it, k, n, blocks), it)
<1> DEFINE comments == ItemComments(it)
           closed   == comments # <<>>
           above    == FormatAbove(it.following, closed)
           next     == IF k < n THEN ComposePad(<<>>, blocks[k + 1], Indent, closed)
                       ELSE ComposePad(<<>>, above, CloserPad, closed)
           rows     == EolRows(comments)
<1>1. comments \in Seq(Comment)
  <2>1. it.before \o it.after \in Gap
    BY ItemParts, GapJoin
  <2> QED BY <2>1, CommentsTyped DEF ItemComments
<1>2. CanonItem(it, k, n, blocks)
        = [id |-> it.id, before |-> <<>>, comma |-> TRUE, after |-> rows, following |-> next]
  BY DEF CanonItem, Item
<1> HIDE DEF comments
<1>3. rows \in Gap
  BY <1>1, EolRowsGap
<1> HIDE DEF rows
<1>4. closed \in BOOLEAN /\ <<>> \in Gap /\ Indent \in Gap /\ CloserPad \in Gap
  BY SmallGaps DEF Indent, CloserPad
<1> HIDE DEF closed
<1>5. next \in Gap
  <2>1. CASE k < n
    <3>1. blocks[k + 1] \in Gap
      BY <2>1
    <3>2. ComposePad(<<>>, blocks[k + 1], Indent, closed) \in Gap
      BY <1>4, <3>1, ComposedGap
    <3> QED BY <2>1, <3>2
  <2>2. CASE ~(k < n)
    <3>1. above \in Gap
      BY <1>4, ItemParts, FormatAboveGap
    <3> HIDE DEF above
    <3>2. ComposePad(<<>>, above, CloserPad, closed) \in Gap
      BY <1>4, <3>1, ComposedGap
    <3> QED BY <2>2, <3>2
  <2> QED BY <2>1, <2>2
<1> HIDE DEF next
<1>6. it.id \in Item0
  BY ItemParts
<1> QED BY <1>2, <1>3, <1>4, <1>5, <1>6 DEF Rewrites, ItemType

LEMMA ShapedTyped ==
  ASSUME NEW v \in ValueType, NEW blocks \in Seq(Gap), Len(blocks) = Len(v.items)
  PROVE  Matches(Shaped(v, blocks), Ids(v))
<1> DEFINE n == Len(v.items)
           w == Shaped(v, blocks)
           line == ComposePad(EolPart(v.opening), blocks[1], Indent, FALSE)
           pad  == ComposePad(EolPart(v.opening), PadAbove(v.opening), CloserPad, FALSE)
           open == IF v.items # <<>> THEN line ELSE pad
           item(k) == CanonItem(v.items[k], k, n, blocks)
           q == [k \in 1..n |-> item(k)]
<1>1. n \in Nat /\ v.opening \in Gap /\ \A k \in 1..n : v.items[k] \in ItemType
  BY ValueParts
<1>2. w = [opening |-> open, items |-> q]
  BY DEF Shaped
<1>3. open \in Gap
  <2>1. EolPart(v.opening) \in Gap /\ PadAbove(v.opening) \in Gap
        /\ Indent \in Gap /\ CloserPad \in Gap
    BY <1>1, GapParts, SmallGaps DEF Indent, CloserPad
  <2>2. PICK c \in BOOLEAN : c = FALSE
    OBVIOUS
  <2>3. v.items # <<>> => blocks[1] \in Gap
    <3> SUFFICES ASSUME v.items # <<>> PROVE blocks[1] \in Gap
      OBVIOUS
    <3>1. n # 0
      BY ValueParts
    <3> HIDE DEF n
    <3>2. Len(blocks) = n
      BY DEF n
    <3> QED BY <1>1, <3>1, <3>2
  <2>4. v.items # <<>> => line \in Gap
    BY <2>1, <2>2, <2>3, ComposedGap
  <2>5. pad \in Gap
    BY <2>1, <2>2, ComposedGap
  <2> HIDE DEF line, pad
  <2> QED BY <2>4, <2>5
<1>4. \A k \in 1..n : item(k) \in ItemType /\ item(k).id = v.items[k].id
  BY <1>1, CanonItemTyped DEF Rewrites
<1> HIDE DEF w, open, item
<1>5. q \in Seq(ItemType) /\ Len(q) = n /\ \A k \in 1..n : q[k].id = v.items[k].id
  <2>1. q = [k \in 1..n |-> item(k)]
    OBVIOUS
  <2> HIDE DEF q, n
  <2> QED BY <1>1, <1>4, <2>1
<1> HIDE DEF q
<1>6. w \in ValueType /\ w.items = q
  BY <1>2, <1>3, <1>5 DEF ValueType
<1>7. SameIds(w, v)
  BY <1>5, <1>6 DEF SameIds
<1> QED BY <1>6, <1>7, SameIdsMeaning DEF Matches, w

LEMMA MultilineShapeTyped ==
  ASSUME NEW v \in ValueType
  PROVE  Matches(MultilineShape(v), Ids(v))
<1> DEFINE bare   == Harvested(v)
           blocks == AboveBlocks(v)
<1>1. bare \in ValueType /\ SameIds(bare, v) /\ blocks \in Seq(Gap) /\ Len(blocks) = Len(v.items)
  BY HarvestedTyped, AboveBlocksTyped
<1>2. MultilineShape(v) = Shaped(bare, blocks)
  BY DEF MultilineShape
<1> HIDE DEF bare, blocks
<1>3. Len(bare.items) = Len(v.items) /\ Ids(bare) = Ids(v)
  BY <1>1, SameIdsMeaning DEF SameIds
<1>4. Matches(Shaped(bare, blocks), Ids(bare))
  BY <1>1, <1>3, ShapedTyped
<1> QED BY <1>2, <1>3, <1>4

LEMMA SingleLineShapeTyped ==
  ASSUME NEW v \in ValueType
  PROVE  Matches(SingleLineShape(v), Ids(v))
<1> DEFINE n == Len(v.items)
           w == SingleLineShape(v)
           inner == IF v.items # <<>> THEN SingleLinePad ELSE <<>>
           item(k) == Item(v.items[k].id, <<>>, k < n, <<>>, IF k < n THEN <<WS>> ELSE inner)
           q == [k \in 1..n |-> item(k)]
<1>1. n \in Nat /\ \A k \in 1..n : v.items[k].id \in Item0
  BY ValueParts
<1>2. w = [opening |-> inner, items |-> q]
  BY DEF SingleLineShape
<1>3. inner \in Gap
  BY PadTyped, SmallGaps
<1> HIDE DEF inner
<1>4. ASSUME NEW k \in 1..n PROVE item(k) \in ItemType /\ item(k).id = v.items[k].id
  <2> DEFINE next == IF k < n THEN <<WS>> ELSE inner
             comma == k < n
  <2>1. next \in Gap /\ <<>> \in Gap /\ comma \in BOOLEAN
    BY <1>3, SmallGaps
  <2>2. item(k) = [id |-> v.items[k].id, before |-> <<>>, comma |-> comma, after |-> <<>>,
                   following |-> next]
    BY DEF Item
  <2> HIDE DEF next, comma, item
  <2> QED BY <1>1, <2>1, <2>2 DEF ItemType
<1> HIDE DEF w, item
<1>5. q \in Seq(ItemType) /\ Len(q) = n /\ \A k \in 1..n : q[k].id = v.items[k].id
  <2>1. q = [k \in 1..n |-> item(k)]
    OBVIOUS
  <2> HIDE DEF q, n
  <2> QED BY <1>1, <1>4, <2>1
<1> HIDE DEF q
<1>6. w \in ValueType /\ w.items = q
  BY <1>2, <1>3, <1>5 DEF ValueType
<1>7. SameIds(w, v)
  BY <1>5, <1>6 DEF SameIds
<1> QED BY <1>6, <1>7, SameIdsMeaning DEF Matches, w

LEMMA FormattedTyped ==
  ASSUME NEW v \in ValueType, NEW multi
  PROVE  Matches(Formatted(v, multi), Ids(v))
BY MultilineShapeTyped, SingleLineShapeTyped DEF Formatted

-----------------------------------------------------------------------------
(* The value a text is read as.                                            *)

(* What is between two items of a text: trivia, and at most one comma.     *)
Separator == {g \in Ended(Trivia \cup {COMMA}) :
                \A i, j \in 1..Len(g) : g[i] = COMMA /\ g[j] = COMMA => i = j}

LEMMA EndedWithin ==
  ASSUME NEW S, NEW R, NEW t \in Ended(S), \A i \in 1..Len(t) : t[i] \in R
  PROVE  t \in Ended(R)
<1>1. /\ t \in Seq(S) /\ Len(t) \in Nat /\ DOMAIN t = 1..Len(t)
      /\ \A i \in 1..Len(t) : IsComment(t[i]) => i + 1 \in 1..Len(t) /\ t[i + 1] = NL
  BY EndedMeaning
<1>2. t \in Seq(R)
  BY <1>1
<1> QED BY <1>1, <1>2, EndedFrom

(* Reading a text that scans: between two items there is a comma, so what  *)
(* lies between splits into gaps.                                          *)
LEMMA ParsedItem ==
  ASSUME NEW id \in Item0, NEW g \in Separator
  PROVE  ParseItem(id, g) \in ItemType
<1> DEFINE T == {i \in 1..Len(g) : g[i] = COMMA}
           c == SelectInSeq(g, LAMBDA token : token = COMMA)
           pre  == Upto(g, c - 1)
           post == From(g, c)
<1>1. /\ g \in Ended(Trivia \cup {COMMA}) /\ g \in Seq(Trivia \cup {COMMA})
      /\ Len(g) \in Nat /\ \A i \in 1..Len(g) : g[i] \in Trivia \cup {COMMA}
      /\ \A i \in 1..Len(g) : IsComment(g[i]) => i + 1 \in 1..Len(g) /\ g[i + 1] = NL
      /\ \A i, j \in 1..Len(g) : g[i] = COMMA /\ g[j] = COMMA => i = j
  <2>1. g \in Ended(Trivia \cup {COMMA})
    BY DEF Separator
  <2> QED BY <2>1, EndedMeaning DEF Separator
<1>2. c = IF T # {} THEN Min(T) ELSE 0
  BY DEF SelectInSeq
<1>3. T # {} => Min(T) \in T
  <2>1. T \in SUBSET Nat
    BY <1>1
  <2> HIDE DEF T
  <2> QED BY <2>1, LeastOf
<1>4. ParseItem(id, g) = IF c = 0 THEN Item(id, EolPart(g), FALSE, <<>>, EolRest(g))
                         ELSE Item(id, pre, TRUE, EolPart(post), EolRest(post))
  BY DEF ParseItem
<1> HIDE DEF c
<1>5. CASE T = {}
  <2>1. c = 0 /\ \A i \in 1..Len(g) : g[i] # COMMA
    BY <1>2, <1>5
  <2>2. \A i \in 1..Len(g) : g[i] \in Trivia
    BY <1>1, <2>1
  <2>3. g \in Gap
    BY <1>1, <2>2, EndedWithin DEF Gap
  <2>4. EolPart(g) \in Gap /\ EolRest(g) \in Gap /\ <<>> \in Gap
    BY <2>3, GapParts, SmallGaps
  <2>5. ParseItem(id, g) = [id |-> id, before |-> EolPart(g), comma |-> FALSE, after |-> <<>>,
                            following |-> EolRest(g)]
    BY <1>4, <2>1 DEF Item
  <2> QED BY <2>4, <2>5 DEF ItemType
<1>6. CASE T # {}
  <2>1. c \in 1..Len(g) /\ g[c] = COMMA
    BY <1>2, <1>3, <1>6
  <2>2. \A i \in 1..Len(g) : i # c => g[i] \in Trivia
    BY <1>1, <2>1
  <2>3. pre \in Gap
    <3>1. Clean(g, c - 1)
      <4>1. c - 1 \in 0..Len(g)
        BY <1>1, <2>1
      <4>2. ASSUME c - 1 > 0, IsComment(g[c - 1]) PROVE FALSE
        <5>1. c - 1 \in 1..Len(g) /\ (c - 1) + 1 = c
          BY <1>1, <2>1, <4>2
        <5>2. g[c] = NL
          BY <1>1, <4>2, <5>1
        <5> QED BY <2>1, <5>2 DEF COMMA, NL
      <4> QED BY <4>1, <4>2 DEF Clean
    <3>2. pre \in Ended(Trivia \cup {COMMA}) /\ Len(pre) = c - 1 /\ \A i \in 1..(c - 1) : pre[i] = g[i]
      BY <1>1, <3>1, EndedUpto
    <3> HIDE DEF pre
    <3>3. \A i \in 1..Len(pre) : pre[i] \in Trivia
      <4>1. \A i \in 1..(c - 1) : i \in 1..Len(g) /\ i # c
        BY <1>1, <2>1
      <4> QED BY <2>2, <3>2, <4>1
    <3> QED BY <3>2, <3>3, EndedWithin DEF Gap
  <2>4. post \in Gap
    <3>1. c \in 0..Len(g)
      BY <1>1, <2>1
    <3>2. post \in Ended(Trivia \cup {COMMA}) /\ Len(post) = Len(g) - c
          /\ \A i \in 1..(Len(g) - c) : post[i] = g[i + c]
      BY <1>1, <3>1, EndedRest
    <3> HIDE DEF post
    <3>3. \A i \in 1..Len(post) : post[i] \in Trivia
      <4>1. \A i \in 1..(Len(g) - c) : i + c \in 1..Len(g) /\ i + c # c
        BY <1>1, <2>1
      <4> QED BY <2>2, <3>2, <4>1
    <3> QED BY <3>2, <3>3, EndedWithin DEF Gap
  <2>5. c # 0
    BY <1>1, <2>1
  <2> HIDE DEF pre, post
  <2>6. EolPart(post) \in Gap /\ EolRest(post) \in Gap
    BY <2>4, GapParts
  <2>7. ParseItem(id, g) = [id |-> id, before |-> pre, comma |-> TRUE, after |-> EolPart(post),
                            following |-> EolRest(post)]
    BY <1>4, <2>5 DEF Item
  <2> QED BY <2>3, <2>6, <2>7 DEF ItemType
<1> QED BY <1>5, <1>6

(* The value of such a text is made of gaps and its items are those of     *)
(* Names.                                                                  *)
LEMMA ParseTyped ==
  ASSUME NEW text, Scans(text)
  PROVE  Parse(text) \in ValueType
<1> DEFINE All == Comment \cup {WS, NL, COMMA} \cup Item0
           L   == Len(text)
           ids == [i \in 1..L |-> i]
           R   == {i \in DOMAIN text : ~IsGap(text[i])}
           at  == Keeping(ids, R)
           N   == Len(at)
           end == Append(at, L + 1)
           gap(k) == SubSeq(text, at[k] + 1, end[k + 1] - 1)
           item(k) == ParseItem(text[at[k]], gap(k))
           q == [k \in 1..N |-> item(k)]
           open == Upto(text, end[1] - 1)
<1>1. /\ text \in Ended(All) /\ L \in Nat /\ DOMAIN text = 1..L
      /\ \A i \in 1..L : text[i] \in All
      /\ \A i \in 1..L : IsComment(text[i]) => i + 1 \in 1..L /\ text[i + 1] = NL
  <2>1. text \in Ended(All)
    BY DEF Scans, Ended
  <2> QED BY <2>1, EndedMeaning
<1>2. /\ \A i \in 1..L : text[i] = COMMA =>
           \E m \in 1..(i - 1) : text[m] \in Item0 /\ \A j \in m..(i - 1) : text[j] # COMMA
  BY <1>1 DEF Scans
<1>3. \A x \in Item0 : ~IsGap(x)
  BY CommaArrayAssumption
<1>4. \A i \in 1..L : IsGap(text[i]) => text[i] \in Trivia \cup {COMMA}
  BY <1>1 DEF IsGap, IsComment, Trivia
<1>5. \A i \in 1..L : ~IsGap(text[i]) => text[i] \in Item0
  BY <1>1 DEF IsGap, IsComment
<1>6. /\ at \in Seq(Nat)
      /\ \A i, j \in 1..N : i < j => at[i] < at[j]
      /\ \A x \in Nat : (x \in 1..L /\ ~IsGap(text[x])) <=> \E i \in 1..N : at[i] = x
  <2>1. ids \in Seq(Nat) /\ Len(ids) = L /\ \A i \in 1..L : ids[i] = i
    BY <1>1
  <2>2. \A x : x \in R <=> x \in 1..L /\ ~IsGap(text[x])
    BY <1>1
  <2> HIDE DEF ids, R, L
  <2>3. Rising(ids)
    BY <2>1 DEF Rising
  <2>4. /\ Rising(at)
        /\ \A x \in Nat : (x \in R /\ \E k \in 1..Len(ids) : ids[k] = x) <=> \E i \in 1..N : at[i] = x
    BY <2>3, KeptInOrder
  <2> HIDE DEF at
  <2>5. \A x \in Nat : (x \in R /\ \E k \in 1..Len(ids) : ids[k] = x) <=> x \in 1..L /\ ~IsGap(text[x])
    BY <2>1, <2>2
  <2> QED BY <2>4, <2>5 DEF Rising
<1>7. Parse(text) = [opening |-> open, items |-> q]
  BY DEF Parse
<1> HIDE DEF at, L, All
<1>8. N \in Nat /\ \A k \in 1..N : at[k] \in 1..L /\ ~IsGap(text[at[k]]) /\ text[at[k]] \in Item0
  <2>1. N \in Nat /\ \A k \in 1..N : at[k] \in Nat
    BY <1>6
  <2>2. \A k \in 1..N : at[k] \in 1..L /\ ~IsGap(text[at[k]])
    BY <1>6, <2>1
  <2> QED BY <1>5, <2>1, <2>2
<1>9. /\ Len(end) = N + 1 /\ \A k \in 1..N : end[k] = at[k]
      /\ end[N + 1] = L + 1
  BY <1>6, <1>8
<1> HIDE DEF N, end
(* Between two items, and before the first, there are only gaps.           *)
<1>10. \A k \in 1..(N + 1) : end[k] \in 1..(L + 1)
  <2>1. \A k \in 1..(N + 1) : k = N + 1 \/ k \in 1..N
    BY <1>8
  <2> QED BY <1>1, <1>8, <1>9, <2>1
<1>11. ASSUME NEW k \in 1..(N + 1) PROVE Clean(text, end[k] - 1)
  <2>1. end[k] - 1 \in 0..L
    BY <1>1, <1>10
  <2>2. ASSUME end[k] - 1 > 0, IsComment(text[end[k] - 1]) PROVE FALSE
    <3>1. end[k] - 1 \in 1..L /\ (end[k] - 1) + 1 = end[k]
      BY <1>1, <1>10, <2>2
    <3>2. end[k] \in 1..L /\ text[end[k]] = NL
      BY <1>1, <2>2, <3>1
    <3>3. k # N + 1
      BY <1>1, <1>9, <3>2
    <3>4. k \in 1..N
      BY <1>8, <3>3
    <3>5. ~IsGap(text[end[k]])
      BY <1>8, <1>9, <3>4
    <3> QED BY <3>2, <3>5 DEF IsGap
  <2> QED BY <2>1, <2>2 DEF Clean, L
<1>12. ASSUME NEW k \in 1..N PROVE at[k] < end[k + 1]
  <2>1. CASE k = N
    BY <1>1, <1>8, <1>9, <2>1
  <2>2. CASE k # N
    <3>1. k + 1 \in 1..N /\ k < k + 1
      BY <1>8, <2>2
    <3> QED BY <1>6, <1>9, <3>1
  <2> QED BY <2>1, <2>2
<1>13. ASSUME NEW k \in 1..N, NEW i \in 1..L, at[k] < i, i < end[k + 1] PROVE IsGap(text[i])
  <2> SUFFICES ASSUME ~IsGap(text[i]) PROVE FALSE
    OBVIOUS
  <2>1. PICK j \in 1..N : at[j] = i
    BY <1>1, <1>6
  <2>2. at[j] \in Int /\ at[k] \in Int
    BY <1>8
  <2>3. CASE j <= k
    <3>1. j = k \/ j < k
      BY <1>8, <2>3
    <3>2. at[j] <= at[k]
      BY <1>6, <2>2, <3>1
    <3> QED BY <1>13, <2>1, <2>2, <3>2
  <2>4. CASE k < j
    <3>1. k + 1 \in 1..N /\ (k + 1 = j \/ k + 1 < j)
      BY <1>8, <2>4
    <3>2. end[k + 1] = at[k + 1] /\ at[k + 1] \in Int
      BY <1>8, <1>9, <3>1
    <3>3. at[k + 1] <= at[j]
      BY <1>6, <2>2, <3>1, <3>2
    <3> QED BY <1>13, <2>1, <2>2, <3>2, <3>3
  <2> QED BY <1>8, <2>3, <2>4
<1>14. ASSUME NEW i \in 1..L, i < end[1] PROVE IsGap(text[i])
  <2> SUFFICES ASSUME ~IsGap(text[i]) PROVE FALSE
    OBVIOUS
  <2>1. PICK j \in 1..N : at[j] = i
    BY <1>1, <1>6
  <2>2. 1 \in 1..N /\ (j = 1 \/ 1 < j)
    BY <1>8
  <2>3. at[j] \in Int /\ at[1] \in Int /\ end[1] = at[1]
    BY <1>8, <1>9, <2>2
  <2>4. at[1] <= at[j]
    BY <1>6, <2>2, <2>3
  <2> QED BY <1>14, <2>1, <2>3, <2>4
<1>15. open \in Gap
  <2>1. 1 \in 1..(N + 1) /\ end[1] \in 1..(L + 1)
    BY <1>8, <1>10
  <2>2. Clean(text, end[1] - 1)
    BY <1>11, <2>1
  <2>3. /\ open \in Ended(All) /\ Len(open) = end[1] - 1
        /\ \A i \in 1..(end[1] - 1) : open[i] = text[i]
    BY <1>1, <2>2, EndedUpto
  <2> HIDE DEF open
  <2>4. ASSUME NEW i \in 1..(end[1] - 1) PROVE text[i] \in Trivia
    <3>1. i \in 1..L /\ i < end[1]
      BY <1>1, <2>1
    <3>2. text[i] # COMMA
      <4> SUFFICES ASSUME text[i] = COMMA PROVE FALSE
        OBVIOUS
      <4>1. PICK m \in 1..(i - 1) : text[m] \in Item0
        BY <1>2, <3>1
      <4>2. m \in 1..L /\ m < end[1]
        BY <1>1, <2>1, <3>1
      <4> QED BY <1>3, <1>14, <4>1, <4>2
    <3> QED BY <1>4, <1>14, <3>1, <3>2
  <2> QED BY <2>3, <2>4, EndedWithin DEF Gap
<1>16. ASSUME NEW k \in 1..N PROVE gap(k) \in Separator
  <2> DEFINE g == gap(k)
             e == end[k + 1] - 1
             a == at[k]
  <2>1. k + 1 \in 1..(N + 1) /\ a \in 1..L /\ e \in 0..L /\ a <= e
    <3>1. k + 1 \in 1..(N + 1)
      BY <1>8
    <3>2. end[k + 1] \in 1..(L + 1) /\ at[k] \in 1..L /\ at[k] < end[k + 1]
      BY <1>8, <1>10, <1>12, <3>1
    <3> QED BY <1>1, <3>1, <3>2
  <2>2. Clean(text, e)
    BY <1>11, <2>1
  <2>3. /\ g \in Ended(All) /\ Len(g) = e - a
        /\ \A i \in 1..(e - a) : g[i] = text[i + a]
    <3>1. a \in Nat /\ e \in Nat /\ text \in Ended(All) /\ Clean(text, e) /\ a <= e
      BY <1>1, <2>1, <2>2
    <3> HIDE DEF a, e, g, gap
    <3>2. /\ SubSeq(text, a + 1, e) \in Ended(All)
          /\ Len(SubSeq(text, a + 1, e)) = e - a
          /\ \A i \in 1..(e - a) : SubSeq(text, a + 1, e)[i] = text[i + a]
      BY <3>1, EndedStretch
    <3> QED BY <3>2 DEF a, e, g, gap
  <2>4. ASSUME NEW i \in 1..(e - a)
        PROVE  i + a \in 1..L /\ a < i + a /\ IsGap(text[i + a])
    <3>1. i + a \in 1..L /\ a < i + a /\ i + a < end[k + 1]
      BY <1>1, <1>10, <2>1
    <3> QED BY <1>13, <3>1
  <2>5. \A i \in 1..(e - a) : g[i] \in Trivia \cup {COMMA}
    BY <1>4, <2>3, <2>4
  <2>6. ASSUME NEW i \in 1..(e - a), NEW j \in 1..(e - a), i < j,
               text[i + a] = COMMA, text[j + a] = COMMA
        PROVE  FALSE
    <3>1. PICK m \in 1..((j + a) - 1) : text[m] \in Item0 /\ \A x \in m..((j + a) - 1) : text[x] # COMMA
      BY <1>2, <2>4, <2>6
    <3>2. m \in 1..L /\ i + a \in Int /\ j + a \in Int /\ j + a <= L /\ a \in Int
      BY <1>1, <2>1, <2>4
    <3>3. m <= a
      <4> SUFFICES ASSUME a < m PROVE FALSE
        BY <3>2
      <4>1. m < end[k + 1]
        BY <1>10, <2>1, <3>2
      <4> QED BY <1>3, <1>13, <3>1, <3>2, <4>1
    <3>4. i + a \in m..((j + a) - 1)
      BY <2>1, <2>6, <3>2, <3>3
    <3> QED BY <2>6, <3>1, <3>4
  <2> HIDE DEF g, e, a, gap
  <2>7. \A i, j \in 1..Len(g) : g[i] = COMMA /\ g[j] = COMMA => i = j
    <3> SUFFICES ASSUME NEW i \in 1..Len(g), NEW j \in 1..Len(g), g[i] = COMMA, g[j] = COMMA
                 PROVE  i = j
      OBVIOUS
    <3>1. i \in 1..(e - a) /\ j \in 1..(e - a) /\ text[i + a] = COMMA /\ text[j + a] = COMMA
      BY <2>3
    <3> QED BY <2>6, <3>1
  <2>8. g \in Ended(Trivia \cup {COMMA})
    <3>1. \A i \in 1..Len(g) : g[i] \in Trivia \cup {COMMA}
      BY <2>3, <2>5
    <3> QED BY <2>3, <3>1, EndedWithin
  <2> QED BY <2>7, <2>8 DEF Separator, g
<1> HIDE DEF gap, open
<1>17. \A k \in 1..N : item(k) \in ItemType
  BY <1>8, <1>16, ParsedItem
<1> HIDE DEF item
<1>18. q \in Seq(ItemType)
  BY <1>8, <1>17
<1> HIDE DEF q
<1> QED BY <1>7, <1>15, <1>18 DEF ValueType

-----------------------------------------------------------------------------
(* Lists cut and joined.                                                   *)

(* Sequences joined, and joined again. *)
LEMMA JoinedTyped ==
  ASSUME NEW S, NEW a \in Seq(S), NEW b \in Seq(S)
  PROVE  /\ a \o b \in Seq(S) /\ Len(a \o b) = Len(a) + Len(b) /\ Len(a \o b) \in Nat
         /\ \A i \in 1..Len(a) : (a \o b)[i] = a[i]
         /\ \A i \in 1..Len(b) : (a \o b)[Len(a) + i] = b[i]
<1> DEFINE c == a \o b
<1>1. Len(a) \in Nat /\ Len(b) \in Nat
  OBVIOUS
<1>2. c \in Seq(S) /\ Len(c) = Len(a) + Len(b)
      /\ \A i \in 1..(Len(a) + Len(b)) : c[i] = IF i <= Len(a) THEN a[i] ELSE b[i - Len(a)]
  BY Joined
<1> HIDE DEF c
<1>3. \A i \in 1..Len(a) : i \in 1..(Len(a) + Len(b)) /\ i <= Len(a)
  BY <1>1
<1>4. \A i \in 1..Len(b) : /\ Len(a) + i \in 1..(Len(a) + Len(b)) /\ ~(Len(a) + i <= Len(a))
                           /\ (Len(a) + i) - Len(a) = i
  BY <1>1
<1>5. \A i \in 1..Len(a) : c[i] = a[i]
  BY <1>2, <1>3
<1>6. \A i \in 1..Len(b) : c[Len(a) + i] = b[i]
  BY <1>2, <1>4
<1>7. Len(c) \in Nat
  BY <1>1, <1>2
<1> QED BY <1>2, <1>5, <1>6, <1>7 DEF c

LEMMA JoinAssociates ==
  ASSUME NEW S, NEW a \in Seq(S), NEW b \in Seq(S), NEW c \in Seq(S)
  PROVE  (a \o b) \o c = a \o (b \o c)
<1> DEFINE x == a \o b
           y == b \o c
           l == x \o c
           r == a \o y
<1>1. Len(a) \in Nat /\ Len(b) \in Nat /\ Len(c) \in Nat
  OBVIOUS
<1>2. /\ x \in Seq(S) /\ Len(x) = Len(a) + Len(b)
      /\ \A i \in 1..Len(a) : x[i] = a[i]
      /\ \A i \in 1..Len(b) : x[Len(a) + i] = b[i]
  BY JoinedTyped
<1>3. /\ y \in Seq(S) /\ Len(y) = Len(b) + Len(c)
      /\ \A i \in 1..Len(b) : y[i] = b[i]
      /\ \A i \in 1..Len(c) : y[Len(b) + i] = c[i]
  BY JoinedTyped
<1> HIDE DEF x, y
<1>4. /\ l \in Seq(S) /\ Len(l) = Len(x) + Len(c)
      /\ \A i \in 1..Len(x) : l[i] = x[i]
      /\ \A i \in 1..Len(c) : l[Len(x) + i] = c[i]
  <2>1. x \in Seq(S)
    BY <1>2
  <2> QED BY <2>1, JoinedTyped
<1>5. /\ r \in Seq(S) /\ Len(r) = Len(a) + Len(y)
      /\ \A i \in 1..Len(a) : r[i] = a[i]
      /\ \A i \in 1..Len(y) : r[Len(a) + i] = y[i]
  <2>1. y \in Seq(S)
    BY <1>3
  <2> QED BY <2>1, JoinedTyped
<1> HIDE DEF l, r
<1>6. Len(l) = Len(r)
  BY <1>1, <1>2, <1>3, <1>4, <1>5
<1>7. ASSUME NEW i \in 1..Len(l) PROVE l[i] = r[i]
  <2>1. CASE i \in 1..Len(a)
    <3>1. i \in 1..Len(x)
      BY <1>1, <1>2, <2>1
    <3> QED BY <1>2, <1>4, <1>5, <2>1, <3>1
  <2>2. CASE i \in (Len(a) + 1)..(Len(a) + Len(b))
    <3> DEFINE j == i - Len(a)
    <3>1. j \in 1..Len(b) /\ i = Len(a) + j /\ i \in 1..Len(x) /\ j \in 1..Len(y)
      BY <1>1, <1>2, <1>3, <2>2
    <3> HIDE DEF j
    <3>2. l[i] = b[j]
      BY <1>2, <1>4, <3>1
    <3>3. r[i] = b[j]
      BY <1>3, <1>5, <3>1
    <3> QED BY <3>2, <3>3
  <2>3. CASE ~(i <= Len(a) + Len(b))
    <3> DEFINE j == i - (Len(a) + Len(b))
    <3>1. /\ j \in 1..Len(c) /\ i = Len(x) + j /\ Len(b) + j \in 1..Len(y)
          /\ i = Len(a) + (Len(b) + j)
      BY <1>1, <1>2, <1>3, <1>4, <2>3
    <3> HIDE DEF j
    <3>2. l[i] = c[j]
      BY <1>4, <3>1
    <3>3. r[i] = c[j]
      BY <1>3, <1>5, <3>1
    <3> QED BY <3>2, <3>3
  <2> QED BY <1>1, <2>1, <2>2, <2>3
<1>8. l = r
  BY <1>4, <1>5, <1>6, <1>7, SameLists
<1> QED BY <1>8 DEF l, r, x, y

LEMMA WholeAgain ==
  ASSUME NEW S, NEW q \in Seq(S), NEW b \in 0..Len(q)
  PROVE  Upto(q, b) \o From(q, b) = q
<1> DEFINE x == Upto(q, b)
           y == From(q, b)
           r == x \o y
<1>1. Len(q) \in Nat /\ b \in Nat
  OBVIOUS
<1>2. /\ x \in Seq(S) /\ Len(x) = b /\ \A i \in 1..b : x[i] = q[i]
      /\ y \in Seq(S) /\ Len(y) = Len(q) - b /\ \A i \in 1..(Len(q) - b) : y[i] = q[i + b]
  BY Cut
<1> HIDE DEF x, y
<1>3. /\ r \in Seq(S) /\ Len(r) = Len(x) + Len(y)
      /\ \A i \in 1..Len(x) : r[i] = x[i]
      /\ \A i \in 1..Len(y) : r[Len(x) + i] = y[i]
  BY <1>2, JoinedTyped
<1> HIDE DEF r
<1>4. Len(r) = Len(q)
  BY <1>1, <1>2, <1>3
<1>5. ASSUME NEW i \in 1..Len(r) PROVE r[i] = q[i]
  <2>1. CASE i <= b
    <3>1. i \in 1..b
      BY <1>1, <2>1
    <3> QED BY <1>2, <1>3, <3>1
  <2>2. CASE ~(i <= b)
    <3> DEFINE j == i - b
    <3>1. j \in 1..(Len(q) - b) /\ i = b + j /\ i = j + b
      BY <1>1, <1>4, <2>2
    <3> HIDE DEF j
    <3>2. r[b + j] = y[j] /\ y[j] = q[j + b]
      BY <1>2, <1>3, <3>1
    <3> QED BY <3>1, <3>2
  <2> QED BY <2>1, <2>2
<1>6. r = q
  BY <1>3, <1>4, <1>5, SameLists
<1> QED BY <1>6 DEF r, x, y

LEMMA NothingAfter ==
  ASSUME NEW S, NEW q \in Seq(S)
  PROVE  From(q, Len(q)) = <<>> /\ Upto(q, Len(q)) = q /\ q \o <<>> = q
<1>1. Len(q) \in 0..Len(q) /\ q \o <<>> = q
  OBVIOUS
<1>2. From(q, Len(q)) \in Seq(S) /\ Len(From(q, Len(q))) = Len(q) - Len(q)
      /\ Upto(q, Len(q)) \in Seq(S) /\ Len(Upto(q, Len(q))) = Len(q)
      /\ \A i \in 1..Len(q) : Upto(q, Len(q))[i] = q[i]
  BY <1>1, Cut
<1>3. From(q, Len(q)) = <<>>
  BY <1>2
<1>4. Upto(q, Len(q)) = q
  BY <1>2, SameLists
<1> QED BY <1>1, <1>3, <1>4

-----------------------------------------------------------------------------
(* New payloads between the old boundaries.                                *)

Renamed(v, a, m, ids) ==
  [v EXCEPT !.items = [k \in DOMAIN @ |->
     IF k \in (a + 1)..(a + m) THEN [@[k] EXCEPT !.id = ids[k - a]] ELSE @[k]]]

LEMMA RenamedTyped ==
  ASSUME NEW v \in ValueType, NEW a \in Nat, NEW m \in Nat, a + m <= Len(v.items),
         NEW ids \in Seq(Item0), m <= Len(ids)
  PROVE  /\ Renamed(v, a, m, ids) \in ValueType
         /\ Len(Renamed(v, a, m, ids).items) = Len(v.items)
         /\ Upto(Ids(Renamed(v, a, m, ids)), a + m) = Upto(Ids(v), a) \o Upto(ids, m)
         /\ \A b \in (a + m)..Len(v.items) : From(Ids(Renamed(v, a, m, ids)), b) = From(Ids(v), b)
<1> DEFINE n == Len(v.items)
           w == Renamed(v, a, m, ids)
           item(k) == IF k \in (a + 1)..(a + m) THEN [v.items[k] EXCEPT !.id = ids[k - a]]
                      ELSE v.items[k]
           q == [k \in 1..n |-> item(k)]
<1>1. /\ n \in Nat /\ v.opening \in Gap /\ DOMAIN v.items = 1..n
      /\ \A k \in 1..n : v.items[k] \in ItemType
      /\ Len(ids) \in Nat /\ \A i \in 1..Len(ids) : ids[i] \in Item0
      /\ v = [opening |-> v.opening, items |-> v.items]
  BY ValueParts
<1>2. w = [opening |-> v.opening, items |-> q]
  <2>1. w = [v EXCEPT !.items = q]
    BY <1>1 DEF Renamed
  <2> HIDE DEF w, q
  <2> QED BY <1>1, <2>1
<1>3. ASSUME NEW k \in 1..n PROVE item(k) \in ItemType
  <2>1. CASE k \in (a + 1)..(a + m)
    <3>1. k - a \in 1..Len(ids)
      BY <1>1, <2>1
    <3>2. ids[k - a] \in Item0
      BY <1>1, <3>1
    <3>3. v.items[k] \in ItemType
      BY <1>1
    <3> QED BY <2>1, <3>2, <3>3 DEF ItemType
  <2> QED BY <1>1, <2>1
<1>4. ASSUME NEW k \in 1..n, k \in (a + 1)..(a + m) PROVE item(k).id = ids[k - a]
  BY <1>1, <1>4 DEF ItemType
<1>5. ASSUME NEW k \in 1..n, k \notin (a + 1)..(a + m) PROVE item(k).id = v.items[k].id
  BY <1>5
<1> HIDE DEF item, w
<1>6. q \in Seq(ItemType) /\ Len(q) = n /\ \A k \in 1..n : q[k] = item(k)
  <2>1. q = [k \in 1..n |-> item(k)]
    OBVIOUS
  <2> HIDE DEF q, n
  <2> QED BY <1>1, <1>3, <2>1
<1> HIDE DEF q
<1>7. w \in ValueType /\ w.items = q /\ Len(w.items) = n
  BY <1>1, <1>2, <1>6 DEF ValueType
<1> HIDE DEF n
<1> DEFINE old == Ids(v)
           new == Ids(w)
<1>8. /\ old \in Seq(Item0) /\ Len(old) = n /\ \A k \in 1..n : old[k] = v.items[k].id
      /\ new \in Seq(Item0) /\ Len(new) = n /\ \A k \in 1..n : new[k] = q[k].id
  BY <1>7, IdsTyped DEF n
<1> HIDE DEF old, new
<1>9. /\ \A k \in 1..n : k \in (a + 1)..(a + m) => new[k] = ids[k - a]
      /\ \A k \in 1..n : k \notin (a + 1)..(a + m) => new[k] = old[k]
  BY <1>4, <1>5, <1>6, <1>8
<1>10. a + m \in 0..n /\ a \in 0..n /\ m \in 0..Len(ids)
  BY <1>1 DEF n
<1>11. Upto(new, a + m) = Upto(old, a) \o Upto(ids, m)
  <2> DEFINE l == Upto(new, a + m)
             x == Upto(old, a)
             y == Upto(ids, m)
             r == x \o y
  <2>1. l \in Seq(Item0) /\ Len(l) = a + m /\ \A i \in 1..(a + m) : l[i] = new[i]
    <3>1. new \in Seq(Item0) /\ a + m \in 0..Len(new)
      BY <1>8, <1>10
    <3> QED BY <3>1, Cut
  <2>2. x \in Seq(Item0) /\ Len(x) = a /\ \A i \in 1..a : x[i] = old[i]
    <3>1. old \in Seq(Item0) /\ a \in 0..Len(old)
      BY <1>8, <1>10
    <3> QED BY <3>1, Cut
  <2>3. y \in Seq(Item0) /\ Len(y) = m /\ \A i \in 1..m : y[i] = ids[i]
    BY <1>10, Cut
  <2> HIDE DEF l, x, y
  <2>4. /\ r \in Seq(Item0) /\ Len(r) = Len(x) + Len(y)
        /\ \A i \in 1..Len(x) : r[i] = x[i]
        /\ \A i \in 1..Len(y) : r[Len(x) + i] = y[i]
    <3>1. x \in Seq(Item0) /\ y \in Seq(Item0)
      BY <2>2, <2>3
    <3> QED BY <3>1, JoinedTyped
  <2> HIDE DEF r
  <2>5. ASSUME NEW i \in 1..Len(l) PROVE l[i] = r[i]
    <3>1. CASE i <= a
      <4>1. i \in 1..a /\ i \in 1..n /\ i \notin (a + 1)..(a + m) /\ i \in 1..(a + m)
        BY <1>1, <1>10, <2>1, <3>1
      <4> QED BY <1>9, <2>1, <2>2, <2>4, <4>1
    <3>2. CASE ~(i <= a)
      <4> DEFINE j == i - a
      <4>1. j \in 1..m /\ i = a + j /\ i \in 1..n /\ i \in (a + 1)..(a + m) /\ i \in 1..(a + m)
        BY <1>1, <1>10, <2>1, <3>2
      <4>2. new[i] = ids[j]
        BY <1>9, <4>1
      <4> HIDE DEF j
      <4>3. r[a + j] = y[j] /\ y[j] = ids[j]
        BY <2>2, <2>3, <2>4, <4>1
      <4> QED BY <2>1, <4>1, <4>2, <4>3
    <3> QED BY <3>1, <3>2
  <2>6. Len(l) = Len(r)
    BY <2>1, <2>2, <2>3, <2>4
  <2>7. l = r
    BY <2>1, <2>4, <2>5, <2>6, SameLists
  <2> QED BY <2>7 DEF l, r, x, y
<1>12. ASSUME NEW b \in (a + m)..n PROVE From(new, b) = From(old, b)
  <2> DEFINE l == From(new, b)
             r == From(old, b)
  <2>1. b \in 0..n
    BY <1>10
  <2>2. /\ l \in Seq(Item0) /\ Len(l) = n - b /\ \A i \in 1..(n - b) : l[i] = new[i + b]
        /\ r \in Seq(Item0) /\ Len(r) = n - b /\ \A i \in 1..(n - b) : r[i] = old[i + b]
    <3>1. /\ new \in Seq(Item0) /\ b \in 0..Len(new) /\ old \in Seq(Item0) /\ b \in 0..Len(old)
          /\ Len(new) = n /\ Len(old) = n
      BY <1>8, <2>1
    <3>2. l \in Seq(Item0) /\ Len(l) = Len(new) - b /\ \A i \in 1..(Len(new) - b) : l[i] = new[i + b]
      BY <3>1, Cut
    <3>3. r \in Seq(Item0) /\ Len(r) = Len(old) - b /\ \A i \in 1..(Len(old) - b) : r[i] = old[i + b]
      BY <3>1, Cut
    <3> HIDE DEF l, r
    <3> QED BY <3>1, <3>2, <3>3
  <2>3. \A i \in 1..(n - b) : i + b \in 1..n /\ i + b \notin (a + 1)..(a + m)
    BY <1>1, <1>10, <2>1
  <2> HIDE DEF l, r
  <2>4. \A i \in 1..Len(l) : l[i] = r[i]
    BY <1>9, <2>2, <2>3
  <2>5. l = r
    BY <2>2, <2>4, SameLists
  <2> QED BY <2>5 DEF l, r
<1> QED BY <1>7, <1>11, <1>12 DEF w, new, old, n

LEMMA SetItemTyped ==
  ASSUME NEW v \in ValueType, NEW k \in 1..Len(v.items), NEW x \in Item0
  PROVE  Matches([v EXCEPT !.items[k].id = x], [Ids(v) EXCEPT ![k] = x])
<1> DEFINE n == Len(v.items)
           it == [v.items[k] EXCEPT !.id = x]
           q == [v.items EXCEPT ![k] = it]
           w == [v EXCEPT !.items[k].id = x]
           list0 == [Ids(v) EXCEPT ![k] = x]
<1>1. /\ n \in Nat /\ v.opening \in Gap /\ v.items \in Seq(ItemType)
      /\ \A i \in 1..n : v.items[i] \in ItemType
      /\ v = [opening |-> v.opening, items |-> v.items]
  BY ValueParts
<1>2. it \in ItemType /\ it.id = x
  <2>1. v.items[k] \in ItemType
    BY <1>1
  <2> QED BY <2>1 DEF ItemType
<1>3. w = [opening |-> v.opening, items |-> q]
  <2>1. w = [v EXCEPT !.items = q]
    OBVIOUS
  <2> HIDE DEF w, q
  <2> QED BY <1>1, <2>1
<1> HIDE DEF it, w
<1>4. q \in Seq(ItemType) /\ Len(q) = n /\ q[k] = it /\ \A i \in 1..n : i # k => q[i] = v.items[i]
  BY <1>1, <1>2
<1> HIDE DEF q
<1>5. w \in ValueType /\ w.items = q
  BY <1>1, <1>3, <1>4 DEF ValueType
<1>6. /\ Ids(v) \in Seq(Item0) /\ Len(Ids(v)) = n /\ \A i \in 1..n : Ids(v)[i] = v.items[i].id
      /\ Ids(w) \in Seq(Item0) /\ Len(Ids(w)) = n /\ \A i \in 1..n : Ids(w)[i] = q[i].id
  BY <1>4, <1>5, IdsTyped
<1>7. list0 \in Seq(Item0) /\ Len(list0) = n /\ list0[k] = x
      /\ \A i \in 1..n : i # k => list0[i] = Ids(v)[i]
  BY <1>6
<1> HIDE DEF list0
<1>8. \A i \in 1..n : Ids(w)[i] = list0[i]
  BY <1>2, <1>4, <1>6, <1>7
<1>9. Ids(w) = list0
  BY <1>6, <1>7, <1>8, SameLists
<1> QED BY <1>5, <1>9 DEF Matches, w, list0

(* A slice assignment replaces, removes or adds the same in both. *)
LEMMA SetSliceTyped ==
  ASSUME NEW v \in ValueType, NEW a \in 0..Len(v.items), NEW b \in 0..Len(v.items), a <= b,
         NEW ids \in Seq(Item0), NEW multi \in BOOLEAN
  PROVE  LET n        == Len(ids)
             both     == Min({n, b - a})
             replaced == Renamed(v, a, both, ids)
             extra    == From(ids, both)
         IN  Matches(CASE n < b - a -> SpliceOut(replaced, (a + n + 1)..b, multi)
                       [] n = b - a -> replaced
                       [] n > b - a /\ b = Len(v.items) -> ExtendWith(replaced, extra, multi)
                       [] OTHER -> SpliceInsert(replaced, extra, b, multi),
                     Upto(Ids(v), a) \o ids \o From(Ids(v), b))
<1> DEFINE n    == Len(ids)
           both == Min({n, b - a})
           w    == Renamed(v, a, both, ids)
           more == From(ids, both)
           N    == Len(v.items)
           old  == Ids(v)
           new  == Ids(w)
           front == Upto(old, a)
           rest == From(old, b)
           list0 == front \o ids \o rest
           out  == CASE n < b - a -> SpliceOut(w, (a + n + 1)..b, multi)
                     [] n = b - a -> w
                     [] n > b - a /\ b = N -> ExtendWith(w, more, multi)
                     [] OTHER -> SpliceInsert(w, more, b, multi)
<1> SUFFICES Matches(out, list0)
  OBVIOUS
<1>1. N \in Nat /\ n \in Nat /\ a \in Nat /\ b \in Nat /\ b - a \in Nat /\ b <= N
  <2>1. N \in Nat
    BY ValueParts
  <2> HIDE DEF N
  <2>2. a \in 0..N /\ b \in 0..N
    BY DEF N
  <2> QED BY <2>1, <2>2
<1>2. both \in Nat /\ (n < b - a => both = n) /\ (n >= b - a => both = b - a) /\ both <= n
      /\ a + both <= b
  <2> DEFINE T == {n, b - a}
  <2>1. T \in SUBSET Nat /\ n \in T /\ b - a \in T
    BY <1>1
  <2>2. Min(T) \in T /\ \A q \in T : Min(T) <= q
    <3> HIDE DEF T
    <3> QED BY <2>1, LeastOf
  <2> QED BY <1>1, <2>1, <2>2
<1>3. /\ old \in Seq(Item0) /\ Len(old) = N
  BY IdsTyped
<1> HIDE DEF both, N, n, old
<1>4. /\ w \in ValueType /\ Len(w.items) = N
      /\ Upto(new, a + both) = front \o Upto(ids, both)
      /\ From(new, b) = rest
  <2>1. a \in Nat /\ both \in Nat /\ a + both <= Len(v.items) /\ both <= Len(ids)
    BY <1>1, <1>2 DEF N, n
  <2>2. /\ w \in ValueType /\ Len(w.items) = Len(v.items)
        /\ Upto(new, a + both) = Upto(Ids(v), a) \o Upto(ids, both)
        /\ \A x \in (a + both)..Len(v.items) : From(new, x) = From(Ids(v), x)
    <3> HIDE DEF n
    <3> QED BY <2>1, RenamedTyped
  <2>3. b \in (a + both)..Len(v.items)
    BY <1>1, <1>2 DEF N
  <2> QED BY <2>2, <2>3 DEF N, old
<1>5. new \in Seq(Item0) /\ Len(new) = N
  BY <1>4, IdsTyped
<1> HIDE DEF w, new
<1>6. front \in Seq(Item0) /\ rest \in Seq(Item0) /\ Upto(ids, both) \in Seq(Item0)
      /\ more \in Seq(Item0) /\ Len(more) = n - both
  <2>1. a \in 0..Len(old) /\ b \in 0..Len(old)
    BY <1>1, <1>3
  <2>2. both \in 0..Len(ids)
    BY <1>1, <1>2 DEF n
  <2>3. front \in Seq(Item0) /\ rest \in Seq(Item0)
    BY <1>3, <2>1, Cut
  <2>4. Upto(ids, both) \in Seq(Item0) /\ more \in Seq(Item0) /\ Len(more) = Len(ids) - both
    BY <2>2, Cut
  <2> QED BY <2>3, <2>4 DEF n
<1>7. Upto(ids, both) \o more = ids
  <2>1. both \in 0..Len(ids)
    BY <1>1, <1>2 DEF n
  <2> QED BY <2>1, WholeAgain
<1>8. both = n => Upto(ids, both) = ids
  BY NothingAfter DEF n
<1> HIDE DEF more, front, rest, out, list0
<1>9. CASE n < b - a
  <2> DEFINE I    == (a + n + 1)..b
             runs == RunsOf(I, N)
             R    == {i - 1 : i \in I}
  <2>1. both = n /\ a + n \in Nat /\ a + n < b
    BY <1>1, <1>2, <1>9
  <2>2. I \in SUBSET (1..N) /\ I # {}
    <3>1. b \in I /\ \A i \in I : i \in 1..N
      BY <1>1, <2>1
    <3> QED BY <3>1
  <2>3. \A x \in Nat : x \in R <=> a + n <= x /\ x < b
    <3>1. ASSUME NEW x \in Nat, a + n <= x, x < b PROVE x \in R
      <4>1. x + 1 \in I /\ (x + 1) - 1 = x
        BY <1>1, <2>1, <3>1
      <4> QED BY <4>1
    <3>2. \A i \in I : a + n <= i - 1 /\ i - 1 < b
      BY <1>1, <2>1
    <3> QED BY <3>1, <3>2
  <2> HIDE DEF I
  <2>4. Cover(runs, R, N) /\ runs # <<>>
    BY <1>1, <2>2, RunsTyped
  <2>5. Matches(SpliceOut(w, I, multi), DeleteRuns(new, runs))
    <3>1. I \in SUBSET (1..Len(w.items))
      BY <1>4, <2>2
    <3>2. Matches(SpliceOut(w, I, multi), DeleteRuns(Ids(w), RunsOf(I, Len(w.items))))
      BY <1>4, <2>2, <3>1, SpliceOutTyped
    <3> QED BY <1>4, <3>2 DEF new
  <2>6. DeleteRuns(new, runs) = Upto(new, a + n) \o From(new, b)
    <3> HIDE DEF runs, R
    <3> DEFINE lo == a + n
    <3>1. lo \in Nat /\ lo < b /\ b \in Nat /\ b <= Len(new) /\ Cover(runs, R, Len(new))
          /\ \A x \in Nat : x \in R <=> lo <= x /\ x < b
      BY <1>1, <1>5, <2>1, <2>3, <2>4
    <3> HIDE DEF lo
    <3>2. DeleteRuns(new, runs) = Upto(new, lo) \o From(new, b)
      BY <1>5, <2>4, <3>1, StretchDeleted
    <3> QED BY <3>2 DEF lo
  <2>7. Upto(new, a + n) = front \o ids /\ From(new, b) = rest
    BY <1>4, <1>8, <2>1
  <2>8. out = SpliceOut(w, I, multi)
    BY <1>1, <1>9 DEF I, out
  <2> HIDE DEF runs
  <2> QED BY <2>5, <2>6, <2>7, <2>8 DEF list0
<1>10. CASE n = b - a
  <2>1. both = n /\ a + both = b
    BY <1>1, <1>2, <1>10
  <2>2. Upto(new, b) = front \o ids /\ From(new, b) = rest
    BY <1>4, <1>8, <2>1
  <2>3. new = Upto(new, b) \o From(new, b)
    <3>1. b \in 0..Len(new)
      BY <1>1, <1>5
    <3> QED BY <1>5, <3>1, WholeAgain
  <2>4. ~(n < b - a)
    BY <1>1, <1>10
  <2>5. out = w
    BY <1>10, <2>4 DEF out
  <2> QED BY <1>4, <2>2, <2>3, <2>5 DEF Matches, new, list0
<1>11. CASE n > b - a
  <2>1. both = b - a /\ a + both = b /\ ~(n < b - a) /\ n # b - a /\ Len(more) > 0
    BY <1>1, <1>2, <1>6, <1>11
  <2>2. Upto(new, b) = front \o Upto(ids, both) /\ From(new, b) = rest
    BY <1>4, <2>1
  <2>3. (front \o Upto(ids, both)) \o more = front \o ids
    <3>1. (front \o Upto(ids, both)) \o more = front \o (Upto(ids, both) \o more)
      BY <1>6, JoinAssociates
    <3> QED BY <1>7, <3>1
  <2>4. CASE b = N
    <3>1. Upto(new, b) = new
      BY <1>5, <2>4, NothingAfter
    <3>2. rest = <<>>
      BY <1>3, <2>4, NothingAfter DEF rest
    <3>3. Matches(ExtendWith(w, more, multi), new \o more)
      BY <1>4, <1>6, ExtendWithTyped DEF new
    <3>4. (front \o ids) \o <<>> = front \o ids
      <4>1. front \o ids \in Seq(Item0)
        BY <1>6, JoinedTyped
      <4> QED BY <4>1, NothingAfter
    <3>5. new \o more = list0
      BY <2>2, <2>3, <3>1, <3>2, <3>4 DEF list0
    <3>6. out = ExtendWith(w, more, multi)
      BY <1>11, <2>1, <2>4 DEF out
    <3> QED BY <3>3, <3>5, <3>6
  <2>5. CASE b # N
    <3>1. b \in 0..Len(w.items) /\ more # <<>>
      BY <1>1, <1>4, <2>1
    <3>2. Matches(SpliceInsert(w, more, b, multi), Spliced(new, b, more))
      BY <1>4, <1>6, <3>1, SpliceInsertTyped DEF new
    <3>3. Spliced(new, b, more) = list0
      <4>1. Spliced(new, b, more) = Upto(new, b) \o more \o From(new, b)
        BY DEF Spliced
      <4> QED BY <2>2, <2>3, <4>1 DEF list0
    <3>4. out = SpliceInsert(w, more, b, multi)
      BY <1>11, <2>1, <2>5 DEF out
    <3> QED BY <3>2, <3>3, <3>4
  <2> QED BY <2>4, <2>5
<1> QED BY <1>1, <1>9, <1>10, <1>11

-----------------------------------------------------------------------------
(* The inductive invariant: the value is made of trivia whose comments end *)
(* their lines, and the list is the value's.                               *)

Shapes == {"unset", "multi", "single"}
ArrayInv == /\ cv \in ValueType /\ list = Ids(cv)
            /\ cache \in Shapes /\ left \in Nat

(* An edit keeps the invariant if value and list match after it. *)
LEMMA InvKept ==
  ASSUME ArrayInv, left > 0, left' = left - 1, cache' \in Shapes, Matches(cv', list')
  PROVE  ArrayInv'
BY DEF ArrayInv, Matches

LEMMA ArrayFacts ==
  ASSUME ArrayInv
  PROVE  /\ cv \in ValueType /\ list = Ids(cv) /\ list \in Seq(Item0) /\ Len(list) = Size
         /\ DOMAIN list = 1..Size /\ Size \in Nat
         /\ IsMultiline \in BOOLEAN /\ cache \in Shapes /\ Warm \in Shapes
         /\ AfterPromotion \in Shapes
         /\ FreshIds \in Seq(Item0) /\ FreshComments \in Seq(Comment)
         /\ Matches(cv, list) /\ Matches(Promoted, list)
         /\ Promoted \in ValueType /\ Len(Promoted.items) = Size /\ Ids(Promoted) = list
<1>1. cv \in ValueType /\ list = Ids(cv) /\ cache \in Shapes
  BY DEF ArrayInv
<1>2. list \in Seq(Item0) /\ Len(list) = Size /\ Size \in Nat
  BY <1>1, IdsTyped, ValueParts DEF Size
<1>3. DOMAIN list = 1..Size
  BY <1>2
<1>4. IsMultiline \in BOOLEAN
  BY DEF IsMultiline, OwnMultiline, HasNl
<1>5. Warm \in Shapes /\ AfterPromotion \in Shapes
  BY DEF Warm, AfterPromotion, Shapes
<1>6. FreshIds \in Seq(Item0)
  <2> DEFINE R == Item0 \ ToSet(list)
  <2>1. Names \in Seq(Item0)
    BY CommaArrayAssumption
  <2>2. Keeping(Names, R) \in Seq(Item0 \cap R)
    BY <2>1, KeptIn
  <2>3. Keeping(Names, R) \in Seq(Item0)
    <3> HIDE DEF R
    <3> QED BY <2>2
  <2> QED BY <2>3 DEF FreshIds
<1>7. FreshComments \in Seq(Comment)
  <2> DEFINE R == Comment \ ToSet(OwnText(cv))
  <2>1. Remarks \in Seq(Comment)
    BY CommaArrayAssumption
  <2>2. Keeping(Remarks, R) \in Seq(Comment \cap R)
    BY <2>1, KeptIn
  <2>3. Keeping(Remarks, R) \in Seq(Comment)
    <3> HIDE DEF R
    <3> QED BY <2>2
  <2> QED BY <2>3 DEF FreshComments
<1>8. Matches(cv, list)
  BY <1>1 DEF Matches
<1>9. Matches(Promoted, list)
  BY <1>1, <1>8, MultilineShapeTyped DEF Promoted
<1>10. Promoted \in ValueType /\ Ids(Promoted) = list
  BY <1>9 DEF Matches
<1>11. Len(Promoted.items) = Size
  BY <1>2, <1>10, IdsTyped
<1> QED BY <1>1, <1>2, <1>3, <1>4, <1>5, <1>6, <1>7, <1>8, <1>9, <1>10, <1>11

LEMMA InitTyped ==
  ASSUME Init
  PROVE  ArrayInv
<1>1. PICK t \in Text : /\ cv = Parse(t.text) /\ list = Ids(cv)
                        /\ cache = "unset" /\ left = t.edits
  BY DEF Init
<1>2. Scans(t.text) /\ t.edits \in Nat
  BY CommaArrayAssumption
<1>3. Parse(t.text) \in ValueType
  BY <1>2, ParseTyped
<1> QED BY <1>1, <1>2, <1>3 DEF ArrayInv, Shapes

-----------------------------------------------------------------------------
(* The edits of the items.                                                 *)

LEMMA FreshTyped ==
  ASSUME ArrayInv, NEW n \in Nat, n <= Len(FreshIds)
  PROVE  Upto(FreshIds, n) \in Seq(Item0) /\ Len(Upto(FreshIds, n)) = n
<1>1. FreshIds \in Seq(Item0) /\ n \in 0..Len(FreshIds)
  BY ArrayFacts
<1> QED BY <1>1, Cut

(* The actions, one by one. *)
LEMMA ExtendKeeps ==
  ASSUME ArrayInv, left > 0, NEW n \in 1..2, Extend(n)
  PROVE  ArrayInv'
<1> DEFINE ids == Upto(FreshIds, n)
<1>1. /\ cv' = ExtendWith(cv, ids, IsMultiline) /\ list' = list \o ids
      /\ cache' = Warm /\ left' = left - 1 /\ n \in Nat /\ n <= Len(FreshIds)
  BY DEF Extend, Done
<1>2. ids \in Seq(Item0)
  BY <1>1, FreshTyped
<1> HIDE DEF ids
<1>3. Matches(cv', list')
  BY <1>1, <1>2, ArrayFacts, ExtendWithTyped
<1> QED BY <1>1, <1>3, ArrayFacts, InvKept

LEMMA InsertKeeps ==
  ASSUME ArrayInv, left > 0, NEW b \in 0..Size, Insert(b)
  PROVE  ArrayInv'
<1> DEFINE ids == Upto(FreshIds, 1)
<1>1. /\ cv' = SpliceInsert(cv, ids, b, IsMultiline)
      /\ list' = Upto(list, b) \o ids \o From(list, b)
      /\ cache' = Warm /\ left' = left - 1 /\ FreshIds # <<>>
  BY DEF Insert, Done
<1>2. ids \in Seq(Item0) /\ ids # <<>>
  <2>1. PICK z \in Nat : z = 1
    OBVIOUS
  <2>2. z <= Len(FreshIds)
    BY <1>1, <2>1, ArrayFacts
  <2>3. Upto(FreshIds, z) \in Seq(Item0) /\ Len(Upto(FreshIds, z)) = z
    BY <2>2, FreshTyped
  <2>4. ids \in Seq(Item0) /\ Len(ids) = 1
    BY <2>1, <2>3
  <2> HIDE DEF ids
  <2> QED BY <2>4
<1> HIDE DEF ids
<1>3. b \in 0..Len(cv.items)
  BY DEF Size
<1>4. Matches(cv', list')
  BY <1>1, <1>2, <1>3, ArrayFacts, SpliceInsertTyped DEF Spliced
<1> QED BY <1>1, <1>4, ArrayFacts, InvKept

LEMMA SetItemKeeps ==
  ASSUME ArrayInv, left > 0, NEW k \in 1..Size, SetItem(k)
  PROVE  ArrayInv'
<1> DEFINE x == FreshIds[1]
<1>1. /\ cv' = [cv EXCEPT !.items[k].id = x] /\ list' = [list EXCEPT ![k] = x]
      /\ cache' = cache /\ left' = left - 1 /\ FreshIds # <<>>
  BY DEF SetItem, Done
<1>2. x \in Item0
  <2>1. FreshIds \in Seq(Item0)
    BY ArrayFacts
  <2> QED BY <1>1, <2>1
<1> HIDE DEF x
<1>3. k \in 1..Len(cv.items)
  BY DEF Size
<1>4. Matches(cv', list')
  BY <1>1, <1>2, <1>3, ArrayFacts, SetItemTyped
<1> QED BY <1>1, <1>4, ArrayFacts, InvKept

LEMMA DeleteKeeps ==
  ASSUME ArrayInv, left > 0, NEW I \in SUBSET (1..Size), I # {}, Delete(I)
  PROVE  ArrayInv'
<1>1. /\ cv' = SpliceOut(cv, I, IsMultiline) /\ list' = DeleteRuns(list, RunsOf(I, Size))
      /\ cache' = (IF IsMultiline THEN "unset" ELSE "single") /\ left' = left - 1
  BY DEF Delete, Done
<1>2. I \in SUBSET (1..Len(cv.items))
  BY DEF Size
<1>3. Matches(SpliceOut(cv, I, IsMultiline), DeleteRuns(Ids(cv), RunsOf(I, Len(cv.items))))
  BY <1>2, ArrayFacts, SpliceOutTyped
<1>4. Matches(cv', list')
  BY <1>1, <1>3, ArrayFacts DEF Size
<1>5. cache' \in Shapes
  BY <1>1 DEF Shapes
<1> QED BY <1>1, <1>4, <1>5, InvKept

LEMMA SetSliceKeeps ==
  ASSUME ArrayInv, left > 0, NEW a \in 0..Size, NEW b \in 0..Size, a <= b, NEW n \in 0..2,
         SetSlice(a, b, n)
  PROVE  ArrayInv'
<1> DEFINE ids   == Upto(FreshIds, n)
           both  == Min({n, b - a})
           w     == Renamed(cv, a, both, ids)
           extra == From(ids, both)
           multi == IsMultiline
<1>1. n <= Len(FreshIds) /\ left' = left - 1
  BY DEF SetSlice, Done
<1>2. list' = Upto(list, a) \o ids \o From(list, b)
  BY DEF SetSlice
<1>3. cv' = CASE n < b - a -> SpliceOut(w, (a + n + 1)..b, multi)
              [] n = b - a -> w
              [] n > b - a /\ b = Size -> ExtendWith(w, extra, multi)
              [] OTHER -> SpliceInsert(w, extra, b, multi)
  BY DEF SetSlice, Renamed
<1>4. cache' = CASE n < b - a -> (IF multi THEN "unset" ELSE "single")
                 [] n = b - a -> cache
                 [] OTHER     -> Warm
  BY DEF SetSlice
<1>5. a \in Nat /\ b \in Nat /\ n \in Nat /\ Size \in Nat
  BY ArrayFacts
<1>6. cache' \in Shapes
  <2> HIDE DEF multi
  <2>1. CASE n < b - a
    <3>1. cache' = IF multi THEN "unset" ELSE "single"
      BY <1>4, <1>5, <2>1
    <3> QED BY <3>1 DEF Shapes
  <2>2. CASE n = b - a
    <3>1. cache' = cache
      BY <1>4, <1>5, <2>2
    <3> QED BY <3>1, ArrayFacts
  <2>3. CASE n > b - a
    <3>1. cache' = Warm
      BY <1>4, <1>5, <2>3
    <3> QED BY <3>1, ArrayFacts
  <2> QED BY <1>5, <2>1, <2>2, <2>3
<1>7. ids \in Seq(Item0) /\ Len(ids) = n
  BY <1>1, <1>5, FreshTyped
<1>8. Matches(cv', list')
  <2> DEFINE m == Len(ids)
             both2 == Min({m, b - a})
             w2    == Renamed(cv, a, both2, ids)
             more2 == From(ids, both2)
  <2>1. a \in 0..Len(cv.items) /\ b \in 0..Len(cv.items)
    BY DEF Size
  <2>2. cv \in ValueType /\ multi \in BOOLEAN /\ list = Ids(cv)
    BY ArrayFacts
  <2> HIDE DEF ids, multi
  <2>3. Matches(CASE m < b - a -> SpliceOut(w2, (a + m + 1)..b, multi)
                  [] m = b - a -> w2
                  [] m > b - a /\ b = Len(cv.items) -> ExtendWith(w2, more2, multi)
                  [] OTHER -> SpliceInsert(w2, more2, b, multi),
                Upto(Ids(cv), a) \o ids \o From(Ids(cv), b))
    BY <1>7, <2>1, <2>2, SetSliceTyped
  <2>4. m = n
    BY <1>7
  <2>5. both = both2
    BY <2>4
  <2>6. w = w2 /\ extra = more2
    BY <2>5
  <2> HIDE DEF m, both2, w2, more2, both, w, extra
  <2>7. cv' = CASE m < b - a -> SpliceOut(w2, (a + m + 1)..b, multi)
                [] m = b - a -> w2
                [] m > b - a /\ b = Len(cv.items) -> ExtendWith(w2, more2, multi)
                [] OTHER -> SpliceInsert(w2, more2, b, multi)
    BY <1>3, <2>4, <2>6 DEF Size
  <2> QED BY <1>2, <2>2, <2>3, <2>7
<1> QED BY <1>1, <1>6, <1>8, InvKept

LEMMA ReorderKeeps ==
  ASSUME ArrayInv, left > 0, NEW order \in Bijection(1..Size, 1..Size), Reorder(order)
  PROVE  ArrayInv'
<1>1. /\ cv' = ReorderOwned(cv, 1..Size, order, IsMultiline)
      /\ list' = [k \in DOMAIN list |-> list[order[k]]]
      /\ cache' = Warm /\ left' = left - 1
  BY DEF Reorder, Done
<1>2. order \in [1..Size -> 1..Size]
  BY DEF Bijection, Injection
<1>3. Matches(ReorderOwned(cv, 1..Len(cv.items), order, IsMultiline),
              [k \in 1..Len(cv.items) |-> Ids(cv)[order[k]]])
  BY <1>2, ArrayFacts, ReorderOwnedTyped DEF Size
<1>4. Matches(cv', list')
  BY <1>1, <1>3, ArrayFacts DEF Size
<1> QED BY <1>1, <1>4, ArrayFacts, InvKept

LEMMA ClearKeeps ==
  ASSUME ArrayInv, left > 0, Clear
  PROVE  ArrayInv'
<1>1. /\ Size > 0 /\ cv' = Emptied(cv) /\ list' = <<>> /\ cache' = "unset" /\ left' = left - 1
  BY DEF Clear, Done
<1>2. cv \in ValueType /\ cv.items # <<>>
  BY <1>1, ArrayFacts DEF Size
<1>3. Matches(cv', list')
  BY <1>1, <1>2, EmptiedTyped
<1> QED BY <1>1, <1>3, InvKept DEF Shapes

-----------------------------------------------------------------------------
(* The layouts and the writes of comments.                                 *)

LEMMA LayoutKeeps ==
  ASSUME ArrayInv, left > 0, Format \/ SetMultiline \/ Collapse
  PROVE  ArrayInv'
<1>1. /\ list' = list /\ left' = left - 1 /\ (cache' = Warm \/ cache' = "unset")
      /\ \/ cv' = Formatted(cv, IsMultiline)
         \/ cv' = MultilineShape(cv)
         \/ cv' = SingleLineShape(cv)
  BY DEF Format, SetMultiline, Collapse, Done
<1>2. Matches(cv', list')
  BY <1>1, ArrayFacts, FormattedTyped, MultilineShapeTyped, SingleLineShapeTyped
<1>3. cache' \in Shapes
  BY <1>1, ArrayFacts DEF Shapes
<1> QED BY <1>1, <1>2, <1>3, InvKept

LEMMA WritesKeep ==
  ASSUME ArrayInv, left > 0, NEW k \in 1..Size,
         SetComment(k) \/ SetLeading(k) \/ SetBlock(k)
  PROVE  ArrayInv'
<1> DEFINE v == Promoted
           first == FreshComments[1]
           one   == Upto(FreshComments, 1)
           block == <<FreshComments[1], None, FreshComments[2]>>
<1>1. /\ list' = list /\ left' = left - 1 /\ cache' = AfterPromotion
      /\ \/ FreshComments # <<>> /\ cv' = SetEol(v, k, first)
         \/ FreshComments # <<>> /\ cv' = SetAttachedComments(v, k, one)
         \/ Len(FreshComments) > 1 /\ cv' = SetAboveBlock(v, k, block)
  BY DEF SetComment, SetLeading, SetBlock, Wrote
<1>2. v \in ValueType /\ k \in 1..Len(v.items) /\ Ids(v) = list /\ FreshComments \in Seq(Comment)
  BY ArrayFacts
<1> HIDE DEF v
<1>3. FreshComments # <<>> => first \in Comment /\ one \in Seq(Comment \cup {None})
  <2> SUFFICES ASSUME FreshComments # <<>> PROVE first \in Comment /\ one \in Seq(Comment \cup {None})
    OBVIOUS
  <2>1. 1 \in 0..Len(FreshComments) /\ 1 \in 1..Len(FreshComments)
    BY <1>2
  <2>2. one \in Seq(Comment)
    BY <1>2, <2>1, Cut
  <2> HIDE DEF one
  <2> QED BY <1>2, <2>1, <2>2
<1>4. Len(FreshComments) > 1 => block \in Seq(Comment \cup {None})
  <2> SUFFICES ASSUME Len(FreshComments) > 1 PROVE block \in Seq(Comment \cup {None})
    OBVIOUS
  <2>1. 1 \in 1..Len(FreshComments) /\ 2 \in 1..Len(FreshComments)
    BY <1>2
  <2>2. FreshComments[1] \in Comment \cup {None} /\ FreshComments[2] \in Comment \cup {None}
        /\ None \in Comment \cup {None}
    BY <1>2, <2>1
  <2> QED BY <2>2
<1> HIDE DEF first, one, block
<1>5. CASE FreshComments # <<>> /\ cv' = SetEol(v, k, first)
  <2>1. Matches(SetEol(v, k, first), Ids(v))
    BY <1>2, <1>3, <1>5, SetEolTyped
  <2> QED BY <1>1, <1>2, <1>5, <2>1, ArrayFacts, InvKept
<1>6. CASE FreshComments # <<>> /\ cv' = SetAttachedComments(v, k, one)
  <2>1. Matches(SetAttachedComments(v, k, one), Ids(v))
    BY <1>2, <1>3, <1>6, SetAttachedCommentsTyped
  <2> QED BY <1>1, <1>2, <1>6, <2>1, ArrayFacts, InvKept
<1>7. CASE Len(FreshComments) > 1 /\ cv' = SetAboveBlock(v, k, block)
  <2>1. Matches(SetAboveBlock(v, k, block), Ids(v))
    BY <1>2, <1>4, <1>7, AboveBlockTyped
  <2> QED BY <1>1, <1>2, <1>7, <2>1, ArrayFacts, InvKept
<1> QED BY <1>1, <1>5, <1>6, <1>7

LEMMA DeletionsKeep ==
  ASSUME ArrayInv, left > 0, NEW k \in 1..Size,
         DelComment(k) \/ DelLeading(k) \/ DelBlock(k)
  PROVE  ArrayInv'
<1>1. /\ list' = list /\ left' = left - 1 /\ cache' = cache
      /\ \/ cv' = DelEol(cv, k)
         \/ cv' = ClearAttachedComments(cv, k)
         \/ cv' = ClearAboveBlock(cv, k)
  BY DEF DelComment, DelLeading, DelBlock, Wrote
<1>2. cv \in ValueType /\ k \in 1..Len(cv.items) /\ Ids(cv) = list /\ cache \in Shapes
  BY ArrayFacts DEF Size
<1>3. <<>> \in Seq(Comment \cup {None})
  OBVIOUS
<1>4. Matches(DelEol(cv, k), list)
  BY <1>2, DelEolTyped
<1>5. Matches(ClearAttachedComments(cv, k), list)
  BY <1>2, <1>3, SetAttachedCommentsTyped
<1>6. Matches(ClearAboveBlock(cv, k), list)
  BY <1>2, <1>3, AboveBlockTyped
<1> QED BY <1>1, <1>2, <1>4, <1>5, <1>6, InvKept

(* Every step keeps the invariant. *)
LEMMA EditKeeps ==
  ASSUME ArrayInv, [Next]_vars
  PROVE  ArrayInv'
<1>1. CASE UNCHANGED vars
  BY <1>1 DEF vars, ArrayInv
<1>2. CASE Next
  <2>1. left > 0 /\ Edit /\ Size \in Nat
    BY <1>2, ArrayFacts DEF Next
  <2>2. CASE \E n \in 1..2 : Extend(n)
    BY <2>1, <2>2, ExtendKeeps
  <2>3. CASE \E b \in 0..Size : Insert(b)
    BY <2>1, <2>3, InsertKeeps
  <2>4. CASE \E I \in (SUBSET (1..Size)) \ {{}} : Delete(I)
    <3>1. PICK I \in SUBSET (1..Size) : I # {} /\ Delete(I)
      BY <2>4
    <3> QED BY <2>1, <3>1, DeleteKeeps
  <2>5. CASE \E a, b \in 0..Size : a < b /\ \E n \in 0..2 : SetSlice(a, b, n)
    <3>1. PICK a \in 0..Size, b \in 0..Size : a < b /\ \E n \in 0..2 : SetSlice(a, b, n)
      BY <2>5
    <3>2. a <= b
      BY <2>1, <3>1
    <3> QED BY <2>1, <3>1, <3>2, SetSliceKeeps
  <2>6. CASE \E b \in 0..Size : SetSlice(b, b, 2)
    <3>1. PICK b \in 0..Size : SetSlice(b, b, 2)
      BY <2>6
    <3>2. b <= b /\ 2 \in 0..2
      BY <2>1
    <3> QED BY <2>1, <3>1, <3>2, SetSliceKeeps
  <2>7. CASE \E order \in Bijection(1..Size, 1..Size) : Reorder(order)
    BY <2>1, <2>7, ReorderKeeps
  <2>8. CASE Clear \/ Format \/ SetMultiline \/ Collapse
    BY <2>1, <2>8, ClearKeeps, LayoutKeeps
  <2>9. CASE \E k \in 1..Size : \/ SetItem(k) \/ SetComment(k) \/ DelComment(k)
                                \/ SetLeading(k) \/ DelLeading(k) \/ SetBlock(k) \/ DelBlock(k)
    BY <2>1, <2>9, SetItemKeeps, WritesKeep, DeletionsKeep
  <2> QED BY <2>1, <2>2, <2>3, <2>4, <2>5, <2>6, <2>7, <2>8, <2>9 DEF Edit
<1> QED BY <1>1, <1>2

-----------------------------------------------------------------------------
(* What the invariant says of the text.                                    *)

(* The text of a value made of gaps: items and commas between them are no  *)
(* comments, so every comment in it ends its line.                         *)
LEMMA RenderedEnded ==
  ASSUME NEW v \in ValueType
  PROVE  EndsLines(Render(v))
<1> DEFINE All == Trivia \cup {COMMA} \cup Item0
           n   == Len(v.items)
           part(k) == <<v.items[k].id>> \o RenderTail(v.items[k])
           parts == [k \in 1..n |-> part(k)]
<1>1. n \in Nat /\ v.opening \in Gap /\ \A k \in 1..n : v.items[k] \in ItemType /\ v.items[k].id \in Item0
  BY ValueParts
<1>2. ASSUME NEW t \in Gap PROVE t \in Ended(All)
  <2>1. t \in Ended(Trivia) /\ \A i \in 1..Len(t) : t[i] \in Trivia
    BY EndedMeaning DEF Gap
  <2>2. \A i \in 1..Len(t) : t[i] \in All
    BY <2>1
  <2> HIDE DEF All
  <2> QED BY <2>1, <2>2, EndedWithin
<1>3. ASSUME NEW x \in All, ~IsComment(x) PROVE <<x>> \in Ended(All)
  <2> HIDE DEF All
  <2>1. <<x>> \in Seq(All) /\ \A i \in 1..Len(<<x>>) : <<x>>[i] = x
    OBVIOUS
  <2> QED BY <1>3, <2>1, EndedFrom
<1>4. ASSUME NEW k \in 1..n PROVE part(k) \in Ended(All)
  <2> DEFINE it == v.items[k]
             mid == IF it.comma THEN <<COMMA>> \o it.after ELSE <<>>
  <2>1. it \in ItemType /\ it.id \in Item0
    BY <1>1
  <2> HIDE DEF it
  <2>2. it.before \in Gap /\ it.after \in Gap /\ it.following \in Gap
    BY <2>1, ItemParts
  <2>3. <<it.id>> \in Ended(All)
    <3>1. it.id \in All /\ ~IsComment(it.id)
      BY <2>1, CommaArrayAssumption DEF IsGap
    <3> QED BY <1>3, <3>1
  <2>4. <<COMMA>> \in Ended(All)
    <3>1. COMMA \in All /\ ~IsComment(COMMA)
      BY TokensDiffer
    <3> QED BY <1>3, <3>1
  <2> HIDE DEF All
  <2>5. mid \in Ended(All)
    <3>1. <<COMMA>> \o it.after \in Ended(All)
      BY <1>2, <2>2, <2>4, EndedJoin
    <3>2. <<>> \in Ended(All)
      BY <1>2, SmallGaps
    <3> QED BY <3>1, <3>2
  <2>6. RenderTail(it) = it.before \o mid \o it.following
    BY DEF RenderTail
  <2> HIDE DEF mid
  <2>7. it.before \o mid \in Ended(All)
    BY <1>2, <2>2, <2>5, EndedJoin
  <2>8. RenderTail(it) \in Ended(All)
    BY <1>2, <2>2, <2>6, <2>7, EndedJoin
  <2>9. part(k) = <<it.id>> \o RenderTail(it)
    BY DEF it
  <2> QED BY <2>3, <2>8, <2>9, EndedJoin
<1>5. Render(v) = v.opening \o FlattenSeq(parts)
  BY DEF Render
<1> HIDE DEF All, part
<1>6. parts \in Seq(Ended(All))
  BY <1>1, <1>4
<1> HIDE DEF parts
<1>7. FlattenSeq(parts) \in Ended(All)
  BY <1>6, FlattenEnded
<1>8. Render(v) \in Ended(All)
  BY <1>1, <1>2, <1>5, <1>7, EndedJoin
<1> QED BY <1>8 DEF Ended

(* What the invariant says in the terms of CommaArray. *)
LEMMA ArrayMeaning ==
  ASSUME ArrayInv
  PROVE  TypeOK /\ ListInStep /\ CommentsEndLines
<1>1. cv \in ValueType /\ list = Ids(cv) /\ list \in Seq(Item0)
  BY ArrayFacts
<1>2. EndsLines(Render(cv))
  BY <1>1, RenderedEnded
<1>3. \A t \in Gap : t \in Seq(Comment \cup {WS, NL})
  BY EndedMeaning DEF Gap, Trivia
<1> DEFINE T == [id : Item0, comma : BOOLEAN, before : Seq(Comment \cup {WS, NL}),
                 after : Seq(Comment \cup {WS, NL}), following : Seq(Comment \cup {WS, NL})]
<1>4. \A it \in ItemType : it \in T
  BY <1>3 DEF ItemType
<1>5. cv.opening \in Seq(Comment \cup {WS, NL}) /\ cv.items \in Seq(T)
  <2>1. cv.opening \in Gap /\ cv.items \in Seq(ItemType)
    BY <1>1, ValueParts
  <2> HIDE DEF T
  <2> QED BY <1>3, <1>4, <2>1
<1>6. cv \in [opening : Seq(Comment \cup {WS, NL}), items : Seq(T)]
  <2>1. cv = [opening |-> cv.opening, items |-> cv.items]
    BY <1>1, ValueParts
  <2> HIDE DEF T
  <2> QED BY <1>5, <2>1
<1>7. cache \in {"unset", "multi", "single"} /\ left \in Nat
  BY DEF ArrayInv, Shapes
<1> QED BY <1>1, <1>2, <1>6, <1>7 DEF TypeOK, ListInStep, CommentsEndLines

(* Every step of an array keeps its parts: what lies between the items is  *)
(* trivia whose comments end their lines, whichever edit wrote it.         *)
THEOREM ArrayHolds == Spec => []ArrayInv
<1>1. Init => ArrayInv
  BY InitTyped
<1>2. ArrayInv /\ [Next]_vars => ArrayInv'
  BY EditKeeps
<1> QED BY <1>1, <1>2, PTL DEF Spec

(* The parts of an array are of their types after every edit: the value of *)
(* tomlrt/_values.py, the decoded list, the memo of the shape.              *)
THEOREM CommaTypeOK == Spec => []TypeOK
<1>1. ArrayInv => TypeOK
  BY ArrayMeaning
<1> QED BY <1>1, ArrayHolds, PTL

(* The text and the decoded list have the same items in the same order     *)
(* after every edit of tomlrt/_array.py, which changes each on its own way. *)
THEOREM ListStaysInStep == Spec => []ListInStep
<1>1. ArrayInv => ListInStep
  BY ArrayMeaning
<1> QED BY <1>1, ArrayHolds, PTL

(* No edit of tomlrt/_comma_ops.py, _comma_comments.py or _format.py joins  *)
(* a comment to what comes behind it.                                       *)
THEOREM CommentsAlwaysEndLines == Spec => []CommentsEndLines
<1>1. ArrayInv => CommentsEndLines
  BY ArrayMeaning
<1> QED BY <1>1, ArrayHolds, PTL
=============================================================================
