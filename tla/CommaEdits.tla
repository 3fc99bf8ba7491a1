----------------------------- MODULE CommaEdits -----------------------------
(***************************************************************************)
(* The structural edits of an inline value and the writes of its comments: *)
(* the operations of tomlrt/_comma_ops.py and _comma_comments.py.  Item k  *)
(* is items[k - 1] in Python, boundary b is boundary b.                    *)
(***************************************************************************)
EXTENDS CommaBoundary

CONSTANT SingleLinePad   \* CommaValue._single_line_pad: none in `[ ]`, WS in `{ }`
ASSUME SingleLinePadAssumption == SingleLinePad \in Seq({WS})

(* _value_indent: that of the first indented row; flush left if no row is. *)
RowRuns(cv) == {cv.opening} \cup {RenderTail(cv.items[k]) : k \in 1..Len(cv.items)}
ValueIndent(cv) ==
  IF \E t \in RowRuns(cv) : \E i \in 1..(Len(t) - 1) : t[i] = NL /\ t[i + 1] = WS
    THEN <<WS>>
  ELSE IF \E t \in RowRuns(cv) : HasNl(t) THEN <<>> ELSE <<WS>>

(* detect_style *)
SeparatorOf(cv, multi, leader) ==
  LET sampled == IF Len(cv.items) >= 2
                   THEN ItemHead(cv.items[1].following) \o ItemTail(cv.items[1].following)
                   ELSE <<WS>>
  IN  IF multi /\ ~leader /\ ~HasNl(sampled) THEN <<NL>> \o ValueIndent(cv) ELSE sampled
DetectStyle(cv, multi) ==
  LET leader == cv.items # <<>> /\ BreaksBeforeComma(cv.items[1])
  IN  [multi     |-> multi,
       separator |-> SeparatorOf(cv, multi, leader),
       trailing  |-> IF cv.items # <<>> THEN Last(cv.items).comma ELSE multi,
       preBreak  |-> IF leader THEN <<NL>> \o TrailingWs(cv.items[1].before) ELSE <<>>]
CommaFirst(style) == style.preBreak # <<>>

(* _structural_break *)
StructuralBreak(it) ==
  [it EXCEPT !.following = ShiftBreaks(@, IF HasNl(EolChannel(it)) THEN -1 ELSE 0)]

(* flip_to_internal *)
FlipToInternal(it) ==
  IF it.comma THEN it ELSE PutEol([WithoutEol(it) EXCEPT !.comma = TRUE], TakenEol(it))

(* _shift_carried_boundary, _carry_above *)
ShiftCarriedAt(cv, b, old) ==
  Restore(cv, b, ShiftCarried(Capture(cv, b), old, ValueIndent(cv), b >= Len(cv.items)))
CarryAboveAt(cv, b, source, indent, positional) ==
  Restore(cv, b, CarryAbove(Capture(cv, b), source, indent, positional))

(* _detach_above: what stood above boundary b is lifted out. *)
DetachAbove(cv, b) ==
  IF HasComment(Above(Capture(cv, b))) THEN Restore(cv, b, RemoveAbove(Capture(cv, b))) ELSE cv

(* _rehome_above *)
RehomeAbove(cv, b, source, style) ==
  IF ~HasComment(Above(source)) THEN cv
  ELSE CarryAboveAt(cv, b, source,
                    IF CommaFirst(style) THEN TrailingWs(style.preBreak) ELSE ValueIndent(cv),
                    TRUE)

-----------------------------------------------------------------------------
(* splice_in: append one item.                                             *)

FirstItem(cv, id, style) ==
  LET bare == cv.opening = <<>>
  IN  [opening |-> IF bare THEN SingleLinePad ELSE FirstOpening(cv.opening),
       items   |-> <<Item(id, <<>>, style.trailing, <<>>,
                          IF bare THEN SingleLinePad ELSE FirstFinal(cv.opening))>>]

WithoutBreaks(eol) == Keeping(eol, Comment \cup {WS})

FormerTail(it, style) ==
  LET led == [it EXCEPT !.following = style.separator]
  IN  IF CommaFirst(style)
        THEN [WithoutEol(led) EXCEPT !.before = WithoutBreaks(TakenEol(led)) \o style.preBreak,
                                     !.comma = TRUE]
        ELSE IF style.multi THEN StructuralBreak(FlipToInternal(led)) ELSE FlipToInternal(led)

AppendedItem(id, final, style) ==
  Item(id, <<>>, style.trailing, <<>>,
       IF CommaFirst(style) /\ ~HasNl(final) THEN <<NL>> \o final ELSE final)

AppendTail(cv, id, style) ==
  [cv EXCEPT !.items = Front(@) \o <<FormerTail(Last(@), style),
                                     AppendedItem(id, Last(@).following, style)>>]

SpliceIn(cv, id, style) ==
  LET n   == Len(cv.items)
      old == Capture(cv, n)
      appended == AppendTail(DetachAbove(cv, n), id, style)
      settled  == IF style.multi /\ ~CommaFirst(style)
                    THEN ShiftCarriedAt(appended, n + 1, old) ELSE appended
  IN  IF n = 0 THEN FirstItem(cv, id, style)
      ELSE RehomeAbove(settled, n, old, style)

(* Append items one at a time with one sampled style: _append_with_style.  *)
(* _extend_prepared samples it again while there are at most two items. *)
Extended(acc, id) ==
  LET next == SpliceIn(acc.cv, id, acc.style)
  IN  [cv |-> next,
       style |-> IF Len(next.items) <= 2 THEN DetectStyle(next, acc.style.multi) ELSE acc.style]
ExtendWith(cv, ids, multi) ==
  LET upto[n \in 0..Len(ids)] ==
        IF n = 0 THEN [cv |-> cv, style |-> DetectStyle(cv, multi)]
        ELSE Extended(upto[n - 1], ids[n])
  IN  upto[Len(ids)].cv

-----------------------------------------------------------------------------
(* splice_insert: a run of items before item b + 1.                        *)

NewItems(ids, style, last) ==
  [k \in 1..Len(ids) |->
     Item(ids[k], style.preBreak, TRUE, <<>>, IF k = Len(ids) THEN last ELSE style.separator)]

InsertItems(cv, ids, b, style) ==
  LET carried == IF b = 0 THEN style.separator ELSE cv.items[b].following
      run     == NewItems(ids, style, carried)
      led     == IF b = 0 THEN cv.items
                 ELSE [cv.items EXCEPT ![b].following = style.separator]
  IN  [cv EXCEPT !.items = Upto(led, b) \o run \o From(led, b)]

InsertRun(cv, ids, b, style) ==
  LET old      == Capture(cv, b)
      count    == Len(ids)
      inserted == InsertItems(DetachAbove(cv, b), ids, b, style)
      fresh    == IF b = 0 THEN count ELSE b
      broken   == [inserted EXCEPT !.items[fresh] = StructuralBreak(@)]
      settled  == CASE ~style.multi \/ CommaFirst(style) -> inserted
                    [] style.multi /\ ~CommaFirst(style) /\ b = 0 -> broken
                    [] OTHER -> ShiftCarriedAt(broken, b + count, old)
  IN  RehomeAbove(settled, b + count, old, style)

(* Mutant: the rest go in where the first did. *)
SpliceInsertMutant(cv, ids, b, multi) ==
  LET first == InsertRun(cv, Upto(ids, 1), b, DetectStyle(cv, multi))
  IN  IF Len(ids) = 1 THEN first
      ELSE InsertRun(first, Tail(ids), b, DetectStyle(first, multi))

(* The first insertion can change the sampled style; the rest share one. *)
SpliceInsert(cv, ids, b, multi) ==
  LET first == InsertRun(cv, Upto(ids, 1), b, DetectStyle(cv, multi))
  IN  IF Len(ids) = 1 THEN first
      ELSE InsertRun(first, Tail(ids), b + 1, DetectStyle(first, multi))

-----------------------------------------------------------------------------
(* splice_out: remove the items at the given positions.                    *)

(* The runs of the positions I of n items, as Python numbers them *)
RunsOf(I, n) == IndexRuns(Keeping([i \in 1..n |-> i - 1], {i - 1 : i \in I}))

(* The item left last takes over the end: its row comment, the removed     *)
(* last item's comma and closing pad. *)
NewTerminal(it, comma) ==
  LET bare == WithoutEol(it)
  IN  PutEol([bare EXCEPT !.after = <<>>, !.comma = comma,
                          !.before = IF ~comma /\ HasNl(@) THEN <<>> ELSE @],
             TakenEol(it))

(* Close up over the removed runs <<start, stop>>, then delete them. *)
CloseUp(cv, runs) ==
  [cv EXCEPT !.items =
     DeleteRuns([k \in 1..Len(@) |->
        IF \E r \in DOMAIN runs : runs[r][1] = k
          THEN [@[k] EXCEPT !.following =
                  cv.items[runs[CHOOSE r \in DOMAIN runs : runs[r][1] = k][2]].following]
          ELSE @[k]], runs)]

EndRun(runs, n)   == Last(runs)[2] = n /\ Last(runs)[1] > 0
InnerRuns(runs, n) == Keeping(runs, {r \in ToSet(runs) : r[1] > 0 /\ r[2] < n})
(* where the seam of an inner run comes to be *)
SeamAfter(run, I) == run[1] - Cardinality({i \in I : i <= run[1]})

(* The last survivor before the removed end, made terminal. *)
Retire(cv, runs) ==
  LET start == Last(runs)[1]
      bare  == Restore(cv, start, RemoveAbove(Capture(cv, start)))
  IN  IF ~EndRun(runs, Len(cv.items)) THEN cv
      ELSE [bare EXCEPT !.items[start] = NewTerminal(@, Last(cv.items).comma)]

(* Every boundary next to a removed run has one structural break again. *)
ShiftSeams(cv, was, runs, I) ==
  LET n     == Len(was.items)
      inner == InnerRuns(runs, n)
      upto[j \in 0..Len(inner)] ==
        IF j = 0
          THEN IF EndRun(runs, n) THEN ShiftCarriedAt(cv, Len(cv.items), Capture(was, n)) ELSE cv
          ELSE ShiftCarriedAt(upto[j - 1], SeamAfter(inner[j], I), Capture(was, inner[j][2]))
  IN  upto[Len(inner)]

(* The blocks above the survivors and above the bracket, put back. *)
ReplaceBlocks(cv, was, runs, I) ==
  LET n     == Len(was.items)
      first == IF runs[1][1] = 0 /\ runs[1][2] < n THEN {runs[1][2]} ELSE {}
      inner == InnerRuns(runs, n)
      kept  == first \cup {inner[r][2] : r \in DOMAIN inner}
                     \cup (IF EndRun(runs, n) THEN {Last(runs)[1], n} ELSE {})
      indent == IF \E b \in kept : Above(Capture(was, b)) # <<>> THEN ValueIndent(cv) ELSE <<>>
      headed == IF first = {} THEN cv
                ELSE CarryAboveAt(cv, 0, Capture(was, runs[1][2]), indent, FALSE)
      seamed[j \in 0..Len(inner)] ==
        IF j = 0 THEN headed
        ELSE CarryAboveAt(seamed[j - 1], SeamAfter(inner[j], I), Capture(was, inner[j][2]),
                          indent, FALSE)
      all == seamed[Len(inner)]
  IN  IF EndRun(runs, n) THEN CarryAboveAt(all, Len(all.items), Capture(was, n), <<>>, FALSE)
      ELSE all

Emptied(cv) ==
  [opening |-> EmptiedPad(cv.opening, Last(cv.items).following), items |-> <<>>]

SpliceOut(cv, I, multi) ==
  LET n    == Len(cv.items)
      runs == RunsOf(I, n)
      left == CloseUp(Retire(cv, runs), runs)
  IN  IF Cardinality(I) = n THEN Emptied(cv)
      ELSE ReplaceBlocks(IF multi THEN ShiftSeams(left, cv, runs, I) ELSE left, cv, runs, I)

-----------------------------------------------------------------------------
(* reorder_owned: the items at the owned positions change places, position *)
(* p taking the item from source[p]; boundaries stay but for the comments. *)

(* Mutant: the row comment stays with the place. *)
ShellMutant(cv, b, owned, source, multi) ==
  LET bound == Capture(cv, b)
      clear == IF b + 1 \in owned /\ HasComment(Above(bound)) THEN RemoveAbove(bound) ELSE bound
  IN  IF b + 1 \in owned
        THEN CarryAbove(clear, Capture(cv, source[b + 1] - 1), ValueIndent(cv), TRUE) ELSE clear

Shell(cv, b, owned, source, multi) ==
  LET bound == Capture(cv, b)
      clear == IF b + 1 \in owned /\ HasComment(Above(bound)) THEN RemoveAbove(bound) ELSE bound
      left  == IF b \in owned THEN PutEolFrom(RemoveEol(clear), Capture(cv, source[b]), bound)
               ELSE clear
      whole == IF multi /\ b \in owned
                 THEN ShiftCarried(left, bound, ValueIndent(cv), b = Len(cv.items)) ELSE left
  IN  IF b + 1 \in owned
        THEN CarryAbove(whole, Capture(cv, source[b + 1] - 1), ValueIndent(cv), TRUE) ELSE whole

ReorderOwned(cv, owned, source, multi) ==
  LET touched == owned \cup {p - 1 : p \in owned}
      at(k)   == IF k \in owned THEN source[k] ELSE k
      seam(k) == RestoreSeam([cv.items[k] EXCEPT !.id = cv.items[at(k)].id],
                             Shell(cv, k, owned, source, multi))
  IN  [opening |-> IF 0 \in touched
                     THEN JoinLane(Shell(cv, 0, owned, source, multi).following)
                     ELSE cv.opening,
       items   |-> [k \in 1..Len(cv.items) |->
                      IF k \in touched THEN seam(k) ELSE cv.items[k]]]
-----------------------------------------------------------------------------
(* Writes of the comments of item k (tomlrt/_comma_comments.py).           *)

(* reindent_as_leader *)
ReindentAsLeader(t, indent) == indent \o StripLeadingWs(t)

(* Mutant: the break the comment's own newline replaces is kept. *)
SetEolMutant(cv, k, comment) ==
  LET it == cv.items[k]
  IN  [cv EXCEPT !.items[k] =
         SetEolChannel(it, <<WS, comment, NL>> \o EolRest(EolChannel(it)))]

(* Mutant: the row's break goes with the old comment, and the new one has  *)
(* none of its own. *)
SetEolBareMutant(cv, k, comment) ==
  LET it == cv.items[k]
  IN  [cv EXCEPT !.items[k] =
         SetEolChannel(it, <<WS, comment>> \o EolRest(EolChannel(it)))]

(* _set_eol_raw: the comment ends with a newline of its own, so the one    *)
(* that ended the row goes, from the channel or from what follows. *)
SetEol(cv, k, comment) ==
  LET it   == cv.items[k]
      rest == EolRest(EolChannel(it))
      had  == EolLen(EolChannel(it)) > 0
      open == ~had /\ ItemHead(rest) = <<>>
      led  == IF LeadingBreak(it.following) > 0 THEN ShiftBreaks(it.following, -1)
              ELSE ReindentAsLeader(it.following, ValueIndent(cv))
      moved == [it EXCEPT !.following = IF open THEN led ELSE @]
  IN  [cv EXCEPT !.items[k] =
         SetEolChannel(moved, <<WS, comment, NL>>
                                \o (IF had THEN rest ELSE From(rest, Len(ItemHead(rest)))))]

(* _del_eol: the break of the row outlives its comment. *)
DelEol(cv, k) ==
  LET it   == cv.items[k]
      rest == EolRest(EolChannel(it))
      bare == SetEolChannel(it, <<>>)
  IN  [cv EXCEPT !.items[k] =
         IF it.comma /\ EolOnBefore(it) THEN [it EXCEPT !.before = <<NL>> \o rest]
         ELSE [bare EXCEPT !.following = <<NL>> \o rest \o @]]

(* _set_attached_comments and _clear_attached_comments: the comments right *)
(* above item k, earlier lines kept. *)
AttachedBlock(bound) ==
  bound[IF AttachedLane(bound) = None THEN TargetLane(bound) ELSE AttachedLane(bound)].above
WriteAttached(cv, k, lines, indent) ==
  LET bound == Capture(cv, k - 1)
      part  == AttachedBlock(bound)
  IN  Restore(cv, k - 1,
              SetAttached(bound, Upto(part, AttachedFrom(part)) \o lines, indent))
SetAttachedComments(cv, k, comments) ==
  WriteAttached(cv, k, RenderLines(comments, ValueIndent(cv)), ValueIndent(cv))
ClearAttachedComments(cv, k) == WriteAttached(cv, k, <<>>, <<>>)

(* _set_above_block, _clear_above_block *)
SetAboveBlock(cv, k, block) ==
  Restore(cv, k - 1, SetAbove(Capture(cv, k - 1), RenderLines(block, ValueIndent(cv)),
                              ValueIndent(cv)))
ClearAboveBlock(cv, k) == Restore(cv, k - 1, RemoveAbove(Capture(cv, k - 1)))
=============================================================================
