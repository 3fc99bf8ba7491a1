---------------------------- MODULE CommaBoundary ---------------------------
(***************************************************************************)
(* What lies between two items of an inline value, and who owns it: the    *)
(* items and gaps of tomlrt/_values.py and the Boundary of _comma_ops.py.  *)
(*                                                                         *)
(* A value is [opening, items]; an item is [id, before, comma, after,      *)
(* following], its text being `id before [, after] following`.  Boundary b *)
(* is the gap after the first b items, so boundary 0 is the opening.       *)
(***************************************************************************)
EXTENDS CommaTrivia

Item(id, before, comma, after, following) ==
  [id |-> id, before |-> before, comma |-> comma, after |-> after, following |-> following]

(* CommaItem.render_tail, and the whole interior of a value *)
RenderTail(it) ==
  it.before \o (IF it.comma THEN <<COMMA>> \o it.after ELSE <<>>) \o it.following
Render(cv) ==
  cv.opening \o FlattenSeq([k \in 1..Len(cv.items) |->
                              <<cv.items[k].id>> \o RenderTail(cv.items[k])])

Ids(cv) == [k \in 1..Len(cv.items) |-> cv.items[k].id]

(* _own_trivia_contains *)
OwnText(cv) ==
  cv.opening \o FlattenSeq([k \in 1..Len(cv.items) |->
                 cv.items[k].before \o cv.items[k].after \o cv.items[k].following])

(* _Parser._parse_array: the value a text is read as. *)
ParseItem(id, gap) ==
  LET comma == SelectInSeq(gap, LAMBDA token : token = COMMA)
      post  == From(gap, comma)
  IN  IF comma = 0 THEN Item(id, EolPart(gap), FALSE, <<>>, EolRest(gap))
      ELSE Item(id, Upto(gap, comma - 1), TRUE, EolPart(post), EolRest(post))
Parse(text) ==
  LET at  == Keeping([i \in 1..Len(text) |-> i], {i \in DOMAIN text : ~IsGap(text[i])})
      end == Append(at, Len(text) + 1)
  IN  [opening |-> Upto(text, end[1] - 1),
       items   |-> [k \in 1..Len(at) |->
                      ParseItem(text[at[k]], SubSeq(text, at[k] + 1, end[k + 1] - 1))]]

-----------------------------------------------------------------------------
(* The comment on an item's row.                                           *)

(* _eol_on_pre_comma *)
EolOnPreComma(pre, post, breaksBefore, comma) ==
  \/ breaksBefore /\ (EolLen(pre) > 0 \/ ~HasComment(post))
  \/ ~comma

(* _seam_breaks_before_comma, seam_eol_on_before *)
BreaksBeforeComma(it) == it.comma /\ HasNl(it.before)
EolOnBefore(it) == EolOnPreComma(it.before, it.after, BreaksBeforeComma(it), it.comma)

(* seam_eol_channel, set_seam_eol_channel *)
EolChannel(it) == IF EolOnBefore(it) THEN it.before ELSE it.after
SetEolChannel(it, t) == IF EolOnBefore(it) THEN [it EXCEPT !.before = t]
                        ELSE [it EXCEPT !.after = t]

(* _item_eol *)
ItemEol(it) == CommentsIn(EolPart(EolChannel(it)))

(* _take_eol, _put_eol *)
TakenEol(it)    == EolPart(EolChannel(it))
WithoutEol(it)  == SetEolChannel(it, EolRest(EolChannel(it)))
PutEol(it, eol) == IF it.comma THEN [it EXCEPT !.after = @ \o eol]
                   ELSE [it EXCEPT !.before = @ \o eol]

-----------------------------------------------------------------------------
(* Boundaries.  A lane is a gap cut into head, above and tail: the break,  *)
(* the block of whole lines, and the indent of what comes next.            *)

Lane(t, start) ==
  LET end == IF CoreLen(t) < start THEN start ELSE CoreLen(t)
  IN  [head |-> Upto(t, start), above |-> SubSeq(t, start + 1, end), tail |-> From(t, end)]
NoLane == [head |-> <<>>, above |-> <<>>, tail |-> <<>>]
JoinLane(lane) == lane.head \o lane.above \o lane.tail

(* Boundary.capture *)
CaptureOpening(opening) ==
  [before    |-> NoLane, after |-> <<>>, comma |-> FALSE, atOpening |-> TRUE,
   following |-> Lane(opening, IF HasNl(opening) THEN FirstNl(opening) ELSE Len(opening))]
CaptureSeam(it) ==
  [before    |-> Lane(it.before, IF BreaksBeforeComma(it) THEN FirstNl(it.before)
                                 ELSE Len(it.before)),
   after     |-> it.after, comma |-> it.comma, atOpening |-> FALSE,
   following |-> Lane(it.following,
                      IF HasNl(IF it.comma THEN it.after ELSE it.before) THEN 0
                      ELSE LeadingBreak(it.following))]
Capture(cv, b) == IF b = 0 THEN CaptureOpening(cv.opening) ELSE CaptureSeam(cv.items[b])

(* Boundary.restore *)
RestoreSeam(it, bound) ==
  Item(it.id, JoinLane(bound.before), bound.comma, bound.after, JoinLane(bound.following))
Restore(cv, b, bound) ==
  IF b = 0 THEN [cv EXCEPT !.opening = JoinLane(bound.following)]
  ELSE [cv EXCEPT !.items[b] = RestoreSeam(@, bound)]

BreakBeforeComma(bound) == bound.comma /\ HasNl(bound.before.head)
RowClosed(bound) == HasNl(IF bound.comma THEN bound.after ELSE bound.before.head)
FollowingBreaks(bound) ==
  ~bound.atOpening /\ ~RowClosed(bound) /\ LeadingBreak(bound.following.head) > 0

(* Boundary.eol_lane and eol *)
EolLane(bound) ==
  LET pre == JoinLane(bound.before)
      on  == EolOnPreComma(pre, bound.after, BreakBeforeComma(bound), bound.comma)
  IN  CASE on /\ EolLen(pre) > 0           -> "before"
        [] ~on /\ EolLen(bound.after) > 0  -> "after"
        [] OTHER                           -> None
BoundEol(bound) ==
  CASE EolLane(bound) = "before" -> EolPart(JoinLane(bound.before))
    [] EolLane(bound) = "after"  -> EolPart(bound.after)
    [] OTHER                     -> <<>>

Above(bound) == bound.before.above \o bound.following.above

(* target_lane, attached_lane, attached_above, target_above *)
TargetLane(bound) ==
  IF \/ bound.atOpening \/ ~BreakBeforeComma(bound) \/ RowClosed(bound)
     \/ bound.following.head # <<>> \/ bound.following.above # <<>>
    THEN "following" ELSE "before"
AttachedLane(bound) ==
  CASE bound.following.above # <<>> -> "following"
    [] bound.following.above = <<>> /\ bound.before.above # <<>>
         /\ ~RowClosed(bound) /\ bound.following.head = <<>> -> "before"
    [] OTHER -> None

(* Mutant: a row still open is not broken for the block. *)
ReplaceLaneMutant(bound, lane, block, indent) ==
  [bound EXCEPT ![lane].above = block,
                ![lane].tail  = IF block # <<>> /\ @ = <<>> THEN indent ELSE @]

(* replace_lane: a row still open breaks for the block. *)
ReplaceLane(bound, lane, block, indent) ==
  LET upstream == IF lane = "before" THEN BreakBeforeComma(bound)
                  ELSE ~bound.atOpening /\ RowClosed(bound)
      was      == bound[lane]
      promotes == block # <<>> /\ ~upstream /\ ~HasNl(was.head)
  IN  [bound EXCEPT ![lane] =
         [head  |-> IF promotes THEN StripTrailingWs(was.head) \o <<NL>> ELSE was.head,
          above |-> block,
          tail  |-> IF promotes \/ (block # <<>> /\ was.tail = <<>>) THEN indent
                    ELSE was.tail]]

RemoveAbove(bound) == [bound EXCEPT !.before.above = <<>>, !.following.above = <<>>]

(* remove_eol: a comma-first row keeps the break its comment ended with. *)
RemoveEol(bound) ==
  LET eol == EolPart(bound.before.head)
  IN  CASE EolLane(bound) = "before" ->
             [bound EXCEPT !.before.head =
                (IF BreakBeforeComma(bound) /\ eol # <<>> /\ Last(eol) = NL
                   THEN <<NL>> ELSE <<>>) \o EolRest(@)]
        [] EolLane(bound) = "after" -> [bound EXCEPT !.after = EolRest(@)]
        [] OTHER -> bound

(* set_above: a block that stands in both lanes is cut where it was. *)
SetAbove(bound, block, indent) ==
  LET was   == bound.before.above
      lines == LinesOf(block)
      cut   == Len(LinesOf(was))
      bare  == RemoveAbove(bound)
  IN  IF was # <<>> /\ bound.following.above # <<>>
        THEN ReplaceLane(
               ReplaceLane(bare, "before",
                           FlattenSeq(Upto(lines, Min({cut, Len(lines)}))), indent),
               "following", FlattenSeq(From(lines, cut)), indent)
        ELSE ReplaceLane(bare,
               CASE was # <<>>                    -> "before"
                 [] bound.following.above # <<>>  -> "following"
                 [] OTHER                         -> TargetLane(bound),
               block, indent)

(* set_attached *)
SetAttached(bound, block, indent) ==
  ReplaceLane(bound, IF AttachedLane(bound) = None THEN TargetLane(bound)
                     ELSE AttachedLane(bound), block, indent)

(* carry_above_from: the block of `source` comes to stand above the item   *)
(* after `bound`.  Blank lines alone stay where they are. *)
AppendTo(bound, lane, block, indent) ==
  ReplaceLane(bound, lane, bound[lane].above \o block, indent)
CarryAbove(bound, source, indent, positional) ==
  LET bare == IF positional /\ ~HasComment(Above(bound)) THEN bound ELSE RemoveAbove(bound)
      attached == AttachedLane(source) # "before"
                    \/ (~RowClosed(bound) /\ bound.following.head = <<>>)
  IN  CASE positional /\ ~HasComment(Above(source)) -> bare
        [] ~(positional /\ ~HasComment(Above(source)))
             /\ source.before.above # <<>> /\ BreakBeforeComma(bound) /\ attached ->
             AppendTo(AppendTo(bare, "before", source.before.above, indent),
                      "following", source.following.above, indent)
        [] OTHER -> AppendTo(bare, TargetLane(bound), Above(source), indent)

(* put_eol_from: source's row comment in the lane the place had one in. *)
PutEolFrom(bound, source, place) ==
  LET lane == CASE EolLane(place) # None -> EolLane(place)
                [] EolLane(place) = None /\ bound.comma
                     /\ ~(EolLane(source) = "before" /\ BreakBeforeComma(place)) -> "after"
                [] OTHER -> "before"
      put(t) == BoundEol(source) \o From(t, LeadingBreak(t))
  IN  CASE BoundEol(source) = <<>> -> bound
        [] BoundEol(source) # <<>> /\ lane = "before" ->
             [bound EXCEPT !.before.head = put(@)]
        [] OTHER -> [bound EXCEPT !.after = put(@)]

NeedsCarriedRepair(bound, old) ==
  \/ RowClosed(bound) # RowClosed(old)
  \/ BreakBeforeComma(bound) # BreakBeforeComma(old)

(* shift_breaks *)
ShiftBreaks(t, delta) ==
  CASE delta > 0 -> <<NL>> \o t
    [] delta < 0 -> From(t, LeadingBreak(t))
    [] OTHER     -> t

(* Mutant: a row whose comment moved away is not broken again. *)
ShiftCarriedMutant(bound, old, indent, terminal) == bound

(* shift_carried_from: one structural break after the left item moved. *)
ShiftCarried(bound, old, indent, terminal) ==
  LET closed == RowClosed(bound)
      breaks == ~closed /\ (RowClosed(old) \/ FollowingBreaks(old))
      delta  == (IF breaks THEN 1 ELSE 0) - (IF FollowingBreaks(old) THEN 1 ELSE 0)
      led(t) == CASE terminal \/ ~(closed \/ BreakBeforeComma(bound)) \/ LeadingBreak(t) > 0 -> t
                  [] OTHER -> (IF closed THEN indent ELSE <<>>) \o StripLeadingWs(t)
      recut(t) == Lane(t, IF closed THEN 0 ELSE LeadingBreak(t))
  IN  IF ~NeedsCarriedRepair(bound, old) THEN bound
      ELSE [bound EXCEPT !.following = recut(led(ShiftBreaks(JoinLane(@), delta)))]
=============================================================================
