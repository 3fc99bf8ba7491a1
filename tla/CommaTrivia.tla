----------------------------- MODULE CommaTrivia ----------------------------
(***************************************************************************)
(* The text between the items of an inline array or table, and the helpers *)
(* that cut it (tomlrt/_trivia.py).  A text is a sequence of tokens: WS,   *)
(* a run of inline whitespace of any width; NL, a line terminator; a       *)
(* comment, which runs to the end of its line.  COMMA and the names of the *)
(* items stand between the gaps of a whole value.                          *)
(***************************************************************************)
EXTENDS Integers, Sequences, FiniteSets, SequencesExt, FiniteSetsExt, ListOps

CONSTANT Comment    \* the comment tokens

WS    == "ws"
NL    == "nl"
COMMA == ","
None  == "none"     \* Python's None

ASSUME CommentAssumption == {WS, NL, COMMA, None} \cap Comment = {}

IsComment(token) == token \in Comment
IsGap(token)     == token \in {WS, NL, COMMA} \/ IsComment(token)
HasNl(t)         == \E i \in DOMAIN t : t[i] = NL
HasComment(t)    == \E i \in DOMAIN t : IsComment(t[i])
CommentsIn(t)    == Keeping(t, Comment)

(* The first n tokens of t, and what follows them. *)
Upto(t, n) == SubSeq(t, 1, n)
From(t, n) == SubSeq(t, n + 1, Len(t))

-----------------------------------------------------------------------------
(* Whitespace at either end.  A core length leaves out the trailing run.   *)

LeadingWs(t) == Min({i \in 0..Len(t) : i = Len(t) \/ t[i + 1] # WS})
CoreLen(t)   == Max({0} \cup {i \in DOMAIN t : t[i] # WS})

StripTrailingWs(t) == Upto(t, CoreLen(t))
TrailingWs(t)      == From(t, CoreLen(t))
StripLeadingWs(t)  == From(t, LeadingWs(t))

(* _first_newline_end *)
FirstNl(t) == SelectInSeq(t, LAMBDA token : token = NL)
LastNl(t)  == Max({0} \cup {i \in DOMAIN t : t[i] = NL})

(* leading_break: the length of the row break t starts with, or 0. *)
LeadingBreak(t) ==
  LET k == LeadingWs(t) + 1 IN IF k <= Len(t) /\ t[k] = NL THEN k ELSE 0

(* split_eol_section: the length of t's comment on the row, with its end. *)
EolLen(t) ==
  LET k == LeadingWs(t) + 1
  IN  IF k > Len(t) \/ ~IsComment(t[k]) THEN 0
      ELSE IF k < Len(t) /\ t[k + 1] = NL THEN k + 1 ELSE k

EolPart(t) == Upto(t, EolLen(t))
EolRest(t) == From(t, EolLen(t))

(* split_item_above: a leading newline, the block, the trailing indent. *)
ItemHead(t)  == IF t # <<>> /\ t[1] = NL THEN <<NL>> ELSE <<>>
ItemAbove(t) == StripTrailingWs(From(t, Len(ItemHead(t))))
ItemTail(t)  == TrailingWs(From(t, Len(ItemHead(t))))

(* split_above_block of a bracket pad *)
PadAbove(t) ==
  LET middle == StripTrailingWs(From(t, FirstNl(t)))
  IN  IF HasNl(t) /\ HasComment(middle) THEN middle ELSE <<>>

-----------------------------------------------------------------------------
(* Lines.                                                                  *)

NlEnds(t) == Keeping([i \in 1..Len(t) |-> i], {i \in DOMAIN t : t[i] = NL})

(* split_lines: each line keeps its terminator; the last may have none. *)
LinesOf(t) ==
  LET ends   == NlEnds(t)
      starts == <<0>> \o ends
      whole  == [k \in 1..Len(ends) |-> SubSeq(t, starts[k] + 1, ends[k])]
  IN  IF LastNl(t) = Len(t) THEN whole ELSE Append(whole, From(t, LastNl(t)))

(* _split_attached_block: where the attached comment run starts, after the *)
(* last blank line. *)
AttachedFrom(t) ==
  Max({0} \cup {i \in DOMAIN t : t[i] = NL /\ (i = 1 \/ ~IsComment(t[i - 1]))})

(* Mutant: a blank line is written as a comment. *)
RenderLinesMutant(block, indent) ==
  FlattenSeq([k \in 1..Len(block) |-> indent \o <<block[k], NL>>])

(* _render_comment_lines: None stands for a blank line. *)
RenderLines(block, indent) ==
  FlattenSeq([k \in 1..Len(block) |->
                IF block[k] = None THEN <<NL>> ELSE indent \o <<block[k], NL>>])

(* _canon_trivia_text: comments at the given indent, but for one on the    *)
(* bracket's row; runs of blank lines collapse. *)
CanonText(t, indent, firstIsEol) ==
  LET lines == LinesOf(t)
      blank(k) == /\ Last(lines[k]) = NL /\ ~HasComment(lines[k])
                  /\ ~(firstIsEol /\ k = 1)
      canon(k) ==
        CASE HasComment(lines[k]) ->
               (IF firstIsEol /\ k = 1 THEN Upto(lines[k], LeadingWs(lines[k])) ELSE indent)
                 \o StripLeadingWs(lines[k])
          [] blank(k) -> IF k > 1 /\ blank(k - 1) THEN <<>> ELSE <<NL>>
          [] ~HasComment(lines[k]) /\ ~blank(k) /\ HasNl(lines[k]) -> <<NL>>
          [] OTHER -> lines[k]
  IN  FlattenSeq([k \in 1..Len(lines) |-> canon(k)])

-----------------------------------------------------------------------------
(* Pads of an empty value.                                                 *)

(* restamp_bracket_pad_for_first: the pads before and after a first item *)
FirstOpening(pad) ==
  LET indent == Upto(From(pad, LastNl(pad)), LeadingWs(From(pad, LastNl(pad))))
  IN  IF ~HasNl(pad) THEN pad
      ELSE Upto(pad, LastNl(pad)) \o (IF indent = <<>> THEN <<WS>> ELSE indent)
FirstFinal(pad) == IF HasNl(pad) THEN <<NL>> ELSE pad

(* emptied_bracket_pad *)
EmptiedPad(opening, closing) ==
  LET kept == StripTrailingWs(opening)
  IN  CASE ~HasComment(opening) -> closing
        [] HasComment(opening) /\ Last(kept) = NL /\ closing # <<>> /\ closing[1] = NL ->
             kept \o Tail(closing)
        [] OTHER -> kept \o closing
=============================================================================
