----------------------------- MODULE CommaFormat ----------------------------
(***************************************************************************)
(* The two shapes of an inline value (tomlrt/_format.py): one row, or one  *)
(* row per item with a trailing comma.  Options are the defaults; the text *)
(* of comments and nested values are left as they are.                     *)
(***************************************************************************)
EXTENDS CommaEdits

Indent     == <<WS>>   \* item_indent
CloserPad  == <<>>     \* outer_indent of a value whose row starts flush left

(* _compose_pad: the break, unless a comment ended the row; block; indent. *)
ComposePad(headEol, above, indent, closed) ==
  LET head == IF headEol # <<>> \/ closed THEN headEol ELSE <<NL>>
      text == head \o above \o indent
  IN  IF headEol = <<>> /\ above = <<>> THEN text
      ELSE CanonText(text, Indent, headEol # <<>> \/ ~closed)

(* _format_above *)
FormatAbove(t, closed) ==
  CASE ~HasComment(ItemAbove(t))          -> <<>>
    [] HasComment(ItemAbove(t)) /\ closed -> ItemHead(t) \o ItemAbove(t)
    [] OTHER                              -> ItemAbove(t)

(* _format_above_block *)
FormatAboveBlock(block) == IF HasComment(block) THEN block ELSE <<>>

(* _write_item_eol: the first comment on the row, the others below it. *)
EolRows(comments) ==
  FlattenSeq([k \in 1..Len(comments) |-> <<WS, comments[k], NL>>])

(* The blocks above the items, lifted out before their boundaries are      *)
(* rebuilt. *)
AboveBlocks(cv) ==
  [k \in 1..Len(cv.items) |->
     IF HasComment(OwnText(cv)) THEN FormatAboveBlock(Above(Capture(cv, k - 1))) ELSE <<>>]
Harvested(cv) ==
  LET upto[k \in 0..Len(cv.items)] == IF k = 0 THEN cv ELSE ClearAboveBlock(upto[k - 1], k)
  IN  IF ~HasComment(OwnText(cv)) THEN cv ELSE upto[Len(cv.items)]

(* _canon_multi_line_items, for item k of n *)
ItemComments(it) == CommentsIn(it.before \o it.after)
CanonItem(it, k, n, blocks) ==
  LET comments == ItemComments(it)
      closed   == comments # <<>>
  IN  Item(it.id, <<>>, TRUE, EolRows(comments),
           IF k < n THEN ComposePad(<<>>, blocks[k + 1], Indent, closed)
           ELSE ComposePad(<<>>, FormatAbove(it.following, closed), CloserPad, closed))

(* Mutant: the items' blocks are not carried over. *)
ShapedMutant(cv, blocks) ==
  [opening |-> ComposePad(EolPart(cv.opening), <<>>, Indent, FALSE),
   items   |-> [k \in 1..Len(cv.items) |->
                  CanonItem(cv.items[k], k, Len(cv.items), [j \in DOMAIN blocks |-> <<>>])]]

(* _canon_multiline_shape once the blocks are lifted out *)
Shaped(cv, blocks) ==
  [opening |-> IF cv.items # <<>> THEN ComposePad(EolPart(cv.opening), blocks[1], Indent, FALSE)
               ELSE ComposePad(EolPart(cv.opening), PadAbove(cv.opening), CloserPad, FALSE),
   items   |-> [k \in 1..Len(cv.items) |->
                  CanonItem(cv.items[k], k, Len(cv.items), blocks)]]
MultilineShape(cv) == Shaped(Harvested(cv), AboveBlocks(cv))

(* _canon_single_line_inline *)
SingleLineShape(cv) ==
  LET n     == Len(cv.items)
      inner == IF cv.items # <<>> THEN SingleLinePad ELSE <<>>
  IN  [opening |-> inner,
       items   |-> [k \in 1..n |-> Item(cv.items[k].id, <<>>, k < n, <<>>,
                                        IF k < n THEN <<WS>> ELSE inner)]]

(* set_comma_value_multiline refuses to orphan a comment. *)
Collapsible(cv) == ~HasComment(OwnText(cv))

(* _canon_inline_value *)
Formatted(cv, multi) == IF multi THEN MultilineShape(cv) ELSE SingleLineShape(cv)
=============================================================================
