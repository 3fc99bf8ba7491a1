----------------------------- MODULE CommaArray -----------------------------
(***************************************************************************)
(* An inline array (tomlrt/_array.py, _array_comments.py): the list of its *)
(* items, the value whose text spells them, the memo of that value's       *)
(* shape, and the edits of both.  The items are names, so an edit that     *)
(* moves a comment from one item to another shows.                         *)
(***************************************************************************)
EXTENDS CommaFormat

CONSTANTS
  Names,     \* names for items, at least those of the texts, in order of use
  Remarks,   \* comments to write, in order of use
  Text,      \* the values parsed: records [text |-> tokens, edits |-> Nat]
  MaxItems   \* bound: no edit makes an array longer

VARIABLES
  cv,     \* Array._value
  list,   \* the storage of the list the Array is
  cache,  \* CommaValue._ml_cache: unset, multi or single
  left,   \* bound: edits still allowed
  last    \* the edit just made, for the action properties

vars == <<cv, list, cache, left, last>>
view == <<cv, list, cache, left>>

Item0 == ToSet(Names)

(* What is between the brackets of an array that scans: a comment ends its *)
(* line, and a comma follows its item before there is another. *)
EndsLines(text) == \A i \in DOMAIN text : IsComment(text[i]) => i < Len(text) /\ text[i + 1] = NL
Scans(text) ==
  /\ text \in Seq(Comment \cup {WS, NL, COMMA} \cup Item0)
  /\ EndsLines(text)
  /\ \A i \in DOMAIN text : text[i] = COMMA =>
       \E m \in 1..(i - 1) : /\ text[m] \in Item0
                             /\ \A j \in m..(i - 1) : text[j] # COMMA

ASSUME CommaArrayAssumption ==
  /\ MaxItems \in Nat
  /\ \A t \in Text : t.edits \in Nat /\ Scans(t.text)
  /\ \A x \in Item0 : ~IsGap(x)
  /\ Names \in Seq(Item0) /\ Remarks \in Seq(Comment)

Size     == Len(cv.items)
FreshIds      == Keeping(Names, Item0 \ ToSet(list))
FreshComments == Keeping(Remarks, Comment \ ToSet(OwnText(cv)))

-----------------------------------------------------------------------------
(* What the comment views read: CommaEolView, CommaLeadingView and         *)
(* CommaLeadingBlockView.                                                  *)

Comments(v, k) == ItemEol(v.items[k])
LineComment(line) == IF HasComment(line) THEN CommentsIn(line)[1] ELSE None
BlockLines(text) == [j \in 1..Len(LinesOf(text)) |-> LineComment(LinesOf(text)[j])]
LeadingBlock(v, k) == BlockLines(Above(Capture(v, k - 1)))
AttachedTo(bound) ==
  IF AttachedLane(bound) = None THEN <<>>
  ELSE CommentsIn(From(bound[AttachedLane(bound)].above,
                       AttachedFrom(bound[AttachedLane(bound)].above)))
LeadingComments(v, k) == AttachedTo(Capture(v, k - 1))

(* CommaValue.is_multiline, through its memo *)
OwnMultiline(v) == HasNl(OwnText(v))
IsMultiline == IF cache = "unset" THEN OwnMultiline(cv) ELSE cache = "multi"
Warm == IF IsMultiline THEN "multi" ELSE "single"
(* The memo after promote() *)
AfterPromotion == IF IsMultiline THEN "multi" ELSE "unset"
Promoted == IF IsMultiline THEN cv ELSE MultilineShape(cv)

Done(op, items) == left' = left - 1 /\ last' = [op |-> op, items |-> items, wrote |-> <<>>]
Wrote(op, k, value) ==
  left' = left - 1 /\ last' = [op |-> op, items |-> {list[k]}, wrote |-> value]

-----------------------------------------------------------------------------
Init ==
  \E t \in Text :
    /\ cv = Parse(t.text) /\ list = Ids(cv)
    /\ cache = "unset" /\ left = t.edits /\ last = [op |-> "load", items |-> {}, wrote |-> <<>>]

(* append, and extend or *= with several values *)
Extend(n) ==
  LET ids == Upto(FreshIds, n)
  IN  /\ n + Size <= MaxItems /\ n <= Len(FreshIds)
      /\ cv' = ExtendWith(cv, ids, IsMultiline)
      /\ list' = list \o ids /\ cache' = Warm
      /\ Done("extend", ToSet(ids))

(* insert before item b + 1 *)
Insert(b) ==
  LET ids == Upto(FreshIds, 1)
  IN  /\ b < Size /\ Size < MaxItems /\ FreshIds # <<>>
      /\ cv' = SpliceInsert(cv, ids, b, IsMultiline)
      /\ list' = Upto(list, b) \o ids \o From(list, b) /\ cache' = Warm
      /\ Done("insert", ToSet(ids))

(* arr[k] = value: a new payload between the same boundaries *)
SetItem(k) ==
  /\ FreshIds # <<>>
  /\ cv' = [cv EXCEPT !.items[k].id = FreshIds[1]]
  /\ list' = [list EXCEPT ![k] = FreshIds[1]] /\ UNCHANGED cache
  /\ Done("set", {list[k]})

(* Mutant: the memo of the shape outlives the removed row. *)
DeleteMutant(I) ==
  /\ cv' = SpliceOut(cv, I, IsMultiline)
  /\ list' = DeleteRuns(list, RunsOf(I, Size))
  /\ cache' = Warm
  /\ Done("delete", {list[i] : i \in I})

(* del arr[k], del arr[start:stop:step], pop, remove *)
Delete(I) ==
  /\ cv' = SpliceOut(cv, I, IsMultiline)
  /\ list' = DeleteRuns(list, RunsOf(I, Size))
  /\ cache' = IF IsMultiline THEN "unset" ELSE "single"
  /\ Done("delete", {list[i] : i \in I})

(* arr[a:b] = n values: replace as many as there are, then remove the rest *)
(* of the old or add the rest of the new. *)
SetSlice(a, b, n) ==
  LET ids      == Upto(FreshIds, n)
      both     == Min({n, b - a})
      replaced == [cv EXCEPT !.items = [k \in DOMAIN @ |->
                     IF k \in (a + 1)..(a + both) THEN [@[k] EXCEPT !.id = ids[k - a]] ELSE @[k]]]
      extra    == From(ids, both)
  IN  /\ n <= Len(FreshIds) /\ Size + n - (b - a) <= MaxItems
      /\ list' = Upto(list, a) \o ids \o From(list, b)
      /\ cv' = CASE n < b - a -> SpliceOut(replaced, (a + n + 1)..b, IsMultiline)
                 [] n = b - a -> replaced
                 [] n > b - a /\ b = Size -> ExtendWith(replaced, extra, IsMultiline)
                 [] OTHER -> SpliceInsert(replaced, extra, b, IsMultiline)
      /\ cache' = CASE n < b - a -> (IF IsMultiline THEN "unset" ELSE "single")
                    [] n = b - a -> cache
                    [] OTHER     -> Warm
      /\ Done("slice", {list[i] : i \in (a + 1)..b} \cup ToSet(ids))

(* reverse, sort *)
Reorder(order) ==
  /\ Size > 1 /\ \E k \in DOMAIN order : order[k] # k
  /\ cv' = ReorderOwned(cv, 1..Size, order, IsMultiline)
  /\ list' = [k \in DOMAIN list |-> list[order[k]]] /\ cache' = Warm
  /\ Done("reorder", {})

(* clear *)
Clear ==
  /\ Size > 0
  /\ cv' = Emptied(cv) /\ list' = <<>> /\ cache' = "unset"
  /\ Done("delete", ToSet(list))

(* format, set_multiline *)
Format ==
  /\ cv' = Formatted(cv, IsMultiline) /\ cache' = Warm /\ UNCHANGED list
  /\ Done("format", {})
SetMultiline ==
  /\ cv' = MultilineShape(cv) /\ cache' = "unset" /\ UNCHANGED list
  /\ Done("format", {})
Collapse ==
  /\ Collapsible(cv)
  /\ cv' = SingleLineShape(cv) /\ cache' = "unset" /\ UNCHANGED list
  /\ Done("collapse", {})

(* arr.comments[k] = c, del arr.comments[k] *)
SetComment(k) ==
  /\ FreshComments # <<>>
  /\ cv' = SetEol(Promoted, k, FreshComments[1])
  /\ cache' = AfterPromotion /\ UNCHANGED list
  /\ Wrote("comment", k, <<FreshComments[1]>>)
DelComment(k) ==
  /\ Comments(cv, k) # <<>>
  /\ cv' = DelEol(cv, k) /\ UNCHANGED <<list, cache>>
  /\ Wrote("comment", k, <<>>)

(* arr.leading_comments[k], arr.leading_block[k]: written and deleted *)
SetLeading(k) ==
  /\ FreshComments # <<>>
  /\ cv' = SetAttachedComments(Promoted, k, Upto(FreshComments, 1))
  /\ cache' = AfterPromotion /\ UNCHANGED list
  /\ Wrote("leading", k, Upto(FreshComments, 1))
DelLeading(k) ==
  /\ LeadingComments(cv, k) # <<>>
  /\ cv' = ClearAttachedComments(cv, k) /\ UNCHANGED <<list, cache>>
  /\ Wrote("leading", k, <<>>)
SetBlock(k) ==
  /\ Len(FreshComments) > 1
  /\ cv' = SetAboveBlock(Promoted, k, <<FreshComments[1], None, FreshComments[2]>>)
  /\ cache' = AfterPromotion /\ UNCHANGED list
  /\ Wrote("block", k, <<FreshComments[1], None, FreshComments[2]>>)
DelBlock(k) ==
  /\ LeadingBlock(cv, k) # <<>>
  /\ cv' = ClearAboveBlock(cv, k) /\ UNCHANGED <<list, cache>>
  /\ Wrote("block", k, <<>>)

Edit ==
  \/ \E n \in 1..2 : Extend(n)
  \/ \E b \in 0..Size : Insert(b)
  \/ \E I \in (SUBSET (1..Size)) \ {{}} : Delete(I)
  \/ \E a, b \in 0..Size : a < b /\ \E n \in 0..2 : SetSlice(a, b, n)
  \/ \E b \in 0..Size : SetSlice(b, b, 2)
  \/ \E order \in Bijection(1..Size, 1..Size) : Reorder(order)
  \/ Clear \/ Format \/ SetMultiline \/ Collapse
  \/ \E k \in 1..Size : \/ SetItem(k) \/ SetComment(k) \/ DelComment(k)
                        \/ SetLeading(k) \/ DelLeading(k) \/ SetBlock(k) \/ DelBlock(k)

Next == left > 0 /\ Edit

Spec == Init /\ [][Next]_vars
-----------------------------------------------------------------------------
TypeOK ==
  /\ cv \in [opening : Seq(Comment \cup {WS, NL}),
             items : Seq([id : Item0, comma : BOOLEAN,
                          before : Seq(Comment \cup {WS, NL}),
                          after : Seq(Comment \cup {WS, NL}),
                          following : Seq(Comment \cup {WS, NL})])]
  /\ list \in Seq(Item0) /\ cache \in {"unset", "multi", "single"} /\ left \in Nat

(* The comments of an item: the one on its row, those of the block above. *)
AboveComments(v, k) == CommentsIn(Above(Capture(v, k - 1)))
Place(v, id) == SelectInSeq(Ids(v), LAMBDA x : x = id)

(* No item has two comments about its comma: `a #1 <nl> , #2`, where the   *)
(* second is not the item's and nobody's else. *)
Tidy(v) == \A k \in 1..Len(v.items) : Len(ItemComments(v.items[k])) <= 1

(* The text and the decoded list, which every edit changes on their own     *)
(* ways, always have the same items in the same order. *)
ListInStep == Ids(cv) = list

(* Every comment of the text ends its line: no edit joins it to what comes  *)
(* behind, be it an item, a comma or the closing bracket. *)
CommentsEndLines == EndsLines(Render(cv))

(* The text of an edited array reads as the array: no comment is there      *)
(* twice, and a fresh parse finds the items of the list in order, each with *)
(* the comments the views show.                                             *)
ReadsBackAs(text, fresh) ==
  /\ IsInjective(CommentsIn(text))
  /\ Ids(fresh) = list
  /\ \A k \in 1..Size : /\ Comments(fresh, k) = Comments(cv, k)
                        /\ AboveComments(fresh, k) = AboveComments(cv, k)
ReadsBack == Tidy(cv) => ReadsBackAs(Render(cv), Parse(Render(cv)))

(* The memo of the shape, kept across the edits said to preserve it, is     *)
(* what the text says. *)
MemoExact == cache # "unset" => (cache = "multi") = OwnMultiline(cv)

(* An edit of the items moves no comment to another item: every item in the *)
(* array before and after keeps its own, and a comment is lost only with    *)
(* the item it belonged to. *)
Structural == {"extend", "insert", "set", "slice", "delete", "reorder"}
SameComments(v, w, id) ==
  /\ Comments(v, Place(v, id)) = Comments(w, Place(w, id))
  /\ AboveComments(v, Place(v, id)) = AboveComments(w, Place(w, id))
OwnedComments(v, id) ==
  ToSet(Comments(v, Place(v, id))) \cup ToSet(AboveComments(v, Place(v, id)))
CommentsStayIn(v, w, gone) ==
  /\ \A id \in ToSet(Ids(v)) \cap ToSet(Ids(w)) : SameComments(v, w, id)
  /\ w.items # <<>> =>
       ToSet(OwnText(v)) \cap Comment
         \subseteq ToSet(OwnText(w)) \cup UNION {OwnedComments(v, id) : id \in gone}
CommentsStay ==
  [][Tidy(cv) /\ last'.op \in Structural => CommentsStayIn(cv, cv', ToSet(list) \ ToSet(list'))]_vars

(* The same said of every array: a reorder neither takes a comment from an  *)
(* item nor gives it one. *)
ReorderKeepsComments ==
  [][last'.op = "reorder" => \A id \in ToSet(list) : SameComments(cv, cv', id)]_vars

(* What is written to a comment view is what it shows, and nothing else     *)
(* changes: no other comment, and no blank line above another item. *)
Shown(v, op, k) ==
  CASE op = "comment" -> Comments(v, k)
    [] op = "leading" -> LeadingComments(v, k)
    [] op = "block"   -> LeadingBlock(v, k)
WritesLocally(v, w, op, id, value) ==
  /\ Shown(w, op, Place(w, id)) = value
  /\ \A other \in ToSet(Ids(v)) :
       /\ other # id \/ op # "comment" =>
            Comments(w, Place(w, other)) = Comments(v, Place(v, other))
       /\ other # id \/ op = "comment" =>
            LeadingBlock(w, Place(w, other)) = LeadingBlock(v, Place(v, other))
WritesAreLocal ==
  [][Tidy(cv) /\ last'.op \in {"comment", "leading", "block"} =>
       \A id \in last'.items : WritesLocally(cv, cv', last'.op, id, last'.wrote)]_vars

(* A value laid out one item to a row stays so: no edit joins two rows.     *)
OwnRows(v) ==
  /\ HasNl(v.opening)
  /\ \A k \in 1..Len(v.items) : HasNl(RenderTail(v.items[k]))
Uniform(v) ==
  LET n == Len(v.items)
  IN  \/ \A k \in 1..n : ~BreaksBeforeComma(v.items[k])
      \/ n > 1 /\ \A k \in 1..n : BreaksBeforeComma(v.items[k]) = (k < n)
RowsKept ==
  [][last'.op \in Structural /\ OwnRows(cv) /\ Uniform(cv) /\ list' # <<>> => OwnRows(cv')]_vars

(* Formatting settles: a second time changes nothing, no comment is lost    *)
(* and each stays with its item. *)
FormatSettlesIn(v, w) ==
  /\ MultilineShape(w) = w \/ SingleLineShape(w) = w
  /\ ToSet(OwnText(v)) \cap Comment = ToSet(OwnText(w)) \cap Comment
  /\ \A id \in ToSet(Ids(v)) :
       /\ ToSet(Comments(v, Place(v, id))) \subseteq ToSet(Comments(w, Place(w, id)))
       /\ AboveComments(v, Place(v, id)) = AboveComments(w, Place(w, id))
FormatSettles == [][Tidy(cv) /\ last'.op = "format" => FormatSettlesIn(cv, cv')]_vars
=============================================================================
