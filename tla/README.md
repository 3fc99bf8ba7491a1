# A verification development for tomlrt

tomlrt parses TOML into a live, dict-like document that remembers every line of
its text, and edits that text in place: `doc["a"]["b"] = 1` changes, adds or
moves as few lines as it can, and everything else is rendered back byte for
byte. This directory holds TLA+ models of the parts where that can go wrong,
the TLC configurations that check them on small instances, and proofs checked
by TLAPS. Paths below are relative to the repository's `src/tomlrt/`.

## The system

tomlrt is a single-threaded library: nothing runs concurrently, nothing is
persisted, nothing is sent. What is hard about it is *state kept in several
forms that must agree* over arbitrary sequences of legal calls.

| component | state | operations |
|---|---|---|
| Slot stream (`_slots.py`) | a doubly linked list of physical lines ("slots"), each with an integer order key | splice a run, unlink a slot, relabel a window of keys |
| Semantic validator (`_validator.py`, driven by `_parser.py`) | a tree of declared scopes, the current section and its owner | enter a header, record a key |
| Logical builder (`_build.py`) | `Document`, `Table`, `AoT` objects | open a table, open an array entry, apply a key/value line |
| Layout editor (`_layout_ops.py`) | the stream plus, per container, `_refs`, `_index`, `_header`, `_body_tail`, and per slot `_containers` | place, replace, delete and reorder the lines of one binding |
| Mapping and list API (`_container.py`, `_array.py`) | dict and list storage of the views | `__setitem__`, `del`, `clear`, `install`, `ensure_table`, `sort`; `insert`, `append`, slice assignment, `reverse` |
| Comma boundaries (`_values.py`, `_comma_ops.py`, `_comma_trivia.py`, `_comma_comments.py`) | the items of an inline array or table and the breaks, comments and commas between them | splice items in and out, reorder, write a comment, format |
| Inline arrays and tables (`_array.py`, `_inline_ops.py`, `_container.py`) | per table its entries, their order labels and index; per view its host, path and dict storage | every list call; every dict call, on tables attached, displaced or not yet written |
| Live attachment (`_layout_ops.py`, `_container.py`, `_view.py`) | private documents that own detached views | adopt, clone, orphan, snapshot |
| Promotion, synthesis, formatting, comments, scanner, IO | text | see "Not modelled" |

How they interact: the parser asks the validator about each line, stamps the
slot with the section and array entry in force, and hands all slots to the
builder, which creates the tables and files each slot on every container it
binds. A mutator of the mapping API classifies the change, calls the layout
editor to change slots and filings, then writes its own dict storage. The
layout editor is the only writer of the stream and of the projections; it finds
its way in them by bisecting on order keys, so it depends on the stream's keys
being exact, and its placements depend on the projections being exact.

What makes each component correct:

- stream: keys increase along the list; the list reads the same from both ends;
- validator: exactly the redefinitions TOML forbids are refused;
- builder: agrees with the validator and files lines under the right entry;
- editor: after any edit the text parses, every line is still read in the scope
  its slot remembers, the views hold what the text says, the data changed as
  the dict or list call promises, and no other line was touched;
- projections: always equal to what a rebuild from the text would produce;
- comma values: after any edit the text reads as the same items with the same
  comments, each row where it was, but for what was asked;
- live tables: a table that leaves its document keeps its lines, wherever it goes
  it stays one object in one place, and a call on it reaches no other table;
- inline tables: every view shows what its own text says, also after the table
  was displaced, moved or copied, and no call changes a table it was not made on.

## Modules

| module | models | builds on |
|---|---|---|
| `SlotStream` | the stream as a sequence, with key allocation and relabelling | |
| `SlotStreamProofs` | theorems about it | `SlotStream` |
| `SlotList` | the pointer-level list and window walks | implements `SlotStream` |
| `SlotListProofs` | theorems about it, the refinement among them | `SlotList`, `SlotStreamProofs` |
| `ListProofs` | lemmas: least elements, and sequences cut, joined, filtered and cut in runs | `ListOps` |
| `TomlRules` | validator and builder as operators on a document | |
| `TomlTokens` | the keys and values documents are written with | |
| `TomlParser` | reading a document line by line | `TomlRules`, `TomlTokens` |
| `TomlRulesProofs` | theorem: what every accepted text reads as; lemmas: paths, what a line declares, chains of tables, the builder follows the validator line by line | `DocLayout`, `TomlTokens` |
| `TomlParserProofs` | theorems: what the validator refuses; the builder agrees with it | `TomlParser`, `TomlRulesProofs` |
| `TomlText` | all documents of given lines; re-parsing a stream | `TomlRules` |
| `ListOps` | bisection and bulk deletion of `_list_ops.py` | |
| `DocLayout` | the editor's readings of a document, its anchors and splices | `TomlText`, `ListOps` |
| `LayoutEdits` | the edits of one binding | `DocLayout` |
| `PlainNodes`, `PlainDocument` | what the API promises: nested dicts and lists | |
| `LayoutData` | the data a document's text means | `LayoutEdits`, `PlainNodes` |
| `SectionLayout` | a document under its mapping and list API | `LayoutData`, implements `PlainDocument` |
| `LiveLayout` | tables that leave a document, move into one or are copied there | `LayoutData` |
| `LiveViews` | several documents under the calls on every table held | `LiveLayout` |
| `RefPatches` | the cached projections and how each is patched | `DocLayout`, `ListOps` |
| `RefPatchProofs` | theorems: bisection; patches keep projections exact | `RefPatches`, `ListProofs` |
| `RefFiling` | the patches under the changes of text an edit makes | `RefPatches` |
| `RefFilingProofs` | theorems: after any changes the projections equal a build from nothing | `RefFiling`, `TomlRulesProofs`, `RefPatchProofs` |
| `CommaTrivia` | a gap as a sequence of tokens; what a comment, break or block in it is | |
| `CommaBoundary` | one boundary between items: its shell, row comment and block | `CommaTrivia` |
| `CommaEdits` | insertion, removal and reordering of items | `CommaBoundary` |
| `CommaFormat` | `format` of one array | `CommaEdits` |
| `CommaArray` | an inline array under its list calls, comment writes and `format` | `CommaFormat` |
| `CommaArrayProofs` | theorems: text and list stay in step; every comment ends its line | `CommaArray`, `ListProofs` |
| `InlineEntries` | the entries of an inline table, their labels, and what they mean | `ListOps` |
| `InlineHeap` | inline tables as objects: hosts, views, displacement, adoption, copy | `InlineEntries` |
| `InlineViews` | a document of inline tables under every call on every view held | `InlineHeap` |
| `MC*` | instances for TLC | |

### How state and actions correspond to the code

*Slot stream.* `stream` is the list from `_head` to `_tail`, `order` the slots'
`_order`. `StitchRun(p, run)` is `stitch_run` at the seam after the first p
slots; `UnlinkSlot(p)` is `unlink_slot`. `SlotList` has the five variables the
code has (`_head`, `_tail`, `_prev`, `_next`, `_order`) and one action for each
splicing primitive; its refinement mapping is `stream <- Forward`, the walk
along `next`.

*Documents.* A slot is a record: a line (`kv` with host, dotted key, value, or
`header` with path) plus what the program remembers of it: the array entry that
owns it, the entry it opens, and whether a header is `synthetic`, that is, was
written by the library and may go again. A document is `[stream, filed, tree,
aot]`: the slots, the containers each is filed on, the dict storage of every
container and the entries of every array of tables. A container is named by
`<<entry, path>>`, since sibling entries share a path; entry 0 is Python's
`None`. In these modules objects are named by their place, so `SectionLayout`
says nothing of views held by the caller across an edit; `LiveViews` follows
each place to where its table goes, and in `InlineHeap` objects have identity.

Text is abstracted to what the properties tell apart: keys and values are a few
model values, `"{}"` and `"[]"` stand for an empty inline table and for the
placeholder line of an empty array of tables. Comments, blank lines and
spelling of lines are left out; those inside an inline value are what the
comma modules are about.

*Comma values.* A value is `[opening, items]`, as in `_values.py`: an item is
`[id, before, comma, after, following]`, where `before` and `after` are the
trivia on the two sides of its comma; `following` is what an item's entry
carries behind its gap. Trivia are sequences of tokens (break, blank, comment).
Boundary b is the gap after the first b items, so boundary 0 is the opening and
the last one is the gap before the closing bracket, as `Boundary` numbers them.
`CommaArray` has the value (`cv`), the decoded list kept beside it (`list`), the
memo of whether the value spans lines (`cache`), how many edits are `left` and
the `last` call. The meaning of a text, by which the properties judge an edit,
is read off the flat tokens (`CommaTrivia`), not off the boundaries.

*Inline tables.* `InlineHeap` has `tables`, the values with text, each a sequence
of entries with an id, a dotted path, a value and an order label, with the index
the code keeps of them; and `views`, the objects, each with `host` (the view
that contains it), `root` (the table whose entries it is resolved against, none
when displaced or a factory), `path` within it, `dict`, its dict storage, and
`value`. A view whose `value` is not its `root`'s is one of dotted keys. The
caller may hold any view ever created; `InlineViews` has one action per call,
made on any view that is alive.

*Parser.* `TomlParser` has the validator, the document and the builder's
current container, and one action per kind of line. The program builds after
the last line; building line by line gives the same intermediate documents.

*Editing.* `SectionLayout` starts from every document its `Scopes` allow
(`Documents` of so many given lines, that is, every document the parser can return) and has one
action per public call. Each action's effect is one operator of `LayoutEdits`,
composed as the handler composes its calls: `SetKey` is `_setitem_validated`
with `_overwrite_existing`, `_insert_new` and `reposition_install` below it, and
so on. In `DocLayout` and `LayoutEdits` the projections are *read off* the
document (`Refs`, `IndexSet`, `OwnHeader`, `BodyTail`); that the code's patched
copies equal these readings is what `RefFiling` checks. `call` records the last
call and `seen` what the text now reads as.

*Live tables.* `LiveViews` has a sequence of documents `docs`, the program's first
and then the private ones the library makes (`_is_private`); each is a document
as above with `above`, the tables `_root_orphan_subtree` makes to stand in for
those above what left, which nobody can reach. Every other table is held. An
array entry has a number of its own over all documents, since it is an object
(`AoTEntry`) that slots and tables point to; a table copied gets new ones.
`moves` records where each table held before a call has gone. The actions are
`del`/`pop`, assignment of a plain value, `pop` of an array entry, and assignment
of a table, which `_attach_section` adopts when its document is private and
clones when it is not; the operators of `LiveLayout` are the functions of
`_layout_ops.py` of those names. The lines a table takes along are rebased and
change owner one by one (`RebasedSlot`, `Transferred`, `ClonedSlots`), and its
filings and tables are carried over, not read off the new text: that both agree
is what `PublicAsBuilt` checks.

*Projections.* `RefFiling` keeps `_refs`, `_index`, `_header`, `_body_tail` and
`_containers` as the code does, and applies the code's patches (`RefPatches`, one
operator per function: `Recorded` is `record_slot`, `OwnHeaderFiled`
`file_own_header`, `Unfiled` `unfile_slot`, and so on) to them for each kind of
change the editor makes. The change of text itself is chosen freely
(any line, any place, any moved run) and taken only when the text it leaves
parses and leaves the other lines' scopes alone, which `SectionLayout` shows of
the changes the editor really makes; so the patches are checked on more changes
than the editor makes, not fewer. The order key of a slot is its position, by
`OrderMonotone`; a handler that compares keys of before a move uses the
positions of before the move. Each assertion the code makes on its way is a
condition collected in `sound`.

## Runs

| run | configuration | shows |
|---|---|---|
| `slot_stream` | six slots, gap 3, minimum step 2, runs of up to two, keys within 12 | `OrderMonotone`, `KeysNeverReorder` |
| `slot_list` | five slots, keys within 8 | `EndsAgree`, `LinkTestExact`, refinement `ImplementsStream` |
| `parser` | two keys, paths of two, up to four lines; one key, paths of three, up to seven lines | `RefusesExactlyRedefinitions`, `BuilderFollows`, `OwnerIsCurrent` |
| `edit` | two keys, three lines, one call, every form of value | `LinesStayInScope`, `FilingAsBuilt`, `ViewsMatchText`, `ImplementsPlain`, `OtherLinesKept` |
| `edit_twice` | two keys, two lines, two calls; one key, paths of three, five lines, one call | `FilingAsBuilt`, `ImplementsPlain` |
| `filing` | two keys, three lines, or four without dotted keys; any number of changes | `ProjectionsExact`, `BodyTailsCurrent`, `AssertionsHold` |
| `live_views` | two keys, two lines, two calls; one key, one line, three calls; a dotted table of an array entry, three calls | `PublicAsBuilt`, `OrphansConsistent`, `OnlyThatBindingChanges` |
| `live_self` | the same | that `SelfInstallSucceeds` is violated |
| `array` | arrays of up to three items with every shape of gap, one or two calls | `ListInStep`, `CommentsEndLines`, `ReadsBack`, `MemoExact`, `CommentsStay`, `WritesAreLocal`, `RowsKept`, `FormatSettles` |
| `array_crowded` | the same | that `ReorderKeepsComments` is violated |
| `inline_views` | one inline table of up to three entries, one or two calls on any view | `TextMatchesViews`, `EntriesFound`, `HostsExact`, `OnlyThatTableChanges`, `SortReachesText` |
| `inline_self` | the same | that `NothingInsideItself` is violated |

`array_crowded`, `inline_self` and `live_self` look for a violation, see "Findings"; every
other run is expected to pass. Every property of a passing run also has a mutant: a definition
of the model changed the way a plausible bug would change the code (operators
named `...Mutant`, next to what they alter), under which TLC finds the property
violated.

Why these bounds. Relabelling needs a seam with no room and a window with slots
on both sides of it: five slots reach it, and a gap of 3 (the code's is 1024)
makes it happen within three splices; key bounds cut only the outward drift of
appends. A redefinition involves two lines and at most one `[[...]]` between
them, plus the line tested, which four lines hold; nesting of arrays needs
paths of three, where a single key is enough since all that matters is which
path prefixes which. For an edit the interesting documents have a table, a line
or subtable of it, and a foreign line between or after them: three lines over
two keys hold every such pattern; the calls that meet the library's own
synthetic headers and placeholders need a second edit. `filing` has streams of
four lines because a run must move past a foreign slot of the same bucket.

A table taken out by one call is written to, taken apart, moved back or copied by
the second of `live_views`; two lines give it a line or table below it and one
beside it, in the table it leaves or the one it is assigned to, and paths of two
give every kind of it (headed, implicit, dotted, an array entry). A second move,
and a move of what a move left behind, needs three calls, for which one line is
enough; so does a dotted table of an array entry that is written to while away.

An array's gap is one of six shapes (nothing, a break, a comment ending the row,
a comment of its own line, both, a blank line) before and after each comma; all
pairs of them around one and two items under one call, a choice of comma-last,
comma-first and packed layouts around three, and under two calls. Two items
already have every kind of boundary (opening, inner, last); three let an item be
removed, or reordered past, with neighbours on both sides. The table of an
`inline_views` document has every two entries over six dotted paths, with a
scalar, an empty table or a one-entry table each, or three scalars, under one
call; tables of at most one entry and three chosen ones (nested, dotted, grouped
and interrupted) under two, so that a view displaced by the first call is
written through, moved or copied by the second. A factory (a table made by
`Table.inline`, not yet written) may be held beside it.

Nothing in this system waits for anything, so all properties are safety
properties and no fairness is assumed anywhere. Deadlock is checked where calls
can always be made and switched off where a bound on lines or edits ends the run
(`CHECK_DEADLOCK FALSE` in the parser and editing configurations).

Symmetry of keys is used with two keys: no definition orders keys. The views of
the editing runs drop `call` and `seen`, those of the live runs `last` and
`moves`, which are functions of the step taken;
action properties are checked on every step. The views of the list runs rename
slots by their position and forget the keys of unlinked slots.

### What the properties say

`OrderMonotone`, `KeysNeverReorder`: the ground for every bisection.
`RefusesExactlyRedefinitions` compares the validator's incremental tree with a
definition of redefinition read off the lines alone. `LinesStayInScope` is the
central property of placement: text may well parse and still have moved a
user's line under another header. `ViewsMatchText` and `ImplementsPlain` say the
same of the views and of the data; `ImplementsPlain` is a refinement: the data
the text means makes exactly the step `PlainDocument` makes for the same call.
`OtherLinesKept` says an edit takes nothing that is not its own, but for
headers the library wrote. `ListInStep` says of an array that its list and its text, which every
edit changes separately, have the same items; `CommentsEndLines` that no edit joins a comment to
what follows it, in arrays with two comments about a comma too. `ReadsBack` compares the edited
array with a fresh parse of its text, comments included. `CommentsStay` follows each comment by its name through an edit:
items keep theirs, and a comment goes only with the item it belonged to.
Emptying an array is excepted: a comment before a trailing comma on a row of its
own is no item's. `RowsKept` asks of arrays with one item to a row that they stay
so, where all their commas stand alike; `FormatSettles` that formatting twice is
formatting once and loses no comment. `OnlyThatTableChanges` is the abstract
specification of an inline table's calls in one formula: a heap of dicts, in
which each call replaces the data of one table by what a dict would hold, seen
through all that contain it. `TextMatchesViews`, `EntriesFound` and `HostsExact`
tie views, text and index together, object by object.
`OnlyThatBindingChanges` is the like for sections, over all documents at once: each
call changes one binding of one table, a table moved is bound as the same object,
and the table it was taken from gives it up. `PublicAsBuilt` and
`OrphansConsistent` say that the books agree afterwards: of the program's
document, with a build of its text from nothing; of a private one, which is
never parsed, line by line, a table's keys being those its lines spell.
`ProjectionsExact`, `BodyTailsCurrent` and
`AssertionsHold` are the test suite's consistency oracle (`check_view_caches`
in `tests/_helpers.py`), over all histories of small documents instead of
random ones.

### Findings

- `NothingInsideItself` (`inline_self`). An inline table displaced from its
  document counts as free to move, also to a place inside itself
  (`_container.py:1799`): after `r = doc.pop("t")`, `r["a"]["x"] = r` makes the
  views a cycle. The tests say of sections that such an install is a copy.
  The invariants of `inline_views` that walk the views are stated of heaps
  without a cycle (`Acyclic`), and no call is made after one has formed.
- `SelfInstallSucceeds` (`live_self`). With `[t]`, `a.b = 1`, after
  `v = doc["t"].pop("a")`, `v["x"] = v` raises an AssertionError: the copy of `v`'s
  private document is built as if it had been parsed, and a dotted key hosted by
  `[t]` stands there without that header (`_layout_ops.py:2994`). The call is
  taken to have no effect; the other properties hold with it among the calls.
- `ReorderKeepsComments` (`array_crowded`). An item may have one comment before
  its comma and one after it; a reorder takes the first along and leaves the
  second to whichever item comes to stand there (`_comma_ops.py:960`). The
  other properties of `CommaArray` say nothing of such arrays (`Tidy`).
- `PublicAsBuilt` makes one exception (`Stray`). A dotted line written to a table
  while it is away has no owner, and `_transfer_stale_owner` gives it none when the
  table comes back to an array entry: with `[[r]]`, `a.b = 1`, after
  `v = doc["r"][0].pop("a")`, `v["x"] = 2`, `doc["r"][0]["c"] = v`, the slot of `c.x`
  does not name its entry, and a key set on the entry next is put before that
  line instead of after it (`_layout_ops.py:798`). The text still parses to the
  same data. Within the bounds of `live_views` nothing else deviates.

## Proofs

A run checks an instance; the theorems below hold for every value of the
constants. All proofs are checked by TLAPS; nothing in them is assumed but the
named `ASSUME`s of the modules they are about.

| theorem | states | for |
|---|---|---|
| `SlotStreamProofs!TypeCorrect` | `[]TypeOK` | every set of slots, gap, minimum step, run length |
| `SlotStreamProofs!KeysIncrease` | `[]OrderMonotone` | the same |
| `SlotStreamProofs!KeysStayOrdered` | `KeysNeverReorder` | the same |
| `SlotListProofs!TypeCorrect` | `[]TypeOK` | every finite set of slots, gap, minimum step, run length |
| `SlotListProofs!EndsStayInAgreement` | `[]EndsAgree` | the same |
| `SlotListProofs!LinkTestIsExact` | `[]LinkTestExact` | the same |
| `SlotListProofs!Refinement` | `ImplementsStream` | the same |
| `SlotListProofs!ListKeys` | the stream's order properties, of the list | the same |
| `TomlParserProofs!RefusalsExact` | `[]RefusesExactlyRedefinitions` | every set of keys and values, length and depth of document |
| `TomlParserProofs!ParserTyped` | `[]TypeOK` | the same |
| `TomlParserProofs!OwnerFollows` | `[]OwnerIsCurrent` | the same |
| `TomlParserProofs!BuilderNeverDrifts` | `[]BuilderFollows` | the same |
| `RefPatchProofs!BisectionParts` | `bisect_left` parts a sorted list | every sorted list of integers and integer |
| `RefPatchProofs!FileKeepsViewsExact` | filing a slot keeps `Consistent` | every set of projections, keys, slot and chain of containers |
| `RefPatchProofs!ScrubKeepsViewsExact` | unfiling one slot, or many of one binding, by their back-pointers keeps it, no assertion failing | the same |
| `RefPatchProofs!RefileKeepsViewsExact` | re-filing a moved or permuted region keeps it, under the new keys | the same |
| `RefPatchProofs!RenumberKeepsViewsExact` | keys that keep the slots' order keep it | the same |
| `RefPatchProofs!ClearKeepsViewsExact` | emptying a table's projections keeps it | the same |
| `TomlRulesProofs!TextReads` | an accepted text reads as its lines say (`Reading`) | every stream of slots whose array entries are told apart |
| `RefFilingProofs!FilingTypeOK` | `[]TypeOK` | every set of keys, values and lines, and every bound `Fits` |
| `RefFilingProofs!FilingProjectionsExact` | `[]ProjectionsExact` | the same |
| `RefFilingProofs!FilingBodyTailsCurrent` | `[]BodyTailsCurrent` | the same |
| `RefFilingProofs!FilingAssertionsHold` | `[]AssertionsHold` | the same |
| `CommaArrayProofs!CommaTypeOK` | `[]TypeOK` | every set of comments and items, and every set of texts that scan |
| `CommaArrayProofs!ListStaysInStep` | `[]ListInStep` | the same |
| `CommaArrayProofs!CommentsAlwaysEndLines` | `[]CommentsEndLines` | the same |

So for the runs `slot_stream`, `slot_list`, `parser` and `filing` every property is a theorem.
The type invariants of the two slot modules, which their proofs rest on, are no property of
a run: they hold for every instance.

### The slot stream

The assumptions are that the gap and the minimum step are at least 1. The
inductive invariant is `TypeOK` with `NoRepeats` and `OrderMonotone`:
monotonicity alone says nothing about the keys of a slot if it could stand in
two places, so the proof that a splice keeps the keys increasing needs
`NoRepeats` to know that stamping the run changes no other key. The argument: an
exhausted seam has a slot on each side, so some window is roomy (`RadiusExists`:
the one that meets an end always is); in a roomy window the step is at least
`Need(count)` (`DivRoom`), so the keys laid out in it increase, stay between
those outside (`SpreadIncreases`, `RespreadOpens`) and leave more than `count`
between the seam's neighbours (`OpenedSeam`); the run's keys then fit
(`StitchKeepsInv`). Unlinking only removes (`UnlinkKeepsInv`). `KeysStayOrdered`
follows since in both states the keys of the slots that stay are in the order of
the sequence, and a step keeps that order.

### The linked list

`SlotAssumption` says the set of slots is finite: a walk then ends, and a program
only ever makes finitely many. The invariant says that ends and pointers hold
the sequence `Forward` and nothing else (`HoldsList`: an unlinked slot points
nowhere), that they have their types, and that keys increase. The keys are in it
because a splice divides the room between two of them by the number of new
slots; without room what it computes need not be a key, and `TypeOK` fails.

The walk along `next` is a recursive function over numbers, so what it reads is
proved by induction on the number of steps (`WalkAlong`, `WalkBack`,
`WalksReadList`): it reads the list that ends and pointers hold, whatever list
that is. Hence linking a run between two neighbours splices the sequence
(`LinkSplices`) and unlinking cuts one place out of it (`UnlinkCuts`), which is
`EndsAgree` and `LinkTestExact`. For the refinement, the windows that the pointer
walks find are the stream's windows (`WindowsAgree`), so the search doubles up to
the same radius (`RadiiAgree`), the respread lays out the same keys
(`RespreadsAgree`) and the run gets the same ones (`StampsAgree`). The stream's
theorems then hold of the list through the refinement mapping (`ListKeys`).

### The validator

The validator keeps one declaration per path and overwrites it as lines come;
`Conflict`, the reference, looks at all the lines that still count. The invariant
`KindsExact` says for each path what the two have to do with each other
(`KindExact`): the path is a value, dotted, explicit, an entry or implicit exactly
when such a line stands among those that count, an implicit one being what some
line passes and none declares. It is proved path by path, from how a line
changes the set that counts: it is added, and if it opens an entry, everything
below its path goes (`LiveAfter`). The hard case is that one: the validator
keeps its declarations at and above the entry, although lines they came from
stop counting. An implicit one still has a line, the entry's own header; a dotted
one cannot lose its line this way, since the entry's path would then be dotted too
and its header refused. `ExactRefusals` then says that with exact kinds
the code's chain of tests refuses what the reference calls a redefinition: both
directions, so nothing forbidden is accepted and nothing allowed refused.

### The builder

The builder never looks at the validator. It knows a table by the array entry
that owns it and its path; the validator knows paths only, and one path names a
different table after each `[[...]]`. `TomlRulesProofs` joins the two: `Own(v, p)`
is the entry nearest above p among the declarations, and `At(v, p)` = `<<Own(v, p),
p>>` is the container p means now. The invariant `Built` says

- `Nested`: what stands above a declared path is declared, as something that can
  have children, the current section is declared, and its owner is `Own` of it;
- `Matches`: in the dict of each container `At(v, q)`, each key is bound to the
  kind of thing the validator declares there, an array's last entry being the
  declared one;
- `TablesExist`: every declared table has a dict;
- `OwnersOld`, with `EntriesOld`: no dict and no array belongs to an entry not yet
  opened (`old` is the set of those that were). Without it a new entry's tables
  need not be empty, and `Matches` is not inductive: `EntryStep` clears the
  declarations below the path, and the dicts they are compared with must have
  nothing in them;
- the current container is `At` of the current section, and slots are filed on
  containers that exist.

One lemma per kind of line shows that it keeps agreeing (`TableStep`,
`EntryStep`, `KeyStep`), each from the way down through the containers being the
one the paths spell (`DownAt`, `HeaderChainIs`, `KVChainIs`). With `Built`, each
assertion of the builder follows from the test the validator made of the same
line (`KeyNeverDrifts`, `HeaderNeverDrifts`).

`BoundsAssumption` says that a document's keys are among `Key` and that its
depth is a natural number. Length, depth and keys are otherwise arbitrary:
the bounds that make the run finite are constants the theorems quantify over.

### The projections

`Consistent(F, ord)` says of the projections by themselves what the invariants of
`filing` say by comparing them with the text, under the keys `ord`. For each
container, with S the slots that point back to it:

- `_refs` and each bucket of `_index` hold the slots of S, of that key, all of
  them, once, in the order of their keys (`Orders`, `IndexExact`), and a bucket
  that would be empty is absent;
- `_header` is the header of S that is the container's own, if there is one
  (`HeaderExact`);
- `_body_tail` is the last of the container's own lines, or the header
  (`TailExact`).

Four facts carry the proof. `bisect_left` is a recursion over pairs of bounds;
by the least width of a pair for which it would be wrong, it is right for all
(`Halves`, `BisectionParts`). Inserting at the place it returns, or cutting there,
keeps a list the ordered list of its set (`Insertion`, `Removal`). `record_slot`
asks whether the slot is the latest of `_refs`, once, and appends it to the bucket
on that answer too: sound because a bucket's slots are some of `_refs`' (`Orders`
of both; `RecordedListsExact`), as the comment at the call says. And
`unfile_slot` takes up the body tail from the place it cut: nothing past that place
is the container's own line, so walking back from it meets the last one, or
ends at the header (`RecomputedTailExact`). The search of a slot to be unfiled
never misses (`UnfileFinds`), so `UnfileSound`, the assertions the code makes, holds.

What the theorems suppose of the slots is `Belong`: keys tell slots apart (the
theorems about the stream) and a container has at most one header of its own (the
validator refuses a second one). Filing supposes it of what the container has
afterwards, that a line of the container's own is put below its header
(`HeaderFirst`), and that the slot was not filed before (`Fileable`). The
back-pointers are part of the statement: unfiling goes by them alone.
`RenumberKeepsViewsExact` with `KeysNeverReorder` says that splices elsewhere, and
the relabelling they may bring about, leave all this as it was.

Unfiling many slots at once looks each of them up, makes runs of the places and
cuts the runs out. The places are found because what is looked up lies in the
list in order (`KeepingOrders`, `PlacesFound`, `ManyFound`), the runs cover the
places and nothing else (`IndexRunsCover`), and cutting them out leaves the list
of those that stay (`DeletedOrders`). The code groups the slots by container and
takes one key for each group; this is right where they all bind one child of every
table they leave (`Separable`), which the proofs about `RefFiling` show of what an
edit removes.

Re-filing a region finds it in each list as one block (`BlockFound`): slots that
stand together among all stand together among some. The block is sorted by the
new keys (`SortedByOrders`) and put back where it fits (`RunReplaced`). That is
enough when the change of order is confined to the region, in the sense of
`Rearranged`: the slots outside keep their order, and each of them is on one side
of the whole region, before the change and after. The body tail is recomputed
only if `TailMoved` says so; where it does not, the tail is the last slot listed or
the header, or no line of the container's own moved, or nothing moved past anything.

Exchanging one header for another (`Replaced`) takes the place of the old one in
each list, which keeps the order if the new one comes right before it
(`JustAbove`, `PutOrders`), and its bucket if both bind the same child (`Exchanges`).

### What a text reads as

The patches are compared with a build from nothing, so the proof needs to know
what a build gives. `Reading(v, d)` says it of the document d and the validator v
after the same lines, as a conjunction of parts read off the lines alone:

- a slot is filed on one table for each step of its path, from its host (a header:
  from the root) down, each bound in the one above (`Leveled`, `Chained`);
- what a slot names in a table it is filed on is bound there, and nothing is
  bound that no slot names (`Named`, `Held`);
- the entry that owns a table a slot is filed on is the one opened last at or
  above the table's path before that slot (`FiledInForce`), and the arrays list
  their entries in the order of their headers (`ArraysHomed`, `EntriesInTurn`);
- a line lies in the section its host names (`Sectioned`), no table and no line is
  there twice (`LinesApart`, `HeadersApart`), and a table's header comes before
  its lines (`HeadersFirst`).

It is kept by every line accepted (`ReadingStep`, one lemma per part), on top of
`Agree`, which `Built` is made of: to see that no line comes twice one has to
know that the validator still knows what it declared (`KindsKnown`), and to see
which entry a line is filed under, which one is in force (`EntryInForce`). Since
`Reparsed` reads from the left, the theorem follows by induction on the length.
The hypothesis `EntriesApart` is that no two `[[...]]` headers open the same
entry: in the program an entry is an object, made with its header.

### Any sequence of changes

`FilingInv` says that `doc` is the reading of a text whose entries are told apart
(`Tidy`) and that the projections are `Consistent` with what it files
(`Projected`); the four invariants of `filing` are read off it (`InvTypeOK`,
`InvProjectionsExact`, `InvBodyTails`, `InvAssertions`). It is inductive, one lemma
per action, and what each needs says why the code may patch as it does:

- *A line of its own* (`InsertFiling`): the chain of tables it is filed on is the
  one the new text files it on (`LineFiled`), although read where it is put and
  not at the end; a line is put below its table's header.
- *An empty header dropped* (`DemoteFiling`): one slot leaves.
- *Bindings deleted* (`DeleteFiling`): every slot that goes is, on each table that
  stays, on the way to the table it is deleted from, so under one key
  (`OnTheWay`, `DeletionFacts`), and no slot that stays is filed on a table that goes
  (`DepartingFacts`). With all its bindings, the table's projections are emptied at
  once. When a headerless table is to outlive them, the line put in place
  of its first is filed, in the text that remains, where it was filed when both
  stood there (`Revival`, `Stands`, `StandsReread`).
- *Entries orphaned* (`OrphanFiling`): the slots of an array's entries lie one entry
  after another (`EntryStretch`, `EntriesInLine`), so listing them entry by entry
  lists them in order, as the bulk removal needs; above the array they
  all bind its key (`LeavesFrom`).
- *An entry's header replaced* (`ReplaceFiling`): the new header stands right above
  the old one, binds the same child of every table above (`RenewalReplaceable`), and
  is filed there when the old entry has gone (`RenewalStands`). Then the old entry's
  slots leave, of which only its header was filed outside, no longer so.
- *A run moved, a region permuted* (`MoveFiling`, `PermuteFiling`): either is a
  rearrangement of a stretch of the stream (`MovedAlong`, `Stretch`), so
  `RefileKeepsViewsExact` applies.

`Becomes` supposes of a change that its text is accepted and that the lines that
stay are filed as before. That is what `LinesStayInScope` and `FilingAsBuilt`
check of the edits of `SectionLayout`, and it is a condition of the action there,
so the theorems are about every change that has it. The assumptions are on
the constants: the lines are the unstamped ones of a TOML text over `Key` and
`Vals` (`LinesAssumption`), an empty inline table is among the values
(`EmptyAssumption`), and no key is the mark that stands for a table's own header
(`KeysAssumption`; in the code it is `None`).

### An inline array

A comment runs to the end of its line, so a gap is not any sequence of breaks,
blanks and comments: behind every comment there has to be a break, or the text
that follows, an item, a comma or the bracket, is part of it. `ArrayInv`, the
invariant, says that the value is made of such gaps (`Gap`) and that the list is
the value's items. It is stated gap by gap: `CommentsEndLines` is about the text
as a whole and would not do, since an edit takes a gap apart and puts its pieces
next to other things. It says nothing of the layout, so it is kept whichever
branch the code takes, and the work is in showing that no branch cuts a gap
between a comment and its break.

- Every cut the code makes is clean in this sense (`Clean`): before the core, behind
  the last break, before the first, behind the leading blanks or the row comment
  with its break (`LeadingWsCut` to `EolCut`, `GapParts`). Dropping elements
  keeps a gap one as long as it drops no break; the one place that does,
  `splice_in` in a comma-first value, drops the break at the end of a row comment
  (`KeptButLast`) and puts another in its place (`BreakInPlace`).
- Hence a boundary captured has gaps for its lanes, each of its operations keeps
  it so, and restored it leaves the items as they were (`CaptureTyped`,
  `RestoreTyped` and what lies between them).
- `splice_in`, `splice_insert`, `splice_out` and `reorder_owned` do to the items of
  the value what the handlers of `_array.py` do to the list (`ExtendWithTyped`,
  `SpliceInsertTyped`, `SpliceOutTyped`, `ReorderOwnedTyped`). For a removal both sides
  delete the same runs, one from the items after they were closed up, one from the
  list (`DeletedAlike`); a slice assignment goes through three of these
  (`SetSliceTyped`). The writes of comments and the shapes of `format` keep the
  items one by one.
- The texts of `Init` scan (`Scans`): a comment ends its line, and a comma
  follows its item before there is another. Reading one gives a value made of gaps
  (`ParseTyped`), and spelling such a value joins no comment to anything
  (`RenderedEnded`).

The assumptions: the texts scan, no item is one of the tokens of a gap, and the pad
written into empty brackets (`SingleLinePad`) is blanks.

### What is only model-checked, and why

- Every property of `SectionLayout`, `LiveViews` and `InlineViews`: the modules they
  are built on use RECURSIVE operators (new values, plain data, routes, copies of
  inline tables), about which the prover cannot reason. So that an edit of the
  layout editor leaves a text with the lines in their scopes, which `RefFiling`
  takes as a condition, is checked by `edit` and `edit_twice` only.
- The other properties of `CommaArray`. `ReadsBack` and those about whose comment
  is whose compare with a fresh parse or look a comment up in the gaps on both
  sides of an item, of any shape: not out of the prover's reach, but each is as
  much again as the theorems above. `MemoExact` needs of each edit what it does
  to the breaks of every gap.
- Where a proof here needs induction, over steps of a walk, over the prefixes of a
  path, over the windows tried, it is by the least or greatest element of a set
  of naturals (`ListProofs`), since the library's induction theorems take an
  operator as parameter, which the installed provers cannot instantiate.
- Liveness: nothing in the library waits, so there is none to prove.

## Not modelled, and why

- *Scanner, scalars, rendering, IO*: pure functions of characters, with no
  state; covered by the compliance and round-trip tests.
- *Formatter*: but for the layout of one array (`CommaFormat`); it walks a
  document and rewrites whitespace, line by line.
- *Comments and spacing* of lines and sections: the leading trivia an edit moves
  with a line is left out, also where a modelled handler adjusts it. The number
  of blank lines in a gap is kept, but no property counts them.
- *Arrays that hold inline tables*: the arrays of `CommaArray` hold opaque items,
  the tables of `InlineHeap` hold tables and scalars. With them go the comments
  an extracted dotted table sheds (`strip_framing_comments`).
- *Live attachment of arrays of tables*: an array assigned as a value
  (`detach_aot_from_orphan`, `clone_aot`), tables given as entries of one
  (`adopt_private_entry`), and calls on an array that has itself left its document.
- *Promotion, synthesis*: see the plan.
- Exceptions for refused input: calls are modelled with input they accept.

## Plan

1. Arrays of tables in `LiveViews`: as the value assigned, as the receiver after
   they have left, and tables given as their entries.
2. Promotion (`promote_inline`, `promote_array`) as further actions of
   `SectionLayout`, and the atomicity of refused calls.
3. `Synthesis` as a function checked against `Reparsed`.
4. Theorems, continued: the placements of `LayoutEdits`, written without RECURSIVE
   operators, as steps that `Becomes` allows; the entries, labels and index of
   `InlineEntries`, whose search is `BisectionParts` over labels; `MemoExact` and
   `ReadsBack` of `CommaArray`.
