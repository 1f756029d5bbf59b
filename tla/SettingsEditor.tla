--------------------------- MODULE SettingsEditor ---------------------------
(***************************************************************************)
(* The editing half of Kohiko Settings: the fields of the scalar keys, the  *)
(* per-workspace fields that come and go with workspace.count, a block of   *)
(* plain lines (bind=), the two blocks of structured rows (windowrule= and  *)
(* monitor=), and the focus and the carets that say where the next key      *)
(* goes.  A text is empty or one character: enough for a caret to point     *)
(* past its end.                                                            *)
(*                                                                         *)
(* The code keeps a caret as a bare offset and checks it against the text   *)
(* nowhere: `fault` is an access outside the text or the rows.              *)
(***************************************************************************)
EXTENDS Integers, Sequences, Positions

Field == {"flag", "count", "ws1"}          \* a Boolean, workspace.count, workspace1
Block == {"windowrule", "monitor", "bind"}
Structured == {"windowrule", "monitor"}
Category == {"General", "Workspaces", "Input", "Window Rules", "Monitors"}
Key == {"type", "half", "comma", "back", "delete", "left", "right", "up", "down", "home", "end", "enter", "escape"}
None == "none"
MaxRows == 2                               \* bound: rows of a block

VARIABLE ed

\* A structured row is <<action, class, workspace>>, the class cell standing for class:,
\* instance: and title: alike; of a monitor rule, <<"workspace", output, workspace>>.  A
\* plain row is <<text>>: "half" is a binding without its command, "1" a whole one.
Text == 1
Class == 2
Workspace == 3
DefaultRow(b) ==                           \* "tile" stands for the four plain actions
  IF b = "monitor" THEN <<"workspace", "", "1">> ELSE <<"tile", "", "">>
Cells(key) == IF key \in Structured THEN 3 ELSE 1
BlankRow(b) == IF b \in Structured THEN <<"", "", "">> ELSE <<"">>
Blank(row) == \A i \in DOMAIN row : row[i] = ""
NonBlank(rows) == Remaining(rows, {i \in DOMAIN rows : ~Blank(rows[i])})
Size(text) == IF text = "" THEN 0 ELSE 1
LineSize == 3                              \* a whole structured line: longer than any cell

FieldCategory(f) == IF f = "flag" THEN "General" ELSE "Workspaces"
BlockCategory(b) ==
  CASE b = "bind" -> "Input" [] b = "monitor" -> "Monitors" [] OTHER -> "Window Rules"

\* While a search matches everything, everything is on screen.
FieldOrder == <<"flag", "count", "ws1">>
BlockOrder == <<"windowrule", "monitor", "bind">>
VisibleFields(e) ==
  Remaining(FieldOrder, {i \in DOMAIN FieldOrder :
    FieldOrder[i] \in DOMAIN e.field /\ (e.found \/ FieldCategory(FieldOrder[i]) = e.category)})
VisibleBlocks(e) ==
  Remaining(BlockOrder, {i \in DOMAIN BlockOrder :
    e.found \/ BlockCategory(BlockOrder[i]) = e.category})
Shows(seq, x) == \E i \in DOMAIN seq : seq[i] = x

-----------------------------------------------------------------------------
(* Focus. *)

ClearFocus(e) ==
  [e EXCEPT !.inSearch = FALSE, !.onField = None, !.onBlock = None,
            !.fieldCaret = 0, !.row = 1, !.col = 0, !.slip = None]

FocusField(e, f, caret) == [ClearFocus(e) EXCEPT !.onField = f, !.fieldCaret = caret]

FocusRow(e, b, i, cell, col) ==
  [ClearFocus(e) EXCEPT !.onBlock = b, !.row = i, !.cell = cell, !.col = col]

\* The end of the last line; of a structured one too, whichever cell is meant.
FocusRawBlock(e, b) ==
  LET rows == IF e.block[b].rows = <<>> THEN <<BlankRow(b)>> ELSE e.block[b].rows
      last == rows[Len(rows)]
      focused == [ClearFocus(e) EXCEPT !.onBlock = b, !.row = Len(rows), !.block[b].rows = rows]
  IN  IF b \in Structured
      THEN [focused EXCEPT !.col = IF Blank(last) THEN 0 ELSE LineSize, !.slip = "tab"]
      ELSE [focused EXCEPT !.col = Size(last[Text])]

HasWorkspace(b, row) == b = "monitor" \/ row[1] = "workspace"

CellOrder(b, row) == IF HasWorkspace(b, row) THEN <<Class, Workspace>> ELSE <<Class>>

CellIndex(order, cell) ==
  IF \E i \in DOMAIN order : order[i] = cell
  THEN CHOOSE i \in DOMAIN order : order[i] = cell ELSE 1

MoveStructuredFocus(e, direction) ==
  LET b == e.onBlock
      rows == e.block[b].rows
      order == CellOrder(b, IF e.row <= Len(rows) THEN rows[e.row] ELSE BlankRow(b))
      i == CellIndex(order, e.cell)
      LastOf(row) == CellOrder(b, row)[Len(CellOrder(b, row))]
      To(row, cell, col) ==
        [e EXCEPT !.row = row, !.cell = cell, !.col = col, !.slip = IF row <= Len(rows) THEN None ELSE @]
      EndOf(row, cell) == To(row, cell, Size(rows[row][cell]))
  IN  CASE direction > 0 /\ i < Len(order) -> To(e.row, order[i + 1], 0)
        [] direction > 0 /\ i = Len(order) /\ e.row < Len(rows) -> To(e.row + 1, Class, 0)
        [] direction < 0 /\ i > 1 -> EndOf(e.row, order[i - 1])
        [] direction < 0 /\ i = 1 /\ e.row > 1 -> EndOf(e.row - 1, LastOf(rows[e.row - 1]))
        [] OTHER -> e

IndexIn(seq, x) == IF Shows(seq, x) THEN CHOOSE i \in DOMAIN seq : seq[i] = x ELSE Len(seq)

\* Tab: search box, fields, the first block, its cells.
Tab(e) ==
  LET fields == VisibleFields(e)
      blocks == VisibleBlocks(e)
      FirstBlock(x) == IF blocks # <<>> THEN FocusRawBlock(x, blocks[1]) ELSE x
      AtEnd(f) == FocusField(e, f, Size(e.field[f].now))
  IN  CASE e.inSearch /\ fields # <<>> -> AtEnd(fields[1])
        [] e.inSearch /\ fields = <<>> -> FirstBlock([e EXCEPT !.inSearch = FALSE])
        [] ~e.inSearch /\ e.onField # None /\ IndexIn(fields, e.onField) < Len(fields) ->
             AtEnd(fields[IndexIn(fields, e.onField) + 1])
        [] ~e.inSearch /\ e.onField # None /\ IndexIn(fields, e.onField) >= Len(fields) ->
             FirstBlock(ClearFocus(e))
        [] ~e.inSearch /\ e.onField = None /\ e.onBlock \in Structured ->
             MoveStructuredFocus(e, 1)
        [] OTHER -> ClearFocus(e)

-----------------------------------------------------------------------------
(* Keys. *)

\* What moved the text from under the caret is remembered.
Fault(e) == [e EXCEPT !.fault = IF e.slip = None THEN "unexplained" ELSE e.slip]

\* One key in a text: what it leaves and where the caret is.
Edited(text, caret, key) ==
  CASE key \in {"type", "half"} /\ text = "" -> <<IF key = "type" THEN "1" ELSE key, caret + 1>>
    [] key = "back" /\ caret > 0 -> <<IF caret = 1 THEN "" ELSE text, caret - 1>>
    [] key = "delete" /\ caret < Size(text) -> <<"", caret>>
    [] key = "left" /\ caret > 0 -> <<text, caret - 1>>
    [] key = "right" /\ caret < Size(text) -> <<text, caret + 1>>
    [] key = "home" -> <<text, 0>>
    [] key = "end" -> <<text, Size(text)>>
    [] OTHER -> <<text, caret>>

\* insert() and erase() past the end: the caret's own neighbour may be the end.
Outside(text, caret, key) ==
  \/ key \in {"type", "half", "comma", "enter"} /\ caret > Size(text)
  \/ key = "back" /\ caret - 1 > Size(text)

\* HandleFieldKey.  A Boolean reached by Tab takes characters like any other field.
FieldKey(e, key, rebuilt) ==
  LET f == e.onField
      outside == Outside(e.field[f].now, e.fieldCaret, key)
      after == Edited(e.field[f].now, e.fieldCaret, key)
  IN  CASE key = "escape" -> ClearFocus(e)
        [] key = "enter" -> ClearFocus(IF f = "count" THEN rebuilt ELSE e)
        [] key \notin {"escape", "enter"} /\ outside -> Fault(e)
        [] f = "flag" /\ key \in {"type", "back", "delete"} /\ ~outside ->
             [e EXCEPT !.field[f].now = "junk"]
        [] OTHER -> [e EXCEPT !.field[f].now = after[1], !.fieldCaret = after[2]]

JoinedWith(rows, i) ==
  SubSeq(rows, 1, i - 1)
    \o <<<<IF rows[i][Text] = "" THEN rows[i + 1][Text] ELSE rows[i][Text]>>>>
    \o SubSeq(rows, i + 2, Len(rows))

Split(rows, i, col) ==
  SubSeq(rows, 1, i - 1)
    \o (IF col = 0 THEN <<<<"">>, rows[i]>> ELSE <<rows[i], <<"">>>>)
    \o SubSeq(rows, i + 1, Len(rows))

Clamped(row, col) == IF col > Size(row[Text]) THEN Size(row[Text]) ELSE col

\* HandleRawBlockKey.
RawKey(e0, key) ==
  LET b == e0.onBlock
      e == IF e0.block[b].rows = <<>> THEN [e0 EXCEPT !.block[b].rows = <<<<"">>>>] ELSE e0
      rows == e.block[b].rows
      text == rows[e.row][Text]
      after == Edited(text, e.col, key)
  IN  IF key = "escape" THEN ClearFocus(e)
      ELSE IF e.row > Len(rows) \/ Outside(text, e.col, key) THEN Fault(e)
      ELSE
        CASE key = "enter" -> [e EXCEPT !.block[b].rows = Split(rows, e.row, e.col), !.row = @ + 1, !.col = 0]
        [] key = "back" /\ e.col = 0 /\ e.row > 1 ->
             [e EXCEPT !.block[b].rows = JoinedWith(rows, e.row - 1), !.row = @ - 1,
                       !.col = Size(rows[e.row - 1][Text])]
        [] key = "delete" /\ e.col >= Size(text) /\ e.row < Len(rows) ->
             [e EXCEPT !.block[b].rows = JoinedWith(rows, e.row)]
        [] key = "left" /\ e.col = 0 /\ e.row > 1 ->
             [e EXCEPT !.row = @ - 1, !.col = Size(rows[e.row - 1][Text])]
        [] key = "right" /\ e.col >= Size(text) /\ e.row < Len(rows) ->
             [e EXCEPT !.row = @ + 1, !.col = 0]
        [] key = "up" /\ e.row > 1 -> [e EXCEPT !.row = @ - 1, !.col = Clamped(rows[e.row - 1], @)]
        [] key = "down" /\ e.row < Len(rows) -> [e EXCEPT !.row = @ + 1, !.col = Clamped(rows[e.row + 1], @)]
        [] OTHER -> [e EXCEPT !.block[b].rows[e.row][Text] = after[1], !.col = after[2]]

\* SetStructuredCellText: the workspace of a row with another action is not written.
WithCell(b, row, cell, text) ==
  LET whole == IF row[1] = "" THEN [row EXCEPT ![1] = DefaultRow(b)[1]] ELSE row
  IN  IF cell = Workspace /\ ~HasWorkspace(b, row) THEN whole ELSE [whole EXCEPT ![cell] = text]

\* A comma in a monitor's output cell ends the output when the line is next parsed: what was
\* right of the caret is lost, and the caret is one past what is left.
Parted(text, caret) == <<IF caret = 0 THEN "" ELSE text, caret + 1>>

Inserted(rows, i, row) == SubSeq(rows, 1, i) \o <<row>> \o SubSeq(rows, i + 1, Len(rows))

\* HandleStructuredBlockKey.
StructuredKey(e0, key) ==
  LET b == e0.onBlock
      rows == IF e0.block[b].rows = <<>> THEN <<DefaultRow(b)>> ELSE e0.block[b].rows
      e == [e0 EXCEPT !.block[b].rows = rows, !.row = IF @ > Len(rows) THEN Len(rows) ELSE @,
                      !.unchecked = IF key \in {"escape", "left", "right"}
                                    THEN @ \/ (b = "windowrule" /\ e0.block[b].rows = <<>>)
                                    ELSE @ /\ b # "windowrule"]
      text == rows[e.row][e.cell]
      after == IF key = "comma" THEN Parted(text, e.col) ELSE Edited(text, e.col, key)
  IN  CASE key = "escape" -> ClearFocus(e)
        [] key = "enter" -> [e EXCEPT !.block[b].rows = Inserted(rows, e.row, DefaultRow(b)),
                                      !.row = @ + 1, !.cell = Class, !.col = 0]
        [] key \in {"type", "comma", "back"} /\ Outside(text, e.col, key) -> Fault(e)
        [] key = "left" /\ e.col = 0 -> MoveStructuredFocus(e, -1)
        [] key = "right" /\ e.col >= Size(text) -> MoveStructuredFocus(e, 1)
        [] (key = "left" /\ e.col > 0) \/ (key = "right" /\ e.col < Size(text)) -> [e EXCEPT !.col = after[2]]
        [] OTHER -> [e EXCEPT !.block[b].rows[e.row] = WithCell(b, @, e.cell, after[1]), !.col = after[2],
                              !.slip = IF key = "comma" THEN key ELSE @]

\* HandleSearchKey: of the text, only whether there is any.
SearchKey(e, key) ==
  CASE key = "escape" -> [e EXCEPT !.found = FALSE, !.inSearch = FALSE]
    [] key = "enter" -> [e EXCEPT !.inSearch = FALSE]
    [] key = "type" -> [e EXCEPT !.found = TRUE]
    [] key \in {"back", "delete"} -> [e EXCEPT !.found = FALSE]
    [] OTHER -> e

\* Bound: nothing grows past one character or MaxRows rows.  A comma is a character like any
\* other but in a monitor's output, and so is half a binding anywhere else.
Fits(e, key) ==
  LET rows == e.block[e.onBlock].rows
      Room(text) == key \in {"type", "half"} => text = ""
      InBlock(b) == ~e.inSearch /\ e.onField = None /\ e.onBlock = b
  IN  /\ key = "half" => InBlock("bind")
      /\ key = "comma" => InBlock("monitor") /\ e.cell = Class
      /\ CASE e.inSearch -> TRUE
        [] ~e.inSearch /\ e.onField # None ->
             e.onField # "flag" => (e.fieldCaret <= Size(e.field[e.onField].now) => Room(e.field[e.onField].now))
        [] ~e.inSearch /\ e.onField = None /\ e.onBlock # None ->
             /\ key = "enter" => Len(rows) < MaxRows
             /\ e.row <= Len(rows) =>
                  LET text == rows[e.row][IF e.onBlock = "bind" THEN Text ELSE e.cell]
                  IN  /\ e.col <= Size(text) => Room(text)
                      /\ e.onBlock = "bind" => 
                           /\ key = "back" /\ e.col = 0 /\ e.row > 1 => "" \in {text, rows[e.row - 1][Text]}
                           /\ key = "delete" /\ e.col >= Size(text) /\ e.row < Len(rows)
                                => "" \in {text, rows[e.row + 1][Text]}
        [] OTHER -> TRUE

\* HandleKeyPress; rebuilt is what BuildWorkspaceFields would make of e.
Pressed(e, key, rebuilt) ==
  CASE e.inSearch -> SearchKey(e, key)
    [] ~e.inSearch /\ e.onField # None -> FieldKey(e, key, rebuilt)
    [] ~e.inSearch /\ e.onField = None /\ e.onBlock \in Structured -> StructuredKey(e, key)
    [] ~e.inSearch /\ e.onField = None /\ e.onBlock \in Block \ Structured -> RawKey(e, key)
    [] OTHER -> e

-----------------------------------------------------------------------------
(* Clicks. *)

SelectCategory(e, c) == [ClearFocus(e) EXCEPT !.category = c, !.found = FALSE]

ClickSearch(e) == [ClearFocus(e) EXCEPT !.inSearch = TRUE]

\* Where a click can put the caret: between any two characters, or at an end.
CaretsForClick(text) == 0..Size(text)

Toggled(text) == IF text = "true" THEN "false" ELSE "true"

ClickField(e, f, caret) ==
  IF f = "flag"
  THEN [ClearFocus(e) EXCEPT !.field[f].now = Toggled(@)]
  ELSE FocusField(e, f, caret)

ClickLine(e, i, col) ==
  LET rows == IF e.block["bind"].rows = <<>> THEN <<<<"">>>> ELSE e.block["bind"].rows
  IN  [FocusRow(e, "bind", i, e.cell, col) EXCEPT !.block["bind"].rows = rows]

AddRow(e, b) ==
  LET rows == Append(e.block[b].rows, DefaultRow(b))
  IN  [e EXCEPT !.block[b].rows = rows, !.unchecked = @ /\ b # "windowrule", !.onBlock = b,
                !.row = Len(rows), !.cell = Class, !.col = 0,
                !.slip = IF e.onField = None THEN None ELSE @]

Without(rows, i) == SubSeq(rows, 1, i - 1) \o SubSeq(rows, i + 1, Len(rows))

RemoveRow_StaysFocused(e, b, i) ==
  [e EXCEPT !.block[b].rows = Without(@, i), !.unchecked = @ /\ b # "windowrule"]

RemoveRow(e, b, i) ==
  LET gone == [e EXCEPT !.block[b].rows = Without(@, i), !.unchecked = @ /\ b # "windowrule"]
  IN  CASE e.onBlock = b /\ e.row = i -> ClearFocus(gone)
        [] e.onBlock = b /\ e.row > i -> [gone EXCEPT !.row = @ - 1]
        [] OTHER -> gone

\* CycleStructuredAction: off "workspace", its text is cleared; the caret is not told.
CycleAction(e, i) ==
  LET row == e.block["windowrule"].rows[i]
      next == IF row[1] = "workspace" THEN <<"tile", row[Class], "">> ELSE [row EXCEPT ![1] = "workspace"]
  IN  [e EXCEPT !.block["windowrule"].rows[i] = next, !.unchecked = FALSE,
                !.slip = IF e.onBlock = "windowrule" /\ e.row = i /\ e.cell = Workspace /\ row[1] = "workspace"
                         THEN "cycle" ELSE @]

\* ResetVisibleToDefault: texts and rows change under the focus and its carets.
ResetVisible(e, default) ==
  LET fields == {f \in DOMAIN e.field : Shows(VisibleFields(e), f)}
      blocks == {b \in Block : Shows(VisibleBlocks(e), b)}
  IN  [e EXCEPT !.field = [f \in DOMAIN @ |-> IF f \in fields THEN [@[f] EXCEPT !.now = default[f]] ELSE @[f]],
                !.block = [b \in Block |-> IF b \in blocks THEN [@[b] EXCEPT !.rows = <<>>] ELSE @[b]],
                !.unchecked = @ /\ "windowrule" \notin blocks,
                !.slip = IF e.onField \in fields \/ e.onBlock \in blocks THEN "reset" ELSE @]

-----------------------------------------------------------------------------
(* What may be saved. *)

FieldDirty(e, f) == e.field[f].now # e.field[f].loaded
BlockDirty(e, b) == e.block[b].rows # e.block[b].loaded

\* ValidateField: Booleans and strings always pass.
FieldOK(e, f) == f = "count" => e.field[f].now # ""

\* ValidateRawBlockLine: a rule names a class, and a workspace where it needs one; a binding
\* has a command.  A monitor rule always has its comma and its "workspace=".
RowOK(b, row) ==
  /\ b = "windowrule" /\ ~Blank(row) => row[Class] # "" /\ (row[1] = "workspace" => row[Workspace] # "")
  /\ b = "bind" => row[Text] # "half"

\* lineErrors, made anew by every key and click that changes the rows but one: the first key
\* into an empty block adds the default row, and Escape, Left and Right look no further.
BlockOK(e, b) ==
  \/ b = "windowrule" /\ e.unchecked
  \/ \A i \in DOMAIN e.block[b].rows : RowOK(b, e.block[b].rows[i])

=============================================================================
