------------------------------- MODULE UiTrees -------------------------------
(***************************************************************************)
(* The trees of src/node.rs, and the functions of src/render.rs that walk  *)
(* them: the validation, and the message that a render produces, in two    *)
(* parts, its blocks and its buttons.                                      *)
(*                                                                         *)
(* A text is empty or not; styles, sizes and borders are left out.  A tree *)
(* is a value of Rust, so it is finite: a part is less deep than the       *)
(* whole.  Its functions are recursive, and each is written as one level,  *)
(* an operator with the function as its first parameter.                   *)
(***************************************************************************)
EXTENDS Integers, SequencesExt

CONSTANTS
    Actions,
    TableCells,   \* cells, with the cells inside them
    NodeLists,    \* Vec<UiNode>, with the lists inside them
    CellDepth(_),
    Depth(_)      \* of a list

Texts == {"", "t"}

\* ButtonLabel: Plain or CustomEmoji, with an empty part or without.
Labels == {"plain", "emoji", "emptyPlain", "emptyEmoji"}

UiButton == [label : Labels, action : Actions, disabled : BOOLEAN]

TableCell ==
    [cell : {"empty"}]
      \cup [cell : {"text"}, text : Texts]
      \cup [cell : {"button"}, button : UiButton]
      \cup [cell : {"header"}, inner : TableCells]

\* Text, Paragraph, Heading and Blockquote are all "text".
UiNode ==
    [node : {"text"}, text : Texts]
      \cup [node : {"details"}, summary : Texts, blocks : NodeLists]
      \cup [node : {"row"}, buttons : Seq(UiButton)]
      \cup [node : {"table"}, rows : Seq(Seq(TableCells))]
      \cup [node : {"fragment"}, nodes : NodeLists]

ASSUME CellsAssumption ==
    \A c \in TableCells :
       /\ c \in TableCell
       /\ CellDepth(c) \in Nat
       /\ c.cell = "header" => CellDepth(c.inner) < CellDepth(c)

ASSUME ListsAssumption ==
    \A nodes \in NodeLists :
       /\ nodes \in Seq(UiNode)
       /\ Depth(nodes) \in Nat
       /\ \A n \in ToSet(nodes) :
             /\ n.node = "details" => Depth(n.blocks) < Depth(nodes)
             /\ n.node = "fragment" => Depth(n.nodes) < Depth(nodes)

-----------------------------------------------------------------------------
(* The builders. *)

Button(label, action) ==
    [label |-> label, action |-> action, disabled |-> FALSE]

Disabled(button) == [button EXCEPT !.disabled = TRUE]

EmptyCell == [cell |-> "empty"]
TextCell(text) == [cell |-> "text", text |-> text]
ButtonCell(button) == [cell |-> "button", button |-> button]

\* TableCell::header: the flag is a wrapper, and taking it off removes one.
HeaderCell(cell, header) ==
    IF header THEN [cell |-> "header", inner |-> cell]
    ELSE IF cell.cell = "header" THEN cell.inner
    ELSE cell

\* Mutated form of DisabledStep: a wrapped button stays enabled.
DisabledStepBare(disabled, cell) ==
    IF cell.cell = "button" THEN [cell EXCEPT !.button = Disabled(@)] ELSE cell

\* TableCell::disabled.
DisabledStep(disabled, cell) ==
    CASE cell.cell = "button" -> [cell EXCEPT !.button = Disabled(@)]
      [] cell.cell = "header" -> [cell EXCEPT !.inner = disabled[@]]
      [] OTHER -> cell

DisabledCell[cell \in TableCells] == DisabledStep(DisabledCell, cell)

Text(text) == [node |-> "text", text |-> text]
Details(summary, blocks) ==
    [node |-> "details", summary |-> summary, blocks |-> blocks]
ButtonRow(buttons) == [node |-> "row", buttons |-> buttons]
Table(rows) == [node |-> "table", rows |-> rows]
Fragment(nodes) == [node |-> "fragment", nodes |-> nodes]

-----------------------------------------------------------------------------
(* validate_nodes. *)

Ok == "ok"

RenderErrors ==
    {"EmptyUi", "EmptyButtonRow", "EmptyTable", "EmptyTableRow",
     "EmptyTableCellText", "EmptyButtonLabel", "InvalidCustomEmoji"}

\* The loop with ? over the parts of a node: the first error ends it.
FirstError(errors) ==
    LET found == {i \in DOMAIN errors : errors[i] # Ok}
    IN  IF found = {} THEN Ok ELSE errors[Min(found)]

LabelError(label) ==
    CASE label = "emptyPlain" -> "EmptyButtonLabel"
      [] label = "emptyEmoji" -> "InvalidCustomEmoji"
      [] OTHER -> Ok

\* Mutated form of CellErrorStep: what a header cell wraps is not looked at.
CellErrorStepBare(error, cell) ==
    CASE cell.cell = "text" /\ cell.text = "" -> "EmptyTableCellText"
      [] cell.cell = "button" -> LabelError(cell.button.label)
      [] OTHER -> Ok

\* validate_table_cell, which validate_nodes repeats for the outer cell.
CellErrorStep(error, cell) ==
    CASE cell.cell = "text" /\ cell.text = "" -> "EmptyTableCellText"
      [] cell.cell = "button" -> LabelError(cell.button.label)
      [] cell.cell = "header" -> error[cell.inner]
      [] OTHER -> Ok

CellError[cell \in TableCells] == CellErrorStep(CellError, cell)

RowError(row) ==
    IF row = << >> THEN "EmptyTableRow"
    ELSE FirstError([i \in DOMAIN row |-> CellError[row[i]]])

\* The body of the loop over the nodes.
NodeError(error, n) ==
    CASE n.node = "text" /\ n.text = "" -> "EmptyUi"
      [] n.node = "details" ->
            IF n.summary = "" THEN "EmptyUi" ELSE error[n.blocks]
      [] n.node = "row" ->
            IF n.buttons = << >> THEN "EmptyButtonRow"
            ELSE FirstError([i \in DOMAIN n.buttons |->
                                LabelError(n.buttons[i].label)])
      [] n.node = "table" ->
            IF n.rows = << >> THEN "EmptyTable"
            ELSE FirstError([i \in DOMAIN n.rows |-> RowError(n.rows[i])])
      [] n.node = "fragment" -> error[n.nodes]
      [] OTHER -> Ok

NodesErrorStep(error, nodes) ==
    IF nodes = << >> THEN "EmptyUi"
    ELSE FirstError([i \in DOMAIN nodes |-> NodeError(error, nodes[i])])

NodesError[nodes \in NodeLists] == NodesErrorStep(NodesError, nodes)

-----------------------------------------------------------------------------
(* render_nodes, in two parts: the blocks, and the buttons in their order. *)

\* table_cell_parts.
UnwrappedStep(unwrapped, cell) ==
    IF cell.cell = "header" THEN unwrapped[cell.inner] ELSE cell

Unwrapped[cell \in TableCells] == UnwrappedStep(Unwrapped, cell)

CellButtons(cell) ==
    LET inner == Unwrapped[cell]
    IN  IF inner.cell = "button" THEN <<inner.button>> ELSE << >>

RowButtons(row) == FlattenSeq([i \in DOMAIN row |-> CellButtons(row[i])])

NodeButtons(buttons, n) ==
    CASE n.node = "details" -> buttons[n.blocks]
      [] n.node = "row" -> n.buttons
      [] n.node = "table" ->
            FlattenSeq([i \in DOMAIN n.rows |-> RowButtons(n.rows[i])])
      [] n.node = "fragment" -> buttons[n.nodes]
      [] OTHER -> << >>

ButtonsStep(buttons, nodes) ==
    FlattenSeq([i \in DOMAIN nodes |-> NodeButtons(buttons, nodes[i])])

Buttons[nodes \in NodeLists] == ButtonsStep(Buttons, nodes)

\* The InputRichBlocks: fragments are flattened, header wrappers are flags.
NodeBlocks(blocks, n) ==
    CASE n.node = "details" ->
            <<[block |-> "details", summary |-> n.summary,
               blocks |-> blocks[n.blocks]]>>
      [] n.node = "row" ->
            <<[block |-> "buttons", labels |->
                  [i \in DOMAIN n.buttons |-> n.buttons[i].label]]>>
      [] n.node = "table" ->
            <<[block |-> "table", rows |->
                  [i \in DOMAIN n.rows |->
                     [j \in DOMAIN n.rows[i] |-> Unwrapped[n.rows[i][j]]]]]>>
      [] n.node = "fragment" -> blocks[n.nodes]
      [] OTHER -> <<[block |-> "text", text |-> n.text]>>

BlocksStep(blocks, nodes) ==
    FlattenSeq([i \in DOMAIN nodes |-> NodeBlocks(blocks, nodes[i])])

Blocks[nodes \in NodeLists] == BlocksStep(Blocks, nodes)

-----------------------------------------------------------------------------
(* What a message must be. *)

\* What Telegram accepts: no text, label or list in the message is empty.
IsGoodCell(c) ==
    /\ c.cell = "text" => c.text # ""
    /\ c.cell = "button" => LabelError(c.button.label) = Ok

IsGoodBlock(isGood, b) ==
    CASE b.block = "text" -> b.text # ""
      [] b.block = "details" -> b.summary # "" /\ isGood[b.blocks]
      [] b.block = "buttons" ->
            /\ b.labels # << >>
            /\ \A i \in DOMAIN b.labels : LabelError(b.labels[i]) = Ok
      [] b.block = "table" ->
            /\ b.rows # << >>
            /\ \A i \in DOMAIN b.rows :
                  /\ b.rows[i] # << >>
                  /\ \A j \in DOMAIN b.rows[i] : IsGoodCell(b.rows[i][j])

IsWellFormedStep(isGood, blocks) ==
    blocks # << >> /\ \A i \in DOMAIN blocks : IsGoodBlock(isGood, blocks[i])

IsWellFormed[blocks \in {Blocks[nodes] : nodes \in NodeLists}] ==
    IsWellFormedStep(IsWellFormed, blocks)

\* A fragment without nodes leaves no trace in the message.
HasEmptyFragmentStep(has, nodes) ==
    \E n \in ToSet(nodes) :
       CASE n.node = "fragment" -> n.nodes = << >> \/ has[n.nodes]
         [] n.node = "details" -> has[n.blocks]
         [] OTHER -> FALSE

HasEmptyFragment[nodes \in NodeLists] ==
    HasEmptyFragmentStep(HasEmptyFragment, nodes)
=============================================================================
