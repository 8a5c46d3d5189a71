------------------------- MODULE RichRendererProofs -------------------------
(***************************************************************************)
(* Theorems about trees of any depth, and about concurrent renders and     *)
(* their capabilities, for any handlers, contexts and documents.           *)
(*                                                                         *)
(* The first half is about the recursive functions of UiTrees.  Recursion  *)
(* says that each of them is what its definition says, and gives the       *)
(* induction on the depth of a tree.                                       *)
(*                                                                         *)
(* IInv is the inductive invariant of the renders.  Its heart is           *)
(* WalkInOrder: what a render has placed, followed by what is left of its  *)
(* tree, is its tree.                                                      *)
(***************************************************************************)
EXTENDS RichRenderer, SequenceLemmas

-----------------------------------------------------------------------------
(* The recursive functions of trees are what their definitions say. *)

\* Each recursion goes down: on the cells in a cell, or the lists in a list.
DisabledRec == INSTANCE Recursion
    WITH S <- TableCells, Rank <- CellDepth, Def <- DisabledStep
CellErrorRec == INSTANCE Recursion
    WITH S <- TableCells, Rank <- CellDepth, Def <- CellErrorStep
UnwrappedRec == INSTANCE Recursion
    WITH S <- TableCells, Rank <- CellDepth, Def <- UnwrappedStep
NodesErrorRec == INSTANCE Recursion
    WITH S <- NodeLists, Rank <- Depth, Def <- NodesErrorStep
ButtonsRec == INSTANCE Recursion
    WITH S <- NodeLists, Rank <- Depth, Def <- ButtonsStep
BlocksRec == INSTANCE Recursion
    WITH S <- NodeLists, Rank <- Depth, Def <- BlocksStep
FragmentRec == INSTANCE Recursion
    WITH S <- NodeLists, Rank <- Depth, Def <- HasEmptyFragmentStep

\* What is inside a cell is a cell, and less deep.
LEMMA CellParts ==
    ASSUME NEW c \in TableCells
    PROVE  /\ CellDepth(c) \in Nat
           /\ c.cell \in {"empty", "text", "button", "header"}
           /\ c.cell = "button" => c.button \in UiButton
           /\ c.cell = "header" =>
                 c.inner \in TableCells /\ CellDepth(c.inner) < CellDepth(c)
<1>1. c \in TableCell /\ CellDepth(c) \in Nat
      /\ (c.cell = "header" => CellDepth(c.inner) < CellDepth(c))
  BY CellsAssumption
<1> QED
  BY <1>1 DEF TableCell

\* TableCell::disabled.
LEMMA DisabledCellIs ==
    \A c \in TableCells : DisabledCell[c] = DisabledStep(DisabledCell, c)
<1>1. DisabledRec!RanksAreNatural
  BY CellParts DEF DisabledRec!RanksAreNatural
<1>2. DisabledRec!LooksDown
  BY CellParts DEF DisabledRec!LooksDown, DisabledStep
<1>3. DisabledCell = CHOOSE g : g = [c \in TableCells |-> DisabledStep(g, c)]
  BY DEF DisabledCell
<1> HIDE DEF DisabledCell, DisabledStep
<1>4. DisabledCell = [c \in TableCells |-> DisabledStep(DisabledCell, c)]
  BY <1>1, <1>2, <1>3, DisabledRec!RecursiveDefinition
<1> QED
  BY <1>4

\* validate_table_cell.
LEMMA CellErrorIs ==
    \A c \in TableCells : CellError[c] = CellErrorStep(CellError, c)
<1>1. CellErrorRec!RanksAreNatural
  BY CellParts DEF CellErrorRec!RanksAreNatural
<1>2. CellErrorRec!LooksDown
  BY CellParts DEF CellErrorRec!LooksDown, CellErrorStep
<1>3. CellError = CHOOSE g : g = [c \in TableCells |-> CellErrorStep(g, c)]
  BY DEF CellError
<1> HIDE DEF CellError
<1>4. CellError = [c \in TableCells |-> CellErrorStep(CellError, c)]
  BY <1>1, <1>2, <1>3, CellErrorRec!RecursiveDefinition
<1> QED
  BY <1>4

\* table_cell_parts.
LEMMA UnwrappedIs ==
    \A c \in TableCells : Unwrapped[c] = UnwrappedStep(Unwrapped, c)
<1>1. UnwrappedRec!RanksAreNatural
  BY CellParts DEF UnwrappedRec!RanksAreNatural
<1>2. UnwrappedRec!LooksDown
  BY CellParts DEF UnwrappedRec!LooksDown, UnwrappedStep
<1>3. Unwrapped = CHOOSE g : g = [c \in TableCells |-> UnwrappedStep(g, c)]
  BY DEF Unwrapped
<1> HIDE DEF Unwrapped
<1>4. Unwrapped = [c \in TableCells |-> UnwrappedStep(Unwrapped, c)]
  BY <1>1, <1>2, <1>3, UnwrappedRec!RecursiveDefinition
<1> QED
  BY <1>4

\* What is inside a list of nodes is a list of nodes, and less deep.
LEMMA NodeParts ==
    ASSUME NEW nodes \in NodeLists
    PROVE  /\ Depth(nodes) \in Nat
           /\ nodes \in Seq(UiNode)
           /\ DOMAIN nodes = 1 .. Len(nodes) /\ Len(nodes) \in Nat
           /\ \A n \in ToSet(nodes) :
                 /\ n.node \in {"text", "details", "row", "table", "fragment"}
                 /\ n.node = "row" => n.buttons \in Seq(UiButton)
                 /\ n.node = "table" => n.rows \in Seq(Seq(TableCells))
                 /\ n.node = "details" =>
                       /\ n.blocks \in NodeLists
                       /\ Depth(n.blocks) < Depth(nodes)
                 /\ n.node = "fragment" =>
                       /\ n.nodes \in NodeLists
                       /\ Depth(n.nodes) < Depth(nodes)
           /\ \A i \in DOMAIN nodes : nodes[i] \in ToSet(nodes)
<1>1. /\ nodes \in Seq(UiNode)
      /\ Depth(nodes) \in Nat
      /\ \A n \in ToSet(nodes) :
            /\ n.node = "details" => Depth(n.blocks) < Depth(nodes)
            /\ n.node = "fragment" => Depth(n.nodes) < Depth(nodes)
  BY ListsAssumption
<1>2. /\ DOMAIN nodes = 1 .. Len(nodes) /\ Len(nodes) \in Nat
  BY <1>1, LenProperties
<1>3. \A n \in ToSet(nodes) : n \in UiNode
  BY <1>1, ToSetMembers
<1>4. \A n \in UiNode :
         /\ n.node \in {"text", "details", "row", "table", "fragment"}
         /\ n.node = "row" => n.buttons \in Seq(UiButton)
         /\ n.node = "table" => n.rows \in Seq(Seq(TableCells))
         /\ n.node = "details" => n.blocks \in NodeLists
         /\ n.node = "fragment" => n.nodes \in NodeLists
  BY DEF UiNode
<1>5. \A i \in DOMAIN nodes : nodes[i] \in ToSet(nodes)
  BY DEF ToSet
<1> QED
  BY <1>1, <1>2, <1>3, <1>4, <1>5

\* validate_nodes, which comes back to itself at the lists in a node only.
LEMMA NodesErrorIs ==
    \A l \in NodeLists : NodesError[l] = NodesErrorStep(NodesError, l)
<1>1. NodesErrorRec!RanksAreNatural
  BY NodeParts DEF NodesErrorRec!RanksAreNatural
<1>2. NodesErrorRec!LooksDown
  <2> SUFFICES ASSUME NEW g, NEW h, NEW l \in NodeLists,
                      \A m \in NodeLists : Depth(m) < Depth(l) => g[m] = h[m]
               PROVE  NodesErrorStep(g, l) = NodesErrorStep(h, l)
    BY DEF NodesErrorRec!LooksDown
  <2>1. \A n \in ToSet(l) : NodeError(g, n) = NodeError(h, n)
    BY NodeParts DEF NodeError
  <2>2. [i \in DOMAIN l |-> NodeError(g, l[i])]
          = [i \in DOMAIN l |-> NodeError(h, l[i])]
    BY <2>1, NodeParts
  <2> QED
    BY <2>2 DEF NodesErrorStep
<1>3. NodesError = CHOOSE g : g = [l \in NodeLists |-> NodesErrorStep(g, l)]
  BY DEF NodesError
<1> HIDE DEF NodesError
<1>4. NodesError = [l \in NodeLists |-> NodesErrorStep(NodesError, l)]
  BY <1>1, <1>2, <1>3, NodesErrorRec!RecursiveDefinition
<1> QED
  BY <1>4

\* The buttons that render_nodes comes by.
LEMMA ButtonsIs ==
    \A l \in NodeLists : Buttons[l] = ButtonsStep(Buttons, l)
<1>1. ButtonsRec!RanksAreNatural
  BY NodeParts DEF ButtonsRec!RanksAreNatural
<1>2. ButtonsRec!LooksDown
  <2> SUFFICES ASSUME NEW g, NEW h, NEW l \in NodeLists,
                      \A m \in NodeLists : Depth(m) < Depth(l) => g[m] = h[m]
               PROVE  ButtonsStep(g, l) = ButtonsStep(h, l)
    BY DEF ButtonsRec!LooksDown
  <2>1. \A n \in ToSet(l) : NodeButtons(g, n) = NodeButtons(h, n)
    BY NodeParts DEF NodeButtons
  <2>2. [i \in DOMAIN l |-> NodeButtons(g, l[i])]
          = [i \in DOMAIN l |-> NodeButtons(h, l[i])]
    BY <2>1, NodeParts
  <2> QED
    BY <2>2 DEF ButtonsStep
<1>3. Buttons = CHOOSE g : g = [l \in NodeLists |-> ButtonsStep(g, l)]
  BY DEF Buttons
<1> HIDE DEF Buttons
<1>4. Buttons = [l \in NodeLists |-> ButtonsStep(Buttons, l)]
  BY <1>1, <1>2, <1>3, ButtonsRec!RecursiveDefinition
<1> QED
  BY <1>4

\* The blocks that render_nodes returns.
LEMMA BlocksIs ==
    \A l \in NodeLists : Blocks[l] = BlocksStep(Blocks, l)
<1>1. BlocksRec!RanksAreNatural
  BY NodeParts DEF BlocksRec!RanksAreNatural
<1>2. BlocksRec!LooksDown
  <2> SUFFICES ASSUME NEW g, NEW h, NEW l \in NodeLists,
                      \A m \in NodeLists : Depth(m) < Depth(l) => g[m] = h[m]
               PROVE  BlocksStep(g, l) = BlocksStep(h, l)
    BY DEF BlocksRec!LooksDown
  <2>1. \A n \in ToSet(l) : NodeBlocks(g, n) = NodeBlocks(h, n)
    BY NodeParts DEF NodeBlocks
  <2>2. [i \in DOMAIN l |-> NodeBlocks(g, l[i])]
          = [i \in DOMAIN l |-> NodeBlocks(h, l[i])]
    BY <2>1, NodeParts
  <2> QED
    BY <2>2 DEF BlocksStep
<1>3. Blocks = CHOOSE g : g = [l \in NodeLists |-> BlocksStep(g, l)]
  BY DEF Blocks
<1> HIDE DEF Blocks
<1>4. Blocks = [l \in NodeLists |-> BlocksStep(Blocks, l)]
  BY <1>1, <1>2, <1>3, BlocksRec!RecursiveDefinition
<1> QED
  BY <1>4

\* Fragments without nodes, at any depth.
LEMMA HasEmptyFragmentIs ==
    \A l \in NodeLists :
       HasEmptyFragment[l] = HasEmptyFragmentStep(HasEmptyFragment, l)
<1>1. FragmentRec!RanksAreNatural
  BY NodeParts DEF FragmentRec!RanksAreNatural
<1>2. FragmentRec!LooksDown
  BY NodeParts DEF FragmentRec!LooksDown, HasEmptyFragmentStep
<1>3. HasEmptyFragment
        = CHOOSE g : g = [l \in NodeLists |-> HasEmptyFragmentStep(g, l)]
  BY DEF HasEmptyFragment
<1> HIDE DEF HasEmptyFragment
<1>4. HasEmptyFragment
        = [l \in NodeLists |-> HasEmptyFragmentStep(HasEmptyFragment, l)]
  BY <1>1, <1>2, <1>3, FragmentRec!RecursiveDefinition
<1> QED
  BY <1>4

-----------------------------------------------------------------------------
(* What validation finds in a part of a node. *)

\* There is no error among the parts if there is none in any of them.
LEMMA FirstErrorIs ==
    ASSUME NEW n \in Nat, NEW errors, DOMAIN errors = 1 .. n
    PROVE  /\ FirstError(errors) = Ok <=> \A i \in 1 .. n : errors[i] = Ok
           /\ FirstError(errors) \in {Ok} \cup {errors[i] : i \in 1 .. n}
<1> DEFINE found == {i \in DOMAIN errors : errors[i] # Ok}
<1>1. CASE found = {}
  BY <1>1 DEF FirstError
<1>2. CASE found # {}
  <2>1. found \in SUBSET Nat
    OBVIOUS
  <2>2. Min(found) \in found
    <3> HIDE DEF found
    <3> QED
      BY <1>2, <2>1, MinIsLeast
  <2>3. FirstError(errors) = errors[Min(found)]
    BY <1>2 DEF FirstError
  <2> QED
    BY <2>2, <2>3
<1> QED
  BY <1>1, <1>2

\* A label has no errors but those of render.rs.
LEMMA LabelErrors ==
    \A label : LabelError(label) \in {Ok} \cup RenderErrors
  BY DEF LabelError, RenderErrors, Ok

\* Validation looks at the cell that is shown, through any header wrappers.
LEMMA CellErrors ==
    \A c \in TableCells :
       /\ CellError[c] \in {Ok} \cup RenderErrors
       /\ CellError[c] = Ok <=> IsGoodCell(Unwrapped[c])
<1> DEFINE T == {c \in TableCells :
                    /\ CellError[c] \in {Ok} \cup RenderErrors
                    /\ CellError[c] = Ok <=> IsGoodCell(Unwrapped[c])}
<1>1. CellErrorRec!RanksAreNatural
  BY CellParts DEF CellErrorRec!RanksAreNatural
<1>2. ASSUME NEW c \in TableCells,
             \A d \in TableCells : CellDepth(d) < CellDepth(c) => d \in T
      PROVE  c \in T
  <2>1. /\ CellError[c] = CellErrorStep(CellError, c)
        /\ Unwrapped[c] = UnwrappedStep(Unwrapped, c)
    BY CellErrorIs, UnwrappedIs
  <2>2. CASE c.cell = "header"
    <3>1. c.inner \in T
      BY <1>2, <2>2, CellParts
    <3>2. CellError[c] = CellError[c.inner] /\ Unwrapped[c] = Unwrapped[c.inner]
      BY <2>1, <2>2 DEF CellErrorStep, UnwrappedStep
    <3> QED
      BY <3>1, <3>2
  <2>3. CASE c.cell # "header"
    <3>1. Unwrapped[c] = c
      BY <2>1, <2>3 DEF UnwrappedStep
    <3>2. CASE c.cell = "button"
      BY <2>1, <3>1, <3>2, LabelErrors DEF CellErrorStep, IsGoodCell
    <3>3. CASE c.cell # "button"
      BY <2>1, <2>3, <3>1, <3>3
         DEF CellErrorStep, IsGoodCell, RenderErrors, Ok
    <3> QED
      BY <3>2, <3>3
  <2> QED
    BY <2>2, <2>3
<1>3. TableCells \subseteq T
  <2> HIDE DEF T
  <2> QED
    BY <1>1, <1>2, CellErrorRec!RankInduction
<1> QED
  BY <1>3

\* A row of cells is not empty, and each cell is good.
LEMMA RowErrors ==
    ASSUME NEW row \in Seq(TableCells)
    PROVE  /\ RowError(row) \in {Ok} \cup RenderErrors
           /\ RowError(row) = Ok <=>
                 /\ row # << >>
                 /\ \A j \in DOMAIN row : IsGoodCell(Unwrapped[row[j]])
<1>1. Len(row) \in Nat /\ DOMAIN row = 1 .. Len(row)
      /\ \A j \in 1 .. Len(row) : row[j] \in TableCells
  BY LenProperties
<1>2. CASE row = << >>
  BY <1>2 DEF RowError, RenderErrors, Ok
<1>3. CASE row # << >>
  <2> DEFINE errors == [j \in DOMAIN row |-> CellError[row[j]]]
  <2>1. RowError(row) = FirstError(errors)
    BY <1>3 DEF RowError
  <2>2. /\ DOMAIN errors = 1 .. Len(row)
        /\ \A j \in 1 .. Len(row) : errors[j] = CellError[row[j]]
    BY <1>1
  <2>3. \A j \in 1 .. Len(row) :
           /\ errors[j] \in {Ok} \cup RenderErrors
           /\ errors[j] = Ok <=> IsGoodCell(Unwrapped[row[j]])
    BY <1>1, <2>2, CellErrors
  <2> HIDE DEF errors
  <2>4. /\ FirstError(errors) = Ok <=> \A j \in 1 .. Len(row) : errors[j] = Ok
        /\ FirstError(errors)
              \in {Ok} \cup {errors[j] : j \in 1 .. Len(row)}
    BY <1>1, <2>2, FirstErrorIs
  <2> QED
    BY <1>1, <1>3, <2>1, <2>3, <2>4
<1> QED
  BY <1>2, <1>3

-----------------------------------------------------------------------------
(* The parts of a message. *)

\* A sequence, whatever its elements are.
IsSequence(s) == s \in Seq(ToSet(s))

\* One sequence for each node, one after the other.
LEMMA FlattenParts ==
    ASSUME NEW n \in Nat, NEW ss, ss = [i \in 1 .. n |-> ss[i]],
           \A i \in 1 .. n : IsSequence(ss[i])
    PROVE  /\ IsSequence(FlattenSeq(ss))
           /\ ToSet(FlattenSeq(ss)) = UNION {ToSet(ss[i]) : i \in 1 .. n}
<1> DEFINE V == UNION {ToSet(ss[i]) : i \in 1 .. n}
<1>1. \A i \in 1 .. n : ss[i] \in Seq(V)
  <2> TAKE i \in 1 .. n
  <2>1. ToSet(ss[i]) \subseteq V
    OBVIOUS
  <2>2. ss[i] \in Seq(ToSet(ss[i]))
    BY DEF IsSequence
  <2> HIDE DEF V
  <2> QED
    BY <2>1, <2>2
<1>2. ss \in Seq(Seq(V)) /\ DOMAIN ss = 1 .. n
  <2> HIDE DEF V
  <2> QED
    BY <1>1
<1>3. FlattenSeq(ss) \in Seq(V) /\ ToSet(FlattenSeq(ss)) = V
  <2> HIDE DEF V
  <2>1. ToSet(FlattenSeq(ss)) = UNION {ToSet(ss[i]) : i \in DOMAIN ss}
    BY <1>2, FlattenMembers
  <2> QED
    BY <1>2, <2>1, FlattenMembers DEF V
<1> QED
  BY <1>3 DEF IsSequence

\* A sequence of one.
LEMMA OneElement ==
    \A e : IsSequence(<<e>>) /\ ToSet(<<e>>) = {e}
<1> TAKE e
<1>1. ToSet(<<e>>) = {e}
  BY DEF ToSet
<1> QED
  BY <1>1 DEF IsSequence

\* The blocks of a list are those of its nodes.
LEMMA BlockMembers ==
    \A l \in NodeLists :
       /\ IsSequence(Blocks[l])
       /\ ToSet(Blocks[l]) = UNION {ToSet(NodeBlocks(Blocks, n)) : n \in ToSet(l)}
<1> DEFINE T == {l \in NodeLists :
                    /\ IsSequence(Blocks[l])
                    /\ ToSet(Blocks[l]) =
                          UNION {ToSet(NodeBlocks(Blocks, n)) : n \in ToSet(l)}}
<1>1. BlocksRec!RanksAreNatural
  BY NodeParts DEF BlocksRec!RanksAreNatural
<1>2. ASSUME NEW l \in NodeLists,
             \A m \in NodeLists : Depth(m) < Depth(l) => m \in T
      PROVE  l \in T
  <2>1. \A n \in ToSet(l) : IsSequence(NodeBlocks(Blocks, n))
    <3> TAKE n \in ToSet(l)
    <3>1. CASE n.node = "fragment"
      <4>1. n.nodes \in T
        BY <1>2, <3>1, NodeParts
      <4>2. NodeBlocks(Blocks, n) = Blocks[n.nodes]
        BY <3>1 DEF NodeBlocks
      <4> QED
        BY <4>1, <4>2
    <3>2. CASE n.node # "fragment"
      <4>1. \E e : NodeBlocks(Blocks, n) = <<e>>
        BY <3>2 DEF NodeBlocks
      <4> QED
        BY <4>1, OneElement
    <3> QED
      BY <3>1, <3>2
  <2> DEFINE ss == [i \in 1 .. Len(l) |-> NodeBlocks(Blocks, l[i])]
  <2>2. Len(l) \in Nat /\ DOMAIN l = 1 .. Len(l)
        /\ \A i \in 1 .. Len(l) : l[i] \in ToSet(l)
    BY NodeParts
  <2>3. Blocks[l] = FlattenSeq(ss)
    BY <2>2, BlocksIs DEF BlocksStep
  <2>4. ss = [i \in 1 .. Len(l) |-> ss[i]]
        /\ \A i \in 1 .. Len(l) : ss[i] = NodeBlocks(Blocks, l[i])
    OBVIOUS
  <2> HIDE DEF ss
  <2>5. \A i \in 1 .. Len(l) : IsSequence(ss[i])
    BY <2>1, <2>2, <2>4
  <2>6. /\ IsSequence(FlattenSeq(ss))
        /\ ToSet(FlattenSeq(ss)) = UNION {ToSet(ss[i]) : i \in 1 .. Len(l)}
    BY <2>2, <2>4, <2>5, FlattenParts
  <2>7. {ToSet(ss[i]) : i \in 1 .. Len(l)}
          = {ToSet(NodeBlocks(Blocks, n)) : n \in ToSet(l)}
    <3>1. ToSet(l) = {l[i] : i \in 1 .. Len(l)}
      BY <2>2 DEF ToSet
    <3> QED
      BY <2>4, <3>1
  <2> QED
    BY <2>3, <2>6, <2>7
<1>3. NodeLists \subseteq T
  <2> HIDE DEF T
  <2> QED
    BY <1>1, <1>2, BlocksRec!RankInduction
<1> QED
  BY <1>3

\* The blocks inside a details block were made of a list that is less deep.
LEMMA NestedBlocks ==
    \A l \in NodeLists : \A b \in ToSet(Blocks[l]) :
       b.block = "details" =>
          \E m \in NodeLists : Depth(m) < Depth(l) /\ b.blocks = Blocks[m]
<1> DEFINE T == {l \in NodeLists : \A b \in ToSet(Blocks[l]) :
                    b.block = "details" =>
                       \E m \in NodeLists :
                          Depth(m) < Depth(l) /\ b.blocks = Blocks[m]}
<1>1. BlocksRec!RanksAreNatural
  BY NodeParts DEF BlocksRec!RanksAreNatural
<1>2. ASSUME NEW l \in NodeLists,
             \A m \in NodeLists : Depth(m) < Depth(l) => m \in T
      PROVE  l \in T
  <2> SUFFICES ASSUME NEW b \in ToSet(Blocks[l]), b.block = "details"
               PROVE  \E m \in NodeLists :
                         Depth(m) < Depth(l) /\ b.blocks = Blocks[m]
    OBVIOUS
  <2>1. PICK n \in ToSet(l) : b \in ToSet(NodeBlocks(Blocks, n))
    BY BlockMembers
  <2>2. CASE n.node = "fragment"
    <3>1. /\ n.nodes \in T /\ n.nodes \in NodeLists
          /\ Depth(n.nodes) < Depth(l)
      BY <1>2, <2>2, NodeParts
    <3>2. b \in ToSet(Blocks[n.nodes])
      BY <2>1, <2>2 DEF NodeBlocks
    <3>3. PICK m \in NodeLists :
             Depth(m) < Depth(n.nodes) /\ b.blocks = Blocks[m]
      BY <3>1, <3>2
    <3>4. Depth(m) \in Nat /\ Depth(n.nodes) \in Nat /\ Depth(l) \in Nat
      BY <3>1, NodeParts
    <3>5. Depth(m) < Depth(l)
      BY <3>1, <3>3, <3>4
    <3> QED
      BY <3>3, <3>5
  <2>3. CASE n.node = "details"
    <3>1. n.blocks \in NodeLists /\ Depth(n.blocks) < Depth(l)
      BY <2>3, NodeParts
    <3>2. NodeBlocks(Blocks, n) =
             <<[block |-> "details", summary |-> n.summary,
                blocks |-> Blocks[n.blocks]]>>
      BY <2>3 DEF NodeBlocks
    <3>3. b = [block |-> "details", summary |-> n.summary,
               blocks |-> Blocks[n.blocks]]
      BY <2>1, <3>2, OneElement
    <3>4. b.blocks = Blocks[n.blocks]
      BY <3>3
    <3> QED
      BY <3>1, <3>4
  <2>4. CASE n.node \notin {"fragment", "details"}
    <3>1. NodeBlocks(Blocks, n)[1].block # "details"
      BY <2>4 DEF NodeBlocks
    <3>2. PICK e : NodeBlocks(Blocks, n) = <<e>>
      BY <2>4 DEF NodeBlocks
    <3>3. b = e
      BY <2>1, <3>2, OneElement
    <3> QED
      BY <3>1, <3>2, <3>3
  <2> QED
    BY <2>2, <2>3, <2>4
<1>3. NodeLists \subseteq T
  <2> HIDE DEF T
  <2> QED
    BY <1>1, <1>2, BlocksRec!RankInduction
<1> QED
  BY <1>3

\* The least depth of a list that becomes these blocks.
MessageDepth(bs) == Min({Depth(l) : l \in {m \in NodeLists : Blocks[m] = bs}})

\* What trees become.
Messages == {Blocks[l] : l \in NodeLists}

\* What is folded in a message is a message, and less deep.
LEMMA MessageParts ==
    ASSUME NEW bs \in Messages
    PROVE  /\ MessageDepth(bs) \in Nat
           /\ IsSequence(bs)
           /\ \A b \in ToSet(bs) : b.block = "details" =>
                 /\ b.blocks \in Messages
                 /\ MessageDepth(b.blocks) < MessageDepth(bs)
<1>1. ASSUME NEW cs \in Messages
      PROVE  /\ MessageDepth(cs) \in Nat
             /\ \E l \in NodeLists : Blocks[l] = cs /\ Depth(l) = MessageDepth(cs)
             /\ \A l \in NodeLists :
                   Blocks[l] = cs => MessageDepth(cs) <= Depth(l)
  <2> DEFINE depths == {Depth(l) : l \in {m \in NodeLists : Blocks[m] = cs}}
  <2>1. depths \in SUBSET Nat
    BY NodeParts
  <2>2. depths # {}
    BY DEF Messages
  <2>3. Min(depths) \in depths /\ \A i \in depths : Min(depths) <= i
    <3> HIDE DEF depths
    <3> QED
      BY <2>1, <2>2, MinIsLeast
  <2>4. MessageDepth(cs) = Min(depths)
    BY DEF MessageDepth
  <2> HIDE DEF MessageDepth
  <2> QED
    BY <2>1, <2>3, <2>4
<1>2. PICK l \in NodeLists : Blocks[l] = bs /\ Depth(l) = MessageDepth(bs)
  BY <1>1
<1>3. ASSUME NEW b \in ToSet(bs), b.block = "details"
      PROVE  /\ b.blocks \in Messages
             /\ MessageDepth(b.blocks) < MessageDepth(bs)
  <2>1. PICK m \in NodeLists : Depth(m) < Depth(l) /\ b.blocks = Blocks[m]
    BY <1>2, <1>3, NestedBlocks
  <2>2. b.blocks \in Messages
    BY <2>1 DEF Messages
  <2>3. MessageDepth(b.blocks) <= Depth(m) /\ MessageDepth(b.blocks) \in Nat
    BY <1>1, <2>1, <2>2
  <2>4. Depth(m) \in Nat /\ Depth(l) \in Nat
    BY NodeParts
  <2> QED
    BY <1>2, <2>1, <2>2, <2>3, <2>4
<1> QED
  BY <1>1, <1>2, <1>3, BlockMembers

\* The recursion on the messages that are folded in a message.
WellFormedRec == INSTANCE Recursion
    WITH S <- Messages, Rank <- MessageDepth, Def <- IsWellFormedStep

\* So IsWellFormed, too, is what its definition says.
LEMMA IsWellFormedIs ==
    \A bs \in Messages : IsWellFormed[bs] = IsWellFormedStep(IsWellFormed, bs)
<1>1. WellFormedRec!RanksAreNatural
  BY MessageParts DEF WellFormedRec!RanksAreNatural
<1>2. WellFormedRec!LooksDown
  <2> SUFFICES ASSUME NEW g, NEW h, NEW bs \in Messages,
                      \A cs \in Messages :
                         MessageDepth(cs) < MessageDepth(bs) => g[cs] = h[cs]
               PROVE  IsWellFormedStep(g, bs) = IsWellFormedStep(h, bs)
    BY DEF WellFormedRec!LooksDown
  <2>1. \A b \in ToSet(bs) : IsGoodBlock(g, b) = IsGoodBlock(h, b)
    BY MessageParts DEF IsGoodBlock
  <2>2. \A i \in DOMAIN bs : bs[i] \in ToSet(bs)
    BY DEF ToSet
  <2> QED
    BY <2>1, <2>2 DEF IsWellFormedStep
<1>3. IsWellFormed = CHOOSE g : g = [bs \in Messages |-> IsWellFormedStep(g, bs)]
  BY DEF IsWellFormed, Messages
<1> HIDE DEF IsWellFormed
<1>4. IsWellFormed = [bs \in Messages |-> IsWellFormedStep(IsWellFormed, bs)]
  BY <1>1, <1>2, <1>3, WellFormedRec!RecursiveDefinition
<1> QED
  BY <1>4

\* A message has a block, and each of its blocks is good.
LEMMA WellFormedMessage ==
    ASSUME NEW l \in NodeLists
    PROVE  IsWellFormed[Blocks[l]] <=>
              /\ Blocks[l] # << >>
              /\ \A b \in ToSet(Blocks[l]) : IsGoodBlock(IsWellFormed, b)
<1>1. Blocks[l] \in Messages
  BY DEF Messages
<1> DEFINE bs == Blocks[l]
<1>2. ToSet(bs) = {bs[i] : i \in DOMAIN bs}
  BY DEF ToSet
<1> HIDE DEF bs
<1>3. IsWellFormed[bs] = IsWellFormedStep(IsWellFormed, bs)
  BY <1>1, IsWellFormedIs DEF bs
<1> QED
  BY <1>2, <1>3 DEF IsWellFormedStep, bs

-----------------------------------------------------------------------------
(* Validation and rendering agree. *)

\* Without empty fragments, a list of nodes becomes a message.
LEMMA SomethingToShow ==
    \A l \in NodeLists :
       l # << >> /\ ~HasEmptyFragment[l] => Blocks[l] # << >>
<1> DEFINE T == {l \in NodeLists :
                    l # << >> /\ ~HasEmptyFragment[l] => Blocks[l] # << >>}
<1>1. BlocksRec!RanksAreNatural
  BY NodeParts DEF BlocksRec!RanksAreNatural
<1>2. ASSUME NEW l \in NodeLists,
             \A m \in NodeLists : Depth(m) < Depth(l) => m \in T
      PROVE  l \in T
  <2> SUFFICES ASSUME l # << >>, ~HasEmptyFragment[l] PROVE Blocks[l] # << >>
    OBVIOUS
  <2>1. PICK n \in ToSet(l) : TRUE
    <3>1. l \in Seq(UiNode)
      BY NodeParts
    <3> QED
      BY <3>1, NothingInside
  <2>2. \E b : b \in ToSet(NodeBlocks(Blocks, n))
    <3>1. CASE n.node = "fragment"
      <4>1. n.nodes \in T /\ n.nodes \in NodeLists
        BY <1>2, <3>1, NodeParts
      <4>2. n.nodes # << >> /\ ~HasEmptyFragment[n.nodes]
        <5>1. ~HasEmptyFragmentStep(HasEmptyFragment, l)
          BY HasEmptyFragmentIs
        <5>2. ~(CASE n.node = "fragment" ->
                        n.nodes = << >> \/ HasEmptyFragment[n.nodes]
                  [] n.node = "details" -> HasEmptyFragment[n.blocks]
                  [] OTHER -> FALSE)
          BY <5>1 DEF HasEmptyFragmentStep
        <5> QED
          BY <3>1, <5>2
      <4>3. Blocks[n.nodes] # << >> /\ IsSequence(Blocks[n.nodes])
        BY <4>1, <4>2, BlockMembers
      <4>4. ToSet(Blocks[n.nodes]) # {}
        BY <4>3, NothingInside DEF IsSequence
      <4> QED
        BY <3>1, <4>4 DEF NodeBlocks
    <3>2. CASE n.node # "fragment"
      <4>1. \E e : NodeBlocks(Blocks, n) = <<e>>
        BY <3>2 DEF NodeBlocks
      <4> QED
        BY <4>1, OneElement
    <3> QED
      BY <3>1, <3>2
  <2>3. ToSet(Blocks[l]) # {}
    BY <2>2, BlockMembers
  <2> QED
    BY <2>3, ToSetEmpty
<1>3. NodeLists \subseteq T
  <2> HIDE DEF T
  <2> QED
    BY <1>1, <1>2, BlocksRec!RankInduction
<1> QED
  BY <1>3

\* What HasEmptyFragment asks of one node.
FragmentIn(n) ==
    CASE n.node = "fragment" -> n.nodes = << >> \/ HasEmptyFragment[n.nodes]
      [] n.node = "details" -> HasEmptyFragment[n.blocks]
      [] OTHER -> FALSE

\* Validation of l finds an error if and only if its message has an empty part
\* or it has an empty fragment.
ValidationIsExact(l) ==
    /\ NodesError[l] \in {Ok} \cup RenderErrors
    /\ NodesError[l] = Ok <=>
          /\ IsWellFormed[Blocks[l]]
          /\ ~HasEmptyFragment[l]

\* The same of one node.
NodeIsExact(n) ==
    /\ NodeError(NodesError, n) \in {Ok} \cup RenderErrors
    /\ NodeError(NodesError, n) = Ok <=>
          /\ \A b \in ToSet(NodeBlocks(Blocks, n)) : IsGoodBlock(IsWellFormed, b)
          /\ ~FragmentIn(n)

\* One block of a node that is not a fragment.
LEMMA OneBlock ==
    ASSUME NEW n, NEW e, NodeBlocks(Blocks, n) = <<e>>
    PROVE  (\A b \in ToSet(NodeBlocks(Blocks, n)) : IsGoodBlock(IsWellFormed, b))
              <=> IsGoodBlock(IsWellFormed, e)
  BY OneElement

\* Of a node that is a text, a paragraph, a heading or a quotation.
LEMMA TextIsExact ==
    ASSUME NEW n, n.node = "text"
    PROVE  NodeIsExact(n)
<1> DEFINE e == [block |-> "text", text |-> n.text]
<1>1. NodeBlocks(Blocks, n) = <<e>>
  BY DEF NodeBlocks
<1>2. IsGoodBlock(IsWellFormed, e) <=> n.text # ""
  BY DEF IsGoodBlock
<1> HIDE DEF e
<1>3. (\A b \in ToSet(NodeBlocks(Blocks, n)) : IsGoodBlock(IsWellFormed, b))
         <=> n.text # ""
  BY <1>1, <1>2, OneBlock
<1>4. NodeError(NodesError, n) = IF n.text = "" THEN "EmptyUi" ELSE Ok
  BY DEF NodeError
<1>5. ~FragmentIn(n)
  BY DEF FragmentIn
<1> QED
  BY <1>3, <1>4, <1>5 DEF NodeIsExact, RenderErrors, Ok

\* Of a folded list, if it is true of the list.
LEMMA DetailsAreExact ==
    ASSUME NEW n, n.node = "details", ValidationIsExact(n.blocks)
    PROVE  NodeIsExact(n)
<1> DEFINE e == [block |-> "details", summary |-> n.summary,
                 blocks |-> Blocks[n.blocks]]
<1>1. NodeBlocks(Blocks, n) = <<e>>
  BY DEF NodeBlocks
<1>2. IsGoodBlock(IsWellFormed, e)
         <=> n.summary # "" /\ IsWellFormed[Blocks[n.blocks]]
  BY DEF IsGoodBlock
<1> HIDE DEF e
<1>3. (\A b \in ToSet(NodeBlocks(Blocks, n)) : IsGoodBlock(IsWellFormed, b))
         <=> n.summary # "" /\ IsWellFormed[Blocks[n.blocks]]
  BY <1>1, <1>2, OneBlock
<1>4. NodeError(NodesError, n)
        = IF n.summary = "" THEN "EmptyUi" ELSE NodesError[n.blocks]
  BY DEF NodeError
<1>5. FragmentIn(n) <=> HasEmptyFragment[n.blocks]
  BY DEF FragmentIn
<1> QED
  BY <1>3, <1>4, <1>5 DEF NodeIsExact, ValidationIsExact, RenderErrors, Ok

\* Of a row of buttons.
LEMMA RowIsExact ==
    ASSUME NEW n, n.node = "row", n.buttons \in Seq(UiButton)
    PROVE  NodeIsExact(n)
<1> DEFINE labels == [i \in DOMAIN n.buttons |-> n.buttons[i].label]
           errors == [i \in DOMAIN n.buttons |-> LabelError(n.buttons[i].label)]
           e == [block |-> "buttons", labels |-> labels]
<1>1. Len(n.buttons) \in Nat /\ DOMAIN n.buttons = 1 .. Len(n.buttons)
  BY LenProperties
<1>2. NodeBlocks(Blocks, n) = <<e>>
  BY DEF NodeBlocks
<1>3. /\ DOMAIN errors = 1 .. Len(n.buttons) /\ DOMAIN labels = DOMAIN errors
      /\ \A i \in 1 .. Len(n.buttons) : errors[i] = LabelError(labels[i])
  BY <1>1
<1>4. labels = << >> <=> n.buttons = << >>
  BY <1>1, EmptySeq
<1>5. IsGoodBlock(IsWellFormed, e) <=>
         /\ labels # << >>
         /\ \A i \in DOMAIN labels : LabelError(labels[i]) = Ok
  <2> HIDE DEF labels
  <2> QED
    BY DEF IsGoodBlock
<1>6. NodeError(NodesError, n)
        = IF n.buttons = << >> THEN "EmptyButtonRow" ELSE FirstError(errors)
  BY DEF NodeError
<1>7. ~FragmentIn(n)
  BY DEF FragmentIn
<1> HIDE DEF e, errors, labels
<1>8. /\ FirstError(errors) = Ok
            <=> \A i \in 1 .. Len(n.buttons) : errors[i] = Ok
      /\ FirstError(errors)
            \in {Ok} \cup {errors[i] : i \in 1 .. Len(n.buttons)}
  BY <1>1, <1>3, FirstErrorIs
<1>9. FirstError(errors) \in {Ok} \cup RenderErrors
  BY <1>3, <1>8, LabelErrors
<1>10. FirstError(errors) = Ok <=> \A i \in DOMAIN labels : LabelError(labels[i]) = Ok
  BY <1>3, <1>8
<1>11. (\A b \in ToSet(NodeBlocks(Blocks, n)) : IsGoodBlock(IsWellFormed, b))
         <=> IsGoodBlock(IsWellFormed, e)
  BY <1>2, OneBlock
<1>12. "EmptyButtonRow" \in RenderErrors /\ "EmptyButtonRow" # Ok
  BY DEF RenderErrors, Ok
<1> QED
  BY <1>4, <1>5, <1>6, <1>7, <1>9, <1>10, <1>11, <1>12 DEF NodeIsExact

\* Of a table, with cells that are wrapped any number of times.
LEMMA TableIsExact ==
    ASSUME NEW n, n.node = "table", n.rows \in Seq(Seq(TableCells))
    PROVE  NodeIsExact(n)
<1> DEFINE cells(i) == [j \in DOMAIN n.rows[i] |-> Unwrapped[n.rows[i][j]]]
           rows == [i \in DOMAIN n.rows |-> cells(i)]
           errors == [i \in DOMAIN n.rows |-> RowError(n.rows[i])]
           e == [block |-> "table", rows |-> rows]
           Good(r) == r # << >> /\ \A j \in DOMAIN r : IsGoodCell(r[j])
<1>1. /\ Len(n.rows) \in Nat /\ DOMAIN n.rows = 1 .. Len(n.rows)
      /\ \A i \in 1 .. Len(n.rows) : n.rows[i] \in Seq(TableCells)
  BY LenProperties
<1>2. NodeBlocks(Blocks, n) = <<e>>
  BY DEF NodeBlocks
<1>3. /\ DOMAIN errors = 1 .. Len(n.rows) /\ DOMAIN rows = DOMAIN errors
      /\ \A i \in 1 .. Len(n.rows) :
            errors[i] = RowError(n.rows[i]) /\ rows[i] = cells(i)
  BY <1>1
<1>4. rows = << >> <=> n.rows = << >>
  BY <1>1, EmptySeq
<1>5. IsGoodBlock(IsWellFormed, e) <=>
         rows # << >> /\ \A i \in DOMAIN rows : Good(rows[i])
  <2> HIDE DEF rows
  <2> QED
    BY DEF IsGoodBlock
<1>6. NodeError(NodesError, n)
        = IF n.rows = << >> THEN "EmptyTable" ELSE FirstError(errors)
  BY DEF NodeError
<1>7. ~FragmentIn(n)
  BY DEF FragmentIn
<1>8. ASSUME NEW i \in 1 .. Len(n.rows)
      PROVE  /\ RowError(n.rows[i]) \in {Ok} \cup RenderErrors
             /\ RowError(n.rows[i]) = Ok <=> Good(cells(i))
  <2> DEFINE row == n.rows[i]
  <2>1. row \in Seq(TableCells)
    BY <1>1
  <2>2. /\ RowError(row) \in {Ok} \cup RenderErrors
        /\ RowError(row) = Ok <=>
              /\ row # << >>
              /\ \A j \in DOMAIN row : IsGoodCell(Unwrapped[row[j]])
    <3> HIDE DEF row
    <3> QED
      BY <2>1, RowErrors
  <2>3. cells(i) = [j \in DOMAIN row |-> Unwrapped[row[j]]]
    OBVIOUS
  <2> HIDE DEF row
  <2>4. Len(row) \in Nat /\ DOMAIN row = 1 .. Len(row)
    BY <2>1, LenProperties
  <2> DEFINE r == [j \in DOMAIN row |-> Unwrapped[row[j]]]
  <2>5. r = << >> <=> row = << >>
    BY <2>1, <2>4, EmptySeq
  <2>6. DOMAIN r = DOMAIN row /\ \A j \in DOMAIN row : r[j] = Unwrapped[row[j]]
    OBVIOUS
  <2>7. cells(i) = r
    BY <2>3
  <2> HIDE DEF r, cells
  <2> QED
    BY <2>2, <2>5, <2>6, <2>7 DEF row
<1> HIDE DEF e, errors, rows, cells, Good
<1>9. /\ FirstError(errors) = Ok
            <=> \A i \in 1 .. Len(n.rows) : errors[i] = Ok
      /\ FirstError(errors) \in {Ok} \cup {errors[i] : i \in 1 .. Len(n.rows)}
  BY <1>1, <1>3, FirstErrorIs
<1>10. FirstError(errors) \in {Ok} \cup RenderErrors
  BY <1>3, <1>8, <1>9
<1>11. FirstError(errors) = Ok <=> \A i \in DOMAIN rows : Good(rows[i])
  BY <1>3, <1>8, <1>9
<1>12. (\A b \in ToSet(NodeBlocks(Blocks, n)) : IsGoodBlock(IsWellFormed, b))
         <=> IsGoodBlock(IsWellFormed, e)
  BY <1>2, OneBlock
<1>13. "EmptyTable" \in RenderErrors /\ "EmptyTable" # Ok
  BY DEF RenderErrors, Ok
<1> QED
  BY <1>4, <1>5, <1>6, <1>7, <1>10, <1>11, <1>12, <1>13 DEF NodeIsExact

\* Of a fragment, if it is true of its nodes.
LEMMA FragmentIsExact ==
    ASSUME NEW n, n.node = "fragment", n.nodes \in NodeLists,
           ValidationIsExact(n.nodes)
    PROVE  NodeIsExact(n)
<1>1. NodeBlocks(Blocks, n) = Blocks[n.nodes]
  BY DEF NodeBlocks
<1>2. NodeError(NodesError, n) = NodesError[n.nodes]
  BY DEF NodeError
<1>3. FragmentIn(n) <=> n.nodes = << >> \/ HasEmptyFragment[n.nodes]
  BY DEF FragmentIn
<1>4. IsWellFormed[Blocks[n.nodes]] <=>
         /\ Blocks[n.nodes] # << >>
         /\ \A b \in ToSet(Blocks[n.nodes]) : IsGoodBlock(IsWellFormed, b)
  BY WellFormedMessage
<1>5. n.nodes # << >> /\ ~HasEmptyFragment[n.nodes] => Blocks[n.nodes] # << >>
  BY SomethingToShow
<1>6. n.nodes = << >> => NodesError[n.nodes] # Ok
  BY NodesErrorIs DEF NodesErrorStep, Ok
<1> QED
  BY <1>1, <1>2, <1>3, <1>4, <1>5, <1>6 DEF NodeIsExact, ValidationIsExact

\* The validation of a tree is exact, however deep it is.
THEOREM ValidationAgrees == \A l \in NodeLists : ValidationIsExact(l)
<1> DEFINE T == {l \in NodeLists : ValidationIsExact(l)}
<1>1. NodesErrorRec!RanksAreNatural
  BY NodeParts DEF NodesErrorRec!RanksAreNatural
<1>2. ASSUME NEW l \in NodeLists,
             \A m \in NodeLists : Depth(m) < Depth(l) => m \in T
      PROVE  l \in T
  <2> SUFFICES ValidationIsExact(l)
    OBVIOUS
  <2>1. ASSUME NEW n \in ToSet(l) PROVE NodeIsExact(n)
    <3>1. /\ n.node \in {"text", "details", "row", "table", "fragment"}
          /\ n.node = "row" => n.buttons \in Seq(UiButton)
          /\ n.node = "table" => n.rows \in Seq(Seq(TableCells))
          /\ n.node = "details" => ValidationIsExact(n.blocks)
          /\ n.node = "fragment" =>
                n.nodes \in NodeLists /\ ValidationIsExact(n.nodes)
      BY <1>2, NodeParts
    <3> QED
      BY <3>1, TextIsExact, DetailsAreExact, RowIsExact, TableIsExact,
         FragmentIsExact
  <2>2. /\ Len(l) \in Nat /\ DOMAIN l = 1 .. Len(l) /\ l \in Seq(UiNode)
        /\ ToSet(l) = {l[i] : i \in 1 .. Len(l)}
    BY NodeParts DEF ToSet
  <2>3. HasEmptyFragment[l] <=> \E n \in ToSet(l) : FragmentIn(n)
    BY HasEmptyFragmentIs DEF HasEmptyFragmentStep, FragmentIn
  <2>4. IsWellFormed[Blocks[l]] <=>
           /\ Blocks[l] # << >>
           /\ \A n \in ToSet(l) : \A b \in ToSet(NodeBlocks(Blocks, n)) :
                 IsGoodBlock(IsWellFormed, b)
    BY WellFormedMessage, BlockMembers
  <2>5. CASE l = << >>
    <3>1. NodesError[l] = "EmptyUi"
      BY <2>5, NodesErrorIs DEF NodesErrorStep
    <3>2. ToSet(Blocks[l]) = {}
      <4>1. ToSet(l) = {}
        BY <2>5, ToSetEmpty
      <4> QED
        BY <4>1, BlockMembers
    <3>3. Blocks[l] = << >>
      BY <3>2, BlockMembers, NothingInside DEF IsSequence
    <3> QED
      BY <2>4, <3>1, <3>3 DEF ValidationIsExact, RenderErrors, Ok
  <2>6. CASE l # << >>
    <3> DEFINE errors == [i \in DOMAIN l |-> NodeError(NodesError, l[i])]
    <3>1. NodesError[l] = FirstError(errors)
      BY <2>6, NodesErrorIs DEF NodesErrorStep
    <3>2. /\ DOMAIN errors = 1 .. Len(l)
          /\ \A i \in 1 .. Len(l) : errors[i] = NodeError(NodesError, l[i])
      BY <2>2
    <3> HIDE DEF errors
    <3>3. /\ FirstError(errors) = Ok <=> \A i \in 1 .. Len(l) : errors[i] = Ok
          /\ FirstError(errors) \in {Ok} \cup {errors[i] : i \in 1 .. Len(l)}
      BY <2>2, <3>2, FirstErrorIs
    <3>4. NodesError[l] = Ok
            <=> \A n \in ToSet(l) : NodeError(NodesError, n) = Ok
      BY <2>2, <3>1, <3>2, <3>3
    <3>5. NodesError[l] \in {Ok} \cup RenderErrors
      <4>1. \A i \in 1 .. Len(l) : errors[i] \in {Ok} \cup RenderErrors
        BY <2>1, <2>2, <3>2 DEF NodeIsExact
      <4> QED
        BY <3>1, <3>3, <4>1
    <3>6. NodesError[l] = Ok <=>
             /\ \A n \in ToSet(l) : \A b \in ToSet(NodeBlocks(Blocks, n)) :
                   IsGoodBlock(IsWellFormed, b)
             /\ ~HasEmptyFragment[l]
      BY <2>1, <2>3, <3>4 DEF NodeIsExact
    <3>7. ~HasEmptyFragment[l] => Blocks[l] # << >>
      BY <2>6, SomethingToShow
    <3> QED
      BY <2>4, <3>5, <3>6, <3>7 DEF ValidationIsExact
  <2> QED
    BY <2>5, <2>6
<1>3. NodeLists \subseteq T
  <2> HIDE DEF T
  <2> QED
    BY <1>1, <1>2, NodesErrorRec!RankInduction
<1> QED
  BY <1>3

-----------------------------------------------------------------------------
(* The buttons of a tree. *)

\* A cell without its wrappers is a cell, and no wrapper.
LEMMA UnwrappedCells ==
    \A c \in TableCells :
       Unwrapped[c] \in TableCells /\ Unwrapped[c].cell # "header"
<1> DEFINE T == {c \in TableCells :
                    Unwrapped[c] \in TableCells /\ Unwrapped[c].cell # "header"}
<1>1. UnwrappedRec!RanksAreNatural
  BY CellParts DEF UnwrappedRec!RanksAreNatural
<1>2. ASSUME NEW c \in TableCells,
             \A d \in TableCells : CellDepth(d) < CellDepth(c) => d \in T
      PROVE  c \in T
  <2>1. Unwrapped[c] = UnwrappedStep(Unwrapped, c)
    BY UnwrappedIs
  <2>2. CASE c.cell = "header"
    BY <1>2, <2>1, <2>2, CellParts DEF UnwrappedStep
  <2>3. CASE c.cell # "header"
    BY <2>1, <2>3 DEF UnwrappedStep
  <2> QED
    BY <2>2, <2>3
<1>3. TableCells \subseteq T
  <2> HIDE DEF T
  <2> QED
    BY <1>1, <1>2, UnwrappedRec!RankInduction
<1> QED
  BY <1>3

\* The buttons of a row of cells are buttons.
LEMMA RowButtonLists ==
    ASSUME NEW row \in Seq(TableCells)
    PROVE  RowButtons(row) \in Seq(UiButton)
<1> DEFINE ss == [i \in DOMAIN row |-> CellButtons(row[i])]
<1>1. \A c \in TableCells : CellButtons(c) \in Seq(UiButton)
  BY UnwrappedCells, CellParts DEF CellButtons
<1>2. /\ Len(row) \in Nat /\ DOMAIN row = 1 .. Len(row)
      /\ \A i \in 1 .. Len(row) : row[i] \in TableCells
  BY LenProperties
<1>3. ss \in Seq(Seq(UiButton))
  BY <1>1, <1>2
<1> HIDE DEF ss
<1>4. FlattenSeq(ss) \in Seq(UiButton)
  BY <1>3, FlattenMembers
<1> QED
  BY <1>4 DEF RowButtons, ss

\* The buttons of a tree are buttons.
LEMMA ButtonLists == \A l \in NodeLists : Buttons[l] \in Seq(UiButton)
<1> DEFINE T == {l \in NodeLists : Buttons[l] \in Seq(UiButton)}
<1>1. ButtonsRec!RanksAreNatural
  BY NodeParts DEF ButtonsRec!RanksAreNatural
<1>2. ASSUME NEW l \in NodeLists,
             \A m \in NodeLists : Depth(m) < Depth(l) => m \in T
      PROVE  l \in T
  <2>1. ASSUME NEW n \in ToSet(l) PROVE NodeButtons(Buttons, n) \in Seq(UiButton)
    <3>1. CASE n.node = "table"
      <4> DEFINE ss == [i \in DOMAIN n.rows |-> RowButtons(n.rows[i])]
      <4>1. n.rows \in Seq(Seq(TableCells))
        BY <3>1, NodeParts
      <4>2. /\ Len(n.rows) \in Nat /\ DOMAIN n.rows = 1 .. Len(n.rows)
            /\ \A i \in 1 .. Len(n.rows) : n.rows[i] \in Seq(TableCells)
        BY <4>1, LenProperties
      <4>3. ss \in Seq(Seq(UiButton))
        BY <4>2, RowButtonLists
      <4> HIDE DEF ss
      <4>4. FlattenSeq(ss) \in Seq(UiButton)
        BY <4>3, FlattenMembers
      <4> QED
        BY <3>1, <4>4 DEF NodeButtons, ss
    <3>2. CASE n.node \in {"details", "fragment"}
      BY <1>2, <3>2, NodeParts DEF NodeButtons
    <3>3. CASE n.node \notin {"table", "details", "fragment"}
      BY <3>3, NodeParts DEF NodeButtons
    <3> QED
      BY <3>1, <3>2, <3>3
  <2> DEFINE ss == [i \in DOMAIN l |-> NodeButtons(Buttons, l[i])]
  <2>2. Len(l) \in Nat /\ DOMAIN l = 1 .. Len(l)
        /\ \A i \in DOMAIN l : l[i] \in ToSet(l)
    BY NodeParts
  <2>3. ss \in Seq(Seq(UiButton))
    BY <2>1, <2>2
  <2> HIDE DEF ss
  <2>4. FlattenSeq(ss) \in Seq(UiButton)
    BY <2>3, FlattenMembers
  <2>5. Buttons[l] = FlattenSeq(ss)
    BY ButtonsIs DEF ButtonsStep, ss
  <2> QED
    BY <2>4, <2>5
<1>3. NodeLists \subseteq T
  <2> HIDE DEF T
  <2> QED
    BY <1>1, <1>2, ButtonsRec!RankInduction
<1> QED
  BY <1>3

\* A cell that has been disabled shows no enabled button, whatever it had been
\* wrapped in before (node.rs: TableCell::disabled goes through the wrappers as
\* table_cell_parts does).
THEOREM DisabledThroughWrappers ==
    \A c \in TableCells :
       DisabledCell[c] \in TableCells =>
          \A i \in DOMAIN CellButtons(DisabledCell[c]) :
             CellButtons(DisabledCell[c])[i].disabled
<1> DEFINE Shown(c) == Unwrapped[DisabledCell[c]]
           T == {c \in TableCells :
                    DisabledCell[c] \in TableCells /\ Shown(c).cell = "button"
                       => Shown(c).button.disabled}
<1>1. DisabledRec!RanksAreNatural
  BY CellParts DEF DisabledRec!RanksAreNatural
<1>2. ASSUME NEW c \in TableCells,
             \A d \in TableCells : CellDepth(d) < CellDepth(c) => d \in T
      PROVE  c \in T
  <2> DEFINE d == DisabledCell[c]
  <2>1. d = DisabledStep(DisabledCell, c)
    BY DisabledCellIs
  <2> HIDE DEF d
  <2>2. c \in TableCell
    BY CellsAssumption
  <2> SUFFICES ASSUME d \in TableCells, Unwrapped[d].cell = "button"
               PROVE  Unwrapped[d].button.disabled
    BY DEF d
  <2>3. Unwrapped[d] = UnwrappedStep(Unwrapped, d)
    BY UnwrappedIs
  <2>4. CASE c.cell = "header"
    <3>1. c \in [cell : {"header"}, inner : TableCells]
      BY <2>2, <2>4 DEF TableCell
    <3>2. d.cell = "header" /\ d.inner = DisabledCell[c.inner]
      BY <2>1, <3>1 DEF DisabledStep
    <3>3. DisabledCell[c.inner] \in TableCells
      BY <3>2, CellParts
    <3>4. Unwrapped[d] = Unwrapped[DisabledCell[c.inner]]
      BY <2>3, <3>2 DEF UnwrappedStep
    <3>5. c.inner \in T
      BY <1>2, <2>4, CellParts
    <3> QED
      BY <3>3, <3>4, <3>5
  <2>5. CASE c.cell = "button"
    <3>1. c \in [cell : {"button"}, button : UiButton]
      BY <2>2, <2>5 DEF TableCell
    <3>2. d.cell = "button" /\ d.button = Disabled(c.button) /\ c.button \in UiButton
      BY <2>1, <3>1 DEF DisabledStep
    <3>3. Unwrapped[d] = d
      BY <2>3, <3>2 DEF UnwrappedStep
    <3> QED
      BY <3>2, <3>3 DEF Disabled, UiButton
  <2>6. CASE c.cell \notin {"header", "button"}
    <3>1. d = c
      BY <2>1, <2>6 DEF DisabledStep
    <3>2. Unwrapped[d] = d
      BY <2>3, <2>6, <3>1 DEF UnwrappedStep
    <3> QED
      BY <2>6, <3>1, <3>2
  <2> QED
    BY <2>4, <2>5, <2>6
<1>3. TableCells \subseteq T
  <2> HIDE DEF T
  <2> QED
    BY <1>1, <1>2, DisabledRec!RankInduction
<1> QED
  BY <1>3 DEF CellButtons


\* What a render finds in a document, and None is none of it.
LEMMA DocumentFacts ==
    /\ None # Ok /\ None # "EmptyUi" /\ "EmptyUi" # Ok
    /\ "EmptyUi" \in RenderErrors
    /\ \A d \in Documents :
          /\ d # None
          /\ NodesError[d] \in {Ok} \cup RenderErrors
          /\ NodesError[d] # None
          /\ Buttons[d] \in Seq(UiButton)
<1>1. /\ None # Ok /\ None # "EmptyUi" /\ "EmptyUi" # Ok
      /\ "EmptyUi" \in RenderErrors
  BY NoneAssumption DEF RenderErrors, Ok
<1>2. ASSUME NEW d \in Documents
      PROVE  /\ d # None
             /\ NodesError[d] \in {Ok} \cup RenderErrors
             /\ NodesError[d] # None
             /\ Buttons[d] \in Seq(UiButton)
  <2>1. d \in NodeLists /\ d # None
    BY DocumentsAssumption, NoneAssumption
  <2>2. NodesError[d] \in {Ok} \cup RenderErrors
    BY <2>1, ValidationAgrees DEF ValidationIsExact
  <2> QED
    BY <2>1, <2>2, ButtonLists, NoneAssumption
<1> QED
  BY <1>1, <1>2

-----------------------------------------------------------------------------
(* The inductive invariant. *)

\* An entry of the registry, and a button of a message.
Capability == [context : Contexts, action : Actions]
Placed == [button : UiButton, data : Tokens \cup {None}]

\* The types.
TypeOK ==
    /\ DOMAIN entries \subseteq Tokens
    /\ doc \in [Tasks -> Documents \cup {None}]
    /\ context \in [Tasks -> Contexts \cup {None}]
    /\ rest \in [Tasks -> Seq(UiButton)]
    /\ placed \in [Tasks -> Seq(Placed)]
    /\ tokens \in [Tasks -> Seq(Tokens)]
    /\ result \in [Tasks -> {None, Ok} \cup RenderErrors]

\* A render that has not begun, or that has been refused, has done nothing.
NothingEarly ==
    \A t \in Tasks :
       doc[t] = None \/ NodesError[doc[t]] # Ok =>
          /\ rest[t] = << >> /\ placed[t] = << >> /\ tokens[t] = << >>
          /\ result[t] = IF doc[t] = None THEN None ELSE NodesError[doc[t]]

\* The buttons that render t has placed.
PlacedButtons(t) == [i \in DOMAIN placed[t] |-> placed[t][i].button]

\* The walk has left what it has not placed, in the order of the tree.
WalkInOrder ==
    \A t \in Tasks :
       doc[t] # None /\ NodesError[doc[t]] = Ok =>
          /\ PlacedButtons(t) \o rest[t] = Buttons[doc[t]]
          /\ result[t] # None =>
                /\ rest[t] = << >>
                /\ result[t] = IF Blocks[doc[t]] = << >> THEN "EmptyUi" ELSE Ok

\* The tokens in the registry are those of the messages, one for each.
RegistryIsShared ==
    /\ DOMAIN entries = UNION {ToSet(tokens[t]) : t \in Tasks}
    /\ \A t, u \in Tasks : t # u => ToSet(tokens[t]) \cap ToSet(tokens[u]) = {}

\* What a button in message t carries.
DataIsOwn(t) ==
    \A i \in DOMAIN placed[t] :
       LET p == placed[t][i]
       IN  IF p.button.disabled THEN p.data = None
           ELSE /\ p.data \in DOMAIN entries
                /\ entries[p.data] = [context |-> context[t],
                                      action |-> p.button.action]

\* Tokens ks are those of the placed buttons ps, in the order of the buttons.
Ordered(ks, ps) ==
    /\ ToSet(ks) = {ps[i].data : i \in DOMAIN ps} \ {None}
    /\ IsInjective(ks)
    /\ \A i, j \in DOMAIN ps, k, l \in DOMAIN ks :
          i < j /\ ps[i].data = ks[k] /\ ps[j].data = ks[l] => k < l

\* The capabilities of a render are those of its buttons.
TokensInOrder(t) == Ordered(tokens[t], placed[t])

\* A capability comes from an enabled button of some tree.
EntriesAreEnabled ==
    \A token \in DOMAIN entries :
       \E d \in Documents : \E i \in DOMAIN Buttons[d] :
          /\ ~Buttons[d][i].disabled
          /\ entries[token].action = Buttons[d][i].action

\* All of it.
IInv ==
    /\ TypeOK
    /\ NothingEarly
    /\ WalkInOrder
    /\ RegistryIsShared
    /\ \A t \in Tasks : DataIsOwn(t) /\ TokensInOrder(t)
    /\ EntriesAreEnabled

-----------------------------------------------------------------------------
(* Sequences. *)

\* Moving the first element of what is left to the end of what has been done.
LEMMA MoveOne ==
    ASSUME NEW S, NEW done \in Seq(S), NEW left \in Seq(S), left # << >>
    PROVE  /\ Head(left) \in S /\ Tail(left) \in Seq(S)
           /\ Append(done, Head(left)) \o Tail(left) = done \o left
<1>1. /\ Head(left) \in S /\ Tail(left) \in Seq(S) /\ Head(left) = left[1]
      /\ Len(Tail(left)) = Len(left) - 1
      /\ \A i \in 1 .. Len(Tail(left)) : Tail(left)[i] = left[i + 1]
      /\ Len(left) \in Nat \ {0} /\ Len(done) \in Nat
  BY HeadTailProperties, EmptySeq, LenProperties
<1> DEFINE h == Head(left)
           r == Tail(left)
           m == Append(done, h)
           a == m \o r
           b == done \o left
<1>2. /\ m \in Seq(S) /\ Len(m) = Len(done) + 1
      /\ \A i \in 1 .. Len(done) : m[i] = done[i]
      /\ m[Len(done) + 1] = h
  BY <1>1, AppendProperties
<1> HIDE DEF m, h
<1>3. /\ r \in Seq(S) /\ Len(r) = Len(left) - 1 /\ left[1] = h
      /\ \A i \in 1 .. Len(r) : r[i] = left[i + 1]
  BY <1>1 DEF h
<1> HIDE DEF r
<1>4. /\ a \in Seq(S) /\ Len(a) = Len(m) + Len(r)
      /\ \A i \in 1 .. Len(m) + Len(r) :
            a[i] = IF i <= Len(m) THEN m[i] ELSE r[i - Len(m)]
  BY <1>2, <1>3, ConcatProperties
<1>5. /\ b \in Seq(S) /\ Len(b) = Len(done) + Len(left)
      /\ \A i \in 1 .. Len(done) + Len(left) :
            b[i] = IF i <= Len(done) THEN done[i] ELSE left[i - Len(done)]
  BY ConcatProperties
<1> HIDE DEF a, b
<1>6. Len(a) = Len(b)
  BY <1>1, <1>2, <1>3, <1>4, <1>5
<1>7. ASSUME NEW i \in 1 .. Len(a) PROVE a[i] = b[i]
  <2>1. i \in 1 .. Len(m) + Len(r) /\ i \in 1 .. Len(done) + Len(left)
    BY <1>4, <1>5, <1>6
  <2>2. CASE i <= Len(done)
    <3>1. i \in 1 .. Len(done) /\ i <= Len(m)
      BY <2>1, <2>2, <1>1, <1>2
    <3> QED
      BY <2>1, <2>2, <3>1, <1>2, <1>4, <1>5
  <2>3. CASE i = Len(done) + 1
    <3>1. i <= Len(m) /\ ~(i <= Len(done)) /\ i - Len(done) = 1
      BY <2>3, <1>1, <1>2
    <3> QED
      BY <2>1, <2>3, <3>1, <1>2, <1>3, <1>4, <1>5
  <2>4. CASE i > Len(done) + 1
    <3>1. /\ ~(i <= Len(m)) /\ ~(i <= Len(done))
          /\ i - Len(m) \in 1 .. Len(r)
          /\ (i - Len(m)) + 1 = i - Len(done)
      BY <2>1, <2>4, <1>1, <1>2, <1>3
    <3> QED
      BY <2>1, <3>1, <1>3, <1>4, <1>5
  <2> QED
    BY <2>1, <2>2, <2>3, <2>4, <1>1
<1>8. a = b
  BY <1>4, <1>5, <1>6, <1>7, SeqEqual
<1> QED
  BY <1>1, <1>8 DEF a, b, m, h, r

\* The buttons of a message are a sequence of buttons.
LEMMA ButtonsOfPlaced ==
    ASSUME NEW p \in Seq(Placed)
    PROVE  [i \in DOMAIN p |-> p[i].button] \in Seq(UiButton)
<1>1. DOMAIN p = 1 .. Len(p) /\ Len(p) \in Nat
  BY LenProperties
<1>2. \A i \in 1 .. Len(p) : p[i] \in Placed
  BY ElementOfSeq
<1>3. \A y \in Placed : y.button \in UiButton
  BY DEF Placed
<1> HIDE DEF Placed
<1>4. [i \in 1 .. Len(p) |-> p[i].button] \in Seq(UiButton)
  BY <1>1, <1>2, <1>3
<1> QED
  BY <1>1, <1>4

\* A button appended to a message is appended to its buttons.
LEMMA ButtonsOfAppend ==
    ASSUME NEW p \in Seq(Placed), NEW x \in Placed
    PROVE  [i \in DOMAIN Append(p, x) |-> Append(p, x)[i].button]
              = Append([i \in DOMAIN p |-> p[i].button], x.button)
<1> DEFINE q == Append(p, x)
           bs == [i \in 1 .. Len(p) |-> p[i].button]
           cs == [i \in 1 .. Len(p) + 1 |-> q[i].button]
           ds == Append(bs, x.button)
<1>1. /\ q \in Seq(Placed) /\ Len(q) = Len(p) + 1 /\ q[Len(p) + 1] = x
      /\ \A i \in 1 .. Len(p) : q[i] = p[i]
      /\ Len(p) \in Nat
      /\ DOMAIN p = 1 .. Len(p) /\ DOMAIN q = 1 .. Len(q)
  BY AppendProperties, LenProperties
<1> HIDE DEF q
<1>2. x.button \in UiButton /\ \A i \in 1 .. Len(p) : p[i].button \in UiButton
  <2>1. \A y \in Placed : y.button \in UiButton
    BY DEF Placed
  <2>2. \A i \in 1 .. Len(p) : p[i] \in Placed
    BY ElementOfSeq
  <2> QED
    BY <2>1, <2>2
<1>3. /\ bs \in Seq(UiButton) /\ Len(bs) = Len(p)
      /\ \A i \in 1 .. Len(p) : bs[i] = p[i].button
  BY <1>1, <1>2
<1>4. /\ cs \in Seq(UiButton) /\ Len(cs) = Len(p) + 1
      /\ \A i \in 1 .. Len(p) + 1 : cs[i] = q[i].button
  <2>1. \A i \in 1 .. Len(p) + 1 : i \in 1 .. Len(p) \/ i = Len(p) + 1
    BY <1>1
  <2>2. \A i \in 1 .. Len(p) + 1 : q[i].button \in UiButton
    BY <1>1, <1>2, <2>1
  <2> QED
    BY <1>1, <2>2
<1> HIDE DEF bs, cs
<1>5. /\ ds \in Seq(UiButton) /\ Len(ds) = Len(p) + 1
      /\ \A i \in 1 .. Len(p) : ds[i] = bs[i]
      /\ ds[Len(p) + 1] = x.button
  BY <1>2, <1>3, AppendProperties
<1> HIDE DEF ds
<1>6. ASSUME NEW i \in 1 .. Len(cs) PROVE cs[i] = ds[i]
  <2>1. i \in 1 .. Len(p) + 1 /\ (i \in 1 .. Len(p) \/ i = Len(p) + 1)
    BY <1>1, <1>4
  <2> QED
    BY <2>1, <1>1, <1>3, <1>4, <1>5
<1>7. cs = ds
  BY <1>4, <1>5, <1>6, SeqEqual
<1>8. bs = [i \in DOMAIN p |-> p[i].button]
  BY <1>1 DEF bs
<1>9. cs = [i \in DOMAIN q |-> q[i].button]
  BY <1>1 DEF cs
<1> QED
  BY <1>3, <1>7, <1>8, <1>9 DEF ds, q

\* A button without a capability leaves the tokens as they are.
LEMMA OrderKept ==
    ASSUME NEW ks \in Seq(Tokens), NEW ps \in Seq(Placed), NEW x \in Placed,
           x.data = None, Ordered(ks, ps)
    PROVE  Ordered(ks, Append(ps, x))
<1> DEFINE qs == Append(ps, x)
<1>1. /\ qs \in Seq(Placed) /\ Len(qs) = Len(ps) + 1 /\ qs[Len(ps) + 1] = x
      /\ \A i \in 1 .. Len(ps) : qs[i] = ps[i]
      /\ Len(ps) \in Nat
      /\ DOMAIN ps = 1 .. Len(ps) /\ DOMAIN qs = 1 .. Len(qs)
  BY AppendProperties, LenProperties
<1> HIDE DEF qs
<1>2. \A i \in DOMAIN qs : i \in DOMAIN ps \/ qs[i] = x
  BY <1>1
<1>3. \A i \in DOMAIN ps : i \in DOMAIN qs /\ qs[i] = ps[i]
  BY <1>1
<1>4. \A k \in DOMAIN ks : ks[k] \in Tokens /\ ks[k] # None
  BY NoneAssumption, ElementOfSeq, LenProperties
<1>5. {qs[i].data : i \in DOMAIN qs} \ {None}
         = {ps[i].data : i \in DOMAIN ps} \ {None}
  BY <1>2, <1>3
<1>6. ASSUME NEW i \in DOMAIN qs, NEW j \in DOMAIN qs,
             NEW k \in DOMAIN ks, NEW l \in DOMAIN ks,
             i < j, qs[i].data = ks[k], qs[j].data = ks[l]
      PROVE  k < l
  <2>1. i \in DOMAIN ps /\ j \in DOMAIN ps
    BY <1>2, <1>4, <1>6
  <2> QED
    BY <2>1, <1>3, <1>6 DEF Ordered
<1> QED
  BY <1>5, <1>6 DEF Ordered, qs

\* The token of a new button comes last.
LEMMA OrderGrows ==
    ASSUME NEW ks \in Seq(Tokens), NEW ps \in Seq(Placed), NEW x \in Placed,
           x.data \in Tokens, x.data \notin ToSet(ks), Ordered(ks, ps)
    PROVE  Ordered(Append(ks, x.data), Append(ps, x))
<1> DEFINE qs == Append(ps, x)
           token == x.data
           ls == Append(ks, token)
<1>1. /\ qs \in Seq(Placed) /\ Len(qs) = Len(ps) + 1 /\ qs[Len(ps) + 1] = x
      /\ \A i \in 1 .. Len(ps) : qs[i] = ps[i]
      /\ Len(ps) \in Nat
      /\ DOMAIN ps = 1 .. Len(ps) /\ DOMAIN qs = 1 .. Len(qs)
  BY AppendProperties, LenProperties
<1>2. /\ ls \in Seq(Tokens) /\ Len(ls) = Len(ks) + 1 /\ ls[Len(ks) + 1] = token
      /\ \A k \in 1 .. Len(ks) : ls[k] = ks[k]
      /\ Len(ks) \in Nat
      /\ DOMAIN ks = 1 .. Len(ks) /\ DOMAIN ls = 1 .. Len(ls)
  BY AppendProperties, LenProperties
<1>3. ToSet(ls) = ToSet(ks) \cup {token} /\ IsInjective(ls)
  BY ToSetAppend DEF Ordered
<1>4. token # None /\ x.data = token
  BY NoneAssumption
<1>5. \A k \in DOMAIN ks : ks[k] # token
  BY <1>2, ToSetMembers
<1> HIDE DEF qs, ls, token
<1>6. \A i \in DOMAIN ps : ps[i].data # token
  <2>1. \A i \in DOMAIN ps : ps[i].data # None => ps[i].data \in ToSet(ks)
    BY DEF Ordered
  <2>2. token \notin ToSet(ks)
    BY DEF token
  <2> QED
    BY <2>1, <2>2, <1>4
<1>7. \A i \in DOMAIN qs : i \in DOMAIN ps \/ i = Len(ps) + 1
  BY <1>1
<1>8. \A i \in DOMAIN ps : i \in DOMAIN qs /\ qs[i] = ps[i]
  BY <1>1
<1>9. ToSet(ls) = {qs[i].data : i \in DOMAIN qs} \ {None}
  <2>1. Len(ps) + 1 \in DOMAIN qs
    BY <1>1
  <2>2. {qs[i].data : i \in DOMAIN qs} = {ps[i].data : i \in DOMAIN ps} \cup {token}
    BY <2>1, <1>1, <1>4, <1>7, <1>8
  <2> QED
    BY <2>2, <1>3, <1>4 DEF Ordered
<1>10. ASSUME NEW i \in DOMAIN qs, NEW j \in DOMAIN qs,
              NEW k \in DOMAIN ls, NEW l \in DOMAIN ls,
              i < j, qs[i].data = ls[k], qs[j].data = ls[l]
       PROVE  k < l
  <2>1. i \in DOMAIN ps /\ qs[i].data = ps[i].data
    BY <1>1, <1>7, <1>8, <1>10
  <2>2. k \in DOMAIN ks /\ ls[k] = ks[k]
    <3>1. k # Len(ks) + 1
      BY <2>1, <1>2, <1>6, <1>10
    <3> QED
      BY <3>1, <1>2
  <2>3. CASE j = Len(ps) + 1
    <3>1. ls[l] = token
      BY <2>3, <1>1, <1>4, <1>10
    <3>2. l \notin DOMAIN ks
      BY <3>1, <1>2, <1>5
    <3> QED
      BY <2>2, <3>2, <1>2
  <2>4. CASE j \in DOMAIN ps
    <3>1. qs[j].data = ps[j].data
      BY <2>4, <1>8
    <3>2. l # Len(ks) + 1
      BY <2>4, <3>1, <1>2, <1>6, <1>10
    <3>3. l \in DOMAIN ks /\ ls[l] = ks[l]
      BY <3>2, <1>2
    <3> QED
      BY <2>1, <2>2, <2>4, <3>1, <3>3, <1>10 DEF Ordered
  <2> QED
    BY <2>3, <2>4, <1>7
<1>11. Ordered(ls, qs)
  BY <1>3, <1>9, <1>10 DEF Ordered
<1> QED
  BY <1>11 DEF ls, qs, token

-----------------------------------------------------------------------------
(* The steps of a render. *)

\* Nothing has been rendered yet.
LEMMA InvInit == Init => IInv
<1> SUFFICES ASSUME Init PROVE IInv
  OBVIOUS
<1>1. TypeOK
  BY DEF Init, TypeOK
<1>2. /\ NothingEarly /\ WalkInOrder
      /\ DOMAIN entries = {}
      /\ \A t \in Tasks : ToSet(tokens[t]) = {} /\ IsInjective(tokens[t])
  BY ToSetEmpty DEF Init, NothingEarly, WalkInOrder
<1>3. RegistryIsShared /\ EntriesAreEnabled
  BY <1>2 DEF RegistryIsShared, EntriesAreEnabled
<1>4. ASSUME NEW t \in Tasks PROVE DataIsOwn(t) /\ TokensInOrder(t)
  <2>1. placed[t] = << >> /\ DOMAIN << >> = {}
    BY DEF Init
  <2>2. DOMAIN placed[t] = {}
    BY <2>1
  <2> QED
    BY <2>2, <1>2 DEF DataIsOwn, TokensInOrder, Ordered
<1> QED
  BY <1>1, <1>2, <1>3, <1>4 DEF IInv

\* While a render runs, its tree is a valid document.
LEMMA RenderingFacts ==
    ASSUME IInv, NEW t \in Tasks, Rendering(t)
    PROVE  /\ doc[t] \in Documents
           /\ NodesError[doc[t]] = Ok
           /\ Buttons[doc[t]] \in Seq(UiButton)
           /\ PlacedButtons(t) \o rest[t] = Buttons[doc[t]]
           /\ result[t] = None
<1>1. doc[t] \in Documents /\ result[t] = None /\ doc[t] # None
  BY DEF IInv, TypeOK, Rendering
<1>2. NodesError[doc[t]] = Ok
  BY <1>1, DocumentFacts DEF IInv, NothingEarly
<1> QED
  BY <1>1, <1>2, DocumentFacts DEF IInv, WalkInOrder

\* The next button of a render is a button of its tree.
LEMMA NextButton ==
    ASSUME IInv, NEW t \in Tasks, Rendering(t), rest[t] # << >>
    PROVE  /\ Head(rest[t]) \in UiButton
           /\ \E i \in DOMAIN Buttons[doc[t]] :
                 Buttons[doc[t]][i] = Head(rest[t])
<1> DEFINE p == PlacedButtons(t)
           r == rest[t]
           b == Buttons[doc[t]]
<1>1. p \in Seq(UiButton) /\ r \in Seq(UiButton) /\ r # << >>
  <2>1. placed[t] \in Seq(Placed) /\ rest[t] \in Seq(UiButton)
    BY DEF IInv, TypeOK
  <2> QED
    BY <2>1, ButtonsOfPlaced DEF PlacedButtons
<1>2. b \in Seq(UiButton) /\ p \o r = b
  BY RenderingFacts
<1> HIDE DEF p, r, b
<1>3. /\ Len(p) \in Nat /\ Len(r) \in Nat \ {0} /\ Head(r) = r[1]
      /\ Head(r) \in UiButton
  BY <1>1, HeadTailProperties, EmptySeq, LenProperties
<1>4. Len(b) = Len(p) + Len(r) /\ DOMAIN b = 1 .. Len(b)
  BY <1>1, <1>2, ConcatProperties, LenProperties
<1>5. /\ Len(p) + 1 \in 1 .. Len(p) + Len(r) /\ ~(Len(p) + 1 <= Len(p))
      /\ (Len(p) + 1) - Len(p) = 1
  BY <1>3
<1>6. b[Len(p) + 1] = r[1]
  BY <1>1, <1>2, <1>5, ConcatProperties
<1>7. Len(p) + 1 \in DOMAIN b /\ b[Len(p) + 1] = Head(r)
  BY <1>3, <1>4, <1>5, <1>6
<1> QED
  BY <1>3, <1>7 DEF r, b

\* What placing a button does to the message, and to what is left of the tree.
LEMMA PlaceStep ==
    ASSUME IInv, NEW t \in Tasks, NEW data \in Tokens \cup {None},
           Rendering(t), rest[t] # << >>, Place(t, data),
           UNCHANGED <<doc, context, result>>
    PROVE  /\ rest' \in [Tasks -> Seq(UiButton)]
           /\ placed' \in [Tasks -> Seq(Placed)]
           /\ WalkInOrder'
           /\ placed'[t] = Append(placed[t], [button |-> Head(rest[t]), data |-> data])
           /\ [button |-> Head(rest[t]), data |-> data] \in Placed
           /\ \A u \in Tasks : u # t => placed'[u] = placed[u] /\ rest'[u] = rest[u]
<1> DEFINE x == [button |-> Head(rest[t]), data |-> data]
<1>1. /\ placed[t] \in Seq(Placed) /\ rest[t] \in Seq(UiButton)
      /\ Head(rest[t]) \in UiButton /\ Tail(rest[t]) \in Seq(UiButton)
      /\ x \in Placed
  BY NextButton, HeadTailProperties DEF IInv, TypeOK, Placed
<1>2. /\ placed' = [placed EXCEPT ![t] = Append(placed[t], x)]
      /\ rest' = [rest EXCEPT ![t] = Tail(rest[t])]
  BY DEF Place
<1>3. Append(placed[t], x) \in Seq(Placed)
  BY <1>1, AppendProperties
<1>4. x.button = Head(rest[t])
  OBVIOUS
<1> HIDE DEF x
<1>5. /\ placed' \in [Tasks -> Seq(Placed)] /\ rest' \in [Tasks -> Seq(UiButton)]
      /\ placed'[t] = Append(placed[t], x) /\ rest'[t] = Tail(rest[t])
      /\ \A u \in Tasks : u # t => placed'[u] = placed[u] /\ rest'[u] = rest[u]
  BY <1>1, <1>2, <1>3 DEF IInv, TypeOK
<1>6. PlacedButtons(t)' \o rest'[t] = Buttons[doc[t]]
  <2>1. PlacedButtons(t)' = Append(PlacedButtons(t), Head(rest[t]))
    BY <1>1, <1>4, <1>5, ButtonsOfAppend DEF PlacedButtons
  <2> DEFINE p == PlacedButtons(t)
             r == rest[t]
  <2>2. p \in Seq(UiButton) /\ r \in Seq(UiButton) /\ r # << >>
    BY <1>1, ButtonsOfPlaced DEF PlacedButtons
  <2>3. p \o r = Buttons[doc[t]]
    BY RenderingFacts
  <2>4. PlacedButtons(t)' \o rest'[t] = Append(p, Head(r)) \o Tail(r)
    BY <2>1, <1>5
  <2> HIDE DEF p, r
  <2> QED
    BY <2>2, <2>3, <2>4, MoveOne
<1>7. WalkInOrder'
  <2> SUFFICES ASSUME NEW u \in Tasks, doc[u] # None, NodesError[doc[u]] = Ok
               PROVE  /\ PlacedButtons(u)' \o rest'[u] = Buttons[doc[u]]
                      /\ result[u] # None =>
                            /\ rest'[u] = << >>
                            /\ result[u] = IF Blocks[doc[u]] = << >>
                                           THEN "EmptyUi" ELSE Ok
    BY DEF WalkInOrder
  <2>1. CASE u = t
    BY <2>1, <1>6 DEF Rendering
  <2>2. CASE u # t
    BY <2>2, <1>5 DEF IInv, WalkInOrder, PlacedButtons
  <2> QED
    BY <2>1, <2>2
<1> QED
  BY <1>1, <1>5, <1>7 DEF x

\* A render begins: it has placed nothing, and a refusal ends it there.
LEMMA RenderKeepsInv ==
    ASSUME IInv, NEW t \in Tasks, NEW d \in Documents, NEW c \in Contexts,
           Render(t, d, c)
    PROVE  IInv'
<1>1. /\ doc[t] = None /\ d # None
      /\ rest[t] = << >> /\ placed[t] = << >> /\ tokens[t] = << >>
      /\ result[t] = None
  BY NoneAssumption DEF Render, IInv, NothingEarly
<1>2. /\ doc' = [doc EXCEPT ![t] = d] /\ context' = [context EXCEPT ![t] = c]
      /\ entries' = entries /\ placed' = placed /\ tokens' = tokens
  BY DEF Render
<1>3. /\ NodesError[d] = Ok =>
            rest' = [rest EXCEPT ![t] = Buttons[d]] /\ result' = result
      /\ NodesError[d] # Ok =>
            result' = [result EXCEPT ![t] = NodesError[d]] /\ rest' = rest
  BY DEF Render
<1>4. /\ doc'[t] = d
      /\ \A u \in Tasks \ {t} : /\ doc'[u] = doc[u] /\ context'[u] = context[u]
                                /\ rest'[u] = rest[u] /\ result'[u] = result[u]
      /\ NodesError[d] = Ok => rest'[t] = Buttons[d] /\ result'[t] = None
      /\ NodesError[d] # Ok => rest'[t] = << >> /\ result'[t] = NodesError[d]
  BY <1>1, <1>2, <1>3 DEF IInv, TypeOK
<1>5. TypeOK'
  BY <1>2, <1>3, DocumentFacts DEF IInv, TypeOK
<1>6. NothingEarly'
  <2> SUFFICES ASSUME NEW u \in Tasks, doc'[u] = None \/ NodesError[doc'[u]] # Ok
               PROVE  /\ rest'[u] = << >> /\ placed[u] = << >> /\ tokens[u] = << >>
                      /\ result'[u] = IF doc'[u] = None THEN None
                                      ELSE NodesError[doc'[u]]
    BY <1>2 DEF NothingEarly
  <2>1. CASE u = t
    BY <2>1, <1>1, <1>4
  <2>2. CASE u # t
    BY <2>2, <1>4 DEF IInv, NothingEarly
  <2> QED
    BY <2>1, <2>2
<1>7. WalkInOrder'
  <2> SUFFICES ASSUME NEW u \in Tasks, doc'[u] # None, NodesError[doc'[u]] = Ok
               PROVE  /\ PlacedButtons(u) \o rest'[u] = Buttons[doc'[u]]
                      /\ result'[u] # None =>
                            /\ rest'[u] = << >>
                            /\ result'[u] = IF Blocks[doc'[u]] = << >>
                                            THEN "EmptyUi" ELSE Ok
    BY <1>2 DEF WalkInOrder, PlacedButtons
  <2>1. CASE u = t
    <3>1. PlacedButtons(t) = << >>
      BY <1>1 DEF PlacedButtons
    <3>2. << >> \o Buttons[d] = Buttons[d]
      BY DocumentFacts, ConcatEmptySeq
    <3> QED
      BY <2>1, <3>1, <3>2, <1>4
  <2>2. CASE u # t
    <3>1. doc'[u] = doc[u] /\ rest'[u] = rest[u] /\ result'[u] = result[u]
      BY <2>2, <1>4
    <3>2. doc[u] # None /\ NodesError[doc[u]] = Ok
      BY <3>1
    <3>3. /\ PlacedButtons(u) \o rest[u] = Buttons[doc[u]]
          /\ result[u] # None =>
                /\ rest[u] = << >>
                /\ result[u] = IF Blocks[doc[u]] = << >> THEN "EmptyUi" ELSE Ok
      BY <3>2 DEF IInv, WalkInOrder
    <3> QED
      BY <3>1, <3>3
  <2> QED
    BY <2>1, <2>2
<1>8. RegistryIsShared' /\ EntriesAreEnabled'
  BY <1>2 DEF IInv, RegistryIsShared, EntriesAreEnabled
<1>9. ASSUME NEW u \in Tasks PROVE DataIsOwn(u)' /\ TokensInOrder(u)'
  <2>1. CASE u = t
    <3>1. DOMAIN placed[t] = {}
      BY <1>1
    <3> QED
      BY <2>1, <3>1, <1>2 DEF IInv, DataIsOwn, TokensInOrder
  <2>2. CASE u # t
    BY <2>2, <1>2, <1>4 DEF IInv, DataIsOwn, TokensInOrder
  <2> QED
    BY <2>1, <2>2
<1> QED
  BY <1>5, <1>6, <1>7, <1>8, <1>9 DEF IInv

\* A disabled button is placed without a capability.
LEMMA DisabledKeepsInv ==
    ASSUME IInv, NEW t \in Tasks, RenderDisabled(t)
    PROVE  IInv'
<1> DEFINE x == [button |-> Head(rest[t]), data |-> None]
<1>1. /\ Rendering(t) /\ rest[t] # << >> /\ Head(rest[t]).disabled
      /\ Place(t, None)
      /\ UNCHANGED <<entries, doc, context, tokens, result>>
  BY DEF RenderDisabled
<1>2. /\ rest' \in [Tasks -> Seq(UiButton)]
      /\ placed' \in [Tasks -> Seq(Placed)]
      /\ WalkInOrder'
      /\ placed'[t] = Append(placed[t], x)
      /\ x \in Placed
      /\ \A u \in Tasks : u # t => placed'[u] = placed[u] /\ rest'[u] = rest[u]
  BY <1>1, PlaceStep
<1>3. x.data = None /\ x.button.disabled
  BY <1>1
<1> HIDE DEF x
<1>4. TypeOK'
  BY <1>1, <1>2 DEF IInv, TypeOK
<1>5. NothingEarly'
  <2> SUFFICES ASSUME NEW u \in Tasks, doc[u] = None \/ NodesError[doc[u]] # Ok
               PROVE  /\ rest'[u] = << >> /\ placed'[u] = << >>
                      /\ tokens[u] = << >>
                      /\ result[u] = IF doc[u] = None THEN None
                                     ELSE NodesError[doc[u]]
    BY <1>1 DEF NothingEarly
  <2>1. u # t
    BY <1>1, RenderingFacts DEF Rendering
  <2> QED
    BY <2>1, <1>2 DEF IInv, NothingEarly
<1>6. RegistryIsShared' /\ EntriesAreEnabled'
  BY <1>1 DEF IInv, RegistryIsShared, EntriesAreEnabled
<1>7. ASSUME NEW u \in Tasks, u # t PROVE DataIsOwn(u)' /\ TokensInOrder(u)'
  <2>1. placed'[u] = placed[u] /\ tokens' = tokens
    BY <1>1, <1>2, <1>7
  <2>2. entries' = entries /\ context' = context
    BY <1>1
  <2> QED
    BY <2>1, <2>2 DEF IInv, DataIsOwn, TokensInOrder
<1>8. placed[t] \in Seq(Placed) /\ tokens[t] \in Seq(Tokens)
  BY DEF IInv, TypeOK
<1>9. DataIsOwn(t)'
  <2> SUFFICES ASSUME NEW i \in DOMAIN placed'[t]
               PROVE  LET p == placed'[t][i]
                      IN  IF p.button.disabled THEN p.data = None
                          ELSE /\ p.data \in DOMAIN entries
                               /\ entries[p.data] = [context |-> context[t],
                                                     action |-> p.button.action]
    BY <1>1 DEF DataIsOwn
  <2>1. \/ i \in DOMAIN placed[t] /\ placed'[t][i] = placed[t][i]
        \/ placed'[t][i] = x
    BY <1>2, <1>8, AppendProperties, LenProperties
  <2> QED
    BY <2>1, <1>3 DEF IInv, DataIsOwn
<1>10. TokensInOrder(t)'
  BY <1>1, <1>2, <1>3, <1>8, OrderKept DEF IInv, TokensInOrder
<1> QED
  BY <1>2, <1>4, <1>5, <1>6, <1>7, <1>9, <1>10 DEF IInv

\* A capability is registered and its button placed, whatever other renders
\* have registered since the last one (action.rs: the loop that looks for a
\* token that is not in use).
LEMMA EnabledKeepsInv ==
    ASSUME IInv, NEW t \in Tasks, NEW token \in Tokens, RenderEnabled(t, token)
    PROVE  IInv'
<1> DEFINE x == [button |-> Head(rest[t]), data |-> token]
           record == [context |-> context[t], action |-> Head(rest[t]).action]
<1>1. /\ Rendering(t) /\ rest[t] # << >> /\ ~Head(rest[t]).disabled
      /\ Place(t, token)
      /\ UNCHANGED <<doc, context, result>>
      /\ token \notin DOMAIN entries
      /\ tokens' = [tokens EXCEPT ![t] = Append(tokens[t], token)]
  BY DEF RenderEnabled
<1>2. /\ rest' \in [Tasks -> Seq(UiButton)]
      /\ placed' \in [Tasks -> Seq(Placed)]
      /\ WalkInOrder'
      /\ placed'[t] = Append(placed[t], x)
      /\ x \in Placed
      /\ \A u \in Tasks : u # t => placed'[u] = placed[u] /\ rest'[u] = rest[u]
  BY <1>1, PlaceStep
<1>3. /\ DOMAIN entries' = DOMAIN entries \cup {token}
      /\ entries'[token] = record
      /\ \A k \in DOMAIN entries : entries'[k] = entries[k]
  BY <1>1 DEF RenderEnabled, Registered
<1>4. /\ x.data = token /\ ~x.button.disabled /\ x.button = Head(rest[t])
      /\ record = [context |-> context[t], action |-> x.button.action]
      /\ record.action = Head(rest[t]).action
  BY <1>1
<1> HIDE DEF x, record
<1>5. /\ placed[t] \in Seq(Placed) /\ tokens[t] \in Seq(Tokens)
      /\ ToSet(tokens[t]) \subseteq DOMAIN entries
  BY DEF IInv, TypeOK, RegistryIsShared
<1>6. /\ tokens'[t] = Append(tokens[t], token)
      /\ tokens'[t] \in Seq(Tokens)
      /\ ToSet(tokens'[t]) = ToSet(tokens[t]) \cup {token}
      /\ \A u \in Tasks : u # t => tokens'[u] = tokens[u]
  <2>1. /\ tokens'[t] = Append(tokens[t], token)
        /\ \A u \in Tasks : u # t => tokens'[u] = tokens[u]
    BY <1>1 DEF IInv, TypeOK
  <2> QED
    BY <2>1, <1>5, ToSetAppend
<1>7. TypeOK'
  <2>1. tokens' \in [Tasks -> Seq(Tokens)]
    BY <1>1, <1>6 DEF IInv, TypeOK
  <2> QED
    BY <2>1, <1>1, <1>2, <1>3 DEF IInv, TypeOK
<1>8. NothingEarly'
  <2> SUFFICES ASSUME NEW u \in Tasks, doc[u] = None \/ NodesError[doc[u]] # Ok
               PROVE  /\ rest'[u] = << >> /\ placed'[u] = << >>
                      /\ tokens'[u] = << >>
                      /\ result[u] = IF doc[u] = None THEN None
                                     ELSE NodesError[doc[u]]
    BY <1>1 DEF NothingEarly
  <2>1. u # t
    BY <1>1, RenderingFacts DEF Rendering
  <2> QED
    BY <2>1, <1>2, <1>6 DEF IInv, NothingEarly
<1>9. RegistryIsShared'
  <2>1. DOMAIN entries' = UNION {ToSet(tokens'[u]) : u \in Tasks}
    <3>1. \A u \in Tasks : u # t => ToSet(tokens'[u]) = ToSet(tokens[u])
      BY <1>6
    <3>2. DOMAIN entries = UNION {ToSet(tokens[u]) : u \in Tasks}
      BY DEF IInv, RegistryIsShared
    <3>3. /\ DOMAIN entries' = DOMAIN entries \cup {token}
          /\ ToSet(tokens'[t]) = ToSet(tokens[t]) \cup {token}
      BY <1>3, <1>6
    <3> QED
      BY <3>1, <3>2, <3>3
  <2>2. ASSUME NEW u \in Tasks, NEW v \in Tasks, u # v
        PROVE  ToSet(tokens'[u]) \cap ToSet(tokens'[v]) = {}
    <3>1. /\ ToSet(tokens[u]) \cap ToSet(tokens[v]) = {}
          /\ token \notin ToSet(tokens[u]) /\ token \notin ToSet(tokens[v])
      BY <2>2, <1>1 DEF IInv, RegistryIsShared
    <3>2. \A w \in Tasks : ToSet(tokens'[w]) =
             IF w = t THEN ToSet(tokens[w]) \cup {token} ELSE ToSet(tokens[w])
      BY <1>6
    <3> QED
      BY <3>1, <3>2, <2>2
  <2> QED
    BY <2>1, <2>2 DEF RegistryIsShared
<1>10. EntriesAreEnabled'
  <2>1. PICK i \in DOMAIN Buttons[doc[t]] : Buttons[doc[t]][i] = Head(rest[t])
    BY <1>1, NextButton
  <2>2. /\ doc[t] \in Documents
        /\ ~Buttons[doc[t]][i].disabled
        /\ entries'[token].action = Buttons[doc[t]][i].action
    BY <2>1, <1>1, <1>3, <1>4, RenderingFacts
  <2> SUFFICES ASSUME NEW k \in DOMAIN entries'
               PROVE  \E d \in Documents : \E j \in DOMAIN Buttons[d] :
                         /\ ~Buttons[d][j].disabled
                         /\ entries'[k].action = Buttons[d][j].action
    BY DEF EntriesAreEnabled
  <2>3. CASE k = token
    BY <2>2, <2>3
  <2>4. CASE k \in DOMAIN entries
    BY <2>4, <1>3 DEF IInv, EntriesAreEnabled
  <2> QED
    BY <2>3, <2>4, <1>3
<1>11. ASSUME NEW u \in Tasks, NEW i \in DOMAIN placed[u]
       PROVE  LET p == placed[u][i]
              IN  IF p.button.disabled THEN p.data = None
                  ELSE /\ p.data \in DOMAIN entries'
                       /\ entries'[p.data] = [context |-> context[u],
                                              action |-> p.button.action]
  <2>1. DataIsOwn(u)
    BY DEF IInv
  <2> QED
    BY <2>1, <1>3 DEF DataIsOwn
<1>12. ASSUME NEW u \in Tasks, u # t PROVE DataIsOwn(u)' /\ TokensInOrder(u)'
  <2>1. placed'[u] = placed[u] /\ tokens'[u] = tokens[u] /\ context' = context
    BY <1>1, <1>2, <1>6, <1>12
  <2>2. DataIsOwn(u)'
    BY <2>1, <1>11 DEF DataIsOwn
  <2> QED
    BY <2>1, <2>2 DEF IInv, TokensInOrder
<1>13. DataIsOwn(t)'
  <2> SUFFICES ASSUME NEW i \in DOMAIN placed'[t]
               PROVE  LET p == placed'[t][i]
                      IN  IF p.button.disabled THEN p.data = None
                          ELSE /\ p.data \in DOMAIN entries'
                               /\ entries'[p.data] = [context |-> context[t],
                                                      action |-> p.button.action]
    BY <1>1 DEF DataIsOwn
  <2>1. \/ i \in DOMAIN placed[t] /\ placed'[t][i] = placed[t][i]
        \/ placed'[t][i] = x
    BY <1>2, <1>5, AppendProperties, LenProperties
  <2>2. CASE i \in DOMAIN placed[t] /\ placed'[t][i] = placed[t][i]
    BY <2>2, <1>11
  <2>3. CASE placed'[t][i] = x
    BY <2>3, <1>3, <1>4
  <2> QED
    BY <2>1, <2>2, <2>3
<1>14. TokensInOrder(t)'
  <2>1. token \notin ToSet(tokens[t])
    BY <1>1, <1>5
  <2>2. Ordered(Append(tokens[t], x.data), Append(placed[t], x))
    BY <2>1, <1>2, <1>4, <1>5, OrderGrows DEF IInv, TokensInOrder
  <2> QED
    BY <2>2, <1>2, <1>4, <1>6 DEF TokensInOrder
<1> QED
  BY <1>2, <1>7, <1>8, <1>9, <1>10, <1>12, <1>13, <1>14 DEF IInv

\* A render returns when its tree has been walked.
LEMMA ReturnKeepsInv ==
    ASSUME IInv, NEW t \in Tasks, Return(t)
    PROVE  IInv'
<1>1. /\ Rendering(t) /\ rest[t] = << >>
      /\ result' = [result EXCEPT ![t] =
                       IF Blocks[doc[t]] = << >> THEN "EmptyUi" ELSE Ok]
      /\ UNCHANGED <<entries, doc, context, rest, placed, tokens>>
  BY DEF Return
<1>2. /\ result'[t] = IF Blocks[doc[t]] = << >> THEN "EmptyUi" ELSE Ok
      /\ \A u \in Tasks : u # t => result'[u] = result[u]
  BY <1>1 DEF IInv, TypeOK
<1>3. TypeOK'
  BY <1>1, DocumentFacts DEF IInv, TypeOK
<1>4. NothingEarly'
  BY <1>1, <1>2, RenderingFacts DEF IInv, NothingEarly, Rendering
<1>5. WalkInOrder'
  <2>1. \A u \in Tasks : PlacedButtons(u)' = PlacedButtons(u)
    BY <1>1 DEF PlacedButtons
  <2> QED
    BY <2>1, <1>1, <1>2 DEF IInv, WalkInOrder
<1>6. RegistryIsShared' /\ EntriesAreEnabled'
  BY <1>1 DEF IInv, RegistryIsShared, EntriesAreEnabled
<1>7. \A u \in Tasks : DataIsOwn(u)' /\ TokensInOrder(u)'
  BY <1>1 DEF IInv, DataIsOwn, TokensInOrder
<1> QED
  BY <1>3, <1>4, <1>5, <1>6, <1>7 DEF IInv

\* Each step of each render keeps the invariant.
LEMMA InvStep == IInv /\ [Next]_vars => IInv'
<1> SUFFICES ASSUME IInv, [Next]_vars PROVE IInv'
  OBVIOUS
<1>1. CASE UNCHANGED vars
  <2>1. /\ UNCHANGED <<entries, doc, context, rest, placed, tokens, result>>
    BY <1>1 DEF vars
  <2>2. TypeOK' /\ NothingEarly'
    BY <2>1 DEF IInv, TypeOK, NothingEarly
  <2>3. RegistryIsShared' /\ EntriesAreEnabled'
    BY <2>1 DEF IInv, RegistryIsShared, EntriesAreEnabled
  <2>4. WalkInOrder'
    BY <2>1 DEF IInv, WalkInOrder, PlacedButtons
  <2>5. \A u \in Tasks : DataIsOwn(u)' /\ TokensInOrder(u)'
    BY <2>1 DEF IInv, DataIsOwn, TokensInOrder
  <2> QED
    BY <2>2, <2>3, <2>4, <2>5 DEF IInv
<1> QED
  BY <1>1, RenderKeepsInv, DisabledKeepsInv, EnabledKeepsInv, ReturnKeepsInv
  DEF Next

\* The invariant holds in every state of every render.
LEMMA IInvHolds == Spec => []IInv
  BY InvInit, InvStep, PTL DEF Spec

-----------------------------------------------------------------------------
(* What renders do to the registry. *)

\* The controls that a view switches off are disabled in its trees.
OffIsDisabled ==
    \A d \in Documents : \A i \in DOMAIN Buttons[d] :
       Buttons[d][i].action \in Off => Buttons[d][i].disabled

\* A tree that passes validation becomes a message that is not empty: the check
\* that render makes after its registrations is never the one that fails
\* (render.rs:144-150).
LEMMA ValidatedIsVisible ==
    \A d \in Documents : NodesError[d] = Ok => Blocks[d] # << >>
<1> TAKE d \in Documents
<1>1. d \in NodeLists
  BY DocumentsAssumption
<1> QED
  BY <1>1, ValidationAgrees, WellFormedMessage DEF ValidationIsExact

\* A render that fails leaves nothing in the registry, and the registry is made
\* of messages.
THEOREM AllOrNothing == Spec => []FailureRegistersNothing
<1>1. IInv => FailureRegistersNothing
  <2> SUFFICES ASSUME IInv, NEW t \in Tasks, result[t] \notin {None, Ok}
               PROVE  tokens[t] = << >>
    BY DEF FailureRegistersNothing, IInv, RegistryIsShared
  <2>1. doc[t] \in Documents \cup {None}
    BY DEF IInv, TypeOK
  <2>2. ~(doc[t] # None /\ NodesError[doc[t]] = Ok)
    BY <2>1, ValidatedIsVisible DEF IInv, WalkInOrder
  <2> QED
    BY <2>2 DEF IInv, NothingEarly
<1> QED
  BY <1>1, IInvHolds, PTL

\* A render succeeds exactly if its message, as deep as it may be, has no empty
\* part and its tree no empty fragment.
THEOREM RefusalsAreStructural == Spec => []ErrorsAreStructural
<1>1. IInv => ErrorsAreStructural
  <2> SUFFICES ASSUME IInv, NEW t \in Tasks, result[t] # None
               PROVE  result[t] = Ok <=> /\ IsWellFormed[Blocks[doc[t]]]
                                         /\ ~HasEmptyFragment[doc[t]]
    BY DEF ErrorsAreStructural
  <2>1. doc[t] \in Documents
    BY DEF IInv, TypeOK, NothingEarly
  <2>2. doc[t] \in NodeLists /\ doc[t] # None
    BY <2>1, DocumentsAssumption, DocumentFacts
  <2>3. NodesError[doc[t]] = Ok <=> /\ IsWellFormed[Blocks[doc[t]]]
                                    /\ ~HasEmptyFragment[doc[t]]
    BY <2>2, ValidationAgrees DEF ValidationIsExact
  <2>4. result[t] = Ok <=> NodesError[doc[t]] = Ok
    <3>1. CASE NodesError[doc[t]] = Ok
      BY <2>1, <2>2, <3>1, ValidatedIsVisible DEF IInv, WalkInOrder
    <3>2. CASE NodesError[doc[t]] # Ok
      BY <2>2, <3>2 DEF IInv, NothingEarly
    <3> QED
      BY <3>1, <3>2
  <2> QED
    BY <2>3, <2>4
<1> QED
  BY <1>1, IInvHolds, PTL

\* The buttons of a message are those of its tree, each enabled one with a
\* capability of its own and each disabled one without, in any interleaving of
\* renders.
THEOREM ButtonsHaveTheirOwn ==
    ASSUME OffIsDisabled
    PROVE  Spec => []ButtonsAreOwn
<1>1. IInv => ButtonsAreOwn
  <2> SUFFICES ASSUME IInv PROVE ButtonsAreOwn
    OBVIOUS
  <2>1. ASSUME NEW t \in Tasks, Rendering(t) \/ result[t] = Ok
        PROVE  [i \in DOMAIN placed[t] |-> placed[t][i].button] \o rest[t]
                  = Buttons[doc[t]]
    <3>1. CASE Rendering(t)
      BY <3>1, RenderingFacts DEF PlacedButtons
    <3>2. CASE result[t] = Ok
      <4>1. doc[t] # None /\ NodesError[doc[t]] = Ok
        BY <3>2, NoneAssumption DEF IInv, NothingEarly
      <4> QED
        BY <4>1 DEF IInv, WalkInOrder, PlacedButtons
    <3> QED
      BY <2>1, <3>1, <3>2
  <2>2. ASSUME NEW token \in DOMAIN entries PROVE entries[token].action \notin Off
    BY <2>2, OffIsDisabled DEF IInv, EntriesAreEnabled, OffIsDisabled
  <2>3. ASSUME NEW t \in Tasks, NEW i \in DOMAIN placed[t]
        PROVE  LET p == placed[t][i]
               IN  IF p.button.disabled THEN p.data = None
                   ELSE /\ p.data \in DOMAIN entries
                        /\ entries[p.data] = [context |-> context[t],
                                              action |-> p.button.action]
    BY DEF IInv, DataIsOwn
  <2>4. ASSUME NEW t \in Tasks PROVE Ordered(tokens[t], placed[t])
    BY DEF IInv, TokensInOrder
  <2>5. ASSUME NEW t \in Tasks
        PROVE  /\ ToSet(tokens[t]) =
                     {placed[t][i].data : i \in DOMAIN placed[t]} \ {None}
               /\ IsInjective(tokens[t])
               /\ \A i, j \in DOMAIN placed[t], k, l \in DOMAIN tokens[t] :
                     /\ i < j
                     /\ placed[t][i].data = tokens[t][k]
                     /\ placed[t][j].data = tokens[t][l]
                     => k < l
    BY <2>4 DEF Ordered
  <2>6. \A t, u \in Tasks :
           t # u => ToSet(tokens[t]) \cap ToSet(tokens[u]) = {}
    BY DEF IInv, RegistryIsShared
  <2> QED
    BY <2>1, <2>2, <2>3, <2>5, <2>6 DEF ButtonsAreOwn
<1> QED
  BY <1>1, IInvHolds, PTL
=============================================================================
