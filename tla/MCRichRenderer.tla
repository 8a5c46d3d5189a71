--------------------------- MODULE MCRichRenderer ---------------------------
(* Trees of one or two nodes out of those below: every kind of node, every   *)
(* fault, nested one or two levels deep, and buttons in every place that can *)
(* hold one.                                                                 *)
EXTENDS RichRenderer, TLC

CONSTANTS t1, t2, k1, k2, k3, k4, r1, r2

MCSymmetry == Permutations(Tasks) \cup Permutations(Tokens)

RECURSIVE MCCellDepth(_)
MCCellDepth(cell) ==
    IF cell.cell = "header" THEN 1 + MCCellDepth(cell.inner) ELSE 0

RECURSIVE MCDepth(_)
MCDepth(nodes) ==
    LET Below(n) == CASE n.node = "details" -> 1 + MCDepth(n.blocks)
                      [] n.node = "fragment" -> 1 + MCDepth(n.nodes)
                      [] OTHER -> 0
    IN  Max({0} \cup {Below(n) : n \in ToSet(nodes)})

MCActions == {"on", "other", "off"}

MCOff == {"off"}

on == Button("plain", "on")
other == Button("emoji", "other")
off == Disabled(Button("plain", "off"))

bareCells ==
    {EmptyCell, TextCell("t"), TextCell("")}
      \cup {ButtonCell(b) : b \in {other, off, Button("plain", "off"),
                                    Button("emptyPlain", "on")}}

Wrapped(cells) == cells \cup {HeaderCell(cell, TRUE) : cell \in cells}

MCTableCells == Wrapped(Wrapped(bareCells))

\* A cell that is disabled after it was made a header, or before.
offCells ==
    {DisabledCell[HeaderCell(ButtonCell(Button("plain", "off")), TRUE)],
     HeaderCell(DisabledCell[ButtonCell(Button("plain", "off"))], TRUE)}

\* A cell that was made a header twice, and one that was not in the end.
headers ==
    {HeaderCell(HeaderCell(ButtonCell(other), TRUE), TRUE),
     HeaderCell(HeaderCell(TextCell("t"), TRUE), FALSE)}

faultyCells ==
    {TextCell(""), HeaderCell(TextCell(""), TRUE),
     HeaderCell(ButtonCell(Button("emptyPlain", "on")), TRUE)}

Row(cell) == Table(<< <<EmptyCell, cell>> >>)

sound ==
    {Text("t"), ButtonRow(<<off, on>>), Details("t", <<ButtonRow(<<other>>)>>),
     Fragment(<<Text("t"), Fragment(<<ButtonRow(<<on>>)>>)>>)}
      \cup {Row(cell) : cell \in offCells \cup headers}

faulty ==
    {Text(""), ButtonRow(<< >>), ButtonRow(<<on, Button("emptyEmoji", "on")>>),
     Table(<< >>), Table(<< << >> >>), Details("", <<Text("t")>>),
     Details("t", << >>), Details("t", <<Fragment(<< >>)>>), Fragment(<< >>)}
      \cup {Row(cell) : cell \in faultyCells}

MCDocuments ==
    {<< >>} \cup {<<n>> : n \in sound \cup faulty}
            \cup {<<m, n>> : m, n \in sound}
            \cup {<<m, n>> : m \in {ButtonRow(<<on>>)}, n \in faulty}

\* The documents, and the lists inside them.
RECURSIVE Parts(_)
Parts(nodes) ==
    {nodes} \cup UNION {CASE n.node = "details" -> Parts(n.blocks)
                          [] n.node = "fragment" -> Parts(n.nodes)
                          [] OTHER -> {} : n \in ToSet(nodes)}

MCNodeLists == UNION {Parts(d) : d \in MCDocuments}
=============================================================================
