---------------------------- MODULE MCPrintQueue ----------------------------
(* Documents, page sizes and file sizes for the runs of PrintQueue.        *)
EXTENDS PrintQueue

SizeOfPage == [p \in Pages |-> p + 10]

\* A template with all three kinds of page, in two copies.
FullTwo == {<<Pages, Pages>>}

\* Every set of pages a template may yield, alone and before a full copy.
EveryTemplate ==
  {<<p>> : p \in SUBSET Pages} \cup {<<p, Pages>> : p \in SUBSET Pages}

\* Two documents of different shape.
TwoShapes == {<<Pages>>, <<{Face, Over}, {Face}>>}

=============================================================================
