---------------------------- MODULE Editor_proofs ----------------------------
(***************************************************************************)
(* Proofs about Editor, for all files, elements, limits, dialogs and       *)
(* faults.                                                                 *)
(*                                                                         *)
(* The file that is written over is the one the page was filled from: the  *)
(* connection, its flag and the page are set by different handlers, and no *)
(* more than db, dbOpened and home is needed of the state.                 *)
(*                                                                         *)
(* The rest is about the page and its stack.  PageInv says what the stack  *)
(* means: the commands on an element, or on one of its fields, are a chain *)
(* in which each finds what the one before it has left, and the page is at *)
(* the place of the chain that the index of the stack points to.  A push,  *)
(* an undo and a redo keep it; filling a page is a fold over the elements  *)
(* of a template, about which one argues by the number of elements.        *)
(***************************************************************************)
EXTENDS Editor, FiniteSetTheorems, SequenceTheorems, WellFoundedInduction, TLAPS

(* Saving.                                                                 *)

\* What openTemplates is called for: whatever it finds, the property holds
\* behind it.
LEMMA OpenTemplatesSaves ==
  ASSUME NEW f, OpenTemplates(f)
  PROVE  SavesWhereItCameFrom'
<1>1. CASE /\ NoFault
           /\ db' = f /\ dbOpened' = TRUE
           /\ FilledFrom(f)
  BY <1>1 DEF SavesWhereItCameFrom, FilledFrom
<1>2. CASE /\ Fault
           /\ db' \in {None, f} /\ dbOpened' = FALSE
           /\ NotFilled(f)
  BY <1>2 DEF SavesWhereItCameFrom
<1> QED  BY <1>1, <1>2 DEF OpenTemplates

LEMMA SaveAsSaves ==
  ASSUME NEW f, SavesWhereItCameFrom, SaveAs(f)
  PROVE  SavesWhereItCameFrom'
<1>1. CASE name = None
  BY <1>1 DEF SaveAs, SavesWhereItCameFrom, link, past
<1>2. CASE CopyTo(name, f)
  BY <1>2, OpenTemplatesSaves DEF CopyTo
<1>3. CASE CopyFails(name, f)
  BY <1>3 DEF CopyFails, SavesWhereItCameFrom
<1> QED  BY <1>1, <1>2, <1>3 DEF SaveAs

LEMMA NewTemplateSaves ==
  ASSUME NEW f, NewTemplate(f) \/ NewNotCopied(f)
  PROVE  SavesWhereItCameFrom'
<1>1. CASE OpenTemplates(f)
  BY <1>1, OpenTemplatesSaves
<1>2. CASE NewTemplate(f) /\ ~OpenTemplates(f)
  BY <1>2 DEF NewTemplate, SavesWhereItCameFrom
<1>3. CASE NewNotCopied(f)
  <2>1. CASE dbOpened'
    BY <1>3, <2>1 DEF NewNotCopied, FilledFrom, SavesWhereItCameFrom
  <2>2. CASE ~dbOpened'
    BY <2>2 DEF SavesWhereItCameFrom
  <2> QED  BY <2>1, <2>2
<1> QED  BY <1>1, <1>2, <1>3

\* Editing leaves the connection and the file the page came from alone.
LEMMA EditStepSaves ==
  ASSUME SavesWhereItCameFrom, EditStep
  PROVE  SavesWhereItCameFrom'
<1>1. SUFFICES UNCHANGED <<db, dbOpened, home>>
  BY <1>1 DEF SavesWhereItCameFrom
<1>2. ASSUME Edits
      PROVE  UNCHANGED <<db, dbOpened, home>>
  BY <1>2 DEF Edits, link
<1>3. ASSUME NEW t, AddElement(t)
      PROVE  UNCHANGED <<db, dbOpened, home>>
  BY <1>3, <1>2 DEF AddElement
<1>4. ASSUME NEW i, NEW field, NEW new, ChangeField(i, field, new)
      PROVE  UNCHANGED <<db, dbOpened, home>>
  BY <1>4, <1>2 DEF ChangeField, Does
<1>5. ASSUME NEW i, DeleteElement(i)
      PROVE  UNCHANGED <<db, dbOpened, home>>
  BY <1>5, <1>2 DEF DeleteElement, Does
<1>6. ASSUME UndoCommand \/ RedoCommand
      PROVE  UNCHANGED <<db, dbOpened, home>>
  BY <1>6, <1>2 DEF UndoCommand, RedoCommand
<1>7. ASSUME NEW n, SetUndoLimit(n)
      PROVE  UNCHANGED <<db, dbOpened, home>>
  BY <1>7 DEF SetUndoLimit, link, past
<1> QED  BY <1>3, <1>4, <1>5, <1>6, <1>7, EditStep DEF EditStep

\* A template is saved into the file its page was read from, whatever dialogs
\* were left, copies failed and files refused before; only the temporary file
\* of a new template may be written with another page.
THEOREM SavesHome == Spec => []SavesWhereItCameFrom
<1>1. Init => SavesWhereItCameFrom
  BY DEF Init, SavesWhereItCameFrom
<1>2. SavesWhereItCameFrom /\ [Next]_vars => SavesWhereItCameFrom'
  <2> SUFFICES ASSUME SavesWhereItCameFrom, [Next]_vars
               PROVE  SavesWhereItCameFrom'
    OBVIOUS
  <2>1. CASE EditStep
    BY <2>1, EditStepSaves
  <2>2. ASSUME NEW f \in Files, OpenTemplate(f)
        PROVE  SavesWhereItCameFrom'
    BY <2>2, OpenTemplatesSaves DEF OpenTemplate
  <2>3. ASSUME NEW f \in Files, SaveAs(f)
        PROVE  SavesWhereItCameFrom'
    BY <2>3, SaveAsSaves
  <2>4. ASSUME NEW f \in Files, NewTemplate(f) \/ NewNotCopied(f)
        PROVE  SavesWhereItCameFrom'
    BY <2>4, NewTemplateSaves
  <2>5. CASE OpenCancelled
    BY <2>5 DEF OpenCancelled, SavesWhereItCameFrom, link, past
  <2>10. CASE OpenRefused
    BY <2>10 DEF OpenRefused, SavesWhereItCameFrom
  <2>6. CASE NewCancelled
    BY <2>6 DEF NewCancelled, SavesWhereItCameFrom
  <2>7. CASE Save
    BY <2>7 DEF Save, SavesWhereItCameFrom, link
  <2>8. CASE Leave
    BY <2>8 DEF Leave, SavesWhereItCameFrom
  <2>9. CASE UNCHANGED vars
    BY <2>9 DEF vars, link, past, SavesWhereItCameFrom
  <2> QED
    BY <2>1, <2>2, <2>3, <2>4, <2>5, <2>6, <2>7, <2>8, <2>9, <2>10
    DEF Next, FileStep
<1> QED  BY <1>1, <1>2, PTL DEF Spec

-----------------------------------------------------------------------------
(* Elements, commands and pages.                                           *)

LEMMA ElemFacts ==
  ASSUME NEW e \in Elem, NEW f \in Fields, NEW v
  PROVE  /\ e.tag = e["tag"] /\ e.look = e["look"] /\ e.angle = e["angle"]
         /\ DOMAIN e = Fields
         /\ e = [g \in Fields |-> e[g]]
         /\ [e EXCEPT ![f] = v] = [g \in Fields |-> IF g = f THEN v ELSE e[g]]
<1>1. e.tag = e["tag"] /\ e.look = e["look"] /\ e.angle = e["angle"]
  BY DEF Elem
<1>2. DOMAIN e = Fields
  BY DEF Elem, Fields
<1>3. e = [g \in Fields |-> e[g]]
  BY DEF Elem, Fields
<1>4. [e EXCEPT ![f] = v] = [g \in Fields |-> IF g = f THEN v ELSE e[g]]
  BY <1>2, <1>3
<1> QED  BY <1>1, <1>2, <1>3, <1>4

LEMMA ElemOf ==
  ASSUME NEW e, e = [g \in Fields |-> e[g]], e["tag"] \in Tags \cup {Picture},
         e["look"] \in Looks, e["angle"] \in Angles
  PROVE  e \in Elem
<1>1. e = [tag |-> e["tag"], look |-> e["look"], angle |-> e["angle"]]
  BY DEF Fields
<1> QED  BY <1>1 DEF Elem

\* What is in a field.
Values(field) ==
  IF field = "tag" THEN Tags ELSE IF field = "look" THEN Looks ELSE Angles

Changes(field) == [op : {field}, item : Items, old : Values(field), new : Values(field)]
Commands ==
  [op : {"add", "delete"}, item : Items]
    \cup Changes("tag") \cup Changes("look") \cup Changes("angle")

Pages ==
  [item : [Items -> Elem \cup {None}], scene : SUBSET Items,
   stack : Seq(Commands), index : Nat, limit : Limits,
   rot : [Items -> Degrees], turned : SUBSET Items]

\* What is shown exists, and so does, as a text, what a command is about.
Alive(p) == \A i \in p.scene : p.item[i] # None
Bare(p) ==
  \A k \in 1 .. Len(p.stack) :
    LET i == p.stack[k].item IN p.item[i] # None => p.item[i].tag \in Tags

\* The commands on an element begin with the one that adds it, and at most one
\* deletes it.
AddsFirst(p) ==
  \A k \in 1 .. Len(p.stack), l \in 1 .. Len(p.stack) :
    k < l /\ p.stack[k].item = p.stack[l].item =>
      /\ p.stack[l].op # "add"
      /\ p.stack[l].op = "delete" => p.stack[k].op # "delete"

\* The scene is what the commands done have made of it, and the ones undone
\* have taken back.
SceneFollows(p) ==
  \A k \in 1 .. Len(p.stack) :
    LET c == p.stack[k] IN
    /\ c.op = "add" /\ k <= p.index =>
         \/ c.item \in p.scene
         \/ \E l \in k+1 .. p.index : p.stack[l].op = "delete" /\ p.stack[l].item = c.item
    /\ c.op = "add" /\ k > p.index => c.item \notin p.scene
    /\ c.op = "delete" /\ k <= p.index => c.item \notin p.scene
    /\ c.op = "delete" /\ k > p.index =>
         \/ c.item \in p.scene
         \/ \E l \in p.index+1 .. k-1 : p.stack[l].op = "add" /\ p.stack[l].item = c.item

\* Two commands on the same field of the same element.
Same(c, d) == c.op \in Fields /\ c.op = d.op /\ c.item = d.item
\* From k on, before l, there is no command on the field of c.
NoneFrom(p, c, k, l) ==
  \A m \in 1 .. Len(p.stack) : k <= m /\ m < l => ~ Same(c, p.stack[m])

\* A command on a field finds there what the command before it has left.
Chained(p) ==
  \A k \in 1 .. Len(p.stack), l \in 1 .. Len(p.stack) :
    k < l /\ Same(p.stack[l], p.stack[k]) /\ NoneFrom(p, p.stack[l], k+1, l) =>
      p.stack[k].new = p.stack[l].old

\* A field holds what the last command done has left, and what the first one
\* undone has found.
FieldsFollow(p) ==
  \A k \in 1 .. Len(p.stack) :
    LET c == p.stack[k] IN
    c.op \in Fields /\ p.item[c.item] # None =>
      /\ k <= p.index /\ NoneFrom(p, c, k+1, p.index+1) => p.item[c.item][c.op] = c.new
      /\ k > p.index /\ NoneFrom(p, c, p.index+1, k) => p.item[c.item][c.op] = c.old

\* What was not turned again is seen at its angle.
Upright(p) ==
  \A i \in Items :
    p.item[i] # None /\ i \notin p.turned => p.rot[i] = p.item[i]["angle"]

PageInv(p) ==
  /\ p \in Pages /\ p.index <= Len(p.stack)
  /\ Alive(p) /\ Bare(p) /\ AddsFirst(p)
  /\ SceneFollows(p) /\ Chained(p) /\ FieldsFollow(p)

HasElems(p) == \A k \in 1 .. Len(p.stack) : p.item[p.stack[k].item] # None

LEMMA CommandFacts ==
  ASSUME NEW c \in Commands
  PROVE  /\ c.item \in Items /\ c.op \in {"add", "delete"} \cup Fields
         /\ c.op \in Fields <=> c.op \notin {"add", "delete"}
         /\ c.op \in Fields => c.old \in Values(c.op) /\ c.new \in Values(c.op)
  BY DEF Commands, Changes, Values, Fields

LEMMA ElemSet ==
  ASSUME NEW e \in Elem, NEW f \in Fields, NEW v \in Values(f)
  PROVE  [e EXCEPT ![f] = v] \in Elem
<1> DEFINE q == [e EXCEPT ![f] = v]
<1>1. q = [g \in Fields |-> IF g = f THEN v ELSE e[g]]
  BY ElemFacts
<1>2. e["tag"] \in Tags \cup {Picture} /\ e["look"] \in Looks /\ e["angle"] \in Angles
  BY ElemFacts DEF Elem
<1>3. q["tag"] \in Tags \cup {Picture} /\ q["look"] \in Looks /\ q["angle"] \in Angles
  BY <1>1, <1>2 DEF Fields, Values
<1>4. q = [g \in Fields |-> q[g]]
  BY <1>1
<1> QED
  <2> HIDE DEF q
  <2> QED  BY <1>3, <1>4, ElemOf DEF q

\* What a command, done or undone, makes of a page: the value v in its field,
\* and a turn by v if that is the angle.
Made(p, q, c, v) ==
  /\ q \in Pages /\ q.stack = p.stack /\ q.index = p.index /\ q.limit = p.limit
  /\ \A i \in Items : q.item[i] # None <=> p.item[i] # None
  /\ \A i \in Items : p.item[i] # None => \A f \in Fields :
       q.item[i][f] = IF c.op = f /\ c.item = i THEN v ELSE p.item[i][f]
  /\ c.op = "angle" => c.item \in q.turned /\ q.rot[c.item] = Rotated(p.rot[c.item], v)
  /\ \A i \in Items : c.op # "angle" \/ c.item # i =>
       q.rot[i] = p.rot[i] /\ (i \in q.turned <=> i \in p.turned)

LEMMA Turns ==
  ASSUME NEW a \in Degrees, NEW b \in Degrees
  PROVE  Rotated(a, b) \in Degrees /\ Rotated(0, b) = b /\ 0 \in Degrees
  BY DEF Rotated, Degrees

LEMMA FieldMade ==
  ASSUME NEW p \in Pages, NEW c \in Commands, c.op \in Fields,
         p.item[c.item] # None, NEW v \in Values(c.op)
  PROVE  LET q == SetField(p, c.item, c.op, v) IN
         Made(p, q, c, v) /\ q.scene = p.scene
<1> DEFINE e == [p.item[c.item] EXCEPT ![c.op] = v]
           it == [p.item EXCEPT ![c.item] = e]
           turn == IF c.op = "angle"
                     THEN [p.rot EXCEPT ![c.item] = Rotated(@, v)] ELSE p.rot
           back == IF c.op = "angle" THEN p.turned \cup {c.item} ELSE p.turned
           q == [p EXCEPT !.item = it, !.rot = turn, !.turned = back]
<1>1. /\ p.item \in [Items -> Elem \cup {None}] /\ c.item \in Items
      /\ p.item[c.item] \in Elem
  BY CommandFacts DEF Pages
<1>2. e \in Elem
  BY <1>1, ElemSet
<1>3. \A f \in Fields : e[f] = IF c.op = f THEN v ELSE p.item[c.item][f]
  BY <1>1, ElemFacts
<1>4. e # None
  BY <1>2, EditorAssumption
<1>5. q = SetField(p, c.item, c.op, v)
  <2>1. p = [p EXCEPT !.rot = p.rot, !.turned = p.turned]
    BY DEF Pages
  <2>2. CASE c.op = "angle"
    BY <2>2 DEF SetField, Pages
  <2>3. CASE c.op # "angle"
    BY <2>1, <2>3 DEF SetField, Pages
  <2> QED  BY <2>2, <2>3
<1> HIDE DEF e
<1>6. it \in [Items -> Elem \cup {None}]
  BY <1>1, <1>2
<1>7. \A i \in Items : it[i] = IF i = c.item THEN e ELSE p.item[i]
  BY <1>1
<1> HIDE DEF it
<1>8. /\ turn \in [Items -> Degrees] /\ back \in SUBSET Items
      /\ c.op = "angle" => c.item \in back /\ turn[c.item] = Rotated(p.rot[c.item], v)
      /\ \A i \in Items : c.op # "angle" \/ c.item # i =>
           turn[i] = p.rot[i] /\ (i \in back <=> i \in p.turned)
  <2>1. p.rot \in [Items -> Degrees] /\ p.turned \in SUBSET Items
    BY DEF Pages
  <2>2. ASSUME c.op = "angle"
        PROVE  Rotated(p.rot[c.item], v) \in Degrees
    <3>1. v \in Degrees
      BY <2>2, EditorAssumption DEF Values
    <3> QED  BY <1>1, <2>1, <3>1, Turns
  <2> QED  BY <1>1, <2>1, <2>2
<1> HIDE DEF turn, back
<1>9. /\ q \in Pages /\ q.item = it /\ q.scene = p.scene /\ q.stack = p.stack
      /\ q.index = p.index /\ q.limit = p.limit /\ q.rot = turn /\ q.turned = back
  BY <1>6, <1>8 DEF Pages
<1> HIDE DEF q
<1>10. \A i \in Items : q.item[i] # None <=> p.item[i] # None
  BY <1>1, <1>4, <1>7, <1>9
<1>11. \A i \in Items : p.item[i] # None => \A f \in Fields :
         q.item[i][f] = IF c.op = f /\ c.item = i THEN v ELSE p.item[i][f]
  BY <1>3, <1>7, <1>9
<1> QED  BY <1>5, <1>8, <1>9, <1>10, <1>11 DEF Made

LEMMA SceneMade ==
  ASSUME NEW p \in Pages, NEW c \in Commands, c.op \notin Fields,
         NEW s \in SUBSET Items, NEW v
  PROVE  LET q == [p EXCEPT !.scene = s] IN Made(p, q, c, v) /\ q.scene = s
<1> DEFINE q == [p EXCEPT !.scene = s]
<1>1. /\ q \in Pages /\ q.item = p.item /\ q.scene = s /\ q.stack = p.stack
      /\ q.index = p.index /\ q.limit = p.limit /\ q.rot = p.rot
      /\ q.turned = p.turned /\ c.op # "angle"
  BY DEF Pages, Fields
<1> HIDE DEF q
<1> QED  BY <1>1 DEF Made, q

LEMMA RedoIs ==
  ASSUME NEW p \in Pages, NEW c \in Commands, p.item[c.item] # None
  PROVE  /\ Made(p, Redo(p, c), c, c.new)
         /\ Redo(p, c).scene = CASE c.op = "add"    -> p.scene \cup {c.item}
                                 [] c.op = "delete" -> p.scene \ {c.item}
                                 [] OTHER           -> p.scene
<1>1. c.item \in Items /\ p.scene \subseteq Items
  BY CommandFacts DEF Pages
<1>2. CASE c.op = "add"
  <2>1. p.scene \cup {c.item} \in SUBSET Items /\ c.op \notin Fields
    BY <1>1, <1>2 DEF Fields
  <2> QED  BY <1>2, <2>1, SceneMade DEF Redo
<1>3. CASE c.op = "delete"
  <2>1. p.scene \ {c.item} \in SUBSET Items /\ c.op \notin Fields
    BY <1>1, <1>3 DEF Fields
  <2> QED  BY <1>3, <2>1, SceneMade DEF Redo
<1>4. CASE c.op \notin {"add", "delete"}
  <2>1. c.op \in Fields /\ c.new \in Values(c.op)
    BY <1>4, CommandFacts
  <2> QED  BY <1>4, <2>1, FieldMade DEF Redo
<1> QED  BY <1>2, <1>3, <1>4

LEMMA UndoIs ==
  ASSUME NEW p \in Pages, NEW c \in Commands, p.item[c.item] # None
  PROVE  /\ Made(p, Undo(p, c), c, c.old)
         /\ Undo(p, c).scene = CASE c.op = "add"    -> p.scene \ {c.item}
                                 [] c.op = "delete" -> p.scene \cup {c.item}
                                 [] OTHER           -> p.scene
<1>1. c.item \in Items /\ p.scene \subseteq Items
  BY CommandFacts DEF Pages
<1>2. CASE c.op = "add"
  <2>1. p.scene \ {c.item} \in SUBSET Items /\ c.op \notin Fields
    BY <1>1, <1>2 DEF Fields
  <2> QED  BY <1>2, <2>1, SceneMade DEF Undo
<1>3. CASE c.op = "delete"
  <2>1. p.scene \cup {c.item} \in SUBSET Items /\ c.op \notin Fields
    BY <1>1, <1>3 DEF Fields
  <2> QED  BY <1>3, <2>1, SceneMade DEF Undo
<1>4. CASE c.op \notin {"add", "delete"}
  <2>1. c.op \in Fields /\ c.old \in Values(c.op)
    BY <1>4, CommandFacts
  <2> QED  BY <1>4, <2>1, FieldMade DEF Undo
<1> QED  BY <1>2, <1>3, <1>4

\* Destroying forgets elements outside the scene.
LEMMA DestroyIs ==
  ASSUME NEW p \in Pages, NEW gone
  PROVE  LET q == Destroy(p, gone) IN
         /\ q \in Pages /\ q.scene = p.scene /\ q.stack = p.stack
         /\ q.index = p.index /\ q.limit = p.limit
         /\ q.rot = p.rot /\ q.turned = p.turned
         /\ \A i \in Items : q.item[i] = p.item[i] \/ q.item[i] = None
         /\ \A i \in p.scene : q.item[i] = p.item[i]
         /\ \A i \in Items : q.item[i] # p.item[i] =>
              \E c \in Range(gone) : c = [op |-> "add", item |-> i]
<1> DEFINE dead == {i \in Items \ p.scene :
                      \E c \in Range(gone) : c = [op |-> "add", item |-> i]}
           it == [i \in Items |-> IF i \in dead THEN None ELSE p.item[i]]
           q == [p EXCEPT !.item = it]
<1>1. q = Destroy(p, gone)
  BY DEF Destroy
<1>2. p.scene \subseteq Items /\ p.item \in [Items -> Elem \cup {None}]
  BY DEF Pages
<1>3. it \in [Items -> Elem \cup {None}]
  BY <1>2
<1>4. /\ \A i \in Items : it[i] = p.item[i] \/ it[i] = None
      /\ \A i \in p.scene : it[i] = p.item[i]
      /\ \A i \in Items : it[i] # p.item[i] =>
           \E c \in Range(gone) : c = [op |-> "add", item |-> i]
  BY <1>2
<1> HIDE DEF it
<1>5. /\ q \in Pages /\ q.item = it /\ q.scene = p.scene /\ q.stack = p.stack
      /\ q.index = p.index /\ q.limit = p.limit
      /\ q.rot = p.rot /\ q.turned = p.turned
  BY <1>3 DEF Pages
<1> HIDE DEF q, dead
<1> QED  BY <1>1, <1>4, <1>5

-----------------------------------------------------------------------------
(* QUndoStack::push.                                                       *)

LEMMA PageFacts ==
  ASSUME NEW p \in Pages
  PROVE  /\ p.index \in Nat /\ p.stack \in Seq(Commands) /\ Len(p.stack) \in Nat
         /\ p.limit \in Limits /\ p.limit \in Nat
         /\ p.item \in [Items -> Elem \cup {None}] /\ p.scene \subseteq Items
         /\ \A k \in 1 .. Len(p.stack) : p.stack[k] \in Commands
<1>1. /\ p.index \in Nat /\ p.stack \in Seq(Commands) /\ p.limit \in Limits
      /\ p.item \in [Items -> Elem \cup {None}] /\ p.scene \subseteq Items
  BY DEF Pages
<1>2. Len(p.stack) \in Nat /\ \A k \in 1 .. Len(p.stack) : p.stack[k] \in Commands
  BY <1>1, LenProperties, ElementOfSeq
<1> QED  BY <1>1, <1>2, EditorAssumption

\* What a push makes of a page: n commands are lost at the bottom.
Pushed(p, c, q, n) ==
  LET r == Redo(p, c)
      m == p.index + 1
  IN /\ q \in Pages /\ q.scene = r.scene /\ q.limit = p.limit
     /\ q.rot = r.rot /\ q.turned = r.turned
     /\ q.index = m - n /\ Len(q.stack) = m - n
     /\ \A k \in 1 .. m - n : q.stack[k] = IF k + n = m THEN c ELSE p.stack[k+n]
     /\ \A i \in Items : q.item[i] = r.item[i] \/ q.item[i] = None
     /\ \A i \in q.scene : q.item[i] = r.item[i]
     /\ p.limit = 0 \/ m <= p.limit => n = 0
     /\ \A i \in Items : q.item[i] # r.item[i] =>
          \E k \in 1 .. Len(p.stack) :
            p.stack[k] = [op |-> "add", item |-> i] /\ (n = 0 => k >= m)

LEMMA PushIs ==
  ASSUME NEW p \in Pages, p.index <= Len(p.stack),
         NEW c \in Commands, p.item[c.item] # None
  PROVE  \E n \in 0 .. p.index : Pushed(p, c, Push(p, c), n)
<1> DEFINE r == Redo(p, c)
           m == p.index + 1
           tail == SubSeq(p.stack, m, Len(p.stack))
           kept == SubSeq(p.stack, 1, p.index)
           new == Append(kept, c)
           d == Destroy(r, tail)
           full == [d EXCEPT !.stack = new, !.index = m]
           n == Surplus(full)
           gone == SubSeq(full.stack, 1, n)
           rest == SubSeq(full.stack, n + 1, Len(full.stack))
           e == Destroy(full, gone)
           q == [e EXCEPT !.stack = rest, !.index = @ - n]
<1>1. q = Push(p, c)
  BY DEF Push
<1>2. /\ p.index \in Nat /\ m \in Nat /\ m = p.index + 1 /\ p.stack \in Seq(Commands)
      /\ p.limit \in Nat /\ Len(p.stack) \in Nat
      /\ \A k \in 1 .. Len(p.stack) : p.stack[k] \in Commands
  BY PageFacts
<1>3. r \in Pages /\ r.stack = p.stack /\ r.index = p.index /\ r.limit = p.limit
  BY RedoIs DEF Made
<1>4. /\ kept \in Seq(Commands) /\ Len(kept) = p.index
      /\ \A k \in 1 .. p.index : kept[k] = p.stack[k]
  <2>1. \A k \in 1 .. p.index : p.stack[k] \in Commands
    BY <1>2
  <2>2. 1 \in Int /\ p.index \in Int
    BY <1>2
  <2>3. /\ kept \in Seq(Commands)
        /\ Len(kept) = IF 1 <= p.index THEN p.index - 1 + 1 ELSE 0
        /\ \A k \in 1 .. p.index - 1 + 1 : kept[k] = p.stack[1 + k - 1]
    BY <2>1, <2>2, SubSeqProperties
  <2> HIDE DEF kept
  <2> QED  BY <1>2, <2>3
<1>5. /\ new \in Seq(Commands) /\ Len(new) = m
      /\ \A k \in 1 .. m : new[k] = IF k = m THEN c ELSE p.stack[k]
  <2> HIDE DEF kept
  <2>1. /\ new \in Seq(Commands) /\ Len(new) = Len(kept) + 1
        /\ \A k \in 1 .. Len(kept) : new[k] = kept[k]
        /\ new[Len(kept) + 1] = c
    BY <1>4, AppendProperties
  <2> HIDE DEF new, m
  <2>2. Len(kept) + 1 = m /\ \A k \in 1 .. m : k # m => k \in 1 .. p.index
    BY <1>2, <1>4
  <2> QED  BY <1>4, <2>1, <2>2
<1>6. \A x : x \in Range(tail) => \E k \in m .. Len(p.stack) : p.stack[k] = x
  <2>1. \A k \in m .. Len(p.stack) : p.stack[k] \in Commands
    BY <1>2
  <2>2. m \in Int /\ Len(p.stack) \in Int
    BY <1>2
  <2>3. /\ tail \in Seq(Commands)
        /\ Len(tail) = IF m <= Len(p.stack) THEN Len(p.stack) - m + 1 ELSE 0
        /\ \A k \in 1 .. Len(p.stack) - m + 1 : tail[k] = p.stack[m + k - 1]
    <3> HIDE DEF m
    <3> QED  BY <2>1, <2>2, SubSeqProperties
  <2>4. DOMAIN tail = 1 .. Len(tail)
    <3> HIDE DEF tail
    <3> QED  BY <2>3
  <2> HIDE DEF tail, m
  <2>5. SUFFICES ASSUME NEW k \in 1 .. Len(tail)
                 PROVE  \E j \in m .. Len(p.stack) : p.stack[j] = tail[k]
    BY <2>4 DEF Range
  <2>6. m + k - 1 \in m .. Len(p.stack) /\ tail[k] = p.stack[m + k - 1]
    <3>1. m <= Len(p.stack) /\ k \in 1 .. Len(p.stack) - m + 1
      BY <1>2, <2>3
    <3>2. m + k - 1 \in m .. Len(p.stack)
      BY <1>2, <3>1
    <3> QED  BY <2>3, <3>1, <3>2
  <2> QED  BY <2>6
<1>7. /\ d \in Pages /\ d.scene = r.scene /\ d.limit = p.limit
      /\ d.rot = r.rot /\ d.turned = r.turned
      /\ \A i \in Items : d.item[i] = r.item[i] \/ d.item[i] = None
      /\ \A i \in r.scene : d.item[i] = r.item[i]
      /\ \A i \in Items : d.item[i] # r.item[i] =>
           \E k \in m .. Len(p.stack) : p.stack[k] = [op |-> "add", item |-> i]
  <2> HIDE DEF r, tail, m
  <2> QED  BY <1>3, <1>6, DestroyIs
<1> HIDE DEF r, tail, kept, new, d, m
<1>8. /\ full \in Pages /\ full.scene = d.scene /\ full.item = d.item
      /\ full.stack = new /\ full.index = m /\ full.limit = p.limit
      /\ full.rot = r.rot /\ full.turned = r.turned
  BY <1>2, <1>5, <1>7 DEF Pages
<1> HIDE DEF full
<1>9. /\ n \in 0 .. p.index
      /\ p.limit = 0 \/ m <= p.limit => n = 0
  BY <1>2, <1>5, <1>8 DEF Surplus
<1> HIDE DEF n
<1>10. /\ rest \in Seq(Commands) /\ Len(rest) = m - n
       /\ \A k \in 1 .. m - n : rest[k] = IF k + n = m THEN c ELSE p.stack[k+n]
  <2>1. \A k \in n + 1 .. m : new[k] \in Commands
    BY <1>2, <1>5, <1>9
  <2>2. n + 1 \in Int /\ m \in Int /\ n \in Int
    BY <1>2, <1>9
  <2>3. /\ rest \in Seq(Commands)
        /\ Len(rest) = IF n + 1 <= m THEN m - (n + 1) + 1 ELSE 0
        /\ \A k \in 1 .. m - (n + 1) + 1 : rest[k] = new[n + 1 + k - 1]
    BY <1>5, <1>8, <2>1, <2>2, SubSeqProperties
  <2> HIDE DEF rest
  <2>4. \A k \in 1 .. m - n : rest[k] = new[k+n]
    BY <1>2, <1>9, <2>3
  <2>5. Len(rest) = m - n
    BY <1>2, <1>9, <2>3
  <2>6. \A k \in 1 .. m - n : k + n \in 1 .. m
    BY <1>2, <1>9
  <2> QED  BY <1>5, <2>3, <2>4, <2>5, <2>6
<1>11. /\ e \in Pages /\ e.scene = d.scene /\ e.index = m /\ e.limit = p.limit
       /\ e.rot = r.rot /\ e.turned = r.turned
       /\ \A i \in Items : e.item[i] = d.item[i] \/ e.item[i] = None
       /\ \A i \in d.scene : e.item[i] = d.item[i]
       /\ \A i \in Items : e.item[i] # d.item[i] =>
            \E x \in Range(gone) : x = [op |-> "add", item |-> i]
  BY <1>8, DestroyIs
<1>12. \A x \in Range(gone) : n # 0 /\ \E k \in 1 .. Len(p.stack) : p.stack[k] = x
  <2>1. \A k \in 1 .. n : new[k] \in Commands /\ new[k] = p.stack[k] /\ k \in 1 .. Len(p.stack)
    <3> SUFFICES ASSUME NEW k \in 1 .. n
                 PROVE  new[k] \in Commands /\ new[k] = p.stack[k] /\ k \in 1 .. Len(p.stack)
      OBVIOUS
    <3>1. k \in 1 .. m /\ k # m /\ k \in 1 .. Len(p.stack)
      BY <1>2, <1>9
    <3> QED  BY <1>2, <1>5, <3>1
  <2>2. 1 \in Int /\ n \in Int
    BY <1>2, <1>9
  <2>3. /\ gone \in Seq(Commands) /\ Len(gone) = IF 1 <= n THEN n - 1 + 1 ELSE 0
        /\ \A k \in 1 .. n - 1 + 1 : gone[k] = new[1 + k - 1]
    BY <1>8, <2>1, <2>2, SubSeqProperties
  <2>4. DOMAIN gone = 1 .. Len(gone)
    <3> HIDE DEF gone
    <3> QED  BY <2>3
  <2> HIDE DEF gone
  <2>5. /\ Len(gone) = n /\ n \in Nat
        /\ \A k \in 1 .. n : gone[k] = new[k]
    BY <1>2, <1>9, <2>3
  <2>6. \A k \in 1 .. n : n # 0
    BY <2>5
  <2> QED  BY <2>1, <2>4, <2>5, <2>6 DEF Range
<1> HIDE DEF e, gone, rest
<1>13. m - n \in Nat
  BY <1>2, <1>9
<1>14. /\ q \in Pages /\ q.scene = e.scene /\ q.item = e.item
       /\ q.stack = rest /\ q.index = m - n /\ q.limit = p.limit
       /\ q.rot = r.rot /\ q.turned = r.turned
  BY <1>10, <1>11, <1>13 DEF Pages
<1> HIDE DEF q
<1>15. \A i \in Items : q.item[i] = r.item[i] \/ q.item[i] = None
  BY <1>7, <1>11, <1>14
<1>16. \A i \in q.scene : q.item[i] = r.item[i]
  BY <1>7, <1>11, <1>14
<1>17. ASSUME NEW i \in Items, q.item[i] # r.item[i]
       PROVE  \E k \in 1 .. Len(p.stack) :
                p.stack[k] = [op |-> "add", item |-> i] /\ (n = 0 => k >= m)
  <2>1. CASE d.item[i] # r.item[i]
    <3>1. PICK k \in m .. Len(p.stack) : p.stack[k] = [op |-> "add", item |-> i]
      BY <1>7, <2>1
    <3>2. k \in 1 .. Len(p.stack) /\ k >= m
      BY <1>2
    <3> QED  BY <3>1, <3>2
  <2>2. CASE d.item[i] = r.item[i]
    BY <1>11, <1>12, <1>14, <1>17, <2>2
  <2> QED  BY <2>1, <2>2
<1>18. Pushed(p, c, q, n)
  BY <1>7, <1>9, <1>10, <1>11, <1>14, <1>15, <1>16, <1>17 DEF Pushed, r, m
<1> QED  BY <1>1, <1>9, <1>18

\* A command that can be pushed: it is about a text, and finds there what it
\* says.
Fits(p, c) ==
  /\ c \in Commands /\ p.item[c.item] # None /\ p.item[c.item].tag \in Tags
  /\ c.op = "add" => \A k \in 1 .. Len(p.stack) : p.stack[k].item # c.item
  /\ c.op = "delete" => c.item \in p.scene
  /\ c.op \in Fields => c.item \in p.scene /\ p.item[c.item][c.op] = c.old

\* What was in the stack before is there n places further down.
LEMMA PushedFacts ==
  ASSUME NEW p, PageInv(p), NEW c, Fits(p, c), NEW q, NEW n \in 0 .. p.index,
         Pushed(p, c, q, n)
  PROVE  /\ q \in Pages /\ Len(q.stack) \in Nat /\ q.index = Len(q.stack)
         /\ n \in Nat /\ p.index \in Nat /\ Len(p.stack) \in Nat
         /\ \A k \in 1 .. Len(q.stack) :
              /\ k + n \in Nat /\ n < k + n
              /\ \/ k = Len(q.stack) /\ q.stack[k] = c /\ k + n = p.index + 1
                 \/ /\ k < Len(q.stack) /\ k + n <= p.index /\ k + n \in 1 .. Len(p.stack)
                    /\ q.stack[k] = p.stack[k+n]
         /\ Len(q.stack) \in 1 .. Len(q.stack) /\ q.stack[Len(q.stack)] = c
         /\ Len(q.stack) + n = p.index + 1
         /\ \A k \in 1 .. Len(q.stack) : q.stack[k] \in Commands
<1>1. /\ p.index \in Nat /\ Len(p.stack) \in Nat /\ p.index <= Len(p.stack) /\ n \in Nat
      /\ n <= p.index
  BY PageFacts DEF PageInv
<1>2. /\ q \in Pages /\ q.index = p.index + 1 - n /\ Len(q.stack) = p.index + 1 - n
      /\ \A k \in 1 .. p.index + 1 - n :
           q.stack[k] = IF k + n = p.index + 1 THEN c ELSE p.stack[k+n]
  BY <1>1 DEF Pushed
<1>3. ASSUME NEW k \in 1 .. Len(q.stack)
      PROVE  /\ k + n \in Nat /\ n < k + n
             /\ \/ k = Len(q.stack) /\ q.stack[k] = c /\ k + n = p.index + 1
                \/ /\ k < Len(q.stack) /\ k + n <= p.index /\ k + n \in 1 .. Len(p.stack)
                   /\ q.stack[k] = p.stack[k+n]
  <2>1. q.stack[k] = IF k + n = p.index + 1 THEN c ELSE p.stack[k+n]
    BY <1>2
  <2>2. k + n = p.index + 1 <=> k = Len(q.stack)
    <3> DEFINE len == Len(q.stack)
               at == p.index
    <3>1. k \in Int /\ len \in Int /\ at \in Int /\ n \in Int /\ len = at + 1 - n
      BY <1>1, <1>2
    <3> HIDE DEF len, at
    <3>2. k + n = at + 1 <=> k = len
      BY <3>1
    <3> QED  BY <3>2 DEF len, at
  <2>3. k # Len(q.stack) => k < Len(q.stack) /\ k + n <= p.index /\ k + n \in 1 .. Len(p.stack)
    BY <1>1, <1>2
  <2> QED  BY <1>1, <2>1, <2>2, <2>3
<1>5. Len(q.stack) \in Nat /\ Len(q.stack) \in 1 .. Len(q.stack)
  BY <1>1, <1>2
<1>6. \A k \in 1 .. Len(q.stack) : q.stack[k] \in Commands
  BY <1>2, PageFacts
<1>7. Len(q.stack) + n = p.index + 1 /\ q.stack[Len(q.stack)] = c
  BY <1>1, <1>2, <1>5
<1> QED  BY <1>1, <1>2, <1>3, <1>5, <1>6, <1>7

LEMMA PushedBelow ==
  ASSUME NEW p, PageInv(p), NEW c, Fits(p, c), NEW q, NEW n \in 0 .. p.index,
         Pushed(p, c, q, n), NEW j \in 1 .. Len(p.stack), n < j, j <= p.index
  PROVE  /\ j - n \in 1 .. Len(q.stack) /\ j - n < Len(q.stack)
         /\ q.stack[j - n] = p.stack[j]
<1>1. /\ n \in Nat /\ p.index \in Nat /\ Len(p.stack) \in Nat /\ Len(q.stack) \in Nat
      /\ Len(q.stack) + n = p.index + 1
  BY PushedFacts
<1> DEFINE k == j - n
<1>2. k \in 1 .. Len(q.stack) /\ k < Len(q.stack) /\ k + n = j
  BY <1>1
<1> HIDE DEF k
<1>3. q.stack[k] = p.stack[k + n]
  BY <1>1, <1>2, PushedFacts
<1> QED  BY <1>2, <1>3 DEF k

LEMMA PushAddsFirst ==
  ASSUME NEW p, PageInv(p), NEW c, Fits(p, c), NEW q, NEW n \in 0 .. p.index,
         Pushed(p, c, q, n)
  PROVE  AddsFirst(q)
<1>a. \A k \in 1 .. Len(q.stack) :
        \/ k = Len(q.stack) /\ q.stack[k] = c /\ k + n = p.index + 1
        \/ /\ k < Len(q.stack) /\ k + n <= p.index /\ k + n \in 1 .. Len(p.stack)
           /\ q.stack[k] = p.stack[k+n]
  BY PushedFacts
<1> SUFFICES ASSUME NEW k \in 1 .. Len(q.stack), NEW l \in 1 .. Len(q.stack),
                    k < l, q.stack[k].item = q.stack[l].item
             PROVE  /\ q.stack[l].op # "add"
                    /\ q.stack[l].op = "delete" => q.stack[k].op # "delete"
  BY DEF AddsFirst
<1>1. Len(q.stack) \in Nat /\ n \in Nat
  BY PushedFacts
<1>2. k < Len(q.stack)
  BY <1>1
<1>3. /\ k + n \in 1 .. Len(p.stack) /\ k + n <= p.index
      /\ q.stack[k] = p.stack[k+n]
  BY <1>1, <1>2, <1>a
<1>4. CASE l = Len(q.stack)
  <2>1. q.stack[l] = c
    BY <1>1, <1>4, <1>a
  <2>2. p.stack[k+n].op = "delete" => p.stack[k+n].item \notin p.scene
    BY <1>3 DEF PageInv, SceneFollows
  <2> QED  BY <1>3, <2>1, <2>2 DEF Fits
<1>5. CASE l # Len(q.stack)
  <2>1. l + n \in 1 .. Len(p.stack) /\ q.stack[l] = p.stack[l+n]
    BY <1>1, <1>5, <1>a
  <2>2. k + n < l + n
    BY <1>1
  <2> QED  BY <1>3, <2>1, <2>2 DEF PageInv, AddsFirst
<1> QED  BY <1>4, <1>5

LEMMA PushSceneFollows ==
  ASSUME NEW p, PageInv(p), NEW c, Fits(p, c), NEW q, NEW n \in 0 .. p.index,
         Pushed(p, c, q, n)
  PROVE  SceneFollows(q)
<1>a. \A k \in 1 .. Len(q.stack) :
        \/ k = Len(q.stack) /\ q.stack[k] = c /\ k + n = p.index + 1
        \/ /\ k < Len(q.stack) /\ k + n <= p.index /\ k + n \in 1 .. Len(p.stack)
           /\ q.stack[k] = p.stack[k+n]
  BY PushedFacts
<1>b. \A j \in 1 .. Len(p.stack) :
        n < j /\ j <= p.index =>
          j - n \in 1 .. Len(q.stack) /\ j - n < Len(q.stack) /\ q.stack[j - n] = p.stack[j]
  BY PushedBelow
<1> DEFINE d == q.stack[Len(q.stack)]
<1>1. /\ Len(q.stack) \in Nat /\ n \in Nat /\ q.index = Len(q.stack) /\ d = c
      /\ Len(q.stack) \in 1 .. Len(q.stack)
  BY PushedFacts
<1>2. q.scene = CASE c.op = "add"    -> p.scene \cup {c.item}
                  [] c.op = "delete" -> p.scene \ {c.item}
                  [] OTHER           -> p.scene
  BY RedoIs DEF PageInv, Fits, Pushed
<1> SUFFICES ASSUME NEW k \in 1 .. Len(q.stack)
             PROVE  /\ q.stack[k].op = "add" =>
                         \/ q.stack[k].item \in q.scene
                         \/ \E l \in k+1 .. Len(q.stack) :
                              q.stack[l].op = "delete" /\ q.stack[l].item = q.stack[k].item
                    /\ q.stack[k].op = "delete" => q.stack[k].item \notin q.scene
  BY <1>1 DEF SceneFollows
<1>3. CASE k = Len(q.stack)
  BY <1>1, <1>2, <1>3
<1>4. CASE k # Len(q.stack)
  <2>1. /\ k + n \in 1 .. Len(p.stack) /\ k + n <= p.index
        /\ q.stack[k] = p.stack[k+n] /\ k < Len(q.stack)
    BY <1>1, <1>4, <1>a
  <2>2. CASE q.stack[k].op = "add"
    <3>1. CASE q.stack[k].item \in p.scene
      <4>1. CASE c.op = "delete" /\ c.item = q.stack[k].item
        <5>1. Len(q.stack) \in k+1 .. Len(q.stack)
          BY <1>1, <2>1
        <5> QED  BY <1>1, <2>2, <4>1, <5>1
      <4>2. CASE ~ (c.op = "delete" /\ c.item = q.stack[k].item)
        BY <1>2, <2>2, <3>1, <4>2
      <4> QED  BY <4>1, <4>2
    <3>2. CASE q.stack[k].item \notin p.scene
      <4>1. PICK l \in k+n+1 .. p.index :
              p.stack[l].op = "delete" /\ p.stack[l].item = p.stack[k+n].item
        BY <2>1, <2>2, <3>2 DEF PageInv, SceneFollows
      <4>2. l \in 1 .. Len(p.stack) /\ n < l /\ l <= p.index
        BY <1>1, <2>1, PageFacts DEF PageInv
      <4>3. l - n \in 1 .. Len(q.stack) /\ q.stack[l - n] = p.stack[l]
        BY <4>2, <1>b
      <4>4. l - n \in k+1 .. Len(q.stack)
        BY <1>1, <4>3
      <4> QED  BY <2>1, <2>2, <4>1, <4>3, <4>4
    <3> QED  BY <3>1, <3>2
  <2>3. CASE q.stack[k].op = "delete"
    <3>1. q.stack[k].item \notin p.scene
      BY <2>1, <2>3 DEF PageInv, SceneFollows
    <3>2. c.op = "add" => q.stack[k].item # c.item
      BY <2>1 DEF Fits
    <3> QED  BY <1>2, <2>3, <3>1, <3>2
  <2> QED  BY <2>2, <2>3
<1> QED  BY <1>3, <1>4

LEMMA PushChained ==
  ASSUME NEW p, PageInv(p), NEW c, Fits(p, c), NEW q, NEW n \in 0 .. p.index,
         Pushed(p, c, q, n)
  PROVE  Chained(q)
<1>a. \A k \in 1 .. Len(q.stack) :
        \/ k = Len(q.stack) /\ q.stack[k] = c /\ k + n = p.index + 1
        \/ /\ k < Len(q.stack) /\ k + n <= p.index /\ k + n \in 1 .. Len(p.stack)
           /\ q.stack[k] = p.stack[k+n]
  BY PushedFacts
<1>b. \A j \in 1 .. Len(p.stack) :
        n < j /\ j <= p.index =>
          j - n \in 1 .. Len(q.stack) /\ j - n < Len(q.stack) /\ q.stack[j - n] = p.stack[j]
  BY PushedBelow
<1> SUFFICES ASSUME NEW k \in 1 .. Len(q.stack), NEW l \in 1 .. Len(q.stack),
                    k < l, Same(q.stack[l], q.stack[k]), NoneFrom(q, q.stack[l], k+1, l)
             PROVE  q.stack[k].new = q.stack[l].old
  BY DEF Chained
<1>1. Len(q.stack) \in Nat /\ n \in Nat /\ p.index \in Nat
  BY PushedFacts
<1>2. k < Len(q.stack)
  BY <1>1
<1>3. /\ k + n \in 1 .. Len(p.stack) /\ k + n <= p.index
      /\ q.stack[k] = p.stack[k+n]
  BY <1>1, <1>2, <1>a
<1>4. ASSUME NEW j \in 1 .. Len(p.stack), k + n + 1 <= j, j < l + n, j <= p.index
      PROVE  ~ Same(q.stack[l], p.stack[j])
  <2>1. n < j
    BY <1>1, <1>4
  <2>2. j - n \in 1 .. Len(q.stack) /\ q.stack[j - n] = p.stack[j]
    BY <1>4, <2>1, <1>b
  <2>3. k + 1 <= j - n /\ j - n < l
    BY <1>1, <1>4
  <2> QED  BY <2>2, <2>3 DEF NoneFrom
<1>5. CASE l = Len(q.stack)
  <2>1. q.stack[l] = c /\ l + n = p.index + 1
    <3>1. q.stack[Len(q.stack)] = c /\ Len(q.stack) + n = p.index + 1
      BY PushedFacts
    <3> QED  BY <1>5, <3>1
  <2>2. Same(c, p.stack[k+n])
    BY <1>3, <2>1
  <2>3. NoneFrom(p, p.stack[k+n], k+n+1, p.index+1)
    <3> SUFFICES ASSUME NEW j \in 1 .. Len(p.stack), k+n+1 <= j, j < p.index + 1
                 PROVE  ~ Same(p.stack[k+n], p.stack[j])
      BY DEF NoneFrom
    <3>1. ~ Same(c, p.stack[j])
      BY <1>1, <1>4, <2>1
    <3> QED  BY <2>2, <3>1 DEF Same
  <2>4. p.stack[k+n].op \in Fields /\ p.item[p.stack[k+n].item] # None
    BY <2>2 DEF Same, Fits
  <2>5. p.item[p.stack[k+n].item][p.stack[k+n].op] = p.stack[k+n].new
    BY <1>3, <2>3, <2>4 DEF PageInv, FieldsFollow
  <2> QED  BY <1>3, <2>1, <2>2, <2>5 DEF Same, Fits
<1>6. CASE l # Len(q.stack)
  <2>1. l + n \in 1 .. Len(p.stack) /\ q.stack[l] = p.stack[l+n] /\ l + n <= p.index
    BY <1>1, <1>6, <1>a
  <2>2. k + n < l + n
    BY <1>1
  <2>3. NoneFrom(p, p.stack[l+n], k+n+1, l+n)
    BY <1>1, <1>4, <2>1 DEF NoneFrom
  <2> QED  BY <1>3, <2>1, <2>2, <2>3 DEF PageInv, Chained
<1> QED  BY <1>5, <1>6

LEMMA PushFieldsFollow ==
  ASSUME NEW p, PageInv(p), NEW c, Fits(p, c), NEW q, NEW n \in 0 .. p.index,
         Pushed(p, c, q, n)
  PROVE  FieldsFollow(q)
<1>a. \A k \in 1 .. Len(q.stack) :
        \/ k = Len(q.stack) /\ q.stack[k] = c /\ k + n = p.index + 1
        \/ /\ k < Len(q.stack) /\ k + n <= p.index /\ k + n \in 1 .. Len(p.stack)
           /\ q.stack[k] = p.stack[k+n]
  BY PushedFacts
<1>b. \A j \in 1 .. Len(p.stack) :
        n < j /\ j <= p.index =>
          j - n \in 1 .. Len(q.stack) /\ j - n < Len(q.stack) /\ q.stack[j - n] = p.stack[j]
  BY PushedBelow
<1> DEFINE r == Redo(p, c)
<1>1. /\ Len(q.stack) \in Nat /\ n \in Nat /\ p.index \in Nat /\ q.index = Len(q.stack)
      /\ Len(q.stack) \in 1 .. Len(q.stack) /\ q.stack[Len(q.stack)] = c
  BY PushedFacts
<1>2. Made(p, r, c, c.new)
  BY RedoIs DEF PageInv, Fits
<1>3. \A i \in Items : q.item[i] # None => q.item[i] = r.item[i]
  BY DEF Pushed
<1> HIDE DEF r
<1>o. q.index = Len(q.stack)
  BY <1>1
<1>p. \A k \in 1 .. Len(q.stack) : k <= q.index /\ ~ (k > q.index)
  BY <1>1
<1> SUFFICES ASSUME NEW k \in 1 .. Len(q.stack), k <= q.index,
                    q.stack[k].op \in Fields, q.item[q.stack[k].item] # None,
                    NoneFrom(q, q.stack[k], k+1, q.index+1)
             PROVE  q.item[q.stack[k].item][q.stack[k].op] = q.stack[k].new
  BY <1>p DEF FieldsFollow
<1> DEFINE i == q.stack[k].item
<1>4. i \in Items
  BY PushedFacts, CommandFacts
<1>5. q.item[i] = r.item[i] /\ p.item[i] # None
  BY <1>2, <1>3, <1>4 DEF Made
<1>6. r.item[i][q.stack[k].op] =
        IF c.op = q.stack[k].op /\ c.item = i THEN c.new ELSE p.item[i][q.stack[k].op]
  BY <1>2, <1>4, <1>5 DEF Made
<1>7. CASE k = Len(q.stack)
  BY <1>1, <1>5, <1>6, <1>7
<1>8. CASE k # Len(q.stack)
  <2>1. /\ k + n \in 1 .. Len(p.stack) /\ k + n <= p.index
        /\ q.stack[k] = p.stack[k+n] /\ k < Len(q.stack)
    BY <1>1, <1>8, <1>a
  <2>2. ~ Same(q.stack[k], c)
    <3>1. k + 1 <= Len(q.stack) /\ Len(q.stack) < q.index + 1
      BY <1>1, <2>1
    <3> QED  BY <1>1, <3>1 DEF NoneFrom
  <2>3. NoneFrom(p, p.stack[k+n], k+n+1, p.index+1)
    <3> SUFFICES ASSUME NEW j \in 1 .. Len(p.stack), k+n+1 <= j, j < p.index + 1
                 PROVE  ~ Same(p.stack[k+n], p.stack[j])
      BY DEF NoneFrom
    <3>1. n < j /\ j <= p.index /\ j \in 1 .. Len(p.stack)
      BY <1>1, <2>1
    <3>2. j - n \in 1 .. Len(q.stack) /\ q.stack[j - n] = p.stack[j]
      BY <3>1, <1>b
    <3>3. k + 1 <= j - n /\ j - n < Len(q.stack) + 1
      <4>1. j \in Int /\ n \in Int /\ k \in Int /\ Len(q.stack) \in Int
        BY <1>1, <3>1
      <4>2. j - n <= Len(q.stack)
        BY <1>1, <3>2
      <4> HIDE DEF i
      <4> QED  BY <4>1, <4>2
    <3> QED  BY <1>o, <2>1, <3>2, <3>3 DEF NoneFrom
  <2>4. p.item[i][q.stack[k].op] = q.stack[k].new
    BY <1>5, <2>1, <2>3 DEF PageInv, FieldsFollow
  <2> QED  BY <1>5, <1>6, <2>2, <2>4 DEF Same
<1> QED  BY <1>7, <1>8

LEMMA PushKeeps ==
  ASSUME NEW p, PageInv(p), NEW c, Fits(p, c), NEW q, NEW n \in 0 .. p.index,
         Pushed(p, c, q, n)
  PROVE  PageInv(q)
<1> DEFINE r == Redo(p, c)
<1>1. q \in Pages /\ q.index <= Len(q.stack)
  BY PushedFacts
<1>2. /\ Made(p, r, c, c.new) /\ c \in Commands
      /\ r.scene = CASE c.op = "add"    -> p.scene \cup {c.item}
                     [] c.op = "delete" -> p.scene \ {c.item}
                     [] OTHER           -> p.scene
  BY RedoIs DEF PageInv, Fits
<1>3. /\ \A i \in q.scene : q.item[i] = r.item[i]
      /\ \A i \in Items : q.item[i] = r.item[i] \/ q.item[i] = None
      /\ q.scene = r.scene
  BY DEF Pushed
<1> HIDE DEF r
<1>4. Alive(q)
  <2> SUFFICES ASSUME NEW i \in q.scene  PROVE r.item[i] # None
    BY <1>3 DEF Alive
  <2>1. i \in Items
    BY <1>1, PageFacts
  <2>2. p.item[i] # None
    BY <1>2, <1>3 DEF Fits, PageInv, Alive
  <2> QED  BY <1>2, <2>1, <2>2 DEF Made
<1>5. Bare(q)
  <2> SUFFICES ASSUME NEW k \in 1 .. Len(q.stack), q.item[q.stack[k].item] # None
               PROVE  q.item[q.stack[k].item].tag \in Tags
    BY DEF Bare
  <2> DEFINE i == q.stack[k].item
  <2>1. i \in Items
    BY PushedFacts, CommandFacts
  <2>2. q.item[i] = r.item[i] /\ p.item[i] # None
    BY <1>2, <1>3, <2>1 DEF Made
  <2>3. p.item[i].tag \in Tags
    <3>1. CASE k = Len(q.stack)
      BY <3>1, PushedFacts DEF Fits
    <3>2. CASE k # Len(q.stack)
      <4>1. k + n \in 1 .. Len(p.stack) /\ q.stack[k] = p.stack[k+n]
        BY <3>2, PushedFacts
      <4> QED  BY <2>2, <4>1 DEF PageInv, Bare
    <3> QED  BY <3>1, <3>2
  <2>4. p.item[i] \in Elem /\ q.item[i] \in Elem
    BY <1>1, <2>1, <2>2, PageFacts DEF PageInv
  <2>5. q.item[i]["tag"] = IF c.op = "tag" /\ c.item = i THEN c.new ELSE p.item[i]["tag"]
    BY <1>2, <2>1, <2>2 DEF Made, Fields
  <2>6. c.op = "tag" => c.new \in Tags
    BY <1>2, CommandFacts DEF Fields, Values
  <2>7. p.item[i].tag = p.item[i]["tag"] /\ q.item[i].tag = q.item[i]["tag"]
    BY <2>4, ElemFacts DEF Fields
  <2> QED  BY <2>3, <2>5, <2>6, <2>7
<1>6. AddsFirst(q) /\ SceneFollows(q) /\ Chained(q) /\ FieldsFollow(q)
  BY PushAddsFirst, PushSceneFollows, PushChained, PushFieldsFollow
<1> QED  BY <1>1, <1>4, <1>5, <1>6 DEF PageInv

-----------------------------------------------------------------------------
(* Undo and redo.                                                          *)

\* Undoing the last command that is done.
LEMMA UndoKeeps ==
  ASSUME NEW p, PageInv(p), p.index > 0,
         p.item[p.stack[p.index].item] # None
  PROVE  LET q == [Undo(p, p.stack[p.index]) EXCEPT !.index = @ - 1] IN
         PageInv(q) /\ (HasElems(p) => HasElems(q))
<1> DEFINE t == p.index
           c == p.stack[t]
           r == Undo(p, c)
           q == [r EXCEPT !.index = @ - 1]
<1>1. /\ t \in Nat /\ t \in 1 .. Len(p.stack) /\ p.index \in Nat /\ Len(p.stack) \in Nat
      /\ p \in Pages /\ c \in Commands /\ p.index <= Len(p.stack)
      /\ \A k \in 1 .. Len(p.stack) : p.stack[k] \in Commands
  BY PageFacts DEF PageInv
<1> HIDE DEF t
<1>2. /\ Made(p, r, c, c.old) /\ p.item[c.item] # None /\ c.item \in Items
      /\ r.scene = CASE c.op = "add"    -> p.scene \ {c.item}
                     [] c.op = "delete" -> p.scene \cup {c.item}
                     [] OTHER           -> p.scene
  BY <1>1, UndoIs, CommandFacts DEF t
<1> HIDE DEF c, r
<1>3. /\ q \in Pages /\ q.index = t - 1 /\ q.stack = p.stack /\ q.scene = r.scene
      /\ q.item = r.item /\ q.index <= Len(q.stack) /\ t = p.index
  <2>1. r \in Pages /\ r.index - 1 \in Nat /\ r.index = p.index /\ r.stack = p.stack
    BY <1>1, <1>2 DEF Made, t
  <2>2. /\ q \in Pages /\ q.index = r.index - 1 /\ q.stack = r.stack /\ q.scene = r.scene
        /\ q.item = r.item
    BY <2>1 DEF Pages
  <2> QED  BY <1>1, <2>1, <2>2 DEF t
<1> HIDE DEF q
<1>4. Alive(q)
  <2> SUFFICES ASSUME NEW i \in q.scene  PROVE q.item[i] # None
    BY DEF Alive
  <2>1. i \in Items
    BY <1>3, PageFacts
  <2>2. p.item[i] # None
    BY <1>2, <1>3 DEF PageInv, Alive
  <2> QED  BY <1>2, <1>3, <2>1, <2>2 DEF Made
<1>5. Bare(q)
  <2> SUFFICES ASSUME NEW k \in 1 .. Len(p.stack), q.item[p.stack[k].item] # None
               PROVE  q.item[p.stack[k].item].tag \in Tags
    BY <1>3 DEF Bare
  <2> DEFINE i == p.stack[k].item
  <2>1. i \in Items
    BY <1>1, CommandFacts
  <2>2. p.item[i] # None /\ q.item[i] = r.item[i]
    BY <1>2, <1>3, <2>1 DEF Made
  <2>3. p.item[i].tag \in Tags
    BY <2>2 DEF PageInv, Bare
  <2>4. p.item[i] \in Elem /\ q.item[i] \in Elem
    BY <1>3, <2>1, <2>2, PageFacts DEF PageInv
  <2>5. q.item[i]["tag"] = IF c.op = "tag" /\ c.item = i THEN c.old ELSE p.item[i]["tag"]
    BY <1>2, <2>1, <2>2 DEF Made, Fields
  <2>6. c.op = "tag" => c.old \in Tags
    BY <1>1, CommandFacts DEF Fields, Values
  <2>7. p.item[i].tag = p.item[i]["tag"] /\ q.item[i].tag = q.item[i]["tag"]
    BY <2>4, ElemFacts DEF Fields
  <2> QED  BY <2>3, <2>5, <2>6, <2>7
<1>6. AddsFirst(q) /\ Chained(q)
  BY <1>3 DEF PageInv, AddsFirst, Chained, NoneFrom
<1>7. SceneFollows(q)
  <2> SUFFICES ASSUME NEW k \in 1 .. Len(p.stack)
               PROVE  LET d == p.stack[k] IN
                 /\ d.op = "add" /\ k < t =>
                      \/ d.item \in r.scene
                      \/ \E l \in k+1 .. t-1 : p.stack[l].op = "delete" /\ p.stack[l].item = d.item
                 /\ d.op = "add" /\ t <= k => d.item \notin r.scene
                 /\ d.op = "delete" /\ k < t => d.item \notin r.scene
                 /\ d.op = "delete" /\ t <= k =>
                      \/ d.item \in r.scene
                      \/ \E l \in t .. k-1 : p.stack[l].op = "add" /\ p.stack[l].item = d.item
    BY <1>1, <1>3 DEF SceneFollows
  <2> DEFINE d == p.stack[k]
  <2>0. c = p.stack[t] /\ k \in Nat
    BY DEF c
  <2>1. k < t /\ d.item = c.item => c.op # "add" /\ (c.op = "delete" => d.op # "delete")
    BY <1>1, <2>0 DEF PageInv, AddsFirst
  <2>2. t < k /\ d.item = c.item => d.op # "add" /\ (d.op = "delete" => c.op # "delete")
    BY <1>1, <2>0 DEF PageInv, AddsFirst
  <2>3. ASSUME d.op = "add", k < t
        PROVE  \/ d.item \in r.scene
               \/ \E l \in k+1 .. t-1 : p.stack[l].op = "delete" /\ p.stack[l].item = d.item
    <3>1. CASE d.item \in p.scene
      BY <1>2, <2>1, <2>3, <3>1
    <3>2. CASE d.item \notin p.scene
      <4>0. k <= p.index
        BY <1>1, <1>3, <2>0, <2>3
      <4>1. PICK l \in k+1 .. t : p.stack[l].op = "delete" /\ p.stack[l].item = d.item
        BY <1>3, <2>3, <3>2, <4>0 DEF PageInv, SceneFollows
      <4>2. CASE l = t
        BY <1>2, <2>0, <4>1, <4>2
      <4>3. CASE l # t
        <5>1. l \in k+1 .. t-1
          BY <1>1, <2>0, <4>3
        <5> QED  BY <4>1, <5>1
      <4> QED  BY <4>2, <4>3
    <3> QED  BY <3>1, <3>2
  <2>4. ASSUME d.op = "add", t <= k
        PROVE  d.item \notin r.scene
    <3>1. CASE k = t
      BY <1>2, <2>0, <2>4, <3>1
    <3>2. CASE t < k
      <4>1. d.item \notin p.scene
        BY <1>3, <2>4, <3>2 DEF PageInv, SceneFollows
      <4> QED  BY <1>2, <2>2, <2>4, <3>2, <4>1
    <3> QED  BY <1>1, <2>0, <2>4, <3>1, <3>2
  <2>5. ASSUME d.op = "delete", k < t
        PROVE  d.item \notin r.scene
    <3>1. d.item \notin p.scene
      BY <1>1, <1>3, <2>0, <2>5 DEF PageInv, SceneFollows
    <3> QED  BY <1>2, <2>1, <2>5, <3>1
  <2>6. ASSUME d.op = "delete", t <= k
        PROVE  \/ d.item \in r.scene
               \/ \E l \in t .. k-1 : p.stack[l].op = "add" /\ p.stack[l].item = d.item
    <3>1. CASE k = t
      BY <1>2, <2>0, <2>6, <3>1
    <3>2. CASE t < k /\ c.op = "add" /\ c.item = d.item
      <4>1. t \in t .. k-1
        BY <1>1, <2>0, <3>2
      <4> QED  BY <2>0, <3>2, <4>1
    <3>3. CASE t < k /\ ~ (c.op = "add" /\ c.item = d.item)
      <4>1. CASE d.item \in p.scene
        BY <1>2, <2>2, <2>6, <3>3, <4>1
      <4>2. CASE d.item \notin p.scene
        <5>1. PICK l \in t+1 .. k-1 : p.stack[l].op = "add" /\ p.stack[l].item = d.item
          BY <1>3, <2>6, <3>3, <4>2 DEF PageInv, SceneFollows
        <5>2. l \in t .. k-1
          BY <1>1, <2>0
        <5> QED  BY <5>1, <5>2
      <4> QED  BY <4>1, <4>2
    <3> QED  BY <1>1, <2>0, <2>6, <3>1, <3>2, <3>3
  <2> QED  BY <2>3, <2>4, <2>5, <2>6
<1>8. FieldsFollow(q)
  <2> SUFFICES ASSUME NEW k \in 1 .. Len(p.stack),
                      p.stack[k].op \in Fields, r.item[p.stack[k].item] # None
               PROVE  LET d == p.stack[k] IN
                 /\ k < t /\ NoneFrom(p, d, k+1, t) => r.item[d.item][d.op] = d.new
                 /\ t <= k /\ NoneFrom(p, d, t, k) => r.item[d.item][d.op] = d.old
    BY <1>1, <1>3 DEF FieldsFollow, NoneFrom
  <2> DEFINE d == p.stack[k]
  <2>0. /\ c = p.stack[t] /\ k \in Nat /\ d.item \in Items
        /\ p.item[d.item] # None
        /\ r.item[d.item][d.op] =
             IF c.op = d.op /\ c.item = d.item THEN c.old ELSE p.item[d.item][d.op]
    <3>1. c = p.stack[t] /\ k \in Nat /\ d.item \in Items
      BY <1>1, CommandFacts DEF c
    <3> QED  BY <1>2, <3>1 DEF Made
  <2>1. ASSUME k < t, NoneFrom(p, d, k+1, t)
        PROVE  r.item[d.item][d.op] = d.new
    <3>1. CASE Same(d, c)
      <4>1. Same(c, d) /\ NoneFrom(p, c, k+1, t)
        BY <2>1, <3>1 DEF Same, NoneFrom
      <4>2. d.new = c.old
        BY <1>1, <2>0, <2>1, <4>1 DEF PageInv, Chained
      <4> QED  BY <2>0, <3>1, <4>2 DEF Same
    <3>2. CASE ~ Same(d, c)
      <4>1. NoneFrom(p, d, k+1, t+1) /\ k <= p.index
        BY <1>1, <1>3, <2>0, <2>1, <3>2 DEF NoneFrom
      <4>2. p.item[d.item][d.op] = d.new
        BY <1>3, <2>0, <4>1 DEF PageInv, FieldsFollow
      <4> QED  BY <2>0, <3>2, <4>2 DEF Same
    <3> QED  BY <3>1, <3>2
  <2>2. ASSUME t <= k, NoneFrom(p, d, t, k)
        PROVE  r.item[d.item][d.op] = d.old
    <3>1. CASE k = t
      BY <2>0, <3>1
    <3>2. CASE t < k
      <4>1. NoneFrom(p, d, t+1, k) /\ ~ Same(d, c)
        BY <1>1, <2>0, <2>2, <3>2 DEF NoneFrom
      <4>2. p.item[d.item][d.op] = d.old
        BY <1>3, <2>0, <3>2, <4>1 DEF PageInv, FieldsFollow
      <4> QED  BY <2>0, <4>1, <4>2 DEF Same
    <3> QED  BY <1>1, <2>0, <2>2, <3>1, <3>2
  <2> QED  BY <2>1, <2>2
<1>9. PageInv(q)
  BY <1>3, <1>4, <1>5, <1>6, <1>7, <1>8 DEF PageInv
<1>10. HasElems(p) => HasElems(q)
  BY <1>1, <1>2, <1>3, CommandFacts DEF HasElems, Made
<1> QED  BY <1>9, <1>10 DEF q, r, c, t

\* Redoing the first command that is undone.
LEMMA RedoKeeps ==
  ASSUME NEW p, PageInv(p), p.index < Len(p.stack),
         p.item[p.stack[p.index + 1].item] # None
  PROVE  LET q == [Redo(p, p.stack[p.index + 1]) EXCEPT !.index = @ + 1] IN
         PageInv(q) /\ (HasElems(p) => HasElems(q))
<1> DEFINE t == p.index + 1
           c == p.stack[t]
           r == Redo(p, c)
           q == [r EXCEPT !.index = @ + 1]
<1>1. /\ t \in Nat /\ t \in 1 .. Len(p.stack) /\ p.index \in Nat /\ Len(p.stack) \in Nat
      /\ p \in Pages /\ c \in Commands /\ p.index <= Len(p.stack)
      /\ \A k \in 1 .. Len(p.stack) : p.stack[k] \in Commands
  BY PageFacts DEF PageInv
<1> HIDE DEF t
<1>2. /\ Made(p, r, c, c.new) /\ p.item[c.item] # None /\ c.item \in Items
      /\ r.scene = CASE c.op = "add"    -> p.scene \cup {c.item}
                     [] c.op = "delete" -> p.scene \ {c.item}
                     [] OTHER           -> p.scene
  BY <1>1, RedoIs, CommandFacts DEF t
<1> HIDE DEF c, r
<1>3. /\ q \in Pages /\ q.index = t /\ q.stack = p.stack /\ q.scene = r.scene
      /\ q.item = r.item /\ q.index <= Len(q.stack) /\ t = p.index + 1
  <2>1. r \in Pages /\ r.index + 1 \in Nat /\ r.index = p.index /\ r.stack = p.stack
    BY <1>1, <1>2 DEF Made, t
  <2>2. /\ q \in Pages /\ q.index = r.index + 1 /\ q.stack = r.stack /\ q.scene = r.scene
        /\ q.item = r.item
    BY <2>1 DEF Pages
  <2> QED  BY <1>1, <2>1, <2>2 DEF t
<1> HIDE DEF q
<1>4. Alive(q)
  <2> SUFFICES ASSUME NEW i \in q.scene  PROVE q.item[i] # None
    BY DEF Alive
  <2>1. i \in Items
    BY <1>3, PageFacts
  <2>2. p.item[i] # None
    BY <1>2, <1>3 DEF PageInv, Alive
  <2> QED  BY <1>2, <1>3, <2>1, <2>2 DEF Made
<1>5. Bare(q)
  <2> SUFFICES ASSUME NEW k \in 1 .. Len(p.stack), q.item[p.stack[k].item] # None
               PROVE  q.item[p.stack[k].item].tag \in Tags
    BY <1>3 DEF Bare
  <2> DEFINE i == p.stack[k].item
  <2>1. i \in Items
    BY <1>1, CommandFacts
  <2>2. p.item[i] # None /\ q.item[i] = r.item[i]
    BY <1>2, <1>3, <2>1 DEF Made
  <2>3. p.item[i].tag \in Tags
    BY <2>2 DEF PageInv, Bare
  <2>4. p.item[i] \in Elem /\ q.item[i] \in Elem
    BY <1>3, <2>1, <2>2, PageFacts DEF PageInv
  <2>5. q.item[i]["tag"] = IF c.op = "tag" /\ c.item = i THEN c.new ELSE p.item[i]["tag"]
    BY <1>2, <2>1, <2>2 DEF Made, Fields
  <2>6. c.op = "tag" => c.new \in Tags
    BY <1>1, CommandFacts DEF Fields, Values
  <2>7. p.item[i].tag = p.item[i]["tag"] /\ q.item[i].tag = q.item[i]["tag"]
    BY <2>4, ElemFacts DEF Fields
  <2> QED  BY <2>3, <2>5, <2>6, <2>7
<1>6. AddsFirst(q) /\ Chained(q)
  BY <1>3 DEF PageInv, AddsFirst, Chained, NoneFrom
<1>7. SceneFollows(q)
  <2> SUFFICES ASSUME NEW k \in 1 .. Len(p.stack)
               PROVE  LET d == p.stack[k] IN
                 /\ d.op = "add" /\ k <= t =>
                      \/ d.item \in r.scene
                      \/ \E l \in k+1 .. t : p.stack[l].op = "delete" /\ p.stack[l].item = d.item
                 /\ d.op = "add" /\ t < k => d.item \notin r.scene
                 /\ d.op = "delete" /\ k <= t => d.item \notin r.scene
                 /\ d.op = "delete" /\ t < k =>
                      \/ d.item \in r.scene
                      \/ \E l \in t+1 .. k-1 : p.stack[l].op = "add" /\ p.stack[l].item = d.item
    BY <1>1, <1>3 DEF SceneFollows
  <2> DEFINE d == p.stack[k]
  <2>0. c = p.stack[t] /\ k \in Nat
    BY DEF c
  <2>1. k < t /\ d.item = c.item => c.op # "add" /\ (c.op = "delete" => d.op # "delete")
    BY <1>1, <2>0 DEF PageInv, AddsFirst
  <2>2. t < k /\ d.item = c.item => d.op # "add" /\ (d.op = "delete" => c.op # "delete")
    BY <1>1, <2>0 DEF PageInv, AddsFirst
  <2>3. ASSUME d.op = "add", k <= t
        PROVE  \/ d.item \in r.scene
               \/ \E l \in k+1 .. t : p.stack[l].op = "delete" /\ p.stack[l].item = d.item
    <3>1. CASE k = t
      BY <1>2, <2>0, <2>3, <3>1
    <3>2. CASE k < t /\ c.op = "delete" /\ c.item = d.item
      <4>1. t \in k+1 .. t
        BY <1>1, <2>0, <3>2
      <4> QED  BY <2>0, <3>2, <4>1
    <3>3. CASE k < t /\ ~ (c.op = "delete" /\ c.item = d.item)
      <4>1. CASE d.item \in p.scene
        BY <1>2, <3>3, <4>1
      <4>2. CASE d.item \notin p.scene
        <5>1. k <= p.index
          BY <1>1, <1>3, <2>0, <3>3
        <5>2. PICK l \in k+1 .. p.index : p.stack[l].op = "delete" /\ p.stack[l].item = d.item
          BY <2>3, <4>2, <5>1 DEF PageInv, SceneFollows
        <5>3. l \in k+1 .. t
          BY <1>1, <1>3, <2>0
        <5> QED  BY <5>2, <5>3
      <4> QED  BY <4>1, <4>2
    <3> QED  BY <1>1, <2>0, <2>3, <3>1, <3>2, <3>3
  <2>4. ASSUME d.op = "add", t < k
        PROVE  d.item \notin r.scene
    <3>1. d.item \notin p.scene
      <4>1. p.index < k
        BY <1>1, <1>3, <2>0, <2>4
      <4> QED  BY <2>4, <4>1 DEF PageInv, SceneFollows
    <3> QED  BY <1>2, <2>2, <2>4, <3>1
  <2>5. ASSUME d.op = "delete", k <= t
        PROVE  d.item \notin r.scene
    <3>1. CASE k = t
      BY <1>2, <2>0, <2>5, <3>1
    <3>2. CASE k < t
      <4>1. k <= p.index
        BY <1>1, <1>3, <2>0, <3>2
      <4>2. d.item \notin p.scene
        BY <2>5, <4>1 DEF PageInv, SceneFollows
      <4> QED  BY <1>2, <2>1, <2>5, <3>2, <4>2
    <3> QED  BY <1>1, <2>0, <2>5, <3>1, <3>2
  <2>6. ASSUME d.op = "delete", t < k
        PROVE  \/ d.item \in r.scene
               \/ \E l \in t+1 .. k-1 : p.stack[l].op = "add" /\ p.stack[l].item = d.item
    <3>1. CASE d.item \in p.scene
      BY <1>2, <2>2, <2>6, <3>1
    <3>2. CASE d.item \notin p.scene
      <4>1. p.index < k
        BY <1>1, <1>3, <2>0, <2>6
      <4>2. PICK l \in t .. k-1 : p.stack[l].op = "add" /\ p.stack[l].item = d.item
        BY <1>3, <2>6, <3>2, <4>1 DEF PageInv, SceneFollows
      <4>3. CASE l = t
        BY <1>2, <2>0, <4>2, <4>3
      <4>4. CASE l # t
        <5>1. l \in t+1 .. k-1
          BY <1>1, <2>0, <4>4
        <5> QED  BY <4>2, <5>1
      <4> QED  BY <4>3, <4>4
    <3> QED  BY <3>1, <3>2
  <2> QED  BY <2>3, <2>4, <2>5, <2>6
<1>8. FieldsFollow(q)
  <2> SUFFICES ASSUME NEW k \in 1 .. Len(p.stack),
                      p.stack[k].op \in Fields, r.item[p.stack[k].item] # None
               PROVE  LET d == p.stack[k] IN
                 /\ k <= t /\ NoneFrom(p, d, k+1, t+1) => r.item[d.item][d.op] = d.new
                 /\ t < k /\ NoneFrom(p, d, t+1, k) => r.item[d.item][d.op] = d.old
    BY <1>1, <1>3 DEF FieldsFollow, NoneFrom
  <2> DEFINE d == p.stack[k]
  <2>0. /\ c = p.stack[t] /\ k \in Nat /\ d.item \in Items
        /\ p.item[d.item] # None
        /\ r.item[d.item][d.op] =
             IF c.op = d.op /\ c.item = d.item THEN c.new ELSE p.item[d.item][d.op]
    <3>1. c = p.stack[t] /\ k \in Nat /\ d.item \in Items
      BY <1>1, CommandFacts DEF c
    <3> QED  BY <1>2, <3>1 DEF Made
  <2>1. ASSUME k <= t, NoneFrom(p, d, k+1, t+1)
        PROVE  r.item[d.item][d.op] = d.new
    <3>1. CASE k = t
      BY <2>0, <3>1
    <3>2. CASE k < t
      <4>1. NoneFrom(p, d, k+1, t) /\ ~ Same(d, c) /\ k <= p.index
        BY <1>1, <1>3, <2>0, <2>1, <3>2 DEF NoneFrom
      <4>2. p.item[d.item][d.op] = d.new
        BY <1>3, <2>0, <4>1 DEF PageInv, FieldsFollow
      <4> QED  BY <2>0, <4>1, <4>2 DEF Same
    <3> QED  BY <1>1, <2>0, <2>1, <3>1, <3>2
  <2>2. ASSUME t < k, NoneFrom(p, d, t+1, k)
        PROVE  r.item[d.item][d.op] = d.old
    <3>1. CASE Same(d, c)
      <4>1. c.new = d.old
        BY <1>1, <2>0, <2>2, <3>1 DEF PageInv, Chained
      <4> QED  BY <2>0, <3>1, <4>1 DEF Same
    <3>2. CASE ~ Same(d, c)
      <4>1. NoneFrom(p, d, t, k) /\ p.index < k
        BY <1>1, <1>3, <2>0, <2>2, <3>2 DEF NoneFrom
      <4>2. p.item[d.item][d.op] = d.old
        BY <1>3, <2>0, <4>1 DEF PageInv, FieldsFollow
      <4> QED  BY <2>0, <3>2, <4>2 DEF Same
    <3> QED  BY <3>1, <3>2
  <2> QED  BY <2>1, <2>2
<1>9. PageInv(q)
  BY <1>3, <1>4, <1>5, <1>6, <1>7, <1>8 DEF PageInv
<1>10. HasElems(p) => HasElems(q)
  BY <1>1, <1>2, <1>3, CommandFacts DEF HasElems, Made
<1> QED  BY <1>9, <1>10 DEF q, r, c, t

-----------------------------------------------------------------------------
(* What a push leaves of the elements, and other changes of a page.        *)

\* As long as nothing is lost at the bottom, every command in the stack keeps
\* its element.
LEMMA PushHas ==
  ASSUME NEW p, PageInv(p), NEW c, Fits(p, c), NEW q, NEW n \in 0 .. p.index,
         Pushed(p, c, q, n), HasElems(p), p.limit = 0 \/ p.index + 1 <= p.limit
  PROVE  HasElems(q)
<1> DEFINE r == Redo(p, c)
<1> SUFFICES ASSUME NEW k \in 1 .. Len(q.stack)
             PROVE  q.item[q.stack[k].item] # None
  BY DEF HasElems
<1> DEFINE d == q.stack[k]
<1>1. n = 0 /\ k \in Nat /\ p.index \in Nat /\ Len(p.stack) \in Nat
  BY PushedFacts DEF Pushed
<1>2. /\ Made(p, r, c, c.new) /\ c \in Commands
      /\ r.scene = CASE c.op = "add"    -> p.scene \cup {c.item}
                     [] c.op = "delete" -> p.scene \ {c.item}
                     [] OTHER           -> p.scene
  BY RedoIs DEF PageInv, Fits
<1>3. d.item \in Items
  BY PushedFacts, CommandFacts
<1>4. /\ \A i \in q.scene : q.item[i] = r.item[i]
      /\ q.scene = r.scene
      /\ \A i \in Items : q.item[i] # r.item[i] =>
           \E j \in 1 .. Len(p.stack) :
             p.stack[j] = [op |-> "add", item |-> i] /\ (n = 0 => j >= p.index + 1)
  BY DEF Pushed
<1> HIDE DEF r
<1>5. \/ d = c
      \/ k <= p.index /\ k \in 1 .. Len(p.stack) /\ d = p.stack[k]
  <2>1. \/ d = c
        \/ k + n <= p.index /\ k + n \in 1 .. Len(p.stack) /\ d = p.stack[k+n]
    BY PushedFacts
  <2> HIDE DEF d
  <2>2. k + n = k
    BY <1>1
  <2> QED  BY <2>1, <2>2
<1>6. p.item[d.item] # None
  BY <1>5 DEF Fits, HasElems
<1>7. r.item[d.item] # None
  BY <1>2, <1>3, <1>6 DEF Made
<1>8. ASSUME q.item[d.item] # r.item[d.item]
      PROVE  FALSE
  <2>1. PICK j \in 1 .. Len(p.stack) :
          p.stack[j] = [op |-> "add", item |-> d.item] /\ j >= p.index + 1
    BY <1>1, <1>3, <1>4, <1>8
  <2>2. p.stack[j].op = "add" /\ p.stack[j].item = d.item /\ p.index < j
    BY <1>1, <2>1
  <2>3. CASE d = c
    <3>1. d.item \notin r.scene
      BY <1>4, <1>8
    <3>2. c.op = "delete" \/ c.op \in Fields
      BY <1>2, <2>3, <3>1, CommandFacts
    <3>3. d.item \in p.scene
      BY <2>3, <3>2 DEF Fits
    <3> QED  BY <2>2, <3>3 DEF PageInv, SceneFollows
  <2>4. CASE k <= p.index /\ k \in 1 .. Len(p.stack) /\ d = p.stack[k]
    <3>1. k < j
      BY <1>1, <2>2, <2>4
    <3> QED  BY <2>2, <2>4, <3>1 DEF PageInv, AddsFirst
  <2> QED  BY <1>5, <2>3, <2>4
<1> QED  BY <1>7, <1>8

\* As long as the scene has every element that has commands, nothing is
\* destroyed.
LEMMA PushAllShown ==
  ASSUME NEW p, PageInv(p), NEW c, Fits(p, c), NEW q, NEW n \in 0 .. p.index,
         Pushed(p, c, q, n), c.op # "delete",
         \A k \in 1 .. Len(p.stack) : p.stack[k].item \in p.scene
  PROVE  /\ \A i \in Items : q.item[i] = Redo(p, c).item[i]
         /\ \A k \in 1 .. Len(q.stack) : q.stack[k].item \in q.scene
         /\ q.scene = p.scene \cup {c.item}
<1> DEFINE r == Redo(p, c)
<1>1. /\ c \in Commands
      /\ r.scene = CASE c.op = "add"    -> p.scene \cup {c.item}
                     [] c.op = "delete" -> p.scene \ {c.item}
                     [] OTHER           -> p.scene
  BY RedoIs DEF PageInv, Fits
<1>2. q.scene = p.scene \cup {c.item}
  <2>1. q.scene = r.scene
    BY DEF Pushed
  <2>2. c.op # "add" => c.item \in p.scene
    BY <1>1, CommandFacts DEF Fits
  <2> HIDE DEF r
  <2> QED  BY <1>1, <2>1, <2>2
<1>3. \A i \in Items : q.item[i] = r.item[i]
  <2> SUFFICES ASSUME NEW i \in Items, q.item[i] # r.item[i]  PROVE FALSE
    OBVIOUS
  <2>1. i \notin q.scene
    BY DEF Pushed
  <2>2. PICK k \in 1 .. Len(p.stack) : p.stack[k] = [op |-> "add", item |-> i]
    BY DEF Pushed
  <2>3. i \in p.scene
    BY <2>2
  <2> QED  BY <1>2, <2>1, <2>3
<1>4. ASSUME NEW k \in 1 .. Len(q.stack)
      PROVE  q.stack[k].item \in q.scene
  <2>1. q.stack[k] = c \/ \E j \in 1 .. Len(p.stack) : q.stack[k] = p.stack[j]
    BY PushedFacts
  <2> QED  BY <1>2, <2>1
<1> QED  BY <1>2, <1>3, <1>4

\* Commands leave upright what they do not turn.
LEMMA MadeUpright ==
  ASSUME NEW p \in Pages, Upright(p), NEW c \in Commands, NEW v, NEW q,
         Made(p, q, c, v)
  PROVE  Upright(q)
<1> SUFFICES ASSUME NEW i \in Items, q.item[i] # None, i \notin q.turned
             PROVE  q.rot[i] = q.item[i]["angle"]
  BY DEF Upright
<1>1. c.op # "angle" \/ c.item # i
  BY DEF Made
<1>2. p.item[i] # None /\ q.item[i]["angle"] = p.item[i]["angle"]
  BY <1>1 DEF Made, Fields
<1>3. q.rot[i] = p.rot[i] /\ i \notin p.turned
  BY <1>1 DEF Made
<1> QED  BY <1>2, <1>3 DEF Upright

LEMMA PushUpright ==
  ASSUME NEW p, PageInv(p), Upright(p), NEW c, Fits(p, c), NEW q,
         NEW n \in 0 .. p.index, Pushed(p, c, q, n)
  PROVE  Upright(q)
<1> DEFINE r == Redo(p, c)
<1>1. p \in Pages /\ c \in Commands /\ p.item[c.item] # None
  BY DEF PageInv, Fits
<1>2. Made(p, r, c, c.new)
  BY <1>1, RedoIs
<1> HIDE DEF r
<1>3. Upright(r)
  BY <1>1, <1>2, MadeUpright
<1>4. /\ q.rot = r.rot /\ q.turned = r.turned
      /\ \A i \in Items : q.item[i] = r.item[i] \/ q.item[i] = None
  BY DEF Pushed, r
<1> QED  BY <1>3, <1>4 DEF Upright

\* The invariant of a page is not about its limit and its turns.
LEMMA AlikeKeeps ==
  ASSUME NEW p, PageInv(p), NEW q \in Pages, q.item = p.item, q.scene = p.scene,
         q.stack = p.stack, q.index = p.index
  PROVE  PageInv(q) /\ (HasElems(p) => HasElems(q)) /\ RowsOf(q) = RowsOf(p)
<1>1. Alive(q) /\ Bare(q) /\ AddsFirst(q)
  BY DEF PageInv, Alive, Bare, AddsFirst
<1>2. SceneFollows(q)
  BY DEF PageInv, SceneFollows
<1>3. Chained(q)
  BY DEF PageInv, Chained, NoneFrom
<1>4. FieldsFollow(q)
  BY DEF PageInv, FieldsFollow, NoneFrom
<1>5. HasElems(p) => HasElems(q)
  BY DEF HasElems
<1>6. RowsOf(q) = RowsOf(p)
  BY DEF RowsOf
<1> QED  BY <1>1, <1>2, <1>3, <1>4, <1>5, <1>6 DEF PageInv

\* An element without commands comes and goes as it likes: it becomes v, and
\* the scene s.
Lone(p, i, v, s) == [p EXCEPT !.item = [p.item EXCEPT ![i] = v], !.scene = s]

LEMMA LoneKeeps ==
  ASSUME NEW p, PageInv(p), NEW i \in Items, NEW v \in Elem \cup {None},
         \A k \in 1 .. Len(p.stack) : p.stack[k].item # i,
         NEW s \in SUBSET Items, \A j \in Items : j # i => (j \in s <=> j \in p.scene),
         i \in s => v # None
  PROVE  LET q == Lone(p, i, v, s) IN
         /\ PageInv(q) /\ q.scene = s /\ q.stack = p.stack /\ q.index = p.index
         /\ q.limit = p.limit /\ q.rot = p.rot /\ q.turned = p.turned
         /\ \A j \in Items : q.item[j] = IF j = i THEN v ELSE p.item[j]
         /\ HasElems(p) => HasElems(q)
<1> DEFINE it == [p.item EXCEPT ![i] = v]
           q == Lone(p, i, v, s)
<1>1. p \in Pages /\ p.index <= Len(p.stack)
  BY DEF PageInv
<1>2. /\ it \in [Items -> Elem \cup {None}]
      /\ \A j \in Items : it[j] = IF j = i THEN v ELSE p.item[j]
  BY <1>1, PageFacts
<1> HIDE DEF it
<1>3. /\ q \in Pages /\ q.item = it /\ q.scene = s /\ q.stack = p.stack
      /\ q.index = p.index /\ q.limit = p.limit /\ q.rot = p.rot
      /\ q.turned = p.turned
  BY <1>1, <1>2 DEF Pages, it, Lone
<1> HIDE DEF q
<1>4. \A j \in Items : q.item[j] = IF j = i THEN v ELSE p.item[j]
  BY <1>2, <1>3
<1>5. \A k \in 1 .. Len(p.stack) :
        LET j == p.stack[k].item
        IN j \in Items /\ j # i /\ q.item[j] = p.item[j] /\ (j \in s <=> j \in p.scene)
  BY <1>1, <1>4, PageFacts, CommandFacts
<1>6. Alive(q)
  BY <1>1, <1>3, <1>4 DEF PageInv, Alive
<1>7. Bare(q)
  BY <1>3, <1>5 DEF PageInv, Bare
<1>8. AddsFirst(q) /\ Chained(q)
  BY <1>3 DEF PageInv, AddsFirst, Chained, NoneFrom
<1>9. SceneFollows(q)
  BY <1>3, <1>5 DEF PageInv, SceneFollows
<1>10. FieldsFollow(q)
  BY <1>3, <1>5 DEF PageInv, FieldsFollow, NoneFrom
<1>11. HasElems(p) => HasElems(q)
  BY <1>3, <1>5 DEF HasElems
<1> QED  BY <1>1, <1>3, <1>4, <1>6, <1>7, <1>8, <1>9, <1>10, <1>11 DEF PageInv, q

LEMMA EmptyKeeps ==
  ASSUME NEW limit \in Limits
  PROVE  /\ PageInv(EmptyPage(limit)) /\ HasElems(EmptyPage(limit))
         /\ Upright(EmptyPage(limit))
         /\ EmptyPage(limit).scene = {} /\ EmptyPage(limit).limit = limit
         /\ EmptyPage(limit).stack = << >>
         /\ EmptyPage(limit).item = [i \in Items |-> None]
<1> DEFINE p == EmptyPage(limit)
<1>1. /\ p.item = [i \in Items |-> None] /\ p.scene = {} /\ p.stack = << >>
      /\ p.index = 0 /\ p.limit = limit /\ p \in Pages
  BY Turns, EditorAssumption DEF EmptyPage, Pages
<1>2. Len(p.stack) = 0 /\ 1 .. Len(p.stack) = {}
  BY <1>1
<1> HIDE DEF p
<1>3. PageInv(p) /\ HasElems(p)
  BY <1>1, <1>2 DEF PageInv, Alive, Bare, AddsFirst, SceneFollows, Chained,
                    FieldsFollow, HasElems
<1>4. Upright(p)
  BY <1>1 DEF Upright
<1> QED  BY <1>1, <1>3, <1>4 DEF p

LEMMA LimitKeeps ==
  ASSUME NEW p, PageInv(p), NEW limit \in Limits
  PROVE  LET q == [p EXCEPT !.limit = limit] IN
         /\ PageInv(q) /\ (HasElems(p) => HasElems(q)) /\ RowsOf(q) = RowsOf(p)
         /\ Upright(p) => Upright(q)
<1> DEFINE q == [p EXCEPT !.limit = limit]
<1>1. /\ q \in Pages /\ q.item = p.item /\ q.scene = p.scene /\ q.stack = p.stack
      /\ q.index = p.index /\ q.rot = p.rot /\ q.turned = p.turned
  BY DEF PageInv, Pages
<1> HIDE DEF q
<1>2. Upright(p) => Upright(q)
  BY <1>1 DEF Upright
<1> QED  BY <1>1, <1>2, AlikeKeeps DEF q

LEMMA AddPictureIs ==
  ASSUME NEW p, PageInv(p), Upright(p), NEW i \in Items, p.item[i] = None,
         \A k \in 1 .. Len(p.stack) : p.stack[k].item # i,
         NEW e \in Elem, e.tag = Picture, NEW left
  PROVE  LET q == AddElem(p, i, e, left) IN
         /\ PageInv(q) /\ Upright(q) /\ q.limit = p.limit /\ q.scene = p.scene \cup {i}
         /\ q.stack = p.stack
         /\ \A j \in Items : q.item[j] = IF j = i THEN e ELSE p.item[j]
         /\ HasElems(p) => HasElems(q)
<1> DEFINE s == p.scene \cup {i}
           rot == [p.rot EXCEPT ![i] = e.angle]
           turned == p.turned \ {i}
           l == Lone(p, i, e, s)
           q == [l EXCEPT !.rot = rot, !.turned = turned]
<1>1. q = AddElem(p, i, e, left)
  BY DEF AddElem, Lone, PageInv, Pages
<1>2. /\ s \in SUBSET Items /\ \A j \in Items : j # i => (j \in s <=> j \in p.scene)
      /\ e # None /\ e \in Elem \cup {None}
  BY PageFacts, EditorAssumption DEF PageInv
<1>3. /\ rot \in [Items -> Degrees] /\ turned \in SUBSET Items
      /\ \A j \in Items : rot[j] = IF j = i THEN e["angle"] ELSE p.rot[j]
  <2>1. e.angle \in Degrees /\ e["angle"] = e.angle
    BY EditorAssumption DEF Elem
  <2> QED  BY <2>1 DEF PageInv, Pages
<1> HIDE DEF s, rot
<1>6. /\ PageInv(l) /\ l.scene = s /\ l.stack = p.stack /\ l.limit = p.limit
      /\ \A j \in Items : l.item[j] = IF j = i THEN e ELSE p.item[j]
      /\ HasElems(p) => HasElems(l)
  BY <1>2, LoneKeeps
<1> HIDE DEF l
<1>7. /\ q \in Pages /\ q.item = l.item /\ q.scene = l.scene /\ q.stack = l.stack
      /\ q.index = l.index /\ q.limit = l.limit /\ q.rot = rot /\ q.turned = turned
  BY <1>3, <1>6 DEF PageInv, Pages
<1> HIDE DEF q
<1>4. /\ PageInv(q) /\ q.scene = s /\ q.stack = p.stack /\ q.limit = p.limit
      /\ q.rot = rot /\ q.turned = turned
      /\ \A j \in Items : q.item[j] = IF j = i THEN e ELSE p.item[j]
      /\ HasElems(p) => HasElems(q)
  BY <1>6, <1>7, AlikeKeeps
<1>5. Upright(q)
  BY <1>3, <1>4 DEF Upright
<1> QED  BY <1>1, <1>4, <1>5 DEF s, q, l

LEMMA DelPictureIs ==
  ASSUME NEW p, PageInv(p), Upright(p), NEW i \in Items,
         \A k \in 1 .. Len(p.stack) : p.stack[k].item # i
  PROVE  LET q == Lone(p, i, None, p.scene \ {i}) IN
         PageInv(q) /\ Upright(q) /\ (HasElems(p) => HasElems(q))
<1> DEFINE s == p.scene \ {i}
           q == Lone(p, i, None, s)
<1>1. /\ s \in SUBSET Items /\ \A j \in Items : j # i => (j \in s <=> j \in p.scene)
      /\ None \in Elem \cup {None} /\ i \notin s
  BY PageFacts DEF PageInv
<1> HIDE DEF s
<1>2. /\ PageInv(q) /\ q.rot = p.rot /\ q.turned = p.turned
      /\ \A j \in Items : q.item[j] = IF j = i THEN None ELSE p.item[j]
      /\ HasElems(p) => HasElems(q)
  BY <1>1, LoneKeeps
<1> HIDE DEF q
<1>3. Upright(q)
  BY <1>2 DEF Upright
<1> QED  BY <1>2, <1>3 DEF q, s

LEMMA AddTextIs ==
  ASSUME NEW p, PageInv(p), Upright(p), NEW i \in Items, p.item[i] = None,
         \A k \in 1 .. Len(p.stack) : p.stack[k].item # i,
         NEW e \in Elem, e.tag # Picture, NEW left \in Angles
  PROVE  LET q == AddElem(p, i, e, left) IN
         /\ PageInv(q) /\ Upright(q) /\ q.limit = p.limit /\ q.scene = p.scene \cup {i}
         /\ HasElems(p) /\ (p.limit = 0 \/ p.index + 2 <= p.limit) => HasElems(q)
         /\ (\A k \in 1 .. Len(p.stack) : p.stack[k].item \in p.scene) =>
              /\ \A k \in 1 .. Len(q.stack) : q.stack[k].item \in q.scene
              /\ \A j \in Items : q.item[j] = IF j = i THEN e ELSE p.item[j]
<1> DEFINE u == [e EXCEPT !.angle = left]
           rot == [p.rot EXCEPT ![i] = 0]
           l == Lone(p, i, u, p.scene)
           p0 == [l EXCEPT !.rot = rot]
           c1 == [op |-> "add", item |-> i]
           p1 == Push(p0, c1)
           c2 == Set(i, "angle", left, e.angle)
           q == Push(p1, c2)
           upright == q.turned \ {i}
           done == [q EXCEPT !.turned = upright]
<1>0. p \in Pages /\ p.scene \in SUBSET Items /\ p.index \in Nat /\ p.limit \in Nat
  BY PageFacts DEF PageInv
<1>1. done = AddElem(p, i, e, left)
  <2>1. p0 = [p EXCEPT !.item[i] = u, !.rot[i] = 0]
    BY <1>0 DEF Pages, Lone
  <2> QED  BY <2>1 DEF AddElem
<1>2. /\ u \in Elem /\ u.tag \in Tags /\ u["angle"] = left /\ u # None
      /\ \A f \in Fields : f # "angle" => u[f] = e[f]
      /\ e.angle \in Angles /\ e["angle"] = e.angle
  <2>1. u = [e EXCEPT !["angle"] = left]
    OBVIOUS
  <2>2. "angle" \in Fields /\ "tag" \in Fields /\ Values("angle") = Angles
    BY DEF Fields, Values
  <2>3. u \in Elem /\ \A f \in Fields : u[f] = IF f = "angle" THEN left ELSE e[f]
    BY <2>1, <2>2, ElemSet, ElemFacts
  <2>4. e.angle \in Angles /\ e["angle"] = e.angle /\ e.tag \in Tags /\ e["tag"] = e.tag
    BY ElemFacts DEF Elem
  <2> HIDE DEF u
  <2>5. u.tag = u["tag"]
    BY <2>2, <2>3, ElemFacts
  <2> QED  BY <2>2, <2>3, <2>4, <2>5, EditorAssumption
<1> HIDE DEF u
<1>3. i \notin p.scene
  BY DEF PageInv, Alive
<1>19. /\ rot \in [Items -> Degrees] /\ p.turned \in SUBSET Items
       /\ \A j \in Items : rot[j] = IF j = i THEN 0 ELSE p.rot[j]
  BY <1>0, Turns DEF Pages
<1> HIDE DEF rot
<1>25. /\ PageInv(l) /\ l.scene = p.scene /\ l.stack = p.stack /\ l.limit = p.limit
       /\ l.index = p.index /\ l.turned = p.turned
       /\ \A j \in Items : l.item[j] = IF j = i THEN u ELSE p.item[j]
       /\ HasElems(p) => HasElems(l)
  BY <1>0, <1>2, <1>3, LoneKeeps
<1> HIDE DEF l
<1>26. /\ p0 \in Pages /\ p0.item = l.item /\ p0.scene = l.scene /\ p0.stack = l.stack
       /\ p0.index = l.index /\ p0.limit = l.limit /\ p0.rot = rot
       /\ p0.turned = l.turned
  BY <1>19, <1>25 DEF PageInv, Pages
<1> HIDE DEF p0
<1>4. /\ PageInv(p0) /\ p0.scene = p.scene /\ p0.stack = p.stack /\ p0.limit = p.limit
      /\ p0.index = p.index /\ p0.rot = rot /\ p0.turned = p.turned
      /\ \A j \in Items : p0.item[j] = IF j = i THEN u ELSE p.item[j]
      /\ HasElems(p) => HasElems(p0)
  BY <1>25, <1>26, AlikeKeeps
<1>5. c1 \in Commands /\ c1.op = "add" /\ c1.item = i
  BY DEF Commands
<1> HIDE DEF c1
<1>6. Fits(p0, c1)
  BY <1>2, <1>4, <1>5 DEF Fits, Fields
<1>7. PICK n1 \in 0 .. p0.index : Pushed(p0, c1, p1, n1)
  BY <1>4, <1>6, PushIs DEF PageInv, Fits
<1>8. /\ Made(p0, Redo(p0, c1), c1, c1.new)
      /\ Redo(p0, c1).scene = p.scene \cup {i}
  <2>1. p0 \in Pages /\ c1 \in Commands /\ p0.item[c1.item] # None
    BY <1>4, <1>6 DEF PageInv, Fits
  <2>2. /\ Made(p0, Redo(p0, c1), c1, c1.new)
        /\ Redo(p0, c1).scene = CASE c1.op = "add"    -> p0.scene \cup {c1.item}
                                  [] c1.op = "delete" -> p0.scene \ {c1.item}
                                  [] OTHER            -> p0.scene
    BY <2>1, RedoIs
  <2> QED  BY <1>4, <1>5, <2>2
<1> HIDE DEF p1
<1>9. /\ PageInv(p1) /\ p1.limit = p.limit /\ p1.scene = p.scene \cup {i}
      /\ p1.item[i] = Redo(p0, c1).item[i]
  <2>1. PageInv(p1)
    BY <1>4, <1>6, <1>7, PushKeeps
  <2>2. /\ p1.limit = p0.limit /\ p1.scene = Redo(p0, c1).scene
        /\ \A j \in p1.scene : p1.item[j] = Redo(p0, c1).item[j]
    BY <1>7 DEF Pushed
  <2> QED  BY <1>4, <1>8, <2>1, <2>2
<1>10. /\ p1.item[i] \in Elem /\ p1.item[i] # None
       /\ \A f \in Fields : p1.item[i][f] = u[f]
  <2>1. \A f \in Fields : p1.item[i][f] = u[f]
    BY <1>2, <1>4, <1>5, <1>8, <1>9 DEF Made, Fields
  <2>2. p1.item[i] # None
    BY <1>9 DEF PageInv, Alive
  <2>3. p1.item[i] \in Elem
    BY <1>9, <2>2, PageFacts DEF PageInv
  <2> QED  BY <2>1, <2>2, <2>3
<1>11. p1.item[i].tag \in Tags
  BY <1>2, <1>10, ElemFacts DEF Fields
<1>12. /\ c2 \in Commands /\ c2.op = "angle" /\ c2.item = i /\ c2.old = left
       /\ c2.new = e.angle /\ c2.op \in Fields
  BY <1>2 DEF Set, Commands, Changes, Values, Fields
<1> HIDE DEF c2
<1>13. Fits(p1, c2)
  BY <1>2, <1>9, <1>10, <1>11, <1>12 DEF Fits
<1>14. PICK n2 \in 0 .. p1.index : Pushed(p1, c2, q, n2)
  BY <1>9, <1>13, PushIs DEF PageInv, Fits
<1>15. /\ Made(p1, Redo(p1, c2), c2, c2.new)
       /\ Redo(p1, c2).scene = p1.scene
  <2>1. p1 \in Pages /\ c2 \in Commands /\ p1.item[c2.item] # None
    BY <1>9, <1>13 DEF PageInv, Fits
  <2>2. /\ Made(p1, Redo(p1, c2), c2, c2.new)
        /\ Redo(p1, c2).scene = CASE c2.op = "add"    -> p1.scene \cup {c2.item}
                                  [] c2.op = "delete" -> p1.scene \ {c2.item}
                                  [] OTHER            -> p1.scene
    BY <2>1, RedoIs
  <2> QED  BY <1>12, <2>2
<1> HIDE DEF q
<1>16. PageInv(q) /\ q.limit = p.limit /\ q.scene = p.scene \cup {i}
  <2>1. PageInv(q)
    BY <1>9, <1>13, <1>14, PushKeeps
  <2>2. q.limit = p1.limit /\ q.scene = Redo(p1, c2).scene
    BY <1>14 DEF Pushed
  <2> QED  BY <1>9, <1>15, <2>1, <2>2
<1>17. ASSUME HasElems(p), p.limit = 0 \/ p.index + 2 <= p.limit
       PROVE  HasElems(q)
  <2>1. p0.limit = 0 \/ p0.index + 1 <= p0.limit
    BY <1>0, <1>4, <1>17
  <2>2. HasElems(p1)
    BY <1>4, <1>6, <1>7, <1>17, <2>1, PushHas
  <2>3. p1.index <= p.index + 1
    BY <1>0, <1>4, <1>7 DEF Pushed
  <2>4. p1.index \in Nat
    BY <1>9, PageFacts DEF PageInv
  <2>5. p1.limit = 0 \/ p1.index + 1 <= p1.limit
    BY <1>0, <1>9, <1>17, <2>3, <2>4
  <2> QED  BY <1>9, <1>13, <1>14, <2>2, <2>5, PushHas
<1>18. ASSUME \A k \in 1 .. Len(p.stack) : p.stack[k].item \in p.scene
       PROVE  /\ \A k \in 1 .. Len(q.stack) : q.stack[k].item \in q.scene
              /\ \A j \in Items : q.item[j] = IF j = i THEN e ELSE p.item[j]
  <2>1. /\ \A j \in Items : p1.item[j] = Redo(p0, c1).item[j]
        /\ \A k \in 1 .. Len(p1.stack) : p1.stack[k].item \in p1.scene
    <3>1. c1.op # "delete" /\ \A k \in 1 .. Len(p0.stack) : p0.stack[k].item \in p0.scene
      BY <1>4, <1>5, <1>18
    <3> QED  BY <1>4, <1>6, <1>7, <3>1, PushAllShown
  <2>2. /\ \A j \in Items : q.item[j] = Redo(p1, c2).item[j]
        /\ \A k \in 1 .. Len(q.stack) : q.stack[k].item \in q.scene
    <3>1. c2.op # "delete"
      BY <1>12
    <3> QED  BY <1>9, <1>13, <1>14, <2>1, <3>1, PushAllShown
  <2>3. \A j \in Items : Redo(p0, c1).item[j] = p0.item[j]
    BY <1>4, <1>5 DEF Redo, PageInv, Pages
  <2>4. ASSUME NEW j \in Items
        PROVE  q.item[j] = IF j = i THEN e ELSE p.item[j]
    <3>1. CASE j # i
      <4>1. Redo(p1, c2).item[j] = p1.item[j]
        BY <1>12, <3>1, <1>9, PageFacts DEF Redo, SetField, PageInv, Fields, Pages
      <4> QED  BY <1>4, <2>1, <2>2, <2>3, <3>1, <4>1
    <3>2. CASE j = i
      <4>1. q.item[i] \in Elem
        <5>1. q.item[i] # None
          BY <1>16 DEF PageInv, Alive
        <5> QED  BY <1>16, <5>1, PageFacts DEF PageInv
      <4>2. \A f \in Fields : q.item[i][f] = e[f]
        BY <1>2, <1>10, <1>12, <1>15, <2>2 DEF Made
      <4>3. q.item[i] = e
        <5>1. "tag" \in Fields
          BY DEF Fields
        <5>2. /\ q.item[i] = [f \in Fields |-> q.item[i][f]]
              /\ e = [f \in Fields |-> e[f]]
          BY <4>1, <5>1, ElemFacts
        <5> QED  BY <4>2, <5>2
      <4> QED  BY <3>2, <4>3
    <3> QED  BY <3>1, <3>2
  <2> QED  BY <2>2, <2>4
<1>20. /\ done \in Pages /\ done.item = q.item /\ done.scene = q.scene
       /\ done.stack = q.stack /\ done.index = q.index /\ done.limit = q.limit
       /\ done.rot = q.rot /\ done.turned = upright
  BY <1>16 DEF PageInv, Pages
<1> HIDE DEF done
<1>21. PageInv(done) /\ (HasElems(q) => HasElems(done))
  BY <1>16, <1>20, AlikeKeeps
<1>22. ASSUME NEW j \in Items, j # i, q.item[j] # None, j \notin upright
       PROVE  q.rot[j] = q.item[j]["angle"]
  <2>1. /\ p1.rot[j] = p.rot[j] /\ (j \in p1.turned <=> j \in p.turned)
        /\ p1.item[j] # None =>
             p.item[j] # None /\ p1.item[j]["angle"] = p.item[j]["angle"]
    BY <1>4, <1>5, <1>7, <1>8, <1>19, <1>22 DEF Pushed, Made, Fields
  <2>2. /\ q.rot[j] = p1.rot[j] /\ (j \in q.turned <=> j \in p1.turned)
        /\ p1.item[j] # None /\ q.item[j]["angle"] = p1.item[j]["angle"]
    BY <1>12, <1>14, <1>15, <1>22 DEF Pushed, Made, Fields
  <2> QED  BY <1>22, <2>1, <2>2 DEF Upright
<1>23. ASSUME q.item[i] # None
       PROVE  q.rot[i] = q.item[i]["angle"]
  <2>1. p1.rot[i] = 0
    BY <1>4, <1>5, <1>7, <1>8, <1>19 DEF Pushed, Made
  <2>2. q.rot[i] = Rotated(0, e.angle)
    BY <1>12, <1>14, <1>15, <2>1 DEF Pushed, Made
  <2>3. q.item[i]["angle"] = e.angle
    BY <1>10, <1>12, <1>14, <1>15, <1>23 DEF Pushed, Made
  <2>4. e.angle \in Degrees
    BY <1>2, EditorAssumption
  <2> QED  BY <2>2, <2>3, <2>4, Turns
<1>24. Upright(done)
  BY <1>20, <1>22, <1>23 DEF Upright
<1> QED  BY <1>1, <1>16, <1>17, <1>18, <1>20, <1>21, <1>24

-----------------------------------------------------------------------------
(* fillScenes4Data: the fold over the elements of a template.              *)

LEMMA LeastOf ==
  ASSUME NEW B \in SUBSET Nat, B # {}
  PROVE  \E n \in B : \A m \in B : n <= m
<1> DEFINE R == OpToRel(<, Nat)
<1>1. PICK n \in B : \A m \in B : ~ (<<m, n>> \in R)
  <2> HIDE DEF R
  <2>1. IsWellFoundedOn(R, Nat)
    BY NatLessThanWellFounded DEF R
  <2> QED  BY <2>1, WFMin
<1>2. \A m \in B : ~ (m < n)
  BY <1>1 DEF OpToRel
<1> QED  BY <1>2

First(s) == CHOOSE x \in s : TRUE

\* One step of the fold of FillScene, and that iter is the fold.
Step(p, rows, left, iter, s) ==
  IF s = {} THEN EmptyPage(p.limit)
            ELSE AddElem(iter[s \ {First(s)}], First(s), rows[First(s)], left)
IsFill(p, rows, left, iter) ==
  iter = [s \in SUBSET DOMAIN rows |-> Step(p, rows, left, iter, s)]

LEMMA FillIs ==
  ASSUME NEW p, NEW rows, NEW left
  PROVE  FillScene(p, rows, left) =
           (CHOOSE iter : IsFill(p, rows, left, iter))[DOMAIN rows]
  BY DEF FillScene, FoldSet, MapThenFoldSet, First, Step, IsFill

\* f is the fold as far as the sets with fewer than n elements.
FillTo(p, rows, left, f, n) ==
  /\ f = [s \in SUBSET DOMAIN rows |-> f[s]]
  /\ \A s \in SUBSET DOMAIN rows :
       Cardinality(s) < n => f[s] = Step(p, rows, left, f, s)

LEMMA FillOneMore ==
  ASSUME NEW p, NEW rows, NEW left, IsFiniteSet(DOMAIN rows), NEW n \in Nat,
         NEW f, FillTo(p, rows, left, f, n)
  PROVE  \E g : FillTo(p, rows, left, g, n+1)
<1> DEFINE g == [s \in SUBSET DOMAIN rows |-> Step(p, rows, left, f, s)]
<1>1. \A s \in SUBSET DOMAIN rows : Cardinality(s) < n => g[s] = f[s]
  BY DEF FillTo
<1>2. ASSUME NEW s \in SUBSET DOMAIN rows, Cardinality(s) < n+1
      PROVE  g[s] = Step(p, rows, left, g, s)
  <2>1. CASE s = {}
    BY <2>1 DEF Step
  <2>2. CASE s # {}
    <3>1. First(s) \in s
      BY <2>2 DEF First
    <3>2. IsFiniteSet(s)
      BY FS_Subset
    <3>3. Cardinality(s) \in Nat /\ Cardinality(s \ {First(s)}) = Cardinality(s) - 1
      BY <3>1, <3>2, FS_RemoveElement, FS_CardinalityType
    <3>4. g[s \ {First(s)}] = f[s \ {First(s)}]
      <4>1. Cardinality(s \ {First(s)}) < n /\ s \ {First(s)} \in SUBSET DOMAIN rows
        BY <1>2, <3>3
      <4> HIDE DEF g
      <4> QED  BY <4>1, <1>1
    <3>5. g[s] = Step(p, rows, left, f, s)
      OBVIOUS
    <3> HIDE DEF g
    <3> QED  BY <2>2, <3>4, <3>5 DEF Step
  <2> QED  BY <2>1, <2>2
<1>3. g = [s \in SUBSET DOMAIN rows |-> g[s]]
  OBVIOUS
<1> HIDE DEF g
<1> QED  BY <1>2, <1>3 DEF FillTo

\* The fold exists.
LEMMA FillExists ==
  ASSUME NEW p, NEW rows, NEW left, IsFiniteSet(DOMAIN rows)
  PROVE  \E iter : IsFill(p, rows, left, iter)
<1> DEFINE Good(n) == \E f : FillTo(p, rows, left, f, n)
           Bad == {n \in Nat : ~ Good(n)}
<1>1. Good(0)
  <2> DEFINE f == [s \in SUBSET DOMAIN rows |-> 0]
  <2>1. \A s \in SUBSET DOMAIN rows : ~ (Cardinality(s) < 0)
    BY FS_Subset, FS_CardinalityType
  <2>2. f = [s \in SUBSET DOMAIN rows |-> f[s]]
    OBVIOUS
  <2> HIDE DEF f
  <2>3. FillTo(p, rows, left, f, 0)
    BY <2>1, <2>2 DEF FillTo
  <2> QED  BY <2>3
<1>2. \A n \in Nat : Good(n) => Good(n+1)
  BY FillOneMore
<1> HIDE DEF Good
<1>3. Bad = {}
  <2> SUFFICES ASSUME Bad # {}
               PROVE  FALSE
    OBVIOUS
  <2>1. PICK n \in Bad : \A m \in Bad : n <= m
    BY LeastOf
  <2>2. n # 0 /\ n \in Nat
    BY <1>1
  <2>3. n - 1 \in Nat /\ ~ (n <= n - 1) /\ n = (n - 1) + 1
    BY <2>2
  <2>4. Good(n - 1)
    BY <2>1, <2>3
  <2> QED  BY <1>2, <2>1, <2>3, <2>4
<1>4. DOMAIN rows \in SUBSET DOMAIN rows /\ Cardinality(DOMAIN rows) + 1 \in Nat
  BY FS_CardinalityType
<1>5. Good(Cardinality(DOMAIN rows) + 1)
  BY <1>3, <1>4
<1>6. PICK f : FillTo(p, rows, left, f, Cardinality(DOMAIN rows) + 1)
  BY <1>5 DEF Good
<1>7. \A s \in SUBSET DOMAIN rows : Cardinality(s) < Cardinality(DOMAIN rows) + 1
  BY FS_Subset, FS_CardinalityType
<1>8. \A s \in SUBSET DOMAIN rows : f[s] = Step(p, rows, left, f, s)
  BY <1>6, <1>7 DEF FillTo
<1>9. f = [s \in SUBSET DOMAIN rows |-> Step(p, rows, left, f, s)]
  BY <1>6, <1>8 DEF FillTo
<1> QED  BY <1>9 DEF IsFill

\* A page that shows what rows hold of the elements in s, with nothing in the
\* stack about others.
Shows(p, rows, q, s) ==
  /\ PageInv(q) /\ Upright(q) /\ q.limit = p.limit /\ q.scene = s
  /\ \A i \in Items : q.item[i] = IF i \in s THEN rows[i] ELSE None
  /\ \A k \in 1 .. Len(q.stack) : q.stack[k].item \in q.scene

LEMMA AddShows ==
  ASSUME NEW p, NEW rows \in Rows, NEW s \in SUBSET DOMAIN rows,
         NEW q, Shows(p, rows, q, s), NEW i \in DOMAIN rows, i \notin s,
         NEW left \in Angles
  PROVE  Shows(p, rows, AddElem(q, i, rows[i], left), s \cup {i})
<1>1. i \in Items /\ rows[i] \in Elem
  BY DEF Rows
<1>2. /\ PageInv(q) /\ Upright(q) /\ q.limit = p.limit /\ q.scene = s
      /\ q.item[i] = None
      /\ \A k \in 1 .. Len(q.stack) : q.stack[k].item \in q.scene
      /\ \A k \in 1 .. Len(q.stack) : q.stack[k].item # i
  BY <1>1 DEF Shows
<1> DEFINE r == AddElem(q, i, rows[i], left)
<1>3. /\ PageInv(r) /\ Upright(r) /\ r.limit = q.limit
      /\ r.scene = q.scene \cup {i}
      /\ \A j \in Items : r.item[j] = IF j = i THEN rows[i] ELSE q.item[j]
      /\ \A k \in 1 .. Len(r.stack) : r.stack[k].item \in r.scene
  <2>1. CASE rows[i].tag = Picture
    <3>1. /\ PageInv(r) /\ Upright(r) /\ r.limit = q.limit
          /\ r.scene = q.scene \cup {i}
          /\ \A j \in Items : r.item[j] = IF j = i THEN rows[i] ELSE q.item[j]
          /\ r.stack = q.stack
      BY <1>1, <1>2, <2>1, AddPictureIs
    <3> HIDE DEF r
    <3> QED  BY <1>2, <3>1
  <2>2. CASE rows[i].tag # Picture
    BY <1>1, <1>2, <2>2, AddTextIs
  <2> QED  BY <2>1, <2>2
<1> HIDE DEF r
<1>4. Shows(p, rows, r, s \cup {i})
  BY <1>2, <1>3 DEF Shows
<1> QED  BY <1>4 DEF r

\* What fillScenes4Data leaves, by induction over the number of elements.
LEMMA FillShows ==
  ASSUME NEW p, p.limit \in Limits, NEW rows \in Rows, NEW left \in Angles
  PROVE  Shows(p, rows, FillScene(p, rows, left), DOMAIN rows)
<1>1. DOMAIN rows \subseteq Items /\ IsFiniteSet(DOMAIN rows)
  BY FS_Subset, EditorAssumption DEF Rows
<1> DEFINE fold == CHOOSE iter : IsFill(p, rows, left, iter)
<1>2. IsFill(p, rows, left, fold)
  BY <1>1, FillExists
<1>3. FillScene(p, rows, left) = fold[DOMAIN rows]
  BY FillIs
<1> HIDE DEF fold
<1>4. \A s \in SUBSET DOMAIN rows : fold[s] = Step(p, rows, left, fold, s)
  BY <1>2 DEF IsFill
<1> DEFINE Good(n) == \A s \in SUBSET DOMAIN rows :
                        Cardinality(s) = n => Shows(p, rows, fold[s], s)
           Bad == {n \in Nat : ~ Good(n)}
<1>5. Good(0)
  <2>1. SUFFICES Shows(p, rows, fold[{}], {})
    BY <1>1, FS_Subset, FS_EmptySet
  <2>2. fold[{}] = EmptyPage(p.limit)
    BY <1>4 DEF Step
  <2>3. Len(<< >>) = 0
    OBVIOUS
  <2> QED  BY <2>2, <2>3, EmptyKeeps DEF Shows
<1>6. ASSUME NEW n \in Nat, Good(n)
      PROVE  Good(n+1)
  <2> SUFFICES ASSUME NEW s \in SUBSET DOMAIN rows, Cardinality(s) = n+1
               PROVE  Shows(p, rows, fold[s], s)
    OBVIOUS
  <2>1. IsFiniteSet(s)
    BY <1>1, FS_Subset
  <2>2. s # {}
    BY <2>1, FS_EmptySet
  <2>3. First(s) \in s
    BY <2>2 DEF First
  <2> DEFINE t == s \ {First(s)}
  <2>4. t \in SUBSET DOMAIN rows /\ Cardinality(t) = n
    <3>1. Cardinality(t) = Cardinality(s) - 1
      BY <2>1, <2>3, FS_RemoveElement
    <3> QED  BY <3>1
  <2>5. Shows(p, rows, fold[t], t)
    BY <1>6, <2>4
  <2>6. fold[s] = AddElem(fold[t], First(s), rows[First(s)], left)
    BY <1>4, <2>2 DEF Step
  <2>7. First(s) \in DOMAIN rows /\ First(s) \notin t /\ t \cup {First(s)} = s
    BY <2>3
  <2> HIDE DEF t
  <2> QED  BY <2>4, <2>5, <2>6, <2>7, AddShows
<1> HIDE DEF Good
<1>7. Bad = {}
  <2> SUFFICES ASSUME Bad # {}
               PROVE  FALSE
    OBVIOUS
  <2>1. PICK n \in Bad : \A m \in Bad : n <= m
    BY LeastOf
  <2>2. n # 0 /\ n \in Nat
    BY <1>5
  <2>3. n - 1 \in Nat /\ ~ (n <= n - 1) /\ n = (n - 1) + 1
    BY <2>2
  <2>4. Good(n - 1)
    BY <2>1, <2>3
  <2> QED  BY <1>6, <2>1, <2>3, <2>4
<1>8. Good(Cardinality(DOMAIN rows))
  BY <1>1, <1>7, FS_CardinalityType
<1>9. Shows(p, rows, fold[DOMAIN rows], DOMAIN rows)
  BY <1>8 DEF Good
<1> QED  BY <1>3, <1>9

-----------------------------------------------------------------------------
(* The steps.                                                              *)

FilesOK == files \in [Files \cup {Temp} -> Rows \cup {None}]
LinkOK ==
  /\ db \in Files \cup {Temp, None} /\ name \in Files \cup {Temp, None}
  /\ dbOpened \in BOOLEAN /\ templLoad \in BOOLEAN
PageOK ==
  PageInv(page) /\ Upright(page) /\ cut \in BOOLEAN /\ (~cut => HasElems(page))
\* PageIsItsFile without what is seen.
FileIsPage == clean /\ files[home] # None => files[home] = RowsOf(page)
AtHome ==
  /\ home \in Files \cup {None} /\ clean \in BOOLEAN
  /\ clean => home # None
  /\ FileIsPage
CountOK == acts \in 0 .. MaxActs /\ faults \in 0 .. MaxFaults

Inv == FilesOK /\ LinkOK /\ PageOK /\ AtHome /\ CountOK

LEMMA Counting ==
  ASSUME CountOK, Acts \/ UNCHANGED acts, Fault \/ UNCHANGED faults
  PROVE  CountOK'
<1>1. MaxActs \in Nat /\ MaxFaults \in Nat
  BY EditorAssumption
<1>2. acts' \in 0 .. MaxActs
  BY <1>1 DEF CountOK, Acts
<1>3. faults' \in 0 .. MaxFaults
  BY <1>1 DEF CountOK, Fault
<1> QED  BY <1>2, <1>3 DEF CountOK

LEMMA InitInv ==
  ASSUME Init
  PROVE  Inv
<1>1. FilesOK
  BY EditorAssumption DEF Init, FilesOK
<1>2. PageOK
  BY EditorAssumption, EmptyKeeps DEF Init, PageOK
<1>3. LinkOK /\ AtHome
  BY DEF Init, LinkOK, AtHome, FileIsPage
<1>4. CountOK
  BY EditorAssumption DEF Init, CountOK
<1> QED  BY <1>1, <1>2, <1>3, <1>4 DEF Inv

\* The page is filled from f.
LEMMA FilledKeeps ==
  ASSUME PageOK, NEW f \in Files, files'[f] \in Rows, FilledFrom(f)
  PROVE  PageOK' /\ AtHome'
<1> DEFINE rows == files'[f]
<1>1. rows \in Rows
  OBVIOUS
<1> HIDE DEF rows
<1>2. PICK left \in Angles : page' = FillScene(page, rows, left)
  BY DEF FilledFrom, rows
<1>3. page.limit \in Limits
  BY PageFacts DEF PageOK, PageInv
<1>4. Shows(page, rows, page', DOMAIN rows)
  BY <1>1, <1>2, <1>3, FillShows
<1>5. /\ DOMAIN rows \subseteq Items /\ rows = [i \in DOMAIN rows |-> rows[i]]
      /\ \A i \in DOMAIN rows : rows[i] \in Elem /\ rows[i] # None
  BY <1>1, EditorAssumption DEF Rows
<1>6. PageInv(page') /\ Upright(page')
  BY <1>4 DEF Shows
<1>7. HasElems(page')
  BY <1>4, <1>5 DEF Shows, HasElems
<1>8. cut' \in BOOLEAN
  BY DEF FilledFrom
<1>9. RowsOf(page') = rows
  <2>1. page'.scene = DOMAIN rows /\ \A i \in DOMAIN rows : page'.item[i] = rows[i]
    BY <1>4, <1>5 DEF Shows
  <2> QED  BY <1>5, <2>1 DEF RowsOf
<1>10. home' = f /\ clean' = TRUE
  BY DEF FilledFrom
<1>11. FileIsPage'
  BY <1>9, <1>10 DEF FileIsPage, rows
<1>12. f # None
  BY EditorAssumption
<1> QED  BY <1>6, <1>7, <1>8, <1>10, <1>11, <1>12 DEF PageOK, AtHome

\* The page stays, and files other than the one it was filled from may change.
LEMMA StaysHome ==
  ASSUME AtHome, UNCHANGED <<page, home>>, clean' \in BOOLEAN, clean' => clean,
         clean' /\ home \in Files => files'[home] = files[home] \/ files'[home] = None
  PROVE  AtHome'
<1>1. FileIsPage'
  BY DEF AtHome, FileIsPage
<1> QED  BY <1>1 DEF AtHome

LEMMA OpenTemplatesKeeps ==
  ASSUME Inv, NEW f \in Files, FilesOK', OpenTemplates(f),
         \A g \in Files : g # f => files'[g] = files[g]
  PROVE  /\ PageOK' /\ AtHome' /\ (Fault \/ UNCHANGED faults)
         /\ db' \in Files \cup {Temp, None} /\ dbOpened' \in BOOLEAN
<1>1. CASE NoFault /\ db' = f /\ dbOpened' = TRUE /\ FilledFrom(f)
  <2>1. files'[f] \in Rows
    BY DEF OpenTemplates, FilesOK
  <2>2. PageOK' /\ AtHome'
    BY <1>1, <2>1, FilledKeeps DEF Inv
  <2> QED  BY <1>1, <2>2 DEF NoFault
<1>2. CASE Fault /\ db' \in {None, f} /\ dbOpened' = FALSE /\ NotFilled(f)
  <2>1. PageOK'
    BY <1>2 DEF NotFilled, Inv, PageOK
  <2>2. clean' \in BOOLEAN /\ (clean' => clean)
    BY <1>2 DEF NotFilled
  <2>3. clean' /\ home \in Files => files'[home] = files[home]
    BY <1>2 DEF NotFilled
  <2>4. AtHome'
    BY <1>2, <2>2, <2>3, StaysHome DEF NotFilled, Inv
  <2> QED  BY <1>2, <2>1, <2>4
<1> QED  BY <1>1, <1>2 DEF OpenTemplates

LEMMA OpenTemplateKeeps ==
  ASSUME Inv, NEW f \in Files, OpenTemplate(f)
  PROVE  Inv'
<1>1. FilesOK' /\ \A g \in Files : g # f => files'[g] = files[g]
  BY DEF OpenTemplate, Inv, FilesOK
<1>2. /\ PageOK' /\ AtHome' /\ (Fault \/ UNCHANGED faults)
      /\ db' \in Files \cup {Temp, None} /\ dbOpened' \in BOOLEAN
  BY <1>1, OpenTemplatesKeeps DEF OpenTemplate
<1>3. CountOK'
  BY <1>2, Counting DEF OpenTemplate, Inv
<1>4. LinkOK'
  BY <1>2 DEF OpenTemplate, Inv, LinkOK
<1> QED  BY <1>1, <1>2, <1>3, <1>4 DEF Inv

LEMMA OpenCancelledKeeps ==
  ASSUME Inv, OpenCancelled
  PROVE  Inv'
<1>1. CountOK'
  BY Counting DEF OpenCancelled, Inv
<1>2. FilesOK' /\ LinkOK' /\ PageOK'
  BY DEF OpenCancelled, Inv, FilesOK, LinkOK, PageOK, link
<1>3. AtHome'
  BY StaysHome DEF OpenCancelled, Inv, past, AtHome
<1> QED  BY <1>1, <1>2, <1>3 DEF Inv

LEMMA OpenRefusedKeeps ==
  ASSUME Inv, OpenRefused
  PROVE  Inv'
<1>1. CountOK'
  BY Counting DEF OpenRefused, Inv
<1> QED
  BY <1>1 DEF OpenRefused, Inv, FilesOK, LinkOK, PageOK, AtHome, FileIsPage, past

LEMMA SaveAsKeeps ==
  ASSUME Inv, NEW f \in Files, SaveAs(f)
  PROVE  Inv'
<1>1. CASE name = None
  <2>1. UNCHANGED <<files, db, dbOpened, name, templLoad, page, home, clean, cut, faults>>
    BY <1>1 DEF SaveAs, link, past
  <2>2. CountOK'
    BY <2>1, Counting DEF SaveAs, Inv
  <2>3. FilesOK' /\ LinkOK' /\ PageOK'
    BY <2>1 DEF Inv, FilesOK, LinkOK, PageOK
  <2>4. AtHome'
    BY <2>1, StaysHome DEF Inv, AtHome
  <2> QED  BY <2>2, <2>3, <2>4 DEF Inv
<1>2. CASE name # None /\ CopyTo(name, f)
  <2>1. /\ files' = [files EXCEPT ![f] = files[name]] /\ name' = f
        /\ OpenTemplates(f)
    BY <1>2 DEF CopyTo
  <2>2. FilesOK' /\ \A g \in Files : g # f => files'[g] = files[g]
    BY <1>2, <2>1 DEF Inv, FilesOK, LinkOK
  <2>3. /\ PageOK' /\ AtHome' /\ (Fault \/ UNCHANGED faults)
        /\ db' \in Files \cup {Temp, None} /\ dbOpened' \in BOOLEAN
    BY <2>1, <2>2, OpenTemplatesKeeps
  <2>4. CountOK'
    BY <2>3, Counting DEF SaveAs, Inv
  <2>5. LinkOK'
    BY <2>1, <2>3 DEF SaveAs, Inv, LinkOK
  <2> QED  BY <2>2, <2>3, <2>4, <2>5 DEF Inv
<1>3. CASE name # None /\ CopyFails(name, f)
  <2>1. PICK rest \in {files[f], None} : files' = [files EXCEPT ![f] = rest]
    BY <1>3 DEF CopyFails
  <2>2. /\ FilesOK' /\ \A g \in Files : files'[g] = files[g] \/ files'[g] = None
    BY <2>1 DEF Inv, FilesOK
  <2>3. /\ db' = None /\ UNCHANGED <<dbOpened, name, templLoad, page, home, clean, cut>>
        /\ Acts /\ (Fault \/ UNCHANGED faults)
    BY <1>3 DEF CopyFails, SaveAs, past, NoFault
  <2>4. CountOK'
    BY <2>3, Counting DEF Inv
  <2>5. LinkOK' /\ PageOK'
    BY <2>3 DEF Inv, LinkOK, PageOK
  <2>6. AtHome'
    BY <2>2, <2>3, StaysHome DEF Inv, AtHome
  <2> QED  BY <2>2, <2>4, <2>5, <2>6 DEF Inv
<1> QED  BY <1>1, <1>2, <1>3 DEF SaveAs

LEMMA EmptyDBIsRows == EmptyDB \in Rows
<1>1. EmptyDB \in [{} -> Elem]
  BY DEF EmptyDB
<1> QED  BY <1>1 DEF Rows

LEMMA NewCancelledKeeps ==
  ASSUME Inv, NewCancelled
  PROVE  Inv'
<1>1. /\ files' = [files EXCEPT ![Temp] = EmptyDB] \/ files' = files
      /\ db' \in {Temp, None} /\ dbOpened' \in BOOLEAN /\ name' = Temp
      /\ UNCHANGED <<templLoad, page, home, clean, cut>>
      /\ Acts /\ (Fault \/ UNCHANGED faults)
  BY DEF NewCancelled, past, NoFault
<1>2. FilesOK' /\ \A g \in Files : files'[g] = files[g]
  BY <1>1, EmptyDBIsRows, EditorAssumption DEF Inv, FilesOK
<1>3. CountOK'
  BY <1>1, Counting DEF Inv
<1>4. LinkOK' /\ PageOK'
  BY <1>1 DEF Inv, LinkOK, PageOK
<1>5. AtHome'
  BY <1>1, <1>2, StaysHome DEF Inv, AtHome
<1> QED  BY <1>2, <1>3, <1>4, <1>5 DEF Inv

LEMMA NewTemplateKeeps ==
  ASSUME Inv, NEW f \in Files, NewTemplate(f)
  PROVE  Inv'
<1>1. /\ files' = [files EXCEPT ![Temp] = EmptyDB, ![f] = EmptyDB] /\ name' = f
      /\ Acts
  BY DEF NewTemplate
<1>2. /\ FilesOK' /\ files'[f] \in Rows
      /\ \A g \in Files : g # f => files'[g] = files[g]
  BY <1>1, EmptyDBIsRows, EditorAssumption DEF Inv, FilesOK
<1>3. CASE OpenTemplates(f) /\ templLoad' = (templLoad \/ dbOpened')
  <2>1. /\ PageOK' /\ AtHome' /\ (Fault \/ UNCHANGED faults)
        /\ db' \in Files \cup {Temp, None} /\ dbOpened' \in BOOLEAN
    BY <1>2, <1>3, OpenTemplatesKeeps
  <2>2. CountOK'
    BY <1>1, <2>1, Counting DEF Inv
  <2>3. LinkOK'
    BY <1>1, <1>3, <2>1 DEF Inv, LinkOK
  <2> QED  BY <1>2, <2>1, <2>2, <2>3 DEF Inv
<1>4. CASE /\ Fault /\ db' \in {None, f} /\ dbOpened' = FALSE /\ templLoad' = FALSE
           /\ FilledFrom(f)
  <2>1. PageOK' /\ AtHome'
    BY <1>2, <1>4, FilledKeeps DEF Inv
  <2>2. CountOK'
    BY <1>1, <1>4, Counting DEF Inv
  <2>3. LinkOK'
    BY <1>1, <1>4 DEF LinkOK
  <2> QED  BY <1>2, <2>1, <2>2, <2>3 DEF Inv
<1> QED  BY <1>3, <1>4 DEF NewTemplate

LEMMA NewNotCopiedKeeps ==
  ASSUME Inv, NEW f \in Files, NewNotCopied(f)
  PROVE  Inv'
<1>1. PICK rest \in {files[f], None} :
        files' = [files EXCEPT ![Temp] = EmptyDB, ![f] = rest]
  BY DEF NewNotCopied
<1>2. /\ FilesOK' /\ \A g \in Files : files'[g] = files[g] \/ files'[g] = None
  BY <1>1, EmptyDBIsRows, EditorAssumption DEF Inv, FilesOK
<1>3. /\ name' = Temp /\ dbOpened' \in BOOLEAN /\ templLoad' = dbOpened'
      /\ Acts /\ Fault
  BY DEF NewNotCopied
<1>4. CountOK'
  BY <1>3, Counting DEF Inv
<1>5. CASE dbOpened'
  <2>1. db' = f /\ FilledFrom(f) /\ files'[f] \in Rows
    BY <1>2, <1>5 DEF NewNotCopied, FilesOK
  <2>2. PageOK' /\ AtHome'
    BY <1>2, <2>1, FilledKeeps DEF Inv
  <2>3. LinkOK'
    BY <1>3, <2>1 DEF LinkOK
  <2> QED  BY <1>2, <1>4, <2>2, <2>3 DEF Inv
<1>6. CASE ~ dbOpened'
  <2>1. db' = None /\ UNCHANGED <<page, home, clean, cut>>
    BY <1>6 DEF NewNotCopied, past
  <2>2. PageOK' /\ LinkOK'
    BY <1>3, <2>1 DEF Inv, PageOK, LinkOK
  <2>3. AtHome'
    BY <1>2, <2>1, StaysHome DEF Inv, AtHome
  <2> QED  BY <1>2, <1>4, <2>2, <2>3 DEF Inv
<1> QED  BY <1>5, <1>6

\* Rows of what the page shows are rows.
LEMMA RowsOfIsRows ==
  ASSUME PageInv(page), NEW kept \in SUBSET page.scene
  PROVE  [i \in kept |-> page.item[i]] \in Rows
<1>1. kept \in SUBSET Items /\ \A i \in kept : page.item[i] \in Elem
  BY PageFacts DEF PageInv, Alive
<1>2. [i \in kept |-> page.item[i]] \in [kept -> Elem]
  BY <1>1
<1> QED  BY <1>1, <1>2 DEF Rows

LEMMA SaveKeeps ==
  ASSUME Inv, Save
  PROVE  Inv'
<1>1. PICK kept \in SUBSET page.scene :
        /\ IF kept = page.scene THEN NoFault ELSE Fault
        /\ files' = [files EXCEPT ![db] = Written([i \in kept |-> page.item[i]])]
        /\ clean' = IF db # home THEN clean ELSE kept = page.scene
  BY DEF Save
<1> DEFINE rows == [i \in kept |-> page.item[i]]
<1>2. rows \in Rows
  BY RowsOfIsRows DEF Inv, PageOK
<1> HIDE DEF rows
<1>3. db \in Files \cup {Temp} /\ files' = [files EXCEPT ![db] = rows]
  BY <1>1 DEF Save, Inv, LinkOK, Written, rows
<1>4. /\ FilesOK' /\ files'[db] = rows
      /\ \A g \in Files : g # db => files'[g] = files[g]
  BY <1>2, <1>3 DEF Inv, FilesOK
<1>5. /\ UNCHANGED <<db, dbOpened, name, templLoad, page, home, cut, acts>>
      /\ Fault \/ UNCHANGED faults
  BY <1>1 DEF Save, link, NoFault
<1>6. CountOK'
  BY <1>5, Counting DEF Inv
<1>7. LinkOK' /\ PageOK'
  BY <1>5 DEF Inv, LinkOK, PageOK
<1>8. CASE db # home
  <2>1. clean' = clean
    BY <1>1, <1>8
  <2>2. AtHome'
    BY <1>4, <1>5, <1>8, <2>1, StaysHome DEF Inv, AtHome
  <2> QED  BY <1>4, <1>6, <1>7, <2>2 DEF Inv
<1>9. CASE db = home
  <2>1. clean' = (kept = page.scene)
    BY <1>1, <1>9
  <2>2. home # None
    BY <1>9 DEF Save
  <2>3. clean' => rows = RowsOf(page)
    BY <2>1 DEF rows, RowsOf
  <2>4. FileIsPage'
    BY <1>4, <1>5, <1>9, <2>3 DEF FileIsPage
  <2>5. AtHome'
    BY <1>5, <2>1, <2>2, <2>4 DEF Inv, AtHome
  <2> QED  BY <1>4, <1>6, <1>7, <2>5 DEF Inv
<1> QED  BY <1>8, <1>9

LEMMA LeaveKeeps ==
  ASSUME Inv, Leave
  PROVE  Inv'
<1>1. FilesOK'
  <2>1. CASE files' = files
    BY <2>1 DEF Inv, FilesOK
  <2>2. ASSUME db # None, NEW kept \in SUBSET page.scene,
               files' = [files EXCEPT ![db] = [i \in kept |-> page.item[i]]]
        PROVE  FilesOK'
    <3>1. [i \in kept |-> page.item[i]] \in Rows
      BY RowsOfIsRows DEF Inv, PageOK
    <3> QED  BY <2>2, <3>1 DEF Inv, FilesOK
  <2> QED  BY <2>1, <2>2 DEF Leave
<1>2. PageOK'
  BY EditorAssumption, EmptyKeeps DEF Leave, PageOK
<1>3. LinkOK' /\ AtHome'
  BY DEF Leave, LinkOK, AtHome, FileIsPage
<1>4. CountOK'
  BY Counting DEF Leave, Inv
<1> QED  BY <1>1, <1>2, <1>3, <1>4 DEF Inv

\* A push of a command that fits leaves the invariant in place.
LEMMA DoesKeeps ==
  ASSUME Inv, NEW c, Fits(page, c), Does(c)
  PROVE  Inv'
<1>1. PICK n \in 0 .. page.index : Pushed(page, c, page', n)
  BY PushIs DEF Does, Inv, PageOK, PageInv, Fits
<1>2. PageInv(page') /\ Upright(page')
  BY <1>1, PushKeeps, PushUpright DEF Inv, PageOK
<1>3. page.index \in Nat /\ page.limit \in Nat
  BY PageFacts DEF Inv, PageOK, PageInv
<1>4. cut' \in BOOLEAN
  BY DEF Does
<1>5. ASSUME ~cut'
      PROVE  HasElems(page')
  <2>1. ~cut /\ ~ (page.limit # 0 /\ page.index + 1 > page.limit)
    BY <1>5 DEF Does
  <2>2. page.limit = 0 \/ page.index + 1 <= page.limit
    BY <1>3, <2>1
  <2> QED  BY <1>1, <2>1, <2>2, PushHas DEF Inv, PageOK
<1>6. PageOK'
  BY <1>2, <1>4, <1>5 DEF PageOK
<1>7. Edits
  BY DEF Does
<1>8. FilesOK' /\ LinkOK'
  BY <1>7 DEF Edits, Inv, FilesOK, LinkOK, link
<1>9. AtHome'
  BY <1>7 DEF Edits, Inv, AtHome, FileIsPage
<1>10. CountOK'
  BY <1>7, Counting DEF Edits, Inv
<1> QED  BY <1>6, <1>8, <1>9, <1>10 DEF Inv

\* The same for other edits.
LEMMA EditsKeeps ==
  ASSUME Inv, Edits, PageOK'
  PROVE  Inv'
<1>1. FilesOK' /\ LinkOK'
  BY DEF Edits, Inv, FilesOK, LinkOK, link
<1>2. AtHome'
  BY DEF Edits, Inv, AtHome, FileIsPage
<1>3. CountOK'
  BY Counting DEF Edits, Inv
<1> QED  BY <1>1, <1>2, <1>3 DEF Inv

LEMMA AddElementKeeps ==
  ASSUME Inv, NEW t \in Tags \cup {Picture}, AddElement(t)
  PROVE  Inv'
<1> DEFINE i == CHOOSE j \in Free : TRUE
           e == [tag |-> t, look |-> 0, angle |-> 0]
<1>1. PICK left \in Angles : page' = AddElem(page, i, e, left)
  BY DEF AddElement
<1>2. /\ Edits /\ Free # {}
      /\ cut' = (cut \/ (t # Picture /\ page.limit # 0 /\ page.index + 2 > page.limit))
  BY DEF AddElement
<1>3. i \in Free
  BY <1>2
<1> HIDE DEF i
<1>4. PageInv(page) /\ Upright(page) /\ page.stack \in Seq(Commands)
  BY PageFacts DEF Inv, PageOK, PageInv
<1>5. i \in Items /\ page.item[i] = None /\ \A k \in 1 .. Len(page.stack) : page.stack[k].item # i
  <2>1. DOMAIN page.stack = 1 .. Len(page.stack)
    BY <1>4
  <2> QED  BY <1>3, <2>1 DEF Free, Range
<1>6. e \in Elem /\ e.tag = t
  BY EditorAssumption DEF Elem
<1> HIDE DEF e
<1>7. cut' \in BOOLEAN
  BY <1>2
<1>8. CASE t = Picture
  <2>1. PageInv(page') /\ Upright(page') /\ (HasElems(page) => HasElems(page'))
    BY <1>1, <1>4, <1>5, <1>6, <1>8, AddPictureIs
  <2>2. PageOK'
    BY <1>2, <1>7, <2>1 DEF Inv, PageOK
  <2> QED  BY <1>2, <2>2, EditsKeeps
<1>9. CASE t # Picture
  <2>1. /\ PageInv(page') /\ Upright(page')
        /\ HasElems(page) /\ (page.limit = 0 \/ page.index + 2 <= page.limit) => HasElems(page')
    BY <1>1, <1>4, <1>5, <1>6, <1>9, AddTextIs
  <2>2. page.index \in Nat /\ page.limit \in Nat
    BY <1>4, PageFacts DEF PageInv
  <2>3. ASSUME ~cut'
        PROVE  HasElems(page')
    <3>1. ~cut /\ ~ (page.limit # 0 /\ page.index + 2 > page.limit)
      BY <1>2, <1>9, <2>3
    <3>2. page.limit = 0 \/ page.index + 2 <= page.limit
      BY <2>2, <3>1
    <3> QED  BY <2>1, <3>1, <3>2 DEF Inv, PageOK
  <2>4. PageOK'
    BY <1>7, <2>1, <2>3 DEF PageOK
  <2> QED  BY <1>2, <2>4, EditsKeeps
<1> QED  BY <1>8, <1>9

LEMMA ChangeFieldKeeps ==
  ASSUME Inv, NEW i \in Texts, NEW field \in Fields, NEW new \in Values(field),
         ChangeField(i, field, new)
  PROVE  Inv'
<1> DEFINE c == Set(i, field, page.item[i][field], new)
<1>1. /\ i \in page.scene /\ i \in Items /\ page.item[i] # None /\ page.item[i] \in Elem
      /\ page.item[i].tag \in Tags
  <2>1. /\ i \in page.scene /\ i \in Items /\ page.item[i] # None /\ page.item[i] \in Elem
        /\ page.item[i].tag # Picture
    BY PageFacts DEF Texts, Inv, PageOK, PageInv, Alive
  <2> QED  BY <2>1 DEF Elem
<1>2. page.item[i][field] \in Values(field)
  BY <1>1, ElemFacts DEF Elem, Fields, Values
<1>3. /\ c \in Commands /\ c.item = i /\ c.op = field /\ c.old = page.item[i][field]
      /\ c.op \notin {"add", "delete"}
  BY <1>1, <1>2 DEF Set, Commands, Changes, Fields
<1>4. Does(c)
  BY DEF ChangeField
<1> HIDE DEF c
<1>5. Fits(page, c)
  BY <1>1, <1>3 DEF Fits
<1> QED  BY <1>4, <1>5, DoesKeeps

LEMMA DeleteElementKeeps ==
  ASSUME Inv, NEW i \in page.scene, DeleteElement(i)
  PROVE  Inv'
<1>1. /\ PageInv(page) /\ page \in Pages /\ i \in Items /\ page.item[i] # None
      /\ page.item[i] \in Elem /\ page.scene \in SUBSET Items
  BY PageFacts DEF Inv, PageOK, PageInv, Alive
<1>2. CASE page.item[i].tag = Picture
  <2>1. /\ Edits /\ cut' = cut
        /\ page' = [page EXCEPT !.scene = @ \ {i}, !.item[i] = None]
    BY <1>2 DEF DeleteElement
  <2>2. page' = Lone(page, i, None, page.scene \ {i})
    BY <1>1, <2>1 DEF Pages, Lone
  <2>3. \A k \in 1 .. Len(page.stack) : page.stack[k].item # i
    BY <1>1, <1>2, EditorAssumption DEF PageInv, Bare
  <2>5. PageInv(page') /\ Upright(page') /\ (HasElems(page) => HasElems(page'))
    <3>1. Upright(page)
      BY DEF Inv, PageOK
    <3> QED  BY <1>1, <2>2, <2>3, <3>1, DelPictureIs
  <2>6. PageOK'
    BY <2>1, <2>5 DEF Inv, PageOK
  <2> QED  BY <2>1, <2>6, EditsKeeps
<1>3. CASE page.item[i].tag # Picture
  <2> DEFINE c == [op |-> "delete", item |-> i]
  <2>1. /\ c \in Commands /\ c.op = "delete" /\ c.item = i /\ c.op \notin Fields
        /\ page.item[i].tag \in Tags
    BY <1>1, <1>3 DEF Commands, Fields, Elem
  <2>2. Does(c)
    BY <1>3 DEF DeleteElement
  <2> HIDE DEF c
  <2>3. Fits(page, c)
    BY <1>1, <2>1 DEF Fits
  <2> QED  BY <2>2, <2>3, DoesKeeps
<1> QED  BY <1>2, <1>3

LEMMA UndoUpright ==
  ASSUME PageInv(page), Upright(page), UndoCommand
  PROVE  Upright(page')
<1> DEFINE c == page.stack[page.index]
           r == Undo(page, c)
<1>1. /\ page \in Pages /\ c \in Commands /\ page.item[c.item] # None
      /\ page' = [r EXCEPT !.index = @ - 1]
  BY PageFacts DEF PageInv, UndoCommand
<1> HIDE DEF c
<1>2. Made(page, r, c, c.old)
  BY <1>1, UndoIs
<1> HIDE DEF r
<1>3. Upright(r) /\ r \in Pages
  BY <1>1, <1>2, MadeUpright DEF Made
<1>4. page'.item = r.item /\ page'.rot = r.rot /\ page'.turned = r.turned
  BY <1>1, <1>3 DEF Pages
<1> QED  BY <1>3, <1>4 DEF Upright

LEMMA RedoUpright ==
  ASSUME PageInv(page), Upright(page), RedoCommand
  PROVE  Upright(page')
<1> DEFINE c == page.stack[page.index + 1]
           r == Redo(page, c)
<1>1. /\ page \in Pages /\ c \in Commands /\ page.item[c.item] # None
      /\ page' = [r EXCEPT !.index = @ + 1]
  BY PageFacts DEF PageInv, RedoCommand
<1> HIDE DEF c
<1>2. Made(page, r, c, c.new)
  BY <1>1, RedoIs
<1> HIDE DEF r
<1>3. Upright(r) /\ r \in Pages
  BY <1>1, <1>2, MadeUpright DEF Made
<1>4. page'.item = r.item /\ page'.rot = r.rot /\ page'.turned = r.turned
  BY <1>1, <1>3 DEF Pages
<1> QED  BY <1>3, <1>4 DEF Upright

LEMMA UndoCommandKeeps ==
  ASSUME Inv, UndoCommand
  PROVE  Inv'
<1>1. PageInv(page') /\ (HasElems(page) => HasElems(page'))
  BY UndoKeeps DEF UndoCommand, Inv, PageOK
<1>3. Upright(page')
  BY UndoUpright DEF UndoCommand, Inv, PageOK
<1>2. PageOK'
  BY <1>1, <1>3 DEF UndoCommand, Inv, PageOK
<1> QED  BY <1>2, EditsKeeps DEF UndoCommand

LEMMA RedoCommandKeeps ==
  ASSUME Inv, RedoCommand
  PROVE  Inv'
<1>1. PageInv(page') /\ (HasElems(page) => HasElems(page'))
  BY RedoKeeps DEF RedoCommand, Inv, PageOK
<1>3. Upright(page')
  BY RedoUpright DEF RedoCommand, Inv, PageOK
<1>2. PageOK'
  BY <1>1, <1>3 DEF RedoCommand, Inv, PageOK
<1> QED  BY <1>2, EditsKeeps DEF RedoCommand

LEMMA SetUndoLimitKeeps ==
  ASSUME Inv, NEW n \in Limits, SetUndoLimit(n)
  PROVE  Inv'
<1>1. /\ page' = [page EXCEPT !.limit = n]
      /\ UNCHANGED <<files, db, dbOpened, name, templLoad, home, clean, cut, acts, faults>>
  BY DEF SetUndoLimit, link, past, count
<1>2. /\ PageInv(page') /\ (HasElems(page) => HasElems(page'))
      /\ RowsOf(page') = RowsOf(page) /\ Upright(page')
  BY <1>1, LimitKeeps DEF Inv, PageOK
<1>3. PageOK'
  BY <1>1, <1>2 DEF Inv, PageOK
<1>4. AtHome'
  BY <1>1, <1>2 DEF Inv, AtHome, FileIsPage
<1>5. FilesOK' /\ LinkOK' /\ CountOK'
  BY <1>1 DEF Inv, FilesOK, LinkOK, CountOK
<1> QED  BY <1>3, <1>4, <1>5 DEF Inv

LEMMA NextInv ==
  ASSUME Inv, [Next]_vars
  PROVE  Inv'
<1>1. ASSUME NEW t \in Tags \cup {Picture}, AddElement(t)
      PROVE  Inv'
  BY <1>1, AddElementKeeps
<1>2. ASSUME NEW i \in Texts, NEW t \in Tags, ChangeField(i, "tag", t)
      PROVE  Inv'
  BY <1>2, ChangeFieldKeeps DEF Fields, Values
<1>3. ASSUME NEW i \in Texts, NEW l \in Looks, ChangeField(i, "look", l)
      PROVE  Inv'
  BY <1>3, ChangeFieldKeeps DEF Fields, Values
<1>4. ASSUME NEW i \in Texts, NEW a \in Angles, ChangeField(i, "angle", a)
      PROVE  Inv'
  BY <1>4, ChangeFieldKeeps DEF Fields, Values
<1>5. ASSUME NEW i \in page.scene, DeleteElement(i)
      PROVE  Inv'
  BY <1>5, DeleteElementKeeps
<1>6. CASE UndoCommand \/ RedoCommand
  BY <1>6, UndoCommandKeeps, RedoCommandKeeps
<1>7. ASSUME NEW n \in Limits, SetUndoLimit(n)
      PROVE  Inv'
  BY <1>7, SetUndoLimitKeeps
<1>8. CASE EditStep
  BY <1>1, <1>2, <1>3, <1>4, <1>5, <1>6, <1>7, <1>8 DEF EditStep
<1>9. ASSUME NEW f \in Files,
             OpenTemplate(f) \/ SaveAs(f) \/ NewTemplate(f) \/ NewNotCopied(f)
      PROVE  Inv'
  BY <1>9, OpenTemplateKeeps, SaveAsKeeps, NewTemplateKeeps, NewNotCopiedKeeps
<1>10. CASE OpenCancelled \/ OpenRefused \/ NewCancelled \/ Save \/ Leave
  BY <1>10, OpenCancelledKeeps, OpenRefusedKeeps, NewCancelledKeeps, SaveKeeps, LeaveKeeps
<1>11. CASE FileStep
  BY <1>9, <1>10, <1>11 DEF FileStep
<1>12. CASE UNCHANGED vars
  <2>1. UNCHANGED <<files, db, dbOpened, name, templLoad, page, home, clean, cut, acts, faults>>
    BY <1>12 DEF vars, link, past, count
  <2>2. FilesOK' /\ LinkOK' /\ PageOK' /\ CountOK'
    BY <2>1 DEF Inv, FilesOK, LinkOK, PageOK, CountOK
  <2>3. AtHome'
    BY <2>1 DEF Inv, AtHome, FileIsPage
  <2> QED  BY <2>2, <2>3 DEF Inv
<1> QED  BY <1>8, <1>11, <1>12 DEF Next

\* What the page, the stack and the files say of each other is inductive.
THEOREM InvHolds == Spec => []Inv
  BY InitInv, NextInv, PTL DEF Spec

LEMMA InvTyped ==
  ASSUME Inv
  PROVE  TypeOK
<1>1. page \in Pages /\ page.index <= Len(page.stack)
  BY DEF Inv, PageOK, PageInv
<1>2. /\ page.index \in Nat /\ page.stack \in Seq(Commands) /\ Len(page.stack) \in Nat
      /\ page.limit \in Limits /\ page.item \in [Items -> Elem \cup {None}]
      /\ page.scene \subseteq Items
      /\ \A k \in 1 .. Len(page.stack) : page.stack[k] \in Commands
  BY <1>1, PageFacts
<1>3. Commands \subseteq Command
  BY DEF Commands, Command, Changes, Values, Fields
<1>4. \A c \in Range(page.stack) : c \in Command
  <2>1. DOMAIN page.stack = 1 .. Len(page.stack)
    BY <1>2
  <2> QED  BY <1>2, <1>3, <2>1 DEF Range
<1>5. page.index \in 0 .. Len(page.stack)
  BY <1>1, <1>2
<1>6. /\ DOMAIN files = Files \cup {Temp}
      /\ \A f \in DOMAIN files : files[f] = None \/ files[f] \in Rows
  BY DEF Inv, FilesOK
<1>7. /\ DOMAIN page.item = Items /\ page.scene \subseteq Items
      /\ \A i \in Items : page.item[i] = None \/ page.item[i] \in Elem
      /\ page.rot \in [Items -> Degrees] /\ page.turned \subseteq Items
  BY <1>1, <1>2 DEF Pages
<1>8. /\ db \in Files \cup {Temp, None} /\ name \in Files \cup {Temp, None}
      /\ dbOpened \in BOOLEAN /\ templLoad \in BOOLEAN
      /\ home \in Files \cup {Temp, None} /\ clean \in BOOLEAN /\ cut \in BOOLEAN
      /\ acts \in 0 .. MaxActs /\ faults \in 0 .. MaxFaults
  BY DEF Inv, LinkOK, PageOK, AtHome, CountOK
<1> QED  BY <1>2, <1>4, <1>5, <1>6, <1>7, <1>8 DEF TypeOK

\* The state of the editor is well typed, for any number of files and
\* elements, any limits and any faults.
THEOREM EditorIsTyped == Spec => []TypeOK
  BY InvHolds, InvTyped, PTL

\* Every command in the stack has its element, as long as none was lost to an
\* undo limit, in whatever order elements are added, changed, deleted, undone
\* and read again.
THEOREM CommandsKeepElements == Spec => []CommandsHaveElements
<1>1. Inv => CommandsHaveElements
  <2> SUFFICES ASSUME Inv, ~cut, NEW c \in Range(page.stack)
               PROVE  page.item[c.item] # None
    BY DEF CommandsHaveElements
  <2>1. DOMAIN page.stack = 1 .. Len(page.stack)
    BY PageFacts DEF Inv, PageOK, PageInv
  <2> QED  BY <2>1 DEF Range, Inv, PageOK, HasElems
<1> QED  BY <1>1, InvHolds, PTL

\* What is shown is seen at its angle, unless it was turned again.
LEMMA SceneUpright ==
  ASSUME Inv, NEW i \in page.scene \ page.turned
  PROVE  page.rot[i] = page.item[i].angle
<1>1. i \in Items /\ page.item[i] # None /\ page.item[i] \in Elem
  BY PageFacts DEF Inv, PageOK, PageInv, Alive
<1> QED  BY <1>1, ElemFacts DEF Inv, PageOK, Upright, Fields

\* The rows of a page that was not edited since it was read or saved are those
\* of its file, and what was not turned again is seen at the angle in the file.
THEOREM PageStaysItsFile == Spec => []PageIsItsFile
<1>1. Inv => PageIsItsFile
  <2> SUFFICES ASSUME Inv, clean, files[home] # None
               PROVE  /\ files[home] = RowsOf(page)
                      /\ \A i \in page.scene \ page.turned :
                           page.rot[i] = files[home][i].angle
    BY DEF PageIsItsFile
  <2>1. files[home] = RowsOf(page)
    BY DEF Inv, AtHome, FileIsPage
  <2>2. \A i \in page.scene : files[home][i] = page.item[i]
    BY <2>1 DEF RowsOf
  <2> QED  BY <2>1, <2>2, SceneUpright
<1> QED  BY <1>1, InvHolds, PTL

LEMMA GreatestIs ==
  ASSUME NEW n \in Nat, NEW S \in SUBSET (1 .. n), S # {}
  PROVE  Max(S) \in S /\ \A k \in S : Max(S) >= k
<1> DEFINE B == {n - k : k \in S}
<1>1. B \in SUBSET Nat /\ B # {}
  <2>1. \A k \in S : n - k \in Nat
    OBVIOUS
  <2> QED  BY <2>1
<1>2. PICK b \in B : \A m \in B : b <= m
  <2> HIDE DEF B
  <2> QED  BY <1>1, LeastOf
<1>3. PICK x \in S : b = n - x
  OBVIOUS
<1>4. ASSUME NEW k \in S
      PROVE  x >= k
  <2>1. n - k \in B /\ n \in Int /\ k \in Int /\ x \in Int
    OBVIOUS
  <2>2. n - x <= n - k
    <3> HIDE DEF B
    <3> QED  BY <1>2, <1>3, <2>1
  <2> HIDE DEF B
  <2> QED  BY <2>1, <2>2
<1> QED  BY <1>4 DEF Max

LEMMA LeastIs ==
  ASSUME NEW S \in SUBSET Nat, S # {}
  PROVE  Min(S) \in S /\ \A k \in S : Min(S) <= k
  BY LeastOf DEF Min

\* The scene and the fields are what the stack says, through undo and redo; an
\* element is also seen at its angle, until a turn is made, undone or redone.
THEOREM StackIsFollowed == Spec => []PageFollowsStack
<1>1. Inv => PageFollowsStack
  <2> SUFFICES ASSUME Inv, NEW i \in Items
               PROVE  /\ LET done == Done(i, {"add", "delete"})
                             undone == Undone(i, {"add", "delete"})
                         IN IF done # {} THEN i \in page.scene <=> page.stack[Max(done)].op = "add"
                            ELSE undone # {} =>
                                   (i \in page.scene <=> page.stack[Min(undone)].op = "delete")
                      /\ page.item[i] # None =>
                           \A field \in Fields :
                             LET done == Done(i, {field})
                                 undone == Undone(i, {field})
                             IN IF done # {} THEN page.item[i][field] = page.stack[Max(done)].new
                                ELSE undone # {} =>
                                       page.item[i][field] = page.stack[Min(undone)].old
    BY SceneUpright DEF PageFollowsStack
  <2>1. /\ PageInv(page) /\ page.index \in Nat /\ Len(page.stack) \in Nat
        /\ page.index <= Len(page.stack)
    BY PageFacts DEF Inv, PageOK, PageInv
  <2>2. ASSUME NEW ops
        PROVE  /\ Done(i, ops) \in SUBSET (1 .. page.index)
               /\ Undone(i, ops) \in SUBSET Nat
               /\ \A k \in Done(i, ops) :
                    k \in 1 .. Len(page.stack) /\ k <= page.index
                    /\ page.stack[k].item = i /\ page.stack[k].op \in ops
               /\ \A k \in Undone(i, ops) :
                    k \in 1 .. Len(page.stack) /\ k > page.index
                    /\ page.stack[k].item = i /\ page.stack[k].op \in ops
               /\ \A k \in 1 .. Len(page.stack) :
                    page.stack[k].item = i /\ page.stack[k].op \in ops =>
                      k \in Done(i, ops) \/ k \in Undone(i, ops)
    BY <2>1 DEF Done, Undone
  <2>3. ASSUME NEW ops, Done(i, ops) # {}
        PROVE  /\ Max(Done(i, ops)) \in Done(i, ops)
               /\ \A k \in Done(i, ops) : Max(Done(i, ops)) >= k
    BY <2>1, <2>2, <2>3, GreatestIs
  <2>4. ASSUME NEW ops, Undone(i, ops) # {}
        PROVE  /\ Min(Undone(i, ops)) \in Undone(i, ops)
               /\ \A k \in Undone(i, ops) : Min(Undone(i, ops)) <= k
    BY <2>2, <2>4, LeastIs
  <2> DEFINE shows == {"add", "delete"}
  <2>5. ASSUME Done(i, shows) # {}
        PROVE  i \in page.scene <=> page.stack[Max(Done(i, shows))].op = "add"
    <3> DEFINE k == Max(Done(i, shows))
    <3>1. /\ k \in 1 .. Len(page.stack) /\ k <= page.index /\ page.stack[k].item = i
          /\ page.stack[k].op \in shows
          /\ \A l \in Done(i, shows) : k >= l
      BY <2>2, <2>3, <2>5
    <3> HIDE DEF k
    <3>2. ASSUME page.stack[k].op = "add"
          PROVE  i \in page.scene
      <4>1. ASSUME NEW l \in k+1 .. page.index, page.stack[l].op = "delete",
                   page.stack[l].item = i
            PROVE  FALSE
        <5>1. l \in Done(i, shows) /\ ~ (k >= l)
          BY <2>1, <3>1, <4>1 DEF Done
        <5> QED  BY <3>1, <5>1
      <4> QED  BY <2>1, <3>1, <3>2, <4>1 DEF PageInv, SceneFollows
    <3>3. ASSUME page.stack[k].op = "delete"
          PROVE  i \notin page.scene
      BY <2>1, <3>1, <3>3 DEF PageInv, SceneFollows
    <3> QED  BY <3>1, <3>2, <3>3 DEF k
  <2>6. ASSUME Undone(i, shows) # {}
        PROVE  i \in page.scene <=> page.stack[Min(Undone(i, shows))].op = "delete"
    <3> DEFINE k == Min(Undone(i, shows))
    <3>1. /\ k \in 1 .. Len(page.stack) /\ k > page.index /\ page.stack[k].item = i
          /\ page.stack[k].op \in shows
          /\ \A l \in Undone(i, shows) : k <= l
      BY <2>2, <2>4, <2>6
    <3> HIDE DEF k
    <3>2. ASSUME page.stack[k].op = "delete"
          PROVE  i \in page.scene
      <4>1. ASSUME NEW l \in page.index+1 .. k-1, page.stack[l].op = "add",
                   page.stack[l].item = i
            PROVE  FALSE
        <5>1. l \in Undone(i, shows) /\ ~ (k <= l)
          BY <2>1, <3>1, <4>1 DEF Undone
        <5> QED  BY <3>1, <5>1
      <4> QED  BY <2>1, <3>1, <3>2, <4>1 DEF PageInv, SceneFollows
    <3>3. ASSUME page.stack[k].op = "add"
          PROVE  i \notin page.scene
      BY <2>1, <3>1, <3>3 DEF PageInv, SceneFollows
    <3> QED  BY <3>1, <3>2, <3>3 DEF k
  <2>7. ASSUME NEW field \in Fields, page.item[i] # None, Done(i, {field}) # {}
        PROVE  page.item[i][field] = page.stack[Max(Done(i, {field}))].new
    <3> DEFINE k == Max(Done(i, {field}))
    <3>1. /\ k \in 1 .. Len(page.stack) /\ k <= page.index /\ page.stack[k].item = i
          /\ page.stack[k].op = field
          /\ \A l \in Done(i, {field}) : k >= l
      <4>1. k \in Done(i, {field}) /\ \A l \in Done(i, {field}) : k >= l
        BY <2>3, <2>7
      <4> HIDE DEF k
      <4>2. /\ k \in 1 .. Len(page.stack) /\ page.stack[k].item = i
            /\ page.stack[k].op \in {field}
        BY <2>2, <4>1
      <4>3. k <= page.index
        BY <2>2, <4>1
      <4> QED  BY <4>1, <4>2, <4>3
    <3> HIDE DEF k
    <3>2. NoneFrom(page, page.stack[k], k+1, page.index+1)
      <4> SUFFICES ASSUME NEW l \in 1 .. Len(page.stack), k+1 <= l, l < page.index+1,
                          Same(page.stack[k], page.stack[l])
                   PROVE  FALSE
        BY DEF NoneFrom
      <4>1. l \in 1 .. page.index /\ ~ (k >= l)
        BY <2>1, <3>1
      <4>2. l \in Done(i, {field})
        BY <3>1, <4>1 DEF Done, Same
      <4> QED  BY <3>1, <4>1, <4>2
    <3>3. page.item[i][field] = page.stack[k].new
      BY <2>1, <2>7, <3>1, <3>2 DEF PageInv, FieldsFollow
    <3> QED  BY <3>3 DEF k
  <2>8. ASSUME NEW field \in Fields, page.item[i] # None, Undone(i, {field}) # {}
        PROVE  page.item[i][field] = page.stack[Min(Undone(i, {field}))].old
    <3> DEFINE k == Min(Undone(i, {field}))
    <3>1. /\ k \in 1 .. Len(page.stack) /\ k > page.index /\ page.stack[k].item = i
          /\ page.stack[k].op = field
          /\ \A l \in Undone(i, {field}) : k <= l
      <4>1. k \in Undone(i, {field}) /\ \A l \in Undone(i, {field}) : k <= l
        BY <2>4, <2>8
      <4> HIDE DEF k
      <4>2. /\ k \in 1 .. Len(page.stack) /\ page.stack[k].item = i
            /\ page.stack[k].op \in {field}
        BY <2>2, <4>1
      <4>3. k > page.index
        BY <2>2, <4>1
      <4> QED  BY <4>1, <4>2, <4>3
    <3> HIDE DEF k
    <3>2. NoneFrom(page, page.stack[k], page.index+1, k)
      <4> SUFFICES ASSUME NEW l \in 1 .. Len(page.stack), page.index+1 <= l, l < k,
                          Same(page.stack[k], page.stack[l])
                   PROVE  FALSE
        BY DEF NoneFrom
      <4>1. l \in page.index + 1 .. Len(page.stack) /\ ~ (k <= l)
        BY <2>1, <3>1
      <4>2. l \in Undone(i, {field})
        BY <3>1, <4>1 DEF Undone, Same
      <4> QED  BY <3>1, <4>1, <4>2
    <3>3. page.item[i][field] = page.stack[k].old
      BY <2>1, <2>7, <2>8, <3>1, <3>2 DEF PageInv, FieldsFollow
    <3> QED  BY <3>3 DEF k
  <2> HIDE DEF shows
  <2> QED  BY <2>5, <2>6, <2>7, <2>8 DEF shows
<1> QED  BY <1>1, InvHolds, PTL
=============================================================================
