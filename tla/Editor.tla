-------------------------------- MODULE Editor --------------------------------
(***************************************************************************)
(* The template editor: one page of a template, drawn as a scene with an   *)
(* undo stack of its own, and the database file it was read from.          *)
(*                                                                         *)
(* tmpl_sql_plugin holds the connection DB_, the flag m_dbOpened and a     *)
(* file name of its own, currentDBFileName; the window holds templ_load.   *)
(* Open, New, Save and Save As each set some of them.  Elements refer to   *)
(* memory: a command keeps a pointer to its element, and the command that  *)
(* added an element destroys it when it leaves the stack.                  *)
(*                                                                         *)
(* An element has a tag, a look (position, font and colour, which have     *)
(* commands of one form) and the angle of its last turn, which is what a   *)
(* file holds of how it is turned.  The rotation on the screen is another  *)
(* matter: setAngle turns the element on by the angle it sets, and so do   *)
(* undoing and redoing it.  The text shown for a tag, the view of codes or *)
(* values, the wheel and the mouse on a picture, and the other pages,      *)
(* which are alike, are left out.                                          *)
(***************************************************************************)
EXTENDS Integers, Sequences, SequencesExt, FiniteSetsExt

CONSTANTS
  Files,       \* names a user gives to templates
  Temp,        \* the file of a new template that has no name yet
  None,        \* no file, no object
  Items,       \* bound: memory for elements
  Tags, Looks,
  Angles,      \* of turns, in degrees
  Picture,     \* the tag of an element that is a picture
  Stored,      \* what template files hold at first
  Limits,      \* the undo limits a user sets; 0 is none
  MaxActs,     \* bound: dialogs and edits of the user
  MaxFaults    \* bound: faults

Elem == [tag : Tags \cup {Picture}, look : Looks, angle : Angles]
Rows == UNION {[S -> Elem] : S \in SUBSET Items}
Degrees == 0 .. 359

ASSUME EditorAssumption ==
  /\ Temp \notin Files /\ None \notin Files \cup {Temp} \cup Items \cup Elem
  /\ IsFiniteSet(Items)
  /\ 0 \in Looks /\ 0 \in Angles /\ 0 \in Limits /\ Limits \subseteq Nat
  /\ Angles \subseteq Degrees
  /\ Picture \notin Tags
  /\ Stored \subseteq Rows
  /\ MaxActs \in Nat /\ MaxFaults \in Nat

VARIABLES
  files,       \* what is on the disk: the rows of elem, or None
  db,          \* the file DB_ is connected to
  dbOpened,    \* m_dbOpened
  name,        \* currentDBFileName
  templLoad,   \* templ_load of the window
  page,        \* the scene and its undo stack; page.rot is how elements are
               \* turned on the screen, page.turned a history: the ones turned
               \* again, back or forth since they were made or read
  home,        \* history: the file the page was filled from
  clean,       \* history: not edited since it was filled or saved as a whole
  cut,         \* history: commands left the stack because of the undo limit
  acts, faults

link == <<db, dbOpened, name>>
past == <<home, clean>>
count == <<acts, faults>>
vars == <<files, link, templLoad, page, past, cut, count>>

Fields == {"tag", "look", "angle"}
Command == [op : {"add", "delete"}, item : Items]
             \cup [op : Fields, item : Items,
                   old : Tags \cup {Picture} \cup Looks \cup Angles,
                   new : Tags \cup {Picture} \cup Looks \cup Angles]

TypeOK ==
  /\ DOMAIN files = Files \cup {Temp}
  /\ \A f \in DOMAIN files : files[f] = None \/ files[f] \in Rows
  /\ db \in Files \cup {Temp, None} /\ name \in Files \cup {Temp, None}
  /\ dbOpened \in BOOLEAN /\ templLoad \in BOOLEAN
  /\ DOMAIN page.item = Items /\ page.scene \subseteq Items
  /\ \A i \in Items : page.item[i] = None \/ page.item[i] \in Elem
  /\ page.rot \in [Items -> Degrees] /\ page.turned \subseteq Items
  /\ \A c \in Range(page.stack) : c \in Command
  /\ page.index \in 0 .. Len(page.stack)
  /\ page.limit \in Limits
  /\ home \in Files \cup {Temp, None} /\ clean \in BOOLEAN /\ cut \in BOOLEAN
  /\ acts \in 0 .. MaxActs /\ faults \in 0 .. MaxFaults

-----------------------------------------------------------------------------
(* The scene and its commands.                                             *)

\* A page without elements; the undo limit stays what it was.
EmptyPage(limit) ==
  [item |-> [i \in Items |-> None], scene |-> {}, stack |-> <<>>, index |-> 0,
   limit |-> limit, rot |-> [i \in Items |-> 0], turned |-> {}]

\* QGraphicsItem::rotate: from a, on by v.
Rotated(a, v) == (a + v) % 360

\* setETag, setFont and the like, and setAngle, which rotates by the angle on
\* top of what the element is turned by already.
SetField(p, i, field, v) ==
  IF field = "angle"
    THEN [p EXCEPT !.item[i].angle = v, !.rot[i] = Rotated(@, v),
                   !.turned = @ \cup {i}]
    ELSE [p EXCEPT !.item[i][field] = v]

Redo(p, c) ==
  CASE c.op = "add"    -> [p EXCEPT !.scene = @ \cup {c.item}]
    [] c.op = "delete" -> [p EXCEPT !.scene = @ \ {c.item}]
    [] OTHER           -> SetField(p, c.item, c.op, c.new)

Undo(p, c) ==
  CASE c.op = "add"    -> [p EXCEPT !.scene = @ \ {c.item}]
    [] c.op = "delete" -> [p EXCEPT !.scene = @ \cup {c.item}]
    [] OTHER           -> SetField(p, c.item, c.op, c.old)

\* Commands leave the stack: the one that added an element destroys it unless
\* the scene has it.
Destroy(p, gone) ==
  LET dead == {i \in Items \ p.scene : \E c \in Range(gone) : c = [op |-> "add", item |-> i]}
  IN [p EXCEPT !.item = [i \in Items |-> IF i \in dead THEN None ELSE @[i]]]

\* Commands beyond the undo limit, at the bottom of the stack.
Surplus(p) ==
  IF p.limit = 0 \/ Len(p.stack) <= p.limit THEN 0 ELSE Len(p.stack) - p.limit

\* mutant: what was undone stays in the stack
Push_keepsUndone(p, c) ==
  [Redo(p, c) EXCEPT !.stack = Append(p.stack, c), !.index = @ + 1]

\* QUndoStack::push: the command is executed, what was undone leaves the stack,
\* then what is beyond the limit.
Push(p, c) ==
  LET tail == SubSeq(p.stack, p.index + 1, Len(p.stack))
      full == [Destroy(Redo(p, c), tail) EXCEPT
                 !.stack = Append(SubSeq(p.stack, 1, p.index), c),
                 !.index = p.index + 1]
      n    == Surplus(full)
  IN [Destroy(full, SubSeq(full.stack, 1, n)) EXCEPT
        !.stack = SubSeq(full.stack, n + 1, Len(full.stack)),
        !.index = @ - n]

Set(i, field, old, new) == [op |-> field, item |-> i, old |-> old, new |-> new]

\* addBaseElem: the element is made in memory that holds some angle, which the
\* constructor does not set, and is not turned; two commands are pushed.
\* Pictures (addImgElem) have no commands.
AddElem(p, i, e, left) ==
  IF e.tag = Picture
    THEN [p EXCEPT !.item[i] = e, !.scene = @ \cup {i}, !.rot[i] = e.angle,
                   !.turned = @ \ {i}]
    ELSE LET made  == [p EXCEPT !.item[i] = [e EXCEPT !.angle = left],
                                !.rot[i] = 0]
             added == Push(Push(made, [op |-> "add", item |-> i]),
                           Set(i, "angle", left, e.angle))
         IN [added EXCEPT !.turned = @ \ {i}]

\* fillScenes4Data: the stack is cleared, then the scene, and the elements of
\* the database are added.
FillScene(p, rows, left) ==
  FoldSet(LAMBDA i, q : AddElem(q, i, rows[i], left), EmptyPage(p.limit), DOMAIN rows)

\* The elements in the scene as rows of elem, which hold the angle of the last
\* turn.
RowsOf(p) == [i \in p.scene |-> p.item[i]]

Init ==
  /\ files \in [Files \cup {Temp} -> {None} \cup Stored]
  /\ files[Temp] = None
  /\ db = None /\ dbOpened = FALSE /\ name = None /\ templLoad = FALSE
  /\ page = EmptyPage(0)
  /\ home = None /\ clean = FALSE /\ cut = FALSE
  /\ acts = 0 /\ faults = 0

-----------------------------------------------------------------------------
(* Files.                                                                  *)

Acts == acts < MaxActs /\ acts' = acts + 1
Fault == faults < MaxFaults /\ faults' = faults + 1
NoFault == UNCHANGED faults

\* Two commands for every text.
CommandsFor(rows) ==
  2 * Cardinality({i \in DOMAIN rows : rows[i].tag # Picture})

FilledFrom(f) ==
  /\ \E left \in Angles : page' = FillScene(page, files'[f], left)
  /\ home' = f /\ clean' = TRUE
  /\ cut' = (page.limit # 0 /\ CommandsFor(files'[f]) > page.limit)

\* The page is left alone; clean ends when its file was just written over.
NotFilled(f) ==
  /\ clean' = (clean /\ (f = home => files'[f] = files[f]))
  /\ UNCHANGED <<page, home, cut>>

\* mutant: whether the models were filled does not count
OpenTemplates_anyModels(f) ==
  /\ files'[f] # None
  /\ \/ /\ NoFault
        /\ db' = f /\ dbOpened' = TRUE
        /\ FilledFrom(f)
     \/ /\ Fault
        /\ db' \in {None, f} /\ dbOpened' = (db' = f)
        /\ NotFilled(f)

\* openTemplates.  A file that is no database is refused and the connection
\* closed; one without the tables stays connected, and the page is left alone
\* as the template has no pages.
OpenTemplates(f) ==
  /\ files'[f] # None
  /\ \/ /\ NoFault
        /\ db' = f /\ dbOpened' = TRUE
        /\ FilledFrom(f)
     \/ /\ Fault
        /\ db' \in {None, f} /\ dbOpened' = FALSE
        /\ NotFilled(f)

\* loadTemplates.
OpenTemplate(f) ==
  /\ Acts /\ files[f] # None
  /\ files' = files
  /\ OpenTemplates(f)
  /\ templLoad' = dbOpened'
  /\ UNCHANGED name

\* A dialog that is left without a name counts as a template not loaded.
OpenCancelled ==
  /\ Acts
  /\ templLoad' = FALSE
  /\ UNCHANGED <<files, link, page, past, cut, faults>>

\* A name that openTemplates refuses, or that no file has any more: DB_ stays
\* connected as it is.
OpenRefused ==
  /\ Acts
  /\ templLoad' = FALSE /\ dbOpened' = FALSE
  /\ UNCHANGED <<files, db, name, page, past, cut, faults>>

\* saveTemplatesAs of the plugin, with currentDBFileName = from: the file f is
\* removed, from copied to it and opened.
CopyTo(from, f) ==
  /\ f # from /\ files[from] # None
  /\ files' = [files EXCEPT ![f] = files[from]]
  /\ name' = f
  /\ OpenTemplates(f)

\* When f cannot be written, or is itself what should be copied, the connection
\* stays closed, and f may be gone.
CopyFails(from, f) ==
  /\ IF f # from /\ files[from] # None
       THEN Fault /\ \E rest \in {files[f], None} : files' = [files EXCEPT ![f] = rest]
       ELSE NoFault /\ files' = [files EXCEPT ![f] = None]
  /\ db' = None
  /\ UNCHANGED <<dbOpened, name, page, past, cut>>

\* saveTemplatesAs: nothing happens as long as currentDBFileName is not set,
\* and only New and Save As set it.
SaveAs(f) ==
  /\ Acts
  /\ IF name = None
       THEN UNCHANGED <<files, link, page, past, cut, faults>>
       ELSE CopyTo(name, f) \/ CopyFails(name, f)
  /\ UNCHANGED templLoad

\* create_emptyDB: tables, page sizes and pages, but no elements.
EmptyDB == <<>>

\* createNewTemplate when the dialog that follows is left: the database of the
\* new template is open, the page and the tabs are those of before.  When its
\* tables cannot be made, the connection stays with it.
NewCancelled ==
  /\ Acts
  /\ \/ /\ files' = [files EXCEPT ![Temp] = EmptyDB] /\ db' = Temp
        /\ \/ dbOpened' = TRUE /\ NoFault
           \/ dbOpened' = FALSE /\ Fault
     \/ files' = files /\ db' = None /\ dbOpened' = FALSE /\ Fault
  /\ name' = Temp
  /\ UNCHANGED <<templLoad, page, past, cut>>

\* do_needCreateEmptyTemplates: the new database is copied to f and opened, and
\* opened again by loadFromFile when that went well.
NewTemplate(f) ==
  /\ Acts
  /\ files' = [files EXCEPT ![Temp] = EmptyDB, ![f] = EmptyDB]
  /\ name' = f
  /\ \/ OpenTemplates(f) /\ templLoad' = (templLoad \/ dbOpened')
     \/ /\ Fault
        /\ db' \in {None, f} /\ dbOpened' = FALSE /\ templLoad' = FALSE
        /\ FilledFrom(f)

\* The copy fails, m_dbOpened speaks of the temporary file, and loadFromFile
\* opens what is there under the name f, if anything.
NewNotCopied(f) ==
  /\ Acts /\ Fault
  /\ \E rest \in {files[f], None} :
       files' = [files EXCEPT ![Temp] = EmptyDB, ![f] = rest]
  /\ name' = Temp
  /\ dbOpened' = (files'[f] # None) /\ templLoad' = dbOpened'
  /\ IF dbOpened' THEN db' = f /\ FilledFrom(f)
                  ELSE db' = None /\ UNCHANGED <<page, past, cut>>

\* mutant: the rows of before stay
Written_added(rows) ==
  [i \in DOMAIN rows \cup DOMAIN files[db] |->
     IF i \in DOMAIN rows THEN rows[i] ELSE files[db][i]]

\* All rows are deleted, then those of the scene inserted.
Written(rows) == rows

\* saveTemplates: the result of an INSERT is not looked at, so only some rows
\* may be there.  With the connection closed nothing is written.
Save ==
  /\ dbOpened /\ db # None
  /\ \E kept \in SUBSET page.scene :
       /\ IF kept = page.scene THEN NoFault ELSE Fault
       /\ files' = [files EXCEPT ![db] =
                      Written([i \in kept |-> page.item[i]])]
       /\ clean' = IF db # home THEN clean ELSE kept = page.scene
  /\ UNCHANGED <<link, templLoad, page, home, cut, acts>>

\* The editor is left or killed, in the worst case while it saves: each row is
\* a transaction of its own.  It asks nothing and starts again with nothing.
Leave ==
  /\ Fault
  /\ \/ files' = files
     \/ /\ dbOpened /\ db # None
        /\ \E kept \in SUBSET page.scene :
             files' = [files EXCEPT ![db] = [i \in kept |-> page.item[i]]]
  /\ db' = None /\ dbOpened' = FALSE /\ name' = None /\ templLoad' = FALSE
  /\ page' = EmptyPage(0)
  /\ home' = None /\ clean' = FALSE /\ cut' = FALSE
  /\ UNCHANGED acts

-----------------------------------------------------------------------------
(* Editing.                                                                *)

Edits ==
  /\ Acts
  /\ clean' = FALSE
  /\ UNCHANGED <<files, link, templLoad, home, faults>>

\* The user's commands end in a push, and perhaps in a cut.
Does(c) ==
  /\ Edits
  /\ page' = Push(page, c)
  /\ cut' = (cut \/ (page.limit # 0 /\ page.index + 1 > page.limit))

Free == {i \in Items : page.item[i] = None
                       /\ \A c \in Range(page.stack) : c.item # i}

\* do_CmdButtonClick, which wants a loaded template.
AddElement(t) ==
  /\ templLoad /\ Free # {}
  /\ Edits
  /\ LET i == CHOOSE j \in Free : TRUE
     IN \E left \in Angles :
          page' = AddElem(page, i, [tag |-> t, look |-> 0, angle |-> 0], left)
  /\ cut' = (cut \/ (t # Picture /\ page.limit # 0 /\ page.index + 2 > page.limit))

\* contextMenuEvent, of an element that is shown.  Only texts have commands.
Texts == {i \in page.scene : page.item[i].tag # Picture}

ChangeField(i, field, new) ==
  Does(Set(i, field, page.item[i][field], new))

\* mutant: a deleted element is destroyed at once
DeleteElement_destroys(i) ==
  LET p == IF page.item[i].tag = Picture
             THEN [page EXCEPT !.scene = @ \ {i}]
             ELSE Push(page, [op |-> "delete", item |-> i])
  IN /\ Edits /\ UNCHANGED cut
     /\ page' = [p EXCEPT !.item[i] = None]

DeleteElement(i) ==
  IF page.item[i].tag = Picture
    THEN /\ Edits /\ UNCHANGED cut
         /\ page' = [page EXCEPT !.scene = @ \ {i}, !.item[i] = None]
    ELSE Does([op |-> "delete", item |-> i])

\* The actions of the QUndoGroup.  A command whose element is destroyed is
\* undefined; the model goes no further with it.
UndoCommand ==
  /\ page.index > 0
  /\ LET c == page.stack[page.index]
     IN /\ page.item[c.item] # None
        /\ page' = [Undo(page, c) EXCEPT !.index = @ - 1]
  /\ Edits /\ UNCHANGED cut

RedoCommand ==
  /\ page.index < Len(page.stack)
  /\ LET c == page.stack[page.index + 1]
     IN /\ page.item[c.item] # None
        /\ page' = [Redo(page, c) EXCEPT !.index = @ + 1]
  /\ Edits /\ UNCHANGED cut

\* mutant: the limit counts from zero
SetUndoLimit_fromZero(n) ==
  /\ page.stack = <<>> /\ n # page.limit
  /\ page' = [page EXCEPT !.limit = n - 1]
  /\ UNCHANGED <<files, link, templLoad, past, cut, count>>

\* updateUndoLimit: only an empty stack gets a limit.
SetUndoLimit(n) ==
  /\ page.stack = <<>> /\ n # page.limit
  /\ page' = [page EXCEPT !.limit = n]
  /\ UNCHANGED <<files, link, templLoad, past, cut, count>>

EditStep ==
  \/ \E t \in Tags \cup {Picture} : AddElement(t)
  \/ \E i \in Texts :
       \/ \E t \in Tags : ChangeField(i, "tag", t)
       \/ \E l \in Looks \ {page.item[i].look} : ChangeField(i, "look", l)
       \/ \E a \in Angles \ {0} : ChangeField(i, "angle", a)
  \/ \E i \in page.scene : DeleteElement(i)
  \/ UndoCommand \/ RedoCommand
  \/ \E n \in Limits : SetUndoLimit(n)

FileStep ==
  \/ \E f \in Files : OpenTemplate(f) \/ SaveAs(f) \/ NewTemplate(f) \/ NewNotCopied(f)
  \/ OpenCancelled \/ OpenRefused \/ NewCancelled \/ Save \/ Leave

Next == EditStep \/ FileStep

Spec == Init /\ [][Next]_vars

-----------------------------------------------------------------------------
(* Properties.                                                             *)

\* As long as no command was lost to an undo limit, every command in the stack
\* refers to an element that exists, so undoing and redoing it is defined.
CommandsHaveElements ==
  ~cut => \A c \in Range(page.stack) : page.item[c.item] # None

Done(i, ops) ==
  {k \in 1 .. page.index : page.stack[k].item = i /\ page.stack[k].op \in ops}
Undone(i, ops) ==
  {k \in page.index + 1 .. Len(page.stack) :
     page.stack[k].item = i /\ page.stack[k].op \in ops}

\* An element is in the scene, and has the tag, the look and the angle for the
\* file, that the last command done on it or else the first one undone says,
\* through any order of edits, undoing, saving, reading and a stack cut by its
\* limit.  On the screen it is turned by that angle as long as no turn was made,
\* undone or redone since it was made or read; after that it may be turned
\* otherwise, as undoing a turn turns on.
PageFollowsStack ==
  \A i \in Items :
    /\ LET done == Done(i, {"add", "delete"})
           undone == Undone(i, {"add", "delete"})
       IN IF done # {} THEN i \in page.scene <=> page.stack[Max(done)].op = "add"
          ELSE undone # {} =>
                 (i \in page.scene <=> page.stack[Min(undone)].op = "delete")
    /\ page.item[i] # None =>
         \A field \in Fields :
           LET done == Done(i, {field})
               undone == Undone(i, {field})
           IN IF done # {} THEN page.item[i][field] = page.stack[Max(done)].new
              ELSE undone # {} => page.item[i][field] = page.stack[Min(undone)].old
    /\ i \in page.scene \ page.turned => page.rot[i] = page.item[i].angle

\* Save writes what the page shows into the file the page was filled from,
\* whichever dialogs were left and files refused before; the temporary file of
\* a new template alone may get the elements of another one.
SavesWhereItCameFrom ==
  dbOpened /\ db \notin {None, Temp} => home = db

\* A page that was not edited since it was read or wholly saved has the elements
\* its file holds, with the same tags, looks and angles, as long as there is
\* that file.  What was not turned before is seen at the angle in the file; what
\* was turned twice, and saved, will be seen otherwise when it is read again.
PageIsItsFile ==
  clean /\ files[home] # None =>
    /\ files[home] = RowsOf(page)
    /\ \A i \in page.scene \ page.turned : page.rot[i] = files[home][i].angle

=============================================================================
