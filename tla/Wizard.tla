-------------------------------- MODULE Wizard --------------------------------
(***************************************************************************)
(* One print wizard from its second page to the button Print: the user     *)
(* chooses a printer, fills in the card of the document, waits for two     *)
(* answers of the daemon (may he use the printer, is the document with     *)
(* this number and copy in the accounting base), chooses a mode, waits for *)
(* the document to be laid over its template, and prints.  He may go back, *)
(* change the card, and start over.                                        *)
(*                                                                         *)
(* The pages keep what earlier answers set, and answers carry nothing that *)
(* tells what was asked: the flags of a page may belong to an earlier      *)
(* choice.  Session is what comes before, PrintQueue what follows Print;   *)
(* GsPipeline has the stages that are one step each here.                  *)
(*                                                                         *)
(* Who answers is not in this repository: the daemon of src/ (Sptsd) gives *)
(* these three questions no answer.  A question may stay unanswered here.  *)
(***************************************************************************)
EXTENDS Integers, Sequences

CONSTANTS
  Printers,   \* the printers in the wizard's list
  Allowed,    \* those the user may print on
  None,       \* no printer, no mode, no card
  Cards,      \* what the user may write in the card of the document
  Number,     \* per card: its number (MB) and copy, by which the base knows it
  Bases,      \* what the accounting base may say at first
  Whole,      \* cards that gs_plugin gets ready: all five copies, or one page
  Modes,      \* the radio buttons: "print" and previews ("full", "part")
  MaxFills,   \* bound: how often the card is filled in or changed
  MaxDetours, \* bound: how often the user goes back or starts over
  Faults,     \* what may go wrong: "job", "netlost"
  MaxFaults   \* bound: how many things go wrong

Numbers == {Number[c] : c \in Cards}

ASSUME WizardAssumption ==
  /\ Allowed \subseteq Printers
  /\ Whole \subseteq Cards
  /\ None \notin Printers \cup Cards \cup Modes
  /\ Bases \subseteq [Numbers -> {"absent", "spoilt", "kept"}]
  /\ MaxFills \in Nat /\ MaxDetours \in Nat /\ MaxFaults \in Nat

VARIABLES
  page,       \* MainWindow::pageId
  printer,    \* the printer chosen in selectPage
  card,       \* what the fields of the form hold
  filled,     \* nothing is missing: template and secrecy level are chosen, too
  fills,      \* how often the card was filled in (bounded by MaxFills)
  converted,  \* docConverted_checkBox
  counted,    \* the card has a number of pages
  auth,       \* authUserToPrinter is checked
  mb,         \* checkCorrectMB is checked
  buttons,    \* the three radio buttons are enabled
  mode,       \* the radio button that is checked
  step,       \* CheckDataPage::step
  pictures,   \* the card whose pages the preview shows
  gkPrinter,  \* PrintTask: the printer
  queued,     \* PrintTask: the card whose files wait in the queue
  converting, \* the document is being converted to PDF
  counting,   \* how many runs of calcPageCount are under way
  work,       \* the preparations under way
  left,       \* an entry for which no job runs may be left on a stack
  base,       \* the accounting base: what it says of each number
  link,       \* the link to the daemon is up
  toGate,     \* messages of the wizard to the GateKeeper
  toWiz,      \* messages of the GateKeeper to the wizard
  toDaemon,   \* messages of the GateKeeper to the daemon
  fromDaemon, \* messages of the daemon to the GateKeeper
  faults,     \* what went wrong so far (bounded by MaxFaults)
  detours,    \* how often the user went back (bounded by MaxDetours)
  handed      \* history: what Print found, printer and card

form == <<printer, card, filled, fills, converted, counted>>
checks == <<auth, mb, buttons, mode, step, pictures>>
server == <<gkPrinter, queued, converting, counting, work, left>>
net == <<base, link, toDaemon, fromDaemon>>
vars == <<page, form, checks, server, net, toGate, toWiz, faults, detours,
          handed>>

Intro == 0  Select == 1  PrintData == 2  CheckData == 3  Preview == 4
Finish == 5

AnyCard == Cards \cup {None}

\* A message and what it says: a printer, a number, a card, or nothing.
Msg(t) == [type |-> t]
Messages(types) == [type : types]
ToGateMsg ==
  Messages({"PRINT", "RESTART"})
    \cup [type : {"IS_MB_EXIST", "REGISTER"}, number : Numbers]
    \cup [type : {"AUTHOR_USER"}, printer : Printers]
    \cup [type : {"CREATE"}, card : Cards]
DaemonSays ==
  {"ALLOWED", "DENIED", "NOT_EXIST", "BRAK", "NOT_BRAK", "REGISTERED"}
ToWizMsg ==
  Messages(DaemonSays \cup {"CONVERTED", "PAGES", "FORMATTED"})
    \cup [type : {"PICTURES"}, card : AnyCard]
ToDaemonMsg ==
  [type : {"IS_MB_EXIST", "REGISTER"}, number : Numbers]
    \cup [type : {"AUTHOR_USER"}, printer : Printers]

TypeOK ==
  /\ page \in Intro .. Finish
  /\ printer \in Printers \cup {None}
  /\ card \in AnyCard
  /\ fills \in 0 .. MaxFills
  /\ {filled, converted, counted, auth, mb, buttons, step, converting, left,
      link} \subseteq BOOLEAN
  /\ mode \in Modes \cup {None}
  /\ pictures \in AnyCard
  /\ gkPrinter \in Printers \cup {None}
  /\ queued \in AnyCard
  /\ counting \in Nat
  /\ work \in Seq([card : Cards, shown : BOOLEAN, cleared : BOOLEAN])
  /\ base \in [Numbers -> {"absent", "registered", "spoilt", "kept"}]
  /\ toGate \in Seq(ToGateMsg)
  /\ toWiz \in Seq(ToWizMsg)
  /\ toDaemon \in Seq(ToDaemonMsg)
  /\ fromDaemon \in Seq(Messages(DaemonSays))
  /\ faults \in 0 .. MaxFaults
  /\ detours \in 0 .. MaxDetours
  /\ handed \subseteq (Printers \cup {None}) \X AnyCard

\* The first page is complete, the document has been sent to be converted.
Init ==
  /\ page = Intro
  /\ printer = None /\ card = None /\ filled = FALSE /\ fills = 0
  /\ converted = FALSE /\ counted = FALSE
  /\ auth = FALSE /\ mb = FALSE /\ buttons = FALSE /\ mode = None
  /\ step = FALSE /\ pictures = None
  /\ gkPrinter = None /\ queued = None
  /\ converting = TRUE /\ counting = 0 /\ work = <<>> /\ left = FALSE
  /\ base \in Bases
  /\ link = TRUE
  /\ toGate = <<>> /\ toWiz = <<>> /\ toDaemon = <<>> /\ fromDaemon = <<>>
  /\ faults = 0 /\ detours = 0
  /\ handed = {}

Fault(kind) == kind \in Faults /\ faults < MaxFaults /\ faults' = faults + 1

-----------------------------------------------------------------------------
(* The user and the pages.                                                 *)

\* selectPage: a printer, and one of four tasks which nothing else asks for.
UserSelects(p) ==
  /\ page = Select
  /\ printer' = p
  /\ UNCHANGED <<page, card, filled, fills, converted, counted, checks, server,
                 net, toGate, toWiz, faults, detours, handed>>

\* printDataPage: all fields but the number of pages, which is read-only.
UserFillsCard(c) ==
  /\ page = PrintData
  /\ c # card \/ ~filled
  /\ fills < MaxFills
  /\ fills' = fills + 1
  /\ card' = c
  /\ filled' = TRUE
  /\ UNCHANGED <<page, printer, converted, counted, checks, server, net,
                 toGate, toWiz, faults, detours, handed>>

\* A radio button that is checked does not toggle again.  The document goes to
\* the GateKeeper with the card; "print" does not wait for it.
UserChoosesMode(m) ==
  /\ page = CheckData
  /\ buttons
  /\ mode # m
  /\ mode' = m
  /\ buttons' = FALSE
  /\ step' = (m = "print")
  /\ toGate' = Append(toGate, [type |-> "CREATE", card |-> card])
  /\ UNCHANGED <<page, form, auth, mb, pictures, server, net, toWiz, faults,
                 detours, handed>>

\* mutant: the check page lets through before the document is ready
EnableNext_skipsStep ==
  CASE page = Intro -> TRUE
    [] page = Select -> printer # None
    [] page = PrintData -> converted /\ counted /\ filled
    [] page = CheckData -> TRUE
    [] page = Preview -> pictures # None
    [] OTHER -> FALSE

\* mutant: there is a page after the last one
EnableNext_pastFinish ==
  CASE page = Intro -> TRUE
    [] page = Select -> printer # None
    [] page = PrintData -> converted /\ counted /\ filled
    [] page = CheckData -> step
    [] page = Preview -> pictures # None
    [] OTHER -> TRUE

\* lastCheck: what each page asks for before the next one is shown, and what it
\* sends then.  checkMB is to ask for the number and the copy of the document;
\* the text of its query is still empty.
EnableNext ==
  CASE page = Intro -> TRUE
    [] page = Select -> printer # None
    [] page = PrintData -> converted /\ counted /\ filled
    [] page = CheckData -> step
    [] page = Preview -> pictures # None
    [] OTHER -> FALSE

Sends ==
  CASE page = PrintData -> <<[type |-> "AUTHOR_USER", printer |-> printer],
                             [type |-> "IS_MB_EXIST", number |-> Number[card]]>>
    [] page = Preview -> <<Msg("PRINT")>>
    [] OTHER -> <<>>

UserGoesOn ==
  /\ EnableNext
  /\ page' = page + 1
  /\ toGate' = toGate \o Sends
  /\ UNCHANGED <<form, checks, server, net, toWiz, faults, detours, handed>>

Detour == detours < MaxDetours /\ detours' = detours + 1

UserGoesBack ==
  /\ Detour
  /\ page > Intro
  /\ page' = page - 1
  /\ UNCHANGED <<form, checks, server, net, toGate, toWiz, faults, handed>>

\* do_restart: the pages forget what they have, except the conversion, the
\* number of pages, the text of the card (its two lists lose their choice) and
\* the radio button that is checked.
UserRestarts ==
  /\ Detour
  /\ page' = Intro
  /\ printer' = None /\ filled' = FALSE
  /\ auth' = FALSE /\ mb' = FALSE /\ buttons' = FALSE
  /\ step' = FALSE /\ pictures' = None
  /\ toGate' = Append(toGate, Msg("RESTART"))
  /\ UNCHANGED <<card, fills, converted, counted, mode, server, net, toWiz,
                 faults, handed>>

-----------------------------------------------------------------------------
(* The wizard receives.                                                    *)

Heard(t) == toWiz # <<>> /\ Head(toWiz).type = t
WizardTakes(types) ==
  /\ \E t \in types : Heard(t)
  /\ toWiz' = Tail(toWiz)
  /\ UNCHANGED <<page, printer, card, filled, fills, mode, server, net, faults,
                 detours, handed>>

WizardConverted ==
  /\ WizardTakes({"CONVERTED"})
  /\ converted' = TRUE
  /\ UNCHANGED <<counted, auth, mb, buttons, step, pictures, toGate>>

WizardCounted ==
  /\ WizardTakes({"PAGES"})
  /\ counted' = TRUE
  /\ UNCHANGED <<converted, auth, mb, buttons, step, pictures, toGate>>

\* enablePreviewButton, called by both checks.
Enable_either == auth' \/ mb'    \* mutant: one check is enough
Enable == auth' /\ mb'

\* setAuthCheck.
WizardAuthorised ==
  /\ WizardTakes({"ALLOWED", "DENIED"})
  /\ auth' = Heard("ALLOWED")
  /\ UNCHANGED mb
  /\ buttons' = Enable
  /\ UNCHANGED <<converted, counted, step, pictures, toGate>>

\* setMbCheck, for a document that is in the base.
WizardMbChecked ==
  /\ WizardTakes({"BRAK", "NOT_BRAK", "REGISTERED"})
  /\ mb' = ~Heard("NOT_BRAK")
  /\ UNCHANGED auth
  /\ buttons' = Enable
  /\ UNCHANGED <<converted, counted, step, pictures, toGate>>

Register == [type |-> "REGISTER", number |-> Number[card]]

\* mutant: a document that is not in the base is taken for checked
WizardRegistersMB_atOnce ==
  /\ WizardTakes({"NOT_EXIST"})
  /\ toGate' = Append(toGate, Register)
  /\ mb' = TRUE
  /\ UNCHANGED auth
  /\ buttons' = Enable
  /\ UNCHANGED <<converted, counted, step, pictures>>

\* mutant: nothing is done about a document that is not in the base
WizardRegistersMB_forgets ==
  /\ WizardTakes({"NOT_EXIST"})
  /\ UNCHANGED <<converted, counted, auth, mb, buttons, step, pictures, toGate>>

\* registerMB, for one that is not: the document of the card that is in the form
\* by now.
WizardRegistersMB ==
  /\ WizardTakes({"NOT_EXIST"})
  /\ toGate' = Append(toGate, Register)
  /\ UNCHANGED <<converted, counted, auth, mb, buttons, step, pictures>>

\* setCheckMergeDocWithTemplates.
WizardFormatted ==
  /\ WizardTakes({"FORMATTED"})
  /\ step' = TRUE
  /\ UNCHANGED <<converted, counted, auth, mb, buttons, pictures, toGate>>

\* showPicturesList; an empty list changes nothing.
WizardShows ==
  /\ WizardTakes({"PICTURES"})
  /\ pictures' = IF Head(toWiz).card = None THEN pictures ELSE Head(toWiz).card
  /\ UNCHANGED <<converted, counted, auth, mb, buttons, step, toGate>>

WizardStep ==
  \/ WizardConverted \/ WizardCounted \/ WizardAuthorised \/ WizardMbChecked
  \/ WizardRegistersMB \/ WizardFormatted \/ WizardShows

-----------------------------------------------------------------------------
(* serverGears::parseMessage and the signals of gs_plugin.                 *)

GateTakes(t) ==
  /\ toGate # <<>>
  /\ Head(toGate).type = t
  /\ toGate' = Tail(toGate)
  /\ UNCHANGED <<page, form, checks, base, link, fromDaemon, faults, detours>>

\* net_plugin::sendMessage writes to a connected socket only.
ToDaemon(m) == toDaemon' = IF link THEN Append(toDaemon, m) ELSE toDaemon
Say(m) == toWiz' = Append(toWiz, m)

GateAuthorises ==
  /\ GateTakes("AUTHOR_USER")
  /\ gkPrinter' = Head(toGate).printer
  /\ ToDaemon(Head(toGate))
  /\ UNCHANGED <<queued, converting, counting, work, left, toWiz, handed>>

GateForwards ==
  /\ GateTakes("IS_MB_EXIST") \/ GateTakes("REGISTER")
  /\ ToDaemon(Head(toGate))
  /\ UNCHANGED <<server, toWiz, handed>>

\* createFormatedDoc.
GateFormats ==
  /\ GateTakes("CREATE")
  /\ work' = Append(work, [card |-> Head(toGate).card, shown |-> FALSE,
                           cleared |-> FALSE])
  /\ UNCHANGED <<gkPrinter, queued, converting, counting, left, toDaemon, toWiz,
                 handed>>

\* checkCurrentFile: nothing happens when the queue is empty.
GatePrints ==
  /\ GateTakes("PRINT")
  /\ handed' = handed \cup {<<gkPrinter, queued>>}
  /\ UNCHANGED <<server, toDaemon, toWiz>>

\* The directories are emptied and the pages counted again.  The print queue
\* stays, and "converted" is said whether or not it is.
GateRestarts ==
  /\ GateTakes("RESTART")
  /\ Say(Msg("CONVERTED"))
  /\ counting' = counting + 1
  /\ work' = [i \in DOMAIN work |-> [work[i] EXCEPT !.cleared = TRUE]]
  /\ UNCHANGED <<gkPrinter, queued, converting, left, toDaemon, handed>>

GateStep ==
  \/ GateAuthorises \/ GateForwards \/ GateFormats \/ GatePrints
  \/ GateRestarts

Without(s, i) == SubSeq(s, 1, i - 1) \o SubSeq(s, i + 1, Len(s))

JobsElse == <<page, form, checks, gkPrinter, net, toGate, detours, handed>>

\* threadFinish for ps2pdf: docConvertedToPdf, and the pages are counted.
DocConverted ==
  /\ converting
  /\ converting' = FALSE
  /\ \/ counting' = counting + 1 /\ Say(Msg("CONVERTED")) /\ UNCHANGED faults
     \/ UNCHANGED <<counting, toWiz>> /\ Fault("job")
  /\ UNCHANGED <<JobsElse, queued, work, left>>

DocReady4work ==
  /\ counting > 0
  /\ counting' = counting - 1
  /\ \/ Say(Msg("PAGES")) /\ UNCHANGED faults
     \/ UNCHANGED toWiz /\ Fault("job")
  /\ UNCHANGED <<JobsElse, queued, converting, work, left>>

\* All png files there are; when the directories were emptied there may be none.
DocReady4preview(i) ==
  /\ ~work[i].shown
  /\ work' = [work EXCEPT ![i].shown = TRUE]
  /\ \E c \in {work[i].card} \cup (IF work[i].cleared THEN {None} ELSE {}) :
       Say([type |-> "PICTURES", card |-> c])
  /\ UNCHANGED <<JobsElse, queued, converting, counting, left, faults>>

\* mutant: the wizard is not told that the document is ready
DocReady4print_silent(i) ==
  /\ work[i].shown /\ work[i].card \in Whole
  /\ work' = Without(work, i)
  /\ queued' = work[i].card
  /\ UNCHANGED <<JobsElse, toWiz, converting, counting, left, faults>>

\* The last conversion ends.  It begins when each of the five entries that
\* catFirstPages pushes has had its job, or when the document has one page.
DocReady4print(i) ==
  /\ work[i].shown /\ work[i].card \in Whole
  /\ work' = Without(work, i)
  /\ queued' = work[i].card
  /\ Say(Msg("FORMATTED"))
  /\ UNCHANGED <<JobsElse, converting, counting, left, faults>>

\* A preparation ends and nobody is told: a job failed, its files are gone, two
\* preparations share one signal, there are entries on a stack for which no job
\* runs: its own, of fewer than five copies, or those of an earlier one.
WorkIsLost(i) ==
  /\ work' = Without(work, i)
  /\ left' = TRUE
  /\ IF \/ work[i].cleared \/ Len(work) > 1
        \/ work[i].card \notin Whole \/ left
       THEN UNCHANGED faults
       ELSE Fault("job")
  /\ UNCHANGED <<JobsElse, toWiz, queued, converting, counting>>

JobStep ==
  \/ DocConverted \/ DocReady4work
  \/ \E i \in DOMAIN work :
       DocReady4preview(i) \/ DocReady4print(i) \/ WorkIsLost(i)

-----------------------------------------------------------------------------
(* The daemon and the link.                                                *)

DaemonElse == <<page, form, checks, server, toGate, toWiz, detours, handed>>

\* The answers GateReceivesAnswer expects, in any order, each about the number
\* that was asked for.
DaemonAnswers(i) ==
  LET q == toDaemon[i]
      known == CASE base[q.number] = "absent" -> "NOT_EXIST"
                 [] base[q.number] = "spoilt" -> "BRAK"
                 [] OTHER -> "NOT_BRAK"
  IN /\ link
     /\ toDaemon' = Without(toDaemon, i)
     /\ base' = IF q.type = "REGISTER"
                  THEN [base EXCEPT ![q.number] = "registered"] ELSE base
     /\ fromDaemon' = Append(fromDaemon, Msg(
          CASE q.type = "REGISTER" -> "REGISTERED"
            [] q.type = "AUTHOR_USER" ->
                 IF q.printer \in Allowed THEN "ALLOWED" ELSE "DENIED"
            [] OTHER -> known))
     /\ UNCHANGED <<DaemonElse, link, faults>>

GateReceivesAnswer ==
  /\ fromDaemon # <<>>
  /\ fromDaemon' = Tail(fromDaemon)
  /\ Say(Head(fromDaemon))
  /\ UNCHANGED <<page, form, checks, server, base, link, toDaemon, toGate,
                 faults, detours, handed>>

LinkLost ==
  /\ Fault("netlost")
  /\ link
  /\ link' = FALSE
  /\ toDaemon' = <<>> /\ fromDaemon' = <<>>
  /\ UNCHANGED <<DaemonElse, base>>

DaemonStep == GateReceivesAnswer \/ \E i \in DOMAIN toDaemon : DaemonAnswers(i)

-----------------------------------------------------------------------------
Next ==
  \/ \E p \in Printers : UserSelects(p)
  \/ \E m \in Modes : UserChoosesMode(m)
  \/ \E c \in Cards : UserFillsCard(c)
  \/ UserGoesOn \/ UserGoesBack \/ UserRestarts
  \/ WizardStep \/ GateStep \/ JobStep \/ DaemonStep \/ LinkLost

Spec == Init /\ [][Next]_vars

\* Event loops and jobs go on; the user need not, nor need the daemon answer.
Progress == WizardStep \/ GateStep \/ JobStep \/ GateReceivesAnswer
FairSpec == Spec /\ WF_vars(Progress)

-----------------------------------------------------------------------------
(* Properties.                                                             *)

\* The user has neither gone back nor started over.
Straight == detours = 0

\* What the base says of the number of a card.
Says(c, answers) == c # None /\ base[Number[c]] \in answers
Usable(c) == Says(c, {"registered", "spoilt"})

\* What Print hands over goes to the printer that is chosen, the daemon allowed
\* it, and the pages are those of the card in the form: as long as the user goes
\* straight on, no later answer slips in between the checks and the button.
PrintedAsChecked ==
  Straight =>
    \A h \in handed :
      h[1] = printer /\ h[1] \in Allowed /\ h[2] \in {None, card}

\* The cards that are laid over a template, shown or ready to be printed.
Prepared ==
  ({queued, pictures} \ {None}) \cup {work[i].card : i \in DOMAIN work}

\* As long as the user goes straight on, a document is laid over a template only
\* when its own number and copy are registered in the base or there as spoilt,
\* however late the answers come.  The tick of an earlier card stays when the
\* user goes back and changes the number: all that is left then is that nothing
\* is prepared while the base has no document that may be printed.
RegisteredBeforePrepared ==
  /\ Straight => \A c \in Prepared : Usable(c)
  /\ Prepared # {} => \E c \in Cards : Usable(c)

\* With a preview, Print finds the document in the print queue; without one the
\* pictures may come before the queue is filled, and Print does nothing then.
PrintFindsDocument ==
  Straight /\ mode # "print" => \A h \in handed : h[2] # None

\* Both checks end, and the user can choose a mode, unless the printer is
\* denied, the document was printed before, the link is lost, or the daemon
\* leaves a question unanswered.
ChecksAreAnswered ==
  page = CheckData /\ Straight
    ~> (auth /\ mb) \/ printer \notin Allowed \/ Says(card, {"kept"}) \/ ~link
         \/ ~Straight \/ [](toDaemon # <<>>)

\* A document whose mode was chosen is shown, is in the print queue, and the way
\* to Print is free, unless a job fails or the document has several pages and
\* fewer than five copies are printed.
ChosenGetsReady ==
  mode # None /\ card \in Whole /\ Straight
    ~> (pictures = card /\ queued = card /\ step) \/ faults > 0 \/ ~Straight
===============================================================================
