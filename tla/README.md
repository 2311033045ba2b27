# Verification of the safe printer (vp_plugins)

The repository holds a "safe printer": a document reaches a printer only
through a gate that lays the elements of a template over it, keeps one print
queue per client, and records who printed which copy and whether the copy was
clear or spoilt. This directory models the parts that decide what is printed,
in which order, and what is recorded: TLA+ modules, TLC configurations, and
proofs for TLAPS.

Paths below are relative to `src/vp_plugins/` unless they begin with `src/`.

## 1. The system

```
 CUPS backend / virtual printer
        | starts, with the PostScript of the job
        v
  print_monitor  --- local socket --->  auth_net_server (GateKeeper)  --- TCP --->  sptsd
  (wizard, user)  <--------------------  |  gs_plugin   (gs, pdftk)    <---------  (print daemon)
                                         |  tmpl_sql_plugin (templates)              |  CUPS
                                         |  auth_plugin  (name, mandate)             |  access control system
                                         |  net_plugin   (link to sptsd)             |  accounting base
```

Each program is one Qt event loop. Nothing in them shares memory across
threads but the threads of `gs_plugin`'s external programs, whose end is
delivered as a queued signal. So a handler runs to completion, unless it opens
a modal message box (an event loop of its own). What interleaves are: the
messages on the local sockets and on the TCP link, the external programs, and
the user.

### Components

| Component | State | Operations | Talks to | Modelled in |
|---|---|---|---|---|
| GateKeeper, printing (`auth_net_server/servergears.cpp`, `printtask.cpp`) | per client a `PrintTask`: three parallel queues (names, copy numbers, sizes), page count, printer | `do_docReady4print` fills the queues; `checkCurrentFile`, `sendFileToDemon` drain them; verdicts are passed on | wizard (markers 111-444), daemon (size check, file, verdict) | PrintQueue |
| GateKeeper, preparing (`servergears.cpp`, `createFormatedDoc`) | the chosen template, directories of up to five copies | write the template pages, start the merge, forward readiness | gs_plugin, tmpl_sql_plugin, wizard | GsPipeline |
| gs_plugin (`gs_plugin/*`) | `jobs_list`, per client a `ClientData` with four stacks | convert, count, split, merge, png, cat, ps; `threadFinish` | external programs, GateKeeper (signals) | GsPipeline |
| Connections (`serverGears::readyRead`, `net_plugin::readyRead`, `global/mysocketclient.cpp`, `global/message.cpp`) | `packetSize`, the bytes in the sockets | build a packet, put packets together | every pair of programs | Framing, Channel |
| GateKeeper, session (`servergears.cpp`, `parseMessage`, `reciveNetworkMessage`) | uuid of every socket, `netDemonReady`, `u_login`, `u_mandat` | registration, status, templates, conversion, secrecy levels, printers; checks of printer and document, preparing, restarting | all | Session (first page), Wizard (the others) |
| net_plugin (`net_plugin/net_plugin.cpp`) | socket, uid | connect, register, send | sptsd | Session, PrintQueue, Wizard (lost link), Framing |
| print_monitor (`engine.cpp`, `mainwindow.cpp`, the pages) | the pages of the wizard and what each keeps, open boxes | find and start the GateKeeper, choose a mandate, printer, card and mode, go back, start over, print, judge | GateKeeper, user | Session, Wizard, PrintQueue |
| tmpl_sql_plugin (`tmpl_sql_plugin.cpp`) | the connection to a template (SQLite), a file name, a flag | `prepare_template`; open, create, save, copy a template; fill the scenes | GateKeeper, tEditor | GsPipeline (the files it writes, its failure), Editor |
| tEditor (`tEditor/mainwindow.cpp`, `global/myscene.cpp`, `global/commands.h`) | eight pages, each a scene and an undo stack | add, change, turn, delete elements; undo, redo; undo limit; open, new, save, save as | tmpl_sql_plugin, user | Editor (one page) |
| auth_plugin | name, mandate | read once at start | GateKeeper | Session (`GateComesUp`) |
| server process (`server.cpp`) | plugins, tray | read settings, load plugins, say good bye, end | all | Session |
| sptsd (`sptsd/sptsd.cpp`) | per connection one uid, one command type, one outgoing command, one connection to SURD | read a packet, ask SURD, parse its answer, print | GateKeeper, CUPS, SURD | Sptsd; the answers the GateKeeper expects, but sptsd does not give, in PrintQueue, Session and Wizard |
| settings, tray, db_model | forms, tables, files | sequential | - | not modelled (section 9) |
| earlier generations (`src/safeFatPrinter`, `src/TempatesEditor`, `src/simpleDemon`, `vprn_demon`, `print_acpu`, `src/*.pl`), SQL schema, `src/www`, vendored code | - | - | - | not modelled (section 9) |

### How a document is printed

1. The wizard registers; the GateKeeper connects the link to the daemon and
   reports its state.
2. The wizard asks for the conversion to PDF. `gs_plugin` converts, counts the
   pages, and splits the first page from the others.
3. The user fills in the document card; the wizard asks for a formatted
   document. The template writes up to four pages (first, other, over, last)
   for each of up to five copies; the document is merged with them, drawn for
   the preview, joined to one face file per copy, and converted for the
   printer.
4. `docReady4print` makes the GateKeeper fill the three queues. For each copy:
   111, face, 222, reverse side, 333, last page, 444, label.
5. The user presses Print on the preview. Every print request and every "file
   printed" answer takes one entry: a marker goes to the wizard (111 is
   answered at once, 222 and 333 ask the user to turn or insert sheets, 444
   asks for the verdict); a file's size is checked with the daemon first, and
   the file is sent when the daemon has room.
6. The verdict (clear or spoilt) is stored in the accounting base.

### What is hard, and what makes each part correct

* **Print queue.** Three queues that mean something only together are filled
  and drained by different handlers, at different moments of a conversation
  of four parties, and one is cleared without the others. Correct means: a
  file is sent with the size and the copy number meant for it, in order, and
  once; sides are printed after the user turned the sheets; a verdict is asked
  for a copy whose pages have all gone out; one press of Print does not become
  two conversations; a copy that was begun gets its verdict, if the daemon
  answers.
* **Pipeline.** Up to dozens of programs run at once; stacks count them, and
  preparations, failures, a restart and a client that leaves overlap. Correct
  means: each program has its entry; readiness is signalled once nothing runs;
  what is printed is complete, and is what was previewed; the document does
  become ready.
* **Framing.** A stream is split and joined anywhere, the slot may run inside
  itself, and clients share a member. Correct means: messages come out whole,
  once, in order, and none is left lying.
* **Session.** The state of the server is asked for once, and its answer may
  come before the daemon's. Flags are set and never reset, one mandate serves
  all clients, and the GateKeeper may be started by two wizards, close, or lose
  its link meanwhile; one that crashed leaves a file in the way of the next.
  Correct means: answers reach the wizard that asked; the lists a wizard shows
  belong together; nothing is asked before the daemon confirmed the GateKeeper;
  a wizard gets to its second page.
* **Wizard.** Pages keep what earlier answers set, and an answer does not say
  what was asked. Correct means: what is printed is what was checked; no
  document is prepared that the accounting base does not have; the checks end.
* **Daemon.** One object keeps one outstanding command for all clients behind
  a connection. Correct means: a client gets the answer to its own question,
  and no more answers than questions.
* **Editor.** Commands hold pointers to elements which the command that added
  them destroys; connection, file name, flag and page are set by different
  handlers. Correct means: undoing is defined and restores what was; one
  template is not saved over another; a template that was not edited is what
  its file holds.

The hazards, each at its line and with the properties that cover it, are in
`PROJECT.json`.

## 2. Modules

| Module | Role |
|---|---|
| `PrintQueue` | the print protocol: queues, wizard, user, daemon, faults |
| `GsPipeline` | the document pipeline of one client |
| `Framing` | packets on byte streams |
| `Channel` | abstract specification of a connection; `Framing` implements it |
| `Session` | wizards, the GateKeeper process and the link up to the wizard's second page |
| `Wizard` | one wizard from its second page to Print |
| `Sptsd` | a connection of the print daemon and its connection to SURD |
| `Editor` | the template editor: a page, its undo stack, the template files |
| `MCPrintQueue`, `MCGsPipeline`, `MCFraming`, `MCSession`, `MCWizard`, `MCSptsd`, `MCEditor` | constants of the runs |
| `PrintQueue_proofs`, `GsPipeline_proofs`, `Framing_proofs`, `Session_proofs`, `Wizard_proofs`, `Sptsd_proofs`, `Editor_proofs` | theorems and their proofs |

`sptsd` is the only print daemon in the repository, and it gives few of the
answers `serverGears::reciveNetworkMessage` is made for. It answers the
registration (10, by 1010) and the question for mandates (600, by 1600). A file
to print (6000) it prints without a word (`sptsd.cpp:43-54`); the question for
space (6060), those about a document and the registration of one fall into a
default branch (`:196`); what SURD says of levels, printers and rights is only
logged (`:362-445`). An emulation of the others in
`net_plugin.cpp:173-297` is commented out. So wherever the modules PrintQueue,
Session and Wizard have a daemon, it is one that gives the answers the
GateKeeper handles *or none*, at any moment and for ever, and nothing assumes an
answer `sptsd` does not give. Safety then holds with `sptsd` and with a daemon
still to be written; progress is stated up to an answer that does not come.

A document passes from one module to the next: `Session` ends with the first
page complete and the document sent to be converted, which is where `Wizard`
begins; the stages of `GsPipeline` are one step each there (`DocReady4preview`,
`DocReady4print`); what `Wizard` hands over with Print is what `PrintQueue`
sends. All of them talk over connections that `Framing` shows to be channels,
and `Sptsd` is the other end of the link.

An operator named `X_y` with the comment "mutant" is `X` as a plausible mistake
would have it. No specification uses it. Putting it in the place of `X` makes
TLC report the violation of the property `PROJECT.json` pairs it with, so every
property is one that a mistake in the code can break.

### PrintQueue

| Variable | Code |
|---|---|
| `files`, `copies`, `sizes` | `PrintTask::m_queueFiles2Print`, `m_PrintDocCopies`, `m_FileSizes` |
| `toClient`, `toGate` | messages on the local socket |
| `dialogs` | the message boxes of `MainWindow::do_UserNeedFlipPages`, `do_UserNeedCheckLastPage`, `do_UserNeedMarkCopies`, the topmost last |
| `toDaemon`, `fromDaemon` | messages on the link |
| `online`, `netUp` | the client's socket is known; the link is connected |
| `doc`, `checked`, `sent`, `confirmed`, `saved`, `silent` | history, read by properties only; `silent`: the daemon left a request without an answer |

| Action | Code |
|---|---|
| `DocReady4print` | `serverGears::do_docReady4print`: `clearQueue` empties one queue, the order list is enqueued in all three |
| `GateReceivesPrint`, with `CheckCurrentFile` | Que_PrintCurrentFormatedDoc, `checkCurrentFile` |
| `GateReceivesAnswer`, with `SendFileToDaemon` | the daemon's four answers |
| `GateReceivesVerdict` | Ans_UserNeedMarkCopies: the verdict is passed on to the daemon |
| `ClientReceivesMarker`, `UserPrints`, `UserConfirms`, `UserJudges` | wizard and user |
| `DaemonHandles`, `NetLost`, `ClientGone` | the daemon's answers, if any; faults |

An entry is named by copy and key, because the properties tell no more apart.
The loop of `do_docReady4print` that counts entries and looks them up by key is
kept as it is (`Entry`): with fewer than eight entries the highest keys fall
away. A modal box stops the wizard's buttons but not its socket, so further
markers can open boxes above it. Answers to requests that change no state at
the other end are left out.

### GsPipeline

| Variable | Code |
|---|---|
| `jobs` | `GS_plugin::jobs_list`, restricted to one client |
| `stack` | the sizes of `metaJob_merge`, `_cat`, `_pdf2png`, `_pdf2ps` |
| `pageCount`, `src` | `ClientData::page_count`; which parts of the document exist |
| `disk` | the files in the copy directories, each with the preparation its content comes from |
| `online`, `alive` | the client is connected; the GateKeeper runs |
| `converted`, `worked`, `preps`, `restarts`, `asked` | how far the wizard has got |

`Convert2Pdf`, `CreateFormatedDoc` (and `TemplateBroken`), `Restart` and
`ClientGone` are the calls the GateKeeper makes; `Ps2PdfDone`, `PagesCounted`,
`SplitFirstDone`, `SplitOtherDone`, `MergeDone`, `PngDone`, `CatDone` and
`PsDone` are the branches of `threadFinish`; `JobFails` is its branch for an
exit code. A job reads its input when it starts and its output appears when it
ends. A stack is its depth: the pops compare nothing. Popping an empty stack is
undefined, so the program may die or go on (`PopSurvives`). Programs overwrite
files, `QFile::copy` and `QFile::rename` do not (`Overwrite`, `AddMissing`,
`renamed`): this is what lets a page of an earlier preparation survive.

The joining of pages is modelled as on Windows, where a batch file takes one
string apart; on Unix the string reaches pdftk as one file name, which is the
failing job `JobFails`.

### Framing and Channel

A stream is a sequence of units, each knowing its message and its place in the
packet. The size field has two units, so that it can arrive in part; type and
data are the units after it. `readyRead` is taken apart into its reads
(`ReadSize`, `TakePacket`), the handling of a message (`HandlerReturns`) and its
ends (`SlotReturns`), because handling may open a message box, whose event loop
lets further data in (`Arrive` while a slot is handling). Whether Qt then calls
the slot again inside itself differs between platforms and versions; both are
allowed. What is read out of place is any size and no message (`Declared`,
`Taken`, `ReadAs`): the bytes of the type or the data are taken for a size.

`Conns` is the set of connections that share one `packetSize`: one for the
wizard and for the link, all clients for the GateKeeper.

`Channel` is what a connection promises: a message sent is handled once, whole,
in order and in the end; only unhandled messages are lost, from the end, and
only by closing. `Framing!Chan` maps the channel's queue to the messages whose
last unit is still to be read.

### Session

| Variable | Code |
|---|---|
| `gate`, `listens`, `plugins`, `login`, `u_mandat`, `ready`, `clients` | the process; members of `serverGears`: `m_server`, plugins, `u_login`, `u_mandat`, `netDemonReady`, `clients_name` |
| `stale` | the socket file of a crashed process |
| `link` | the socket of `net_plugin` |
| `spool` | documents converted, which cleaning up leaves behind |
| `wiz`, `stopLaunch` | `Engine`: how far `do_checkPointChanged` has got |
| `have`, `dialog`, `picked`, `lists` | the ticks of `IntroPage`, `getUserNameMandatDlg`, `currentUserMandat`, the two lists with the mandate they were made for |
| `toGate`, `toWiz`, `toDaemon`, `fromDaemon` | messages |
| `told` | history: who was told "not ready" or good bye |

Two wizards look for the GateKeeper at any time; each starts it when it is not
there and tries again after three seconds (`NotFound`, `StartProgram`,
`GiveUp`). `GateComesUp` is `Server::init`, all of which happens before the
event loop: `ConfigRefused` is `readConfig`, `PluginMissing` `loadPlugins`,
`Listen` the local server in the constructor of `serverGears`, `AuthInit` the
plugin of that name. A process in which one of them failed stays, and keeps
another one from starting. It ends by Quit (`GateSaysGoodBay`, `GateQuits`) or
by `GateCrashes`; both lose all but files, but after a crash the socket file
may be among them, and then no later process listens. Each message type of `parseMessage` on both sides is an action of
its own. Faults: refused settings, a missing user name, missing plugins, a lost
link, a user without mandate, a GateKeeper that is closed or crashes, a wizard
that is closed, a slow start, a start that fails.

### Wizard

| Variable | Code |
|---|---|
| `page` | `MainWindow::pageId` |
| `printer`, `card`, `filled`, `converted`, `counted` | `selectPage`, `printDataPage`; a card is one value, with a number (MB and copy) by which the base knows it |
| `auth`, `mb`, `buttons`, `mode`, `step` | `CheckDataPage`: two check boxes, the radio buttons, which of them is checked, the flag that frees Next |
| `pictures` | the card whose pages `PreViewPage` shows |
| `gkPrinter`, `queued`, `converting`, `counting`, `work` | the GateKeeper's `PrintTask`, and the jobs under way |
| `left` | an entry may be left on a stack of `gs_plugin` for which no job runs |
| `base`, `link` | what the accounting base says of each number; the link |
| `fills`, `detours`, `faults` | how often the user filled in the card, went back or over; faults |
| `handed` | history: printer and card found by Print |

`UserGoesOn` is `do_next` with `lastCheck`, and sends what the next page's
entry sends; `UserGoesBack` and `UserRestarts` keep what the pages keep, which
is not everything. Two answers of the daemon come in any order, and either may
be the last to free the radio buttons; neither tells what was asked. The check
of the document is to ask for its number and copy (`getSQL_mb_check`,
`printdatapage.cpp:445-462`, which nothing calls yet; `checkMB` and `registerMB`
send an empty query), so the base knows each number by itself, and registering
takes the number in the form by the time the first answer comes. `Whole` is the
set of cards whose documents `gs_plugin` gets ready: all five copies, or one
page. Any other preparation ends with nobody told (`WorkIsLost`), without a job
failing (finding 2), and leaves its entries to the next one (`left`).

### Sptsd

`wire`, `sock` and `header` are the bytes on the way: requests not arrived,
arrived and not read, and a packet of which only the header was read.
`uid`, `commandType` and `surdCmd` are the members that every request
overwrites; a command knows whose it is and how often it was turned into
EBCDIC, because the code converts it in place. `seen` notes what came in the
way (overlapping requests, a split packet, a refusal of SURD), so that
properties can say under which conditions they hold.

### Editor

| Variable | Code |
|---|---|
| `files` | the template files: their rows of table `elem`, or none |
| `db`, `dbOpened`, `name` | `DB_`, `m_dbOpened`, `currentDBFileName` |
| `templLoad` | `MainWindow::templ_load` |
| `page` | a `myScene`: elements in memory with their rotation, those in the scene, the undo stack with its index and limit |
| `home`, `clean`, `cut` | history: the file the page was filled from, whether it was edited since, whether the undo limit cost a command |

`Push` is `QUndoStack::push` as Qt documents and implements it: the command is
executed, what was undone leaves the stack, then what is beyond the limit. A
command that leaves is deleted, and the one that added an element deletes the
element unless the scene has it (`Destroy`). Filling a page pushes two commands
per text, as the code does. Position, font and colour have commands of one form
and count as one field (`look`). Of the angle, as in the code, only the last
turn is kept and saved (`item[i].angle`), while `setAngle` turns the element on
by it, also when a turn is undone or redone: `page.rot` is how it is turned on
the screen (`SetField`, `Rotated`), and `page.turned`, a history, the elements
that were turned since they were made or read. `Save` writes rows one by one
and looks at no result, so a fault leaves any part of them; `Leave` ends the
program, also in the middle of a save.

## 3. Runs

| Run | Question | Result |
|---|---|---|
| PrintOneClick | one press of Print, every template in one and two copies, every fault: `SentAsPrepared`, `SidesConfirmed`, `VerdictAfterLastPage`, `PagesOnlyLeaveSent`, and, under fairness and unless the daemon is silent, `StartedIsJudged` | hold |
| PrintImpatient | presses while a copy is under way, a document prepared twice, every fault: `TypeOK`, `SentInOrder`, `CopiesNeverRunDry`, `OneVerdictPerClick` | hold |
| PrintSecondCopy | two copies, a press for each: `PagesOnlyLeaveSent` | violated |
| GsOverlap | two overlapping preparations, a restart, failing jobs and templates: `TypeOK`, `JobsHaveEntries`, `PreviewComesFirst`, `ReadyOnlyWhenDone` | hold |
| GsWhole | under fairness, the first preparation, failing templates, a client that leaves: `AllCopiesReady`, `JoinedIsReady` | hold |
| GsTwoCopies | two pages in two copies, nothing fails: `MergedIsReady` | violated |
| FramingOne | one connection, nested loops, closing: `TypeOK`, `Intact`, `NothingLeftBehind`, implements `Channel` | hold |
| FramingShared | two clients of the GateKeeper: `Intact` | violated |
| SessionTwo | two wizards, two mandates, two processes, one fault of every kind: `TypeOK`, `ListsAgree`, `StepsInOrder`, `RemoteMeansReady`, and, under fairness, `WizardIsServed` | hold |
| WizardDetours | cards of two numbers, one for all copies and one for a single copy, filled in twice, previewed or printed, one detour, a denied printer, a base that says different things of the numbers, a silent daemon, a job or a link that fails: `TypeOK`, `PrintedAsChecked`, `RegisteredBeforePrepared`, `PrintFindsDocument`, and, under fairness, `ChecksAreAnswered`, `ChosenGetsReady` | hold |
| DaemonShared | two clients, three requests of five kinds, split and joined packets, a SURD that refuses or closes: `TypeOK`, `AnswersOwnQuestion`, `NoMoreAnswersThanAsked`, and, under fairness, `LoneQuestionIsAnswered` | hold |
| EditorDesk | two templates, four edits or dialogs, with saving, turns that add up, undo limits, refused files and names, failing copies, a kill: `TypeOK`, `CommandsHaveElements`, `PageFollowsStack`, `SavesWhereItCameFrom`, `PageIsItsFile` | hold |

### Bounds, and why they are enough

* `PrintQueue`: two copies show everything a copy can do to the next one; a
  third adds no new kind of neighbour. `EveryTemplate` has all sets of pages, so
  every shape of the order list, alone and before a full copy. Three presses
  let two chains overtake a third. Two preparations let old and new entries
  meet in the queues. Sizes are distinct, so a size taken for another shows.
* `GsPipeline`: two preparations and one restart are the smallest numbers at
  which stacks and files of different rounds meet (GsOverlap). GsWhole has one
  preparation: a second one overlaps files of the first which are not
  replaced, and `AllCopiesReady`, which is stated for the first, does not hold of
  it. The documents have one page
  or several, which is all the code asks about. Five copies occur in GsWhole
  because five is the number the code pushes.
* `Framing`: lengths 1, 2 and 4 put the end of a packet before, at and behind
  the size field of the next; four messages allow slots nested three deep.
  In the shared run one message per client is enough: a size read from one of
  them is still pending when the other one's packet arrives.
* `Session`: two wizards share the GateKeeper, two mandates tell whose is used,
  two processes let a wizard outlive the one it registered with. One fault of
  any kind at any moment; a behaviour is finite, as every step uses up a
  message, a tick or a start.
* `Wizard`: two cards tell an old document from a new one; their numbers, of
  which the base says different things, tell whose answer came, and so do the
  two printers, one of them denied. One detour, back or over, at any moment
  leaves every flag of a later page set, and lets a document be prepared twice.
  "full" stands for both previews, which differ in a letter of the request.
* `Sptsd`: with three requests of two clients the third overtakes the answer to
  either of the others.
* `Editor`: two files, so that one can be saved over the other; three places
  for elements, for the two of a template and one of the user's; an undo limit
  of two is less than the commands one added element pushes and those that
  follow. Four acts reach: read, limit, delete, undo. Names of files are
  interchangeable (`NamesAlike`).

Deadlock is not checked: in every run the system may come to rest (nothing more
to print, the bounds are used up).

### Fairness

* Event loops run: a message in a queue is handled (`WF` of each receiving
  action). Qt delivers posted events and readable sockets as long as the
  process lives.
* Of the daemon an answer is assumed only where `sptsd` gives it: the
  registration in Session (`sptsd.cpp:119-130`), and in Sptsd itself what its
  code does. In PrintQueue a request is taken and answered, refused or left
  without an answer (`silent`); in Session and Wizard a question may lie with
  the daemon for ever. `StartedIsJudged`, `WizardIsServed` and
  `ChecksAreAnswered` therefore say that nothing is lost between wizard and
  GateKeeper: what is waited for comes, or it is the daemon that is waited for.
* SURD answers or closes, and external programs end: neither the code nor its
  timeouts covers the opposite, and properties that need it are stated under it.
* A user faced with a modal box closes it (nothing else works until he does),
  with either answer. Nobody is assumed to press Print, to prepare a document,
  to go on, to restart or to send a message; nothing is assumed to fail.
* Only weak fairness is used. Session, Wizard and Sptsd state it once for all
  such steps together (`Progress`): their behaviours are finite, so that
  "some step is taken as long as one can be" already takes them all.
* The editor has no property that needs fairness: nothing in it waits.

## 4. Findings

Three places where the code does not do what it says of itself are runs of
their own, whose counterexamples can be replayed with TLC.

1. **The face page of the second copy is not printed** (PrintSecondCopy).
   `servergears.cpp:1105` takes the label off the queue of names only; its size
   zero then meets the next copy's names. The test at `servergears.cpp:1075` is
   for "a file of more than 0 bytes".
2. **A document of several pages in fewer than five copies never becomes
   ready** (GsTwoCopies). `gs_plugin.cpp:715` pushes five entries, and starts
   only as many jobs as copies exist. `gs_plugin.h:122` promises the signal
   when all copies are merged.
3. **Clients of the GateKeeper share the size of the packet being read**
   (FramingShared), `servergears.cpp:176` and `:187`.

Others were seen while modelling; what they lead to is part of the models, and
the properties that hold do so in their presence or say where they do not.

* Printing: a template with fewer than eight entries in its order list is never
  judged, as `servergears.cpp:794` counts the entries and looks them up by key
  (`StartedIsJudged` speaks of copies whose marker was enqueued);
  `sptsd` prints a page without a word, so that the next one is never sent;
  `PrintTask::clearQueue` empties one of three queues (`printtask.cpp:107`); a
  refusal of the daemon leaves a name behind whose size is gone
  (`servergears.cpp:1074`); a `PrintTask` is never removed.
* Pipeline: a job that outlives its client pops an empty stack
  (`gs_plugin.cpp:477`); `QFile::rename` does not replace the face page of an
  earlier preparation (`gs_plugin.cpp:229`); a restart keeps the stacks
  (`gs_plugin.cpp:431`); `jobFinish`, the report of a failed job, is connected
  to no slot (`gs_plugin.cpp:491`).
* Session: the mandate of the first wizard is used for all later ones,
  whichever their users choose (`servergears.cpp:607`); the server's state is
  asked for once and `gk_notReady` is connected to no slot; after a crash
  `readConfig` removes `/tmp/=NAME` where the local server left `/tmp/NAME`
  (`server.cpp:644`), so that no GateKeeper listens again; a missing plugin
  leaves the tray "ready" and its wizards unanswered; nothing reconnects the
  link; a wizard that starts within the half second in which the GateKeeper
  closes is stuck; a document is converted also when its user cancels the
  choice of a mandate. The list of printers is returned with the uuid in front
  (`servergears.cpp:291`), and the list of mandates replaced by a constant
  (`:304`).
* Wizard: after going back and choosing another printer, which is denied, the
  way to Print is still open (`PrintedAsChecked` is therefore about a user who
  goes straight on); the tick for an earlier number stays when the user goes
  back and changes it, and the new document may be prepared before the base
  answered (`RegisteredBeforePrepared` then says only that some document is
  usable); the queries about the document are empty (`engine.cpp:147-170`); a
  document of several pages in fewer than five copies keeps the wizard waiting
  without any job failing, and its entries keep later ones waiting; a checked
  radio button cannot be chosen again after starting over; without a preview
  Print may come before the queue is filled and then does nothing; after a
  restart the wizard is told "converted" whether or not the document is.
* Daemon: the answer goes to the client that asked last; with packets split at
  the header an answer is parsed as the next request's; of two requests that
  arrive together the second waits for a third; the two requests about a
  document send the command before them once more, converted twice.
* Editor: Save As copies the file `currentDBFileName` names, "the open
  database" by its comment (`tmpl_sql_plugin.h:235`), which Open does not set:
  it does nothing, or copies the template worked on before; it copies what is
  on the disk, so edits are lost; onto the template itself it removes the file
  and fails. Leaving the Open dialog makes the window count the template as not
  loaded. Undoing a turn turns on, as `setAngle` rotates what is already turned
  (`mytextitem.cpp:71`): after two turns of 90 degrees the page shows 180 and the
  file holds 90, so the page looks different when it is read again.
  Undo takes back reading the template as well, element by element. With an
  undo limit a deletion can outlive the element it refers to
  (`commands.h:128`). Leaving the dialog of a new template leaves its database
  open under the old page, so Save writes there.

## 5. What is proved

TLAPS proves the following for every value of the constants the assumptions
allow: every invariant that a run checks, every action property, and that
Framing implements Channel but for its fairness. `PrintQueueAssumption`,
`GsPipelineAssumption`, `FramingAssumption`, `SessionAssumption`,
`WizardAssumption` and `SptsdAssumption` are the types of the constants;
`EditorAssumption` says in addition that memory holds finitely many elements,
that an undo limit of 0 (none, the default) is among the limits, that stored
templates are rows of table `elem`, and that the markers `None`, `Temp` and
`Picture` are nothing else. Two conditions are stated in the theorems, not
assumed of the constants: `OneConnection` (`\A a, b \in Conns : a = b`) and
`OnePress` (`preps <= 1 /\ clicks <= 1`). Both are needed: FramingShared and
PrintSecondCopy show what happens without them.

| Theorem | Statement |
|---|---|
| `PrintQueue_proofs!TypeCorrect` | `Spec => []TypeOK` |
| `CopiesSuffice` | `Spec => []CopiesNeverRunDry` |
| `ClicksBoundVerdicts` | `Spec => []OneVerdictPerClick` |
| `FilesInOrder` | `Spec => []SentInOrder` |
| `SentRight` | `Spec => [](OnePress => SentAsPrepared)` |
| `TurnedOnlyConfirmed` | `Spec => [](OnePress => SidesConfirmed)` |
| `JudgedComplete` | `Spec => [](OnePress => VerdictAfterLastPage)` |
| `PagesLeaveSent` | `Spec => PagesOnlyLeaveSent`, if `MaxPreps` and `MaxClicks` are at most 1 |
| `GsPipeline_proofs!PipelineTyped` | `Spec => []TypeOK` |
| `EntriesHold` | `Spec => []JobsHaveEntries` |
| `ReadyAfterLast` | `Spec => ReadyOnlyWhenDone` |
| `PreviewFirst` | `Spec => []PreviewComesFirst` |
| `Framing_proofs!FramingTyped` | `Spec => []TypeOK`, for any set of connections |
| `MessagesIntact` | `Spec => []Intact`, for `OneConnection` |
| `NothingIsLeft` | `Spec => []NothingLeftBehind`, for `OneConnection` |
| `FramingIsAChannel` | `Spec => Chan!Init /\ [][Chan!Next]_Chan!chan`, for `OneConnection` |
| `Session_proofs!SessionTyped` | `Spec => []TypeOK` |
| `OneMandate` | `Spec => []ListsAgree` |
| `StepsFollow` | `Spec => []StepsInOrder` |
| `ReadyFirst` | `Spec => []RemoteMeansReady` |
| `Wizard_proofs!WizardIsTyped` | `Spec => []TypeOK` |
| `BaseComesFirst` | `Spec => []RegisteredBeforePrepared` |
| `PrintedWasChecked` | `Spec => []PrintedAsChecked` |
| `PrintFinds` | `Spec => []PrintFindsDocument` |
| `Sptsd_proofs!DaemonTyped` | `Spec => []TypeOK` |
| `OwnAnswer` | `Spec => []AnswersOwnQuestion` |
| `NoSpareAnswers` | `Spec => []NoMoreAnswersThanAsked` |
| `Editor_proofs!EditorIsTyped` | `Spec => []TypeOK` |
| `CommandsKeepElements` | `Spec => []CommandsHaveElements` |
| `StackIsFollowed` | `Spec => []PageFollowsStack` |
| `PageStaysItsFile` | `Spec => []PageIsItsFile` |
| `SavesHome` | `Spec => []SavesWhereItCameFrom` |

The arguments:

* **PrintQueue, counting** (`CountInv == TypeOK /\ CopiesNeverRunDry /\
  OneVerdictPerClick`). The copy numbers are never shorter than the names: they
  grow together, both lose one entry with a marker or a file, a name may be
  dropped alone, and the label is taken off the names only. The sum of what is
  in the channels and on the screen, with the verdicts stored, grows by a press
  of Print and by nothing else: each handler takes one message and makes at most
  one. There is a lemma for each handler.
* **PrintQueue, order** (`OrderInv == TypeOK /\ Sorted /\ SentFirst /\
  SentSorted`). Each entry has a rank (copy and key). `SentInOrder` alone is not
  inductive: one also has to know that the queue is sorted and that all that
  was sent ranks below all that is queued. Lemmas show that `DocOrder` is sorted
  for every document (each part lies within the ranks of its copy), and that
  every handler takes from the front only.
* **PrintQueue, one press** (`PressInv == Neighbours /\ Untouched /\ (OnePress =>
  OneBody)`). With one press there is at most one message under way
  (`OneVerdictPerClick` bounds the sum of all), and its kind tells how far the
  three queues have been drained. `Driving`: the next thing the GateKeeper does
  is to look at the queue; `Asking`: the daemon is being asked for the space of
  the first file; in every other state the chain has ended and nothing is looked
  at again. In each of them `Aligned` says how many sizes are missing against
  names and copies, `HeadAllowed` that a page which needs a turned sheet was
  confirmed or is just being asked about, and `MarkLast` that the pages of a copy
  whose marker 444 is still queued are queued before it or sent. `Neighbours` is
  a fact about every queue, presses or not: a question comes right before its
  page, and what a marker takes along is no page. With a second press two chains
  drain the same queues and none of this holds (PrintSecondCopy); what remains
  true then is what the two arguments above give.
* **GsPipeline** (`Inv == TypeOK /\ Files(disk) /\ JobsHaveEntries`).
  `JobsHaveEntries` compares the number of running jobs of each kind with the
  depth of its stack; a stage that pushes one entry per *file* and starts one
  job per file needs that a file is named once per directory and that the
  directories are finite (`Files`), for the map from files to jobs to be
  injective. Failing jobs leave their entries behind, which is why there are at
  least, not exactly, as many entries. From this, `ReadyOnlyWhenDone`: when the
  last entry is popped, no other ps job can be running.
* **GsPipeline, preview** (`Order == BeforeCount /\ OnePage /\ Announced /\
  PreviewComesFirst`). A document is announced for printing when the stack of
  conversions empties, and that stack fills when the first pages are joined. So
  a stack that is not empty stands for an announcement that may still follow,
  and `Announced` counts it: `printed`, plus one for a filled ps stack, plus one
  for a filled cat stack, is at most `previewed`. Of a document of one page
  nothing is joined (`OnePage`), and the preview is announced with the merge;
  which of the two cases applies is settled before any of these jobs
  (`BeforeCount`), since pages are counted once.
* **Framing** (`Inv == TypeOK /\ \A c \in Conns : Sound(c)`). Socket and wire of
  a connection are one stream, and reading or arriving never changes the order
  of its units. The stream is chained (a unit and any later one of its packet,
  and the first one after it, fit together), begins with the message after those
  handled, at the size field or behind it as `packetSize` says, and ends, while
  the connection is open, with the last unit of the message sent last. Without
  the last conjunct a new packet could not be appended; without the position,
  what is read as a size might not be one. Nested slots need no conjunct:
  `packetSize` is reset before a message is handled, so the stream and the size
  agree whenever a slot runs, however deep.
* **Framing, nothing left** (`ReadOut`). When no slot runs, the socket has less
  than the next read asks for: a slot returns in no other case, and what arrives
  when none runs starts one. In a chained stream such a rest holds no last unit.
* **Framing implements Channel.** The last units in a stream that begins with
  message h + 1 are those of h + 1, h + 2 and so on, one each: by induction over
  the stream, as the least place where the count were wrong (`EndsCounted`). So
  what is pending is the sequence of `Left(c)` numbers after those handled
  (`PendingNow`), and each step comes down to arithmetic: sending makes it one
  longer at the end, taking a packet one shorter at the front, closing cuts it
  off at the end, and a size field ends no message.
* **Session** (`Inv == TypeOK /\ Basic /\ Agreed /\ Lawful`). What is wrong in
  a session was sent long before it shows, so the invariant is about messages on
  their way. `Agreed`: each wizard has one mandate, the GateKeeper's as long as
  it is connected, such that every list it shows or is about to receive is for
  that one; the questions and answers on the link are for the GateKeeper's. The
  mandate changes once, from none, and what was for none counts for any
  (`ShowsGrows`); a wizard whose GateKeeper ended keeps the old one. `Lawful`:
  the four kinds of queues hold only messages whose sender had what it takes
  (`LawAsk`, `LawTell`, `LawOf`: the levels before a question for printers, the
  mandate before one for levels, the daemon's confirmation before "ready"). A
  queue of lawful messages is stated as a sequence over the set of lawful
  messages, so that appending and taking off need only the library's theorems,
  and what was lawful stays so because steps are never taken back
  (`LawGrows`). `Basic` says that a wizard that has not connected has nothing on
  its way, and that a process that is gone leaves no client behind.
* **Wizard** (`Inv == TypeOK /\ Behind /\ Blank /\ (~InBase => Quiet) /\
  (Straight => AsChosen) /\ (Straight /\ ~Usable(card) => Quiet)`). As long as
  the base has not told that it knows a document, nothing that follows from it may
  have begun: no picture, no queue, no job, and none of the buttons that start
  them (`Quiet`). For a user who goes straight on that document is the one of the
  card (`Usable(card)`), as every question and every registration on its way is
  about its number (`AboutChoice`); with detours it is some document of his
  (`InBase`). `Behind` orders the pages of the wizard with what each keeps, and
  `Blank` says that nothing is asked before a card is filled in.
* **Wizard, straight on** (`Straight => AsChosen`, in the same invariant). A user
  who has not gone back enters no page twice, so whatever is on its way is about
  the printer and the card the pages still show (`AboutChoice`), the GateKeeper
  has that printer or will get it before anything else (`PrinterTold`), and
  until the daemon allowed it nothing that follows the checks has begun
  (`Untouched`). With a preview, Next is freed by FORMATTED alone, which is sent
  only after the queue was filled (`Unprepared`).
* **Sptsd** (`Inv == TypeOK /\ AskerKnown /\ Lonely /\ AnswersOwnQuestion`).
  `uid` is that of the last request, and the right one as long as no two
  requests overlapped (`Alone`); `Lonely` says what else is then on the way:
  one request, its command at SURD or its answer, and never two of them.
* **Sptsd, counting** (`Counted`, in the same invariant). As long as no packet was
  split, requests are read in the order they were made (`UnreadAsAsked`), so what
  was read is a prefix of what was asked; `Owed`: the answers given, and one more
  while SURD may still answer, are no more than the requests of that client and
  kind in the prefix. A request that overtakes another one overwrites `uid`, and
  with it the claim of the other: answers get lost that way, none is added.
* **Editor, saving**: `SavesWhereItCameFrom` is inductive as it stands: whatever
  fills the page also sets the file it is saved to.
* **Editor, page and stack** (`Inv == FilesOK /\ LinkOK /\ PageOK /\ AtHome /\
  CountOK`). `PageFollowsStack` speaks of the last command done and the first one
  undone; to survive an undo, the commands before and after them must fit.
  `PageInv` says that the commands on one element or one of its fields are a
  chain (`Chained`: each finds what the one before it left; `AddsFirst`,
  `Alive`: nothing is done to an element before it is added, and none that is
  shown is gone), and that the page stands where the index points
  (`SceneFollows`, `FieldsFollow`). A push, an undo and a redo keep it, also when
  the undo limit drops commands from the front. Filling a page from a file is a
  fold over the set of its elements, in any order; what it yields is shown by the
  least number of elements for which it were false (`FillExists`, `FillShows`).
  `Upright` says that what is not in `turned` is seen at the angle it has: a new
  text is made with rotation 0 and pushed to its angle from there, a picture is
  made at it, and every later turn puts the element into `turned`. With it the
  part of `PageIsItsFile` on what is seen follows from the part on the rows
  (`FileIsPage`).

## 6. What is only model-checked

Liveness: `StartedIsJudged`, `AllCopiesReady`, `JoinedIsReady`,
`WizardIsServed`, `ChecksAreAnswered`, `ChosenGetsReady`,
`LoneQuestionIsAnswered`, and of `ChannelSpec` the fairness of `Receive`. They
rest on weak fairness, that is on ENABLED of whole handlers, which is out of the
prover's reach. The three violations are counterexamples of a run each.

## 7. Plan

What is modelled was chosen in this order: what decides which pages are
printed and judged (PrintQueue, GsPipeline), how messages get through
(Framing), how a wizard gets to Print (Session, Wizard), then the two programs
at the ends (Sptsd, Editor). Left to do:

1. A composition of Wizard with PrintQueue, so that the document Print finds is
   the one whose queue is drained, over several documents of one client.
2. What remains true of SentAsPrepared with several presses: which chain's
   answers can be taken for the other's.
3. The steps of the liveness arguments as theorems about actions: the measure
   that each helpful step of PrintQueue and GsPipeline decreases.

## 8. Checking it

In this directory: `tlc -config PrintOneClick.cfg MCPrintQueue` and so on for
each row of section 3 (`PROJECT.json` names the module of each run);
`tlapm PrintQueue_proofs.tla` and so on for the proofs. The longest runs
(SessionTwo with 647,079 and WizardDetours with 1,095,391 distinct states) take
about three minutes each; EditorDesk has 864,991.

## 9. Not modelled, and why

* Settings, tray icon and windows of the GateKeeper: set at start, or display.
* The fields of the card, their validation and the Qt models under them; the
  model of the accounting database; debugging messages (`DEBUG_MODE`).
* Of the editor: the properties dialog, the shown text of an element and the
  view of codes or values, the grid; the other seven pages, which share nothing
  with the first but the file; pictures' moves, which have no commands.
* Of the daemon: the SQL of requests 200 to 203, which no client of this
  repository sends; handing a file to CUPS, which keeps no state; the tables
  between ASCII and EBCDIC, which are inverse to each other on all characters
  the commands use.
* What external programs compute; how elements are drawn; SQL.
* `directPrint` in gs_plugin: reached by a debugging path only.
* `src/spts_filter.pl` with `src/racf.pl`, the stored functions and the schema:
  an earlier generation, one sequential script per job; two schema versions
  contradict each other on what is unique and required, so that a model would
  have to choose. Read with it: the report is recorded before the job is
  parsed, the pages are written out before the record is complete, and
  `rel_add_info2reports` is updated without a WHERE.
* `print_acpu`, `vprn_demon`, `src/simpleDemon`, `src/safeFatPrinter`,
  `src/TempatesEditor`: predecessors or prototypes, replaced by `vp_plugins`;
  the reports in `src/www` read only.
* Vendored code: qt_single_apps, qtservice, the CUPS headers.
