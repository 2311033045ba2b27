----------------------------- MODULE GsPipeline -----------------------------
(***************************************************************************)
(* The document pipeline of one client (gs_plugin): every step runs an     *)
(* external program in a thread of its own (ProcessT), and threadFinish,   *)
(* queued to the GateKeeper's event loop, decides from the finished job    *)
(* what to start next.  A stage that runs several jobs at once counts them *)
(* with a QStack of ClientData: one entry pushed per job, one popped per   *)
(* job that succeeded, and the next stage starts when the stack is empty.  *)
(*                                                                         *)
(* A file is a record of its copy, its page, its stage and the preparation *)
(* whose data it shows.  The stages are tpl (a page of the template), out  *)
(* (a page ..._out.pdf of the document), png and prn (..._prn.ps).  A job  *)
(* reads its inputs when it starts and its output appears when it ends.    *)
(***************************************************************************)
EXTENDS Integers, FiniteSets

CONSTANTS
  Templates,    \* the templates on offer: functions from the copies 1..n to
                \* the pages the template has for that copy
  PageCounts,   \* the numbers of pages the input document may have
  MaxPreps,     \* bound: how often the wizard asks for a formatted document
  MaxRestarts,  \* bound: how often the user starts over
  Faults        \* which of "job", "template", "gone" may happen

TplPages == {"first", "other", "over", "last"}
PageNames == TplPages \cup {"face"}
Stages == {"tpl", "out", "png", "prn"}
CopyDirs == 1..5
MetaKinds == {"merge", "cat", "png", "ps"}
Kinds == MetaKinds \cup {"ps2pdf", "count", "splitFirst", "splitOther"}

ASSUME GsPipelineAssumption ==
  /\ \A t \in Templates : \E n \in CopyDirs : t \in [1..n -> SUBSET TplPages]
  /\ PageCounts \subseteq Nat \ {0}
  /\ MaxPreps \in Nat
  /\ MaxRestarts \in Nat
  /\ Faults \subseteq {"job", "template", "gone"}

VARIABLES
  jobs,       \* GS_plugin::jobs_list, the running jobs of this client
  batch,      \* tells the jobs of one handler call from those of another
  stack,      \* sizes of metaJob_merge, _cat, _pdf2png and _pdf2ps
  pageCount,  \* ClientData::page_count
  src,        \* which of main.pdf, firstpage.pdf, otherpage.pdf exist
  disk,       \* the files in the directories 1-copy to 5-copy
  online,     \* the client is connected
  alive,      \* the GateKeeper is running
  converted,  \* the wizard has sent Que_Convert2Pdf
  worked,     \* the wizard was told the number of pages
  preps,      \* formatted documents asked for so far
  restarts,   \* restarts so far
  asked,      \* history: the template asked for last
  previewed,  \* history: how often docReady4preview was signalled
  printed     \* history: how often docReady4print was signalled

session == <<converted, worked, preps, restarts, asked>>
signals == <<previewed, printed>>
vars == <<jobs, batch, stack, pageCount, src, disk, online, alive, session,
          signals>>

File == [copy : CopyDirs, page : PageNames, stage : Stages, prep : Nat]
Job == [kind : Kinds, copy : CopyDirs, page : PageNames, prep : Nat, batch : Nat]

TypeOK ==
  /\ jobs \subseteq Job /\ IsFiniteSet(jobs)
  /\ batch \in Nat
  /\ stack \in [MetaKinds -> Int]
  /\ pageCount \in Nat
  /\ src \subseteq {"main", "first", "other"}
  /\ disk \subseteq File
  /\ online \in BOOLEAN /\ alive \in BOOLEAN
  /\ converted \in BOOLEAN /\ worked \in BOOLEAN
  /\ preps \in Nat /\ restarts \in Nat
  /\ asked \in Templates \cup {<<>>}
  /\ previewed \in Nat /\ printed \in Nat

-----------------------------------------------------------------------------
(* Files.                                                                  *)

SameName(f, g) == f.copy = g.copy /\ f.page = g.page /\ f.stage = g.stage

\* A program overwrites what is there; QFile::copy and QFile::rename do not.
Overwrite(d, new) == {f \in d : \A g \in new : ~SameName(f, g)} \cup new
AddMissing(d, new) == d \cup {g \in new : \A f \in d : ~SameName(f, g)}

\* The files of one stage for these pages, in any copy (findFiles).
Found(d, stage, pages) == {f \in d : f.stage = stage /\ f.page \in pages}

-----------------------------------------------------------------------------
(* Jobs.  The jobs a handler starts next are described by the files they   *)
(* work on; a job on the whole document is described by NoFile.            *)

NoFile == [copy |-> 1, page |-> "first", stage |-> "tpl", prep |-> 0]

JobOn(kind, f) ==
  [kind |-> kind, copy |-> f.copy, page |-> f.page, prep |-> f.prep,
   batch |-> batch]

\* jobs after these ended and those started (start_proc).
StartJobs(ended, started) ==
  /\ jobs' = (jobs \ ended) \cup started
  /\ batch' = IF started = {} THEN batch ELSE batch + 1

Push(s, kind, n) == [s EXCEPT ![kind] = @ + n]

\* The stack after the pop in isFinishedMerge, isFinishedCat and so on.
Pop(kind) == [stack EXCEPT ![kind] = @ - 1]

\* Popping an empty QStack is undefined: the program dies, or goes on with a
\* stack that is not empty.
PopSurvives(kind) ==
  IF stack[kind] > 0 THEN alive' = TRUE ELSE alive' \in BOOLEAN

-----------------------------------------------------------------------------
Init ==
  /\ jobs = {} /\ batch = 0
  /\ stack = [k \in MetaKinds |-> 0]
  /\ pageCount = 0 /\ src = {} /\ disk = {}
  /\ online = TRUE /\ alive = TRUE
  /\ converted = FALSE /\ worked = FALSE
  /\ preps = 0 /\ restarts = 0 /\ asked = <<>>
  /\ previewed = 0 /\ printed = 0

\* convertPs2Pdf, once the wizard is registered.
Convert2Pdf ==
  /\ alive /\ online /\ ~converted
  /\ converted' = TRUE
  /\ StartJobs({}, {JobOn("ps2pdf", NoFile)})
  /\ UNCHANGED <<stack, pageCount, src, disk, online, alive, worked, preps,
                 restarts, asked, signals>>

\* A job ends: with an error code jobFinish is emitted, which is connected
\* to no slot, and nothing else happens.
JobFails(j) ==
  /\ alive
  /\ "job" \in Faults
  /\ StartJobs({j}, {})
  /\ UNCHANGED <<stack, pageCount, src, disk, online, alive, session, signals>>

\* A ClientData made after the client has gone does not know main.pdf, and
\* the number of pages is not counted.
Ps2PdfDone(j) ==
  /\ alive /\ j.kind = "ps2pdf"
  /\ src' = src \cup {"main"}
  /\ StartJobs({j}, IF online THEN {JobOn("count", NoFile)} ELSE {})
  /\ UNCHANGED <<stack, pageCount, disk, online, alive, session, signals>>

\* One page: main.pdf is copied.  More: two jobs split it.  Once the client
\* has gone the name of main.pdf is empty and neither can succeed.
PagesCounted(j, n) ==
  /\ alive /\ j.kind = "count"
  /\ pageCount' = n
  /\ \/ /\ ~online
        /\ StartJobs({j}, {})
        /\ UNCHANGED <<src, worked>>
     \/ /\ online /\ n = 1
        /\ src' = src \cup {"first"}
        /\ worked' = TRUE
        /\ StartJobs({j}, {})
     \/ /\ online /\ n > 1
        /\ StartJobs({j}, {JobOn("splitFirst", NoFile),
                           JobOn("splitOther", NoFile)})
        /\ UNCHANGED <<src, worked>>
  /\ UNCHANGED <<stack, disk, online, alive, converted, preps, restarts,
                 asked, signals>>

SplitFirstDone(j) ==
  /\ alive /\ j.kind = "splitFirst"
  /\ src' = src \cup {"first"}
  /\ StartJobs({j}, {})
  /\ UNCHANGED <<stack, pageCount, disk, online, alive, session, signals>>

SplitOtherDone(j) ==
  /\ alive /\ j.kind = "splitOther"
  /\ src' = src \cup {"other"}
  /\ worked' = (worked \/ (online /\ pageCount > 1))
  /\ StartJobs({j}, {})
  /\ UNCHANGED <<stack, pageCount, disk, online, alive, converted, preps,
                 restarts, asked, signals>>

-----------------------------------------------------------------------------
(* createFormatedDoc: prepare_template writes the template pages of every  *)
(* copy, then mergeWithTemplate lays the document over all template pages  *)
(* it finds on disk.  The first page is merged in any case, the other      *)
(* pages when the document has several; the rest is copied.                *)

TemplateFiles(t, copies) ==
  {f \in [copy : copies, page : TplPages, stage : {"tpl"}, prep : {preps + 1}] :
     f.page \in t[f.copy]}

MergeWithTemplate_firstOnly(d) ==    \* mutant: startMerge for first pages only
  LET tpl == Found(d, "tpl", TplPages)
      firsts == Found(d, "tpl", {"first"})
      others == IF pageCount > 1 /\ "other" \in src THEN Found(d, "tpl", {"other"})
                                                    ELSE {}
  IN  IF "first" \notin src \/ tpl = {}
        THEN disk' = d /\ StartJobs({}, {}) /\ UNCHANGED stack
        ELSE /\ disk' = d
             /\ stack' = Push(stack, "merge", Cardinality(firsts))
             /\ StartJobs({}, {JobOn("merge", f) : f \in firsts \cup others})

MergeWithTemplate(d) ==
  LET tpl == Found(d, "tpl", TplPages)
      merged == Found(d, "tpl",
                      IF pageCount > 1 THEN {"first", "other"} ELSE {"first"})
      started == {f \in merged : f.page = "first" \/ "other" \in src}
      copied == {[f EXCEPT !.stage = "out"] : f \in Found(d, "tpl", {"over", "last"})}
  IN  IF "first" \notin src \/ tpl = {}
        THEN disk' = d /\ StartJobs({}, {}) /\ UNCHANGED stack
        ELSE /\ disk' = AddMissing(d, copied)
             /\ stack' = Push(stack, "merge", Cardinality(merged))
             /\ StartJobs({}, {JobOn("merge", f) : f \in started})

AskForDoc(t) ==
  /\ alive /\ online /\ worked
  /\ preps < MaxPreps
  /\ preps' = preps + 1
  /\ asked' = t
  /\ UNCHANGED <<pageCount, src, online, alive, converted, worked, restarts,
                 signals>>

CreateFormatedDoc(t) ==
  /\ AskForDoc(t)
  /\ MergeWithTemplate(Overwrite(disk, TemplateFiles(t, DOMAIN t)))

\* prepare_template fails for some copies: the others are written, and no
\* merge is started.
TemplateBroken(t, broken) ==
  /\ "template" \in Faults
  /\ AskForDoc(t)
  /\ disk' = Overwrite(disk, TemplateFiles(t, DOMAIN t \ broken))
  /\ UNCHANGED <<jobs, batch, stack>>

-----------------------------------------------------------------------------
(* The stages after the merge.                                             *)

Written_pdf(j, page, stage) ==    \* mutant: a name of no stage
  Overwrite(disk, {[copy |-> j.copy, page |-> page, stage |-> "pdf",
                    prep |-> j.prep]})

\* The output of a job, written over what is there.
Written(j, page, stage) ==
  Overwrite(disk, {[copy |-> j.copy, page |-> page, stage |-> stage,
                    prep |-> j.prep]})

\* convertPdfToPng on every *_out.pdf of the client.
MergeDone(j) ==
  /\ alive /\ j.kind = "merge"
  /\ PopSurvives("merge")
  /\ disk' = Written(j, j.page, "out")
  /\ LET outs == Found(disk', "out", PageNames) IN
     IF stack["merge"] = 1
       THEN /\ stack' = Push(Pop("merge"), "png", Cardinality(outs))
            /\ StartJobs({j}, {JobOn("png", f) : f \in outs})
       ELSE /\ stack' = Pop("merge")
            /\ StartJobs({j}, {})
  /\ UNCHANGED <<pageCount, src, online, session, signals>>

PsInputs_fourCopies(d) ==    \* mutant: the loop stops before the fifth copy
  {f \in Found(d, "out", {"face", "last", "over"}) : f.copy < 5}

\* The files convertPdf2Ps converts.
PsInputs(d) == Found(d, "out", {"face", "last", "over"})

CatFirstPages_onePage(j, d) ==    \* mutant: one page is no special case
  LET firsts == Found(d, "out", {"first"})
  IN  /\ disk' = (d \ firsts) \cup {[f EXCEPT !.page = "face"] : f \in firsts}
      /\ stack' = Push(Pop("png"), "cat", Cardinality(CopyDirs))
      /\ StartJobs({j}, {})

\* catFirstPages: for each of the five copies an entry is pushed; the first
\* pages are joined with the others by a job, or renamed when there are none.
CatFirstPages(j, d) ==
  LET firsts == Found(d, "out", {"first"})
      joined == {f \in firsts : \E g \in Found(d, "out", {"other"}) :
                                  g.copy = f.copy}
      renamed == {f \in firsts \ joined :
                    \A g \in Found(d, "out", {"face"}) : g.copy # f.copy}
      cats == {JobOn("cat", f) : f \in joined}
      after == (d \ renamed) \cup {[f EXCEPT !.page = "face"] : f \in renamed}
      popped == Push(Pop("png"), "cat", Cardinality(CopyDirs))
  IN  /\ disk' = after
      /\ IF pageCount = 1
           THEN /\ stack' = Push(popped, "ps", Cardinality(PsInputs(after)))
                /\ StartJobs({j}, cats \cup {JobOn("ps", f) : f \in PsInputs(after)})
           ELSE /\ stack' = popped
                /\ StartJobs({j}, cats)

PngDone_onePageSilent(j) ==    \* mutant: no preview of one-page documents
  /\ alive /\ j.kind = "png"
  /\ PopSurvives("png")
  /\ IF stack["png"] = 1
       THEN /\ CatFirstPages(j, Written(j, j.page, "png"))
            /\ previewed' = previewed + (IF online /\ pageCount > 1 THEN 1 ELSE 0)
       ELSE /\ disk' = Written(j, j.page, "png")
            /\ stack' = Pop("png")
            /\ StartJobs({j}, {})
            /\ UNCHANGED previewed
  /\ UNCHANGED <<pageCount, src, online, session, printed>>

PngDone(j) ==
  /\ alive /\ j.kind = "png"
  /\ PopSurvives("png")
  /\ IF stack["png"] = 1
       THEN /\ CatFirstPages(j, Written(j, j.page, "png"))
            /\ previewed' = previewed + (IF online THEN 1 ELSE 0)
       ELSE /\ disk' = Written(j, j.page, "png")
            /\ stack' = Pop("png")
            /\ StartJobs({j}, {})
            /\ UNCHANGED previewed
  /\ UNCHANGED <<pageCount, src, online, session, printed>>

CatDone(j) ==
  /\ alive /\ j.kind = "cat"
  /\ PopSurvives("cat")
  /\ disk' = Written(j, "face", "out")
  /\ IF stack["cat"] = 1
       THEN /\ stack' = Push(Pop("cat"), "ps", Cardinality(PsInputs(disk')))
            /\ StartJobs({j}, {JobOn("ps", f) : f \in PsInputs(disk')})
       ELSE /\ stack' = Pop("cat")
            /\ StartJobs({j}, {})
  /\ UNCHANGED <<pageCount, src, online, session, signals>>

PsDone_eachJob(j) ==    \* mutant: the signal does not wait for the last job
  /\ alive /\ j.kind = "ps"
  /\ PopSurvives("ps")
  /\ disk' = Written(j, j.page, "prn")
  /\ stack' = Pop("ps")
  /\ printed' = printed + (IF online THEN 1 ELSE 0)
  /\ StartJobs({j}, {})
  /\ UNCHANGED <<pageCount, src, online, session, previewed>>

\* docReady4print when the last conversion is done; a client that has gone
\* is not found and the signal has no effect.
PsDone(j) ==
  /\ alive /\ j.kind = "ps"
  /\ PopSurvives("ps")
  /\ disk' = Written(j, j.page, "prn")
  /\ stack' = Pop("ps")
  /\ printed' = printed + (IF online /\ stack["ps"] = 1 THEN 1 ELSE 0)
  /\ StartJobs({j}, {})
  /\ UNCHANGED <<pageCount, src, online, session, previewed>>

-----------------------------------------------------------------------------
\* Que_UserDemands2Restart: createClientData finds the old ClientData and
\* empties the five directories; the number of pages is sent again.
Restart ==
  /\ alive /\ online
  /\ restarts < MaxRestarts
  /\ restarts' = restarts + 1
  /\ disk' = {}
  /\ worked' = TRUE
  /\ UNCHANGED <<jobs, batch, stack, pageCount, src, online, alive, converted,
                 preps, asked, signals>>

\* disconnected: the ClientData is forgotten, the jobs run on.  A job that
\* ends later finds a fresh one (findClientData).
ClientGone ==
  /\ "gone" \in Faults
  /\ alive /\ online
  /\ online' = FALSE
  /\ stack' = [k \in MetaKinds |-> 0]
  /\ pageCount' = 0
  /\ UNCHANGED <<jobs, batch, src, disk, alive, session, signals>>

-----------------------------------------------------------------------------
JobDone(j) ==
  \/ Ps2PdfDone(j)
  \/ \E n \in PageCounts : PagesCounted(j, n)
  \/ SplitFirstDone(j)
  \/ SplitOtherDone(j)
  \/ MergeDone(j)
  \/ PngDone(j)
  \/ CatDone(j)
  \/ PsDone(j)

Next ==
  \/ Convert2Pdf
  \/ \E t \in Templates : CreateFormatedDoc(t)
  \/ \E t \in Templates : \E broken \in SUBSET DOMAIN t \ {{}} :
       TemplateBroken(t, broken)
  \/ \E j \in jobs : JobDone(j) \/ JobFails(j)
  \/ Restart
  \/ ClientGone

Spec == Init /\ [][Next]_vars

\* Programs end and the event loop runs; the wizard converts its document as
\* soon as it is registered, and nobody has to ask for anything more.
Fairness ==
  /\ WF_vars(Convert2Pdf)
  /\ WF_vars(\E j \in jobs : JobDone(j))

FairSpec == Spec /\ Fairness

-----------------------------------------------------------------------------
(* Properties.                                                             *)

Running(kind) == {j \in jobs : j.kind = kind}

\* As long as the client is there, every running merge, cat, png and ps job
\* has its entry in the stack of its stage, however preparations, failures
\* and restarts overlap: no pop ever meets an empty stack.
JobsHaveEntries ==
  online => \A k \in MetaKinds : Cardinality(Running(k)) <= stack[k]

\* A document is announced for printing only after it was announced for the
\* preview, and never more often.
PreviewComesFirst == printed <= previewed

\* docReady4print is emitted only when no conversion for the printer is still
\* running, not even one left over from an earlier preparation: no file is
\* enqueued for printing while a program writes it.
ReadyOnlyWhenDone ==
  [][printed' # printed => Running("ps")' = {}]_vars

\* When docReady4print is emitted for the first document asked for, and nobody
\* started over, every page the template has for a copy is there, in all the
\* copies: the face, the reverse and the last.  A later preparation finds what the
\* earlier one left, which QFile::copy and rename do not replace.
AllCopiesReady ==
  [][printed' # printed /\ preps = 1 /\ restarts = 0 =>
       \A c \in DOMAIN asked : \A q \in {"first", "over", "last"} \cap asked[c] :
         \E f \in disk' : /\ f.copy = c /\ f.stage = "prn"
                         /\ f.page = (IF q = "first" THEN "face" ELSE q)]_vars

\* Once the document is being merged with the template and no job fails, it
\* becomes ready for printing.
MergedIsReady == (Running("merge") # {}) ~> (printed > 0)

\* It does so, unless the client leaves, when catFirstPages has a job for each
\* entry it pushes or goes on without waiting for them: five copies with first
\* and other pages, or a document of one page.
EveryEntryHasJob ==
  \/ pageCount = 1
  \/ \A c \in CopyDirs : c \in DOMAIN asked /\ {"first", "other"} \subseteq asked[c]

JoinedIsReady ==
  (Running("merge") # {} /\ EveryEntryHasJob) ~> (printed > 0 \/ ~online)

=============================================================================
