------------------------------- MODULE Session -------------------------------
(***************************************************************************)
(* How a print wizard gets to its second page: it looks for the GateKeeper,*)
(* starts it when there is none, registers, asks for the server's state,   *)
(* lets the user choose a mandate when the system knows none, and fetches  *)
(* the secrecy levels and printers of that mandate from the print daemon.  *)
(*                                                                         *)
(* One GateKeeper process at a time serves all wizards: its login, mandate *)
(* and netDemonReady are members of one serverGears, and one connection to *)
(* the daemon carries the questions of all of them.  Every handler runs to *)
(* completion on an event loop and is one action; messages wait in the     *)
(* sockets between them.  A uuid is given to a connection, and a wizard    *)
(* connects once, so a wizard stands for its uuid.                         *)
(***************************************************************************)
EXTENDS Integers, Sequences, FiniteSets

CONSTANTS
  Wizards,    \* the runs of print_monitor
  Mandates,   \* the mandates a user may have
  None,       \* the empty string, for a mandate
  MaxStarts,  \* bound: GateKeeper processes started
  Faults,     \* what may go wrong, a subset of FaultKinds
  MaxFaults   \* bound: how many things go wrong in all

(***************************************************************************)
(* noconfig: the settings are missing or wrong; nologin: the system names  *)
(* no user; noplugins: a plugin is missing; netlost: the link to the daemon*)
(* is refused or breaks; empty: the user has no mandate or no printer;     *)
(* quit: the GateKeeper is closed; crash: it ends without that; leave: a   *)
(* wizard is closed; slow: the GateKeeper takes longer than three seconds; *)
(* nolaunch: its program cannot be started.                                *)
(***************************************************************************)
FaultKinds ==
  {"noconfig", "nologin", "noplugins", "netlost", "empty", "quit", "crash",
   "leave", "slow", "nolaunch"}

ASSUME SessionAssumption ==
  /\ None \notin Mandates
  /\ MaxStarts \in Nat
  /\ Faults \subseteq FaultKinds
  /\ MaxFaults \in Nat

VARIABLES
  gate,      \* the GateKeeper process: down, starting, up or closing
  listens,   \* its local server could be opened
  stale,     \* the socket file of a crashed process is in the way of the next
  plugins,   \* serverGears has its plugins
  login,     \* u_login is not empty
  u_mandat,  \* the member of that name
  link,      \* the socket of net_plugin: none, connecting, up or lost
  ready,     \* netDemonReady
  clients,   \* the wizards whose connections serverGears knows
  spool,     \* the wizards whose document was converted into the spool
  wiz,       \* a wizard: off, waiting for its timer, idle, on or gone
  stopLaunch,\* the wizards that have started the GateKeeper
  have,      \* the steps ticked on the first page, and the templates
  dialog,    \* the wizards that show getUserNameMandatDlg
  picked,    \* currentUserMandat of a wizard
  lists,     \* the mandates its lists were made for
  toGate,    \* messages of a wizard to the GateKeeper
  toWiz,     \* messages of the GateKeeper to a wizard
  toDaemon,  \* what the daemon was sent and has not answered
  fromDaemon,\* messages of the daemon to the GateKeeper
  starts,    \* processes started so far (bounded by MaxStarts)
  faults,    \* what went wrong so far (bounded by MaxFaults)
  told       \* history: the wizards that were told "not ready"

server == <<gate, listens, plugins, login, u_mandat, ready, clients, spool>>
net == <<link, toDaemon, fromDaemon>>
finding == <<wiz, stopLaunch, starts, stale>>
page == <<have, dialog, picked, lists, told>>
vars == <<server, net, finding, page, toGate, toWiz, faults>>

Steps == {"local", "remote", "name", "mandate", "levels", "printers"}
Opt == Mandates \cup {None}

Ask == [type : {"REGISTER", "STATUS", "TEMPLATES", "CONVERT", "LEVELS",
                "PRINTERS"}, mandat : Opt]
Tell == [type : {"UUID", "NOT_READY", "PART_READY", "FULL_READY", "TEMPLATES",
                 "LEVELS", "PRINTERS", "GOOD_BAY"}, mandat : Opt]
Question == [type : {"GLOBAL", "MANDATES", "LEVELS", "PRINTERS"},
             of : Wizards \cup {None}, mandat : Opt]
Answer == [type : {"GLOBAL", "MANDATES", "LEVELS", "PRINTERS", "EMPTY"},
           of : Wizards \cup {None}, mandat : Opt]

TypeOK ==
  /\ gate \in {"down", "starting", "up", "closing"}
  /\ listens \in BOOLEAN
  /\ stale \in BOOLEAN
  /\ plugins \in BOOLEAN
  /\ login \in BOOLEAN
  /\ u_mandat \in Opt
  /\ link \in {"none", "connecting", "up", "lost"}
  /\ ready \in BOOLEAN
  /\ clients \subseteq Wizards
  /\ spool \subseteq Wizards
  /\ wiz \in [Wizards -> {"off", "waiting", "idle", "on", "gone"}]
  /\ stopLaunch \subseteq Wizards
  /\ have \in [Wizards -> SUBSET (Steps \cup {"templates"})]
  /\ dialog \subseteq Wizards
  /\ picked \in [Wizards -> Opt]
  /\ lists \in [Wizards -> [{"LEVELS", "PRINTERS"} -> Opt]]
  /\ toGate \in [Wizards -> Seq(Ask)]
  /\ toWiz \in [Wizards -> Seq(Tell)]
  /\ toDaemon \in Seq(Question)
  /\ fromDaemon \in Seq(Answer)
  /\ starts \in Nat
  /\ faults \in Nat
  /\ told \subseteq Wizards

Init ==
  /\ gate = "down"
  /\ listens = FALSE /\ stale = FALSE
  /\ plugins = FALSE /\ login = FALSE /\ u_mandat = None
  /\ link = "none" /\ ready = FALSE
  /\ clients = {} /\ spool = {}
  /\ wiz = [w \in Wizards |-> "off"]
  /\ stopLaunch = {}
  /\ have = [w \in Wizards |-> {}]
  /\ dialog = {}
  /\ picked = [w \in Wizards |-> None]
  /\ lists = [w \in Wizards |-> [l \in {"LEVELS", "PRINTERS"} |-> None]]
  /\ toGate = [w \in Wizards |-> <<>>]
  /\ toWiz = [w \in Wizards |-> <<>>]
  /\ toDaemon = <<>> /\ fromDaemon = <<>>
  /\ starts = 0 /\ faults = 0
  /\ told = {}

-----------------------------------------------------------------------------
(* The GateKeeper process.                                                 *)

Running == gate \in {"up", "closing"}
Serving == Running /\ listens

\* Something goes wrong.
Fault(kind) == kind \in Faults /\ faults < MaxFaults /\ faults' = faults + 1

\* The user's name and mandate, as far as auth_plugin finds them; without a
\* name it reports neither.
AuthInit ==
  \/ login' = TRUE /\ u_mandat' \in Opt /\ UNCHANGED faults
  \/ login' = FALSE /\ u_mandat' = None /\ Fault("nologin")

\* The local server is opened before the plugins are loaded and cannot be where
\* a socket file is left.
Listen == listens' = ~stale

\* All plugins are there: the user is named, the daemon called.
PluginsLoaded ==
  /\ Listen
  /\ AuthInit
  /\ plugins' = TRUE
  /\ link' = "connecting"

NothingLoaded(kind) ==
  /\ Fault(kind)
  /\ plugins' = FALSE /\ login' = FALSE /\ u_mandat' = None
  /\ link' = "none"

\* readConfig: a setting is missing or wrong.  (It also removes a socket file,
\* but one of another name than the local server has.)
ConfigRefused == listens' = FALSE /\ NothingLoaded("noconfig")

\* loadPlugins: one of the four was not found.
PluginMissing == Listen /\ NothingLoaded("noplugins")

\* Server::init, all before the event loop; the process stays whatever fails.
GateComesUp ==
  /\ gate = "starting"
  /\ gate' = "up"
  /\ ConfigRefused \/ PluginMissing \/ PluginsLoaded
  /\ UNCHANGED <<ready, clients, spool, toDaemon, fromDaemon, finding, page,
                 toGate, toWiz>>

\* Quit in the tray menu: dead_hands says good bye and leaves the event loop
\* half a second for what is on the way.
GateSaysGoodBay ==
  /\ Fault("quit")
  /\ gate = "up"
  /\ gate' = "closing"
  /\ toWiz' = [w \in Wizards |->
                IF w \in clients
                  THEN Append(toWiz[w], [type |-> "GOOD_BAY", mandat |-> None])
                  ELSE toWiz[w]]
  /\ UNCHANGED <<listens, plugins, login, u_mandat, ready, clients, spool, net,
                 finding, page, toGate>>

\* The process ends: its sockets close, its members are lost; files stay.
ProcessEnds ==
  /\ gate' = "down"
  /\ listens' = FALSE
  /\ plugins' = FALSE /\ login' = FALSE /\ u_mandat' = None
  /\ link' = "none" /\ ready' = FALSE
  /\ clients' = {}
  /\ toGate' = [w \in Wizards |-> <<>>]
  /\ toDaemon' = <<>> /\ fromDaemon' = <<>>
  /\ UNCHANGED <<spool, wiz, stopLaunch, starts, page, toWiz>>

GateQuits ==
  /\ gate = "closing"
  /\ ProcessEnds
  /\ UNCHANGED <<stale, faults>>

\* A crash leaves the socket file where local servers are files (on Unix).
GateCrashes ==
  /\ Fault("crash")
  /\ Running
  /\ ProcessEnds
  /\ stale' \in IF listens THEN BOOLEAN ELSE {stale}

-----------------------------------------------------------------------------
(* The link to the daemon.                                                 *)

\* net_plugin::sendMessage writes to a connected socket only.
ToDaemon(q) == IF link = "up" THEN Append(toDaemon, q) ELSE toDaemon

\* onConnected registers the GateKeeper.
LinkUp ==
  /\ link = "connecting"
  /\ link' = "up"
  /\ toDaemon' = Append(toDaemon,
                        [type |-> "GLOBAL", of |-> None, mandat |-> None])
  /\ UNCHANGED <<server, fromDaemon, finding, page, toGate, toWiz, faults>>

\* selectError reports and does nothing else; nothing connects again.
LinkLost ==
  /\ Fault("netlost")
  /\ link \in {"connecting", "up"}
  /\ link' = "lost"
  /\ toDaemon' = <<>> /\ fromDaemon' = <<>>
  /\ UNCHANGED <<server, finding, page, toGate, toWiz>>

Without(s, i) == SubSeq(s, 1, i - 1) \o SubSeq(s, i + 1, Len(s))

\* The daemon answers the questions it got in any order, or keeps one for ever.
\* sptsd answers the registration (sptsd.cpp 119-130), and the question for
\* mandates when the access control system tells it; what that system says about
\* levels and printers it only logs (362-445).  A daemon that serves a wizard
\* gives the answers serverGears is made for (servergears.cpp 217-316).
DaemonAnswers(i) ==
  LET q == toDaemon[i]
  IN /\ link = "up"
     /\ toDaemon' = Without(toDaemon, i)
     /\ \/ fromDaemon' = Append(fromDaemon, q) /\ UNCHANGED faults
        \/ /\ q.type \in {"MANDATES", "PRINTERS"}
           /\ fromDaemon' = Append(fromDaemon, [q EXCEPT !.type = "EMPTY"])
           /\ Fault("empty")
     /\ UNCHANGED <<link, server, finding, page, toGate, toWiz>>

\* findClient: the connection a uuid belongs to, if it is still there.
FindClient_any(u) ==    \* mutant: the answer goes to any wizard
  clients
FindClient(u) == {w \in clients : w = u}

\* mutant: an answer is passed on as it came
TellOf_raw(a) == [type |-> a.type, mandat |-> a.mandat]

\* What becomes of an answer, by its type.
TellOf(a) ==
  CASE a.type = "MANDATES" -> [type |-> "PART_READY", mandat |-> None]
    [] a.type = "EMPTY" -> [type |-> "NOT_READY", mandat |-> None]
    [] OTHER -> [type |-> a.type, mandat |-> a.mandat]

\* reciveNetworkMessage.
GateReceivesAnswer ==
  LET a == Head(fromDaemon)
  IN /\ Running
     /\ fromDaemon # <<>>
     /\ fromDaemon' = Tail(fromDaemon)
     /\ IF a.type = "GLOBAL"
          THEN ready' = TRUE /\ UNCHANGED toWiz
          ELSE /\ \/ \E w \in FindClient(a.of) :
                       toWiz' = [toWiz EXCEPT ![w] = Append(@, TellOf(a))]
                  \/ FindClient(a.of) = {} /\ UNCHANGED toWiz
               /\ UNCHANGED ready
     /\ UNCHANGED <<gate, listens, plugins, login, u_mandat, clients, spool, link,
                    toDaemon, finding, page, toGate, faults>>

-----------------------------------------------------------------------------
(* A wizard looks for the GateKeeper.                                      *)

\* Connecting is followed by Que_Register.  client_init takes the connection,
\* or leaves it alone when the plugins are missing: nobody reads it then.
Connect(w) ==
  /\ Serving
  /\ wiz' = [wiz EXCEPT ![w] = "on"]
  /\ have' = [have EXCEPT ![w] = @ \cup {"local"}]
  /\ clients' = IF plugins THEN clients \cup {w} ELSE clients
  /\ toGate' = [toGate EXCEPT ![w] = <<[type |-> "REGISTER", mandat |-> None]>>]
  /\ UNCHANGED <<stopLaunch, gate, starts, faults>>

\* startDetached: the program ends at once when another instance runs.
StartProgram(w) ==
  \/ /\ stopLaunch' = stopLaunch \cup {w}
     /\ IF gate = "down"
          THEN starts < MaxStarts /\ starts' = starts + 1 /\ gate' = "starting"
          ELSE UNCHANGED <<starts, gate>>
     /\ UNCHANGED faults
  \/ Fault("nolaunch") /\ UNCHANGED <<stopLaunch, starts, gate>>

\* The second attempt is the last; only a slow process is still starting then.
GiveUp(w) ==
  /\ wiz' = [wiz EXCEPT ![w] = "idle"]
  /\ IF gate = "starting" THEN Fault("slow") ELSE UNCHANGED faults
  /\ UNCHANGED <<stopLaunch, gate, starts>>

NotFound_onlyOnce(w) ==    \* mutant: a start that failed is not tried again
  /\ ~Serving
  /\ IF w \in stopLaunch THEN GiveUp(w)
     ELSE /\ StartProgram(w)
          /\ wiz' = [wiz EXCEPT ![w] = IF w \in stopLaunch' THEN "waiting"
                                                            ELSE "idle"]
  /\ UNCHANGED <<have, clients, toGate>>

\* loc_ServerNotFound: start the GateKeeper and try again after three seconds,
\* until it was started once.
NotFound(w) ==
  /\ ~Serving
  /\ IF w \in stopLaunch THEN GiveUp(w)
     ELSE StartProgram(w) /\ wiz' = [wiz EXCEPT ![w] = "waiting"]
  /\ UNCHANGED <<have, clients, toGate>>

\* launchAndConnect, at the start of the wizard and from its timer.
LaunchAndConnect(w) ==
  /\ wiz[w] \in {"off", "waiting"}
  /\ Connect(w) \/ NotFound(w)
  /\ UNCHANGED <<listens, stale, plugins, login, u_mandat, ready, spool, net,
                 dialog, picked, lists, told, toWiz>>

\* The user closes the wizard.
WizardLeaves(w) ==
  /\ Fault("leave")
  /\ wiz[w] \in {"waiting", "on"}
  /\ wiz' = [wiz EXCEPT ![w] = "gone"]
  /\ dialog' = dialog \ {w}
  /\ UNCHANGED <<server, net, stopLaunch, starts, stale, have, picked, lists, told,
                 toGate, toWiz>>

\* disconnected: what the wizard had sent is read first.  clearClientSpool
\* looks for files in the spool itself, and there are none of the wizard.
Disconnected(w) ==
  /\ w \in clients
  /\ wiz[w] = "gone"
  /\ toGate[w] = <<>>
  /\ clients' = clients \ {w}
  /\ toWiz' = [toWiz EXCEPT ![w] = <<>>]
  /\ UNCHANGED <<gate, listens, plugins, login, u_mandat, ready, spool, net, finding,
                 page, toGate, faults>>

-----------------------------------------------------------------------------
(* serverGears::parseMessage.                                              *)

Say(w, t, m) ==
  toWiz' = [toWiz EXCEPT ![w] = Append(@, [type |-> t, mandat |-> m])]
About(t, w, m) == [type |-> t, of |-> w, mandat |-> m]

GateTakes(w, t) ==
  /\ Serving
  /\ w \in clients
  /\ toGate[w] # <<>>
  /\ Head(toGate[w]).type = t
  /\ toGate' = [toGate EXCEPT ![w] = Tail(@)]
  /\ UNCHANGED <<gate, listens, plugins, login, clients, ready, link, fromDaemon,
                 finding, page, faults>>

GateRegisters(w) ==
  /\ GateTakes(w, "REGISTER")
  /\ Say(w, "UUID", None)
  /\ UNCHANGED <<u_mandat, spool, toDaemon>>

GateStatus_unchecked(w) ==    \* mutant: netDemonReady is not asked for
  /\ GateTakes(w, "STATUS")
  /\ IF ~login THEN Say(w, "NOT_READY", None) /\ UNCHANGED toDaemon
     ELSE IF u_mandat = None
       THEN toDaemon' = ToDaemon(About("MANDATES", w, None)) /\ UNCHANGED toWiz
       ELSE Say(w, "FULL_READY", u_mandat) /\ UNCHANGED toDaemon
  /\ UNCHANGED <<u_mandat, spool>>

GateStatus(w) ==
  /\ GateTakes(w, "STATUS")
  /\ IF ~ready \/ ~login THEN Say(w, "NOT_READY", None) /\ UNCHANGED toDaemon
     ELSE IF u_mandat = None
       THEN toDaemon' = ToDaemon(About("MANDATES", w, None)) /\ UNCHANGED toWiz
       ELSE Say(w, "FULL_READY", u_mandat) /\ UNCHANGED toDaemon
  /\ UNCHANGED <<u_mandat, spool>>

GateTemplates(w) ==
  /\ GateTakes(w, "TEMPLATES")
  /\ Say(w, "TEMPLATES", None)
  /\ UNCHANGED <<u_mandat, spool, toDaemon>>

GateConverts(w) ==
  /\ GateTakes(w, "CONVERT")
  /\ spool' = spool \cup {w}
  /\ UNCHANGED <<u_mandat, toDaemon, toWiz>>

GateLevels_overwrites(w) ==    \* mutant: every wizard sets the mandate
  /\ GateTakes(w, "LEVELS")
  /\ IF ready
       THEN /\ u_mandat' = Head(toGate[w]).mandat
            /\ toDaemon' = ToDaemon(About("LEVELS", w, u_mandat'))
            /\ UNCHANGED toWiz
       ELSE Say(w, "NOT_READY", None) /\ UNCHANGED <<u_mandat, toDaemon>>
  /\ UNCHANGED spool

\* Que_SEC_LEVEL brings the mandate the user chose; it counts when the
\* GateKeeper has none yet.
GateLevels(w) ==
  /\ GateTakes(w, "LEVELS")
  /\ IF ready
       THEN /\ u_mandat' = IF u_mandat = None THEN Head(toGate[w]).mandat
                                             ELSE u_mandat
            /\ toDaemon' = ToDaemon(About("LEVELS", w, u_mandat'))
            /\ UNCHANGED toWiz
       ELSE Say(w, "NOT_READY", None) /\ UNCHANGED <<u_mandat, toDaemon>>
  /\ UNCHANGED spool

GatePrinters(w) ==
  /\ GateTakes(w, "PRINTERS")
  /\ IF ready
       THEN toDaemon' = ToDaemon(About("PRINTERS", w, u_mandat)) /\ UNCHANGED toWiz
       ELSE Say(w, "NOT_READY", None) /\ UNCHANGED toDaemon
  /\ UNCHANGED <<u_mandat, spool>>

-----------------------------------------------------------------------------
(* Engine::parseMessage and the first page of the wizard.                  *)

\* mySocketClient::sendMessage writes while the connection is there.
Send(w, asks) ==
  toGate' = IF w \in clients THEN [toGate EXCEPT ![w] = @ \o asks] ELSE toGate
Plain(t) == [type |-> t, mandat |-> None]

Tick(w, steps) == have' = [have EXCEPT ![w] = @ \cup steps]

\* setAuthData asks for the levels; afterConnectSteps for the templates and,
\* as RemoteDemonRegistr is connected to sendFileToConvertor, for the document.
AuthData(m) == <<[type |-> "LEVELS", mandat |-> m]>>
AfterConnect == <<Plain("TEMPLATES"), Plain("CONVERT")>>

WizardTakes(w, t) ==
  /\ wiz[w] = "on"
  /\ toWiz[w] # <<>>
  /\ Head(toWiz[w]).type = t
  /\ toWiz' = [toWiz EXCEPT ![w] = Tail(@)]
  /\ UNCHANGED <<server, net, finding, faults>>

WizardRegistered(w) ==
  /\ WizardTakes(w, "UUID")
  /\ Send(w, <<Plain("STATUS")>>)
  /\ UNCHANGED page

\* gk_notReady is connected to no slot, GoodBay is shown to nobody.
WizardIsTold(w) ==
  /\ WizardTakes(w, "NOT_READY") \/ WizardTakes(w, "GOOD_BAY")
  /\ told' = told \cup {w}
  /\ UNCHANGED <<have, dialog, picked, lists, toGate>>

WizardReady(w) ==
  /\ WizardTakes(w, "FULL_READY")
  /\ picked' = [picked EXCEPT ![w] = Head(toWiz[w]).mandat]
  /\ Tick(w, {"name", "mandate", "remote"})
  /\ Send(w, AuthData(picked'[w]) \o AfterConnect)
  /\ UNCHANGED <<dialog, lists, told>>

WizardAsksUser(w) ==
  /\ WizardTakes(w, "PART_READY")
  /\ dialog' = dialog \cup {w}
  /\ UNCHANGED <<have, picked, lists, told, toGate>>

\* The dialog is modal; afterConnectSteps comes when it was closed, also by
\* Cancel.
UserPicks(w, m) ==
  /\ w \in dialog
  /\ dialog' = dialog \ {w}
  /\ picked' = [picked EXCEPT ![w] = m]
  /\ Tick(w, {"name", "mandate", "remote"})
  /\ Send(w, AuthData(m) \o AfterConnect)
  /\ UNCHANGED <<server, net, finding, lists, told, toWiz, faults>>

UserCancels(w) ==
  /\ w \in dialog
  /\ dialog' = dialog \ {w}
  /\ Tick(w, {"remote"})
  /\ Send(w, AfterConnect)
  /\ UNCHANGED <<server, net, finding, picked, lists, told, toWiz, faults>>

WizardTemplates(w) ==
  /\ WizardTakes(w, "TEMPLATES")
  /\ Tick(w, {"templates"})
  /\ UNCHANGED <<dialog, picked, lists, told, toGate>>

WizardLevels(w) ==
  /\ WizardTakes(w, "LEVELS")
  /\ lists' = [lists EXCEPT ![w]["LEVELS"] = Head(toWiz[w]).mandat]
  /\ Tick(w, {"levels"})
  /\ Send(w, <<Plain("PRINTERS")>>)
  /\ UNCHANGED <<dialog, picked, told>>

WizardPrinters(w) ==
  /\ WizardTakes(w, "PRINTERS")
  /\ lists' = [lists EXCEPT ![w]["PRINTERS"] = Head(toWiz[w]).mandat]
  /\ Tick(w, {"printers"})
  /\ UNCHANGED <<dialog, picked, told, toGate>>

-----------------------------------------------------------------------------
GateStep(w) ==
  \/ GateRegisters(w) \/ GateStatus(w) \/ GateTemplates(w) \/ GateConverts(w)
  \/ GateLevels(w) \/ GatePrinters(w) \/ Disconnected(w)

WizardStep(w) ==
  \/ WizardRegistered(w) \/ WizardIsTold(w) \/ WizardReady(w)
  \/ WizardAsksUser(w) \/ WizardTemplates(w) \/ WizardLevels(w)
  \/ WizardPrinters(w)

UserStep(w) == UserCancels(w) \/ \E m \in Mandates : UserPicks(w, m)

Next ==
  \/ GateComesUp \/ GateSaysGoodBay \/ GateQuits \/ GateCrashes
  \/ LinkUp \/ LinkLost \/ GateReceivesAnswer
  \/ \E i \in DOMAIN toDaemon : DaemonAnswers(i)
  \/ \E w \in Wizards : LaunchAndConnect(w) \/ WizardLeaves(w)
  \/ \E w \in Wizards : GateStep(w) \/ WizardStep(w) \/ UserStep(w)

Spec == Init /\ [][Next]_vars

\* Event loops come round to what waits for them, a started process runs, and
\* the user answers the dialog, if by Cancel.  The daemon has to answer the
\* registration, as sptsd does, and no question.  One condition for all of them
\* is enough: no behaviour of a session is endless.
Progress ==
  \/ GateComesUp \/ GateQuits \/ LinkUp \/ GateReceivesAnswer
  \/ \E i \in DOMAIN toDaemon : toDaemon[i].type = "GLOBAL" /\ DaemonAnswers(i)
  \/ \E w \in Wizards :
       \/ wiz[w] = "waiting" /\ LaunchAndConnect(w)
       \/ GateStep(w) \/ WizardStep(w) \/ UserStep(w)

FairSpec == Spec /\ WF_vars(Progress)

-----------------------------------------------------------------------------
(* Properties.                                                             *)

\* The levels and the printers a wizard shows were asked for one and the same
\* mandate, whatever other wizards asked in between: u_mandat is shared by all
\* and read anew for each of the two questions.
ListsAgree ==
  \A w \in Wizards :
    lists[w]["LEVELS"] # None /\ lists[w]["PRINTERS"] # None
      => lists[w]["LEVELS"] = lists[w]["PRINTERS"]

\* A step is ticked only after the ones it follows from: the printers after
\* the levels, these after the user's name and mandate, and so on.  An answer
\* that reaches another wizard than the one that asked breaks the order.
StepsInOrder ==
  \A w \in Wizards :
    /\ "printers" \in have[w] => "levels" \in have[w]
    /\ "levels" \in have[w] => {"name", "mandate", "remote"} \subseteq have[w]
    /\ {"remote", "templates"} \cap have[w] # {} => "local" \in have[w]

\* A wizard asks for lists and has its document converted only when the daemon
\* has confirmed the GateKeeper it is connected to (the comment at the
\* connection of RemoteDemonRegistr to sendFileToConvertor says so).
RemoteMeansReady ==
  \A w \in clients :
    w \in spool \/ "remote" \in have[w] => ready

\* What may keep a wizard from its second page: it was told or closed, its user
\* cancelled, the GateKeeper it started came too late or cannot listen, lost its
\* link, closed the connection or did not take it; the last line is the bound on
\* processes.
Excused(w) ==
  \/ w \in told
  \/ wiz[w] = "gone"
  \/ wiz[w] = "idle" /\ w \in stopLaunch
  \/ "remote" \in have[w] /\ "name" \notin have[w]
  \/ link = "lost"
  \/ wiz[w] = "on" /\ w \notin clients
  \/ gate = "down" /\ starts = MaxStarts

\* The daemon has a question of the wizard.
Awaited(w) == \E i \in DOMAIN toDaemon : toDaemon[i].of = w

\* A wizard that was started finds or starts its GateKeeper, and what it needs
\* to leave its first page gets lost neither there nor in the wizard, however
\* the questions of other wizards interleave: it gets it all, unless one of the
\* reasons above keeps it or the daemon never answers a question of it, as sptsd
\* never does when asked for levels.
WizardIsServed ==
  \A w \in Wizards :
    wiz[w] # "off" ~> Steps \subseteq have[w] \/ Excused(w) \/ []Awaited(w)
=============================================================================
