---------------------------- MODULE Session_proofs ----------------------------
(***************************************************************************)
(* Proofs about Session: the mandate that a wizard's lists are made for,   *)
(* the order of its steps and the link they presuppose, for any number of  *)
(* wizards, mandates, processes and faults.                                *)
(*                                                                         *)
(* The invariant is about what is on the way.  Each of the four kinds of   *)
(* queues holds lawful messages only: what a message needs to have         *)
(* happened before it was sent has happened (the Law definitions).         *)
(***************************************************************************)
EXTENDS Session, SequenceTheorems, TLAPS

-----------------------------------------------------------------------------
(* Types.                                                                  *)

LEMMA WithoutTyped ==
  ASSUME NEW T, NEW s \in Seq(T), NEW i \in DOMAIN s
  PROVE  s[i] \in T /\ Without(s, i) \in Seq(T)
<1> DEFINE l == Len(s)
           a == SubSeq(s, 1, i - 1)
           b == SubSeq(s, i + 1, l)
<1>1. l \in Nat /\ i \in 1 .. l /\ \A j \in 1 .. l : s[j] \in T
  BY LenProperties, ElementOfSeq
<1> HIDE DEF l
<1>2. a \in Seq(T)
  <2>1. \A j \in 1 .. i - 1 : s[j] \in T
    BY <1>1
  <2> QED  BY <1>1, <2>1, SubSeqProperties
<1>3. b \in Seq(T)
  <2>1. \A j \in i + 1 .. l : s[j] \in T
    BY <1>1
  <2> QED  BY <1>1, <2>1, SubSeqProperties
<1>4. Without(s, i) = a \o b
  BY DEF Without, l
<1> HIDE DEF a, b
<1> QED  BY <1>1, <1>2, <1>3, <1>4, ConcatProperties

LEMMA FaultTyped ==
  ASSUME TypeOK, NEW kind, Fault(kind)
  PROVE  faults' \in Nat
  BY DEF Fault, TypeOK

LEMMA SaidTyped ==
  ASSUME TypeOK, NEW w \in Wizards, NEW m \in Tell,
         toWiz' = [toWiz EXCEPT ![w] = Append(@, m)]
  PROVE  toWiz' \in [Wizards -> Seq(Tell)]
<1>1. toWiz[w] \in Seq(Tell)
  BY DEF TypeOK
<1>2. Append(toWiz[w], m) \in Seq(Tell)
  BY <1>1, AppendProperties
<1> QED  BY <1>2 DEF TypeOK

LEMMA AskedTyped ==
  ASSUME TypeOK, NEW q \in Question, toDaemon' = ToDaemon(q)
  PROVE  toDaemon' \in Seq(Question)
  BY AppendProperties DEF TypeOK, ToDaemon

LEMMA SentTyped ==
  ASSUME TypeOK, NEW w \in Wizards, NEW asks \in Seq(Ask), Send(w, asks)
  PROVE  toGate' \in [Wizards -> Seq(Ask)]
<1>1. toGate[w] \o asks \in Seq(Ask)
  BY ConcatProperties DEF TypeOK
<1> QED  BY <1>1 DEF TypeOK, Send

LEMMA ProcessTyped ==
  ASSUME SessionAssumption, TypeOK,
         \/ GateComesUp \/ GateSaysGoodBay \/ GateQuits \/ GateCrashes
         \/ LinkUp \/ LinkLost
  PROVE  TypeOK'
<1> USE DEF TypeOK, server, net, finding, page
<1>1. CASE GateComesUp
  <2>1. /\ plugins' \in BOOLEAN /\ login' \in BOOLEAN /\ u_mandat' \in Opt
        /\ link' \in {"none", "connecting"} /\ faults' \in Nat
    BY <1>1, FaultTyped DEF GateComesUp, ConfigRefused, PluginMissing, PluginsLoaded, NothingLoaded,
               AuthInit, Opt
  <2>2. listens' \in BOOLEAN
    BY <1>1 DEF GateComesUp, ConfigRefused, PluginMissing, PluginsLoaded, Listen
  <2> QED  BY <1>1, <2>1, <2>2 DEF GateComesUp
<1>2. CASE GateSaysGoodBay
  <2> DEFINE bye == [type |-> "GOOD_BAY", mandat |-> None]
  <2>1. bye \in Tell
    BY DEF Tell, Opt
  <2>2. \A w \in Wizards : Append(toWiz[w], bye) \in Seq(Tell)
    BY <2>1, AppendProperties
  <2>3. toWiz' \in [Wizards -> Seq(Tell)]
    BY <1>2, <2>2 DEF GateSaysGoodBay
  <2> QED  BY <1>2, <2>3, FaultTyped DEF GateSaysGoodBay
<1>3. CASE GateQuits \/ GateCrashes
  <2>1. stale' \in BOOLEAN /\ faults' \in Nat
    BY <1>3, FaultTyped DEF GateQuits, GateCrashes
  <2>2. ProcessEnds
    BY <1>3 DEF GateQuits, GateCrashes
  <2> QED  BY <2>1, <2>2, EmptySeq DEF ProcessEnds, Opt
<1>4. CASE LinkUp
  <2>1. [type |-> "GLOBAL", of |-> None, mandat |-> None] \in Question
    BY DEF Question, Opt
  <2>2. toDaemon' \in Seq(Question)
    BY <1>4, <2>1, AppendProperties DEF LinkUp
  <2> QED  BY <1>4, <2>2 DEF LinkUp
<1>5. CASE LinkLost
  BY <1>5, EmptySeq, FaultTyped DEF LinkLost
<1> QED  BY <1>1, <1>2, <1>3, <1>4, <1>5

LEMMA DaemonTyped ==
  ASSUME SessionAssumption, TypeOK,
         GateReceivesAnswer \/ \E i \in DOMAIN toDaemon : DaemonAnswers(i)
  PROVE  TypeOK'
<1> USE DEF TypeOK, server, net, finding, page
<1>1. CASE GateReceivesAnswer
  <2> DEFINE a == Head(fromDaemon)
  <2>1. a \in Answer /\ fromDaemon' \in Seq(Answer)
    BY <1>1, HeadTailProperties DEF GateReceivesAnswer
  <2>2. CASE a.type = "GLOBAL"
    BY <1>1, <2>1, <2>2 DEF GateReceivesAnswer
  <2>3. CASE a.type # "GLOBAL"
    <3>1. TellOf(a) \in Tell
      BY <2>1, <2>3 DEF TellOf, Answer, Tell, Opt
    <3>2. toWiz' \in [Wizards -> Seq(Tell)] /\ ready' = ready
      BY <1>1, <2>3, <3>1, SaidTyped DEF GateReceivesAnswer, FindClient
    <3> QED  BY <1>1, <2>1, <3>2 DEF GateReceivesAnswer
  <2> QED  BY <2>2, <2>3
<1>2. ASSUME NEW i \in DOMAIN toDaemon, DaemonAnswers(i)
      PROVE  TypeOK'
  <2> DEFINE q == toDaemon[i]
  <2>1. q \in Question /\ toDaemon' \in Seq(Question)
    BY <1>2, WithoutTyped DEF DaemonAnswers
  <2>2. q \in Answer /\ [q EXCEPT !.type = "EMPTY"] \in Answer
    BY <2>1 DEF Question, Answer
  <2> HIDE DEF q
  <2>3. fromDaemon' \in Seq(Answer) /\ faults' \in Nat
    <3> DEFINE e == [q EXCEPT !.type = "EMPTY"]
    <3>1. \/ fromDaemon' = Append(fromDaemon, q) /\ faults' = faults
          \/ fromDaemon' = Append(fromDaemon, e) /\ Fault("empty")
      BY <1>2 DEF DaemonAnswers, q
    <3>2. e \in Answer
      BY <2>2
    <3>3. fromDaemon \in Seq(Answer) /\ faults \in Nat
      OBVIOUS
    <3>4. Fault("empty") => faults' \in Nat
      BY FaultTyped
    <3> HIDE DEF e, TypeOK
    <3> QED  BY <2>2, <3>1, <3>2, <3>3, <3>4, AppendProperties
  <2> QED  BY <1>2, <2>1, <2>3 DEF DaemonAnswers
<1> QED  BY <1>1, <1>2

LEMMA LaunchTyped ==
  ASSUME SessionAssumption, TypeOK, NEW w \in Wizards,
         LaunchAndConnect(w) \/ WizardLeaves(w) \/ Disconnected(w)
  PROVE  TypeOK'
<1> USE DEF TypeOK, server, net, finding, page
<1>1. CASE LaunchAndConnect(w)
  <2>0. UNCHANGED <<listens, stale, plugins, login, u_mandat, ready, spool, net,
                    dialog, picked, lists, told, toWiz>>
    BY <1>1 DEF LaunchAndConnect
  <2>1. CASE Connect(w)
    <3>1. toGate' \in [Wizards -> Seq(Ask)]
      <4> DEFINE x == [type |-> "REGISTER", mandat |-> None]
      <4>1. x \in Ask
        BY DEF Ask, Opt
      <4>2. toGate' = [toGate EXCEPT ![w] = <<x>>]
        BY <2>1 DEF Connect
      <4> HIDE DEF x
      <4> QED  BY <4>1, <4>2
    <3>2. wiz' \in [Wizards -> {"off", "waiting", "idle", "on", "gone"}]
      BY <2>1 DEF Connect
    <3>3. have' \in [Wizards -> SUBSET (Steps \cup {"templates"})]
      BY <2>1 DEF Connect, Steps
    <3>4. clients' \subseteq Wizards
      BY <2>1 DEF Connect
    <3> QED  BY <2>0, <2>1, <3>1, <3>2, <3>3, <3>4 DEF Connect
  <2>2. CASE NotFound(w)
    <3>1. wiz' \in [Wizards -> {"off", "waiting", "idle", "on", "gone"}]
      BY <2>2 DEF NotFound, GiveUp
    <3>2. /\ stopLaunch' \subseteq Wizards /\ starts' \in Nat /\ faults' \in Nat
          /\ gate' \in {"down", "starting", "up", "closing"}
      BY <2>2, FaultTyped DEF NotFound, GiveUp, StartProgram
    <3> QED  BY <2>0, <2>2, <3>1, <3>2 DEF NotFound
  <2> QED  BY <1>1, <2>1, <2>2 DEF LaunchAndConnect
<1>2. CASE WizardLeaves(w)
  BY <1>2, FaultTyped DEF WizardLeaves
<1>3. CASE Disconnected(w)
  BY <1>3, EmptySeq DEF Disconnected
<1> QED  BY <1>1, <1>2, <1>3

LEMMA GateTyped ==
  ASSUME SessionAssumption, TypeOK, NEW w \in Wizards,
         \/ GateRegisters(w) \/ GateStatus(w) \/ GateTemplates(w)
         \/ GateConverts(w) \/ GateLevels(w) \/ GatePrinters(w)
  PROVE  TypeOK'
<1>1. ASSUME NEW t, GateTakes(w, t)
      PROVE  /\ Head(toGate[w]) \in Ask
             /\ toGate' \in [Wizards -> Seq(Ask)]
             /\ UNCHANGED <<gate, listens, plugins, login, clients, ready, link, fromDaemon,
                            finding, page, faults>>
  <2>1. toGate[w] \in Seq(Ask) /\ toGate[w] # <<>>
    BY <1>1 DEF GateTakes, TypeOK
  <2>2. Head(toGate[w]) \in Ask /\ Tail(toGate[w]) \in Seq(Ask)
    BY <2>1, HeadTailProperties
  <2> QED  BY <1>1, <2>2 DEF GateTakes, TypeOK
<1>2. \A m \in Opt, t \in {"UUID", "NOT_READY", "FULL_READY", "TEMPLATES"} :
        Say(w, t, m) => toWiz' \in [Wizards -> Seq(Tell)]
  <2> SUFFICES ASSUME NEW m \in Opt, NEW t \in {"UUID", "NOT_READY", "FULL_READY", "TEMPLATES"},
                      Say(w, t, m)
               PROVE  toWiz' \in [Wizards -> Seq(Tell)]
    OBVIOUS
  <2> DEFINE x == [type |-> t, mandat |-> m]
  <2>1. x \in Tell
    BY DEF Tell
  <2>2. toWiz' = [toWiz EXCEPT ![w] = Append(@, x)]
    BY DEF Say
  <2> HIDE DEF x
  <2> QED  BY <2>1, <2>2, SaidTyped
<1>3. \A m \in Opt, t \in {"MANDATES", "LEVELS", "PRINTERS"} :
        toDaemon' = ToDaemon(About(t, w, m)) => toDaemon' \in Seq(Question)
  <2>1. \A m \in Opt, t \in {"MANDATES", "LEVELS", "PRINTERS"} : About(t, w, m) \in Question
    BY DEF About, Question
  <2> QED  BY <2>1, AskedTyped
<1>4. None \in Opt /\ u_mandat \in Opt
  BY DEF Opt, TypeOK
<1>5. toWiz \in [Wizards -> Seq(Tell)] /\ toDaemon \in Seq(Question)
      /\ spool \subseteq Wizards
  BY DEF TypeOK
\* It is enough to look at what the handlers differ in.
<1>6. ASSUME NEW t, GateTakes(w, t), u_mandat' \in Opt, spool' \subseteq Wizards,
             toWiz' \in [Wizards -> Seq(Tell)], toDaemon' \in Seq(Question)
      PROVE  TypeOK'
  BY <1>1, <1>6 DEF TypeOK, finding, page
<1>7. CASE GateRegisters(w)
  <2>1. /\ GateTakes(w, "REGISTER") /\ Say(w, "UUID", None)
        /\ UNCHANGED <<u_mandat, spool, toDaemon>>
    BY <1>7 DEF GateRegisters
  <2> QED  BY <1>2, <1>4, <1>5, <1>6, <2>1
<1>8. CASE GateStatus(w)
  <2>1. /\ GateTakes(w, "STATUS") /\ UNCHANGED <<u_mandat, spool>>
        /\ \/ Say(w, "NOT_READY", None) /\ toDaemon' = toDaemon
           \/ toDaemon' = ToDaemon(About("MANDATES", w, None)) /\ toWiz' = toWiz
           \/ Say(w, "FULL_READY", u_mandat) /\ toDaemon' = toDaemon
    BY <1>8 DEF GateStatus
  <2>2. toWiz' \in [Wizards -> Seq(Tell)]
    BY <1>2, <1>4, <1>5, <2>1
  <2>3. toDaemon' \in Seq(Question)
    BY <1>3, <1>4, <1>5, <2>1
  <2> QED  BY <1>4, <1>5, <1>6, <2>1, <2>2, <2>3
<1>9. CASE GateTemplates(w)
  <2>1. /\ GateTakes(w, "TEMPLATES") /\ Say(w, "TEMPLATES", None)
        /\ UNCHANGED <<u_mandat, spool, toDaemon>>
    BY <1>9 DEF GateTemplates
  <2> QED  BY <1>2, <1>4, <1>5, <1>6, <2>1
<1>10. CASE GateConverts(w)
  <2>1. /\ GateTakes(w, "CONVERT") /\ spool' = spool \cup {w}
        /\ UNCHANGED <<u_mandat, toDaemon, toWiz>>
    BY <1>10 DEF GateConverts
  <2> QED  BY <1>4, <1>5, <1>6, <2>1
<1>11. CASE GateLevels(w)
  <2>0. Head(toGate[w]).mandat \in Opt
    BY <1>1, <1>11 DEF GateLevels, Ask
  <2>1. /\ GateTakes(w, "LEVELS") /\ u_mandat' \in Opt /\ UNCHANGED spool
        /\ \/ Say(w, "NOT_READY", None) /\ toDaemon' = toDaemon
           \/ toDaemon' = ToDaemon(About("LEVELS", w, u_mandat')) /\ toWiz' = toWiz
    BY <1>4, <1>11, <2>0 DEF GateLevels
  <2>2. toWiz' \in [Wizards -> Seq(Tell)]
    BY <1>2, <1>4, <1>5, <2>1
  <2>3. toDaemon' \in Seq(Question)
    BY <1>3, <1>4, <1>5, <2>1
  <2> QED  BY <1>5, <1>6, <2>1, <2>2, <2>3
<1>12. CASE GatePrinters(w)
  <2>1. /\ GateTakes(w, "PRINTERS") /\ UNCHANGED <<u_mandat, spool>>
        /\ \/ Say(w, "NOT_READY", None) /\ toDaemon' = toDaemon
           \/ toDaemon' = ToDaemon(About("PRINTERS", w, u_mandat)) /\ toWiz' = toWiz
    BY <1>12 DEF GatePrinters
  <2>2. toWiz' \in [Wizards -> Seq(Tell)]
    BY <1>2, <1>4, <1>5, <2>1
  <2>3. toDaemon' \in Seq(Question)
    BY <1>3, <1>4, <1>5, <2>1
  <2> QED  BY <1>4, <1>5, <1>6, <2>1, <2>2, <2>3
<1> QED  BY <1>7, <1>8, <1>9, <1>10, <1>11, <1>12

LEMMA AsksTyped ==
  ASSUME SessionAssumption
  PROVE  /\ \A t \in {"STATUS", "TEMPLATES", "CONVERT", "PRINTERS"} : Plain(t) \in Ask
         /\ AfterConnect \in Seq(Ask)
         /\ \A m \in Opt : AuthData(m) \in Seq(Ask) /\ AuthData(m) \o AfterConnect \in Seq(Ask)
<1>1. \A t \in {"STATUS", "TEMPLATES", "CONVERT", "PRINTERS"} : Plain(t) \in Ask
  BY DEF Plain, Ask, Opt
<1>2. AfterConnect \in Seq(Ask)
  <2> DEFINE x == Plain("TEMPLATES")
             y == Plain("CONVERT")
  <2>1. x \in Ask /\ y \in Ask /\ AfterConnect = <<x, y>>
    BY <1>1 DEF AfterConnect
  <2> HIDE DEF x, y
  <2> QED  BY <2>1
<1>3. ASSUME NEW m \in Opt
      PROVE  AuthData(m) \in Seq(Ask)
  <2> DEFINE x == [type |-> "LEVELS", mandat |-> m]
  <2>1. x \in Ask /\ AuthData(m) = <<x>>
    BY DEF AuthData, Ask
  <2> HIDE DEF x
  <2> QED  BY <2>1
<1> QED  BY <1>1, <1>2, <1>3, ConcatProperties

LEMMA TickTyped ==
  ASSUME TypeOK, NEW w \in Wizards, NEW ticks \in SUBSET (Steps \cup {"templates"}),
         Tick(w, ticks)
  PROVE  have' \in [Wizards -> SUBSET (Steps \cup {"templates"})]
  BY DEF Tick, TypeOK

LEMMA UserTyped ==
  ASSUME SessionAssumption, TypeOK, NEW w \in Wizards, UserStep(w)
  PROVE  TypeOK'
<1> USE DEF server, net, finding
<1>0. {"name", "mandate", "remote"} \subseteq Steps /\ {"remote"} \subseteq Steps
  BY DEF Steps
<1>1. CASE UserCancels(w)
  <2>1. toGate' \in [Wizards -> Seq(Ask)]
    BY <1>1, AsksTyped, SentTyped DEF UserCancels
  <2>2. have' \in [Wizards -> SUBSET (Steps \cup {"templates"})]
    BY <1>0, <1>1, TickTyped DEF UserCancels
  <2> QED  BY <1>1, <2>1, <2>2 DEF UserCancels, TypeOK
<1>2. ASSUME NEW m \in Mandates, UserPicks(w, m)
      PROVE  TypeOK'
  <2>1. m \in Opt
    BY DEF Opt
  <2>2. toGate' \in [Wizards -> Seq(Ask)]
    BY <1>2, <2>1, AsksTyped, SentTyped DEF UserPicks
  <2>3. have' \in [Wizards -> SUBSET (Steps \cup {"templates"})]
    BY <1>0, <1>2, TickTyped DEF UserPicks
  <2>4. picked' \in [Wizards -> Opt]
    BY <1>2, <2>1 DEF UserPicks, TypeOK
  <2> QED  BY <1>2, <2>2, <2>3, <2>4 DEF UserPicks, TypeOK
<1> QED  BY <1>1, <1>2 DEF UserStep

LEMMA WizardTyped ==
  ASSUME SessionAssumption, TypeOK, NEW w \in Wizards, WizardStep(w)
  PROVE  TypeOK'
<1>1. ASSUME NEW t, WizardTakes(w, t)
      PROVE  /\ Head(toWiz[w]) \in Tell /\ Head(toWiz[w]).mandat \in Opt
             /\ toWiz' \in [Wizards -> Seq(Tell)]
             /\ UNCHANGED <<server, net, finding, faults>>
  <2>1. toWiz[w] \in Seq(Tell) /\ toWiz[w] # <<>>
    BY <1>1 DEF WizardTakes, TypeOK
  <2>2. Head(toWiz[w]) \in Tell /\ Tail(toWiz[w]) \in Seq(Tell)
    BY <2>1, HeadTailProperties
  <2> QED  BY <1>1, <2>2 DEF WizardTakes, TypeOK, Tell
<1> DEFINE m == Head(toWiz[w]).mandat
<1>2. \A ticks \in SUBSET (Steps \cup {"templates"}) :
        Tick(w, ticks) => have' \in [Wizards -> SUBSET (Steps \cup {"templates"})]
  BY TickTyped
<1>3. ASSUME NEW t \in {"STATUS", "PRINTERS"}, Send(w, <<Plain(t)>>)
      PROVE  toGate' \in [Wizards -> Seq(Ask)]
  <2> DEFINE x == Plain(t)
  <2>1. x \in Ask /\ Send(w, <<x>>)
    BY <1>3, AsksTyped
  <2> HIDE DEF x
  <2>2. <<x>> \in Seq(Ask)
    BY <2>1
  <2> QED  BY <2>1, <2>2, SentTyped
<1> USE DEF server, net, finding, page
<1>4. CASE WizardRegistered(w)
  BY <1>1, <1>3, <1>4 DEF WizardRegistered, TypeOK
<1>5. CASE WizardIsTold(w)
  BY <1>1, <1>5 DEF WizardIsTold, TypeOK
<1>6. CASE WizardReady(w)
  <2>1. WizardTakes(w, "FULL_READY") /\ picked' = [picked EXCEPT ![w] = m]
    BY <1>6 DEF WizardReady
  <2>2. m \in Opt /\ picked' \in [Wizards -> Opt] /\ picked'[w] = m
    BY <1>1, <2>1 DEF TypeOK
  <2>3. toGate' \in [Wizards -> Seq(Ask)]
    BY <1>6, <2>2, AsksTyped, SentTyped DEF WizardReady
  <2>4. have' \in [Wizards -> SUBSET (Steps \cup {"templates"})]
    <3>1. {"name", "mandate", "remote"} \subseteq Steps
      BY DEF Steps
    <3> QED  BY <1>2, <1>6, <3>1 DEF WizardReady
  <2> QED  BY <1>1, <1>6, <2>1, <2>2, <2>3, <2>4 DEF WizardReady, TypeOK
<1>7. CASE WizardAsksUser(w)
  BY <1>1, <1>7 DEF WizardAsksUser, TypeOK
<1>8. CASE WizardTemplates(w)
  BY <1>1, <1>2, <1>8 DEF WizardTemplates, TypeOK
<1>9. CASE WizardLevels(w)
  <2>1. WizardTakes(w, "LEVELS") /\ lists' = [lists EXCEPT ![w]["LEVELS"] = m]
    BY <1>9 DEF WizardLevels
  <2>2. lists' \in [Wizards -> [{"LEVELS", "PRINTERS"} -> Opt]]
    BY <1>1, <2>1 DEF TypeOK
  <2>3. have' \in [Wizards -> SUBSET (Steps \cup {"templates"})]
    BY <1>2, <1>9 DEF WizardLevels, Steps
  <2> QED  BY <1>1, <1>3, <1>9, <2>1, <2>2, <2>3 DEF WizardLevels, TypeOK
<1>10. CASE WizardPrinters(w)
  <2>1. WizardTakes(w, "PRINTERS") /\ lists' = [lists EXCEPT ![w]["PRINTERS"] = m]
    BY <1>10 DEF WizardPrinters
  <2>2. lists' \in [Wizards -> [{"LEVELS", "PRINTERS"} -> Opt]]
    BY <1>1, <2>1 DEF TypeOK
  <2>3. have' \in [Wizards -> SUBSET (Steps \cup {"templates"})]
    BY <1>2, <1>10 DEF WizardPrinters, Steps
  <2> QED  BY <1>1, <1>10, <2>1, <2>2, <2>3 DEF WizardPrinters, TypeOK
<1> QED  BY <1>4, <1>5, <1>6, <1>7, <1>8, <1>9, <1>10 DEF WizardStep

LEMMA StepTyped ==
  ASSUME SessionAssumption, TypeOK, [Next]_vars
  PROVE  TypeOK'
<1>1. CASE UNCHANGED vars
  BY <1>1 DEF TypeOK, vars, server, net, finding, page
<1> QED
  BY <1>1, ProcessTyped, DaemonTyped, LaunchTyped, GateTyped, WizardTyped, UserTyped
  DEF Next, GateStep

-----------------------------------------------------------------------------
(* Processes and wizards come and go.                                      *)

\* A wizard that has not found the GateKeeper yet.
New(w) ==
  /\ have[w] = {} /\ toWiz[w] = <<>>
  /\ lists[w]["LEVELS"] = None /\ lists[w]["PRINTERS"] = None
  /\ w \notin dialog /\ w \notin spool /\ w \notin clients

Basic ==
  /\ ~Running => link = "none" /\ clients = {} /\ toDaemon = <<>> /\ fromDaemon = <<>>
  /\ \A w \in Wizards :
       /\ wiz[w] \in {"off", "waiting"} => New(w)
       /\ wiz[w] = "on" \/ w \in dialog => "local" \in have[w]

\* What a step leaves alone, by the side that makes it.
LEMMA GateFrame ==
  ASSUME NEW w \in Wizards,
         \/ GateRegisters(w) \/ GateStatus(w) \/ GateTemplates(w)
         \/ GateConverts(w) \/ GateLevels(w) \/ GatePrinters(w)
  PROVE  /\ Serving /\ w \in clients
         /\ UNCHANGED <<gate, listens, plugins, login, clients, ready, link, fromDaemon,
                        finding, page>>
         /\ spool' \in {spool, spool \cup {w}}
         /\ toWiz' = toWiz \/ \E t, m : Say(w, t, m)
<1>1. \A t : GateTakes(w, t) =>
        /\ Serving /\ w \in clients
        /\ UNCHANGED <<gate, listens, plugins, login, clients, ready, link, fromDaemon,
                       finding, page>>
  BY DEF GateTakes
<1>2. CASE GateRegisters(w)
  BY <1>1, <1>2 DEF GateRegisters
<1>3. CASE GateStatus(w)
  BY <1>1, <1>3 DEF GateStatus
<1>4. CASE GateTemplates(w)
  BY <1>1, <1>4 DEF GateTemplates
<1>5. CASE GateConverts(w)
  BY <1>1, <1>5 DEF GateConverts
<1>6. CASE GateLevels(w)
  BY <1>1, <1>6 DEF GateLevels
<1>7. CASE GatePrinters(w)
  BY <1>1, <1>7 DEF GatePrinters
<1> QED  BY <1>2, <1>3, <1>4, <1>5, <1>6, <1>7

LEMMA WizardFrame ==
  ASSUME TypeOK, Basic, NEW w \in Wizards, WizardStep(w) \/ UserStep(w)
  PROVE  /\ UNCHANGED <<server, net, finding>>
         /\ wiz[w] = "on" \/ w \in dialog
         /\ have[w] \subseteq have'[w] /\ dialog' \subseteq dialog \cup {w}
         /\ \A v \in Wizards \ {w} : /\ have'[v] = have[v] /\ lists'[v] = lists[v]
                                     /\ toWiz'[v] = toWiz[v]
<1>1. \A t : WizardTakes(w, t) =>
        /\ UNCHANGED <<server, net, finding>> /\ wiz[w] = "on"
        /\ \A v \in Wizards \ {w} : toWiz'[v] = toWiz[v]
  BY DEF WizardTakes, TypeOK
<1>2. \A ticks : Tick(w, ticks) =>
        /\ have[w] \subseteq have'[w]
        /\ \A v \in Wizards \ {w} : have'[v] = have[v]
  BY DEF Tick, TypeOK
<1>3. CASE WizardRegistered(w)
  BY <1>1, <1>3 DEF WizardRegistered, page
<1>4. CASE WizardIsTold(w)
  BY <1>1, <1>4 DEF WizardIsTold
<1>5. CASE WizardReady(w)
  BY <1>1, <1>2, <1>5 DEF WizardReady
<1>6. CASE WizardAsksUser(w)
  BY <1>1, <1>6 DEF WizardAsksUser
<1>7. CASE WizardTemplates(w)
  BY <1>1, <1>2, <1>7 DEF WizardTemplates
<1>8. CASE WizardLevels(w)
  <2>1. \A v \in Wizards \ {w} : lists'[v] = lists[v]
    BY <1>8 DEF WizardLevels, TypeOK
  <2> QED  BY <1>1, <1>2, <1>8, <2>1 DEF WizardLevels
<1>9. CASE WizardPrinters(w)
  <2>1. \A v \in Wizards \ {w} : lists'[v] = lists[v]
    BY <1>9 DEF WizardPrinters, TypeOK
  <2> QED  BY <1>1, <1>2, <1>9, <2>1 DEF WizardPrinters
<1>10. CASE UserCancels(w)
  BY <1>2, <1>10 DEF UserCancels
<1>11. ASSUME NEW m \in Mandates, UserPicks(w, m)
       PROVE  /\ UNCHANGED <<server, net, finding>> /\ w \in dialog
              /\ have[w] \subseteq have'[w] /\ dialog' \subseteq dialog \cup {w}
              /\ \A v \in Wizards \ {w} : /\ have'[v] = have[v] /\ lists'[v] = lists[v]
                                          /\ toWiz'[v] = toWiz[v]
  BY <1>2, <1>11 DEF UserPicks
<1> QED
  BY <1>3, <1>4, <1>5, <1>6, <1>7, <1>8, <1>9, <1>10, <1>11 DEF WizardStep, UserStep

LEMMA StepBasic ==
  ASSUME SessionAssumption, TypeOK, Basic, [Next]_vars
  PROVE  Basic'
<1> USE DEF server, net, finding, page
<1>1. CASE GateComesUp \/ GateSaysGoodBay \/ LinkUp \/ LinkLost
  <2>1. CASE GateComesUp
    BY <2>1 DEF GateComesUp, Basic, Running, New
  <2>2. CASE GateSaysGoodBay
    <3>1. /\ Running /\ Running'
          /\ UNCHANGED <<clients, spool, wiz, have, dialog, lists>>
          /\ \A w \in Wizards : w \notin clients => toWiz'[w] = toWiz[w]
      BY <2>2 DEF GateSaysGoodBay, Running
    <3> QED  BY <3>1 DEF Basic, New
  <2>3. CASE LinkUp \/ LinkLost
    BY <2>3 DEF LinkUp, LinkLost, Basic, Running, New
  <2> QED  BY <1>1, <2>1, <2>2, <2>3
<1>2. CASE GateQuits \/ GateCrashes
  <2>1. ProcessEnds
    BY <1>2 DEF GateQuits, GateCrashes
  <2> QED  BY <2>1 DEF ProcessEnds, Basic, New
<1>3. CASE GateReceivesAnswer
  <2>1. /\ Running /\ Running'
        /\ UNCHANGED <<clients, spool, wiz, have, dialog, lists>>
        /\ \A w \in Wizards : w \notin clients => toWiz'[w] = toWiz[w]
    BY <1>3 DEF GateReceivesAnswer, Running, FindClient, TypeOK
  <2> QED  BY <2>1 DEF Basic, New
<1>4. ASSUME NEW i \in DOMAIN toDaemon, DaemonAnswers(i)
      PROVE  Basic'
  BY <1>4 DEF DaemonAnswers, Basic, Running, New
<1>5. ASSUME NEW w \in Wizards, LaunchAndConnect(w)
      PROVE  Basic'
  <2>0. /\ wiz[w] \in {"off", "waiting"} /\ New(w)
        /\ UNCHANGED <<spool, net, dialog, lists, toWiz>>
    BY <1>5 DEF LaunchAndConnect, Basic
  <2>1. CASE Connect(w)
    <3>1. /\ Running /\ Running' /\ clients' \subseteq clients \cup {w}
          /\ wiz'[w] = "on" /\ "local" \in have'[w]
          /\ \A v \in Wizards \ {w} : wiz'[v] = wiz[v] /\ have'[v] = have[v]
      BY <2>1 DEF Connect, Serving, Running, TypeOK
    <3> QED  BY <2>0, <3>1 DEF Basic, New
  <2>2. CASE NotFound(w)
    <3>1. /\ ~Running' => ~Running
          /\ clients' = clients /\ have' = have
          /\ wiz'[w] \in {"waiting", "idle"}
          /\ \A v \in Wizards \ {w} : wiz'[v] = wiz[v]
      BY <2>2 DEF NotFound, GiveUp, StartProgram, Running, TypeOK
    <3> QED  BY <2>0, <3>1 DEF Basic, New
  <2> QED  BY <1>5, <2>1, <2>2 DEF LaunchAndConnect
<1>6. ASSUME NEW w \in Wizards, WizardLeaves(w)
      PROVE  Basic'
  <2>1. /\ wiz'[w] = "gone" /\ dialog' = dialog \ {w}
        /\ \A v \in Wizards \ {w} : wiz'[v] = wiz[v]
        /\ UNCHANGED <<gate, clients, spool, net, have, lists, toWiz>>
    BY <1>6 DEF WizardLeaves, TypeOK
  <2> QED  BY <2>1 DEF Basic, Running, New
<1>7. ASSUME NEW w \in Wizards, Disconnected(w)
      PROVE  Basic'
  <2>1. /\ clients' = clients \ {w}
        /\ \A v \in Wizards : toWiz[v] = <<>> => toWiz'[v] = <<>>
        /\ UNCHANGED <<gate, spool, net, have, lists, wiz, dialog>>
    BY <1>7 DEF Disconnected, TypeOK
  <2> QED  BY <2>1 DEF Basic, Running, New
<1>8. ASSUME NEW w \in Wizards,
             \/ GateRegisters(w) \/ GateStatus(w) \/ GateTemplates(w)
             \/ GateConverts(w) \/ GateLevels(w) \/ GatePrinters(w)
      PROVE  Basic'
  <2>1. /\ Running /\ Running' /\ w \in clients
        /\ UNCHANGED <<clients, wiz, have, dialog, lists>>
        /\ spool' \in {spool, spool \cup {w}}
        /\ \A v \in Wizards : v \notin clients => toWiz'[v] = toWiz[v]
    BY <1>8, GateFrame DEF Serving, Running, Say, TypeOK
  <2> QED  BY <2>1 DEF Basic, New
<1>9. ASSUME NEW w \in Wizards, WizardStep(w) \/ UserStep(w)
      PROVE  Basic'
  <2>1. "local" \in have'[w] /\ wiz[w] \notin {"off", "waiting"}
    BY <1>9, WizardFrame DEF Basic, New
  <2> QED  BY <1>9, <2>1, WizardFrame DEF Basic, New, Running
<1>10. CASE UNCHANGED vars
  BY <1>10 DEF vars, Basic, New, Running
<1> QED
  BY <1>1, <1>2, <1>3, <1>4, <1>5, <1>6, <1>7, <1>8, <1>9, <1>10 DEF Next, GateStep

-----------------------------------------------------------------------------
(* The mandate of the lists.                                               *)

Listed == {"LEVELS", "PRINTERS"}

\* Messages that bring no lists of another mandate than m.
For(M, m) == {t \in M : t.type \in Listed => t.mandat \in {None, m}}

\* All that a wizard shows, and is about to show, is for the mandate m.
Shows(w, m) ==
  /\ toWiz[w] \in Seq(For(Tell, m))
  /\ \A l \in Listed : lists[w][l] \in {None, m}

\* A wizard keeps to one mandate, which is that of the GateKeeper as long as it
\* is connected.
Agreed ==
  /\ \A w \in Wizards : \E m \in Opt : Shows(w, m)
  /\ \A w \in clients : Shows(w, u_mandat)
  /\ toDaemon \in Seq(For(Question, u_mandat))
  /\ fromDaemon \in Seq(For(Answer, u_mandat))

\* The mandate of a GateKeeper that has none may be set.
LEMMA ForGrows ==
  ASSUME NEW M, NEW m, NEW s \in Seq(For(M, None))
  PROVE  s \in Seq(For(M, m))
<1>1. For(M, None) \subseteq For(M, m)
  BY DEF For
<1> QED  BY <1>1, SeqMonotonic

LEMMA ShowsGrows ==
  ASSUME NEW w, Shows(w, None), NEW m
  PROVE  Shows(w, m)
  BY ForGrows DEF Shows

\* What the steps of a wizard and its user do to what it shows.
LEMMA WizardShows ==
  ASSUME TypeOK, Basic, NEW w \in Wizards, WizardStep(w) \/ UserStep(w),
         NEW v \in Wizards, NEW m, Shows(v, m)
  PROVE  Shows(v, m)'
<1>1. CASE v # w
  <2>1. lists'[v] = lists[v] /\ toWiz'[v] = toWiz[v]
    BY <1>1, WizardFrame
  <2> QED  BY <2>1 DEF Shows
<1>2. CASE v = w
  <2>0. /\ lists[w] \in [Listed -> Opt] /\ lists \in [Wizards -> [Listed -> Opt]]
        /\ toWiz \in [Wizards -> Seq(Tell)]
    BY DEF TypeOK, Listed
  <2>1. ASSUME NEW t, WizardTakes(w, t)
        PROVE  /\ toWiz'[w] \in Seq(For(Tell, m))
               /\ t \in Listed => Head(toWiz[w]).mandat \in {None, m}
    <3>1. toWiz[w] # <<>> /\ toWiz'[w] = Tail(toWiz[w]) /\ Head(toWiz[w]).type = t
      BY <2>0, <2>1 DEF WizardTakes
    <3>2. Head(toWiz[w]) \in For(Tell, m) /\ Tail(toWiz[w]) \in Seq(For(Tell, m))
      BY <1>2, <3>1, HeadTailProperties DEF Shows
    <3> QED  BY <3>1, <3>2 DEF For
  <2>2. ASSUME NEW t, WizardTakes(w, t), lists' = lists
        PROVE  Shows(w, m)'
    BY <1>2, <2>1, <2>2 DEF Shows
  <2>3. CASE WizardLevels(w)
    <3>1. lists'[w] = [lists[w] EXCEPT !["LEVELS"] = Head(toWiz[w]).mandat]
      BY <2>0, <2>3 DEF WizardLevels
    <3>2. WizardTakes(w, "LEVELS")
      BY <2>3 DEF WizardLevels
    <3> QED  BY <1>2, <2>0, <2>1, <3>1, <3>2 DEF Shows, Listed
  <2>4. CASE WizardPrinters(w)
    <3>1. lists'[w] = [lists[w] EXCEPT !["PRINTERS"] = Head(toWiz[w]).mandat]
      BY <2>0, <2>4 DEF WizardPrinters
    <3>2. WizardTakes(w, "PRINTERS")
      BY <2>4 DEF WizardPrinters
    <3> QED  BY <1>2, <2>0, <2>1, <3>1, <3>2 DEF Shows, Listed
  <2>5. CASE UserStep(w)
    BY <1>2, <2>5 DEF UserStep, UserCancels, UserPicks, Shows
  <2>6. CASE WizardRegistered(w)
    BY <1>2, <2>2, <2>6 DEF WizardRegistered, page
  <2>7. CASE WizardIsTold(w)
    BY <1>2, <2>2, <2>7 DEF WizardIsTold
  <2>8. CASE WizardReady(w)
    BY <1>2, <2>2, <2>8 DEF WizardReady
  <2>9. CASE WizardAsksUser(w)
    BY <1>2, <2>2, <2>9 DEF WizardAsksUser
  <2>10. CASE WizardTemplates(w)
    BY <1>2, <2>2, <2>10 DEF WizardTemplates
  <2> QED
    BY <1>2, <2>3, <2>4, <2>5, <2>6, <2>7, <2>8, <2>9, <2>10 DEF WizardStep
<1> QED  BY <1>1, <1>2

\* A message is added to those a wizard is to get.
LEMMA ToldShows ==
  ASSUME TypeOK, NEW w \in Wizards, NEW m, Shows(w, m),
         NEW x \in For(Tell, m), toWiz'[w] = Append(toWiz[w], x), lists'[w] = lists[w]
  PROVE  Shows(w, m)'
<1>1. toWiz'[w] \in Seq(For(Tell, m))
  BY AppendProperties DEF Shows
<1> QED  BY <1>1 DEF Shows

\* Agreed follows when the mandate stays, what the clients show and the queues
\* are as they should be, and nobody else is touched.
LEMMA AgreedStays ==
  ASSUME Agreed, u_mandat' \in Opt, clients' \subseteq Wizards,
         \A w \in clients' : Shows(w, u_mandat)',
         \A w \in Wizards \ clients' :
           toWiz'[w] \in {toWiz[w], <<>>} /\ lists'[w] = lists[w],
         toDaemon' \in Seq(For(Question, u_mandat)'),
         fromDaemon' \in Seq(For(Answer, u_mandat)')
  PROVE  Agreed'
<1>1. ASSUME NEW w \in Wizards
      PROVE  \E m \in Opt : Shows(w, m)'
  <2>1. CASE w \in clients'
    BY <2>1
  <2>2. CASE w \notin clients'
    <3>1. PICK m \in Opt : Shows(w, m)
      BY DEF Agreed
    <3>2. Shows(w, m)'
      BY <2>2, <3>1, EmptySeq DEF Shows
    <3> QED  BY <3>2
  <2> QED  BY <2>1, <2>2
<1> QED  BY <1>1 DEF Agreed

LEMMA ForTyped ==
  ASSUME NEW w, NEW m
  PROVE  /\ \A t \in {"UUID", "NOT_READY", "FULL_READY", "TEMPLATES"}, n \in Opt :
              [type |-> t, mandat |-> n] \in For(Tell, m)
         /\ w \in Wizards =>
              /\ About("MANDATES", w, None) \in For(Question, m)
              /\ \A t \in Listed : m \in Opt => About(t, w, m) \in For(Question, m)
  BY DEF For, Tell, Question, About, Listed, Opt

\* What the GateKeeper does with a wizard's message is about its own mandate.
LEMMA GateAgreed ==
  ASSUME TypeOK, Agreed, NEW w \in Wizards,
         \/ GateRegisters(w) \/ GateStatus(w) \/ GateTemplates(w)
         \/ GateConverts(w) \/ GateLevels(w) \/ GatePrinters(w)
  PROVE  Agreed'
<1>1. /\ w \in clients /\ clients' = clients /\ clients \subseteq Wizards
      /\ lists' = lists /\ fromDaemon' = fromDaemon /\ u_mandat \in Opt
  BY GateFrame DEF page, TypeOK
<1> DEFINE Told == \A v \in Wizards :
                     \/ toWiz'[v] = toWiz[v]
                     \/ v = w /\ \E x \in For(Tell, u_mandat) : toWiz'[v] = Append(toWiz[v], x)
<1>2. ASSUME NEW t \in {"UUID", "NOT_READY", "FULL_READY", "TEMPLATES"}, NEW n \in Opt,
             Say(w, t, n)
      PROVE  Told
  BY <1>2, ForTyped DEF Say, TypeOK
<1>3. ASSUME Told, u_mandat' = u_mandat,
             toDaemon' = toDaemon \/ \E q \in For(Question, u_mandat) : toDaemon' = ToDaemon(q)
      PROVE  Agreed'
  <2>1. \A v \in clients : Shows(v, u_mandat)'
    <3> SUFFICES ASSUME NEW v \in clients PROVE Shows(v, u_mandat)'
      OBVIOUS
    <3>1. Shows(v, u_mandat) /\ v \in Wizards
      BY <1>1 DEF Agreed
    <3>2. CASE toWiz'[v] = toWiz[v]
      BY <1>1, <1>3, <3>1, <3>2 DEF Shows
    <3>3. CASE \E x \in For(Tell, u_mandat) : toWiz'[v] = Append(toWiz[v], x)
      BY <1>1, <1>3, <3>1, <3>3, ToldShows DEF Shows
    <3> QED  BY <1>3, <3>1, <3>2, <3>3
  <2>2. toDaemon' \in Seq(For(Question, u_mandat))
    BY <1>3, AppendProperties DEF Agreed, ToDaemon
  <2>3. fromDaemon' \in Seq(For(Answer, u_mandat))
    BY <1>1 DEF Agreed
  <2>4. /\ For(Question, u_mandat)' = For(Question, u_mandat)
        /\ For(Answer, u_mandat)' = For(Answer, u_mandat)
    BY <1>3 DEF For
  <2>5. \A v \in Wizards \ clients' : toWiz'[v] \in {toWiz[v], <<>>} /\ lists'[v] = lists[v]
    BY <1>1, <1>3
  <2> QED  BY <1>1, <1>3, <2>1, <2>2, <2>3, <2>4, <2>5, AgreedStays
<1>4. None \in Opt
  BY DEF Opt
<1>5. CASE GateRegisters(w)
  BY <1>2, <1>3, <1>4, <1>5 DEF GateRegisters
<1>6. CASE GateTemplates(w)
  BY <1>2, <1>3, <1>4, <1>6 DEF GateTemplates
<1>7. CASE GateConverts(w)
  BY <1>3, <1>7 DEF GateConverts
<1>8. CASE GateStatus(w)
  BY <1>1, <1>2, <1>3, <1>4, <1>8, ForTyped DEF GateStatus
<1>9. CASE GatePrinters(w)
  BY <1>1, <1>2, <1>3, <1>4, <1>9, ForTyped DEF GatePrinters, Listed
<1>10. CASE GateLevels(w)
  <2>1. CASE u_mandat' = u_mandat
    BY <1>1, <1>2, <1>3, <1>4, <1>10, <2>1, ForTyped DEF GateLevels, Listed
  <2>2. CASE u_mandat' # u_mandat
    <3>1. /\ u_mandat = None /\ u_mandat' = Head(toGate[w]).mandat /\ toWiz' = toWiz
          /\ toDaemon' = ToDaemon(About("LEVELS", w, u_mandat'))
      BY <1>10, <2>2 DEF GateLevels
    <3>2. u_mandat' \in Opt
      <4>1. toGate[w] # <<>> /\ toGate[w] \in Seq(Ask)
        BY <1>10 DEF GateLevels, GateTakes, TypeOK
      <4>2. Head(toGate[w]) \in Ask
        BY <4>1, HeadTailProperties
      <4> QED  BY <3>1, <4>2 DEF Ask
    <3>3. \A v \in clients : Shows(v, u_mandat)'
      <4> DEFINE m == u_mandat'
      <4>1. \A v \in clients : Shows(v, m)
        BY <3>1, ShowsGrows DEF Agreed
      <4>2. \A v \in clients : Shows(v, u_mandat)' <=> Shows(v, m)
        BY <1>1, <3>1 DEF Shows, For
      <4> QED  BY <4>1, <4>2
    <3>4. toDaemon' \in Seq(For(Question, u_mandat'))
      <4>1. toDaemon \in Seq(For(Question, u_mandat'))
        BY <3>1, ForGrows DEF Agreed
      <4>2. About("LEVELS", w, u_mandat') \in For(Question, u_mandat')
        BY <3>2, ForTyped DEF Listed
      <4> QED  BY <3>1, <4>1, <4>2, AppendProperties DEF ToDaemon
    <3>5. fromDaemon' \in Seq(For(Answer, u_mandat'))
      BY <1>1, <3>1, ForGrows DEF Agreed
    <3>6. /\ For(Question, u_mandat)' = For(Question, u_mandat')
          /\ For(Answer, u_mandat)' = For(Answer, u_mandat')
      BY DEF For
    <3> QED  BY <1>1, <3>1, <3>2, <3>3, <3>4, <3>5, <3>6, AgreedStays
  <2> QED  BY <2>1, <2>2
<1> QED  BY <1>5, <1>6, <1>7, <1>8, <1>9, <1>10

LEMMA StepAgreed ==
  ASSUME SessionAssumption, TypeOK, Basic, Agreed, [Next]_vars
  PROVE  Agreed'
<1> USE DEF server, net, finding, page
<1>0. /\ u_mandat \in Opt /\ None \in Opt /\ clients \subseteq Wizards
      /\ \A w \in clients : Shows(w, u_mandat)
      /\ toDaemon \in Seq(For(Question, u_mandat))
      /\ fromDaemon \in Seq(For(Answer, u_mandat))
  BY DEF TypeOK, Opt, Agreed
<1>1. ASSUME u_mandat' = u_mandat
      PROVE  /\ For(Question, u_mandat)' = For(Question, u_mandat)
             /\ For(Answer, u_mandat)' = For(Answer, u_mandat)
  BY <1>1 DEF For
\* The link, the start of a process, and wizards that leave.
<1>2. ASSUME UNCHANGED <<toWiz, lists>>, clients' \subseteq clients,
             (clients' = {} /\ u_mandat' \in Opt) \/ u_mandat' = u_mandat,
             toDaemon' \in Seq(For(Question, u_mandat)'),
             fromDaemon' \in Seq(For(Answer, u_mandat)')
      PROVE  Agreed'
  <2>1. \A w \in clients' : Shows(w, u_mandat)'
    BY <1>0, <1>2 DEF Shows, For
  <2>2. \A w \in Wizards \ clients' : toWiz'[w] \in {toWiz[w], <<>>} /\ lists'[w] = lists[w]
    BY <1>2
  <2> QED  BY <1>0, <1>2, <2>1, <2>2, AgreedStays
<1>3. CASE GateComesUp \/ GateQuits \/ GateCrashes
  <2>1. /\ clients' = {} /\ toDaemon' = <<>> /\ fromDaemon' = <<>> /\ u_mandat' \in Opt
        /\ UNCHANGED <<toWiz, lists>>
    <3>1. CASE GateComesUp
      <4>1. u_mandat' \in Opt
        BY <1>0, <3>1 DEF GateComesUp, ConfigRefused, PluginMissing, PluginsLoaded, NothingLoaded,
               AuthInit
      <4> QED  BY <3>1, <4>1 DEF GateComesUp, Basic, Running
    <3>2. CASE GateQuits \/ GateCrashes
      <4>1. ProcessEnds
        BY <3>2 DEF GateQuits, GateCrashes
      <4> QED  BY <1>0, <4>1 DEF ProcessEnds
    <3> QED  BY <1>3, <3>1, <3>2
  <2>2. /\ toDaemon' \in Seq(For(Question, u_mandat)')
        /\ fromDaemon' \in Seq(For(Answer, u_mandat)')
    BY <2>1, EmptySeq
  <2> QED  BY <1>2, <2>1, <2>2
<1>4. CASE LinkUp \/ LinkLost
  <2>1. UNCHANGED <<toWiz, lists, clients, u_mandat>>
    BY <1>4 DEF LinkUp, LinkLost
  <2> DEFINE g == [type |-> "GLOBAL", of |-> None, mandat |-> None]
  <2>2. g \in For(Question, u_mandat) /\ toDaemon' \in {<<>>, Append(toDaemon, g)}
    BY <1>4 DEF For, Listed, Question, Opt, LinkUp, LinkLost
  <2> HIDE DEF g
  <2>3. toDaemon' \in Seq(For(Question, u_mandat))
    <3>1. <<>> \in Seq(For(Question, u_mandat))
      BY EmptySeq
    <3>2. Append(toDaemon, g) \in Seq(For(Question, u_mandat))
      BY <1>0, <2>2, AppendProperties
    <3> QED  BY <2>2, <3>1, <3>2
  <2>4. fromDaemon' \in Seq(For(Answer, u_mandat))
    BY <1>0, <1>4, EmptySeq DEF LinkUp, LinkLost
  <2> QED  BY <1>1, <1>2, <2>1, <2>3, <2>4
<1>5. ASSUME NEW w \in Wizards, WizardLeaves(w)
      PROVE  Agreed'
  BY <1>0, <1>1, <1>2, <1>5 DEF WizardLeaves
<1>6. CASE GateSaysGoodBay
  <2> DEFINE bye == [type |-> "GOOD_BAY", mandat |-> None]
  <2>1. bye \in For(Tell, u_mandat)
    BY DEF For, Listed, Tell, Opt
  <2>2. /\ UNCHANGED <<lists, clients, u_mandat, toDaemon, fromDaemon>>
        /\ \A w \in clients : toWiz'[w] = Append(toWiz[w], bye)
        /\ \A w \in Wizards \ clients : toWiz'[w] = toWiz[w]
    BY <1>0, <1>6 DEF GateSaysGoodBay
  <2> HIDE DEF bye
  <2>3. \A w \in clients : Shows(w, u_mandat)'
    <3> SUFFICES ASSUME NEW w \in clients PROVE Shows(w, u_mandat)'
      OBVIOUS
    <3>0. toWiz[w] \in Seq(For(Tell, u_mandat)) /\ toWiz'[w] = Append(toWiz[w], bye)
      BY <1>0, <2>2 DEF Shows
    <3>1. toWiz'[w] \in Seq(For(Tell, u_mandat))
      BY <2>1, <3>0, AppendProperties
    <3> QED  BY <1>0, <2>2, <3>1 DEF Shows, For
  <2> QED  BY <1>0, <1>1, <2>2, <2>3, AgreedStays
<1>7. CASE GateReceivesAnswer
  <2> DEFINE a == Head(fromDaemon)
  <2>1. /\ fromDaemon # <<>> /\ fromDaemon' = Tail(fromDaemon)
        /\ UNCHANGED <<lists, clients, u_mandat, toDaemon>>
    BY <1>7 DEF GateReceivesAnswer
  <2>2. a \in For(Answer, u_mandat) /\ fromDaemon' \in Seq(For(Answer, u_mandat))
    BY <1>0, <2>1, HeadTailProperties
  <2>3. ASSUME NEW u \in clients, toWiz' = [toWiz EXCEPT ![u] = Append(@, TellOf(a))],
               a.type # "GLOBAL"
        PROVE  Agreed'
    <3>1. TellOf(a) \in For(Tell, u_mandat)
      BY <2>2, <2>3 DEF For, TellOf, Answer, Tell, Opt, Listed
    <3>2. \A w \in Wizards : toWiz'[w] = IF w = u THEN Append(toWiz[w], TellOf(a)) ELSE toWiz[w]
      BY <1>0, <2>3 DEF TypeOK
    <3>3. \A w \in clients : Shows(w, u_mandat)'
      <4> SUFFICES ASSUME NEW w \in clients PROVE Shows(w, u_mandat)'
        OBVIOUS
      <4> DEFINE x == TellOf(a)
      <4>0. toWiz[w] \in Seq(For(Tell, u_mandat)) /\ x \in For(Tell, u_mandat)
        BY <1>0, <3>1 DEF Shows
      <4>1. toWiz'[w] \in Seq(For(Tell, u_mandat))
        <5>1. toWiz'[w] = Append(toWiz[w], x) \/ toWiz'[w] = toWiz[w]
          BY <1>0, <3>2
        <5> HIDE DEF x
        <5> QED  BY <4>0, <5>1, AppendProperties
      <4> QED  BY <1>0, <2>1, <4>1 DEF Shows, For
    <3> QED  BY <1>0, <1>1, <2>1, <2>2, <2>3, <3>2, <3>3, AgreedStays
  <2>4. CASE toWiz' = toWiz
    BY <1>0, <1>1, <1>2, <2>1, <2>2, <2>4
  <2> QED  BY <1>7, <2>3, <2>4 DEF GateReceivesAnswer, FindClient
<1>8. ASSUME NEW i \in DOMAIN toDaemon, DaemonAnswers(i)
      PROVE  Agreed'
  <2> DEFINE q == toDaemon[i]
             e == [q EXCEPT !.type = "EMPTY"]
  <2>1. /\ toDaemon' = Without(toDaemon, i)
        /\ fromDaemon' = Append(fromDaemon, q) \/ fromDaemon' = Append(fromDaemon, e)
        /\ UNCHANGED <<toWiz, lists, clients, u_mandat>>
    BY <1>8 DEF DaemonAnswers
  <2>2. q \in For(Question, u_mandat) /\ toDaemon' \in Seq(For(Question, u_mandat))
    BY <1>0, <2>1, WithoutTyped
  <2>3. q \in For(Answer, u_mandat) /\ e \in For(Answer, u_mandat)
    BY <2>2 DEF For, Question, Answer, Listed
  <2> HIDE DEF q, e
  <2>4. fromDaemon' \in Seq(For(Answer, u_mandat))
    <3>1. /\ Append(fromDaemon, q) \in Seq(For(Answer, u_mandat))
          /\ Append(fromDaemon, e) \in Seq(For(Answer, u_mandat))
      BY <1>0, <2>3, AppendProperties
    <3> QED  BY <2>1, <3>1
  <2> QED  BY <1>1, <1>2, <2>1, <2>2, <2>4
<1>9. ASSUME NEW w \in Wizards, LaunchAndConnect(w)
      PROVE  Agreed'
  <2>1. /\ New(w) /\ UNCHANGED <<toWiz, lists, u_mandat, toDaemon, fromDaemon>>
        /\ clients' \subseteq clients \cup {w}
    BY <1>9 DEF LaunchAndConnect, Connect, NotFound, Basic
  <2>2. Shows(w, u_mandat)
    BY <2>1, EmptySeq DEF New, Shows, Listed
  <2>3. \A v \in clients' : Shows(v, u_mandat)'
    BY <1>0, <2>1, <2>2 DEF Shows, For
  <2> QED  BY <1>0, <1>1, <2>1, <2>3, AgreedStays
<1>10. ASSUME NEW w \in Wizards, Disconnected(w)
       PROVE  Agreed'
  <2>1. /\ UNCHANGED <<lists, u_mandat, toDaemon, fromDaemon>>
        /\ clients' = clients \ {w} /\ toWiz' = [toWiz EXCEPT ![w] = <<>>]
    BY <1>10 DEF Disconnected
  <2>2. /\ \A v \in clients' : toWiz'[v] = toWiz[v]
        /\ \A v \in Wizards \ clients' : toWiz'[v] \in {toWiz[v], <<>>}
    BY <1>0, <2>1 DEF TypeOK
  <2>3. \A v \in clients' : Shows(v, u_mandat)'
    BY <1>0, <2>1, <2>2 DEF Shows, For
  <2> QED  BY <1>0, <1>1, <2>1, <2>2, <2>3, AgreedStays
<1>11. ASSUME NEW w \in Wizards, WizardStep(w) \/ UserStep(w)
       PROVE  Agreed'
  <2>1. UNCHANGED <<clients, u_mandat, toDaemon, fromDaemon>>
    BY <1>11, WizardFrame
  <2>2. \A v \in Wizards, m \in Opt : Shows(v, m) => Shows(v, m)'
    BY <1>11, WizardShows
  <2>3. \A v \in Wizards : \E m \in Opt : Shows(v, m)'
    BY <2>2 DEF Agreed
  <2>4. \A v \in clients' : Shows(v, u_mandat)'
    <3> SUFFICES ASSUME NEW v \in clients PROVE Shows(v, u_mandat)'
      BY <2>1
    <3> DEFINE m == u_mandat
    <3>1. toWiz'[v] \in Seq(For(Tell, u_mandat)) /\ \A l \in Listed : lists'[v][l] \in {None, u_mandat}
      <4>1. Shows(v, u_mandat) /\ v \in Wizards
        BY <1>0
      <4>2. ASSUME NEW n \in Opt, n = u_mandat
            PROVE  toWiz'[v] \in Seq(For(Tell, n)) /\ \A l \in Listed : lists'[v][l] \in {None, n}
        <5>1. Shows(v, n)
          BY <4>1, <4>2
        <5>2. Shows(v, n)'
          BY <2>2, <4>1, <5>1
        <5> QED  BY <5>2 DEF Shows, For
      <4> QED  BY <1>0, <4>2
    <3> QED  BY <2>1, <3>1 DEF Shows, For
  <2> QED  BY <1>0, <1>1, <2>1, <2>3, <2>4 DEF Agreed
<1>12. CASE UNCHANGED vars
  BY <1>0, <1>1, <1>2, <1>12 DEF vars
<1> QED
  BY <1>3, <1>4, <1>5, <1>6, <1>7, <1>8, <1>9, <1>10, <1>11, <1>12, GateAgreed
  DEF Next, GateStep

-----------------------------------------------------------------------------
(* The order of the steps, and the link they presuppose.                   *)

Chosen == {"name", "mandate", "remote"}

LawAsk(w) ==
  {a \in Ask : /\ a.type = "PRINTERS" => "levels" \in have[w]
               /\ a.type = "LEVELS" => Chosen \subseteq have[w]
               /\ a.type = "CONVERT" => "remote" \in have[w]}

LawTell(w) ==
  {t \in Tell : /\ t.type = "PRINTERS" => "levels" \in have[w]
                /\ t.type = "LEVELS" => Chosen \subseteq have[w]
                /\ t.type \in {"FULL_READY", "PART_READY"} /\ w \in clients => ready}

LawOf(M) ==
  {q \in M : /\ q.type = "PRINTERS" => q.of \in Wizards /\ "levels" \in have[q.of]
             /\ q.type = "LEVELS" => q.of \in Wizards /\ Chosen \subseteq have[q.of]
             /\ q.type = "MANDATES" => ready}

InOrder(w) ==
  /\ "printers" \in have[w] => "levels" \in have[w]
  /\ "levels" \in have[w] => Chosen \subseteq have[w]
  /\ {"remote", "templates"} \cap have[w] # {} => "local" \in have[w]

HasLink(w) ==
  w \in clients /\ (w \in spool \/ "remote" \in have[w] \/ w \in dialog) => ready

Lawful ==
  /\ \A w \in Wizards :
       /\ toGate[w] \in Seq(LawAsk(w)) /\ toWiz[w] \in Seq(LawTell(w))
       /\ InOrder(w) /\ HasLink(w)
  /\ toDaemon \in Seq(LawOf(Question)) /\ fromDaemon \in Seq(LawOf(Answer))

\* What was lawful stays so: steps are never taken back, and the daemon's
\* confirmation lasts as long as the process and its clients.
LEMMA LawGrows ==
  ASSUME NEW w, have[w] \subseteq have'[w]
  PROVE  /\ \A s \in Seq(LawAsk(w)) : s \in Seq(LawAsk(w)')
         /\ (w \in clients' => w \in clients /\ (ready => ready'))
              => \A s \in Seq(LawTell(w)) : s \in Seq(LawTell(w)')
<1>1. LawAsk(w) \subseteq LawAsk(w)'
  BY DEF LawAsk, Chosen
<1>2. (w \in clients' => w \in clients /\ (ready => ready')) => LawTell(w) \subseteq LawTell(w)'
  BY DEF LawTell, Chosen
<1> QED  BY <1>1, <1>2, SeqMonotonic

LEMMA LawOfGrows ==
  ASSUME \A w \in Wizards : have[w] \subseteq have'[w], ready => ready', NEW M
  PROVE  \A s \in Seq(LawOf(M)) : s \in Seq(LawOf(M)')
<1>1. LawOf(M) \subseteq LawOf(M)'
  BY DEF LawOf, Chosen
<1> QED  BY <1>1, SeqMonotonic

\* A step of the process, of the link or of the GateKeeper ticks nothing.
LEMMA LawfulStays ==
  ASSUME Lawful, have' = have, ready => ready', clients' \subseteq clients,
         dialog' \subseteq dialog,
         \A w \in clients' : w \in spool' => w \in spool \/ ready,
         \A w \in Wizards : /\ toGate'[w] \in Seq(LawAsk(w))
                            /\ toWiz'[w] \in Seq(LawTell(w)'),
         toDaemon' \in Seq(LawOf(Question)),
         fromDaemon' \in Seq(LawOf(Answer))
  PROVE  Lawful'
<1>1. ASSUME NEW w \in Wizards
      PROVE  toGate'[w] \in Seq(LawAsk(w)') /\ InOrder(w)' /\ HasLink(w)'
  BY LawGrows DEF Lawful, InOrder, HasLink
<1>2. toDaemon' \in Seq(LawOf(Question)') /\ fromDaemon' \in Seq(LawOf(Answer)')
  BY LawOfGrows
<1> QED  BY <1>1, <1>2 DEF Lawful, Question, Answer

LEMMA ProcessLawful ==
  ASSUME TypeOK, Basic, Lawful,
         \/ GateComesUp \/ GateSaysGoodBay \/ GateQuits \/ GateCrashes
         \/ LinkUp \/ LinkLost
  PROVE  Lawful'
<1> USE DEF server, net, finding, page
<1>0. /\ \A w \in Wizards : toGate[w] \in Seq(LawAsk(w)) /\ toWiz[w] \in Seq(LawTell(w))
      /\ toDaemon \in Seq(LawOf(Question)) /\ fromDaemon \in Seq(LawOf(Answer))
  BY DEF Lawful
<1>1. CASE GateComesUp \/ LinkUp \/ LinkLost
  <2> DEFINE g == [type |-> "GLOBAL", of |-> None, mandat |-> None]
  <2>1. /\ UNCHANGED <<have, ready, clients, dialog, spool, toGate, toWiz>>
        /\ toDaemon' \in {toDaemon, <<>>, Append(toDaemon, g)}
        /\ fromDaemon' \in {fromDaemon, <<>>}
    BY <1>1 DEF GateComesUp, LinkUp, LinkLost
  <2>2. g \in LawOf(Question)
    BY DEF LawOf, Question, Opt
  <2> HIDE DEF g
  <2>3. <<>> \in Seq(LawOf(Question)) /\ <<>> \in Seq(LawOf(Answer))
    BY EmptySeq
  <2>4. Append(toDaemon, g) \in Seq(LawOf(Question))
    BY <1>0, <2>2, AppendProperties
  <2>5. \A w \in Wizards : toWiz'[w] \in Seq(LawTell(w)')
    BY <1>0, <2>1, LawGrows
  <2> QED  BY <1>0, <2>1, <2>3, <2>4, <2>5, LawfulStays
<1>2. CASE GateSaysGoodBay
  <2> DEFINE bye == [type |-> "GOOD_BAY", mandat |-> None]
  <2>1. /\ UNCHANGED <<have, ready, clients, dialog, spool, toGate, toDaemon, fromDaemon>>
        /\ \A w \in Wizards : toWiz'[w] \in {toWiz[w], Append(toWiz[w], bye)}
    BY <1>2 DEF GateSaysGoodBay
  <2>2. \A w \in Wizards : bye \in LawTell(w)
    BY DEF LawTell, Tell, Opt
  <2> HIDE DEF bye
  <2>3. \A w \in Wizards : toWiz'[w] \in Seq(LawTell(w))
    <3> SUFFICES ASSUME NEW w \in Wizards PROVE toWiz'[w] \in Seq(LawTell(w))
      OBVIOUS
    <3>1. toWiz[w] \in Seq(LawTell(w)) /\ bye \in LawTell(w)
      BY <1>0, <2>2
    <3>2. Append(toWiz[w], bye) \in Seq(LawTell(w))
      BY <3>1, AppendProperties
    <3> QED  BY <2>1, <3>1, <3>2
  <2>4. \A w \in Wizards : toWiz'[w] \in Seq(LawTell(w)')
    BY <2>1, <2>3, LawGrows
  <2> QED  BY <1>0, <2>1, <2>4, LawfulStays
<1>3. CASE GateQuits \/ GateCrashes
  <2>0. ProcessEnds
    BY <1>3 DEF GateQuits, GateCrashes
  <2>1. /\ clients' = {} /\ UNCHANGED <<have, dialog, spool, toWiz>>
        /\ toDaemon' = <<>> /\ fromDaemon' = <<>> /\ \A w \in Wizards : toGate'[w] = <<>>
    BY <2>0 DEF ProcessEnds
  <2>2. /\ toDaemon' \in Seq(LawOf(Question)') /\ fromDaemon' \in Seq(LawOf(Answer)')
        /\ \A w \in Wizards : toGate'[w] \in Seq(LawAsk(w)')
    BY <2>1, EmptySeq
  <2>3. \A w \in Wizards : toWiz'[w] \in Seq(LawTell(w)')
    BY <1>0, <2>1, LawGrows
  <2>4. \A w \in Wizards : InOrder(w)' /\ HasLink(w)'
    BY <2>1 DEF Lawful, InOrder, HasLink
  <2> QED  BY <2>2, <2>3, <2>4 DEF Lawful, Question, Answer
<1> QED  BY <1>1, <1>2, <1>3

LEMMA DaemonLawful ==
  ASSUME TypeOK, Lawful,
         GateReceivesAnswer \/ \E i \in DOMAIN toDaemon : DaemonAnswers(i)
  PROVE  Lawful'
<1> USE DEF server, net, finding, page
<1>0. /\ \A w \in Wizards : toGate[w] \in Seq(LawAsk(w)) /\ toWiz[w] \in Seq(LawTell(w))
      /\ toDaemon \in Seq(LawOf(Question)) /\ fromDaemon \in Seq(LawOf(Answer))
  BY DEF Lawful
<1>1. CASE GateReceivesAnswer
  <2> DEFINE a == Head(fromDaemon)
             x == TellOf(a)
  <2>1. /\ fromDaemon # <<>> /\ fromDaemon' = Tail(fromDaemon) /\ (ready => ready')
        /\ UNCHANGED <<have, clients, dialog, spool, toGate, toDaemon>>
    BY <1>1 DEF GateReceivesAnswer, TypeOK
  <2>2. a \in LawOf(Answer) /\ fromDaemon' \in Seq(LawOf(Answer))
    BY <1>0, <2>1, HeadTailProperties
  <2>3. \A w \in Wizards : toWiz'[w] \in Seq(LawTell(w))
    <3>1. CASE toWiz' = toWiz
      BY <1>0, <3>1
    <3>2. ASSUME a.type # "GLOBAL", NEW u \in clients, u = a.of,
                 toWiz' = [toWiz EXCEPT ![u] = Append(@, x)]
          PROVE  \A w \in Wizards : toWiz'[w] \in Seq(LawTell(w))
      <4>1. x \in LawTell(u)
        BY <2>2, <3>2 DEF LawOf, LawTell, TellOf, Answer, Tell, Opt
      <4>2. \A w \in Wizards : toWiz'[w] = IF w = u THEN Append(toWiz[w], x) ELSE toWiz[w]
        BY <3>2 DEF TypeOK
      <4> HIDE DEF x
      <4>3. u \in Wizards => Append(toWiz[u], x) \in Seq(LawTell(u))
        BY <1>0, <4>1, AppendProperties
      <4> QED  BY <1>0, <4>2, <4>3
    <3> QED  BY <1>1, <3>1, <3>2 DEF GateReceivesAnswer, FindClient
  <2>4. \A w \in Wizards : toWiz'[w] \in Seq(LawTell(w)')
    BY <2>1, <2>3, LawGrows
  <2> QED  BY <1>0, <2>1, <2>2, <2>4, LawfulStays
<1>2. ASSUME NEW i \in DOMAIN toDaemon, DaemonAnswers(i)
      PROVE  Lawful'
  <2> DEFINE q == toDaemon[i]
             e == [q EXCEPT !.type = "EMPTY"]
  <2>1. /\ toDaemon' = Without(toDaemon, i)
        /\ fromDaemon' = Append(fromDaemon, q) \/ fromDaemon' = Append(fromDaemon, e)
        /\ UNCHANGED <<have, ready, clients, dialog, spool, toGate, toWiz>>
    BY <1>2 DEF DaemonAnswers
  <2>2. q \in LawOf(Question) /\ toDaemon' \in Seq(LawOf(Question))
    BY <1>0, <2>1, WithoutTyped
  <2>3. q \in LawOf(Answer) /\ e \in LawOf(Answer)
    BY <2>2 DEF LawOf, Question, Answer
  <2> HIDE DEF q, e
  <2>4. fromDaemon' \in Seq(LawOf(Answer))
    <3>1. /\ Append(fromDaemon, q) \in Seq(LawOf(Answer))
          /\ Append(fromDaemon, e) \in Seq(LawOf(Answer))
      BY <1>0, <2>3, AppendProperties
    <3> QED  BY <2>1, <3>1
  <2>5. \A w \in Wizards : toWiz'[w] \in Seq(LawTell(w)')
    BY <1>0, <2>1, LawGrows
  <2> QED  BY <1>0, <2>1, <2>2, <2>4, <2>5, LawfulStays
<1> QED  BY <1>1, <1>2

\* Only what is lawful is told, asked and converted for a wizard.
LEMMA GateLawful ==
  ASSUME SessionAssumption, TypeOK, Lawful, NEW w \in Wizards,
         \/ GateRegisters(w) \/ GateStatus(w) \/ GateTemplates(w)
         \/ GateConverts(w) \/ GateLevels(w) \/ GatePrinters(w)
  PROVE  Lawful'
<1>0. /\ \A v \in Wizards : toGate[v] \in Seq(LawAsk(v)) /\ toWiz[v] \in Seq(LawTell(v))
      /\ toDaemon \in Seq(LawOf(Question)) /\ fromDaemon \in Seq(LawOf(Answer))
      /\ u_mandat \in Opt /\ None \in Opt
  BY DEF Lawful, TypeOK, Opt
<1>1. /\ Serving /\ w \in clients
      /\ UNCHANGED <<have, dialog, ready, clients, fromDaemon>>
  BY GateFrame DEF page
<1>2. ASSUME NEW t, GateTakes(w, t)
      PROVE  /\ Head(toGate[w]) \in LawAsk(w) /\ Head(toGate[w]).type = t
             /\ \A v \in Wizards : toGate'[v] \in Seq(LawAsk(v))
  <2>1. toGate[w] # <<>> /\ toGate' = [toGate EXCEPT ![w] = Tail(@)]
        /\ Head(toGate[w]).type = t
    BY <1>2 DEF GateTakes
  <2>2. Head(toGate[w]) \in LawAsk(w) /\ Tail(toGate[w]) \in Seq(LawAsk(w))
    BY <1>0, <2>1, HeadTailProperties
  <2>3. \A v \in Wizards : toGate'[v] = IF v = w THEN Tail(toGate[w]) ELSE toGate[v]
    BY <2>1 DEF TypeOK
  <2> QED  BY <1>0, <2>1, <2>2, <2>3
<1> DEFINE Told == \A v \in Wizards : toWiz'[v] \in Seq(LawTell(v))
           Asked == toDaemon' \in Seq(LawOf(Question))
<1>3. ASSUME NEW t \in {"UUID", "NOT_READY", "FULL_READY", "TEMPLATES"}, NEW n \in Opt,
             Say(w, t, n), t = "FULL_READY" => ready
      PROVE  Told
  <2> DEFINE x == [type |-> t, mandat |-> n]
  <2>1. x \in LawTell(w)
    BY <1>3 DEF LawTell, Tell
  <2>2. \A v \in Wizards : toWiz'[v] = IF v = w THEN Append(toWiz[w], x) ELSE toWiz[v]
    BY <1>3 DEF Say, TypeOK
  <2> HIDE DEF x
  <2>3. Append(toWiz[w], x) \in Seq(LawTell(w))
    BY <1>0, <2>1, AppendProperties
  <2> QED  BY <1>0, <2>2, <2>3
<1>14. Say(w, "UUID", None) \/ Say(w, "NOT_READY", None) \/ Say(w, "TEMPLATES", None)
         => Told
  BY <1>0, <1>3
<1>15. ready /\ Say(w, "FULL_READY", u_mandat) => Told
  BY <1>0, <1>3
<1>4. ASSUME NEW t \in {"MANDATES", "LEVELS", "PRINTERS"}, NEW n \in Opt,
             toDaemon' = ToDaemon(About(t, w, n)),
             t = "PRINTERS" => "levels" \in have[w],
             t = "LEVELS" => Chosen \subseteq have[w],
             t = "MANDATES" => ready
      PROVE  Asked
  <2> DEFINE q == About(t, w, n)
  <2>1. q \in LawOf(Question)
    BY <1>4 DEF LawOf, About, Question
  <2>2. toDaemon' \in {toDaemon, Append(toDaemon, q)}
    BY <1>4 DEF ToDaemon
  <2> HIDE DEF q
  <2>3. Append(toDaemon, q) \in Seq(LawOf(Question))
    BY <1>0, <2>1, AppendProperties
  <2> QED  BY <1>0, <2>2, <2>3
<1>16. ready /\ toDaemon' = ToDaemon(About("MANDATES", w, None)) => Asked
  BY <1>0, <1>4
<1>17. \A n \in Opt :
         Chosen \subseteq have[w] /\ toDaemon' = ToDaemon(About("LEVELS", w, n)) => Asked
  BY <1>4
<1>18. "levels" \in have[w] /\ toDaemon' = ToDaemon(About("PRINTERS", w, u_mandat)) => Asked
  BY <1>0, <1>4
<1>5. toWiz' = toWiz => Told
  BY <1>0
<1>6. toDaemon' = toDaemon => Asked
  BY <1>0
<1>7. ASSUME Told, Asked, \A v \in Wizards : toGate'[v] \in Seq(LawAsk(v)),
             spool' = spool \/ (spool' = spool \cup {w} /\ ready)
      PROVE  Lawful'
  <2>1. \A v \in Wizards : toWiz'[v] \in Seq(LawTell(v)')
    BY <1>1, <1>7, LawGrows
  <2>2. \A v \in clients' : v \in spool' => v \in spool \/ ready
    BY <1>7
  <2>3. fromDaemon' \in Seq(LawOf(Answer))
    BY <1>0, <1>1
  <2> QED  BY <1>1, <1>7, <2>1, <2>2, <2>3, LawfulStays
<1> HIDE DEF Told, Asked
<1>8. CASE GateRegisters(w)
  <2>1. GateTakes(w, "REGISTER") /\ Say(w, "UUID", None) /\ toDaemon' = toDaemon
        /\ spool' = spool
    BY <1>8 DEF GateRegisters
  <2>2. Told
    BY <1>14, <2>1
  <2>3. Asked
    BY <1>6, <2>1
  <2>4. \A v \in Wizards : toGate'[v] \in Seq(LawAsk(v))
    BY <1>2, <2>1
  <2> QED  BY <1>7, <2>1, <2>2, <2>3, <2>4
<1>9. CASE GateStatus(w)
  <2>1. GateTakes(w, "STATUS") /\ spool' = spool
    BY <1>9 DEF GateStatus
  <2>2. \/ Say(w, "NOT_READY", None) /\ toDaemon' = toDaemon
        \/ ready /\ toDaemon' = ToDaemon(About("MANDATES", w, None)) /\ toWiz' = toWiz
        \/ ready /\ Say(w, "FULL_READY", u_mandat) /\ toDaemon' = toDaemon
    BY <1>9 DEF GateStatus
  <2> QED  BY <1>0, <1>2, <1>14, <1>15, <1>16, <1>17, <1>18, <1>5, <1>6, <1>7, <2>1, <2>2
<1>10. CASE GateTemplates(w)
  BY <1>0, <1>2, <1>14, <1>6, <1>7, <1>10 DEF GateTemplates
<1>11. CASE GateConverts(w)
  <2>1. GateTakes(w, "CONVERT") /\ spool' = spool \cup {w} /\ toWiz' = toWiz
        /\ toDaemon' = toDaemon
    BY <1>11 DEF GateConverts
  <2>2. "remote" \in have[w]
    BY <1>2, <2>1 DEF LawAsk
  <2>3. ready
    BY <1>1, <2>2 DEF Lawful, HasLink
  <2> QED  BY <1>2, <1>5, <1>6, <1>7, <2>1, <2>3
<1>12. CASE GateLevels(w)
  <2>1. GateTakes(w, "LEVELS") /\ spool' = spool
    BY <1>12 DEF GateLevels
  <2>2. Head(toGate[w]).mandat \in Opt /\ Chosen \subseteq have[w]
    BY <1>2, <2>1 DEF LawAsk, Ask
  <2>3. \/ Say(w, "NOT_READY", None) /\ toDaemon' = toDaemon
        \/ /\ toDaemon' = ToDaemon(About("LEVELS", w, u_mandat')) /\ toWiz' = toWiz
           /\ u_mandat' \in Opt
    BY <1>0, <1>12, <2>2 DEF GateLevels
  <2> QED  BY <1>0, <1>2, <1>14, <1>15, <1>16, <1>17, <1>18, <1>5, <1>6, <1>7, <2>1, <2>2, <2>3
<1>13. CASE GatePrinters(w)
  <2>1. GateTakes(w, "PRINTERS") /\ spool' = spool
    BY <1>13 DEF GatePrinters
  <2>2. "levels" \in have[w]
    BY <1>2, <2>1 DEF LawAsk
  <2>3. \/ Say(w, "NOT_READY", None) /\ toDaemon' = toDaemon
        \/ toDaemon' = ToDaemon(About("PRINTERS", w, u_mandat)) /\ toWiz' = toWiz
    BY <1>13 DEF GatePrinters
  <2> QED  BY <1>0, <1>2, <1>14, <1>15, <1>16, <1>17, <1>18, <1>5, <1>6, <1>7, <2>1, <2>2, <2>3
<1> QED  BY <1>8, <1>9, <1>10, <1>11, <1>12, <1>13

\* A wizard starts with nothing on the way, leaves and is forgotten.
LEMMA LaunchLawful ==
  ASSUME SessionAssumption, TypeOK, Basic, Lawful, NEW w \in Wizards,
         LaunchAndConnect(w) \/ WizardLeaves(w) \/ Disconnected(w)
  PROVE  Lawful'
<1> USE DEF server, net, finding, page
<1>0. /\ \A v \in Wizards : toGate[v] \in Seq(LawAsk(v)) /\ toWiz[v] \in Seq(LawTell(v))
      /\ toDaemon \in Seq(LawOf(Question)) /\ fromDaemon \in Seq(LawOf(Answer))
  BY DEF Lawful
<1>1. ASSUME LaunchAndConnect(w), Connect(w)
      PROVE  Lawful'
  <2> DEFINE x == [type |-> "REGISTER", mandat |-> None]
  <2>1. /\ New(w) /\ UNCHANGED <<ready, spool, dialog, toDaemon, fromDaemon, toWiz>>
        /\ clients' \subseteq clients \cup {w}
        /\ \A v \in Wizards : have'[v] = IF v = w THEN have[w] \cup {"local"} ELSE have[v]
        /\ \A v \in Wizards : toGate'[v] = IF v = w THEN <<x>> ELSE toGate[v]
    BY <1>1 DEF LaunchAndConnect, Connect, Basic, TypeOK
  <2>2. \A v \in Wizards : have[v] \subseteq have'[v]
    BY <2>1
  <2>3. \A v \in Wizards : toGate'[v] \in Seq(LawAsk(v)')
    <3> SUFFICES ASSUME NEW v \in Wizards PROVE toGate'[v] \in Seq(LawAsk(v)')
      OBVIOUS
    <3>1. CASE v = w
      <4>1. x \in LawAsk(v)'
        BY DEF LawAsk, Ask, Opt
      <4>2. toGate'[v] = <<x>>
        BY <2>1, <3>1
      <4> HIDE DEF x
      <4> QED  BY <4>1, <4>2
    <3>2. CASE v # w
      BY <1>0, <2>1, <2>2, <3>2, LawGrows
    <3> QED  BY <3>1, <3>2
  <2>4. \A v \in Wizards : toWiz'[v] \in Seq(LawTell(v)')
    <3> SUFFICES ASSUME NEW v \in Wizards PROVE toWiz'[v] \in Seq(LawTell(v)')
      OBVIOUS
    <3>1. CASE v = w
      BY <2>1, <3>1, EmptySeq DEF New
    <3>2. CASE v # w
      BY <1>0, <2>1, <2>2, <3>2, LawGrows
    <3> QED  BY <3>1, <3>2
  <2>5. \A v \in Wizards : InOrder(v)' /\ HasLink(v)'
    <3> SUFFICES ASSUME NEW v \in Wizards PROVE InOrder(v)' /\ HasLink(v)'
      OBVIOUS
    <3>1. InOrder(v) /\ HasLink(v)
      BY DEF Lawful
    <3>2. CASE v = w
      <4>1. have'[v] = {"local"} /\ v \notin dialog' /\ v \notin spool'
        BY <2>1, <3>2 DEF New
      <4> QED  BY <4>1 DEF InOrder, HasLink
    <3>3. CASE v # w
      BY <2>1, <3>1, <3>3 DEF InOrder, HasLink
    <3> QED  BY <3>2, <3>3
  <2>6. toDaemon' \in Seq(LawOf(Question)') /\ fromDaemon' \in Seq(LawOf(Answer)')
    BY <1>0, <2>1, <2>2, LawOfGrows
  <2> QED  BY <2>3, <2>4, <2>5, <2>6 DEF Lawful, Question, Answer
<1>2. ASSUME \/ LaunchAndConnect(w) /\ NotFound(w)
             \/ WizardLeaves(w) \/ Disconnected(w)
      PROVE  Lawful'
  <2>1. /\ UNCHANGED <<have, ready, spool, toDaemon, fromDaemon, toGate>>
        /\ clients' \subseteq clients /\ dialog' \subseteq dialog
        /\ \A v \in Wizards : toWiz'[v] \in {toWiz[v], <<>>}
    BY <1>2 DEF LaunchAndConnect, NotFound, WizardLeaves, Disconnected, TypeOK
  <2>2. \A v \in Wizards : <<>> \in Seq(LawTell(v))
    BY EmptySeq
  <2>3. \A v \in Wizards : toWiz'[v] \in Seq(LawTell(v))
    BY <1>0, <2>1, <2>2
  <2>4. \A v \in Wizards : toWiz'[v] \in Seq(LawTell(v)')
    BY <2>1, <2>3, LawGrows
  <2> QED  BY <1>0, <2>1, <2>4, LawfulStays
<1> QED  BY <1>1, <1>2 DEF LaunchAndConnect

\* A wizard takes what it is told, ticks a step and asks on; its user chooses.
LEMMA WizardLawful ==
  ASSUME SessionAssumption, TypeOK, Basic, Lawful, NEW w \in Wizards,
         WizardStep(w) \/ UserStep(w)
  PROVE  Lawful'
<1>0. /\ \A v \in Wizards : toGate[v] \in Seq(LawAsk(v)) /\ toWiz[v] \in Seq(LawTell(v))
      /\ toDaemon \in Seq(LawOf(Question)) /\ fromDaemon \in Seq(LawOf(Answer))
      /\ InOrder(w) /\ HasLink(w)
  BY DEF Lawful
<1>1. /\ UNCHANGED <<ready, clients, spool, toDaemon, fromDaemon>>
      /\ "local" \in have[w]
      /\ have[w] \subseteq have'[w] /\ dialog' \subseteq dialog \cup {w}
      /\ \A v \in Wizards \ {w} : have'[v] = have[v] /\ toWiz'[v] = toWiz[v]
  BY WizardFrame DEF server, net, Basic
\* It is enough to look at the wizard itself.
<1>2. ASSUME toWiz'[w] \in Seq(LawTell(w)),
             \/ toGate' = toGate
             \/ \E asks \in Seq(LawAsk(w)') : Send(w, asks),
             InOrder(w)', HasLink(w)'
      PROVE  Lawful'
  <2>1. \A v \in Wizards : toWiz'[v] \in Seq(LawTell(v)')
    <3>1. \A v \in Wizards : toWiz'[v] \in Seq(LawTell(v)) /\ have[v] \subseteq have'[v]
      BY <1>0, <1>1, <1>2
    <3> QED  BY <1>1, <3>1, LawGrows
  <2>2. \A v \in Wizards : toGate[v] \in Seq(LawAsk(v)')
    BY <1>0, <1>1, LawGrows
  <2>3. \A v \in Wizards : toGate'[v] \in Seq(LawAsk(v)')
    <3>1. ASSUME NEW asks \in Seq(LawAsk(w)'), Send(w, asks)
          PROVE  \A v \in Wizards : toGate'[v] \in Seq(LawAsk(v)')
      <4>1. \A v \in Wizards : \/ toGate'[v] = toGate[v]
                               \/ v = w /\ toGate'[v] = toGate[w] \o asks
        BY <3>1 DEF Send, TypeOK
      <4>2. toGate[w] \o asks \in Seq(LawAsk(w)')
        BY <2>2, ConcatProperties
      <4> QED  BY <2>2, <4>1, <4>2
    <3> QED  BY <1>2, <2>2, <3>1
  <2>4. \A v \in Wizards : InOrder(v)' /\ HasLink(v)'
    <3> SUFFICES ASSUME NEW v \in Wizards, v # w PROVE InOrder(v)' /\ HasLink(v)'
      BY <1>2
    <3>1. InOrder(v) /\ HasLink(v)
      BY DEF Lawful
    <3> QED  BY <1>1, <3>1 DEF InOrder, HasLink
  <2>5. toDaemon' \in Seq(LawOf(Question)') /\ fromDaemon' \in Seq(LawOf(Answer)')
    BY <1>0, <1>1, LawOfGrows
  <2> QED  BY <2>1, <2>3, <2>4, <2>5 DEF Lawful, Question, Answer
<1>3. ASSUME NEW t, WizardTakes(w, t)
      PROVE  /\ Head(toWiz[w]) \in LawTell(w) /\ Head(toWiz[w]).type = t
             /\ toWiz'[w] \in Seq(LawTell(w))
  <2>1. toWiz[w] # <<>> /\ toWiz'[w] = Tail(toWiz[w]) /\ Head(toWiz[w]).type = t
    BY <1>3 DEF WizardTakes, TypeOK
  <2> QED  BY <1>0, <2>1, HeadTailProperties
<1>4. ASSUME NEW ticks, Tick(w, ticks)
      PROVE  have'[w] = have[w] \cup ticks
  BY <1>4 DEF Tick, TypeOK
<1>5. ASSUME NEW t \in {"STATUS", "PRINTERS"}, t = "PRINTERS" => "levels" \in have'[w]
      PROVE  <<Plain(t)>> \in Seq(LawAsk(w)')
  <2> DEFINE x == Plain(t)
  <2>1. x \in LawAsk(w)'
    BY <1>5 DEF Plain, LawAsk, Ask, Opt
  <2>2. <<x>> \in Seq(LawAsk(w)')
    <3> HIDE DEF x
    <3> QED  BY <2>1
  <2> QED  BY <2>2
<1>6. ASSUME "remote" \in have'[w]
      PROVE  AfterConnect \in Seq(LawAsk(w)')
  <2> DEFINE x == Plain("TEMPLATES")
             y == Plain("CONVERT")
  <2>1. x \in LawAsk(w)' /\ y \in LawAsk(w)' /\ AfterConnect = <<x, y>>
    BY <1>6 DEF Plain, LawAsk, Ask, Opt, AfterConnect
  <2> HIDE DEF x, y
  <2> QED  BY <2>1
<1>7. ASSUME NEW m \in Opt, Chosen \subseteq have'[w]
      PROVE  AuthData(m) \o AfterConnect \in Seq(LawAsk(w)')
  <2> DEFINE x == [type |-> "LEVELS", mandat |-> m]
  <2>1. x \in LawAsk(w)' /\ AuthData(m) = <<x>>
    BY <1>7 DEF LawAsk, Ask, AuthData
  <2> HIDE DEF x
  <2>2. AuthData(m) \in Seq(LawAsk(w)')
    BY <2>1
  <2>3. AfterConnect \in Seq(LawAsk(w)')
    BY <1>6, <1>7 DEF Chosen
  <2> QED  BY <2>2, <2>3, ConcatProperties
\* Nothing is ticked but what has no demands on the order or the link.
<1>8. ASSUME have'[w] = have[w] \/ have'[w] = have[w] \cup {"templates"},
             dialog' = dialog \/ w \notin clients \/ ready
      PROVE  InOrder(w)' /\ HasLink(w)'
  BY <1>0, <1>1, <1>8 DEF InOrder, HasLink, Chosen
<1>9. ASSUME have'[w] = have[w] \cup Chosen \/ have'[w] = have[w] \cup {"remote"},
             w \in clients => ready
      PROVE  InOrder(w)' /\ HasLink(w)'
  BY <1>0, <1>1, <1>9 DEF InOrder, HasLink, Chosen
<1>10. CASE WizardRegistered(w)
  <2>1. WizardTakes(w, "UUID") /\ Send(w, <<Plain("STATUS")>>)
        /\ have' = have /\ dialog' = dialog
    BY <1>10 DEF WizardRegistered, page
  <2>2. <<Plain("STATUS")>> \in Seq(LawAsk(w)')
    BY <1>5
  <2> QED  BY <1>2, <1>3, <1>8, <2>1, <2>2
<1>11. CASE WizardIsTold(w)
  <2>1. (WizardTakes(w, "NOT_READY") \/ WizardTakes(w, "GOOD_BAY"))
        /\ have' = have /\ dialog' = dialog /\ toGate' = toGate
    BY <1>11 DEF WizardIsTold
  <2> QED  BY <1>2, <1>3, <1>8, <2>1
<1>12. CASE WizardReady(w)
  <2> DEFINE m == Head(toWiz[w]).mandat
  <2>1. WizardTakes(w, "FULL_READY") /\ Tick(w, Chosen)
        /\ Send(w, AuthData(picked'[w]) \o AfterConnect)
        /\ picked' = [picked EXCEPT ![w] = m]
    BY <1>12 DEF WizardReady, Chosen
  <2>2. picked'[w] = m /\ m \in Opt /\ (w \in clients => ready)
    BY <1>3, <2>1 DEF LawTell, Tell, TypeOK
  <2> HIDE DEF m
  <2>3. have'[w] = have[w] \cup Chosen
    BY <1>4, <2>1
  <2>4. AuthData(m) \o AfterConnect \in Seq(LawAsk(w)')
    BY <1>7, <2>2, <2>3
  <2>5. InOrder(w)' /\ HasLink(w)'
    BY <1>9, <2>2, <2>3
  <2> QED  BY <1>2, <1>3, <2>1, <2>2, <2>4, <2>5
<1>13. CASE WizardAsksUser(w)
  <2>1. WizardTakes(w, "PART_READY") /\ have' = have /\ toGate' = toGate
    BY <1>13 DEF WizardAsksUser
  <2>2. w \in clients => ready
    BY <1>3, <2>1 DEF LawTell
  <2> QED  BY <1>2, <1>3, <1>8, <2>1, <2>2
<1>14. CASE WizardTemplates(w)
  <2>1. WizardTakes(w, "TEMPLATES") /\ Tick(w, {"templates"}) /\ toGate' = toGate
        /\ dialog' = dialog
    BY <1>14 DEF WizardTemplates
  <2> QED  BY <1>2, <1>3, <1>4, <1>8, <2>1
<1>15. CASE WizardLevels(w)
  <2>1. WizardTakes(w, "LEVELS") /\ Tick(w, {"levels"}) /\ Send(w, <<Plain("PRINTERS")>>)
        /\ dialog' = dialog
    BY <1>15 DEF WizardLevels
  <2>2. Chosen \subseteq have[w] /\ have'[w] = have[w] \cup {"levels"}
    BY <1>3, <1>4, <2>1 DEF LawTell
  <2>3. <<Plain("PRINTERS")>> \in Seq(LawAsk(w)')
    BY <1>5, <2>2
  <2>4. InOrder(w)' /\ HasLink(w)'
    BY <1>0, <1>1, <2>1, <2>2 DEF InOrder, HasLink, Chosen
  <2> QED  BY <1>2, <1>3, <2>1, <2>3, <2>4
<1>16. CASE WizardPrinters(w)
  <2>1. WizardTakes(w, "PRINTERS") /\ Tick(w, {"printers"}) /\ toGate' = toGate
        /\ dialog' = dialog
    BY <1>16 DEF WizardPrinters
  <2>2. "levels" \in have[w] /\ have'[w] = have[w] \cup {"printers"}
    BY <1>3, <1>4, <2>1 DEF LawTell
  <2>3. InOrder(w)' /\ HasLink(w)'
    BY <1>0, <1>1, <2>1, <2>2 DEF InOrder, HasLink, Chosen
  <2> QED  BY <1>2, <1>3, <2>1, <2>3
<1>17. CASE UserCancels(w)
  <2>1. w \in dialog /\ Tick(w, {"remote"}) /\ Send(w, AfterConnect) /\ toWiz' = toWiz
    BY <1>17 DEF UserCancels
  <2>2. have'[w] = have[w] \cup {"remote"} /\ (w \in clients => ready)
    BY <1>0, <1>4, <2>1 DEF HasLink
  <2> QED  BY <1>0, <1>2, <1>6, <1>9, <2>1, <2>2
<1>18. ASSUME NEW m \in Mandates, UserPicks(w, m)
       PROVE  Lawful'
  <2>1. w \in dialog /\ Tick(w, Chosen) /\ Send(w, AuthData(m) \o AfterConnect)
        /\ toWiz' = toWiz /\ m \in Opt
    BY <1>18 DEF UserPicks, Chosen, Opt
  <2>2. have'[w] = have[w] \cup Chosen /\ (w \in clients => ready)
    BY <1>0, <1>4, <2>1 DEF HasLink
  <2>3. AuthData(m) \o AfterConnect \in Seq(LawAsk(w)')
    BY <1>7, <2>1, <2>2
  <2>4. InOrder(w)' /\ HasLink(w)'
    BY <1>9, <2>2
  <2> QED  BY <1>0, <1>2, <2>1, <2>3, <2>4
<1> QED
  BY <1>10, <1>11, <1>12, <1>13, <1>14, <1>15, <1>16, <1>17, <1>18 DEF WizardStep, UserStep

-----------------------------------------------------------------------------
(* The theorems.                                                           *)

Inv ==
  /\ TypeOK
  /\ Basic
  /\ Agreed
  /\ Lawful

LEMMA Initially ==
  ASSUME SessionAssumption, Init
  PROVE  Inv
<1> USE DEF Init
<1>0. /\ \A w \in Wizards : toGate[w] = <<>> /\ toWiz[w] = <<>> /\ have[w] = {}
      /\ \A w \in Wizards, l \in Listed : lists[w][l] = None
      /\ toDaemon = <<>> /\ fromDaemon = <<>> /\ None \in Opt
  BY DEF Listed, Opt
<1>1. TypeOK
  BY EmptySeq DEF TypeOK, Opt
<1>2. Basic
  BY DEF Basic, New, Running
<1>3. Agreed
  <2>1. \A w \in Wizards : Shows(w, None)
    BY <1>0, EmptySeq DEF Shows
  <2>2. toDaemon \in Seq(For(Question, u_mandat)) /\ fromDaemon \in Seq(For(Answer, u_mandat))
    BY <1>0, EmptySeq
  <2> QED  BY <1>0, <2>1, <2>2 DEF Agreed
<1>4. Lawful
  <2>1. \A w \in Wizards : toGate[w] \in Seq(LawAsk(w)) /\ toWiz[w] \in Seq(LawTell(w))
    BY <1>0, EmptySeq
  <2>2. toDaemon \in Seq(LawOf(Question)) /\ fromDaemon \in Seq(LawOf(Answer))
    BY <1>0, EmptySeq
  <2>3. \A w \in Wizards : InOrder(w) /\ HasLink(w)
    BY <1>0 DEF InOrder, HasLink
  <2> QED  BY <2>1, <2>2, <2>3 DEF Lawful
<1> QED  BY <1>1, <1>2, <1>3, <1>4 DEF Inv

LEMMA StepInv ==
  ASSUME SessionAssumption, Inv, [Next]_vars
  PROVE  Inv'
<1>1. TypeOK /\ Basic /\ Agreed /\ Lawful
  BY DEF Inv
<1>2. TypeOK' /\ Basic' /\ Agreed'
  BY <1>1, StepTyped, StepBasic, StepAgreed
<1>3. Lawful'
  <2>1. CASE UNCHANGED vars
    <3>1. UNCHANGED <<have, ready, clients, dialog, spool, toGate, toWiz, toDaemon,
                      fromDaemon>>
      BY <2>1 DEF vars, server, net, finding, page
    <3>2. \A w \in Wizards : toWiz'[w] \in Seq(LawTell(w)')
      BY <1>1, <3>1, LawGrows DEF Lawful
    <3> QED  BY <1>1, <3>1, <3>2, LawfulStays DEF Lawful
  <2> QED
    BY <1>1, <2>1, ProcessLawful, DaemonLawful, LaunchLawful, GateLawful, WizardLawful
    DEF Next, GateStep
<1> QED  BY <1>2, <1>3 DEF Inv

LEMMA Always == Spec => []Inv
<1>1. Init => Inv
  BY Initially, SessionAssumption
<1>2. Inv /\ [Next]_vars => Inv'
  BY StepInv, SessionAssumption
<1> QED  BY <1>1, <1>2, PTL DEF Spec

\* The variables keep their types.
THEOREM SessionTyped == Spec => []TypeOK
<1>1. Inv => TypeOK
  BY DEF Inv
<1> QED  BY <1>1, Always, PTL

\* The levels and the printers a wizard shows are those of one mandate, however
\* many wizards set and use the one u_mandat of the GateKeeper.
THEOREM OneMandate == Spec => []ListsAgree
<1>1. Inv => ListsAgree
  <2> SUFFICES ASSUME Inv, NEW w \in Wizards,
                      lists[w]["LEVELS"] # None, lists[w]["PRINTERS"] # None
               PROVE  lists[w]["LEVELS"] = lists[w]["PRINTERS"]
    BY DEF ListsAgree
  <2>1. PICK m \in Opt : Shows(w, m)
    BY DEF Inv, Agreed
  <2> QED  BY <2>1 DEF Shows, Listed
<1> QED  BY <1>1, Always, PTL

\* Every wizard ticks its steps in their order, also when the answers of others
\* arrive in between, or its own for a connection that is gone.
THEOREM StepsFollow == Spec => []StepsInOrder
<1>1. Inv => StepsInOrder
  BY DEF Inv, Lawful, InOrder, StepsInOrder, Chosen
<1> QED  BY <1>1, Always, PTL

\* No wizard asks for lists or has its document converted by a GateKeeper that
\* the daemon has not confirmed.
THEOREM ReadyFirst == Spec => []RemoteMeansReady
<1>1. Inv => RemoteMeansReady
  BY DEF Inv, TypeOK, Lawful, HasLink, RemoteMeansReady
<1> QED  BY <1>1, Always, PTL
=============================================================================
