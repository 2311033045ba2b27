---------------------------- MODULE Wizard_proofs ----------------------------
(***************************************************************************)
(* Proofs about Wizard, for any number of printers, cards, detours and     *)
(* faults: nothing is prepared while the accounting base has no document   *)
(* that may be printed, and the user who goes straight on has prepared     *)
(* what the base knows, prints what he chose, where he may, and finds the  *)
(* document when he presses Print.                                         *)
(*                                                                         *)
(* Between the base and the files lie four queues of messages and the      *)
(* flags of a page.  The invariant says that as long as the base does not  *)
(* have the document, nothing on the way says that it has, and nothing has *)
(* come of it (Quiet); for the types it takes that a page behind another   *)
(* one has what that one asks for (Behind), and that nothing is asked of   *)
(* the daemon before there is a card (Blank).                              *)
(***************************************************************************)
EXTENDS Wizard, SequenceTheorems, TLAPS

USE DEF AnyCard

Preparation == [card : Cards, shown : BOOLEAN, cleared : BOOLEAN]

Behind ==
  /\ page > Select => printer # None
  /\ page > PrintData \/ filled => card # None

But(M, types) == {m \in M : m.type \notin types}

Blank ==
  card = None => /\ toGate \in Seq(Messages({"RESTART"}))
                 /\ toDaemon = <<>> /\ fromDaemon = <<>>
                 /\ toWiz \in Seq(But(ToWizMsg, DaemonSays))

InBase == \E c \in Cards : Usable(c)

NoCreate == {m \in ToGateMsg : m.type # "CREATE"}
NotYet(M) == {m \in M : m.type \notin {"BRAK", "REGISTERED", "PICTURES"}}

Quiet ==
  /\ ~mb /\ ~buttons
  /\ queued = None /\ work = <<>> /\ pictures = None
  /\ toGate \in Seq(NoCreate)
  /\ toWiz \in Seq(NotYet(ToWizMsg))
  /\ fromDaemon \in Seq(NotYet(Messages(DaemonSays)))

\* As long as the user goes straight on, a page is never entered twice: what is
\* on the way is about the printer and the card that the pages still show
\* (AboutChoice), and before the daemon allowed the printer nothing that comes
\* after the checks has begun (Untouched).
OfChoice(M) ==
  {m \in M : /\ m.type = "AUTHOR_USER" => m.printer = printer
             /\ m.type \in {"IS_MB_EXIST", "REGISTER"} => m.number = Number[card]
             /\ m.type = "CREATE" => m.card = card
             /\ m.type = "PICTURES" => m.card \in {None, card}
             /\ m.type # "RESTART"}
Authorise == [type |-> "AUTHOR_USER", printer |-> printer]

MayPrint == page > PrintData /\ printer \in Allowed

Untouched ==
  /\ page <= CheckData
  /\ ~auth /\ ~buttons /\ ~step
  /\ queued = None /\ work = <<>> /\ pictures = None
  /\ toGate \in Seq(But(ToGateMsg, {"CREATE", "PRINT"}))
  /\ toWiz \in Seq(But(ToWizMsg, {"ALLOWED", "FORMATTED", "PICTURES"}))
  /\ fromDaemon \in Seq(But(Messages(DaemonSays), {"ALLOWED"}))

NothingAsked ==
  page <= PrintData => /\ toGate = <<>> /\ toDaemon = <<>> /\ fromDaemon = <<>>
                       /\ toWiz \in Seq(But(ToWizMsg, DaemonSays))
                       /\ ~mb
PrinterTold ==
  page > PrintData =>
    gkPrinter = printer \/ (toGate # <<>> /\ Head(toGate) = Authorise)
AboutChoice ==
  /\ toGate \in Seq(OfChoice(ToGateMsg))
  /\ toDaemon \in Seq(OfChoice(ToDaemonMsg))
  /\ toWiz \in Seq(OfChoice(ToWizMsg))
  /\ work \in Seq({w \in Preparation : w.card = card})
  /\ {queued, pictures} \subseteq {None, card}
NotPrinted ==
  page < Finish => handed = {} /\ toGate \in Seq(But(ToGateMsg, {"PRINT"}))
Unprepared ==
  queued = None => /\ toWiz \in Seq(But(ToWizMsg, {"FORMATTED"}))
                   /\ mode # "print" => ~step /\ page <= CheckData

AsChosen ==
  /\ NothingAsked /\ PrinterTold /\ AboutChoice /\ NotPrinted /\ Unprepared
  /\ ~MayPrint => Untouched
  /\ PrintedAsChecked /\ PrintFindsDocument

Inv ==
  /\ TypeOK /\ Behind /\ Blank
  /\ ~InBase => Quiet
  /\ Straight => AsChosen
  /\ Straight /\ ~Usable(card) => Quiet

-----------------------------------------------------------------------------
(* Types.                                                                  *)

LEMMA WithoutTyped ==
  ASSUME NEW T, NEW s \in Seq(T), NEW i \in DOMAIN s
  PROVE  s[i] \in T /\ Without(s, i) \in Seq(T)
<1> DEFINE l == Len(s)
           a == SubSeq(s, 1, i - 1)
           b == SubSeq(s, i + 1, l)
<1>1. l \in Nat /\ i \in 1 .. l /\ \A j \in 1 .. l : s[j] \in T
  BY LenProperties, ElementOfSeq
<1> HIDE DEF l
<1>2. a \in Seq(T)
  <2>1. \A j \in 1 .. i - 1 : s[j] \in T
    BY <1>1
  <2> QED  BY <1>1, <2>1, SubSeqProperties
<1>3. b \in Seq(T)
  <2>1. \A j \in i + 1 .. l : s[j] \in T
    BY <1>1
  <2> QED  BY <1>1, <2>1, SubSeqProperties
<1>4. Without(s, i) = a \o b
  BY DEF Without, l
<1> HIDE DEF a, b
<1> QED  BY <1>1, <1>2, <1>3, <1>4, ConcatProperties

LEMMA FunctionTyped ==
  ASSUME NEW T, NEW n \in Nat, NEW f \in [1 .. n -> T]
  PROVE  f \in Seq(T)
  BY SeqDef

\* What a page sends when the next one is shown is not CREATE.
LEMMA SendsTyped ==
  ASSUME WizardAssumption, TypeOK, Behind, page = PrintData => EnableNext
  PROVE  Sends \in Seq(NoCreate)
<1>1. CASE page = PrintData
  <2> DEFINE x == [type |-> "AUTHOR_USER", printer |-> printer]
             y == [type |-> "IS_MB_EXIST", number |-> Number[card]]
  <2>1. Sends = <<x, y>>
    BY <1>1 DEF Sends, PrintData, Preview
  <2>2. x \in NoCreate /\ y \in NoCreate
    <3>1. printer \in Printers
      BY <1>1 DEF TypeOK, Behind, Select, PrintData
    <3>2. filled
      BY <1>1 DEF EnableNext, Intro, Select, PrintData, CheckData, Preview
    <3>3. Number[card] \in Numbers
      BY <3>2 DEF Behind, TypeOK, Numbers
    <3> QED  BY <3>1, <3>3 DEF NoCreate, ToGateMsg, Messages
  <2> HIDE DEF x, y
  <2> QED  BY <2>1, <2>2
<1>2. CASE page = Preview
  <2> DEFINE x == Msg("PRINT")
  <2>1. Sends = <<x>>
    BY <1>2 DEF Sends, PrintData, Preview
  <2>2. x \in NoCreate
    BY DEF NoCreate, ToGateMsg, Messages, Msg
  <2> HIDE DEF x
  <2> QED  BY <2>1, <2>2
<1>3. CASE page # PrintData /\ page # Preview
  BY <1>3, EmptySeq DEF Sends
<1> QED  BY <1>1, <1>2, <1>3

UserStep ==
  \/ \E p \in Printers : UserSelects(p)
  \/ \E m \in Modes : UserChoosesMode(m)
  \/ \E c \in Cards : UserFillsCard(c)
  \/ UserGoesOn \/ UserGoesBack \/ UserRestarts

LEMMA UserTyped ==
  ASSUME WizardAssumption, TypeOK, Behind, UserStep
  PROVE  TypeOK' /\ Behind'
<1> USE DEF TypeOK, form, checks, server, net, Intro, Select, PrintData,
            CheckData, Preview, Finish
<1>1. ASSUME NEW p \in Printers, UserSelects(p)
      PROVE  TypeOK' /\ Behind'
  BY <1>1 DEF UserSelects, WizardAssumption, Behind
<1>2. ASSUME NEW m \in Modes, UserChoosesMode(m)
      PROVE  TypeOK' /\ Behind'
  <2>1. [type |-> "CREATE", card |-> card] \in ToGateMsg
    <3>1. card \in Cards
      BY <1>2 DEF UserChoosesMode, Behind, WizardAssumption
    <3> QED  BY <3>1 DEF ToGateMsg
  <2>2. toGate' \in Seq(ToGateMsg)
    BY <1>2, <2>1, AppendProperties DEF UserChoosesMode
  <2> QED  BY <1>2, <2>2 DEF UserChoosesMode, Behind
<1>3. ASSUME NEW c \in Cards, UserFillsCard(c)
      PROVE  TypeOK' /\ Behind'
  <2>1. c # None
    BY DEF WizardAssumption
  <2> QED  BY <1>3, <2>1 DEF UserFillsCard, Behind, WizardAssumption
<1>4. CASE UserGoesOn
  <2>1. NoCreate \subseteq ToGateMsg
    BY DEF NoCreate
  <2>2. toGate' \in Seq(ToGateMsg)
    <3>1. Sends \in Seq(ToGateMsg)
      BY <1>4, <2>1, SendsTyped, SeqMonotonic DEF UserGoesOn
    <3> QED  BY <1>4, <3>1, ConcatProperties DEF UserGoesOn
  <2>3. /\ page' = page + 1 /\ page # 5
        /\ page = 1 => printer # None
        /\ page = 2 => card # None
    <3>1. page' = page + 1 /\ EnableNext
      BY <1>4 DEF UserGoesOn
    <3>2. page = 5 => ~EnableNext
      BY DEF EnableNext
    <3>3. page = 1 => (EnableNext <=> printer # None)
      BY DEF EnableNext
    <3>4. page = 2 => (EnableNext <=> converted /\ counted /\ filled)
      BY DEF EnableNext
    <3> QED  BY <3>1, <3>2, <3>3, <3>4 DEF Behind
  <2>4. page \in 0 .. 5
    OBVIOUS
  <2>5. page' \in 0 .. 5
    <3> HIDE DEF TypeOK
    <3> QED  BY <2>3, <2>4
  <2>6. Behind'
    <3>1. UNCHANGED <<printer, card, filled>> /\ Behind
      BY <1>4 DEF UserGoesOn
    <3> HIDE DEF TypeOK
    <3> QED  BY <2>3, <2>4, <3>1 DEF Behind
  <2> QED  BY <1>4, <2>2, <2>5, <2>6 DEF UserGoesOn
<1>5. CASE UserGoesBack
  BY <1>5 DEF UserGoesBack, Detour, Behind, WizardAssumption
<1>6. CASE UserRestarts
  <2>1. Msg("RESTART") \in ToGateMsg
    BY DEF ToGateMsg, Messages, Msg
  <2>2. toGate' \in Seq(ToGateMsg)
    BY <1>6, <2>1, AppendProperties DEF UserRestarts
  <2>3. detours' \in 0 .. MaxDetours
    BY <1>6 DEF UserRestarts, Detour, WizardAssumption
  <2>4. Behind'
    BY <1>6 DEF UserRestarts, Behind
  <2>5. page' \in 0 .. 5 /\ pictures' \in AnyCard /\ printer' \in Printers \cup {None}
    BY <1>6 DEF UserRestarts, WizardAssumption
  <2>6. {filled', converted', counted', auth', mb', buttons', step', converting',
         left', link'} \subseteq BOOLEAN
    BY <1>6 DEF UserRestarts
  <2> QED  BY <1>6, <2>2, <2>3, <2>4, <2>5, <2>6 DEF UserRestarts
<1> QED  BY <1>1, <1>2, <1>3, <1>4, <1>5, <1>6 DEF UserStep

\* A wizard that takes an answer of the daemon has a card.
LEMMA AskedOfCard ==
  ASSUME TypeOK, Blank, toWiz # <<>>, Head(toWiz).type = "NOT_EXIST"
  PROVE  card \in Cards
<1>1. card # None
  <2> SUFFICES ASSUME card = None PROVE FALSE
    OBVIOUS
  <2>1. Head(toWiz) \in But(ToWizMsg, DaemonSays)
    BY HeadTailProperties DEF Blank
  <2> QED  BY <2>1 DEF But, DaemonSays
<1> QED  BY <1>1 DEF TypeOK

LEMMA WizardTyped ==
  ASSUME WizardAssumption, TypeOK, Behind, Blank, WizardStep
  PROVE  TypeOK' /\ Behind'
<1>1. ASSUME NEW types, WizardTakes(types)
      PROVE  /\ toWiz # <<>> /\ Head(toWiz) \in ToWizMsg /\ toWiz' \in Seq(ToWizMsg)
             /\ Head(toWiz).type \in types
             /\ UNCHANGED <<page, printer, card, filled, fills, mode, server,
                            net, faults, detours, handed>>
  BY <1>1, HeadTailProperties DEF WizardTakes, Heard, TypeOK
<1> USE DEF TypeOK, server, net, Behind
<1>2. CASE WizardConverted
  BY <1>1, <1>2 DEF WizardConverted
<1>3. CASE WizardCounted
  BY <1>1, <1>3 DEF WizardCounted
<1>4. CASE WizardAuthorised
  <2>1. auth' \in BOOLEAN /\ mb' \in BOOLEAN /\ buttons' \in BOOLEAN
    BY <1>4 DEF WizardAuthorised, Heard, Enable
  <2> QED  BY <1>1, <1>4, <2>1 DEF WizardAuthorised
<1>5. CASE WizardMbChecked
  <2>1. /\ auth' = auth /\ mb' = ~Heard("NOT_BRAK")
        /\ buttons' = (auth' /\ mb')
    BY <1>5 DEF WizardMbChecked, Enable
  <2>2. auth \in BOOLEAN /\ (~Heard("NOT_BRAK")) \in BOOLEAN
    BY Zenon DEF Heard, TypeOK
  <2>3. auth' \in BOOLEAN /\ mb' \in BOOLEAN /\ buttons' \in BOOLEAN
    BY <2>1, <2>2
  <2> QED  BY <1>1, <1>5, <2>3 DEF WizardMbChecked
<1>6. CASE WizardRegistersMB
  <2>1. Register \in ToGateMsg
    <3>1. card \in Cards
      BY <1>1, <1>6, AskedOfCard DEF WizardRegistersMB
    <3> QED  BY <3>1 DEF Register, ToGateMsg, Numbers
  <2>2. toGate' \in Seq(ToGateMsg)
    BY <1>6, <2>1, AppendProperties DEF WizardRegistersMB
  <2> QED  BY <1>1, <1>6, <2>2 DEF WizardRegistersMB
<1>7. CASE WizardFormatted
  BY <1>1, <1>7 DEF WizardFormatted
<1>8. CASE WizardShows
  <2>1. Head(toWiz) \in ToWizMsg /\ Head(toWiz).type = "PICTURES"
    BY <1>1, <1>8 DEF WizardShows
  <2>2. Head(toWiz).card \in AnyCard
    BY <2>1 DEF ToWizMsg, Messages, DaemonSays
  <2> QED  BY <1>1, <1>8, <2>2 DEF WizardShows
<1> QED  BY <1>2, <1>3, <1>4, <1>5, <1>6, <1>7, <1>8 DEF WizardStep

\* Behind speaks of the page and of what the user entered.
LEMMA BehindStays ==
  ASSUME Behind, UNCHANGED <<page, printer, card, filled>>
  PROVE  Behind'
  BY DEF Behind

LEMMA GateTyped ==
  ASSUME WizardAssumption, TypeOK, GateStep
  PROVE  TypeOK' /\ UNCHANGED <<page, printer, card, filled>>
<1>1. ASSUME NEW t, GateTakes(t)
      PROVE  /\ Head(toGate) \in ToGateMsg /\ Head(toGate).type = t
             /\ toGate' \in Seq(ToGateMsg)
             /\ UNCHANGED <<page, form, checks, base, link, fromDaemon, faults,
                            detours>>
  BY <1>1, HeadTailProperties DEF GateTakes, TypeOK
<1>2. ASSUME NEW m \in ToDaemonMsg, ToDaemon(m)
      PROVE  toDaemon' \in Seq(ToDaemonMsg)
  BY <1>2, AppendProperties DEF ToDaemon, TypeOK
<1> USE DEF TypeOK, form, checks, server
<1>3. CASE GateAuthorises
  <2>1. Head(toGate).printer \in Printers /\ Head(toGate) \in ToDaemonMsg
    <3>1. Head(toGate) \in ToGateMsg /\ Head(toGate).type = "AUTHOR_USER"
      BY <1>1, <1>3 DEF GateAuthorises
    <3>2. Head(toGate) \in [type : {"AUTHOR_USER"}, printer : Printers]
      BY <3>1 DEF ToGateMsg, Messages
    <3> QED  BY <3>2 DEF ToDaemonMsg
  <2>2. toDaemon' \in Seq(ToDaemonMsg)
    BY <1>2, <1>3, <2>1 DEF GateAuthorises
  <2> QED  BY <1>1, <1>3, <2>1, <2>2 DEF GateAuthorises
<1>4. CASE GateForwards
  <2>1. Head(toGate) \in ToGateMsg /\ Head(toGate).type \in {"IS_MB_EXIST", "REGISTER"}
    BY <1>1, <1>4 DEF GateForwards
  <2>2. Head(toGate) \in ToDaemonMsg
    BY <2>1 DEF ToGateMsg, ToDaemonMsg, Messages
  <2>3. toDaemon' \in Seq(ToDaemonMsg)
    BY <1>2, <1>4, <2>2 DEF GateForwards
  <2> QED  BY <1>1, <1>4, <2>3 DEF GateForwards
<1>5. CASE GateFormats
  <2>1. Head(toGate) \in ToGateMsg /\ Head(toGate).type = "CREATE"
    BY <1>1, <1>5 DEF GateFormats
  <2>2. Head(toGate).card \in Cards
    BY <2>1 DEF ToGateMsg, Messages
  <2> DEFINE m == [card |-> Head(toGate).card, shown |-> FALSE, cleared |-> FALSE]
  <2>3. m \in Preparation
    BY <2>2 DEF Preparation
  <2>4. work \in Seq(Preparation) /\ work' = Append(work, m)
    BY <1>5 DEF Preparation, GateFormats
  <2> HIDE DEF m
  <2>5. work' \in Seq(Preparation)
    BY <2>3, <2>4, AppendProperties
  <2> QED  BY <1>1, <1>5, <2>5 DEF GateFormats, Preparation
<1>6. CASE GatePrints
  <2>1. <<gkPrinter, queued>> \in (Printers \cup {None}) \X (AnyCard)
    OBVIOUS
  <2>2. handed' \subseteq (Printers \cup {None}) \X (AnyCard)
    BY <1>6, <2>1 DEF GatePrints
  <2> QED  BY <1>1, <1>6, <2>2 DEF GatePrints
<1>7. CASE GateRestarts
  <2>1. Msg("CONVERTED") \in ToWizMsg
    BY DEF ToWizMsg, Messages, Msg
  <2>2. toWiz' \in Seq(ToWizMsg) /\ counting' \in Nat
    <3> DEFINE x == Msg("CONVERTED")
    <3>1. toWiz \in Seq(ToWizMsg) /\ x \in ToWizMsg /\ counting \in Nat
      BY <2>1
    <3> HIDE DEF TypeOK, form, checks, server
    <3>2. toWiz' = Append(toWiz, x) /\ counting' = counting + 1
      BY <1>7 DEF GateRestarts, Say
    <3> HIDE DEF x
    <3>3. Append(toWiz, x) \in Seq(ToWizMsg)
      BY <3>1, AppendProperties
    <3> QED  BY <3>1, <3>2, <3>3
  <2>3. work \in Seq(Preparation) /\ Len(work) \in Nat /\ DOMAIN work = 1 .. Len(work)
    BY LenProperties DEF Preparation
  <2>4. \A i \in 1 .. Len(work) : [work[i] EXCEPT !.cleared = TRUE] \in Preparation
    <3>1. \A i \in 1 .. Len(work) : work[i] \in Preparation
      BY <2>3, ElementOfSeq
    <3> QED  BY <3>1 DEF Preparation
  <2>5. work' \in [1 .. Len(work) -> Preparation]
    BY <1>7, <2>3, <2>4 DEF GateRestarts
  <2>6. work' \in Seq(Preparation)
    BY <2>3, <2>5, FunctionTyped
  <2> QED  BY <1>1, <1>7, <2>2, <2>6 DEF GateRestarts, Preparation
<1> QED  BY <1>3, <1>4, <1>5, <1>6, <1>7 DEF GateStep

LEMMA JobTyped ==
  ASSUME WizardAssumption, TypeOK, JobStep
  PROVE  TypeOK' /\ UNCHANGED <<page, printer, card, filled>>
<1>1. \A m \in ToWizMsg : Say(m) => toWiz' \in Seq(ToWizMsg)
  BY AppendProperties DEF Say, TypeOK
<1>2. /\ Msg("CONVERTED") \in ToWizMsg /\ Msg("PAGES") \in ToWizMsg
      /\ Msg("FORMATTED") \in ToWizMsg
  BY DEF Msg, ToWizMsg, Messages
<1>3. \A kind : Fault(kind) => faults' \in 0 .. MaxFaults
  BY DEF Fault, TypeOK, WizardAssumption
<1>4. work \in Seq(Preparation)
  BY DEF TypeOK, Preparation
<1>5. \A i \in DOMAIN work : /\ work[i] \in Preparation
                             /\ Without(work, i) \in Seq(Preparation)
  BY <1>4, WithoutTyped
<1> USE DEF TypeOK, JobsElse, form, checks, net
<1>6. CASE DocConverted
  <2>1. toWiz' \in Seq(ToWizMsg) /\ counting' \in Nat /\ faults' \in 0 .. MaxFaults
    BY <1>1, <1>2, <1>3, <1>6 DEF DocConverted
  <2>2. converting' = FALSE /\ UNCHANGED <<JobsElse, queued, work, left>>
    BY <1>6 DEF DocConverted
  <2> QED  BY <2>1, <2>2
<1>7. CASE DocReady4work
  BY <1>1, <1>2, <1>3, <1>7 DEF DocReady4work
<1>8. ASSUME NEW i \in DOMAIN work, DocReady4preview(i)
      PROVE  TypeOK' /\ UNCHANGED <<page, printer, card, filled>>
  <2> DEFINE e == [work[i] EXCEPT !.shown = TRUE]
  <2>1. e \in Preparation /\ work[i].card \in AnyCard
    <3>1. work[i] \in Preparation
      BY <1>5, <1>8
    <3>2. e \in Preparation
      BY <3>1 DEF Preparation
    <3>3. work[i].card \in Cards
      BY <3>1 DEF Preparation
    <3>4. work[i].card \in AnyCard
      <4> DEFINE c == work[i].card
      <4>1. c \in Cards
        BY <3>3
      <4> HIDE DEF c, TypeOK
      <4>2. c \in AnyCard
        BY <4>1, SMT DEF WizardAssumption
      <4> QED  BY <4>2 DEF c
    <3> HIDE DEF e
    <3> QED  BY <3>2, <3>4
  <2>2. DOMAIN work = 1 .. Len(work)
    BY <1>4, LenProperties
  <2>3. work' = [work EXCEPT ![i] = e]
    BY <1>8 DEF DocReady4preview
  <2> HIDE DEF e
  <2>4. work' \in Seq(Preparation)
    BY <1>4, <2>1, <2>2, <2>3, ExceptSeq
  <2>5. toWiz' \in Seq(ToWizMsg)
    <3>0. None \in AnyCard
      BY DEF WizardAssumption
    <3>1. PICK c \in AnyCard : Say([type |-> "PICTURES", card |-> c])
      BY <1>8, <2>1, <3>0 DEF DocReady4preview
    <3>2. [type |-> "PICTURES", card |-> c] \in ToWizMsg
      BY DEF ToWizMsg
    <3> QED  BY <1>1, <3>1, <3>2
  <2> QED  BY <1>8, <2>4, <2>5 DEF DocReady4preview, Preparation
<1>9. ASSUME NEW i \in DOMAIN work, DocReady4print(i)
      PROVE  TypeOK' /\ UNCHANGED <<page, printer, card, filled>>
  <2>1. work' \in Seq(Preparation) /\ queued' \in AnyCard
    BY <1>5, <1>9 DEF DocReady4print, Preparation
  <2> QED  BY <1>1, <1>2, <1>9, <2>1 DEF DocReady4print, Preparation
<1>10. ASSUME NEW i \in DOMAIN work, WorkIsLost(i)
       PROVE  TypeOK' /\ UNCHANGED <<page, printer, card, filled>>
  <2>1. work' \in Seq(Preparation) /\ faults' \in 0 .. MaxFaults
    BY <1>3, <1>5, <1>10 DEF WorkIsLost
  <2> QED  BY <1>10, <2>1 DEF WorkIsLost, Preparation
<1> QED  BY <1>6, <1>7, <1>8, <1>9, <1>10 DEF JobStep

\* The daemon's answer to a question.
Known(n) ==
  CASE base[n] = "absent" -> "NOT_EXIST"
    [] base[n] = "spoilt" -> "BRAK"
    [] OTHER -> "NOT_BRAK"
Reply(q) ==
  Msg(CASE q.type = "REGISTER" -> "REGISTERED"
        [] q.type = "AUTHOR_USER" ->
             IF q.printer \in Allowed THEN "ALLOWED" ELSE "DENIED"
        [] OTHER -> Known(q.number))

LEMMA ReplyTyped ==
  ASSUME NEW q
  PROVE  /\ Reply(q) \in Messages(DaemonSays)
         /\ q.type # "REGISTER"
            /\ (q.type = "AUTHOR_USER" \/ base[q.number] # "spoilt")
              => Reply(q).type \notin {"BRAK", "REGISTERED"}
<1> DEFINE says == CASE q.type = "REGISTER" -> "REGISTERED"
                     [] q.type = "AUTHOR_USER" ->
                          IF q.printer \in Allowed THEN "ALLOWED" ELSE "DENIED"
                     [] OTHER -> Known(q.number)
<1>0. /\ Known(q.number) \in {"NOT_EXIST", "BRAK", "NOT_BRAK"}
      /\ base[q.number] # "spoilt" => Known(q.number) # "BRAK"
  BY DEF Known
<1>1. says \in DaemonSays
  <2>1. CASE q.type = "REGISTER"
    BY <2>1 DEF DaemonSays
  <2>2. CASE q.type = "AUTHOR_USER"
    BY <2>2 DEF DaemonSays
  <2>3. CASE q.type \notin {"REGISTER", "AUTHOR_USER"}
    BY <1>0, <2>3 DEF DaemonSays
  <2> QED  BY <2>1, <2>2, <2>3
<1>2. ASSUME q.type # "REGISTER", q.type = "AUTHOR_USER" \/ base[q.number] # "spoilt"
      PROVE  says \notin {"BRAK", "REGISTERED"}
  <2>1. CASE q.type = "AUTHOR_USER"
    <3>1. says \in {"ALLOWED", "DENIED"}
      BY <2>1
    <3> HIDE DEF says
    <3> QED  BY <3>1
  <2>2. CASE q.type # "AUTHOR_USER"
    BY <1>0, <1>2, <2>2
  <2> QED  BY <2>1, <2>2
<1>3. Reply(q) = Msg(says)
  BY DEF Reply
<1> HIDE DEF says
<1> QED  BY <1>1, <1>2, <1>3 DEF Msg, Messages

LEMMA DaemonTyped ==
  ASSUME WizardAssumption, TypeOK, DaemonStep \/ LinkLost
  PROVE  TypeOK' /\ UNCHANGED <<page, printer, card, filled>>
<1> USE DEF TypeOK, DaemonElse, form, checks, server
<1>1. CASE GateReceivesAnswer
  <2>1. /\ fromDaemon' \in Seq(Messages(DaemonSays))
        /\ Head(fromDaemon) \in Messages(DaemonSays)
    BY <1>1, HeadTailProperties DEF GateReceivesAnswer
  <2>2. Head(fromDaemon) \in ToWizMsg
    BY <2>1 DEF ToWizMsg, Messages
  <2>3. toWiz' \in Seq(ToWizMsg)
    BY <1>1, <2>2, AppendProperties DEF GateReceivesAnswer, Say
  <2> QED  BY <1>1, <2>1, <2>3 DEF GateReceivesAnswer
<1>2. ASSUME NEW i \in DOMAIN toDaemon, DaemonAnswers(i)
      PROVE  TypeOK' /\ UNCHANGED <<page, printer, card, filled>>
  <2>1. toDaemon' \in Seq(ToDaemonMsg)
    BY <1>2, WithoutTyped DEF DaemonAnswers
  <2>2. fromDaemon' = Append(fromDaemon, Reply(toDaemon[i]))
    BY <1>2 DEF DaemonAnswers, Reply, Known
  <2>3. fromDaemon' \in Seq(Messages(DaemonSays))
    BY <2>2, ReplyTyped, AppendProperties
  <2>4. base' \in [Numbers -> {"absent", "registered", "spoilt", "kept"}]
    BY <1>2 DEF DaemonAnswers
  <2> QED  BY <1>2, <2>1, <2>3, <2>4 DEF DaemonAnswers
<1>3. CASE LinkLost
  <2>1. /\ faults' \in 0 .. MaxFaults /\ link' = FALSE
        /\ toDaemon' \in Seq(ToDaemonMsg) /\ fromDaemon' \in Seq(Messages(DaemonSays))
        /\ UNCHANGED <<DaemonElse, base>>
    BY <1>3, EmptySeq DEF LinkLost, Fault, WizardAssumption
  <2> QED  BY <2>1
<1> QED  BY <1>1, <1>2, <1>3 DEF DaemonStep

LEMMA StepTyped ==
  ASSUME WizardAssumption, TypeOK, Behind, Blank, [Next]_vars
  PROVE  TypeOK' /\ Behind'
<1>1. CASE UserStep
  BY <1>1, UserTyped
<1>2. CASE WizardStep
  BY <1>2, WizardTyped
<1>3. CASE GateStep
  BY <1>3, GateTyped, BehindStays
<1>4. CASE JobStep
  BY <1>4, JobTyped, BehindStays
<1>5. CASE DaemonStep \/ LinkLost
  BY <1>5, DaemonTyped, BehindStays
<1>6. CASE UNCHANGED vars
  BY <1>6 DEF vars, form, checks, server, net, TypeOK, Behind
<1> QED  BY <1>1, <1>2, <1>3, <1>4, <1>5, <1>6 DEF Next, UserStep

-----------------------------------------------------------------------------
(* As long as there is no card.                                            *)

LEMMA StepBlank ==
  ASSUME WizardAssumption, TypeOK, Behind, Blank, [Next]_vars
  PROVE  Blank'
<1> SUFFICES ASSUME card' = None
             PROVE  /\ toGate' \in Seq(Messages({"RESTART"}))
                    /\ toDaemon' = <<>> /\ fromDaemon' = <<>>
                    /\ toWiz' \in Seq(But(ToWizMsg, DaemonSays))
  BY DEF Blank
<1> DEFINE Quit == Messages({"RESTART"})
           Told == But(ToWizMsg, DaemonSays)
<1>1. card = None
  <2>1. card' = card \/ card' \in Cards
    BY DEF Next, UserSelects, UserChoosesMode, UserFillsCard, UserGoesOn,
           UserGoesBack, UserRestarts, WizardStep, WizardConverted,
           WizardCounted, WizardAuthorised, WizardMbChecked, WizardRegistersMB,
           WizardFormatted, WizardShows, WizardTakes, GateStep, GateAuthorises,
           GateForwards, GateFormats, GatePrints, GateRestarts, GateTakes,
           JobStep, DocConverted, DocReady4work, DocReady4preview,
           DocReady4print, WorkIsLost, JobsElse, DaemonStep, DaemonAnswers,
           DaemonElse, GateReceivesAnswer, LinkLost, form, vars
  <2> QED  BY <2>1 DEF WizardAssumption
<1>2. /\ toGate \in Seq(Quit) /\ toDaemon = <<>> /\ fromDaemon = <<>>
      /\ toWiz \in Seq(Told) /\ page <= PrintData /\ ~filled /\ page \in 0 .. 5
  BY <1>1 DEF Blank, Behind, TypeOK, PrintData, Intro, Finish
<1>3. DOMAIN toDaemon = {}
  BY <1>2, EmptySeq, LenProperties
<1>4. CASE UserStep
  <2> USE DEF net, Intro, Select, PrintData, CheckData, Preview
  <2>1. /\ UNCHANGED <<toWiz, toDaemon, fromDaemon>>
        /\ toGate' = toGate \/ toGate' = Append(toGate, Msg("RESTART"))
    <3>1. ASSUME NEW m \in Modes, UserChoosesMode(m) PROVE FALSE
      BY <1>2, <3>1 DEF UserChoosesMode
    <3>2. CASE UserGoesOn
      <4>1. Sends = <<>>
        <5>1. page # 2
          BY <1>2, <3>2 DEF UserGoesOn, EnableNext
        <5> QED  BY <1>2, <5>1 DEF Sends
      <4> QED  BY <1>2, <3>2, <4>1, ConcatEmptySeq DEF UserGoesOn
    <3> QED
      BY <1>4, <3>1, <3>2 DEF UserStep, UserSelects, UserFillsCard, UserGoesBack,
                              UserRestarts
  <2>2. Msg("RESTART") \in Quit
    BY DEF Msg, Messages
  <2> HIDE DEF Quit
  <2>3. toGate' \in Seq(Quit)
    BY <1>2, <2>1, <2>2, AppendProperties
  <2> QED  BY <1>2, <2>1, <2>3 DEF Quit
<1>5. CASE WizardStep
  <2>1. ASSUME NEW types, WizardTakes(types)
        PROVE  /\ toWiz' \in Seq(Told) /\ Head(toWiz).type \notin DaemonSays
               /\ UNCHANGED <<toDaemon, fromDaemon>>
    <3>1. toWiz # <<>> /\ toWiz' = Tail(toWiz) /\ UNCHANGED <<toDaemon, fromDaemon>>
      BY <2>1 DEF WizardTakes, Heard, net
    <3>2. Head(toWiz) \in Told /\ toWiz' \in Seq(Told)
      BY <1>2, <3>1, HeadTailProperties
    <3> QED  BY <3>1, <3>2 DEF But
  <2>2. ~WizardRegistersMB
    <3>1. WizardTakes({"NOT_EXIST"}) => Head(toWiz).type = "NOT_EXIST"
      BY DEF WizardTakes, Heard
    <3> QED  BY <2>1, <3>1 DEF WizardRegistersMB, DaemonSays
  <2>3. toGate' = toGate /\ \E types : WizardTakes(types)
    BY <1>5, <2>2 DEF WizardStep, WizardConverted, WizardCounted, WizardAuthorised,
                      WizardMbChecked, WizardFormatted, WizardShows
  <2> QED  BY <1>2, <2>1, <2>3
<1>6. CASE GateStep
  <2>1. ASSUME NEW t, GateTakes(t)
        PROVE  t = "RESTART" /\ toGate' \in Seq(Quit) /\ fromDaemon' = fromDaemon
    <3>1. /\ toGate # <<>> /\ toGate' = Tail(toGate) /\ Head(toGate).type = t
          /\ fromDaemon' = fromDaemon
      BY <2>1 DEF GateTakes
    <3>2. Head(toGate) \in Quit /\ toGate' \in Seq(Quit)
      BY <1>2, <3>1, HeadTailProperties
    <3> QED  BY <3>1, <3>2 DEF Messages
  <2>2. /\ GateTakes("RESTART") /\ toWiz' = Append(toWiz, Msg("CONVERTED"))
        /\ UNCHANGED toDaemon
    BY <1>6, <2>1 DEF GateStep, GateAuthorises, GateForwards, GateFormats, GatePrints,
                      GateRestarts, Say
  <2>3. Msg("CONVERTED") \in Told
    BY DEF Msg, But, ToWizMsg, Messages, DaemonSays
  <2>4. toWiz' \in Seq(Told)
    BY <1>2, <2>2, <2>3, AppendProperties
  <2> QED  BY <1>2, <2>1, <2>2, <2>4
<1>7. CASE JobStep
  <2>1. /\ UNCHANGED <<toGate, toDaemon, fromDaemon>>
        /\ \/ UNCHANGED toWiz
           \/ \E m \in Told : toWiz' = Append(toWiz, m)
    <3>1. \A t \in {"CONVERTED", "PAGES", "FORMATTED"} : Msg(t) \in Told
      BY DEF Msg, But, ToWizMsg, Messages, DaemonSays
    <3>2. \A c \in AnyCard : [type |-> "PICTURES", card |-> c] \in Told
      BY DEF But, ToWizMsg, DaemonSays
    <3>3. \A i \in DOMAIN work : work[i].card \in AnyCard
      <4>1. work \in Seq(Preparation)
        BY DEF TypeOK, Preparation
      <4>2. \A i \in DOMAIN work : work[i] \in Preparation
        BY <4>1, WithoutTyped
      <4> QED  BY <4>2 DEF Preparation
    <3> QED
      BY <1>7, <3>1, <3>2, <3>3 DEF JobStep, DocConverted, DocReady4work, Say, net,
         DocReady4preview, DocReady4print, WorkIsLost, JobsElse
  <2> HIDE DEF Told
  <2>2. toWiz' \in Seq(Told)
    BY <1>2, <2>1, AppendProperties
  <2> QED  BY <1>2, <2>1, <2>2 DEF Told
<1>8. CASE DaemonStep \/ LinkLost
  BY <1>2, <1>3, <1>8 DEF DaemonStep, GateReceivesAnswer, LinkLost, DaemonElse
<1>9. CASE UNCHANGED vars
  BY <1>2, <1>9 DEF vars, net
<1> QED  BY <1>4, <1>5, <1>6, <1>7, <1>8, <1>9 DEF Next, UserStep

-----------------------------------------------------------------------------
(* As long as the base does not have the document.                         *)

LEMMA UserQuiet ==
  ASSUME WizardAssumption, TypeOK, Behind, Quiet, UserStep
  PROVE  Quiet'
<1> USE DEF Quiet, form, checks, server, net
<1>1. ASSUME NEW p \in Printers, UserSelects(p)
      PROVE  Quiet'
  BY <1>1 DEF UserSelects
<1>2. ASSUME NEW m \in Modes, UserChoosesMode(m)
      PROVE  Quiet'
  BY <1>2 DEF UserChoosesMode
<1>3. ASSUME NEW c \in Cards, UserFillsCard(c)
      PROVE  Quiet'
  BY <1>3 DEF UserFillsCard
<1>4. CASE UserGoesOn
  <2>1. toGate' \in Seq(NoCreate)
    BY <1>4, SendsTyped, ConcatProperties DEF UserGoesOn
  <2> QED  BY <1>4, <2>1 DEF UserGoesOn
<1>5. CASE UserGoesBack
  BY <1>5 DEF UserGoesBack
<1>6. CASE UserRestarts
  <2>1. Msg("RESTART") \in NoCreate
    BY DEF NoCreate, ToGateMsg, Messages, Msg
  <2>2. toGate' \in Seq(NoCreate)
    BY <1>6, <2>1, AppendProperties DEF UserRestarts
  <2> QED  BY <1>6, <2>2 DEF UserRestarts
<1> QED  BY <1>1, <1>2, <1>3, <1>4, <1>5, <1>6 DEF UserStep

\* No answer that is on the way ticks the check of the base.
LEMMA WizardQuiet ==
  ASSUME TypeOK, Blank, Quiet, WizardStep
  PROVE  Quiet'
<1>1. ASSUME NEW types, WizardTakes(types)
      PROVE  /\ Head(toWiz).type \in types
             /\ Head(toWiz).type \notin {"BRAK", "REGISTERED", "PICTURES"}
             /\ toWiz' \in Seq(NotYet(ToWizMsg))
             /\ UNCHANGED <<server, net>>
  <2>1. /\ toWiz # <<>> /\ toWiz' = Tail(toWiz) /\ Head(toWiz).type \in types
        /\ UNCHANGED <<server, net>>
    BY <1>1 DEF WizardTakes, Heard
  <2>2. Head(toWiz) \in NotYet(ToWizMsg) /\ Tail(toWiz) \in Seq(NotYet(ToWizMsg))
    BY <2>1, HeadTailProperties DEF Quiet
  <2> QED  BY <2>1, <2>2 DEF NotYet
<1> USE DEF Quiet, server, net
<1>2. CASE WizardConverted
  BY <1>1, <1>2 DEF WizardConverted
<1>3. CASE WizardCounted
  BY <1>1, <1>3 DEF WizardCounted
<1>4. CASE WizardAuthorised
  BY <1>1, <1>4 DEF WizardAuthorised, Enable
<1>5. CASE WizardMbChecked
  <2>1. Head(toWiz).type = "NOT_BRAK" /\ toWiz # <<>>
    BY <1>1, <1>5 DEF WizardMbChecked, WizardTakes, Heard
  <2>2. ~mb'
    BY <1>5, <2>1 DEF WizardMbChecked, Heard
  <2> QED  BY <1>1, <1>5, <2>2 DEF WizardMbChecked, Enable
<1>6. CASE WizardRegistersMB
  <2>1. Register \in NoCreate
    <3>1. Head(toWiz).type = "NOT_EXIST" /\ toWiz # <<>>
      BY <1>6 DEF WizardRegistersMB, WizardTakes, Heard
    <3>2. card \in Cards
      BY <3>1, AskedOfCard
    <3> QED  BY <3>2 DEF Register, NoCreate, ToGateMsg, Numbers
  <2>2. toGate' \in Seq(NoCreate)
    BY <1>6, <2>1, AppendProperties DEF WizardRegistersMB
  <2> QED  BY <1>1, <1>6, <2>2 DEF WizardRegistersMB
<1>7. CASE WizardFormatted
  BY <1>1, <1>7 DEF WizardFormatted
<1>8. CASE WizardShows
  BY <1>1, <1>8 DEF WizardShows
<1> QED  BY <1>2, <1>3, <1>4, <1>5, <1>6, <1>7, <1>8 DEF WizardStep

LEMMA GateQuiet ==
  ASSUME TypeOK, Quiet, GateStep \/ JobStep
  PROVE  Quiet'
<1>1. ASSUME NEW t, GateTakes(t)
      PROVE  /\ t # "CREATE" /\ toGate' \in Seq(NoCreate)
             /\ UNCHANGED <<mb, buttons, pictures, fromDaemon>>
  <2>1. /\ toGate # <<>> /\ toGate' = Tail(toGate) /\ Head(toGate).type = t
        /\ UNCHANGED <<mb, buttons, pictures, fromDaemon>>
    BY <1>1 DEF GateTakes, checks
  <2>2. Head(toGate) \in NoCreate /\ Tail(toGate) \in Seq(NoCreate)
    BY <2>1, HeadTailProperties DEF Quiet
  <2> QED  BY <2>1, <2>2 DEF NoCreate
<1>2. \A m \in NotYet(ToWizMsg) : Say(m) => toWiz' \in Seq(NotYet(ToWizMsg))
  BY AppendProperties DEF Say, Quiet
<1>3. /\ Msg("CONVERTED") \in NotYet(ToWizMsg) /\ Msg("PAGES") \in NotYet(ToWizMsg)
  BY DEF Msg, NotYet, ToWizMsg, Messages
<1>4. DOMAIN work = {}
  BY EmptySeq, LenProperties DEF Quiet
<1> USE DEF Quiet, server, JobsElse, checks, net
<1>5. CASE GateAuthorises
  BY <1>1, <1>5 DEF GateAuthorises
<1>6. CASE GateForwards
  BY <1>1, <1>6 DEF GateForwards
<1>7. CASE GateFormats
  BY <1>1, <1>7 DEF GateFormats
<1>8. CASE GatePrints
  BY <1>1, <1>8 DEF GatePrints
<1>9. CASE GateRestarts
  <2>1. work' = <<>>
    <3>1. work' = [i \in {} |-> [work[i] EXCEPT !.cleared = TRUE]]
      BY <1>4, <1>9 DEF GateRestarts
    <3>2. DOMAIN work' = 1 .. 0 /\ work' \in [1 .. 0 -> {}]
      BY <3>1
    <3>3. work' \in Seq({})
      BY <3>2, FunctionTyped
    <3> QED  BY <3>2, <3>3, EmptySeq, LenProperties
  <2> QED  BY <1>1, <1>2, <1>3, <1>9, <2>1 DEF GateRestarts
<1>10. CASE JobStep
  <2>1. CASE DocConverted
    BY <1>2, <1>3, <2>1 DEF DocConverted
  <2>2. CASE DocReady4work
    BY <1>2, <1>3, <2>2 DEF DocReady4work
  <2> QED  BY <1>4, <1>10, <2>1, <2>2 DEF JobStep
<1> QED  BY <1>5, <1>6, <1>7, <1>8, <1>9, <1>10 DEF GateStep

\* An answer ticks the check of the base only when the base says so.
LEMMA DaemonQuiet ==
  ASSUME TypeOK, Quiet, DaemonStep \/ LinkLost,
         \A i \in DOMAIN toDaemon : DaemonAnswers(i) =>
           Reply(toDaemon[i]).type \notin {"BRAK", "REGISTERED"}
  PROVE  Quiet'
<1> USE DEF Quiet, server, checks, form, DaemonElse
<1> DEFINE Back == NotYet(Messages(DaemonSays))
<1>1. CASE GateReceivesAnswer
  <2>1. /\ fromDaemon # <<>> /\ fromDaemon' = Tail(fromDaemon)
        /\ toWiz' = Append(toWiz, Head(fromDaemon))
        /\ UNCHANGED <<mb, buttons, queued, work, pictures, toGate>>
    BY <1>1 DEF GateReceivesAnswer, Say
  <2>2. Head(fromDaemon) \in Back /\ Tail(fromDaemon) \in Seq(Back)
    BY <2>1, HeadTailProperties
  <2>3. Head(fromDaemon) \in NotYet(ToWizMsg)
    BY <2>2 DEF NotYet, ToWizMsg, Messages
  <2>4. toWiz' \in Seq(NotYet(ToWizMsg))
    BY <2>1, <2>3, AppendProperties
  <2> QED  BY <2>1, <2>2, <2>4
<1>2. ASSUME NEW i \in DOMAIN toDaemon, DaemonAnswers(i)
      PROVE  Quiet'
  <2> DEFINE r == Reply(toDaemon[i])
  <2>1. /\ fromDaemon' = Append(fromDaemon, r)
        /\ UNCHANGED <<mb, buttons, queued, work, pictures, toGate, toWiz>>
    BY <1>2 DEF DaemonAnswers, Reply, Known
  <2>2. r \in Messages(DaemonSays) /\ r.type \notin {"BRAK", "REGISTERED"}
    BY <1>2, ReplyTyped
  <2>3. r \in Back
    BY <2>2 DEF NotYet, Messages, DaemonSays
  <2> HIDE DEF r, Back
  <2>4. fromDaemon' \in Seq(Back)
    BY <2>1, <2>3, AppendProperties DEF Back
  <2> QED  BY <2>1, <2>4 DEF Back
<1>3. CASE LinkLost
  BY <1>3, EmptySeq DEF LinkLost
<1> QED  BY <1>1, <1>2, <1>3 DEF DaemonStep

LEMMA QuietStays ==
  ASSUME WizardAssumption, TypeOK, Behind, Blank, Quiet, [Next]_vars,
         \A i \in DOMAIN toDaemon : DaemonAnswers(i) =>
           Reply(toDaemon[i]).type \notin {"BRAK", "REGISTERED"}
  PROVE  Quiet'
<1>1. CASE UNCHANGED vars
  BY <1>1 DEF vars, form, checks, server, net, Quiet
<1>2. CASE UserStep \/ WizardStep \/ GateStep \/ JobStep \/ DaemonStep \/ LinkLost
  BY <1>2, UserQuiet, WizardQuiet, GateQuiet, DaemonQuiet
<1> QED  BY <1>1, <1>2 DEF Next, UserStep

\* Of a number the base says something else only when it is registered.
LEMMA BaseGrows ==
  ASSUME TypeOK, [Next]_vars
  PROVE  \/ UNCHANGED base
         \/ \E i \in DOMAIN toDaemon :
              /\ DaemonAnswers(i) /\ toDaemon[i].type = "REGISTER"
              /\ toDaemon[i].number \in Numbers
              /\ base' = [base EXCEPT ![toDaemon[i].number] = "registered"]
<1>1. ASSUME NEW i \in DOMAIN toDaemon, DaemonAnswers(i),
             toDaemon[i].type = "REGISTER"
      PROVE  /\ toDaemon[i].number \in Numbers
             /\ base' = [base EXCEPT ![toDaemon[i].number] = "registered"]
  <2>1. toDaemon[i] \in ToDaemonMsg
    BY WithoutTyped DEF TypeOK
  <2> QED  BY <1>1, <2>1 DEF DaemonAnswers, ToDaemonMsg
<1>2. ASSUME ~\E i \in DOMAIN toDaemon :
               DaemonAnswers(i) /\ toDaemon[i].type = "REGISTER"
      PROVE  UNCHANGED base
  <2>1. \A i \in DOMAIN toDaemon : DaemonAnswers(i) => UNCHANGED base
    BY <1>2 DEF DaemonAnswers
  <2> QED
    BY <2>1 DEF Next, UserSelects, UserChoosesMode, UserFillsCard, UserGoesOn,
       UserGoesBack, UserRestarts, WizardStep, WizardConverted, WizardCounted,
       WizardAuthorised, WizardMbChecked, WizardRegistersMB, WizardFormatted,
       WizardShows, WizardTakes, GateStep, GateAuthorises, GateForwards,
       GateFormats, GatePrints, GateRestarts, GateTakes, JobStep, DocConverted,
       DocReady4work, DocReady4preview, DocReady4print, WorkIsLost, JobsElse,
       DaemonStep, GateReceivesAnswer, LinkLost, net, vars
<1> QED  BY <1>1, <1>2

\* What the base has of a card it keeps, and a number it is asked to register it has.
LEMMA UsableGrows ==
  ASSUME WizardAssumption, TypeOK, [Next]_vars
  PROVE  /\ \A c \in AnyCard : Usable(c) => Usable(c)'
         /\ \A i \in DOMAIN toDaemon : \A c \in Cards :
              DaemonAnswers(i) /\ toDaemon[i].number = Number[c] =>
                \/ toDaemon[i].type = "REGISTER" /\ Usable(c)'
                \/ toDaemon[i].type # "REGISTER" /\ Usable(c)
                \/ Reply(toDaemon[i]).type \notin {"BRAK", "REGISTERED"}
<1>0. \A c \in Cards : c # None /\ Number[c] \in DOMAIN base
  BY DEF WizardAssumption, TypeOK, Numbers
<1>1. ASSUME NEW c \in AnyCard, Usable(c)
      PROVE  Usable(c)'
  <2>1. CASE UNCHANGED base
    BY <1>1, <2>1 DEF Usable, Says
  <2>2. CASE \E n \in Numbers : base' = [base EXCEPT ![n] = "registered"]
    BY <1>0, <1>1, <2>2 DEF Usable, Says
  <2> QED  BY <2>1, <2>2, BaseGrows
<1>2. ASSUME NEW i \in DOMAIN toDaemon, NEW c \in Cards, DaemonAnswers(i),
             toDaemon[i].number = Number[c]
      PROVE  \/ toDaemon[i].type = "REGISTER" /\ Usable(c)'
             \/ toDaemon[i].type # "REGISTER" /\ Usable(c)
             \/ Reply(toDaemon[i]).type \notin {"BRAK", "REGISTERED"}
  <2>1. CASE toDaemon[i].type = "REGISTER"
    BY <1>0, <1>2, <2>1 DEF DaemonAnswers, Usable, Says
  <2>2. CASE toDaemon[i].type # "REGISTER"
    BY <1>0, <1>2, <2>2, ReplyTyped DEF Usable, Says
  <2> QED  BY <2>1, <2>2
<1> QED  BY <1>1, <1>2

\* Every question is about the number of some card.
LEMMA AskedOfSome ==
  ASSUME TypeOK, NEW i \in DOMAIN toDaemon, toDaemon[i].type # "AUTHOR_USER"
  PROVE  \E c \in Cards : toDaemon[i].number = Number[c]
<1>1. toDaemon[i] \in ToDaemonMsg
  BY WithoutTyped DEF TypeOK
<1> QED  BY <1>1 DEF ToDaemonMsg, Numbers

LEMMA StepQuiet ==
  ASSUME WizardAssumption, Inv, [Next]_vars
  PROVE  ~InBase' => Quiet'
<1> SUFFICES ASSUME ~InBase' PROVE Quiet'
  OBVIOUS
<1>1. ~InBase
  BY UsableGrows DEF Inv, InBase
<1>2. TypeOK /\ Behind /\ Blank /\ Quiet
  BY <1>1 DEF Inv
<1>3. ASSUME NEW i \in DOMAIN toDaemon, DaemonAnswers(i)
      PROVE  Reply(toDaemon[i]).type \notin {"BRAK", "REGISTERED"}
  <2>1. CASE toDaemon[i].type = "AUTHOR_USER"
    BY <2>1, ReplyTyped
  <2>2. CASE toDaemon[i].type # "AUTHOR_USER"
    <3>1. PICK c \in Cards : toDaemon[i].number = Number[c]
      BY <1>2, <2>2, AskedOfSome
    <3> QED  BY <1>1, <1>2, <1>3, <3>1, UsableGrows DEF InBase
  <2> QED  BY <2>1, <2>2
<1> QED  BY <1>2, <1>3, QuietStays

-----------------------------------------------------------------------------
(* As long as the user goes straight on.                                   *)

LEMMA HeadStays ==
  ASSUME NEW T, NEW s \in Seq(T), NEW e \in T, s # <<>>
  PROVE  Append(s, e) # <<>> /\ Head(Append(s, e)) = Head(s)
  BY AppendProperties, HeadTailProperties

\* The base is asked about the card that is in the form.
LEMMA StepAsksOfCard ==
  ASSUME WizardAssumption, Inv, Straight, [Next]_vars
  PROVE  ~Usable(card)' => Quiet'
<1> SUFFICES ASSUME ~Usable(card)' PROVE Quiet'
  OBVIOUS
<1>1. TypeOK /\ Behind /\ Blank /\ AsChosen
  BY DEF Inv
<1>2. CASE \E c \in Cards : UserFillsCard(c)
  <2>1. page = PrintData
    BY <1>2 DEF UserFillsCard
  <2>2. /\ toGate = <<>> /\ fromDaemon = <<>> /\ ~mb
        /\ toWiz \in Seq(But(ToWizMsg, DaemonSays)) /\ Untouched
    BY <1>1, <2>1 DEF AsChosen, NothingAsked, MayPrint, PrintData
  <2>3. toWiz \in Seq(NotYet(ToWizMsg))
    <3>1. toWiz \in Seq(But(ToWizMsg, {"ALLOWED", "FORMATTED", "PICTURES"}))
      BY <2>2 DEF Untouched
    <3>2. \A j \in 1 .. Len(toWiz) :
            /\ toWiz[j] \in But(ToWizMsg, DaemonSays)
            /\ toWiz[j] \in But(ToWizMsg, {"ALLOWED", "FORMATTED", "PICTURES"})
      BY <2>2, <3>1, ElementOfSeq
    <3>3. \A j \in 1 .. Len(toWiz) : toWiz[j] \in NotYet(ToWizMsg)
      BY <3>2 DEF But, NotYet, DaemonSays
    <3>4. toWiz \in [1 .. Len(toWiz) -> NotYet(ToWizMsg)] /\ Len(toWiz) \in Nat
      BY <2>2, <3>3, LenProperties
    <3> QED  BY <3>4, FunctionTyped
  <2>4. Quiet
    BY <2>2, <2>3, EmptySeq DEF Untouched, Quiet
  <2>5. UserStep
    BY <1>2 DEF UserStep
  <2> QED  BY <1>1, <2>4, <2>5, UserQuiet
<1>3. CASE ~\E c \in Cards : UserFillsCard(c)
  <2>1. card' = card
    BY <1>3 DEF Next, UserSelects, UserChoosesMode, UserGoesOn, UserGoesBack,
           UserRestarts, WizardStep, WizardConverted, WizardCounted,
           WizardAuthorised, WizardMbChecked, WizardRegistersMB, WizardFormatted,
           WizardShows, WizardTakes, GateStep, GateAuthorises, GateForwards,
           GateFormats, GatePrints, GateRestarts, GateTakes, JobStep,
           DocConverted, DocReady4work, DocReady4preview, DocReady4print,
           WorkIsLost, JobsElse, DaemonStep, DaemonAnswers, DaemonElse,
           GateReceivesAnswer, LinkLost, form, vars
  <2>2. card \in AnyCard /\ (Usable(card)' <=> Says(card, {"registered", "spoilt"})')
    BY <1>1 DEF TypeOK, Usable
  <2>3. Usable(card) => Usable(card)'
    <3>1. \A c \in AnyCard : Usable(c) => Usable(c)'
      BY <1>1, UsableGrows
    <3> QED  BY <2>1, <2>2, <3>1 DEF Usable, Says
  <2>4. ~Usable(card) /\ Quiet
    BY <2>3 DEF Inv
  <2>5. ASSUME NEW i \in DOMAIN toDaemon, DaemonAnswers(i)
        PROVE  Reply(toDaemon[i]).type \notin {"BRAK", "REGISTERED"}
    <3>1. CASE toDaemon[i].type = "AUTHOR_USER"
      BY <3>1, ReplyTyped
    <3>2. CASE toDaemon[i].type # "AUTHOR_USER"
      <4>1. toDaemon[i] \in OfChoice(ToDaemonMsg)
        BY <1>1, WithoutTyped DEF AsChosen, AboutChoice
      <4>2. toDaemon[i].number = Number[card]
        BY <3>2, <4>1 DEF OfChoice, ToDaemonMsg
      <4>3. card \in Cards
        <5>1. toDaemon # <<>>
          <6>1. DOMAIN toDaemon = 1 .. Len(toDaemon)
            BY <1>1, LenProperties DEF TypeOK
          <6> QED  BY <6>1
        <5> QED  BY <1>1, <5>1 DEF Blank, TypeOK
      <4>4. \/ toDaemon[i].type = "REGISTER" /\ Usable(card)'
            \/ toDaemon[i].type # "REGISTER" /\ Usable(card)
            \/ Reply(toDaemon[i]).type \notin {"BRAK", "REGISTERED"}
        <5>1. \A c \in Cards :
                DaemonAnswers(i) /\ toDaemon[i].number = Number[c] =>
                  \/ toDaemon[i].type = "REGISTER" /\ Usable(c)'
                  \/ toDaemon[i].type # "REGISTER" /\ Usable(c)
                  \/ Reply(toDaemon[i]).type \notin {"BRAK", "REGISTERED"}
          BY <1>1, UsableGrows
        <5> QED  BY <2>1, <2>5, <4>2, <4>3, <5>1 DEF Usable, Says
      <4> QED  BY <2>4, <4>4
    <3> QED  BY <3>1, <3>2
  <2> QED  BY <1>1, <2>4, <2>5, QuietStays
<1> QED  BY <1>2, <1>3

LEMMA UserAsChosen ==
  ASSUME WizardAssumption, TypeOK, Behind, Straight, AsChosen, Straight',
         UserStep
  PROVE  AsChosen'
<1> USE DEF form, checks, server, net, Intro, Select, PrintData, CheckData,
            Preview, Finish
<1> DEFINE Same == UNCHANGED <<toGate, toWiz, toDaemon, fromDaemon, work, queued,
                               gkPrinter, auth, mb, buttons, step, mode, pictures,
                               handed>>
<1>1. ASSUME page <= PrintData, page' = page, Same
      PROVE  AsChosen'
  <2>1. toGate = <<>> /\ toDaemon = <<>> /\ fromDaemon = <<>>
    BY <1>1 DEF AsChosen, NothingAsked
  <2>2. Untouched /\ ~MayPrint /\ ~MayPrint'
    BY <1>1 DEF AsChosen, MayPrint, TypeOK
  <2>3. handed = {} /\ handed' = {}
    BY <1>1 DEF AsChosen, NotPrinted, TypeOK
  <2>4. AboutChoice'
    <3>1. But(ToWizMsg, {"ALLOWED", "FORMATTED", "PICTURES"}) \subseteq OfChoice(ToWizMsg)'
      BY DEF But, OfChoice, ToWizMsg, Messages, DaemonSays
    <3>2. toWiz' \in Seq(OfChoice(ToWizMsg))'
      BY <1>1, <2>2, <3>1, SeqMonotonic DEF Untouched
    <3> QED  BY <1>1, <2>1, <2>2, <3>2, EmptySeq DEF AboutChoice, Untouched
  <2>5. Untouched' /\ NothingAsked' /\ PrinterTold' /\ NotPrinted' /\ Unprepared'
    BY <1>1, <2>2 DEF AsChosen, Untouched, NothingAsked, PrinterTold, NotPrinted,
                      Unprepared, TypeOK
  <2> QED
    BY <2>3, <2>4, <2>5 DEF AsChosen, PrintedAsChecked, PrintFindsDocument
<1>2. ASSUME NEW p \in Printers, UserSelects(p)
      PROVE  AsChosen'
  BY <1>1, <1>2 DEF UserSelects
<1>3. ASSUME NEW c \in Cards, UserFillsCard(c)
      PROVE  AsChosen'
  BY <1>1, <1>3 DEF UserFillsCard
<1>4. ASSUME NEW m \in Modes, UserChoosesMode(m)
      PROVE  AsChosen'
  <2> DEFINE x == [type |-> "CREATE", card |-> card]
  <2>1. /\ page = 3 /\ page' = 3 /\ buttons /\ mode' = m /\ step' = (m = "print")
        /\ toGate' = Append(toGate, x)
        /\ UNCHANGED <<printer, card, mb, pictures, toWiz, toDaemon, fromDaemon, work,
                       queued, gkPrinter, handed>>
    BY <1>4 DEF UserChoosesMode
  <2>2. MayPrint
    BY <2>1 DEF AsChosen, Untouched
  <2>3. x \in ToGateMsg
    <3>1. card \in Cards
      BY <2>1 DEF TypeOK, Behind, WizardAssumption
    <3> QED  BY <3>1 DEF ToGateMsg
  <2>4. x \in OfChoice(ToGateMsg) /\ x \in But(ToGateMsg, {"PRINT"})
    BY <2>3 DEF OfChoice, But
  <2> HIDE DEF x
  <2>5. AboutChoice'
    <3>1. toGate' \in Seq(OfChoice(ToGateMsg))
      BY <2>1, <2>4, AppendProperties DEF AsChosen, AboutChoice
    <3>2. /\ OfChoice(ToGateMsg)' = OfChoice(ToGateMsg)
          /\ OfChoice(ToDaemonMsg)' = OfChoice(ToDaemonMsg)
          /\ OfChoice(ToWizMsg)' = OfChoice(ToWizMsg)
      BY <2>1 DEF OfChoice
    <3> QED  BY <2>1, <3>1, <3>2 DEF AsChosen, AboutChoice
  <2>6. NotPrinted' /\ handed' = {}
    <3>1. handed = {} /\ toGate \in Seq(But(ToGateMsg, {"PRINT"}))
      BY <2>1 DEF AsChosen, NotPrinted
    <3> QED  BY <2>1, <2>4, <3>1, AppendProperties DEF NotPrinted
  <2>7. PrinterTold'
    <3>1. toGate # <<>> => toGate' # <<>> /\ Head(toGate') = Head(toGate)
      BY <2>1, <2>3, HeadStays DEF TypeOK
    <3> QED  BY <2>1, <3>1 DEF AsChosen, PrinterTold, Authorise
  <2>8. NothingAsked' /\ MayPrint'
    BY <2>1, <2>2 DEF NothingAsked, MayPrint
  <2>9. Unprepared'
    <3>1. queued = None => toWiz \in Seq(But(ToWizMsg, {"FORMATTED"}))
      BY DEF AsChosen, Unprepared
    <3>2. m # "print" => step' = FALSE
      BY <2>1
    <3> QED  BY <2>1, <3>1, <3>2 DEF Unprepared
  <2> QED
    BY <2>5, <2>6, <2>7, <2>8, <2>9 DEF AsChosen, PrintedAsChecked, PrintFindsDocument
<1>5. CASE UserGoesOn
  <2>1. /\ EnableNext /\ page' = page + 1 /\ toGate' = toGate \o Sends
        /\ UNCHANGED <<printer, card, toWiz, toDaemon, fromDaemon, work, queued, pictures,
                       gkPrinter, auth, mb, buttons, step, mode, handed>>
    BY <1>5 DEF UserGoesOn
  <2>2. page \in 0 .. 4 /\ (page = 3 => step)
    <3>1. page = 5 => ~EnableNext
      BY DEF EnableNext
    <3>2. page = 3 => (EnableNext <=> step)
      BY DEF EnableNext
    <3> QED  BY <2>1, <3>1, <3>2 DEF TypeOK
  <2>3. CASE page \in {0, 1}
    <3>1. toGate' = toGate
      <4>1. Sends = <<>>
        BY <2>3 DEF Sends
      <4> QED  BY <2>1, <4>1, ConcatEmptySeq DEF TypeOK
    <3>2. ~MayPrint /\ ~MayPrint' /\ handed = {}
      BY <2>1, <2>3 DEF MayPrint, AsChosen, NotPrinted
    <3>3. AboutChoice'
      BY <2>1, <3>1 DEF AsChosen, AboutChoice, OfChoice
    <3> QED
      BY <2>1, <2>3, <3>1, <3>2, <3>3 DEF AsChosen, Untouched, NothingAsked, PrinterTold,
         NotPrinted, Unprepared, PrintedAsChecked, PrintFindsDocument
  <2>4. CASE page = 2
    <3> DEFINE y == [type |-> "IS_MB_EXIST", number |-> Number[card]]
    <3>1. toGate = <<>> /\ toDaemon = <<>> /\ Untouched /\ handed = {}
      BY <2>4 DEF AsChosen, NothingAsked, MayPrint, NotPrinted
    <3>2. toGate' = <<Authorise, y>>
      <4>1. Sends = <<Authorise, y>>
        BY <2>4 DEF Sends, Authorise
      <4>2. Sends \in Seq(NoCreate)
        BY <2>1, SendsTyped
      <4> QED  BY <2>1, <3>1, <4>1, <4>2, ConcatEmptySeq
    <3>3. Authorise \in ToGateMsg /\ y \in ToGateMsg
      <4>1. filled
        BY <2>1, <2>4 DEF EnableNext
      <4>2. card \in Cards /\ printer \in Printers
        BY <2>4, <4>1 DEF TypeOK, Behind
      <4> QED  BY <4>2 DEF Authorise, ToGateMsg, Numbers
    <3>4. Authorise \in OfChoice(ToGateMsg) /\ y \in OfChoice(ToGateMsg)
      BY <3>3 DEF Authorise, OfChoice
    <3>5. /\ Authorise \in But(ToGateMsg, {"CREATE", "PRINT"})
          /\ y \in But(ToGateMsg, {"CREATE", "PRINT"})
          /\ Authorise \in But(ToGateMsg, {"PRINT"}) /\ y \in But(ToGateMsg, {"PRINT"})
      BY <3>3 DEF Authorise, But
    <3>6. Authorise' = Authorise
      BY <2>1 DEF Authorise
    <3>7. /\ OfChoice(ToGateMsg)' = OfChoice(ToGateMsg)
          /\ OfChoice(ToDaemonMsg)' = OfChoice(ToDaemonMsg)
          /\ OfChoice(ToWizMsg)' = OfChoice(ToWizMsg)
      BY <2>1 DEF OfChoice
    <3> HIDE DEF y
    <3>8. AboutChoice'
      BY <2>1, <3>2, <3>4, <3>7 DEF AsChosen, AboutChoice
    <3>9. PrinterTold' /\ NothingAsked'
      <4>1. toGate' # <<>> /\ Head(toGate') = Authorise
        BY <3>2
      <4> QED
        BY <2>1, <2>4, <3>6, <4>1 DEF PrinterTold, NothingAsked
    <3>10. NotPrinted'
      <4>1. toGate' \in Seq(But(ToGateMsg, {"PRINT"}))
        BY <3>2, <3>5
      <4> QED  BY <2>1, <3>1, <4>1 DEF NotPrinted
    <3>11. Untouched'
      <4>1. toGate' \in Seq(But(ToGateMsg, {"CREATE", "PRINT"}))
        BY <3>2, <3>5
      <4> QED  BY <2>1, <2>4, <3>1, <4>1 DEF Untouched
    <3>12. Unprepared'
      BY <2>1, <2>4, <3>1 DEF Untouched, Unprepared, AsChosen
    <3> QED
      BY <2>1, <3>1, <3>8, <3>9, <3>10, <3>11, <3>12
         DEF AsChosen, PrintedAsChecked, PrintFindsDocument
  <2>5. CASE page = 3
    <3>1. toGate' = toGate
      <4>1. Sends = <<>>
        BY <2>5 DEF Sends
      <4> QED  BY <2>1, <4>1, ConcatEmptySeq DEF TypeOK
    <3>2. MayPrint /\ MayPrint' /\ handed = {}
      BY <2>1, <2>2, <2>5 DEF MayPrint, AsChosen, NotPrinted, Untouched
    <3>3. AboutChoice'
      BY <2>1, <3>1 DEF AsChosen, AboutChoice, OfChoice
    <3>4. Unprepared'
      BY <2>1, <2>2, <2>5 DEF AsChosen, Unprepared
    <3> QED
      BY <2>1, <2>5, <3>1, <3>2, <3>3, <3>4 DEF AsChosen, NothingAsked, PrinterTold,
         Authorise, NotPrinted, PrintedAsChecked, PrintFindsDocument
  <2>6. CASE page = 4
    <3> DEFINE z == Msg("PRINT")
    <3>1. toGate' = Append(toGate, z)
      <4>1. Sends = <<z>>
        BY <2>6 DEF Sends
      <4>2. z \in ToGateMsg
        BY DEF ToGateMsg, Messages, Msg
      <4> HIDE DEF z
      <4> QED  BY <2>1, <4>1, <4>2, AppendIsConcat DEF TypeOK
    <3>2. MayPrint /\ MayPrint' /\ handed = {}
      BY <2>1, <2>6 DEF MayPrint, AsChosen, NotPrinted, Untouched
    <3>3. z \in OfChoice(ToGateMsg)
      BY DEF OfChoice, ToGateMsg, Messages, Msg
    <3> HIDE DEF z
    <3>4. AboutChoice'
      <4>1. toGate' \in Seq(OfChoice(ToGateMsg))
        BY <3>1, <3>3, AppendProperties DEF AsChosen, AboutChoice
      <4>2. /\ OfChoice(ToGateMsg)' = OfChoice(ToGateMsg)
            /\ OfChoice(ToDaemonMsg)' = OfChoice(ToDaemonMsg)
            /\ OfChoice(ToWizMsg)' = OfChoice(ToWizMsg)
        BY <2>1 DEF OfChoice
      <4> QED  BY <2>1, <4>1, <4>2 DEF AsChosen, AboutChoice
    <3>5. PrinterTold'
      <4>1. toGate # <<>> => toGate' # <<>> /\ Head(toGate') = Head(toGate)
        <5>1. z \in ToGateMsg
          BY <3>3 DEF OfChoice
        <5> QED  BY <3>1, <5>1, HeadStays DEF TypeOK
      <4> QED  BY <2>1, <2>6, <4>1 DEF AsChosen, PrinterTold, Authorise
    <3>6. Unprepared' /\ NothingAsked' /\ NotPrinted'
      BY <2>1, <2>6 DEF AsChosen, Unprepared, NothingAsked, NotPrinted
    <3> QED
      BY <2>1, <3>2, <3>4, <3>5, <3>6 DEF AsChosen, PrintedAsChecked, PrintFindsDocument
  <2> QED  BY <2>2, <2>3, <2>4, <2>5, <2>6
<1>6. ~UserGoesBack /\ ~UserRestarts
  BY DEF UserGoesBack, UserRestarts, Detour, Straight
<1> QED  BY <1>2, <1>3, <1>4, <1>5, <1>6 DEF UserStep

LEMMA WizardAsChosen ==
  ASSUME TypeOK, Blank, AsChosen, Straight, Straight', WizardStep
  PROVE  AsChosen'
<1> DEFINE Flags == /\ ~MayPrint => ~auth' /\ ~buttons' /\ ~step' /\ pictures' = None
                    /\ (queued = None /\ mode # "print") => ~step'
                    /\ page <= PrintData => ~mb'
                    /\ pictures' \in {None, card}
           x == Register
<1>1. ASSUME NEW types, WizardTakes(types)
      PROVE  /\ Head(toWiz).type \in types
             /\ ~MayPrint => Head(toWiz).type \notin {"ALLOWED", "FORMATTED", "PICTURES"}
             /\ queued = None => Head(toWiz).type # "FORMATTED"
             /\ page <= PrintData => /\ Head(toWiz).type \notin DaemonSays
                                     /\ toWiz' \in Seq(But(ToWizMsg, DaemonSays))
             /\ ~MayPrint => toWiz' \in Seq(But(ToWizMsg, {"ALLOWED", "FORMATTED", "PICTURES"}))
             /\ queued = None => toWiz' \in Seq(But(ToWizMsg, {"FORMATTED"}))
             /\ Head(toWiz) \in OfChoice(ToWizMsg) /\ toWiz' \in Seq(OfChoice(ToWizMsg))
             /\ UNCHANGED <<page, printer, card, mode, server, net, handed>>
  <2>1. /\ toWiz # <<>> /\ toWiz' = Tail(toWiz) /\ Head(toWiz).type \in types
        /\ UNCHANGED <<page, printer, card, mode, server, net, handed>>
    BY <1>1 DEF WizardTakes, Heard
  <2>2. \A M : toWiz \in Seq(M) => Head(toWiz) \in M /\ toWiz' \in Seq(M)
    BY <2>1, HeadTailProperties
  <2>3. ~MayPrint => toWiz \in Seq(But(ToWizMsg, {"ALLOWED", "FORMATTED", "PICTURES"}))
    BY DEF AsChosen, Untouched
  <2>4. queued = None => toWiz \in Seq(But(ToWizMsg, {"FORMATTED"}))
    BY DEF AsChosen, Unprepared
  <2>5. page <= PrintData => toWiz \in Seq(But(ToWizMsg, DaemonSays))
    BY DEF AsChosen, NothingAsked
  <2>6. /\ ~MayPrint => Head(toWiz) \in But(ToWizMsg, {"ALLOWED", "FORMATTED", "PICTURES"})
        /\ queued = None => Head(toWiz) \in But(ToWizMsg, {"FORMATTED"})
        /\ page <= PrintData => Head(toWiz) \in But(ToWizMsg, DaemonSays)
    BY <2>2, <2>3, <2>4, <2>5
  <2>7. toWiz \in Seq(OfChoice(ToWizMsg))
    BY DEF AsChosen, AboutChoice
  <2> QED  BY <2>1, <2>2, <2>3, <2>4, <2>5, <2>6, <2>7 DEF But
<1>2. ASSUME NEW types, WizardTakes(types), Flags,
             \/ toGate' = toGate
             \/ page > PrintData /\ card \in Cards /\ toGate' = Append(toGate, x)
      PROVE  AsChosen'
  <2>1. /\ ~MayPrint => toWiz' \in Seq(But(ToWizMsg, {"ALLOWED", "FORMATTED", "PICTURES"}))
        /\ queued = None => toWiz' \in Seq(But(ToWizMsg, {"FORMATTED"}))
        /\ toWiz' \in Seq(OfChoice(ToWizMsg)) /\ pictures' \in {None, card}
        /\ UNCHANGED <<page, printer, card, mode, gkPrinter, queued, work, toDaemon,
                       fromDaemon, handed>>
    BY <1>1, <1>2 DEF server, net
  <2>2. card \in Cards =>
          x \in ToGateMsg /\ x.type = "REGISTER" /\ x.number = Number[card]
    BY DEF ToGateMsg, Register, Numbers
  <2>3. card \in Cards =>
        /\ x \in OfChoice(ToGateMsg) /\ x \in But(ToGateMsg, {"CREATE", "PRINT"})
        /\ x \in But(ToGateMsg, {"PRINT"})
    BY <2>2 DEF OfChoice, But
  <2> HIDE DEF x
  <2>4. \A M : (card \in Cards => x \in M) /\ toGate \in Seq(M) => toGate' \in Seq(M)
    BY <1>2, AppendProperties
  <2>5. AboutChoice'
    <3>1. /\ OfChoice(ToGateMsg)' = OfChoice(ToGateMsg)
          /\ OfChoice(ToDaemonMsg)' = OfChoice(ToDaemonMsg)
          /\ OfChoice(ToWizMsg)' = OfChoice(ToWizMsg)
      BY <2>1 DEF OfChoice
    <3> QED  BY <2>1, <2>3, <2>4, <3>1 DEF AsChosen, AboutChoice
  <2>6. NotPrinted'
    BY <2>1, <2>3, <2>4 DEF AsChosen, NotPrinted
  <2>7. Unprepared'
    BY <1>2, <2>1 DEF AsChosen, Unprepared
  <2>8. ~MayPrint' => Untouched'
    <3>1. MayPrint' <=> MayPrint
      BY <2>1 DEF MayPrint
    <3>2. ASSUME ~MayPrint PROVE toGate' \in Seq(But(ToGateMsg, {"CREATE", "PRINT"}))
      BY <2>3, <2>4, <3>2 DEF AsChosen, Untouched
    <3> QED  BY <1>2, <2>1, <3>1, <3>2 DEF AsChosen, Untouched
  <2>9. PrinterTold'
    <3>1. toGate # <<>> => toGate' # <<>> /\ Head(toGate') = Head(toGate)
      <4>1. CASE toGate' = toGate
        BY <4>1
      <4>2. CASE toGate' = Append(toGate, x)
        BY <2>2, <4>2, HeadStays DEF TypeOK
      <4> QED  BY <1>2, <4>1, <4>2
    <3> QED  BY <2>1, <3>1 DEF AsChosen, PrinterTold, Authorise
  <2>10. NothingAsked'
    BY <1>1, <1>2, <2>1 DEF AsChosen, NothingAsked, TypeOK, PrintData
  <2> HIDE DEF Flags
  <2> QED
    BY <2>1, <2>5, <2>6, <2>7, <2>8, <2>9, <2>10
       DEF AsChosen, PrintedAsChecked, PrintFindsDocument
<1> DEFINE Quietly(types) == WizardTakes(types) /\ Flags /\ toGate' = toGate
<1> HIDE DEF x
<1>3. /\ ~MayPrint => ~auth /\ ~buttons /\ ~step /\ pictures = None
      /\ queued = None /\ mode # "print" => ~step
      /\ page <= PrintData => ~mb
      /\ pictures \in {None, card}
  BY DEF AsChosen, Untouched, Unprepared, NothingAsked, AboutChoice
<1>4. CASE WizardConverted
  <2>1. Quietly({"CONVERTED"})
    BY <1>3, <1>4 DEF WizardConverted
  <2> QED  BY <1>2, <2>1
<1>5. CASE WizardCounted
  <2>1. Quietly({"PAGES"})
    BY <1>3, <1>5 DEF WizardCounted
  <2> QED  BY <1>2, <2>1
<1>6. CASE WizardAuthorised
  <2>1. WizardTakes({"ALLOWED", "DENIED"})
    BY <1>6 DEF WizardAuthorised
  <2>2. ~MayPrint => ~auth' /\ ~buttons'
    BY <1>1, <1>6, <2>1 DEF WizardAuthorised, Heard, Enable
  <2>3. Quietly({"ALLOWED", "DENIED"})
    BY <1>3, <1>6, <2>1, <2>2 DEF WizardAuthorised
  <2> QED  BY <1>2, <2>3
<1>7. CASE WizardMbChecked
  <2>1. WizardTakes({"BRAK", "NOT_BRAK", "REGISTERED"})
    BY <1>7 DEF WizardMbChecked
  <2>2. ~(page <= PrintData)
    BY <1>1, <2>1 DEF DaemonSays
  <2>3. Quietly({"BRAK", "NOT_BRAK", "REGISTERED"})
    BY <1>3, <1>7, <2>1, <2>2 DEF WizardMbChecked, Enable
  <2> QED  BY <1>2, <2>3
<1>8. CASE WizardRegistersMB
  <2>1. WizardTakes({"NOT_EXIST"}) /\ Flags /\ toGate' = Append(toGate, x)
    BY <1>3, <1>8 DEF WizardRegistersMB, x
  <2>2. page > PrintData
    <3>1. "NOT_EXIST" \in DaemonSays
      BY DEF DaemonSays
    <3>2. Head(toWiz).type = "NOT_EXIST"
      BY <1>1, <2>1
    <3>3. ~(page <= PrintData)
      BY <1>1, <2>1, <3>1, <3>2
    <3> QED  BY <3>3 DEF PrintData, TypeOK
  <2>3. card \in Cards
    <3>1. toWiz # <<>> /\ Head(toWiz).type = "NOT_EXIST"
      BY <1>8 DEF WizardRegistersMB, WizardTakes, Heard
    <3> QED  BY <3>1, AskedOfCard
  <2> QED  BY <1>2, <2>1, <2>2, <2>3
<1>9. CASE WizardFormatted
  <2>1. WizardTakes({"FORMATTED"})
    BY <1>9 DEF WizardFormatted
  <2>2. MayPrint /\ queued # None
    BY <1>1, <2>1
  <2>3. Quietly({"FORMATTED"})
    BY <1>3, <1>9, <2>1, <2>2 DEF WizardFormatted
  <2> QED  BY <1>2, <2>3
<1>10. CASE WizardShows
  <2>1. WizardTakes({"PICTURES"})
    BY <1>10 DEF WizardShows
  <2>2. MayPrint /\ Head(toWiz).card \in {None, card}
    <3>1. Head(toWiz).type = "PICTURES" /\ Head(toWiz) \in OfChoice(ToWizMsg)
      BY <1>1, <2>1
    <3> QED  BY <1>1, <2>1, <3>1 DEF OfChoice
  <2>3. Quietly({"PICTURES"})
    BY <1>3, <1>10, <2>1, <2>2 DEF WizardShows
  <2> QED  BY <1>2, <2>3
<1> QED  BY <1>4, <1>5, <1>6, <1>7, <1>8, <1>9, <1>10 DEF WizardStep

LEMMA GateAsChosen ==
  ASSUME WizardAssumption, TypeOK, AsChosen, Straight, Straight', GateStep
  PROVE  AsChosen'
<1> DEFINE h == Head(toGate)
<1>1. ASSUME NEW t, GateTakes(t)
      PROVE  /\ h.type = t /\ h \in ToGateMsg /\ h \in OfChoice(ToGateMsg)
             /\ page > PrintData
             /\ t # "AUTHOR_USER" => gkPrinter = printer
             /\ ~MayPrint => t # "CREATE"
             /\ t = "PRINT" => page = Finish
             /\ toGate' \in Seq(OfChoice(ToGateMsg))
             /\ ~MayPrint => toGate' \in Seq(But(ToGateMsg, {"CREATE", "PRINT"}))
             /\ page < Finish => toGate' \in Seq(But(ToGateMsg, {"PRINT"}))
             /\ UNCHANGED <<page, form, checks, fromDaemon>>
  <2>1. /\ toGate # <<>> /\ toGate' = Tail(toGate) /\ h.type = t
        /\ UNCHANGED <<page, form, checks, fromDaemon>>
    BY <1>1 DEF GateTakes
  <2>2. \A M : toGate \in Seq(M) => h \in M /\ toGate' \in Seq(M)
    BY <2>1, HeadTailProperties
  <2> HIDE DEF h
  <2>3. h \in ToGateMsg
    BY <2>2 DEF TypeOK
  <2>4. h \in OfChoice(ToGateMsg) /\ toGate' \in Seq(OfChoice(ToGateMsg))
    BY <2>2 DEF AsChosen, AboutChoice
  <2>5. ~MayPrint => /\ h \in But(ToGateMsg, {"CREATE", "PRINT"})
                     /\ toGate' \in Seq(But(ToGateMsg, {"CREATE", "PRINT"}))
    BY <2>2 DEF AsChosen, Untouched
  <2>6. page < Finish => /\ h \in But(ToGateMsg, {"PRINT"})
                         /\ toGate' \in Seq(But(ToGateMsg, {"PRINT"}))
    BY <2>2 DEF AsChosen, NotPrinted
  <2>7. page > PrintData
    BY <2>1 DEF AsChosen, NothingAsked, TypeOK, PrintData
  <2>8. t # "AUTHOR_USER" => gkPrinter = printer
    BY <2>1, <2>7 DEF AsChosen, PrinterTold, Authorise, h
  <2>9. page < Finish \/ page = Finish
    BY DEF TypeOK, Finish, Intro
  <2> QED  BY <2>1, <2>3, <2>4, <2>5, <2>6, <2>7, <2>8, <2>9 DEF But
<1>2. ASSUME NEW m \in ToDaemonMsg, ToDaemon(m), m \in OfChoice(ToGateMsg)
      PROVE  toDaemon' \in Seq(OfChoice(ToDaemonMsg))
  <2>1. m \in OfChoice(ToDaemonMsg) /\ toDaemon \in Seq(OfChoice(ToDaemonMsg))
    BY <1>2 DEF OfChoice, AsChosen, AboutChoice
  <2> QED  BY <1>2, <2>1, AppendProperties DEF ToDaemon
\* All but Print leave handed alone, and none says anything to the wizard.
<1>3. ASSUME NEW t, GateTakes(t), gkPrinter' = printer, UNCHANGED <<toWiz, queued>>,
             work' \in Seq({w \in Preparation : w.card = card}),
             toDaemon' \in Seq(OfChoice(ToDaemonMsg)),
             ~MayPrint => work' = work, page < Finish => handed' = handed,
             PrintedAsChecked', PrintFindsDocument'
      PROVE  AsChosen'
  <2>1. UNCHANGED <<page, printer, card, auth, mb, buttons, step, pictures, mode,
                    toWiz, fromDaemon, queued>>
    BY <1>1, <1>3 DEF form, checks
  <2>2. NothingAsked' /\ PrinterTold'
    BY <1>1, <1>3, <2>1 DEF NothingAsked, PrinterTold, PrintData, TypeOK
  <2>3. AboutChoice'
    <3>1. /\ OfChoice(ToGateMsg)' = OfChoice(ToGateMsg)
          /\ OfChoice(ToDaemonMsg)' = OfChoice(ToDaemonMsg)
          /\ OfChoice(ToWizMsg)' = OfChoice(ToWizMsg)
      BY <2>1 DEF OfChoice
    <3>2. toGate' \in Seq(OfChoice(ToGateMsg))
      BY <1>1, <1>3
    <3> QED  BY <1>3, <2>1, <3>1, <3>2 DEF AsChosen, AboutChoice
  <2>4. NotPrinted'
    <3>1. page < Finish => toGate' \in Seq(But(ToGateMsg, {"PRINT"}))
      BY <1>1, <1>3
    <3> QED  BY <1>3, <2>1, <3>1 DEF AsChosen, NotPrinted
  <2>5. Unprepared'
    BY <2>1 DEF AsChosen, Unprepared
  <2>6. ~MayPrint' => Untouched'
    <3>1. ~MayPrint => toGate' \in Seq(But(ToGateMsg, {"CREATE", "PRINT"}))
      BY <1>1, <1>3
    <3> QED  BY <1>3, <2>1, <3>1 DEF AsChosen, Untouched, MayPrint
  <2> QED  BY <1>3, <2>2, <2>3, <2>4, <2>5, <2>6 DEF AsChosen
<1>4. ASSUME NEW t, GateTakes(t), UNCHANGED handed
      PROVE  PrintedAsChecked' /\ PrintFindsDocument'
  <2>1. UNCHANGED <<printer, card, mode>>
    BY <1>1, <1>4 DEF form, checks
  <2> QED  BY <1>4, <2>1 DEF AsChosen, PrintedAsChecked, PrintFindsDocument
<1>5. /\ work \in Seq({w \in Preparation : w.card = card})
      /\ toDaemon \in Seq(OfChoice(ToDaemonMsg))
  BY DEF AsChosen, AboutChoice
<1> HIDE DEF h
<1> USE DEF server
<1>6. CASE GateAuthorises
  <2>1. GateTakes("AUTHOR_USER") /\ gkPrinter' = h.printer /\ ToDaemon(h)
        /\ UNCHANGED <<queued, work, toWiz, handed>>
    BY <1>6 DEF GateAuthorises, h
  <2>2. h \in OfChoice(ToGateMsg) /\ h \in ToGateMsg /\ h.type = "AUTHOR_USER"
    BY <1>1, <2>1
  <2>3. h \in [type : {"AUTHOR_USER"}, printer : Printers]
    BY <2>2 DEF ToGateMsg, Messages
  <2>4. h \in ToDaemonMsg /\ h.printer = printer
    BY <2>2, <2>3 DEF ToDaemonMsg, OfChoice
  <2>5. toDaemon' \in Seq(OfChoice(ToDaemonMsg))
    BY <1>2, <2>1, <2>2, <2>4
  <2> QED  BY <1>3, <1>4, <1>5, <2>1, <2>4, <2>5
<1>7. CASE GateForwards
  <2>1. PICK t \in {"IS_MB_EXIST", "REGISTER"} : GateTakes(t)
    BY <1>7 DEF GateForwards
  <2>2. ToDaemon(h) /\ UNCHANGED <<gkPrinter, queued, work, toWiz, handed>>
    BY <1>7 DEF GateForwards, h
  <2>3. h \in OfChoice(ToGateMsg) /\ h \in ToGateMsg /\ h.type = t /\ gkPrinter = printer
    BY <1>1, <2>1
  <2>4. h \in ToDaemonMsg
    BY <2>3 DEF ToGateMsg, ToDaemonMsg, Messages
  <2>5. toDaemon' \in Seq(OfChoice(ToDaemonMsg))
    BY <1>2, <2>2, <2>3, <2>4
  <2> QED  BY <1>3, <1>4, <1>5, <2>1, <2>2, <2>3, <2>5
<1>8. CASE GateFormats
  <2> DEFINE m == [card |-> h.card, shown |-> FALSE, cleared |-> FALSE]
  <2>1. /\ GateTakes("CREATE") /\ work' = Append(work, m)
        /\ UNCHANGED <<gkPrinter, queued, toDaemon, toWiz, handed>>
    BY <1>8 DEF GateFormats, h
  <2>2. /\ h \in OfChoice(ToGateMsg) /\ h \in ToGateMsg /\ h.type = "CREATE"
        /\ gkPrinter = printer /\ MayPrint
    BY <1>1, <2>1
  <2>3. h.card \in Cards /\ h.card = card
    BY <2>2 DEF ToGateMsg, Messages, OfChoice
  <2>4. m \in {w \in Preparation : w.card = card}
    BY <2>3 DEF Preparation
  <2> HIDE DEF m
  <2>5. work' \in Seq({w \in Preparation : w.card = card})
    BY <1>5, <2>1, <2>4, AppendProperties
  <2> QED  BY <1>3, <1>4, <1>5, <2>1, <2>2, <2>5
<1>9. CASE GatePrints
  <2>1. /\ GateTakes("PRINT") /\ handed' = handed \cup {<<gkPrinter, queued>>}
        /\ UNCHANGED <<gkPrinter, queued, work, toDaemon, toWiz>>
    BY <1>9 DEF GatePrints
  <2>2. page = Finish /\ gkPrinter = printer
    BY <1>1, <2>1
  <2>3. printer \in Allowed
    BY <2>2 DEF AsChosen, Untouched, MayPrint, Finish, CheckData
  <2>4. queued \in {None, card} /\ (mode # "print" => queued # None)
    BY <2>2 DEF AsChosen, AboutChoice, Unprepared, Finish, CheckData
  <2>5. UNCHANGED <<printer, card, mode>>
    BY <1>1, <2>1 DEF form, checks
  <2>6. PrintedAsChecked'
    <3>1. \A e \in handed : e[1] = printer /\ e[1] \in Allowed /\ e[2] \in {None, card}
      BY DEF AsChosen, PrintedAsChecked
    <3> QED  BY <2>1, <2>2, <2>3, <2>4, <2>5, <3>1 DEF PrintedAsChecked
  <2>7. PrintFindsDocument'
    <3>1. mode # "print" => \A e \in handed : e[2] # None
      BY DEF AsChosen, PrintFindsDocument
    <3> QED  BY <2>1, <2>4, <2>5, <3>1 DEF PrintFindsDocument
  <2> QED  BY <1>3, <1>5, <2>1, <2>2, <2>6, <2>7 DEF Finish
<1>10. ~GateRestarts
  <2>1. ASSUME GateTakes("RESTART") PROVE FALSE
    <3>1. h \in OfChoice(ToGateMsg) /\ h.type = "RESTART"
      BY <1>1, <2>1
    <3> QED  BY <3>1 DEF OfChoice
  <2> QED  BY <2>1 DEF GateRestarts
<1> QED  BY <1>6, <1>7, <1>8, <1>9, <1>10 DEF GateStep

LEMMA JobAsChosen ==
  ASSUME WizardAssumption, TypeOK, AsChosen, Straight, Straight', JobStep
  PROVE  AsChosen'
<1> DEFINE About == {w \in Preparation : w.card = card}
<1>1. /\ work \in Seq(About) /\ queued \in {None, card} /\ pictures \in {None, card}
      /\ \A i \in DOMAIN work : work[i] \in About /\ Without(work, i) \in Seq(About)
  <2>1. work \in Seq(About) /\ {queued, pictures} \subseteq {None, card}
    BY DEF AsChosen, AboutChoice
  <2> HIDE DEF About
  <2> QED  BY <2>1, WithoutTyped
<1>2. ASSUME UNCHANGED JobsElse, work' \in Seq(About), queued' \in {None, card},
             ~MayPrint => work' = <<>> /\ queued' = None,
             queued' = None => queued = None,
             \/ UNCHANGED toWiz
             \/ \E m \in ToWizMsg :
                  /\ Say(m) /\ m.type \notin DaemonSays
                  /\ m.type = "FORMATTED" => MayPrint /\ queued' # None
                  /\ m.type = "PICTURES" => MayPrint /\ m.card \in {None, card}
      PROVE  AsChosen'
  <2>1. UNCHANGED <<page, printer, card, auth, mb, buttons, step, pictures, mode,
                    gkPrinter, toGate, toDaemon, fromDaemon, handed>>
    BY <1>2 DEF JobsElse, form, checks, net
  <2> DEFINE Tidy ==
        /\ ~MayPrint => toWiz' \in Seq(But(ToWizMsg, {"ALLOWED", "FORMATTED", "PICTURES"}))
        /\ queued' = None => toWiz' \in Seq(But(ToWizMsg, {"FORMATTED"}))
        /\ page <= PrintData => toWiz' \in Seq(But(ToWizMsg, DaemonSays))
        /\ toWiz' \in Seq(OfChoice(ToWizMsg))
  <2>2. Tidy
    <3>1. /\ ~MayPrint => toWiz \in Seq(But(ToWizMsg, {"ALLOWED", "FORMATTED", "PICTURES"}))
          /\ queued' = None => toWiz \in Seq(But(ToWizMsg, {"FORMATTED"}))
          /\ page <= PrintData => toWiz \in Seq(But(ToWizMsg, DaemonSays))
          /\ toWiz \in Seq(OfChoice(ToWizMsg))
      BY <1>2 DEF AsChosen, Untouched, Unprepared, NothingAsked, AboutChoice
    <3>2. CASE UNCHANGED toWiz
      BY <3>1, <3>2
    <3>3. ASSUME NEW m \in ToWizMsg, Say(m), m.type \notin DaemonSays,
                 m.type = "FORMATTED" => MayPrint /\ queued' # None,
                 m.type = "PICTURES" => MayPrint /\ m.card \in {None, card}
          PROVE  Tidy
      <4>1. toWiz' = Append(toWiz, m)
        BY <3>3 DEF Say
      <4>2. /\ ~MayPrint => m \in But(ToWizMsg, {"ALLOWED", "FORMATTED", "PICTURES"})
            /\ queued' = None => m \in But(ToWizMsg, {"FORMATTED"})
            /\ m \in But(ToWizMsg, DaemonSays) /\ m \in OfChoice(ToWizMsg)
        BY <3>3 DEF But, OfChoice, ToWizMsg, Messages, DaemonSays
      <4> QED  BY <3>1, <4>1, <4>2, AppendProperties
    <3> QED  BY <1>2, <3>2, <3>3
  <2>3. NothingAsked' /\ PrinterTold' /\ NotPrinted'
    BY <2>1, <2>2 DEF AsChosen, NothingAsked, PrinterTold, Authorise, NotPrinted
  <2>4. AboutChoice'
    <3>1. /\ OfChoice(ToGateMsg)' = OfChoice(ToGateMsg)
          /\ OfChoice(ToDaemonMsg)' = OfChoice(ToDaemonMsg)
          /\ OfChoice(ToWizMsg)' = OfChoice(ToWizMsg)
      BY <2>1 DEF OfChoice
    <3> QED  BY <1>2, <2>1, <2>2, <3>1 DEF AsChosen, AboutChoice
  <2>5. Unprepared'
    BY <1>2, <2>1, <2>2 DEF AsChosen, Unprepared
  <2>6. ~MayPrint' => Untouched'
    BY <1>2, <2>1, <2>2 DEF AsChosen, Untouched, MayPrint
  <2> QED
    BY <2>1, <2>3, <2>4, <2>5, <2>6 DEF AsChosen, PrintedAsChecked, PrintFindsDocument
<1>3. ~MayPrint => work = <<>> /\ queued = None
  BY DEF AsChosen, Untouched
<1>4. \A t \in {"CONVERTED", "PAGES"} :
        /\ Msg(t) \in ToWizMsg /\ Msg(t).type \notin DaemonSays
        /\ Msg(t).type \notin {"FORMATTED", "PICTURES"}
  BY DEF Msg, ToWizMsg, Messages, DaemonSays
<1>5. CASE DocConverted
  <2>1. UNCHANGED <<JobsElse, queued, work>> /\ (Say(Msg("CONVERTED")) \/ UNCHANGED toWiz)
    BY <1>5 DEF DocConverted
  <2> HIDE DEF About
  <2> QED  BY <1>1, <1>2, <1>3, <1>4, <2>1
<1>6. CASE DocReady4work
  <2>1. UNCHANGED <<JobsElse, queued, work>> /\ (Say(Msg("PAGES")) \/ UNCHANGED toWiz)
    BY <1>6 DEF DocReady4work
  <2> HIDE DEF About
  <2> QED  BY <1>1, <1>2, <1>3, <1>4, <2>1
<1>7. ASSUME NEW i \in DOMAIN work
      PROVE  /\ MayPrint
             /\ work[i].card = card /\ work[i].card \in Cards
             /\ work[i] \in About /\ Without(work, i) \in Seq(About)
  <2>1. work[i] \in About /\ Without(work, i) \in Seq(About)
    BY <1>1
  <2>2. work # <<>>
    <3>1. DOMAIN work = 1 .. Len(work)
      BY <1>1, LenProperties
    <3> QED  BY <3>1
  <2> QED  BY <1>3, <2>1, <2>2 DEF Preparation
<1> HIDE DEF About
<1>8. ASSUME NEW i \in DOMAIN work, DocReady4preview(i)
      PROVE  AsChosen'
  <2> DEFINE e == [work[i] EXCEPT !.shown = TRUE]
  <2>1. PICK c \in {None, card} : Say([type |-> "PICTURES", card |-> c])
    BY <1>7, <1>8 DEF DocReady4preview
  <2> DEFINE m == [type |-> "PICTURES", card |-> c]
  <2>2. /\ m \in ToWizMsg /\ m.type \notin DaemonSays /\ m.type # "FORMATTED" /\ Say(m)
        /\ m.card \in {None, card} /\ m.type = "PICTURES"
    <3>1. c \in AnyCard
      BY <2>1 DEF TypeOK
    <3> QED  BY <2>1, <3>1 DEF ToWizMsg, DaemonSays
  <2>3. work' \in Seq(About)
    <3>1. e \in About
      <4>1. work[i] \in Preparation /\ work[i].card = card
        BY <1>7 DEF About
      <4>2. e \in Preparation /\ e.card = work[i].card
        BY <4>1 DEF Preparation
      <4> HIDE DEF e
      <4> QED  BY <4>1, <4>2 DEF About
    <3>2. work' = [work EXCEPT ![i] = e]
      BY <1>8 DEF DocReady4preview
    <3>3. i \in 1 .. Len(work)
      BY <1>1, LenProperties
    <3> HIDE DEF e
    <3> QED  BY <1>1, <3>1, <3>2, <3>3, ExceptSeq
  <2>4. UNCHANGED <<JobsElse, queued>>
    BY <1>8 DEF DocReady4preview
  <2> HIDE DEF m
  <2> QED  BY <1>1, <1>2, <1>7, <2>2, <2>3, <2>4
<1>9. ASSUME NEW i \in DOMAIN work, DocReady4print(i)
      PROVE  AsChosen'
  <2>1. /\ work' = Without(work, i) /\ queued' = work[i].card /\ Say(Msg("FORMATTED"))
        /\ UNCHANGED JobsElse
    BY <1>9 DEF DocReady4print
  <2>2. /\ Msg("FORMATTED") \in ToWizMsg /\ Msg("FORMATTED").type \notin DaemonSays
        /\ Msg("FORMATTED").type # "PICTURES"
    BY DEF Msg, ToWizMsg, Messages, DaemonSays
  <2>3. queued' # None /\ queued' = card
    <3>1. work[i].card = card /\ work[i].card \in Cards
      BY <1>7
    <3> QED  BY <2>1, <3>1
  <2> QED  BY <1>2, <1>7, <2>1, <2>2, <2>3
<1>10. ASSUME NEW i \in DOMAIN work, WorkIsLost(i)
       PROVE  AsChosen'
  <2>1. work' = Without(work, i) /\ UNCHANGED <<JobsElse, toWiz, queued>>
    BY <1>10 DEF WorkIsLost
  <2> QED  BY <1>1, <1>2, <1>7, <2>1
<1> QED  BY <1>5, <1>6, <1>8, <1>9, <1>10 DEF JobStep

LEMMA DaemonAsChosen ==
  ASSUME TypeOK, AsChosen, Straight, Straight', DaemonStep \/ LinkLost
  PROVE  AsChosen'
<1> DEFINE Back == But(Messages(DaemonSays), {"ALLOWED"})
<1>1. ASSUME UNCHANGED <<page, form, checks, server, toGate, handed>>,
             toDaemon' \in Seq(OfChoice(ToDaemonMsg)),
             page <= PrintData => toDaemon' = <<>> /\ fromDaemon' = <<>>,
             ~MayPrint => fromDaemon' \in Seq(Back),
             ~MayPrint => toWiz' \in Seq(But(ToWizMsg, {"ALLOWED", "FORMATTED", "PICTURES"})),
             queued = None => toWiz' \in Seq(But(ToWizMsg, {"FORMATTED"})),
             toWiz' \in Seq(OfChoice(ToWizMsg)),
             page <= PrintData => toWiz' = toWiz
      PROVE  AsChosen'
  <2>1. UNCHANGED <<page, printer, card, auth, mb, buttons, step, pictures, mode,
                    gkPrinter, toGate, queued, work, handed>>
    BY <1>1 DEF form, checks, server
  <2>2. NothingAsked' /\ PrinterTold' /\ NotPrinted'
    BY <1>1, <2>1 DEF AsChosen, NothingAsked, PrinterTold, Authorise, NotPrinted
  <2>3. AboutChoice'
    <3>1. /\ OfChoice(ToGateMsg)' = OfChoice(ToGateMsg)
          /\ OfChoice(ToDaemonMsg)' = OfChoice(ToDaemonMsg)
          /\ OfChoice(ToWizMsg)' = OfChoice(ToWizMsg)
      BY <2>1 DEF OfChoice
    <3> QED  BY <1>1, <2>1, <3>1 DEF AsChosen, AboutChoice
  <2>4. Unprepared'
    BY <1>1, <2>1 DEF AsChosen, Unprepared
  <2>5. ~MayPrint' => Untouched'
    BY <1>1, <2>1 DEF AsChosen, Untouched, MayPrint
  <2> QED
    BY <2>1, <2>2, <2>3, <2>4, <2>5 DEF AsChosen, PrintedAsChecked, PrintFindsDocument
<1>2. /\ toDaemon \in Seq(OfChoice(ToDaemonMsg))
      /\ page <= PrintData => toDaemon = <<>> /\ fromDaemon = <<>>
      /\ ~MayPrint => fromDaemon \in Seq(Back)
      /\ ~MayPrint => toWiz \in Seq(But(ToWizMsg, {"ALLOWED", "FORMATTED", "PICTURES"}))
      /\ queued = None => toWiz \in Seq(But(ToWizMsg, {"FORMATTED"}))
      /\ toWiz \in Seq(OfChoice(ToWizMsg))
  BY DEF AsChosen, AboutChoice, NothingAsked, Untouched, Unprepared
<1>3. CASE GateReceivesAnswer
  <2> DEFINE a == Head(fromDaemon)
  <2>1. /\ fromDaemon # <<>> /\ fromDaemon' = Tail(fromDaemon)
        /\ toWiz' = Append(toWiz, a)
        /\ UNCHANGED <<page, form, checks, server, toGate, toDaemon, handed>>
    BY <1>3 DEF GateReceivesAnswer, Say
  <2>2. a \in Messages(DaemonSays) /\ (~MayPrint => a \in Back /\ fromDaemon' \in Seq(Back))
    BY <1>2, <2>1, HeadTailProperties DEF TypeOK
  <2>3. /\ a \in But(ToWizMsg, {"FORMATTED"})
        /\ ~MayPrint => a \in But(ToWizMsg, {"ALLOWED", "FORMATTED", "PICTURES"})
        /\ a \in OfChoice(ToWizMsg)
    BY <2>2 DEF But, OfChoice, ToWizMsg, Messages, DaemonSays
  <2> HIDE DEF a
  <2>4. /\ ~MayPrint => toWiz' \in Seq(But(ToWizMsg, {"ALLOWED", "FORMATTED", "PICTURES"}))
        /\ queued = None => toWiz' \in Seq(But(ToWizMsg, {"FORMATTED"}))
        /\ toWiz' \in Seq(OfChoice(ToWizMsg))
    BY <1>2, <2>1, <2>3, AppendProperties
  <2>5. page > PrintData /\ ~(page <= PrintData)
    BY <1>2, <2>1 DEF TypeOK, PrintData
  <2> HIDE DEF Back
  <2> QED  BY <1>1, <1>2, <2>1, <2>2, <2>4, <2>5
<1>4. ASSUME NEW i \in DOMAIN toDaemon, DaemonAnswers(i)
      PROVE  AsChosen'
  <2> DEFINE q == toDaemon[i]
             r == Reply(q)
  <2>1. /\ fromDaemon' = Append(fromDaemon, r) /\ toDaemon' = Without(toDaemon, i)
        /\ UNCHANGED DaemonElse
    BY <1>4 DEF DaemonAnswers, Reply, Known
  <2>2. q \in OfChoice(ToDaemonMsg) /\ toDaemon' \in Seq(OfChoice(ToDaemonMsg))
    BY <1>2, <2>1, WithoutTyped
  <2>3. page > PrintData /\ ~(page <= PrintData)
    <3>1. toDaemon # <<>>
      <4>1. DOMAIN toDaemon = 1 .. Len(toDaemon)
        BY <1>2, LenProperties
      <4> QED  BY <4>1
    <3> QED  BY <1>2, <3>1 DEF TypeOK, PrintData
  <2>4. r \in Messages(DaemonSays)
    BY ReplyTyped
  <2>5. ~MayPrint => r.type # "ALLOWED"
    <3>1. CASE q.type = "AUTHOR_USER"
      <4>1. q.printer = printer
        BY <2>2, <3>1 DEF OfChoice
      <4> QED  BY <2>3, <3>1, <4>1 DEF Reply, Msg, MayPrint
    <3>2. CASE q.type = "REGISTER"
      BY <3>2 DEF Reply, Msg
    <3>3. CASE q.type \notin {"AUTHOR_USER", "REGISTER"}
      BY <3>3 DEF Reply, Known, Msg
    <3> QED  BY <3>1, <3>2, <3>3
  <2> HIDE DEF q, r
  <2>6. ~MayPrint => fromDaemon' \in Seq(Back)
    <3>1. ~MayPrint => r \in Back
      BY <2>4, <2>5 DEF But
    <3> HIDE DEF Back
    <3> QED  BY <1>2, <2>1, <3>1, AppendProperties
  <2>7. UNCHANGED <<page, form, checks, server, toGate, toWiz, handed>>
    BY <2>1 DEF DaemonElse
  <2> HIDE DEF Back
  <2> QED  BY <1>1, <1>2, <2>1, <2>2, <2>3, <2>6, <2>7
<1>5. CASE LinkLost
  <2>1. /\ toDaemon' = <<>> /\ fromDaemon' = <<>> /\ UNCHANGED DaemonElse
    BY <1>5 DEF LinkLost
  <2>2. UNCHANGED <<page, form, checks, server, toGate, toWiz, handed>>
    BY <2>1 DEF DaemonElse
  <2> HIDE DEF Back
  <2> QED  BY <1>1, <1>2, <2>1, <2>2, EmptySeq
<1> QED  BY <1>3, <1>4, <1>5 DEF DaemonStep

\* Going straight on, the user has not gone back before.
LEMMA StraightBefore ==
  ASSUME WizardAssumption, TypeOK, Straight', [Next]_vars
  PROVE  Straight
<1>1. detours' = detours \/ detours' = detours + 1
  BY DEF Next, UserSelects, UserChoosesMode, UserFillsCard, UserGoesOn,
         UserGoesBack, UserRestarts, Detour, WizardStep, WizardConverted,
         WizardCounted, WizardAuthorised, WizardMbChecked, WizardRegistersMB,
         WizardFormatted, WizardShows, WizardTakes, GateStep, GateAuthorises,
         GateForwards, GateFormats, GatePrints, GateRestarts, GateTakes,
         JobStep, DocConverted, DocReady4work, DocReady4preview,
         DocReady4print, WorkIsLost, JobsElse, DaemonStep, DaemonAnswers,
         DaemonElse, GateReceivesAnswer, LinkLost, vars
<1> QED  BY <1>1 DEF Straight, TypeOK, WizardAssumption

LEMMA StepAsChosen ==
  ASSUME WizardAssumption, TypeOK, Behind, Blank, Straight => AsChosen, [Next]_vars
  PROVE  Straight' => AsChosen'
<1> SUFFICES ASSUME Straight' PROVE AsChosen'
  OBVIOUS
<1>1. Straight
  BY StraightBefore
<1>2. AsChosen
  BY <1>1
<1>3. CASE UNCHANGED vars
  BY <1>2, <1>3 DEF vars, form, checks, server, net, AsChosen, NothingAsked,
     PrinterTold, AboutChoice, OfChoice, Authorise, NotPrinted, Unprepared, MayPrint,
     Untouched, PrintedAsChecked, PrintFindsDocument, Straight
<1>4. CASE Next
  BY <1>1, <1>2, <1>4, UserAsChosen, WizardAsChosen, GateAsChosen, JobAsChosen,
     DaemonAsChosen DEF Next, UserStep
<1> QED  BY <1>3, <1>4

-----------------------------------------------------------------------------
LEMMA Inductive == Spec => []Inv
<1>1. Init => Inv
  <2> SUFFICES ASSUME Init PROVE Inv
    OBVIOUS
  <2> USE WizardAssumption
  <2>1. TypeOK
    <3>1. /\ toGate \in Seq(ToGateMsg) /\ toWiz \in Seq(ToWizMsg)
          /\ toDaemon \in Seq(ToDaemonMsg) /\ fromDaemon \in Seq(Messages(DaemonSays))
          /\ work \in Seq(Preparation)
      BY EmptySeq DEF Init
    <3>2. {MaxFills, MaxFaults, MaxDetours} \subseteq Nat
      BY DEF WizardAssumption
    <3>3. {filled, converted, counted, auth, mb, buttons, step, converting, left, link}
            \subseteq BOOLEAN
      BY DEF Init
    <3>4. page \in 0 .. 5 /\ card \in AnyCard /\ fills \in 0 .. MaxFills
      BY <3>2 DEF Init, Intro
    <3>5. base \in [Numbers -> {"absent", "registered", "spoilt", "kept"}]
      BY DEF Init, WizardAssumption
    <3> QED
      BY <3>1, <3>2, <3>3, <3>4, <3>5 DEF Init, TypeOK, Intro, Finish, Preparation
  <2>2. Behind /\ Blank /\ Quiet
    BY EmptySeq DEF Init, Behind, Blank, Quiet, Intro, Select, PrintData
  <2>3. AsChosen
    BY EmptySeq DEF Init, AsChosen, NothingAsked, PrinterTold, AboutChoice, NotPrinted,
       Unprepared, Untouched, PrintedAsChecked, PrintFindsDocument, Intro, PrintData,
       CheckData, Finish
  <2> QED  BY <2>1, <2>2, <2>3 DEF Inv
<1>2. Inv /\ [Next]_vars => Inv'
  <2> SUFFICES ASSUME Inv, [Next]_vars PROVE Inv'
    OBVIOUS
  <2>1. TypeOK' /\ Behind' /\ Blank'
    BY WizardAssumption, StepTyped, StepBlank DEF Inv
  <2>2. ~InBase' => Quiet'
    BY WizardAssumption, StepQuiet
  <2>3. Straight' => AsChosen'
    BY WizardAssumption, StepAsChosen DEF Inv
  <2>4. ASSUME Straight', ~Usable(card)' PROVE Quiet'
    BY <2>4, WizardAssumption, StraightBefore, StepAsksOfCard DEF Inv
  <2> QED  BY <2>1, <2>2, <2>3, <2>4 DEF Inv
<1> QED  BY <1>1, <1>2, PTL DEF Spec

\* The wizard's pages, the messages and the preparations are well typed: no
\* page is reached, and nothing sent, without what it needs to be filled in.
THEOREM WizardIsTyped == Spec => []TypeOK
<1>1. Inv => TypeOK
  BY DEF Inv
<1> QED  BY <1>1, Inductive, PTL

\* In whatever order answers come, nothing is laid over a template while the base
\* has no document registered or spoilt, however often the user goes back or
\* starts over; as long as he goes straight on, nothing is unless the base has
\* the number and the copy of its own card.
THEOREM BaseComesFirst == Spec => []RegisteredBeforePrepared
<1>1. Inv => RegisteredBeforePrepared
  <2> SUFFICES ASSUME Inv PROVE RegisteredBeforePrepared
    OBVIOUS
  <2>1. Quiet => Prepared = {}
    <3>1. work = <<>> => DOMAIN work = {}
      BY EmptySeq, LenProperties
    <3> QED  BY <3>1 DEF Quiet, Prepared
  <2>2. ASSUME Straight PROVE Prepared \subseteq {card}
    <3>1. /\ {queued, pictures} \subseteq {None, card}
          /\ work \in Seq({w \in Preparation : w.card = card})
      BY <2>2 DEF Inv, AsChosen, AboutChoice
    <3>2. \A i \in DOMAIN work : work[i].card = card
      <4>1. \A i \in DOMAIN work : work[i] \in {w \in Preparation : w.card = card}
        BY <3>1, WithoutTyped
      <4> QED  BY <4>1
    <3> QED  BY <3>1, <3>2 DEF Prepared
  <2>3. Prepared # {} => \E c \in Cards : Usable(c)
    BY <2>1 DEF Inv, InBase
  <2>4. ASSUME Straight, NEW c \in Prepared PROVE Usable(c)
    BY <2>1, <2>2, <2>4 DEF Inv
  <2> QED  BY <2>3, <2>4 DEF RegisteredBeforePrepared
<1> QED  BY <1>1, Inductive, PTL

\* The user who goes straight on prints on the printer he chose, which the daemon
\* allowed, the pages of the card in the form: no answer that is late, and no
\* order of the messages between the three programs, makes Print hand over
\* anything else.
THEOREM PrintedWasChecked == Spec => []PrintedAsChecked
<1>1. Inv => PrintedAsChecked
  BY DEF Inv, AsChosen, PrintedAsChecked
<1> QED  BY <1>1, Inductive, PTL

\* As long as the user goes straight on, with a preview, the button Print is not
\* free before the print queue is filled.
THEOREM PrintFinds == Spec => []PrintFindsDocument
<1>1. Inv => PrintFindsDocument
  BY DEF Inv, AsChosen, PrintFindsDocument
<1> QED  BY <1>1, Inductive, PTL
=============================================================================
