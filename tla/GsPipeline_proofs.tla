-------------------------- MODULE GsPipeline_proofs --------------------------
(***************************************************************************)
(* What holds of the pipeline for every template, every document, every    *)
(* number of preparations and restarts, and every fault: jobs have their   *)
(* entries, nothing is converted when a document is announced for          *)
(* printing, and the preview is announced before.                          *)
(***************************************************************************)
EXTENDS GsPipeline, FiniteSetTheorems, TLAPS

(***************************************************************************)
(* Counting the jobs of one kind.                                          *)
(***************************************************************************)
Of(S, k) == {j \in S : j.kind = k}

LEMMA OfFinite ==
  ASSUME NEW S, IsFiniteSet(S), NEW k
  PROVE  IsFiniteSet(Of(S, k)) /\ Cardinality(Of(S, k)) \in Nat
<1>1. Of(S, k) \in SUBSET S
  BY DEF Of
<1> QED  BY <1>1, FS_Subset, FS_CardinalityType

\* A job that ends is one less of its kind.
LEMMA EndOne ==
  ASSUME NEW S, IsFiniteSet(S), NEW j \in S, NEW k
  PROVE  /\ IsFiniteSet(S \ {j})
         /\ Cardinality(Of(S \ {j}, k)) =
              Cardinality(Of(S, k)) - (IF j.kind = k THEN 1 ELSE 0)
<1>1. IsFiniteSet(S \ {j})
  BY FS_RemoveElement
<1>2. /\ IsFiniteSet(Of(S, k))
      /\ Cardinality(Of(S, k)) \in Nat
  BY OfFinite
<1>3. Of(S \ {j}, k) = Of(S, k) \ {j}
  BY DEF Of
<1>4. j \in Of(S, k) <=> j.kind = k
  BY DEF Of
<1>5. Cardinality(Of(S, k) \ {j}) =
        IF j \in Of(S, k) THEN Cardinality(Of(S, k)) - 1 ELSE Cardinality(Of(S, k))
  BY <1>2, FS_RemoveElement
<1>6. CASE j.kind = k
  BY <1>1, <1>2, <1>3, <1>4, <1>5, <1>6
<1>7. CASE j.kind # k
  BY <1>1, <1>2, <1>3, <1>4, <1>5, <1>7
<1> QED  BY <1>6, <1>7

\* Jobs that are started add no more than their number.
LEMMA StartMore ==
  ASSUME NEW S, IsFiniteSet(S), NEW N, IsFiniteSet(N), NEW k
  PROVE  /\ IsFiniteSet(S \cup N)
         /\ Cardinality(Of(S \cup N, k)) <=
              Cardinality(Of(S, k)) + Cardinality(Of(N, k))
<1>1. IsFiniteSet(S \cup N)
  BY FS_Union
<1> DEFINE A == Of(S, k)
           B == Of(N, k)
<1>2. /\ IsFiniteSet(A) /\ IsFiniteSet(B)
      /\ Cardinality(A) \in Nat /\ Cardinality(B) \in Nat
  BY OfFinite
<1>3. Of(S \cup N, k) = A \cup B
  BY DEF Of
<1> HIDE DEF A, B
<1>4. Cardinality(A \cup B) = Cardinality(A) + Cardinality(B) - Cardinality(A \cap B)
  BY <1>2, FS_Union
<1>5. Cardinality(A \cap B) \in Nat
  BY <1>2, FS_Intersection, FS_CardinalityType
<1>6. Cardinality(A \cup B) <= Cardinality(A) + Cardinality(B)
  <2> DEFINE a == Cardinality(A)
             b == Cardinality(B)
             c == Cardinality(A \cap B)
             u == Cardinality(A \cup B)
  <2>1. a \in Nat /\ b \in Nat /\ c \in Nat /\ u = a + b - c
    BY <1>2, <1>4, <1>5
  <2> HIDE DEF a, b, c, u
  <2>2. u <= a + b
    BY <2>1
  <2> QED  BY <2>2 DEF a, b, u
<1> QED  BY <1>1, <1>3, <1>6 DEF A, B

\* The jobs on a set of files: one for each file at most, all of one kind.
LEMMA JobsOn ==
  ASSUME NEW D, IsFiniteSet(D), NEW kind, NEW k
  PROVE  LET N == {JobOn(kind, f) : f \in D}
         IN  /\ IsFiniteSet(N)
             /\ Cardinality(Of(N, k)) <= (IF k = kind THEN Cardinality(D) ELSE 0)
<1> DEFINE N == {JobOn(kind, f) : f \in D}
<1>1. /\ IsFiniteSet(N)
      /\ Cardinality(N) <= Cardinality(D)
  <2>1. [f \in D |-> JobOn(kind, f)] \in Surjection(D, N)
    BY DEF Surjection
  <2> HIDE DEF N
  <2> QED  BY <2>1, FS_Surjection
<1>2. CASE k = kind
  <2>1. Of(N, k) = N
    BY <1>2 DEF Of, JobOn
  <2> QED  BY <1>1, <1>2, <2>1
<1>3. CASE k # kind
  <2>1. Of(N, k) = {}
    BY <1>3 DEF Of, JobOn
  <2>2. Cardinality(Of(N, k)) = 0
    BY <2>1, FS_EmptySet
  <2> QED  BY <1>1, <1>3, <2>2
<1> QED  BY <1>2, <1>3, <1>1


(***************************************************************************)
(* The files of the client: finitely many, and no name twice.              *)
(***************************************************************************)
Files(d) ==
  /\ d \subseteq File
  /\ IsFiniteSet(d)
  /\ \A f, g \in d : SameName(f, g) => f = g

LEMMA SubFiles ==
  ASSUME NEW d, Files(d), NEW e \in SUBSET d
  PROVE  Files(e)
BY FS_Subset DEF Files

LEMMA EmptyFiles == Files({})
BY FS_EmptySet DEF Files

LEMMA OneFile ==
  ASSUME NEW f \in File
  PROVE  Files({f})
BY FS_Singleton DEF Files

\* What a program writes replaces what has its name.
LEMMA OverwriteFiles ==
  ASSUME NEW d, Files(d), NEW new, Files(new)
  PROVE  Files(Overwrite(d, new))
<1> DEFINE kept == {f \in d : \A g \in new : ~SameName(f, g)}
<1>1. Files(kept)
  BY SubFiles
<1>2. IsFiniteSet(kept \cup new)
  BY <1>1, FS_Union DEF Files
<1>3. ASSUME NEW f \in kept \cup new, NEW g \in kept \cup new, SameName(f, g)
      PROVE  f = g
  BY <1>1, <1>3 DEF Files, SameName
<1> QED  BY <1>1, <1>2, <1>3 DEF Overwrite, Files

\* What QFile::copy writes has a name that was not there.
LEMMA AddMissingFiles ==
  ASSUME NEW d, Files(d), NEW new, Files(new)
  PROVE  Files(AddMissing(d, new))
<1> DEFINE fresh == {g \in new : \A f \in d : ~SameName(f, g)}
<1>1. Files(fresh)
  BY SubFiles
<1>2. IsFiniteSet(d \cup fresh)
  BY <1>1, FS_Union DEF Files
<1>3. ASSUME NEW f \in d \cup fresh, NEW g \in d \cup fresh, SameName(f, g)
      PROVE  f = g
  BY <1>1, <1>3 DEF Files, SameName
<1> QED  BY <1>1, <1>2, <1>3 DEF AddMissing, Files

LEMMA FoundFiles ==
  ASSUME NEW d, Files(d), NEW stage, NEW pages
  PROVE  Files(Found(d, stage, pages))
BY SubFiles DEF Found

\* A file of the same copies and pages in another stage.
LEMMA RestagedFiles ==
  ASSUME NEW d, Files(d), NEW s \in Stages, NEW stage \in Stages,
         \A f \in d : f.stage = s
  PROVE  Files({[f EXCEPT !.stage = stage] : f \in d})
<1> DEFINE to(f) == [f EXCEPT !.stage = stage]
           e == {to(f) : f \in d}
<1>1. \A f \in d : f \in File /\ to(f) \in File
  BY DEF Files, File
<1>2. IsFiniteSet(e)
  <2>1. [f \in d |-> to(f)] \in Surjection(d, e)
    BY DEF Surjection
  <2> HIDE DEF e
  <2> QED  BY <2>1, FS_Surjection DEF Files
<1>3. \A f, g \in d : SameName(to(f), to(g)) => SameName(f, g)
  BY <1>1 DEF SameName, File
<1>4. \A f, g \in e : SameName(f, g) => f = g
  BY <1>3 DEF Files
<1> QED  BY <1>1, <1>2, <1>4 DEF Files

\* What a job writes.
LEMMA WrittenFiles ==
  ASSUME Files(disk), NEW j \in Job, NEW page \in PageNames, NEW stage \in Stages
  PROVE  Files(Written(j, page, stage))
<1>1. [copy |-> j.copy, page |-> page, stage |-> stage, prep |-> j.prep] \in File
  BY DEF Job, File
<1> QED  BY <1>1, OneFile, OverwriteFiles DEF Written

(***************************************************************************)
(* Steps that start jobs.                                                  *)
(***************************************************************************)
LEMMA JobOnType ==
  ASSUME NEW f \in File, NEW kind \in Kinds, batch \in Nat
  PROVE  JobOn(kind, f) \in Job
BY DEF JobOn, Job, File

LEMMA KindsInOrder == MetaKinds \subseteq Kinds
BY DEF MetaKinds, Kinds

JobsTyped == jobs \subseteq Job /\ IsFiniteSet(jobs) /\ batch \in Nat

\* The jobs after a step that ended some and started some on one set of files.
LEMMA JobsAfter ==
  ASSUME JobsTyped, NEW ended \in SUBSET jobs, NEW D, Files(D), NEW kind \in Kinds,
         StartJobs(ended, {JobOn(kind, f) : f \in D})
  PROVE  JobsTyped'
<1>1. /\ IsFiniteSet(jobs \ ended)
      /\ IsFiniteSet({JobOn(kind, f) : f \in D})
  BY FS_Difference, JobsOn DEF JobsTyped, Files
<1>2. IsFiniteSet(jobs')
  BY <1>1, FS_Union DEF StartJobs
<1>3. {JobOn(kind, f) : f \in D} \subseteq Job
  BY JobOnType DEF Files, JobsTyped
<1> QED  BY <1>2, <1>3 DEF JobsTyped, StartJobs

LEMMA NoJobsAfter ==
  ASSUME JobsTyped, NEW ended \in SUBSET jobs, StartJobs(ended, {})
  PROVE  JobsTyped'
<1>1. {} = {JobOn("merge", f) : f \in {}}
  OBVIOUS
<1> QED  BY <1>1, JobsAfter, EmptyFiles DEF Kinds, MetaKinds

\* A finished job and its successors: how many of a kind can be running.
LEMMA CountAfter ==
  ASSUME JobsTyped, NEW j \in jobs, NEW D, Files(D), NEW kind, NEW k,
         StartJobs({j}, {JobOn(kind, f) : f \in D})
  PROVE  Cardinality(Of(jobs', k)) <=
           Cardinality(Of(jobs, k)) - (IF j.kind = k THEN 1 ELSE 0)
             + (IF k = kind THEN Cardinality(D) ELSE 0)
<1> DEFINE N == {JobOn(kind, f) : f \in D}
           rest == jobs \ {j}
           c == Cardinality(Of(jobs, k))
           r == Cardinality(Of(rest, k))
           n == Cardinality(Of(N, k))
           t == Cardinality(Of(jobs', k))
           a == IF j.kind = k THEN 1 ELSE 0
           b == IF k = kind THEN Cardinality(D) ELSE 0
<1>1. /\ IsFiniteSet(rest)
      /\ r = c - a
  BY EndOne DEF JobsTyped
<1>2. /\ IsFiniteSet(N)
      /\ n <= b
  BY JobsOn DEF Files
<1>3. jobs' = rest \cup N
  BY DEF StartJobs
<1>4. t <= r + n /\ IsFiniteSet(jobs')
  <2> HIDE DEF N, rest
  <2> QED  BY <1>1, <1>2, <1>3, StartMore
<1>5. c \in Nat /\ r \in Nat /\ n \in Nat /\ t \in Nat
  BY <1>1, <1>2, <1>4, OfFinite DEF JobsTyped
<1>6. b \in Nat /\ a \in Nat
  BY FS_CardinalityType DEF Files
<1> HIDE DEF c, r, n, t, a, b
<1>7. t <= c - a + b
  BY <1>1, <1>2, <1>4, <1>5, <1>6
<1> QED  BY <1>7 DEF c, t, a, b

(***************************************************************************)
(* The invariant: an entry in the stack for every running job.             *)
(***************************************************************************)
Inv == TypeOK /\ Files(disk) /\ JobsHaveEntries

StackTyped == stack \in [MetaKinds -> Int]

\* Steps that leave the stacks alone start none of the jobs they count.
LEMMA QuietKeepsEntries ==
  ASSUME JobsTyped, JobsHaveEntries, stack' = stack, online' = online,
         JobsTyped', \A x \in jobs' : x.kind \in MetaKinds => x \in jobs,
         StackTyped
  PROVE  JobsHaveEntries'
<1> SUFFICES ASSUME online, NEW k \in MetaKinds
             PROVE  Cardinality(Of(jobs', k)) <= stack'[k]
  BY DEF JobsHaveEntries, Running, Of
<1>1. Of(jobs', k) \in SUBSET Of(jobs, k)
  BY DEF Of
<1>2. IsFiniteSet(Of(jobs, k)) /\ Cardinality(Of(jobs, k)) \in Nat
  BY OfFinite DEF JobsTyped
<1>3. IsFiniteSet(Of(jobs', k)) /\ Cardinality(Of(jobs', k)) \in Nat
  BY OfFinite DEF JobsTyped
<1>4. Cardinality(Of(jobs', k)) <= Cardinality(Of(jobs, k))
  BY <1>1, <1>2, FS_Subset
<1>5. Cardinality(Of(jobs, k)) <= stack[k]
  BY DEF JobsHaveEntries, Running, Of
<1>6. stack[k] \in Int
  BY DEF StackTyped
<1> QED  BY <1>2, <1>3, <1>4, <1>5, <1>6

\* The last job of a stage starts the next stage.
LEMMA NextStageKeepsEntries ==
  ASSUME JobsTyped, StackTyped, JobsHaveEntries, online' = online,
         NEW j \in jobs, j.kind \in MetaKinds, NEW D, Files(D),
         NEW kind \in MetaKinds,
         StartJobs({j}, {JobOn(kind, f) : f \in D}),
         stack' = Push(Pop(j.kind), kind, Cardinality(D))
  PROVE  JobsHaveEntries'
<1> SUFFICES ASSUME online, NEW k \in MetaKinds
             PROVE  Cardinality(Of(jobs', k)) <= stack'[k]
  BY DEF JobsHaveEntries, Running, Of
<1> DEFINE c == Cardinality(Of(jobs, k))
           t == Cardinality(Of(jobs', k))
           a == IF j.kind = k THEN 1 ELSE 0
           b == IF k = kind THEN Cardinality(D) ELSE 0
           s == stack[k]
           u == stack'[k]
<1>1. t <= c - a + b
  BY CountAfter
<1>2. c \in Nat /\ a \in Nat /\ b \in Nat /\ s \in Int
  BY OfFinite, FS_CardinalityType DEF JobsTyped, StackTyped, Files
<1>3. JobsTyped'
  BY JobsAfter, KindsInOrder
<1>4. t \in Nat
  BY <1>3, OfFinite DEF JobsTyped
<1>5. c <= s
  BY DEF JobsHaveEntries, Running, Of
<1>6. u = s - a + b
  BY <1>2, FS_CardinalityType DEF Push, Pop, StackTyped, Files
<1> HIDE DEF c, t, a, b, s, u
<1>7. t <= u
  BY <1>1, <1>2, <1>4, <1>5, <1>6
<1> QED  BY <1>7 DEF t, u

LEMMA StacksTyped ==
  ASSUME StackTyped, NEW k \in MetaKinds
  PROVE  /\ Pop(k) \in [MetaKinds -> Int]
         /\ \A kind \in MetaKinds, n \in Nat :
              Push(Pop(k), kind, n) \in [MetaKinds -> Int]
BY DEF Pop, Push, StackTyped

LEMMA PushTyped ==
  ASSUME NEW s \in [MetaKinds -> Int], NEW kind \in MetaKinds, NEW n \in Nat
  PROVE  Push(s, kind, n) \in [MetaKinds -> Int]
BY DEF Push

\* Any other job of a stage takes its entry with it.
LEMMA PopKeepsEntries ==
  ASSUME JobsTyped, StackTyped, JobsHaveEntries, online' = online,
         NEW j \in jobs, j.kind \in MetaKinds,
         StartJobs({j}, {}), stack' = Pop(j.kind)
  PROVE  JobsHaveEntries'
<1>1. {} = {JobOn("ps", f) : f \in {}} /\ Cardinality({}) = 0
  BY FS_EmptySet
<1>2. stack' = Push(Pop(j.kind), "ps", Cardinality({}))
  <2>1. Pop(j.kind) \in [MetaKinds -> Int]
    BY StacksTyped
  <2>2. \A p \in [MetaKinds -> Int] : Push(p, "ps", 0) = p
    BY DEF Push
  <2> QED  BY <1>1, <2>1, <2>2
<1>3. "ps" \in MetaKinds
  BY DEF MetaKinds
<1> QED  BY <1>1, <1>2, <1>3, EmptyFiles, NextStageKeepsEntries

LEMMA CountOfFiles ==
  ASSUME NEW d, Files(d)
  PROVE  Cardinality(d) \in Nat
BY FS_CardinalityType DEF Files

LEMMA InitInv ==
  ASSUME Init
  PROVE  Inv
<1>1. TypeOK
  <2>1. jobs \subseteq Job /\ IsFiniteSet(jobs)
    BY FS_EmptySet DEF Init
  <2>2. stack \in [MetaKinds -> Int]
    BY DEF Init
  <2> QED  BY <2>1, <2>2 DEF Init, TypeOK
<1>2. JobsHaveEntries
  BY FS_EmptySet DEF Init, JobsHaveEntries, Running
<1> QED  BY <1>1, <1>2, EmptyFiles DEF Init, Inv

(***************************************************************************)
(* The steps, one lemma for each that touches jobs, stacks or files.       *)
(***************************************************************************)
LEMMA InvParts ==
  ASSUME Inv
  PROVE  JobsTyped /\ StackTyped /\ Files(disk) /\ JobsHaveEntries /\ TypeOK
BY DEF Inv, TypeOK, JobsTyped, StackTyped

LEMMA NoFileType == NoFile \in File /\ Files({NoFile})
<1>1. NoFile \in File
  BY DEF NoFile, File, CopyDirs, PageNames, TplPages, Stages
<1> QED  BY <1>1, OneFile

LEMMA ConvertKeeps ==
  ASSUME Inv, Convert2Pdf
  PROVE  Inv'
<1> USE InvParts
<1>1. {JobOn("ps2pdf", NoFile)} = {JobOn("ps2pdf", f) : f \in {NoFile}}
  OBVIOUS
<1>2. JobsTyped'
  BY <1>1, JobsAfter, NoFileType DEF Convert2Pdf, Kinds
<1>3. JobsHaveEntries'
  BY <1>2, QuietKeepsEntries DEF Convert2Pdf, StartJobs, JobOn, MetaKinds
<1> QED  BY <1>2, <1>3 DEF Convert2Pdf, Inv, TypeOK, JobsTyped, signals

LEMMA FailKeeps ==
  ASSUME Inv, NEW j \in jobs, JobFails(j)
  PROVE  Inv'
<1> USE InvParts
<1>1. JobsTyped'
  BY NoJobsAfter DEF JobFails
<1>2. JobsHaveEntries'
  BY <1>1, QuietKeepsEntries DEF JobFails, StartJobs
<1> QED  BY <1>1, <1>2 DEF JobFails, Inv, TypeOK, JobsTyped, session, signals

LEMMA Ps2PdfKeeps ==
  ASSUME Inv, NEW j \in jobs, Ps2PdfDone(j)
  PROVE  Inv'
<1> USE InvParts
<1> DEFINE D == IF online THEN {NoFile} ELSE {}
<1>1. (IF online THEN {JobOn("count", NoFile)} ELSE {})
        = {JobOn("count", f) : f \in D}
  OBVIOUS
<1>2. Files(D)
  BY NoFileType, EmptyFiles
<1>3. StartJobs({j}, {JobOn("count", f) : f \in D})
  BY <1>1 DEF Ps2PdfDone
<1>4. JobsTyped'
  <2> HIDE DEF D
  <2> QED  BY <1>2, <1>3, JobsAfter DEF Kinds
<1>5. \A x \in jobs' : x.kind \in MetaKinds => x \in jobs
  BY <1>3 DEF StartJobs, JobOn, MetaKinds
<1>6. JobsHaveEntries'
  BY <1>4, <1>5, QuietKeepsEntries DEF Ps2PdfDone
<1> QED  BY <1>4, <1>6 DEF Ps2PdfDone, Inv, TypeOK, JobsTyped, session, signals

LEMMA CountedKeeps ==
  ASSUME Inv, NEW j \in jobs, NEW n \in PageCounts, PagesCounted(j, n)
  PROVE  Inv'
<1> USE InvParts
<1> DEFINE splits == {JobOn("splitFirst", NoFile), JobOn("splitOther", NoFile)}
<1>1. CASE StartJobs({j}, {})
  <2>1. JobsTyped'
    BY <1>1, NoJobsAfter
  <2>2. JobsHaveEntries'
    BY <1>1, <2>1, QuietKeepsEntries DEF PagesCounted, StartJobs
  <2> QED
    BY <2>1, <2>2, GsPipelineAssumption
    DEF PagesCounted, Inv, TypeOK, JobsTyped, signals
<1>2. CASE StartJobs({j}, splits) /\ UNCHANGED <<src, worked>>
  <2>1. splits \subseteq Job /\ IsFiniteSet(splits)
    <3>1. IsFiniteSet({JobOn("splitFirst", NoFile)})
      BY FS_Singleton
    <3>2. IsFiniteSet({JobOn("splitFirst", NoFile)} \cup {JobOn("splitOther", NoFile)})
      BY <3>1, FS_AddElement
    <3>3. splits = {JobOn("splitFirst", NoFile)} \cup {JobOn("splitOther", NoFile)}
      OBVIOUS
    <3>4. splits \subseteq Job
      BY NoFileType, JobOnType DEF JobsTyped, Kinds
    <3> QED  BY <3>2, <3>3, <3>4
  <2>2. \A x \in splits : x.kind \notin MetaKinds
    BY DEF JobOn, MetaKinds
  <2> HIDE DEF splits
  <2>3. JobsTyped'
    <3>1. IsFiniteSet(jobs \ {j})
      BY FS_RemoveElement DEF JobsTyped
    <3>2. IsFiniteSet((jobs \ {j}) \cup splits)
      BY <2>1, <3>1, FS_Union
    <3> QED  BY <1>2, <2>1, <3>2 DEF JobsTyped, StartJobs
  <2>4. JobsHaveEntries'
    BY <1>2, <2>2, <2>3, QuietKeepsEntries DEF PagesCounted, StartJobs
  <2> QED
    BY <1>2, <2>3, <2>4, GsPipelineAssumption
    DEF PagesCounted, Inv, TypeOK, JobsTyped, signals
<1> QED  BY <1>1, <1>2 DEF PagesCounted

LEMMA SplitFirstKeeps ==
  ASSUME Inv, NEW j \in jobs, SplitFirstDone(j)
  PROVE  Inv'
<1> USE InvParts
<1>1. JobsTyped'
  BY NoJobsAfter DEF SplitFirstDone
<1>2. JobsHaveEntries'
  BY <1>1, QuietKeepsEntries DEF SplitFirstDone, StartJobs
<1> QED  BY <1>1, <1>2 DEF SplitFirstDone, Inv, TypeOK, JobsTyped, session, signals

LEMMA SplitOtherKeeps ==
  ASSUME Inv, NEW j \in jobs, SplitOtherDone(j)
  PROVE  Inv'
<1> USE InvParts
<1>1. JobsTyped'
  BY NoJobsAfter DEF SplitOtherDone
<1>2. JobsHaveEntries'
  BY <1>1, QuietKeepsEntries DEF SplitOtherDone, StartJobs
<1>3. worked' \in BOOLEAN
  BY DEF SplitOtherDone
<1> QED
  BY <1>1, <1>2, <1>3 DEF SplitOtherDone, Inv, TypeOK, JobsTyped, signals

LEMMA CopiesFinite ==
  IsFiniteSet(CopyDirs) /\ Cardinality(CopyDirs) \in Nat
<1>1. \A a, b \in Int : IsFiniteSet(a..b)
  BY FS_Interval
<1>2. IsFiniteSet(CopyDirs)
  <2>1. IsFiniteSet(1..5)
    <3>1. 1 \in Int /\ 5 \in Int
      OBVIOUS
    <3> QED  BY ONLY <1>1, <3>1, Zenon
  <2> QED  BY <2>1 DEF CopyDirs
<1> QED  BY <1>2, FS_CardinalityType

\* The pages of a template are finitely many files.
LEMMA TemplateIsFiles ==
  ASSUME NEW t \in Templates, NEW copies \in SUBSET DOMAIN t, preps \in Nat
  PROVE  Files(TemplateFiles(t, copies))
<1> DEFINE S == copies \X TplPages
           to(x) == [copy |-> x[1], page |-> x[2], stage |-> "tpl", prep |-> preps + 1]
           T == [copy : copies, page : TplPages, stage : {"tpl"}, prep : {preps + 1}]
<1>1. PICK m \in CopyDirs : t \in [1..m -> SUBSET TplPages]
  BY GsPipelineAssumption
<1>2. copies \subseteq CopyDirs
  BY <1>1 DEF CopyDirs
<1>3. IsFiniteSet(copies)
  <2> QED  BY <1>2, CopiesFinite, FS_Subset
<1>4. IsFiniteSet(TplPages)
  <2>1. IsFiniteSet({"first"} \cup {"other"} \cup {"over"} \cup {"last"})
    <3>1. IsFiniteSet({"first"})
      BY FS_Singleton
    <3>2. IsFiniteSet({"first"} \cup {"other"})
      BY <3>1, FS_AddElement
    <3>3. IsFiniteSet({"first"} \cup {"other"} \cup {"over"})
      BY <3>2, FS_AddElement
    <3> QED  BY <3>3, FS_AddElement
  <2>2. TplPages = {"first"} \cup {"other"} \cup {"over"} \cup {"last"}
    BY DEF TplPages
  <2> QED  BY <2>1, <2>2
<1>5. IsFiniteSet(S)
  BY <1>3, <1>4, FS_Product
<1>6. IsFiniteSet(T)
  <2>1. [x \in S |-> to(x)] \in Surjection(S, T)
    <3>1. \A x \in S : to(x) \in T
      OBVIOUS
    <3>2. ASSUME NEW f \in T
          PROVE  \E x \in S : to(x) = f
      <4>1. <<f.copy, f.page>> \in S
        OBVIOUS
      <4>2. f = [copy |-> f.copy, page |-> f.page, stage |-> f.stage, prep |-> f.prep]
        OBVIOUS
      <4>3. f.stage = "tpl" /\ f.prep = preps + 1
        OBVIOUS
      <4>4. to(<<f.copy, f.page>>) = f
        BY <4>2, <4>3
      <4> QED  BY <4>1, <4>4
    <3> HIDE DEF T, S, to
    <3> QED  BY <3>1, <3>2 DEF Surjection
  <2> HIDE DEF S, T
  <2> QED  BY <1>5, <2>1, FS_Surjection
<1>7. T \subseteq File
  BY <1>2 DEF File, PageNames, Stages
<1>8. TemplateFiles(t, copies) \in SUBSET T
  BY DEF TemplateFiles
<1>9. IsFiniteSet(TemplateFiles(t, copies))
  BY <1>6, <1>8, FS_Subset
<1>10. \A f, g \in T : SameName(f, g) => f = g
  BY DEF SameName
<1> HIDE DEF T
<1> QED  BY <1>7, <1>8, <1>9, <1>10 DEF Files

(***************************************************************************)
(* A stage that starts without a finished job.                             *)
(***************************************************************************)
LEMMA FirstStageKeepsEntries ==
  ASSUME JobsTyped, StackTyped, JobsHaveEntries, online' = online,
         NEW kind \in MetaKinds, NEW D, Files(D),
         NEW n \in Nat, Cardinality(D) <= n,
         StartJobs({}, {JobOn(kind, f) : f \in D}),
         stack' = Push(stack, kind, n)
  PROVE  JobsHaveEntries'
<1> SUFFICES ASSUME online, NEW k \in MetaKinds
             PROVE  Cardinality(Of(jobs', k)) <= stack'[k]
  BY DEF JobsHaveEntries, Running, Of
<1> DEFINE N == {JobOn(kind, f) : f \in D}
           c == Cardinality(Of(jobs, k))
           m == Cardinality(Of(N, k))
           t == Cardinality(Of(jobs', k))
           a == IF k = kind THEN Cardinality(D) ELSE 0
           b == IF k = kind THEN n ELSE 0
           s == stack[k]
           u == stack'[k]
<1>1. IsFiniteSet(N) /\ m <= a
  BY JobsOn DEF Files
<1>2. jobs' = jobs \cup N
  BY DEF StartJobs
<1>3. t <= c + m /\ IsFiniteSet(jobs')
  <2> HIDE DEF N
  <2> QED  BY <1>1, <1>2, StartMore DEF JobsTyped
<1>4. /\ c \in Nat /\ m \in Nat /\ t \in Nat
      /\ a \in Nat /\ b \in Nat /\ s \in Int
  BY <1>1, <1>3, OfFinite, CountOfFiles DEF JobsTyped, StackTyped
<1>5. c <= s
  BY DEF JobsHaveEntries, Running, Of
<1>6. u = s + b /\ a <= b
  BY DEF Push, StackTyped
<1> HIDE DEF c, m, t, a, b, s, u
<1>7. t <= u
  BY <1>1, <1>3, <1>4, <1>5, <1>6
<1> QED  BY <1>7 DEF t, u

LEMMA MergeStartKeeps ==
  ASSUME Inv, NEW d, Files(d), MergeWithTemplate(d), online' = online
  PROVE  JobsTyped' /\ StackTyped' /\ Files(disk') /\ JobsHaveEntries'
<1> USE InvParts
<1> DEFINE tpl == Found(d, "tpl", TplPages)
           merged == Found(d, "tpl",
                       IF pageCount > 1 THEN {"first", "other"} ELSE {"first"})
           started == {f \in merged : f.page = "first" \/ "other" \in src}
           laid == Found(d, "tpl", {"over", "last"})
           copied == {[f EXCEPT !.stage = "out"] : f \in laid}
<1>1. CASE disk' = d /\ StartJobs({}, {}) /\ UNCHANGED stack
  <2>1. JobsTyped'
    BY <1>1, NoJobsAfter
  <2>2. JobsHaveEntries'
    BY <1>1, <2>1, QuietKeepsEntries DEF StartJobs
  <2> QED  BY <1>1, <2>1, <2>2 DEF StackTyped
<1>2. CASE /\ disk' = AddMissing(d, copied)
           /\ stack' = Push(stack, "merge", Cardinality(merged))
           /\ StartJobs({}, {JobOn("merge", f) : f \in started})
  <2>1. Files(merged) /\ Files(laid)
    BY FoundFiles
  <2>2. started \in SUBSET merged
    OBVIOUS
  <2>3. Files(started) /\ Cardinality(started) <= Cardinality(merged)
    <3> HIDE DEF started, merged
    <3> QED  BY <2>1, <2>2, SubFiles, FS_Subset DEF Files
  <2>4. Files(copied)
    <3>1. \A f \in laid : f.stage = "tpl"
      BY DEF Found
    <3> HIDE DEF laid
    <3> QED  BY <2>1, <3>1, RestagedFiles DEF Stages
  <2>5. Cardinality(merged) \in Nat
    BY <2>1, CountOfFiles
  <2> HIDE DEF merged, started, copied
  <2>6. JobsTyped'
    <3>1. {} \in SUBSET jobs /\ "merge" \in Kinds
      BY DEF Kinds, MetaKinds
    <3> QED  BY <1>2, <2>3, <3>1, JobsAfter
  <2>7. StackTyped'
    BY <1>2, <2>5, PushTyped DEF StackTyped, MetaKinds
  <2>8. JobsHaveEntries'
    BY <1>2, <2>3, <2>5, FirstStageKeepsEntries DEF MetaKinds
  <2>9. Files(disk')
    BY <1>2, <2>4, AddMissingFiles
  <2> QED  BY <2>6, <2>7, <2>8, <2>9
<1> QED  BY <1>1, <1>2 DEF MergeWithTemplate

LEMMA CreateKeeps ==
  ASSUME Inv, NEW t \in Templates, CreateFormatedDoc(t)
  PROVE  Inv'
<1> USE InvParts
<1>1. Files(Overwrite(disk, TemplateFiles(t, DOMAIN t)))
  BY TemplateIsFiles, OverwriteFiles DEF TypeOK
<1>2. JobsTyped' /\ StackTyped' /\ Files(disk') /\ JobsHaveEntries'
  BY <1>1, MergeStartKeeps DEF CreateFormatedDoc, AskForDoc
<1> QED
  BY <1>2
  DEF CreateFormatedDoc, AskForDoc, Inv, TypeOK, JobsTyped, StackTyped, Files,
      signals

LEMMA BrokenKeeps ==
  ASSUME Inv, NEW t \in Templates, NEW broken \in SUBSET DOMAIN t,
         TemplateBroken(t, broken)
  PROVE  Inv'
<1> USE InvParts
<1>1. Files(disk')
  BY TemplateIsFiles, OverwriteFiles DEF TypeOK, TemplateBroken
<1>2. JobsHaveEntries'
  BY DEF TemplateBroken, AskForDoc, JobsHaveEntries, Running
<1>3. JobsTyped' /\ StackTyped'
  BY DEF TemplateBroken, JobsTyped, StackTyped
<1>4. preps' \in Nat /\ asked' \in Templates
  BY DEF TemplateBroken, AskForDoc, TypeOK
<1> QED
  BY <1>1, <1>2, <1>3, <1>4 DEF JobsTyped, StackTyped, TemplateBroken, AskForDoc, Inv, TypeOK, Files, signals

(***************************************************************************)
(* The stages after the merge.                                             *)
(***************************************************************************)
LEMMA PopAlive ==
  ASSUME NEW k, PopSurvives(k)
  PROVE  alive' \in BOOLEAN
<1>1. CASE stack[k] > 0
  BY <1>1 DEF PopSurvives
<1>2. CASE ~(stack[k] > 0)
  BY <1>2 DEF PopSurvives
<1> QED  BY <1>1, <1>2

LEMMA MergeDoneKeeps ==
  ASSUME Inv, NEW j \in jobs, MergeDone(j)
  PROVE  Inv'
<1> USE InvParts
<1> DEFINE outs == Found(disk', "out", PageNames)
<1>1. j \in Job /\ j.page \in PageNames /\ j.kind = "merge"
      /\ "merge" \in MetaKinds /\ "png" \in MetaKinds
  BY DEF JobsTyped, Job, MergeDone, MetaKinds
<1>2. Files(disk')
  BY <1>1, WrittenFiles DEF MergeDone, Stages
<1>3. Files(outs) /\ Cardinality(outs) \in Nat
  BY <1>2, FoundFiles, CountOfFiles
<1>4. ASSUME stack' = Push(Pop("merge"), "png", Cardinality(outs)),
              StartJobs({j}, {JobOn("png", f) : f \in outs})
      PROVE  JobsTyped' /\ StackTyped' /\ JobsHaveEntries'
  <2> HIDE DEF outs
  <2>1. JobsTyped'
    BY <1>1, <1>3, <1>4, JobsAfter, KindsInOrder
  <2>2. StackTyped'
    BY <1>1, <1>3, <1>4, StacksTyped DEF StackTyped
  <2>3. JobsHaveEntries'
    BY <1>1, <1>3, <1>4, NextStageKeepsEntries DEF MergeDone
  <2> QED  BY <2>1, <2>2, <2>3
<1>5. ASSUME stack' = Pop("merge"), StartJobs({j}, {})
      PROVE  JobsTyped' /\ StackTyped' /\ JobsHaveEntries'
  <2>1. JobsTyped' /\ StackTyped'
    BY <1>1, <1>5, NoJobsAfter, StacksTyped DEF StackTyped
  <2>2. JobsHaveEntries'
    BY <1>1, <1>5, PopKeepsEntries DEF MergeDone
  <2> QED  BY <2>1, <2>2
<1>6. JobsTyped' /\ StackTyped' /\ JobsHaveEntries'
  BY <1>4, <1>5 DEF MergeDone
<1>7. alive' \in BOOLEAN
  BY PopAlive DEF MergeDone
<1> QED
  BY <1>2, <1>6, <1>7
  DEF MergeDone, Inv, TypeOK, JobsTyped, StackTyped, Files, session, signals

LEMMA CatDoneKeeps ==
  ASSUME Inv, NEW j \in jobs, CatDone(j)
  PROVE  Inv'
<1> USE InvParts
<1> DEFINE outs == PsInputs(disk')
<1>1. j \in Job /\ j.kind = "cat" /\ "face" \in PageNames
      /\ "cat" \in MetaKinds /\ "ps" \in MetaKinds
  BY DEF JobsTyped, CatDone, MetaKinds, PageNames
<1>2. Files(disk')
  BY <1>1, WrittenFiles DEF CatDone, Stages
<1>3. Files(outs) /\ Cardinality(outs) \in Nat
  BY <1>2, FoundFiles, CountOfFiles DEF PsInputs
<1>4. ASSUME stack' = Push(Pop("cat"), "ps", Cardinality(outs)),
              StartJobs({j}, {JobOn("ps", f) : f \in outs})
      PROVE  JobsTyped' /\ StackTyped' /\ JobsHaveEntries'
  <2> HIDE DEF outs
  <2>1. JobsTyped'
    BY <1>1, <1>3, <1>4, JobsAfter, KindsInOrder
  <2>2. StackTyped'
    BY <1>1, <1>3, <1>4, StacksTyped DEF StackTyped
  <2>3. JobsHaveEntries'
    BY <1>1, <1>3, <1>4, NextStageKeepsEntries DEF CatDone
  <2> QED  BY <2>1, <2>2, <2>3
<1>5. ASSUME stack' = Pop("cat"), StartJobs({j}, {})
      PROVE  JobsTyped' /\ StackTyped' /\ JobsHaveEntries'
  <2>1. JobsTyped' /\ StackTyped'
    BY <1>1, <1>5, NoJobsAfter, StacksTyped DEF StackTyped
  <2>2. JobsHaveEntries'
    BY <1>1, <1>5, PopKeepsEntries DEF CatDone
  <2> QED  BY <2>1, <2>2
<1>6. JobsTyped' /\ StackTyped' /\ JobsHaveEntries'
  BY <1>4, <1>5 DEF CatDone
<1>7. alive' \in BOOLEAN
  BY PopAlive DEF CatDone
<1> QED
  BY <1>2, <1>6, <1>7
  DEF CatDone, Inv, TypeOK, JobsTyped, StackTyped, Files, session, signals

LEMMA PsDoneKeeps ==
  ASSUME Inv, NEW j \in jobs, PsDone(j)
  PROVE  Inv'
<1> USE InvParts
<1>1. j \in Job /\ j.page \in PageNames /\ j.kind = "ps" /\ "ps" \in MetaKinds
  BY DEF JobsTyped, Job, PsDone, MetaKinds
<1>2. Files(disk')
  BY <1>1, WrittenFiles DEF PsDone, Stages
<1>3. JobsTyped' /\ StackTyped'
  BY <1>1, NoJobsAfter, StacksTyped DEF StackTyped, PsDone
<1>4. JobsHaveEntries'
  BY <1>1, PopKeepsEntries DEF PsDone
<1>5. alive' \in BOOLEAN
  BY PopAlive DEF PsDone
<1>6. printed' \in Nat
  <2>1. printed \in Nat
    BY DEF TypeOK
  <2> QED  BY <2>1 DEF PsDone
<1> QED
  BY <1>2, <1>3, <1>4, <1>5, <1>6
  DEF PsDone, Inv, TypeOK, JobsTyped, StackTyped, Files, session

(***************************************************************************)
(* catFirstPages starts two stages at once.                                *)
(***************************************************************************)
LEMMA TwoStagesKeepEntries ==
  ASSUME JobsTyped, StackTyped, JobsHaveEntries, online' = online,
         NEW j \in jobs, j.kind = "png",
         NEW D, Files(D), NEW n \in Nat, Cardinality(D) <= n,
         NEW E, Files(E),
         StartJobs({j}, {JobOn("cat", f) : f \in D} \cup {JobOn("ps", f) : f \in E}),
         stack' = Push(Push(Pop("png"), "cat", n), "ps", Cardinality(E))
  PROVE  JobsTyped' /\ StackTyped' /\ JobsHaveEntries'
<1> DEFINE A == {JobOn("cat", f) : f \in D}
           B == {JobOn("ps", f) : f \in E}
           rest == jobs \ {j}
<1>1. IsFiniteSet(A) /\ IsFiniteSet(B) /\ IsFiniteSet(rest)
  BY JobsOn, EndOne DEF Files, JobsTyped
<1>2. A \subseteq Job /\ B \subseteq Job
  BY JobOnType DEF Files, JobsTyped, Kinds, MetaKinds
<1>3. jobs' = (rest \cup A) \cup B
  BY DEF StartJobs
<1>4. \A k : Cardinality(Of(A, k)) <= (IF k = "cat" THEN Cardinality(D) ELSE 0)
  BY JobsOn DEF Files
<1>5. \A k : Cardinality(Of(B, k)) <= (IF k = "ps" THEN Cardinality(E) ELSE 0)
  BY JobsOn DEF Files
<1> HIDE DEF A, B
<1>6. IsFiniteSet(rest \cup A)
  BY <1>1, FS_Union
<1>7. IsFiniteSet(jobs')
  BY <1>1, <1>3, <1>6, FS_Union
<1>8. JobsTyped'
  BY <1>2, <1>3, <1>7 DEF JobsTyped, StartJobs
<1>9. /\ Cardinality(D) \in Nat /\ Cardinality(E) \in Nat
      /\ {"png", "cat", "ps"} \subseteq MetaKinds
  BY CountOfFiles DEF MetaKinds
<1>10. StackTyped'
  BY <1>9, StacksTyped, PushTyped DEF StackTyped
<1>11. ASSUME online, NEW k \in MetaKinds
       PROVE  Cardinality(Of(jobs', k)) <= stack'[k]
  <2> DEFINE c == Cardinality(Of(jobs, k))
             r == Cardinality(Of(rest, k))
             ra == Cardinality(Of(rest \cup A, k))
             a == Cardinality(Of(A, k))
             b == Cardinality(Of(B, k))
             t == Cardinality(Of(jobs', k))
             s == stack[k]
             u == stack'[k]
             e == IF k = "png" THEN 1 ELSE 0
             x == IF k = "cat" THEN n ELSE 0
             y == IF k = "ps" THEN Cardinality(E) ELSE 0
  <2>1. r = c - e
    BY EndOne DEF JobsTyped
  <2>2. ra <= r + a
    BY <1>1, StartMore
  <2>3. t <= ra + b
    BY <1>1, <1>3, <1>6, StartMore
  <2>4. /\ c \in Nat /\ r \in Nat /\ ra \in Nat /\ a \in Nat /\ b \in Nat
        /\ t \in Nat
    BY <1>1, <1>6, <1>7, OfFinite DEF JobsTyped
  <2>5. s \in Int /\ e \in Nat /\ x \in Nat /\ y \in Nat
    BY <1>9 DEF StackTyped
  <2>6. a <= x
    <3>1. CASE k = "cat"
      BY <1>4, <1>9, <2>4, <3>1
    <3>2. CASE k # "cat"
      BY <1>4, <3>2
    <3> QED  BY <3>1, <3>2
  <2>7. b <= y
    BY <1>5
  <2>8. c <= s
    BY <1>11 DEF JobsHaveEntries, Running, Of
  <2>9. u = s - e + x + y
    BY <1>9, <2>5 DEF Push, Pop, StackTyped
  <2> HIDE DEF c, r, ra, a, b, t, s, u, e, x, y
  <2>10. t <= u
    BY <2>1, <2>2, <2>3, <2>4, <2>5, <2>6, <2>7, <2>8, <2>9
  <2> QED  BY <2>10 DEF t, u
<1>12. JobsHaveEntries'
  BY <1>11 DEF JobsHaveEntries, Running, Of
<1> QED  BY <1>8, <1>10, <1>12

\* At most one first page for each of the five copies.
LEMMA FirstsFit ==
  ASSUME NEW d, Files(d), NEW D \in SUBSET Found(d, "out", {"first"})
  PROVE  Files(D) /\ Cardinality(D) <= Cardinality(CopyDirs)
<1>1. Files(D)
  BY FoundFiles, SubFiles
<1>2. \A f \in D : f.copy \in CopyDirs /\ f.page = "first" /\ f.stage = "out"
  BY DEF Found, Files, File
<1>3. \A f, g \in D : f.copy = g.copy => f = g
  BY <1>1, <1>2 DEF Files, SameName
<1>4. [f \in D |-> f.copy] \in Injection(D, CopyDirs)
  BY <1>2, <1>3 DEF Injection, IsInjective
<1>5. Cardinality(D) <= Cardinality(CopyDirs)
  BY <1>4, CopiesFinite, FS_Injection
<1> QED  BY <1>1, <1>5

\* Renaming the first pages of copies that have no face.
LEMMA RenamedFiles ==
  ASSUME NEW d, Files(d), NEW R \in SUBSET Found(d, "out", {"first"}),
         \A f \in R : \A g \in Found(d, "out", {"face"}) : g.copy # f.copy
  PROVE  Files((d \ R) \cup {[f EXCEPT !.page = "face"] : f \in R})
<1> DEFINE to(f) == [f EXCEPT !.page = "face"]
           e == {to(f) : f \in R}
           rest == d \ R
<1>1. Files(R) /\ Files(rest)
  BY FoundFiles, SubFiles
<1>2. \A f \in R : /\ f \in File /\ to(f) \in File
                   /\ f.page = "first" /\ f.stage = "out"
                   /\ to(f).page = "face" /\ to(f).stage = "out"
                   /\ to(f).copy = f.copy
  BY DEF Found, Files, File, PageNames
<1>3. IsFiniteSet(e)
  <2>1. [f \in R |-> to(f)] \in Surjection(R, e)
    BY DEF Surjection
  <2> HIDE DEF e
  <2> QED  BY <1>1, <2>1, FS_Surjection DEF Files
<1>4. ASSUME NEW f \in R, NEW g \in R, SameName(to(f), to(g))
      PROVE  f = g
  <2>1. f.copy = g.copy
    <3> HIDE DEF to
    <3> QED  BY <1>2, <1>4 DEF SameName
  <2>2. SameName(f, g)
    BY <1>2, <2>1 DEF SameName
  <2> QED  BY <1>1, <2>2 DEF Files
<1>5. \A f \in rest, g \in R : ~SameName(f, to(g))
  BY <1>2 DEF SameName, Found
<1>6. e \subseteq File
  BY <1>2
<1>7. IsFiniteSet(rest \cup e)
  BY <1>1, <1>3, FS_Union DEF Files
<1>8. ASSUME NEW f \in rest \cup e, NEW g \in rest \cup e, SameName(f, g)
      PROVE  f = g
  <2>1. CASE f \in rest /\ g \in rest
    BY <1>1, <1>8, <2>1 DEF Files
  <2>2. CASE f \in e /\ g \in e
    <3>1. PICK p \in R : f = to(p)
      BY <2>2
    <3>2. PICK q \in R : g = to(q)
      BY <2>2
    <3>3. p = q
      BY <1>4, <1>8, <3>1, <3>2
    <3> QED  BY <3>1, <3>2, <3>3
  <2>3. CASE f \in rest /\ g \in e
    BY <1>5, <1>8, <2>3
  <2>4. CASE f \in e /\ g \in rest
    <3>1. SameName(g, f)
      BY <1>8 DEF SameName
    <3> QED  BY <1>5, <2>4, <3>1
  <2> QED  BY <1>8, <2>1, <2>2, <2>3, <2>4
<1> QED  BY <1>1, <1>6, <1>7, <1>8 DEF Files

LEMMA CatFirstPagesKeeps ==
  ASSUME Inv, NEW j \in jobs, j.kind = "png", NEW d, Files(d),
         CatFirstPages(j, d), online' = online
  PROVE  JobsTyped' /\ StackTyped' /\ Files(disk') /\ JobsHaveEntries'
<1> USE InvParts
<1> DEFINE firsts == Found(d, "out", {"first"})
           joined == {f \in firsts : \E g \in Found(d, "out", {"other"}) :
                                       g.copy = f.copy}
           renamed == {f \in firsts \ joined :
                         \A g \in Found(d, "out", {"face"}) : g.copy # f.copy}
           cats == {JobOn("cat", f) : f \in joined}
           after == (d \ renamed) \cup {[f EXCEPT !.page = "face"] : f \in renamed}
           n == Cardinality(CopyDirs)
           popped == Push(Pop("png"), "cat", n)
           inputs == PsInputs(after)
<1>1. joined \in SUBSET firsts /\ renamed \in SUBSET firsts
  OBVIOUS
<1>2. Files(joined) /\ Cardinality(joined) <= n
  <2> HIDE DEF joined, n
  <2> QED  BY <1>1, FirstsFit DEF n
<1>3. Files(after)
  <2>1. \A f \in renamed : \A g \in Found(d, "out", {"face"}) : g.copy # f.copy
    OBVIOUS
  <2> HIDE DEF renamed
  <2> QED  BY <1>1, <2>1, RenamedFiles
<1>4. disk' = after
  BY DEF CatFirstPages
<1>5. ASSUME /\ stack' = Push(popped, "ps", Cardinality(inputs))
             /\ StartJobs({j}, cats \cup {JobOn("ps", f) : f \in inputs})
      PROVE  JobsTyped' /\ StackTyped' /\ JobsHaveEntries'
  <2>1. Files(inputs)
    BY <1>3, FoundFiles DEF PsInputs
  <2>2. n \in Nat
    BY CopiesFinite
  <2> HIDE DEF joined, inputs, n
  <2> QED  BY <1>2, <1>5, <2>1, <2>2, TwoStagesKeepEntries
<1>6. ASSUME stack' = popped, StartJobs({j}, cats)
      PROVE  JobsTyped' /\ StackTyped' /\ JobsHaveEntries'
  <2> DEFINE none == {JobOn("ps", f) : f \in {}}
  <2>1. cats \cup none = cats /\ Cardinality({}) = 0
    BY FS_EmptySet
  <2>2. n \in Nat /\ {"png", "cat", "ps"} \subseteq MetaKinds
    BY CopiesFinite DEF MetaKinds
  <2> HIDE DEF n
  <2>3. popped \in [MetaKinds -> Int]
    BY <2>2, StacksTyped
  <2>4. Push(popped, "ps", 0) = popped
    <3> HIDE DEF popped
    <3> QED  BY <2>3 DEF Push
  <2>5. stack' = Push(popped, "ps", Cardinality({}))
    <3> HIDE DEF popped
    <3> QED  BY <1>6, <2>1, <2>4
  <2>6. StartJobs({j}, cats \cup none)
    <3> HIDE DEF cats, none
    <3> QED  BY <1>6, <2>1
  <2> HIDE DEF joined
  <2> QED  BY <1>2, <2>2, <2>5, <2>6, EmptyFiles, TwoStagesKeepEntries
<1>7. JobsTyped' /\ StackTyped' /\ JobsHaveEntries'
  <2> HIDE DEF inputs, cats, popped
  <2>1. CASE pageCount = 1
    <3>1. /\ stack' = Push(popped, "ps", Cardinality(inputs))
          /\ StartJobs({j}, cats \cup {JobOn("ps", f) : f \in inputs})
      BY <2>1 DEF CatFirstPages, inputs, cats, popped
    <3> QED  BY <1>5, <3>1
  <2>2. CASE pageCount # 1
    <3>1. stack' = popped /\ StartJobs({j}, cats)
      BY <2>2 DEF CatFirstPages, cats, popped
    <3> QED  BY <1>6, <3>1
  <2> QED  BY <2>1, <2>2
<1> QED  BY <1>3, <1>4, <1>7

LEMMA PngDoneKeeps ==
  ASSUME Inv, NEW j \in jobs, PngDone(j)
  PROVE  Inv'
<1> USE InvParts
<1> DEFINE w == Written(j, j.page, "png")
<1>1. j \in Job /\ j.page \in PageNames /\ j.kind = "png" /\ "png" \in MetaKinds
  BY DEF JobsTyped, Job, PngDone, MetaKinds
<1>2. Files(w)
  BY <1>1, WrittenFiles DEF Stages
<1> HIDE DEF w
<1>3. ASSUME stack["png"] = 1
      PROVE  JobsTyped' /\ StackTyped' /\ Files(disk') /\ JobsHaveEntries'
  <2>1. CatFirstPages(j, w)
    BY <1>3 DEF PngDone, w
  <2> QED  BY <1>1, <1>2, <2>1, CatFirstPagesKeeps DEF PngDone
<1>4. ASSUME stack["png"] # 1
      PROVE  JobsTyped' /\ StackTyped' /\ Files(disk') /\ JobsHaveEntries'
  <2>1. disk' = w /\ stack' = Pop("png") /\ StartJobs({j}, {})
    BY <1>4 DEF PngDone, w
  <2>2. JobsTyped' /\ StackTyped'
    BY <1>1, <2>1, NoJobsAfter, StacksTyped DEF StackTyped
  <2>3. JobsHaveEntries'
    BY <1>1, <2>1, PopKeepsEntries DEF PngDone
  <2> QED  BY <1>2, <2>1, <2>2, <2>3
<1>5. JobsTyped' /\ StackTyped' /\ Files(disk') /\ JobsHaveEntries'
  BY <1>3, <1>4
<1>6. alive' \in BOOLEAN
  BY PopAlive DEF PngDone
<1>7. previewed' \in Nat
  <2>1. previewed \in Nat
    BY DEF TypeOK
  <2> QED  BY <2>1 DEF PngDone
<1> QED
  BY <1>5, <1>6, <1>7
  DEF PngDone, Inv, TypeOK, JobsTyped, StackTyped, Files, session

LEMMA RestartKeeps ==
  ASSUME Inv, Restart
  PROVE  Inv'
<1> USE InvParts
<1>1. JobsTyped' /\ StackTyped'
  BY DEF Restart, JobsTyped, StackTyped
<1>2. Files(disk')
  BY EmptyFiles DEF Restart
<1>3. JobsHaveEntries'
  BY DEF Restart, JobsHaveEntries, Running
<1> QED
  BY <1>1, <1>2, <1>3
  DEF Restart, Inv, TypeOK, JobsTyped, StackTyped, Files, signals

LEMMA GoneKeeps ==
  ASSUME Inv, ClientGone
  PROVE  Inv'
<1> USE InvParts
<1>1. JobsTyped' /\ StackTyped'
  BY DEF ClientGone, JobsTyped, StackTyped
<1>2. JobsHaveEntries'
  BY DEF ClientGone, JobsHaveEntries
<1> QED
  BY <1>1, <1>2
  DEF ClientGone, Inv, TypeOK, JobsTyped, StackTyped, session, signals

LEMMA StutterKeeps ==
  ASSUME Inv, UNCHANGED vars
  PROVE  Inv'
BY DEF Inv, TypeOK, JobsHaveEntries, Running, vars, session, signals

LEMMA StepKeeps ==
  ASSUME Inv, [Next]_vars
  PROVE  Inv'
<1>1. CASE Convert2Pdf
  BY <1>1, ConvertKeeps
<1>2. ASSUME NEW t \in Templates, CreateFormatedDoc(t)
      PROVE  Inv'
  BY <1>2, CreateKeeps
<1>3. ASSUME NEW t \in Templates, NEW broken \in SUBSET DOMAIN t \ {{}},
             TemplateBroken(t, broken)
      PROVE  Inv'
  <2>1. broken \in SUBSET DOMAIN t
    OBVIOUS
  <2> QED  BY <1>3, <2>1, BrokenKeeps
<1>4. ASSUME NEW j \in jobs, JobFails(j)
      PROVE  Inv'
  BY <1>4, FailKeeps
<1>5. ASSUME NEW j \in jobs, JobDone(j)
      PROVE  Inv'
  BY <1>5, Ps2PdfKeeps, CountedKeeps, SplitFirstKeeps, SplitOtherKeeps,
     MergeDoneKeeps, PngDoneKeeps, CatDoneKeeps, PsDoneKeeps DEF JobDone
<1>6. CASE Restart
  BY <1>6, RestartKeeps
<1>7. CASE ClientGone
  BY <1>7, GoneKeeps
<1>8. CASE UNCHANGED vars
  BY <1>8, StutterKeeps
<1> QED  BY <1>1, <1>2, <1>3, <1>4, <1>5, <1>6, <1>7, <1>8 DEF Next

\* Types, names of files and entries of jobs belong to one inductive invariant.
THEOREM InvHolds == Spec => []Inv
<1>1. Init => Inv
  BY InitInv
<1>2. Inv /\ [Next]_vars => Inv'
  BY StepKeeps
<1> QED  BY <1>1, <1>2, PTL DEF Spec

\* The pipeline's state is well typed, whatever templates, documents and
\* faults there are.
THEOREM PipelineTyped == Spec => []TypeOK
<1>1. Inv => TypeOK
  BY DEF Inv
<1> QED  BY <1>1, InvHolds, PTL

\* No pop meets an empty stack while the client is connected: each running
\* job of a stage has its entry (clientdata.h 65-70), for every template,
\* every number of preparations and restarts, and every failure.
THEOREM EntriesHold == Spec => []JobsHaveEntries
<1>1. Inv => JobsHaveEntries
  BY DEF Inv
<1> QED  BY <1>1, InvHolds, PTL

\* When the last entry is popped the last job has ended.
LEMMA LastPsJob ==
  ASSUME Inv, online, NEW j \in jobs, PsDone(j), stack["ps"] = 1
  PROVE  Running("ps")' = {}
<1> USE InvParts
<1>1. /\ IsFiniteSet(Of(jobs, "ps"))
      /\ Cardinality(Of(jobs, "ps")) \in Nat
  BY OfFinite DEF JobsTyped
<1>2. Cardinality(Of(jobs, "ps")) <= 1
  <2>1. "ps" \in MetaKinds
    BY DEF MetaKinds
  <2>2. Cardinality(Of(jobs, "ps")) <= stack["ps"]
    BY <2>1 DEF JobsHaveEntries, Running, Of
  <2> QED  BY <2>2
<1>3. j \in Of(jobs, "ps")
  BY DEF Of, PsDone
<1>4. IsFiniteSet(Of(jobs, "ps") \ {j})
      /\ Cardinality(Of(jobs, "ps") \ {j}) = Cardinality(Of(jobs, "ps")) - 1
  BY <1>1, <1>3, FS_RemoveElement
<1>5. Cardinality(Of(jobs, "ps") \ {j}) \in Nat
  BY <1>4, FS_CardinalityType
<1>6. Cardinality(Of(jobs, "ps") \ {j}) = 0
  BY <1>1, <1>2, <1>4, <1>5
<1>7. Of(jobs, "ps") \ {j} = {}
  BY <1>4, <1>6, FS_EmptySet
<1>8. jobs' = jobs \ {j}
  BY DEF PsDone, StartJobs
<1> QED  BY <1>7, <1>8 DEF Running, Of

\* The document is announced for printing only when no conversion for the
\* printer is running, however preparations overlap.
THEOREM ReadyAfterLast == Spec => ReadyOnlyWhenDone
<1>1. Inv /\ [Next]_vars => [printed' # printed => Running("ps")' = {}]_vars
  <2> SUFFICES ASSUME Inv, Next, printed' # printed
               PROVE  Running("ps")' = {}
    OBVIOUS
  <2>1. printed \in Nat
    BY DEF Inv, TypeOK
  <2>2. PICK j \in jobs : PsDone(j)
    BY DEF Next, Convert2Pdf, CreateFormatedDoc, TemplateBroken, AskForDoc,
           JobDone, JobFails, Ps2PdfDone, PagesCounted, SplitFirstDone,
           SplitOtherDone, MergeDone, PngDone, CatDone, Restart, ClientGone,
           signals
  <2>3. online /\ stack["ps"] = 1
    BY <2>1, <2>2 DEF PsDone
  <2> QED  BY <2>2, <2>3, LastPsJob
<1> QED  BY <1>1, InvHolds, PTL DEF Spec, ReadyOnlyWhenDone

(***************************************************************************)
(* The preview comes before the print.  A document is announced for        *)
(* printing when the stack of conversions empties, and that stack fills    *)
(* when the first pages are joined: right after the preview of a document  *)
(* of one page, and after the last job of catFirstPages otherwise.  So a   *)
(* stack that is not empty stands for an announcement that may follow      *)
(* (Announced), and of a document of one page no pages are joined          *)
(* (OnePage).  The number of pages is counted once, before any job of      *)
(* these stages (BeforeCount).                                             *)
(***************************************************************************)
Early == {j \in jobs : j.kind \in {"ps2pdf", "count"}}
NotCounted == ~converted \/ Early # {}

BeforeCount ==
  online /\ NotCounted =>
    /\ \A i, j \in jobs : i = j
    /\ ~converted => jobs = {}
    /\ src \subseteq {"main"}
    /\ stack["cat"] = 0
    /\ \A f \in disk : f.stage = "tpl"

NoOthers(d) == Found(d, "out", {"other"}) = {}

OnePage ==
  online /\ pageCount = 1 =>
    /\ \A j \in jobs : j.kind # "cat" /\ (j.kind = "merge" => j.page # "other")
    /\ NoOthers(disk)

Filled(k) == IF stack[k] > 0 THEN 1 ELSE 0

Announced ==
  online =>
    printed + Filled("ps") + (IF pageCount = 1 THEN 0 ELSE Filled("cat")) <= previewed

Order == BeforeCount /\ OnePage /\ Announced /\ PreviewComesFirst

\* A job of a later stage runs only after the pages were counted.
LEMMA LaterJob ==
  ASSUME BeforeCount, online, NEW j \in jobs, j.kind \notin {"ps2pdf", "count"}
  PROVE  converted /\ Early = {}
BY DEF BeforeCount, NotCounted, Early

\* Once they are counted no step counts again.
LEMMA StaysCounted ==
  ASSUME converted, Early = {}, converted' = converted,
         \A x \in jobs' : x \in jobs \/ x.kind \notin {"ps2pdf", "count"}
  PROVE  BeforeCount'
BY DEF BeforeCount, NotCounted, Early

\* Steps that leave the stacks of the last two stages alone.
LEMMA StaysAnnounced ==
  ASSUME Announced, PreviewComesFirst, online' = online,
         pageCount' = pageCount, UNCHANGED signals,
         stack'["ps"] = stack["ps"], stack'["cat"] = stack["cat"]
  PROVE  Announced' /\ PreviewComesFirst'
BY DEF Announced, PreviewComesFirst, Filled, signals

\* Of a document of one page no other page is merged.
LEMMA StaysOnePage ==
  ASSUME OnePage, online' = online, pageCount' = pageCount,
         \A x \in jobs' : x \in jobs \/ x.kind \notin {"cat", "merge"},
         NoOthers(disk) => NoOthers(disk')
  PROVE  OnePage'
BY DEF OnePage

LEMMA WrittenNoOthers ==
  ASSUME NoOthers(disk), NEW j, NEW page, NEW stage,
         page # "other" \/ stage # "out"
  PROVE  NoOthers(Written(j, page, stage))
BY DEF NoOthers, Found, Written, Overwrite

\* What a push and a pop do to the stack of each stage.
LEMMA PopAt ==
  ASSUME StackTyped, NEW kind \in MetaKinds, NEW k \in MetaKinds
  PROVE  Pop(kind)[k] = stack[k] - (IF k = kind THEN 1 ELSE 0)
BY DEF Pop, StackTyped

LEMMA PushAt ==
  ASSUME NEW s \in [MetaKinds -> Int], NEW kind \in MetaKinds, NEW n \in Nat,
         NEW k \in MetaKinds
  PROVE  Push(s, kind, n)[k] = s[k] + (IF k = kind THEN n ELSE 0)
BY DEF Push

LEMMA LastStages == {"merge", "png", "cat", "ps"} \subseteq MetaKinds
BY DEF MetaKinds

LEMMA FirstJobsInOrder ==
  ASSUME Order, NEW j \in jobs, Ps2PdfDone(j) \/ SplitFirstDone(j) \/ SplitOtherDone(j)
  PROVE  Order'
<1>1. /\ online' = online /\ pageCount' = pageCount /\ UNCHANGED signals
      /\ stack' = stack /\ disk' = disk /\ converted' = converted
  BY DEF Ps2PdfDone, SplitFirstDone, SplitOtherDone, session, signals
<1>2. \A x \in jobs' : x \in jobs \/ x.kind = "count"
  BY DEF Ps2PdfDone, SplitFirstDone, SplitOtherDone, StartJobs, JobOn
<1>3. OnePage' /\ Announced' /\ PreviewComesFirst'
  <2>1. OnePage'
    BY <1>1, <1>2, StaysOnePage DEF Order
  <2>2. Announced' /\ PreviewComesFirst'
    BY <1>1, StaysAnnounced DEF Order
  <2> QED  BY <2>1, <2>2
<1>4. BeforeCount'
  <2>1. CASE ~online
    BY <1>1, <2>1 DEF BeforeCount
  <2>2. CASE online /\ Ps2PdfDone(j)
    <3>1. Early # {} /\ NotCounted
      BY <2>2 DEF Ps2PdfDone, Early, NotCounted
    <3>2. /\ \A i \in jobs : i = j
          /\ converted /\ src \subseteq {"main"} /\ stack["cat"] = 0
          /\ \A f \in disk : f.stage = "tpl"
      BY <2>2, <3>1 DEF Order, BeforeCount
    <3>3. jobs' = {JobOn("count", NoFile)} /\ src' = src \cup {"main"}
      BY <2>2, <3>2 DEF Ps2PdfDone, StartJobs
    <3> QED  BY <1>1, <3>2, <3>3 DEF BeforeCount
  <2>3. CASE online /\ ~Ps2PdfDone(j)
    <3>1. j.kind \notin {"ps2pdf", "count"}
      BY <2>3 DEF SplitFirstDone, SplitOtherDone
    <3>2. jobs' \subseteq jobs
      BY <2>3 DEF SplitFirstDone, SplitOtherDone, StartJobs
    <3>3. converted /\ Early = {}
      BY <2>3, <3>1, LaterJob DEF Order
    <3> QED  BY <1>1, <3>2, <3>3, StaysCounted
  <2> QED  BY <2>1, <2>2, <2>3
<1> QED  BY <1>3, <1>4 DEF Order

LEMMA ConvertInOrder ==
  ASSUME Order, Convert2Pdf
  PROVE  Order'
<1>1. /\ online' = online /\ pageCount' = pageCount /\ UNCHANGED signals
      /\ stack' = stack /\ disk' = disk /\ src' = src /\ converted'
  BY DEF Convert2Pdf
<1>2. /\ jobs = {} /\ src \subseteq {"main"} /\ stack["cat"] = 0
      /\ \A f \in disk : f.stage = "tpl"
  BY DEF Order, BeforeCount, NotCounted, Convert2Pdf
<1>3. jobs' = {JobOn("ps2pdf", NoFile)}
  BY <1>2 DEF Convert2Pdf, StartJobs
<1>4. BeforeCount'
  BY <1>1, <1>2, <1>3 DEF BeforeCount
<1>5. OnePage'
  <2>1. \A x \in jobs' : x.kind \notin {"cat", "merge"}
    BY <1>3 DEF JobOn
  <2> QED  BY <1>1, <2>1, StaysOnePage DEF Order
<1>6. Announced' /\ PreviewComesFirst'
  BY <1>1, StaysAnnounced DEF Order
<1> QED  BY <1>4, <1>5, <1>6 DEF Order

LEMMA FailInOrder ==
  ASSUME Order, NEW j \in jobs, JobFails(j)
  PROVE  Order'
<1>1. /\ online' = online /\ pageCount' = pageCount /\ UNCHANGED signals
      /\ stack' = stack /\ disk' = disk /\ src' = src /\ converted' = converted
      /\ jobs' \subseteq jobs
  BY DEF JobFails, StartJobs, session
<1>2. BeforeCount'
  <2>1. NotCounted' => NotCounted
    BY <1>1 DEF NotCounted, Early
  <2> QED  BY <1>1, <2>1 DEF Order, BeforeCount
<1>3. OnePage'
  BY <1>1, StaysOnePage DEF Order
<1>4. Announced' /\ PreviewComesFirst'
  BY <1>1, StaysAnnounced DEF Order
<1> QED  BY <1>2, <1>3, <1>4 DEF Order

LEMMA CountInOrder ==
  ASSUME Inv, Order, NEW j \in jobs, NEW n \in PageCounts, PagesCounted(j, n)
  PROVE  Order'
<1>1. /\ online' = online /\ UNCHANGED signals /\ stack' = stack
      /\ disk' = disk /\ converted' = converted /\ j.kind = "count"
  BY DEF PagesCounted
<1>2. CASE ~online
  BY <1>1, <1>2
  DEF Order, BeforeCount, OnePage, Announced, PreviewComesFirst, signals
<1>3. CASE online
  <2>1. /\ \A i \in jobs : i = j
        /\ converted /\ stack["cat"] = 0
        /\ \A f \in disk : f.stage = "tpl"
    BY <1>1, <1>3 DEF Order, BeforeCount, NotCounted, Early
  <2>2. \A x \in jobs' : x.kind \in {"splitFirst", "splitOther"}
    BY <1>3, <2>1 DEF PagesCounted, StartJobs, JobOn
  <2>3. BeforeCount'
    BY <1>1, <2>1, <2>2 DEF BeforeCount, NotCounted, Early
  <2>4. OnePage'
    BY <1>1, <2>1, <2>2 DEF OnePage, NoOthers, Found
  <2>5. Announced' /\ PreviewComesFirst'
    <3>1. printed + Filled("ps") <= previewed
      BY <1>3, <2>1 DEF Order, Announced, Filled, Inv, TypeOK
    <3>2. Filled("ps")' = Filled("ps") /\ Filled("cat")' = 0
      BY <1>1, <2>1 DEF Filled
    <3>3. printed' = printed /\ previewed' = previewed
      BY <1>1 DEF signals
    <3>4. printed \in Nat /\ previewed \in Nat /\ Filled("ps") \in {0, 1}
      BY DEF Inv, TypeOK, Filled
    <3> QED
      BY <3>1, <3>2, <3>3, <3>4 DEF Order, Announced, PreviewComesFirst
  <2> QED  BY <2>3, <2>4, <2>5 DEF Order
<1> QED  BY <1>2, <1>3

\* The template's pages alone put no page of the document on disk.
LEMMA TemplatesOnDisk ==
  ASSUME NEW t, NEW copies
  PROVE  LET d == Overwrite(disk, TemplateFiles(t, copies))
         IN  /\ NoOthers(disk) => NoOthers(d)
             /\ (\A f \in disk : f.stage = "tpl") => \A f \in d : f.stage = "tpl"
<1>1. \A f \in TemplateFiles(t, copies) : f.stage = "tpl"
  BY DEF TemplateFiles
<1> HIDE DEF TemplateFiles
<1> QED  BY <1>1 DEF Overwrite, NoOthers, Found

LEMMA BrokenInOrder ==
  ASSUME Order, NEW t \in Templates, NEW broken, TemplateBroken(t, broken)
  PROVE  Order'
<1> DEFINE d == Overwrite(disk, TemplateFiles(t, DOMAIN t \ broken))
<1>1. /\ online' = online /\ pageCount' = pageCount /\ UNCHANGED signals
      /\ stack' = stack /\ disk' = d /\ src' = src /\ converted' = converted
      /\ jobs' = jobs
  BY DEF TemplateBroken, AskForDoc
<1>2. /\ NoOthers(disk) => NoOthers(d)
      /\ (\A f \in disk : f.stage = "tpl") => \A f \in d : f.stage = "tpl"
  BY TemplatesOnDisk
<1> HIDE DEF d
<1>3. BeforeCount'
  BY <1>1, <1>2 DEF Order, BeforeCount, NotCounted, Early
<1>4. OnePage'
  BY <1>1, <1>2, StaysOnePage DEF Order
<1>5. Announced' /\ PreviewComesFirst'
  BY <1>1, StaysAnnounced DEF Order
<1> QED  BY <1>3, <1>4, <1>5 DEF Order

LEMMA CreateInOrder ==
  ASSUME Inv, Order, NEW t \in Templates, CreateFormatedDoc(t)
  PROVE  Order'
<1> DEFINE d == Overwrite(disk, TemplateFiles(t, DOMAIN t))
           merged == Found(d, "tpl",
                       IF pageCount > 1 THEN {"first", "other"} ELSE {"first"})
           started == {f \in merged : f.page = "first" \/ "other" \in src}
           copied == {[f EXCEPT !.stage = "out"] : f \in Found(d, "tpl", {"over", "last"})}
           merges == {JobOn("merge", f) : f \in started}
<1>1. /\ online /\ online' = online /\ pageCount' = pageCount /\ UNCHANGED signals
      /\ src' = src /\ converted' = converted
  BY DEF CreateFormatedDoc, AskForDoc
<1>2. /\ NoOthers(disk) => NoOthers(d)
      /\ (\A f \in disk : f.stage = "tpl") => \A f \in d : f.stage = "tpl"
  BY TemplatesOnDisk
<1>3. Files(d)
  BY InvParts, TemplateIsFiles, OverwriteFiles DEF TypeOK
<1>4. MergeWithTemplate(d)
  BY DEF CreateFormatedDoc
<1> HIDE DEF d
<1>5. CASE disk' = d /\ StartJobs({}, {}) /\ UNCHANGED stack
  <2>1. jobs' = jobs
    BY <1>5 DEF StartJobs
  <2>2. BeforeCount'
    BY <1>1, <1>2, <1>5, <2>1 DEF Order, BeforeCount, NotCounted, Early
  <2>3. OnePage'
    BY <1>1, <1>2, <1>5, <2>1, StaysOnePage DEF Order
  <2>4. Announced' /\ PreviewComesFirst'
    BY <1>1, <1>5, StaysAnnounced DEF Order
  <2> QED  BY <2>2, <2>3, <2>4 DEF Order
<1>6. CASE /\ "first" \in src
           /\ disk' = AddMissing(d, copied)
           /\ stack' = Push(stack, "merge", Cardinality(merged))
           /\ StartJobs({}, merges)
  <2>1. converted /\ Early = {}
    BY <1>1, <1>6 DEF Order, BeforeCount, NotCounted
  <2>2. jobs' = jobs \cup merges /\ \A x \in merges : x.kind = "merge"
    BY <1>6 DEF StartJobs, JobOn
  <2>3. BeforeCount'
    <3> HIDE DEF merges
    <3> QED  BY <1>1, <2>1, <2>2, StaysCounted
  <2>4. OnePage'
    <3> SUFFICES ASSUME online, pageCount = 1
                 PROVE  /\ \A x \in jobs' : /\ x.kind # "cat"
                                            /\ x.kind = "merge" => x.page # "other"
                        /\ NoOthers(disk')
      BY <1>1 DEF OnePage
    <3>1. \A x \in merges : x.kind = "merge" /\ x.page = "first"
      BY DEF JobOn, Found
    <3>2. NoOthers(disk')
      <4>1. \A f \in copied : f.page # "other"
        <5>1. \A f \in Found(d, "tpl", {"over", "last"}) : f \in File /\ f.page # "other"
          BY <1>3 DEF Found, Files
        <5> QED  BY <5>1 DEF File
      <4>2. \A f \in disk' : f \in d \/ f \in copied
        BY <1>6 DEF AddMissing
      <4>3. NoOthers(d)
        BY <1>2 DEF Order, OnePage
      <4> HIDE DEF copied
      <4> QED  BY <4>1, <4>2, <4>3 DEF NoOthers, Found
    <3> HIDE DEF merges
    <3> QED  BY <2>2, <3>1, <3>2 DEF Order, OnePage
  <2>5. stack'["ps"] = stack["ps"] /\ stack'["cat"] = stack["cat"]
    <3>1. Cardinality(merged) \in Nat
      BY <1>3, FoundFiles, CountOfFiles
    <3>2. stack \in [MetaKinds -> Int]
      BY InvParts DEF StackTyped
    <3> HIDE DEF merged
    <3> QED  BY <1>6, <3>1, <3>2, LastStages DEF Push
  <2>6. Announced' /\ PreviewComesFirst'
    BY <1>1, <2>5, StaysAnnounced DEF Order
  <2> QED  BY <2>3, <2>4, <2>6 DEF Order
<1> QED  BY <1>4, <1>5, <1>6 DEF MergeWithTemplate

LEMMA MergeDoneInOrder ==
  ASSUME Inv, Order, NEW j \in jobs, MergeDone(j)
  PROVE  Order'
<1> DEFINE outs == Found(disk', "out", PageNames)
<1>1. /\ online' = online /\ pageCount' = pageCount /\ UNCHANGED signals
      /\ src' = src /\ converted' = converted /\ j.kind = "merge"
      /\ disk' = Written(j, j.page, "out")
  BY DEF MergeDone, session
<1>2. \A x \in jobs' : x \in jobs \/ x.kind = "png"
  BY DEF MergeDone, StartJobs, JobOn
<1>3. stack'["ps"] = stack["ps"] /\ stack'["cat"] = stack["cat"]
  <2>1. j \in Job /\ Files(disk)
    BY InvParts DEF JobsTyped
  <2>2. Files(disk')
    BY <1>1, <2>1, WrittenFiles DEF Job, Stages
  <2>3. Cardinality(outs) \in Nat
    BY <2>2, FoundFiles, CountOfFiles
  <2> HIDE DEF outs
  <2>4. stack' = Pop("merge") \/ stack' = Push(Pop("merge"), "png", Cardinality(outs))
    BY DEF MergeDone, outs
  <2>5. StackTyped
    BY InvParts
  <2> QED  BY <2>3, <2>4, <2>5, LastStages DEF Push, Pop, StackTyped
<1>4. BeforeCount'
  <2>1. CASE ~online
    BY <1>1, <2>1 DEF BeforeCount
  <2>2. CASE online
    <3>1. converted /\ Early = {}
      BY <1>1, <2>2, LaterJob DEF Order
    <3> QED  BY <1>1, <1>2, <3>1, StaysCounted
  <2> QED  BY <2>1, <2>2
<1>5. OnePage'
  <2>1. CASE ~(online /\ pageCount = 1)
    BY <1>1, <2>1 DEF OnePage
  <2>2. CASE online /\ pageCount = 1
    <3>1. j.page # "other" /\ NoOthers(disk)
      BY <1>1, <2>2 DEF Order, OnePage
    <3>2. NoOthers(disk')
      BY <1>1, <3>1, WrittenNoOthers
    <3> QED  BY <1>1, <1>2, <3>2, StaysOnePage DEF Order
  <2> QED  BY <2>1, <2>2
<1>6. Announced' /\ PreviewComesFirst'
  BY <1>1, <1>3, StaysAnnounced DEF Order
<1> QED  BY <1>4, <1>5, <1>6 DEF Order

\* When the first pages are joined, a document of one page has no jobs for it.
LEMMA JoinInOrder ==
  ASSUME Inv, Order, online, NEW j \in jobs, j.kind = "png", NEW d, Files(d),
         NoOthers(disk) => NoOthers(d), CatFirstPages(j, d),
         pageCount' = pageCount, online' = online, converted' = converted,
         printed' = printed, previewed' = previewed + 1
  PROVE  Order'
<1> DEFINE firsts == Found(d, "out", {"first"})
           joined == {f \in firsts : \E g \in Found(d, "out", {"other"}) :
                                       g.copy = f.copy}
           renamed == {f \in firsts \ joined :
                         \A g \in Found(d, "out", {"face"}) : g.copy # f.copy}
           cats == {JobOn("cat", f) : f \in joined}
           after == (d \ renamed) \cup {[f EXCEPT !.page = "face"] : f \in renamed}
           n == Cardinality(CopyDirs)
           popped == Push(Pop("png"), "cat", n)
           inputs == PsInputs(after)
           pss == {JobOn("ps", f) : f \in inputs}
<1>1. /\ disk' = after
      /\ \/ /\ pageCount = 1 /\ StartJobs({j}, cats \cup pss)
            /\ stack' = Push(popped, "ps", Cardinality(inputs))
         \/ /\ pageCount # 1 /\ StartJobs({j}, cats)
            /\ stack' = popped
  BY DEF CatFirstPages
<1>2. Files(after)
  <2>1. renamed \in SUBSET firsts
    OBVIOUS
  <2>2. \A f \in renamed : \A g \in Found(d, "out", {"face"}) : g.copy # f.copy
    OBVIOUS
  <2> HIDE DEF renamed
  <2> QED  BY <2>1, <2>2, RenamedFiles
<1>3. NoOthers(d) => NoOthers(after)
  <2>1. \A f \in renamed : f \in File
    BY DEF Found, Files
  <2>2. \A f \in renamed : [f EXCEPT !.page = "face"].page = "face"
    BY <2>1 DEF File
  <2> HIDE DEF renamed
  <2> QED  BY <2>2 DEF NoOthers, Found
<1>4. Cardinality(inputs) \in Nat /\ n \in Nat
  <2> HIDE DEF after
  <2> QED  BY <1>2, FoundFiles, CountOfFiles, CopiesFinite DEF PsInputs
<1>5. (\A x \in cats : x.kind = "cat") /\ (\A x \in pss : x.kind = "ps")
  <2>1. \A kind, f : JobOn(kind, f).kind = kind
    BY DEF JobOn
  <2> HIDE DEF joined, inputs
  <2> QED  BY <2>1
<1>6. NoOthers(d) => cats = {}
  BY DEF NoOthers
<1>7. StackTyped /\ printed \in Nat /\ previewed \in Nat
  BY InvParts DEF TypeOK
<1> HIDE DEF after, inputs, cats, pss, n
<1>8. BeforeCount'
  <2>1. converted /\ Early = {}
    BY LaterJob DEF Order
  <2>2. \A x \in jobs' : x \in jobs \/ x.kind \in {"cat", "ps"}
    BY <1>1, <1>5 DEF StartJobs
  <2> QED  BY <2>1, <2>2, StaysCounted
<1>9. OnePage'
  <2>1. CASE pageCount # 1
    BY <2>1 DEF OnePage
  <2>2. CASE pageCount = 1
    <3>1. NoOthers(d) /\ NoOthers(disk') /\ cats = {}
      BY <1>1, <1>3, <1>6, <2>2 DEF Order, OnePage
    <3>2. \A x \in jobs' : x \in jobs \/ x.kind = "ps"
      BY <1>1, <1>5, <2>2, <3>1 DEF StartJobs
    <3> QED  BY <3>1, <3>2, StaysOnePage DEF Order
  <2> QED  BY <2>1, <2>2
<1>10. Announced' /\ PreviewComesFirst'
  <2>1. /\ printed + Filled("ps") <= previewed
        /\ Filled("ps") \in {0, 1} /\ Filled("cat") \in {0, 1}
    BY <1>7 DEF Order, Announced, Filled
  <2>2. Filled("ps")' \in {0, 1} /\ Filled("cat")' \in {0, 1}
    BY DEF Filled
  <2>3. CASE pageCount = 1
    BY <1>7, <2>1, <2>2, <2>3 DEF Announced, PreviewComesFirst
  <2>4. CASE pageCount # 1
    <3>1. Filled("ps")' = Filled("ps")
      <4>1. stack' = popped
        BY <1>1, <2>4
      <4>2. stack'["ps"] = stack["ps"]
        BY <1>4, <1>7, <4>1, LastStages DEF Push, Pop, StackTyped
      <4> QED  BY <4>2 DEF Filled
    <3> QED
      BY <1>7, <2>1, <2>2, <2>4, <3>1 DEF Announced, PreviewComesFirst
  <2> QED  BY <2>3, <2>4
<1> QED  BY <1>8, <1>9, <1>10 DEF Order

LEMMA PngDoneInOrder ==
  ASSUME Inv, Order, NEW j \in jobs, PngDone(j)
  PROVE  Order'
<1> DEFINE d == Written(j, j.page, "png")
<1>1. /\ online' = online /\ pageCount' = pageCount /\ printed' = printed
      /\ converted' = converted /\ j.kind = "png"
  BY DEF PngDone, session
<1>2. Files(d)
  BY InvParts, WrittenFiles DEF JobsTyped, Job, Stages
<1>3. NoOthers(disk) => NoOthers(d)
  BY WrittenNoOthers
<1>4. CASE ~online
  <2>1. previewed' = previewed
    BY <1>4 DEF PngDone, Inv, TypeOK
  <2> QED
    BY <1>1, <1>4, <2>1 DEF Order, BeforeCount, OnePage, Announced, PreviewComesFirst
<1>5. CASE online /\ stack["png"] = 1
  <2>1. CatFirstPages(j, d) /\ previewed' = previewed + 1
    BY <1>5 DEF PngDone
  <2> HIDE DEF d
  <2> QED  BY <1>1, <1>2, <1>3, <1>5, <2>1, JoinInOrder
<1>6. CASE online /\ stack["png"] # 1
  <2>1. /\ disk' = d /\ stack' = Pop("png") /\ previewed' = previewed
        /\ jobs' \subseteq jobs
    BY <1>6 DEF PngDone, StartJobs
  <2>2. stack'["ps"] = stack["ps"] /\ stack'["cat"] = stack["cat"]
    BY <2>1, InvParts, LastStages DEF Pop, StackTyped
  <2>3. converted /\ Early = {}
    BY <1>1, <1>6, LaterJob DEF Order
  <2>4. BeforeCount'
    BY <1>1, <2>1, <2>3, StaysCounted
  <2>5. OnePage'
    <3> HIDE DEF d
    <3> QED  BY <1>1, <1>3, <2>1, StaysOnePage DEF Order
  <2>6. Announced' /\ PreviewComesFirst'
    BY <1>1, <2>1, <2>2, StaysAnnounced DEF Order, signals
  <2> QED  BY <2>4, <2>5, <2>6 DEF Order
<1> QED  BY <1>4, <1>5, <1>6

LEMMA CatDoneInOrder ==
  ASSUME Inv, Order, NEW j \in jobs, CatDone(j)
  PROVE  Order'
<1> DEFINE m == Cardinality(PsInputs(disk'))
<1>1. /\ online' = online /\ pageCount' = pageCount /\ UNCHANGED signals
      /\ converted' = converted /\ j.kind = "cat"
      /\ disk' = Written(j, "face", "out")
      /\ stack' = IF stack["cat"] = 1 THEN Push(Pop("cat"), "ps", m) ELSE Pop("cat")
  BY DEF CatDone, session
<1>2. CASE ~online
  BY <1>1, <1>2
  DEF Order, BeforeCount, OnePage, Announced, PreviewComesFirst, signals
<1>3. CASE online
  <2>1. pageCount # 1
    BY <1>1, <1>3 DEF Order, OnePage
  <2>2. \A x \in jobs' : x \in jobs \/ x.kind = "ps"
    BY DEF CatDone, StartJobs, JobOn
  <2>3. converted /\ Early = {}
    BY <1>1, <1>3, LaterJob DEF Order
  <2>4. BeforeCount'
    BY <1>1, <2>2, <2>3, StaysCounted
  <2>5. OnePage'
    BY <1>1, <2>1 DEF OnePage
  <2>6. m \in Nat
    <3>1. Files(disk')
      BY <1>1, InvParts, WrittenFiles DEF JobsTyped, PageNames, Stages
    <3> QED  BY <3>1, FoundFiles, CountOfFiles DEF PsInputs
  <2> HIDE DEF m
  <2>7. Filled("ps")' + Filled("cat")' <= Filled("ps") + Filled("cat")
    <3> DEFINE c == stack["cat"]
               p == stack["ps"]
    <3>1. c \in Int /\ p \in Int
      BY InvParts, LastStages DEF StackTyped
    <3>2. CASE c = 1
      <4>1. stack'["cat"] = 0
        BY <1>1, <2>6, <3>2, InvParts, LastStages DEF Push, Pop, StackTyped
      <4> QED  BY <3>2, <4>1 DEF Filled
    <3>3. CASE c # 1
      <4>1. stack'["cat"] = c - 1 /\ stack'["ps"] = p
        BY <1>1, <3>3, InvParts, LastStages DEF Pop, StackTyped
      <4> HIDE DEF c, p
      <4> QED  BY <3>1, <3>3, <4>1 DEF Filled, c, p
    <3> QED  BY <3>2, <3>3
  <2>8. /\ printed + Filled("ps") + Filled("cat") <= previewed
        /\ printed \in Nat /\ previewed \in Nat
        /\ Filled("ps") \in {0, 1} /\ Filled("cat") \in {0, 1}
        /\ Filled("ps")' \in {0, 1} /\ Filled("cat")' \in {0, 1}
    BY <1>3, <2>1 DEF Order, Announced, Filled, Inv, TypeOK
  <2>9. printed' = printed /\ previewed' = previewed
    BY <1>1 DEF signals
  <2>10. Announced' /\ PreviewComesFirst'
    BY <1>1, <2>1, <2>7, <2>8, <2>9 DEF Announced, PreviewComesFirst
  <2> QED  BY <2>4, <2>5, <2>10 DEF Order
<1> QED  BY <1>2, <1>3

LEMMA PsDoneInOrder ==
  ASSUME Inv, Order, NEW j \in jobs, PsDone(j)
  PROVE  Order'
<1>1. /\ online' = online /\ pageCount' = pageCount /\ previewed' = previewed
      /\ converted' = converted /\ j.kind = "ps"
      /\ disk' = Written(j, j.page, "prn") /\ stack' = Pop("ps")
      /\ jobs' \subseteq jobs
      /\ printed' = printed + (IF online /\ stack["ps"] = 1 THEN 1 ELSE 0)
  BY DEF PsDone, session, StartJobs
<1>2. printed \in Nat /\ previewed \in Nat
  BY DEF Inv, TypeOK
<1>3. CASE ~online
  <2>1. printed' = printed
    BY <1>1, <1>2, <1>3
  <2> QED
    BY <1>1, <1>3, <2>1 DEF Order, BeforeCount, OnePage, Announced, PreviewComesFirst
<1>4. CASE online
  <2>1. converted /\ Early = {}
    BY <1>1, <1>4, LaterJob DEF Order
  <2>2. BeforeCount'
    BY <1>1, <2>1, StaysCounted
  <2>3. OnePage'
    <3>1. NoOthers(disk) => NoOthers(disk')
      BY <1>1, WrittenNoOthers
    <3> QED  BY <1>1, <3>1, StaysOnePage DEF Order
  <2>4. Announced' /\ PreviewComesFirst'
    <3> DEFINE p == stack["ps"]
               c == IF pageCount = 1 THEN 0 ELSE Filled("cat")
    <3>1. p \in Int /\ stack'["ps"] = p - 1 /\ stack'["cat"] = stack["cat"]
      BY <1>1, InvParts, LastStages DEF Pop, StackTyped
    <3>2. c' = c /\ c \in {0, 1}
      BY <1>1, <3>1 DEF Filled
    <3>3. Filled("ps")' = (IF p > 1 THEN 1 ELSE 0) /\ Filled("ps") = (IF p > 0 THEN 1 ELSE 0)
      <4> HIDE DEF p
      <4> QED  BY <3>1 DEF Filled, p
    <3>4. printed + Filled("ps") + c <= previewed
      BY <1>4 DEF Order, Announced
    <3>5. printed' = printed + (IF p = 1 THEN 1 ELSE 0)
      BY <1>1, <1>4
    <3> HIDE DEF p, c
    <3>6. printed' + Filled("ps")' + c' <= previewed' /\ printed' <= previewed'
      BY <1>1, <1>2, <3>1, <3>2, <3>3, <3>4, <3>5
    <3> QED  BY <3>6 DEF Announced, PreviewComesFirst, c
  <2> QED  BY <2>2, <2>3, <2>4 DEF Order
<1> QED  BY <1>3, <1>4

LEMMA SessionInOrder ==
  ASSUME Order, Restart \/ ClientGone \/ UNCHANGED vars
  PROVE  Order'
<1>1. CASE Restart
  <2>1. NoOthers({})
    BY DEF NoOthers, Found
  <2> QED
    BY <1>1, <2>1
    DEF Restart, Order, BeforeCount, NotCounted, Early, OnePage, Announced, Filled,
        PreviewComesFirst, signals
<1>2. CASE ClientGone
  BY <1>2
  DEF ClientGone, Order, BeforeCount, OnePage, Announced, PreviewComesFirst, signals
<1>3. CASE UNCHANGED vars
  BY <1>3
  DEF vars, session, signals, Order, BeforeCount, NotCounted, Early, OnePage,
      Announced, Filled, PreviewComesFirst
<1> QED  BY <1>1, <1>2, <1>3

\* A document is announced for printing no more often than for the preview,
\* whatever is prepared again before it is finished, and whatever fails.
THEOREM PreviewFirst == Spec => []PreviewComesFirst
<1>1. Init => Order
  <2> SUFFICES ASSUME Init PROVE Order
    OBVIOUS
  <2>1. stack["cat"] = 0 /\ stack["ps"] = 0
    BY LastStages DEF Init
  <2> QED
    BY <2>1
    DEF Init, Order, BeforeCount, OnePage, Announced, Filled, PreviewComesFirst
<1>2. Inv /\ Order /\ [Next]_vars => Order'
  <2> SUFFICES ASSUME Inv, Order, [Next]_vars PROVE Order'
    OBVIOUS
  <2>1. CASE Convert2Pdf
    BY <2>1, ConvertInOrder
  <2>2. ASSUME NEW t \in Templates, CreateFormatedDoc(t) PROVE Order'
    BY <2>2, CreateInOrder
  <2>3. ASSUME NEW t \in Templates, NEW broken \in SUBSET DOMAIN t \ {{}},
               TemplateBroken(t, broken)
        PROVE  Order'
    BY <2>3, BrokenInOrder
  <2>4. ASSUME NEW j \in jobs, JobFails(j) PROVE Order'
    BY <2>4, FailInOrder
  <2>5. ASSUME NEW j \in jobs, JobDone(j) PROVE Order'
    BY <2>5, FirstJobsInOrder, CountInOrder, MergeDoneInOrder, PngDoneInOrder,
       CatDoneInOrder, PsDoneInOrder DEF JobDone
  <2>6. CASE Restart \/ ClientGone \/ UNCHANGED vars
    BY <2>6, SessionInOrder
  <2> QED  BY <2>1, <2>2, <2>3, <2>4, <2>5, <2>6 DEF Next
<1>3. Order => PreviewComesFirst
  BY DEF Order
<1> QED  BY <1>1, <1>2, <1>3, InvHolds, PTL DEF Spec

=============================================================================
