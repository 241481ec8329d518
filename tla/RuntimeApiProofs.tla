-------------------------- MODULE RuntimeApiProofs --------------------------
(***************************************************************************)
(* Proofs about RuntimeApi: the services keep all their properties beside  *)
(* the runtime's own API, and what that API answers is right.              *)
(***************************************************************************)
EXTENDS RuntimeApi, ServicesProofs

-----------------------------------------------------------------------------
(* The services go on as they did *)

LEMMA StepIsServices == [ApiNext]_apiAllVars => [Next]_vars
<1> SUFFICES ASSUME [ApiNext]_apiAllVars
             PROVE  [Next]_vars
    OBVIOUS
<1>1. CASE NodeStep
    BY <1>1 DEF NodeStep, Next
<1>2. CASE StartNextApi
    BY <1>2 DEF StartNextApi, Next
<1>3. CASE RequestPage \/ PageFails \/ PageAnswers
    BY <1>3 DEF RequestPage, PageFails, PageAnswers
<1>4. ASSUME NEW i \in Instances, ReadEntry(i)
      PROVE  UNCHANGED vars
    BY <1>4 DEF ReadEntry
<1>5. ASSUME NEW parts \in Requests, Upload(parts)
      PROVE  UNCHANGED vars
    BY <1>5 DEF Upload
<1>6. CASE UNCHANGED apiAllVars
    BY <1>6 DEF apiAllVars
<1> QED
    BY <1>1, <1>2, <1>3, <1>4, <1>5, <1>6 DEF ApiNext

\* What the page and the uploads add takes nothing from the services: every
\* theorem about Services holds of the whole runtime.
THEOREM ImplementsServices == ApiSpec => Spec
<1>1. ApiInit => Init
    BY DEF ApiInit
<1> QED
    BY <1>1, StepIsServices, PTL DEF ApiSpec, Spec

-----------------------------------------------------------------------------
(* The inductive invariant *)

\* Only an API in the table gets any further, and an entry that was read stays
\* what it was.
PageInv ==
    /\ \A i \in Instances : api[i] # "none" => i \in apis
    /\ page \in [state : {"idle", "reading", "answered", "failed"},
                 start : SUBSET Instances, read : SUBSET Instances]
    /\ page.start \subseteq apis
    /\ \A i \in page.read : api[i] = "up"
    /\ page.state = "answered" => page.read = page.start

FilesInv ==
    /\ files \in Folders
    /\ answered \in [FileNames -> Bodies \union {NoFile}]
    /\ opened \subseteq FileNames
    /\ AnsweredIsStored

ApiIInv == IInv /\ PageInv /\ FilesInv

LEMMA InitApiIInv == ApiInit => ApiIInv
<1> SUFFICES ASSUME ApiInit
             PROVE  ApiIInv
    OBVIOUS
<1>1. IInv
    BY InitIInv DEF ApiInit
<1>2. PageInv
    BY DEF ApiInit, Init, PageInv
<1>3. FilesInv
    BY RuntimeApiAssumption DEF ApiInit, FilesInv, Folders, AnsweredIsStored
<1> QED
    BY <1>1, <1>2, <1>3 DEF ApiIInv

\* The table only grows, an API that is up stays up, and only an API of the
\* table is ever begun to be started.
LEMMA ApisOnlyGrow ==
    ASSUME TypeOK, ListedIsAccepted, [Next]_vars,
           \A i \in Instances : api[i] # "none" => i \in apis
    PROVE  /\ apis \subseteq apis'
           /\ \A i \in Instances : api[i] = "up" => api'[i] = "up"
           /\ \A i \in Instances : api'[i] # "none" => i \in apis'
<1> DEFINE Goal == /\ apis \subseteq apis'
                   /\ \A i \in Instances : api[i] = "up" => api'[i] = "up"
                   /\ \A i \in Instances : api'[i] # "none" => i \in apis'
<1>1. ASSUME NEW i \in Instances, AddService(i)
      PROVE  Goal
  <2>1. CASE StartWithApi(i)
    <3>1. api \in [Instances -> {"none", "queued", "up", "half", "failed"}]
        BY DEF TypeOK
    <3>2. i \notin apis
        BY <2>1 DEF StartWithApi, Constructed, ListedIsAccepted
    <3>3. api' = [api EXCEPT ![i] = "queued"] /\ apis' = apis \union {i}
        BY <2>1 DEF StartWithApi
    <3> QED
        BY <3>1, <3>2, <3>3
  <2>2. CASE ConstructorRaises(i) \/ StartWithoutApi(i) \/ WireApiFails(i)
    BY <2>2 DEF ConstructorRaises, StartWithoutApi, WireApiFails, apiVars
  <2> QED
    BY <1>1, <2>1, <2>2 DEF AddService
<1>2. ASSUME NEW i \in Instances, StartApi(i)
      PROVE  Goal
  <2>1. api \in [Instances -> {"none", "queued", "up", "half", "failed"}]
    BY DEF TypeOK
  <2> QED
    BY <1>2, <2>1 DEF StartApi
<1>3. ASSUME NEW i \in Instances, ExecuteRaises(i) \/ Visit(i)
      PROVE  Goal
    BY <1>3 DEF ExecuteRaises, Visit, VisitReturns, VisitFails, VisitWritesSnapshot, apiVars
<1>4. CASE Pass
    BY <1>4 DEF Pass, BeforeCommit, StateHashes, AfterCommit, Commit, EndPass, BeginPass, apiVars
<1>5. CASE UNCHANGED vars
    BY <1>5 DEF vars, apiVars
<1> QED
    BY <1>1, <1>2, <1>3, <1>4, <1>5 DEF Next

LEMMA NextPageInv ==
    IInv /\ PageInv /\ [ApiNext]_apiAllVars => PageInv'
<1> SUFFICES ASSUME IInv, PageInv, [ApiNext]_apiAllVars
             PROVE  PageInv'
    OBVIOUS
<1>1. /\ apis \subseteq apis'
      /\ \A i \in Instances : api[i] = "up" => api'[i] = "up"
      /\ \A i \in Instances : api'[i] # "none" => i \in apis'
    BY StepIsServices, ApisOnlyGrow DEF IInv, PageInv
<1>2. CASE UNCHANGED page
    BY <1>1, <1>2 DEF PageInv
<1>3. CASE RequestPage
    BY <1>1, <1>3 DEF RequestPage, PageInv, IInv, TypeOK
<1>4. ASSUME NEW i \in Instances, ReadEntry(i)
      PROVE  PageInv'
    BY <1>1, <1>4 DEF ReadEntry, Reading, Mapped, PageInv
<1>5. CASE PageFails
    BY <1>1, <1>5 DEF PageFails, PageInv
<1>6. CASE PageAnswers
    BY <1>1, <1>6 DEF PageAnswers, Reading, Grown, PageInv
<1> QED
    BY <1>2, <1>3, <1>4, <1>5, <1>6
       DEF ApiNext, NodeStep, StartNextApi, Upload, apiAllVars, pageVars

\* No other name of the path of name is ever given.
NoOther(name, names) == \A other \in names : Path[other] = Path[name] => other = name

\* A name the listing does not have, if it can have it, has no file: nothing that
\* was answered for it counts on the folder any more.
LEMMA GivenWereNotThere ==
    ASSUME FilesInv, NEW parts, Checked(parts), NEW n \in DOMAIN parts,
           parts[n].name \in PlainNames, NoOther(parts[n].name, opened)
    PROVE  answered[parts[n].name] = NoFile
<1>1. files[Path[parts[n].name]] = NoFile
    BY DEF Checked, Listing
<1> QED
    BY <1>1 DEF FilesInv, AnsweredIsStored, NoOther

\* When no other name of its path is given, a name is updated as its path is.
LEMMA NameAndPathAgree ==
    ASSUME NEW m \in Nat, NEW parts \in [1..m -> [name : FileNames \union BadNames, body : Bodies]],
           \A k \in 1..m : parts[k].name \in FileNames,
           NEW name \in FileNames, NoOther(name, {parts[k].name : k \in 1..m}),
           NEW folder, NEW replies, answered \in [FileNames -> Bodies \union {NoFile}],
           files \in Folders,
           Updates(folder, files, Path, parts, m),
           Updates(replies, answered, [x \in FileNames |-> x], parts, m),
           NEW n \in 1..m, parts[n].name = name
    PROVE  folder[Path[name]] = replies[name]
<1> DEFINE given == {k \in 1..m : parts[k].name = name}
           paths == {k \in 1..m : Path[parts[k].name] = Path[name]}
           names == {k \in 1..m : [x \in FileNames |-> x][parts[k].name] = name}
<1>1. paths = given
    BY DEF NoOther
<1>2. names = given
    OBVIOUS
<1>3. Path[name] \in Paths /\ n \in given /\ DOMAIN files = Paths /\ DOMAIN answered = FileNames
    BY RuntimeApiAssumption DEF Folders
<1>4. \E k \in paths : (\A l \in paths : l <= k) /\ folder[Path[name]] = parts[k].body
    BY <1>1, <1>3 DEF Updates
<1>5. \E k \in names : (\A l \in names : l <= k) /\ replies[name] = parts[k].body
    BY <1>2, <1>3 DEF Updates
<1> HIDE DEF paths, names
<1>6. PICK k \in given : (\A l \in given : l <= k) /\ folder[Path[name]] = parts[k].body
    BY <1>1, <1>4
<1>7. PICK j \in given : (\A l \in given : l <= j) /\ replies[name] = parts[j].body
    BY <1>2, <1>5
<1>8. k = j
    <2>1. k <= j /\ j <= k /\ k \in Nat /\ j \in Nat
        BY <1>6, <1>7
    <2> QED
        BY <2>1
<1> QED
    BY <1>6, <1>7, <1>8

\* Only names the folder did not list are written, and the answer gives what
\* the folder then has.
LEMMA NextFilesInv ==
    FilesInv /\ [ApiNext]_apiAllVars => FilesInv'
<1> SUFFICES ASSUME FilesInv, [ApiNext]_apiAllVars
             PROVE  FilesInv'
    OBVIOUS
<1>1. CASE UNCHANGED fileVars
    BY <1>1 DEF FilesInv, AnsweredIsStored, fileVars
<1>2. ASSUME NEW parts \in Requests, Upload(parts)
      PROVE  FilesInv'
  <2>1. PICK m \in 0..MaxFiles :
            parts \in [1..m -> [name : FileNames \union BadNames, body : Bodies]]
    BY DEF Requests
  <2>2. DOMAIN parts = 1..m /\ Len(parts) = m /\ m \in Nat
    BY <2>1, RuntimeApiAssumption
  <2>3. Checked(parts) /\ \A k \in 1..m : parts[k].name \in FileNames
    BY <1>2, <2>2 DEF Upload, Checked
  <2>4. /\ answered \in [FileNames -> Bodies \union {NoFile}]
        /\ files \in Folders /\ opened \subseteq FileNames
        /\ \A name \in PlainNames : name \in FileNames /\ Path[name] \in Paths
    BY RuntimeApiAssumption DEF FilesInv
  <2> DEFINE Named(n) == {parts[k].name : k \in 1..n}
  <2>5. ASSUME NEW n \in 0..m
        PROVE  opened \union Named(n) \subseteq FileNames
    BY <2>3, <2>4
  <2>6. ASSUME NEW name \in PlainNames, NEW n \in 0..m, NEW folder,
               NoOther(name, opened \union Named(n)), \A k \in 1..n : parts[k].name # name,
               Stores(folder, parts, n)
        PROVE  folder[Path[name]] = files[Path[name]]
    <3>1. \A k \in 1..n : Path[parts[k].name] # Path[name]
        BY <2>6 DEF NoOther
    <3>2. Updates(folder, files, Path, parts, n) /\ DOMAIN files = Paths
        BY <2>4, <2>6 DEF Stores, Folders
    <3> QED
        BY <2>4, <3>1, <3>2 DEF Updates
  <2>7. ASSUME files' \in Folders, Stores(files', parts, m), Answers(parts)
        PROVE  FilesInv'
    <3>1. opened' = opened \union Named(m) /\ opened' \subseteq FileNames
        BY <2>2, <2>5, <2>7 DEF Stores
    <3>2. SUFFICES ASSUME NEW name \in PlainNames, answered'[name] # NoFile, NoOther(name, opened')
                   PROVE  files'[Path[name]] = answered'[name]
        BY <2>7, <3>1 DEF FilesInv, AnsweredIsStored, Answers, NoOther
    <3>3. NoOther(name, opened) /\ NoOther(name, Named(m))
        BY <3>1, <3>2 DEF NoOther
    <3>4. /\ Updates(files', files, Path, parts, m)
          /\ Updates(answered', answered, [x \in FileNames |-> x], parts, m)
        BY <2>2, <2>7 DEF Stores, Answers
    <3>5. CASE \E n \in 1..m : parts[n].name = name
        BY <2>1, <2>2, <2>3, <2>4, <3>3, <3>4, <3>5, NameAndPathAgree
    <3>6. CASE \A n \in 1..m : parts[n].name # name
        <4>1. files'[Path[name]] = files[Path[name]]
            BY <2>2, <2>6, <2>7, <3>1, <3>2, <3>6
        <4>2. answered'[name] = answered[name]
            BY <2>3, <2>4, <3>4, <3>6 DEF Updates
        <4> QED
            BY <3>2, <3>3, <4>1, <4>2 DEF FilesInv, AnsweredIsStored, NoOther
    <3> QED
        BY <3>5, <3>6
  <2>8. ASSUME NEW n \in 1..m, FailsAt(parts, n), UNCHANGED answered
        PROVE  FilesInv'
    <3>1. PICK folder \in Folders :
            \/ Stores(folder, parts, n - 1) /\ files' = folder
            \/ Stores(folder, parts, n) /\ files' = [folder EXCEPT ![Path[parts[n].name]] = Torn]
        BY <2>8 DEF FailsAt
    <3>2. PICK j \in 0..m :
            /\ Stores(folder, parts, j)
            /\ \/ files' = folder
               \/ j = n /\ files' = [folder EXCEPT ![Path[parts[n].name]] = Torn]
        <4>1. n - 1 \in 0..m /\ n \in 0..m
            BY <2>2
        <4> QED
            BY <3>1, <4>1
    <3>3. opened' = opened \union Named(j) /\ opened' \subseteq FileNames
        BY <2>5, <3>2 DEF Stores
    <3>4. files' \in Folders
        BY <3>2 DEF Folders
    <3>5. SUFFICES ASSUME NEW name \in PlainNames, answered[name] # NoFile, NoOther(name, opened')
                   PROVE  files'[Path[name]] = answered[name]
        BY <2>4, <2>8, <3>3, <3>4 DEF FilesInv, AnsweredIsStored, NoOther
    <3>6. NoOther(name, opened)
        BY <3>3, <3>5 DEF NoOther
    <3>7. \A k \in 1..m : parts[k].name # name
        BY <2>2, <2>3, <3>5, <3>6, GivenWereNotThere
    <3>8. folder[Path[name]] = files[Path[name]]
        <4>1. \A k \in 1..j : parts[k].name # name
            BY <2>2, <3>7
        <4> QED
            BY <2>6, <3>2, <3>3, <3>5, <4>1
    <3>9. ASSUME j = n
          PROVE  Path[parts[n].name] # Path[name]
        <4>1. parts[n].name \in Named(j)
            BY <2>2, <3>9
        <4> QED
            BY <3>3, <3>5, <3>7, <4>1 DEF NoOther
    <3>10. files'[Path[name]] = folder[Path[name]]
        BY <2>4, <3>2, <3>9 DEF Folders
    <3> QED
        BY <3>5, <3>6, <3>8, <3>10 DEF FilesInv, AnsweredIsStored, NoOther
  <2> QED
    BY <1>2, <2>2, <2>7, <2>8 DEF Upload
<1> QED
    BY <1>1, <1>2 DEF ApiNext, NodeStep, StartNextApi, RequestPage, PageFails, PageAnswers,
                      ReadEntry, apiAllVars

LEMMA NextApiIInv == ApiIInv /\ [ApiNext]_apiAllVars => ApiIInv'
BY StepIsServices, NextIInv, NextPageInv, NextFilesInv DEF ApiIInv

-----------------------------------------------------------------------------
(* The theorems *)

\* The strengthening is an invariant of the runtime with its API.
THEOREM ApiInductiveInvariant == ApiSpec => []ApiIInv
BY InitApiIInv, NextApiIInv, PTL DEF ApiSpec

\* Every variable of the services, the page and the folder keeps its type.
THEOREM ApiTypeCorrect == ApiSpec => []ApiTypeOK
<1>1. ApiIInv => ApiTypeOK
    BY DEF ApiIInv, IInv, PageInv, FilesInv, ApiTypeOK
<1> QED
    BY <1>1, ApiInductiveInvariant, PTL

\* A page that is answered lists every API entered before the request, each of
\* them up, for any number of services and however they are started and stopped
\* meanwhile.
THEOREM PagesAreRight == ApiSpec => []PageIsRight
<1>1. ApiIInv => PageIsRight
    BY DEF ApiIInv, PageInv, PageIsRight
<1> QED
    BY <1>1, ApiInductiveInvariant, PTL

\* The page fails only over an API that is not up, or one entered meanwhile.
THEOREM PagesFailForAReason == ApiSpec => PageFailsOnlyIf
<1> DEFINE FailsForAReason ==
        page.state = "reading" /\ page'.state = "failed" =>
            \/ \E i \in apis : api[i] # "up"
            \/ apis \ page.start # {}
<1>1. ApiIInv /\ [ApiNext]_apiAllVars => [FailsForAReason]_apiAllVars
  <2> SUFFICES ASSUME ApiIInv, [ApiNext]_apiAllVars,
                      page.state = "reading", page'.state = "failed"
               PROVE  \/ \E i \in apis : api[i] # "up"
                      \/ apis \ page.start # {}
    OBVIOUS
  <2>1. PageFails
    <3>1. page' # page
        OBVIOUS
    <3>2. ASSUME NEW i \in Instances, ReadEntry(i)
          PROVE  FALSE
        BY <3>2 DEF ReadEntry, ApiIInv, PageInv
    <3>3. ~RequestPage
        BY DEF RequestPage, LoopFree
    <3>4. ~PageAnswers
        BY DEF PageAnswers, ApiIInv, PageInv
    <3> QED
        BY <3>1, <3>2, <3>3, <3>4
           DEF ApiNext, NodeStep, StartNextApi, Upload, apiAllVars, pageVars
  <2> QED
    BY <2>1 DEF PageFails, Grown, Mapped, ApiIInv, PageInv
<1> QED
    BY <1>1, ApiInductiveInvariant, PTL DEF ApiSpec, PageFailsOnlyIf

\* A file whose hash was answered under a name the folder lists is never
\* anything else, unless another name of its path is given: for any names, paths,
\* bodies and sizes of requests.
THEOREM FilesAreKept == ApiSpec => []AnsweredIsStored
<1>1. ApiIInv => AnsweredIsStored
    BY DEF ApiIInv, FilesInv
<1> QED
    BY <1>1, ApiInductiveInvariant, PTL
=============================================================================
