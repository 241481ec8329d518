----------------------------- MODULE RuntimeApi -----------------------------
(***************************************************************************)
(* The runtime's own HTTP API beside the services. Its handlers run on the *)
(* event loop thread, one after the other and never while ServiceApi.start *)
(* does, but the node thread starts and stops instances all the time:      *)
(* GET / lists the APIs from a dictionary that may grow while it is read.  *)
(* POST /artifacts stores files for later deployments: it compares the     *)
(* names it is given with those in the folder, and writes to the paths they *)
(* lead to. Several names may lead to one path ("a.whl" and "./a.whl").    *)
(***************************************************************************)
EXTENDS Services, Sequences

CONSTANTS
    FileNames,  \* names with an extension that is accepted
    BadNames,   \* names with another
    PlainNames, \* names of FileNames a listing of the folder can give
    Paths,
    Path,       \* where a name leads to from the folder
    Bodies,     \* contents of uploaded files
    NoFile,
    Torn,       \* what a write that fails leaves
    MaxFiles,   \* bound: files of one request
    UploadBlocks \* bound: blocks beside which files are uploaded

ASSUME RuntimeApiAssumption ==
    /\ FileNames \intersect BadNames = {} /\ PlainNames \subseteq FileNames
    /\ Path \in [FileNames -> Paths]
    /\ \A name, other \in PlainNames : Path[name] = Path[other] => name = other
    /\ NoFile \notin Bodies /\ Torn \notin Bodies /\ NoFile # Torn
    /\ MaxFiles \in Nat /\ UploadBlocks \in Nat

VARIABLES
    page,       \* the state page: [state, start, read]
    files,      \* what is stored at a path
    answered,   \* history: the body whose hash the last answer gave for a name
    opened      \* history: the names under which a file was opened and written

pageVars == <<page>>
fileVars == <<files, answered, opened>>
apiAllVars == <<vars, pageVars, fileVars>>

Folders == [Paths -> Bodies \union {NoFile, Torn}]

\* The folder is what earlier launches left.
ApiInit ==
    /\ Init
    /\ page = [state |-> "idle", start |-> {}, read |-> {}]
    /\ files \in Folders
    /\ answered = [name \in FileNames |-> NoFile]
    /\ opened = {}

\* No handler of the event loop thread is in the middle of its work.
LoopFree == page.state # "reading" /\ ~aborted

-----------------------------------------------------------------------------
(* GET / *)

\* The dictionary itself is handed out, and an iterator over it is made.
RequestPage ==
    /\ LoopFree
    /\ page' = [state |-> "reading", start |-> apis, read |-> {}]
    /\ UNCHANGED <<vars, fileVars>>

Reading == page.state = "reading" /\ ~aborted

\* Python notices that the dictionary has not the size it had. (Entries are
\* assigned for names that come once only, and never deleted.)
Grown == apis # page.start

\* Fault: what an API serves is known before it serves it.
MappedEarly(i) == api[i] # "none"

\* _api_map is assigned at the very end of ServiceApi.start.
Mapped(i) == api[i] = "up"

ReadEntry(i) ==
    /\ Reading /\ ~Grown
    /\ i \in apis \ page.read /\ Mapped(i)
    /\ page' = [page EXCEPT !.read = @ \union {i}]
    /\ UNCHANGED <<vars, fileVars>>

\* RuntimeError for the size, or AttributeError for the entry: the answer is
\* 500.
PageFails ==
    /\ Reading
    /\ Grown \/ \E i \in apis \ page.read : ~Mapped(i)
    /\ page' = [state |-> "failed", start |-> {}, read |-> {}]
    /\ UNCHANGED <<vars, fileVars>>

PageAnswers ==
    /\ Reading /\ ~Grown
    /\ page.read = apis
    /\ page' = [page EXCEPT !.state = "answered"]
    /\ UNCHANGED <<vars, fileVars>>

-----------------------------------------------------------------------------
(* POST /artifacts *)

\* The files of a request, in order.
Requests == UNION {[1..n -> [name : FileNames \union BadNames, body : Bodies]] : n \in 0..MaxFiles}

\* os.listdir.
Listing == {name \in PlainNames : files[Path[name]] # NoFile}

\* Fault: files are stored again under names they already have.
CheckedExtensions(parts) ==
    parts # <<>> /\ \A n \in DOMAIN parts : parts[n].name \in FileNames

\* All files are checked before the first is stored. A name is compared as it is
\* given, with the names the folder had before the request.
Checked(parts) ==
    /\ parts # <<>>
    /\ \A n \in DOMAIN parts : parts[n].name \in FileNames \ Listing

\* Of several files of one key, out of the first n, the last remains.
Updates(new, old, key, parts, n) ==
    \A x \in DOMAIN old :
        LET given == {k \in 1..n : key[parts[k].name] = x} IN
        \/ given = {} /\ new[x] = old[x]
        \/ \E k \in given : (\A l \in given : l <= k) /\ new[x] = parts[k].body

\* The folder when the first n files are written, each to its path.
Stores(folder, parts, n) ==
    /\ Updates(folder, files, Path, parts, n)
    /\ opened' = opened \union {parts[k].name : k \in 1..n}

\* The answer has one hash for each name.
Answers(parts) ==
    /\ answered' \in [FileNames -> Bodies \union {NoFile}]
    /\ Updates(answered', answered, [name \in FileNames |-> name], parts, Len(parts))

\* The n-th file cannot be opened, and its path is left as it was, or cannot be
\* written to the end. What was stored before it stays.
FailsAt(parts, n) ==
    \E folder \in Folders :
        \/ Stores(folder, parts, n - 1) /\ files' = folder
        \/ Stores(folder, parts, n) /\ files' = [folder EXCEPT ![Path[parts[n].name]] = Torn]

\* A request that is refused changes nothing.
Upload(parts) ==
    /\ LoopFree /\ block < UploadBlocks
    /\ Checked(parts)
    /\ \/ files' \in Folders /\ Stores(files', parts, Len(parts)) /\ Answers(parts)
       \/ (\E n \in DOMAIN parts : FailsAt(parts, n)) /\ UNCHANGED answered
    /\ UNCHANGED <<vars, pageVars>>

-----------------------------------------------------------------------------
NodeStep ==
    /\ \/ Pass
       \/ \E i \in Instances : AddService(i) \/ ExecuteRaises(i) \/ Visit(i)
    /\ UNCHANGED <<pageVars, fileVars>>

StartNextApi ==
    /\ LoopFree
    /\ \E i \in Instances : StartApi(i)
    /\ UNCHANGED <<pageVars, fileVars>>

ApiNext ==
    \/ NodeStep
    \/ StartNextApi
    \/ RequestPage \/ PageFails \/ PageAnswers
    \/ \E i \in Instances : ReadEntry(i)
    \/ \E parts \in Requests : Upload(parts)

ApiSpec == ApiInit /\ [][ApiNext]_apiAllVars

-----------------------------------------------------------------------------
(* Properties *)

ApiTypeOK ==
    /\ TypeOK
    /\ page \in [state : {"idle", "reading", "answered", "failed"},
                 start : SUBSET Instances, read : SUBSET Instances]
    /\ files \in Folders
    /\ answered \in [FileNames -> Bodies \union {NoFile}]
    /\ opened \subseteq FileNames

\* A page that was answered lists every API entered before the request, and
\* none of which a port is not listened on.
PageIsRight ==
    page.state = "answered" =>
        page.read = page.start /\ \A i \in page.read : api[i] = "up"

\* The page fails for two reasons only: an API entered by then is not up (be it
\* only not yet), or one was entered while the page was made. Stopping services
\* does not make it fail.
PageFailsOnlyIf ==
    [][page.state = "reading" /\ page'.state = "failed" =>
        \/ \E i \in apis : api[i] # "up"
        \/ apis \ page.start # {}]_apiAllVars

\* A file that was stored under a name the folder lists is what the answer gave
\* the hash of, whatever is uploaded later, twice in one request, or half, as
\* long as no other name that leads to its path is ever given. (With another
\* name it may be replaced: the check compares names, not paths.)
AnsweredIsStored ==
    \A name \in PlainNames :
        answered[name] # NoFile /\ (\A other \in opened : Path[other] = Path[name] => other = name)
            => files[Path[name]] = answered[name]
=============================================================================
