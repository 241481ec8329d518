----------------------------- MODULE MCServices -----------------------------
(* Three instances, so that a pass may keep one, stop another and never have *)
(* seen the third; two blocks, so that a service stopped in one is missing in *)
(* the next; ports for one API and a half; one file with two names, of which *)
(* the folder lists one.                                                     *)
EXTENDS RuntimeApi, TLC

CONSTANT wheels

MCPath == [name \in FileNames |-> wheels]

\* Uploads share a thread with the services' APIs, and no data with any service:
\* they are explored beside the runtime that has no service yet, and the
\* services over a folder that is empty.
UploadsBesideNone ==
    \/ accepted = {} /\ instances = {} /\ apis = {}
    \/ opened = {} /\ \A path \in Paths : files[path] = NoFile

Symmetry == Permutations(Instances)
=============================================================================
