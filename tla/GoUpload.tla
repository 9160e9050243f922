------------------------------- MODULE GoUpload -------------------------------
(***************************************************************************)
(* Publishing to a Go module repository: internal/registry/golang.  An     *)
(* upload of <module>/@v/<version><ext> goes straight from the package to  *)
(* the blob and the row: no look at what exists, no rollback.  The same    *)
(* version published twice therefore overwrites the blob and then fails on *)
(* the row; what remains true is stated below.                             *)
(***************************************************************************)
EXTENDS ArtifactRepo

vars == <<repoVars, uploadVars>>

CONSTANT Segments  \* what stands between the slashes of a path

ASSUME PathsAssumption == Packages \cup Filenames \subseteq Seq(Segments)

Keys == {goBlobKey(a) : a \in Artifacts}

(* What an upload carries; its size is not modelled.                        *)
Requests == [pkg : Packages, file : Filenames, content : Contents]

ASSUME NoneAssumption == None \notin Requests

Art(r) == <<req[r].pkg, req[r].file>>

Init ==
    /\ packages = {}
    /\ files = [a \in Artifacts |-> None]
    /\ blobs = [k \in Keys |-> None]
    /\ req = [r \in Uploads |-> None]
    /\ pc = [r \in Uploads |-> "idle"]
    /\ status = [r \in Uploads |-> "none"]
    /\ wrote = [r \in Uploads |-> "nothing"]

ReceiveUpload(r) ==
    \E a \in Artifacts, c \in Contents :
        Receive(r, [pkg |-> a[1], file |-> a[2], content |-> c])

GetOrCreatePackage(r) ==
    \/ GetPackage(r, "put")
    \/ CreatePackage(r, "put")
    \/ RegetPackage(r, "put")

(* Mutant: the handler reports the error of storage.Put and goes on.        *)
PutBlobGoesOn(r) ==
    /\ pc[r] = "put"
    /\ \/ PutOk(r, goBlobKey(Art(r)), req[r].content) /\ UNCHANGED status
       \/ /\ PutFails(r, goBlobKey(Art(r)))
          /\ status' = [status EXCEPT ![r] = "error"]
    /\ pc' = [pc EXCEPT ![r] = "createRow"]
    /\ UNCHANGED <<packages, files, req>>

PutBlob(r) ==
    /\ pc[r] = "put"
    /\ \/ PutOk(r, goBlobKey(Art(r)), req[r].content) /\ Goto(r, "createRow")
       \/ PutFails(r, goBlobKey(Art(r))) /\ Answer(r, "error")
    /\ UNCHANGED <<packages, files, req>>

(* Mutant: a failed insert is rolled back by deleting the blob.             *)
CreateRowRollsBack(r) ==
    /\ pc[r] = "createRow"
    /\ \/ InsertOk(Art(r), req[r].content) /\ Goto(r, "reply") /\ UNCHANGED blobs
       \/ /\ InsertFails(Art(r), req[r].content)
          /\ DeleteBlob(goBlobKey(Art(r)))
          /\ Answer(r, "error")
    /\ UNCHANGED <<packages, req, wrote>>

CreateRow(r) ==
    /\ pc[r] = "createRow"
    /\ \/ InsertOk(Art(r), req[r].content) /\ Goto(r, "reply")
       \/ InsertFails(Art(r), req[r].content) /\ Answer(r, "error")
    /\ UNCHANGED <<packages, blobs, req, wrote>>

Reply(r) ==
    /\ pc[r] = "reply"
    /\ Answer(r, "created")
    /\ UNCHANGED <<repoVars, req, wrote>>

Crash == "crash" \in Faults /\ CrashUploads

UploadStep(r) ==
    \/ ReceiveUpload(r) \/ Refuse(r) \/ GetOrCreatePackage(r)
    \/ PutBlob(r) \/ CreateRow(r) \/ Reply(r)

AllAnswered == (\A r \in Uploads : pc[r] = "done") /\ UNCHANGED vars

Next == (\E r \in Uploads : UploadStep(r)) \/ Crash \/ AllAnswered

Spec == Init /\ [][Next]_vars

-------------------------------------------------------------------------------
(* Properties                                                               *)

(* Every variable has its type; an upload has a request once it is received *)
(* and an answer once it is done.                                           *)
TypeOK ==
    /\ packages \subseteq Packages
    /\ files \in [Artifacts -> Contents \cup {None}]
    /\ blobs \in [Keys -> Contents \cup {None, Torn}]
    /\ req \in [Uploads -> Requests \cup {None}]
    /\ pc \in [Uploads -> {"idle", "getPackage", "createPackage", "regetPackage",
                           "put", "createRow", "reply", "done"}]
    /\ status \in [Uploads -> {"none", "created", "badRequest", "error", "crashed"}]
    /\ wrote \in [Uploads -> WriteKinds]
    /\ \A r \in Uploads :
          /\ req[r] # None <=> pc[r] # "idle" /\ status[r] # "badRequest"
          /\ req[r] # None => Art(r) \in Artifacts
          /\ status[r] # "none" <=> pc[r] = "done"

(* Two publishers of one version of a module are never both told 201: the   *)
(* second is told 500, although there is no check (handleUpload).           *)
AtMostOneCreated ==
    \A r1, r2 \in Uploads :
        status[r1] = "created" /\ status[r2] = "created" /\ r1 # r2
            => Art(r1) # Art(r2)

(* The upload wrote the blob of a.  It is one of a itself, and its client   *)
(* was not told 201, or not yet, or storage.Put hid that the bucket failed; *)
(* or it is one of another version whose slashes lead to the same key.      *)
Culprit(r, a) ==
    /\ wrote[r] # "nothing"
    /\ goBlobKey(Art(r)) = goBlobKey(a)
    /\ IF Art(r) = a
       THEN pc[r] = "createRow" \/ status[r] \in {"error", "crashed"} \/ wrote[r] = "lost"
       ELSE Art(r)[2] # a[2]

(* A published file differs from its recorded hash only when an upload of   *)
(* the same file of the same module was told that it failed or is running,  *)
(* or when two modules' paths meet in one key.  Modules that share a        *)
(* version do not: what the comment of goBlobKey promises.                  *)
LossIsExplained ==
    \A a \in Artifacts :
        files[a] # None /\ blobs[goBlobKey(a)] # files[a]
            => \E r \in Uploads : Culprit(r, a)

(* A recorded version always has a blob to serve: no handler deletes one    *)
(* and a failed insert leaves what it stored (handleUpload).  Only a commit *)
(* that storage.Put hid can leave a version without a blob.                 *)
RecordedHasBlob ==
    \A a \in Artifacts :
        files[a] # None /\ blobs[goBlobKey(a)] = None
            => \E r \in Uploads : wrote[r] = "lost" /\ Art(r) = a

===============================================================================
