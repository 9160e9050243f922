----------------------------- MODULE HostedUpload -----------------------------
(***************************************************************************)
(* Hosted files of the file and PyPI protocols: internal/registry/file and *)
(* internal/registry/pypi upload a file the same way, check, blob, row and *)
(* a rollback of the blob when the row cannot be inserted, and download it *)
(* the same way, row then blob.  The file protocol is the instance with    *)
(* one package, "root".                                                    *)
(***************************************************************************)
EXTENDS ArtifactRepo

CONSTANT Downloads  \* identifiers of download requests

VARIABLE dl         \* download -> state of its handler

vars == <<repoVars, uploadVars, dl>>

(* The key "<repository>/<filename>" does not name the package.             *)
blobKey(a) == a[2]

Keys == Filenames

(* What an upload carries; its size and version are not modelled.           *)
Requests == [pkg : Packages, file : Filenames, content : Contents]

ASSUME NoneAssumption ==
    /\ None \notin Requests \cup Artifacts
    /\ None \notin [art : Artifacts, content : Contents]

Art(r) == <<req[r].pkg, req[r].file>>

Init ==
    /\ packages = {}
    /\ files = [a \in Artifacts |-> None]
    /\ blobs = [k \in Keys |-> None]
    /\ req = [r \in Uploads |-> None]
    /\ pc = [r \in Uploads |-> "idle"]
    /\ status = [r \in Uploads |-> "none"]
    /\ wrote = [r \in Uploads |-> "nothing"]
    /\ dl = [d \in Downloads |-> [pc |-> "idle", file |-> None, acked |-> FALSE,
                                  row |-> None, status |-> "none", body |-> None]]

-------------------------------------------------------------------------------
(* handleUpload                                                             *)

ReceiveUpload(r) ==
    /\ \E a \in Artifacts, c \in Contents :
          Receive(r, [pkg |-> a[1], file |-> a[2], content |-> c])
    /\ UNCHANGED dl

RefuseUpload(r) == Refuse(r) /\ UNCHANGED dl

GetOrCreatePackage(r) ==
    /\ \/ GetPackage(r, "check")
       \/ CreatePackage(r, "check")
       \/ RegetPackage(r, "check")
    /\ UNCHANGED dl

(* Mutant: an existing file is not refused.                                 *)
CheckExistingIgnored(r) ==
    /\ pc[r] = "check"
    /\ Goto(r, "put")
    /\ UNCHANGED <<repoVars, req, wrote, dl>>

(* Mutant: the row is inserted before the blob is stored.                   *)
CheckExistingReserves(r) ==
    /\ pc[r] = "check"
    /\ \/ InsertOk(Art(r), req[r].content) /\ Goto(r, "put")
       \/ files[Art(r)] # None /\ Answer(r, "conflict") /\ UNCHANGED files
    /\ UNCHANGED <<packages, blobs, req, wrote, dl>>

CheckExisting(r) ==
    /\ pc[r] = "check"
    /\ \/ files[Art(r)] = None /\ Goto(r, "put")
       \/ files[Art(r)] # None /\ Answer(r, "conflict")
       \/ "db" \in Faults /\ Answer(r, "error")
    /\ UNCHANGED <<repoVars, req, wrote, dl>>

PutBlob(r) ==
    /\ pc[r] = "put"
    /\ \/ PutOk(r, blobKey(Art(r)), req[r].content) /\ Goto(r, "createRow")
       \/ PutFails(r, blobKey(Art(r))) /\ Answer(r, "error")
    /\ UNCHANGED <<packages, files, req, dl>>

(* Mutant: the error of packageFileStore.Create is not looked at.           *)
CreateRowUnchecked(r) ==
    /\ pc[r] = "createRow"
    /\ \/ InsertOk(Art(r), req[r].content)
       \/ InsertFails(Art(r), req[r].content)
    /\ Goto(r, "reply")
    /\ UNCHANGED <<packages, blobs, req, wrote, dl>>

CreateRow(r) ==
    /\ pc[r] = "createRow"
    /\ \/ InsertOk(Art(r), req[r].content) /\ Goto(r, "reply")
       \/ InsertFails(Art(r), req[r].content) /\ Goto(r, "rollback")
    /\ UNCHANGED <<packages, blobs, req, wrote, dl>>

(* Mutant: the handler returns after the rollback without an answer.        *)
RollbackSilently(r) ==
    /\ pc[r] = "rollback"
    /\ DeleteBlob(blobKey(Art(r)))
    /\ Goto(r, "done")
    /\ UNCHANGED <<packages, files, req, wrote, dl>>

Rollback(r) ==
    /\ pc[r] = "rollback"
    /\ DeleteBlob(blobKey(Art(r)))
    /\ Answer(r, "error")
    /\ UNCHANGED <<packages, files, req, wrote, dl>>

Reply(r) ==
    /\ pc[r] = "reply"
    /\ Answer(r, "created")
    /\ UNCHANGED <<repoVars, req, wrote, dl>>

-------------------------------------------------------------------------------
(* handleDownload of a hosted repository                                    *)

(* A handler's call leaves it in state s; downloads change nothing else.    *)
Advance(d, s) == /\ dl' = [dl EXCEPT ![d] = s]
                 /\ UNCHANGED <<repoVars, uploadVars>>

(* acked is history: had an upload of the file been answered 201 already?   *)
StartDownload(d) ==
    /\ dl[d].pc = "idle"
    /\ \E f \in Filenames :
          LET known == \E r \in Uploads : status[r] = "created" /\ req[r].file = f
          IN  Advance(d, [dl[d] EXCEPT !.pc = "lookup", !.file = f, !.acked = known])

(* Any row with the filename may be the first: the lookup names no package. *)
LookupRow(d) ==
    LET rows == {a \in Artifacts : a[2] = dl[d].file /\ files[a] # None}
    IN  /\ dl[d].pc = "lookup"
        /\ \/ \E a \in rows : Advance(d, [dl[d] EXCEPT !.pc = "open", !.row = a])
           \/ /\ rows = {}
              /\ Advance(d, [dl[d] EXCEPT !.pc = "done", !.status = "notFound"])
           \/ /\ "db" \in Faults
              /\ Advance(d, [dl[d] EXCEPT !.pc = "done", !.status = "error"])

(* An opened reader is a snapshot: later writes to the key do not reach it. *)
OpenBlob(d) ==
    LET stored == blobs[blobKey(dl[d].row)]
    IN  /\ dl[d].pc = "open"
        /\ \/ /\ stored # None
              /\ Advance(d, [dl[d] EXCEPT !.pc = "done", !.status = "ok", !.body = stored])
           \/ /\ stored = None \/ "get" \in Faults
              /\ Advance(d, [dl[d] EXCEPT !.pc = "done", !.status = "error"])

-------------------------------------------------------------------------------

Crash ==
    /\ "crash" \in Faults
    /\ CrashUploads
    /\ dl' = [d \in Downloads |-> IF dl[d].pc \in {"lookup", "open"}
                                  THEN [dl[d] EXCEPT !.pc = "done", !.status = "crashed"]
                                  ELSE dl[d]]

UploadStep(r) ==
    \/ ReceiveUpload(r) \/ RefuseUpload(r) \/ GetOrCreatePackage(r)
    \/ CheckExisting(r) \/ PutBlob(r) \/ CreateRow(r) \/ Rollback(r) \/ Reply(r)

DownloadStep(d) == StartDownload(d) \/ LookupRow(d) \/ OpenBlob(d)

(* All requests are answered: the only way for the model to stop.           *)
AllAnswered ==
    /\ \A r \in Uploads : pc[r] = "done"
    /\ \A d \in Downloads : dl[d].pc = "done"
    /\ UNCHANGED vars

Next ==
    \/ \E r \in Uploads : UploadStep(r)
    \/ \E d \in Downloads : DownloadStep(d)
    \/ Crash
    \/ AllAnswered

Spec == Init /\ [][Next]_vars

-------------------------------------------------------------------------------
(* Properties                                                               *)

UploadPcs == {"idle", "getPackage", "createPackage", "regetPackage", "check",
              "put", "createRow", "rollback", "reply", "done"}

Statuses == {"none", "created", "badRequest", "conflict", "error", "crashed"}

DownloadStates ==
    [ pc : {"idle", "lookup", "open", "done"},
      file : Filenames \cup {None},
      acked : BOOLEAN,
      row : Artifacts \cup {None},
      status : {"none", "ok", "notFound", "error", "crashed"},
      body : Contents \cup {None, Torn} ]

(* Every variable has its type; an upload has a request once it is received *)
(* and an answer once it is done.                                           *)
TypeOK ==
    /\ packages \subseteq Packages
    /\ files \in [Artifacts -> Contents \cup {None}]
    /\ blobs \in [Keys -> Contents \cup {None, Torn}]
    /\ req \in [Uploads -> Requests \cup {None}]
    /\ pc \in [Uploads -> UploadPcs]
    /\ status \in [Uploads -> Statuses]
    /\ wrote \in [Uploads -> WriteKinds]
    /\ \A r \in Uploads :
          /\ req[r] # None <=> pc[r] # "idle" /\ status[r] # "badRequest"
          /\ req[r] # None => Art(r) \in Artifacts
          /\ status[r] # "none" <=> pc[r] = "done"
    /\ dl \in [Downloads -> DownloadStates]
    /\ \A d \in Downloads : dl[d].pc = "open" => dl[d].row # None

(* An upload that passed the "already exists" check and may still write.    *)
PastCheck(r) == pc[r] \in {"put", "createRow", "rollback"}

(* No other package of the repository has a file of the same name.          *)
OwnsKey(a) == \A b \in Artifacts : blobKey(b) = blobKey(a) => b = a

(* The row promises content the bucket does not hold.                       *)
Damaged(a) == files[a] # None /\ blobs[blobKey(a)] # files[a]

(* The upload wrote the blob of a.  It is one of another package's file of  *)
(* that name, or its client was not told 201, or not yet, or the bucket     *)
(* failed to commit the blob and storage.Put hid that.                      *)
Culprit(r, a) ==
    /\ wrote[r] # "nothing"
    /\ blobKey(Art(r)) = blobKey(a)
    /\ \/ Art(r) # a
       \/ pc[r] \in {"createRow", "rollback"}
       \/ status[r] \in {"error", "crashed"}
       \/ wrote[r] = "lost"

(* Two clients are never both told that they created the same file, however *)
(* their checks and inserts interleave (handleUpload, idx_package_filename).*)
AtMostOneCreated ==
    \A r1, r2 \in Uploads :
        status[r1] = "created" /\ status[r2] = "created" /\ r1 # r2
            => Art(r1) # Art(r2)

(* A file is never lost for no reason: when the blob of a recorded file is  *)
(* gone, torn or someone else's, some upload of that file wrote the blob    *)
(* and was not answered 201, or the bucket hid a failure, or another        *)
(* package of the repository got a file of the same name, which shares the  *)
(* key and may be acknowledged (storeFileAndMetadata).                      *)
LossIsReported ==
    \A a \in Artifacts : Damaged(a) => \E r \in Uploads : Culprit(r, a)

(* Once a file that owns its key (OwnsKey) is recorded and no upload of it  *)
(* is past its check, neither its row nor its blob ever changes again:      *)
(* every later upload is refused before it reaches the bucket (the check of *)
(* handleUpload).                                                           *)
Settled(a) == /\ files[a] # None
              /\ OwnsKey(a)
              /\ \A r \in Uploads : PastCheck(r) => Art(r) # a

SettledIsImmutable ==
    [][\A a \in Artifacts :
          Settled(a) => /\ Settled(a)'
                        /\ files'[a] = files[a]
                        /\ blobs'[blobKey(a)] = blobs[blobKey(a)]]_vars

(* Without faults an upload fails with 500 only because a rival upload of   *)
(* the same file won the insert: losing the race to create the package is   *)
(* absorbed by the second look-up (getOrCreatePackage).                     *)
FailureHasCause ==
    Faults = {} =>
        \A r \in Uploads : status[r] = "error" =>
            \E w \in Uploads \ {r} : /\ pc[w] = "reply" \/ status[w] = "created"
                                     /\ Art(w) = Art(r)

(* What a download is answered is explained by the uploads: 404 only if no  *)
(* upload of the file was acknowledged before it began, the recorded bytes  *)
(* or a cause: a fault, or an upload that damaged the file.                 *)
DownloadExplained ==
    \A d \in Downloads :
        /\ dl[d].status = "notFound" => ~dl[d].acked
        /\ dl[d].status = "ok" /\ dl[d].body # files[dl[d].row]
              => \E r \in Uploads : Culprit(r, dl[d].row)
        /\ dl[d].status = "error" /\ Faults \cap {"db", "get"} = {}
              => \E r \in Uploads : Culprit(r, dl[d].row)

(* A rollback takes back what its own upload stored: it never deletes the   *)
(* blob that the row of another upload refers to ("Best effort rollback").  *)
RollbackUndoesOwnWrite ==
    [][\A r \in Uploads :
          pc[r] = "rollback" /\ pc'[r] = "done" /\ Damaged(Art(r))'
              => Damaged(Art(r))]_vars

-------------------------------------------------------------------------------
(* The inductive invariant behind AtMostOneCreated and LossIsReported       *)

Won(r) == pc[r] = "reply" \/ status[r] = "created"

(* An upload whose insert succeeded still finds its content recorded, and   *)
(* it is the only one for that file (packageFileStore.Create).              *)
UniqueWinner ==
    /\ \A r \in Uploads : Won(r) => files[Art(r)] = req[r].content
    /\ \A r1, r2 \in Uploads : Won(r1) /\ Won(r2) /\ r1 # r2 => Art(r1) # Art(r2)

(* An upload has written the bucket exactly when it is past storage.Put.    *)
WroteAfterPut ==
    \A r \in Uploads :
        /\ wrote[r] # "nothing" => pc[r] \in {"createRow", "rollback", "reply", "done"}
        /\ pc[r] \in {"createRow", "rollback", "reply"} => wrote[r] \in {"stored", "lost"}

(* The blob an upload is about to record is the one it stored, unless the   *)
(* bucket lost it, or a rival has recorded the file already, or a culprit   *)
(* wrote the blob since (storeFileAndMetadata).                             *)
PendingExplained ==
    \A r \in Uploads :
        pc[r] = "createRow" /\ files[Art(r)] = None
          => \/ blobs[blobKey(Art(r))] = req[r].content
             \/ wrote[r] = "lost"
             \/ \E w \in Uploads \ {r} : Culprit(w, Art(r))

IInv == TypeOK /\ UniqueWinner /\ WroteAfterPut /\ PendingExplained /\ LossIsReported

-------------------------------------------------------------------------------
(* Refinement                                                               *)

Offer(r) == IF req[r] = None THEN None
            ELSE [art |-> Art(r), content |-> req[r].content]

WO == INSTANCE WriteOnce WITH recorded <- files,
                              offer <- [r \in Uploads |-> Offer(r)],
                              outcome <- status

(* Check, insert and unique index together make each file a write-once      *)
(* register: the rows and answers of the file and PyPI upload handlers are  *)
(* those of WriteOnce, under every interleaving and fault.                  *)
ImplementsWriteOnce == WO!Spec

===============================================================================
