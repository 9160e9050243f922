------------------------------ MODULE NpmPublish ------------------------------
(***************************************************************************)
(* Publishing to an npm repository: internal/registry/npm/upload.go.  One  *)
(* request carries any number of attachments; the handler goes through     *)
(* them in map order, a failing attachment is skipped, and the answer is   *)
(* 201 whatever became of them.  Nothing is checked before a blob is       *)
(* written and nothing is rolled back.                                     *)
(***************************************************************************)
EXTENDS ArtifactRepo

CONSTANT Garbled  \* the data of an attachment that is not valid base64

ASSUME GarbledAssumption == Garbled \notin Contents \cup {None, Torn}

VARIABLES
    fate,     \* upload -> what became of each of its attachments so far
    current   \* upload -> the attachment being stored, or None

vars == <<repoVars, uploadVars, fate, current>>

(* "<repository>/<filename>", whatever the package.                         *)
blobKey(a) == a[2]

Keys == Filenames

Art(r, f) == <<req[r].pkg, f>>

(* A request names a package and maps file names to their data.             *)
Payloads == [pkg : Packages,
             attachments : UNION {[S -> Contents \cup {Garbled}] : S \in SUBSET Filenames}]

ASSUME PayloadAssumption == None \notin Payloads

Fates == {"todo", "garbled", "stored", "lost", "failed"}

FateShapes == UNION {[S -> Fates] : S \in SUBSET Filenames}

Init ==
    /\ packages = {}
    /\ files = [a \in Artifacts |-> None]
    /\ blobs = [k \in Keys |-> None]
    /\ req = [r \in Uploads |-> None]
    /\ pc = [r \in Uploads |-> "idle"]
    /\ status = [r \in Uploads |-> "none"]
    /\ wrote = [r \in Uploads |-> "nothing"]
    /\ fate = [r \in Uploads |-> [f \in {} |-> "todo"]]
    /\ current = [r \in Uploads |-> None]

ReceivePublish(r) ==
    /\ \E q \in Payloads :
          /\ {q.pkg} \X DOMAIN q.attachments \subseteq Artifacts
          /\ Receive(r, q)
          /\ fate' = [fate EXCEPT ![r] = [f \in DOMAIN q.attachments |-> "todo"]]
    /\ UNCHANGED current

RefusePublish(r) == Refuse(r) /\ UNCHANGED <<fate, current>>

GetOrCreatePackage(r) ==
    /\ \/ GetPackage(r, "attach")
       \/ CreatePackage(r, "attach")
       \/ RegetPackage(r, "attach")
    /\ UNCHANGED <<fate, current>>

Mark(r, f, what) == fate' = [fate EXCEPT ![r][f] = what]

Todo(r) == {f \in DOMAIN fate[r] : fate[r][f] = "todo"}

(* Mutant: the continue after a failed storage.Put is missing.              *)
StoreAttachmentFallsThrough(r) ==
    /\ pc[r] = "attach"
    /\ \E f \in Todo(r) :
          LET data == req[r].attachments[f] IN
          /\ data # Garbled
          /\ current' = [current EXCEPT ![r] = f]
          /\ \/ PutOk(r, blobKey(Art(r, f)), data) /\ Mark(r, f, wrote'[r])
             \/ PutFails(r, blobKey(Art(r, f))) /\ Mark(r, f, "failed")
          /\ Goto(r, "createRow")
    /\ UNCHANGED <<packages, files, req>>

(* The next attachment of the loop, up to the end of storage.Put.           *)
StoreAttachment(r) ==
    /\ pc[r] = "attach"
    /\ \E f \in Todo(r) :
          LET data == req[r].attachments[f] IN
          /\ current' = [current EXCEPT ![r] = f]
          /\ \/ /\ data = Garbled
                /\ Mark(r, f, "garbled") /\ Goto(r, "attach") /\ UNCHANGED <<blobs, wrote>>
             \/ /\ data # Garbled
                /\ PutOk(r, blobKey(Art(r, f)), data)
                /\ Mark(r, f, wrote'[r]) /\ Goto(r, "createRow")
             \/ /\ data # Garbled
                /\ PutFails(r, blobKey(Art(r, f)))
                /\ Mark(r, f, "failed") /\ Goto(r, "attach")
    /\ UNCHANGED <<packages, files, req>>

(* The row of the current attachment; a failure is logged and skipped.      *)
CreateRow(r) ==
    LET f == current[r]
        data == req[r].attachments[f]
    IN  /\ pc[r] = "createRow"
        /\ \/ InsertOk(Art(r, f), data) /\ UNCHANGED fate
           \/ /\ InsertFails(Art(r, f), data)
              /\ IF fate[r][f] = "lost" THEN UNCHANGED fate ELSE Mark(r, f, "failed")
        /\ Goto(r, "attach")
        /\ UNCHANGED <<packages, blobs, req, wrote, current>>

(* Mutant: the handler answers after the first attachment.                  *)
ReplyEarly(r) ==
    /\ pc[r] = "attach"
    /\ Answer(r, "created")
    /\ UNCHANGED <<repoVars, req, wrote, fate, current>>

Reply(r) ==
    /\ pc[r] = "attach"
    /\ Todo(r) = {}
    /\ Answer(r, "created")
    /\ UNCHANGED <<repoVars, req, wrote, fate, current>>

Crash == "crash" \in Faults /\ CrashUploads /\ UNCHANGED <<fate, current>>

UploadStep(r) ==
    \/ ReceivePublish(r) \/ RefusePublish(r) \/ GetOrCreatePackage(r)
    \/ StoreAttachment(r) \/ CreateRow(r) \/ Reply(r)

AllAnswered == (\A r \in Uploads : pc[r] = "done") /\ UNCHANGED vars

Next == (\E r \in Uploads : UploadStep(r)) \/ Crash \/ AllAnswered

Spec == Init /\ [][Next]_vars

-------------------------------------------------------------------------------
(* Properties                                                               *)

(* Every variable has its type; a publish has a request once it is received *)
(* and an answer once it is done, and is at a row only for an attachment of *)
(* its own whose blob it has stored.                                        *)
TypeOK ==
    /\ packages \subseteq Packages
    /\ files \in [Artifacts -> Contents \cup {None}]
    /\ blobs \in [Keys -> Contents \cup {None, Torn}]
    /\ req \in [Uploads -> Payloads \cup {None}]
    /\ pc \in [Uploads -> {"idle", "getPackage", "createPackage", "regetPackage",
                           "attach", "createRow", "done"}]
    /\ status \in [Uploads -> {"none", "created", "badRequest", "error", "crashed"}]
    /\ wrote \in [Uploads -> WriteKinds]
    /\ fate \in [Uploads -> FateShapes]
    /\ current \in [Uploads -> Filenames \cup {None}]
    /\ \A r \in Uploads :
          /\ req[r] # None <=> pc[r] # "idle" /\ status[r] # "badRequest"
          /\ req[r] # None => /\ DOMAIN fate[r] = DOMAIN req[r].attachments
                              /\ \A f \in DOMAIN fate[r] : Art(r, f) \in Artifacts
          /\ pc[r] = "createRow" => /\ current[r] \in DOMAIN fate[r]
                                    /\ fate[r][current[r]] \in {"stored", "lost"}
                                    /\ req[r].attachments[current[r]] # Garbled
          /\ status[r] # "none" <=> pc[r] = "done"

(* r carries, or carried, an attachment for a.                              *)
Carries(r, a) ==
    /\ req[r] # None
    /\ req[r].pkg = a[1]
    /\ a[2] \in DOMAIN req[r].attachments

(* A publish answered 201 went through all its attachments: each one is     *)
(* recorded, by this publish or an earlier one, unless its data was garbled *)
(* or a fault struck; one bad attachment does not cost the others (the      *)
(* continue statements of handleUpload).                                    *)
AcknowledgedIsRecorded ==
    \A r \in Uploads, a \in Artifacts :
        status[r] = "created" /\ Carries(r, a) =>
            \/ files[a] # None
            \/ fate[r][a[2]] = "garbled"
            \/ fate[r][a[2]] \in {"failed", "lost"} /\ Faults # {}

(* A file that only one publish ever carried, and no other package names,   *)
(* is safe: a failed or torn write, an ambiguous insert or a crash leaves   *)
(* no row whose blob is not the recorded one.  Losing it takes a second     *)
(* publish of the same file, or a commit error that storage.Put hid.        *)
PublishedOnceIsSafe ==
    \A a \in Artifacts :
        /\ files[a] # None
        /\ \A b \in Artifacts : blobKey(b) = blobKey(a) => b = a
        /\ \A r1, r2 \in Uploads : Carries(r1, a) /\ Carries(r2, a) => r1 = r2
        /\ \A r \in Uploads : Carries(r, a) => fate[r][a[2]] # "lost"
        => blobs[blobKey(a)] = files[a]

===============================================================================
