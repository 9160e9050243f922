-------------------------- MODULE HostedUpload_proofs --------------------------
(***************************************************************************)
(* Theorems about HostedUpload, for every set of packages, files, contents *)
(* and requests and for every set of faults.                               *)
(***************************************************************************)
EXTENDS HostedUpload, TLAPS

-------------------------------------------------------------------------------
(* Type correctness                                                         *)

LEMMA InitTypeOK == Init => TypeOK
  BY NoneAssumption
     DEF Init, TypeOK, UploadPcs, Statuses, WriteKinds, DownloadStates, Keys

LEMMA UploadTypeOK ==
  ASSUME TypeOK, NEW r \in Uploads, UploadStep(r)
  PROVE  TypeOK'
<1> USE DEF TypeOK, UploadPcs, Statuses, WriteKinds, Goto, Answer, repoVars, Art, Keys, blobKey
<1>1. CASE ReceiveUpload(r)
  <2>1. PICK a \in Artifacts, c \in Contents :
               Receive(r, [pkg |-> a[1], file |-> a[2], content |-> c])
    BY <1>1 DEF ReceiveUpload
  <2> DEFINE q == [pkg |-> a[1], file |-> a[2], content |-> c]
  <2>2. q \in Requests /\ q # None /\ <<q.pkg, q.file>> \in Artifacts
    <3>1. q \in Requests /\ <<q.pkg, q.file>> \in Artifacts
      BY ArtifactsAssumption DEF Requests
    <3>2. None \notin Requests
      BY NoneAssumption
    <3>3. QED BY <3>1, <3>2
  <2>3. /\ pc[r] = "idle" /\ req' = [req EXCEPT ![r] = q]
        /\ pc' = [pc EXCEPT ![r] = "getPackage"]
        /\ UNCHANGED <<packages, files, blobs, status, wrote, dl>>
    BY <1>1, <2>1 DEF ReceiveUpload, Receive
  <2> HIDE DEF q
  <2>4. QED BY <2>2, <2>3
<1>2. CASE RefuseUpload(r)
  BY <1>2 DEF RefuseUpload, Refuse
<1>3. CASE GetOrCreatePackage(r)
  <2>1. CASE GetPackage(r, "check")
    BY <1>3, <2>1 DEF GetOrCreatePackage, GetPackage
  <2>2. CASE CreatePackage(r, "check")
    BY <1>3, <2>2 DEF GetOrCreatePackage, CreatePackage, Requests
  <2>3. CASE RegetPackage(r, "check")
    BY <1>3, <2>3 DEF GetOrCreatePackage, RegetPackage
  <2>4. QED BY <1>3, <2>1, <2>2, <2>3 DEF GetOrCreatePackage
<1>4. CASE CheckExisting(r)
  BY <1>4 DEF CheckExisting
<1>5. CASE PutBlob(r)
  BY <1>5 DEF PutBlob, PutOk, PutFails, PutBreaks, Requests
<1>6. CASE CreateRow(r)
  BY <1>6 DEF CreateRow, InsertOk, InsertFails, Requests
<1>7. CASE Rollback(r)
  BY <1>7 DEF Rollback, DeleteBlob
<1>8. CASE Reply(r)
  BY <1>8 DEF Reply
<1>9. QED
  BY <1>1, <1>2, <1>3, <1>4, <1>5, <1>6, <1>7, <1>8 DEF UploadStep

LEMMA AdvanceTypeOK ==
  ASSUME TypeOK, NEW d \in Downloads, NEW s \in DownloadStates, Advance(d, s),
         s.pc = "open" => s.row # None
  PROVE  TypeOK'
BY DEF TypeOK, Advance, repoVars, uploadVars, Art, Keys, blobKey

LEMMA DownloadTypeOK ==
  ASSUME TypeOK, NEW d \in Downloads, DownloadStep(d)
  PROVE  TypeOK'
<1>1. dl[d] \in DownloadStates
  BY DEF TypeOK
<1>2. CASE StartDownload(d)
  <2>1. PICK f \in Filenames, b \in BOOLEAN :
               Advance(d, [dl[d] EXCEPT !.pc = "lookup", !.file = f, !.acked = b])
    BY <1>2 DEF StartDownload
  <2>2. [dl[d] EXCEPT !.pc = "lookup", !.file = f, !.acked = b] \in DownloadStates
    BY <1>1 DEF DownloadStates
  <2>3. QED BY <1>1, <2>1, <2>2, AdvanceTypeOK DEF DownloadStates
<1>3. CASE LookupRow(d)
  <2> DEFINE Open(a) == [dl[d] EXCEPT !.pc = "open", !.row = a]
             Done(how) == [dl[d] EXCEPT !.pc = "done", !.status = how]
  <2>1. \A a \in Artifacts : Open(a) \in DownloadStates /\ Open(a).row = a
    BY <1>1 DEF DownloadStates
  <2>2. \A how \in {"notFound", "error"} :
            Done(how) \in DownloadStates /\ Done(how).pc = "done"
    BY <1>1 DEF DownloadStates
  <2>3. \/ \E a \in Artifacts : files[a] # None /\ Advance(d, Open(a))
        \/ \E how \in {"notFound", "error"} : Advance(d, Done(how))
    BY <1>3 DEF LookupRow
  <2>4. QED
    BY <2>1, <2>2, <2>3, AdvanceTypeOK, NoneAssumption
<1>4. CASE OpenBlob(d)
  <2> DEFINE stored == blobs[blobKey(dl[d].row)]
             Found == [dl[d] EXCEPT !.pc = "done", !.status = "ok", !.body = stored]
             Missing == [dl[d] EXCEPT !.pc = "done", !.status = "error"]
  <2>1. stored \in Contents \cup {None, Torn}
    BY <1>4, ArtifactsAssumption DEF OpenBlob, TypeOK, DownloadStates, Keys, blobKey
  <2>2. Found \in DownloadStates /\ Found.pc = "done"
    BY <1>1, <2>1 DEF DownloadStates
  <2>3. Missing \in DownloadStates /\ Missing.pc = "done"
    BY <1>1 DEF DownloadStates
  <2>4. Advance(d, Found) \/ Advance(d, Missing)
    BY <1>4 DEF OpenBlob
  <2>5. QED BY <2>2, <2>3, <2>4, AdvanceTypeOK
<1>5. QED
  BY <1>2, <1>3, <1>4 DEF DownloadStep

LEMMA CrashTypeOK == TypeOK /\ Crash => TypeOK'
<1> SUFFICES ASSUME TypeOK, Crash PROVE TypeOK'
  OBVIOUS
<1> DEFINE Cut(d) == [dl[d] EXCEPT !.pc = "done", !.status = "crashed"]
<1>1. ASSUME NEW d \in Downloads
      PROVE  /\ dl[d] \in DownloadStates
             /\ Cut(d) \in DownloadStates /\ Cut(d).pc = "done"
  BY DEF TypeOK, DownloadStates
<1>2. dl' = [d \in Downloads |-> IF dl[d].pc \in {"lookup", "open"}
                                 THEN Cut(d) ELSE dl[d]]
  BY DEF Crash
<1>3. /\ dl' \in [Downloads -> DownloadStates]
      /\ \A d \in Downloads : dl'[d].pc = "open" => dl'[d].row # None
  <2> HIDE DEF Cut
  <2> QED BY <1>1, <1>2 DEF TypeOK
<1>4. \A r \in Uploads :
         /\ InFlight(r) => pc'[r] = "done" /\ status'[r] = "crashed"
         /\ ~InFlight(r) => pc'[r] = pc[r] /\ status'[r] = status[r]
  BY DEF Crash, CrashUploads
<1>5. /\ pc' \in [Uploads -> UploadPcs]
      /\ status' \in [Uploads -> Statuses]
  BY DEF Crash, CrashUploads, TypeOK, UploadPcs, Statuses
<1>6. UNCHANGED <<packages, files, blobs, req, wrote>>
  BY DEF Crash, CrashUploads, repoVars
<1>7. QED
  BY <1>3, <1>4, <1>5, <1>6 DEF TypeOK, InFlight, Art

(* Every reachable state is well typed, whatever the constants are.         *)
THEOREM TypeCorrect == Spec => []TypeOK
<1>1. TypeOK /\ [Next]_vars => TypeOK'
  <2> SUFFICES ASSUME TypeOK, [Next]_vars PROVE TypeOK'
    OBVIOUS
  <2>1. ASSUME NEW r \in Uploads, UploadStep(r) PROVE TypeOK'
    BY <2>1, UploadTypeOK
  <2>2. ASSUME NEW d \in Downloads, DownloadStep(d) PROVE TypeOK'
    BY <2>2, DownloadTypeOK
  <2>3. CASE Crash
    BY <2>3, CrashTypeOK
  <2>4. CASE UNCHANGED vars
    BY <2>4 DEF vars, repoVars, uploadVars, TypeOK, Art
  <2>5. QED
    BY <2>1, <2>2, <2>3, <2>4 DEF Next, AllAnswered
<1>2. QED
  BY InitTypeOK, <1>1, PTL DEF Spec

-------------------------------------------------------------------------------
(* What the steps do                                                        *)

(* A step of one upload leaves the other uploads and all downloads alone.   *)
LEMMA UploadFrame ==
  ASSUME TypeOK, NEW r \in Uploads, UploadStep(r)
  PROVE  /\ \A q \in Uploads \ {r} :
               /\ pc'[q] = pc[q] /\ status'[q] = status[q]
               /\ wrote'[q] = wrote[q] /\ req'[q] = req[q]
         /\ pc[r] # "idle" => req'[r] = req[r]
         /\ pc[r] # "done"
<1> USE DEF TypeOK, Goto, Answer, repoVars
<1>1. CASE ReceiveUpload(r)
  BY <1>1 DEF ReceiveUpload, Receive
<1>2. CASE RefuseUpload(r)
  BY <1>2 DEF RefuseUpload, Refuse
<1>3. CASE GetOrCreatePackage(r)
  BY <1>3 DEF GetOrCreatePackage, GetPackage, CreatePackage, RegetPackage
<1>4. CASE CheckExisting(r)
  BY <1>4 DEF CheckExisting
<1>5. CASE PutBlob(r)
  BY <1>5 DEF PutBlob, PutOk, PutFails, PutBreaks
<1>6. CASE CreateRow(r)
  BY <1>6 DEF CreateRow
<1>7. CASE Rollback(r)
  BY <1>7 DEF Rollback
<1>8. CASE Reply(r)
  BY <1>8 DEF Reply
<1>9. QED
  BY <1>1, <1>2, <1>3, <1>4, <1>5, <1>6, <1>7, <1>8 DEF UploadStep

(* A step that neither writes a blob nor a row, and does not win the file.  *)
Quiet(r) ==
    /\ UNCHANGED <<files, blobs, wrote>>
    /\ pc[r] \notin {"put", "createRow", "rollback", "done"}
    /\ pc'[r] \notin {"createRow", "rollback"}
    /\ pc'[r] = "reply" => pc[r] = "reply"
    /\ status'[r] = "created" => pc[r] = "reply"
    /\ pc[r] = "reply" => pc'[r] = "done" /\ status'[r] = "created"

LEMMA StepKinds ==
  ASSUME TypeOK, NEW r \in Uploads, UploadStep(r)
  PROVE  Quiet(r) \/ PutBlob(r) \/ CreateRow(r) \/ Rollback(r)
<1> USE DEF Quiet, TypeOK, UploadPcs, Statuses, Goto, Answer, repoVars
<1>1. CASE ReceiveUpload(r)
  BY <1>1 DEF ReceiveUpload, Receive
<1>2. CASE RefuseUpload(r)
  BY <1>2 DEF RefuseUpload, Refuse
<1>3. CASE GetOrCreatePackage(r)
  BY <1>3 DEF GetOrCreatePackage, GetPackage, CreatePackage, RegetPackage
<1>4. CASE CheckExisting(r)
  BY <1>4 DEF CheckExisting
<1>5. CASE Reply(r)
  BY <1>5 DEF Reply
<1>6. QED
  BY <1>1, <1>2, <1>3, <1>4, <1>5 DEF UploadStep

(* A download writes neither store and no upload.                           *)
LEMMA DownloadFrame ==
  ASSUME NEW d \in Downloads, DownloadStep(d)
  PROVE  UNCHANGED <<packages, files, blobs, req, pc, status, wrote>>
<1>1. CASE StartDownload(d)
  BY <1>1 DEF StartDownload, Advance, repoVars, uploadVars
<1>2. CASE LookupRow(d)
  BY <1>2 DEF LookupRow, Advance, repoVars, uploadVars
<1>3. CASE OpenBlob(d)
  BY <1>3 DEF OpenBlob, Advance, repoVars, uploadVars
<1>4. QED
  BY <1>1, <1>2, <1>3 DEF DownloadStep

(* A crash keeps both stores, and cuts off what was in flight.              *)
LEMMA CrashEffect ==
  ASSUME TypeOK, Crash
  PROVE  /\ UNCHANGED <<packages, files, blobs, req, wrote>>
         /\ \A r \in Uploads :
               \/ /\ pc[r] \notin {"idle", "done"}
                  /\ pc'[r] = "done" /\ status'[r] = "crashed"
               \/ /\ pc[r] \in {"idle", "done"}
                  /\ pc'[r] = pc[r] /\ status'[r] = status[r]
BY DEF Crash, CrashUploads, InFlight, repoVars, TypeOK

-------------------------------------------------------------------------------
(* Write-once rows                                                          *)

LEMMA UniqueWinnerStep ==
  ASSUME TypeOK, UniqueWinner, NEW r \in Uploads, UploadStep(r)
  PROVE  UniqueWinner'
<1> USE DEF Won, UniqueWinner
<1>1. \A q \in Uploads : Won(q) => req[q] # None /\ pc[q] # "idle"
  BY DEF TypeOK, UploadPcs, Statuses
<1>2. \A q \in Uploads : pc[q] # "idle" => req'[q] = req[q] /\ Art(q)' = Art(q)
  BY UploadFrame DEF Art
<1>3. CASE UNCHANGED files /\ (Won(r)' => Won(r))
  BY <1>1, <1>2, <1>3, UploadFrame
<1>4. CASE CreateRow(r)
  <2>1. Art(r) \in Artifacts /\ req[r].content # None
    BY <1>4, MarksAssumption DEF CreateRow, TypeOK, Requests
  <2>2. pc[r] = "createRow" /\ ~Won(r)
    BY <1>4 DEF CreateRow, TypeOK
  <2>3. CASE UNCHANGED files
    <3>1. ~Won(r)'
      BY <1>4, <2>1, <2>2, <2>3 DEF CreateRow, InsertOk, InsertFails, Goto, TypeOK
    <3>2. QED BY <1>3, <2>3, <3>1
  <2>4. CASE InsertOk(Art(r), req[r].content)
    <3>1. \A q \in Uploads \ {r} : Won(q) => Art(q) # Art(r)
      BY <1>1, <2>1, <2>4, MarksAssumption DEF InsertOk, TypeOK, Requests
    <3>2. /\ files'[Art(r)] = req[r].content
          /\ \A q \in Uploads \ {r} : Won(q) => files'[Art(q)] = files[Art(q)]
      BY <2>1, <2>4, <3>1, <1>1 DEF InsertOk, TypeOK
    <3>3. QED
      BY <1>1, <1>2, <2>2, <3>1, <3>2, UploadFrame
  <2>5. QED
    BY <1>4, <2>3, <2>4 DEF CreateRow, InsertFails
<1>5. CASE Quiet(r) \/ PutBlob(r) \/ Rollback(r)
  BY <1>3, <1>5 DEF Quiet, PutBlob, Rollback, Goto, Answer, TypeOK
<1>6. QED
  BY <1>4, <1>5, StepKinds

(* However many uploads of one file race through the check, the blob and    *)
(* the row (storeFileAndMetadata), at most one is told that it created it.  *)
THEOREM AtMostOneCreatedHolds == Spec => []AtMostOneCreated
<1>1. Init => UniqueWinner
  BY DEF Init, UniqueWinner, Won
<1>2. TypeOK /\ UniqueWinner /\ [Next]_vars => UniqueWinner'
  <2> SUFFICES ASSUME TypeOK, UniqueWinner, [Next]_vars PROVE UniqueWinner'
    OBVIOUS
  <2>1. ASSUME NEW r \in Uploads, UploadStep(r) PROVE UniqueWinner'
    BY <2>1, UniqueWinnerStep
  <2>2. ASSUME NEW d \in Downloads, DownloadStep(d) PROVE UniqueWinner'
    BY <2>2, DownloadFrame DEF UniqueWinner, Won, Art
  <2>3. CASE Crash
    <3>1. UNCHANGED <<files, req>> /\ \A r \in Uploads : Won(r)' => Won(r)
      BY <2>3, CrashEffect DEF Won, TypeOK
    <3>2. QED BY <3>1 DEF UniqueWinner, Art
  <2>4. CASE UNCHANGED vars
    BY <2>4 DEF vars, repoVars, uploadVars, UniqueWinner, Won, Art
  <2>5. QED
    BY <2>1, <2>2, <2>3, <2>4 DEF Next, AllAnswered
<1>3. UniqueWinner => AtMostOneCreated
  BY DEF UniqueWinner, AtMostOneCreated, Won
<1>4. QED
  BY <1>1, <1>2, <1>3, TypeCorrect, PTL DEF Spec

-------------------------------------------------------------------------------
(* No silent loss                                                           *)

(* Every upload but the one that records the file keeps its guilt.          *)
LEMMA CulpritStays ==
  ASSUME TypeOK, WroteAfterPut, NEW r \in Uploads, UploadStep(r),
         NEW q \in Uploads, NEW a, Culprit(q, a), q = r /\ Art(r) = a => pc'[r] # "reply"
  PROVE  Culprit(q, a)'
<1>1. /\ wrote[q] # "nothing" /\ pc[q] # "idle" /\ Art(q)' = Art(q)
      /\ blobKey(Art(q)) = blobKey(a)
  BY UploadFrame DEF Culprit, WroteAfterPut, Art
<1>2. CASE q # r
  BY <1>1, <1>2, UploadFrame DEF Culprit, blobKey
<1>3. CASE q = r /\ Art(r) # a
  BY <1>1, <1>3, StepKinds DEF Quiet, PutBlob, PutOk, PutFails, PutBreaks, CreateRow, Rollback,
                               Culprit, blobKey, TypeOK
<1>4. CASE q = r /\ Art(r) = a
  <2>1. Art(r)' = a /\ pc[r] \in {"createRow", "rollback", "reply"} \cup {"done"}
    BY <1>1, <1>4 DEF WroteAfterPut
  <2>2. CASE Quiet(r)
    BY <1>1, <1>4, <2>1, <2>2 DEF Quiet, Culprit, blobKey, TypeOK
  <2>3. CASE CreateRow(r)
    BY <1>1, <1>4, <2>1, <2>3 DEF CreateRow, Goto, Culprit, blobKey, TypeOK
  <2>4. CASE Rollback(r)
    BY <1>1, <1>4, <2>1, <2>4 DEF Rollback, Answer, Culprit, blobKey, TypeOK
  <2>5. QED
    BY <2>1, <2>2, <2>3, <2>4, StepKinds DEF PutBlob
<1>5. QED
  BY <1>2, <1>3, <1>4

(* A blob that changes under a file has a new culprit.                      *)
LEMMA BlobWriterIsCulprit ==
  ASSUME TypeOK, WroteAfterPut, NEW r \in Uploads, UploadStep(r), NEW a \in Artifacts,
         blobs'[blobKey(a)] # blobs[blobKey(a)]
  PROVE  Culprit(r, a)' /\ pc[r] \in {"put", "rollback"}
<1>1. blobKey(a) \in Keys /\ blobKey(Art(r)) = Art(r)[2]
  BY ArtifactsAssumption DEF blobKey, Keys
<1>2. pc[r] \in {"put", "rollback"} => Art(r) \in Artifacts /\ req'[r] = req[r]
  BY UploadFrame DEF TypeOK
<1>3. CASE PutBlob(r)
  <2>1. blobKey(Art(r)) = blobKey(a)
    BY <1>1, <1>2, <1>3 DEF PutBlob, PutOk, PutFails, PutBreaks, TypeOK
  <2>2. wrote'[r] # "nothing" /\ (pc'[r] = "createRow" \/ status'[r] = "error")
    BY <1>3 DEF PutBlob, PutOk, PutFails, PutBreaks, Goto, Answer, TypeOK
  <2>3. QED BY <1>2, <1>3, <2>1, <2>2 DEF PutBlob, Culprit, Art, blobKey
<1>4. CASE Rollback(r)
  <2>1. blobKey(Art(r)) = blobKey(a)
    BY <1>1, <1>2, <1>4 DEF Rollback, DeleteBlob, TypeOK
  <2>2. wrote'[r] # "nothing" /\ status'[r] = "error"
    BY <1>4 DEF Rollback, Answer, TypeOK, WroteAfterPut
  <2>3. QED BY <1>2, <1>4, <2>1, <2>2 DEF Rollback, Culprit, Art, blobKey
<1>5. QED
  BY <1>3, <1>4, StepKinds DEF Quiet, CreateRow

LEMMA WroteAfterPutStep ==
  ASSUME TypeOK, WroteAfterPut, NEW r \in Uploads, UploadStep(r)
  PROVE  WroteAfterPut'
<1> USE DEF WroteAfterPut, TypeOK, Goto, Answer
<1>1. CASE Quiet(r)
  BY <1>1, UploadFrame DEF Quiet, UploadPcs
<1>2. CASE PutBlob(r)
  BY <1>2 DEF PutBlob, PutOk, PutFails, PutBreaks, WriteKinds
<1>3. CASE CreateRow(r)
  BY <1>3 DEF CreateRow
<1>4. CASE Rollback(r)
  BY <1>4 DEF Rollback
<1>5. QED
  BY <1>1, <1>2, <1>3, <1>4, StepKinds

LEMMA PendingExplainedStep ==
  ASSUME TypeOK, WroteAfterPut, PendingExplained, NEW r \in Uploads, UploadStep(r)
  PROVE  PendingExplained'
<1> SUFFICES ASSUME NEW q \in Uploads, NEW a, a = Art(q)', pc'[q] = "createRow",
                    files'[a] = None,
                    blobs'[blobKey(a)] # req'[q].content, wrote'[q] # "lost"
             PROVE  \E w \in Uploads \ {q} : Culprit(w, a)'
  BY DEF PendingExplained, blobKey
<1>1. CASE q = r /\ pc[r] # "createRow"
  <2>1. PutBlob(r)
    BY <1>1, StepKinds DEF Quiet, CreateRow, Rollback, Answer, TypeOK
  <2>2. Art(r) \in Artifacts /\ blobKey(Art(r)) \in Keys /\ req'[r] = req[r]
    BY <2>1, ArtifactsAssumption, UploadFrame DEF PutBlob, TypeOK, blobKey, Keys
  <2>3. blobs'[blobKey(a)] = req[r].content \/ wrote'[r] = "lost"
    BY <1>1, <2>1, <2>2 DEF PutBlob, PutOk, PutFails, PutBreaks, Answer, TypeOK, Art
  <2>4. QED BY <1>1, <2>2, <2>3
<1>2. CASE ~(q = r /\ pc[r] # "createRow")
  <2>1. pc[q] = "createRow" /\ req'[q] = req[q] /\ Art(q) = a /\ a \in Artifacts
    BY <1>2, UploadFrame DEF Art, TypeOK
  <2>2. files[a] = None
    BY <2>1, StepKinds DEF Quiet, PutBlob, Rollback, CreateRow, InsertOk, InsertFails, TypeOK
  <2>3. q # r
    BY <2>1, StepKinds DEF Quiet, PutBlob, Rollback, CreateRow, Goto, TypeOK
  <2>4. wrote[q] # "lost"
    BY <2>3, UploadFrame
  <2>5. CASE blobs'[blobKey(a)] # blobs[blobKey(a)]
    BY <2>1, <2>3, <2>5, BlobWriterIsCulprit
  <2>6. CASE blobs'[blobKey(a)] = blobs[blobKey(a)]
    <3>1. PICK w \in Uploads \ {q} : Culprit(w, a)
      BY <2>1, <2>2, <2>4, <2>6 DEF PendingExplained
    <3>2. w = r /\ Art(r) = a => pc'[r] # "reply"
      <4> SUFFICES ASSUME w = r, Art(r) = a, pc'[r] = "reply" PROVE FALSE
        OBVIOUS
      <4>1. Art(r) = a /\ wrote[r] # "nothing"
        BY <3>1 DEF Culprit
      <4>2. CreateRow(r)
        BY <4>1, StepKinds DEF Quiet, PutBlob, Rollback, Goto, Answer, TypeOK, WroteAfterPut
      <4>3. files'[a] # None
        BY <2>1, <4>1, <4>2, MarksAssumption
           DEF CreateRow, InsertOk, InsertFails, Goto, TypeOK, Requests
      <4>4. QED BY <2>1, <4>3
    <3>3. Culprit(w, a)'
      BY <3>1, <3>2, CulpritStays
    <3>4. QED BY <2>1, <3>3
  <2>7. QED BY <2>5, <2>6
<1>3. QED BY <1>1, <1>2

LEMMA LossIsReportedStep ==
  ASSUME TypeOK, WroteAfterPut, PendingExplained, LossIsReported,
         NEW r \in Uploads, UploadStep(r)
  PROVE  LossIsReported'
<1> SUFFICES ASSUME NEW a \in Artifacts, files'[a] # None,
                    blobs'[blobKey(a)] # files'[a]
             PROVE  \E w \in Uploads : Culprit(w, a)'
  BY DEF LossIsReported, Damaged, blobKey
<1>1. CASE blobs'[blobKey(a)] # blobs[blobKey(a)]
  BY <1>1, BlobWriterIsCulprit
<1>2. CASE blobs'[blobKey(a)] = blobs[blobKey(a)] /\ files[a] # None
  <2>1. files'[a] = files[a]
    BY <1>2, StepKinds
       DEF Quiet, PutBlob, Rollback, CreateRow, InsertOk, InsertFails, TypeOK
  <2>2. PICK w \in Uploads : Culprit(w, a)
    BY <1>2, <2>1 DEF LossIsReported, Damaged
  <2>3. w = r /\ Art(r) = a => pc'[r] # "reply"
    BY <1>2, <2>2, StepKinds
       DEF Culprit, Quiet, PutBlob, Rollback, CreateRow, InsertOk, Goto, Answer,
           TypeOK, WroteAfterPut
  <2>4. QED BY <2>2, <2>3, CulpritStays
<1>3. CASE blobs'[blobKey(a)] = blobs[blobKey(a)] /\ files[a] = None
  <2>1. CreateRow(r)
    BY <1>3, StepKinds DEF Quiet, PutBlob, Rollback
  <2>2. /\ pc[r] = "createRow" /\ Art(r) = a /\ files'[a] = req[r].content
        /\ req'[r] = req[r] /\ wrote'[r] = wrote[r] /\ pc'[r] \in {"reply", "rollback"}
    BY <1>3, <2>1 DEF CreateRow, InsertOk, InsertFails, Goto, TypeOK
  <2>3. CASE wrote[r] = "lost" \/ pc'[r] = "rollback"
    BY <2>2, <2>3 DEF Culprit, Art, WroteAfterPut
  <2>4. CASE wrote[r] # "lost"
    <3>1. PICK w \in Uploads \ {r} : Culprit(w, a)
      BY <1>3, <2>2, <2>4 DEF PendingExplained
    <3>2. QED BY <3>1, CulpritStays
  <2>5. QED BY <2>3, <2>4
<1>4. QED BY <1>1, <1>2, <1>3

(* IInv holds initially and every step keeps it.                            *)
LEMMA InductiveInvariant == Spec => []IInv
<1>1. Init => IInv
  <2>1. Init => TypeOK
    BY InitTypeOK
  <2>2. Init => UniqueWinner /\ WroteAfterPut /\ PendingExplained /\ LossIsReported
    BY DEF Init, UniqueWinner, Won, WroteAfterPut, PendingExplained, LossIsReported, Damaged
  <2>3. QED BY <2>1, <2>2 DEF IInv
<1>2. TypeOK /\ TypeOK' /\ IInv /\ [Next]_vars => IInv'
  <2> SUFFICES ASSUME TypeOK, TypeOK', IInv, [Next]_vars PROVE IInv'
    OBVIOUS
  <2> USE DEF IInv
  <2>1. ASSUME NEW r \in Uploads, UploadStep(r) PROVE IInv'
    BY <2>1, UniqueWinnerStep, WroteAfterPutStep, PendingExplainedStep, LossIsReportedStep
  <2>2. CASE UNCHANGED <<packages, files, blobs, req, pc, status, wrote>>
    BY <2>2 DEF UniqueWinner, Won, WroteAfterPut, PendingExplained, LossIsReported,
                Damaged, Culprit, Art, blobKey
  <2>3. CASE Crash
    <3>1. /\ files' = files /\ blobs' = blobs /\ req' = req /\ wrote' = wrote
          /\ \A r \in Uploads : Art(r)' = Art(r)
      BY <2>3, CrashEffect DEF Art
    <3>2. \A r \in Uploads :
             /\ pc'[r] \notin {"createRow", "rollback", "reply"}
             /\ Won(r)' => Won(r)
             /\ wrote[r] # "nothing" => pc'[r] = "done"
      BY <2>3, CrashEffect DEF Won, TypeOK, WroteAfterPut
    <3>3. \A r \in Uploads, a \in Artifacts : Culprit(r, a) => Culprit(r, a)'
      BY <2>3, <3>1, CrashEffect DEF Culprit, blobKey, TypeOK
    <3>4. WroteAfterPut' /\ PendingExplained'
      <4>1. WroteAfterPut'
        BY <3>1, <3>2 DEF WroteAfterPut
      <4>2. PendingExplained'
        BY <3>2 DEF PendingExplained
      <4>3. QED BY <4>1, <4>2
    <3>5. UniqueWinner'
      BY <3>1, <3>2 DEF UniqueWinner, Won, Art
    <3>6. LossIsReported'
      BY <3>1, <3>3 DEF LossIsReported, Damaged, blobKey
    <3>7. QED BY <3>4, <3>5, <3>6
  <2>4. ASSUME NEW d \in Downloads, DownloadStep(d) PROVE IInv'
    BY <2>2, <2>4, DownloadFrame
  <2>5. CASE UNCHANGED vars
    BY <2>2, <2>5 DEF vars, repoVars, uploadVars
  <2>6. QED
    BY <2>1, <2>3, <2>4, <2>5 DEF Next, AllAnswered
<1>3. QED
  BY <1>1, <1>2, TypeCorrect, PTL DEF Spec

(* A file whose row and blob disagree has an upload that was not told 201,  *)
(* a commit failure that storage.Put hid, or a file of the same name in     *)
(* another package: for any number of uploads, packages and files, and      *)
(* under every combination of faults.                                       *)
THEOREM LossIsReportedHolds == Spec => []LossIsReported
<1>1. IInv => LossIsReported
  BY DEF IInv
<1>2. QED
  BY <1>1, InductiveInvariant, PTL

-------------------------------------------------------------------------------
(* Why an upload fails                                                      *)

(* Without faults every row has the upload that won it, a failed upload     *)
(* found the row of its file there, and whoever looks its package up again  *)
(* finds it.                                                                *)
FailureExplained ==
    Faults = {} =>
        /\ \A a \in Artifacts : files[a] # None => \E w \in Uploads : Won(w) /\ Art(w) = a
        /\ \A r \in Uploads : pc[r] = "rollback" \/ status[r] = "error" =>
               Art(r) \in Artifacts /\ files[Art(r)] # None /\ pc[r] # "idle"
        /\ \A r \in Uploads : pc[r] = "regetPackage" => req[r].pkg \in packages

(* What a step of an upload does when nothing fails.                        *)
LEMMA FaultFreeStep ==
  ASSUME TypeOK, FailureExplained, Faults = {}, NEW r \in Uploads, UploadStep(r)
  PROVE  /\ packages \subseteq packages'
         /\ pc'[r] = "regetPackage" => req'[r] = req[r] /\ req[r].pkg \in packages'
         /\ pc'[r] = "rollback" => Art(r) \in Artifacts /\ files[Art(r)] # None
         /\ status'[r] = "error" => pc[r] = "rollback"
<1> USE DEF FailureExplained, TypeOK, UploadPcs, Goto, Answer, repoVars
<1>1. CASE ReceiveUpload(r)
  BY <1>1 DEF ReceiveUpload, Receive
<1>2. CASE RefuseUpload(r)
  BY <1>2 DEF RefuseUpload, Refuse
<1>3. CASE GetOrCreatePackage(r)
  <2>1. CASE GetPackage(r, "check")
    BY <2>1, <1>3 DEF GetPackage, GetOrCreatePackage
  <2>2. CASE CreatePackage(r, "check")
    BY <2>2, <1>3 DEF CreatePackage, GetOrCreatePackage
  <2>3. CASE RegetPackage(r, "check")
    BY <2>3, <1>3 DEF RegetPackage, GetOrCreatePackage
  <2>4. QED BY <1>3, <2>1, <2>2, <2>3 DEF GetOrCreatePackage
<1>4. CASE CheckExisting(r)
  BY <1>4 DEF CheckExisting
<1>5. CASE PutBlob(r)
  BY <1>5 DEF PutBlob, PutFails, PutBreaks
<1>6. CASE CreateRow(r)
  BY <1>6 DEF CreateRow, InsertFails
<1>7. CASE Rollback(r)
  BY <1>7 DEF Rollback
<1>8. CASE Reply(r)
  BY <1>8 DEF Reply
<1>9. QED
  BY <1>1, <1>2, <1>3, <1>4, <1>5, <1>6, <1>7, <1>8 DEF UploadStep

(* A row, once inserted, stays as it is (no handler updates or deletes one). *)
LEMMA RowsStay ==
  ASSUME TypeOK, NEW r \in Uploads, UploadStep(r)
  PROVE  /\ \A a \in Artifacts : files[a] # None => files'[a] = files[a]
         /\ \A a \in Artifacts : files[a] = None /\ files'[a] # None => CreateRow(r) /\ Art(r) = a
BY StepKinds DEF Quiet, PutBlob, Rollback, CreateRow, InsertOk, InsertFails, TypeOK

LEMMA WinnerStays ==
  ASSUME TypeOK, NEW r \in Uploads, UploadStep(r), NEW w \in Uploads, Won(w)
  PROVE  Won(w)' /\ Art(w)' = Art(w)
<1>1. pc[w] # "idle" /\ (w = r => pc[r] = "reply")
  BY UploadFrame DEF Won, TypeOK
<1>2. Art(w)' = Art(w)
  BY <1>1, UploadFrame DEF Art
<1>3. CASE w # r
  BY <1>2, <1>3, UploadFrame DEF Won
<1>4. CASE w = r
  BY <1>1, <1>2, <1>4, StepKinds DEF Quiet, PutBlob, CreateRow, Rollback, Won
<1>5. QED BY <1>3, <1>4

LEMMA FailureExplainedStep ==
  ASSUME TypeOK, TypeOK', FailureExplained, NEW r \in Uploads, UploadStep(r)
  PROVE  FailureExplained'
<1> SUFFICES ASSUME Faults = {} PROVE FailureExplained'
  BY DEF FailureExplained
<1>1. ASSUME NEW a \in Artifacts, files'[a] # None
      PROVE  \E w \in Uploads : Won(w)' /\ Art(w)' = a
  <2>1. CASE files[a] # None
    BY <2>1, WinnerStays DEF FailureExplained
  <2>2. CASE files[a] = None
    <3>1. CreateRow(r) /\ Art(r) = a
      BY <1>1, <2>2, RowsStay
    <3>2. Won(r)' /\ Art(r)' = Art(r)
      BY <1>1, <2>2, <3>1 DEF CreateRow, InsertFails, Goto, Won, Art, TypeOK
    <3>3. QED BY <3>1, <3>2
  <2>3. QED BY <2>1, <2>2
<1>2. ASSUME NEW q \in Uploads, pc'[q] = "rollback" \/ status'[q] = "error"
      PROVE  Art(q)' \in Artifacts /\ files'[Art(q)'] # None /\ pc'[q] # "idle"
  <2>1. pc'[q] # "idle"
    BY <1>2 DEF TypeOK
  <2>2. Art(q) \in Artifacts /\ files[Art(q)] # None /\ pc[q] # "idle"
    <3>1. CASE q # r
      BY <1>2, <3>1, UploadFrame DEF FailureExplained
    <3>2. CASE q = r
      <4>1. Art(r) \in Artifacts /\ files[Art(r)] # None
        BY <1>2, <3>2, FaultFreeStep DEF FailureExplained
      <4>2. pc[r] # "idle"
        BY <1>2, <3>2, FaultFreeStep, StepKinds
           DEF Quiet, PutBlob, CreateRow, Rollback
      <4>3. QED BY <3>2, <4>1, <4>2
    <3>3. QED BY <3>1, <3>2
  <2>3. Art(q)' = Art(q)
    BY <2>2, UploadFrame DEF Art
  <2>4. QED BY <2>1, <2>2, <2>3, RowsStay
<1>3. ASSUME NEW q \in Uploads, pc'[q] = "regetPackage"
      PROVE  req'[q].pkg \in packages'
  BY <1>3, FaultFreeStep, UploadFrame DEF FailureExplained
<1>4. QED BY <1>1, <1>2, <1>3 DEF FailureExplained

(* Without faults an upload fails with 500 only because a rival upload of   *)
(* the same file won the insert (FailureHasCause), for any number of        *)
(* uploads that create the same package and the same files.                 *)
THEOREM FailureHasCauseHolds == Spec => []FailureHasCause
<1>1. Init => FailureExplained
  BY DEF Init, FailureExplained
<1>2. TypeOK /\ TypeOK' /\ FailureExplained /\ [Next]_vars => FailureExplained'
  <2> SUFFICES ASSUME TypeOK, TypeOK', FailureExplained, [Next]_vars
               PROVE  FailureExplained'
    OBVIOUS
  <2>1. ASSUME NEW r \in Uploads, UploadStep(r) PROVE FailureExplained'
    BY <2>1, FailureExplainedStep
  <2>2. CASE UNCHANGED <<packages, files, blobs, req, pc, status, wrote>>
    BY <2>2 DEF FailureExplained, Won, Art
  <2>3. ASSUME NEW d \in Downloads, DownloadStep(d) PROVE FailureExplained'
    BY <2>2, <2>3, DownloadFrame
  <2>4. CASE Crash
    BY <2>4 DEF Crash, FailureExplained
  <2>5. CASE UNCHANGED vars
    BY <2>2, <2>5 DEF vars, repoVars, uploadVars
  <2>6. QED
    BY <2>1, <2>3, <2>4, <2>5 DEF Next, AllAnswered
<1>3. TypeOK /\ FailureExplained => FailureHasCause
  <2> SUFFICES ASSUME TypeOK, FailureExplained, Faults = {}, NEW r \in Uploads,
                      status[r] = "error"
               PROVE  \E w \in Uploads \ {r} : Won(w) /\ Art(w) = Art(r)
    BY DEF FailureHasCause, Won
  <2>1. PICK w \in Uploads : Won(w) /\ Art(w) = Art(r)
    BY DEF FailureExplained
  <2>2. ~Won(r)
    BY DEF Won, TypeOK
  <2>3. QED BY <2>1, <2>2
<1>4. QED
  BY <1>1, <1>2, <1>3, TypeCorrect, PTL DEF Spec

-------------------------------------------------------------------------------
(* What a download is answered                                              *)

FoundRow(d) == dl[d].row \in Artifacts /\ files[dl[d].row] # None

(* A download that knew of an acknowledged upload finds a row, and the row  *)
(* it works with stays there.                                               *)
DownloadFacts(d) ==
    /\ dl[d].pc # "done" => dl[d].status = "none"
    /\ dl[d].pc = "lookup" /\ dl[d].acked =>
           \E a \in Artifacts : a[2] = dl[d].file /\ files[a] # None
    /\ dl[d].pc = "open" \/ dl[d].status = "ok" => FoundRow(d)
    /\ dl[d].status = "error" /\ Faults \cap {"db", "get"} = {} => FoundRow(d)
    /\ dl[d].status = "notFound" => ~dl[d].acked
    /\ dl[d].status = "ok" /\ dl[d].body # files[dl[d].row]
           => \E r \in Uploads : Culprit(r, dl[d].row)
    /\ dl[d].status = "error" /\ Faults \cap {"db", "get"} = {}
           => \E r \in Uploads : Culprit(r, dl[d].row)

(* Whoever damaged a recorded file stays guilty.                            *)
LEMMA CulpritOfRowStays ==
  ASSUME TypeOK, WroteAfterPut, NEW r \in Uploads, UploadStep(r),
         NEW a \in Artifacts, files[a] # None, NEW q \in Uploads, Culprit(q, a)
  PROVE  Culprit(q, a)'
<1>1. q = r /\ Art(r) = a => pc'[r] # "reply"
  BY StepKinds
     DEF Culprit, Quiet, PutBlob, Rollback, CreateRow, InsertOk, Goto, Answer,
         TypeOK, WroteAfterPut
<1>2. QED BY <1>1, CulpritStays

LEMMA UploadKeepsDownloads ==
  ASSUME TypeOK, WroteAfterPut, NEW r \in Uploads, UploadStep(r), NEW d \in Downloads,
         DownloadFacts(d)
  PROVE  DownloadFacts(d)'
<1>1. dl' = dl
  BY DEF UploadStep, ReceiveUpload, RefuseUpload, GetOrCreatePackage, CheckExisting,
         PutBlob, CreateRow, Rollback, Reply
<1>2. PICK s : s = dl[d]
  OBVIOUS
<1>3. s = dl'[d]
  BY <1>1, <1>2
<1>4. s.row \in Artifacts /\ files[s.row] # None =>
          /\ files'[s.row] = files[s.row]
          /\ \A q \in Uploads : Culprit(q, s.row) => Culprit(q, s.row)'
  BY RowsStay, CulpritOfRowStays
<1>5. FoundRow(d) => FoundRow(d)'
  BY <1>2, <1>3, <1>4 DEF FoundRow
<1>6. \A a \in Artifacts : files[a] # None => files'[a] # None
  BY RowsStay
<1>7. QED
  BY <1>2, <1>3, <1>4, <1>5, <1>6 DEF DownloadFacts, FoundRow

LEMMA StoresKeepDownloads ==
  ASSUME NEW e \in Downloads, DownloadFacts(e), dl'[e] = dl[e],
         UNCHANGED <<files, blobs, req, pc, status, wrote>>
  PROVE  DownloadFacts(e)'
BY DEF DownloadFacts, FoundRow, Culprit, Art, blobKey

LEMMA DownloadStepFacts ==
  ASSUME IInv, NEW d \in Downloads, DownloadFacts(d), DownloadStep(d)
  PROVE  DownloadFacts(d)'
<1>1. TypeOK /\ dl[d] \in DownloadStates
  BY DEF IInv, TypeOK
<1>2. UNCHANGED <<packages, files, blobs, req, pc, status, wrote>>
  BY DownloadFrame
<1>3. CASE StartDownload(d)
  <2>1. PICK f \in Filenames, known \in BOOLEAN :
          /\ known = \E r \in Uploads : status[r] = "created" /\ req[r].file = f
          /\ Advance(d, [dl[d] EXCEPT !.pc = "lookup", !.file = f, !.acked = known])
    BY <1>3 DEF StartDownload
  <2>2. /\ dl'[d].pc = "lookup" /\ dl'[d].file = f /\ dl'[d].acked = known
        /\ dl'[d].status = "none"
    <3>1. dl'[d] = [dl[d] EXCEPT !.pc = "lookup", !.file = f, !.acked = known]
      BY <1>1, <2>1 DEF Advance, TypeOK
    <3>2. dl[d].status = "none"
      BY <1>3 DEF StartDownload, DownloadFacts
    <3>3. QED BY <1>1, <3>1, <3>2 DEF DownloadStates
  <2>3. ASSUME NEW r \in Uploads, status[r] = "created", req[r].file = f
        PROVE  \E a \in Artifacts : a[2] = f /\ files[a] # None
    <3>1. Art(r) \in Artifacts /\ req[r] \in Requests
      BY <1>1, <2>3 DEF TypeOK
    <3>2. files[Art(r)] = req[r].content
      BY <2>3 DEF IInv, UniqueWinner, Won
    <3>3. req[r].content # None /\ Art(r)[2] = f
      BY <2>3, <3>1, MarksAssumption DEF Requests, Art
    <3>4. QED BY <3>1, <3>2, <3>3
  <2>4. QED BY <1>2, <2>1, <2>2, <2>3 DEF DownloadFacts
<1>4. CASE LookupRow(d)
  <2> DEFINE rows == {a \in Artifacts : a[2] = dl[d].file /\ files[a] # None}
  <2>1. dl[d].pc = "lookup" /\ dl[d].status = "none"
    BY <1>4 DEF LookupRow, DownloadFacts
  <2>2. ASSUME NEW a \in rows, Advance(d, [dl[d] EXCEPT !.pc = "open", !.row = a])
        PROVE  DownloadFacts(d)'
    <3>1. dl'[d].pc = "open" /\ dl'[d].row = a /\ dl'[d].status = "none"
      <4>1. dl'[d] = [dl[d] EXCEPT !.pc = "open", !.row = a]
        BY <1>1, <2>2 DEF Advance, TypeOK
      <4>2. QED BY <1>1, <2>1, <4>1 DEF DownloadStates
    <3>2. FoundRow(d)'
      BY <1>2, <3>1 DEF FoundRow
    <3>3. QED BY <3>1, <3>2 DEF DownloadFacts
  <2>3. ASSUME rows = {}, Advance(d, [dl[d] EXCEPT !.pc = "done", !.status = "notFound"])
        PROVE  DownloadFacts(d)'
    <3>1. dl'[d].pc = "done" /\ dl'[d].status = "notFound" /\ dl'[d].acked = dl[d].acked
      <4>1. dl'[d] = [dl[d] EXCEPT !.pc = "done", !.status = "notFound"]
        BY <1>1, <2>3 DEF Advance, TypeOK
      <4>2. QED BY <1>1, <4>1 DEF DownloadStates
    <3>2. ~dl[d].acked
      BY <2>1, <2>3 DEF DownloadFacts
    <3>3. QED BY <3>1, <3>2 DEF DownloadFacts
  <2>4. ASSUME "db" \in Faults, Advance(d, [dl[d] EXCEPT !.pc = "done", !.status = "error"])
        PROVE  DownloadFacts(d)'
    <3>1. dl'[d].pc = "done" /\ dl'[d].status = "error"
      <4>1. dl'[d] = [dl[d] EXCEPT !.pc = "done", !.status = "error"]
        BY <1>1, <2>4 DEF Advance, TypeOK
      <4>2. QED BY <1>1, <4>1 DEF DownloadStates
    <3>2. QED BY <2>4, <3>1 DEF DownloadFacts
  <2>5. QED BY <1>4, <2>2, <2>3, <2>4 DEF LookupRow
<1>5. CASE OpenBlob(d)
  <2>0. PICK a : a = dl[d].row
    OBVIOUS
  <2> DEFINE stored == blobs[blobKey(a)]
  <2>1. /\ dl[d].pc = "open" /\ a \in Artifacts /\ files[a] # None
        /\ dl[d].status = "none"
    BY <1>5, <2>0 DEF OpenBlob, DownloadFacts, FoundRow
  <2>2. stored # files[a] => \E r \in Uploads : Culprit(r, a)'
    <3>1. stored # files[a] => \E r \in Uploads : Culprit(r, a)
      BY <2>1 DEF IInv, LossIsReported, Damaged
    <3>2. \A r \in Uploads : Culprit(r, a) => Culprit(r, a)'
      BY <1>2 DEF Culprit, Art, blobKey
    <3>3. QED BY <3>1, <3>2
  <2>3. ASSUME Advance(d, [dl[d] EXCEPT !.pc = "done", !.status = "ok", !.body = stored])
        PROVE  DownloadFacts(d)'
    <3>1. /\ dl'[d].pc = "done" /\ dl'[d].status = "ok" /\ dl'[d].body = stored
          /\ dl'[d].row = a
      <4>1. dl'[d] = [dl[d] EXCEPT !.pc = "done", !.status = "ok", !.body = stored]
        BY <1>1, <2>3 DEF Advance, TypeOK
      <4>2. QED BY <1>1, <2>0, <4>1 DEF DownloadStates
    <3>2. QED BY <1>2, <2>1, <2>2, <3>1 DEF DownloadFacts, FoundRow, blobKey
  <2>4. ASSUME stored = None \/ "get" \in Faults,
               Advance(d, [dl[d] EXCEPT !.pc = "done", !.status = "error"])
        PROVE  DownloadFacts(d)'
    <3>1. dl'[d].pc = "done" /\ dl'[d].status = "error" /\ dl'[d].row = a
      <4>1. dl'[d] = [dl[d] EXCEPT !.pc = "done", !.status = "error"]
        BY <1>1, <2>4 DEF Advance, TypeOK
      <4>2. QED BY <1>1, <2>0, <4>1 DEF DownloadStates
    <3>2. QED BY <1>2, <2>1, <2>2, <2>4, <3>1 DEF DownloadFacts, FoundRow, blobKey
  <2>5. QED BY <1>5, <2>0, <2>3, <2>4 DEF OpenBlob
<1>6. QED BY <1>3, <1>4, <1>5 DEF DownloadStep

LEMMA CrashFacts ==
  ASSUME IInv, Crash, NEW d \in Downloads, DownloadFacts(d)
  PROVE  DownloadFacts(d)'
<1>1. TypeOK /\ dl[d] \in DownloadStates
  BY DEF IInv, TypeOK
<1>2. /\ files' = files /\ \A r \in Uploads, a \in Artifacts : Culprit(r, a) => Culprit(r, a)'
  BY <1>1, CrashEffect DEF Culprit, Art, blobKey, TypeOK
<1>3. \/ dl'[d] = dl[d]
      \/ dl'[d].pc = "done" /\ dl'[d].status = "crashed"
  BY <1>1 DEF Crash, DownloadStates
<1>4. CASE dl'[d] = dl[d]
  <2>1. PICK s : s = dl[d]
    OBVIOUS
  <2>2. s.row \in Artifacts => \A r \in Uploads : Culprit(r, s.row) => Culprit(r, s.row)'
    BY <1>2
  <2>3. QED
    BY <1>2, <1>4, <2>1, <2>2 DEF DownloadFacts, FoundRow
<1>5. CASE dl'[d].pc = "done" /\ dl'[d].status = "crashed"
  BY <1>5 DEF DownloadFacts
<1>6. QED BY <1>3, <1>4, <1>5

(* A download is answered 404 only if no upload of its file was             *)
(* acknowledged before it began; wrong bytes, or an error without a fault,  *)
(* have an upload that damaged the file (DownloadExplained), for any number *)
(* of uploads and downloads, and under every combination of faults.         *)
THEOREM DownloadExplainedHolds == Spec => []DownloadExplained
<1> DEFINE DInv == \A d \in Downloads : DownloadFacts(d)
<1>1. Init => DInv
  BY DEF Init, DownloadFacts
<1>2. IInv /\ DInv /\ [Next]_vars => DInv'
  <2> SUFFICES ASSUME IInv, DInv, [Next]_vars, NEW d \in Downloads PROVE DownloadFacts(d)'
    OBVIOUS
  <2>1. ASSUME NEW r \in Uploads, UploadStep(r) PROVE DownloadFacts(d)'
    BY <2>1, UploadKeepsDownloads DEF IInv
  <2>2. ASSUME NEW e \in Downloads, DownloadStep(e) PROVE DownloadFacts(d)'
    <3>1. CASE d = e
      BY <2>2, <3>1, DownloadStepFacts
    <3>2. CASE d # e
      <4>1. dl'[d] = dl[d]
        BY <2>2, <3>2 DEF DownloadStep, StartDownload, LookupRow, OpenBlob, Advance, IInv, TypeOK
      <4>2. QED BY <2>2, <4>1, DownloadFrame, StoresKeepDownloads
    <3>3. QED BY <3>1, <3>2
  <2>3. CASE Crash
    BY <2>3, CrashFacts
  <2>4. CASE UNCHANGED vars
    BY <2>4, StoresKeepDownloads DEF vars, repoVars, uploadVars
  <2>5. QED
    BY <2>1, <2>2, <2>3, <2>4 DEF Next, AllAnswered
<1>3. DInv => DownloadExplained
  BY DEF DownloadFacts, DownloadExplained
<1>4. QED
  BY <1>1, <1>2, <1>3, InductiveInvariant, PTL DEF Spec

-------------------------------------------------------------------------------
(* Settled files                                                            *)

(* An upload gets to storage.Put only from a check that found no row.       *)
LEMMA PutNeedsCheck ==
  ASSUME TypeOK, NEW r \in Uploads, UploadStep(r), PastCheck(r)', ~PastCheck(r)
  PROVE  /\ Art(r)' = Art(r) /\ files[Art(r)] = None
         /\ UNCHANGED <<files, blobs>>
<1> USE DEF PastCheck, TypeOK, Goto, Answer, repoVars, Art
<1>1. CASE Quiet(r)
  <2>1. CASE ReceiveUpload(r)
    BY <2>1 DEF ReceiveUpload, Receive
  <2>2. CASE RefuseUpload(r)
    BY <2>2 DEF RefuseUpload, Refuse
  <2>3. CASE GetOrCreatePackage(r)
    BY <2>3 DEF GetOrCreatePackage, GetPackage, CreatePackage, RegetPackage
  <2>4. CASE CheckExisting(r)
    BY <2>4 DEF CheckExisting
  <2>5. CASE Reply(r)
    BY <2>5 DEF Reply
  <2>6. QED
    BY <1>1, <2>1, <2>2, <2>3, <2>4, <2>5
       DEF UploadStep, Quiet, PutBlob, CreateRow, Rollback
<1>2. QED
  BY <1>1, StepKinds DEF PutBlob, CreateRow, Rollback

LEMMA SettledStep ==
  ASSUME TypeOK, WroteAfterPut, NEW r \in Uploads, UploadStep(r),
         NEW a \in Artifacts, Settled(a)
  PROVE  Settled(a)' /\ files'[a] = files[a] /\ blobs'[blobKey(a)] = blobs[blobKey(a)]
<1>1. OwnsKey(a) /\ files[a] # None /\ \A q \in Uploads : PastCheck(q) => Art(q) # a
  BY DEF Settled
<1>2. blobs'[blobKey(a)] = blobs[blobKey(a)]
  <2> SUFFICES ASSUME blobs'[blobKey(a)] # blobs[blobKey(a)] PROVE FALSE
    OBVIOUS
  <2>1. Culprit(r, a)' /\ pc[r] \in {"put", "rollback"}
    BY <1>1, BlobWriterIsCulprit
  <2>2. Art(r)' = Art(r) /\ Art(r) \in Artifacts
    BY <2>1, UploadFrame DEF Art, TypeOK
  <2>3. blobKey(Art(r)) = blobKey(a)
    BY <2>1, <2>2 DEF Culprit, blobKey
  <2>4. Art(r) = a
    BY <1>1, <2>2, <2>3 DEF OwnsKey
  <2>5. QED BY <1>1, <2>1, <2>4 DEF PastCheck
<1>3. files'[a] = files[a]
  BY <1>1, StepKinds DEF Quiet, PutBlob, Rollback, CreateRow, InsertOk, InsertFails, TypeOK
<1>4. ASSUME NEW q \in Uploads, PastCheck(q)' PROVE Art(q)' # a
  <2>1. CASE PastCheck(q)
    <3>1. pc[q] # "idle"
      BY <2>1 DEF PastCheck
    <3>2. QED BY <1>1, <2>1, <3>1, UploadFrame DEF Art
  <2>2. CASE ~PastCheck(q)
    <3>1. q = r
      BY <1>4, <2>2, UploadFrame DEF PastCheck
    <3>2. QED BY <1>1, <1>4, <2>2, <3>1, PutNeedsCheck
  <2>3. QED BY <2>1, <2>2
<1>5. OwnsKey(a)'
  BY <1>1 DEF OwnsKey, blobKey
<1>6. QED
  BY <1>1, <1>2, <1>3, <1>4, <1>5 DEF Settled

(* A recorded file that owns its key is frozen for good, row and blob, once *)
(* no upload of it is past its check, for any number of later uploads and   *)
(* under every fault.                                                       *)
THEOREM SettledIsImmutableHolds == Spec => SettledIsImmutable
<1> DEFINE Frozen(a) == Settled(a) => /\ Settled(a)'
                                      /\ files'[a] = files[a]
                                      /\ blobs'[blobKey(a)] = blobs[blobKey(a)]
<1>1. IInv /\ [Next]_vars => [\A a \in Artifacts : Frozen(a)]_vars
  <2> SUFFICES ASSUME IInv, [Next]_vars, NEW a \in Artifacts, Settled(a)
               PROVE  Frozen(a)
    OBVIOUS
  <2>1. ASSUME NEW r \in Uploads, UploadStep(r) PROVE Frozen(a)
    BY <2>1, SettledStep DEF IInv
  <2>2. CASE UNCHANGED <<packages, files, blobs, req, pc, status, wrote>>
    BY <2>2 DEF Settled, PastCheck, Art, OwnsKey, blobKey
  <2>3. CASE Crash
    <3>1. /\ files' = files /\ blobs' = blobs /\ req' = req
          /\ \A r \in Uploads : ~PastCheck(r)'
      BY <2>3, CrashEffect DEF IInv, TypeOK, PastCheck
    <3>2. QED BY <3>1 DEF Settled, OwnsKey, blobKey
  <2>4. ASSUME NEW d \in Downloads, DownloadStep(d) PROVE Frozen(a)
    BY <2>2, <2>4, DownloadFrame
  <2>5. CASE UNCHANGED vars
    BY <2>2, <2>5 DEF vars, repoVars, uploadVars
  <2>6. QED
    BY <2>1, <2>3, <2>4, <2>5 DEF Next, AllAnswered
<1>2. QED
  BY <1>1, InductiveInvariant, PTL DEF Spec, SettledIsImmutable

-------------------------------------------------------------------------------
(* HostedUpload implements WriteOnce: every step of a handler is a step of *)
(* the write-once register, or does not show there.                        *)

offered == [r \in Uploads |-> Offer(r)]

(* A request in the repository's terms is an offer in the register's.       *)
LEMMA OfferOfRequest ==
  ASSUME TypeOK, NEW r \in Uploads
  PROVE  /\ offered[r] = None <=> req[r] = None
         /\ req[r] # None => /\ offered[r].art = Art(r)
                             /\ offered[r].content = req[r].content
<1>1. CASE req[r] = None
  BY <1>1 DEF offered, Offer
<1>2. CASE req[r] # None
  <2>1. Art(r) \in Artifacts /\ req[r].content \in Contents
    BY <1>2 DEF TypeOK, Requests
  <2>2. offered[r] = [art |-> Art(r), content |-> req[r].content]
    BY <1>2 DEF offered, Offer
  <2>3. offered[r] # None
    BY <2>1, <2>2, NoneAssumption
  <2>4. QED BY <1>2, <2>2, <2>3
<1>3. QED BY <1>1, <1>2

LEMMA SameOffers == ASSUME UNCHANGED req PROVE UNCHANGED offered
BY DEF offered, Offer, Art

LEMMA UploadRefines ==
  ASSUME TypeOK, UniqueWinner, NEW r \in Uploads, UploadStep(r)
  PROVE  WO!Next \/ UNCHANGED <<files, offered, status>>
<1> USE DEF TypeOK, Goto, Answer, repoVars
<1> DEFINE Same == UNCHANGED <<files, offered, status>>
<1>1. CASE ReceiveUpload(r)
  <2>1. PICK a \in Artifacts, c \in Contents :
               Receive(r, [pkg |-> a[1], file |-> a[2], content |-> c])
    BY <1>1 DEF ReceiveUpload
  <2>2. /\ req[r] = None /\ status[r] = "none"
        /\ UNCHANGED <<files, status>>
        /\ req' = [req EXCEPT ![r] = [pkg |-> a[1], file |-> a[2], content |-> c]]
    BY <2>1 DEF Receive
  <2>3. [pkg |-> a[1], file |-> a[2], content |-> c] # None /\ a = <<a[1], a[2]>>
    BY ArtifactsAssumption, NoneAssumption DEF Requests
  <2>4. Offer(r)' = [art |-> a, content |-> c]
    BY <2>2, <2>3 DEF Offer, Art
  <2>5. \A q \in Uploads \ {r} : Offer(q)' = Offer(q)
    BY <2>2 DEF Offer, Art
  <2>6. offered' = [offered EXCEPT ![r] = [art |-> a, content |-> c]]
    BY <2>4, <2>5 DEF offered
  <2>7. offered[r] = None
    BY <2>2, OfferOfRequest
  <2>8. WO!Submit(r)
    BY <2>2, <2>6, <2>7 DEF WO!Submit, offered
  <2>9. QED BY <2>8 DEF WO!Next
<1>2. CASE RefuseUpload(r)
  <2>1. UNCHANGED <<files, req>> /\ status[r] = "none" /\ req[r] = None
    BY <1>2 DEF RefuseUpload, Refuse
  <2>2. WO!Reject(r)
    BY <1>2, <2>1, OfferOfRequest, SameOffers DEF RefuseUpload, Refuse, WO!Reject, offered
  <2>3. QED BY <2>2 DEF WO!Next
<1>3. CASE /\ req[r] # None /\ status[r] = "none" /\ UNCHANGED <<files, req>>
           /\ \/ UNCHANGED status
              \/ status' = [status EXCEPT ![r] = "error"]
  <2>1. Same \/ WO!Fail(r)
    BY <1>3, OfferOfRequest, SameOffers DEF WO!Fail, offered
  <2>2. QED BY <2>1 DEF WO!Next
<1>4. CASE GetOrCreatePackage(r)
  BY <1>3, <1>4 DEF GetOrCreatePackage, GetPackage, CreatePackage, RegetPackage
<1>5. CASE CheckExisting(r)
  <2>1. CASE status' = [status EXCEPT ![r] = "conflict"] /\ files[Art(r)] # None
    <3>1. /\ req[r] # None /\ status[r] = "none" /\ UNCHANGED <<files, req>>
      BY <1>5 DEF CheckExisting
    <3>2. WO!Conflict(r)
      BY <2>1, <3>1, OfferOfRequest, SameOffers DEF WO!Conflict, offered
    <3>3. QED BY <3>2 DEF WO!Next
  <2>2. QED BY <1>3, <1>5, <2>1 DEF CheckExisting
<1>6. CASE PutBlob(r)
  BY <1>3, <1>6 DEF PutBlob
<1>7. CASE CreateRow(r)
  <2>1. req[r] # None /\ status[r] = "none" /\ UNCHANGED <<req, status>>
    BY <1>7 DEF CreateRow
  <2>2. CASE InsertOk(Art(r), req[r].content)
    <3>1. WO!Write(r)
      BY <2>1, <2>2, OfferOfRequest, SameOffers DEF InsertOk, WO!Write, offered
    <3>2. QED BY <3>1 DEF WO!Next
  <2>3. CASE UNCHANGED files
    BY <1>3, <2>1, <2>3
  <2>4. QED BY <1>7, <2>2, <2>3 DEF CreateRow, InsertFails
<1>8. CASE Rollback(r)
  BY <1>3, <1>8 DEF Rollback
<1>9. CASE Reply(r)
  <2>1. req[r] # None /\ status[r] = "none" /\ Won(r) /\ UNCHANGED <<files, req>>
    BY <1>9 DEF Reply, Won
  <2>2. \A w \in Uploads : status[w] = "created" => req[w] # None /\ Art(w) # Art(r)
    BY <2>1 DEF UniqueWinner, Won, UploadPcs, Statuses
  <2>3. files[Art(r)] = req[r].content
    BY <2>1 DEF UniqueWinner
  <2>4. WO!Created(r)
    BY <1>9, <2>1, <2>2, <2>3, OfferOfRequest, SameOffers DEF Reply, WO!Created, offered
  <2>5. QED BY <2>4 DEF WO!Next
<1>10. QED
  BY <1>1, <1>2, <1>4, <1>5, <1>6, <1>7, <1>8, <1>9 DEF UploadStep

LEMMA CrashRefines ==
  ASSUME TypeOK, Crash
  PROVE  WO!CutOff
<1>1. UNCHANGED <<files, offered>>
  BY CrashEffect, SameOffers
<1>2. \A r \in Uploads : InFlight(r) <=> offered[r] # None /\ status[r] = "none"
  BY OfferOfRequest DEF TypeOK, InFlight, UploadPcs, Statuses
<1>3. QED
  BY <1>1, <1>2 DEF Crash, CrashUploads, WO!CutOff, offered

(* The file and PyPI upload handlers keep the promise of WriteOnce for      *)
(* every set of uploads and files and every fault.                          *)
THEOREM HostedImplementsWriteOnce == Spec => ImplementsWriteOnce
<1>1. Init => WO!Init
  BY DEF Init, WO!Init, Offer
<1>2. IInv /\ [Next]_vars => [WO!Next]_(WO!vars)
  <2> SUFFICES ASSUME IInv, [Next]_vars
               PROVE  WO!Next \/ UNCHANGED <<files, offered, status>>
    BY DEF WO!vars, offered
  <2>1. ASSUME NEW r \in Uploads, UploadStep(r)
        PROVE  WO!Next \/ UNCHANGED <<files, offered, status>>
    BY <2>1, UploadRefines DEF IInv
  <2>2. ASSUME NEW d \in Downloads, DownloadStep(d)
        PROVE  UNCHANGED <<files, offered, status>>
    BY <2>2, DownloadFrame, SameOffers
  <2>3. CASE Crash
    BY <2>3, CrashRefines DEF IInv, WO!Next
  <2>4. CASE UNCHANGED vars
    BY <2>4, SameOffers DEF vars, repoVars, uploadVars
  <2>5. QED
    BY <2>1, <2>2, <2>3, <2>4 DEF Next, AllAnswered
<1>3. QED
  BY <1>1, <1>2, InductiveInvariant, PTL DEF Spec, ImplementsWriteOnce, WO!Spec

===============================================================================
