---------------------------- MODULE GoUpload_proofs ----------------------------
(***************************************************************************)
(* Theorems about GoUpload, for every set of modules, versions, contents   *)
(* and uploads and for every set of faults.  The handler neither looks at  *)
(* what exists nor takes anything back, so its invariant differs from the  *)
(* one of HostedUpload: blobs are replaced, never deleted.                 *)
(***************************************************************************)
EXTENDS GoUpload, SequenceTheorems, TLAPS

(* An upload whose insert succeeded, whether or not its client knows.       *)
Won(r) == pc[r] = "reply" \/ status[r] = "created"

(* It finds its own content recorded, and is alone with its version.        *)
UniqueWinner ==
    /\ \A r \in Uploads : Won(r) => files[Art(r)] = req[r].content
    /\ \A r1, r2 \in Uploads : Won(r1) /\ Won(r2) /\ r1 # r2 => Art(r1) # Art(r2)

(* What storage.Put did and where the handler is belong together.           *)
WroteAfterPut ==
    \A r \in Uploads :
        /\ wrote[r] # "nothing" => /\ pc[r] \in {"createRow", "reply", "done"}
                                   /\ status[r] # "badRequest"
        /\ pc[r] \in {"createRow", "reply"} => wrote[r] \in {"stored", "lost"}

(* What an upload is about to record is in the bucket, unless the bucket    *)
(* lost it, or another one overwrote it: one that is on its way or was told *)
(* it failed, or one whose path meets its own in the key.                   *)
PendingExplained ==
    \A r \in Uploads :
        pc[r] = "createRow" /\ files[Art(r)] = None
          => \/ blobs[goBlobKey(Art(r))] = req[r].content
             \/ wrote[r] = "lost"
             \/ \E w \in Uploads \ {r} : Culprit(w, Art(r))

(* Nothing is deleted: what an upload wrote is there, or was overwritten.   *)
WrittenStays ==
    \A r \in Uploads :
        wrote[r] \in {"stored", "torn"} => blobs[goBlobKey(Art(r))] # None

(* A row was inserted by an upload that had gone through storage.Put.       *)
RowHasWriter(a) == \E r \in Uploads : wrote[r] \in {"stored", "lost"} /\ Art(r) = a

RowsHaveWriters == \A a \in Artifacts : files[a] # None => RowHasWriter(a)

GoInv ==
    /\ UniqueWinner /\ WroteAfterPut /\ PendingExplained
    /\ LossIsExplained /\ WrittenStays /\ RowsHaveWriters

-------------------------------------------------------------------------------
(* Keys                                                                     *)

LEMMA KeysOfArtifacts == \A a \in Artifacts : goBlobKey(a) \in Keys
  BY DEF Keys

(* Versions that meet in one key differ in what follows the module: modules *)
(* that share a version have keys of their own (goBlobKey).                 *)
LEMMA SharedVersionOwnKey ==
  ASSUME NEW a \in Artifacts, NEW b \in Artifacts, goBlobKey(a) = goBlobKey(b), a[2] = b[2]
  PROVE  a = b
<1>1. /\ a = <<a[1], a[2]>> /\ b = <<b[1], b[2]>>
      /\ a[1] \in Seq(Segments) /\ b[1] \in Seq(Segments) /\ a[2] \in Seq(Segments)
  BY ArtifactsAssumption, PathsAssumption
<1>2. a[1] \o a[2] = b[1] \o a[2]
  BY DEF goBlobKey
<1>3. a[1] = b[1]
  BY <1>1, <1>2, ConcatSimplifications
<1>4. QED BY <1>1, <1>3

-------------------------------------------------------------------------------
(* Type correctness                                                         *)

LEMMA UploadTypeOK ==
  ASSUME TypeOK, NEW r \in Uploads, UploadStep(r)
  PROVE  TypeOK'
<1> USE DEF TypeOK, WriteKinds, Goto, Answer, repoVars, Art
<1>1. CASE ReceiveUpload(r)
  <2>1. PICK a \in Artifacts, c \in Contents :
               Receive(r, [pkg |-> a[1], file |-> a[2], content |-> c])
    BY <1>1 DEF ReceiveUpload
  <2>2. PICK q : q = [pkg |-> a[1], file |-> a[2], content |-> c]
    OBVIOUS
  <2>3. q \in Requests /\ q # None /\ <<q.pkg, q.file>> \in Artifacts
    <3>1. a \in Packages \X Filenames
      BY ArtifactsAssumption
    <3>2. a = <<q.pkg, q.file>> /\ q \in Requests
      BY <2>2, <3>1 DEF Requests
    <3>3. QED BY <3>2, NoneAssumption
  <2>4. /\ pc[r] = "idle" /\ req' = [req EXCEPT ![r] = q]
        /\ pc' = [pc EXCEPT ![r] = "getPackage"]
        /\ UNCHANGED <<packages, files, blobs, status, wrote>>
    BY <2>1, <2>2 DEF Receive
  <2>5. QED BY <2>3, <2>4
<1>2. CASE Refuse(r)
  BY <1>2 DEF Refuse
<1>3. CASE GetPackage(r, "put")
  BY <1>3 DEF GetPackage
<1>4. CASE CreatePackage(r, "put")
  BY <1>4 DEF CreatePackage, Requests
<1>5. CASE RegetPackage(r, "put")
  BY <1>5 DEF RegetPackage
<1>6. CASE PutBlob(r)
  <2>1. goBlobKey(Art(r)) \in Keys
    BY <1>6, KeysOfArtifacts DEF PutBlob
  <2>2. blobs' \in [Keys -> Contents \cup {None, Torn}] /\ wrote' \in [Uploads -> WriteKinds]
    BY <1>6, <2>1 DEF PutBlob, PutOk, PutFails, PutBreaks, Requests
  <2>3. QED BY <1>6, <2>2 DEF PutBlob
<1>7. CASE CreateRow(r)
  BY <1>7 DEF CreateRow, InsertOk, InsertFails, Requests
<1>8. CASE Reply(r)
  BY <1>8 DEF Reply
<1>9. QED
  BY <1>1, <1>2, <1>3, <1>4, <1>5, <1>6, <1>7, <1>8 DEF UploadStep, GetOrCreatePackage

(* Every variable has its type in every reachable state of the handler of   *)
(* Go uploads (GoProtocol.handleUpload).                                    *)
THEOREM GoTypeCorrect == Spec => []TypeOK
<1>1. Init => TypeOK
  BY NoneAssumption, MarksAssumption DEF Init, TypeOK, WriteKinds, Keys
<1>2. TypeOK /\ [Next]_vars => TypeOK'
  <2> SUFFICES ASSUME TypeOK, [Next]_vars PROVE TypeOK'
    OBVIOUS
  <2>1. ASSUME NEW r \in Uploads, UploadStep(r) PROVE TypeOK'
    BY <2>1, UploadTypeOK
  <2>2. CASE Crash
    BY <2>2 DEF Crash, CrashUploads, InFlight, TypeOK, repoVars, Art
  <2>3. CASE UNCHANGED vars
    BY <2>3 DEF vars, repoVars, uploadVars, TypeOK, Art
  <2>4. QED BY <2>1, <2>2, <2>3 DEF Next, AllAnswered
<1>3. QED BY <1>1, <1>2, PTL DEF Spec

-------------------------------------------------------------------------------
(* The inductive invariant                                                  *)

(* Before its storage.Put an upload touches neither store.                  *)
LEMMA EarlyStepInv ==
  ASSUME TypeOK, TypeOK', GoInv, NEW r \in Uploads,
         ReceiveUpload(r) \/ Refuse(r) \/ GetOrCreatePackage(r)
  PROVE  GoInv'
<1>1. /\ UNCHANGED <<files, blobs, wrote>>
      /\ wrote[r] = "nothing" /\ ~Won(r) /\ ~Won(r)'
      /\ pc[r] # "createRow" /\ pc'[r] \notin {"createRow", "reply"}
      /\ \A q \in Uploads \ {r} : /\ pc'[q] = pc[q] /\ status'[q] = status[q]
                                  /\ req'[q] = req[q]
  BY DEF TypeOK, GoInv, WroteAfterPut, ReceiveUpload, Receive, Refuse, GetOrCreatePackage,
         GetPackage, CreatePackage, RegetPackage, Goto, Answer, Won, repoVars, WriteKinds
<1>2. \A q \in Uploads \ {r} : Art(q)' = Art(q) /\ (Won(q)' <=> Won(q))
  BY <1>1 DEF Art, Won
<1>3. \A q \in Uploads, a \in Artifacts : Culprit(q, a) => q # r /\ Culprit(q, a)'
  BY <1>1, <1>2 DEF Culprit, goBlobKey
<1>4. UniqueWinner' /\ WroteAfterPut' /\ WrittenStays'
  BY <1>1, <1>2 DEF GoInv, UniqueWinner, WroteAfterPut, WrittenStays, goBlobKey
<1>5. PendingExplained'
  BY <1>1, <1>2, <1>3 DEF GoInv, PendingExplained, goBlobKey, TypeOK
<1>6. LossIsExplained'
  BY <1>1, <1>3 DEF GoInv, LossIsExplained, goBlobKey
<1>7. RowsHaveWriters'
  BY <1>1, <1>2 DEF GoInv, RowsHaveWriters, RowHasWriter
<1>8. QED BY <1>4, <1>5, <1>6, <1>7 DEF GoInv

LEMMA PutBlobInv ==
  ASSUME TypeOK, TypeOK', GoInv, NEW r \in Uploads, PutBlob(r)
  PROVE  GoInv'
<1> DEFINE key == goBlobKey(Art(r))
<1>1. /\ UNCHANGED <<files, req>> /\ pc[r] = "put" /\ wrote[r] = "nothing" /\ req[r] # None
      /\ ~Won(r) /\ ~Won(r)' /\ Art(r) \in Artifacts /\ req[r].content # None
      /\ \A q \in Uploads \ {r} : /\ pc'[q] = pc[q] /\ status'[q] = status[q]
                                  /\ wrote'[q] = wrote[q]
      /\ \A q \in Uploads : Art(q)' = Art(q)
  BY MarksAssumption DEF TypeOK, GoInv, WroteAfterPut, PutBlob, PutOk, PutFails, PutBreaks,
         Goto, Answer, Won, Art, WriteKinds, Requests
<1>2. \/ /\ pc'[r] = "createRow" /\ status'[r] = status[r]
         /\ \/ /\ wrote'[r] = "stored"
               /\ blobs' = [blobs EXCEPT ![key] = req[r].content]
            \/ wrote'[r] = "lost" /\ blobs' = blobs
      \/ /\ pc'[r] = "done" /\ status'[r] = "error"
         /\ \/ wrote'[r] = "nothing" /\ blobs' = blobs
            \/ wrote'[r] = "torn" /\ blobs' = [blobs EXCEPT ![key] = Torn]
  BY <1>1 DEF PutBlob, PutOk, PutFails, PutBreaks, Goto, Answer, TypeOK
<1>3. key \in Keys /\ \A a \in Artifacts : goBlobKey(a) \in Keys
  BY <1>1, KeysOfArtifacts
<1> HIDE DEF key
<1>4. \A q \in Uploads \ {r}, a \in Artifacts : Culprit(q, a) => Culprit(q, a)'
  BY <1>1 DEF Culprit, goBlobKey
<1>5. \A a \in Artifacts : ~Culprit(r, a)
  BY <1>1 DEF Culprit
<1>6. \A a \in Artifacts : goBlobKey(a) = key /\ blobs' # blobs => Culprit(r, a)'
  <2> SUFFICES ASSUME NEW a \in Artifacts, goBlobKey(a) = key, blobs' # blobs
               PROVE  Culprit(r, a)'
    OBVIOUS
  <2>1. /\ wrote'[r] # "nothing"
        /\ pc'[r] = "createRow" \/ status'[r] = "error"
        /\ Art(r)' = Art(r) /\ (goBlobKey(Art(r)) = goBlobKey(a))'
    BY <1>1, <1>2 DEF goBlobKey, key
  <2>2. Art(r) # a => Art(r)[2] # a[2]
    BY <1>1, SharedVersionOwnKey DEF key
  <2>3. CASE Art(r) = a
    BY <2>1, <2>3 DEF Culprit
  <2>4. CASE Art(r) # a
    BY <2>1, <2>2, <2>4 DEF Culprit
  <2>5. QED BY <2>3, <2>4
<1>7. /\ \A k \in Keys : blobs'[k] # blobs[k] => k = key /\ blobs'[k] # None
      /\ wrote'[r] \in {"stored", "torn"} => blobs'[key] # None
  BY <1>1, <1>2, <1>3, MarksAssumption DEF TypeOK
<1>8. UniqueWinner' /\ WroteAfterPut'
  BY <1>1, <1>2 DEF GoInv, UniqueWinner, WroteAfterPut, Won, TypeOK
<1>9. PendingExplained'
  <2> SUFFICES ASSUME NEW q \in Uploads, NEW a, a = Art(q)', pc'[q] = "createRow",
                      files[a] = None, blobs'[goBlobKey(a)] # req[q].content,
                      wrote'[q] # "lost"
               PROVE  \E w \in Uploads \ {q} : Culprit(w, a)'
    BY <1>1 DEF PendingExplained, goBlobKey
  <2>1. a = Art(q) /\ a \in Artifacts
    BY <1>1 DEF TypeOK
  <2>2. q # r
    BY <1>1, <1>2, <1>3, <2>1 DEF TypeOK, key
  <2>3. CASE blobs'[goBlobKey(a)] # blobs[goBlobKey(a)]
    BY <1>3, <1>6, <1>7, <2>1, <2>2, <2>3
  <2>4. CASE blobs'[goBlobKey(a)] = blobs[goBlobKey(a)]
    BY <1>1, <1>4, <1>5, <2>1, <2>2, <2>4 DEF GoInv, PendingExplained
  <2>5. QED BY <2>3, <2>4
<1>10. LossIsExplained'
  <2> SUFFICES ASSUME NEW a \in Artifacts, NEW k, k = goBlobKey(a),
                      files[a] # None, blobs'[k] # files[a]
               PROVE  \E w \in Uploads : Culprit(w, a)'
    BY <1>1 DEF LossIsExplained, goBlobKey
  <2>1. CASE blobs'[k] # blobs[k]
    BY <1>3, <1>6, <1>7, <2>1
  <2>2. CASE blobs'[k] = blobs[k]
    BY <1>4, <1>5, <2>2 DEF GoInv, LossIsExplained
  <2>3. QED BY <2>1, <2>2
<1>11. WrittenStays'
  <2> SUFFICES ASSUME NEW q \in Uploads, NEW a, a = Art(q)', wrote'[q] \in {"stored", "torn"}
               PROVE  blobs'[goBlobKey(a)] # None
    BY DEF WrittenStays, goBlobKey
  <2>1. a = Art(q)
    BY <1>1
  <2>2. CASE q = r
    BY <1>7, <2>1, <2>2 DEF key
  <2>3. CASE q # r
    <3>1. wrote[q] \in {"stored", "torn"}
      BY <1>1, <2>3
    <3>2. a \in Artifacts
      BY <2>1, <3>1 DEF GoInv, WroteAfterPut, TypeOK
    <3>3. blobs[goBlobKey(a)] # None
      BY <2>1, <3>1 DEF GoInv, WrittenStays
    <3>4. QED BY <1>3, <1>7, <3>2, <3>3
  <2>4. QED BY <2>2, <2>3
<1>12. RowsHaveWriters'
  BY <1>1 DEF GoInv, RowsHaveWriters, RowHasWriter
<1>13. QED BY <1>8, <1>9, <1>10, <1>11, <1>12 DEF GoInv

LEMMA CreateRowInv ==
  ASSUME TypeOK, TypeOK', GoInv, NEW r \in Uploads, CreateRow(r)
  PROVE  GoInv'
<1>1. /\ UNCHANGED <<blobs, req, wrote>>
      /\ pc[r] = "createRow" /\ wrote[r] \in {"stored", "lost"} /\ req[r] # None
      /\ status[r] = "none" /\ Art(r) \in Artifacts /\ req[r].content \in Contents
      /\ \A q \in Uploads \ {r} : pc'[q] = pc[q] /\ status'[q] = status[q]
      /\ \A q \in Uploads : Art(q)' = Art(q)
  BY DEF TypeOK, GoInv, WroteAfterPut, CreateRow, Goto, Answer, Art, Requests
<1>2. \/ /\ files[Art(r)] = None /\ files' = [files EXCEPT ![Art(r)] = req[r].content]
         /\ pc'[r] = "reply" /\ status'[r] = "none"
      \/ /\ files[Art(r)] = None /\ files' = [files EXCEPT ![Art(r)] = req[r].content]
         /\ pc'[r] = "done" /\ status'[r] = "error"
      \/ files' = files /\ pc'[r] = "done" /\ status'[r] = "error"
  BY <1>1 DEF CreateRow, InsertOk, InsertFails, Goto, Answer, TypeOK
<1>3. /\ \A q \in Uploads \ {r}, a \in Artifacts : Culprit(q, a) => Culprit(q, a)'
      /\ \A a \in Artifacts : /\ Culprit(r, a) => Culprit(r, a)' \/ files[a] = None
                              /\ files[a] # None => files'[a] = files[a]
      /\ \A a \in Artifacts : a = Art(r) /\ pc'[r] # "reply" => Culprit(r, a)'
  BY <1>1, <1>2 DEF Culprit, TypeOK, goBlobKey
<1>4. UniqueWinner'
  <2>1. \A q \in Uploads \ {r} : Won(q)' => Won(q) /\ files[Art(q)] = req[q].content
    BY <1>1 DEF Won, GoInv, UniqueWinner
  <2>2. \A q \in Uploads \ {r} : Won(q) => files[Art(q)] # None
    BY MarksAssumption DEF GoInv, UniqueWinner, Won, TypeOK, Requests
  <2>3. Won(r)' => files[Art(r)] = None /\ files'[Art(r)] = req[r].content
    BY <1>1, <1>2 DEF Won, TypeOK
  <2>4. \A q \in Uploads \ {r} : Won(q)' => Art(q) \in Artifacts
    BY <2>1 DEF Won, TypeOK
  <2>5. QED BY <1>1, <1>3, <2>1, <2>2, <2>3, <2>4 DEF UniqueWinner, GoInv
<1>5. WroteAfterPut'
  BY <1>1, <1>2 DEF GoInv, WroteAfterPut, TypeOK
<1>6. PendingExplained'
  <2> SUFFICES ASSUME NEW q \in Uploads, NEW a, a = Art(q)', pc'[q] = "createRow",
                      files'[a] = None, blobs[goBlobKey(a)] # req[q].content,
                      wrote[q] # "lost"
               PROVE  \E w \in Uploads \ {q} : Culprit(w, a)'
    BY <1>1 DEF PendingExplained, goBlobKey
  <2>1. q # r /\ a = Art(q) /\ a \in Artifacts /\ files[a] = None
    BY <1>1, <1>2, <1>3 DEF TypeOK
  <2>2. PICK w \in Uploads \ {q} : Culprit(w, a)
    BY <1>1, <2>1 DEF GoInv, PendingExplained, goBlobKey
  <2>3. CASE w # r
    BY <1>3, <2>1, <2>2, <2>3
  <2>4. CASE w = r
    BY <1>1, <1>2, <1>3, <2>1, <2>2, <2>4, MarksAssumption DEF Culprit, TypeOK
  <2>5. QED BY <2>3, <2>4
<1>7. LossIsExplained'
  <2> SUFFICES ASSUME NEW a \in Artifacts, files'[a] # None,
                      blobs[goBlobKey(a)] # files'[a]
               PROVE  \E w \in Uploads : Culprit(w, a)'
    BY <1>1 DEF LossIsExplained, goBlobKey
  <2>1. CASE files[a] # None
    BY <1>3, <2>1 DEF GoInv, LossIsExplained, goBlobKey
  <2>2. CASE files[a] = None
    <3>1. a = Art(r) /\ files'[a] = req[r].content
      BY <1>1, <1>2, <2>2 DEF TypeOK
    <3>2. CASE pc'[r] # "reply"
      BY <1>3, <3>1, <3>2
    <3>3. CASE wrote[r] = "lost"
      BY <1>1, <3>1, <3>3 DEF Culprit
    <3>4. CASE wrote[r] # "lost"
      <4>1. PICK w \in Uploads \ {r} : Culprit(w, a)
        BY <1>1, <2>2, <3>1, <3>4 DEF GoInv, PendingExplained, goBlobKey
      <4>2. QED BY <1>3, <4>1
    <3>5. QED BY <3>3, <3>4
  <2>3. QED BY <2>1, <2>2
<1>8. WrittenStays'
  BY <1>1 DEF GoInv, WrittenStays, goBlobKey
<1>9. RowsHaveWriters'
  BY <1>1, <1>2 DEF GoInv, RowsHaveWriters, RowHasWriter, TypeOK
<1>10. QED BY <1>4, <1>5, <1>6, <1>7, <1>8, <1>9 DEF GoInv

(* An answer, or a crash, moves nobody but those who end.                   *)
LEMMA EndingInv ==
  ASSUME TypeOK, TypeOK', GoInv, UNCHANGED <<repoVars, req, wrote>>,
         \A q \in Uploads :
            \/ pc'[q] = pc[q] /\ status'[q] = status[q]
            \/ pc[q] = "reply" /\ pc'[q] = "done" /\ status'[q] = "created"
            \/ InFlight(q) /\ pc'[q] = "done" /\ status'[q] = "crashed"
  PROVE  GoInv'
<1>1. \A q \in Uploads : /\ Art(q)' = Art(q) /\ (Won(q)' => Won(q))
                         /\ \A a \in Artifacts : Culprit(q, a) => Culprit(q, a)'
                         /\ pc'[q] = "createRow" => pc[q] = "createRow"
  BY DEF Art, Won, Culprit, TypeOK, InFlight, goBlobKey
<1>2. UniqueWinner' /\ WrittenStays' /\ RowsHaveWriters' /\ LossIsExplained' /\ PendingExplained'
  BY <1>1 DEF GoInv, UniqueWinner, WrittenStays, RowsHaveWriters, RowHasWriter, LossIsExplained,
              PendingExplained, goBlobKey, repoVars, TypeOK
<1>3. WroteAfterPut'
  BY <1>1 DEF GoInv, WroteAfterPut, TypeOK, InFlight
<1>4. QED BY <1>2, <1>3 DEF GoInv

(* Every row has a writer whose blob is still there, and who is about to     *)
(* insert knows what the bucket holds, in every reachable state.            *)
THEOREM GoInvariant == Spec => []GoInv
<1>1. Init => GoInv
  BY DEF Init, GoInv, UniqueWinner, Won, WroteAfterPut, PendingExplained, LossIsExplained,
         WrittenStays, RowsHaveWriters
<1>2. TypeOK /\ TypeOK' /\ GoInv /\ [Next]_vars => GoInv'
  <2> SUFFICES ASSUME TypeOK, TypeOK', GoInv, [Next]_vars PROVE GoInv'
    OBVIOUS
  <2>1. ASSUME NEW r \in Uploads, UploadStep(r) PROVE GoInv'
    <3>1. CASE Reply(r)
      BY <3>1, EndingInv DEF Reply, Answer, TypeOK
    <3>2. QED BY <2>1, <3>1, EarlyStepInv, PutBlobInv, CreateRowInv DEF UploadStep
  <2>2. CASE Crash
    BY <2>2, EndingInv DEF Crash, CrashUploads
  <2>3. CASE UNCHANGED vars
    BY <2>3, EndingInv DEF vars, repoVars, uploadVars
  <2>4. QED BY <2>1, <2>2, <2>3 DEF Next, AllAnswered
<1>3. QED BY <1>1, <1>2, GoTypeCorrect, PTL DEF Spec

-------------------------------------------------------------------------------
(* What it gives                                                            *)

(* Of any number of uploads of one version of a module at most one is told  *)
(* that it was created, although nothing is checked before the insert.      *)
THEOREM GoAtMostOneCreated == Spec => []AtMostOneCreated
<1>1. GoInv => AtMostOneCreated
  BY DEF GoInv, UniqueWinner, Won, AtMostOneCreated
<1>2. QED BY <1>1, GoInvariant, PTL

(* A version whose blob is not the recorded one has an upload of the same   *)
(* module and version to blame, or one of a version with another name whose *)
(* slashes lead to the same key: modules that share a version keep their    *)
(* files apart.                                                             *)
THEOREM GoLossIsExplained == Spec => []LossIsExplained
<1>1. GoInv => LossIsExplained
  BY DEF GoInv
<1>2. QED BY <1>1, GoInvariant, PTL

(* A recorded version has a blob, unless storage.Put hid a failed commit.   *)
THEOREM GoRecordedHasBlob == Spec => []RecordedHasBlob
<1>1. GoInv => RecordedHasBlob
  BY DEF GoInv, RowsHaveWriters, RowHasWriter, WrittenStays, RecordedHasBlob
<1>2. QED BY <1>1, GoInvariant, PTL

===============================================================================
