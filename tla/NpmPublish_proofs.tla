--------------------------- MODULE NpmPublish_proofs ---------------------------
(***************************************************************************)
(* Theorems about NpmPublish, for every set of packages, files, contents   *)
(* and publishes and for every set of faults.  A publish is a loop over    *)
(* its attachments: both invariants follow one attachment through it.      *)
(***************************************************************************)
EXTENDS NpmPublish, TLAPS

(* What became of attachment f of r is settled, or is being settled: it has *)
(* its row, or there is a reason why not.                                   *)
Settling(r, f) ==
    LET recorded == files[Art(r, f)] # None IN
    /\ fate[r][f] = "todo" => status[r] # "created"
    /\ fate[r][f] = "lost" => Faults # {}
    /\ fate[r][f] = "failed" => recorded \/ Faults # {}
    /\ fate[r][f] = "stored" => \/ recorded \/ status[r] = "crashed"
                                \/ pc[r] = "createRow" /\ current[r] = f

AttachmentsSettle ==
    \A r \in Uploads : req[r] # None => \A f \in DOMAIN fate[r] : Settling(r, f)

(* A row was inserted by a publish that carries its file.                   *)
RowsHaveCarriers ==
    \A a \in Artifacts : files[a] # None => \E r \in Uploads : Carries(r, a)

OwnsKey(a) == \A b \in Artifacts : blobKey(b) = blobKey(a) => b = a

(* The only publish of a file whose name no other package uses finds in the *)
(* bucket what it wrote there, and in the row, once there is one, the same. *)
SolePublishIsSafe ==
    \A a \in Artifacts, r \in Uploads :
        /\ OwnsKey(a) /\ Carries(r, a) /\ fate[r][a[2]] # "lost"
        /\ \A q \in Uploads : Carries(q, a) => q = r
        => /\ files[a] # None => /\ fate[r][a[2]] \in {"stored", "failed"}
                                 /\ blobs[a[2]] = files[a]
           /\ fate[r][a[2]] = "stored" => blobs[a[2]] = req[r].attachments[a[2]]

NpmInv == AttachmentsSettle /\ RowsHaveCarriers /\ SolePublishIsSafe

-------------------------------------------------------------------------------
(* Type correctness                                                         *)

LEMMA PayloadShape ==
  ASSUME NEW q \in Payloads
  PROVE  /\ q.pkg \in Packages /\ DOMAIN q.attachments \subseteq Filenames
         /\ \A f \in DOMAIN q.attachments : q.attachments[f] \in Contents \cup {Garbled}
         /\ q # None
<1>1. PICK S \in SUBSET Filenames : q.attachments \in [S -> Contents \cup {Garbled}]
  BY DEF Payloads
<1>2. QED BY <1>1, PayloadAssumption DEF Payloads

LEMMA MarkedFate ==
  ASSUME NEW g \in FateShapes, NEW f \in DOMAIN g, NEW what \in Fates
  PROVE  [g EXCEPT ![f] = what] \in FateShapes
BY DEF FateShapes

LEMMA NoFate == [f \in {} |-> "todo"] \in FateShapes
BY DEF FateShapes

LEMMA ReceiveTypeOK ==
  ASSUME TypeOK, NEW r \in Uploads, ReceivePublish(r)
  PROVE  TypeOK'
<1>1. PICK q \in Payloads :
             /\ {q.pkg} \X DOMAIN q.attachments \subseteq Artifacts
             /\ Receive(r, q)
             /\ fate' = [fate EXCEPT ![r] = [f \in DOMAIN q.attachments |-> "todo"]]
  BY DEF ReceivePublish
<1>2. PICK g : g = [f \in DOMAIN q.attachments |-> "todo"]
  OBVIOUS
<1>3. g \in FateShapes /\ DOMAIN g = DOMAIN q.attachments
  BY <1>2, PayloadShape DEF FateShapes, Fates
<1>4. /\ pc[r] = "idle" /\ pc' = [pc EXCEPT ![r] = "getPackage"]
      /\ req' = [req EXCEPT ![r] = q] /\ fate' = [fate EXCEPT ![r] = g]
      /\ UNCHANGED <<packages, files, blobs, status, wrote, current>>
  BY <1>1, <1>2 DEF ReceivePublish, Receive, Goto, repoVars
<1>5. /\ fate' \in [Uploads -> FateShapes] /\ req' \in [Uploads -> Payloads \cup {None}]
      /\ pc' \in [Uploads -> {"idle", "getPackage", "createPackage", "regetPackage",
                              "attach", "createRow", "done"}]
  BY <1>3, <1>4 DEF TypeOK
<1>6. \A u \in Uploads \ {r} : /\ req'[u] = req[u] /\ fate'[u] = fate[u] /\ pc'[u] = pc[u]
                               /\ \A f : Art(u, f)' = Art(u, f)
  BY <1>4 DEF Art, TypeOK
<1>7. /\ q # None /\ req'[r] = q /\ fate'[r] = g /\ pc'[r] = "getPackage"
      /\ \A f : Art(r, f)' = <<q.pkg, f>>
      /\ \A f \in DOMAIN g : <<q.pkg, f>> \in Artifacts
  BY <1>1, <1>3, <1>4, PayloadShape DEF Art, TypeOK
<1>8. QED
  BY <1>3, <1>4, <1>5, <1>6, <1>7 DEF TypeOK

(* What a step on one attachment may do to its request.                     *)
LEMMA MarkTypeOK ==
  ASSUME TypeOK, NEW r \in Uploads, NEW f \in DOMAIN fate[r],
         NEW what \in Fates, Mark(r, f, what)
  PROVE  /\ fate' \in [Uploads -> FateShapes]
         /\ fate'[r] = [fate[r] EXCEPT ![f] = what] /\ fate'[r][f] = what
         /\ \A u \in Uploads \ {r} : fate'[u] = fate[u]
         /\ \A u \in Uploads : DOMAIN fate'[u] = DOMAIN fate[u]
<1>1. fate \in [Uploads -> FateShapes] /\ fate[r] \in FateShapes
  BY DEF TypeOK
<1>2. PICK g : g = [fate[r] EXCEPT ![f] = what]
  OBVIOUS
<1>3. g \in FateShapes /\ DOMAIN g = DOMAIN fate[r]
  BY <1>1, <1>2, MarkedFate
<1>4. fate' = [fate EXCEPT ![r] = g]
  BY <1>2 DEF Mark
<1>5. QED BY <1>1, <1>2, <1>3, <1>4

(* The data of attachment f, which r has reached.                           *)
LEMMA AttachmentAt ==
  ASSUME TypeOK, NEW r \in Uploads, req[r] # None, NEW f \in DOMAIN fate[r]
  PROVE  /\ Art(r, f) \in Artifacts /\ f \in Filenames /\ blobKey(Art(r, f)) = f
         /\ req[r].attachments[f] \in Contents \cup {Garbled}
         /\ f \in DOMAIN req[r].attachments /\ Carries(r, Art(r, f)) /\ Art(r, f)[2] = f
<1>1. req[r] \in Payloads
  BY DEF TypeOK
<1>2. QED
  BY <1>1, PayloadShape DEF TypeOK, Art, blobKey, Carries

LEMMA StoreTypeOK ==
  ASSUME TypeOK, NEW r \in Uploads, StoreAttachment(r)
  PROVE  TypeOK'
<1>1. pc[r] = "attach" /\ req[r] # None /\ UNCHANGED <<packages, files, req, status>>
  BY DEF StoreAttachment, TypeOK, Goto
<1>2. PICK f \in Todo(r) :
        LET data == req[r].attachments[f] IN
          /\ current' = [current EXCEPT ![r] = f]
          /\ \/ /\ data = Garbled
                /\ Mark(r, f, "garbled") /\ Goto(r, "attach") /\ UNCHANGED <<blobs, wrote>>
             \/ /\ data # Garbled
                /\ PutOk(r, blobKey(Art(r, f)), data)
                /\ Mark(r, f, wrote'[r]) /\ Goto(r, "createRow")
             \/ /\ data # Garbled
                /\ PutFails(r, blobKey(Art(r, f)))
                /\ Mark(r, f, "failed") /\ Goto(r, "attach")
  BY DEF StoreAttachment
<1>3. /\ f \in DOMAIN fate[r] /\ f \in Filenames /\ blobKey(Art(r, f)) = f
      /\ req[r].attachments[f] \in Contents \cup {Garbled}
  BY <1>1, <1>2, AttachmentAt DEF Todo
<1>4. /\ current' \in [Uploads -> Filenames \cup {None}] /\ current'[r] = f
      /\ \A u \in Uploads \ {r} : current'[u] = current[u]
  BY <1>2, <1>3 DEF TypeOK
<1>5. /\ wrote' \in [Uploads -> WriteKinds]
      /\ blobs' \in [Keys -> Contents \cup {None, Torn}]
  BY <1>2, <1>3 DEF TypeOK, PutOk, PutFails, PutBreaks, WriteKinds, Keys
<1>6. pc' = [pc EXCEPT ![r] = "attach"] \/ pc' = [pc EXCEPT ![r] = "createRow"]
  BY <1>2 DEF Goto
<1>7. PICK what \in Fates : /\ Mark(r, f, what)
                            /\ pc'[r] = "createRow" => /\ what \in {"stored", "lost"}
                                                       /\ req[r].attachments[f] # Garbled
  BY <1>1, <1>2 DEF Fates, TypeOK, PutOk, Goto
<1>8. /\ fate' \in [Uploads -> FateShapes] /\ fate'[r][f] = what
      /\ \A u \in Uploads \ {r} : fate'[u] = fate[u]
      /\ \A u \in Uploads : DOMAIN fate'[u] = DOMAIN fate[u]
  BY <1>1, <1>3, <1>7, MarkTypeOK
<1>9. \A u \in Uploads : \A x : Art(u, x)' = Art(u, x)
  BY <1>1 DEF Art
<1>10. \A u \in Uploads :
        pc'[u] = "createRow" => /\ current'[u] \in DOMAIN fate'[u]
                                /\ fate'[u][current'[u]] \in {"stored", "lost"}
                                /\ req[u].attachments[current'[u]] # Garbled
  BY <1>3, <1>4, <1>7, <1>8, <1>6 DEF TypeOK
<1>11. QED
  BY <1>1, <1>4, <1>8, <1>9, <1>10, <1>5, <1>6 DEF TypeOK

LEMMA RowTypeOK ==
  ASSUME TypeOK, NEW r \in Uploads, CreateRow(r)
  PROVE  TypeOK'
<1>1. PICK f : f = current[r]
  OBVIOUS
<1>2. /\ pc[r] = "createRow" /\ req[r] # None /\ f \in DOMAIN fate[r]
      /\ pc' = [pc EXCEPT ![r] = "attach"]
      /\ UNCHANGED <<packages, blobs, req, wrote, current, status>>
  BY <1>1 DEF CreateRow, Goto, TypeOK
<1>3. /\ Art(r, f) \in Artifacts /\ req[r].attachments[f] \in Contents
  BY <1>1, <1>2, AttachmentAt DEF TypeOK
<1>4. files' \in [Artifacts -> Contents \cup {None}]
  BY <1>1, <1>3 DEF CreateRow, InsertOk, InsertFails, TypeOK
<1>5. UNCHANGED fate \/ Mark(r, f, "failed")
  BY <1>1 DEF CreateRow
<1>6. /\ fate' \in [Uploads -> FateShapes]
      /\ \A u \in Uploads \ {r} : fate'[u] = fate[u]
      /\ \A u \in Uploads : DOMAIN fate'[u] = DOMAIN fate[u]
  <2>1. CASE UNCHANGED fate
    BY <2>1 DEF TypeOK
  <2>2. CASE Mark(r, f, "failed")
    <3>1. "failed" \in Fates
      BY DEF Fates
    <3>2. QED BY <1>2, <2>2, <3>1, MarkTypeOK
  <2>3. QED BY <1>5, <2>1, <2>2
<1>7. \A u \in Uploads : \A x : Art(u, x)' = Art(u, x)
  BY <1>2 DEF Art
<1>8. \A u \in Uploads :
        pc'[u] = "createRow" => /\ current'[u] \in DOMAIN fate'[u]
                                /\ fate'[u][current'[u]] \in {"stored", "lost"}
                                /\ req[u].attachments[current'[u]] # Garbled
  BY <1>2, <1>6 DEF TypeOK
<1>9. /\ pc' \in [Uploads -> {"idle", "getPackage", "createPackage", "regetPackage",
                              "attach", "createRow", "done"}]
      /\ \A u \in Uploads : /\ pc'[u] = "idle" <=> pc[u] = "idle"
                            /\ pc'[u] = "done" <=> pc[u] = "done"
  BY <1>2 DEF TypeOK
<1>10. QED
  BY <1>2, <1>4, <1>6, <1>7, <1>8, <1>9 DEF TypeOK

LEMMA PublishTypeOK ==
  ASSUME TypeOK, NEW r \in Uploads, UploadStep(r)
  PROVE  TypeOK'
<1>1. CASE RefusePublish(r) \/ Reply(r)
  BY <1>1 DEF RefusePublish, Refuse, Reply, Answer, TypeOK, Art, repoVars
<1>2. CASE GetOrCreatePackage(r)
  <2>1. /\ UNCHANGED <<files, blobs, req, wrote, fate, current>>
        /\ pc[r] \notin {"idle", "done", "createRow"} /\ req[r] # None
    BY <1>2 DEF GetOrCreatePackage, GetPackage, CreatePackage, RegetPackage, repoVars, TypeOK
  <2>2. req[r].pkg \in Packages
    BY <2>1, PayloadShape DEF TypeOK
  <2>3. packages' \subseteq Packages
    BY <1>2, <2>2
    DEF GetOrCreatePackage, GetPackage, CreatePackage, RegetPackage, repoVars, TypeOK
  <2>4. \/ \E next \in {"createPackage", "regetPackage", "attach"} : Goto(r, next)
        \/ Answer(r, "error")
    BY <1>2 DEF GetOrCreatePackage, GetPackage, CreatePackage, RegetPackage
  <2>5. QED
    BY <2>1, <2>3, <2>4 DEF TypeOK, Goto, Answer, Art
<1>3. QED
  BY <1>1, <1>2, ReceiveTypeOK, StoreTypeOK, RowTypeOK DEF UploadStep

(* Every variable has its type in every reachable state of the npm publish  *)
(* handler, and it is at a row only for what it has stored (handleUpload).  *)
THEOREM NpmTypeCorrect == Spec => []TypeOK
<1>1. Init => TypeOK
  BY NoFate DEF Init, TypeOK, WriteKinds, Keys
<1>2. TypeOK /\ [Next]_vars => TypeOK'
  <2> SUFFICES ASSUME TypeOK, [Next]_vars PROVE TypeOK'
    OBVIOUS
  <2>1. ASSUME NEW r \in Uploads, UploadStep(r) PROVE TypeOK'
    BY <2>1, PublishTypeOK
  <2>2. CASE Crash
    BY <2>2 DEF Crash, CrashUploads, InFlight, TypeOK, repoVars, Art
  <2>3. CASE UNCHANGED vars
    BY <2>3 DEF vars, repoVars, uploadVars, TypeOK, Art
  <2>4. QED BY <2>1, <2>2, <2>3 DEF Next, AllAnswered
<1>3. QED BY <1>1, <1>2, PTL DEF Spec

-------------------------------------------------------------------------------
(* The inductive invariant                                                  *)

(* A step that leaves rows, blobs and attachments alone.                    *)
LEMMA QuietInv ==
  ASSUME TypeOK, NpmInv, UNCHANGED <<files, blobs, req, fate, current>>,
         \A u \in Uploads :
            /\ \/ status'[u] = status[u]
               \/ status'[u] = "created" /\ Todo(u) = {}
               \/ status[u] = "none" /\ status'[u] # "created"
            /\ \/ pc'[u] = pc[u]
               \/ pc[u] # "createRow"
               \/ status'[u] = "crashed"
            /\ status[u] = "crashed" => status'[u] = "crashed"
  PROVE  NpmInv'
<1>1. \A u \in Uploads : /\ \A a : Carries(u, a)' <=> Carries(u, a)
                         /\ \A f : Art(u, f)' = Art(u, f)
  BY DEF Carries, Art
<1>2. RowsHaveCarriers' /\ SolePublishIsSafe'
  BY <1>1 DEF NpmInv, RowsHaveCarriers, SolePublishIsSafe, OwnsKey, blobKey
<1>3. AttachmentsSettle'
  <2> SUFFICES ASSUME NEW u \in Uploads, req[u] # None, NEW f \in DOMAIN fate[u]
               PROVE  Settling(u, f)'
    BY DEF AttachmentsSettle
  <2>1. Settling(u, f)
    BY DEF NpmInv, AttachmentsSettle
  <2>2. QED BY <1>1, <2>1 DEF Settling, Todo
<1>4. QED BY <1>2, <1>3 DEF NpmInv

LEMMA ReceiveInv ==
  ASSUME TypeOK, NpmInv, NEW r \in Uploads, ReceivePublish(r)
  PROVE  NpmInv'
<1>1. PICK q \in Payloads :
             /\ Receive(r, q)
             /\ fate' = [fate EXCEPT ![r] = [f \in DOMAIN q.attachments |-> "todo"]]
  BY DEF ReceivePublish
<1>2. /\ req[r] = None /\ status'[r] = "none" /\ req'[r] = q
      /\ UNCHANGED <<files, blobs, current, status>>
      /\ \A f \in DOMAIN q.attachments : fate'[r][f] = "todo"
      /\ DOMAIN fate'[r] = DOMAIN q.attachments
      /\ \A u \in Uploads \ {r} : pc'[u] = pc[u] /\ fate'[u] = fate[u] /\ req'[u] = req[u]
  BY <1>1 DEF Receive, Goto, ReceivePublish, repoVars, TypeOK
<1>3. /\ \A u \in Uploads \ {r} : \A f : Art(u, f)' = Art(u, f)
      /\ \A u \in Uploads \ {r} : \A a : Carries(u, a)' <=> Carries(u, a)
      /\ \A a : ~Carries(r, a)
  BY <1>2 DEF Art, Carries
<1>4. AttachmentsSettle'
  <2> SUFFICES ASSUME NEW u \in Uploads, req'[u] # None, NEW f \in DOMAIN fate'[u]
               PROVE  Settling(u, f)'
    BY DEF AttachmentsSettle
  <2>1. CASE u = r
    BY <1>2, <2>1 DEF Settling
  <2>2. CASE u # r
    <3>1. Settling(u, f)
      BY <1>2, <2>2 DEF NpmInv, AttachmentsSettle
    <3>2. QED BY <1>2, <1>3, <2>2, <3>1 DEF Settling
  <2>3. QED BY <2>1, <2>2
<1>5. RowsHaveCarriers'
  BY <1>2, <1>3 DEF NpmInv, RowsHaveCarriers
<1>6. SolePublishIsSafe'
  <2> SUFFICES ASSUME NEW a \in Artifacts, NEW u \in Uploads,
                      OwnsKey(a), Carries(u, a)', fate'[u][a[2]] # "lost",
                      \A w \in Uploads : Carries(w, a)' => w = u
               PROVE  /\ files[a] # None => /\ fate'[u][a[2]] \in {"stored", "failed"}
                                            /\ blobs[a[2]] = files[a]
                      /\ fate'[u][a[2]] = "stored" => blobs[a[2]] = req'[u].attachments[a[2]]
    BY <1>2 DEF SolePublishIsSafe, OwnsKey, blobKey
  <2>1. CASE u = r
    <3>1. fate'[r][a[2]] = "todo"
      BY <1>2, <2>1 DEF Carries
    <3>2. files[a] = None
      BY <1>3, <2>1 DEF NpmInv, RowsHaveCarriers
    <3>3. QED BY <2>1, <3>1, <3>2
  <2>2. CASE u # r
    BY <1>2, <1>3, <2>2 DEF NpmInv, SolePublishIsSafe
  <2>3. QED BY <2>1, <2>2
<1>7. QED BY <1>4, <1>5, <1>6 DEF NpmInv

LEMMA StoreInv ==
  ASSUME TypeOK, NpmInv, NEW r \in Uploads, StoreAttachment(r)
  PROVE  NpmInv'
<1>1. /\ pc[r] = "attach" /\ req[r] # None /\ status[r] = "none"
      /\ UNCHANGED <<files, req, status>>
  BY DEF StoreAttachment, TypeOK, Goto
<1>2. PICK f \in Todo(r), what \in Fates :
        /\ current' = [current EXCEPT ![r] = f] /\ Mark(r, f, what)
        /\ pc' = [pc EXCEPT ![r] = IF what \in {"stored", "lost"} THEN "createRow" ELSE "attach"]
        /\ \A k \in Keys \ {f} : blobs'[k] = blobs[k]
        /\ what = "stored" => blobs'[f] = req[r].attachments[f]
        /\ what \in {"lost", "failed"} => Faults # {}
        /\ what # "todo"
  <2>1. PICK f \in Todo(r) :
          LET data == req[r].attachments[f] IN
            /\ current' = [current EXCEPT ![r] = f]
            /\ \/ /\ data = Garbled
                  /\ Mark(r, f, "garbled") /\ Goto(r, "attach") /\ UNCHANGED <<blobs, wrote>>
               \/ /\ data # Garbled
                  /\ PutOk(r, blobKey(Art(r, f)), data)
                  /\ Mark(r, f, wrote'[r]) /\ Goto(r, "createRow")
               \/ /\ data # Garbled
                  /\ PutFails(r, blobKey(Art(r, f)))
                  /\ Mark(r, f, "failed") /\ Goto(r, "attach")
    BY DEF StoreAttachment
  <2>2. f \in Filenames /\ blobKey(Art(r, f)) = f
    BY <1>1, <2>1, AttachmentAt DEF Todo
  <2>3. CASE req[r].attachments[f] = Garbled
    BY <2>1, <2>3 DEF Goto, Fates
  <2>4. CASE /\ PutOk(r, f, req[r].attachments[f])
             /\ Mark(r, f, wrote'[r]) /\ Goto(r, "createRow")
    <3>1. PICK k : k = wrote'[r]
      OBVIOUS
    <3>2. \/ k = "stored" /\ blobs' = [blobs EXCEPT ![f] = req[r].attachments[f]]
          \/ k = "lost" /\ "close" \in Faults /\ blobs' = blobs
      BY <2>4, <3>1 DEF PutOk, TypeOK
    <3>3. /\ current' = [current EXCEPT ![r] = f] /\ Mark(r, f, k)
          /\ pc' = [pc EXCEPT ![r] = "createRow"] /\ k \in Fates
          /\ \A x \in Keys \ {f} : blobs'[x] = blobs[x]
      BY <2>1, <2>2, <2>4, <3>1, <3>2 DEF Goto, Fates, TypeOK, Keys
    <3>4. k = "stored" => blobs'[f] = req[r].attachments[f]
      BY <2>2, <3>2 DEF TypeOK, Keys
    <3>5. QED BY <3>2, <3>3, <3>4
  <2>5. CASE PutFails(r, f) /\ Mark(r, f, "failed") /\ Goto(r, "attach")
    <3>1. /\ current' = [current EXCEPT ![r] = f] /\ pc' = [pc EXCEPT ![r] = "attach"]
          /\ Mark(r, f, "failed") /\ "failed" \in Fates
      BY <2>1, <2>5 DEF Goto, Fates
    <3>2. "put" \in Faults /\ \A x \in Keys \ {f} : blobs'[x] = blobs[x]
      BY <2>5 DEF PutFails, PutBreaks, TypeOK
    <3>3. QED BY <3>1, <3>2
  <2>6. QED BY <2>1, <2>2, <2>3, <2>4, <2>5
<1>3. /\ f \in DOMAIN fate[r] /\ fate[r][f] = "todo" /\ f \in Filenames
      /\ Art(r, f) \in Artifacts /\ blobKey(Art(r, f)) = f /\ Carries(r, Art(r, f))
      /\ Art(r, f) = <<req[r].pkg, f>>
  BY <1>1, <1>2, AttachmentAt DEF Todo, Art
<1>4. /\ fate'[r] = [fate[r] EXCEPT ![f] = what]
      /\ \A u \in Uploads \ {r} : fate'[u] = fate[u]
      /\ \A u \in Uploads : DOMAIN fate'[u] = DOMAIN fate[u]
  BY <1>2, <1>3, MarkTypeOK
<1>5. \A u \in Uploads : /\ \A a : Carries(u, a)' <=> Carries(u, a)
                         /\ \A g : Art(u, g)' = Art(u, g)
  BY <1>1 DEF Carries, Art
<1>6. AttachmentsSettle'
  <2> SUFFICES ASSUME NEW u \in Uploads, req[u] # None, NEW g \in DOMAIN fate[u]
               PROVE  Settling(u, g)'
    BY <1>1, <1>4 DEF AttachmentsSettle
  <2>1. Settling(u, g)
    BY DEF NpmInv, AttachmentsSettle
  <2>2. CASE u = r /\ g = f
    <3>1. /\ fate'[r][f] = what /\ current'[r] = f
          /\ what = "stored" => pc'[r] = "createRow"
      BY <1>2, <1>3, <1>4 DEF TypeOK
    <3>2. QED BY <1>1, <1>2, <2>2, <3>1 DEF Settling
  <2>3. CASE u = r /\ g # f
    <3>1. fate'[r][g] = fate[r][g] /\ pc[r] # "createRow"
      BY <1>1, <1>4, <2>3
    <3>2. QED BY <1>1, <1>5, <2>1, <2>3, <3>1 DEF Settling
  <2>4. CASE u # r
    <3>1. fate'[u] = fate[u] /\ pc'[u] = pc[u] /\ current'[u] = current[u]
      BY <1>2, <1>4, <2>4 DEF TypeOK
    <3>2. QED BY <1>1, <1>5, <2>1, <3>1 DEF Settling
  <2>5. QED BY <2>2, <2>3, <2>4
<1>7. RowsHaveCarriers'
  BY <1>1, <1>5 DEF NpmInv, RowsHaveCarriers
<1>8. SolePublishIsSafe'
  <2> SUFFICES ASSUME NEW a \in Artifacts, NEW u \in Uploads,
                      OwnsKey(a), Carries(u, a), fate'[u][a[2]] # "lost",
                      \A w \in Uploads : Carries(w, a) => w = u
               PROVE  /\ files[a] # None => /\ fate'[u][a[2]] \in {"stored", "failed"}
                                            /\ blobs'[a[2]] = files[a]
                      /\ fate'[u][a[2]] = "stored" => blobs'[a[2]] = req[u].attachments[a[2]]
    BY <1>1, <1>5 DEF SolePublishIsSafe, OwnsKey, blobKey
  <2>1. a = <<a[1], a[2]>> /\ a[2] \in Keys /\ a[1] = req[u].pkg /\ a[2] \in DOMAIN fate[u]
    BY ArtifactsAssumption DEF Carries, Keys, TypeOK
  <2>2. CASE a[2] = f
    <3>1. a = Art(r, f) /\ u = r
      BY <1>3, <2>2 DEF OwnsKey, blobKey
    <3>2. files[a] = None
      BY <1>3, <2>2, <3>1 DEF NpmInv, SolePublishIsSafe
    <3>3. fate'[u][a[2]] = what
      BY <1>3, <1>4, <2>2, <3>1
    <3>4. QED BY <1>2, <2>2, <3>1, <3>2, <3>3
  <2>3. CASE a[2] # f
    <3>1. blobs'[a[2]] = blobs[a[2]] /\ fate'[u][a[2]] = fate[u][a[2]]
      BY <1>2, <1>4, <2>1, <2>3
    <3>2. QED BY <3>1 DEF NpmInv, SolePublishIsSafe
  <2>4. QED BY <2>2, <2>3
<1>9. QED BY <1>6, <1>7, <1>8 DEF NpmInv

LEMMA RowInv ==
  ASSUME TypeOK, NpmInv, NEW r \in Uploads, CreateRow(r)
  PROVE  NpmInv'
<1>1. PICK f : f = current[r]
  OBVIOUS
<1>2. PICK data : data = req[r].attachments[f]
  OBVIOUS
<1>3. /\ pc[r] = "createRow" /\ req[r] # None /\ f \in DOMAIN fate[r]
      /\ fate[r][f] \in {"stored", "lost"} /\ data # Garbled
      /\ pc' = [pc EXCEPT ![r] = "attach"]
      /\ UNCHANGED <<blobs, req, current, status>>
  BY <1>1, <1>2 DEF CreateRow, Goto, TypeOK
<1>4. /\ Art(r, f) \in Artifacts /\ data \in Contents /\ Carries(r, Art(r, f))
      /\ Art(r, f) = <<req[r].pkg, f>> /\ blobKey(Art(r, f)) = f
  BY <1>2, <1>3, AttachmentAt DEF Art
<1>5. /\ \/ files' = files
         \/ files[Art(r, f)] = None /\ files' = [files EXCEPT ![Art(r, f)] = data]
      /\ \/ fate' = fate /\ (files'[Art(r, f)] # None \/ fate[r][f] = "lost")
         \/ /\ fate[r][f] = "stored" /\ Mark(r, f, "failed")
            /\ files'[Art(r, f)] # None \/ Faults # {}
  <2>1. CASE InsertOk(Art(r, f), data) /\ UNCHANGED fate
    BY <1>4, <2>1, MarksAssumption DEF InsertOk, TypeOK
  <2>2. CASE /\ InsertFails(Art(r, f), data)
             /\ IF fate[r][f] = "lost" THEN UNCHANGED fate ELSE Mark(r, f, "failed")
    BY <1>3, <2>2 DEF InsertFails, InsertOk
  <2>3. QED BY <1>1, <1>2, <2>1, <2>2 DEF CreateRow
<1>6. /\ \A u \in Uploads \ {r} : fate'[u] = fate[u]
      /\ \A u \in Uploads : DOMAIN fate'[u] = DOMAIN fate[u]
      /\ \A g \in DOMAIN fate[r] \ {f} : fate'[r][g] = fate[r][g]
      /\ \/ fate'[r][f] = fate[r][f]
         \/ fate[r][f] = "stored" /\ fate'[r][f] = "failed"
  <2>1. CASE fate' = fate
    BY <2>1
  <2>2. CASE fate[r][f] = "stored" /\ Mark(r, f, "failed")
    <3>1. "failed" \in Fates
      BY DEF Fates
    <3>2. fate'[r] = [fate[r] EXCEPT ![f] = "failed"]
      BY <1>3, <2>2, <3>1, MarkTypeOK
    <3>3. QED BY <1>3, <2>2, <3>1, <3>2, MarkTypeOK
  <2>3. QED BY <1>5, <2>1, <2>2
<1>7. /\ \A u \in Uploads : /\ \A a : Carries(u, a)' <=> Carries(u, a)
                            /\ \A g : Art(u, g)' = Art(u, g)
      /\ \A a \in Artifacts : files[a] # None => files'[a] = files[a]
      /\ \A a \in Artifacts : files'[a] # files[a] => a = Art(r, f) /\ files'[a] = data
  <2>1. \A u \in Uploads : /\ \A a : Carries(u, a)' <=> Carries(u, a)
                           /\ \A g : Art(u, g)' = Art(u, g)
    BY <1>3 DEF Carries, Art
  <2>2. files \in [Artifacts -> Contents \cup {None}]
    BY DEF TypeOK
  <2>3. QED BY <1>4, <1>5, <2>1, <2>2
<1>8. AttachmentsSettle'
  <2> SUFFICES ASSUME NEW u \in Uploads, req[u] # None, NEW g \in DOMAIN fate[u]
               PROVE  Settling(u, g)'
    BY <1>3, <1>6 DEF AttachmentsSettle
  <2>1. Settling(u, g) /\ Art(u, g) \in Artifacts
    BY DEF NpmInv, AttachmentsSettle, TypeOK
  <2>2. CASE u = r /\ g = f
    <3>1. CASE fate'[r][f] = "failed"
      <4>1. files'[Art(r, f)] # None \/ Faults # {}
        BY <1>3, <1>5, <3>1
      <4>2. QED BY <1>7, <2>2, <3>1, <4>1 DEF Settling
    <3>2. CASE fate'[r][f] = "lost"
      BY <1>6, <2>1, <2>2, <3>2 DEF Settling
    <3>3. CASE fate'[r][f] = "stored"
      <4>1. files'[Art(r, f)] # None
        <5>1. CASE fate' = fate /\ (files'[Art(r, f)] # None \/ fate[r][f] = "lost")
          BY <3>3, <5>1
        <5>2. CASE Mark(r, f, "failed")
          <6>1. "failed" \in Fates
            BY DEF Fates
          <6>2. fate'[r][f] = "failed"
            BY <1>3, <5>2, <6>1, MarkTypeOK
          <6>3. QED BY <3>3, <6>2
        <5>3. QED BY <1>5, <5>1, <5>2
      <4>2. QED BY <1>7, <2>2, <3>3, <4>1 DEF Settling
    <3>4. QED BY <1>3, <1>6, <3>1, <3>2, <3>3
  <2>3. CASE u # r \/ g # f
    <3>1. /\ fate'[u][g] = fate[u][g]
          /\ pc[u] = "createRow" /\ current[u] = g => pc'[u] = "createRow"
      BY <1>1, <1>3, <1>6, <2>3 DEF TypeOK
    <3>2. QED BY <1>3, <1>7, <2>1, <3>1 DEF Settling
  <2>4. QED BY <2>2, <2>3
<1>9. RowsHaveCarriers'
  BY <1>4, <1>7 DEF NpmInv, RowsHaveCarriers
<1>10. SolePublishIsSafe'
  <2> SUFFICES ASSUME NEW a \in Artifacts, NEW u \in Uploads,
                      OwnsKey(a), Carries(u, a), fate'[u][a[2]] # "lost",
                      \A w \in Uploads : Carries(w, a) => w = u
               PROVE  /\ files'[a] # None => /\ fate'[u][a[2]] \in {"stored", "failed"}
                                             /\ blobs[a[2]] = files'[a]
                      /\ fate'[u][a[2]] = "stored" => blobs[a[2]] = req[u].attachments[a[2]]
    BY <1>3, <1>7 DEF SolePublishIsSafe, OwnsKey, blobKey
  <2>1. a = <<a[1], a[2]>> /\ a[1] = req[u].pkg /\ a[2] \in DOMAIN fate[u]
    BY ArtifactsAssumption DEF Carries, TypeOK
  <2>2. CASE a = Art(r, f)
    <3>1. u = r /\ a[2] = f
      BY <1>4, <2>2
    <3>2. fate[u][a[2]] # "lost"
      BY <1>6, <3>1
    <3>3. /\ files[a] # None => blobs[a[2]] = files[a]
          /\ blobs[a[2]] = data
      BY <1>2, <1>3, <3>1, <3>2 DEF NpmInv, SolePublishIsSafe
    <3>4. fate'[u][a[2]] \in {"stored", "failed"}
      BY <1>3, <1>6, <3>1, <3>2
    <3>5. QED BY <1>2, <1>7, <3>1, <3>3, <3>4
  <2>3. CASE a # Art(r, f)
    <3>1. files'[a] = files[a]
      BY <1>7, <2>3
    <3>2. fate'[u][a[2]] = fate[u][a[2]]
      BY <1>4, <1>6, <2>1, <2>3
    <3>3. QED BY <3>1, <3>2 DEF NpmInv, SolePublishIsSafe
  <2>4. QED BY <2>2, <2>3
<1>11. QED BY <1>8, <1>9, <1>10 DEF NpmInv

(* Every attachment is settled or has a reason not to be, and a file that   *)
(* one publish alone carries is in the bucket as it is in its row.          *)
THEOREM NpmInvariant == Spec => []NpmInv
<1>1. Init => NpmInv
  BY DEF Init, NpmInv, AttachmentsSettle, RowsHaveCarriers, SolePublishIsSafe, Carries
<1>2. TypeOK /\ NpmInv /\ [Next]_vars => NpmInv'
  <2> SUFFICES ASSUME TypeOK, NpmInv, [Next]_vars PROVE NpmInv'
    OBVIOUS
  <2>1. ASSUME NEW r \in Uploads, UploadStep(r) PROVE NpmInv'
    <3>1. CASE RefusePublish(r)
      BY <3>1, QuietInv DEF RefusePublish, Refuse, Answer, TypeOK, repoVars
    <3>2. CASE GetOrCreatePackage(r)
      <4>1. UNCHANGED <<files, blobs, req, fate, current>>
        BY <3>2 DEF GetOrCreatePackage, GetPackage, CreatePackage, RegetPackage, repoVars
      <4>2. /\ pc[r] \notin {"createRow", "done"}
            /\ \/ \E next \in {"createPackage", "regetPackage", "attach"} : Goto(r, next)
               \/ Answer(r, "error")
        BY <3>2 DEF GetOrCreatePackage, GetPackage, CreatePackage, RegetPackage
      <4>3. QED BY <4>1, <4>2, QuietInv DEF Goto, Answer, TypeOK
    <3>3. CASE Reply(r)
      BY <3>3, QuietInv DEF Reply, Answer, TypeOK, repoVars
    <3>4. QED
      BY <2>1, <3>1, <3>2, <3>3, ReceiveInv, StoreInv, RowInv DEF UploadStep
  <2>2. CASE Crash
    BY <2>2, QuietInv DEF Crash, CrashUploads, InFlight, repoVars, TypeOK
  <2>3. CASE UNCHANGED vars
    BY <2>3, QuietInv DEF vars, repoVars, uploadVars
  <2>4. QED BY <2>1, <2>2, <2>3 DEF Next, AllAnswered
<1>3. QED BY <1>1, <1>2, NpmTypeCorrect, PTL DEF Spec

-------------------------------------------------------------------------------
(* What it gives                                                            *)

(* A publish answered 201 has every attachment recorded, for any number of  *)
(* attachments and rivals, but for garbled data and faults: a failing       *)
(* attachment costs no other one its place.                                 *)
THEOREM NpmAcknowledgedIsRecorded == Spec => []AcknowledgedIsRecorded
<1>1. TypeOK /\ NpmInv => AcknowledgedIsRecorded
  <2> SUFFICES ASSUME TypeOK, NpmInv, NEW r \in Uploads, NEW a \in Artifacts,
                      status[r] = "created", Carries(r, a)
               PROVE  \/ files[a] # None
                      \/ fate[r][a[2]] = "garbled"
                      \/ fate[r][a[2]] \in {"failed", "lost"} /\ Faults # {}
    BY DEF AcknowledgedIsRecorded
  <2>1. req[r] # None /\ a = Art(r, a[2]) /\ a[2] \in DOMAIN fate[r] /\ pc[r] = "done"
    BY ArtifactsAssumption DEF Carries, Art, TypeOK
  <2>2. Settling(r, a[2])
    BY <2>1 DEF NpmInv, AttachmentsSettle
  <2>3. fate[r][a[2]] \in Fates
    BY <2>1 DEF TypeOK, FateShapes
  <2>4. QED BY <2>1, <2>2, <2>3 DEF Settling, Fates
<1>2. QED BY <1>1, NpmTypeCorrect, NpmInvariant, PTL

(* A file that one publish alone carries survives every failure: its blob   *)
(* is the recorded one, unless storage.Put hid that nothing was committed.  *)
THEOREM NpmPublishedOnceIsSafe == Spec => []PublishedOnceIsSafe
<1>1. NpmInv => PublishedOnceIsSafe
  <2> SUFFICES ASSUME NpmInv, NEW a \in Artifacts, files[a] # None,
                      \A b \in Artifacts : blobKey(b) = blobKey(a) => b = a,
                      \A r1, r2 \in Uploads : Carries(r1, a) /\ Carries(r2, a) => r1 = r2,
                      \A r \in Uploads : Carries(r, a) => fate[r][a[2]] # "lost"
               PROVE  blobs[a[2]] = files[a]
    BY DEF PublishedOnceIsSafe, blobKey
  <2>1. PICK r \in Uploads : Carries(r, a)
    BY DEF NpmInv, RowsHaveCarriers
  <2>2. QED BY <2>1 DEF NpmInv, SolePublishIsSafe, OwnsKey
<1>2. QED BY <1>1, NpmInvariant, PTL

===============================================================================
