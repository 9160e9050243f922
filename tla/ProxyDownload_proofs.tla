-------------------------- MODULE ProxyDownload_proofs --------------------------
(***************************************************************************)
(* Theorems about ProxyDownload, for every set of packages, file names,    *)
(* contents and requests, for each of the three protocols and for every    *)
(* set of faults.                                                          *)
(***************************************************************************)
EXTENDS ProxyDownload, TLAPS

-------------------------------------------------------------------------------
(* Keys and rows                                                            *)

(* Whatever the protocol looks a file up by, its rows have its own key; npm *)
(* and PyPI find every row of the key.                                      *)
LEMMA RowsOfKey ==
  ASSUME TypeOK, NEW d \in Clients, req[d] # None
  PROVE  /\ RowsFor(d) \subseteq {a \in Artifacts : files[a] # None /\ blobKey(a) = Key(d)}
         /\ IF Protocol = "go"
            THEN RowsFor(d) = {a \in Artifacts : files[a] # None /\ a = Art(d)}
            ELSE RowsFor(d) = {a \in Artifacts : files[a] # None /\ blobKey(a) = Key(d)}
<1>1. CASE Protocol = "go"
  BY <1>1 DEF RowsFor, Key
<1>2. CASE Protocol # "go"
  BY <1>2 DEF RowsFor, Key, blobKey, Art
<1>3. QED BY <1>1, <1>2

LEMMA KeysOfArtifacts == \A a \in Artifacts : blobKey(a) \in Keys
  BY DEF Keys

-------------------------------------------------------------------------------
(* Type correctness                                                         *)

LEMMA KeyInKeys ==
  ASSUME TypeOK, NEW d \in Clients, req[d] # None
  PROVE  Key(d) \in Keys
BY KeysOfArtifacts DEF TypeOK, Key

(* Only an idle download takes a new request.                               *)
LEMMA SameKeys ==
  ASSUME UNCHANGED req
  PROVE  \A d \in Clients : Art(d)' = Art(d) /\ Key(d)' = Key(d)
BY DEF Art, Key, blobKey

LEMMA StartTypeOK ==
  ASSUME TypeOK, NEW d \in Clients, StartDownload(d) \/ ReceiveUpload(d)
  PROVE  TypeOK'
<1>1. PICK o \in {"get", "put"}, a \in Artifacts, c \in Contents \cup {None} :
         req' = [req EXCEPT ![d] = [op |-> o, pkg |-> a[1], file |-> a[2], content |-> c]]
  BY DEF StartDownload, ReceiveUpload, Receive
<1>2. PICK q : q = [op |-> o, pkg |-> a[1], file |-> a[2], content |-> c]
  OBVIOUS
<1>3. q \in Requests /\ q # None /\ <<q.pkg, q.file>> \in Artifacts
  BY <1>2, ArtifactsAssumption, NoneAssumption DEF Requests
<1>4. req' = [req EXCEPT ![d] = q]
  BY <1>1, <1>2
<1>5. \A e \in Clients \ {d} : Art(e)' = Art(e) /\ Key(e)' = Key(e)
  BY <1>4 DEF Art, Key, blobKey, TypeOK
<1>6. Art(d)' \in Artifacts /\ req'[d] \in Requests /\ req'[d] # None
  BY <1>3, <1>4 DEF Art, TypeOK
<1>7. /\ \A k \in Keys : flight[k] # d
      /\ pc[d] = "idle" /\ status[d] = "none"
      /\ \E p \in {"lookup", "getPackage"} : pc' = [pc EXCEPT ![d] = p]
      /\ UNCHANGED <<packages, files, blobs, wrote, status, flight, body, found, blind>>
  BY DEF TypeOK, StartDownload, ReceiveUpload, Receive, Goto, repoVars, FlightPcs
<1>8. pc' \in [Clients -> Pcs] /\ req' \in [Clients -> Requests \cup {None}]
  BY <1>3, <1>4, <1>7 DEF TypeOK, Pcs, FlightPcs
<1>9. \A k \in Keys, e \in Clients : flight'[k] = e =>
         Key(e)' = k /\ pc'[e] \in FlightPcs
  BY <1>5, <1>7 DEF TypeOK
<1>10. \A e \in Clients : /\ pc'[e] = "waiting" => flight'[Key(e)'] # None
                          /\ pc'[e] = "open" => found'[e] # None
                          /\ req'[e] # None <=> pc'[e] # "idle"
                          /\ req'[e] # None => Art(e)' \in Artifacts
                          /\ status'[e] # "none" <=> pc'[e] = "done"
  BY <1>4, <1>5, <1>6, <1>7 DEF TypeOK
<1>11. QED
  BY <1>7, <1>8, <1>9, <1>10 DEF TypeOK

LEMMA FlightTypeOK ==
  ASSUME TypeOK, NEW d \in Clients, flight[Key(d)] = d, req[d] # None, UNCHANGED req,
         packages' \subseteq Packages, files' \in [Artifacts -> Contents \cup {None}],
         blobs' \in [Keys -> Contents \cup {None, Torn}],
         wrote' \in [Clients -> WriteKinds], blind' \subseteq Clients, UNCHANGED found,
         \/ \E got \in Contents \cup {None, Torn} : FlightFails(d, got)
         \/ FlightLands(d)
  PROVE  TypeOK'
<1>1. \A e \in Clients : Art(e)' = Art(e) /\ Key(e)' = Key(e)
  BY SameKeys
<1>2. Key(d) \in Keys
  BY KeyInKeys
<1>3. PICK S : S = Waiters(d) \cup {d}
  OBVIOUS
<1>4. /\ flight' = [flight EXCEPT ![Key(d)] = None]
      /\ S \subseteq Clients
      /\ \A e \in Clients : e \in S <=> e = d \/ (pc[e] = "waiting" /\ Key(e) = Key(d))
      /\ pc[d] \in FlightPcs
      /\ \A e \in S : pc[e] \notin {"done", "idle"} /\ status[e] = "none"
      /\ \A k \in Keys, e \in S : flight[k] = e => k = Key(d)
  <2>1. flight' = [flight EXCEPT ![Key(d)] = None]
    BY DEF FlightFails, FlightLands
  <2>2. /\ S \subseteq Clients
        /\ \A e \in Clients : e \in S <=> e = d \/ (pc[e] = "waiting" /\ Key(e) = Key(d))
    BY <1>3 DEF Waiters
  <2>3. pc[d] \in FlightPcs
    BY <1>2 DEF TypeOK
  <2>4. \A e \in S : pc[e] \notin {"done", "idle"} /\ status[e] = "none"
    BY <2>2, <2>3 DEF TypeOK, FlightPcs
  <2>5. \A k \in Keys, e \in S : flight[k] = e => k = Key(d)
    BY <2>2, <2>3 DEF TypeOK
  <2>6. QED BY <2>1, <2>2, <2>3, <2>4, <2>5
<1>5. /\ \A e \in Clients \ S : pc'[e] = pc[e] /\ status'[e] = status[e]
      /\ \A e \in S : \/ pc'[e] = "done" /\ status'[e] \in {"ok", "notFound"}
                      \/ pc'[e] = "reserve" /\ status'[e] = "none"
      /\ pc' \in [Clients -> Pcs] /\ status' \in [Clients -> Statuses]
      /\ body' \in [Clients -> Contents \cup {None, Torn}]
  <2>1. CASE FlightLands(d)
    <3>1. PICK serve : /\ serve = Waiters(d) \cup (IF body[d] = None THEN {d} ELSE {})
                       /\ pc' = [w \in Clients |-> IF w \in serve THEN "reserve"
                                                   ELSE IF w = d THEN "done" ELSE pc[w]]
                       /\ status' = [w \in Clients |->
                                        IF w = d /\ d \notin serve THEN "ok" ELSE status[w]]
                       /\ UNCHANGED body
      BY <2>1 DEF FlightLands
    <3>2. serve \subseteq S /\ S \subseteq serve \cup {d}
      BY <1>3, <3>1
    <3>4. pc' \in [Clients -> Pcs] /\ status' \in [Clients -> Statuses]
      BY <3>1 DEF TypeOK, Pcs, FlightPcs, Statuses
    <3>5. QED BY <1>4, <3>1, <3>2, <3>4 DEF TypeOK
  <2>2. CASE \E got \in Contents \cup {None, Torn} : FlightFails(d, got)
    <3>1. PICK got \in Contents \cup {None, Torn} : FlightFails(d, got)
      BY <2>2
    <3>2. /\ pc' = [w \in Clients |-> IF w \in S THEN "done" ELSE pc[w]]
          /\ \E g \in Contents \cup {None, Torn} : body' = [body EXCEPT ![d] = g]
          /\ \/ status' = [w \in Clients |->
                             IF w \notin S THEN status[w]
                             ELSE IF w = d /\ got # None THEN "ok" ELSE "notFound"]
             \/ status' = [w \in Clients |-> IF w \in S THEN "ok" ELSE status[w]]
      BY <1>3, <3>1 DEF FlightFails
    <3>3. pc' \in [Clients -> Pcs] /\ status' \in [Clients -> Statuses]
      BY <3>2 DEF TypeOK, Pcs, FlightPcs, Statuses
    <3>4. QED BY <1>4, <3>2, <3>3 DEF TypeOK
  <2>3. QED BY <2>1, <2>2
<1>6. /\ \A k \in Keys, e \in Clients : flight'[k] = e =>
             Key(e)' = k /\ pc'[e] \in FlightPcs
      /\ flight' \in [Keys -> Clients \cup {None}]
  <2>1. flight' \in [Keys -> Clients \cup {None}]
    BY <1>4 DEF TypeOK
  <2>2. ASSUME NEW k \in Keys, NEW e \in Clients, flight'[k] = e
        PROVE  Key(e)' = k /\ pc'[e] \in FlightPcs
    <3>1. k # Key(d) /\ flight[k] = e /\ e \notin S
      BY <1>2, <1>4, <2>2, NoneAssumption DEF TypeOK
    <3>2. QED BY <1>1, <1>5, <3>1 DEF TypeOK
  <2>3. QED BY <2>1, <2>2
<1>7. \A e \in Clients : /\ pc'[e] = "waiting" => flight'[Key(e)'] # None
                         /\ pc'[e] = "open" => found[e] # None
                         /\ req[e] # None <=> pc'[e] # "idle"
                         /\ status'[e] # "none" <=> pc'[e] = "done"
  <2> SUFFICES ASSUME NEW e \in Clients
               PROVE  /\ pc'[e] = "waiting" => flight'[Key(e)'] # None
                      /\ pc'[e] = "open" => found[e] # None
                      /\ req[e] # None <=> pc'[e] # "idle"
                      /\ status'[e] # "none" <=> pc'[e] = "done"
    OBVIOUS
  <2>1. CASE e \in S
    BY <1>4, <1>5, <2>1 DEF TypeOK
  <2>2. CASE e \notin S
    <3>1. pc'[e] = pc[e] /\ status'[e] = status[e] /\ (pc[e] = "waiting" => Key(e) # Key(d))
      BY <1>4, <1>5, <2>2
    <3>2. pc[e] = "waiting" => Key(e) \in Keys /\ flight'[Key(e)] # None
      BY <1>4, <3>1, KeyInKeys DEF TypeOK
    <3>3. QED BY <1>1, <3>1, <3>2 DEF TypeOK
  <2>3. QED BY <2>1, <2>2
<1>8. QED
  BY <1>1, <1>5, <1>6, <1>7 DEF TypeOK

(* A download is inside the flight of its key exactly while it leads it.    *)
Inside(d) == pc[d] \in FlightPcs

LeadersAlone == \A d \in Clients : Inside(d) => flight[Key(d)] = d

(* A step of one handler outside a flight, or one that leaves it running.   *)
LEMMA MoveTypeOK ==
  ASSUME TypeOK, NEW d \in Clients, NEW p \in Pcs \ {"idle", "waiting"},
         NEW s \in Statuses,
         pc[d] \notin {"idle", "done"}, s # "none" <=> p = "done",
         Inside(d) => p \in FlightPcs,
         pc' = [pc EXCEPT ![d] = p], status' = [status EXCEPT ![d] = s],
         UNCHANGED <<req, flight>>, packages' \subseteq Packages,
         files' \in [Artifacts -> Contents \cup {None}],
         blobs' \in [Keys -> Contents \cup {None, Torn}],
         wrote' \in [Clients -> WriteKinds], blind' \subseteq Clients,
         body' \in [Clients -> Contents \cup {None, Torn}],
         found' \in [Clients -> Artifacts \cup {None}],
         \A e \in Clients \ {d} : found'[e] = found[e],
         p = "open" => found'[d] # None
  PROVE  TypeOK'
<1>1. \A e \in Clients : Art(e)' = Art(e) /\ Key(e)' = Key(e)
  BY SameKeys
<1>2. pc' \in [Clients -> Pcs] /\ status' \in [Clients -> Statuses]
  BY DEF TypeOK
<1>3. \A k \in Keys, e \in Clients : flight'[k] = e =>
         Key(e)' = k /\ pc'[e] \in FlightPcs
  BY <1>1 DEF TypeOK, Inside
<1>4. \A e \in Clients : /\ pc'[e] = "waiting" => flight'[Key(e)'] # None
                         /\ pc'[e] = "open" => found'[e] # None
                         /\ req'[e] # None <=> pc'[e] # "idle"
                         /\ status'[e] # "none" <=> pc'[e] = "done"
  BY <1>1 DEF TypeOK
<1>5. QED
  BY <1>1, <1>2, <1>3, <1>4 DEF TypeOK

LEMMA LookupTypeOK ==
  ASSUME TypeOK, NEW d \in Clients, LookupRow(d) \/ ReserveRow(d)
  PROVE  TypeOK'
<1>1. PICK p \in Pcs, s \in Statuses :
         /\ pc' = [pc EXCEPT ![d] = p] /\ status' = [status EXCEPT ![d] = s]
         /\ p \in {"open", "done", "getPackage"} /\ (s # "none" <=> p = "done")
         /\ found' \in [Clients -> Artifacts \cup {None}]
         /\ \A e \in Clients \ {d} : found'[e] = found[e]
         /\ p = "open" => found'[d] # None
  <2>1. status' = [status EXCEPT ![d] = "none"] \/ status' # status
    BY DEF TypeOK, LookupRow, ReserveRow
  <2>2. RowsFor(d) \subseteq Artifacts
    BY DEF RowsFor
  <2>3. CASE \E a \in RowsFor(d) : found' = [found EXCEPT ![d] = a] /\ Goto(d, "open")
    <3>1. /\ pc' = [pc EXCEPT ![d] = "open"] /\ status' = [status EXCEPT ![d] = "none"]
          /\ \E a \in Artifacts : found' = [found EXCEPT ![d] = a]
      BY <2>1, <2>2, <2>3 DEF Goto
    <3>2. QED BY <3>1, NoneAssumption DEF TypeOK, Pcs, FlightPcs, Statuses
  <2>4. CASE UNCHANGED found /\ Goto(d, "getPackage")
    BY <2>1, <2>4 DEF Goto, TypeOK, Pcs, FlightPcs, Statuses
  <2>5. CASE UNCHANGED found /\ \E s \in {"badRequest", "error", "panic"} : Answer(d, s)
    BY <2>5 DEF Answer, TypeOK, Pcs, FlightPcs, Statuses
  <2>6. QED BY <2>3, <2>4, <2>5 DEF LookupRow, ReserveRow
<1>2. pc[d] \in {"lookup", "reserve"} /\ UNCHANGED <<repoVars, req, wrote, flight, body, blind>>
  BY DEF LookupRow, ReserveRow
<1>3. QED BY <1>1, <1>2, MoveTypeOK DEF TypeOK, Inside, FlightPcs, repoVars

LEMMA PackageTypeOK ==
  ASSUME TypeOK, NEW d \in Clients, GetOrCreatePackage(d)
  PROVE  TypeOK'
<1>1. /\ pc[d] \in {"getPackage", "createPackage", "regetPackage"} /\ status[d] = "none"
      /\ packages' \subseteq Packages
      /\ UNCHANGED <<files, blobs, req, wrote, flight, body, found, blind>>
  BY DEF GetOrCreatePackage, GetPackage, CreatePackage, RegetPackage, repoVars, TypeOK,
         Requests
<1>2. PICK p \in {"join", "check", "put", "createPackage", "regetPackage", "done"},
           s \in {"none", "error"} :
         /\ pc' = [pc EXCEPT ![d] = p] /\ status' = [status EXCEPT ![d] = s]
         /\ s # "none" <=> p = "done"
  <2>1. CASE \E p \in {"join", "check", "put", "createPackage", "regetPackage"} : Goto(d, p)
    BY <1>1, <2>1 DEF Goto, TypeOK
  <2>2. CASE Answer(d, "error")
    BY <2>2 DEF Answer
  <2>3. WithPackage(d) \in {"join", "check", "put"}
    BY DEF WithPackage
  <2>4. QED
    BY <2>1, <2>2, <2>3 DEF GetOrCreatePackage, GetPackage, CreatePackage, RegetPackage
<1>3. p \in Pcs \ {"idle", "waiting"} /\ s \in Statuses
  BY DEF Pcs, FlightPcs, Statuses
<1>4. QED BY <1>1, <1>2, <1>3, MoveTypeOK DEF TypeOK, Inside, FlightPcs

LEMMA OpenTypeOK ==
  ASSUME TypeOK, NEW d \in Clients, OpenBlob(d)
  PROVE  TypeOK'
<1>1. PICK a \in Artifacts : a = found[d]
  BY DEF OpenBlob, TypeOK
<1>2. blobs[blobKey(found[d])] \in Contents \cup {None, Torn}
  BY <1>1, KeysOfArtifacts DEF TypeOK
<1>3. PICK s \in {"ok", "error"} : Answer(d, s)
  BY DEF OpenBlob
<1>4. /\ body' \in [Clients -> Contents \cup {None, Torn}] /\ pc[d] = "open"
      /\ UNCHANGED <<repoVars, req, wrote, flight, found, blind>>
  BY <1>2 DEF OpenBlob, TypeOK
<1>5. "done" \in Pcs /\ s \in Statuses
  BY DEF Pcs, FlightPcs, Statuses
<1>6. QED
  BY <1>3, <1>4, <1>5, MoveTypeOK DEF Answer, TypeOK, Inside, FlightPcs, repoVars

(* The steps of an upload.                                                  *)
LEMMA UploadTypeOK ==
  ASSUME TypeOK, NEW d \in Clients,
         CheckExisting(d) \/ PutBlob(d) \/ InsertRow(d) \/ Rollback(d)
  PROVE  TypeOK'
<1>1. /\ pc[d] \in {"check", "put", "insert", "rollback"} /\ status[d] = "none"
      /\ req[d] # None /\ Key(d) \in Keys /\ req[d].content \in Contents \cup {None}
      /\ UNCHANGED <<packages, req, flight, body, found, blind>>
  BY KeyInKeys DEF CheckExisting, PutBlob, InsertRow, Rollback, repoVars, TypeOK, Requests
<1>2. /\ files' \in [Artifacts -> Contents \cup {None}]
      /\ blobs' \in [Keys -> Contents \cup {None, Torn}]
      /\ wrote' \in [Clients -> WriteKinds]
  <2>1. CASE CheckExisting(d)
    BY <2>1 DEF CheckExisting, repoVars, TypeOK
  <2>2. CASE PutBlob(d)
    BY <1>1, <2>2 DEF PutBlob, PutOk, PutFails, PutBreaks, TypeOK, WriteKinds
  <2>3. CASE InsertRow(d)
    BY <1>1, <2>3 DEF InsertRow, InsertOk, InsertFails, TypeOK
  <2>4. CASE Rollback(d)
    BY <1>1, <2>4 DEF Rollback, DeleteBlob, TypeOK
  <2>5. QED BY <2>1, <2>2, <2>3, <2>4
<1>3. PICK p \in {"put", "insert", "rollback", "done"},
           s \in {"none", "created", "conflict", "error"} :
         /\ pc' = [pc EXCEPT ![d] = p] /\ status' = [status EXCEPT ![d] = s]
         /\ s # "none" <=> p = "done"
  <2>1. CASE \E p \in {"put", "insert", "rollback"} : Goto(d, p)
    BY <1>1, <2>1 DEF Goto, TypeOK
  <2>2. CASE \E s \in {"created", "conflict", "error"} : Answer(d, s)
    BY <2>2 DEF Answer
  <2>3. QED BY <2>1, <2>2 DEF CheckExisting, PutBlob, InsertRow, Rollback, GivesUp
<1>4. p \in Pcs \ {"idle", "waiting"} /\ s \in Statuses
  BY DEF Pcs, FlightPcs, Statuses
<1>5. QED BY <1>1, <1>2, <1>3, <1>4, MoveTypeOK DEF TypeOK, Inside, FlightPcs

LEMMA JoinTypeOK ==
  ASSUME TypeOK, NEW d \in Clients, JoinFlight(d)
  PROVE  TypeOK'
<1>1. \A e \in Clients : Art(e)' = Art(e) /\ Key(e)' = Key(e)
  BY SameKeys DEF JoinFlight
<1>2. /\ pc[d] = "join" /\ Key(d) \in Keys
      /\ \/ /\ flight[Key(d)] = None /\ flight' = [flight EXCEPT ![Key(d)] = d]
            /\ pc' = [pc EXCEPT ![d] = "recheck"]
         \/ /\ flight[Key(d)] # None /\ flight' = flight
            /\ pc' = [pc EXCEPT ![d] = "waiting"]
      /\ UNCHANGED <<packages, files, blobs, status, req, wrote, body, found, blind>>
  BY KeyInKeys DEF JoinFlight, Goto, TypeOK, repoVars
<1>3. pc' \in [Clients -> Pcs] /\ flight' \in [Keys -> Clients \cup {None}]
  BY <1>2 DEF TypeOK, Pcs, FlightPcs
<1>4. \A k \in Keys, e \in Clients : flight'[k] = e =>
         Key(e)' = k /\ pc'[e] \in FlightPcs
  BY <1>1, <1>2 DEF TypeOK, FlightPcs
<1>5. \A e \in Clients : /\ pc'[e] = "waiting" => flight'[Key(e)'] # None
                         /\ pc'[e] = "open" => found'[e] # None
                         /\ req'[e] # None <=> pc'[e] # "idle"
                         /\ status'[e] # "none" <=> pc'[e] = "done"
  <2> SUFFICES ASSUME NEW e \in Clients
               PROVE  /\ pc'[e] = "waiting" => flight'[Key(e)'] # None
                      /\ pc'[e] = "open" => found'[e] # None
                      /\ req'[e] # None <=> pc'[e] # "idle"
                      /\ status'[e] # "none" <=> pc'[e] = "done"
    OBVIOUS
  <2>1. pc'[e] = "waiting" => Key(e) \in Keys
    BY <1>2, KeyInKeys DEF TypeOK
  <2>2. pc'[e] = "waiting" => flight'[Key(e)] # None
    BY <1>2, <2>1, NoneAssumption DEF TypeOK
  <2>3. QED BY <1>1, <1>2, <2>2 DEF TypeOK
<1>6. QED BY <1>1, <1>2, <1>3, <1>4, <1>5 DEF TypeOK

(* The steps of a leader inside its flight.                                 *)
LEMMA LeaderTypeOK ==
  ASSUME TypeOK, LeadersAlone, NEW d \in Clients,
         Recheck(d) \/ Fetch(d) \/ Stream(d) \/ SaveRow(d)
  PROVE  TypeOK'
<1>1. /\ Inside(d) /\ flight[Key(d)] = d /\ req[d] # None /\ status[d] = "none"
      /\ Key(d) \in Keys /\ req[d].content \in Contents \cup {None} /\ Art(d) \in Artifacts
  BY KeyInKeys DEF Recheck, Fetch, Stream, SaveRow, Inside, FlightPcs, LeadersAlone,
                  TypeOK, Requests
<1>2. /\ UNCHANGED <<packages, req, found>> /\ blind' \subseteq Clients
      /\ files' \in [Artifacts -> Contents \cup {None}]
      /\ blobs' \in [Keys -> Contents \cup {None, Torn}]
      /\ wrote' \in [Clients -> WriteKinds]
  <2>1. CASE Recheck(d) \/ Fetch(d)
    BY <2>1 DEF Recheck, Fetch, repoVars, TypeOK
  <2>2. CASE Stream(d)
    BY <1>1, <2>2 DEF Stream, PutOk, PutFails, PutBreaks, TypeOK, WriteKinds
  <2>3. CASE SaveRow(d)
    BY <1>1, <2>3 DEF SaveRow, InsertOk, InsertFails, TypeOK
  <2>4. QED BY <2>1, <2>2, <2>3
<1>3. CASE (\E got \in Contents \cup {None, Torn} : FlightFails(d, got)) \/ FlightLands(d)
  BY <1>1, <1>2, <1>3, FlightTypeOK DEF TypeOK
<1>4. ASSUME NEW p \in {"fetch", "stream", "createRow"}, Goto(d, p), UNCHANGED <<files, flight>>,
             body' = body \/ body' = [body EXCEPT ![d] = req[d].content]
      PROVE  TypeOK'
  <2>1. body' \in [Clients -> Contents \cup {None, Torn}]
    BY <1>1, <1>4 DEF TypeOK
  <2>2. p \in Pcs \ {"idle", "waiting"} /\ p \in FlightPcs /\ "none" \in Statuses
    BY DEF Pcs, FlightPcs, Statuses
  <2>3. status' = [status EXCEPT ![d] = "none"] /\ pc' = [pc EXCEPT ![d] = p]
    BY <1>1, <1>4 DEF Goto, TypeOK
  <2>4. pc[d] \notin {"idle", "done"}
    BY <1>1 DEF Inside, FlightPcs
  <2>5. QED BY <1>2, <1>4, <2>1, <2>2, <2>3, <2>4, MoveTypeOK DEF TypeOK
<1>5. CASE Recheck(d)
  BY <1>3, <1>4, <1>5 DEF Recheck, repoVars
<1>6. CASE Fetch(d)
  BY <1>3, <1>4, <1>6 DEF Fetch, repoVars
<1>7. CASE Stream(d)
  BY <1>1, <1>3, <1>4, <1>7 DEF Stream
<1>8. CASE SaveRow(d)
  BY <1>3, <1>8 DEF SaveRow, TypeOK
<1>9. QED BY <1>5, <1>6, <1>7, <1>8

LEMMA CrashTypeOK == TypeOK /\ Crash => TypeOK'
<1> SUFFICES ASSUME TypeOK, Crash PROVE TypeOK'
  OBVIOUS
<1>1. \A e \in Clients : Art(e)' = Art(e) /\ Key(e)' = Key(e)
  BY SameKeys DEF Crash, CrashUploads
<1>2. /\ pc' = [r \in Clients |-> IF InFlight(r) THEN "done" ELSE pc[r]]
      /\ status' = [r \in Clients |-> IF InFlight(r) THEN "crashed" ELSE status[r]]
      /\ flight' = [k \in Keys |-> None]
      /\ UNCHANGED <<packages, files, blobs, req, wrote, body, found, blind>>
  BY DEF Crash, CrashUploads, Clients, repoVars
<1>3. /\ pc' \in [Clients -> Pcs] /\ status' \in [Clients -> Statuses]
      /\ flight' \in [Keys -> Clients \cup {None}]
  BY <1>2 DEF TypeOK, Pcs, FlightPcs, Statuses
<1>4. \A e \in Clients : /\ pc'[e] \in {"idle", "done"} /\ (pc'[e] = "idle" <=> pc[e] = "idle")
                         /\ status'[e] # "none" <=> pc'[e] = "done"
  BY <1>2 DEF InFlight, TypeOK
<1>5. QED BY <1>1, <1>2, <1>3, <1>4, NoneAssumption DEF TypeOK

LEMMA HandlerTypeOK ==
  ASSUME TypeOK, LeadersAlone, NEW d \in Clients, HandlerStep(d)
  PROVE  TypeOK'
BY LookupTypeOK, PackageTypeOK, OpenTypeOK, JoinTypeOK, LeaderTypeOK, UploadTypeOK
   DEF HandlerStep


-------------------------------------------------------------------------------
(* What the step of one handler does to everybody else                      *)

(* A handler moves others only by ending the flight they wait for; and if   *)
(* it sends them on, there is a row for itself.                             *)
OthersMove(d) ==
    \A e \in Clients \ {d} :
        /\ req'[e] = req[e] /\ wrote'[e] = wrote[e] /\ body'[e] = body[e]
        /\ found'[e] = found[e] /\ (e \in blind' <=> e \in blind)
        /\ \/ pc'[e] = pc[e] /\ status'[e] = status[e]
           \/ /\ pc[e] = "waiting" /\ Inside(d) /\ Key(e) = Key(d)
              /\ \/ pc'[e] = "done" /\ status'[e] \in {"ok", "notFound"}
                 \/ pc'[e] = "reserve" /\ status'[e] = status[e] /\ RowsFor(d)' # {}

(* Blobs and rows are written by leaders and by uploads, under their own    *)
(* keys and names.                                                          *)
StoresMove(d) ==
    /\ \A a \in Artifacts :
          \/ files'[a] = files[a]
          \/ /\ pc[d] \in {"createRow", "insert"} /\ a = Art(d)
             /\ files[a] = None /\ files'[a] = req[d].content
    /\ \A k \in Keys :
          blobs'[k] = blobs[k] \/ (pc[d] \in {"stream", "put", "rollback"} /\ k = Key(d))

FlightsMove(d) ==
    /\ \A k \in Keys : k # Key(d) => flight'[k] = flight[k]
    /\ \/ flight'[Key(d)] = flight[Key(d)] /\ (Inside(d) <=> Inside(d)')
       \/ flight[Key(d)] = None /\ flight'[Key(d)] = d /\ ~Inside(d) /\ Inside(d)'
       \/ flight[Key(d)] = d /\ Inside(d) /\ ~Inside(d)'

(* The end of a flight, for its leader and for the others.                  *)
LEMMA FlightEnds ==
  ASSUME TypeOK, NEW d \in Clients, Inside(d), flight[Key(d)] = d, req[d] # None,
         UNCHANGED <<req, found>>, \A e \in Clients \ {d} : wrote'[e] = wrote[e],
         \A e \in Clients \ {d} : e \in blind' <=> e \in blind,
         \/ \E got : FlightFails(d, got)
         \/ FlightLands(d) /\ RowsFor(d)' # {}
  PROVE  OthersMove(d) /\ FlightsMove(d)
<1>1. Key(d) \in Keys /\ flight' = [flight EXCEPT ![Key(d)] = None]
  BY KeyInKeys DEF FlightFails, FlightLands
<1>2. PICK W : W = Waiters(d)
  OBVIOUS
<1>3. \A e \in Clients : e \in W <=> pc[e] = "waiting" /\ Key(e) = Key(d)
  BY <1>2 DEF Waiters
<1>4. /\ pc'[d] \in {"done", "reserve"}
      /\ \A e \in Clients \ {d} :
            /\ body'[e] = body[e]
            /\ IF e \in W
               THEN \/ pc'[e] = "done" /\ status'[e] \in {"ok", "notFound"}
                    \/ pc'[e] = "reserve" /\ status'[e] = status[e] /\ RowsFor(d)' # {}
               ELSE pc'[e] = pc[e] /\ status'[e] = status[e]
  <2>1. CASE FlightLands(d) /\ RowsFor(d)' # {}
    BY <1>2, <2>1 DEF FlightLands, TypeOK
  <2>2. CASE \E got : FlightFails(d, got)
    <3>1. PICK got : FlightFails(d, got)
      BY <2>2
    <3>2. /\ pc' = [w \in Clients |-> IF w \in W \cup {d} THEN "done" ELSE pc[w]]
          /\ \E g : body' = [body EXCEPT ![d] = g]
          /\ \/ status' = [w \in Clients |->
                             IF w \notin W \cup {d} THEN status[w]
                             ELSE IF w = d /\ got # None THEN "ok" ELSE "notFound"]
             \/ status' = [w \in Clients |->
                             IF w \in W \cup {d} THEN "ok" ELSE status[w]]
      BY <1>2, <3>1 DEF FlightFails
    <3>3. QED BY <3>2 DEF TypeOK
  <2>3. QED BY <2>1, <2>2
<1>5. OthersMove(d)
  BY <1>3, <1>4 DEF OthersMove
<1>6. FlightsMove(d)
  <2>1. ~Inside(d)'
    BY <1>4 DEF Inside, FlightPcs
  <2>2. \A k \in Keys : k # Key(d) => flight'[k] = flight[k]
    BY <1>1 DEF TypeOK
  <2>3. QED BY <2>1, <2>2 DEF FlightsMove
<1>7. QED BY <1>5, <1>6

(* A step of an answering handler never changes a request.                  *)
LEMMA HandlerRequests ==
  ASSUME TypeOK, NEW d \in Clients, HandlerStep(d)
  PROVE  /\ req' = req /\ req[d] # None /\ Key(d) \in Keys /\ Art(d) \in Artifacts
         /\ \A e \in Clients : Key(e)' = Key(e) /\ Art(e)' = Art(e)
<1>1. req' = req /\ pc[d] # "idle"
  BY DEF HandlerStep, LookupRow, GetOrCreatePackage, GetPackage, CreatePackage, RegetPackage,
         JoinFlight, Recheck, Fetch, Stream, SaveRow, ReserveRow, OpenBlob, CheckExisting,
         PutBlob, InsertRow, Rollback
<1>2. QED BY <1>1, SameKeys, KeyInKeys DEF TypeOK

LEMMA HandlerMoves ==
  ASSUME TypeOK, LeadersAlone, NEW d \in Clients, HandlerStep(d),
         pc[d] = "createRow" => req[d].content # None
  PROVE  OthersMove(d) /\ StoresMove(d) /\ FlightsMove(d)
<1>1. req[d] # None /\ Key(d) \in Keys /\ req' = req /\ Art(d) \in Artifacts
  BY HandlerRequests
<1>2. CASE LookupRow(d) \/ ReserveRow(d) \/ GetOrCreatePackage(d) \/ OpenBlob(d)
  <2>1. /\ UNCHANGED <<files, blobs, wrote, flight, blind>> /\ ~Inside(d)
        /\ \A e \in Clients \ {d} : body'[e] = body[e] /\ found'[e] = found[e]
    BY <1>2 DEF LookupRow, ReserveRow, GetOrCreatePackage, GetPackage, CreatePackage,
                RegetPackage, OpenBlob, repoVars, TypeOK, Inside, FlightPcs
  <2>2. (\E p \in {"open", "getPackage", "createPackage", "regetPackage", "join", "check",
                   "put"} : Goto(d, p))
        \/ (\E s : Answer(d, s))
    BY <1>2 DEF LookupRow, ReserveRow, GetOrCreatePackage, GetPackage, CreatePackage,
                RegetPackage, OpenBlob, WithPackage
  <2>3. /\ pc'[d] \notin FlightPcs
        /\ \A e \in Clients \ {d} : pc'[e] = pc[e] /\ status'[e] = status[e]
    BY <2>2 DEF Goto, Answer, TypeOK, FlightPcs
  <2>4. QED BY <1>1, <2>1, <2>3 DEF OthersMove, StoresMove, FlightsMove, Inside
<1>3. CASE CheckExisting(d) \/ PutBlob(d) \/ InsertRow(d) \/ Rollback(d)
  <2>1. /\ UNCHANGED <<flight, blind, body, found>> /\ ~Inside(d)
        /\ \A e \in Clients \ {d} : wrote'[e] = wrote[e]
    BY <1>3 DEF CheckExisting, PutBlob, InsertRow, Rollback, PutOk, PutFails, PutBreaks,
                repoVars, TypeOK, Inside, FlightPcs
  <2>2. (\E p \in {"put", "insert", "rollback"} : Goto(d, p)) \/ (\E s : Answer(d, s))
    BY <1>3 DEF CheckExisting, PutBlob, InsertRow, Rollback, GivesUp
  <2>3. /\ pc'[d] \notin FlightPcs
        /\ \A e \in Clients \ {d} : pc'[e] = pc[e] /\ status'[e] = status[e]
    BY <2>2 DEF Goto, Answer, TypeOK, FlightPcs
  <2>4. StoresMove(d)
    BY <1>1, <1>3 DEF CheckExisting, PutBlob, InsertRow, Rollback, PutOk, PutFails, PutBreaks,
                      InsertOk, InsertFails, DeleteBlob, repoVars, TypeOK, StoresMove
  <2>5. QED BY <1>1, <2>1, <2>3, <2>4 DEF OthersMove, FlightsMove, Inside
<1>4. CASE JoinFlight(d)
  BY <1>1, <1>4 DEF JoinFlight, Goto, repoVars, TypeOK, OthersMove, StoresMove, FlightsMove,
                    Inside, FlightPcs
<1>5. CASE Recheck(d) \/ Fetch(d) \/ Stream(d) \/ SaveRow(d)
  <2>1. Inside(d) /\ flight[Key(d)] = d /\ UNCHANGED <<packages, req, found>>
    BY <1>5 DEF Recheck, Fetch, Stream, SaveRow, Inside, FlightPcs, LeadersAlone, repoVars
  <2>2. StoresMove(d)
    <3>1. CASE Recheck(d) \/ Fetch(d)
      BY <3>1 DEF Recheck, Fetch, repoVars, StoresMove
    <3>2. CASE Stream(d)
      BY <1>1, <3>2 DEF Stream, PutOk, PutFails, PutBreaks, StoresMove, TypeOK
    <3>3. CASE SaveRow(d)
      BY <1>1, <3>3 DEF SaveRow, InsertOk, InsertFails, StoresMove, TypeOK
    <3>4. QED BY <1>5, <3>1, <3>2, <3>3
  <2>3. \A e \in Clients \ {d} : wrote'[e] = wrote[e] /\ (e \in blind' <=> e \in blind)
    BY <1>5 DEF Recheck, Fetch, Stream, SaveRow, PutOk, PutFails, PutBreaks, repoVars, TypeOK
  <2>4. CASE \/ \E got : FlightFails(d, got)
             \/ FlightLands(d) /\ RowsFor(d)' # {}
    BY <1>1, <2>1, <2>2, <2>3, <2>4, FlightEnds
  <2>5. CASE /\ \E p \in {"fetch", "stream", "createRow"} : Goto(d, p)
             /\ UNCHANGED flight /\ \A e \in Clients \ {d} : body'[e] = body[e]
    BY <1>1, <2>1, <2>2, <2>3, <2>5 DEF Goto, TypeOK, OthersMove, FlightsMove, Inside, FlightPcs
  <2>6. CASE Recheck(d)
    <3>1. RowsFor(d)' = RowsFor(d)
      BY <1>1, <2>6 DEF Recheck, repoVars, RowsFor, Art
    <3>2. QED BY <2>4, <2>5, <2>6, <3>1 DEF Recheck
  <2>7. CASE Fetch(d)
    BY <2>4, <2>5, <2>7 DEF Fetch
  <2>8. CASE Stream(d)
    BY <2>4, <2>5, <2>8 DEF Stream, TypeOK
  <2>9. CASE SaveRow(d)
    <3>1. InsertOk(Art(d), req[d].content) => Art(d) \in RowsFor(d)'
      BY <1>1, <2>9 DEF InsertOk, SaveRow, TypeOK, RowsFor, Art
    <3>2. QED BY <2>4, <2>9, <3>1 DEF SaveRow
  <2>10. QED BY <1>5, <2>6, <2>7, <2>8, <2>9
<1>6. QED BY <1>2, <1>3, <1>4, <1>5 DEF HandlerStep

-------------------------------------------------------------------------------
(* The inductive invariant                                                  *)

(* Where a handler is tells what it did before: it writes the bucket once,  *)
(* a leader's client has what its leader wrote, only a look-up inside a     *)
(* flight makes blind, nobody fetches without an upstream or stores for     *)
(* nobody, and a handler that serves has one of its rows.                   *)
Track(d) ==
    /\ wrote[d] # "nothing" => pc[d] \in {"createRow", "insert", "rollback", "done"}
    /\ d \in blind => pc[d] \in {"fetch", "stream", "createRow", "done"}
    /\ pc[d] \in {"createRow", "insert", "rollback"} => wrote[d] \in {"stored", "lost"}
    /\ pc[d] = "createRow" => body[d] = req[d].content
    /\ pc[d] \notin {"createRow", "done"} => body[d] = None
    /\ pc[d] \in {"getPackage", "createPackage", "regetPackage", "join", "waiting", "recheck",
                  "fetch", "stream", "createRow", "check", "put", "insert", "rollback"}
          => req[d].content # None
    /\ pc[d] \in {"check", "put", "insert", "rollback"} => Publishing(d)
    /\ pc[d] \notin {"open", "done"} => found[d] = None
    /\ pc[d] = "open" => found[d] \in RowsFor(d)

OnTrack == \A d \in Clients : Track(d)

(* Somebody else's write may be under the key of the file of d.             *)
Excused(d) == \E e \in Clients : Intruder(e, Art(d))

(* A leader that fetches has seen that its file has no row, or was blind.   *)
NothingYet ==
    \A d \in Clients :
        pc[d] \in {"fetch", "stream", "createRow"} /\ RowsFor(d) # {}
            => d \in blind \/ Excused(d)

(* What a leader is about to record is in the bucket.                       *)
Pending ==
    \A d \in Clients :
        pc[d] = "createRow" => \/ blobs[Key(d)] = req[d].content
                               \/ wrote[d] = "lost"
                               \/ Excused(d)

(* d may have shared the flight of another Go version with the same key.    *)
Misled(d) ==
    /\ Protocol = "go"
    /\ \E e \in Clients : req[e] # None /\ Key(e) = Key(d) /\ Art(e) # Art(d)

(* Whoever goes back to storage after a flight finds a row.                 *)
RowsWait == \A d \in Clients : pc[d] = "reserve" => RowsFor(d) # {} \/ Misled(d)

ProxyInv ==
    /\ LeadersAlone /\ OnTrack /\ NothingYet /\ Pending /\ RowsWait
    /\ RowsAreIntact /\ OneRowPerName /\ NoNilRow

(* The state of d's own handler after its step.                             *)
LEMMA OwnTrack ==
  ASSUME TypeOK, TypeOK', ProxyInv, NEW d \in Clients, HandlerStep(d)
  PROVE  Track(d)'
<1>1. /\ Key(d)' = Key(d) /\ Art(d)' = Art(d) /\ req' = req /\ req[d] # None /\ Track(d)
  BY HandlerRequests DEF ProxyInv, OnTrack
<1>2. Publishing(d)' <=> Publishing(d)
  BY <1>1 DEF Publishing
<1>3. CASE LookupRow(d) \/ ReserveRow(d)
  <2>1. /\ UNCHANGED <<files, wrote, body, blind>> /\ wrote[d] = "nothing" /\ d \notin blind
        /\ pc[d] \in {"lookup", "reserve"} /\ body[d] = None /\ found[d] = None
    BY <1>1, <1>3 DEF LookupRow, ReserveRow, repoVars, Track
  <2>2. CASE \E a \in RowsFor(d) : found' = [found EXCEPT ![d] = a] /\ Goto(d, "open")
    <3>1. PICK a \in RowsFor(d) : found' = [found EXCEPT ![d] = a] /\ Goto(d, "open")
      BY <2>2
    <3>2. RowsFor(d)' = RowsFor(d) /\ found'[d] = a /\ pc'[d] = "open"
      BY <1>1, <2>1, <3>1 DEF Goto, TypeOK, RowsFor
    <3>3. QED BY <1>1, <2>1, <3>1, <3>2 DEF Track
  <2>3. CASE /\ UNCHANGED found
             /\ \/ Goto(d, "getPackage") /\ req[d].content # None
                \/ \E s : Answer(d, s)
    BY <1>1, <2>1, <2>3 DEF Track, Goto, Answer, TypeOK
  <2>4. QED BY <1>3, <2>2, <2>3 DEF LookupRow, ReserveRow
<1>4. CASE GetOrCreatePackage(d) \/ JoinFlight(d)
  <2>1. /\ UNCHANGED <<files, wrote, body, blind, found>> /\ wrote[d] = "nothing"
        /\ d \notin blind /\ body[d] = None /\ req[d].content # None /\ found[d] = None
    BY <1>1, <1>4 DEF GetOrCreatePackage, GetPackage, CreatePackage, RegetPackage, JoinFlight,
                      repoVars, Track
  <2>2. \/ pc'[d] \in {"createPackage", "regetPackage", "join", "waiting", "recheck", "done"}
        \/ pc'[d] = WithPackage(d)
    BY <1>4 DEF GetOrCreatePackage, GetPackage, CreatePackage, RegetPackage, JoinFlight,
                Goto, Answer, TypeOK
  <2>3. WithPackage(d) = "join" \/ (WithPackage(d) \in {"check", "put"} /\ Publishing(d))
    BY DEF WithPackage
  <2>4. QED BY <1>1, <1>2, <2>1, <2>2, <2>3 DEF Track
<1>5. CASE OpenBlob(d)
  BY <1>1, <1>5 DEF OpenBlob, Answer, Track, TypeOK, repoVars
<1>6. CASE Recheck(d) \/ Fetch(d)
  <2>1. /\ UNCHANGED <<files, wrote, found>> /\ wrote[d] = "nothing" /\ body[d] = None
        /\ req[d].content # None /\ found[d] = None
    BY <1>1, <1>6 DEF Recheck, Fetch, repoVars, Track
  <2>2. CASE FlightLands(d) /\ blind' = blind /\ pc[d] = "recheck"
    BY <1>1, <2>1, <2>2 DEF FlightLands, Track, TypeOK
  <2>3. CASE Goto(d, "fetch") /\ body' = body
    BY <1>1, <2>1, <2>3 DEF Goto, Track, TypeOK
  <2>4. CASE Goto(d, "stream") /\ body' = body /\ blind' = blind /\ Fetch(d)
    BY <1>1, <2>1, <2>4 DEF Goto, Track, TypeOK, Fetch
  <2>5. CASE FlightFails(d, None)
    <3>1. pc'[d] = "done"
      BY <2>5 DEF FlightFails, TypeOK
    <3>2. QED BY <2>1, <3>1 DEF Track
  <2>6. QED BY <1>6, <2>2, <2>3, <2>4, <2>5 DEF Recheck, Fetch
<1>7. CASE Stream(d)
  <2>1. CASE \E got : FlightFails(d, got)
    <3>1. pc'[d] = "done"
      BY <2>1 DEF FlightFails, TypeOK
    <3>2. QED BY <3>1 DEF Track
  <2>2. CASE /\ PutOk(d, Key(d), req[d].content) /\ Goto(d, "createRow")
             /\ body' = [body EXCEPT ![d] = req[d].content]
    <3>1. /\ pc'[d] = "createRow" /\ wrote'[d] \in {"stored", "lost"}
          /\ body'[d] = req[d].content
      BY <2>2 DEF PutOk, Goto, TypeOK
    <3>2. req[d].content # None /\ found'[d] = None
      BY <1>1, <1>7 DEF Stream, Track
    <3>3. QED BY <1>1, <3>1, <3>2 DEF Track
  <2>3. QED BY <1>7, <2>1, <2>2 DEF Stream
<1>8. CASE SaveRow(d)
  <2>1. body[d] # None
    BY <1>1, <1>8 DEF SaveRow, Track
  <2>2. pc'[d] = "done"
    BY <1>8, <2>1 DEF SaveRow, FlightFails, FlightLands, Waiters, TypeOK
  <2>3. QED BY <2>2 DEF Track
<1>9. CASE CheckExisting(d) \/ PutBlob(d) \/ InsertRow(d) \/ Rollback(d)
  <2>1. /\ UNCHANGED <<body, blind, found>> /\ d \notin blind /\ Publishing(d)
        /\ body[d] = None /\ found[d] = None /\ req[d].content # None
    BY <1>1, <1>9 DEF CheckExisting, PutBlob, InsertRow, Rollback, Track
  <2>2. \/ pc'[d] = "put" /\ wrote'[d] = "nothing"
        \/ pc'[d] \in {"insert", "rollback"} /\ wrote'[d] \in {"stored", "lost"}
        \/ pc'[d] = "done"
    BY <1>1, <1>9 DEF CheckExisting, PutBlob, InsertRow, Rollback, GivesUp, PutOk, repoVars,
                      Goto, Answer, Track, TypeOK
  <2>3. QED BY <1>1, <1>2, <2>1, <2>2 DEF Track
<1>10. QED BY <1>3, <1>4, <1>5, <1>6, <1>7, <1>8, <1>9 DEF HandlerStep

(* What the step of d may have to do with rows and blobs.                   *)
LEMMA LeaderMoves ==
  ASSUME TypeOK, ProxyInv, NEW d \in Clients, HandlerStep(d)
  PROVE  /\ OthersMove(d) /\ StoresMove(d) /\ FlightsMove(d)
         /\ d \in blind => d \in blind'
         /\ pc'[d] \in {"fetch", "stream", "createRow"} =>
               /\ files' = files
               /\ \/ pc[d] \in {"fetch", "stream"} /\ blind' = blind
                  \/ pc[d] = "recheck" /\ (RowsFor(d) = {} \/ d \in blind')
         /\ pc'[d] = "createRow" => /\ pc[d] = "stream"
                                    /\ PutOk(d, Key(d), req[d].content)
         /\ pc[d] \in {"stream", "put", "rollback"} /\ blobs' # blobs => wrote'[d] # "nothing"
         /\ wrote[d] = "nothing" \/ wrote'[d] = wrote[d]
<1>1. OthersMove(d) /\ StoresMove(d) /\ FlightsMove(d)
  BY HandlerMoves DEF ProxyInv, OnTrack, Track
<1>2. CASE LookupRow(d) \/ GetOrCreatePackage(d) \/ JoinFlight(d) \/ ReserveRow(d) \/ OpenBlob(d)
  <2>1. /\ UNCHANGED <<blind, wrote>>
        /\ pc[d] \notin {"fetch", "stream", "createRow", "put", "rollback"}
    BY <1>2 DEF LookupRow, GetOrCreatePackage, GetPackage, CreatePackage, RegetPackage,
                JoinFlight, ReserveRow, OpenBlob
  <2>2. \/ \E p \in {"open", "getPackage", "createPackage", "regetPackage", "join",
                     "recheck", "waiting", "check", "put"} : Goto(d, p)
        \/ \E s : Answer(d, s)
    BY <1>2 DEF LookupRow, GetOrCreatePackage, GetPackage, CreatePackage, RegetPackage,
                JoinFlight, ReserveRow, OpenBlob, WithPackage
  <2>3. pc'[d] \notin {"fetch", "stream", "createRow"}
    BY <2>2 DEF Goto, Answer, TypeOK
  <2>4. QED BY <1>1, <2>1, <2>3
<1>3. ASSUME (\E got : FlightFails(d, got)) \/ FlightLands(d)
      PROVE  pc'[d] \notin {"fetch", "stream", "createRow"}
  BY <1>3 DEF FlightFails, FlightLands, Waiters, TypeOK
<1>4. CASE Recheck(d)
  BY <1>1, <1>3, <1>4 DEF Recheck, Goto, TypeOK, repoVars
<1>5. CASE Fetch(d)
  BY <1>1, <1>3, <1>5 DEF Fetch, Goto, TypeOK, repoVars
<1>6. CASE Stream(d)
  <2>1. wrote[d] = "nothing" /\ pc[d] = "stream" /\ blind' = blind /\ files' = files
    BY <1>6 DEF Stream, ProxyInv, OnTrack, Track
  <2>2. blobs' # blobs => wrote'[d] # "nothing"
    BY <1>6 DEF Stream, PutOk, PutFails, PutBreaks, TypeOK
  <2>3. pc'[d] = "createRow" => PutOk(d, Key(d), req[d].content)
    BY <1>3, <1>6 DEF Stream
  <2>4. QED BY <1>1, <2>1, <2>2, <2>3
<1>7. CASE SaveRow(d)
  <2>1. pc'[d] \notin {"fetch", "stream", "createRow"}
    BY <1>3, <1>7 DEF SaveRow
  <2>2. QED BY <1>1, <1>7, <2>1 DEF SaveRow
<1>8. CASE CheckExisting(d) \/ PutBlob(d) \/ InsertRow(d) \/ Rollback(d)
  <2>1. pc'[d] \notin {"fetch", "stream", "createRow"} /\ pc[d] # "stream" /\ blind' = blind
    BY <1>8 DEF CheckExisting, PutBlob, InsertRow, Rollback, GivesUp, Goto, Answer, TypeOK
  <2>2. pc[d] = "put" => PutBlob(d) /\ wrote[d] = "nothing"
    BY <1>8 DEF CheckExisting, PutBlob, InsertRow, Rollback, ProxyInv, OnTrack, Track
  <2>3. pc[d] = "put" /\ blobs' # blobs => wrote'[d] # "nothing"
    BY <2>2 DEF PutBlob, PutOk, PutFails, PutBreaks, TypeOK
  <2>4. pc[d] # "put" => wrote' = wrote
    BY <1>8 DEF CheckExisting, PutBlob, InsertRow, Rollback
  <2>5. pc[d] = "rollback" => wrote[d] # "nothing"
    BY DEF ProxyInv, OnTrack, Track
  <2>6. QED BY <1>1, <2>1, <2>2, <2>3, <2>4, <2>5
<1>9. QED BY <1>2, <1>4, <1>5, <1>6, <1>7, <1>8 DEF HandlerStep

(* An intruder remains one.                                                 *)
LEMMA IntrudersStay ==
  ASSUME TypeOK, ProxyInv, NEW d \in Clients, HandlerStep(d), NEW e \in Clients, NEW a,
         Intruder(e, a)
  PROVE  Intruder(e, a)'
<1>1. /\ req' = req /\ Key(e)' = Key(e) /\ Art(e)' = Art(e) /\ wrote'[e] # "nothing"
  BY HandlerRequests, LeaderMoves DEF OthersMove, Intruder
<1>2. Publishing(e)' <=> Publishing(e)
  BY <1>1 DEF Publishing
<1>3. blobKey(a)' = blobKey(a)
  BY DEF blobKey
<1>4. QED BY <1>1, <1>2, <1>3 DEF Intruder

LEMMA ExcusesStay ==
  ASSUME TypeOK, ProxyInv, NEW d \in Clients, HandlerStep(d), NEW e \in Clients, Excused(e)
  PROVE  Excused(e)'
<1>1. PICK a : a = Art(e)
  OBVIOUS
<1>2. PICK x \in Clients : Intruder(x, a)
  BY <1>1 DEF Excused
<1>3. Intruder(x, a)' /\ Art(e)' = a
  BY <1>1, <1>2, IntrudersStay, HandlerRequests
<1>4. QED BY <1>3 DEF Excused, Intruder, blobKey

(* The others keep their invariants; d's own step was above.                *)
LEMMA ControlInv ==
  ASSUME TypeOK, TypeOK', ProxyInv, NEW d \in Clients, HandlerStep(d)
  PROVE  LeadersAlone' /\ OnTrack' /\ RowsWait' /\ NoNilRow'
<1>1. /\ OthersMove(d) /\ StoresMove(d) /\ FlightsMove(d) /\ req[d] # None
      /\ Key(d) \in Keys /\ req' = req
      /\ \A e \in Clients : Key(e)' = Key(e) /\ Art(e)' = Art(e)
  BY LeaderMoves, HandlerRequests
<1>2. \A a \in Artifacts : files[a] # None => files'[a] = files[a]
  BY <1>1 DEF StoresMove
<1>3. \A e \in Clients : RowsFor(e) \subseteq RowsFor(e)'
  BY <1>1, <1>2 DEF RowsFor
<1>4. \A e \in Clients : Misled(e) => Misled(e)'
  BY <1>1 DEF Misled
<1>5. LeadersAlone'
  <2> SUFFICES ASSUME NEW e \in Clients, Inside(e)' PROVE flight'[Key(e)'] = e
    BY DEF LeadersAlone
  <2>1. CASE e = d
    BY <1>1, <2>1 DEF FlightsMove, ProxyInv, LeadersAlone
  <2>2. CASE e # d
    <3>1. Inside(e) /\ flight[Key(e)] = e /\ Key(e) \in Keys
      BY <1>1, <2>2, KeyInKeys DEF OthersMove, Inside, FlightPcs, ProxyInv, LeadersAlone, TypeOK
    <3>2. Key(e) # Key(d) \/ flight'[Key(d)] = flight[Key(d)]
      BY <1>1, <2>2, <3>1, NoneAssumption DEF FlightsMove
    <3>3. QED BY <1>1, <3>1, <3>2 DEF FlightsMove
  <2>3. QED BY <2>1, <2>2
<1>6. OnTrack'
  <2> SUFFICES ASSUME NEW e \in Clients PROVE Track(e)'
    BY DEF OnTrack
  <2>1. CASE e = d
    BY <2>1, OwnTrack
  <2>2. CASE e # d
    <3>1. /\ Track(e) /\ Key(e)' = Key(e) /\ req'[e] = req[e] /\ wrote'[e] = wrote[e]
          /\ body'[e] = body[e] /\ found'[e] = found[e] /\ (e \in blind' <=> e \in blind)
          /\ \/ pc'[e] = pc[e]
             \/ pc[e] = "waiting" /\ pc'[e] \in {"done", "reserve"}
      BY <1>1, <2>2 DEF OthersMove, ProxyInv, OnTrack
    <3>2. Publishing(e)' <=> Publishing(e)
      BY <3>1 DEF Publishing
    <3>3. found[e] \in RowsFor(e) => found'[e] \in RowsFor(e)'
      BY <1>3, <3>1
    <3>4. QED BY <3>1, <3>2, <3>3 DEF Track
  <2>3. QED BY <2>1, <2>2
<1>7. RowsWait'
  <2> SUFFICES ASSUME NEW e \in Clients, pc'[e] = "reserve"
               PROVE  RowsFor(e)' # {} \/ Misled(e)'
    BY DEF RowsWait
  <2>1. CASE pc[e] = "reserve"
    BY <1>3, <1>4, <2>1 DEF ProxyInv, RowsWait
  <2>2. CASE pc[e] # "reserve" /\ e # d
    <3>1. pc[e] = "waiting" /\ Key(e) = Key(d) /\ RowsFor(d)' # {} /\ req[e] # None
      BY <1>1, <2>2 DEF OthersMove, TypeOK
    <3>2. CASE Protocol = "go" /\ Art(e) # Art(d)
      BY <1>1, <3>1, <3>2 DEF Misled
    <3>3. CASE Protocol = "go" /\ Art(e) = Art(d)
      <4>1. RowsFor(e)' = RowsFor(d)'
        BY <1>1, <3>3 DEF RowsFor
      <4>2. QED BY <3>1, <4>1
    <3>4. CASE Protocol # "go"
      <4>1. req'[e].file = req'[d].file
        BY <1>1, <3>1, <3>4 DEF Key, Art, blobKey
      <4>2. RowsFor(e)' = RowsFor(d)'
        BY <3>4, <4>1 DEF RowsFor
      <4>3. QED BY <3>1, <4>2
    <3>5. QED BY <3>2, <3>3, <3>4
  <2>3. CASE pc[e] # "reserve" /\ e = d
    <3>1. \/ Recheck(d) /\ FlightLands(d) /\ RowsFor(d) # {}
          \/ SaveRow(d) /\ body[d] = None
      <4>1. CASE \/ LookupRow(d) \/ GetOrCreatePackage(d) \/ JoinFlight(d) \/ ReserveRow(d)
                 \/ OpenBlob(d) \/ CheckExisting(d) \/ PutBlob(d) \/ InsertRow(d) \/ Rollback(d)
        <5>1. WithPackage(d) \in Pcs \ {"reserve"}
          BY DEF WithPackage, Pcs
        <5>2. (\E p \in Pcs \ {"reserve"} : Goto(d, p)) \/ (\E s : Answer(d, s))
          BY <4>1, <5>1 DEF LookupRow, GetOrCreatePackage, GetPackage, CreatePackage,
                      RegetPackage, JoinFlight, ReserveRow, OpenBlob, CheckExisting, PutBlob,
                      InsertRow, Rollback, GivesUp, Pcs, FlightPcs
        <5>3. QED BY <2>3, <5>2 DEF Goto, Answer, TypeOK
      <4>2. ASSUME NEW got, FlightFails(d, got) PROVE FALSE
        BY <2>3, <4>2 DEF FlightFails, TypeOK
      <4>3. ASSUME NEW p \in {"fetch", "stream", "createRow"}, Goto(d, p) PROVE FALSE
        BY <2>3, <4>3 DEF Goto, TypeOK
      <4>4. CASE FlightLands(d) /\ SaveRow(d)
        BY <2>3, <4>4 DEF FlightLands, Waiters, SaveRow, TypeOK
      <4>5. CASE Recheck(d)
        BY <4>3, <4>5 DEF Recheck
      <4>6. ~Fetch(d)
        BY <4>2, <4>3 DEF Fetch
      <4>7. ~Stream(d)
        BY <4>2, <4>3 DEF Stream
      <4>8. CASE SaveRow(d)
        BY <4>2, <4>4, <4>8 DEF SaveRow
      <4>9. QED BY <4>1, <4>5, <4>6, <4>7, <4>8 DEF HandlerStep
    <3>2. ~(SaveRow(d) /\ body[d] = None)
      BY DEF ProxyInv, OnTrack, Track, SaveRow
    <3>3. QED BY <1>3, <2>3, <3>1, <3>2
  <2>4. QED BY <2>1, <2>2, <2>3
<1>8. NoNilRow'
  <2> SUFFICES ASSUME NEW e \in Clients, status'[e] = "panic" PROVE Misled(e)'
    BY DEF NoNilRow, Misled
  <2>1. CASE status[e] = "panic"
    BY <1>4, <2>1 DEF ProxyInv, NoNilRow, Misled
  <2>2. CASE status[e] # "panic"
    <3>1. e = d
      BY <1>1, <2>2 DEF OthersMove
    <3>2. ReserveRow(d) /\ RowsFor(d) = {}
      BY <2>2, <3>1 DEF HandlerStep, LookupRow, GetOrCreatePackage, GetPackage, CreatePackage,
         RegetPackage, JoinFlight, Recheck, Fetch, Stream, SaveRow, ReserveRow, OpenBlob,
         CheckExisting, PutBlob, InsertRow, Rollback, GivesUp, Goto, Answer, FlightFails,
         FlightLands, TypeOK
    <3>3. QED BY <1>4, <3>1, <3>2 DEF ReserveRow, ProxyInv, RowsWait
  <2>3. QED BY <2>1, <2>2
<1>9. QED BY <1>5, <1>6, <1>7, <1>8

LEMMA StoresInv ==
  ASSUME TypeOK, TypeOK', ProxyInv, NEW d \in Clients, HandlerStep(d)
  PROVE  NothingYet' /\ Pending' /\ RowsAreIntact' /\ OneRowPerName'
<1>1. /\ OthersMove(d) /\ StoresMove(d) /\ req[d] # None /\ req' = req /\ Key(d) \in Keys
      /\ \A e \in Clients : Key(e)' = Key(e) /\ Art(e)' = Art(e)
      /\ d \in blind => d \in blind'
      /\ wrote[d] = "nothing" \/ wrote'[d] = wrote[d]
  BY LeaderMoves, HandlerRequests
<1>2. /\ pc'[d] \in {"fetch", "stream", "createRow"} =>
               /\ files' = files
               /\ \/ pc[d] \in {"fetch", "stream"} /\ blind' = blind
                  \/ pc[d] = "recheck" /\ (RowsFor(d) = {} \/ d \in blind')
      /\ pc'[d] = "createRow" => /\ pc[d] = "stream"
                                 /\ PutOk(d, Key(d), req[d].content)
      /\ pc[d] \in {"stream", "put", "rollback"} /\ blobs' # blobs => wrote'[d] # "nothing"
  BY LeaderMoves
<1>3. \A e \in Clients \ {d} : Inside(e) /\ Inside(d) => Key(e) # Key(d)
  BY DEF ProxyInv, LeadersAlone
<1>4. \A a \in Artifacts : files'[a] # files[a] =>
         /\ pc[d] \in {"createRow", "insert"} /\ a = Art(d) /\ blobKey(a) = Key(d)
         /\ files[a] = None /\ files'[a] = req[d].content
  BY <1>1 DEF StoresMove, Key
(* An upload that has written the key of a file is an intruder there.       *)
<1>5. ASSUME NEW a, blobKey(a) = Key(d), wrote'[d] # "nothing",
             pc[d] \in {"put", "insert", "rollback"}
      PROVE  Intruder(d, a)'
  <2>1. Publishing(d)'
    BY <1>1, <1>5 DEF ProxyInv, OnTrack, Track, Publishing
  <2>2. Key(d)' = blobKey(a)
    BY <1>1, <1>5
  <2>3. QED BY <1>5, <2>1, <2>2 DEF Intruder, blobKey
<1>6. pc[d] \in {"createRow", "insert", "rollback"} => wrote'[d] # "nothing" /\ wrote[d] # "nothing"
  BY <1>1 DEF ProxyInv, OnTrack, Track
<1>7. \A e \in Clients : Excused(e) => Excused(e)'
  BY ExcusesStay
<1>8. NothingYet'
  <2> SUFFICES ASSUME NEW e \in Clients, pc'[e] \in {"fetch", "stream", "createRow"},
                      RowsFor(e)' # {}
               PROVE  e \in blind' \/ Excused(e)'
    BY DEF NothingYet
  <2>1. PICK b \in Artifacts : b \in RowsFor(e)'
    BY DEF RowsFor
  <2>2. CASE e = d
    <3>1. files' = files
      BY <1>2, <2>2
    <3>2. RowsFor(d) # {}
      BY <1>1, <2>2, <3>1 DEF RowsFor
    <3>3. CASE pc[d] \in {"fetch", "stream"}
      BY <1>1, <1>7, <2>2, <3>2, <3>3 DEF ProxyInv, NothingYet
    <3>4. CASE pc[d] = "recheck"
      BY <1>2, <2>2, <3>2, <3>4
    <3>5. QED BY <1>2, <2>2, <3>3, <3>4
  <2>3. CASE e # d
    <3>1. pc'[e] = pc[e] /\ (e \in blind' <=> e \in blind) /\ Inside(e)
      BY <1>1, <2>3 DEF OthersMove, Inside, FlightPcs
    <3>2. CASE RowsFor(e) # {}
      BY <1>7, <3>1, <3>2 DEF ProxyInv, NothingYet
    <3>3. CASE RowsFor(e) = {}
      <4>1. files'[b] # files[b] /\ blobKey(b) = Key(e)
        BY <1>1, <2>1, <3>3 DEF RowsFor, Key, blobKey, Art
      <4>2. pc[d] = "insert" /\ Key(d) = Key(e)
        BY <1>3, <1>4, <2>3, <3>1, <4>1 DEF Inside, FlightPcs
      <4>3. PICK a : a = Art(e)
        OBVIOUS
      <4>4. Intruder(d, a)' /\ Art(e)' = a
        BY <1>1, <1>5, <1>6, <4>2, <4>3 DEF Key
      <4>5. QED BY <4>4 DEF Excused, Intruder, blobKey
    <3>4. QED BY <3>2, <3>3
  <2>4. QED BY <2>2, <2>3
<1>9. Pending'
  <2> SUFFICES ASSUME NEW e \in Clients, pc'[e] = "createRow"
               PROVE  blobs'[Key(e)] = req[e].content \/ wrote'[e] = "lost" \/ Excused(e)'
    BY <1>1 DEF Pending
  <2>1. CASE e = d
    BY <1>1, <1>2, <2>1 DEF PutOk, TypeOK
  <2>2. CASE e # d
    <3>1. pc[e] = "createRow" /\ wrote'[e] = wrote[e] /\ Inside(e) /\ Key(e) \in Keys
      BY <1>1, <2>2, KeyInKeys DEF OthersMove, Inside, FlightPcs, TypeOK
    <3>2. CASE blobs'[Key(e)] = blobs[Key(e)]
      BY <1>7, <3>1, <3>2 DEF ProxyInv, Pending
    <3>3. CASE blobs'[Key(e)] # blobs[Key(e)]
      <4>1. pc[d] \in {"put", "rollback"} /\ Key(e) = Key(d) /\ wrote'[d] # "nothing"
        BY <1>1, <1>2, <1>3, <2>2, <3>1, <3>3 DEF StoresMove, Inside, FlightPcs
      <4>2. PICK a : a = Art(e)
        OBVIOUS
      <4>3. Intruder(d, a)' /\ Art(e)' = a
        BY <1>1, <1>5, <4>1, <4>2 DEF Key
      <4>4. QED BY <4>3 DEF Excused, Intruder, blobKey
    <3>4. QED BY <3>2, <3>3
  <2>3. QED BY <2>1, <2>2
<1>10. RowsAreIntact'
  <2> SUFFICES ASSUME NEW a \in Artifacts, NEW k, k = blobKey(a),
                      files'[a] # None, blobs'[k] # files'[a]
               PROVE  \E e \in Clients : \/ Intruder(e, a)'
                                         \/ /\ e \in blind' \/ wrote'[e] = "lost"
                                            /\ wrote'[e] # "nothing"
                                            /\ Key(e) = k
    BY <1>1 DEF RowsAreIntact, blobKey
  <2>1. k \in Keys
    BY KeysOfArtifacts
  <2>2. ASSUME NEW x \in Clients, Excused(x), Key(x) = k, Protocol = "go" => Art(x) = a
        PROVE  \E e \in Clients : Intruder(e, a)'
    <3>1. PICK e \in Clients : Intruder(e, Art(x))
      BY <2>2 DEF Excused
    <3>2. Intruder(e, a)
      BY <2>2, <3>1 DEF Intruder, Key
    <3>3. QED BY <3>2, IntrudersStay
  <2>3. CASE files'[a] # files[a]
    <3>1. /\ pc[d] \in {"createRow", "insert"} /\ k = Key(d) /\ files'[a] = req[d].content
          /\ a = Art(d)
      BY <1>4, <2>3
    <3>2. CASE pc[d] = "insert"
      BY <1>5, <1>6, <3>1, <3>2
    <3>3. CASE pc[d] = "createRow"
      <4>1. blobs'[k] = blobs[k]
        BY <1>1, <2>1, <3>1, <3>3 DEF StoresMove
      <4>2. wrote[d] = "lost" \/ Excused(d)
        BY <3>1, <3>3, <4>1 DEF ProxyInv, Pending
      <4>3. QED BY <1>1, <2>2, <3>1, <4>2
    <3>4. QED BY <3>1, <3>2, <3>3
  <2>4. CASE files'[a] = files[a] /\ blobs'[k] = blobs[k]
    <3>1. PICK e \in Clients : \/ Intruder(e, a)
                               \/ /\ e \in blind \/ wrote[e] = "lost"
                                  /\ wrote[e] # "nothing" /\ Key(e) = k
      BY <2>4 DEF ProxyInv, RowsAreIntact
    <3>2. CASE Intruder(e, a)
      BY <3>2, IntrudersStay
    <3>3. QED BY <1>1, <3>1, <3>2 DEF OthersMove
  <2>5. CASE files'[a] = files[a] /\ blobs'[k] # blobs[k]
    <3>1. pc[d] \in {"stream", "put", "rollback"} /\ k = Key(d) /\ wrote'[d] # "nothing"
      BY <1>1, <1>2, <2>1, <2>5 DEF StoresMove
    <3>2. CASE pc[d] \in {"put", "rollback"}
      BY <1>5, <3>1, <3>2
    <3>3. CASE pc[d] = "stream" /\ a \notin RowsFor(d)
      <4>1. Protocol = "go" /\ Art(d) # a
        BY <1>1, <2>5, <3>1, <3>3, RowsOfKey
      <4>2. Key(d)' = blobKey(a) /\ Art(d)' # a
        BY <1>1, <3>1, <4>1
      <4>3. QED BY <3>1, <4>1, <4>2 DEF Intruder, blobKey
    <3>4. CASE pc[d] = "stream" /\ a \in RowsFor(d)
      <4>1. d \in blind \/ Excused(d)
        BY <3>4 DEF ProxyInv, NothingYet
      <4>2. Protocol = "go" => Art(d) = a
        BY <1>1, <3>4, RowsOfKey
      <4>3. QED BY <1>1, <2>2, <3>1, <4>1, <4>2
    <3>5. QED BY <3>1, <3>2, <3>3, <3>4
  <2>6. QED BY <2>3, <2>4, <2>5
<1>11. OneRowPerName'
  <2> SUFFICES ASSUME Protocol # "go", NEW a \in Artifacts, NEW b \in Artifacts,
                      files'[a] # None, files'[b] # None, a[2] = b[2], a # b
               PROVE  \E e \in Clients :
                         /\ req[e] # None /\ req[e].file = a[2]
                         /\ e \in blind' \/ (Publishing(e)' /\ wrote'[e] # "nothing")
    BY <1>1 DEF OneRowPerName
  <2>1. \A e \in Clients : Publishing(e)' <=> Publishing(e)
    BY <1>1 DEF Publishing
  <2>2. blobKey(a) = a[2] /\ blobKey(b) = a[2]
    BY DEF blobKey
  <2>3. CASE files[a] # None /\ files[b] # None
    <3>1. PICK e \in Clients : /\ req[e] # None /\ req[e].file = a[2]
                               /\ e \in blind \/ (Publishing(e) /\ wrote[e] # "nothing")
      BY <2>3 DEF ProxyInv, OneRowPerName
    <3>2. QED BY <1>1, <2>1, <3>1 DEF OthersMove
  <2>4. CASE files[a] = None \/ files[b] = None
    <3>1. /\ pc[d] \in {"createRow", "insert"} /\ Key(d) = a[2]
          /\ files[a] # None \/ files[b] # None
      BY <1>4, <2>2, <2>4
    <3>2. req[d].file = a[2]
      BY <3>1 DEF Key, blobKey, Art
    <3>3. CASE pc[d] = "insert"
      BY <1>1, <1>6, <2>1, <3>2, <3>3 DEF ProxyInv, OnTrack, Track
    <3>4. CASE pc[d] = "createRow" /\ d \in blind
      BY <1>1, <3>2, <3>4
    <3>5. CASE pc[d] = "createRow" /\ Excused(d)
      <4>1. PICK e \in Clients : Intruder(e, Art(d))
        BY <3>5 DEF Excused
      <4>2. Publishing(e) /\ wrote'[e] # "nothing" /\ Key(e) = Key(d)
        BY <1>1, <4>1 DEF Intruder, OthersMove, Key
      <4>3. req[e] # None /\ req[e].file = a[2]
        BY <3>1, <4>2 DEF Publishing, Key, blobKey, Art
      <4>4. QED BY <2>1, <4>2, <4>3
    <3>6. RowsFor(d) # {}
      BY <3>1, <3>2 DEF RowsFor
    <3>7. QED BY <3>1, <3>3, <3>4, <3>5, <3>6 DEF ProxyInv, NothingYet
  <2>5. QED BY <2>3, <2>4
<1>12. QED BY <1>8, <1>9, <1>10, <1>11

(* A new request takes nothing from the others.                             *)
LEMMA StartInv ==
  ASSUME TypeOK, TypeOK', ProxyInv, NEW d \in Clients, StartDownload(d) \/ ReceiveUpload(d)
  PROVE  ProxyInv'
<1>1. /\ UNCHANGED <<files, blobs, wrote, flight, body, found, blind, status>>
      /\ pc[d] = "idle" /\ req[d] = None
      /\ \/ pc'[d] = "lookup"
         \/ pc'[d] = "getPackage" /\ req'[d].content # None
      /\ \A e \in Clients \ {d} : pc'[e] = pc[e] /\ req'[e] = req[e]
  <2>1. CASE StartDownload(d)
    BY <2>1 DEF StartDownload, Goto, repoVars, TypeOK
  <2>2. CASE ReceiveUpload(d)
    <3>1. PICK a \in Artifacts, c \in Contents :
            Receive(d, [op |-> "put", pkg |-> a[1], file |-> a[2], content |-> c])
      BY <2>2 DEF ReceiveUpload
    <3>2. req'[d].content = c /\ c # None
      BY <3>1, MarksAssumption DEF Receive, TypeOK
    <3>3. QED BY <2>2, <3>1, <3>2 DEF ReceiveUpload, Receive, Goto, repoVars, TypeOK
  <2>3. QED BY <2>1, <2>2
<1>2. \A e \in Clients \ {d} : /\ Key(e)' = Key(e) /\ Art(e)' = Art(e)
                               /\ Publishing(e)' = Publishing(e) /\ RowsFor(e)' = RowsFor(e)
  BY <1>1 DEF Key, Art, blobKey, Publishing, RowsFor
<1>3. wrote[d] = "nothing" /\ d \notin blind /\ body[d] = None /\ found[d] = None /\ Track(d)'
  BY <1>1 DEF ProxyInv, OnTrack, Track
<1>4. \A e \in Clients \ {d} : Excused(e) => Excused(e)'
  <2> SUFFICES ASSUME NEW e \in Clients \ {d}, Excused(e) PROVE Excused(e)'
    OBVIOUS
  <2>1. PICK x \in Clients \ {d} : Intruder(x, Art(e))
    BY <1>3 DEF Excused, Intruder
  <2>2. QED BY <1>1, <1>2, <2>1 DEF Excused, Intruder, blobKey
<1>5. \A e \in Clients \ {d} : Misled(e) => Misled(e)'
  BY <1>1, <1>2 DEF Misled
<1>6. OnTrack'
  <2> SUFFICES ASSUME NEW e \in Clients \ {d} PROVE Track(e)'
    BY <1>3 DEF OnTrack
  <2>1. QED BY <1>1, <1>2 DEF ProxyInv, OnTrack, Track
<1>7. LeadersAlone'
  BY <1>1, <1>2 DEF ProxyInv, LeadersAlone, Inside, FlightPcs
<1>8. NothingYet'
  <2> SUFFICES ASSUME NEW e \in Clients, pc'[e] \in {"fetch", "stream", "createRow"},
                      RowsFor(e)' # {}
               PROVE  e \in blind' \/ Excused(e)'
    BY DEF NothingYet
  <2>1. e # d
    BY <1>1
  <2>2. QED BY <1>1, <1>2, <1>4, <2>1 DEF ProxyInv, NothingYet
<1>9. RowsWait'
  <2> SUFFICES ASSUME NEW e \in Clients, pc'[e] = "reserve" PROVE RowsFor(e)' # {} \/ Misled(e)'
    BY DEF RowsWait
  <2>1. e # d
    BY <1>1
  <2>2. QED BY <1>1, <1>2, <1>5, <2>1 DEF ProxyInv, RowsWait
<1>10. Pending'
  <2> SUFFICES ASSUME NEW e \in Clients, pc'[e] = "createRow"
               PROVE  \/ blobs'[Key(e)'] = req'[e].content \/ wrote'[e] = "lost" \/ Excused(e)'
    BY DEF Pending
  <2>1. e # d
    BY <1>1
  <2>2. QED BY <1>1, <1>2, <1>4, <2>1 DEF ProxyInv, Pending
<1>11. RowsAreIntact'
  <2> SUFFICES ASSUME NEW a \in Artifacts, NEW k, k = blobKey(a),
                      files[a] # None, blobs[k] # files[a]
               PROVE  \E e \in Clients : \/ Intruder(e, a)'
                                         \/ /\ e \in blind \/ wrote[e] = "lost"
                                            /\ wrote[e] # "nothing" /\ Key(e)' = k
    BY <1>1 DEF RowsAreIntact, blobKey
  <2>1. PICK e \in Clients : \/ Intruder(e, a)
                             \/ /\ e \in blind \/ wrote[e] = "lost"
                                /\ wrote[e] # "nothing" /\ Key(e) = k
    BY DEF ProxyInv, RowsAreIntact
  <2>2. e # d
    BY <1>3, <2>1 DEF Intruder
  <2>3. Intruder(e, a) => Intruder(e, a)'
    BY <1>1, <1>2, <2>2 DEF Intruder, blobKey
  <2>4. QED BY <1>2, <2>1, <2>2, <2>3
<1>12. OneRowPerName'
  <2> SUFFICES ASSUME Protocol # "go", NEW a \in Artifacts, NEW b \in Artifacts,
                      files[a] # None, files[b] # None, a[2] = b[2], a # b
               PROVE  \E e \in Clients :
                         /\ req'[e] # None /\ req'[e].file = a[2]
                         /\ e \in blind \/ (Publishing(e)' /\ wrote[e] # "nothing")
    BY <1>1 DEF OneRowPerName
  <2>1. PICK e \in Clients : /\ req[e] # None /\ req[e].file = a[2]
                             /\ e \in blind \/ (Publishing(e) /\ wrote[e] # "nothing")
    BY DEF ProxyInv, OneRowPerName
  <2>2. QED BY <1>1, <1>2, <1>3, <2>1
<1>13. NoNilRow'
  <2> SUFFICES ASSUME NEW e \in Clients, status[e] = "panic" PROVE Misled(e)'
    BY <1>1 DEF NoNilRow, Misled
  <2>1. e # d
    BY <1>1 DEF TypeOK
  <2>2. QED BY <1>5, <2>1 DEF ProxyInv, NoNilRow, Misled
<1>14. QED BY <1>6, <1>7, <1>8, <1>9, <1>10, <1>11, <1>12, <1>13 DEF ProxyInv

LEMMA CrashInv ==
  ASSUME TypeOK, TypeOK', ProxyInv, Crash
  PROVE  ProxyInv'
<1>1. /\ UNCHANGED <<files, blobs, req, wrote, body, found, blind>>
      /\ \A e \in Clients : /\ pc'[e] \in {"idle", "done"}
                            /\ pc'[e] = "idle" => pc[e] = "idle"
                            /\ status'[e] = status[e] \/ status'[e] = "crashed"
  BY DEF Crash, CrashUploads, InFlight, repoVars, TypeOK, Clients
<1>2. \A e \in Clients : /\ Key(e)' = Key(e) /\ Art(e)' = Art(e)
                         /\ Publishing(e)' = Publishing(e)
  BY <1>1, SameKeys DEF Publishing
<1>3. LeadersAlone' /\ NothingYet' /\ Pending' /\ RowsWait'
  BY <1>1 DEF LeadersAlone, Inside, FlightPcs, NothingYet, Pending, RowsWait
<1>4. OnTrack'
  BY <1>1 DEF ProxyInv, OnTrack, Track
<1>5. NoNilRow'
  BY <1>1, <1>2 DEF ProxyInv, NoNilRow
<1>6. RowsAreIntact'
  BY <1>1, <1>2 DEF ProxyInv, RowsAreIntact, Intruder, blobKey
<1>7. OneRowPerName'
  BY <1>1, <1>2 DEF ProxyInv, OneRowPerName
<1>8. QED BY <1>3, <1>4, <1>5, <1>6, <1>7 DEF ProxyInv

LEMMA StutterInv ==
  ASSUME TypeOK, ProxyInv, UNCHANGED vars
  PROVE  TypeOK' /\ ProxyInv'
<1>1. \A e \in Clients : /\ Key(e)' = Key(e) /\ Art(e)' = Art(e)
                         /\ Publishing(e)' = Publishing(e) /\ RowsFor(e)' = RowsFor(e)
  BY SameKeys DEF vars, uploadVars, repoVars, Publishing, RowsFor
<1>2. TypeOK'
  BY <1>1 DEF TypeOK, vars, repoVars, uploadVars
<1>3. (\A e \in Clients : Excused(e) => Excused(e)') /\ (\A e \in Clients : Misled(e) => Misled(e)')
  BY <1>1 DEF Excused, Intruder, Misled, blobKey, vars, uploadVars
<1>4. LeadersAlone' /\ OnTrack'
  BY <1>1 DEF ProxyInv, LeadersAlone, Inside, FlightPcs, OnTrack, Track, vars, repoVars,
              uploadVars
<1>5. NothingYet' /\ Pending' /\ RowsWait'
  BY <1>1, <1>3 DEF ProxyInv, NothingYet, Pending, RowsWait, vars, repoVars, uploadVars
<1>6. RowsAreIntact'
  BY <1>1 DEF ProxyInv, RowsAreIntact, Intruder, blobKey, vars, repoVars, uploadVars
<1>7. OneRowPerName' /\ NoNilRow'
  BY <1>1 DEF ProxyInv, OneRowPerName, NoNilRow, vars, repoVars, uploadVars
<1>8. QED BY <1>2, <1>4, <1>5, <1>6, <1>7 DEF ProxyInv

(* Every reachable state of a proxy repository is well typed, its flights   *)
(* have one leader each, and what a leader is about to record is stored     *)
(* and was not recorded before, unless by a writer outside of its flight    *)
(* (proxyDownload, StreamAndSave; handleUpload of npm and PyPI).            *)
THEOREM ProxyInvariant == Spec => [](TypeOK /\ ProxyInv)
<1>1. Init => TypeOK /\ ProxyInv
  <2> SUFFICES ASSUME Init PROVE TypeOK /\ ProxyInv
    OBVIOUS
  <2>1. TypeOK
    BY NoneAssumption DEF Init, TypeOK, Pcs, FlightPcs, Statuses, WriteKinds
  <2>2. ProxyInv
    BY DEF Init, ProxyInv, LeadersAlone, Inside, FlightPcs, OnTrack, Track, NothingYet,
           Pending, RowsWait, RowsAreIntact, OneRowPerName, NoNilRow
  <2>3. QED BY <2>1, <2>2
<1>2. TypeOK /\ ProxyInv /\ [Next]_vars => (TypeOK /\ ProxyInv)'
  <2> SUFFICES ASSUME TypeOK, ProxyInv, [Next]_vars PROVE TypeOK' /\ ProxyInv'
    OBVIOUS
  <2>1. ASSUME NEW d \in Clients, StartDownload(d) \/ ReceiveUpload(d)
        PROVE  TypeOK' /\ ProxyInv'
    BY <2>1, StartTypeOK, StartInv
  <2>2. ASSUME NEW d \in Clients, HandlerStep(d) PROVE TypeOK' /\ ProxyInv'
    <3>1. TypeOK'
      BY <2>2, HandlerTypeOK DEF ProxyInv
    <3>2. QED BY <2>2, <3>1, ControlInv, StoresInv DEF ProxyInv
  <2>3. CASE Crash
    BY <2>3, CrashTypeOK, CrashInv
  <2>4. CASE UNCHANGED vars
    BY <2>4, StutterInv
  <2>5. QED BY <2>1, <2>2, <2>3, <2>4 DEF Next, AllAnswered
<1>3. QED BY <1>1, <1>2, PTL DEF Spec

-------------------------------------------------------------------------------
(* What it gives                                                            *)

(* Types are kept, a flight is led from within, a waiter has one to wait    *)
(* for (handleDownload, proxyDownload and handleUpload).                    *)
THEOREM ProxyTypeCorrect == Spec => []TypeOK
BY ProxyInvariant, PTL

(* Nothing overwrites the blob of a row, unless a database error made a     *)
(* leader blind, storage.Put hid a failed commit, or the write came from    *)
(* outside of the flights for that file: an upload, or a Go download of     *)
(* another version with the same key.                                       *)
THEOREM ProxyRowsAreIntact == Spec => []RowsAreIntact
<1>1. ProxyInv => RowsAreIntact
  BY DEF ProxyInv
<1>2. QED BY <1>1, ProxyInvariant, PTL

(* npm and PyPI never record one file name under two packages, unless a     *)
(* look-up inside a flight failed or a file of that name was uploaded.      *)
THEOREM ProxyOneRowPerName == Spec => []OneRowPerName
<1>1. ProxyInv => OneRowPerName
  BY DEF ProxyInv
<1>2. QED BY <1>1, ProxyInvariant, PTL

(* Whoever goes back to storage after a flight finds a row, for npm and     *)
(* PyPI always, for Go unless another version has the same key: only there  *)
(* is the missing nil check needed.                                         *)
THEOREM ProxyNoNilRow == Spec => []NoNilRow
<1>1. ProxyInv => NoNilRow
  BY DEF ProxyInv
<1>2. QED BY <1>1, ProxyInvariant, PTL

-------------------------------------------------------------------------------
(* When only the upstream can fail                                          *)

Benign == Faults \subseteq {"upstream"}

(* Nobody is blind and no commit is lost.                                   *)
NothingHidden == Benign => blind = {} /\ \A d \in Clients : wrote[d] # "lost"

(* The body of d is what a row of its file records, unless it broke off     *)
(* while it was streamed or somebody else wrote the blob.                   *)
Received(d) ==
    \/ \E a \in RowsFor(d) : body[d] = files[a]
    \/ body[d] = Torn /\ found[d] = None
    \/ Excused(d)

(* What a step that answers d with a body has given to it.                  *)
LEMMA OwnAnswer ==
  ASSUME TypeOK, ProxyInv, Benign, NothingHidden, NEW d \in Clients, HandlerStep(d),
         status'[d] = "ok", body'[d] # None, status[d] # "ok"
  PROVE  Received(d)'
<1>1. ~(LookupRow(d) \/ ReserveRow(d) \/ GetOrCreatePackage(d) \/ JoinFlight(d)
        \/ CheckExisting(d) \/ PutBlob(d) \/ InsertRow(d) \/ Rollback(d))
  BY DEF LookupRow, ReserveRow, GetOrCreatePackage, GetPackage, CreatePackage, RegetPackage,
         JoinFlight, CheckExisting, PutBlob, InsertRow, Rollback, GivesUp, Goto, Answer, TypeOK
<1>2. ASSUME NEW p, Goto(d, p) PROVE FALSE
  BY <1>2 DEF Goto
<1>3. "put" \notin Faults /\ "db" \notin Faults /\ "dbLost" \notin Faults
  BY DEF Benign
<1>4. /\ Track(d) /\ \A a \in Artifacts : blobKey(a) \in Keys
      /\ req' = req /\ Art(d) \in Artifacts /\ Art(d)' = Art(d)
      /\ Excused(d) => Excused(d)'
  BY KeysOfArtifacts, HandlerRequests, ExcusesStay DEF ProxyInv, OnTrack
<1>5. CASE OpenBlob(d)
  <2>1. PICK a \in Artifacts : a = found[d]
    BY <1>5 DEF OpenBlob, TypeOK
  <2>2. a \in RowsFor(d) /\ body'[d] = blobs[blobKey(a)] /\ files' = files
    BY <1>4, <1>5, <2>1 DEF OpenBlob, Answer, Track, TypeOK, repoVars
  <2>3. a \in RowsFor(d)' /\ files[a] # None
    BY <1>4, <2>2 DEF RowsFor
  <2>4. CASE blobs[blobKey(a)] = files[a]
    BY <2>2, <2>3, <2>4 DEF Received
  <2>5. CASE blobs[blobKey(a)] # files[a]
    <3>1. PICK e \in Clients : Intruder(e, a)
      BY <2>3, <2>5 DEF ProxyInv, RowsAreIntact, NothingHidden
    <3>2. blobKey(a) = blobKey(Art(d)) /\ (Protocol = "go" => a = Art(d))
      BY <1>4, <2>2 DEF RowsFor, blobKey, Art
    <3>3. Intruder(e, Art(d))
      BY <3>1, <3>2 DEF Intruder
    <3>4. QED BY <1>4, <3>3 DEF Excused, Received
  <2>6. QED BY <2>4, <2>5
<1>6. ~Recheck(d)
  <2>1. SUFFICES ASSUME Recheck(d), FlightLands(d) PROVE FALSE
    BY <1>2 DEF Recheck
  <2>2. body[d] = None /\ body' = body
    BY <1>4, <2>1 DEF Recheck, Track, FlightLands
  <2>3. QED BY <2>2
<1>7. ASSUME NEW got, FlightFails(d, got)
      PROVE  body'[d] = got \/ body'[d] = Torn
  BY <1>7 DEF FlightFails, TypeOK
<1>8. ~Fetch(d)
  <2>1. SUFFICES ASSUME FlightFails(d, None) PROVE FALSE
    BY <1>2 DEF Fetch
  <2>2. body'[d] = None
    BY <2>1 DEF FlightFails, TypeOK
  <2>3. QED BY <2>2
<1>9. CASE Stream(d)
  <2>1. PICK got \in {None, Torn} : FlightFails(d, got)
    BY <1>2, <1>3, <1>9 DEF Stream, PutFails
  <2>2. body'[d] = Torn /\ found'[d] = None
    BY <1>4, <1>7, <1>9, <2>1 DEF Stream, Track
  <2>3. QED BY <2>2 DEF Received
<1>10. CASE SaveRow(d)
  <2>1. body[d] = req[d].content /\ req[d].content # None
    BY <1>4, <1>10 DEF SaveRow, Track
  <2>2. CASE InsertOk(Art(d), req[d].content) /\ FlightLands(d)
    <3>1. body' = body /\ files'[Art(d)] = req[d].content
      BY <1>4, <2>2 DEF FlightLands, InsertOk, TypeOK
    <3>2. Art(d) \in RowsFor(d)'
      BY <1>4, <2>1, <3>1 DEF RowsFor, Art
    <3>3. QED BY <2>1, <3>1, <3>2 DEF Received
  <2>3. CASE InsertFails(Art(d), req[d].content)
    <3>1. Art(d) \in RowsFor(d)
      BY <1>3, <1>4, <2>3 DEF InsertFails, RowsFor, Art
    <3>2. Excused(d)
      BY <1>10, <3>1 DEF SaveRow, ProxyInv, NothingYet, NothingHidden
    <3>3. QED BY <1>4, <3>2 DEF Received
  <2>4. QED BY <1>10, <2>2, <2>3 DEF SaveRow
<1>11. QED BY <1>1, <1>5, <1>6, <1>8, <1>9, <1>10 DEF HandlerStep

(* When only the upstream can fail, all who receive a file whole receive    *)
(* what is recorded, whatever the upstream holds each time it is asked and  *)
(* wherever it breaks off.                                                  *)
THEOREM ProxyAllReceiveTheSame == Spec => []AllReceiveTheSame
<1>1. Init => NothingHidden /\ AllReceiveTheSame
  BY DEF Init, NothingHidden, AllReceiveTheSame
<1>2. /\ TypeOK /\ ProxyInv /\ TypeOK' /\ NothingHidden /\ AllReceiveTheSame /\ [Next]_vars
      => NothingHidden' /\ AllReceiveTheSame'
  <2> SUFFICES ASSUME TypeOK, ProxyInv, TypeOK', NothingHidden, AllReceiveTheSame, [Next]_vars,
                      Benign
               PROVE  /\ NothingHidden'
                      /\ \A e \in Clients :
                            status'[e] = "ok" /\ body'[e] # None => Received(e)'
    BY DEF NothingHidden, AllReceiveTheSame, Benign, Received, Excused
  <2>1. \A e \in Clients : status[e] = "ok" /\ body[e] # None => Received(e)
    BY DEF AllReceiveTheSame, Benign, Received, Excused
  <2>2. CASE UNCHANGED vars
    <3>1. \A e \in Clients : Received(e) => Received(e)'
      BY <2>2, SameKeys DEF vars, uploadVars, repoVars, Received, RowsFor, Excused, Intruder,
                            Publishing, blobKey
    <3>2. QED BY <2>1, <2>2, <3>1 DEF vars, uploadVars, NothingHidden
  <2>3. ~Crash
    BY DEF Crash, Benign
  <2>4. ASSUME NEW d \in Clients, StartDownload(d) \/ ReceiveUpload(d)
        PROVE  /\ NothingHidden'
               /\ \A e \in Clients : status'[e] = "ok" /\ body'[e] # None => Received(e)'
    <3>1. /\ UNCHANGED <<files, wrote, status, body, found, blind>> /\ status[d] = "none"
          /\ wrote[d] = "nothing" /\ \A e \in Clients \ {d} : req'[e] = req[e]
      BY <2>4 DEF StartDownload, ReceiveUpload, Receive, Goto, repoVars, TypeOK, ProxyInv,
                  OnTrack, Track
    <3>2. \A e \in Clients \ {d} : /\ Key(e)' = Key(e) /\ Art(e)' = Art(e)
                                   /\ Publishing(e)' = Publishing(e) /\ RowsFor(e)' = RowsFor(e)
      BY <3>1 DEF Key, Art, blobKey, Publishing, RowsFor
    <3>3. ASSUME NEW e \in Clients \ {d}, Excused(e) PROVE Excused(e)'
      <4>1. PICK x \in Clients \ {d} : Intruder(x, Art(e))
        BY <3>1, <3>3 DEF Excused, Intruder
      <4>2. QED BY <3>1, <3>2, <4>1 DEF Excused, Intruder, blobKey
    <3>4. QED BY <2>1, <3>1, <3>2, <3>3 DEF NothingHidden, Received
  <2>5. ASSUME NEW d \in Clients, HandlerStep(d)
        PROVE  /\ NothingHidden'
               /\ \A e \in Clients : status'[e] = "ok" /\ body'[e] # None => Received(e)'
    <3>1. /\ OthersMove(d) /\ StoresMove(d) /\ req' = req
          /\ \A e \in Clients : Key(e)' = Key(e) /\ Art(e)' = Art(e)
      BY <2>5, LeaderMoves, HandlerRequests
    <3>2. NothingHidden'
      <4>1. wrote'[d] # "lost" /\ blind' = {}
        BY <2>5 DEF HandlerStep, LookupRow, GetOrCreatePackage, GetPackage, CreatePackage,
           RegetPackage, JoinFlight, Recheck, Fetch, Stream, SaveRow, ReserveRow, OpenBlob,
           CheckExisting, PutBlob, InsertRow, Rollback,
           PutOk, PutFails, PutBreaks, Benign, NothingHidden, TypeOK
      <4>2. QED BY <3>1, <4>1 DEF NothingHidden, OthersMove
    <3>3. \A e \in Clients : Excused(e) => Excused(e)'
      BY <2>5, ExcusesStay
    <3>4. ASSUME NEW e \in Clients, status'[e] = "ok", body'[e] # None
          PROVE  Received(e)'
      <4>1. CASE e = d /\ status[d] # "ok"
        BY <2>5, <3>4, <4>1, OwnAnswer
      <4>2. ~(e = d /\ status[d] = "ok")
        BY <2>5 DEF HandlerStep, LookupRow, GetOrCreatePackage, GetPackage, CreatePackage,
           RegetPackage, JoinFlight, Recheck, Fetch, Stream, SaveRow, ReserveRow, OpenBlob,
           CheckExisting, PutBlob, InsertRow, Rollback, TypeOK
      <4>3. CASE e # d
        <5>1. status[e] = "ok" /\ body'[e] = body[e] /\ found'[e] = found[e]
          BY <3>1, <3>4, <4>3 DEF OthersMove, ProxyInv, OnTrack, Track
        <5>2. \A a \in RowsFor(e) : a \in RowsFor(e)' /\ files'[a] = files[a]
          BY <3>1 DEF StoresMove, RowsFor
        <5>3. QED BY <2>1, <3>3, <3>4, <5>1, <5>2 DEF Received
      <4>4. QED BY <4>1, <4>2, <4>3
    <3>5. QED BY <3>2, <3>4
  <2>6. QED BY <2>2, <2>3, <2>4, <2>5 DEF Next, AllAnswered
<1>3. QED BY <1>1, <1>2, ProxyInvariant, PTL DEF Spec

===============================================================================
