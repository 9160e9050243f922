----------------------------- MODULE ProxyDownload -----------------------------
(***************************************************************************)
(* A proxy repository: the handleDownload and proxyDownload of             *)
(* internal/registry/pypi, npm and golang over StreamAndSave of            *)
(* internal/proxy.  A file that has no row is fetched from upstream by one *)
(* leader for each blob key (singleflight); the leader's client receives   *)
(* the bytes while they are stored, the waiters are served from storage    *)
(* when it is done.  The flights live in the server's memory.              *)
(*                                                                         *)
(* Only Go refuses uploads into a proxy repository.  npm and PyPI store    *)
(* them as in a hosted one (NpmPublish, HostedUpload), outside of any      *)
(* flight; a publish of several attachments is here several uploads.       *)
(*                                                                         *)
(* A client that goes away cancels the context of its own request: for a   *)
(* leader that is a failing fetch ("upstream") or a failing write ("put"). *)
(***************************************************************************)
EXTENDS ArtifactRepo

CONSTANT Protocol  \* whose handlers these are

ASSUME ProtocolAssumption == Protocol \in {"go", "npm", "pypi"}

VARIABLES
    flight,  \* blob key -> the download that leads its flight, or None
    body,    \* download -> what its client has received: None, Torn or all of it
    found,   \* download -> the artifact whose row it serves, or None
    blind    \* history: downloads whose look-up inside the flight failed

(* Here every request may store a file, the downloads too.                  *)
Clients == Uploads

vars == <<repoVars, uploadVars, flight, body, found, blind>>

(* Go keys name the module; npm and PyPI keys are file names only.          *)
blobKey(a) == IF Protocol = "go" THEN goBlobKey(a) ELSE a[2]

Keys == {blobKey(a) : a \in Artifacts}

(* The file that is asked for, and what the upstream named for it holds; or *)
(* the file that is uploaded, and its content.                              *)
Requests == [op : {"get", "put"}, pkg : Packages, file : Filenames,
             content : Contents \cup {None}]

ASSUME NoneAssumption ==
    None \notin Requests /\ None \notin Artifacts /\ None \notin Clients

Art(d) == <<req[d].pkg, req[d].file>>

Key(d) == blobKey(Art(d))

Publishing(d) == req[d] # None /\ req[d].op = "put"

(* Go looks up the package and then its file; npm and PyPI take any file of *)
(* the repository with that name.                                           *)
RowsFor(d) ==
    {a \in Artifacts : /\ files[a] # None
                       /\ IF Protocol = "go" THEN a = Art(d) ELSE a[2] = req[d].file}

Init ==
    /\ packages = {}
    /\ files = [a \in Artifacts |-> None]
    /\ blobs = [k \in Keys |-> None]
    /\ req = [d \in Clients |-> None]
    /\ pc = [d \in Clients |-> "idle"]
    /\ status = [d \in Clients |-> "none"]
    /\ wrote = [d \in Clients |-> "nothing"]
    /\ flight = [k \in Keys |-> None]
    /\ body = [d \in Clients |-> None]
    /\ found = [d \in Clients |-> None]
    /\ blind = {}

-------------------------------------------------------------------------------
(* handleDownload, and the head of handleUpload                             *)

(* content is what the upstream the client named holds, None if it named    *)
(* none; a Go client names none, its upstream is the repository's.          *)
StartDownload(d) ==
    /\ pc[d] = "idle"
    /\ \E a \in Artifacts, c \in Contents \cup (IF Protocol = "go" THEN {} ELSE {None}) :
          req' = [req EXCEPT ![d] = [op |-> "get", pkg |-> a[1], file |-> a[2], content |-> c]]
    /\ Goto(d, "lookup")
    /\ UNCHANGED <<repoVars, wrote, flight, body, found, blind>>

(* npm and PyPI: a well-formed upload into the proxy repository.            *)
ReceiveUpload(d) ==
    /\ Protocol # "go"
    /\ \E a \in Artifacts, c \in Contents :
          Receive(d, [op |-> "put", pkg |-> a[1], file |-> a[2], content |-> c])
    /\ UNCHANGED <<flight, body, found, blind>>

LookupRow(d) ==
    /\ pc[d] = "lookup"
    /\ \/ \E a \in RowsFor(d) : found' = [found EXCEPT ![d] = a] /\ Goto(d, "open")
       \/ /\ RowsFor(d) = {}
          /\ IF req[d].content = None THEN Answer(d, "badRequest") ELSE Goto(d, "getPackage")
          /\ UNCHANGED found
       \/ "db" \in Faults /\ Answer(d, "error") /\ UNCHANGED found
    /\ UNCHANGED <<repoVars, req, wrote, flight, body, blind>>

WithPackage(d) ==
    IF ~Publishing(d) THEN "join" ELSE IF Protocol = "pypi" THEN "check" ELSE "put"

GetOrCreatePackage(d) ==
    /\ \/ GetPackage(d, WithPackage(d))
       \/ CreatePackage(d, WithPackage(d))
       \/ RegetPackage(d, WithPackage(d))
    /\ UNCHANGED <<flight, body, found, blind>>

-------------------------------------------------------------------------------
(* handleUpload of npm and PyPI                                             *)

(* PyPI refuses a file that its own package has; npm never looks.           *)
CheckExisting(d) ==
    /\ pc[d] = "check"
    /\ \/ files[Art(d)] = None /\ Goto(d, "put")
       \/ files[Art(d)] # None /\ Answer(d, "conflict")
       \/ "db" \in Faults /\ Answer(d, "error")
    /\ UNCHANGED <<repoVars, req, wrote, flight, body, found, blind>>

(* npm skips an attachment that it cannot store, and answers 201.           *)
GivesUp(d) == Answer(d, IF Protocol = "npm" THEN "created" ELSE "error")

PutBlob(d) ==
    /\ pc[d] = "put"
    /\ \/ PutOk(d, Key(d), req[d].content) /\ Goto(d, "insert")
       \/ PutFails(d, Key(d)) /\ GivesUp(d)
    /\ UNCHANGED <<packages, files, req, flight, body, found, blind>>

(* PyPI takes the blob back when the row cannot be inserted.                *)
InsertRow(d) ==
    /\ pc[d] = "insert"
    /\ \/ InsertOk(Art(d), req[d].content) /\ Answer(d, "created")
       \/ /\ InsertFails(Art(d), req[d].content)
          /\ IF Protocol = "npm" THEN GivesUp(d) ELSE Goto(d, "rollback")
    /\ UNCHANGED <<packages, blobs, req, wrote, flight, body, found, blind>>

Rollback(d) ==
    /\ pc[d] = "rollback"
    /\ DeleteBlob(Key(d))
    /\ GivesUp(d)
    /\ UNCHANGED <<packages, files, req, wrote, flight, body, found, blind>>

-------------------------------------------------------------------------------
(* proxyDownload: downloadSF.Do                                             *)

(* Mutant: every download fetches for itself.                               *)
JoinAlone(d) ==
    /\ pc[d] = "join"
    /\ Goto(d, "recheck")
    /\ UNCHANGED <<repoVars, req, wrote, flight, body, found, blind>>

JoinFlight(d) ==
    /\ pc[d] = "join"
    /\ \/ /\ flight[Key(d)] = None
          /\ flight' = [flight EXCEPT ![Key(d)] = d]
          /\ Goto(d, "recheck")
       \/ /\ flight[Key(d)] # None
          /\ Goto(d, "waiting")
          /\ UNCHANGED flight
    /\ UNCHANGED <<repoVars, req, wrote, body, found, blind>>

Waiters(d) == {w \in Clients : pc[w] = "waiting" /\ Key(w) = Key(d)}

(* Mutant: the waiters do not look at the error of their flight.            *)
FlightFailsUnnoticed(d, got) ==
    /\ flight' = [flight EXCEPT ![Key(d)] = None]
    /\ body' = [body EXCEPT ![d] = got]
    /\ pc' = [w \in Clients |-> IF w \in Waiters(d) THEN "reserve"
                               ELSE IF w = d THEN "done" ELSE pc[w]]
    /\ status' = [status EXCEPT ![d] = "ok"]

(* Mutant: a failed flight is forgotten without telling its waiters.        *)
FlightFailsSilently(d, got) ==
    /\ flight' = [flight EXCEPT ![Key(d)] = None]
    /\ body' = [body EXCEPT ![d] = got]
    /\ Answer(d, "ok")

(* The flight fails: its leader and all its waiters return at once.  npm    *)
(* and PyPI write nothing more, which is an empty 200 to those who received *)
(* nothing; Go writes its 404, into the body if that has begun.             *)
FlightFails(d, got) ==
    LET failed == Waiters(d) \cup {d} IN
    /\ flight' = [flight EXCEPT ![Key(d)] = None]
    /\ pc' = [w \in Clients |-> IF w \in failed THEN "done" ELSE pc[w]]
    /\ IF Protocol = "go"
       THEN /\ body' = [body EXCEPT ![d] = IF got = None THEN None ELSE Torn]
            /\ status' = [w \in Clients |->
                             IF w \notin failed THEN status[w]
                             ELSE IF w = d /\ got # None THEN "ok" ELSE "notFound"]
       ELSE /\ body' = [body EXCEPT ![d] = got]
            /\ status' = [w \in Clients |-> IF w \in failed THEN "ok" ELSE status[w]]

(* The flight succeeds: its waiters go on to serve the file from storage,   *)
(* and so does a leader that has streamed nothing.                          *)
FlightLands(d) ==
    LET serve == Waiters(d) \cup (IF body[d] = None THEN {d} ELSE {}) IN
    /\ flight' = [flight EXCEPT ![Key(d)] = None]
    /\ pc' = [w \in Clients |-> IF w \in serve THEN "reserve"
                                  ELSE IF w = d THEN "done" ELSE pc[w]]
    /\ status' = [w \in Clients |-> IF w = d /\ d \notin serve THEN "ok" ELSE status[w]]
    /\ UNCHANGED body

(* Mutant: the leader does not look again inside the flight.                *)
RecheckSkipped(d) ==
    /\ pc[d] = "recheck"
    /\ Goto(d, "fetch")
    /\ UNCHANGED <<repoVars, req, wrote, flight, body, found, blind>>

(* Only a row that is found ends the flight here: an error does not.        *)
Recheck(d) ==
    /\ pc[d] = "recheck"
    /\ \/ RowsFor(d) # {} /\ FlightLands(d) /\ UNCHANGED blind
       \/ RowsFor(d) = {} /\ Goto(d, "fetch") /\ UNCHANGED <<flight, body, blind>>
       \/ /\ "db" \in Faults
          /\ blind' = blind \cup {d}
          /\ Goto(d, "fetch") /\ UNCHANGED <<flight, body>>
    /\ UNCHANGED <<repoVars, req, wrote, found>>

(* StreamAndSave up to the response header of the upstream.                 *)
Fetch(d) ==
    /\ pc[d] = "fetch"
    /\ \/ Goto(d, "stream") /\ UNCHANGED <<flight, body>>
       \/ "upstream" \in Faults /\ FlightFails(d, None)
    /\ UNCHANGED <<repoVars, req, wrote, found, blind>>

(* saveProxiedFile: storage.Put reads from upstream what the client gets.   *)
(* The bucket or the client fails at any point; the upstream before its     *)
(* last byte.                                                               *)
Stream(d) ==
    /\ pc[d] = "stream"
    /\ \/ /\ PutOk(d, Key(d), req[d].content)
          /\ body' = [body EXCEPT ![d] = req[d].content]
          /\ Goto(d, "createRow") /\ UNCHANGED flight
       \/ /\ PutFails(d, Key(d))
          /\ \E got \in {None, Torn, req[d].content} : FlightFails(d, got)
       \/ /\ "upstream" \in Faults /\ PutBreaks(d, Key(d))
          /\ \E got \in {None, Torn} : FlightFails(d, got)
    /\ UNCHANGED <<packages, files, req, found, blind>>

(* Mutant: an error of the insert is dropped.                               *)
SaveRowUnchecked(d) ==
    /\ pc[d] = "createRow"
    /\ InsertOk(Art(d), req[d].content) \/ InsertFails(Art(d), req[d].content)
    /\ FlightLands(d)
    /\ UNCHANGED <<packages, blobs, req, wrote, found, blind>>

SaveRow(d) ==
    /\ pc[d] = "createRow"
    /\ \/ InsertOk(Art(d), req[d].content) /\ FlightLands(d)
       \/ InsertFails(Art(d), req[d].content) /\ FlightFails(d, body[d])
    /\ UNCHANGED <<packages, blobs, req, wrote, found, blind>>

(* After the flight: a missing row here is a nil dereference, which the     *)
(* router's Recoverer turns into a 500.                                     *)
ReserveRow(d) ==
    /\ pc[d] = "reserve"
    /\ \/ \E a \in RowsFor(d) : found' = [found EXCEPT ![d] = a] /\ Goto(d, "open")
       \/ RowsFor(d) = {} /\ Answer(d, "panic") /\ UNCHANGED found
       \/ "db" \in Faults /\ Answer(d, "error") /\ UNCHANGED found
    /\ UNCHANGED <<repoVars, req, wrote, flight, body, blind>>

(* serveFileFromStorage                                                     *)
OpenBlob(d) ==
    LET stored == blobs[blobKey(found[d])]
    IN  /\ pc[d] = "open"
        /\ \/ stored # None /\ Answer(d, "ok") /\ body' = [body EXCEPT ![d] = stored]
           \/ /\ stored = None \/ "get" \in Faults
              /\ Answer(d, "error") /\ UNCHANGED body
        /\ UNCHANGED <<repoVars, req, wrote, flight, found, blind>>

-------------------------------------------------------------------------------

Crash ==
    /\ "crash" \in Faults
    /\ CrashUploads
    /\ flight' = [k \in Keys |-> None]
    /\ UNCHANGED <<body, found, blind>>

HandlerStep(d) ==
    \/ LookupRow(d) \/ GetOrCreatePackage(d) \/ JoinFlight(d) \/ Recheck(d)
    \/ Fetch(d) \/ Stream(d) \/ SaveRow(d) \/ ReserveRow(d) \/ OpenBlob(d)
    \/ CheckExisting(d) \/ PutBlob(d) \/ InsertRow(d) \/ Rollback(d)

AllAnswered == (\A d \in Clients : pc[d] = "done") /\ UNCHANGED vars

Next ==
    \/ \E d \in Clients : StartDownload(d) \/ ReceiveUpload(d) \/ HandlerStep(d)
    \/ Crash
    \/ AllAnswered

Spec == Init /\ [][Next]_vars

(* The goroutine of each request keeps running, and an upstream that was    *)
(* asked answers or fails some day: the client has no timeout of its own.   *)
Fairness == \A d \in Clients : WF_vars(HandlerStep(d))

FairSpec == Spec /\ Fairness

-------------------------------------------------------------------------------
(* Properties                                                               *)

FlightPcs == {"recheck", "fetch", "stream", "createRow"}

Pcs == {"idle", "lookup", "getPackage", "createPackage", "regetPackage", "join", "waiting",
        "reserve", "open", "check", "put", "insert", "rollback", "done"} \cup FlightPcs

Statuses == {"none", "ok", "badRequest", "notFound", "error", "panic", "created", "conflict",
             "crashed"}

(* Every variable has its type; a flight is led by a download that is       *)
(* inside it, and a waiter has a flight to wait for.                        *)
TypeOK ==
    /\ packages \subseteq Packages
    /\ files \in [Artifacts -> Contents \cup {None}]
    /\ blobs \in [Keys -> Contents \cup {None, Torn}]
    /\ req \in [Clients -> Requests \cup {None}]
    /\ wrote \in [Clients -> WriteKinds]
    /\ flight \in [Keys -> Clients \cup {None}]
    /\ blind \subseteq Clients
    /\ pc \in [Clients -> Pcs]
    /\ status \in [Clients -> Statuses]
    /\ body \in [Clients -> Contents \cup {None, Torn}]
    /\ found \in [Clients -> Artifacts \cup {None}]
    /\ \A k \in Keys, d \in Clients : flight[k] = d =>
          Key(d) = k /\ pc[d] \in FlightPcs
    /\ \A d \in Clients :
          /\ pc[d] = "waiting" => flight[Key(d)] # None
          /\ pc[d] = "open" => found[d] # None
          /\ req[d] # None <=> pc[d] # "idle"
          /\ req[d] # None => Art(d) \in Artifacts
          /\ status[d] # "none" <=> pc[d] = "done"

(* d wrote the blob of a past the flights for a: it is an upload, or a Go   *)
(* download of another version whose slashes lead to the same key.          *)
Intruder(d, a) ==
    /\ wrote[d] # "nothing"
    /\ Key(d) = blobKey(a)
    /\ Publishing(d) \/ (Protocol = "go" /\ Art(d) # a)

(* A proxied file that has a row is intact: leaders of a key never overlap  *)
(* and look again before they store, so they do not overwrite a blob that   *)
(* has a row, not even when fetches fail half-way, clients name different   *)
(* upstreams or packages, or the server dies.  It takes a database error    *)
(* inside a flight, a commit error that storage.Put hid, or a request that  *)
(* writes the same key outside of the file's flights.                       *)
RowsAreIntact ==
    \A a \in Artifacts :
        files[a] # None /\ blobs[blobKey(a)] # files[a] =>
            \E d \in Clients :
                \/ Intruder(d, a)
                \/ /\ d \in blind \/ wrote[d] = "lost"
                   /\ wrote[d] # "nothing"
                   /\ Key(d) = blobKey(a)

(* npm and PyPI find a file by its name alone.  Downloads never give one    *)
(* name rows under two packages, whatever packages the clients name, unless *)
(* a look-up inside a flight failed.  An upload under that name may.        *)
OneRowPerName ==
    Protocol # "go" =>
        \A a, b \in Artifacts :
            files[a] # None /\ files[b] # None /\ a[2] = b[2] /\ a # b
                => \E d \in Clients :
                      /\ req[d] # None /\ req[d].file = a[2]
                      /\ d \in blind \/ (Publishing(d) /\ wrote[d] # "nothing")

(* A download that waited for a flight, or led one to nothing, finds the    *)
(* row it goes back for, so that pkgFile is not nil in serveFileFromStorage.*)
(* Only a Go download misses it, one that shared the flight of another      *)
(* version with the same key.                                               *)
NoNilRow ==
    \A d \in Clients :
        status[d] = "panic" =>
            /\ Protocol = "go"
            /\ \E e \in Clients : req[e] # None /\ Key(e) = Key(d) /\ Art(e) # Art(d)

(* When only the upstream can fail, all clients that receive a file whole   *)
(* receive the same bytes, the recorded ones, streamed or from storage,     *)
(* even if the upstream serves each of them another content, or breaks off  *)
(* in the middle: what it sent reaches the leader of that flight alone.     *)
(* Again but for writers outside of the file's flights.                     *)
AllReceiveTheSame ==
    Faults \subseteq {"upstream"} =>
        \A d \in Clients :
            status[d] = "ok" /\ body[d] # None
                => \/ \E a \in RowsFor(d) : body[d] = files[a]
                   \/ body[d] = Torn /\ found[d] = None
                   \/ \E e \in Clients : Intruder(e, Art(d))

(* Every download that was begun is answered: no waiter is left behind by a *)
(* flight that failed or by one that ended while it was joining.            *)
EveryDownloadIsAnswered ==
    \A d \in Clients : pc[d] = "lookup" ~> pc[d] = "done"

===============================================================================
