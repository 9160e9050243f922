----------------------------- MODULE ArtifactRepo -----------------------------
(***************************************************************************)
(* One repository of a valisgo server as the upload handlers of every      *)
(* protocol see it: the package and package_file tables (internal/store),  *)
(* the blob bucket (internal/storage), and the upload requests running     *)
(* concurrently, one goroutine each.  Nothing spans the two stores: a      *)
(* handler is a sequence of single database and bucket calls, and each of  *)
(* those calls is one step here.  The protocols (HostedUpload, GoUpload,   *)
(* NpmPublish) are composed from these steps.                              *)
(*                                                                         *)
(* A file's sha256 is modelled as the content itself (no collisions).      *)
(***************************************************************************)
EXTENDS FiniteSets, Sequences

CONSTANTS
    Packages,   \* normalized package names (for the file protocol only "root")
    Filenames,  \* names of uploaded files
    Artifacts,  \* the <<package, filename>> pairs that clients upload
    Contents,   \* what an upload can carry
    Uploads,    \* identifiers of upload requests
    Faults,     \* the kinds of failure the environment may produce
    None,       \* no row, no blob, no request
    Torn        \* a blob cut short by a failed write

FaultKinds ==
    { "db",      \* a statement fails and has no effect
      "dbLost",  \* an INSERT commits but its answer is lost
      "put",     \* reading the body or writing the blob fails
      "close",   \* committing the blob fails: storage.Put drops that error
      "get",     \* opening a blob fails although it exists
      "delete",  \* deleting a blob fails (a cancelled request's does)
      "upstream",\* a proxied registry is out of reach, answers an error or breaks off
      "crash" }  \* the server dies with requests in flight

ASSUME FaultsAssumption == Faults \subseteq FaultKinds
ASSUME MarksAssumption == None \notin Contents /\ Torn \notin Contents /\ None # Torn
ASSUME ArtifactsAssumption == Artifacts \subseteq Packages \X Filenames

VARIABLES
    packages,  \* rows of packages: the names that exist in the repository
    files,     \* rows of package_files: artifact -> recorded hash, or None
    blobs,     \* the bucket: blob key -> content, Torn or None
    req,       \* upload -> what the client sent, or None
    pc,        \* upload -> the next call its handler makes
    status,    \* upload -> how it was answered
    wrote      \* history: upload -> what its storage.Put did to the blob

repoVars == <<packages, files, blobs>>
uploadVars == <<req, pc, status, wrote>>

(* The router has handed r to its handler, which has not answered it yet.   *)
InFlight(r) == pc[r] \notin {"idle", "done"}

(* Mutant: the key does not name the module.                                *)
goBlobKeyUnscoped(a) == a[2]

(* Go's "<repository>/<module>/<version><ext>".  Its module paths and file  *)
(* names are sequences of the segments between the slashes: ParsePath lets  *)
(* a version have slashes too, so two modules can come to the same key.     *)
goBlobKey(a) == a[1] \o a[2]

-------------------------------------------------------------------------------
(* Control: a handler moves on to its next call or answers the client.      *)

Goto(r, next) == /\ pc' = [pc EXCEPT ![r] = next]
                 /\ UNCHANGED status

Answer(r, how) == /\ pc' = [pc EXCEPT ![r] = "done"]
                  /\ status' = [status EXCEPT ![r] = how]

(* A request arrives; what it carries is kept for the rest of its life.     *)
Receive(r, payload) ==
    /\ pc[r] = "idle"
    /\ req' = [req EXCEPT ![r] = payload]
    /\ Goto(r, "getPackage")
    /\ UNCHANGED <<repoVars, wrote>>

(* Rejected before anything is touched: virtual repository, bad path/form.  *)
Refuse(r) ==
    /\ pc[r] = "idle"
    /\ Answer(r, "badRequest")
    /\ UNCHANGED <<repoVars, req, wrote>>

-------------------------------------------------------------------------------
(* getOrCreatePackage: look up, insert, and look up again when the insert   *)
(* failed.  "next" is the call that follows once the package is known.      *)

GetPackage(r, next) ==
    /\ pc[r] = "getPackage"
    /\ \/ req[r].pkg \in packages /\ Goto(r, next)
       \/ req[r].pkg \notin packages /\ Goto(r, "createPackage")
       \/ "db" \in Faults /\ Answer(r, "error")
    /\ UNCHANGED <<repoVars, req, wrote>>

CreatePackage(r, next) ==
    /\ pc[r] = "createPackage"
    /\ \/ /\ req[r].pkg \notin packages
          /\ packages' = packages \cup {req[r].pkg}
          /\ Goto(r, next)
       \/ /\ req[r].pkg \in packages         \* idx_repository_normalized_name
          /\ Goto(r, "regetPackage")
          /\ UNCHANGED packages
       \/ /\ "db" \in Faults
          /\ Goto(r, "regetPackage")
          /\ UNCHANGED packages
       \/ /\ "dbLost" \in Faults
          /\ packages' = packages \cup {req[r].pkg}
          /\ Goto(r, "regetPackage")
    /\ UNCHANGED <<files, blobs, req, wrote>>

(* Mutant: the second look-up is missing, a lost race is an error.          *)
RegetPackageGivesUp(r, next) ==
    /\ pc[r] = "regetPackage"
    /\ Answer(r, "error")
    /\ UNCHANGED <<repoVars, req, wrote>>

RegetPackage(r, next) ==
    /\ pc[r] = "regetPackage"
    /\ \/ req[r].pkg \in packages /\ Goto(r, next)
       \/ req[r].pkg \notin packages /\ Answer(r, "error")
       \/ "db" \in Faults /\ Answer(r, "error")
    /\ UNCHANGED <<repoVars, req, wrote>>

-------------------------------------------------------------------------------
(* storage.Put as its caller sees it.  The writer commits atomically when   *)
(* it is closed, overwriting what the key held; Close is deferred, so its   *)
(* error is lost and a partial blob is committed when the copy failed.      *)

WriteKinds == {"nothing", "stored", "torn", "lost"}

PutOk(r, key, c) ==
    \/ /\ blobs' = [blobs EXCEPT ![key] = c]
       /\ wrote' = [wrote EXCEPT ![r] = "stored"]
    \/ /\ "close" \in Faults
       /\ wrote' = [wrote EXCEPT ![r] = "lost"]
       /\ UNCHANGED blobs

(* The copy breaks off: before the first byte, or with what had arrived.    *)
PutBreaks(r, key) ==
    \/ UNCHANGED <<blobs, wrote>>
    \/ /\ blobs' = [blobs EXCEPT ![key] = Torn]
       /\ wrote' = [wrote EXCEPT ![r] = "torn"]

PutFails(r, key) == "put" \in Faults /\ PutBreaks(r, key)

(* storage.Delete: its callers ignore the error.                            *)
DeleteBlob(key) ==
    \/ blobs' = [blobs EXCEPT ![key] = None]
    \/ "delete" \in Faults /\ UNCHANGED blobs

(* Mutant: no unique index on package_files, the last insert wins.          *)
InsertOkOverwrites(a, c) == files' = [files EXCEPT ![a] = c]

(* packageFileStore.Create: idx_package_filename admits one row a file.     *)
InsertOk(a, c) == /\ files[a] = None
                  /\ files' = [files EXCEPT ![a] = c]

InsertFails(a, c) ==
    \/ files[a] # None /\ UNCHANGED files
    \/ "db" \in Faults /\ UNCHANGED files
    \/ "dbLost" \in Faults /\ InsertOk(a, c)

-------------------------------------------------------------------------------
(* The process dies and is started again: both stores survive, the requests *)
(* in flight are cut off.                                                   *)
CrashUploads ==
    /\ pc' = [r \in Uploads |-> IF InFlight(r) THEN "done" ELSE pc[r]]
    /\ status' = [r \in Uploads |-> IF InFlight(r) THEN "crashed" ELSE status[r]]
    /\ UNCHANGED <<repoVars, req, wrote>>

===============================================================================
