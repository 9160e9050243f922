------------------------------ MODULE Management ------------------------------
(***************************************************************************)
(* The registries and repositories tables and everyone who uses them:      *)
(* internal/server/management creates and lists, internal/server/registries *)
(* validates a request against them and dispatches it to the handler of    *)
(* the registry's format, internal/server/browse shows them.  As in        *)
(* ArtifactRepo a handler is a sequence of single statements without a     *)
(* transaction, and each statement is one step.  No row is ever changed or *)
(* removed by the server.                                                  *)
(*                                                                         *)
(* What lies behind a repository (packages, files, blobs) belongs to the   *)
(* other modules: a page of it is found, or it is not.                     *)
(***************************************************************************)
EXTENDS Naturals

CONSTANTS
    Callers,       \* identifiers of requests
    Calls,         \* what they may ask for
    Registries,    \* names of registries
    Repositories,  \* names of repositories
    Formats,       \* formats a client may write, known to the server or not
    DefaultFormat, \* what the database fills in for an empty format: "file"
    Handled,       \* the formats that have a protocol handler
    Faults,        \* the kinds of failure the environment may produce
    None           \* no row, no call, no repository, no format

Ops == { "createRegistry", "createRepository", "listAll", "list",
         "protocol", "browse", "browseFile" }

(* "id" is the ID a body may carry for the new registry, 0 for none.        *)
CallShapes == [op : Ops, registry : Registries, repository : Repositories \cup {None},
               format : Formats \cup {None}, id : Nat]

ASSUME CallsAssumption ==
    /\ Calls \subseteq CallShapes
    /\ None \notin Calls
    /\ \A k \in Calls : k.repository = None <=> k.op \in {"createRegistry", "listAll", "list"}
ASSUME FormatsAssumption == DefaultFormat \in Formats /\ None \notin Formats
ASSUME NamesAssumption == None \notin Repositories
ASSUME DatabaseFaultsAssumption == Faults \subseteq {"db", "dbLost"}

VARIABLES
    registries,    \* rows [id, name, format]
    repositories,  \* rows [registry, name]: "registry" is the ID of one
    nextID,        \* the sequence the database takes the IDs of registries from
    call,          \* caller -> its request, or None
    seen,          \* caller -> the registry row its handler has read, or None
    pc,            \* caller -> the next statement of its handler
    status,        \* caller -> how it was answered
    hit,           \* history: the callers that met a fault
    knew           \* history: caller -> what was acknowledged when it came

tables == <<registries, repositories, nextID>>
managementVars == <<tables, call, seen, pc, status, hit, knew>>

Named(name) == {g \in registries : g.name = name}

RowsOf(g, name) == {p \in repositories : p.registry = g.id /\ p.name = name}

Target(k) == <<k.registry, k.repository>>

Creates(c) == call[c] # None /\ call[c].op \in {"createRegistry", "createRepository"}

(* What clients have been told exists; creators keep their answer.          *)
Acknowledged == {Target(call[c]) : c \in {d \in Callers : status[d] = "created"}}

ManagementInit ==
    /\ registries = {} /\ repositories = {} /\ nextID = 1
    /\ call = [c \in Callers |-> None]
    /\ seen = [c \in Callers |-> None]
    /\ pc = [c \in Callers |-> "idle"]
    /\ status = [c \in Callers |-> "none"]
    /\ hit = {}
    /\ knew = [c \in Callers |-> {}]

-------------------------------------------------------------------------------
(* Control                                                                  *)

Goto(c, next) == /\ pc' = [pc EXCEPT ![c] = next]
                 /\ UNCHANGED <<status, hit>>

Answer(c, how) == /\ pc' = [pc EXCEPT ![c] = "done"]
                  /\ status' = [status EXCEPT ![c] = how]
                  /\ UNCHANGED hit

(* A fault makes the handler answer "how".                                  *)
Struck(c, how) == /\ pc' = [pc EXCEPT ![c] = "done"]
                  /\ status' = [status EXCEPT ![c] = how]
                  /\ hit' = hit \cup {c}

DbFails(c, how) == "db" \in Faults /\ Struck(c, how)

Receive(c, k) ==
    /\ pc[c] = "idle"
    /\ call' = [call EXCEPT ![c] = k]
    /\ knew' = [knew EXCEPT ![c] = Acknowledged]
    /\ Goto(c, IF k.op = "listAll" THEN "list" ELSE "getRegistry")
    /\ UNCHANGED <<tables, seen>>

Refusals == {"badRequest", "unauthorized", "forbidden"}

(* Turned away before a handler looks at the tables: the body is not JSON,  *)
(* or the middleware in front found no valid token or no policy.            *)
Refuse(c, how) ==
    /\ pc[c] = "idle"
    /\ Answer(c, how)
    /\ UNCHANGED <<tables, call, seen, knew>>

(* The connection of an answered reader is used for another request.        *)
Release(c) ==
    /\ pc[c] = "done" /\ ~Creates(c)
    /\ call' = [call EXCEPT ![c] = None]
    /\ seen' = [seen EXCEPT ![c] = None]
    /\ pc' = [pc EXCEPT ![c] = "idle"]
    /\ status' = [status EXCEPT ![c] = "none"]
    /\ hit' = hit \ {c}
    /\ knew' = [knew EXCEPT ![c] = {}]
    /\ UNCHANGED tables

-------------------------------------------------------------------------------
(* processCreateRegistry: look for the name, insert.                        *)

CheckRegistry(c) ==
    /\ pc[c] = "getRegistry" /\ call[c].op = "createRegistry"
    /\ \/ Named(call[c].registry) = {} /\ Goto(c, "insertRegistry")
       \/ Named(call[c].registry) # {} /\ Answer(c, "conflict")
       \/ DbFails(c, "error")
    /\ UNCHANGED <<tables, call, seen, knew>>

(* Mutant: the ID 0 of a body that brings none is written as it is.         *)
NewRegistryZero(k) == [id |-> k.id, name |-> k.registry,
                       format |-> IF k.format = None THEN DefaultFormat ELSE k.format]

(* Mutant: the format that was asked for is not stored.                     *)
NewRegistryDefault(k) == [id |-> IF k.id = 0 THEN nextID ELSE k.id,
                          name |-> k.registry, format |-> DefaultFormat]

(* The row GORM writes: IDs left out come from the sequence.                *)
NewRegistry(k) == [id |-> IF k.id = 0 THEN nextID ELSE k.id,
                   name |-> k.registry,
                   format |-> IF k.format = None THEN DefaultFormat ELSE k.format]

(* Mutant: names are not unique in the table.                               *)
AdmitsAnyRegistry(g) == \A h \in registries : h.id # g.id

(* The primary key and the unique index on the name.                        *)
AdmitsRegistry(g) == \A h \in registries : h.id # g.id /\ h.name # g.name

(* A failing insert has used up its ID.                                     *)
InsertRegistry(c) ==
    LET g == NewRegistry(call[c]) IN
    /\ pc[c] = "insertRegistry"
    /\ \/ /\ AdmitsRegistry(g)
          /\ registries' = registries \cup {g}
          /\ \/ Answer(c, "created")
             \/ "dbLost" \in Faults /\ Struck(c, "error")
       \/ /\ ~AdmitsRegistry(g) /\ Answer(c, "error")
          /\ UNCHANGED registries
       \/ /\ DbFails(c, "error")
          /\ UNCHANGED registries
    /\ nextID' = IF call[c].id = 0 THEN nextID + 1 ELSE nextID
    /\ UNCHANGED <<repositories, call, seen, knew>>

-------------------------------------------------------------------------------
(* Handlers that need the registry: processCreateRepository,                *)
(* processListRepositories and the browse pages check for a missing one.    *)

(* Mutant: a missing registry is not noticed.                               *)
FindRegistryUnchecked(c) ==
    /\ pc[c] = "getRegistry"
    /\ call[c].op \in {"createRepository", "list", "browse", "browseFile"}
    /\ seen' = [seen EXCEPT ![c] = IF Named(call[c].registry) = {} THEN None
                                    ELSE CHOOSE g \in Named(call[c].registry) : TRUE]
    /\ Goto(c, IF call[c].op = "list" THEN "list" ELSE "getRepository")
    /\ UNCHANGED <<tables, call, knew>>

FindRegistry(c) ==
    /\ pc[c] = "getRegistry"
    /\ call[c].op \in {"createRepository", "list", "browse", "browseFile"}
    /\ \/ \E g \in Named(call[c].registry) :
             /\ seen' = [seen EXCEPT ![c] = g]
             /\ Goto(c, IF call[c].op = "list" THEN "list" ELSE "getRepository")
       \/ /\ Named(call[c].registry) = {} /\ Answer(c, "notFound")
          /\ UNCHANGED seen
       \/ DbFails(c, "error") /\ UNCHANGED seen
    /\ UNCHANGED <<tables, call, knew>>

CheckRepository(c) ==
    /\ pc[c] = "getRepository" /\ call[c].op = "createRepository"
    /\ \/ RowsOf(seen[c], call[c].repository) = {} /\ Goto(c, "insertRepository")
       \/ RowsOf(seen[c], call[c].repository) # {} /\ Answer(c, "conflict")
       \/ DbFails(c, "error")
    /\ UNCHANGED <<tables, call, seen, knew>>

(* idx_name_registry admits one row of a name in a registry.                *)
InsertRepository(c) ==
    /\ pc[c] = "insertRepository"
    /\ \/ /\ RowsOf(seen[c], call[c].repository) = {}
          /\ repositories' = repositories \cup
                {[registry |-> seen[c].id, name |-> call[c].repository]}
          /\ \/ Answer(c, "created")
             \/ "dbLost" \in Faults /\ Struck(c, "error")
       \/ /\ RowsOf(seen[c], call[c].repository) # {} /\ Answer(c, "error")
          /\ UNCHANGED repositories
       \/ /\ DbFails(c, "error")
          /\ UNCHANGED repositories
    /\ UNCHANGED <<registries, nextID, call, seen, knew>>

(* Everything, or the repositories of one registry.                         *)
List(c) ==
    /\ pc[c] = "list"
    /\ Answer(c, "ok") \/ DbFails(c, "error")
    /\ UNCHANGED <<tables, call, seen, knew>>

-------------------------------------------------------------------------------
(* Requests of package managers: databaseValidationMiddleware and           *)
(* dispatchToProtocol.  GetByName returns nil and no error for an unknown   *)
(* registry; the middleware reads its ID all the same, and the Recoverer    *)
(* turns the panic into a 500.  A failing statement becomes a 404.          *)

ValidateRegistry(c) ==
    /\ pc[c] = "getRegistry" /\ call[c].op = "protocol"
    /\ \/ \E g \in Named(call[c].registry) :
             seen' = [seen EXCEPT ![c] = g] /\ Goto(c, "getRepository")
       \/ /\ Named(call[c].registry) = {} /\ Answer(c, "panicked")
          /\ UNCHANGED seen
       \/ DbFails(c, "notFound") /\ UNCHANGED seen
    /\ UNCHANGED <<tables, call, knew>>

(* A missing repository is passed on as nil.                                *)
ValidateRepository(c) ==
    /\ pc[c] = "getRepository" /\ call[c].op = "protocol"
    /\ \/ RowsOf(seen[c], call[c].repository) # {} /\ Goto(c, "dispatch")
       \/ RowsOf(seen[c], call[c].repository) = {} /\ Goto(c, "dispatchNil")
       \/ DbFails(c, "notFound")
    /\ UNCHANGED <<tables, call, seen, knew>>

(* A format nobody handles is noticed here and not when it is stored; the   *)
(* handler that is found reads fields of the repository first of all.       *)
Dispatch(c) ==
    /\ pc[c] \in {"dispatch", "dispatchNil"}
    /\ Answer(c, IF seen[c].format \notin Handled THEN "notImplemented"
                 ELSE IF pc[c] = "dispatchNil" THEN "panicked" ELSE "served")
    /\ UNCHANGED <<tables, call, seen, knew>>

-------------------------------------------------------------------------------
(* HandlePackages, and HandlePackageOrFile down to the blob.                *)

BrowseRepository(c) ==
    /\ pc[c] = "getRepository" /\ call[c].op \in {"browse", "browseFile"}
    /\ \/ RowsOf(seen[c], call[c].repository) # {} /\ Goto(c, "render")
       \/ RowsOf(seen[c], call[c].repository) = {} /\ Answer(c, "notFound")
       \/ DbFails(c, "error")
    /\ UNCHANGED <<tables, call, seen, knew>>

Render(c) ==
    /\ pc[c] = "render"
    /\ \/ Answer(c, "ok")
       \/ call[c].op = "browseFile" /\ Answer(c, "notFound")
       \/ DbFails(c, "error")
    /\ UNCHANGED <<tables, call, seen, knew>>

-------------------------------------------------------------------------------
HandlerStep(c) ==
    \/ CheckRegistry(c) \/ InsertRegistry(c)
    \/ FindRegistry(c) \/ CheckRepository(c) \/ InsertRepository(c) \/ List(c)
    \/ ValidateRegistry(c) \/ ValidateRepository(c) \/ Dispatch(c)
    \/ BrowseRepository(c) \/ Render(c)

ManagementNext ==
    \E c \in Callers :
        \/ \E k \in Calls : Receive(c, k)
        \/ \E how \in Refusals : Refuse(c, how)
        \/ Release(c) \/ HandlerStep(c)

ManagementSpec == ManagementInit /\ [][ManagementNext]_managementVars

-------------------------------------------------------------------------------
(* Properties                                                               *)

RegistryRows == [id : Nat, name : Registries, format : Formats]
RepositoryRows == [registry : Nat, name : Repositories \cup {None}]

(* Every variable has its type; a handler that is past its look-up has a    *)
(* call, and the registry row where it goes on to use one.                  *)
ManagementTypeOK ==
    /\ registries \subseteq RegistryRows
    /\ repositories \subseteq RepositoryRows
    /\ nextID \in Nat
    /\ call \in [Callers -> Calls \cup {None}]
    /\ seen \in [Callers -> RegistryRows \cup {None}]
    /\ pc \in [Callers -> {"idle", "getRegistry", "insertRegistry", "getRepository",
                           "insertRepository", "list", "dispatch", "dispatchNil",
                           "render", "done"}]
    /\ status \in [Callers -> Refusals \cup
                                  {"none", "created", "conflict", "notFound", "error",
                                   "ok", "panicked", "notImplemented", "served"}]
    /\ hit \subseteq Callers
    /\ knew \in [Callers -> SUBSET (Registries \X (Repositories \cup {None}))]
    /\ \A c \in Callers :
          /\ pc[c] \notin {"idle", "done"} => call[c] # None
          /\ pc[c] \in {"getRepository", "insertRepository", "dispatch", "dispatchNil",
                        "render"} => seen[c] \in registries
          /\ status[c] = "none" <=> pc[c] # "done"

(* Of the callers that create the same registry, or the same repository,    *)
(* one at most is told that it did.                                         *)
OneCreator ==
    \A c, d \in Callers :
        /\ status[c] = "created" /\ status[d] = "created"
        /\ Target(call[c]) = Target(call[d])
        => c = d

(* What c asks about was acknowledged before c came.                        *)
RegistryKnown(c) == <<call[c].registry, None>> \in knew[c]
RepositoryKnown(c) == RegistryKnown(c) /\ Target(call[c]) \in knew[c]

(* The creator of the registry asked for a format that has a handler.       *)
CreatedForHandler(name) ==
    \E d \in Callers :
        /\ status[d] = "created"
        /\ Target(call[d]) = <<name, None>>
        /\ (IF call[d].format = None THEN DefaultFormat ELSE call[d].format) \in Handled

(* Once a creation is acknowledged it can be used, and no other creation of *)
(* the name succeeds: a later request that meets no fault gets a conflict,  *)
(* the list, or the page, and one of a package manager reaches a handler if *)
(* and only if the creator asked for a format that has one.  It never meets *)
(* the panic that the validation of an unknown registry ends in.            *)
AcknowledgedIsUsable ==
    \A c \in Callers \ hit :
        pc[c] = "done" /\ call[c] # None =>
        /\ call[c].op = "createRegistry" /\ RegistryKnown(c) => status[c] = "conflict"
        /\ call[c].op = "list" /\ RegistryKnown(c) => status[c] = "ok"
        /\ RepositoryKnown(c) =>
           /\ call[c].op = "createRepository" => status[c] = "conflict"
           /\ call[c].op = "browse" => status[c] = "ok"
           /\ call[c].op = "protocol" =>
                 status[c] = IF CreatedForHandler(call[c].registry)
                             THEN "served" ELSE "notImplemented"

(* d creates what c creates, or one of two registries brought its own ID.   *)
Rivals(c, d) ==
    /\ Creates(d) /\ d # c
    /\ \/ Target(call[d]) = Target(call[c])
       \/ /\ call[c].op = "createRegistry" /\ call[d].op = "createRegistry"
          /\ call[c].id # 0 \/ call[d].id # 0

(* A creation that meets no fault is answered 500 only because of a rival:  *)
(* one that created the name between look-up and insert, or an ID that a    *)
(* client wrote into its body and the sequence did not know of.             *)
FailureHasRival ==
    \A c \in Callers \ hit :
        Creates(c) /\ status[c] = "error" => \E d \in Callers : Rivals(c, d)

===============================================================================
