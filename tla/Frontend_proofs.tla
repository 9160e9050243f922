---------------------------- MODULE Frontend_proofs ----------------------------
(***************************************************************************)
(* Theorems about the HTTP surface of the server, for any number of        *)
(* callers, names, requests, tabs, pages and logins and for any faults.    *)
(* First those of its two components, Management and WebLogin, each for    *)
(* its own specification; then that Frontend implements both: a behaviour  *)
(* of the server with its clients and its browser is one of each, and      *)
(* inherits what is proved of it.                                          *)
(***************************************************************************)
EXTENDS Frontend, TLAPS

-------------------------------------------------------------------------------
(* Management                                                               *)

(* Where a handler goes on to use the registry it has read.                 *)
UsesRegistry == {"getRepository", "insertRepository", "dispatch", "dispatchNil", "render"}

(* Each statement belongs to the handlers that contain it, and the registry *)
(* that was read is the one asked for.                                      *)
OnTrack(c) ==
    /\ pc[c] = "idle" => call[c] = None
    /\ pc[c] = "getRegistry" => call[c].op # "listAll"
    /\ pc[c] = "insertRegistry" => call[c].op = "createRegistry"
    /\ pc[c] = "getRepository" =>
          call[c].op \in {"createRepository", "protocol", "browse", "browseFile"}
    /\ pc[c] = "insertRepository" => call[c].op = "createRepository"
    /\ pc[c] = "list" => call[c].op \in {"listAll", "list"}
    /\ pc[c] \in {"dispatch", "dispatchNil"} => call[c].op = "protocol"
    /\ pc[c] = "render" => call[c].op \in {"browse", "browseFile"}
    /\ pc[c] \in UsesRegistry => seen[c].name = call[c].registry

Asked(k) == IF k.format = None THEN DefaultFormat ELSE k.format

(* What c was told to exist is in the tables.                               *)
HasRegistryRow(c) ==
    /\ call[c] # None /\ call[c].op = "createRegistry" /\ pc[c] = "done"
    /\ \E g \in registries : g.name = call[c].registry /\ g.format = Asked(call[c])

HasRepositoryRow(c) ==
    /\ call[c] # None /\ call[c].op = "createRepository" /\ pc[c] = "done"
    /\ seen[c] \in registries /\ seen[c].name = call[c].registry
    /\ [registry |-> seen[c].id, name |-> call[c].repository] \in repositories

CreatedHasRow ==
    \A c \in Callers : status[c] = "created" => HasRegistryRow(c) \/ HasRepositoryRow(c)

RegistriesUnique ==
    \A g, h \in registries : g.id = h.id \/ g.name = h.name => g = h

(* Every row was written by a caller that is still there to be asked; one   *)
(* that left the ID to the database has an ID of the past.                  *)
RegistryHasWriter(g) ==
    \E d \in Callers :
        /\ call[d] # None /\ call[d].op = "createRegistry" /\ pc[d] = "done"
        /\ call[d].registry = g.name
        /\ call[d].id = 0 => g.id < nextID

RepositoryHasWriter(p) ==
    \E d \in Callers :
        /\ call[d] # None /\ call[d].op = "createRepository" /\ pc[d] = "done"
        /\ call[d].repository = p.name
        /\ seen[d] \in registries /\ seen[d].id = p.registry
        /\ seen[d].name = call[d].registry

RowsHaveWriters ==
    /\ \A g \in registries : RegistryHasWriter(g)
    /\ \A p \in repositories : RepositoryHasWriter(p)

TablesInv ==
    /\ ManagementTypeOK
    /\ \A c \in Callers : OnTrack(c)
    /\ CreatedHasRow /\ RegistriesUnique /\ RowsHaveWriters

(* What a statement of c's handler leaves alone, and what it may not undo.  *)
Frame(c) ==
    /\ \A d \in Callers \ {c} :
          /\ call'[d] = call[d] /\ seen'[d] = seen[d] /\ pc'[d] = pc[d]
          /\ status'[d] = status[d] /\ knew'[d] = knew[d]
          /\ d \in hit' <=> d \in hit
    /\ registries \subseteq registries' /\ repositories \subseteq repositories'
    /\ nextID' >= nextID

LEMMA HandlerFrame ==
  ASSUME ManagementTypeOK, NEW c \in Callers, HandlerStep(c)
  PROVE  /\ Frame(c) /\ call' = call /\ knew' = knew
         /\ call[c] # None /\ pc[c] \notin {"idle", "done"}
  BY DEF Frame, HandlerStep, CheckRegistry, InsertRegistry, FindRegistry, CheckRepository,
         InsertRepository, List, ValidateRegistry, ValidateRepository, Dispatch,
         BrowseRepository, Render, ManagementTypeOK, Goto, Answer, Struck, DbFails, tables

-------------------------------------------------------------------------------
(* Types                                                                    *)

LEMMA NewRegistryType ==
  ASSUME ManagementTypeOK, NEW k \in Calls
  PROVE  NewRegistry(k) \in RegistryRows
  BY CallsAssumption, FormatsAssumption
  DEF ManagementTypeOK, NewRegistry, RegistryRows, CallShapes

LEMMA TypeStep == ManagementTypeOK /\ CreatedHasRow /\ ManagementNext => ManagementTypeOK'
<1> SUFFICES ASSUME ManagementTypeOK, CreatedHasRow, NEW c \in Callers,
                    \/ \E k \in Calls : Receive(c, k)
                    \/ \E how \in Refusals : Refuse(c, how)
                    \/ Release(c) \/ HandlerStep(c)
             PROVE  ManagementTypeOK'
  BY DEF ManagementNext
<1>1. ASSUME NEW k \in Calls, Receive(c, k) PROVE ManagementTypeOK'
  <2>1. Acknowledged \subseteq Registries \X (Repositories \cup {None})
    <3>1. \A d \in Callers : status[d] = "created" => call[d] \in Calls
      BY DEF CreatedHasRow, HasRegistryRow, HasRepositoryRow, ManagementTypeOK
    <3>2. \A j \in Calls : Target(j) \in Registries \X (Repositories \cup {None})
      BY CallsAssumption DEF Target, CallShapes
    <3>3. QED
      BY <3>1, <3>2 DEF Acknowledged
  <2>2. k # None
    BY CallsAssumption DEF CallShapes
  <2>3. QED
    BY <1>1, <2>1, <2>2 DEF Receive, Goto, ManagementTypeOK, tables
<1>2. ASSUME NEW how \in Refusals, Refuse(c, how) PROVE ManagementTypeOK'
  BY <1>2 DEF Refuse, Answer, Refusals, ManagementTypeOK, tables
<1>3. CASE Release(c)
  BY <1>3 DEF Release, ManagementTypeOK, tables
<1>4. CASE CheckRegistry(c)
  BY <1>4 DEF CheckRegistry, ManagementTypeOK, Goto, Answer, Struck, DbFails, tables
<1>5. CASE InsertRegistry(c)
  <2>1. NewRegistry(call[c]) \in RegistryRows
    BY <1>5, NewRegistryType DEF InsertRegistry, ManagementTypeOK
  <2>2. registries' \subseteq RegistryRows /\ registries \subseteq registries'
    BY <1>5, <2>1 DEF InsertRegistry, ManagementTypeOK
  <2>3. QED
    BY <1>5, <2>2 DEF InsertRegistry, ManagementTypeOK, Goto, Answer, Struck, DbFails, tables
<1>6. CASE FindRegistry(c)
  BY <1>6 DEF FindRegistry, Named, ManagementTypeOK, Goto, Answer, Struck, DbFails, tables
<1>7. CASE CheckRepository(c)
  BY <1>7 DEF CheckRepository, ManagementTypeOK, Goto, Answer, Struck, DbFails, tables
<1>8. CASE InsertRepository(c)
  <2>1. [registry |-> seen[c].id, name |-> call[c].repository] \in RepositoryRows
    BY <1>8, CallsAssumption
    DEF InsertRepository, ManagementTypeOK, CallShapes, RegistryRows, RepositoryRows
  <2>2. repositories' \subseteq RepositoryRows
    BY <1>8, <2>1 DEF InsertRepository, ManagementTypeOK
  <2>3. QED
    BY <1>8, <2>2 DEF InsertRepository, ManagementTypeOK, Answer, Struck, DbFails, tables
<1>9. CASE List(c) \/ Render(c) \/ BrowseRepository(c)
  BY <1>9 DEF List, Render, BrowseRepository, ManagementTypeOK, Goto, Answer, Struck, DbFails,
              tables
<1>10. CASE ValidateRegistry(c)
  BY <1>10 DEF ValidateRegistry, Named, ManagementTypeOK, Goto, Answer, Struck, DbFails, tables
<1>11. CASE ValidateRepository(c)
  BY <1>11 DEF ValidateRepository, ManagementTypeOK, Goto, Answer, Struck, DbFails, tables
<1>12. CASE Dispatch(c)
  BY <1>12 DEF Dispatch, ManagementTypeOK, Answer, tables
<1>13. QED
  BY <1>1, <1>2, <1>3, <1>4, <1>5, <1>6, <1>7, <1>8, <1>9, <1>10, <1>11, <1>12 DEF HandlerStep

-------------------------------------------------------------------------------
(* The tables                                                               *)

LEMMA OnTrackStep == TablesInv /\ ManagementNext => \A c \in Callers : OnTrack(c)'
<1> SUFFICES ASSUME TablesInv, NEW c \in Callers,
                    \/ \E k \in Calls : Receive(c, k)
                    \/ \E how \in Refusals : Refuse(c, how)
                    \/ Release(c) \/ HandlerStep(c)
             PROVE  \A d \in Callers : OnTrack(d)'
  BY DEF ManagementNext
<1>1. ManagementTypeOK /\ OnTrack(c)
  BY DEF TablesInv
<1>2. \A d \in Callers \ {c} : call'[d] = call[d] /\ seen'[d] = seen[d] /\ pc'[d] = pc[d]
  BY <1>1, HandlerFrame
  DEF Frame, Receive, Refuse, Release, Goto, Answer, ManagementTypeOK
<1>3. \A d \in Callers \ {c} : OnTrack(d)'
  BY <1>2 DEF TablesInv, OnTrack
<1>4. ASSUME NEW k \in Calls, Receive(c, k) PROVE OnTrack(c)'
  <2>1. k.op \in Ops
    BY CallsAssumption DEF CallShapes
  <2>2. call'[c] = k /\ pc'[c] = IF k.op = "listAll" THEN "list" ELSE "getRegistry"
    BY <1>1, <1>4 DEF Receive, Goto, ManagementTypeOK
  <2>3. QED
    BY <2>1, <2>2 DEF OnTrack, UsesRegistry
<1>5. ASSUME NEW how \in Refusals, Refuse(c, how) PROVE OnTrack(c)'
  BY <1>1, <1>5 DEF Refuse, Answer, OnTrack, UsesRegistry, ManagementTypeOK
<1>6. ASSUME Release(c) PROVE OnTrack(c)'
  BY <1>1, <1>6 DEF Release, OnTrack, UsesRegistry, ManagementTypeOK
<1>7. ASSUME HandlerStep(c) PROVE OnTrack(c)'
  <2>1. call' = call /\ call[c] \in Calls /\ call[c].op \in Ops
    BY <1>1, <1>7, HandlerFrame, CallsAssumption DEF ManagementTypeOK, CallShapes
  <2>2. CASE pc'[c] = "done"
    BY <2>2 DEF OnTrack, UsesRegistry
  <2>3. CASE CheckRegistry(c)
    <3>1. pc'[c] \in {"insertRegistry", "done"} /\ call[c].op = "createRegistry"
      BY <1>1, <2>3 DEF CheckRegistry, Goto, Answer, Struck, DbFails, ManagementTypeOK
    <3>2. QED
      BY <2>1, <3>1 DEF OnTrack, UsesRegistry
  <2>4. CASE InsertRegistry(c) \/ InsertRepository(c) \/ List(c) \/ Dispatch(c) \/ Render(c)
    BY <1>1, <2>2, <2>4
    DEF InsertRegistry, InsertRepository, List, Dispatch, Render, Answer, Struck, DbFails,
        ManagementTypeOK
  <2>5. CASE FindRegistry(c)
    <3>1. pc'[c] = "done" \/ (seen'[c] \in Named(call[c].registry) /\
             pc'[c] = IF call[c].op = "list" THEN "list" ELSE "getRepository")
      BY <1>1, <2>5 DEF FindRegistry, Goto, Answer, Struck, DbFails, ManagementTypeOK
    <3>2. call[c].op \in {"createRepository", "list", "browse", "browseFile"}
      BY <2>5 DEF FindRegistry
    <3>3. QED
      BY <2>1, <2>2, <3>1, <3>2 DEF OnTrack, UsesRegistry, Named
  <2>6. CASE ValidateRegistry(c)
    <3>1. pc'[c] = "done" \/ (seen'[c] \in Named(call[c].registry) /\ pc'[c] = "getRepository")
      BY <1>1, <2>6 DEF ValidateRegistry, Goto, Answer, Struck, DbFails, ManagementTypeOK
    <3>2. call[c].op = "protocol"
      BY <2>6 DEF ValidateRegistry
    <3>3. QED
      BY <2>1, <2>2, <3>1, <3>2 DEF OnTrack, UsesRegistry, Named
  <2>7. CASE CheckRepository(c) \/ ValidateRepository(c) \/ BrowseRepository(c)
    <3>1. seen' = seen /\ seen[c].name = call[c].registry
      BY <1>1, <2>7
      DEF CheckRepository, ValidateRepository, BrowseRepository, OnTrack, UsesRegistry
    <3>2. \/ pc'[c] = "done"
          \/ pc'[c] = "insertRepository" /\ call[c].op = "createRepository"
          \/ pc'[c] \in {"dispatch", "dispatchNil"} /\ call[c].op = "protocol"
          \/ pc'[c] = "render" /\ call[c].op \in {"browse", "browseFile"}
      BY <1>1, <2>7
      DEF CheckRepository, ValidateRepository, BrowseRepository, Goto, Answer, Struck, DbFails,
          ManagementTypeOK
    <3>3. QED
      BY <2>1, <2>2, <3>1, <3>2 DEF OnTrack, UsesRegistry
  <2>8. QED
    BY <1>7, <2>3, <2>4, <2>5, <2>6, <2>7 DEF HandlerStep
<1>8. QED
  BY <1>3, <1>4, <1>5, <1>6, <1>7

(* An answered creator is never asked again: the rest of the proof can rely *)
(* on what it was told.                                                     *)
LEMMA CreatorsStay ==
  ASSUME TablesInv, ManagementNext, NEW d \in Callers,
         call[d] # None, call[d].op \in {"createRegistry", "createRepository"},
         pc[d] = "done"
  PROVE  /\ call'[d] = call[d] /\ seen'[d] = seen[d] /\ pc'[d] = "done"
         /\ status'[d] = status[d]
         /\ registries \subseteq registries' /\ repositories \subseteq repositories'
         /\ nextID <= nextID'
<1> PICK c \in Callers :
         \/ \E k \in Calls : Receive(c, k)
         \/ \E how \in Refusals : Refuse(c, how)
         \/ Release(c) \/ HandlerStep(c)
  BY DEF ManagementNext
<1>1. ManagementTypeOK
  BY DEF TablesInv
<1>2. CASE HandlerStep(c)
  BY <1>1, <1>2, HandlerFrame DEF Frame, ManagementTypeOK
<1>3. CASE Release(c)
  BY <1>1, <1>3 DEF Release, Creates, ManagementTypeOK, tables
<1>4. CASE (\E k \in Calls : Receive(c, k)) \/ (\E how \in Refusals : Refuse(c, how))
  BY <1>1, <1>4 DEF Receive, Refuse, Goto, Answer, ManagementTypeOK, tables
<1>5. QED
  BY <1>2, <1>3, <1>4

LEMMA CreatedHasRowStep == TablesInv /\ ManagementNext => CreatedHasRow'
<1> SUFFICES ASSUME TablesInv, ManagementNext, NEW d \in Callers, status'[d] = "created"
             PROVE  HasRegistryRow(d)' \/ HasRepositoryRow(d)'
  BY DEF CreatedHasRow
<1>1. CASE status[d] = "created"
  <2>1. HasRegistryRow(d) \/ HasRepositoryRow(d)
    BY <1>1 DEF TablesInv, CreatedHasRow
  <2>2. QED
    BY <2>1, CreatorsStay DEF HasRegistryRow, HasRepositoryRow
<1>2. CASE status[d] # "created"
  <2>1. PICK c \in Callers :
           \/ \E k \in Calls : Receive(c, k)
           \/ \E how \in Refusals : Refuse(c, how)
           \/ Release(c) \/ HandlerStep(c)
    BY DEF ManagementNext
  <2>2. ManagementTypeOK /\ OnTrack(d)
    BY DEF TablesInv
  <2>3. c = d /\ HandlerStep(c)
    BY <1>2, <2>1, <2>2, HandlerFrame
    DEF Frame, Receive, Refuse, Release, Goto, Answer, Refusals, ManagementTypeOK
  <2>4. InsertRegistry(d) \/ InsertRepository(d)
    BY <1>2, <2>2, <2>3
    DEF HandlerStep, CheckRegistry, FindRegistry, CheckRepository, List, ValidateRegistry,
        ValidateRepository, Dispatch, BrowseRepository, Render, Goto, Answer, Struck,
        DbFails, ManagementTypeOK
  <2>5. call' = call /\ call[d] # None
    BY <2>2, <2>3, HandlerFrame
  <2>6. CASE InsertRegistry(d)
    <3>1. NewRegistry(call[d]) \in registries' /\ pc'[d] = "done"
      BY <1>2, <2>2, <2>6 DEF InsertRegistry, Answer, Struck, DbFails, ManagementTypeOK
    <3>2. QED
      BY <2>2, <2>5, <2>6, <3>1
      DEF InsertRegistry, OnTrack, HasRegistryRow, NewRegistry, Asked
  <2>7. CASE InsertRepository(d)
    <3>1. /\ [registry |-> seen[d].id, name |-> call[d].repository] \in repositories'
          /\ pc'[d] = "done" /\ seen' = seen /\ registries' = registries
      BY <1>2, <2>2, <2>7 DEF InsertRepository, Answer, Struck, DbFails, ManagementTypeOK
    <3>2. seen[d] \in registries /\ seen[d].name = call[d].registry
      BY <2>2, <2>7 DEF InsertRepository, OnTrack, UsesRegistry, ManagementTypeOK
    <3>3. call[d].op = "createRepository"
      BY <2>2, <2>7 DEF InsertRepository, OnTrack
    <3>4. QED
      BY <2>5, <3>1, <3>2, <3>3 DEF HasRepositoryRow
  <2>8. QED
    BY <2>4, <2>6, <2>7
<1>3. QED
  BY <1>1, <1>2

(* Only the two inserts write to the tables, and they leave their writer    *)
(* answered, whatever the answer.                                           *)
LEMMA RowsStep ==
  TablesInv /\ ManagementNext => RegistriesUnique' /\ RowsHaveWriters'
<1> SUFFICES ASSUME TablesInv, ManagementNext PROVE RegistriesUnique' /\ RowsHaveWriters'
  OBVIOUS
<1>1. ManagementTypeOK /\ RegistriesUnique /\ RowsHaveWriters /\ \A c \in Callers : OnTrack(c)
  BY DEF TablesInv
<1>2. \A g \in registries : RegistryHasWriter(g)'
  <2> SUFFICES ASSUME NEW g \in registries PROVE RegistryHasWriter(g)'
    OBVIOUS
  <2>1. PICK d \in Callers :
           /\ call[d] # None /\ call[d].op = "createRegistry" /\ pc[d] = "done"
           /\ call[d].registry = g.name
           /\ call[d].id = 0 => g.id < nextID
    BY <1>1 DEF RowsHaveWriters, RegistryHasWriter
  <2>2. call'[d] = call[d] /\ pc'[d] = "done" /\ nextID <= nextID'
    BY <2>1, CreatorsStay
  <2>3. g.id \in Nat /\ nextID \in Nat /\ nextID' \in Nat
    BY <1>1, TypeStep DEF TablesInv, ManagementTypeOK, RegistryRows
  <2>4. call'[d].id = 0 => g.id < nextID'
    BY <2>1, <2>2, <2>3
  <2>5. QED
    BY <2>1, <2>2, <2>4 DEF RegistryHasWriter
<1>3. \A p \in repositories : RepositoryHasWriter(p)'
  <2> SUFFICES ASSUME NEW p \in repositories PROVE RepositoryHasWriter(p)'
    OBVIOUS
  <2>1. PICK d \in Callers :
           /\ call[d] # None /\ call[d].op = "createRepository" /\ pc[d] = "done"
           /\ call[d].repository = p.name
           /\ seen[d] \in registries /\ seen[d].id = p.registry
           /\ seen[d].name = call[d].registry
    BY <1>1 DEF RowsHaveWriters, RepositoryHasWriter
  <2>2. call'[d] = call[d] /\ seen'[d] = seen[d] /\ pc'[d] = "done"
        /\ registries \subseteq registries'
    BY <2>1, CreatorsStay
  <2>3. QED
    BY <2>1, <2>2 DEF RepositoryHasWriter
<1>4. CASE registries' = registries /\ repositories' = repositories
  BY <1>1, <1>2, <1>3, <1>4 DEF RegistriesUnique, RowsHaveWriters
<1>5. ASSUME NEW c \in Callers, InsertRegistry(c), AdmitsRegistry(NewRegistry(call[c])),
             registries' = registries \cup {NewRegistry(call[c])}
      PROVE  RegistriesUnique' /\ RowsHaveWriters'
  <2> PICK g : g = NewRegistry(call[c])
    OBVIOUS
  <2>1. call[c] \in Calls /\ call[c].op = "createRegistry" /\ call[c] # None
    BY <1>1, <1>5, CallsAssumption DEF InsertRegistry, ManagementTypeOK, OnTrack
  <2>2. call'[c] = call[c] /\ pc'[c] = "done"
    BY <1>1, <1>5 DEF InsertRegistry, Answer, Struck, DbFails, ManagementTypeOK
  <2>3. g.name = call[c].registry /\ (call[c].id = 0 => g.id < nextID')
    BY <1>1, <1>5 DEF NewRegistry, InsertRegistry, ManagementTypeOK
  <2>4. RegistriesUnique'
    BY <1>1, <1>5 DEF RegistriesUnique, AdmitsRegistry
  <2>5. RegistryHasWriter(g)'
    BY <2>1, <2>2, <2>3 DEF RegistryHasWriter
  <2>6. repositories' = repositories
    BY <1>5 DEF InsertRegistry
  <2>7. QED
    BY <1>2, <1>3, <1>5, <2>4, <2>5, <2>6 DEF RowsHaveWriters
<1>6. ASSUME NEW c \in Callers, InsertRepository(c),
             repositories' = repositories \cup
                {[registry |-> seen[c].id, name |-> call[c].repository]}
      PROVE  RegistriesUnique' /\ RowsHaveWriters'
  <2> PICK p : p = [registry |-> seen[c].id, name |-> call[c].repository]
    OBVIOUS
  <2>1. call[c] # None /\ call[c].op = "createRepository"
        /\ seen[c] \in registries /\ seen[c].name = call[c].registry
    BY <1>1, <1>6 DEF InsertRepository, ManagementTypeOK, OnTrack, UsesRegistry
  <2>2. /\ call'[c] = call[c] /\ pc'[c] = "done" /\ seen'[c] = seen[c]
        /\ registries' = registries
    BY <1>1, <1>6 DEF InsertRepository, Answer, Struck, DbFails, ManagementTypeOK
  <2>3. RepositoryHasWriter(p)'
    BY <2>1, <2>2 DEF RepositoryHasWriter
  <2>4. RegistriesUnique'
    BY <1>1, <2>2 DEF RegistriesUnique
  <2>5. QED
    BY <1>2, <1>3, <1>6, <2>2, <2>3, <2>4 DEF RowsHaveWriters
<1>7. QED
  BY <1>4, <1>5, <1>6
  DEF ManagementNext, HandlerStep, Receive, Refuse, Release, CheckRegistry, InsertRegistry,
      FindRegistry, CheckRepository, InsertRepository, List, ValidateRegistry,
      ValidateRepository, Dispatch, BrowseRepository, Render, tables

LEMMA TablesStep == TablesInv /\ [ManagementNext]_managementVars => TablesInv'
<1>1. TablesInv /\ ManagementNext => TablesInv'
  BY TypeStep, OnTrackStep, CreatedHasRowStep, RowsStep DEF TablesInv
<1>2. TablesInv /\ UNCHANGED managementVars => TablesInv'
  BY DEF TablesInv, managementVars, tables, ManagementTypeOK, OnTrack, CreatedHasRow,
         HasRegistryRow, HasRepositoryRow, RegistriesUnique, RowsHaveWriters,
         RegistryHasWriter, RepositoryHasWriter
<1>3. QED
  BY <1>1, <1>2

LEMMA TablesInit == ManagementInit => TablesInv
  BY DEF ManagementInit, TablesInv, ManagementTypeOK, OnTrack, UsesRegistry, CreatedHasRow,
         RegistriesUnique, RowsHaveWriters

(* In every reachable state names and IDs of registries are unique, rows    *)
(* have the request that inserted them, whoever was told "created" has its  *)
(* row (processCreateRegistry, processCreateRepository).                    *)
THEOREM TablesInvariant == ManagementSpec => []TablesInv
  BY TablesInit, TablesStep, PTL DEF ManagementSpec

(* Every variable keeps its type, and a handler that uses a registry has    *)
(* read it from a table it is still in.                                     *)
THEOREM ManagementTypeCorrect == ManagementSpec => []ManagementTypeOK
<1>1. TablesInv => ManagementTypeOK
  BY DEF TablesInv
<1>2. QED
  BY <1>1, TablesInvariant, PTL

-------------------------------------------------------------------------------
(* Creation                                                                 *)

LEMMA RequestStays ==
  ASSUME TablesInv, ManagementNext, NEW d \in Callers, Creates(d)
  PROVE  call'[d] = call[d]
<1> PICK c \in Callers :
         \/ \E k \in Calls : Receive(c, k)
         \/ \E how \in Refusals : Refuse(c, how)
         \/ Release(c) \/ HandlerStep(c)
  BY DEF ManagementNext
<1>1. ManagementTypeOK /\ OnTrack(d)
  BY DEF TablesInv
<1>2. CASE HandlerStep(c)
  BY <1>1, <1>2, HandlerFrame
<1>3. CASE Release(c)
  BY <1>1, <1>3 DEF Release, ManagementTypeOK
<1>4. CASE (\E k \in Calls : Receive(c, k)) \/ (\E how \in Refusals : Refuse(c, how))
  BY <1>1, <1>4 DEF Receive, Refuse, Creates, OnTrack, ManagementTypeOK
<1>5. QED
  BY <1>2, <1>3, <1>4

(* How a caller comes to be told "created", or "error".                     *)
LEMMA NewAnswer ==
  ASSUME TablesInv, ManagementNext, NEW c \in Callers, status'[c] # status[c],
         status'[c] \in {"created", "error"}
  PROVE  /\ HandlerStep(c) /\ call' = call /\ call[c] # None
         /\ \A d \in Callers \ {c} : status'[d] = status[d] /\ seen'[d] = seen[d]
         /\ status'[c] = "created" =>
               \/ /\ InsertRegistry(c) /\ AdmitsRegistry(NewRegistry(call[c]))
               \/ /\ InsertRepository(c) /\ RowsOf(seen[c], call[c].repository) = {}
                  /\ seen'[c] = seen[c]
         /\ status'[c] = "error" =>
               \/ c \in hit'
               \/ InsertRegistry(c) /\ ~AdmitsRegistry(NewRegistry(call[c]))
               \/ InsertRepository(c) /\ RowsOf(seen[c], call[c].repository) # {}
<1> PICK d \in Callers :
         \/ \E k \in Calls : Receive(d, k)
         \/ \E how \in Refusals : Refuse(d, how)
         \/ Release(d) \/ HandlerStep(d)
  BY DEF ManagementNext
<1>1. ManagementTypeOK
  BY DEF TablesInv
<1>2. HandlerStep(d) /\ d = c
  BY <1>1, HandlerFrame
  DEF Frame, Receive, Refuse, Release, Goto, Answer, Refusals, ManagementTypeOK
<1>3. /\ call' = call /\ call[c] # None
      /\ \A e \in Callers \ {c} : status'[e] = status[e] /\ seen'[e] = seen[e]
  BY <1>1, <1>2, HandlerFrame DEF Frame
<1>4. CASE InsertRegistry(c)
  BY <1>1, <1>2, <1>3, <1>4 DEF InsertRegistry, Answer, Struck, DbFails, ManagementTypeOK
<1>5. CASE InsertRepository(c)
  BY <1>1, <1>2, <1>3, <1>5 DEF InsertRepository, Answer, Struck, DbFails, ManagementTypeOK
<1>6. CASE CheckRegistry(c) \/ CheckRepository(c) \/ List(c) \/ Dispatch(c)
  BY <1>1, <1>2, <1>3, <1>6
  DEF CheckRegistry, CheckRepository, List, Dispatch, Goto, Answer, Struck, DbFails,
      ManagementTypeOK
<1>7. CASE FindRegistry(c) \/ ValidateRegistry(c)
  BY <1>1, <1>2, <1>3, <1>7
  DEF FindRegistry, ValidateRegistry, Goto, Answer, Struck, DbFails, ManagementTypeOK
<1>8. CASE ValidateRepository(c) \/ BrowseRepository(c) \/ Render(c)
  BY <1>1, <1>2, <1>3, <1>8
  DEF ValidateRepository, BrowseRepository, Render, Goto, Answer, Struck, DbFails,
      ManagementTypeOK
<1>9. QED
  BY <1>2, <1>4, <1>5, <1>6, <1>7, <1>8 DEF HandlerStep

(* Whoever was told "created" before the row of c is written created        *)
(* something else.                                                          *)
LEMMA CreatorAlone ==
  ASSUME TablesInv, ManagementNext, NEW c \in Callers, NEW d \in Callers \ {c},
         status[c] # "created", status'[c] = "created", status[d] = "created"
  PROVE  Target(call[c]) # Target(call[d])
<1>1. ManagementTypeOK /\ RegistriesUnique /\ OnTrack(c)
      /\ (HasRegistryRow(d) \/ HasRepositoryRow(d))
  BY DEF TablesInv, CreatedHasRow
<1>2. call[c] \in Calls /\ call[d] \in Calls
  BY <1>1, NewAnswer DEF ManagementTypeOK, HasRegistryRow, HasRepositoryRow
<1>3. ASSUME Target(call[c]) = Target(call[d]) PROVE FALSE
  <2>1. call[c].registry = call[d].registry /\ call[c].repository = call[d].repository
    BY <1>3 DEF Target
  <2>2. CASE InsertRegistry(c) /\ AdmitsRegistry(NewRegistry(call[c]))
    <3>1. call[c].op = "createRegistry"
      BY <1>1, <2>2 DEF InsertRegistry, OnTrack
    <3>2. HasRegistryRow(d)
      BY <1>1, <1>2, <2>1, <3>1, CallsAssumption DEF HasRepositoryRow
    <3>3. QED
      BY <2>1, <2>2, <3>2 DEF HasRegistryRow, AdmitsRegistry, NewRegistry
  <2>3. CASE InsertRepository(c) /\ RowsOf(seen[c], call[c].repository) = {}
    <3>1. call[c].op = "createRepository" /\ seen[c] \in registries
          /\ seen[c].name = call[c].registry
      BY <1>1, <2>3 DEF InsertRepository, OnTrack, UsesRegistry, ManagementTypeOK
    <3>2. HasRepositoryRow(d)
      BY <1>1, <1>2, <2>1, <3>1, CallsAssumption DEF HasRegistryRow
    <3>3. seen[d] = seen[c]
      BY <1>1, <2>1, <3>1, <3>2 DEF HasRepositoryRow, RegistriesUnique
    <3>4. QED
      BY <2>1, <2>3, <3>2, <3>3 DEF HasRepositoryRow, RowsOf
  <2>4. QED
    BY <2>2, <2>3, NewAnswer
<1>4. QED
  BY <1>3

LEMMA OneCreatorStep == TablesInv /\ OneCreator /\ [ManagementNext]_managementVars => OneCreator'
<1>1. ASSUME TablesInv, OneCreator, ManagementNext, NEW c \in Callers, NEW d \in Callers,
             status'[c] = "created", status'[d] = "created",
             Target(call'[c]) = Target(call'[d]), c # d
      PROVE  FALSE
  <2>1. CASE status[c] = "created" /\ status[d] = "created"
    <3>1. Creates(c) /\ Creates(d)
      BY <1>1, <2>1 DEF TablesInv, CreatedHasRow, HasRegistryRow, HasRepositoryRow, Creates
    <3>2. call'[c] = call[c] /\ call'[d] = call[d]
      BY <1>1, <3>1, RequestStays
    <3>3. QED
      BY <1>1, <2>1, <3>2 DEF OneCreator
  <2>2. CASE status[c] # "created"
    <3>1. call' = call /\ status[d] = "created"
      BY <1>1, <2>2, NewAnswer
    <3>2. QED
      BY <1>1, <2>2, <3>1, CreatorAlone
  <2>3. CASE status[d] # "created"
    <3>1. call' = call /\ status[c] = "created"
      BY <1>1, <2>3, NewAnswer
    <3>2. QED
      BY <1>1, <2>3, <3>1, CreatorAlone
  <2>4. QED
    BY <2>1, <2>2, <2>3
<1>2. TablesInv /\ OneCreator /\ UNCHANGED managementVars => OneCreator'
  BY DEF OneCreator, managementVars
<1>3. TablesInv /\ OneCreator /\ ManagementNext => OneCreator'
  BY <1>1 DEF OneCreator
<1>4. QED
  BY <1>2, <1>3

(* Of all who ask for the same registry or repository one at most is told   *)
(* that it was created, however the look-ups and inserts interleave and     *)
(* whatever statements fail.                                                *)
THEOREM ManagementOneCreator == ManagementSpec => []OneCreator
<1>1. ManagementInit => OneCreator
  BY DEF ManagementInit, OneCreator
<1>2. QED
  BY <1>1, OneCreatorStep, TablesInvariant, PTL DEF ManagementSpec

-------------------------------------------------------------------------------
(* An insert that the table refuses met the row of somebody else.           *)
LEMMA RefusedHasRival ==
  ASSUME TablesInv, NEW c \in Callers,
         \/ InsertRegistry(c) /\ ~AdmitsRegistry(NewRegistry(call[c]))
         \/ InsertRepository(c) /\ RowsOf(seen[c], call[c].repository) # {}
  PROVE  \E d \in Callers : Rivals(c, d)
<1>1. ManagementTypeOK /\ RegistriesUnique /\ OnTrack(c) /\ RowsHaveWriters
  BY DEF TablesInv
<1>2. CASE InsertRegistry(c) /\ ~AdmitsRegistry(NewRegistry(call[c]))
  <2>1. call[c].op = "createRegistry" /\ pc[c] = "insertRegistry" /\ call[c] \in Calls
    BY <1>1, <1>2 DEF InsertRegistry, OnTrack, ManagementTypeOK
  <2>2. PICK g \in registries : \/ g.id = NewRegistry(call[c]).id
                                \/ g.name = NewRegistry(call[c]).name
    BY <1>2 DEF AdmitsRegistry
  <2>3. PICK d \in Callers :
           /\ call[d] # None /\ call[d].op = "createRegistry" /\ pc[d] = "done"
           /\ call[d].registry = g.name
           /\ call[d].id = 0 => g.id < nextID
    BY <1>1 DEF RowsHaveWriters, RegistryHasWriter
  <2>4. d # c /\ Creates(d) /\ call[d] \in Calls
    BY <1>1, <2>1, <2>3 DEF Creates, ManagementTypeOK
  <2>5. CASE g.name = NewRegistry(call[c]).name
    <3>1. call[c].registry = call[d].registry
      BY <2>3, <2>5 DEF NewRegistry
    <3>2. call[c].repository = call[d].repository
      BY <2>1, <2>3, <2>4, CallsAssumption
    <3>3. QED
      BY <2>4, <3>1, <3>2 DEF Rivals, Target
  <2>6. CASE g.id = NewRegistry(call[c]).id
    <3>1. call[c].id # 0 \/ call[d].id # 0
      BY <1>1, <2>3, <2>6 DEF NewRegistry, ManagementTypeOK, RegistryRows
    <3>2. QED
      BY <2>1, <2>3, <2>4, <3>1 DEF Rivals
  <2>7. QED
    BY <2>2, <2>5, <2>6
<1>3. CASE InsertRepository(c) /\ RowsOf(seen[c], call[c].repository) # {}
  <2>1. call[c].op = "createRepository" /\ pc[c] = "insertRepository"
        /\ seen[c] \in registries /\ seen[c].name = call[c].registry
    BY <1>1, <1>3 DEF InsertRepository, OnTrack, UsesRegistry, ManagementTypeOK
  <2>2. PICK p \in repositories : p.registry = seen[c].id /\ p.name = call[c].repository
    BY <1>3 DEF RowsOf
  <2>3. PICK d \in Callers :
           /\ call[d] # None /\ call[d].op = "createRepository" /\ pc[d] = "done"
           /\ call[d].repository = p.name
           /\ seen[d] \in registries /\ seen[d].id = p.registry
           /\ seen[d].name = call[d].registry
    BY <1>1 DEF RowsHaveWriters, RepositoryHasWriter
  <2>4. seen[d] = seen[c]
    BY <1>1, <2>1, <2>2, <2>3 DEF RegistriesUnique
  <2>5. QED
    BY <2>1, <2>2, <2>3, <2>4 DEF Rivals, Target, Creates
<1>4. QED
  BY <1>2, <1>3

LEMMA FailureHasRivalStep ==
  TablesInv /\ FailureHasRival /\ [ManagementNext]_managementVars => FailureHasRival'
<1>1. ASSUME TablesInv, FailureHasRival, ManagementNext,
             NEW c \in Callers, c \notin hit', Creates(c)', status'[c] = "error"
      PROVE  \E d \in Callers : Rivals(c, d)'
  <2>1. ASSUME NEW d \in Callers, Rivals(c, d), Creates(c) PROVE Rivals(c, d)'
    <3>1. Creates(d)
      BY <2>1 DEF Rivals
    <3>2. call'[c] = call[c] /\ call'[d] = call[d]
      BY <1>1, <2>1, <3>1, RequestStays
    <3>3. QED
      BY <2>1, <3>2 DEF Rivals, Creates
  <2>2. CASE status[c] = "error"
    <3>1. ManagementTypeOK /\ OnTrack(c)
      BY <1>1 DEF TablesInv
    <3>2. c \notin hit /\ Creates(c)
      <4> PICK d \in Callers :
               \/ \E k \in Calls : Receive(d, k)
               \/ \E how \in Refusals : Refuse(d, how)
               \/ Release(d) \/ HandlerStep(d)
        BY <1>1 DEF ManagementNext
      <4>1. CASE HandlerStep(d)
        BY <1>1, <2>2, <3>1, <4>1, HandlerFrame DEF Frame, Creates, ManagementTypeOK
      <4>2. CASE Release(d)
        BY <1>1, <2>2, <3>1, <4>2 DEF Release, Creates, ManagementTypeOK
      <4>3. CASE (\E k \in Calls : Receive(d, k)) \/ (\E how \in Refusals : Refuse(d, how))
        BY <1>1, <2>2, <3>1, <4>3 DEF Receive, Refuse, Goto, Answer, Creates, ManagementTypeOK
      <4>4. QED
        BY <4>1, <4>2, <4>3
    <3>3. PICK d \in Callers : Rivals(c, d)
      BY <1>1, <2>2, <3>2 DEF FailureHasRival
    <3>4. QED
      BY <2>1, <3>2, <3>3
  <2>3. CASE status[c] # "error"
    <3>1. /\ call' = call
          /\ \/ InsertRegistry(c) /\ ~AdmitsRegistry(NewRegistry(call[c]))
             \/ InsertRepository(c) /\ RowsOf(seen[c], call[c].repository) # {}
      BY <1>1, <2>3, NewAnswer
    <3>2. PICK d \in Callers : Rivals(c, d)
      BY <1>1, <3>1, RefusedHasRival
    <3>3. Creates(c)
      BY <1>1, <3>1 DEF Creates
    <3>4. QED
      BY <2>1, <3>2, <3>3
  <2>4. QED
    BY <2>2, <2>3
<1>2. TablesInv /\ FailureHasRival /\ ManagementNext => FailureHasRival'
  BY <1>1 DEF FailureHasRival
<1>3. FailureHasRival /\ UNCHANGED managementVars => FailureHasRival'
  BY DEF FailureHasRival, managementVars, Creates, Rivals
<1>4. QED
  BY <1>2, <1>3

(* A creation that meets no fault and is answered 500 had a rival: the look *)
(* before the insert saves every other one.                                 *)
THEOREM ManagementFailureHasRival == ManagementSpec => []FailureHasRival
<1>1. ManagementInit => FailureHasRival
  BY DEF ManagementInit, FailureHasRival
<1>2. QED
  BY <1>1, FailureHasRivalStep, TablesInvariant, PTL DEF ManagementSpec

-------------------------------------------------------------------------------
(* What was acknowledged can be used.                                       *)

KnewIsTrue == \A c \in Callers : knew[c] \subseteq Acknowledged

(* The handler of a known registry or repository does not miss its row, and *)
(* gives the answer that follows from it.                                   *)
FindsRows(c) ==
    c \notin hit /\ call[c] # None =>
    /\ call[c].op = "createRegistry" /\ RegistryKnown(c) =>
          pc[c] # "insertRegistry" /\ (pc[c] = "done" => status[c] = "conflict")
    /\ call[c].op = "list" /\ RegistryKnown(c) => (pc[c] = "done" => status[c] = "ok")
    /\ RepositoryKnown(c) =>
       /\ call[c].op = "createRepository" =>
             pc[c] # "insertRepository" /\ (pc[c] = "done" => status[c] = "conflict")
       /\ call[c].op = "browse" => (pc[c] = "done" => status[c] = "ok")
       /\ call[c].op = "protocol" =>
             /\ pc[c] # "dispatchNil"
             /\ pc[c] = "done" =>
                   \E g \in Named(call[c].registry) :
                      status[c] = IF g.format \in Handled THEN "served" ELSE "notImplemented"

UsableInv == TablesInv /\ KnewIsTrue /\ \A c \in Callers : FindsRows(c)

LEMMA KnownRegistryHasCreator ==
  ASSUME TablesInv, KnewIsTrue, NEW c \in Callers, RegistryKnown(c)
  PROVE  \E d \in Callers :
            /\ status[d] = "created" /\ HasRegistryRow(d)
            /\ Target(call[d]) = <<call[c].registry, None>>
<1>1. PICK d \in Callers :
         status[d] = "created" /\ Target(call[d]) = <<call[c].registry, None>>
  BY DEF KnewIsTrue, RegistryKnown, Acknowledged
<1>2. HasRegistryRow(d) \/ HasRepositoryRow(d)
  BY <1>1 DEF TablesInv, CreatedHasRow
<1>3. call[d] \in Calls /\ call[d].repository = None
  BY <1>1, <1>2 DEF TablesInv, ManagementTypeOK, HasRegistryRow, HasRepositoryRow, Target
<1>4. QED
  BY <1>1, <1>2, <1>3, CallsAssumption DEF HasRepositoryRow

LEMMA KnownHasRows ==
  ASSUME TablesInv, KnewIsTrue, NEW c \in Callers, call[c] # None
  PROVE  /\ RegistryKnown(c) => Named(call[c].registry) # {}
         /\ RepositoryKnown(c) /\ call[c].repository # None
            /\ seen[c] \in Named(call[c].registry) => RowsOf(seen[c], call[c].repository) # {}
<1>1. RegistryKnown(c) => Named(call[c].registry) # {}
  BY KnownRegistryHasCreator DEF HasRegistryRow, Named, Target
<1>2. ASSUME RepositoryKnown(c), call[c].repository # None, seen[c] \in Named(call[c].registry)
      PROVE  RowsOf(seen[c], call[c].repository) # {}
  <2>1. PICK d \in Callers : status[d] = "created" /\ Target(call[d]) = Target(call[c])
    BY <1>2 DEF KnewIsTrue, RepositoryKnown, Acknowledged
  <2>2. HasRegistryRow(d) \/ HasRepositoryRow(d)
    BY <2>1 DEF TablesInv, CreatedHasRow
  <2>3. call[d] \in Calls /\ call[d].registry = call[c].registry
        /\ call[d].repository = call[c].repository
    BY <2>1, <2>2 DEF TablesInv, ManagementTypeOK, HasRegistryRow, HasRepositoryRow, Target
  <2>4. HasRepositoryRow(d)
    BY <1>2, <2>2, <2>3, CallsAssumption DEF HasRegistryRow
  <2>5. seen[d] = seen[c]
    BY <1>2, <2>3, <2>4 DEF TablesInv, RegistriesUnique, HasRepositoryRow, Named
  <2>6. QED
    BY <2>3, <2>4, <2>5 DEF HasRepositoryRow, RowsOf
<1>3. QED
  BY <1>1, <1>2

(* The row has the format its creator asked for.                            *)
LEMMA FormatAsCreated ==
  ASSUME TablesInv, KnewIsTrue, NEW c \in Callers, RegistryKnown(c),
         NEW g \in Named(call[c].registry)
  PROVE  g.format \in Handled <=> CreatedForHandler(call[c].registry)
<1>1. ASSUME NEW d \in Callers, status[d] = "created",
             Target(call[d]) = <<call[c].registry, None>>
      PROVE  g.format = Asked(call[d])
  <2>1. HasRegistryRow(d) \/ HasRepositoryRow(d)
    BY <1>1 DEF TablesInv, CreatedHasRow
  <2>2. call[d] \in Calls /\ call[d].repository = None /\ call[d].registry = call[c].registry
    BY <1>1, <2>1 DEF TablesInv, ManagementTypeOK, HasRegistryRow, HasRepositoryRow, Target
  <2>3. HasRegistryRow(d)
    BY <2>1, <2>2, CallsAssumption DEF HasRepositoryRow
  <2>4. QED
    BY <2>2, <2>3 DEF HasRegistryRow, TablesInv, RegistriesUnique, Named
<1>2. PICK d \in Callers : status[d] = "created" /\ Target(call[d]) = <<call[c].registry, None>>
  BY KnownRegistryHasCreator
<1>3. QED
  BY <1>1, <1>2 DEF CreatedForHandler, Asked

LEMMA KnewIsTrueStep == TablesInv /\ KnewIsTrue /\ ManagementNext => KnewIsTrue'
<1> SUFFICES ASSUME TablesInv, KnewIsTrue, ManagementNext PROVE KnewIsTrue'
  OBVIOUS
<1>1. Acknowledged \subseteq Acknowledged'
  <2>1. ASSUME NEW d \in Callers, status[d] = "created"
        PROVE  status'[d] = "created" /\ call'[d] = call[d]
    <3>1. HasRegistryRow(d) \/ HasRepositoryRow(d)
      BY <2>1 DEF TablesInv, CreatedHasRow
    <3>2. QED
      BY <2>1, <3>1, CreatorsStay DEF HasRegistryRow, HasRepositoryRow
  <2>2. QED
    BY <2>1 DEF Acknowledged, Target
<1>2. \A c \in Callers : knew'[c] \in {knew[c], {}, Acknowledged}
  <2> PICK c \in Callers :
         \/ \E k \in Calls : Receive(c, k)
         \/ \E how \in Refusals : Refuse(c, how)
         \/ Release(c) \/ HandlerStep(c)
    BY DEF ManagementNext
  <2>1. ManagementTypeOK
    BY DEF TablesInv
  <2>2. QED
    BY <2>1, HandlerFrame DEF Receive, Refuse, Release, ManagementTypeOK
<1>3. QED
  BY <1>1, <1>2 DEF KnewIsTrue

LEMMA FindsRowsStep ==
  UsableInv /\ ManagementNext => \A c \in Callers : FindsRows(c)'
<1> SUFFICES ASSUME UsableInv, ManagementNext, NEW c \in Callers,
                    \/ \E k \in Calls : Receive(c, k)
                    \/ \E how \in Refusals : Refuse(c, how)
                    \/ Release(c) \/ HandlerStep(c)
             PROVE  \A d \in Callers : FindsRows(d)'
  BY DEF ManagementNext
<1>1. ManagementTypeOK /\ OnTrack(c) /\ FindsRows(c) /\ TablesInv /\ KnewIsTrue
  BY DEF UsableInv, TablesInv
<1>2. /\ \A d \in Callers \ {c} :
            /\ call'[d] = call[d] /\ pc'[d] = pc[d] /\ status'[d] = status[d]
            /\ knew'[d] = knew[d] /\ (d \in hit' <=> d \in hit)
      /\ registries \subseteq registries'
  BY <1>1, HandlerFrame
  DEF Frame, Receive, Refuse, Release, Goto, Answer, ManagementTypeOK, tables
<1>3. ASSUME NEW d \in Callers \ {c} PROVE FindsRows(d)'
  BY <1>2 DEF UsableInv, FindsRows, RegistryKnown, RepositoryKnown, Target, Named
<1>4. ASSUME NEW k \in Calls, Receive(c, k) PROVE FindsRows(c)'
  BY <1>1, <1>4 DEF Receive, Goto, FindsRows, ManagementTypeOK
<1>5. ASSUME NEW how \in Refusals, Refuse(c, how) PROVE FindsRows(c)'
  BY <1>1, <1>5 DEF Refuse, FindsRows, OnTrack
<1>6. ASSUME Release(c) PROVE FindsRows(c)'
  BY <1>1, <1>6 DEF Release, FindsRows, ManagementTypeOK
<1>7. ASSUME HandlerStep(c) PROVE FindsRows(c)'
  <2>1. /\ call' = call /\ knew' = knew /\ call[c] \in Calls /\ call[c] # None
        /\ registries \subseteq registries'
        /\ RegistryKnown(c)' = RegistryKnown(c) /\ RepositoryKnown(c)' = RepositoryKnown(c)
    BY <1>1, <1>7, HandlerFrame
    DEF Frame, ManagementTypeOK, RegistryKnown, RepositoryKnown, Target
  <2>2. /\ RegistryKnown(c) => Named(call[c].registry) # {}
        /\ RepositoryKnown(c) /\ call[c].repository # None
           /\ seen[c] \in Named(call[c].registry) => RowsOf(seen[c], call[c].repository) # {}
        /\ RepositoryKnown(c) => RegistryKnown(c)
    BY <1>1, <2>1, KnownHasRows DEF RepositoryKnown
  <2>3. call[c].op \notin {"createRegistry", "listAll", "list"} => call[c].repository # None
    BY <2>1, CallsAssumption
  <2>4. CASE CheckRegistry(c)
    BY <1>1, <2>1, <2>2, <2>4
    DEF CheckRegistry, FindsRows, Goto, Answer, Struck, DbFails, ManagementTypeOK
  <2>5. CASE InsertRegistry(c)
    BY <1>1, <2>1, <2>5
    DEF InsertRegistry, FindsRows, OnTrack, Answer, Struck, DbFails, ManagementTypeOK
  <2>6. CASE FindRegistry(c)
    BY <1>1, <2>1, <2>2, <2>6
    DEF FindRegistry, FindsRows, Goto, Answer, Struck, DbFails, ManagementTypeOK
  <2>7. CASE ValidateRegistry(c)
    BY <1>1, <2>1, <2>2, <2>7
    DEF ValidateRegistry, FindsRows, Goto, Answer, Struck, DbFails, ManagementTypeOK
  <2>8. pc[c] \in UsesRegistry => seen[c] \in Named(call[c].registry)
    BY <1>1 DEF OnTrack, ManagementTypeOK, UsesRegistry, Named
  <2>9. CASE CheckRepository(c)
    BY <1>1, <2>1, <2>2, <2>3, <2>8, <2>9
    DEF CheckRepository, FindsRows, UsesRegistry, Goto, Answer, Struck, DbFails,
        ManagementTypeOK
  <2>10. CASE ValidateRepository(c)
    BY <1>1, <2>1, <2>2, <2>3, <2>8, <2>10
    DEF ValidateRepository, FindsRows, UsesRegistry, Goto, Answer, Struck, DbFails,
        ManagementTypeOK
  <2>11. CASE BrowseRepository(c)
    BY <1>1, <2>1, <2>2, <2>3, <2>8, <2>11
    DEF BrowseRepository, FindsRows, UsesRegistry, Goto, Answer, Struck, DbFails,
        ManagementTypeOK
  <2>12. CASE InsertRepository(c)
    BY <1>1, <2>1, <2>12
    DEF InsertRepository, FindsRows, OnTrack, Answer, Struck, DbFails, ManagementTypeOK
  <2>13. CASE List(c) \/ Render(c)
    BY <1>1, <2>1, <2>13
    DEF List, Render, FindsRows, OnTrack, Answer, Struck, DbFails, ManagementTypeOK
  <2>14. CASE Dispatch(c)
    <3>1. call[c].op = "protocol" /\ seen[c] \in Named(call[c].registry)'
      BY <1>1, <2>1, <2>8, <2>14 DEF Dispatch, OnTrack, UsesRegistry, Named
    <3>2. RepositoryKnown(c) /\ c \notin hit => pc[c] = "dispatch"
      BY <1>1, <2>1, <2>14, <3>1 DEF Dispatch, FindsRows
    <3>3. /\ hit' = hit /\ pc'[c] = "done"
          /\ pc[c] = "dispatch" => status'[c] =
                IF seen[c].format \in Handled THEN "served" ELSE "notImplemented"
      BY <1>1, <2>14 DEF Dispatch, Answer, ManagementTypeOK
    <3>4. QED
      BY <2>1, <3>1, <3>2, <3>3 DEF FindsRows
  <2>15. QED
    BY <1>7, <2>4, <2>5, <2>6, <2>7, <2>9, <2>10, <2>11, <2>12, <2>13, <2>14 DEF HandlerStep
<1>8. QED
  BY <1>3, <1>4, <1>5, <1>6, <1>7

LEMMA UsableStep == UsableInv /\ [ManagementNext]_managementVars => UsableInv'
<1>1. UsableInv /\ ManagementNext => UsableInv'
  BY TablesStep, KnewIsTrueStep, FindsRowsStep DEF UsableInv
<1>2. UsableInv /\ UNCHANGED managementVars => UsableInv'
  <2>1. TablesInv /\ UNCHANGED managementVars => TablesInv'
    BY TablesStep
  <2>2. QED
    BY <2>1 DEF UsableInv, managementVars, tables, KnewIsTrue, Acknowledged, Target, FindsRows,
                RegistryKnown, RepositoryKnown, Named
<1>3. QED
  BY <1>1, <1>2

LEMMA UsableInit == ManagementInit => UsableInv
  BY TablesInit DEF ManagementInit, UsableInv, KnewIsTrue, FindsRows

(* A registry or repository whose creation was acknowledged before a        *)
(* request came is found by it, and by the handler of the format its        *)
(* creator asked for, unless a statement of that very request fails.        *)
THEOREM ManagementAcknowledgedIsUsable == ManagementSpec => []AcknowledgedIsUsable
<1>1. UsableInv => AcknowledgedIsUsable
  <2> SUFFICES ASSUME UsableInv, NEW c \in Callers \ hit, pc[c] = "done", call[c] # None
               PROVE  /\ call[c].op = "createRegistry" /\ RegistryKnown(c)
                            => status[c] = "conflict"
                      /\ call[c].op = "list" /\ RegistryKnown(c) => status[c] = "ok"
                      /\ RepositoryKnown(c) =>
                         /\ call[c].op = "createRepository" => status[c] = "conflict"
                         /\ call[c].op = "browse" => status[c] = "ok"
                         /\ call[c].op = "protocol" =>
                               status[c] = IF CreatedForHandler(call[c].registry)
                                           THEN "served" ELSE "notImplemented"
    BY DEF AcknowledgedIsUsable
  <2>1. FindsRows(c) /\ TablesInv /\ KnewIsTrue
    BY DEF UsableInv
  <2>2. RepositoryKnown(c) =>
           \A g \in Named(call[c].registry) :
              g.format \in Handled <=> CreatedForHandler(call[c].registry)
    BY <2>1, FormatAsCreated DEF RepositoryKnown
  <2>3. QED
    BY <2>1, <2>2 DEF FindsRows
<1>2. QED
  BY <1>1, UsableInit, UsableStep, PTL DEF ManagementSpec

-------------------------------------------------------------------------------
(* WebLogin                                                                 *)

(* No two logins under way have the same state.                             *)
StatesDiffer ==
    \A t, u \in Tabs :
        /\ tab[t].at \in InLogin /\ tab[u].at \in InLogin
        /\ tab[t].state = tab[u].state
        => t = u

(* The state in the jar was handed out, and if it belongs to a login that   *)
(* is under way, the page beside it is that login's.                        *)
JarIsPaired ==
    /\ jar.state # Absent => jar.state \in 1..issued
    /\ \A t \in Tabs :
          tab[t].at \in InLogin /\ jar.state = tab[t].state => jar.returnTo = tab[t].asked

(* An undisturbed tab at the provider finds its own state in the jar.       *)
Undisturbed ==
    \A t \in Tabs \ disturbed :
        /\ tab[t].at = "provider" => jar.state = tab[t].state
        /\ tab[t].at = "callback" => tab[t].sent.state = tab[t].state
        /\ tab[t].at \notin {"stateMissing", "stateMismatch"}

(* The cookies a callback was sent with are paired like those in the jar.   *)
SentIsPaired(r) ==
    r.at = "callback" /\ r.sent.state = r.state => r.sent.returnTo = r.asked

(* A tab's URL leads to the page it was opened for, all along its login.    *)
KeepsPage(r) ==
    r.at \in {"get", "login", "loginAnswer", "callbackAnswer", "serving", "shown"}
        => r.page = r.asked

(* What a login has brought is one of the two kinds of token.               *)
LoggedIn(r) ==
    /\ r.at = "callbackAnswer" => r.token \in {"good", "opaque"}
    /\ r.at = "get" /\ r.loggedIn => r.sent.token \in {"good", "opaque"}
    /\ r.at = "login" /\ r.loggedIn => r.sent.token = "opaque"

TabInv(r) == SentIsPaired(r) /\ KeepsPage(r) /\ LoggedIn(r)

WebInv ==
    /\ WebTypeOK /\ StatesDiffer /\ JarIsPaired /\ Undisturbed
    /\ \A t \in Tabs : TabInv(tab[t])

-------------------------------------------------------------------------------
(* What a step that moves one tab leaves to be shown.                       *)

LEMMA MoveOne ==
  ASSUME tab \in [Tabs -> TabShapes], NEW t \in Tabs, NEW r \in TabShapes, Move(t, r)
  PROVE  /\ tab' \in [Tabs -> TabShapes]
         /\ tab'[t] = r
         /\ \A u \in Tabs \ {t} : tab'[u] = tab[u]
  BY DEF Move

LEMMA BlankType == Blank \in TabShapes /\ NoCookies \in Cookies
  BY PagesAssumption
  DEF Blank, NoCookies, TabShapes, Places, Cookies, States, Failures, InLogin

LEMMA TypeKept ==
  ASSUME WebTypeOK, NEW t \in Tabs, NEW r \in TabShapes, Move(t, r),
         jar' \in Cookies, issued' \in issued..MaxLogins, disturbed' \subseteq Tabs,
         r.at \in InLogin => r.state \in 1..issued'
  PROVE  WebTypeOK'
<1>1. /\ tab' \in [Tabs -> TabShapes] /\ tab'[t] = r
      /\ \A u \in Tabs \ {t} : tab'[u] = tab[u]
  BY MoveOne DEF WebTypeOK
<1>2. issued \in Nat /\ issued' \in Nat /\ issued <= issued' /\ issued' \in 0..MaxLogins
  BY LoginsAssumption DEF WebTypeOK
<1>3. \A u \in Tabs : tab'[u].at \in InLogin => tab'[u].state \in 1..issued'
  BY <1>1, <1>2 DEF WebTypeOK
<1>4. QED
  BY <1>1, <1>2, <1>3 DEF WebTypeOK

(* A step that leaves the cookies alone keeps the invariant if the tab it   *)
(* moves does: a login it is in afterwards is the one it was in before.     *)
LEMMA InvKept ==
  ASSUME WebInv, NEW t \in Tabs, NEW r \in TabShapes, Move(t, r),
         jar' = jar, issued' = issued, disturbed' \subseteq Tabs,
         disturbed \subseteq disturbed' \cup {t}, TabInv(r),
         r.at \in InLogin =>
            tab[t].at \in InLogin /\ r.state = tab[t].state /\ r.asked = tab[t].asked,
         t \in disturbed' \/
            /\ r.at = "provider" => jar.state = r.state
            /\ r.at = "callback" => r.sent.state = r.state
            /\ r.at \notin {"stateMissing", "stateMismatch"}
  PROVE  WebInv'
<1>1. /\ tab' \in [Tabs -> TabShapes] /\ tab'[t] = r
      /\ \A u \in Tabs \ {t} : tab'[u] = tab[u]
  BY MoveOne DEF WebInv, WebTypeOK
<1>2. WebTypeOK'
  BY TypeKept, LoginsAssumption DEF WebInv, WebTypeOK
<1>3. StatesDiffer'
  BY <1>1 DEF WebInv, StatesDiffer
<1>4. JarIsPaired'
  BY <1>1 DEF WebInv, JarIsPaired
<1>5. Undisturbed'
  BY <1>1 DEF WebInv, Undisturbed
<1>6. (\A u \in Tabs : TabInv(tab[u]))'
  BY <1>1 DEF WebInv
<1>7. QED
  BY <1>2, <1>3, <1>4, <1>5, <1>6 DEF WebInv

-------------------------------------------------------------------------------
LEMMA WebInitInv == WebInit => WebInv
<1> SUFFICES ASSUME WebInit PROVE WebInv
  OBVIOUS
<1>1. WebTypeOK
  BY BlankType, LoginsAssumption DEF WebInit, WebTypeOK, Blank, InLogin
<1>2. QED
  BY <1>1 DEF WebInit, WebInv, StatesDiffer, JarIsPaired, Undisturbed, TabInv, SentIsPaired,
              KeepsPage, LoggedIn, Blank, NoCookies, InLogin

LEMMA VisitInv == ASSUME WebInv, NEW t \in Tabs, NEW p \in Pages, Visit(t, p) PROVE WebInv'
<1> DEFINE r == [Blank EXCEPT !.at = "get", !.asked = p, !.page = p, !.sent = jar]
<1>1. r \in TabShapes
  BY BlankType DEF Visit, WebInv, WebTypeOK, TabShapes, Places, InLogin, Failures
<1>2. Move(t, r) /\ jar' = jar /\ issued' = issued
  BY DEF Visit
<1>3. TabInv(r)
  BY DEF Visit, WebInv, TabInv, SentIsPaired, KeepsPage, LoggedIn, InLogin, Failures, Blank
<1>4. disturbed' \subseteq Tabs /\ disturbed \subseteq disturbed' \cup {t}
  BY DEF Visit, WebInv, WebTypeOK
<1>5. r.at \in InLogin =>
        tab[t].at \in InLogin /\ r.state = tab[t].state /\ r.asked = tab[t].asked
  BY DEF Visit, WebInv, WebTypeOK, TabShapes, InLogin, Failures, Blank
<1>6. t \in disturbed' \/
        /\ r.at = "provider" => jar.state = r.state
        /\ r.at = "callback" => r.sent.state = r.state
        /\ r.at \notin {"stateMissing", "stateMismatch"}
  BY DEF Visit, WebInv, WebTypeOK, TabShapes, Undisturbed, Failures, Blank
<1> HIDE DEF r
<1>7. QED
  BY <1>1, <1>2, <1>3, <1>4, <1>5, <1>6, InvKept

LEMMA VisitLoginInv == ASSUME WebInv, NEW t \in Tabs, VisitLogin(t) PROVE WebInv'
<1> DEFINE r == [Blank EXCEPT !.at = "login"]
<1>1. r \in TabShapes
  BY BlankType DEF VisitLogin, WebInv, WebTypeOK, TabShapes, Places, InLogin, Failures
<1>2. Move(t, r) /\ jar' = jar /\ issued' = issued
  BY DEF VisitLogin
<1>3. TabInv(r)
  BY DEF VisitLogin, WebInv, TabInv, SentIsPaired, KeepsPage, LoggedIn, InLogin, Failures, Blank
<1>4. disturbed' \subseteq Tabs /\ disturbed \subseteq disturbed' \cup {t}
  BY DEF VisitLogin, WebInv, WebTypeOK
<1>5. r.at \in InLogin =>
        tab[t].at \in InLogin /\ r.state = tab[t].state /\ r.asked = tab[t].asked
  BY DEF VisitLogin, WebInv, WebTypeOK, TabShapes, InLogin, Failures, Blank
<1>6. t \in disturbed' \/
        /\ r.at = "provider" => jar.state = r.state
        /\ r.at = "callback" => r.sent.state = r.state
        /\ r.at \notin {"stateMissing", "stateMismatch"}
  BY DEF VisitLogin, WebInv, WebTypeOK, TabShapes, Undisturbed, Failures, Blank
<1> HIDE DEF r
<1>7. QED
  BY <1>1, <1>2, <1>3, <1>4, <1>5, <1>6, InvKept

LEMMA QuitInv == ASSUME WebInv, NEW t \in Tabs, Quit(t) PROVE WebInv'
<1> DEFINE r == Blank
<1>1. r \in TabShapes
  BY BlankType DEF Quit, WebInv, WebTypeOK, TabShapes, Places, InLogin, Failures
<1>2. Move(t, r) /\ jar' = jar /\ issued' = issued
  BY DEF Quit
<1>3. TabInv(r)
  BY DEF Quit, WebInv, TabInv, SentIsPaired, KeepsPage, LoggedIn, InLogin, Failures, Blank
<1>4. disturbed' \subseteq Tabs /\ disturbed \subseteq disturbed' \cup {t}
  BY DEF Quit, WebInv, WebTypeOK
<1>5. r.at \in InLogin =>
        tab[t].at \in InLogin /\ r.state = tab[t].state /\ r.asked = tab[t].asked
  BY DEF Quit, WebInv, WebTypeOK, TabShapes, InLogin, Failures, Blank
<1>6. t \in disturbed' \/
        /\ r.at = "provider" => jar.state = r.state
        /\ r.at = "callback" => r.sent.state = r.state
        /\ r.at \notin {"stateMissing", "stateMismatch"}
  BY DEF Quit, WebInv, WebTypeOK, TabShapes, Undisturbed, Failures, Blank
<1> HIDE DEF r
<1>7. QED
  BY <1>1, <1>2, <1>3, <1>4, <1>5, <1>6, InvKept

LEMMA AdmitInv == ASSUME WebInv, NEW t \in Tabs, Admit(t) PROVE WebInv'
<1> DEFINE r == [tab[t] EXCEPT !.at = "serving"]
<1>1. r \in TabShapes
  BY BlankType DEF Admit, WebInv, WebTypeOK, TabShapes, Places, InLogin, Failures
<1>2. Move(t, r) /\ jar' = jar /\ issued' = issued
  BY DEF Admit
<1>3. TabInv(r)
  BY DEF Admit, WebInv, TabInv, SentIsPaired, KeepsPage, LoggedIn, InLogin, Failures, Blank
<1>4. disturbed' \subseteq Tabs /\ disturbed \subseteq disturbed' \cup {t}
  BY DEF Admit, WebInv, WebTypeOK
<1>5. r.at \in InLogin =>
        tab[t].at \in InLogin /\ r.state = tab[t].state /\ r.asked = tab[t].asked
  BY DEF Admit, WebInv, WebTypeOK, TabShapes, InLogin, Failures, Blank
<1>6. t \in disturbed' \/
        /\ r.at = "provider" => jar.state = r.state
        /\ r.at = "callback" => r.sent.state = r.state
        /\ r.at \notin {"stateMissing", "stateMismatch"}
  BY DEF Admit, WebInv, WebTypeOK, TabShapes, Undisturbed, Failures, Blank
<1> HIDE DEF r
<1>7. QED
  BY <1>1, <1>2, <1>3, <1>4, <1>5, <1>6, InvKept

LEMMA ForbidInv == ASSUME WebInv, NEW t \in Tabs, Forbid(t) PROVE WebInv'
<1> DEFINE r == [tab[t] EXCEPT !.at = "forbidden"]
<1>1. r \in TabShapes
  BY BlankType DEF Forbid, WebInv, WebTypeOK, TabShapes, Places, InLogin, Failures
<1>2. Move(t, r) /\ jar' = jar /\ issued' = issued
  BY DEF Forbid
<1>3. TabInv(r)
  BY DEF Forbid, WebInv, TabInv, SentIsPaired, KeepsPage, LoggedIn, InLogin, Failures, Blank
<1>4. disturbed' \subseteq Tabs /\ disturbed \subseteq disturbed' \cup {t}
  BY DEF Forbid, WebInv, WebTypeOK
<1>5. r.at \in InLogin =>
        tab[t].at \in InLogin /\ r.state = tab[t].state /\ r.asked = tab[t].asked
  BY DEF Forbid, WebInv, WebTypeOK, TabShapes, InLogin, Failures, Blank
<1>6. t \in disturbed' \/
        /\ r.at = "provider" => jar.state = r.state
        /\ r.at = "callback" => r.sent.state = r.state
        /\ r.at \notin {"stateMissing", "stateMismatch"}
  BY DEF Forbid, WebInv, WebTypeOK, TabShapes, Undisturbed, Failures, Blank
<1> HIDE DEF r
<1>7. QED
  BY <1>1, <1>2, <1>3, <1>4, <1>5, <1>6, InvKept

LEMMA ShowInv == ASSUME WebInv, NEW t \in Tabs, Show(t) PROVE WebInv'
<1> DEFINE r == [tab[t] EXCEPT !.at = "shown"]
<1>1. r \in TabShapes
  BY BlankType DEF Show, WebInv, WebTypeOK, TabShapes, Places, InLogin, Failures
<1>2. Move(t, r) /\ jar' = jar /\ issued' = issued
  BY DEF Show
<1>3. TabInv(r)
  BY DEF Show, WebInv, TabInv, SentIsPaired, KeepsPage, LoggedIn, InLogin, Failures, Blank
<1>4. disturbed' \subseteq Tabs /\ disturbed \subseteq disturbed' \cup {t}
  BY DEF Show, WebInv, WebTypeOK
<1>5. r.at \in InLogin =>
        tab[t].at \in InLogin /\ r.state = tab[t].state /\ r.asked = tab[t].asked
  BY DEF Show, WebInv, WebTypeOK, TabShapes, InLogin, Failures, Blank
<1>6. t \in disturbed' \/
        /\ r.at = "provider" => jar.state = r.state
        /\ r.at = "callback" => r.sent.state = r.state
        /\ r.at \notin {"stateMissing", "stateMismatch"}
  BY DEF Show, WebInv, WebTypeOK, TabShapes, Undisturbed, Failures, Blank
<1> HIDE DEF r
<1>7. QED
  BY <1>1, <1>2, <1>3, <1>4, <1>5, <1>6, InvKept

LEMMA RedirectInv == ASSUME WebInv, NEW t \in Tabs, Redirect(t) PROVE WebInv'
<1> DEFINE r == [tab[t] EXCEPT !.at = "login"]
<1>1. r \in TabShapes
  BY BlankType DEF Redirect, WebInv, WebTypeOK, TabShapes, Places, InLogin, Failures
<1>2. Move(t, r) /\ jar' = jar /\ issued' = issued
  BY DEF Redirect
<1>3. TabInv(r)
  BY DEF Redirect, WebInv, TabInv, SentIsPaired, KeepsPage, LoggedIn, InLogin, Failures, Blank
<1>4. disturbed' \subseteq Tabs /\ disturbed \subseteq disturbed' \cup {t}
  BY DEF Redirect, WebInv, WebTypeOK
<1>5. r.at \in InLogin =>
        tab[t].at \in InLogin /\ r.state = tab[t].state /\ r.asked = tab[t].asked
  BY DEF Redirect, WebInv, WebTypeOK, TabShapes, InLogin, Failures, Blank
<1>6. t \in disturbed' \/
        /\ r.at = "provider" => jar.state = r.state
        /\ r.at = "callback" => r.sent.state = r.state
        /\ r.at \notin {"stateMissing", "stateMismatch"}
  BY DEF Redirect, WebInv, WebTypeOK, TabShapes, Undisturbed, Failures, Blank
<1> HIDE DEF r
<1>7. QED
  BY <1>1, <1>2, <1>3, <1>4, <1>5, <1>6, InvKept

LEMMA LeaveProviderInv ==
  ASSUME WebInv, NEW t \in Tabs, LeaveProvider(t) PROVE WebInv'
<1>1. PICK code \in BOOLEAN :
         Move(t, [tab[t] EXCEPT !.at = "callback", !.sent = jar, !.code = code])
  BY DEF LeaveProvider
<1> DEFINE r == [tab[t] EXCEPT !.at = "callback", !.sent = jar, !.code = code]
<1>2. r \in TabShapes
  BY DEF WebInv, WebTypeOK, TabShapes, Places, InLogin, Failures
<1>3. Move(t, r) /\ jar' = jar /\ issued' = issued /\ disturbed' = disturbed
  BY <1>1 DEF LeaveProvider
<1>4. tab[t] \in TabShapes /\ tab[t].at = "provider"
  BY DEF LeaveProvider, WebInv, WebTypeOK
<1>5. r.at = "callback" /\ r.sent = jar /\ r.state = tab[t].state /\ r.asked = tab[t].asked
  BY <1>4 DEF TabShapes
<1>6. jar.state = tab[t].state => jar.returnTo = tab[t].asked
  BY <1>4 DEF WebInv, JarIsPaired, InLogin
<1>7. TabInv(r)
  BY <1>5, <1>6 DEF TabInv, SentIsPaired, KeepsPage, LoggedIn
<1>8. t \in disturbed \/ jar.state = tab[t].state
  BY <1>4 DEF WebInv, Undisturbed
<1>9. disturbed \subseteq Tabs /\ tab[t].at \in InLogin
  BY <1>4 DEF WebInv, WebTypeOK, InLogin
<1> HIDE DEF r
<1>10. QED
  BY <1>2, <1>3, <1>5, <1>7, <1>8, <1>9, InvKept

(* A callback that fails for its state belongs to a disturbed tab.          *)
LEMMA FailCallbackInv ==
  ASSUME WebInv, NEW t \in Tabs, NEW why \in Failures, FailCallback(t, why),
         why \in {"stateMissing", "stateMismatch"} => t \in disturbed
  PROVE  WebInv'
<1> DEFINE r == [tab[t] EXCEPT !.at = why]
<1>1. r \in TabShapes
  BY DEF WebInv, WebTypeOK, TabShapes, Places
<1>2. Move(t, r) /\ jar' = jar /\ issued' = issued /\ disturbed' = disturbed
  BY DEF FailCallback
<1>3. r.at = why /\ why \notin InLogin
  BY DEF WebInv, WebTypeOK, TabShapes, Failures, InLogin
<1>4. TabInv(r)
  BY <1>3 DEF TabInv, SentIsPaired, KeepsPage, LoggedIn, Failures
<1>5. t \in disturbed \/ r.at \notin {"stateMissing", "stateMismatch", "provider", "callback"}
  BY <1>3 DEF Failures
<1>6. disturbed \subseteq Tabs
  BY DEF WebInv, WebTypeOK
<1> HIDE DEF r
<1>7. QED
  BY <1>1, <1>2, <1>3, <1>4, <1>5, <1>6, InvKept

LEMMA RejectCallbackInv ==
  ASSUME WebInv, NEW t \in Tabs, RejectCallback(t) PROVE WebInv'
<1>1. tab[t].at = "callback"
  BY DEF RejectCallback
<1>2. tab[t].state \in 1..issued
  BY <1>1 DEF WebInv, WebTypeOK, InLogin
<1>3. tab[t].state # Absent
  BY <1>2, LoginsAssumption DEF WebInv, WebTypeOK
<1>4. tab[t].sent.state # tab[t].state => t \in disturbed
  BY <1>1 DEF WebInv, Undisturbed
<1>5. QED
  BY <1>3, <1>4, FailCallbackInv DEF RejectCallback, Failures

LEMMA AcceptCallbackInv ==
  ASSUME WebInv, NEW t \in Tabs, AcceptCallback(t) PROVE WebInv'
<1>1. tab[t] \in TabShapes /\ tab[t].at = "callback" /\ tab[t].sent.state = tab[t].state
  BY DEF AcceptCallback, WebInv, WebTypeOK
<1>2. tab[t].sent.returnTo = tab[t].asked /\ tab[t].asked \in Pages
  BY <1>1 DEF WebInv, TabInv, SentIsPaired, TabShapes
<1>3. ASSUME NEW token \in Tokens \ {"expired"},
             Move(t, [tab[t] EXCEPT !.at = "callbackAnswer", !.token = token,
                           !.page = IF tab[t].sent.returnTo = Absent THEN Home
                                    ELSE tab[t].sent.returnTo]),
             UNCHANGED <<jar, issued, disturbed>>
      PROVE  WebInv'
  <2> DEFINE r == [tab[t] EXCEPT !.at = "callbackAnswer", !.token = token,
                                 !.page = tab[t].asked]
  <2>1. token \in {"good", "opaque"}
    BY TokensAssumption
  <2>2. r \in TabShapes
    BY <1>1, <1>2, <2>1 DEF TabShapes, Places, InLogin
  <2>3. Move(t, r)
    BY <1>2, <1>3, PagesAssumption
  <2>4. /\ r.at = "callbackAnswer" /\ r.page = r.asked /\ r.token = token
        /\ r.state = tab[t].state /\ r.asked = tab[t].asked
    BY <1>1 DEF TabShapes
  <2>5. TabInv(r)
    BY <2>1, <2>4 DEF TabInv, SentIsPaired, KeepsPage, LoggedIn
  <2>6. disturbed \subseteq Tabs /\ tab[t].at \in InLogin
    BY <1>1 DEF WebInv, WebTypeOK, InLogin
  <2> HIDE DEF r
  <2>7. QED
    BY <1>3, <2>2, <2>3, <2>4, <2>5, <2>6, InvKept
<1>4. QED
  BY <1>3, FailCallbackInv DEF AcceptCallback, Failures

(* The state handed out is one nobody has.                                  *)
LEMMA HandleLoginInv ==
  ASSUME WebInv, NEW t \in Tabs, HandleLogin(t) PROVE WebInv'
<1> DEFINE r == [tab[t] EXCEPT !.at = "loginAnswer", !.state = issued + 1]
<1>1. /\ tab[t] \in TabShapes /\ issued \in 0..MaxLogins /\ issued + 1 \in States
      /\ issued + 1 \in issued..MaxLogins /\ issued + 1 \in 1..(issued + 1)
      /\ issued + 1 \notin 1..issued
  BY LoginsAssumption DEF HandleLogin, WebInv, WebTypeOK, States
<1>2. r \in TabShapes
  BY <1>1 DEF TabShapes, Places, InLogin
<1>3. /\ r.at = "loginAnswer" /\ r.state = issued + 1
      /\ r.page = tab[t].page /\ r.asked = tab[t].asked
  BY <1>1 DEF TabShapes
<1>4. Move(t, r) /\ jar' = jar /\ issued' = issued + 1 /\ disturbed' = disturbed
  BY DEF HandleLogin
<1>5. tab[t].page = tab[t].asked
  BY DEF HandleLogin, WebInv, TabInv, KeepsPage
<1>6. TabInv(r)
  BY <1>3, <1>5 DEF TabInv, SentIsPaired, KeepsPage, LoggedIn
<1>7. tab[t].at = "login"
  BY DEF HandleLogin
<1> HIDE DEF r
<1>8. /\ tab'[t] = r
      /\ \A u \in Tabs \ {t} : tab'[u] = tab[u]
  BY <1>2, <1>4, MoveOne DEF WebInv, WebTypeOK
<1>9. WebTypeOK'
  BY <1>1, <1>2, <1>3, <1>4, TypeKept DEF WebInv, WebTypeOK
<1>10. \A u \in Tabs : tab[u].at \in InLogin => tab[u].state # issued + 1
  BY <1>1 DEF WebInv, WebTypeOK
<1>11. StatesDiffer'
  BY <1>3, <1>8, <1>10 DEF WebInv, StatesDiffer
<1>12. jar.state # issued + 1
  BY <1>1, LoginsAssumption DEF WebInv, JarIsPaired
<1>13. jar.state # Absent => jar.state \in 1..(issued + 1)
  BY <1>1 DEF WebInv, JarIsPaired
<1>14. JarIsPaired'
  BY <1>3, <1>4, <1>8, <1>12, <1>13 DEF WebInv, JarIsPaired
<1>15. Undisturbed'
  BY <1>3, <1>4, <1>8 DEF WebInv, Undisturbed
<1>16. QED
  BY <1>6, <1>8, <1>9, <1>11, <1>14, <1>15 DEF WebInv

(* The pair of cookies now is that of the tab; every other one that waits   *)
(* at the provider is disturbed.                                            *)
LEMMA ReceiveLoginInv ==
  ASSUME WebInv, NEW t \in Tabs, ReceiveLogin(t) PROVE WebInv'
<1> DEFINE r == [tab[t] EXCEPT !.at = "provider", !.sent = NoCookies]
<1>1. tab[t] \in TabShapes /\ tab[t].at = "loginAnswer" /\ jar \in Cookies
  BY DEF ReceiveLogin, WebInv, WebTypeOK
<1>2. r \in TabShapes
  BY <1>1, BlankType DEF TabShapes, Places, InLogin
<1>3. r.at = "provider" /\ r.state = tab[t].state /\ r.asked = tab[t].asked
  BY <1>1 DEF TabShapes
<1>4. Move(t, r) /\ issued' = issued /\ disturbed' = (disturbed \cup AtProvider) \ {t}
  BY DEF ReceiveLogin
<1>5. tab[t].state \in States /\ tab[t].state \in 1..issued /\ tab[t].page = tab[t].asked
      /\ tab[t].page \in Pages
  BY <1>1, LoginsAssumption
  DEF WebInv, WebTypeOK, TabInv, KeepsPage, InLogin, States, TabShapes
<1>6. jar' = [jar EXCEPT !.state = tab[t].state, !.returnTo = tab[t].page]
  BY DEF ReceiveLogin
<1>7. /\ jar'.state = tab[t].state /\ jar'.returnTo = tab[t].page
      /\ jar' \in Cookies
  BY <1>1, <1>5, <1>6 DEF Cookies
<1>8. TabInv(r)
  BY <1>3 DEF TabInv, SentIsPaired, KeepsPage, LoggedIn
<1> HIDE DEF r
<1>9. /\ tab'[t] = r
      /\ \A u \in Tabs \ {t} : tab'[u] = tab[u]
  BY <1>2, <1>4, MoveOne DEF WebInv, WebTypeOK
<1>10. WebTypeOK'
  BY <1>2, <1>3, <1>4, <1>5, <1>7, TypeKept, LoginsAssumption DEF WebInv, WebTypeOK, AtProvider
<1>11. tab[t].at \in InLogin /\ r.at \in InLogin
  BY <1>1, <1>3 DEF InLogin
<1>12. StatesDiffer'
  BY <1>3, <1>9, <1>11 DEF WebInv, StatesDiffer
<1>13. \A u \in Tabs \ {t} : tab[u].at \in InLogin => tab[u].state # tab[t].state
  BY <1>11 DEF WebInv, StatesDiffer
<1>14. JarIsPaired'
  BY <1>3, <1>4, <1>5, <1>7, <1>9, <1>13 DEF JarIsPaired
<1>15. Undisturbed'
  BY <1>3, <1>4, <1>7, <1>9 DEF WebInv, Undisturbed, AtProvider
<1>16. QED
  BY <1>8, <1>9, <1>10, <1>12, <1>14, <1>15 DEF WebInv

LEMMA ReceiveCallbackInv ==
  ASSUME WebInv, NEW t \in Tabs, ReceiveCallback(t) PROVE WebInv'
<1> DEFINE cleared == [state |-> Absent, returnTo |-> Absent, token |-> tab[t].token]
           r == [tab[t] EXCEPT !.at = "get", !.sent = cleared, !.loggedIn = TRUE,
                               !.state = Absent, !.token = Absent, !.code = FALSE]
<1>1. tab[t] \in TabShapes /\ tab[t].at = "callbackAnswer"
  BY DEF ReceiveCallback, WebInv, WebTypeOK
<1>2. cleared \in Cookies /\ cleared.state = Absent /\ cleared.token = tab[t].token
  BY <1>1 DEF TabShapes, Cookies
<1>3. Move(t, r) /\ issued' = issued /\ disturbed' = disturbed \cup AtProvider
      /\ jar' = cleared
  BY DEF ReceiveCallback
<1> HIDE DEF cleared
<1>4. r \in TabShapes
  BY <1>1, <1>2 DEF TabShapes, Places
<1>5. r.at = "get" /\ r.page = tab[t].page /\ r.asked = tab[t].asked /\ r.sent = cleared
  BY <1>1 DEF TabShapes
<1>6. tab[t].page = tab[t].asked /\ tab[t].token \in {"good", "opaque"}
  BY <1>1 DEF WebInv, TabInv, KeepsPage, LoggedIn
<1>7. TabInv(r)
  BY <1>2, <1>5, <1>6 DEF TabInv, SentIsPaired, KeepsPage, LoggedIn
<1> HIDE DEF r
<1>8. /\ tab'[t] = r
      /\ \A u \in Tabs \ {t} : tab'[u] = tab[u]
  BY <1>3, <1>4, MoveOne DEF WebInv, WebTypeOK
<1>9. r.at \notin InLogin
  BY <1>5 DEF InLogin
<1>10. WebTypeOK'
  BY <1>2, <1>3, <1>4, <1>9, TypeKept, LoginsAssumption DEF WebInv, WebTypeOK, AtProvider
<1>11. StatesDiffer'
  BY <1>8, <1>9 DEF WebInv, StatesDiffer
<1>12. \A u \in Tabs : tab'[u].at \in InLogin => tab'[u].state # Absent
  BY <1>10, LoginsAssumption DEF WebTypeOK
<1>13. JarIsPaired'
  BY <1>2, <1>3, <1>12 DEF JarIsPaired
<1>14. Undisturbed'
  BY <1>3, <1>5, <1>8 DEF WebInv, Undisturbed, AtProvider
<1>15. QED
  BY <1>7, <1>8, <1>10, <1>11, <1>13, <1>14 DEF WebInv

LEMMA ExpiryInv ==
  ASSUME WebInv, ExpireLogin \/ ExpireToken PROVE WebInv'
<1>1. /\ tab' = tab /\ issued' = issued /\ jar \in Cookies
      /\ disturbed \subseteq disturbed' /\ disturbed' \subseteq Tabs
  BY DEF ExpireLogin, ExpireToken, AtProvider, WebInv, WebTypeOK
<1>2. /\ jar' \in Cookies
      /\ jar'.state = Absent \/ (jar'.state = jar.state /\ jar'.returnTo = jar.returnTo)
  BY <1>1 DEF ExpireLogin, ExpireToken, Cookies
<1>3. jar'.state = jar.state \/ AtProvider \subseteq disturbed'
  BY <1>1 DEF ExpireLogin, ExpireToken, Cookies
<1>4. WebTypeOK' /\ StatesDiffer' /\ (\A t \in Tabs : TabInv(tab[t]))'
  BY <1>1, <1>2 DEF WebInv, WebTypeOK, StatesDiffer
<1>5. \A t \in Tabs : tab[t].at \in InLogin => tab[t].state # Absent
  BY LoginsAssumption DEF WebInv, WebTypeOK
<1>6. JarIsPaired'
  BY <1>1, <1>2, <1>5 DEF WebInv, JarIsPaired
<1>7. Undisturbed'
  BY <1>1, <1>3 DEF WebInv, Undisturbed, AtProvider
<1>8. QED
  BY <1>4, <1>6, <1>7 DEF WebInv

LEMMA WebStepInv == WebInv /\ [WebNext]_webVars => WebInv'
<1> SUFFICES ASSUME WebInv, [WebNext]_webVars PROVE WebInv'
  OBVIOUS
<1>1. ASSUME NEW t \in Tabs, LoginStep(t) PROVE WebInv'
  BY <1>1, RedirectInv, HandleLoginInv, ReceiveLoginInv, LeaveProviderInv,
     RejectCallbackInv, AcceptCallbackInv, ReceiveCallbackInv DEF LoginStep
<1>2. ASSUME NEW t \in Tabs, UserStep(t) PROVE WebInv'
  BY <1>2, VisitInv, VisitLoginInv, QuitInv DEF UserStep
<1>3. ASSUME NEW t \in Tabs, Admit(t) \/ Forbid(t) \/ Show(t) PROVE WebInv'
  BY <1>3, AdmitInv, ForbidInv, ShowInv
<1>4. CASE ExpireLogin \/ ExpireToken
  BY <1>4, ExpiryInv
<1>5. CASE UNCHANGED webVars
  <2>1. jar' = jar /\ tab' = tab /\ issued' = issued /\ disturbed' = disturbed
    BY <1>5 DEF webVars
  <2>2. WebTypeOK' /\ StatesDiffer' /\ JarIsPaired'
    BY <2>1 DEF WebInv, WebTypeOK, StatesDiffer, JarIsPaired
  <2>3. Undisturbed' /\ (\A t \in Tabs : TabInv(tab[t]))'
    BY <2>1 DEF WebInv, Undisturbed
  <2>4. QED
    BY <2>2, <2>3 DEF WebInv
<1>6. QED
  BY <1>1, <1>2, <1>3, <1>4, <1>5 DEF WebNext

-------------------------------------------------------------------------------
(* The invariant holds in every state of the web login.                     *)
THEOREM WebInvariant == WebSpec => []WebInv
  BY WebInitInv, WebStepInv, PTL DEF WebSpec

(* Every variable keeps its type, and a tab on its way through a login has  *)
(* a state that was handed out.                                             *)
THEOREM WebTypeCorrect == WebSpec => []WebTypeOK
<1>1. WebInv => WebTypeOK
  BY DEF WebInv
<1>2. QED
  BY <1>1, WebInvariant, PTL

(* However many tabs log in at once over one pair of cookies, whoever gets  *)
(* through handleCallback is led to the page its own tab was opened for.    *)
THEOREM LoginReturnsToOwnPage == WebSpec => []ReturnsToOwnPage
<1>1. WebInv => ReturnsToOwnPage
  BY DEF WebInv, TabInv, KeepsPage, ReturnsToOwnPage
<1>2. QED
  BY <1>1, WebInvariant, PTL

(* handleCallback turns a tab away for its state only if another login or   *)
(* the lifetime of the cookies took the state from it, and a login that     *)
(* brought a token that verifies is not followed by another.                *)
THEOREM WebLoginFailureExplained == WebSpec => []LoginFailureExplained
<1>1. WebInv => LoginFailureExplained
  BY DEF WebInv, TabInv, LoggedIn, Undisturbed, LoginFailureExplained
<1>2. QED
  BY <1>1, WebInvariant, PTL

-------------------------------------------------------------------------------
(* Frontend: the composition of the two                                     *)

CrowdOK == open \in BOOLEAN /\ crowd \in Crowds

LEMMA CrowdInvariant == Spec => []CrowdOK
<1>1. Init => CrowdOK
  BY DEF Init, CrowdOK
<1>2. CrowdOK /\ [Next]_vars => CrowdOK'
  BY DEF CrowdOK, Next, vars, ServerStep, ClientStep, PageStep, BrowserStep, CookiesExpire,
         AllAnswered
<1>3. QED
  BY <1>1, <1>2, PTL DEF Spec

LEMMA WebStep == CrowdOK /\ [Next]_vars => [WebNext]_webVars
<1> SUFFICES ASSUME CrowdOK, [Next]_vars PROVE [WebNext]_webVars
  OBVIOUS
<1>1. ASSUME NEW t \in crowd \cap Tabs, PageStep(t) \/ BrowserStep(t) PROVE WebNext
  BY <1>1 DEF PageStep, BrowserStep, TabIsServed, TabIsAnswered, WebNext
<1>2. CASE CookiesExpire
  BY <1>2 DEF CookiesExpire, WebNext
<1>3. CASE \/ \E c \in crowd : ServerStep(c)
           \/ \E c \in crowd \cap Clients : ClientStep(c)
           \/ AllAnswered \/ UNCHANGED vars
  BY <1>3 DEF ServerStep, ClientStep, ClientCalls, AllAnswered, vars, webVars
<1>4. QED
  BY <1>1, <1>2, <1>3 DEF Next

(* What a browser sees of the whole server is a behaviour of the web login. *)
THEOREM FrontendImplementsWebLogin == Spec => WebSpec
<1>1. Init => WebInit
  BY DEF Init
<1>2. QED
  BY <1>1, WebStep, CrowdInvariant, PTL DEF Spec, WebSpec

LEMMA ManagementStep ==
  CrowdOK /\ WebTypeOK /\ [Next]_vars => [ManagementNext]_managementVars
<1> SUFFICES ASSUME CrowdOK, WebTypeOK, [Next]_vars PROVE [ManagementNext]_managementVars
  OBVIOUS
<1>1. crowd \subseteq Callers
  BY CrowdsAssumption DEF CrowdOK
<1>2. ASSUME NEW c \in crowd, ServerStep(c) PROVE ManagementNext
  BY <1>1, <1>2 DEF ServerStep, ManagementNext
<1>3. ASSUME NEW c \in crowd \cap Clients, ClientStep(c) PROVE ManagementNext
  <2>1. \/ \E how \in {"unauthorized", "forbidden", "badRequest"} : Refuse(c, how)
        \/ \E k \in Calls : Receive(c, k)
    BY <1>3 DEF ClientStep, ClientCalls
  <2>2. QED
    BY <1>1, <2>1 DEF ManagementNext, Refusals
<1>4. ASSUME NEW t \in crowd \cap Tabs, PageStep(t) PROVE [ManagementNext]_managementVars
  <2>1. tab[t].page \in Calls
    BY BrowseAssumption DEF WebTypeOK, TabShapes
  <2>2. CASE open /\ Admit(t) /\ Receive(t, tab[t].page)
    BY <1>1, <2>1, <2>2 DEF ManagementNext
  <2>3. CASE TabIsAnswered(t)
    BY <1>1, <2>3 DEF TabIsAnswered, ManagementNext
  <2>4. QED
    BY <1>4, <2>2, <2>3 DEF PageStep, TabIsServed
<1>5. CASE \/ \E t \in crowd \cap Tabs : BrowserStep(t)
           \/ CookiesExpire \/ AllAnswered \/ UNCHANGED vars
  BY <1>5 DEF BrowserStep, CookiesExpire, AllAnswered, vars
<1>6. QED
  BY <1>2, <1>3, <1>4, <1>5 DEF Next

(* Whoever comes, over the API or through a browser that had to log in, is  *)
(* a caller of the tables as Management has them.                           *)
THEOREM FrontendImplementsManagement == Spec => ManagementSpec
<1>1. Init => ManagementInit
  BY DEF Init
<1>2. QED
  BY <1>1, ManagementStep, CrowdInvariant, FrontendImplementsWebLogin, WebTypeCorrect, PTL
  DEF Spec, ManagementSpec

-------------------------------------------------------------------------------
(* A tab and the request that fetches its page                              *)

PageIsFetched == \A t \in Tabs : pc[t] # "idle" <=> tab[t].at = "serving"

LEMMA PageIsFetchedStep ==
  /\ CrowdOK /\ WebTypeOK /\ ManagementTypeOK /\ PageIsFetched /\ [Next]_vars
  => PageIsFetched'
<1> SUFFICES ASSUME CrowdOK, WebTypeOK, ManagementTypeOK, PageIsFetched, [Next]_vars,
                    NEW u \in Tabs
             PROVE  pc'[u] # "idle" <=> tab'[u].at = "serving"
  BY DEF PageIsFetched
<1>1. /\ Tabs \subseteq Callers /\ crowd \subseteq Callers /\ Clients \cap Tabs = {}
      /\ tab \in [Tabs -> TabShapes] /\ tab[u] \in TabShapes
      /\ \A t \in Tabs : tab[t] \in TabShapes
      /\ pc[u] # "idle" <=> tab[u].at = "serving"
  BY CallersAssumption, CrowdsAssumption DEF CrowdOK, WebTypeOK, PageIsFetched
<1>2. ASSUME NEW c \in crowd, ServerStep(c) PROVE pc'[u] # "idle" <=> tab'[u].at = "serving"
  <2>1. HandlerStep(c) /\ tab' = tab
    BY <1>2 DEF ServerStep, webVars
  <2>2. (pc'[u] # "idle") <=> (pc[u] # "idle")
    BY <1>1, <2>1, HandlerFrame
    DEF Frame, HandlerStep, CheckRegistry, InsertRegistry, FindRegistry, CheckRepository,
        InsertRepository, List, ValidateRegistry, ValidateRepository, Dispatch,
        BrowseRepository, Render, ManagementTypeOK, Goto, Answer, Struck, DbFails
  <2>3. QED
    BY <1>1, <2>1, <2>2
<1>3. ASSUME NEW c \in crowd \cap Clients, ClientStep(c)
      PROVE  pc'[u] # "idle" <=> tab'[u].at = "serving"
  <2>1. tab' = tab /\ c # u
    BY <1>1, <1>3 DEF ClientStep, ClientCalls, webVars
  <2>2. pc'[u] = pc[u]
    BY <1>1, <1>3, <2>1
    DEF ClientStep, ClientCalls, Refuse, Receive, Answer, Goto, ManagementTypeOK
  <2>3. QED
    BY <1>1, <2>1, <2>2
<1>4. ASSUME NEW t \in crowd \cap Tabs, PageStep(t)
      PROVE  pc'[u] # "idle" <=> tab'[u].at = "serving"
  <2>1. CASE open /\ Admit(t) /\ Receive(t, tab[t].page)
    BY <1>1, <2>1 DEF Admit, Move, Receive, Goto, ManagementTypeOK, TabShapes
  <2>2. CASE Forbid(t) /\ UNCHANGED managementVars
    BY <1>1, <2>2 DEF Forbid, Move, managementVars, TabShapes
  <2>3. CASE TabIsAnswered(t)
    BY <1>1, <2>3 DEF TabIsAnswered, Show, Move, Release, ManagementTypeOK, TabShapes
  <2>4. QED
    BY <1>4, <2>1, <2>2, <2>3 DEF PageStep, TabIsServed
<1>5. ASSUME NEW t \in crowd \cap Tabs, BrowserStep(t)
      PROVE  pc'[u] # "idle" <=> tab'[u].at = "serving"
  <2>1. pc' = pc
    BY <1>5 DEF BrowserStep, managementVars
  <2>2. tab[t] \in TabShapes
    BY <1>1
  <2>3. tab[t].at # "serving" /\ \E r : r.at # "serving" /\ Move(t, r)
    <3>1. CASE UserStep(t)
      BY <2>2, <3>1 DEF UserStep, Visit, VisitLogin, Quit, Blank, TabShapes, Failures
    <3>2. CASE Redirect(t) \/ HandleLogin(t) \/ ReceiveLogin(t) \/ LeaveProvider(t)
      BY <2>2, <3>2 DEF Redirect, HandleLogin, ReceiveLogin, LeaveProvider, TabShapes
    <3>3. CASE RejectCallback(t) \/ AcceptCallback(t)
      BY <2>2, <3>3 DEF RejectCallback, AcceptCallback, FailCallback, TabShapes
    <3>4. CASE ReceiveCallback(t)
      BY <2>2, <3>4 DEF ReceiveCallback, TabShapes
    <3>5. QED
      BY <1>5, <3>1, <3>2, <3>3, <3>4 DEF BrowserStep, LoginStep
  <2>4. tab'[u].at = "serving" <=> tab[u].at = "serving"
    BY <1>1, <2>3 DEF Move
  <2>5. QED
    BY <1>1, <2>1, <2>4
<1>6. CASE CookiesExpire \/ AllAnswered \/ UNCHANGED vars
  BY <1>1, <1>6
  DEF CookiesExpire, ExpireLogin, ExpireToken, AllAnswered, vars, managementVars, webVars
<1>7. QED
  BY <1>2, <1>3, <1>4, <1>5, <1>6 DEF Next

(* Both components keep their types when they are put together, and the     *)
(* server works on a tab's request exactly while the tab waits.             *)
THEOREM FrontendTypeCorrect == Spec => []TypeOK
<1>1. Init => PageIsFetched
  BY CallersAssumption DEF Init, ManagementInit, WebInit, Blank, PageIsFetched
<1>2. Spec => []ManagementTypeOK /\ []WebTypeOK
  BY FrontendImplementsManagement, ManagementTypeCorrect,
     FrontendImplementsWebLogin, WebTypeCorrect
<1>3. Spec => []PageIsFetched
  BY <1>1, <1>2, PageIsFetchedStep, CrowdInvariant, PTL DEF Spec
<1>4. CrowdOK /\ ManagementTypeOK /\ WebTypeOK /\ PageIsFetched => TypeOK
  BY DEF CrowdOK, PageIsFetched, TypeOK
<1>5. QED
  BY <1>2, <1>3, <1>4, CrowdInvariant, PTL

(* Nobody else is told "created", whichever way the requests came.          *)
THEOREM FrontendOneCreator == Spec => []OneCreator
  BY FrontendImplementsManagement, ManagementOneCreator

(* What was acknowledged to one client serves every other, and the pages of *)
(* a browser.                                                               *)
THEOREM FrontendAcknowledgedIsUsable == Spec => []AcknowledgedIsUsable
  BY FrontendImplementsManagement, ManagementAcknowledgedIsUsable

(* Only a rival makes a creation fail that meets no fault.                  *)
THEOREM FrontendFailureHasRival == Spec => []FailureHasRival
  BY FrontendImplementsManagement, ManagementFailureHasRival

(* A login that starts on a page of the browser ends on it.                 *)
THEOREM FrontendReturnsToOwnPage == Spec => []ReturnsToOwnPage
  BY FrontendImplementsWebLogin, LoginReturnsToOwnPage

(* A login fails for its state only if it was disturbed.                    *)
THEOREM FrontendLoginFailureExplained == Spec => []LoginFailureExplained
  BY FrontendImplementsWebLogin, WebLoginFailureExplained

===============================================================================
