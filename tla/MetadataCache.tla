----------------------------- MODULE MetadataCache -----------------------------
(***************************************************************************)
(* CacheService.FetchMetadata of internal/proxy for one cache key: the     *)
(* package index of an upstream registry is kept in the bucket without an  *)
(* expiry.  A request that finds it answers from it and leaves a goroutine *)
(* behind that asks upstream and replaces a copy that differs from the one *)
(* the request had read; requests that find nothing share one synchronous  *)
(* fetch (singleflight).  Every step is one call of the bucket or of the   *)
(* upstream.                                                               *)
(*                                                                         *)
(* The index only ever changes upstream: it is modelled by its version.    *)
(***************************************************************************)
EXTENDS Naturals

CONSTANTS
    Requests,    \* requests that may be in the server at the same time
    MaxVersion,  \* bound: how often the upstream index can change
    Faults,      \* the kinds of failure the environment may produce
    None,        \* nothing cached, no leader, nothing received
    Torn         \* a copy cut short by a failed write

ASSUME VersionAssumption == MaxVersion \in Nat \ {0}

ASSUME CacheFaultsAssumption ==
    Faults \subseteq {"get", "put", "close", "upstream", "crash"}

Versions == 1..MaxVersion

ASSUME MarksAssumption ==
    None \notin Requests \cup Versions /\ Torn \notin Versions /\ None # Torn

VARIABLES
    upstream,  \* the version upstream serves now
    cache,     \* what the bucket holds under the key
    flight,    \* the request that leads the synchronous fetch, or None
    pc,        \* request -> the next call of FetchMetadata
    got,       \* request -> the content it was answered with, or None
    bg,        \* request -> the next call of its revalidateMetadata, or "none"
    fetched,   \* request -> what it, or its goroutine, got from upstream
    raced,     \* history: fetches after which someone else wrote the cache
    calm       \* from now on the environment produces no more failures

vars == <<upstream, cache, flight, pc, got, bg, fetched, raced, calm>>

Failing(kind) == kind \in Faults /\ ~calm

(* The bucket outlives the process: any earlier run may have filled it.     *)
Init ==
    /\ upstream = 1
    /\ cache \in {None, Torn, 1}
    /\ flight = None
    /\ pc = [r \in Requests |-> "idle"]
    /\ got = [r \in Requests |-> None]
    /\ bg = [r \in Requests |-> "none"]
    /\ fetched = [r \in Requests |-> None]
    /\ raced = {}
    /\ calm = FALSE

-------------------------------------------------------------------------------
(* FetchMetadata                                                            *)

(* A slot is free again when its request and its goroutine have ended.      *)
Start(r) ==
    /\ pc[r] \in {"idle", "done"} /\ bg[r] = "none"
    /\ pc' = [pc EXCEPT ![r] = "read"]
    /\ got' = [got EXCEPT ![r] = None]
    /\ fetched' = [fetched EXCEPT ![r] = None]
    /\ raced' = raced \ {r}
    /\ UNCHANGED <<upstream, cache, flight, bg, calm>>

(* A hit answers at once and spawns the revalidation, whose context is not  *)
(* the request's; an error on opening or reading counts as a miss.          *)
ReadCache(r) ==
    /\ pc[r] = "read"
    /\ \/ /\ cache # None
          /\ got' = [got EXCEPT ![r] = cache]
          /\ pc' = [pc EXCEPT ![r] = "done"]
          /\ bg' = [bg EXCEPT ![r] = "fetch"]
       \/ /\ cache = None \/ Failing("get")
          /\ pc' = [pc EXCEPT ![r] = "join"]
          /\ UNCHANGED <<got, bg>>
    /\ UNCHANGED <<upstream, cache, flight, fetched, raced, calm>>

Join(r) ==
    /\ pc[r] = "join"
    /\ \/ /\ flight = None
          /\ flight' = r
          /\ pc' = [pc EXCEPT ![r] = "fetch"]
       \/ /\ flight # None
          /\ pc' = [pc EXCEPT ![r] = "waiting"]
          /\ UNCHANGED flight
    /\ UNCHANGED <<upstream, cache, got, bg, fetched, raced, calm>>

(* Mutant: the waiters of a failed flight are not told.                     *)
LandLeaderOnly(r, content) ==
    /\ flight' = None
    /\ pc' = [pc EXCEPT ![r] = "done"]
    /\ got' = [got EXCEPT ![r] = content]

(* The flight ends: its leader and all its waiters answer what it returned, *)
(* None standing for the error.                                             *)
Land(r, content) ==
    LET landing == {w \in Requests : w = r \/ pc[w] = "waiting"} IN
    /\ flight' = None
    /\ pc' = [w \in Requests |-> IF w \in landing THEN "done" ELSE pc[w]]
    /\ got' = [w \in Requests |-> IF w \in landing THEN content ELSE got[w]]

(* The fetch uses the context of the leader: its client going away fails it *)
(* for everyone, like an upstream that answers with an error.               *)
FetchUpstream(r) ==
    /\ pc[r] = "fetch"
    /\ \/ /\ fetched' = [fetched EXCEPT ![r] = upstream]
          /\ pc' = [pc EXCEPT ![r] = "save"]
          /\ UNCHANGED <<flight, got>>
       \/ Failing("upstream") /\ Land(r, None) /\ UNCHANGED fetched
    /\ UNCHANGED <<upstream, cache, bg, raced, calm>>

(* Everyone else who has fetched by now holds what is older than this write.*)
WriteCache(r, content) ==
    /\ cache' = content
    /\ raced' = raced \cup {w \in Requests \ {r} : pc[w] = "save" \/ bg[w] = "save"}

(* storage.Put as FetchMetadata uses it: every error is ignored.            *)
Put(r) ==
    \/ WriteCache(r, fetched[r])
    \/ Failing("put") /\ WriteCache(r, Torn)
    \/ (Failing("put") \/ Failing("close")) /\ UNCHANGED <<cache, raced>>

SaveFetched(r) ==
    /\ pc[r] = "save"
    /\ Put(r)
    /\ Land(r, fetched[r])
    /\ UNCHANGED <<upstream, bg, fetched, calm>>

-------------------------------------------------------------------------------
(* revalidateMetadata, in the goroutine left behind by a hit                *)

(* Mutant: a response that differs is not written.                          *)
RevalidateNever(r) ==
    /\ bg[r] = "fetch"
    /\ bg' = [bg EXCEPT ![r] = "none"]
    /\ fetched' = [fetched EXCEPT ![r] = upstream]
    /\ UNCHANGED <<upstream, cache, flight, pc, got, raced, calm>>

(* The hash of the response is compared with that of the content the        *)
(* request had read, got[r], not with what the bucket holds by now.         *)
Revalidate(r) ==
    /\ bg[r] = "fetch"
    /\ \/ /\ fetched' = [fetched EXCEPT ![r] = upstream]
          /\ bg' = [bg EXCEPT ![r] = IF upstream # got[r] THEN "save" ELSE "none"]
       \/ /\ Failing("upstream")
          /\ bg' = [bg EXCEPT ![r] = "none"]
          /\ UNCHANGED fetched
    /\ UNCHANGED <<upstream, cache, flight, pc, got, raced, calm>>

(* Mutant: the old content is written back instead of the new.              *)
SaveRevalidatedOld(r) ==
    /\ bg[r] = "save"
    /\ WriteCache(r, got[r])
    /\ bg' = [bg EXCEPT ![r] = "none"]
    /\ UNCHANGED <<upstream, flight, pc, got, fetched, calm>>

SaveRevalidated(r) ==
    /\ bg[r] = "save"
    /\ Put(r)
    /\ bg' = [bg EXCEPT ![r] = "none"]
    /\ UNCHANGED <<upstream, flight, pc, got, fetched, calm>>

-------------------------------------------------------------------------------
(* The environment                                                          *)

Publish ==
    /\ upstream < MaxVersion
    /\ upstream' = upstream + 1
    /\ UNCHANGED <<cache, flight, pc, got, bg, fetched, raced, calm>>

(* The process dies with its requests, goroutines and flight.               *)
Crash ==
    /\ Failing("crash")
    /\ flight' = None
    /\ pc' = [r \in Requests |-> "idle"]
    /\ got' = [r \in Requests |-> None]
    /\ bg' = [r \in Requests |-> "none"]
    /\ fetched' = [r \in Requests |-> None]
    /\ raced' = {}
    /\ UNCHANGED <<upstream, cache, calm>>

CalmDown ==
    /\ ~calm
    /\ calm' = TRUE
    /\ UNCHANGED <<upstream, cache, flight, pc, got, bg, fetched, raced>>

RequestStep(r) == ReadCache(r) \/ Join(r) \/ FetchUpstream(r) \/ SaveFetched(r)

RevalidateStep(r) == Revalidate(r) \/ SaveRevalidated(r)

Next ==
    \/ \E r \in Requests : Start(r) \/ RequestStep(r) \/ RevalidateStep(r)
    \/ Publish
    \/ Crash
    \/ CalmDown

Spec == Init /\ [][Next]_vars

(* Goroutines keep running and an upstream that was asked answers.  Of the  *)
(* environment: clients keep asking, and failures cease some day.           *)
Fairness ==
    /\ \A r \in Requests : WF_vars(RequestStep(r)) /\ WF_vars(RevalidateStep(r))
    /\ \A r \in Requests : WF_vars(Start(r))
    /\ WF_vars(CalmDown)

FairSpec == Spec /\ Fairness

-------------------------------------------------------------------------------
(* Properties                                                               *)

Copies == Versions \cup {None, Torn}

(* Every variable has its type; only the leader of the flight is inside it, *)
(* every waiter has a flight to wait for, a request never fetches while a   *)
(* goroutine of its own revalidates, and who is to write has something.     *)
TypeOK ==
    /\ upstream \in Versions /\ cache \in Copies /\ calm \in BOOLEAN
    /\ pc \in [Requests -> {"idle", "read", "join", "waiting", "fetch", "save", "done"}]
    /\ bg \in [Requests -> {"none", "fetch", "save"}]
    /\ got \in [Requests -> Copies]
    /\ fetched \in [Requests -> Versions \cup {None}]
    /\ flight \in Requests \cup {None} /\ raced \subseteq Requests
    /\ \A r \in Requests : /\ pc[r] \in {"fetch", "save"} <=> flight = r
                           /\ pc[r] = "waiting" => flight # None
                           /\ bg[r] # "none" => pc[r] = "done" /\ got[r] # None
                           /\ pc[r] = "save" \/ bg[r] = "save" => fetched[r] # None

(* The cached index goes back to an older version only by a write whose     *)
(* fetch was overtaken by someone else's write: two revalidations that      *)
(* overlap can do it, one alone cannot, whatever fails or is restarted.     *)
RegressesOnlyWhenRaced ==
    [][\A v \in Versions :
          cache = v /\ cache' \in 1..(v - 1)
              => \E r \in raced :
                    /\ fetched[r] = cache'
                    /\ \/ pc[r] = "save" /\ pc'[r] = "done"
                       \/ bg[r] = "save" /\ bg'[r] = "none"]_vars

(* Whatever was torn, lost or written in the wrong order, the cache holds   *)
(* the current index in the end once upstream and the failures rest.        *)
Converges == <>[](cache = upstream)

(* Every request is answered, those that waited for someone else's fetch    *)
(* included.                                                                *)
EveryRequestIsAnswered == \A r \in Requests : pc[r] = "read" ~> pc[r] \in {"done", "idle"}

===============================================================================
