-------------------------- MODULE MetadataCache_proofs --------------------------
(***************************************************************************)
(* Theorems about MetadataCache, for any number of requests, versions of   *)
(* the upstream index and faults.                                          *)
(***************************************************************************)
EXTENDS MetadataCache, TLAPS

(* The two writers of the cache: the flight and the revalidations.          *)
Writing(r) == pc[r] = "save" \/ bg[r] = "save"

(* Nothing is newer than upstream.                                          *)
NothingIsNewer ==
    /\ cache \in Versions => cache <= upstream
    /\ \A r \in Requests : fetched[r] \in Versions => fetched[r] <= upstream

(* A writer that nobody has overtaken since it fetched holds nothing older  *)
(* than the cache.                                                          *)
WritersAreFresh ==
    \A r \in Requests \ raced :
        Writing(r) /\ cache \in Versions => cache <= fetched[r]

CacheInv == NothingIsNewer /\ WritersAreFresh

-------------------------------------------------------------------------------
(* Type correctness                                                         *)

Pcs == {"idle", "read", "join", "waiting", "fetch", "save", "done"}

LEMMA LandType ==
  ASSUME TypeOK, NEW r \in Requests, pc[r] \in {"fetch", "save"},
         NEW content \in Copies, Land(r, content)
  PROVE  /\ flight' = None
         /\ pc' \in [Requests -> Pcs]
         /\ got' \in [Requests -> Copies]
         /\ \A w \in Requests : /\ pc'[w] \notin {"fetch", "save", "waiting"}
                                /\ pc[w] = "done" => pc'[w] = "done" /\ got'[w] = got[w]
<1> DEFINE landing == {w \in Requests : w = r \/ pc[w] = "waiting"}
<1>1. /\ flight' = None
      /\ pc' = [w \in Requests |-> IF w \in landing THEN "done" ELSE pc[w]]
      /\ got' = [w \in Requests |-> IF w \in landing THEN content ELSE got[w]]
  BY DEF Land
<1>2. \A w \in Requests \ {r} : pc[w] \notin {"fetch", "save"}
  BY DEF TypeOK
<1>3. \A w \in Requests : pc[w] = "done" => w \notin landing
  OBVIOUS
<1>4. QED BY <1>1, <1>2, <1>3 DEF TypeOK, Pcs

LEMMA PutType ==
  ASSUME TypeOK, NEW r \in Requests, Writing(r), Put(r)
  PROVE  cache' \in Copies /\ raced' \subseteq Requests /\ fetched[r] \in Versions
<1>1. fetched[r] \in Versions
  BY DEF TypeOK, Writing
<1>2. QED BY <1>1 DEF Put, WriteCache, Copies, TypeOK

LEMMA RequestTypeOK ==
  ASSUME TypeOK, NEW r \in Requests, Start(r) \/ RequestStep(r) \/ RevalidateStep(r)
  PROVE  TypeOK'
<1>1. CASE Start(r)
  BY <1>1, MarksAssumption DEF Start, TypeOK, Copies
<1>2. CASE ReadCache(r)
  BY <1>2 DEF ReadCache, TypeOK, Copies
<1>3. CASE Join(r)
  BY <1>3, MarksAssumption DEF Join, TypeOK
<1>4. CASE FetchUpstream(r)
  <2>1. CASE /\ pc[r] = "fetch" /\ fetched' = [fetched EXCEPT ![r] = upstream]
             /\ pc' = [pc EXCEPT ![r] = "save"]
             /\ UNCHANGED <<flight, got, upstream, cache, bg, raced, calm>>
    BY <2>1, MarksAssumption DEF TypeOK
  <2>2. CASE /\ pc[r] = "fetch" /\ Land(r, None)
             /\ UNCHANGED <<fetched, upstream, cache, bg, raced, calm>>
    BY <2>2, LandType, MarksAssumption DEF TypeOK, Copies, Pcs
  <2>3. QED BY <1>4, <2>1, <2>2 DEF FetchUpstream
<1>5. CASE SaveFetched(r)
  <2>1. /\ Writing(r) /\ pc[r] = "save" /\ Put(r) /\ Land(r, fetched[r])
        /\ UNCHANGED <<upstream, bg, fetched, calm>>
    BY <1>5 DEF SaveFetched, Writing
  <2>2. cache' \in Copies /\ raced' \subseteq Requests /\ fetched[r] \in Copies
    BY <2>1, PutType DEF Copies
  <2>3. QED BY <2>1, <2>2, LandType, MarksAssumption DEF TypeOK, Pcs
<1>6. CASE Revalidate(r)
  BY <1>6, MarksAssumption DEF Revalidate, TypeOK
<1>7. CASE SaveRevalidated(r)
  <2>1. /\ Writing(r) /\ bg[r] = "save" /\ Put(r) /\ bg' = [bg EXCEPT ![r] = "none"]
        /\ UNCHANGED <<upstream, flight, pc, got, fetched, calm>>
    BY <1>7 DEF SaveRevalidated, Writing
  <2>2. cache' \in Copies /\ raced' \subseteq Requests
    BY <2>1, PutType
  <2>3. QED BY <2>1, <2>2 DEF TypeOK
<1>8. QED
  BY <1>1, <1>2, <1>3, <1>4, <1>5, <1>6, <1>7 DEF RequestStep, RevalidateStep

(* Every variable has its type, the flight has one leader and every waiter  *)
(* a flight, in every reachable state of CacheService.FetchMetadata.        *)
THEOREM CacheTypeCorrect == Spec => []TypeOK
<1>1. Init => TypeOK
  <2>1. 1 \in Versions
    BY VersionAssumption DEF Versions
  <2>2. QED BY <2>1, MarksAssumption DEF Init, TypeOK, Copies
<1>2. TypeOK /\ [Next]_vars => TypeOK'
  <2> SUFFICES ASSUME TypeOK, [Next]_vars PROVE TypeOK'
    OBVIOUS
  <2>1. ASSUME NEW r \in Requests, Start(r) \/ RequestStep(r) \/ RevalidateStep(r)
        PROVE  TypeOK'
    BY <2>1, RequestTypeOK
  <2>2. CASE Publish
    BY <2>2, VersionAssumption DEF Publish, TypeOK, Versions
  <2>3. CASE Crash
    BY <2>3, MarksAssumption DEF Crash, TypeOK, Copies
  <2>4. CASE CalmDown \/ UNCHANGED vars
    BY <2>4 DEF CalmDown, vars, TypeOK
  <2>5. QED BY <2>1, <2>2, <2>3, <2>4 DEF Next
<1>3. QED BY <1>1, <1>2, PTL DEF Spec

-------------------------------------------------------------------------------
(* Going back                                                               *)

(* A write by r, and what it leaves to be shown.                            *)
LEMMA PutEffect ==
  ASSUME TypeOK, CacheInv, NEW r \in Requests, Writing(r), Put(r)
  PROVE  /\ cache' \in Versions => cache' <= upstream
         /\ \/ cache' = cache /\ raced' = raced
            \/ \A w \in Requests \ {r} : Writing(w) => w \in raced'
         /\ cache \in Versions /\ cache' \in Versions /\ cache' < cache
               => r \in raced /\ cache' = fetched[r]
<1>1. fetched[r] \in Versions /\ fetched[r] <= upstream
  BY PutType DEF CacheInv, NothingIsNewer
<1>2. \/ cache' = cache /\ raced' = raced
      \/ /\ cache' = fetched[r] \/ cache' = Torn
         /\ \A w \in Requests \ {r} : Writing(w) => w \in raced'
  BY DEF Put, WriteCache, Writing
<1>3. upstream \in Nat /\ Versions \subseteq Nat
  BY VersionAssumption DEF TypeOK, Versions
<1>4. r \notin raced /\ cache \in Versions => cache <= fetched[r]
  BY DEF CacheInv, WritersAreFresh
<1>5. CASE cache' = cache /\ raced' = raced
  <2>1. cache \in Versions => cache <= upstream
    BY DEF CacheInv, NothingIsNewer
  <2>2. cache \in Versions => ~(cache < cache)
    BY <1>3
  <2>3. QED BY <1>5, <2>1, <2>2, Zenon
<1>6. CASE cache' = fetched[r] /\ \A w \in Requests \ {r} : Writing(w) => w \in raced'
  <2>1. ASSUME cache \in Versions, fetched[r] < cache PROVE r \in raced
    <3>1. cache \in Nat /\ fetched[r] \in Nat
      BY <1>1, <1>3, <2>1
    <3>2. ~(cache <= fetched[r])
      BY <2>1, <3>1
    <3>3. QED BY <1>4, <2>1, <3>2
  <2>2. QED BY <1>1, <1>6, <2>1, Zenon
<1>7. CASE cache' = Torn /\ \A w \in Requests \ {r} : Writing(w) => w \in raced'
  BY <1>7, MarksAssumption
<1>8. QED
  BY <1>2, <1>5, <1>6, <1>7

LEMMA WriteInv ==
  ASSUME TypeOK, CacheInv, NEW r \in Requests, Writing(r), Put(r),
         UNCHANGED <<upstream, fetched>>, ~Writing(r)',
         \A w \in Requests \ {r} : Writing(w)' => Writing(w)
  PROVE  CacheInv'
<1>1. /\ cache' \in Versions => cache' <= upstream
      /\ \/ cache' = cache /\ raced' = raced
         \/ \A w \in Requests \ {r} : Writing(w) => w \in raced'
  BY PutEffect
<1>2. NothingIsNewer'
  BY <1>1 DEF CacheInv, NothingIsNewer
<1>3. WritersAreFresh'
  <2> SUFFICES ASSUME NEW w \in Requests, w \notin raced', Writing(w)', cache' \in Versions
               PROVE  cache' <= fetched[w]
    BY DEF WritersAreFresh
  <2>1. w # r /\ Writing(w)
    OBVIOUS
  <2>2. QED BY <1>1, <2>1 DEF CacheInv, WritersAreFresh
<1>4. QED BY <1>2, <1>3 DEF CacheInv

(* A request that fetches, now, has what is newest.                         *)
LEMMA FetchInv ==
  ASSUME TypeOK, CacheInv, NEW r \in Requests, fetched' = [fetched EXCEPT ![r] = upstream],
         UNCHANGED <<upstream, cache, raced>>,
         \A w \in Requests \ {r} : Writing(w)' => Writing(w)
  PROVE  CacheInv'
<1>1. /\ fetched'[r] = upstream /\ upstream \in Nat
      /\ \A w \in Requests \ {r} : fetched'[w] = fetched[w]
  BY VersionAssumption DEF TypeOK, Versions
<1>2. NothingIsNewer'
  BY <1>1 DEF CacheInv, NothingIsNewer
<1>3. WritersAreFresh'
  BY <1>1 DEF CacheInv, NothingIsNewer, WritersAreFresh
<1>4. QED BY <1>2, <1>3 DEF CacheInv

(* A step that neither fetches nor writes.                                  *)
LEMMA IdleInv ==
  ASSUME CacheInv, UNCHANGED <<upstream, cache>>,
         \A w \in Requests : /\ fetched'[w] = fetched[w] \/ fetched'[w] = None
                             /\ Writing(w)' => /\ Writing(w) /\ fetched'[w] = fetched[w]
                                               /\ w \in raced => w \in raced'
  PROVE  CacheInv'
<1>1. NothingIsNewer'
  BY MarksAssumption DEF CacheInv, NothingIsNewer
<1>2. WritersAreFresh'
  BY DEF CacheInv, WritersAreFresh
<1>3. QED BY <1>1, <1>2 DEF CacheInv

LEMMA RequestInv ==
  ASSUME TypeOK, TypeOK', CacheInv, NEW r \in Requests,
         Start(r) \/ RequestStep(r) \/ RevalidateStep(r)
  PROVE  CacheInv'
<1>1. CASE Start(r)
  BY <1>1, IdleInv DEF Start, Writing, TypeOK
<1>2. CASE ReadCache(r) \/ Join(r)
  BY <1>2, IdleInv DEF ReadCache, Join, Writing, TypeOK
<1>3. CASE FetchUpstream(r)
  <2>1. CASE /\ fetched' = [fetched EXCEPT ![r] = upstream] /\ pc' = [pc EXCEPT ![r] = "save"]
             /\ UNCHANGED <<upstream, cache, bg, raced>>
    BY <2>1, FetchInv DEF Writing, TypeOK
  <2>2. CASE /\ pc[r] = "fetch" /\ Land(r, None)
             /\ UNCHANGED <<fetched, upstream, cache, bg, raced>>
    <3>1. None \in Copies
      BY DEF Copies
    <3>2. \A w \in Requests : pc'[w] # "save"
      BY <2>2, <3>1, LandType
    <3>3. QED BY <2>2, <3>2, IdleInv DEF Writing
  <2>3. QED BY <1>3, <2>1, <2>2 DEF FetchUpstream
<1>4. CASE SaveFetched(r)
  <2>1. /\ Writing(r) /\ pc[r] = "save" /\ Put(r) /\ Land(r, fetched[r])
        /\ UNCHANGED <<upstream, bg, fetched>>
    BY <1>4 DEF SaveFetched, Writing
  <2>2. fetched[r] \in Copies
    BY <2>1, PutType DEF Copies
  <2>3. \A w \in Requests : pc'[w] # "save"
    BY <2>1, <2>2, LandType
  <2>4. bg[r] # "save"
    BY <2>1 DEF TypeOK
  <2>5. QED BY <2>1, <2>3, <2>4, WriteInv DEF Writing
<1>5. CASE Revalidate(r)
  <2>1. CASE /\ fetched' = [fetched EXCEPT ![r] = upstream] /\ bg[r] = "fetch"
             /\ bg' = [bg EXCEPT ![r] = IF upstream # got[r] THEN "save" ELSE "none"]
             /\ UNCHANGED <<upstream, cache, pc, raced>>
    BY <2>1, FetchInv DEF Writing, TypeOK
  <2>2. CASE /\ bg' = [bg EXCEPT ![r] = "none"]
             /\ UNCHANGED <<fetched, upstream, cache, pc, raced>>
    BY <2>2, IdleInv DEF Writing, TypeOK
  <2>3. QED BY <1>5, <2>1, <2>2 DEF Revalidate
<1>6. CASE SaveRevalidated(r)
  <2>1. /\ Writing(r) /\ bg[r] = "save" /\ Put(r) /\ bg' = [bg EXCEPT ![r] = "none"]
        /\ pc[r] = "done" /\ UNCHANGED <<upstream, pc, fetched>>
    BY <1>6 DEF SaveRevalidated, Writing, TypeOK
  <2>2. ~Writing(r)' /\ \A w \in Requests \ {r} : Writing(w)' => Writing(w)
    BY <2>1 DEF Writing, TypeOK
  <2>3. QED BY <2>1, <2>2, WriteInv
<1>7. QED
  BY <1>1, <1>2, <1>3, <1>4, <1>5, <1>6 DEF RequestStep, RevalidateStep

(* A writer of the cache that nobody has overtaken is never older than what *)
(* it replaces, in every reachable state.                                   *)
THEOREM CacheInvariant == Spec => []CacheInv
<1>1. Init => CacheInv
  BY MarksAssumption DEF Init, CacheInv, NothingIsNewer, WritersAreFresh, Writing
<1>2. TypeOK /\ TypeOK' /\ CacheInv /\ [Next]_vars => CacheInv'
  <2> SUFFICES ASSUME TypeOK, TypeOK', CacheInv, [Next]_vars PROVE CacheInv'
    OBVIOUS
  <2>1. ASSUME NEW r \in Requests, Start(r) \/ RequestStep(r) \/ RevalidateStep(r)
        PROVE  CacheInv'
    BY <2>1, RequestInv
  <2>2. CASE Publish
    <3>1. /\ upstream' = upstream + 1 /\ upstream \in Nat /\ Versions \subseteq Nat
          /\ UNCHANGED <<cache, pc, bg, fetched, raced>>
      BY <2>2, VersionAssumption DEF Publish, TypeOK, Versions
    <3>2. NothingIsNewer'
      <4>1. cache \in Versions => cache <= upstream + 1
        BY <3>1 DEF CacheInv, NothingIsNewer
      <4>2. ASSUME NEW r \in Requests, fetched[r] \in Versions
            PROVE  fetched[r] <= upstream + 1
        <5>1. fetched[r] \in Nat /\ fetched[r] <= upstream
          BY <3>1, <4>2 DEF CacheInv, NothingIsNewer
        <5>2. QED BY <3>1, <5>1
      <4>3. QED BY <3>1, <4>1, <4>2 DEF NothingIsNewer
    <3>3. WritersAreFresh'
      BY <3>1 DEF CacheInv, WritersAreFresh, Writing
    <3>4. QED BY <3>2, <3>3 DEF CacheInv
  <2>3. CASE Crash
    BY <2>3, IdleInv DEF Crash, Writing
  <2>4. CASE CalmDown \/ UNCHANGED vars
    BY <2>4, IdleInv DEF CalmDown, vars, Writing
  <2>5. QED BY <2>1, <2>2, <2>3, <2>4 DEF Next
<1>3. QED BY <1>1, <1>2, CacheTypeCorrect, PTL DEF Spec

LEMMA RegressionIsRaced ==
  ASSUME TypeOK, CacheInv, [Next]_vars, NEW v \in Versions,
         cache = v, cache' \in 1..(v - 1)
  PROVE  \E r \in raced : /\ fetched[r] = cache'
                          /\ \/ pc[r] = "save" /\ pc'[r] = "done"
                             \/ bg[r] = "save" /\ bg'[r] = "none"
<1>1. cache \in Versions /\ cache' \in Versions /\ cache' < cache /\ cache' # cache
  BY VersionAssumption DEF Versions
<1>2. PICK r \in Requests : SaveFetched(r) \/ SaveRevalidated(r)
  BY <1>1 DEF Next, Start, RequestStep, RevalidateStep, ReadCache, Join, FetchUpstream,
              Revalidate, Publish, Crash, CalmDown, vars
<1>3. Writing(r) /\ Put(r)
  BY <1>2 DEF SaveFetched, SaveRevalidated, Writing
<1>4. r \in raced /\ cache' = fetched[r]
  BY <1>1, <1>3, PutEffect
<1>5. \/ pc[r] = "save" /\ pc'[r] = "done"
      \/ bg[r] = "save" /\ bg'[r] = "none"
  BY <1>2 DEF SaveFetched, SaveRevalidated, Land, TypeOK
<1>6. QED BY <1>4, <1>5

(* The cached index goes back only by the write of a fetch that was         *)
(* overtaken (FetchMetadata and revalidateMetadata share no lock): not      *)
(* through a fault, a restart, or any number of revalidations in a row.     *)
THEOREM CacheRegressesOnlyWhenRaced == Spec => RegressesOnlyWhenRaced
<1> DEFINE Regression(v) ==
             cache = v /\ cache' \in 1..(v - 1)
               => \E r \in raced :
                     /\ fetched[r] = cache'
                     /\ \/ pc[r] = "save" /\ pc'[r] = "done"
                        \/ bg[r] = "save" /\ bg'[r] = "none"
<1>1. TypeOK /\ CacheInv /\ [Next]_vars => [\A v \in Versions : Regression(v)]_vars
  BY RegressionIsRaced
<1>2. QED
  BY <1>1, CacheTypeCorrect, CacheInvariant, PTL DEF Spec, RegressesOnlyWhenRaced

===============================================================================
