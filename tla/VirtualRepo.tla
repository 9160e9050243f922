------------------------------ MODULE VirtualRepo ------------------------------
(***************************************************************************)
(* A virtual repository: downloads are dispatched to its members one after *)
(* the other (internal/registry/virtual.go), index pages are merged from   *)
(* all of them (metadata.go of pypi, npm and golang).  Both walk the       *)
(* members as the repository store loaded them, in descending priority.    *)
(*                                                                         *)
(* A member is a local repository, whose files clients keep publishing, or *)
(* a proxy, which fetches what it has no row for; all but Go's take        *)
(* uploads, too.  How one proxy download or one metadata fetch proceeds is *)
(* ProxyDownload and MetadataCache; here each is one step: a metadata      *)
(* fetch returns what the upstream holds, or a cached copy, stale or cut   *)
(* short.  A member that is virtual itself is loaded without members of    *)
(* its own: an empty local repository.  A file stands for one version of   *)
(* the package that is asked for.  A virtual repository without members    *)
(* answers 404 at once and is left out.                                    *)
(***************************************************************************)
EXTENDS Naturals, Sequences, FiniteSets, Functions

CONSTANTS
    Members,   \* the members of the virtual repository
    Kind,      \* member -> "local" or "proxy"
    Priority,  \* member -> its VirtualRepoMember.Priority
    Files,     \* the files of one package
    ModFiles,  \* those whose names end in ".mod"
    Tags,      \* npm's dist-tags
    Pasts,     \* what the upstreams may have held before: sets of <<proxy, file>>
    Requests,  \* identifiers of client requests
    MaxRows,   \* bound: how many rows other clients may add up to
    Faults,    \* the kinds of failure the environment may produce
    None

FaultKinds ==
    { "db",       \* a database statement fails
      "get",      \* opening or reading a blob fails
      "upstream", \* a proxied registry cannot be reached, answers an error or breaks off
      "save" }    \* storing a proxied file or index fails, perhaps part of the way

ASSUME MembersAssumption ==
    /\ IsFiniteSet(Members) /\ Members # {}
    /\ Kind \in [Members -> {"local", "proxy"}]
    /\ Priority \in [Members -> Nat]
    /\ Faults \subseteq FaultKinds
    /\ ModFiles \subseteq Files
    /\ \A past \in Pasts : past \subseteq Members \X Files
    /\ None \notin Members \cup Files

VARIABLES
    format,  \* the registry's format, fixed
    offers,  \* <<proxy, file>>: what the upstreams hold, fixed
    former,  \* <<proxy, file>>: what they held when copies were cached, fixed
    rows,    \* <<member, file>>: the package_file rows
    req,     \* request -> what it asks for, or None
    order,   \* request -> repo.VirtualMembers as loaded for it
    visit,   \* request -> the position of the member it is at
    pc,      \* request -> its next call
    status,  \* request -> "none", or the status its client receives
    sent,    \* request -> the pieces of the body its client has received
    docs,    \* index request -> the listings collected so far
    index,   \* index request -> what they are merged to, in the end its answer
    known,   \* history: request -> the rows when it began
    failed   \* history: request -> the members a fault struck

vars == <<format, offers, former, rows, req, order, visit, pc, status, sent, docs,
          index, known, failed>>

Proxies == {m \in Members : Kind[m] = "proxy"}

NoTags == [t \in Tags |-> None]
NoIndex == [entries |-> {}, tags |-> NoTags]

(* The requests a format's router has a route for.                          *)
RequestKinds ==
    CASE format = "file" -> {"download"}
      [] format = "go"   -> {"download", "info", "index"}
      [] OTHER           -> {"download", "index"}

Init ==
    /\ format \in {"file", "pypi", "npm", "go"}
    /\ offers \in SUBSET (Proxies \X Files)
    /\ former \in Pasts
    /\ rows = {}
    /\ req = [r \in Requests |-> None]
    /\ order = [r \in Requests |-> <<>>]
    /\ visit = [r \in Requests |-> 1]
    /\ pc = [r \in Requests |-> "idle"]
    /\ status = [r \in Requests |-> "none"]
    /\ sent = [r \in Requests |-> <<>>]
    /\ docs = [r \in Requests |-> <<>>]
    /\ index = [r \in Requests |-> NoIndex]
    /\ known = [r \in Requests |-> {}]
    /\ failed = [r \in Requests |-> {}]

-------------------------------------------------------------------------------

(* A member completes an upload, or a proxy another client's download.  A   *)
(* proxy of Go takes no uploads, it only ever stores what its upstream has. *)
Publish(m, f) ==
    /\ <<m, f>> \notin rows /\ Cardinality(rows) < MaxRows
    /\ format = "go" /\ m \in Proxies => <<m, f>> \in offers \cup former
    /\ rows' = rows \cup {<<m, f>>}
    /\ UNCHANGED <<format, offers, former, req, order, visit, pc, status, sent, docs,
                   index, known, failed>>

(* Mutant: the members are loaded in ascending priority.                    *)
MembersAscending ==
    {s \in Injection(1..Cardinality(Members), Members) :
        \A i, j \in DOMAIN s : i < j => Priority[s[i]] <= Priority[s[j]]}

(* Preload("VirtualMembers", Order("priority desc")): ties in any order.    *)
VirtualMembers ==
    {s \in Injection(1..Cardinality(Members), Members) :
        \A i, j \in DOMAIN s : i < j => Priority[s[i]] >= Priority[s[j]]}

(* named: the proxy whose upstream the client names in the query, if any.   *)
Start(r) ==
    /\ pc[r] = "idle"
    /\ \E k \in RequestKinds, f \in Files,
          n \in {None} \cup (IF format \in {"npm", "pypi"} THEN Proxies ELSE {}) :
          /\ k = "index" => n = None /\ f = CHOOSE g \in Files : TRUE
          /\ req' = [req EXCEPT ![r] = [kind |-> k, file |-> f, named |-> n]]
          /\ pc' = [pc EXCEPT ![r] = k]
    /\ \E s \in VirtualMembers : order' = [order EXCEPT ![r] = s]
    /\ known' = [known EXCEPT ![r] = rows]
    /\ UNCHANGED <<format, offers, former, rows, visit, status, sent, docs, index, failed>>

-------------------------------------------------------------------------------
(* What a handler does to its request.                                      *)

Current(r) == order[r][visit[r]]

Fails(r) == failed' = [failed EXCEPT ![r] = @ \cup {Current(r)}]

(* A piece of the body: the member it is from (None: the server's own error *)
(* text) and whether it is complete.                                        *)
Piece(m, whole) == [by |-> m, whole |-> whole]

Send(r, piece) == sent' = [sent EXCEPT ![r] = Append(@, piece)]

Finish(r, s) ==
    /\ pc' = [pc EXCEPT ![r] = "done"]
    /\ status' = [status EXCEPT ![r] = s]
    /\ UNCHANGED visit

(* http.Error: when a body has begun its status is out, the text goes in.   *)
Refuse(r, s) ==
    IF sent[r] = <<>> THEN Finish(r, s) /\ UNCHANGED sent
                      ELSE Finish(r, "ok") /\ Send(r, Piece(None, FALSE))

LastMember(r) == visit[r] = Len(order[r])

Advance(r, next) ==
    /\ visit' = [visit EXCEPT ![r] = @ + 1]
    /\ pc' = [pc EXCEPT ![r] = next]
    /\ UNCHANGED status

(* Mutant: the dispatcher does not stop after the last member.              *)
MemberHasNotEver(r) == Advance(r, "download") /\ UNCHANGED sent

(* Mutant: the text of a member's 404 reaches the client.                   *)
MemberHasNotText(r) ==
    IF LastMember(r) THEN Refuse(r, "notFound")
    ELSE Advance(r, "download") /\ Send(r, Piece(None, FALSE))

(* FallbackResponseWriter swallows a member's 404, header and text; the     *)
(* next member is tried, and after the last one the dispatcher answers.     *)
MemberHasNot(r) ==
    IF LastMember(r) THEN Refuse(r, "notFound")
                     ELSE Advance(r, "download") /\ UNCHANGED sent

-------------------------------------------------------------------------------
(* DispatchVirtualDownload: the member's handleDownload                     *)

CanProxy(r) == format # "file" /\ Kind[Current(r)] = "proxy"

LookupRow(r) ==
    LET row == <<Current(r), req[r].file>>
    IN  /\ pc[r] = "download"
        /\ \/ /\ row \in rows
              /\ pc' = [pc EXCEPT ![r] = "serve"]
              /\ UNCHANGED <<visit, status, sent, failed>>
           \/ /\ row \notin rows /\ ~CanProxy(r)
              /\ MemberHasNot(r) /\ UNCHANGED failed
           \/ /\ row \notin rows /\ CanProxy(r) /\ (format = "go" \/ req[r].named # None)
              /\ pc' = [pc EXCEPT ![r] = "fetch"]
              /\ UNCHANGED <<visit, status, sent, failed>>
           \/ /\ row \notin rows /\ CanProxy(r) /\ format # "go" /\ req[r].named = None
              /\ Refuse(r, "badRequest") /\ UNCHANGED failed
           \/ "db" \in Faults /\ Fails(r) /\ Refuse(r, "error")
        /\ UNCHANGED <<format, offers, former, rows, req, order, docs, index, known>>

(* serveFileFromStorage.  A body of announced length takes no more bytes.   *)
ServeFile(r) ==
    /\ pc[r] = "serve"
    /\ \/ Send(r, Piece(Current(r), TRUE)) /\ Finish(r, "ok") /\ UNCHANGED failed
       \/ sent[r] # <<>> /\ Finish(r, "ok") /\ UNCHANGED <<sent, failed>>
       \/ /\ "get" \in Faults /\ Fails(r)
          /\ \/ Refuse(r, "error")
             \/ Send(r, Piece(Current(r), FALSE)) /\ Finish(r, "ok")
    /\ UNCHANGED <<format, offers, former, rows, req, order, docs, index, known>>

(* npm and PyPI fetch from wherever the client says.                        *)
UpstreamHas(r) ==
    <<IF format = "go" THEN Current(r) ELSE req[r].named, req[r].file>> \in offers

(* Go answers 404, whatever it has streamed, and the dispatcher goes on to  *)
(* the next member; npm and PyPI write nothing, which the dispatcher takes  *)
(* for an answer and net/http for a 200.                                    *)
FetchFails(r) ==
    IF format = "go" THEN MemberHasNot(r) ELSE Finish(r, "ok") /\ UNCHANGED sent

(* proxyDownload: another request may have stored the file in between.      *)
FetchFile(r) ==
    LET row == <<Current(r), req[r].file>>
    IN  /\ pc[r] = "fetch"
        /\ \/ /\ row \in rows
              /\ pc' = [pc EXCEPT ![r] = "serve"]
              /\ UNCHANGED <<rows, visit, status, sent, failed>>
           \/ /\ row \notin rows /\ UpstreamHas(r)
              /\ rows' = rows \cup {row}
              /\ Send(r, Piece(Current(r), TRUE)) /\ Finish(r, "ok") /\ UNCHANGED failed
           \/ /\ row \notin rows /\ (~UpstreamHas(r) \/ sent[r] # <<>>)
              /\ FetchFails(r) /\ UNCHANGED <<rows, failed>>
           \/ "upstream" \in Faults /\ Fails(r) /\ FetchFails(r) /\ UNCHANGED rows
        /\ UNCHANGED <<format, offers, former, req, order, docs, index, known>>

(* The fetch begins to stream, and the upstream breaks off, or storing it   *)
(* fails part of the way or at the end.                                     *)
FetchBreaks(r) ==
    /\ pc[r] = "fetch"
    /\ <<Current(r), req[r].file>> \notin rows /\ UpstreamHas(r)
    /\ Fails(r)
    /\ \E whole \in {b \in BOOLEAN : "save" \in Faults \/ ("upstream" \in Faults /\ ~b)} :
          LET received == Append(sent[r], Piece(Current(r), whole))
          IN  IF format = "go" /\ ~LastMember(r)
              THEN Advance(r, "download") /\ sent' = [sent EXCEPT ![r] = received]
              ELSE /\ Finish(r, "ok")
                   /\ sent' = [sent EXCEPT ![r] = IF format = "go"
                                   THEN Append(received, Piece(None, FALSE)) ELSE received]
    /\ UNCHANGED <<format, offers, former, rows, req, order, docs, index, known>>

-------------------------------------------------------------------------------
(* Index pages and Go's .info: virtualMetadata, buildVirtualPackageFiles,   *)
(* virtualListVersions, virtualVersionInfo                                  *)

Held(holdings, m) == {f \in Files : <<m, f>> \in holdings}

(* FetchMetadata answers with the index of the upstream or with a cached    *)
(* one that may be stale.  A 404 is an error for it and is not cached; an   *)
(* empty list of Go's is no 404.                                            *)
Copies(m) ==
    {Held(offers, m)} \cup {c \in {Held(former, m)} : c # {} \/ format = "go"}

Listings(m) == IF m \in Proxies THEN Copies(m) ELSE {Held(rows, m)}

(* A cached copy cut short: npm and PyPI cannot parse it and leave the      *)
(* member out, Go reads the lines there are, the last of them cut.          *)
TornListings(m) ==
    IF m \notin Proxies \/ "save" \notin Faults THEN {}
    ELSE IF format # "go" THEN {{}}
    ELSE {l \in SUBSET Files : \E c \in Copies(m) : Cardinality(l \ c) <= 1}

MemberFault(m) == (IF m \in Proxies THEN "upstream" ELSE "db") \in Faults

Entries(doc) == {[file |-> f, from |-> doc.from] : f \in doc.files}

(* Mutant: the additional member's versions replace those of the base.      *)
mergeMetadataReplaces(base, doc) ==
    [entries |-> {e \in base.entries : e.file \notin doc.files} \cup Entries(doc),
     tags    |-> [t \in Tags |-> IF base.tags[t] # None THEN base.tags[t] ELSE doc.tags[t]]]

(* npm: what the base already has, a version or a tag, is not replaced.     *)
mergeMetadata(base, doc) ==
    [entries |-> base.entries \cup
                    {n \in Entries(doc) : ~\E e \in base.entries : e.file = n.file},
     tags    |-> [t \in Tags |-> IF base.tags[t] # None THEN base.tags[t] ELSE doc.tags[t]]]

(* npm merges each document as it comes, Go adds the versions to a set,     *)
(* wherever they come from, and PyPI collects everything first.             *)
MergedIndex(base, doc) ==
    CASE format = "npm" -> mergeMetadata(base, doc)
      [] format = "go"  -> [base EXCEPT !.entries = @ \cup
                               {[file |-> f, from |-> None] : f \in doc.files}]
      [] OTHER          -> base

(* The dist-tags of a listing: a local npm member calls the row that the    *)
(* database returned last its latest version and has no other tag, an       *)
(* upstream tags what it likes.                                             *)
Taggings(m, l) ==
    IF format # "npm" THEN {NoTags}
    ELSE IF m \in Proxies THEN [Tags -> l \cup {None}]
    ELSE {[NoTags EXCEPT !["latest"] = f] : f \in l}

(* A member that lists nothing is left out.                                 *)
Collect(r, l) ==
    \/ l = {} /\ UNCHANGED <<docs, index>>
    \/ /\ l # {}
       /\ \E t \in Taggings(Current(r), l) :
             LET doc == [from |-> Current(r), files |-> l, tags |-> t]
             IN  /\ docs' = [docs EXCEPT ![r] = Append(@, doc)]
                 /\ index' = [index EXCEPT ![r] = MergedIndex(@, doc)]

(* A member that fails is left out as well.                                 *)
CollectListing(r) ==
    LET m == Current(r) IN
    /\ pc[r] = "index"
    /\ \/ (\E l \in Listings(m) : Collect(r, l)) /\ UNCHANGED failed
       \/ (\E l \in TornListings(m) : Collect(r, l)) /\ Fails(r)
       \/ MemberFault(m) /\ Fails(r) /\ UNCHANGED <<docs, index>>
    /\ Advance(r, IF LastMember(r) THEN "merge" ELSE "index")
    /\ UNCHANGED <<format, offers, former, rows, req, order, sent, known>>

(* A local member knows a version by its .mod file.                         *)
KnowsInfo(m, f) ==
    IF m \in Proxies THEN <<m, f>> \in offers ELSE <<m, f>> \in rows /\ f \in ModFiles

(* The first member that knows the version answers, any error moves on.  A  *)
(* proxy may have a copy of the .info of a version that is gone, or one     *)
(* that is cut short, which it sends as it is.                              *)
FindInfo(r) ==
    LET m == Current(r)  f == req[r].file
        cached == m \in Proxies /\ <<m, f>> \in former
    IN  /\ pc[r] = "info"
        /\ \/ /\ KnowsInfo(m, f) \/ cached
              /\ Send(r, Piece(m, TRUE)) /\ Finish(r, "ok") /\ UNCHANGED failed
           \/ /\ "save" \in Faults /\ m \in Proxies /\ (KnowsInfo(m, f) \/ cached)
              /\ Send(r, Piece(m, FALSE)) /\ Finish(r, "ok") /\ Fails(r)
           \/ /\ \/ ~KnowsInfo(m, f) /\ UNCHANGED failed
                 \/ MemberFault(m) /\ Fails(r)
              /\ IF LastMember(r) THEN Finish(r, "notFound") ELSE Advance(r, "info")
              /\ UNCHANGED sent
        /\ UNCHANGED <<format, offers, former, rows, req, order, docs, index, known>>

(* Mutant: a later occurrence of a file name is kept as well.               *)
deduplicateFilesNot(ds) == UNION {Entries(ds[i]) : i \in DOMAIN ds}

(* PyPI: the first occurrence of a file name is kept.                       *)
deduplicateFiles(ds) ==
    UNION {{e \in Entries(ds[i]) : \A j \in 1..(i - 1) : e.file \notin ds[j].files} :
               i \in DOMAIN ds}

AnswerIndex(r) ==
    /\ pc[r] = "merge"
    /\ Finish(r, IF docs[r] = <<>> THEN "notFound" ELSE "ok")
    /\ \/ /\ format = "pypi"
          /\ index' = [index EXCEPT ![r].entries = deduplicateFiles(docs[r])]
       \/ format # "pypi" /\ UNCHANGED index
    /\ UNCHANGED <<format, offers, former, rows, req, order, sent, docs, known, failed>>

-------------------------------------------------------------------------------

HandlerStep(r) ==
    \/ Start(r) \/ LookupRow(r) \/ ServeFile(r) \/ FetchFile(r) \/ FetchBreaks(r)
    \/ CollectListing(r) \/ FindInfo(r) \/ AnswerIndex(r)

AllAnswered == (\A r \in Requests : pc[r] = "done") /\ UNCHANGED vars

Next ==
    \/ \E m \in Members, f \in Files : Publish(m, f)
    \/ \E r \in Requests : HandlerStep(r)
    \/ AllAnswered

Spec == Init /\ [][Next]_vars

-------------------------------------------------------------------------------
(* Properties                                                               *)

Phases == {"idle", "download", "serve", "fetch", "index", "info", "merge", "done"}

Asks == [kind : {"download", "info", "index"}, file : Files, named : Proxies \cup {None}]
Pieces == [by : Members \cup {None}, whole : BOOLEAN]
Documents == [from : Members, files : SUBSET Files, tags : [Tags -> Files \cup {None}]]
Links == [file : Files, from : Members \cup {None}]
Indexes == [entries : SUBSET Links, tags : [Tags -> Files \cup {None}]]

(* Every variable has its type, a handler works on a request with members,  *)
(* and it never runs past the last one.                                     *)
TypeOK ==
    /\ format \in {"file", "pypi", "npm", "go"}
    /\ offers \subseteq Proxies \X Files /\ former \in Pasts
    /\ rows \subseteq Members \X Files
    /\ req \in [Requests -> Asks \cup {None}]
    /\ order \in [Requests -> VirtualMembers \cup {<<>>}]
    /\ visit \in [Requests -> Nat \ {0}]
    /\ pc \in [Requests -> Phases]
    /\ status \in [Requests -> {"none", "ok", "notFound", "badRequest", "error"}]
    /\ sent \in [Requests -> Seq(Pieces)]
    /\ docs \in [Requests -> Seq(Documents)]
    /\ index \in [Requests -> Indexes]
    /\ known \in [Requests -> SUBSET (Members \X Files)]
    /\ failed \in [Requests -> SUBSET Members]
    /\ \A r \in Requests :
          /\ pc[r] # "idle" => req[r] \in Asks /\ order[r] \in VirtualMembers
          /\ pc[r] \in {"download", "serve", "fetch", "index", "info"}
                => visit[r] \in DOMAIN order[r]
          /\ pc[r] = "done" <=> status[r] # "none"
          /\ Len(docs[r]) < visit[r]

Answered(r, kinds) == pc[r] = "done" /\ req[r].kind \in kinds

(* The members that had the requested file when the request began: as a     *)
(* row, or upstream where the member itself knows whom to ask.              *)
HoldersOf(r) ==
    {m \in Members :
        LET has == <<m, req[r].file>> IN
        \/ has \in known[r] /\ req[r].kind = "download"
        \/ has \in known[r] /\ m \notin Proxies /\ req[r].file \in ModFiles
        \/ has \in offers /\ format = "go"}

(* The proxy of npm or PyPI at which the search ended lacked the file, and  *)
(* its client came without the query of an index page, which is a 400, or   *)
(* with one that leads nowhere, which is an empty 200.                      *)
TurnedAway(r) ==
    /\ format \in {"npm", "pypi"} /\ Current(r) \in Proxies
    /\ <<Current(r), req[r].file>> \notin known[r]
    /\ \/ req[r].named = None /\ status[r] = "badRequest"
       \/ <<req[r].named, req[r].file>> \notin offers /\ sent[r] = <<>>

(* The i-th member of r's order failed when its client had received some of *)
(* the file from it.                                                        *)
BrokeOff(r, i) ==
    /\ order[r][i] \in failed[r]
    /\ \E k \in DOMAIN sent[r] : sent[r][k].by = order[r][i]

(* A file that a member has, which itself does not fail, is served, once    *)
(* and complete, by a member of no lower priority: a member that lacks the  *)
(* file never ends the search, and neither does one whose failure reads     *)
(* like a 404.  The exceptions are a member of no lower priority that broke *)
(* off, one at which a failure ended the search, and a proxy of npm or PyPI *)
(* that turned the client away.                                             *)
FirstHolderServes ==
    \A r \in Requests :
        Answered(r, {"download", "info"}) =>
            \A h \in HoldersOf(r) \ failed[r] :
                \E i \in 1..visit[r] :
                    /\ Priority[order[r][i]] >= Priority[h]
                    /\ \/ sent[r] = <<Piece(order[r][i], TRUE)>>
                       \/ BrokeOff(r, i)
                       \/ i = visit[r] /\ (Current(r) \in failed[r] \/ TurnedAway(r))

(* An answer has bytes of one member only, and no error text after them,    *)
(* unless a Go proxy broke off when its client was already receiving.       *)
OneMemberAnswers ==
    \A r \in Requests :
        Len(sent[r]) > 1 =>
            /\ format = "go" /\ req[r].kind = "download"
            /\ \E i \in DOMAIN sent[r] : sent[r][i].by \in failed[r] \cap Proxies

(* An index lists what a local member had when it was asked for and what a  *)
(* proxy has in whichever copy of its index is read, but for members that   *)
(* failed, and links each file to a member of the highest priority.  It     *)
(* lists nothing twice, and nothing that no member lists or has listed,     *)
(* unless it is Go's and a copy that a proxy has cached was cut short.      *)
IndexFollowsPriority ==
    \A r \in Requests :
        LET entries == index[r].entries
            had(m) == {f \in Files : IF m \in Proxies THEN \A c \in Copies(m) : f \in c
                                                     ELSE <<m, f>> \in known[r]}
            lists(m, e) == e.from \in {m, None} /\ \E l \in Listings(m) : e.file \in l
        IN  Answered(r, {"index"}) =>
                /\ \A m \in Members \ failed[r] : \A f \in had(m) :
                      \E e \in entries :
                          e.file = f /\ (e.from # None => Priority[e.from] >= Priority[m])
                /\ \A e \in entries :
                      /\ \/ \E m \in Members : lists(m, e)
                         \/ format = "go" /\ failed[r] \cap Proxies # {}
                      /\ \A d \in entries : d.file = e.file => d = e

(* npm: a dist-tag of an index is that of the first member that has it, and *)
(* the version it names is listed: as that member's, or as that of a member *)
(* before it which has the same version.                                    *)
TagsFollowPriority ==
    \A r \in Requests :
        Answered(r, {"index"}) /\ format = "npm" =>
            \A t \in Tags :
                LET v == index[r].tags[t]
                    has(i) == docs[r][i].tags[t] # None
                IN  \/ v = None /\ \A i \in DOMAIN docs[r] : ~has(i)
                    \/ \E i \in DOMAIN docs[r] :
                          /\ has(i) /\ v = docs[r][i].tags[t]
                          /\ \A j \in 1..(i - 1) : ~has(j)
                          /\ \E j \in 1..i :
                                [file |-> v, from |-> docs[r][j].from] \in index[r].entries

(* cmd/seed/main.go gives the local member priority 1, "Local repo first",  *)
(* and the proxy priority 2: a file the local member had when the index was *)
(* asked for should be linked to it.                                        *)
LocalRepoFirst ==
    \A r \in Requests :
        Answered(r, {"index"}) /\ format = "pypi" /\ failed[r] = {} =>
            \A e \in index[r].entries :
                (\E m \in Members \ Proxies : <<m, e.file>> \in known[r])
                    => e.from \notin Proxies

===============================================================================
