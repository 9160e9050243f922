--------------------------- MODULE VirtualRepo_proofs ---------------------------
(***************************************************************************)
(* Theorems about VirtualRepo, for any finite set of members with any      *)
(* kinds and priorities, any number of files and requests, and every fault. *)
(***************************************************************************)
EXTENDS VirtualRepo, FiniteSetTheorems, TLAPS

Searching == {"download", "serve", "fetch", "info"}
Indexing == {"index", "merge"}

Visited(r) == 1..(visit[r] - 1)

(* A request is at a step of its own kind, and has all members behind it    *)
(* once it merges.                                                          *)
RequestFits(r) ==
    /\ known[r] \subseteq rows
    /\ pc[r] = "idle" => /\ visit[r] = 1 /\ sent[r] = <<>> /\ docs[r] = <<>>
                         /\ index[r] = NoIndex /\ failed[r] = {}
    /\ pc[r] # "idle" => req[r].kind \in RequestKinds
    /\ pc[r] \in {"download", "serve", "fetch"} => req[r].kind = "download"
    /\ pc[r] = "fetch" => CanProxy(r)
    /\ pc[r] = "info" => req[r].kind = "info"
    /\ pc[r] \in Indexing => req[r].kind = "index"
    /\ pc[r] = "merge" \/ Answered(r, {"index"}) => visit[r] = Len(order[r]) + 1

(* A search leaves a member behind that had the file, and did not fail,     *)
(* only after one of them broke off.                                        *)
PassedHadNothing(r) ==
    pc[r] \in Searching =>
        \A i \in Visited(r) :
            order[r][i] \in HoldersOf(r) \ failed[r] => \E j \in 1..i : BrokeOff(r, j)

(* A Go proxy that failed has sent some of what a client has received.      *)
ProxyBrokeOff(r) ==
    /\ format = "go" /\ req[r].kind = "download"
    /\ \E i \in DOMAIN sent[r] : sent[r][i].by \in failed[r] \cap Proxies

(* A client that waits has received nothing, unless a Go proxy broke off.   *)
BytesExplained(r) ==
    pc[r] # "done" /\ sent[r] # <<>> =>
        ProxyBrokeOff(r) /\ \E j \in Visited(r) : BrokeOff(r, j)

(* FirstHolderServes and OneMemberAnswers for one request.                  *)
HolderServed(r) ==
    Answered(r, {"download", "info"}) =>
        \A h \in HoldersOf(r) \ failed[r] :
            \E i \in 1..visit[r] :
                /\ Priority[order[r][i]] >= Priority[h]
                /\ \/ sent[r] = <<Piece(order[r][i], TRUE)>>
                   \/ BrokeOff(r, i)
                   \/ i = visit[r] /\ (Current(r) \in failed[r] \/ TurnedAway(r))

OneMemberServed(r) == Len(sent[r]) > 1 => ProxyBrokeOff(r)

SearchFacts(r) == /\ RequestFits(r) /\ PassedHadNothing(r) /\ BytesExplained(r)
                  /\ HolderServed(r) /\ OneMemberServed(r)

(* Every file of a sequence of listings has a first listing that names it.  *)
HasFirsts(ds) ==
    \A i \in DOMAIN ds : \A f \in ds[i].files :
        \E j \in 1..i : f \in ds[j].files /\ \A k \in 1..(j - 1) : f \notin ds[k].files

(* The listings are those of members left behind, in order of priority;     *)
(* only Go's may list what its member does not, when a copy was cut short.  *)
ListingsAreReal(r) ==
    \A i \in DOMAIN docs[r] :
        LET d == docs[r][i]
        IN  /\ \A t \in Tags : d.tags[t] \in d.files \cup {None}
            /\ \/ d.files \subseteq UNION Listings(d.from)
               \/ format = "go" /\ d.from \in failed[r] \cap Proxies
            /\ \E k \in Visited(r) : order[r][k] = d.from
            /\ \A j \in 1..i : Priority[docs[r][j].from] >= Priority[d.from]

(* What a member had when the index was asked for, or has in every copy.    *)
HadFiles(r, m) == {f \in Files : IF m \in Proxies THEN \A c \in Copies(m) : f \in c
                                                  ELSE <<m, f>> \in known[r]}

(* A member left behind has its files in a listing, or it failed.           *)
PassedAreListed(r) ==
    pc[r] # "idle" /\ req[r].kind = "index" =>
        \A k \in Visited(r) : order[r][k] \notin failed[r] =>
            \A f \in HadFiles(r, order[r][k]) :
                \E i \in DOMAIN docs[r] :
                    docs[r][i].from = order[r][k] /\ f \in docs[r][i].files

(* The versions of all listings, linked to no member.                       *)
Unlinked(ds) ==
    UNION {{[file |-> f, from |-> None] : f \in ds[i].files} : i \in DOMAIN ds}

(* v is what the first of the listings with the tag t has for it.           *)
FirstTag(ds, t, v) ==
    \/ v = None /\ \A i \in DOMAIN ds : ds[i].tags[t] = None
    \/ \E i \in DOMAIN ds : /\ ds[i].tags[t] # None /\ v = ds[i].tags[t]
                            /\ \A j \in 1..(i - 1) : ds[j].tags[t] = None

(* npm merges as it goes along to what PyPI makes of all listings at last.  *)
IndexIsMerged(r) ==
    /\ format = "npm" => /\ index[r].entries = deduplicateFiles(docs[r])
                         /\ \A t \in Tags : FirstTag(docs[r], t, index[r].tags[t])
    /\ format = "go" => index[r].entries = Unlinked(docs[r])
    /\ format = "pypi" /\ Answered(r, {"index"}) =>
           index[r].entries = deduplicateFiles(docs[r])
    /\ Answered(r, {"index"}) /\ status[r] = "ok" => docs[r] # <<>>

IndexFacts(r) == /\ HasFirsts(docs[r]) /\ ListingsAreReal(r)
                 /\ PassedAreListed(r) /\ IndexIsMerged(r)

VirtualInv == \A r \in Requests : SearchFacts(r) /\ IndexFacts(r)


-------------------------------------------------------------------------------
(* The members in the order of a request                                    *)

(* An order names every member once, and those of higher priority first.    *)
LEMMA OrderOfMembers ==
  ASSUME NEW s \in VirtualMembers
  PROVE  /\ s \in Seq(Members) /\ Len(s) \in Nat \ {0}
         /\ DOMAIN s = 1..Len(s)
         /\ \A i, j \in 1..Len(s) : i <= j => Priority[s[i]] >= Priority[s[j]]
         /\ \A m \in Members : \E i \in 1..Len(s) : s[i] = m
<1> DEFINE n == Cardinality(Members)
<1>1. n \in Nat /\ n # 0
  BY MembersAssumption, FS_CardinalityType, FS_EmptySet
<1> HIDE DEF n
<1>2. /\ s \in Injection(1..n, Members)
      /\ \A i, j \in DOMAIN s : i < j => Priority[s[i]] >= Priority[s[j]]
  BY DEF VirtualMembers, n
<1>3. s \in [1..n -> Members]
  BY <1>2 DEF Injection
<1>4. s \in Seq(Members) /\ Len(s) = n /\ DOMAIN s = 1..n
  BY <1>1, <1>3
<1>5. \A i, j \in 1..n : i <= j => Priority[s[i]] >= Priority[s[j]]
  <2> SUFFICES ASSUME NEW i \in 1..n, NEW j \in 1..n, i <= j
               PROVE  Priority[s[i]] >= Priority[s[j]]
    OBVIOUS
  <2>1. Priority[s[i]] \in Nat /\ Priority[s[j]] \in Nat
    BY <1>3, MembersAssumption
  <2>2. CASE i = j
    BY <2>1, <2>2
  <2>3. CASE i < j
    BY <1>2, <1>4, <2>3
  <2>4. QED BY <1>1, <2>2, <2>3
<1>6. Cardinality(1..n) = Cardinality(Members)
  BY <1>1, FS_Interval DEF n
<1>7. s \in Surjection(1..n, Members)
  BY <1>2, <1>6, FS_Injection, MembersAssumption
<1>8. \A m \in Members : \E i \in 1..n : s[i] = m
  BY <1>7 DEF Surjection
<1>9. QED BY <1>1, <1>4, <1>5, <1>8

LEMMA CurrentIsMember ==
  ASSUME TypeOK, NEW r \in Requests,
         pc[r] \in {"download", "serve", "fetch", "index", "info"}
  PROVE  /\ Current(r) \in Members
         /\ visit[r] \in 1..Len(order[r]) /\ visit[r] \in Nat \ {0}
         /\ Len(order[r]) \in Nat
<1>1. order[r] \in VirtualMembers /\ visit[r] \in DOMAIN order[r] /\ visit[r] \in Nat \ {0}
  BY DEF TypeOK
<1>2. /\ order[r] \in Seq(Members) /\ Len(order[r]) \in Nat
      /\ DOMAIN order[r] = 1..Len(order[r])
  BY <1>1, OrderOfMembers
<1>3. QED BY <1>1, <1>2 DEF Current

LEMMA NextIsThere ==
  ASSUME TypeOK, NEW r \in Requests,
         pc[r] \in {"download", "serve", "fetch", "index", "info"},
         visit[r] # Len(order[r])
  PROVE  visit[r] + 1 \in DOMAIN order[r]
<1>1. visit[r] \in 1..Len(order[r]) /\ Len(order[r]) \in Nat
  BY CurrentIsMember
<1>2. DOMAIN order[r] = 1..Len(order[r])
  BY OrderOfMembers DEF TypeOK
<1>3. QED BY <1>1, <1>2

-------------------------------------------------------------------------------
(* What the steps of a search do to the request                             *)

Statuses == {"none", "ok", "notFound", "badRequest", "error"}

(* Only r moves, and its client gets a status exactly when it is done.      *)
Control(r) ==
    /\ pc' \in [Requests -> Phases] /\ status' \in [Requests -> Statuses]
    /\ visit' \in [Requests -> Nat \ {0}]
    /\ \A q \in Requests \ {r} : pc'[q] = pc[q] /\ status'[q] = status[q] /\ visit'[q] = visit[q]
    /\ pc'[r] = "done" <=> status'[r] # "none"

(* Only r's client receives anything.                                       *)
Body(r) == /\ sent' \in [Requests -> Seq(Pieces)]
           /\ \A q \in Requests \ {r} : sent'[q] = sent[q]

(* A fault may strike r's member only.                                      *)
Blame(r) == /\ failed' \in [Requests -> SUBSET Members]
            /\ \A q \in Requests \ {r} : failed'[q] = failed[q]
            /\ failed[r] \subseteq failed'[r]

EndsHere(r) == pc'[r] = "done" /\ visit'[r] = visit[r]

GoesOn(r) == /\ pc'[r] = (IF pc[r] = "info" THEN "info" ELSE "download")
             /\ visit'[r] = visit[r] + 1 /\ visit[r] + 1 \in DOMAIN order[r]

Stays(r) == /\ pc'[r] \in {"serve", "fetch"} /\ visit'[r] = visit[r]
            /\ pc[r] # "info" /\ sent'[r] = sent[r]
            /\ pc'[r] = "fetch" => CanProxy(r)

LEMMA FinishMoves ==
  ASSUME TypeOK, NEW r \in Requests, NEW s \in Statuses \ {"none"}, Finish(r, s)
  PROVE  Control(r) /\ EndsHere(r)
BY DEF Finish, Control, EndsHere, TypeOK, Statuses, Phases

LEMMA AdvanceMoves ==
  ASSUME TypeOK, NEW r \in Requests, pc[r] \notin {"idle", "done"},
         NEW next \in Phases \ {"done"}, Advance(r, next)
  PROVE  Control(r) /\ pc'[r] = next /\ visit'[r] = visit[r] + 1
BY DEF Advance, Control, TypeOK, Statuses

LEMMA StayMoves ==
  ASSUME TypeOK, NEW r \in Requests, pc[r] \notin {"idle", "done"},
         NEW next \in Phases \ {"done"}, pc' = [pc EXCEPT ![r] = next],
         UNCHANGED <<visit, status>>
  PROVE  Control(r) /\ pc'[r] = next /\ visit'[r] = visit[r]
BY DEF Control, TypeOK, Statuses

LEMMA SendMoves ==
  ASSUME TypeOK, NEW r \in Requests, NEW piece \in Pieces, Send(r, piece)
  PROVE  Body(r) /\ sent'[r] = Append(sent[r], piece)
<1>1. sent \in [Requests -> Seq(Pieces)]
  BY DEF TypeOK
<1>2. Append(sent[r], piece) \in Seq(Pieces)
  BY <1>1
<1>3. sent' = [sent EXCEPT ![r] = Append(sent[r], piece)]
  BY DEF Send
<1>4. QED BY <1>1, <1>2, <1>3 DEF Body

LEMMA NothingSent ==
  ASSUME TypeOK, NEW r \in Requests, UNCHANGED sent
  PROVE  Body(r) /\ sent'[r] = sent[r]
BY DEF TypeOK, Body

LEMMA FailsMoves ==
  ASSUME TypeOK, NEW r \in Requests, Current(r) \in Members, Fails(r)
  PROVE  Blame(r) /\ Current(r) \in failed'[r]
<1>1. PICK m \in Members : m = Current(r)
  OBVIOUS
<1>2. failed' = [failed EXCEPT ![r] = failed[r] \cup {m}]
  BY <1>1 DEF Fails
<1>3. QED BY <1>1, <1>2 DEF Blame, TypeOK

LEMMA NothingFailed ==
  ASSUME TypeOK, NEW r \in Requests, UNCHANGED failed
  PROVE  Blame(r) /\ failed'[r] = failed[r]
BY DEF TypeOK, Blame

LEMMA PieceType ==
  ASSUME NEW m \in Members \cup {None}, NEW whole \in BOOLEAN
  PROVE  Piece(m, whole) \in Pieces /\ Piece(m, whole).by = m
BY DEF Piece, Pieces

LEMMA RefuseMoves ==
  ASSUME TypeOK, NEW r \in Requests, NEW s \in Statuses \ {"none"}, Refuse(r, s)
  PROVE  /\ Control(r) /\ EndsHere(r) /\ Body(r)
         /\ \/ sent'[r] = sent[r]
            \/ sent[r] # <<>> /\ \E p \in Pieces : sent'[r] = Append(sent[r], p)
         /\ sent[r] = <<>> => status'[r] = s
<1>1. CASE sent[r] = <<>>
  BY <1>1, FinishMoves, NothingSent DEF Refuse, Finish, TypeOK
<1>2. CASE sent[r] # <<>>
  <2>1. Finish(r, "ok") /\ Send(r, Piece(None, FALSE))
    BY <1>2 DEF Refuse
  <2>2. Piece(None, FALSE) \in Pieces
    BY PieceType
  <2>3. QED BY <1>2, <2>1, <2>2, FinishMoves, SendMoves DEF Statuses
<1>3. QED BY <1>1, <1>2

LEMMA MemberHasNotMoves ==
  ASSUME TypeOK, NEW r \in Requests, pc[r] \in {"download", "serve", "fetch"},
         MemberHasNot(r)
  PROVE  /\ Control(r) /\ Body(r)
         /\ \/ GoesOn(r) /\ sent'[r] = sent[r]
            \/ /\ EndsHere(r) /\ visit[r] = Len(order[r])
               /\ \/ sent'[r] = sent[r]
                  \/ sent[r] # <<>> /\ \E p \in Pieces : sent'[r] = Append(sent[r], p)
<1>1. CASE LastMember(r)
  BY <1>1, RefuseMoves DEF MemberHasNot, LastMember, Statuses
<1>2. CASE ~LastMember(r)
  <2>1. Advance(r, "download") /\ UNCHANGED sent /\ visit[r] # Len(order[r])
    BY <1>2 DEF MemberHasNot, LastMember
  <2>2. Control(r) /\ pc'[r] = "download" /\ visit'[r] = visit[r] + 1
    BY <2>1, AdvanceMoves DEF Phases
  <2>3. visit[r] + 1 \in DOMAIN order[r]
    BY <2>1, NextIsThere
  <2>4. QED BY <2>1, <2>2, <2>3, NothingSent DEF GoesOn
<1>3. QED BY <1>1, <1>2

-------------------------------------------------------------------------------
(* How a step of a search comes out                                         *)

(* For FirstHolderServes: r's member answers, or had nothing, or failed, or *)
(* turned the client away.                                                  *)
Found(r) ==
    sent[r] = <<>> =>
        \/ Stays(r)
        \/ GoesOn(r) /\ Current(r) \notin HoldersOf(r) \ failed'[r]
        \/ /\ EndsHere(r) /\ visit[r] = Len(order[r])
           /\ Current(r) \notin HoldersOf(r) \ failed'[r]
        \/ EndsHere(r) /\ sent'[r] = <<Piece(Current(r), TRUE)>>
        \/ EndsHere(r) /\ Current(r) \in failed'[r]
        \/ EndsHere(r) /\ TurnedAway(r)'

(* For OneMemberAnswers: the first piece comes with the end of the search,  *)
(* unless a Go proxy breaks off.                                            *)
Received(r) ==
    \/ sent'[r] = sent[r]
    \/ EndsHere(r) /\ \E p \in Pieces : sent'[r] = Append(sent[r], p)
    \/ /\ format = "go" /\ req[r].kind = "download" /\ Current(r) \in failed'[r] \cap Proxies
       /\ \E p \in Pieces :
             /\ p.by = Current(r)
             /\ \/ sent'[r] = Append(sent[r], p)
                \/ \E p2 \in Pieces : sent'[r] = Append(Append(sent[r], p), p2)

SearchMove(r) ==
    /\ Control(r) /\ Body(r) /\ Blame(r)
    /\ UNCHANGED <<format, offers, former, req, order, docs, index, known>>
    /\ rows \subseteq rows' /\ rows' \subseteq Members \X Files
    /\ Stays(r) \/ EndsHere(r) \/ GoesOn(r)
    /\ Found(r) /\ Received(r)

(* Whom the history calls a holder has a row now, or an upstream has it.    *)
LEMMA HoldersHave ==
  ASSUME TypeOK, NEW r \in Requests, RequestFits(r), NEW m \in HoldersOf(r)
  PROVE  \/ <<m, req[r].file>> \in rows /\ req[r].kind = "download"
         \/ <<m, req[r].file>> \in rows /\ m \notin Proxies /\ req[r].file \in ModFiles
         \/ format = "go" /\ m \in Proxies /\ <<m, req[r].file>> \in offers
BY DEF TypeOK, RequestFits, HoldersOf

LEMMA LookupRowMoves ==
  ASSUME TypeOK, NEW r \in Requests, RequestFits(r), LookupRow(r)
  PROVE  SearchMove(r)
<1> DEFINE row == <<Current(r), req[r].file>>
<1>1. /\ pc[r] = "download" /\ Current(r) \in Members
      /\ UNCHANGED <<format, offers, former, rows, req, order, docs, index, known>>
      /\ rows \subseteq Members \X Files
  BY CurrentIsMember DEF LookupRow, TypeOK
<1>2. CASE /\ row \in rows /\ pc' = [pc EXCEPT ![r] = "serve"]
           /\ UNCHANGED <<visit, status, sent, failed>>
  <2>1. Control(r) /\ pc'[r] = "serve" /\ visit'[r] = visit[r]
    BY <1>1, <1>2, StayMoves DEF Phases
  <2>2. Body(r) /\ sent'[r] = sent[r] /\ Blame(r)
    BY <1>2, NothingSent, NothingFailed
  <2>3. Stays(r)
    BY <1>1, <2>1, <2>2 DEF Stays
  <2>4. QED BY <1>1, <2>1, <2>2, <2>3 DEF SearchMove, Found, Received
<1>3. CASE row \notin rows /\ ~CanProxy(r) /\ MemberHasNot(r) /\ UNCHANGED failed
  <2>1. /\ Control(r) /\ Body(r) /\ Blame(r)
        /\ \/ GoesOn(r) /\ sent'[r] = sent[r]
           \/ /\ EndsHere(r) /\ visit[r] = Len(order[r])
              /\ \/ sent'[r] = sent[r]
                 \/ sent[r] # <<>> /\ \E p \in Pieces : sent'[r] = Append(sent[r], p)
    BY <1>1, <1>3, MemberHasNotMoves, NothingFailed
  <2>2. Current(r) \notin HoldersOf(r)
    BY <1>1, <1>3, HoldersHave DEF CanProxy, Proxies
  <2>3. Found(r) /\ Received(r)
    BY <2>1, <2>2 DEF Found, Received
  <2>4. QED BY <1>1, <2>1, <2>3 DEF SearchMove
<1>4. CASE /\ row \notin rows /\ CanProxy(r) /\ pc' = [pc EXCEPT ![r] = "fetch"]
           /\ UNCHANGED <<visit, status, sent, failed>>
  <2>1. Control(r) /\ pc'[r] = "fetch" /\ visit'[r] = visit[r]
    BY <1>1, <1>4, StayMoves DEF Phases
  <2>2. Body(r) /\ sent'[r] = sent[r] /\ Blame(r)
    BY <1>4, NothingSent, NothingFailed
  <2>3. Stays(r)
    BY <1>1, <1>4, <2>1, <2>2 DEF Stays
  <2>4. QED BY <1>1, <2>1, <2>2, <2>3 DEF SearchMove, Found, Received
<1>5. CASE /\ row \notin rows /\ CanProxy(r) /\ format # "go" /\ req[r].named = None
           /\ Refuse(r, "badRequest") /\ UNCHANGED failed
  <2>1. /\ Control(r) /\ EndsHere(r) /\ Body(r) /\ Blame(r)
        /\ \/ sent'[r] = sent[r]
           \/ sent[r] # <<>> /\ \E p \in Pieces : sent'[r] = Append(sent[r], p)
        /\ sent[r] = <<>> => status'[r] = "badRequest"
    BY <1>5, RefuseMoves, NothingFailed DEF Statuses
  <2>2. format \in {"npm", "pypi"} /\ Current(r) \in Proxies /\ row \notin known[r]
    BY <1>1, <1>5 DEF CanProxy, Proxies, TypeOK, RequestFits
  <2>3. Current(r)' = Current(r)
    BY <1>1, <2>1 DEF Current, EndsHere
  <2>4. sent[r] = <<>> => TurnedAway(r)'
    BY <1>1, <1>5, <2>1, <2>2, <2>3 DEF TurnedAway
  <2>5. Found(r) /\ Received(r)
    BY <2>1, <2>4 DEF Found, Received
  <2>6. QED BY <1>1, <2>1, <2>5 DEF SearchMove
<1>6. CASE Fails(r) /\ Refuse(r, "error")
  <2>1. /\ Control(r) /\ EndsHere(r) /\ Body(r)
        /\ \/ sent'[r] = sent[r]
           \/ sent[r] # <<>> /\ \E p \in Pieces : sent'[r] = Append(sent[r], p)
    BY <1>6, RefuseMoves DEF Statuses
  <2>2. Blame(r) /\ Current(r) \in failed'[r]
    BY <1>1, <1>6, FailsMoves
  <2>3. Found(r) /\ Received(r)
    BY <2>1, <2>2 DEF Found, Received
  <2>4. QED BY <1>1, <2>1, <2>2, <2>3 DEF SearchMove
<1>7. QED BY <1>2, <1>3, <1>4, <1>5, <1>6 DEF LookupRow

LEMMA ServeFileMoves ==
  ASSUME TypeOK, NEW r \in Requests, RequestFits(r), ServeFile(r)
  PROVE  SearchMove(r)
<1>1. /\ pc[r] = "serve" /\ Current(r) \in Members
      /\ UNCHANGED <<format, offers, former, rows, req, order, docs, index, known>>
      /\ rows \subseteq Members \X Files
  BY CurrentIsMember DEF ServeFile, TypeOK
<1>2. \A whole \in BOOLEAN : Piece(Current(r), whole) \in Pieces
  BY <1>1, PieceType
<1>3. CASE Send(r, Piece(Current(r), TRUE)) /\ Finish(r, "ok") /\ UNCHANGED failed
  <2>1. Control(r) /\ EndsHere(r) /\ Blame(r)
    BY <1>3, FinishMoves, NothingFailed DEF Statuses
  <2>2. Body(r) /\ sent'[r] = Append(sent[r], Piece(Current(r), TRUE))
    BY <1>2, <1>3, SendMoves
  <2>3. sent[r] = <<>> => sent'[r] = <<Piece(Current(r), TRUE)>>
    BY <2>2
  <2>4. Found(r) /\ Received(r)
    BY <1>2, <2>1, <2>2, <2>3 DEF Found, Received
  <2>5. QED BY <1>1, <2>1, <2>2, <2>4 DEF SearchMove
<1>4. CASE sent[r] # <<>> /\ Finish(r, "ok") /\ UNCHANGED <<sent, failed>>
  <2>1. Control(r) /\ EndsHere(r) /\ Blame(r) /\ Body(r) /\ sent'[r] = sent[r]
    BY <1>4, FinishMoves, NothingFailed, NothingSent DEF Statuses
  <2>2. Found(r) /\ Received(r)
    BY <1>4, <2>1 DEF Found, Received
  <2>3. QED BY <1>1, <2>1, <2>2 DEF SearchMove
<1>5. CASE Fails(r) /\ Refuse(r, "error")
  <2>1. /\ Control(r) /\ EndsHere(r) /\ Body(r)
        /\ \/ sent'[r] = sent[r]
           \/ sent[r] # <<>> /\ \E p \in Pieces : sent'[r] = Append(sent[r], p)
    BY <1>5, RefuseMoves DEF Statuses
  <2>2. Blame(r) /\ Current(r) \in failed'[r]
    BY <1>1, <1>5, FailsMoves
  <2>3. Found(r) /\ Received(r)
    BY <2>1, <2>2 DEF Found, Received
  <2>4. QED BY <1>1, <2>1, <2>2, <2>3 DEF SearchMove
<1>6. CASE Fails(r) /\ Send(r, Piece(Current(r), FALSE)) /\ Finish(r, "ok")
  <2>1. Control(r) /\ EndsHere(r)
    BY <1>6, FinishMoves DEF Statuses
  <2>2. Body(r) /\ sent'[r] = Append(sent[r], Piece(Current(r), FALSE))
    BY <1>2, <1>6, SendMoves
  <2>3. Blame(r) /\ Current(r) \in failed'[r]
    BY <1>1, <1>6, FailsMoves
  <2>4. Found(r) /\ Received(r)
    BY <1>2, <2>1, <2>2, <2>3 DEF Found, Received
  <2>5. QED BY <1>1, <2>1, <2>2, <2>3, <2>4 DEF SearchMove
<1>7. QED BY <1>3, <1>4, <1>5, <1>6 DEF ServeFile

LEMMA FetchFailsMoves ==
  ASSUME TypeOK, NEW r \in Requests, pc[r] = "fetch", FetchFails(r)
  PROVE  /\ Control(r) /\ Body(r)
         /\ \/ format = "go" /\ GoesOn(r) /\ sent'[r] = sent[r]
            \/ /\ EndsHere(r) /\ (format = "go" => visit[r] = Len(order[r]))
               /\ \/ sent'[r] = sent[r]
                  \/ sent[r] # <<>> /\ \E p \in Pieces : sent'[r] = Append(sent[r], p)
<1>1. CASE format = "go"
  BY <1>1, MemberHasNotMoves DEF FetchFails
<1>2. CASE format # "go"
  BY <1>2, FinishMoves, NothingSent DEF FetchFails, Statuses
<1>3. QED BY <1>1, <1>2

LEMMA FetchFileMoves ==
  ASSUME TypeOK, NEW r \in Requests, RequestFits(r), FetchFile(r)
  PROVE  SearchMove(r)
<1> DEFINE row == <<Current(r), req[r].file>>
<1>1. /\ pc[r] = "fetch" /\ Current(r) \in Proxies /\ Current(r) \in Members
      /\ UNCHANGED <<format, offers, former, req, order, docs, index, known>>
      /\ rows \subseteq Members \X Files /\ req[r].kind = "download" /\ format # "file"
  BY CurrentIsMember DEF FetchFile, TypeOK, RequestFits, CanProxy, Proxies
<1>2. row \in Members \X Files
  BY <1>1 DEF TypeOK, Asks
<1>3. CASE /\ row \in rows /\ pc' = [pc EXCEPT ![r] = "serve"]
           /\ UNCHANGED <<rows, visit, status, sent, failed>>
  <2>1. Control(r) /\ pc'[r] = "serve" /\ visit'[r] = visit[r]
    BY <1>1, <1>3, StayMoves DEF Phases
  <2>2. Body(r) /\ sent'[r] = sent[r] /\ Blame(r)
    BY <1>3, NothingSent, NothingFailed
  <2>3. Stays(r)
    BY <1>1, <2>1, <2>2 DEF Stays
  <2>4. QED BY <1>1, <1>3, <2>1, <2>2, <2>3 DEF SearchMove, Found, Received
<1>4. CASE /\ rows' = rows \cup {row} /\ UNCHANGED failed
           /\ Send(r, Piece(Current(r), TRUE)) /\ Finish(r, "ok")
  <2>1. Control(r) /\ EndsHere(r) /\ Blame(r)
    BY <1>4, FinishMoves, NothingFailed DEF Statuses
  <2>2. Piece(Current(r), TRUE) \in Pieces
    BY <1>1, PieceType
  <2>3. Body(r) /\ sent'[r] = Append(sent[r], Piece(Current(r), TRUE))
    BY <2>2, <1>4, SendMoves
  <2>4. sent[r] = <<>> => sent'[r] = <<Piece(Current(r), TRUE)>>
    BY <2>3
  <2>5. Found(r) /\ Received(r)
    BY <2>1, <2>2, <2>3, <2>4 DEF Found, Received
  <2>6. QED BY <1>1, <1>2, <1>4, <2>1, <2>3, <2>5 DEF SearchMove
<1>5. CASE /\ row \notin rows /\ (~UpstreamHas(r) \/ sent[r] # <<>>)
           /\ FetchFails(r) /\ UNCHANGED <<rows, failed>>
  <2>1. /\ Control(r) /\ Body(r) /\ Blame(r)
        /\ \/ format = "go" /\ GoesOn(r) /\ sent'[r] = sent[r]
           \/ /\ EndsHere(r) /\ (format = "go" => visit[r] = Len(order[r]))
              /\ \/ sent'[r] = sent[r]
                 \/ sent[r] # <<>> /\ \E p \in Pieces : sent'[r] = Append(sent[r], p)
    BY <1>1, <1>5, FetchFailsMoves, NothingFailed
  <2>2. format = "go" /\ sent[r] = <<>> => Current(r) \notin HoldersOf(r)
    BY <1>1, <1>5, HoldersHave DEF UpstreamHas
  <2>3. ASSUME format # "go", sent[r] = <<>>
        PROVE  Found(r) /\ Received(r)
    <3>1. format \in {"npm", "pypi"} /\ row \notin known[r] /\ sent'[r] = <<>>
      BY <1>1, <1>5, <2>1, <2>3 DEF TypeOK, RequestFits
    <3>2. <<req[r].named, req[r].file>> \notin offers
      BY <1>5, <2>3 DEF UpstreamHas
    <3>3. Current(r)' = Current(r)
      BY <1>1, <2>1, <2>3 DEF Current, EndsHere
    <3>4. TurnedAway(r)'
      BY <1>1, <3>1, <3>2, <3>3 DEF TurnedAway
    <3>5. QED BY <2>1, <2>3, <3>1, <3>4 DEF Found, Received
  <2>4. Found(r) /\ Received(r)
    BY <1>1, <2>1, <2>2, <2>3 DEF Found, Received
  <2>5. QED BY <1>1, <1>5, <2>1, <2>4 DEF SearchMove
<1>6. CASE Fails(r) /\ FetchFails(r) /\ UNCHANGED rows
  <2>1. /\ Control(r) /\ Body(r)
        /\ \/ format = "go" /\ GoesOn(r) /\ sent'[r] = sent[r]
           \/ /\ EndsHere(r) /\ (format = "go" => visit[r] = Len(order[r]))
              /\ \/ sent'[r] = sent[r]
                 \/ sent[r] # <<>> /\ \E p \in Pieces : sent'[r] = Append(sent[r], p)
    BY <1>1, <1>6, FetchFailsMoves
  <2>2. Blame(r) /\ Current(r) \in failed'[r]
    BY <1>1, <1>6, FailsMoves
  <2>3. Found(r) /\ Received(r)
    BY <2>1, <2>2 DEF Found, Received
  <2>4. QED BY <1>1, <1>6, <2>1, <2>2, <2>3 DEF SearchMove
<1>7. QED BY <1>3, <1>4, <1>5, <1>6 DEF FetchFile

LEMMA FetchBreaksMoves ==
  ASSUME TypeOK, NEW r \in Requests, RequestFits(r), BytesExplained(r), FetchBreaks(r)
  PROVE  SearchMove(r)
<1>1. /\ pc[r] = "fetch" /\ Current(r) \in Proxies /\ Current(r) \in Members
      /\ UNCHANGED <<format, offers, former, rows, req, order, docs, index, known>>
      /\ rows \subseteq Members \X Files /\ req[r].kind = "download" /\ Fails(r)
  BY CurrentIsMember DEF FetchBreaks, TypeOK, RequestFits, CanProxy, Proxies
<1>2. Blame(r) /\ Current(r) \in failed'[r]
  BY <1>1, FailsMoves
<1>3. PICK whole \in BOOLEAN :
         LET received == Append(sent[r], Piece(Current(r), whole))
         IN  IF format = "go" /\ ~LastMember(r)
             THEN Advance(r, "download") /\ sent' = [sent EXCEPT ![r] = received]
             ELSE /\ Finish(r, "ok")
                  /\ sent' = [sent EXCEPT ![r] = IF format = "go"
                                  THEN Append(received, Piece(None, FALSE)) ELSE received]
  <2> DEFINE breaks(w) ==
         LET received == Append(sent[r], Piece(Current(r), w))
         IN  IF format = "go" /\ ~LastMember(r)
             THEN Advance(r, "download") /\ sent' = [sent EXCEPT ![r] = received]
             ELSE /\ Finish(r, "ok")
                  /\ sent' = [sent EXCEPT ![r] = IF format = "go"
                                  THEN Append(received, Piece(None, FALSE)) ELSE received]
  <2>1. \E w \in {b \in BOOLEAN : "save" \in Faults \/ ("upstream" \in Faults /\ ~b)} :
           breaks(w)
    BY DEF FetchBreaks
  <2> HIDE DEF breaks
  <2>2. PICK w \in BOOLEAN : breaks(w)
    BY <2>1
  <2>3. QED BY <2>2 DEF breaks
<1>4. PICK p \in Pieces : p = Piece(Current(r), whole) /\ p.by = Current(r)
  BY <1>1, PieceType
<1>5. PICK p2 \in Pieces : p2 = Piece(None, FALSE)
  BY PieceType
<1>6. /\ sent \in [Requests -> Seq(Pieces)]
      /\ Append(sent[r], p) \in Seq(Pieces)
      /\ Append(Append(sent[r], p), p2) \in Seq(Pieces)
  BY DEF TypeOK
<1>7. CASE format = "go" /\ ~LastMember(r)
  <2>1. Advance(r, "download") /\ sent' = [sent EXCEPT ![r] = Append(sent[r], p)]
    BY <1>3, <1>4, <1>7
  <2>2. Body(r) /\ sent'[r] = Append(sent[r], p)
    BY <1>6, <2>1 DEF Body
  <2>3. Control(r) /\ pc'[r] = "download" /\ visit'[r] = visit[r] + 1
    BY <1>1, <2>1, AdvanceMoves DEF Phases
  <2>4. visit[r] + 1 \in DOMAIN order[r]
    BY <1>1, <1>7, NextIsThere DEF LastMember
  <2>5. GoesOn(r)
    BY <1>1, <2>3, <2>4 DEF GoesOn
  <2>6. Found(r) /\ Received(r)
    BY <1>1, <1>2, <1>4, <1>7, <2>2, <2>5 DEF Found, Received
  <2>7. QED BY <1>1, <1>2, <2>2, <2>3, <2>5, <2>6 DEF SearchMove
<1>8. CASE format = "go" /\ LastMember(r)
  <2>1. Finish(r, "ok") /\ sent' = [sent EXCEPT ![r] = Append(Append(sent[r], p), p2)]
    BY <1>3, <1>4, <1>5, <1>8
  <2>2. Body(r) /\ sent'[r] = Append(Append(sent[r], p), p2)
    BY <1>6, <2>1 DEF Body
  <2>3. Control(r) /\ EndsHere(r)
    BY <2>1, FinishMoves DEF Statuses
  <2>4. Found(r) /\ Received(r)
    BY <1>1, <1>2, <1>4, <1>8, <2>2, <2>3 DEF Found, Received
  <2>5. QED BY <1>1, <1>2, <2>2, <2>3, <2>4 DEF SearchMove
<1>9. CASE format # "go"
  <2>1. Finish(r, "ok") /\ sent' = [sent EXCEPT ![r] = Append(sent[r], p)]
    BY <1>3, <1>4, <1>9
  <2>2. Body(r) /\ sent'[r] = Append(sent[r], p)
    BY <1>6, <2>1 DEF Body
  <2>3. Control(r) /\ EndsHere(r)
    BY <2>1, FinishMoves DEF Statuses
  <2>4. Found(r) /\ Received(r)
    BY <1>2, <2>2, <2>3 DEF Found, Received
  <2>5. QED BY <1>1, <1>2, <2>2, <2>3, <2>4 DEF SearchMove
<1>10. QED BY <1>7, <1>8, <1>9

(* A member that does not know the version did not have it.                 *)
LEMMA UnknownIsNoHolder ==
  ASSUME TypeOK, NEW r \in Requests, RequestFits(r), req[r].kind = "info",
         ~KnowsInfo(Current(r), req[r].file)
  PROVE  Current(r) \notin HoldersOf(r)
BY HoldersHave DEF KnowsInfo

LEMMA FindInfoMoves ==
  ASSUME TypeOK, NEW r \in Requests, RequestFits(r), FindInfo(r)
  PROVE  SearchMove(r)
<1>1. /\ pc[r] = "info" /\ Current(r) \in Members /\ req[r] \in Asks
      /\ UNCHANGED <<format, offers, former, rows, req, order, docs, index, known>>
      /\ rows \subseteq Members \X Files /\ req[r].kind = "info"
  BY CurrentIsMember DEF FindInfo, TypeOK, RequestFits
<1>2. CASE Send(r, Piece(Current(r), TRUE)) /\ Finish(r, "ok") /\ UNCHANGED failed
  <2>1. Control(r) /\ EndsHere(r) /\ Blame(r)
    BY <1>2, FinishMoves, NothingFailed DEF Statuses
  <2>2. Piece(Current(r), TRUE) \in Pieces
    BY <1>1, PieceType
  <2>3. Body(r) /\ sent'[r] = Append(sent[r], Piece(Current(r), TRUE))
    BY <2>2, <1>2, SendMoves
  <2>4. sent[r] = <<>> => sent'[r] = <<Piece(Current(r), TRUE)>>
    BY <2>3
  <2>5. Found(r) /\ Received(r)
    BY <2>1, <2>2, <2>3, <2>4 DEF Found, Received
  <2>6. QED BY <1>1, <2>1, <2>3, <2>5 DEF SearchMove
<1>3. CASE /\ \/ ~KnowsInfo(Current(r), req[r].file) /\ UNCHANGED failed
              \/ MemberFault(Current(r)) /\ Fails(r)
           /\ IF LastMember(r) THEN Finish(r, "notFound") ELSE Advance(r, "info")
           /\ UNCHANGED sent
  <2>1. Blame(r) /\ Current(r) \notin HoldersOf(r) \ failed'[r]
    BY <1>1, <1>3, FailsMoves, NothingFailed, UnknownIsNoHolder
  <2>2. Body(r) /\ sent'[r] = sent[r]
    BY <1>3, NothingSent
  <2>3. CASE LastMember(r)
    <3>1. Control(r) /\ EndsHere(r) /\ visit[r] = Len(order[r])
      BY <1>3, <2>3, FinishMoves DEF Statuses, LastMember
    <3>2. Found(r) /\ Received(r)
      BY <2>1, <2>2, <3>1 DEF Found, Received
    <3>3. QED BY <1>1, <2>1, <2>2, <3>1, <3>2 DEF SearchMove
  <2>4. CASE ~LastMember(r)
    <3>1. Control(r) /\ pc'[r] = "info" /\ visit'[r] = visit[r] + 1
      BY <1>1, <1>3, <2>4, AdvanceMoves DEF Phases
    <3>2. visit[r] + 1 \in DOMAIN order[r]
      BY <1>1, <2>4, NextIsThere DEF LastMember
    <3>3. GoesOn(r)
      BY <1>1, <3>1, <3>2 DEF GoesOn
    <3>4. Found(r) /\ Received(r)
      BY <2>1, <2>2, <3>3 DEF Found, Received
    <3>5. QED BY <1>1, <2>1, <2>2, <3>1, <3>3, <3>4 DEF SearchMove
  <2>5. QED BY <2>3, <2>4
<1>4. CASE Send(r, Piece(Current(r), FALSE)) /\ Finish(r, "ok") /\ Fails(r)
  <2>1. Control(r) /\ EndsHere(r) /\ Blame(r) /\ Current(r) \in failed'[r]
    BY <1>1, <1>4, FinishMoves, FailsMoves DEF Statuses
  <2>2. Piece(Current(r), FALSE) \in Pieces
    BY <1>1, PieceType
  <2>3. Body(r) /\ sent'[r] = Append(sent[r], Piece(Current(r), FALSE))
    BY <2>2, <1>4, SendMoves
  <2>4. Found(r) /\ Received(r)
    BY <2>1, <2>2, <2>3 DEF Found, Received
  <2>5. QED BY <1>1, <2>1, <2>3, <2>4 DEF SearchMove
<1>5. QED BY <1>2, <1>3, <1>4 DEF FindInfo

-------------------------------------------------------------------------------
(* Type correctness                                                         *)

LEMMA SearchMoveTypeOK ==
  ASSUME TypeOK, NEW r \in Requests, pc[r] \in Searching, SearchMove(r)
  PROVE  TypeOK'
<1>1. /\ order[r] \in VirtualMembers /\ req[r] \in Asks /\ visit[r] \in DOMAIN order[r]
      /\ Len(docs[r]) < visit[r] /\ visit[r] \in Nat \ {0} /\ Len(docs[r]) \in Nat
  BY DEF TypeOK, Searching
<1>2. /\ Control(r) /\ Body(r) /\ Blame(r)
      /\ UNCHANGED <<format, offers, former, req, order, docs, index, known>>
      /\ rows' \subseteq Members \X Files
      /\ Stays(r) \/ EndsHere(r) \/ GoesOn(r)
  BY DEF SearchMove
<1>3. /\ pc'[r] # "idle" /\ Len(docs[r]) < visit'[r]
      /\ pc'[r] # "done" => visit'[r] \in DOMAIN order[r]
  BY <1>1, <1>2 DEF Stays, EndsHere, GoesOn
<1>4. /\ pc' \in [Requests -> Phases] /\ status' \in [Requests -> Statuses]
      /\ visit' \in [Requests -> Nat \ {0}] /\ sent' \in [Requests -> Seq(Pieces)]
      /\ failed' \in [Requests -> SUBSET Members]
  BY <1>2 DEF Control, Body, Blame
<1>5. ASSUME NEW q \in Requests
      PROVE  /\ pc'[q] # "idle" => req'[q] \in Asks /\ order'[q] \in VirtualMembers
             /\ pc'[q] \in {"download", "serve", "fetch", "index", "info"}
                   => visit'[q] \in DOMAIN order'[q]
             /\ pc'[q] = "done" <=> status'[q] # "none"
             /\ Len(docs'[q]) < visit'[q]
  <2>1. CASE q = r
    BY <2>1, <1>1, <1>2, <1>3 DEF Control
  <2>2. CASE q # r
    BY <2>2, <1>2 DEF Control, TypeOK
  <2>3. QED BY <2>1, <2>2
<1>6. QED BY <1>2, <1>4, <1>5 DEF TypeOK, Statuses

LEMMA EntriesType ==
  ASSUME NEW doc \in Documents
  PROVE  Entries(doc) \subseteq Links
BY DEF Entries, Links, Documents

LEMMA DeduplicatedType ==
  ASSUME NEW ds \in Seq(Documents)
  PROVE  deduplicateFiles(ds) \subseteq Links
<1>1. \A i \in DOMAIN ds : ds[i] \in Documents
  OBVIOUS
<1>2. QED BY <1>1, EntriesType DEF deduplicateFiles

LEMMA MergedIndexType ==
  ASSUME NEW base \in Indexes, NEW doc \in Documents
  PROVE  MergedIndex(base, doc) \in Indexes
<1>1. /\ base.entries \subseteq Links /\ base.tags \in [Tags -> Files \cup {None}]
      /\ doc.files \subseteq Files /\ doc.tags \in [Tags -> Files \cup {None}]
  BY DEF Indexes, Documents
<1>2. CASE format = "npm"
  <2>1. MergedIndex(base, doc) = mergeMetadata(base, doc)
    BY <1>2 DEF MergedIndex
  <2>2. [t \in Tags |-> IF base.tags[t] # None THEN base.tags[t] ELSE doc.tags[t]]
           \in [Tags -> Files \cup {None}]
    BY <1>1
  <2>3. QED BY <1>1, <2>1, <2>2, EntriesType DEF mergeMetadata, Indexes
<1>3. CASE format = "go"
  <2> DEFINE unlinked == {[file |-> f, from |-> None] : f \in doc.files}
  <2>1. MergedIndex(base, doc) = [base EXCEPT !.entries = base.entries \cup unlinked]
    BY <1>3 DEF MergedIndex
  <2>2. unlinked \subseteq Links
    BY <1>1 DEF Links
  <2>3. QED BY <1>1, <2>1, <2>2 DEF Indexes
<1>4. CASE format \notin {"npm", "go"}
  BY <1>4 DEF MergedIndex
<1>5. QED BY <1>2, <1>3, <1>4

(* What CollectListing does: it takes a listing of its member's, or finds   *)
(* none, and goes on.                                                       *)
Takes(r, doc) ==
    /\ doc.from = Current(r)
    /\ \A t \in Tags : doc.tags[t] \in doc.files \cup {None}
    /\ \/ doc.files \in Listings(Current(r))
       \/ format = "go" /\ Current(r) \in failed'[r] \cap Proxies
    /\ docs' = [docs EXCEPT ![r] = Append(docs[r], doc)]
    /\ index' = [index EXCEPT ![r] = MergedIndex(index[r], doc)]

TakesNone(r) ==
    /\ UNCHANGED <<docs, index>>
    /\ {} \in Listings(Current(r)) \/ Current(r) \in failed'[r]

(* The tags of a listing name what it lists.                                *)
LEMMA TaggingsType ==
  ASSUME NEW m, NEW l \in SUBSET Files, NEW tags \in Taggings(m, l)
  PROVE  tags \in [Tags -> Files \cup {None}] /\ \A t \in Tags : tags[t] \in l \cup {None}
<1>1. CASE format # "npm"
  BY <1>1 DEF Taggings, NoTags
<1>2. CASE format = "npm" /\ m \in Proxies
  BY <1>2 DEF Taggings
<1>3. CASE format = "npm" /\ m \notin Proxies
  <2>1. PICK f \in l : tags = [NoTags EXCEPT !["latest"] = f]
    BY <1>3 DEF Taggings
  <2>2. QED BY <2>1 DEF NoTags
<1>4. QED BY <1>1, <1>2, <1>3

LEMMA ListingsType ==
  ASSUME NEW m
  PROVE  \A l \in Listings(m) \cup TornListings(m) : l \subseteq Files
BY DEF Listings, Copies, Held, TornListings

(* Collecting l takes it, unless it is empty.                               *)
LEMMA CollectTakes ==
  ASSUME TypeOK, NEW r \in Requests, Current(r) \in Members, NEW l \in SUBSET Files,
         Collect(r, l),
         \/ l \in Listings(Current(r))
         \/ /\ Current(r) \in failed'[r]
            /\ l = {} \/ (format = "go" /\ Current(r) \in Proxies)
  PROVE  TakesNone(r) \/ \E doc \in Documents : Takes(r, doc)
<1>1. CASE l = {}
  BY <1>1 DEF Collect, TakesNone
<1>2. CASE l # {}
  <2>1. PICK t \in Taggings(Current(r), l) :
             LET doc == [from |-> Current(r), files |-> l, tags |-> t]
             IN  /\ docs' = [docs EXCEPT ![r] = Append(@, doc)]
                 /\ index' = [index EXCEPT ![r] = MergedIndex(@, doc)]
    BY <1>2 DEF Collect
  <2>2. PICK doc : doc = [from |-> Current(r), files |-> l, tags |-> t]
    OBVIOUS
  <2>3. doc \in Documents /\ \A x \in Tags : doc.tags[x] \in doc.files \cup {None}
    BY <2>2, TaggingsType DEF Documents
  <2>4. Takes(r, doc)
    BY <1>2, <2>1, <2>2, <2>3 DEF Takes
  <2>5. QED BY <2>3, <2>4
<1>3. QED BY <1>1, <1>2

LEMMA CollectListingMoves ==
  ASSUME TypeOK, NEW r \in Requests, CollectListing(r)
  PROVE  /\ pc[r] = "index" /\ Current(r) \in Members
         /\ UNCHANGED <<format, offers, former, rows, req, order, sent, known>>
         /\ Control(r) /\ Blame(r) /\ visit'[r] = visit[r] + 1
         /\ pc'[r] = (IF LastMember(r) THEN "merge" ELSE "index")
         /\ TakesNone(r) \/ \E doc \in Documents : Takes(r, doc)
<1>1. /\ pc[r] = "index" /\ Current(r) \in Members
      /\ UNCHANGED <<format, offers, former, rows, req, order, sent, known>>
      /\ Advance(r, IF LastMember(r) THEN "merge" ELSE "index")
  BY CurrentIsMember DEF CollectListing
<1>2. /\ Control(r) /\ visit'[r] = visit[r] + 1
      /\ pc'[r] = (IF LastMember(r) THEN "merge" ELSE "index")
  BY <1>1, AdvanceMoves DEF Phases
<1>3. CASE (\E l \in Listings(Current(r)) : Collect(r, l)) /\ UNCHANGED failed
  <2>1. PICK l \in Listings(Current(r)) : Collect(r, l)
    BY <1>3
  <2>2. l \in SUBSET Files
    BY ListingsType
  <2>3. QED BY <1>1, <1>2, <1>3, <2>1, <2>2, CollectTakes, NothingFailed
<1>4. CASE (\E l \in TornListings(Current(r)) : Collect(r, l)) /\ Fails(r)
  <2>1. PICK l \in TornListings(Current(r)) : Collect(r, l)
    BY <1>4
  <2>2. l \in SUBSET Files
    BY ListingsType
  <2>3. l = {} \/ (format = "go" /\ Current(r) \in Proxies)
    BY <2>1 DEF TornListings
  <2>4. Blame(r) /\ Current(r) \in failed'[r]
    BY <1>1, <1>4, FailsMoves
  <2>5. QED BY <1>1, <1>2, <2>1, <2>2, <2>3, <2>4, CollectTakes
<1>5. CASE Fails(r) /\ UNCHANGED <<docs, index>>
  BY <1>1, <1>2, <1>5, FailsMoves DEF TakesNone
<1>6. QED BY <1>3, <1>4, <1>5 DEF CollectListing

LEMMA CollectListingTypeOK ==
  ASSUME TypeOK, NEW r \in Requests, CollectListing(r)
  PROVE  TypeOK'
<1>1. /\ pc[r] = "index" /\ Current(r) \in Members
      /\ UNCHANGED <<format, offers, former, rows, req, order, sent, known>>
      /\ Control(r) /\ Blame(r) /\ visit'[r] = visit[r] + 1
      /\ pc'[r] = (IF LastMember(r) THEN "merge" ELSE "index")
      /\ TakesNone(r) \/ \E doc \in Documents : Takes(r, doc)
  BY CollectListingMoves
<1>2. /\ docs \in [Requests -> Seq(Documents)] /\ index \in [Requests -> Indexes]
      /\ visit[r] \in Nat \ {0} /\ Len(docs[r]) < visit[r] /\ Len(docs[r]) \in Nat
      /\ order[r] \in VirtualMembers
  BY <1>1 DEF TypeOK
<1>3. /\ docs' \in [Requests -> Seq(Documents)] /\ index' \in [Requests -> Indexes]
      /\ \A q \in Requests \ {r} : docs'[q] = docs[q]
      /\ Len(docs'[r]) \in {Len(docs[r]), Len(docs[r]) + 1}
  <2>1. CASE TakesNone(r)
    BY <1>2, <2>1 DEF TakesNone
  <2>2. ASSUME NEW doc \in Documents, Takes(r, doc)
        PROVE  /\ docs' \in [Requests -> Seq(Documents)] /\ index' \in [Requests -> Indexes]
               /\ \A q \in Requests \ {r} : docs'[q] = docs[q]
               /\ Len(docs'[r]) \in {Len(docs[r]), Len(docs[r]) + 1}
    <3>1. /\ docs' = [docs EXCEPT ![r] = Append(docs[r], doc)]
          /\ index' = [index EXCEPT ![r] = MergedIndex(index[r], doc)]
      BY <2>2 DEF Takes
    <3>2. Append(docs[r], doc) \in Seq(Documents) /\ Len(Append(docs[r], doc)) = Len(docs[r]) + 1
      BY <1>2
    <3>3. MergedIndex(index[r], doc) \in Indexes
      BY <1>2, MergedIndexType
    <3>4. QED BY <1>2, <3>1, <3>2, <3>3
  <2>3. QED BY <1>1, <2>1, <2>2
<1>4. Len(docs'[r]) < visit'[r]
  BY <1>1, <1>2, <1>3
<1>5. ~LastMember(r) => visit'[r] \in DOMAIN order[r]
  BY <1>1, NextIsThere DEF LastMember
<1>6. ASSUME NEW q \in Requests
      PROVE  /\ pc'[q] # "idle" => req'[q] \in Asks /\ order'[q] \in VirtualMembers
             /\ pc'[q] \in {"download", "serve", "fetch", "index", "info"}
                   => visit'[q] \in DOMAIN order'[q]
             /\ pc'[q] = "done" <=> status'[q] # "none"
             /\ Len(docs'[q]) < visit'[q]
  <2>1. CASE q = r
    BY <2>1, <1>1, <1>4, <1>5 DEF Control, TypeOK
  <2>2. CASE q # r
    BY <2>2, <1>1, <1>3 DEF Control, TypeOK
  <2>3. QED BY <2>1, <2>2
<1>7. /\ format' = format /\ offers' = offers /\ rows' = rows /\ req' = req
      /\ order' = order /\ sent' = sent /\ known' = known
  BY <1>1
<1>8. QED BY <1>1, <1>3, <1>6, <1>7 DEF TypeOK, Control, Blame, Statuses

LEMMA AnswerIndexTypeOK ==
  ASSUME TypeOK, NEW r \in Requests, AnswerIndex(r)
  PROVE  TypeOK'
<1>1. /\ UNCHANGED <<format, offers, former, rows, req, order, sent, docs, known, failed>>
      /\ pc[r] = "merge"
  BY DEF AnswerIndex
<1>2. Control(r) /\ EndsHere(r)
  BY FinishMoves DEF AnswerIndex, Statuses
<1>3. index' \in [Requests -> Indexes]
  <2>1. /\ index \in [Requests -> Indexes]
        /\ deduplicateFiles(docs[r]) \subseteq Links
    BY DeduplicatedType DEF TypeOK
  <2>2. PICK es \in SUBSET Links : es = deduplicateFiles(docs[r])
    BY <2>1
  <2>3. CASE index' = [index EXCEPT ![r].entries = es]
    BY <2>1, <2>3 DEF Indexes
  <2>4. QED BY <2>1, <2>2, <2>3 DEF AnswerIndex
<1>4. QED BY <1>1, <1>2, <1>3 DEF TypeOK, Control, EndsHere, Statuses

LEMMA StartTypeOK ==
  ASSUME TypeOK, NEW r \in Requests, RequestFits(r), Start(r)
  PROVE  TypeOK'
<1>1. PICK k \in RequestKinds, f \in Files,
           n \in {None} \cup (IF format \in {"npm", "pypi"} THEN Proxies ELSE {}) :
         /\ req' = [req EXCEPT ![r] = [kind |-> k, file |-> f, named |-> n]]
         /\ pc' = [pc EXCEPT ![r] = k]
  BY DEF Start
<1>2. PICK s \in VirtualMembers : order' = [order EXCEPT ![r] = s]
  BY DEF Start
<1>3. k \in {"download", "index", "info"}
  BY DEF RequestKinds
<1>4. [kind |-> k, file |-> f, named |-> n] \in Asks
  BY <1>3 DEF Asks
<1>5. /\ req' \in [Requests -> Asks \cup {None}] /\ req'[r] \in Asks
      /\ \A q \in Requests \ {r} : req'[q] = req[q]
  BY <1>1, <1>4 DEF TypeOK
<1>6. /\ pc' \in [Requests -> Phases] /\ pc'[r] = k
      /\ \A q \in Requests \ {r} : pc'[q] = pc[q]
  BY <1>1, <1>3 DEF TypeOK, Phases
<1>7. /\ order' \in [Requests -> VirtualMembers \cup {<<>>}] /\ order'[r] = s
      /\ \A q \in Requests \ {r} : order'[q] = order[q]
  BY <1>2 DEF TypeOK
<1>8. known' \in [Requests -> SUBSET (Members \X Files)]
  BY DEF TypeOK, Start
<1>9. /\ UNCHANGED <<format, offers, former, rows, visit, status, sent, failed, docs, index>>
      /\ pc[r] = "idle"
  BY DEF Start
<1>10. visit[r] \in DOMAIN s
  BY <1>9, OrderOfMembers DEF RequestFits
<1>11. QED BY <1>3, <1>5, <1>6, <1>7, <1>8, <1>9, <1>10 DEF TypeOK

-------------------------------------------------------------------------------
(* The search                                                               *)

LEMMA HoldersStay ==
  ASSUME NEW r \in Requests, UNCHANGED <<format, offers, req, known>>
  PROVE  HoldersOf(r)' = HoldersOf(r)
BY DEF HoldersOf

(* Whatever is received after a member has broken off, what it sent stays   *)
(* received.                                                                *)
LEMMA BrokeOffStays ==
  ASSUME TypeOK, NEW r \in Requests, SearchMove(r), NEW j, BrokeOff(r, j)
  PROVE  BrokeOff(r, j)'
<1>1. PICK i \in DOMAIN sent[r] : sent[r][i].by = order[r][j]
  BY DEF BrokeOff
<1>2. sent[r] \in Seq(Pieces)
  BY DEF TypeOK
<1>3. \A p \in Pieces : /\ Append(sent[r], p) \in Seq(Pieces)
                        /\ i \in DOMAIN Append(sent[r], p) /\ Append(sent[r], p)[i] = sent[r][i]
  BY <1>1, <1>2
<1>4. \A p, p2 \in Pieces : LET s == Append(Append(sent[r], p), p2)
                            IN  i \in DOMAIN s /\ s[i] = sent[r][i]
  BY <1>2, <1>3
<1>5. i \in DOMAIN sent'[r] /\ sent'[r][i] = sent[r][i]
  BY <1>1, <1>3, <1>4 DEF SearchMove, Received
<1>6. failed[r] \subseteq failed'[r] /\ order' = order
  BY DEF SearchMove, Blame
<1>7. QED BY <1>1, <1>5, <1>6 DEF BrokeOff

(* A holder that has not failed is ahead, or behind one that broke off; a   *)
(* client that has received something has it from one that broke off.       *)
LEMMA HoldersAreAhead ==
  ASSUME TypeOK, NEW r \in Requests, pc[r] \in Searching, PassedHadNothing(r),
         BytesExplained(r), NEW h \in HoldersOf(r) \ failed[r]
  PROVE  \/ \E j \in Visited(r) : BrokeOff(r, j) /\ Priority[order[r][j]] >= Priority[h]
         \/ /\ sent[r] = <<>> /\ Priority[Current(r)] >= Priority[h]
            /\ visit[r] = Len(order[r]) => Current(r) = h
<1>1. /\ order[r] \in VirtualMembers /\ visit[r] \in 1..Len(order[r])
      /\ visit[r] \in Nat \ {0} /\ Len(order[r]) \in Nat /\ h \in Members
  BY CurrentIsMember DEF TypeOK, Searching, HoldersOf
<1>2. PICK i \in 1..Len(order[r]) : order[r][i] = h
  BY <1>1, OrderOfMembers
<1>3. \A j \in 1..Len(order[r]) : j <= i => Priority[order[r][j]] >= Priority[h]
  BY <1>1, <1>2, OrderOfMembers
<1>4. CASE i < visit[r]
  <2>1. i \in Visited(r)
    BY <1>1, <1>4 DEF Visited
  <2>2. PICK j \in 1..i : BrokeOff(r, j)
    BY <1>2, <2>1 DEF PassedHadNothing
  <2>3. j \in Visited(r) /\ j \in 1..Len(order[r]) /\ j <= i
    BY <1>1, <1>4, <2>2 DEF Visited
  <2>4. QED BY <1>3, <2>2, <2>3
<1>5. CASE i >= visit[r] /\ sent[r] # <<>>
  <2>1. PICK j \in Visited(r) : BrokeOff(r, j)
    BY <1>5 DEF BytesExplained, Searching
  <2>2. j \in 1..Len(order[r]) /\ j <= i
    BY <1>1, <1>5, <2>1 DEF Visited
  <2>3. QED BY <1>3, <2>1, <2>2
<1>6. CASE i >= visit[r] /\ sent[r] = <<>>
  <2>1. Priority[order[r][visit[r]]] >= Priority[h]
    BY <1>1, <1>3, <1>6
  <2>2. visit[r] = Len(order[r]) => i = visit[r]
    BY <1>1, <1>6
  <2>3. QED BY <1>2, <1>6, <2>1, <2>2 DEF Current
<1>7. QED BY <1>1, <1>4, <1>5, <1>6

LEMMA MoveServesHolder ==
  ASSUME TypeOK, NEW r \in Requests, pc[r] \in Searching, SearchFacts(r), SearchMove(r)
  PROVE  HolderServed(r)'
<1>1. UNCHANGED <<format, offers, req, order, known>> /\ failed[r] \subseteq failed'[r]
  BY DEF SearchMove, Blame
<1> SUFFICES ASSUME Answered(r, {"download", "info"})', NEW h \in HoldersOf(r) \ failed'[r]
             PROVE  \E i \in 1..visit'[r] :
                        /\ Priority[order[r][i]] >= Priority[h]
                        /\ \/ sent'[r] = <<Piece(order[r][i], TRUE)>>
                           \/ BrokeOff(r, i)'
                           \/ i = visit'[r] /\ (Current(r)' \in failed'[r] \/ TurnedAway(r)')
  BY <1>1, HoldersStay DEF HolderServed, Piece
<1>2. pc'[r] = "done" /\ visit'[r] = visit[r] /\ EndsHere(r)
  BY DEF SearchMove, Answered, Stays, GoesOn, EndsHere
<1>3. visit[r] \in Nat \ {0} /\ visit[r] \in 1..visit[r]
  BY DEF TypeOK
<1>4. Current(r)' = Current(r)
  BY <1>1, <1>2 DEF Current
<1>5. CASE \E j \in Visited(r) : BrokeOff(r, j) /\ Priority[order[r][j]] >= Priority[h]
  <2>1. PICK j \in Visited(r) : BrokeOff(r, j) /\ Priority[order[r][j]] >= Priority[h]
    BY <1>5
  <2>2. BrokeOff(r, j)' /\ j \in 1..visit'[r]
    BY <1>2, <1>3, <2>1, BrokeOffStays DEF Visited
  <2>3. QED BY <2>1, <2>2
<1>6. CASE /\ sent[r] = <<>> /\ Priority[Current(r)] >= Priority[h]
           /\ visit[r] = Len(order[r]) => Current(r) = h
  <2>1. \/ sent'[r] = <<Piece(Current(r), TRUE)>>
        \/ Current(r) \in failed'[r]
        \/ TurnedAway(r)'
    BY <1>2, <1>6 DEF SearchMove, Found, Stays, GoesOn
  <2>2. QED BY <1>2, <1>3, <1>4, <1>6, <2>1 DEF Current
<1>7. h \in HoldersOf(r) \ failed[r] /\ PassedHadNothing(r) /\ BytesExplained(r)
  BY <1>1 DEF SearchFacts
<1>8. QED BY <1>5, <1>6, <1>7, HoldersAreAhead

LEMMA MovePassesNoHolder ==
  ASSUME TypeOK, NEW r \in Requests, pc[r] \in Searching, SearchFacts(r), SearchMove(r)
  PROVE  PassedHadNothing(r)'
<1>1. UNCHANGED <<format, offers, req, order, known>> /\ failed[r] \subseteq failed'[r]
  BY DEF SearchMove, Blame
<1> SUFFICES ASSUME pc'[r] \in Searching, NEW i \in 1..(visit'[r] - 1),
                    order[r][i] \in HoldersOf(r) \ failed'[r]
             PROVE  \E j \in 1..i : BrokeOff(r, j)'
  BY <1>1, HoldersStay DEF PassedHadNothing, Visited
<1>2. visit[r] \in Nat \ {0}
  BY DEF TypeOK
<1>3. CASE i \in Visited(r)
  <2>1. PICK j \in 1..i : BrokeOff(r, j)
    BY <1>1, <1>3 DEF SearchFacts, PassedHadNothing
  <2>2. QED BY <2>1, BrokeOffStays
<1>4. CASE i \notin Visited(r)
  <2>1. GoesOn(r) /\ i = visit[r]
    BY <1>2, <1>4 DEF SearchMove, Stays, GoesOn, EndsHere, Visited, Searching
  <2>2. sent[r] # <<>>
    BY <2>1 DEF SearchMove, Found, EndsHere, Stays, GoesOn, Searching, Current
  <2>3. PICK j \in Visited(r) : BrokeOff(r, j)
    BY <2>2 DEF SearchFacts, BytesExplained, Searching
  <2>4. j \in 1..i
    BY <1>2, <2>1, <2>3 DEF Visited
  <2>5. QED BY <2>3, <2>4, BrokeOffStays
<1>5. QED BY <1>3, <1>4

(* Once a Go proxy has broken off, it stays so.                             *)
LEMMA ProxyBrokeOffStays ==
  ASSUME TypeOK, NEW r \in Requests, ProxyBrokeOff(r), SearchMove(r)
  PROVE  ProxyBrokeOff(r)'
<1>1. PICK i \in DOMAIN sent[r] : sent[r][i].by \in failed[r] \cap Proxies
  BY DEF ProxyBrokeOff
<1>2. sent[r] \in Seq(Pieces)
  BY DEF TypeOK
<1>3. \A p \in Pieces : /\ Append(sent[r], p) \in Seq(Pieces)
                        /\ i \in DOMAIN Append(sent[r], p) /\ Append(sent[r], p)[i] = sent[r][i]
  BY <1>1, <1>2
<1>4. \A p, p2 \in Pieces : LET s == Append(Append(sent[r], p), p2)
                            IN  i \in DOMAIN s /\ s[i] = sent[r][i]
  BY <1>2, <1>3
<1>5. i \in DOMAIN sent'[r] /\ sent'[r][i] = sent[r][i]
  BY <1>1, <1>3, <1>4 DEF SearchMove, Received
<1>6. failed[r] \subseteq failed'[r] /\ format' = format /\ req' = req
  BY DEF SearchMove, Blame
<1>7. QED BY <1>1, <1>5, <1>6 DEF ProxyBrokeOff

LEMMA MoveExplainsBytes ==
  ASSUME TypeOK, NEW r \in Requests, pc[r] \in Searching, SearchFacts(r), SearchMove(r)
  PROVE  BytesExplained(r)' /\ OneMemberServed(r)'
<1>1. sent[r] \in Seq(Pieces) /\ visit[r] \in Nat \ {0}
  BY DEF TypeOK
<1>2. visit'[r] \in {visit[r], visit[r] + 1}
  BY DEF SearchMove, Stays, EndsHere, GoesOn
<1>3. CASE sent[r] # <<>>
  <2>1. ProxyBrokeOff(r)
    BY <1>3 DEF SearchFacts, BytesExplained, Searching
  <2>2. PICK j \in Visited(r) : BrokeOff(r, j)
    BY <1>3 DEF SearchFacts, BytesExplained, Searching
  <2>3. ProxyBrokeOff(r)' /\ BrokeOff(r, j)' /\ j \in Visited(r)'
    BY <1>1, <1>2, <2>1, <2>2, ProxyBrokeOffStays, BrokeOffStays DEF Visited
  <2>4. QED BY <2>3 DEF BytesExplained, OneMemberServed
<1>4. CASE sent[r] = <<>> /\ sent'[r] = sent[r]
  BY <1>4 DEF BytesExplained, OneMemberServed
<1>5. ASSUME sent[r] = <<>>, EndsHere(r), NEW p \in Pieces, sent'[r] = Append(sent[r], p)
      PROVE  BytesExplained(r)' /\ OneMemberServed(r)'
  <2>1. Len(sent'[r]) = 1
    BY <1>5
  <2>2. QED BY <2>1, <1>5 DEF BytesExplained, OneMemberServed, EndsHere
<1>6. ASSUME sent[r] = <<>>, format = "go", req[r].kind = "download",
             Current(r) \in failed'[r] \cap Proxies, NEW p \in Pieces, p.by = Current(r),
             \/ sent'[r] = Append(sent[r], p)
             \/ \E p2 \in Pieces : sent'[r] = Append(Append(sent[r], p), p2)
      PROVE  BytesExplained(r)' /\ OneMemberServed(r)'
  <2>1. 1 \in DOMAIN sent'[r] /\ sent'[r][1] = p
    BY <1>6
  <2>2. format' = format /\ req' = req /\ order' = order
    BY DEF SearchMove
  <2>3. ProxyBrokeOff(r)'
    BY <1>6, <2>1, <2>2 DEF ProxyBrokeOff
  <2>4. PICK j : j = visit[r]
    OBVIOUS
  <2>5. sent'[r] # sent[r]
    BY <1>6, <2>1
  <2>6. BrokeOff(r, j)'
    BY <1>6, <2>1, <2>2, <2>4 DEF BrokeOff, Current
  <2>7. pc'[r] # "done" => j \in Visited(r)'
    BY <1>1, <2>4, <2>5 DEF SearchMove, Stays, EndsHere, GoesOn, Visited
  <2>8. QED BY <2>3, <2>6, <2>7 DEF BytesExplained, OneMemberServed
<1>7. QED BY <1>3, <1>4, <1>5, <1>6 DEF SearchMove, Received

LEMMA MoveFits ==
  ASSUME TypeOK, NEW r \in Requests, pc[r] \in Searching, SearchFacts(r), SearchMove(r)
  PROVE  RequestFits(r)'
<1>1. /\ UNCHANGED <<format, offers, former, req, order, docs, index, known>>
      /\ rows \subseteq rows'
      /\ Stays(r) \/ EndsHere(r) \/ GoesOn(r)
  BY DEF SearchMove
<1>2. /\ known[r] \subseteq rows /\ req[r].kind \in RequestKinds
      /\ pc[r] = "info" => req[r].kind = "info"
      /\ pc[r] # "info" => req[r].kind = "download"
  BY DEF SearchFacts, RequestFits, Searching
<1>3. RequestKinds' = RequestKinds
  BY <1>1 DEF RequestKinds
<1>4. /\ pc'[r] \in Searching \cup {"done"}
      /\ pc'[r] \in {"download", "serve", "fetch"} => req[r].kind = "download"
      /\ pc'[r] = "info" => req[r].kind = "info"
  BY <1>1, <1>2 DEF Stays, EndsHere, GoesOn, Searching
<1>5. pc'[r] = "fetch" => CanProxy(r)'
  BY <1>1 DEF Stays, EndsHere, GoesOn, CanProxy, Current
<1>6. ~Answered(r, {"index"})'
  BY <1>1, <1>2 DEF Answered
<1>7. QED BY <1>1, <1>2, <1>3, <1>4, <1>5, <1>6 DEF RequestFits, Searching, Indexing

LEMMA MoveSearchFacts ==
  ASSUME TypeOK, NEW r \in Requests, pc[r] \in Searching, SearchFacts(r), SearchMove(r)
  PROVE  SearchFacts(r)'
BY MoveServesHolder, MovePassesNoHolder, MoveExplainsBytes, MoveFits DEF SearchFacts

(* The steps of an index page leave nothing to a search, and Start leaves   *)
(* all of it to do.                                                         *)
LEMMA IndexStepSearchFacts ==
  ASSUME TypeOK, NEW r \in Requests, SearchFacts(r), CollectListing(r) \/ AnswerIndex(r)
  PROVE  SearchFacts(r)'
<1>1. /\ UNCHANGED <<format, offers, former, rows, req, order, sent, known>>
      /\ pc[r] \in Indexing
  BY DEF CollectListing, AnswerIndex, Indexing
<1>2. req[r].kind = "index" /\ known[r] \subseteq rows /\ req[r].kind \in RequestKinds
  BY <1>1 DEF SearchFacts, RequestFits, Indexing
<1>3. sent[r] = <<>>
  BY <1>1, <1>2 DEF SearchFacts, BytesExplained, ProxyBrokeOff, Indexing
<1>4. /\ pc'[r] \in Indexing \cup {"done"}
      /\ pc'[r] \in {"merge", "done"} => visit'[r] = Len(order[r]) + 1
  <2>1. CASE CollectListing(r)
    BY <2>1, CollectListingMoves DEF Indexing, LastMember
  <2>2. CASE AnswerIndex(r)
    <3>1. Control(r) /\ EndsHere(r) /\ pc[r] = "merge"
      BY <2>2, FinishMoves DEF AnswerIndex, Statuses
    <3>2. QED BY <3>1 DEF EndsHere, SearchFacts, RequestFits
  <2>3. QED BY <2>1, <2>2
<1>5. RequestKinds' = RequestKinds
  BY <1>1 DEF RequestKinds
<1>6. RequestFits(r)'
  BY <1>1, <1>2, <1>4, <1>5 DEF RequestFits, Indexing, Answered
<1>7. PassedHadNothing(r)' /\ HolderServed(r)'
  BY <1>1, <1>2, <1>4 DEF PassedHadNothing, HolderServed, Answered, Searching, Indexing
<1>8. BytesExplained(r)' /\ OneMemberServed(r)'
  BY <1>1, <1>3 DEF BytesExplained, OneMemberServed
<1>9. QED BY <1>6, <1>7, <1>8 DEF SearchFacts

LEMMA StartSearchFacts ==
  ASSUME TypeOK, NEW r \in Requests, SearchFacts(r), Start(r)
  PROVE  SearchFacts(r)'
<1>1. PICK k \in RequestKinds, f \in Files,
           n \in {None} \cup (IF format \in {"npm", "pypi"} THEN Proxies ELSE {}) :
         /\ req' = [req EXCEPT ![r] = [kind |-> k, file |-> f, named |-> n]]
         /\ pc' = [pc EXCEPT ![r] = k]
  BY DEF Start
<1>2. /\ UNCHANGED <<format, offers, former, rows, visit, status, sent, failed, docs, index>>
      /\ pc[r] = "idle" /\ known' = [known EXCEPT ![r] = rows]
  BY DEF Start
<1>3. /\ pc'[r] = k /\ req'[r].kind = k /\ known'[r] = rows
      /\ k \in {"download", "info", "index"}
  BY <1>1, <1>2 DEF TypeOK, RequestKinds
<1>4. visit'[r] = 1 /\ sent'[r] = <<>>
  BY <1>2 DEF SearchFacts, RequestFits
<1>5. RequestKinds' = RequestKinds
  BY <1>2 DEF RequestKinds
<1>6. RequestFits(r)'
  BY <1>2, <1>3, <1>5 DEF RequestFits, Indexing, Answered
<1>7. PassedHadNothing(r)' /\ HolderServed(r)'
  BY <1>3, <1>4 DEF PassedHadNothing, HolderServed, Answered, Visited
<1>8. BytesExplained(r)' /\ OneMemberServed(r)'
  BY <1>4 DEF BytesExplained, OneMemberServed
<1>9. QED BY <1>6, <1>7, <1>8 DEF SearchFacts

-------------------------------------------------------------------------------
(* Merging listings                                                         *)

LEMMA AppendedListings ==
  ASSUME NEW ds \in Seq(Documents), NEW d \in Documents
  PROVE  /\ Len(ds) \in Nat /\ DOMAIN ds = 1..Len(ds)
         /\ DOMAIN Append(ds, d) = 1..(Len(ds) + 1) /\ Append(ds, d) # <<>>
         /\ \A i \in 1..Len(ds) : Append(ds, d)[i] = ds[i]
         /\ Append(ds, d)[Len(ds) + 1] = d
OBVIOUS

LEMMA EntryOf ==
  ASSUME NEW doc, NEW e
  PROVE  /\ e \in Entries(doc) <=> \E f \in doc.files : e = [file |-> f, from |-> doc.from]
         /\ e \in Entries(doc) => /\ e.file \in doc.files /\ e.from = doc.from
                                  /\ e = [file |-> e.file, from |-> doc.from]
BY DEF Entries

LEMMA InDeduplicated ==
  ASSUME NEW ds, NEW e
  PROVE  e \in deduplicateFiles(ds) <=>
             \E i \in DOMAIN ds : /\ e \in Entries(ds[i])
                                  /\ \A j \in 1..(i - 1) : e.file \notin ds[j].files
BY DEF deduplicateFiles

LEMMA HasFirstsAppend ==
  ASSUME NEW ds \in Seq(Documents), NEW d \in Documents, HasFirsts(ds)
  PROVE  HasFirsts(Append(ds, d))
<1> DEFINE n == Len(ds)
           es == Append(ds, d)
<1>1. /\ n \in Nat /\ DOMAIN ds = 1..n /\ DOMAIN es = 1..(n + 1)
      /\ \A i \in 1..n : es[i] = ds[i]
  BY AppendedListings
<1> HIDE DEF n, es
<1> SUFFICES ASSUME NEW i \in 1..(n + 1), NEW f \in es[i].files
             PROVE  \E j \in 1..i : /\ f \in es[j].files
                                    /\ \A k \in 1..(j - 1) : f \notin es[k].files
  BY <1>1 DEF HasFirsts, es
<1>2. ASSUME NEW h \in 1..n, f \in ds[h].files, h <= i
      PROVE  \E j \in 1..i : /\ f \in es[j].files
                             /\ \A k \in 1..(j - 1) : f \notin es[k].files
  <2>1. PICK j \in 1..h : f \in ds[j].files /\ \A k \in 1..(j - 1) : f \notin ds[k].files
    BY <1>1, <1>2 DEF HasFirsts
  <2>2. j \in 1..i /\ j \in 1..n /\ \A k \in 1..(j - 1) : k \in 1..n
    BY <1>1, <1>2
  <2>3. QED BY <1>1, <2>1, <2>2
<1>3. CASE \E h \in 1..n : h <= i /\ f \in ds[h].files
  BY <1>2, <1>3
<1>4. CASE \A h \in 1..n : h <= i => f \notin ds[h].files
  <2>1. i = n + 1
    BY <1>1, <1>4
  <2>2. \A k \in 1..(i - 1) : k \in 1..n /\ f \notin es[k].files
    BY <1>1, <1>4, <2>1
  <2>3. i \in 1..i
    BY <1>1
  <2>4. QED BY <2>2, <2>3
<1>5. QED BY <1>3, <1>4

(* Another listing adds the files that no earlier one has.                  *)
LEMMA DeduplicatedAppend ==
  ASSUME NEW ds \in Seq(Documents), NEW d \in Documents
  PROVE  deduplicateFiles(Append(ds, d)) =
             deduplicateFiles(ds) \cup
                 {e \in Entries(d) : \A j \in 1..Len(ds) : e.file \notin ds[j].files}
<1> DEFINE n == Len(ds)
           es == Append(ds, d)
<1>1. /\ n \in Nat /\ DOMAIN ds = 1..n /\ DOMAIN es = 1..(n + 1)
      /\ \A i \in 1..n : es[i] = ds[i]
      /\ es[n + 1] = d
  BY AppendedListings
<1> HIDE DEF n, es
<1>2. ASSUME NEW e, e \in deduplicateFiles(es)
      PROVE  \/ e \in deduplicateFiles(ds)
             \/ e \in Entries(d) /\ \A j \in 1..n : e.file \notin ds[j].files
  <2>1. PICK i \in 1..(n + 1) : /\ e \in Entries(es[i])
                                /\ \A j \in 1..(i - 1) : e.file \notin es[j].files
    BY <1>1, <1>2, InDeduplicated
  <2>2. CASE i = n + 1
    BY <1>1, <2>1, <2>2
  <2>3. CASE i \in 1..n
    <3>1. \A j \in 1..(i - 1) : j \in 1..n
      BY <1>1, <2>3
    <3>2. e \in Entries(ds[i]) /\ \A j \in 1..(i - 1) : e.file \notin ds[j].files
      BY <1>1, <2>1, <2>3, <3>1
    <3>3. QED BY <1>1, <2>3, <3>2, InDeduplicated
  <2>4. QED BY <1>1, <2>2, <2>3
<1>3. ASSUME NEW e, e \in deduplicateFiles(ds)
      PROVE  e \in deduplicateFiles(es)
  <2>1. PICK i \in 1..n : /\ e \in Entries(ds[i])
                          /\ \A j \in 1..(i - 1) : e.file \notin ds[j].files
    BY <1>1, <1>3, InDeduplicated
  <2>2. i \in 1..(n + 1) /\ \A j \in 1..(i - 1) : j \in 1..n
    BY <1>1
  <2>3. e \in Entries(es[i]) /\ \A j \in 1..(i - 1) : e.file \notin es[j].files
    BY <1>1, <2>1, <2>2
  <2>4. QED BY <1>1, <2>2, <2>3, InDeduplicated
<1>4. ASSUME NEW e \in Entries(d), \A j \in 1..n : e.file \notin ds[j].files
      PROVE  e \in deduplicateFiles(es)
  <2>1. n + 1 \in 1..(n + 1) /\ (n + 1) - 1 = n
    BY <1>1
  <2>2. e \in Entries(es[n + 1]) /\ \A j \in 1..((n + 1) - 1) : e.file \notin es[j].files
    BY <1>1, <1>4, <2>1
  <2>3. QED BY <1>1, <2>1, <2>2, InDeduplicated
<1>5. QED BY <1>2, <1>3, <1>4 DEF n, es

(* The deduplicated listings name every file, by its first listing.         *)
LEMMA DeduplicatedCovers ==
  ASSUME NEW ds, HasFirsts(ds), NEW i \in DOMAIN ds, NEW f \in ds[i].files,
         \A j \in 1..i : j \in DOMAIN ds
  PROVE  \E j \in 1..i : [file |-> f, from |-> ds[j].from] \in deduplicateFiles(ds)
<1>1. PICK j \in 1..i : f \in ds[j].files /\ \A k \in 1..(j - 1) : f \notin ds[k].files
  BY DEF HasFirsts
<1>2. [file |-> f, from |-> ds[j].from] \in Entries(ds[j])
  BY <1>1, EntryOf
<1>3. QED BY <1>1, <1>2, InDeduplicated

(* They name no file twice.                                                 *)
LEMMA DeduplicatedOnce ==
  ASSUME NEW ds \in Seq(Documents), NEW e \in deduplicateFiles(ds),
         NEW d \in deduplicateFiles(ds), e.file = d.file
  PROVE  e = d
<1>1. DOMAIN ds = 1..Len(ds) /\ Len(ds) \in Nat
  OBVIOUS
<1>2. PICK i \in 1..Len(ds) : /\ e \in Entries(ds[i])
                              /\ \A k \in 1..(i - 1) : e.file \notin ds[k].files
  BY <1>1, InDeduplicated
<1>3. PICK j \in 1..Len(ds) : /\ d \in Entries(ds[j])
                              /\ \A k \in 1..(j - 1) : d.file \notin ds[k].files
  BY <1>1, InDeduplicated
<1>4. e.file \in ds[i].files /\ d.file \in ds[j].files
  BY <1>2, <1>3, EntryOf
<1>5. i = j
  <2>1. ~(i < j)
    BY <1>1, <1>3, <1>4
  <2>2. ~(j < i)
    BY <1>1, <1>2, <1>4
  <2>3. QED BY <2>1, <2>2
<1>6. QED BY <1>2, <1>3, <1>5, EntryOf

(* Another listing gives a tag its version only if no earlier one has it.   *)
LEMMA FirstTagAppend ==
  ASSUME NEW ds \in Seq(Documents), NEW d \in Documents, NEW t, NEW v, FirstTag(ds, t, v)
  PROVE  FirstTag(Append(ds, d), t, IF v # None THEN v ELSE d.tags[t])
<1> DEFINE n == Len(ds)
           es == Append(ds, d)
<1>1. /\ n \in Nat /\ DOMAIN ds = 1..n /\ DOMAIN es = 1..(n + 1)
      /\ \A i \in 1..n : es[i] = ds[i]
      /\ es[n + 1] = d
  BY AppendedListings
<1> HIDE DEF n, es
<1>2. CASE v # None
  <2>1. PICK i \in 1..n : /\ ds[i].tags[t] # None /\ v = ds[i].tags[t]
                          /\ \A j \in 1..(i - 1) : ds[j].tags[t] = None
    BY <1>1, <1>2 DEF FirstTag
  <2>2. i \in 1..(n + 1) /\ \A j \in 1..(i - 1) : j \in 1..n
    BY <1>1
  <2>3. QED BY <1>1, <1>2, <2>1, <2>2 DEF FirstTag, es
<1>3. CASE v = None
  <2>1. \A i \in 1..n : es[i].tags[t] = None
    BY <1>1, <1>3 DEF FirstTag
  <2>2. n + 1 \in 1..(n + 1) /\ \A j \in 1..((n + 1) - 1) : j \in 1..n
    BY <1>1
  <2>3. CASE d.tags[t] = None
    <3>1. \A i \in 1..(n + 1) : i \in 1..n \/ i = n + 1
      BY <1>1
    <3>2. \A i \in 1..(n + 1) : es[i].tags[t] = None
      BY <1>1, <2>1, <2>3, <3>1
    <3>3. QED BY <1>1, <1>3, <2>3, <3>2 DEF FirstTag, es
  <2>4. CASE d.tags[t] # None
    BY <1>1, <1>3, <2>1, <2>2, <2>4 DEF FirstTag, es
  <2>5. QED BY <2>3, <2>4
<1>4. QED BY <1>2, <1>3

LEMMA UnlinkedAppend ==
  ASSUME NEW ds \in Seq(Documents), NEW d \in Documents
  PROVE  Unlinked(Append(ds, d)) =
             Unlinked(ds) \cup {[file |-> f, from |-> None] : f \in d.files}
<1> DEFINE n == Len(ds)
           es == Append(ds, d)
           links(doc) == {[file |-> f, from |-> None] : f \in doc.files}
<1>1. /\ n \in Nat /\ DOMAIN ds = 1..n /\ DOMAIN es = 1..(n + 1)
      /\ \A i \in 1..n : es[i] = ds[i]
      /\ es[n + 1] = d
  BY AppendedListings
<1>2. Unlinked(es) = UNION {links(es[i]) : i \in 1..(n + 1)}
  BY <1>1 DEF Unlinked
<1>3. Unlinked(ds) = UNION {links(ds[i]) : i \in 1..n}
  BY <1>1 DEF Unlinked
<1> HIDE DEF n, es, links
<1>4. \A i \in 1..(n + 1) : i \in 1..n \/ i = n + 1
  BY <1>1
<1>5. \A i \in 1..n : i \in 1..(n + 1)
  BY <1>1
<1>6. n + 1 \in 1..(n + 1)
  BY <1>1
<1>7. Unlinked(es) = Unlinked(ds) \cup links(d)
  BY <1>1, <1>2, <1>3, <1>4, <1>5, <1>6
<1>8. QED BY <1>7 DEF es, links

-------------------------------------------------------------------------------
(* The index pages                                                          *)

(* A member lists what it had when the index was asked for.                 *)
LEMMA HadIsListed ==
  ASSUME NEW r \in Requests, NEW m \in Members, known[r] \subseteq rows, NEW l \in Listings(m)
  PROVE  HadFiles(r, m) \subseteq l
BY DEF HadFiles, Listings, Held

LEMMA CopiesStay ==
  ASSUME NEW m, UNCHANGED <<format, offers, former>>
  PROVE  Copies(m)' = Copies(m)
BY DEF Copies, Held

LEMMA ListingsOnlyGrow ==
  ASSUME NEW m, UNCHANGED <<format, offers, former>>, rows \subseteq rows'
  PROVE  UNION Listings(m) \subseteq UNION Listings(m)'
<1>1. Copies(m)' = Copies(m) /\ Held(rows, m) \subseteq Held(rows', m)
  BY CopiesStay DEF Held
<1>2. Listings(m)' = IF m \in Proxies THEN Copies(m) ELSE {Held(rows', m)}
  BY <1>1 DEF Listings
<1>3. QED BY <1>1, <1>2 DEF Listings

(* A search leaves docs and index alone.                                    *)
LEMMA MoveIndexFacts ==
  ASSUME TypeOK, NEW r \in Requests, pc[r] \in Searching, SearchFacts(r), IndexFacts(r),
         SearchMove(r)
  PROVE  IndexFacts(r)'
<1>1. /\ UNCHANGED <<format, offers, former, req, order, docs, index, known>>
      /\ rows \subseteq rows'
      /\ visit'[r] \in {visit[r], visit[r] + 1} /\ visit[r] \in Nat \ {0}
  BY DEF SearchMove, Stays, EndsHere, GoesOn, TypeOK
<1>2. req[r].kind # "index"
  BY DEF SearchFacts, RequestFits, Searching
<1>3. HasFirsts(docs[r])'
  BY <1>1 DEF IndexFacts, HasFirsts
<1>4. ListingsAreReal(r)'
  <2>1. Visited(r) \subseteq Visited(r)'
    BY <1>1 DEF Visited
  <2>2. \A m : UNION Listings(m) \subseteq UNION Listings(m)'
    BY <1>1, ListingsOnlyGrow
  <2>3. failed[r] \subseteq failed'[r]
    BY DEF SearchMove, Blame
  <2>4. QED BY <1>1, <2>1, <2>2, <2>3 DEF IndexFacts, ListingsAreReal
<1>5. PassedAreListed(r)'
  BY <1>1, <1>2 DEF PassedAreListed
<1>6. IndexIsMerged(r)'
  BY <1>1, <1>2 DEF IndexFacts, IndexIsMerged, Answered
<1>7. QED BY <1>3, <1>4, <1>5, <1>6 DEF IndexFacts

LEMMA StartIndexFacts ==
  ASSUME TypeOK, NEW r \in Requests, SearchFacts(r), IndexFacts(r), Start(r)
  PROVE  IndexFacts(r)'
<1>1. /\ UNCHANGED <<format, offers, former, rows, visit, status, sent, failed, docs, index>>
      /\ pc[r] = "idle"
  BY DEF Start
<1>2. docs[r] = <<>> /\ visit[r] = 1
  BY <1>1 DEF SearchFacts, RequestFits
<1>3. ~Answered(r, {"index"})'
  BY DEF Start, RequestKinds, TypeOK, Answered
<1>4. HasFirsts(docs[r])' /\ ListingsAreReal(r)' /\ PassedAreListed(r)'
  BY <1>1, <1>2 DEF HasFirsts, ListingsAreReal, PassedAreListed, Visited
<1>5. IndexIsMerged(r)'
  BY <1>1, <1>3 DEF IndexFacts, IndexIsMerged
<1>6. QED BY <1>4, <1>5 DEF IndexFacts

LEMMA AnswerIndexFacts ==
  ASSUME TypeOK, NEW r \in Requests, SearchFacts(r), IndexFacts(r), AnswerIndex(r)
  PROVE  IndexFacts(r)'
<1>1. /\ UNCHANGED <<format, offers, former, rows, req, order, sent, docs, known, failed>>
      /\ UNCHANGED visit /\ pc[r] = "merge" /\ pc'[r] = "done"
      /\ status'[r] = (IF docs[r] = <<>> THEN "notFound" ELSE "ok")
  BY DEF AnswerIndex, Finish, TypeOK
<1>2. HasFirsts(docs[r])' /\ ListingsAreReal(r)'
  <2>1. \A m : UNION Listings(m) \subseteq UNION Listings(m)'
    BY <1>1, ListingsOnlyGrow
  <2>2. QED BY <1>1, <2>1 DEF IndexFacts, HasFirsts, ListingsAreReal, Visited
<1>3. PassedAreListed(r)'
  <2>1. \A m : HadFiles(r, m)' = HadFiles(r, m)
    BY <1>1, CopiesStay DEF HadFiles
  <2>2. Visited(r)' = Visited(r) /\ order'[r] = order[r] /\ req'[r] = req[r]
    BY <1>1 DEF Visited
  <2>3. SUFFICES ASSUME req[r].kind = "index", NEW k \in Visited(r),
                        order[r][k] \notin failed[r], NEW f \in HadFiles(r, order[r][k])'
                 PROVE  \E i \in DOMAIN docs[r] :
                            docs[r][i].from = order[r][k] /\ f \in docs[r][i].files
    BY <1>1, <2>2 DEF PassedAreListed
  <2>4. PICK m : m = order[r][k] /\ m = order'[r][k]
    BY <2>2
  <2>5. f \in HadFiles(r, m)
    BY <2>1, <2>3, <2>4
  <2>6. QED BY <1>1, <2>3, <2>4, <2>5 DEF IndexFacts, PassedAreListed
<1>4. \/ format = "pypi" /\ index'[r].entries = deduplicateFiles(docs[r])
      \/ format # "pypi" /\ UNCHANGED index
  <2>1. index \in [Requests -> Indexes]
    BY DEF TypeOK
  <2>2. PICK es : es = deduplicateFiles(docs[r])
    OBVIOUS
  <2>3. index' = [index EXCEPT ![r].entries = es] => index'[r].entries = es
    BY <2>1 DEF Indexes
  <2>4. QED BY <2>2, <2>3 DEF AnswerIndex
<1>5. IndexIsMerged(r)'
  BY <1>1, <1>4 DEF IndexFacts, IndexIsMerged
<1>6. QED BY <1>2, <1>3, <1>5 DEF IndexFacts

LEMMA TakesMerges ==
  ASSUME TypeOK, NEW r \in Requests, IndexFacts(r), UNCHANGED format, pc'[r] # "done",
         NEW doc \in Documents, Takes(r, doc)
  PROVE  IndexIsMerged(r)'
<1> DEFINE ds == docs[r]
           base == index[r]
<1>1. /\ ds \in Seq(Documents) /\ base \in Indexes
      /\ docs'[r] = Append(ds, doc) /\ index'[r] = MergedIndex(base, doc)
      /\ ~Answered(r, {"index"})'
  BY DEF TypeOK, Takes, Answered
<1>2. /\ HasFirsts(ds)
      /\ format = "npm" => /\ base.entries = deduplicateFiles(ds)
                           /\ \A t \in Tags : FirstTag(ds, t, base.tags[t])
      /\ format = "go" => base.entries = Unlinked(ds)
  BY DEF IndexFacts, IndexIsMerged
<1> HIDE DEF ds, base
<1>3. ASSUME format = "npm"
      PROVE  /\ index'[r].entries = deduplicateFiles(docs'[r])
             /\ \A t \in Tags : FirstTag(docs'[r], t, index'[r].tags[t])
  <2>1. /\ index'[r].entries = base.entries \cup
              {n \in Entries(doc) : ~\E e \in base.entries : e.file = n.file}
        /\ \A t \in Tags : index'[r].tags[t] =
              IF base.tags[t] # None THEN base.tags[t] ELSE doc.tags[t]
    BY <1>1, <1>3 DEF MergedIndex, mergeMetadata
  <2>2. ASSUME NEW f
        PROVE  (\E e \in deduplicateFiles(ds) : e.file = f)
                 <=> (\E j \in 1..Len(ds) : f \in ds[j].files)
    <3>1. DOMAIN ds = 1..Len(ds) /\ Len(ds) \in Nat
      BY <1>1
    <3>2. ASSUME NEW e \in deduplicateFiles(ds), e.file = f
          PROVE  \E j \in 1..Len(ds) : f \in ds[j].files
      BY <3>1, <3>2, InDeduplicated, EntryOf
    <3>3. ASSUME NEW j \in 1..Len(ds), f \in ds[j].files
          PROVE  \E e \in deduplicateFiles(ds) : e.file = f
      <4>1. \A k \in 1..j : k \in DOMAIN ds
        BY <3>1
      <4>2. PICK k \in 1..j : [file |-> f, from |-> ds[k].from] \in deduplicateFiles(ds)
        BY <1>2, <3>1, <3>3, <4>1, DeduplicatedCovers
      <4>3. QED BY <4>2
    <3>4. QED BY <3>2, <3>3
  <2>3. index'[r].entries = deduplicateFiles(docs'[r])
    <3>1. base.entries = deduplicateFiles(ds)
      BY <1>2, <1>3
    <3>2. \A n \in Entries(doc) : (\E e \in base.entries : e.file = n.file)
                                    <=> ~\A j \in 1..Len(ds) : n.file \notin ds[j].files
      BY <2>2, <3>1
    <3>3. {n \in Entries(doc) : ~\E e \in base.entries : e.file = n.file}
             = {n \in Entries(doc) : \A j \in 1..Len(ds) : n.file \notin ds[j].files}
      BY <3>2
    <3>4. QED BY <1>1, <2>1, <3>1, <3>3, DeduplicatedAppend
  <2>4. \A t \in Tags : FirstTag(docs'[r], t, index'[r].tags[t])
    BY <1>1, <1>2, <1>3, <2>1, FirstTagAppend
  <2>5. QED BY <2>3, <2>4
<1>4. ASSUME format = "go"
      PROVE  index'[r].entries = Unlinked(docs'[r])
  <2> DEFINE unlinked == {[file |-> f, from |-> None] : f \in doc.files}
  <2>1. index'[r] = [base EXCEPT !.entries = base.entries \cup unlinked]
    BY <1>1, <1>4 DEF MergedIndex
  <2>2. index'[r].entries = base.entries \cup unlinked
    BY <1>1, <2>1 DEF Indexes
  <2>3. QED BY <1>1, <1>2, <1>4, <2>2, UnlinkedAppend
<1>5. QED BY <1>1, <1>3, <1>4 DEF IndexIsMerged

LEMMA CollectIndexFacts ==
  ASSUME TypeOK, NEW r \in Requests, SearchFacts(r), IndexFacts(r), CollectListing(r)
  PROVE  IndexFacts(r)'
<1>1. /\ pc[r] = "index" /\ Current(r) \in Members
      /\ UNCHANGED <<format, offers, former, rows, req, order, sent, known>>
      /\ visit'[r] = visit[r] + 1 /\ pc'[r] \in Indexing /\ failed[r] \subseteq failed'[r]
      /\ TakesNone(r) \/ \E doc \in Documents : Takes(r, doc)
  BY CollectListingMoves DEF Blame, Indexing
<1>2. /\ visit[r] \in 1..Len(order[r]) /\ visit[r] \in Nat \ {0}
      /\ order[r] \in VirtualMembers /\ docs[r] \in Seq(Documents)
      /\ docs \in [Requests -> Seq(Documents)]
  BY <1>1, CurrentIsMember DEF TypeOK
<1>3. /\ \A k \in Visited(r)' : k \in Visited(r) \/ k = visit[r]
      /\ Visited(r) \subseteq Visited(r)' /\ visit[r] \in Visited(r)'
  BY <1>1, <1>2 DEF Visited
<1>4. \A l \in Listings(Current(r)) : HadFiles(r, Current(r)) \subseteq l
  BY <1>1, HadIsListed DEF SearchFacts, RequestFits
<1>5. \A m : /\ UNION Listings(m) \subseteq UNION Listings(m)'
             /\ HadFiles(r, m)' = HadFiles(r, m)
  BY <1>1, ListingsOnlyGrow, CopiesStay DEF HadFiles
<1>6. order'[r] = order[r] /\ Current(r) = order[r][visit[r]]
  BY <1>1 DEF Current
<1>7. CASE TakesNone(r)
  <2>1. HasFirsts(docs[r])' /\ ListingsAreReal(r)'
    BY <1>1, <1>3, <1>5, <1>6, <1>7 DEF TakesNone, IndexFacts, HasFirsts, ListingsAreReal
  <2>2. PassedAreListed(r)'
    <3> SUFFICES ASSUME NEW k \in Visited(r)', order[r][k] \notin failed'[r],
                        NEW f \in HadFiles(r, order[r][k])
                 PROVE  \E i \in DOMAIN docs[r] :
                            docs[r][i].from = order[r][k] /\ f \in docs[r][i].files
      BY <1>5, <1>6, <1>7 DEF PassedAreListed, TakesNone
    <3>1. k # visit[r]
      BY <1>4, <1>6, <1>7 DEF TakesNone
    <3>2. k \in Visited(r) /\ order[r][k] \notin failed[r]
      BY <1>1, <1>3, <3>1
    <3>3. req[r].kind = "index"
      BY <1>1 DEF SearchFacts, RequestFits, Indexing
    <3>4. QED BY <1>1, <3>2, <3>3 DEF IndexFacts, PassedAreListed
  <2>3. IndexIsMerged(r)'
    BY <1>1, <1>7 DEF TakesNone, IndexFacts, IndexIsMerged, Answered, Indexing
  <2>4. QED BY <2>1, <2>2, <2>3 DEF IndexFacts
<1>8. ASSUME NEW doc \in Documents, Takes(r, doc)
      PROVE  IndexFacts(r)'
  <2> DEFINE n == Len(docs[r])
             es == docs'[r]
  <2>1. es = Append(docs[r], doc)
    BY <1>2, <1>8 DEF Takes
  <2>2. /\ n \in Nat /\ DOMAIN docs[r] = 1..n /\ DOMAIN es = 1..(n + 1)
        /\ \A i \in 1..n : es[i] = docs[r][i]
        /\ es[n + 1] = doc
    BY <1>2, <2>1, AppendedListings
  <2>3. HasFirsts(es)
    BY <1>2, <2>1, HasFirstsAppend DEF IndexFacts
  <2>4. /\ doc.from = Current(r)
        /\ \A t \in Tags : doc.tags[t] \in doc.files \cup {None}
        /\ \/ doc.files \in Listings(Current(r))
           \/ format = "go" /\ Current(r) \in failed'[r] \cap Proxies
    BY <1>8 DEF Takes
  <2> HIDE DEF n, es
  <2>5. ListingsAreReal(r)'
    <3> SUFFICES ASSUME NEW i \in 1..(n + 1)
                 PROVE  /\ \A t \in Tags : es[i].tags[t] \in es[i].files \cup {None}
                        /\ \/ es[i].files \subseteq UNION Listings(es[i].from)
                           \/ format = "go" /\ es[i].from \in failed'[r] \cap Proxies
                        /\ \E k \in Visited(r)' : order[r][k] = es[i].from
                        /\ \A j \in 1..i : Priority[es[j].from] >= Priority[es[i].from]
      BY <1>1, <1>5, <1>6, <2>2 DEF ListingsAreReal, es
    <3>1. CASE i \in 1..n
      <4>1. \A j \in 1..i : j \in 1..n
        BY <2>2, <3>1
      <4>2. QED BY <1>1, <1>3, <2>2, <3>1, <4>1 DEF IndexFacts, ListingsAreReal
    <3>2. CASE i = n + 1
      <4>1. \A j \in 1..i : j \in 1..n \/ j = n + 1
        BY <2>2, <3>2
      <4>2. ASSUME NEW j \in 1..n
            PROVE  Priority[es[j].from] >= Priority[Current(r)]
        <5>1. PICK k \in Visited(r) : order[r][k] = es[j].from
          BY <2>2 DEF IndexFacts, ListingsAreReal
        <5>2. k \in 1..Len(order[r]) /\ k <= visit[r] /\ Len(order[r]) \in Nat
          <6>1. Len(order[r]) \in Nat
            BY <1>2, OrderOfMembers
          <6>2. visit[r] \in 1..Len(order[r]) /\ k \in 1..(visit[r] - 1)
            BY <1>2 DEF Visited
          <6>3. QED BY <6>1, <6>2
        <5>3. Priority[order[r][k]] >= Priority[order[r][visit[r]]]
          <6>1. visit[r] \in 1..Len(order[r]) /\ order[r] \in VirtualMembers
            BY <1>2
          <6>2. QED BY <5>2, <6>1, OrderOfMembers
        <5>4. QED BY <1>6, <5>1, <5>3
      <4>3. Priority[Current(r)] >= Priority[Current(r)]
        <5>1. Priority[Current(r)] \in Nat
          BY <1>1, MembersAssumption
        <5>2. QED BY <5>1
      <4>4. QED BY <1>3, <1>6, <2>2, <2>4, <3>2, <4>1, <4>2, <4>3
    <3>3. QED BY <2>2, <3>1, <3>2
  <2>6. PassedAreListed(r)'
    <3> SUFFICES ASSUME NEW k \in Visited(r)', order'[r][k] \notin failed'[r],
                        NEW f \in HadFiles(r, order[r][k])'
                 PROVE  \E i \in DOMAIN docs'[r] :
                            docs'[r][i].from = order'[r][k] /\ f \in docs'[r][i].files
      BY DEF PassedAreListed
    <3> SUFFICES \E i \in 1..(n + 1) : es[i].from = order[r][k] /\ f \in es[i].files
      BY <1>6, <2>2 DEF es
    <3>0. order[r][k] \notin failed'[r] /\ f \in HadFiles(r, order[r][k])
      BY <1>5, <1>6
    <3>1. CASE k = visit[r]
      <4>1. n + 1 \in 1..(n + 1)
        BY <2>2
      <4>2. QED BY <1>4, <1>6, <2>2, <2>4, <3>0, <3>1, <4>1
    <3>2. CASE k \in Visited(r)
      <4>1. req[r].kind = "index" /\ order[r][k] \notin failed[r]
        BY <1>1, <3>0 DEF SearchFacts, RequestFits, Indexing
      <4>2. PICK i \in DOMAIN docs[r] :
                docs[r][i].from = order[r][k] /\ f \in docs[r][i].files
        BY <1>1, <3>0, <3>2, <4>1 DEF IndexFacts, PassedAreListed
      <4>3. i \in 1..n /\ i \in 1..(n + 1)
        BY <2>2
      <4>4. QED BY <2>2, <4>2, <4>3
    <3>3. QED BY <1>3, <3>1, <3>2
  <2>7. IndexIsMerged(r)'
    BY <1>1, <1>8, TakesMerges DEF Indexing
  <2>8. QED BY <2>3, <2>5, <2>6, <2>7 DEF IndexFacts, es
<1>9. QED BY <1>1, <1>7, <1>8

-------------------------------------------------------------------------------
(* Every step                                                               *)

LEMMA InitInv == Init => TypeOK /\ VirtualInv
<1> SUFFICES ASSUME Init PROVE TypeOK /\ VirtualInv
  OBVIOUS
<1>1. /\ format \in {"file", "pypi", "npm", "go"} /\ rows = {}
      /\ offers \in SUBSET (Proxies \X Files) /\ former \in Pasts
      /\ req = [r \in Requests |-> None] /\ order = [r \in Requests |-> <<>>]
      /\ visit = [r \in Requests |-> 1] /\ pc = [r \in Requests |-> "idle"]
      /\ status = [r \in Requests |-> "none"] /\ sent = [r \in Requests |-> <<>>]
      /\ docs = [r \in Requests |-> <<>>] /\ index = [r \in Requests |-> NoIndex]
      /\ known = [r \in Requests |-> {}] /\ failed = [r \in Requests |-> {}]
  BY DEF Init
<1>2. NoIndex \in Indexes
  BY DEF NoIndex, NoTags, Indexes
<1>3. <<>> \in Seq(Pieces) /\ <<>> \in Seq(Documents) /\ Len(<<>>) = 0
  OBVIOUS
<1>4. TypeOK
  <2>1. /\ req \in [Requests -> Asks \cup {None}]
        /\ order \in [Requests -> VirtualMembers \cup {<<>>}]
        /\ sent \in [Requests -> Seq(Pieces)] /\ docs \in [Requests -> Seq(Documents)]
        /\ index \in [Requests -> Indexes]
    BY <1>1, <1>2, <1>3
  <2>2. /\ visit \in [Requests -> Nat \ {0}] /\ pc \in [Requests -> Phases]
        /\ status \in [Requests -> {"none", "ok", "notFound", "badRequest", "error"}]
        /\ known \in [Requests -> SUBSET (Members \X Files)]
        /\ failed \in [Requests -> SUBSET Members]
    BY <1>1 DEF Phases
  <2>3. \A r \in Requests : /\ pc[r] = "idle" /\ status[r] = "none"
                            /\ Len(docs[r]) < visit[r]
    BY <1>1, <1>3
  <2>4. QED BY <1>1, <2>1, <2>2, <2>3 DEF TypeOK
<1>5. ASSUME NEW r \in Requests
      PROVE  SearchFacts(r) /\ IndexFacts(r)
  <2>1. /\ pc[r] = "idle" /\ visit[r] = 1 /\ sent[r] = <<>> /\ docs[r] = <<>>
        /\ index[r] = NoIndex /\ failed[r] = {} /\ known[r] = {}
    BY <1>1
  <2>2. SearchFacts(r)
    <3>1. RequestFits(r)
      BY <2>1 DEF RequestFits, Answered, Indexing
    <3>2. PassedHadNothing(r) /\ HolderServed(r)
      BY <2>1 DEF PassedHadNothing, HolderServed, Answered, Searching
    <3>3. BytesExplained(r) /\ OneMemberServed(r)
      BY <2>1, <1>3 DEF BytesExplained, OneMemberServed
    <3>4. QED BY <3>1, <3>2, <3>3 DEF SearchFacts
  <2>3. HasFirsts(docs[r]) /\ ListingsAreReal(r) /\ PassedAreListed(r)
    BY <2>1 DEF HasFirsts, ListingsAreReal, PassedAreListed
  <2>4. deduplicateFiles(<<>>) = {} /\ Unlinked(<<>>) = {}
    BY DEF deduplicateFiles, Unlinked
  <2>5. IndexIsMerged(r)
    BY <2>1, <2>4 DEF IndexIsMerged, FirstTag, NoIndex, NoTags, Answered
  <2>6. QED BY <2>2, <2>3, <2>5 DEF IndexFacts
<1>6. QED BY <1>4, <1>5 DEF VirtualInv

(* A request is not disturbed by a step of another one, nor by a file that  *)
(* is published meanwhile.                                                  *)
Untouched(q) ==
    /\ req'[q] = req[q] /\ order'[q] = order[q] /\ visit'[q] = visit[q] /\ pc'[q] = pc[q]
    /\ status'[q] = status[q] /\ sent'[q] = sent[q] /\ docs'[q] = docs[q]
    /\ index'[q] = index[q] /\ known'[q] = known[q] /\ failed'[q] = failed[q]

LEMMA UntouchedFacts ==
  ASSUME NEW q \in Requests, SearchFacts(q), IndexFacts(q), Untouched(q),
         UNCHANGED <<format, offers, former>>, rows \subseteq rows'
  PROVE  SearchFacts(q)' /\ IndexFacts(q)'
<1>1. \A kinds : Answered(q, kinds)' = Answered(q, kinds)
  BY DEF Answered, Untouched
<1>2. /\ HoldersOf(q)' = HoldersOf(q) /\ ProxyBrokeOff(q)' = ProxyBrokeOff(q)
      /\ \A j : BrokeOff(q, j)' = BrokeOff(q, j)
      /\ Current(q)' = Current(q) /\ TurnedAway(q)' = TurnedAway(q)
  BY DEF HoldersOf, ProxyBrokeOff, BrokeOff, TurnedAway, Current, Untouched
<1>3. CanProxy(q)' = CanProxy(q) /\ RequestKinds' = RequestKinds /\ Visited(q)' = Visited(q)
  BY DEF CanProxy, Current, RequestKinds, Visited, Untouched
<1>4. \A m : /\ HadFiles(q, m)' = HadFiles(q, m)
             /\ UNION Listings(m) \subseteq UNION Listings(m)'
  BY ListingsOnlyGrow, CopiesStay DEF HadFiles, Untouched
<1>5. RequestFits(q)'
  BY <1>3 DEF SearchFacts, RequestFits, Untouched, Answered
<1>6. PassedHadNothing(q)' /\ HolderServed(q)'
  <2>1. PassedHadNothing(q)'
    BY <1>2, <1>3 DEF SearchFacts, PassedHadNothing, Untouched
  <2>2. HolderServed(q)'
    BY <1>2 DEF SearchFacts, HolderServed, Untouched, Answered, Piece
  <2>3. QED BY <2>1, <2>2
<1>7. BytesExplained(q)' /\ OneMemberServed(q)'
  BY <1>2, <1>3 DEF SearchFacts, BytesExplained, OneMemberServed, Untouched
<1>8. HasFirsts(docs[q])' /\ ListingsAreReal(q)'
  BY <1>3, <1>4 DEF IndexFacts, HasFirsts, ListingsAreReal, Untouched
<1>9. PassedAreListed(q)'
  BY <1>3, <1>4 DEF IndexFacts, PassedAreListed, Untouched
<1>10. IndexIsMerged(q)'
  BY DEF IndexFacts, IndexIsMerged, Untouched, Answered
<1>11. QED BY <1>5, <1>6, <1>7, <1>8, <1>9, <1>10 DEF SearchFacts, IndexFacts

LEMMA SearchStepMoves ==
  ASSUME TypeOK, NEW r \in Requests, SearchFacts(r),
         \/ LookupRow(r) \/ ServeFile(r) \/ FetchFile(r) \/ FetchBreaks(r) \/ FindInfo(r)
  PROVE  pc[r] \in Searching /\ SearchMove(r)
<1>1. pc[r] \in Searching
  BY DEF LookupRow, ServeFile, FetchFile, FetchBreaks, FindInfo, Searching
<1>2. RequestFits(r) /\ BytesExplained(r)
  BY DEF SearchFacts
<1>3. QED
  BY <1>1, <1>2, LookupRowMoves, ServeFileMoves, FetchFileMoves, FetchBreaksMoves, FindInfoMoves

LEMMA HandlerStepInv ==
  ASSUME TypeOK, VirtualInv, NEW r \in Requests, HandlerStep(r)
  PROVE  TypeOK' /\ VirtualInv'
<1>1. SearchFacts(r) /\ IndexFacts(r)
  BY DEF VirtualInv
<1>2. SUFFICES /\ TypeOK' /\ SearchFacts(r)' /\ IndexFacts(r)'
               /\ UNCHANGED <<format, offers, former>> /\ rows \subseteq rows'
               /\ \A q \in Requests \ {r} : Untouched(q)
  BY UntouchedFacts DEF VirtualInv
<1>3. CASE \/ LookupRow(r) \/ ServeFile(r) \/ FetchFile(r) \/ FetchBreaks(r) \/ FindInfo(r)
  <2>1. pc[r] \in Searching /\ SearchMove(r)
    BY <1>1, <1>3, SearchStepMoves
  <2>2. /\ UNCHANGED <<format, offers, former>> /\ rows \subseteq rows'
        /\ \A q \in Requests \ {r} : Untouched(q)
    BY <2>1 DEF SearchMove, Control, Body, Blame, Untouched
  <2>3. QED
    BY <1>1, <2>1, <2>2, SearchMoveTypeOK, MoveSearchFacts, MoveIndexFacts
<1>4. CASE Start(r)
  <2>1. TypeOK'
    BY <1>1, <1>4, StartTypeOK DEF SearchFacts
  <2>2. /\ UNCHANGED <<format, offers, former>> /\ rows \subseteq rows'
        /\ \A q \in Requests \ {r} : Untouched(q)
    BY <1>4 DEF Start, TypeOK, Untouched
  <2>3. QED BY <1>1, <1>4, <2>1, <2>2, StartSearchFacts, StartIndexFacts
<1>5. CASE CollectListing(r)
  <2>1. /\ UNCHANGED <<format, offers, former, rows, req, order, sent, known>>
        /\ Control(r) /\ Blame(r)
        /\ TakesNone(r) \/ \E doc \in Documents : Takes(r, doc)
    BY <1>5, CollectListingMoves
  <2>2. \A q \in Requests \ {r} : docs'[q] = docs[q] /\ index'[q] = index[q]
    BY <2>1 DEF TakesNone, Takes, TypeOK
  <2>3. \A q \in Requests \ {r} : Untouched(q)
    BY <2>1, <2>2 DEF Control, Blame, Untouched
  <2>4. QED
    BY <1>1, <1>5, <2>1, <2>3, CollectListingTypeOK, IndexStepSearchFacts, CollectIndexFacts
<1>6. CASE AnswerIndex(r)
  <2>1. /\ UNCHANGED <<format, offers, former, rows, req, order, sent, docs, known, failed>>
        /\ Control(r)
    BY <1>6, FinishMoves DEF AnswerIndex, Statuses
  <2>2. \A q \in Requests \ {r} : index'[q] = index[q]
    BY <1>6 DEF AnswerIndex, TypeOK
  <2>3. \A q \in Requests \ {r} : Untouched(q)
    BY <2>1, <2>2 DEF Control, Untouched
  <2>4. QED
    BY <1>1, <1>6, <2>1, <2>3, AnswerIndexTypeOK, IndexStepSearchFacts, AnswerIndexFacts
<1>7. QED BY <1>3, <1>4, <1>5, <1>6 DEF HandlerStep

LEMMA PublishInv ==
  ASSUME TypeOK, VirtualInv, NEW m \in Members, NEW f \in Files, Publish(m, f)
  PROVE  TypeOK' /\ VirtualInv'
<1>1. /\ UNCHANGED <<format, offers, former, req, order, visit, pc, status, sent, docs,
                     index, known, failed>>
      /\ rows' = rows \cup {<<m, f>>}
  BY DEF Publish
<1>2. TypeOK'
  BY <1>1 DEF TypeOK
<1>3. \A q \in Requests : Untouched(q)
  BY <1>1 DEF Untouched
<1>4. QED BY <1>1, <1>2, <1>3, UntouchedFacts DEF VirtualInv

LEMMA NextInv == TypeOK /\ VirtualInv /\ [Next]_vars => TypeOK' /\ VirtualInv'
<1> SUFFICES ASSUME TypeOK, VirtualInv, [Next]_vars PROVE TypeOK' /\ VirtualInv'
  OBVIOUS
<1>1. ASSUME NEW m \in Members, NEW f \in Files, Publish(m, f) PROVE TypeOK' /\ VirtualInv'
  BY <1>1, PublishInv
<1>2. ASSUME NEW r \in Requests, HandlerStep(r) PROVE TypeOK' /\ VirtualInv'
  BY <1>2, HandlerStepInv
<1>3. CASE UNCHANGED vars
  <2>1. /\ UNCHANGED <<format, offers, former, rows, req, order, visit, pc>>
        /\ UNCHANGED <<status, sent, docs, index, known, failed>>
    BY <1>3 DEF vars
  <2>2. TypeOK'
    BY <2>1 DEF TypeOK
  <2>3. \A q \in Requests : Untouched(q)
    BY <2>1 DEF Untouched
  <2>4. QED BY <2>1, <2>2, <2>3, UntouchedFacts DEF VirtualInv
<1>4. QED BY <1>1, <1>2, <1>3 DEF Next, AllAnswered

-------------------------------------------------------------------------------
(* Theorems                                                                 *)

(* The inductive invariant: what a request has passed had nothing, what its *)
(* client has received is explained, its listings are those of the members  *)
(* passed, in order, and they are merged by first occurrence.               *)
THEOREM VirtualInvariant == Spec => [](TypeOK /\ VirtualInv)
BY InitInv, NextInv, PTL DEF Spec

(* Every reachable state is well typed, and no handler runs past the last   *)
(* member (TypeOK).                                                         *)
THEOREM VirtualTypeCorrect == Spec => []TypeOK
BY VirtualInvariant, PTL

(* A file that a member has, which does not fail, is served by a member of  *)
(* no lower priority, unless such a member broke off, failed and ended the  *)
(* search, or turned the client away (FirstHolderServes).                   *)
THEOREM VirtualFirstHolderServes == Spec => []FirstHolderServes
<1>1. VirtualInv => FirstHolderServes
  BY DEF VirtualInv, SearchFacts, HolderServed, FirstHolderServes
<1>2. QED BY <1>1, VirtualInvariant, PTL

(* An answer has bytes of one member only, unless a Go proxy broke off      *)
(* (OneMemberAnswers).                                                      *)
THEOREM VirtualOneMemberAnswers == Spec => []OneMemberAnswers
<1>1. VirtualInv => OneMemberAnswers
  BY DEF VirtualInv, SearchFacts, OneMemberServed, ProxyBrokeOff, OneMemberAnswers
<1>2. QED BY <1>1, VirtualInvariant, PTL

(* An answered index has collected from every member.                       *)
LEMMA AnsweredIsListed ==
  ASSUME TypeOK, NEW r \in Requests, SearchFacts(r), IndexFacts(r), Answered(r, {"index"}),
         NEW m \in Members \ failed[r], NEW f \in HadFiles(r, m)
  PROVE  \E i \in DOMAIN docs[r] : docs[r][i].from = m /\ f \in docs[r][i].files
<1>1. order[r] \in VirtualMembers /\ pc[r] = "done" /\ req[r].kind = "index"
  BY DEF TypeOK, Answered
<1>2. visit[r] = Len(order[r]) + 1 /\ Len(order[r]) \in Nat
  BY <1>1, OrderOfMembers DEF SearchFacts, RequestFits
<1>3. PICK k \in 1..Len(order[r]) : order[r][k] = m
  BY <1>1, OrderOfMembers
<1>4. k \in Visited(r)
  BY <1>2 DEF Visited
<1>5. QED BY <1>1, <1>3, <1>4 DEF IndexFacts, PassedAreListed

(* The index of PyPI and npm is the deduplicated listings.                  *)
LEMMA DeduplicatedFollowsPriority ==
  ASSUME TypeOK, NEW r \in Requests, SearchFacts(r), IndexFacts(r), Answered(r, {"index"}),
         index[r].entries = deduplicateFiles(docs[r])
  PROVE  /\ \A m \in Members \ failed[r] : \A f \in HadFiles(r, m) :
               \E e \in index[r].entries : e.file = f /\ Priority[e.from] >= Priority[m]
         /\ \A e \in index[r].entries :
               /\ \/ \E m \in Members : e.from = m /\ \E l \in Listings(m) : e.file \in l
                  \/ format = "go" /\ failed[r] \cap Proxies # {}
               /\ \A d \in index[r].entries : d.file = e.file => d = e
<1> DEFINE ds == docs[r]
<1>1. ds \in Seq(Documents) /\ DOMAIN ds = 1..Len(ds) /\ Len(ds) \in Nat
  BY DEF TypeOK
<1>2. \A i \in DOMAIN ds : ds[i] \in Documents
  BY <1>1
<1>3. ASSUME NEW m \in Members \ failed[r], NEW f \in HadFiles(r, m)
      PROVE  \E e \in index[r].entries : e.file = f /\ Priority[e.from] >= Priority[m]
  <2>1. PICK i \in DOMAIN ds : ds[i].from = m /\ f \in ds[i].files
    BY AnsweredIsListed
  <2>2. \A j \in 1..i : j \in DOMAIN ds
    BY <1>1
  <2>3. PICK j \in 1..i : [file |-> f, from |-> ds[j].from] \in deduplicateFiles(ds)
    BY <2>1, <2>2, DeduplicatedCovers DEF IndexFacts
  <2>4. Priority[ds[j].from] >= Priority[m]
    BY <2>1 DEF IndexFacts, ListingsAreReal
  <2>5. QED BY <2>3, <2>4
<1>4. ASSUME NEW e \in index[r].entries
      PROVE  \/ \E m \in Members : e.from = m /\ \E l \in Listings(m) : e.file \in l
             \/ format = "go" /\ failed[r] \cap Proxies # {}
  <2>1. PICK i \in DOMAIN ds : e \in Entries(ds[i])
    BY <1>4, InDeduplicated
  <2>2. e.file \in ds[i].files /\ e.from = ds[i].from
    BY <2>1, EntryOf
  <2>3. \/ ds[i].files \subseteq UNION Listings(ds[i].from)
        \/ format = "go" /\ ds[i].from \in failed[r] \cap Proxies
    BY DEF IndexFacts, ListingsAreReal
  <2>4. ds[i].from \in Members
    BY <1>2 DEF Documents
  <2>5. QED BY <2>2, <2>3, <2>4
<1>5. \A e, d \in index[r].entries : d.file = e.file => d = e
  BY <1>1, DeduplicatedOnce
<1>6. QED BY <1>3, <1>4, <1>5

(* Go's list of versions is linked to no member.                            *)
LEMMA UnlinkedFollowsPriority ==
  ASSUME TypeOK, NEW r \in Requests, SearchFacts(r), IndexFacts(r), Answered(r, {"index"}),
         index[r].entries = Unlinked(docs[r])
  PROVE  /\ \A m \in Members \ failed[r] : \A f \in HadFiles(r, m) :
               \E e \in index[r].entries : e.file = f /\ e.from = None
         /\ \A e \in index[r].entries :
               /\ \/ \E m \in Members : e.from = None /\ \E l \in Listings(m) : e.file \in l
                  \/ format = "go" /\ failed[r] \cap Proxies # {}
               /\ \A d \in index[r].entries : d.file = e.file => d = e
<1> DEFINE ds == docs[r]
<1>1. \A i \in DOMAIN ds : ds[i] \in Documents
  BY DEF TypeOK
<1>2. \A e : e \in index[r].entries
          <=> \E i \in DOMAIN ds : \E f \in ds[i].files : e = [file |-> f, from |-> None]
  BY DEF Unlinked
<1>3. ASSUME NEW m \in Members \ failed[r], NEW f \in HadFiles(r, m)
      PROVE  \E e \in index[r].entries : e.file = f /\ e.from = None
  <2>1. PICK i \in DOMAIN ds : ds[i].from = m /\ f \in ds[i].files
    BY AnsweredIsListed
  <2>2. [file |-> f, from |-> None] \in index[r].entries
    BY <1>2, <2>1
  <2>3. QED BY <2>2
<1>4. ASSUME NEW e \in index[r].entries
      PROVE  \/ \E m \in Members : e.from = None /\ \E l \in Listings(m) : e.file \in l
             \/ format = "go" /\ failed[r] \cap Proxies # {}
  <2>1. PICK i \in DOMAIN ds : \E f \in ds[i].files : e = [file |-> f, from |-> None]
    BY <1>2, <1>4
  <2>2. /\ \/ ds[i].files \subseteq UNION Listings(ds[i].from)
           \/ format = "go" /\ ds[i].from \in failed[r] \cap Proxies
        /\ ds[i].from \in Members
    BY <1>1 DEF IndexFacts, ListingsAreReal, Documents
  <2>3. QED BY <2>1, <2>2
<1>5. \A e, d \in index[r].entries : d.file = e.file => d = e
  BY <1>2
<1>6. QED BY <1>3, <1>4, <1>5

(* An index lists all that the members which did not fail had, nothing      *)
(* twice, nothing that no member lists or has listed (but for a Go copy cut *)
(* short), and links each file to a member of the highest priority          *)
(* (IndexFollowsPriority).                                                  *)
THEOREM VirtualIndexFollowsPriority == Spec => []IndexFollowsPriority
<1>1. ASSUME TypeOK, VirtualInv
      PROVE  IndexFollowsPriority
  <2> SUFFICES
        ASSUME NEW r \in Requests, Answered(r, {"index"})
        PROVE  /\ \A m \in Members \ failed[r] : \A f \in HadFiles(r, m) :
                     \E e \in index[r].entries :
                         e.file = f /\ (e.from # None => Priority[e.from] >= Priority[m])
               /\ \A e \in index[r].entries :
                     /\ \/ \E m \in Members : /\ e.from \in {m, None}
                                              /\ \E l \in Listings(m) : e.file \in l
                        \/ format = "go" /\ failed[r] \cap Proxies # {}
                     /\ \A d \in index[r].entries : d.file = e.file => d = e
    BY DEF IndexFollowsPriority, HadFiles
  <2>1. SearchFacts(r) /\ IndexFacts(r)
    BY <1>1 DEF VirtualInv
  <2>2. format \in {"pypi", "npm", "go"}
    BY <1>1, <2>1 DEF TypeOK, SearchFacts, RequestFits, RequestKinds, Answered
  <2>3. CASE format \in {"pypi", "npm"}
    <3>1. index[r].entries = deduplicateFiles(docs[r])
      BY <2>1, <2>3 DEF IndexFacts, IndexIsMerged
    <3>2. QED BY <1>1, <2>1, <3>1, DeduplicatedFollowsPriority
  <2>4. CASE format = "go"
    <3>1. index[r].entries = Unlinked(docs[r])
      BY <2>1, <2>4 DEF IndexFacts, IndexIsMerged
    <3>2. QED BY <1>1, <2>1, <3>1, UnlinkedFollowsPriority
  <2>5. QED BY <2>2, <2>3, <2>4
<1>2. QED BY <1>1, VirtualInvariant, PTL

(* npm: a dist-tag of an index is that of the first member that has it, and *)
(* the version it names is listed as that member's or that of a member      *)
(* before it (TagsFollowPriority).                                          *)
THEOREM VirtualTagsFollowPriority == Spec => []TagsFollowPriority
<1>1. ASSUME TypeOK, VirtualInv
      PROVE  TagsFollowPriority
  <2> SUFFICES
        ASSUME NEW r \in Requests, Answered(r, {"index"}), format = "npm", NEW t \in Tags
        PROVE  \/ /\ index[r].tags[t] = None
                  /\ \A i \in DOMAIN docs[r] : ~(docs[r][i].tags[t] # None)
               \/ \E i \in DOMAIN docs[r] :
                     /\ docs[r][i].tags[t] # None /\ index[r].tags[t] = docs[r][i].tags[t]
                     /\ \A j \in 1..(i - 1) : ~(docs[r][j].tags[t] # None)
                     /\ \E j \in 1..i : [file |-> index[r].tags[t], from |-> docs[r][j].from]
                                             \in index[r].entries
    BY DEF TagsFollowPriority
  <2>1. /\ index[r].entries = deduplicateFiles(docs[r]) /\ HasFirsts(docs[r])
        /\ FirstTag(docs[r], t, index[r].tags[t]) /\ ListingsAreReal(r)
    BY <1>1 DEF VirtualInv, IndexFacts, IndexIsMerged
  <2>2. CASE index[r].tags[t] = None /\ \A i \in DOMAIN docs[r] : docs[r][i].tags[t] = None
    BY <2>2
  <2>3. ASSUME NEW i \in DOMAIN docs[r], docs[r][i].tags[t] # None,
               index[r].tags[t] = docs[r][i].tags[t],
               \A j \in 1..(i - 1) : docs[r][j].tags[t] = None
        PROVE  \E j \in 1..i : [file |-> index[r].tags[t], from |-> docs[r][j].from]
                                  \in index[r].entries
    <3>1. index[r].tags[t] \in docs[r][i].files
      BY <2>1, <2>3 DEF ListingsAreReal
    <3>2. \A j \in 1..i : j \in DOMAIN docs[r]
      BY <1>1, <2>3 DEF TypeOK
    <3>3. QED BY <2>1, <2>3, <3>1, <3>2, DeduplicatedCovers
  <2>4. QED BY <2>1, <2>2, <2>3 DEF FirstTag
<1>2. QED BY <1>1, VirtualInvariant, PTL
================================================================================
