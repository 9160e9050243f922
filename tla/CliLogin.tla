------------------------------- MODULE CliLogin -------------------------------
(***************************************************************************)
(* The processes valisgo-cli starts on one machine.  "login" runs          *)
(* LoginBrowser of internal/auth: it listens on a fixed port for the       *)
(* callback of the tab it opens, whose handler hands the code, or an       *)
(* error, to the waiting process over an unbuffered channel; what the      *)
(* process gets for the code it puts into the keyring.  "logout" empties   *)
(* the keyring.  "proxy" reads it once and forwards requests with tokens   *)
(* it refreshes in memory.                                                 *)
(*                                                                         *)
(* A refresh token is a number.  A provider that rotates gives a new one   *)
(* for every use and accepts the old one no longer, whether its answer is  *)
(* received or lost on the way; any provider may end a token on its own.   *)
(***************************************************************************)
EXTENDS Naturals

CONSTANTS
    Logins,        \* runs of "valisgo-cli login"
    MaxCallbacks,  \* bound: how many requests of browsers reach for the port
    Proxies,       \* local proxies, each on a port of its own
    MaxRuns,       \* bound: how often a proxy is started
    Requests,      \* requests of package managers to the proxies
    MaxTokens,     \* bound: how many refresh tokens the provider hands out
    Rotates,       \* whether the provider rotates refresh tokens
    None           \* nobody, no token

ASSUME BoundsAssumption ==
    MaxCallbacks \in Nat /\ MaxRuns \in Nat /\ MaxTokens \in Nat /\ None \notin Nat
ASSUME RotatesAssumption == Rotates \in BOOLEAN
ASSUME NobodyAssumption == None \notin Logins /\ None \notin Proxies

Callbacks == 1..MaxCallbacks
Tokens == 1..MaxTokens

VARIABLES
    port,      \* the login whose listener has the port, or None
    listener,  \* login -> its goroutine in ListenAndServe
    pc,        \* login -> where LoginBrowser is
    token,     \* login -> the refresh token it got, or None
    callback,  \* request of a browser: whose tab, what it brings, where it is
    heard,     \* history: login -> the login whose tab brought its code, or None
    keyring,   \* the stored refresh token, or None
    live,      \* the refresh tokens the provider accepts
    minted,    \* number of refresh tokens handed out
    proxy,     \* proxy -> its process: run, refresh token, access token
    request,   \* request -> its proxy and where it is
    runs,      \* number of proxy processes started so far
    spent,     \* history: refresh token -> the process that used it up, or 0
    lost,      \* history: the used up tokens whose replacement was lost on the way
    expired    \* history: the tokens that expired or were revoked

loginVars == <<port, listener, pc, token, callback, heard>>
proxyVars == <<proxy, request, runs, spent, lost>>
providerVars == <<live, minted, expired>>
vars == <<loginVars, keyring, providerVars, proxyVars>>

Unused == [at |-> "unused", of |-> None, host |-> None, granted |-> FALSE]
Down == [at |-> "down", run |-> 0, token |-> None, access |-> FALSE]
Idle == [at |-> "idle", by |-> None, token |-> None, run |-> 0]

Init ==
    /\ port = None
    /\ listener = [l \in Logins |-> "off"]
    /\ pc = [l \in Logins |-> "idle"]
    /\ token = [l \in Logins |-> None]
    /\ callback = [b \in Callbacks |-> Unused]
    /\ heard = [l \in Logins |-> None]
    /\ keyring = None
    /\ live = {} /\ minted = 0 /\ expired = {}
    /\ proxy = [x \in Proxies |-> Down]
    /\ request = [q \in Requests |-> Idle]
    /\ runs = 0
    /\ spent = [n \in Tokens |-> 0] /\ lost = {}

-------------------------------------------------------------------------------
(* LoginBrowser                                                             *)

(* The goroutine is started before the browser is.                          *)
StartLogin(l) ==
    /\ pc[l] = "idle"
    /\ pc' = [pc EXCEPT ![l] = "opening"]
    /\ listener' = [listener EXCEPT ![l] = "starting"]
    /\ UNCHANGED <<port, token, callback, heard, keyring, providerVars, proxyVars>>

Listen(l) ==
    /\ listener[l] = "starting"
    /\ \/ /\ port = None
          /\ port' = l
          /\ listener' = [listener EXCEPT ![l] = "serving"]
       \/ /\ port # None
          /\ listener' = [listener EXCEPT ![l] = "failed"]
          /\ UNCHANGED port
    /\ UNCHANGED <<pc, token, callback, heard, keyring, providerVars, proxyVars>>

(* Browsers make their requests in order of number.                         *)
IsNext(b) == callback[b].at = "unused" /\ \A d \in 1..(b - 1) : callback[d].at # "unused"

(* The tab will come back with a code or with an error; without a browser   *)
(* the URL is printed, and nothing may ever come.                           *)
OpenBrowser(l) ==
    /\ pc[l] = "opening"
    /\ pc' = [pc EXCEPT ![l] = "waiting"]
    /\ \/ \E b \in Callbacks, granted \in BOOLEAN :
             /\ IsNext(b)
             /\ callback' = [callback EXCEPT ![b] =
                   [Unused EXCEPT !.at = "tab", !.of = l, !.granted = granted]]
       \/ UNCHANGED callback
    /\ UNCHANGED <<port, listener, token, heard, keyring, providerVars, proxyVars>>

(* The user loads the callback URL of a tab once more.                      *)
Reload(b) ==
    /\ callback[b].at \in {"sending", "answered", "refused"}
    /\ \E d \in Callbacks :
          /\ IsNext(d)
          /\ callback' = [callback EXCEPT ![d] =
                [Unused EXCEPT !.at = "tab", !.of = callback[b].of,
                               !.granted = callback[b].granted]]
    /\ UNCHANGED <<port, listener, pc, token, heard, keyring, providerVars, proxyVars>>

(* The request reaches whoever listens now; its handler has something to    *)
(* send, and blocks until it is received.                                   *)
Arrive(b) ==
    /\ callback[b].at = "tab"
    /\ callback' = [callback EXCEPT ![b].at = IF port = None THEN "refused" ELSE "sending",
                                    ![b].host = port]
    /\ UNCHANGED <<port, listener, pc, token, heard, keyring, providerVars, proxyVars>>

Senders(l) == {b \in Callbacks : callback[b].at = "sending" /\ callback[b].host = l}

(* Mutant: the handler does not compare the state.                          *)
SendsAnyCode(b) == callback[b].granted

(* The handler's state is that of its login, and the provider gave a code.  *)
SendsCode(b) == callback[b].granted /\ callback[b].of = callback[b].host

Hear(l, b) ==
    /\ callback' = [callback EXCEPT ![b].at = "answered"]
    /\ heard' = [heard EXCEPT ![l] = callback[b].of]
    /\ pc' = [pc EXCEPT ![l] = "exchanging"]
    /\ UNCHANGED listener

(* Mutant: nobody reads errChan.                                            *)
ReceiveCodeOnly(l) ==
    /\ pc[l] = "waiting"
    /\ \E b \in Senders(l) : SendsCode(b) /\ Hear(l, b)
    /\ UNCHANGED <<port, token, keyring, providerVars, proxyVars>>

(* The select takes one message, of a handler or of the listener.           *)
Receive(l) ==
    /\ pc[l] = "waiting"
    /\ \/ \E b \in Senders(l) : SendsCode(b) /\ Hear(l, b)
       \/ \E b \in Senders(l) :
             /\ ~SendsCode(b)
             /\ callback' = [callback EXCEPT ![b].at = "answered"]
             /\ pc' = [pc EXCEPT ![l] = "closing"]
             /\ UNCHANGED <<listener, heard>>
       \/ /\ listener[l] = "failed"
          /\ listener' = [listener EXCEPT ![l] = "off"]
          /\ pc' = [pc EXCEPT ![l] = "closing"]
          /\ UNCHANGED <<callback, heard>>
    /\ UNCHANGED <<port, token, keyring, providerVars, proxyVars>>

(* The provider may refuse, give no refresh token, or its answer is lost:   *)
(* all are errors.                                                          *)
Exchange(l) ==
    /\ pc[l] = "exchanging"
    /\ pc' = [pc EXCEPT ![l] = "closing"]
    /\ \/ /\ minted < MaxTokens
          /\ minted' = minted + 1
          /\ live' = live \cup {minted + 1}
          /\ token' \in {token, [token EXCEPT ![l] = minted + 1]}
          /\ UNCHANGED expired
       \/ UNCHANGED <<token, providerVars>>
    /\ UNCHANGED <<port, listener, callback, heard, keyring, proxyVars>>

(* The deferred Shutdown closes the listener ...                            *)
CloseListener(l) ==
    /\ pc[l] = "closing"
    /\ pc' = [pc EXCEPT ![l] = "draining"]
    /\ port' = IF port = l THEN None ELSE port
    /\ listener' = [listener EXCEPT ![l] = "off"]
    /\ UNCHANGED <<token, callback, heard, keyring, providerVars, proxyVars>>

(* Mutant: Close instead of Shutdown, handlers are left to themselves.      *)
DrainedAtOnce(l) ==
    /\ pc[l] = "draining"
    /\ pc' = [pc EXCEPT ![l] = "returned"]
    /\ UNCHANGED <<port, listener, token, callback, heard, keyring, providerVars, proxyVars>>

(* ... and waits, without a deadline, for every handler to return: one that *)
(* is still sending never does, for nobody receives any more.               *)
Drained(l) ==
    /\ pc[l] = "draining" /\ Senders(l) = {}
    /\ pc' = [pc EXCEPT ![l] = "returned"]
    /\ UNCHANGED <<port, listener, token, callback, heard, keyring, providerVars, proxyVars>>

(* Back in the command: a token is saved, if the keyring takes it.          *)
Finish(l) ==
    /\ pc[l] = "returned"
    /\ pc' = [pc EXCEPT ![l] = "ended"]
    /\ keyring' \in {keyring} \cup ({token[l]} \ {None})
    /\ UNCHANGED <<port, listener, token, callback, heard, providerVars, proxyVars>>

(* The user gives up: the process dies with its listener and its handlers.  *)
Kill(l) ==
    /\ pc[l] \notin {"idle", "ended"}
    /\ pc' = [pc EXCEPT ![l] = "ended"]
    /\ port' = IF port = l THEN None ELSE port
    /\ listener' = [listener EXCEPT ![l] = "off"]
    /\ callback' = [b \in Callbacks |->
          IF b \in Senders(l) THEN [callback[b] EXCEPT !.at = "refused"] ELSE callback[b]]
    /\ UNCHANGED <<token, heard, keyring, providerVars, proxyVars>>

Logout ==
    /\ keyring # None
    /\ keyring' = None
    /\ UNCHANGED <<loginVars, providerVars, proxyVars>>

(* A refresh token runs out, or the provider revokes it.                    *)
ExpireToken(n) ==
    /\ n \in live
    /\ live' = live \ {n}
    /\ expired' = expired \cup {n}
    /\ UNCHANGED <<loginVars, keyring, minted, proxyVars>>

-------------------------------------------------------------------------------
(* The local proxy                                                          *)

(* Without a token in the keyring the command ends at once.                 *)
StartProxy(x) ==
    /\ proxy[x].at = "down" /\ keyring # None /\ runs < MaxRuns
    /\ runs' = runs + 1
    /\ proxy' = [proxy EXCEPT ![x] = [at |-> "up", run |-> runs + 1, token |-> keyring,
                                      access |-> FALSE]]
    /\ UNCHANGED <<loginVars, keyring, providerVars, request, spent, lost>>

Accept(q, x) ==
    /\ request[q].at \notin {"token", "forward"} /\ proxy[x].at = "up"
    /\ request' = [request EXCEPT ![q] = [Idle EXCEPT !.at = "token", !.by = x]]
    /\ UNCHANGED <<loginVars, keyring, providerVars, proxy, runs, spent, lost>>

UseCached(q) ==
    /\ request[q].at = "token" /\ proxy[request[q].by].access
    /\ request' = [request EXCEPT ![q].at = "forward"]
    /\ UNCHANGED <<loginVars, keyring, providerVars, proxy, runs, spent, lost>>

(* The provider answers the refresh token n of process x with "next".       *)
Renew(x, n, next) ==
    /\ minted' = IF next = n THEN minted ELSE next
    /\ live' = (live \ {n}) \cup {next}
    /\ spent' = [spent EXCEPT ![n] = IF next = n THEN 0 ELSE proxy[x].run]
    /\ UNCHANGED expired

NextToken(n) == IF Rotates THEN minted + 1 ELSE n

(* Mutant: each request makes a token source of its own, and what the       *)
(* provider returned to it is forgotten with it.                            *)
RefreshForgets(q) ==
    LET x == request[q].by  n == proxy[x].token IN
    /\ request[q].at = "token" /\ ~proxy[x].access /\ n \in live
    /\ NextToken(n) \in Tokens
    /\ Renew(x, n, NextToken(n))
    /\ request' = [request EXCEPT ![q].at = "forward"]
    /\ UNCHANGED <<loginVars, keyring, proxy, runs, lost>>

(* The source holds a lock while it asks, and keeps what it is given; the   *)
(* keyring is not told.                                                     *)
Refresh(q) ==
    LET x == request[q].by  n == proxy[x].token IN
    /\ request[q].at = "token" /\ ~proxy[x].access /\ n \in live
    /\ NextToken(n) \in Tokens
    /\ Renew(x, n, NextToken(n))
    /\ proxy' = [proxy EXCEPT ![x].token = NextToken(n), ![x].access = TRUE]
    /\ request' = [request EXCEPT ![q].at = "forward"]
    /\ UNCHANGED <<loginVars, keyring, runs, lost>>

(* The provider rotates, but its answer does not arrive: the process keeps  *)
(* the token it has just used up.                                           *)
LoseReply(q) ==
    LET x == request[q].by  n == proxy[x].token IN
    /\ request[q].at = "token" /\ ~proxy[x].access /\ n \in live
    /\ Rotates /\ NextToken(n) \in Tokens
    /\ Renew(x, n, NextToken(n))
    /\ lost' = lost \cup {n}
    /\ request' = [request EXCEPT ![q] = [Idle EXCEPT !.at = "unreachable"]]
    /\ UNCHANGED <<loginVars, keyring, proxy, runs>>

(* No token: 401, and nothing is forwarded.  The provider refused, or it    *)
(* could not be reached.                                                    *)
Reject(q) ==
    LET x == request[q].by IN
    /\ request[q].at = "token" /\ ~proxy[x].access
    /\ \/ /\ proxy[x].token \notin live
          /\ request' = [request EXCEPT ![q] = [Idle EXCEPT !.at = "rejected",
                             !.token = proxy[x].token, !.run = proxy[x].run]]
       \/ request' = [request EXCEPT ![q] = [Idle EXCEPT !.at = "unreachable"]]
    /\ UNCHANGED <<loginVars, keyring, providerVars, proxy, runs, spent, lost>>

(* The server, asked with the token, answers; or it never does.             *)
Forward(q) ==
    /\ request[q].at = "forward"
    /\ request' = [request EXCEPT ![q] = [Idle EXCEPT !.at = "answered"]]
    /\ UNCHANGED <<loginVars, keyring, providerVars, proxy, runs, spent, lost>>

ExpireAccess(x) ==
    /\ proxy[x].access
    /\ proxy' = [proxy EXCEPT ![x].access = FALSE]
    /\ UNCHANGED <<loginVars, keyring, providerVars, request, runs, spent, lost>>

InProgress(x) == {q \in Requests : request[q].by = x /\ request[q].at \in {"token", "forward"}}

(* The process ends, and what it has not answered is cut.                   *)
Leave(x) ==
    /\ proxy' = [proxy EXCEPT ![x] = Down]
    /\ request' = [q \in Requests |->
          IF q \in InProgress(x) THEN [Idle EXCEPT !.at = "cut"] ELSE request[q]]
    /\ UNCHANGED <<loginVars, keyring, providerVars, runs, spent, lost>>

(* ListenAndServe returns an error: the command returns without a shutdown. *)
ServerCrashes(x) == proxy[x].at = "up" /\ Leave(x)

(* SIGINT: no new connection is accepted.                                   *)
Interrupt(x) ==
    /\ proxy[x].at = "up"
    /\ proxy' = [proxy EXCEPT ![x].at = "stopping"]
    /\ UNCHANGED <<loginVars, keyring, providerVars, request, runs, spent, lost>>

(* Every request is answered, or ten seconds are over and the rest is cut.  *)
Stop(x) == proxy[x].at = "stopping" /\ Leave(x)

-------------------------------------------------------------------------------
LoginStep(l) ==
    \/ Listen(l) \/ OpenBrowser(l) \/ Receive(l) \/ Exchange(l)
    \/ CloseListener(l) \/ Drained(l) \/ Finish(l)

RequestStep(q) ==
    UseCached(q) \/ Refresh(q) \/ LoseReply(q) \/ Reject(q) \/ Forward(q)

AllEnded ==
    /\ \A l \in Logins : pc[l] = "ended"
    /\ \A x \in Proxies : proxy[x].at = "down"
    /\ UNCHANGED vars

Next ==
    \/ \E l \in Logins : StartLogin(l) \/ LoginStep(l) \/ Kill(l)
    \/ \E b \in Callbacks : Reload(b) \/ Arrive(b)
    \/ Logout
    \/ \E n \in Tokens : ExpireToken(n)
    \/ \E x \in Proxies :
          \/ StartProxy(x) \/ ExpireAccess(x) \/ ServerCrashes(x)
          \/ Interrupt(x) \/ Stop(x)
          \/ \E q \in Requests : Accept(q, x)
    \/ \E q \in Requests : RequestStep(q)
    \/ AllEnded

Spec == Init /\ [][Next]_vars

(* The goroutines of a login keep running, and the provider that was asked  *)
(* for a token answers or the connection breaks.  Users and the server      *)
(* behind the proxy may do nothing for ever.                                *)
Fairness == \A l \in Logins : WF_vars(LoginStep(l))

FairSpec == Spec /\ Fairness

-------------------------------------------------------------------------------
(* Properties                                                               *)

LoginPcs == {"idle", "opening", "waiting", "exchanging", "closing", "draining", "returned",
             "ended"}
CallbackShapes == [at : {"unused", "tab", "sending", "answered", "refused"},
                   of : Logins \cup {None}, host : Logins \cup {None}, granted : BOOLEAN]
ProxyShapes == [at : {"down", "up", "stopping"}, run : 0..MaxRuns, token : Tokens \cup {None},
                access : BOOLEAN]
RequestShapes ==
    [at : {"idle", "token", "forward", "answered", "rejected", "unreachable", "cut"},
     by : Proxies \cup {None}, token : Tokens \cup {None}, run : 0..MaxRuns]

(* Every variable has its type; the port belongs to the one login that      *)
(* serves, a handler to a login that is still running, and a request in     *)
(* progress to a proxy that is.                                             *)
TypeOK ==
    /\ port \in Logins \cup {None}
    /\ listener \in [Logins -> {"off", "starting", "serving", "failed"}]
    /\ pc \in [Logins -> LoginPcs]
    /\ token \in [Logins -> Tokens \cup {None}]
    /\ callback \in [Callbacks -> CallbackShapes]
    /\ heard \in [Logins -> Logins \cup {None}]
    /\ keyring \in Tokens \cup {None}
    /\ live \subseteq 1..minted /\ minted \in 0..MaxTokens
    /\ proxy \in [Proxies -> ProxyShapes]
    /\ request \in [Requests -> RequestShapes]
    /\ runs \in 0..MaxRuns
    /\ spent \in [Tokens -> 0..MaxRuns]
    /\ lost \subseteq Tokens /\ expired \subseteq Tokens
    /\ \A l \in Logins : /\ listener[l] = "serving" <=> port = l
                         /\ Senders(l) # {} => pc[l] \notin {"idle", "returned", "ended"}
    /\ \A x \in Proxies : InProgress(x) # {} => proxy[x].at # "down"

(* Whatever is in the keyring was put there by a login that got it for the  *)
(* code of its own tab, also when two logins compete for the port and the   *)
(* tab of the one calls back to the listener of the other.                  *)
SavedIsOwn ==
    keyring # None =>
        \E l \in Logins : token[l] = keyring /\ heard[l] = l /\ pc[l] = "ended"

(* A proxy that is told its refresh token is no longer valid never had the  *)
(* answer to its own use of it: the token expired or was revoked, or the    *)
(* provider rotates and another process, started from the same keyring      *)
(* entry, used it up and kept the new one to itself, or this process did    *)
(* and the answer was lost.  Not even a logout has that effect.             *)
RejectedHasRival ==
    \A q \in Requests :
        LET n == request[q].token IN
        request[q].at = "rejected" =>
            \/ n \in expired
            \/ /\ Rotates
               /\ spent[n] # 0
               /\ spent[n] # request[q].run \/ n \in lost

(* A login that has something to receive ends, with a token or an error,    *)
(* unless a second callback came in before its listener was closed: the     *)
(* handler of that one sends to nobody, and Shutdown waits for it for ever. *)
LoginEnds ==
    \A l \in Logins :
        pc[l] = "waiting" /\ (Senders(l) # {} \/ listener[l] = "failed")
            ~> pc[l] = "ended" \/ (pc[l] = "draining" /\ Senders(l) # {})

===============================================================================
