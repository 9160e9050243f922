---------------------------- MODULE CliLogin_proofs ----------------------------
(***************************************************************************)
(* Theorems about CliLogin, for every set of logins, proxies and requests, *)
(* every number of callbacks, tokens and proxy processes, and for a        *)
(* provider that rotates refresh tokens as for one that does not.          *)
(***************************************************************************)
EXTENDS CliLogin, TLAPS

-------------------------------------------------------------------------------
(* The inductive invariant                                                  *)

(* A listener runs only while LoginBrowser does.                            *)
ListenerRuns ==
    \A l \in Logins :
        listener[l] # "off" => pc[l] \in {"opening", "waiting", "exchanging", "closing"}

(* A login has a token only for the code of its own tab.                    *)
TokenIsOwn ==
    \A l \in Logins :
        /\ pc[l] = "exchanging" => heard[l] = l
        /\ token[l] # None => /\ heard[l] = l /\ token[l] \in 1..minted
                              /\ pc[l] \in {"closing", "draining", "returned", "ended"}

(* A request that is worked on has a proxy, and a rejected one had a token. *)
RequestsAreHeld ==
    \A q \in Requests :
        /\ request[q].at \in {"token", "forward"} => request[q].by \in Proxies
        /\ request[q].at = "rejected" => request[q].token \in Tokens

(* A refresh token that is no longer accepted was used up by a process, and *)
(* only a provider that rotates uses tokens up, or it ended on its own.     *)
SpentIsKnown ==
    \A n \in Tokens :
        /\ spent[n] # 0 => n \in 1..minted /\ n \notin live /\ spent[n] \in 1..runs /\ Rotates
        /\ n \in 1..minted /\ n \notin live => spent[n] # 0 \/ n \in expired

(* A process has a number of its own, and holds what it used up only if it  *)
(* was not told of the replacement.                                         *)
ProcessesDiffer ==
    \A x \in Proxies : proxy[x].at # "down" =>
        /\ proxy[x].run \in 1..runs /\ proxy[x].token \in 1..minted
        /\ spent[proxy[x].token] # proxy[x].run \/ proxy[x].token \in lost
        /\ \A y \in Proxies \ {x} : proxy[y].at # "down" => proxy[y].run # proxy[x].run

CliInv ==
    /\ TypeOK /\ ListenerRuns /\ TokenIsOwn /\ SavedIsOwn
    /\ RequestsAreHeld /\ SpentIsKnown /\ ProcessesDiffer /\ RejectedHasRival

-------------------------------------------------------------------------------
(* The processes of logins                                                  *)

(* What a login's step does not touch is what proxies rely on.              *)
LEMMA LoginFrame ==
  ASSUME CliInv, UNCHANGED proxyVars, UNCHANGED providerVars
  PROVE  RequestsAreHeld' /\ SpentIsKnown' /\ ProcessesDiffer' /\ RejectedHasRival'
BY DEF CliInv, RequestsAreHeld, SpentIsKnown, ProcessesDiffer, RejectedHasRival, proxyVars,
       providerVars

LEMMA StartLoginInv == ASSUME CliInv, NEW l \in Logins, StartLogin(l) PROVE CliInv'
<1>1. TypeOK'
  BY DEF StartLogin, CliInv, TypeOK, LoginPcs, Senders, InProgress, ListenerRuns, providerVars,
         proxyVars
<1>2. ListenerRuns' /\ TokenIsOwn' /\ SavedIsOwn'
  BY DEF StartLogin, CliInv, TypeOK, ListenerRuns, TokenIsOwn, SavedIsOwn, providerVars
<1>3. QED BY <1>1, <1>2, LoginFrame DEF StartLogin, CliInv

LEMMA ListenInv == ASSUME CliInv, NEW l \in Logins, Listen(l) PROVE CliInv'
<1>1. TypeOK'
  BY NobodyAssumption DEF Listen, CliInv, TypeOK, Senders, InProgress, providerVars, proxyVars
<1>2. ListenerRuns' /\ TokenIsOwn' /\ SavedIsOwn'
  BY DEF Listen, CliInv, TypeOK, ListenerRuns, TokenIsOwn, SavedIsOwn, providerVars
<1>3. QED BY <1>1, <1>2, LoginFrame DEF Listen, CliInv

(* A new request of a browser has nobody to talk to yet.                    *)
LEMMA NewCallback ==
  ASSUME CliInv, NEW b \in Callbacks, NEW c \in CallbackShapes, c.at = "tab", IsNext(b),
         callback' = [callback EXCEPT ![b] = c]
  PROVE  /\ callback' \in [Callbacks -> CallbackShapes]
         /\ \A l \in Logins : Senders(l)' = Senders(l)
BY DEF CliInv, TypeOK, Senders, IsNext

LEMMA OpenBrowserInv == ASSUME CliInv, NEW l \in Logins, OpenBrowser(l) PROVE CliInv'
<1>1. /\ callback' \in [Callbacks -> CallbackShapes]
      /\ \A m \in Logins : Senders(m)' = Senders(m)
  <2>1. CASE UNCHANGED callback
    BY <2>1 DEF CliInv, TypeOK, Senders
  <2>2. CASE \E b \in Callbacks, granted \in BOOLEAN :
                /\ IsNext(b)
                /\ callback' = [callback EXCEPT ![b] =
                      [Unused EXCEPT !.at = "tab", !.of = l, !.granted = granted]]
    <3>1. PICK b \in Callbacks, granted \in BOOLEAN :
             /\ IsNext(b)
             /\ callback' = [callback EXCEPT ![b] =
                   [Unused EXCEPT !.at = "tab", !.of = l, !.granted = granted]]
      BY <2>2
    <3>2. PICK c : c = [Unused EXCEPT !.at = "tab", !.of = l, !.granted = granted]
      OBVIOUS
    <3>3. c = [at |-> "tab", of |-> l, host |-> None, granted |-> granted]
      BY <3>2 DEF Unused
    <3>4. c \in CallbackShapes /\ c.at = "tab"
      BY <3>3 DEF CallbackShapes
    <3>5. QED BY <3>1, <3>2, <3>4, NewCallback
  <2>3. QED BY <2>1, <2>2 DEF OpenBrowser
<1>2. /\ pc[l] = "opening" /\ pc' = [pc EXCEPT ![l] = "waiting"]
      /\ UNCHANGED <<port, listener, token, heard, keyring, providerVars, proxyVars>>
  BY DEF OpenBrowser
<1>3. TypeOK'
  BY <1>1, <1>2 DEF CliInv, TypeOK, LoginPcs, InProgress, providerVars, proxyVars
<1>4. ListenerRuns' /\ TokenIsOwn' /\ SavedIsOwn'
  BY <1>2 DEF CliInv, TypeOK, ListenerRuns, TokenIsOwn, SavedIsOwn, providerVars
<1>5. QED BY <1>2, <1>3, <1>4, LoginFrame DEF CliInv

LEMMA ReloadInv == ASSUME CliInv, NEW b \in Callbacks, Reload(b) PROVE CliInv'
<1>1. PICK d \in Callbacks : /\ IsNext(d)
                             /\ callback' = [callback EXCEPT ![d] =
                                  [Unused EXCEPT !.at = "tab", !.of = callback[b].of,
                                                 !.granted = callback[b].granted]]
  BY DEF Reload
<1>2. PICK c : c = [Unused EXCEPT !.at = "tab", !.of = callback[b].of,
                                  !.granted = callback[b].granted]
  OBVIOUS
<1>3. c = [at |-> "tab", of |-> callback[b].of, host |-> None, granted |-> callback[b].granted]
  BY <1>2 DEF Unused
<1>4. c \in CallbackShapes /\ c.at = "tab"
  BY <1>3 DEF CallbackShapes, CliInv, TypeOK
<1>5. /\ callback' \in [Callbacks -> CallbackShapes]
      /\ \A m \in Logins : Senders(m)' = Senders(m)
  BY <1>1, <1>2, <1>4, NewCallback
<1>6. UNCHANGED <<port, listener, pc, token, heard, keyring, providerVars, proxyVars>>
  BY DEF Reload
<1>7. TypeOK'
  BY <1>5, <1>6 DEF CliInv, TypeOK, InProgress, providerVars, proxyVars
<1>8. ListenerRuns' /\ TokenIsOwn' /\ SavedIsOwn'
  BY <1>6 DEF CliInv, ListenerRuns, TokenIsOwn, SavedIsOwn, providerVars
<1>9. QED BY <1>6, <1>7, <1>8, LoginFrame DEF CliInv

(* A request that reaches a listener reaches a login that is running.       *)
LEMMA ArriveInv == ASSUME CliInv, NEW b \in Callbacks, Arrive(b) PROVE CliInv'
<1>1. PICK s : s = IF port = None THEN "refused" ELSE "sending"
  OBVIOUS
<1>2. PICK c : c = [callback[b] EXCEPT !.at = s, !.host = port]
  OBVIOUS
<1>3. callback' = [callback EXCEPT ![b] = c]
  BY <1>1, <1>2 DEF Arrive, CliInv, TypeOK
<1>4. /\ callback[b] \in CallbackShapes /\ port \in Logins \cup {None}
      /\ s \in {"refused", "sending"}
  BY <1>1 DEF CliInv, TypeOK
<1>5. c \in CallbackShapes /\ c.host = port
  BY <1>2, <1>4 DEF CallbackShapes
<1>6. /\ callback' \in [Callbacks -> CallbackShapes] /\ callback'[b].host = port
      /\ \A d \in Callbacks \ {b} : callback'[d] = callback[d]
  BY <1>3, <1>5 DEF CliInv, TypeOK
<1>7. /\ \A m \in Logins : Senders(m)' \subseteq Senders(m) \cup {b}
      /\ \A m \in Logins : b \in Senders(m)' => port = m
  BY <1>6 DEF Senders
<1>8. UNCHANGED <<port, listener, pc, token, heard, keyring, providerVars, proxyVars>>
  BY DEF Arrive
<1>9. \A m \in Logins : port = m => pc[m] \notin {"idle", "returned", "ended"}
  BY DEF CliInv, ListenerRuns, TypeOK
<1>10. \A m \in Logins : Senders(m)' # {} => pc[m] \notin {"idle", "returned", "ended"}
  BY <1>7, <1>9 DEF CliInv, TypeOK
<1>11. TypeOK'
  BY <1>6, <1>8, <1>10 DEF CliInv, TypeOK, InProgress, providerVars, proxyVars
<1>12. ListenerRuns' /\ TokenIsOwn' /\ SavedIsOwn'
  BY <1>8 DEF CliInv, ListenerRuns, TokenIsOwn, SavedIsOwn, providerVars
<1>13. QED BY <1>8, <1>11, <1>12, LoginFrame DEF CliInv

(* Whatever is received, a code is taken only from the own tab.             *)
LEMMA ReceiveInv == ASSUME CliInv, NEW l \in Logins, Receive(l) PROVE CliInv'
<1>1. /\ pc[l] = "waiting" /\ token[l] = None
      /\ UNCHANGED <<port, token, keyring, providerVars, proxyVars>>
  BY DEF Receive, CliInv, TokenIsOwn, TypeOK
<1>2. /\ callback' \in [Callbacks -> CallbackShapes]
      /\ \A m \in Logins : Senders(m)' \subseteq Senders(m)
  <2>1. CASE callback' = callback
    BY <2>1 DEF CliInv, TypeOK, Senders
  <2>2. CASE \E b \in Senders(l) : callback' = [callback EXCEPT ![b].at = "answered"]
    BY <2>2 DEF CliInv, TypeOK, Senders, CallbackShapes
  <2>3. QED BY <2>1, <2>2 DEF Receive, Hear
<1>3. \/ /\ pc' = [pc EXCEPT ![l] = "exchanging"] /\ heard' = [heard EXCEPT ![l] = l]
         /\ listener' = listener
      \/ /\ pc' = [pc EXCEPT ![l] = "closing"] /\ heard' = heard
         /\ \/ listener' = listener
            \/ listener[l] = "failed" /\ listener' = [listener EXCEPT ![l] = "off"]
  <2>1. ASSUME NEW b \in Senders(l), SendsCode(b), Hear(l, b)
        PROVE  /\ pc' = [pc EXCEPT ![l] = "exchanging"] /\ heard' = [heard EXCEPT ![l] = l]
               /\ listener' = listener
    BY <2>1 DEF Hear, SendsCode, Senders
  <2>2. QED BY <2>1 DEF Receive
<1>4. TypeOK'
  <2>1. pc' \in [Logins -> LoginPcs] /\ heard' \in [Logins -> Logins \cup {None}]
    BY <1>3 DEF CliInv, TypeOK, LoginPcs
  <2>2. \A m \in Logins : /\ listener'[m] = "serving" <=> port = m
                          /\ Senders(m)' # {} => pc'[m] \notin {"idle", "returned", "ended"}
    BY <1>1, <1>2, <1>3 DEF CliInv, TypeOK
  <2>3. listener' \in [Logins -> {"off", "starting", "serving", "failed"}]
    BY <1>3 DEF CliInv, TypeOK
  <2>4. QED
    BY <1>1, <1>2, <2>1, <2>2, <2>3 DEF CliInv, TypeOK, InProgress, providerVars, proxyVars
<1>5. ListenerRuns' /\ TokenIsOwn'
  BY <1>1, <1>3 DEF CliInv, TypeOK, ListenerRuns, TokenIsOwn, providerVars
<1>6. SavedIsOwn'
  BY <1>1, <1>3 DEF CliInv, TypeOK, SavedIsOwn
<1>7. QED BY <1>1, <1>4, <1>5, <1>6, LoginFrame DEF CliInv

LEMMA CloseListenerInv == ASSUME CliInv, NEW l \in Logins, CloseListener(l) PROVE CliInv'
<1>1. TypeOK'
  BY NobodyAssumption
  DEF CloseListener, CliInv, TypeOK, LoginPcs, Senders, InProgress, providerVars, proxyVars
<1>2. ListenerRuns' /\ TokenIsOwn' /\ SavedIsOwn'
  BY DEF CloseListener, CliInv, TypeOK, ListenerRuns, TokenIsOwn, SavedIsOwn, providerVars
<1>3. QED BY <1>1, <1>2, LoginFrame DEF CloseListener, CliInv

LEMMA DrainedInv == ASSUME CliInv, NEW l \in Logins, Drained(l) PROVE CliInv'
<1>1. TypeOK'
  BY DEF Drained, CliInv, TypeOK, LoginPcs, Senders, InProgress, providerVars, proxyVars
<1>2. ListenerRuns' /\ TokenIsOwn' /\ SavedIsOwn'
  BY DEF Drained, CliInv, TypeOK, ListenerRuns, TokenIsOwn, SavedIsOwn, providerVars
<1>3. QED BY <1>1, <1>2, LoginFrame DEF Drained, CliInv

(* The keyring gets the token of a login that has ended.                    *)
LEMMA FinishInv == ASSUME CliInv, NEW l \in Logins, Finish(l) PROVE CliInv'
<1>1. /\ keyring' \in Tokens \cup {None}
      /\ keyring' = keyring \/ (keyring' = token[l] /\ token[l] # None)
  BY DEF Finish, CliInv, TypeOK
<1>2. TypeOK'
  BY <1>1
  DEF Finish, CliInv, TypeOK, LoginPcs, Senders, InProgress, ListenerRuns, providerVars, proxyVars
<1>3. ListenerRuns' /\ TokenIsOwn'
  BY DEF Finish, CliInv, TypeOK, ListenerRuns, TokenIsOwn, providerVars
<1>4. SavedIsOwn'
  BY <1>1 DEF Finish, CliInv, TypeOK, TokenIsOwn, SavedIsOwn
<1>5. QED BY <1>2, <1>3, <1>4, LoginFrame DEF Finish, CliInv

(* What a killed process leaves behind.                                     *)
LEMMA KillInv == ASSUME CliInv, NEW l \in Logins, Kill(l) PROVE CliInv'
<1>1. callback' \in [Callbacks -> CallbackShapes]
  BY DEF Kill, CliInv, TypeOK, CallbackShapes
<1>2. \A m \in Logins : Senders(m)' = IF m = l THEN {} ELSE Senders(m)
  BY DEF Kill, Senders, CliInv, TypeOK, CallbackShapes
<1>3. TypeOK'
  BY <1>1, <1>2, NobodyAssumption
  DEF Kill, CliInv, TypeOK, LoginPcs, InProgress, providerVars, proxyVars
<1>4. ListenerRuns' /\ TokenIsOwn' /\ SavedIsOwn'
  BY DEF Kill, CliInv, TypeOK, ListenerRuns, TokenIsOwn, SavedIsOwn, providerVars
<1>5. QED BY <1>3, <1>4, LoginFrame DEF Kill, CliInv

LEMMA LogoutInv == ASSUME CliInv, Logout PROVE CliInv'
<1>1. TypeOK'
  BY DEF Logout, CliInv, TypeOK, Senders, InProgress, loginVars, providerVars, proxyVars
<1>2. ListenerRuns' /\ TokenIsOwn' /\ SavedIsOwn'
  BY DEF Logout, CliInv, ListenerRuns, TokenIsOwn, SavedIsOwn, loginVars, providerVars
<1>3. QED BY <1>1, <1>2, LoginFrame DEF Logout, CliInv


(* A token that is handed out is a new one.                                 *)
LEMMA ExchangeInv == ASSUME CliInv, NEW l \in Logins, Exchange(l) PROVE CliInv'
<1>1. /\ pc[l] = "exchanging" /\ heard[l] = l /\ pc' = [pc EXCEPT ![l] = "closing"]
      /\ UNCHANGED <<port, listener, callback, heard, keyring, proxyVars>>
  BY DEF Exchange, CliInv, TokenIsOwn
<1>2. CASE UNCHANGED <<token, providerVars>>
  <2>1. TypeOK'
    BY <1>1, <1>2 DEF CliInv, TypeOK, LoginPcs, Senders, InProgress, providerVars, proxyVars
  <2>2. ListenerRuns' /\ TokenIsOwn' /\ SavedIsOwn'
    BY <1>1, <1>2 DEF CliInv, TypeOK, ListenerRuns, TokenIsOwn, SavedIsOwn, providerVars
  <2>3. QED BY <1>1, <1>2, <2>1, <2>2, LoginFrame DEF CliInv
<1>3. CASE /\ minted < MaxTokens /\ minted' = minted + 1
           /\ live' = live \cup {minted + 1} /\ UNCHANGED expired
           /\ token' \in {token, [token EXCEPT ![l] = minted + 1]}
  <2>1. /\ minted \in Nat /\ minted + 1 \in Tokens /\ minted' \in 0..MaxTokens
        /\ 1..minted \subseteq 1..minted' /\ minted + 1 \in 1..minted'
        /\ minted + 1 \notin 1..minted
    BY <1>3, BoundsAssumption DEF CliInv, TypeOK, Tokens
  <2>2. TypeOK'
    <3>1. live' \subseteq 1..minted' /\ token' \in [Logins -> Tokens \cup {None}]
      BY <1>3, <2>1 DEF CliInv, TypeOK
    <3>2. pc' \in [Logins -> LoginPcs]
      BY <1>1 DEF CliInv, TypeOK, LoginPcs
    <3>3. QED
      BY <1>1, <1>3, <2>1, <3>1, <3>2 DEF CliInv, TypeOK, Senders, InProgress, proxyVars
  <2>3. ListenerRuns' /\ SavedIsOwn'
    BY <1>1, <1>3, <2>1 DEF CliInv, TypeOK, ListenerRuns, SavedIsOwn, TokenIsOwn
  <2>4. TokenIsOwn'
    BY <1>1, <1>3, <2>1, BoundsAssumption DEF CliInv, TypeOK, TokenIsOwn
  <2>5. SpentIsKnown'
    <3>1. \A n \in Tokens : n \in 1..minted' => n \in 1..minted \/ n = minted + 1
      BY <1>3, <2>1
    <3>2. QED BY <1>1, <1>3, <2>1, <3>1 DEF CliInv, SpentIsKnown, proxyVars
  <2>6. RequestsAreHeld' /\ ProcessesDiffer' /\ RejectedHasRival'
    BY <1>1, <1>3, <2>1
    DEF CliInv, RequestsAreHeld, ProcessesDiffer, RejectedHasRival, proxyVars
  <2>7. QED BY <2>2, <2>3, <2>4, <2>5, <2>6 DEF CliInv
<1>4. QED BY <1>2, <1>3 DEF Exchange

-------------------------------------------------------------------------------
(* The local proxies                                                        *)

(* What the logins rely on, proxies do not touch, but for minting tokens.   *)
LEMMA ProxyFrame ==
  ASSUME CliInv, UNCHANGED <<loginVars, keyring>>, 1..minted \subseteq 1..minted'
  PROVE  /\ ListenerRuns' /\ TokenIsOwn' /\ SavedIsOwn'
         /\ \A l \in Logins : Senders(l)' = Senders(l)
BY DEF CliInv, ListenerRuns, TokenIsOwn, SavedIsOwn, Senders, loginVars

LEMMA StartProxyInv == ASSUME CliInv, NEW x \in Proxies, StartProxy(x) PROVE CliInv'
<1>1. /\ proxy[x].at = "down" /\ runs < MaxRuns /\ runs' = runs + 1
      /\ UNCHANGED <<loginVars, keyring, providerVars, request, spent, lost>>
  BY DEF StartProxy
<1>2. /\ keyring \in 1..minted /\ keyring \in Tokens
      /\ runs \in Nat /\ runs + 1 \in 0..MaxRuns /\ runs + 1 \notin 0..runs
      /\ runs + 1 \in 1..runs' /\ 1..runs \subseteq 1..runs'
  BY <1>1, BoundsAssumption DEF StartProxy, CliInv, TypeOK, SavedIsOwn, TokenIsOwn, Tokens
<1>3. PICK p : p = [at |-> "up", run |-> runs + 1, token |-> keyring, access |-> FALSE]
  OBVIOUS
<1>4. p \in ProxyShapes /\ p.at = "up" /\ p.run = runs + 1 /\ p.token = keyring
  BY <1>2, <1>3 DEF ProxyShapes
<1>5. /\ proxy' \in [Proxies -> ProxyShapes] /\ proxy'[x] = p
      /\ \A y \in Proxies \ {x} : proxy'[y] = proxy[y]
  BY <1>3, <1>4 DEF StartProxy, CliInv, TypeOK
<1>6. TypeOK'
  BY <1>1, <1>2, <1>4, <1>5
  DEF CliInv, TypeOK, InProgress, Senders, loginVars, providerVars
<1>7. ProcessesDiffer'
  <2>1. spent[keyring] # runs + 1
    BY <1>2 DEF CliInv, SpentIsKnown
  <2>2. \A y \in Proxies \ {x} : proxy[y].at # "down" => proxy[y].run # runs + 1
    BY <1>2 DEF CliInv, ProcessesDiffer
  <2>3. QED BY <1>1, <1>2, <1>4, <1>5, <2>1, <2>2 DEF CliInv, ProcessesDiffer, providerVars
<1>8. SpentIsKnown' /\ RequestsAreHeld' /\ RejectedHasRival'
  BY <1>1, <1>2 DEF CliInv, SpentIsKnown, RequestsAreHeld, RejectedHasRival, providerVars
<1>9. QED BY <1>1, <1>6, <1>7, <1>8, ProxyFrame DEF CliInv, providerVars

(* A proxy process that changes nothing but where it is, or what its access *)
(* token is worth.                                                          *)
LEMMA SameProcess ==
  ASSUME CliInv, NEW x \in Proxies, NEW p \in ProxyShapes,
         p.at = "down" <=> proxy[x].at = "down", p.run = proxy[x].run, p.token = proxy[x].token,
         proxy' = [proxy EXCEPT ![x] = p],
         UNCHANGED <<loginVars, keyring, providerVars, request, runs, spent, lost>>
  PROVE  CliInv'
<1>1. /\ proxy' \in [Proxies -> ProxyShapes] /\ proxy'[x] = p
      /\ \A y \in Proxies \ {x} : proxy'[y] = proxy[y]
  BY DEF CliInv, TypeOK
<1>2. TypeOK'
  BY <1>1 DEF CliInv, TypeOK, InProgress, Senders, loginVars, providerVars
<1>3. ProcessesDiffer'
  BY <1>1 DEF CliInv, ProcessesDiffer, providerVars
<1>4. SpentIsKnown' /\ RequestsAreHeld' /\ RejectedHasRival'
  BY DEF CliInv, SpentIsKnown, RequestsAreHeld, RejectedHasRival, providerVars
<1>5. QED BY <1>2, <1>3, <1>4, ProxyFrame DEF CliInv, providerVars

LEMMA ExpireAccessInv == ASSUME CliInv, NEW x \in Proxies, ExpireAccess(x) PROVE CliInv'
<1>1. PICK p : p = [proxy[x] EXCEPT !.access = FALSE]
  OBVIOUS
<1>2. /\ p \in ProxyShapes /\ p.at = proxy[x].at /\ p.run = proxy[x].run
      /\ p.token = proxy[x].token
  BY <1>1 DEF CliInv, TypeOK, ProxyShapes
<1>3. proxy' = [proxy EXCEPT ![x] = p]
  BY <1>1 DEF ExpireAccess, CliInv, TypeOK
<1>4. QED BY <1>2, <1>3, SameProcess DEF ExpireAccess

LEMMA InterruptInv == ASSUME CliInv, NEW x \in Proxies, Interrupt(x) PROVE CliInv'
<1>1. PICK p : p = [proxy[x] EXCEPT !.at = "stopping"]
  OBVIOUS
<1>2. /\ p \in ProxyShapes /\ p.at = "stopping" /\ p.run = proxy[x].run
      /\ p.token = proxy[x].token
  BY <1>1 DEF CliInv, TypeOK, ProxyShapes
<1>3. proxy' = [proxy EXCEPT ![x] = p] /\ proxy[x].at = "up"
  BY <1>1 DEF Interrupt, CliInv, TypeOK
<1>4. QED BY <1>2, <1>3, SameProcess DEF Interrupt

(* A process that ends, however it does, leaves nothing in progress.        *)
LEMMA LeaveInv == ASSUME CliInv, NEW x \in Proxies, Leave(x) PROVE CliInv'
<1>1. UNCHANGED <<loginVars, keyring, providerVars, runs, spent, lost>>
  BY DEF Leave
<1>2. /\ Down \in ProxyShapes /\ Down.at = "down"
  BY BoundsAssumption DEF Down, ProxyShapes
<1>3. /\ proxy' \in [Proxies -> ProxyShapes] /\ proxy'[x].at = "down"
      /\ \A y \in Proxies \ {x} : proxy'[y] = proxy[y]
  BY <1>2 DEF Leave, CliInv, TypeOK
<1>4. PICK r : r = [Idle EXCEPT !.at = "cut"]
  OBVIOUS
<1>5. r \in RequestShapes /\ r.at = "cut"
  <2>1. r = [at |-> "cut", by |-> None, token |-> None, run |-> 0]
    BY <1>4 DEF Idle
  <2>2. QED BY <2>1, BoundsAssumption DEF RequestShapes
<1>6. /\ request' \in [Requests -> RequestShapes]
      /\ \A q \in Requests : IF q \in InProgress(x) THEN request'[q].at = "cut"
                                                  ELSE request'[q] = request[q]
  BY <1>4, <1>5 DEF Leave, CliInv, TypeOK
<1>7. InProgress(x)' = {} /\ \A y \in Proxies : InProgress(y)' \subseteq InProgress(y)
  BY <1>6 DEF InProgress
<1>8. TypeOK'
  <2>1. \A y \in Proxies : InProgress(y)' # {} => proxy'[y].at # "down"
    BY <1>3, <1>7 DEF CliInv, TypeOK
  <2>2. QED
    BY <1>1, <1>3, <1>6, <2>1 DEF CliInv, TypeOK, Senders, loginVars, providerVars
<1>9. ProcessesDiffer'
  BY <1>1, <1>3 DEF CliInv, ProcessesDiffer, providerVars
<1>10. SpentIsKnown'
  BY <1>1 DEF CliInv, SpentIsKnown, providerVars
<1>11. RequestsAreHeld' /\ RejectedHasRival'
  BY <1>1, <1>6 DEF CliInv, RequestsAreHeld, RejectedHasRival, providerVars
<1>12. QED BY <1>1, <1>8, <1>9, <1>10, <1>11, ProxyFrame DEF CliInv, providerVars

(* A request that moves on while everything else stays.                     *)
LEMMA RequestMoves ==
  ASSUME CliInv, NEW q \in Requests, NEW r \in RequestShapes,
         request' = [request EXCEPT ![q] = r],
         r.at \in {"token", "forward"} => r.by \in Proxies /\ proxy[r.by].at # "down",
         r.at = "rejected" =>
            /\ r.token \in Tokens
            /\ \/ r.token \in expired
               \/ /\ Rotates /\ spent[r.token] # 0
                  /\ spent[r.token] # r.run \/ r.token \in lost,
         UNCHANGED <<loginVars, keyring, providerVars, proxy, runs, spent, lost>>
  PROVE  CliInv'
<1>1. /\ request' \in [Requests -> RequestShapes] /\ request'[q] = r
      /\ \A k \in Requests \ {q} : request'[k] = request[k]
  BY DEF CliInv, TypeOK
<1>2. TypeOK'
  BY <1>1 DEF CliInv, TypeOK, InProgress, Senders, loginVars, providerVars
<1>3. RequestsAreHeld' /\ RejectedHasRival'
  BY <1>1 DEF CliInv, RequestsAreHeld, RejectedHasRival, providerVars
<1>4. SpentIsKnown' /\ ProcessesDiffer'
  BY DEF CliInv, SpentIsKnown, ProcessesDiffer, providerVars
<1>5. QED BY <1>2, <1>3, <1>4, ProxyFrame DEF CliInv, providerVars

LEMMA AcceptInv ==
  ASSUME CliInv, NEW q \in Requests, NEW x \in Proxies, Accept(q, x) PROVE CliInv'
<1>1. PICK r : r = [Idle EXCEPT !.at = "token", !.by = x]
  OBVIOUS
<1>2. r = [at |-> "token", by |-> x, token |-> None, run |-> 0]
  BY <1>1 DEF Idle
<1>3. r \in RequestShapes /\ r.at = "token" /\ r.by = x
  BY <1>2, BoundsAssumption DEF RequestShapes
<1>4. QED BY <1>1, <1>3, RequestMoves DEF Accept

LEMMA UseCachedInv == ASSUME CliInv, NEW q \in Requests, UseCached(q) PROVE CliInv'
<1>1. PICK r : r = [request[q] EXCEPT !.at = "forward"]
  OBVIOUS
<1>2. r \in RequestShapes /\ r.at = "forward" /\ r.by = request[q].by
  BY <1>1 DEF CliInv, TypeOK, RequestShapes
<1>3. request[q].by \in Proxies /\ proxy[request[q].by].at # "down"
  BY DEF UseCached, CliInv, RequestsAreHeld, TypeOK, InProgress
<1>4. request' = [request EXCEPT ![q] = r]
  BY <1>1 DEF UseCached, CliInv, TypeOK
<1>5. QED BY <1>2, <1>3, <1>4, RequestMoves DEF UseCached

LEMMA ForwardInv == ASSUME CliInv, NEW q \in Requests, Forward(q) PROVE CliInv'
<1>1. PICK r : r = [Idle EXCEPT !.at = "answered"]
  OBVIOUS
<1>2. r = [at |-> "answered", by |-> None, token |-> None, run |-> 0]
  BY <1>1 DEF Idle
<1>3. r \in RequestShapes /\ r.at = "answered"
  BY <1>2, BoundsAssumption DEF RequestShapes
<1>4. QED BY <1>1, <1>3, RequestMoves DEF Forward

(* What the provider refuses ended, or was used up: by the process that     *)
(* asks only if that was not told.                                          *)
LEMMA RejectInv == ASSUME CliInv, NEW q \in Requests, Reject(q) PROVE CliInv'
<1>1. PICK x : x = request[q].by
  OBVIOUS
<1>2. x \in Proxies /\ proxy[x].at # "down"
  BY <1>1 DEF Reject, CliInv, RequestsAreHeld, TypeOK, InProgress
<1>3. UNCHANGED <<loginVars, keyring, providerVars, proxy, runs, spent, lost>>
  BY DEF Reject
<1>4. CASE /\ proxy[x].token \notin live
           /\ request' = [request EXCEPT ![q] = [Idle EXCEPT !.at = "rejected",
                              !.token = proxy[x].token, !.run = proxy[x].run]]
  <2>1. PICK r : r = [Idle EXCEPT !.at = "rejected",
                              !.token = proxy[x].token, !.run = proxy[x].run]
    OBVIOUS
  <2>2. r = [at |-> "rejected", by |-> None, token |-> proxy[x].token, run |-> proxy[x].run]
    BY <2>1 DEF Idle
  <2>3. proxy[x].token \in Tokens \cup {None} /\ proxy[x].run \in 0..MaxRuns
    BY <1>2 DEF CliInv, TypeOK, ProxyShapes
  <2>4. /\ r \in RequestShapes /\ r.at = "rejected" /\ r.token = proxy[x].token
        /\ r.run = proxy[x].run
    BY <2>2, <2>3 DEF RequestShapes
  <2>5. proxy[x].token \in 1..minted /\ proxy[x].token \in Tokens
    BY <1>2, <2>3, BoundsAssumption DEF CliInv, ProcessesDiffer
  <2>6. \/ proxy[x].token \in expired
        \/ /\ Rotates /\ spent[proxy[x].token] # 0
           /\ spent[proxy[x].token] # proxy[x].run \/ proxy[x].token \in lost
    BY <1>2, <1>4, <2>5 DEF CliInv, SpentIsKnown, ProcessesDiffer
  <2>7. QED BY <1>3, <1>4, <2>1, <2>4, <2>5, <2>6, RequestMoves
<1>5. CASE request' = [request EXCEPT ![q] = [Idle EXCEPT !.at = "unreachable"]]
  <2>1. PICK r : r = [Idle EXCEPT !.at = "unreachable"]
    OBVIOUS
  <2>2. r = [at |-> "unreachable", by |-> None, token |-> None, run |-> 0]
    BY <2>1 DEF Idle
  <2>3. r \in RequestShapes /\ r.at = "unreachable"
    BY <2>2, BoundsAssumption DEF RequestShapes
  <2>4. QED BY <1>3, <1>5, <2>1, <2>3, RequestMoves
<1>6. QED BY <1>1, <1>4, <1>5 DEF Reject

(* A process uses up the token it holds: it gets the new one, or it is not  *)
(* told.                                                                    *)
LEMMA RenewInv ==
  ASSUME CliInv, NEW x \in Proxies, proxy[x].at # "down", NEW n, n = proxy[x].token,
         n \in live, NEW next, next = NextToken(n), next \in Tokens, Renew(x, n, next),
         proxy' \in [Proxies -> ProxyShapes],
         \A y \in Proxies \ {x} : proxy'[y] = proxy[y],
         proxy'[x].at = proxy[x].at, proxy'[x].run = proxy[x].run,
         \/ proxy'[x].token = next /\ lost' = lost
         \/ Rotates /\ proxy'[x].token = n /\ lost' = lost \cup {n},
         request' \in [Requests -> RequestShapes], NEW q \in Requests,
         request[q].at = "token", request[q].by = x,
         \/ request'[q].at = "forward" /\ request'[q].by = x
         \/ request'[q].at = "unreachable",
         \A k \in Requests \ {q} : request'[k] = request[k],
         UNCHANGED <<loginVars, keyring, runs>>
  PROVE  CliInv'
<1>1. /\ minted' = IF next = n THEN minted ELSE next
      /\ live' = (live \ {n}) \cup {next}
      /\ spent' = [spent EXCEPT ![n] = IF next = n THEN 0 ELSE proxy[x].run]
      /\ expired' = expired /\ lost \subseteq lost' /\ lost' \subseteq lost \cup {n}
  BY DEF Renew
<1>2. /\ minted \in Nat /\ n \in 1..minted /\ n \in Tokens /\ minted' \in 0..MaxTokens
      /\ 1..minted \subseteq 1..minted' /\ next \in 1..minted'
      /\ IF Rotates THEN next = minted + 1 /\ minted' = minted + 1 /\ next # n
                    ELSE next = n /\ minted' = minted
  BY <1>1, BoundsAssumption DEF CliInv, TypeOK, Tokens, NextToken
<1>3. proxy[x].run \in 1..runs /\ proxy[x].run \in 0..MaxRuns /\ spent[n] = 0
  BY <1>2 DEF CliInv, TypeOK, ProcessesDiffer, SpentIsKnown, ProxyShapes
<1>4. IF Rotates THEN spent' = [spent EXCEPT ![n] = proxy[x].run]
                 ELSE spent' = spent /\ live' = live
  <2>1. spent' \in [Tokens -> 0..MaxRuns] /\ spent \in [Tokens -> 0..MaxRuns]
    BY <1>1, <1>2, <1>3 DEF CliInv, TypeOK
  <2>2. CASE Rotates
    BY <1>1, <1>2, <2>2
  <2>3. CASE ~Rotates
    <3>1. \A k \in Tokens : spent'[k] = spent[k]
      BY <1>1, <1>2, <1>3, <2>1, <2>3
    <3>2. spent' = spent
      BY <2>1, <3>1
    <3>3. QED BY <1>1, <1>2, <2>3, <3>2
  <2>4. QED BY <2>2, <2>3
<1>5. \A k \in Tokens : k # n => spent'[k] = spent[k]
  BY <1>2, <1>4 DEF CliInv, TypeOK
<1>6. TypeOK'
  <2>1. live' \subseteq 1..minted'
    BY <1>1, <1>2 DEF CliInv, TypeOK
  <2>2. spent' \in [Tokens -> 0..MaxRuns] /\ lost' \subseteq Tokens
    BY <1>1, <1>2, <1>3, <1>4 DEF CliInv, TypeOK
  <2>3. \A y \in Proxies : InProgress(y)' # {} => proxy'[y].at # "down"
    <3>1. \A y \in Proxies : InProgress(y)' \subseteq InProgress(y)
      BY DEF InProgress
    <3>2. \A y \in Proxies : proxy'[y].at = proxy[y].at
      OBVIOUS
    <3>3. QED BY <3>1, <3>2 DEF CliInv, TypeOK
  <2>4. QED
    BY <1>1, <1>2, <2>1, <2>2, <2>3 DEF CliInv, TypeOK, Senders, loginVars
<1>7. SpentIsKnown'
  <2>1. CASE ~Rotates
    BY <1>1, <1>2, <1>4, <2>1 DEF CliInv, SpentIsKnown
  <2>2. CASE Rotates
    <3>1. spent'[n] = proxy[x].run /\ spent'[n] # 0 /\ n \notin live' /\ n \in 1..minted'
      BY <1>1, <1>2, <1>3, <1>4, <2>2 DEF CliInv, TypeOK
    <3>2. ASSUME NEW k \in Tokens, k # n, spent'[k] # 0
          PROVE  k \in 1..minted' /\ k \notin live' /\ spent'[k] \in 1..runs'
      <4>1. k \in 1..minted /\ k \notin live /\ spent[k] \in 1..runs
        BY <1>5, <3>2 DEF CliInv, SpentIsKnown
      <4>2. k # next
        BY <1>2, <2>2, <4>1
      <4>3. spent'[k] = spent[k] /\ runs' = runs
        BY <1>5, <3>2
      <4>4. QED BY <1>1, <1>2, <4>1, <4>2, <4>3
    <3>3. ASSUME NEW k \in Tokens, k # n, k \in 1..minted', k \notin live'
          PROVE  spent'[k] # 0 \/ k \in expired'
      <4>1. k # next /\ k \notin live
        BY <1>1, <3>3
      <4>2. k \in 1..minted
        BY <1>2, <2>2, <3>3, <4>1
      <4>3. QED BY <1>1, <1>5, <3>3, <4>1, <4>2 DEF CliInv, SpentIsKnown
    <3>4. QED BY <1>3, <2>2, <3>1, <3>2, <3>3 DEF SpentIsKnown
  <2>3. QED BY <2>1, <2>2
<1>8. ProcessesDiffer'
  <2>1. \A y \in Proxies : proxy'[y].at = proxy[y].at /\ proxy'[y].run = proxy[y].run
    OBVIOUS
  <2>2. /\ proxy'[x].token \in 1..minted'
        /\ spent'[proxy'[x].token] # proxy'[x].run \/ proxy'[x].token \in lost'
    <3>1. CASE Rotates /\ proxy'[x].token = next
      <4>1. spent[next] = 0
        BY <1>2, <3>1 DEF CliInv, SpentIsKnown
      <4>2. QED BY <1>2, <1>3, <1>5, <3>1, <4>1
    <3>2. CASE ~Rotates
      BY <1>2, <1>3, <1>4, <3>2
    <3>3. CASE proxy'[x].token = n /\ lost' = lost \cup {n}
      BY <1>2, <3>3
    <3>4. QED BY <3>1, <3>2, <3>3
  <2>3. ASSUME NEW y \in Proxies \ {x}, proxy[y].at # "down"
        PROVE  /\ proxy'[y].token \in 1..minted'
               /\ spent'[proxy'[y].token] # proxy'[y].run \/ proxy'[y].token \in lost'
    <3>1. /\ proxy[y].token \in 1..minted /\ proxy[y].token \in Tokens
          /\ spent[proxy[y].token] # proxy[y].run \/ proxy[y].token \in lost
          /\ proxy[y].run # proxy[x].run
      BY <2>3, BoundsAssumption DEF CliInv, TypeOK, ProcessesDiffer, Tokens
    <3>2. CASE Rotates
      BY <1>1, <1>2, <1>4, <3>1, <3>2 DEF CliInv, TypeOK
    <3>3. CASE ~Rotates
      BY <1>1, <1>2, <1>4, <3>1, <3>3
    <3>4. QED BY <3>2, <3>3
  <2>4. \A y, z \in Proxies : y # z /\ proxy[y].at # "down" /\ proxy[z].at # "down"
                              => proxy[y].run \in 1..runs /\ proxy[y].run # proxy[z].run
    BY DEF CliInv, ProcessesDiffer
  <2>5. QED BY <1>3, <2>1, <2>2, <2>3, <2>4 DEF CliInv, ProcessesDiffer
<1>9. RejectedHasRival'
  <2>1. ASSUME NEW k \in Requests, request'[k].at = "rejected"
        PROVE  \/ request'[k].token \in expired'
               \/ /\ Rotates /\ spent'[request'[k].token] # 0
                  /\ \/ spent'[request'[k].token] # request'[k].run
                     \/ request'[k].token \in lost'
    <3>1. request'[k] = request[k]
      BY <2>1
    <3>2. \/ request[k].token \in expired
          \/ /\ Rotates /\ spent[request[k].token] # 0
             /\ spent[request[k].token] # request[k].run \/ request[k].token \in lost
      BY <2>1, <3>1 DEF CliInv, RejectedHasRival
    <3>3. request[k].token = n => request[k].token \in expired
      BY <1>3, <3>2
    <3>4. request[k].token \in Tokens
      BY <2>1, <3>1 DEF CliInv, RequestsAreHeld
    <3>5. QED BY <1>1, <1>5, <3>1, <3>2, <3>3, <3>4
  <2>2. QED BY <2>1 DEF RejectedHasRival
<1>10. RequestsAreHeld'
  BY DEF CliInv, RequestsAreHeld
<1>11. QED BY <1>2, <1>6, <1>7, <1>8, <1>9, <1>10, ProxyFrame DEF CliInv

LEMMA RefreshInv == ASSUME CliInv, NEW q \in Requests, Refresh(q) PROVE CliInv'
<1>1. PICK x, n, next : x = request[q].by /\ n = proxy[x].token /\ next = NextToken(n)
  OBVIOUS
<1>2. /\ x \in Proxies /\ proxy[x].at # "down" /\ request[q].at = "token"
      /\ n \in live /\ next \in Tokens /\ Renew(x, n, next)
      /\ UNCHANGED <<loginVars, keyring, runs, lost>>
  BY <1>1 DEF Refresh, CliInv, RequestsAreHeld, TypeOK, InProgress
<1>3. PICK p : p = [proxy[x] EXCEPT !.token = next, !.access = TRUE]
  OBVIOUS
<1>4. /\ p \in ProxyShapes /\ p.at = proxy[x].at /\ p.run = proxy[x].run /\ p.token = next
  BY <1>2, <1>3 DEF CliInv, TypeOK, ProxyShapes
<1>5. /\ proxy' \in [Proxies -> ProxyShapes] /\ proxy'[x] = p
      /\ \A y \in Proxies \ {x} : proxy'[y] = proxy[y]
  <2>1. proxy' = [proxy EXCEPT ![x] = p]
    BY <1>1, <1>2, <1>3 DEF Refresh, CliInv, TypeOK
  <2>2. QED BY <1>2, <1>4, <2>1 DEF CliInv, TypeOK
<1>6. /\ request' \in [Requests -> RequestShapes] /\ request'[q].at = "forward"
      /\ request'[q].by = x
      /\ \A k \in Requests \ {q} : request'[k] = request[k]
  <2>1. PICK r : r = [request[q] EXCEPT !.at = "forward"]
    OBVIOUS
  <2>2. r \in RequestShapes /\ r.at = "forward" /\ r.by = x
    BY <1>1, <2>1 DEF CliInv, TypeOK, RequestShapes
  <2>3. request' = [request EXCEPT ![q] = r]
    BY <2>1 DEF Refresh, CliInv, TypeOK
  <2>4. QED BY <2>2, <2>3 DEF CliInv, TypeOK
<1>7. QED BY <1>1, <1>2, <1>4, <1>5, <1>6, RenewInv

LEMMA LoseReplyInv == ASSUME CliInv, NEW q \in Requests, LoseReply(q) PROVE CliInv'
<1>1. PICK x, n, next : x = request[q].by /\ n = proxy[x].token /\ next = NextToken(n)
  OBVIOUS
<1>2. /\ x \in Proxies /\ proxy[x].at # "down" /\ request[q].at = "token"
      /\ n \in live /\ next \in Tokens /\ Renew(x, n, next)
      /\ Rotates /\ lost' = lost \cup {n}
      /\ UNCHANGED <<loginVars, keyring, proxy, runs>>
  BY <1>1 DEF LoseReply, CliInv, RequestsAreHeld, TypeOK, InProgress
<1>3. PICK r : r = [Idle EXCEPT !.at = "unreachable"]
  OBVIOUS
<1>4. r = [at |-> "unreachable", by |-> None, token |-> None, run |-> 0]
  BY <1>3 DEF Idle
<1>5. r \in RequestShapes /\ r.at = "unreachable"
  BY <1>4, BoundsAssumption DEF RequestShapes
<1>6. /\ request' \in [Requests -> RequestShapes] /\ request'[q].at = "unreachable"
      /\ \A k \in Requests \ {q} : request'[k] = request[k]
  BY <1>3, <1>5 DEF LoseReply, CliInv, TypeOK
<1>7. proxy' \in [Proxies -> ProxyShapes] /\ proxy' = proxy
  BY <1>2 DEF CliInv, TypeOK
<1>8. QED BY <1>1, <1>2, <1>6, <1>7, RenewInv

(* A token that ends leaves every process as it is.                         *)
LEMMA ExpireTokenInv == ASSUME CliInv, NEW n \in Tokens, ExpireToken(n) PROVE CliInv'
<1>1. /\ live' = live \ {n} /\ expired' = expired \cup {n}
      /\ UNCHANGED <<loginVars, keyring, minted, proxyVars>>
  BY DEF ExpireToken
<1>2. TypeOK'
  BY <1>1 DEF CliInv, TypeOK, Senders, InProgress, loginVars, proxyVars
<1>3. RequestsAreHeld' /\ ProcessesDiffer' /\ RejectedHasRival'
  BY <1>1 DEF CliInv, RequestsAreHeld, ProcessesDiffer, RejectedHasRival, proxyVars
<1>4. SpentIsKnown'
  BY <1>1 DEF CliInv, SpentIsKnown, proxyVars
<1>5. QED BY <1>1, <1>2, <1>3, <1>4, ProxyFrame DEF CliInv

-------------------------------------------------------------------------------
(* The theorems                                                             *)

LEMMA CliInit == Init => CliInv
<1> SUFFICES ASSUME Init PROVE CliInv
  OBVIOUS
<1>1. TypeOK
  <2>1. Unused \in CallbackShapes /\ Down \in ProxyShapes /\ Idle \in RequestShapes
    BY BoundsAssumption
    DEF Unused, Down, Idle, CallbackShapes, ProxyShapes, RequestShapes
  <2>2. \A l \in Logins : Senders(l) = {}
    BY DEF Init, Senders, Unused
  <2>3. \A x \in Proxies : InProgress(x) = {}
    BY DEF Init, InProgress, Idle
  <2>4. QED BY <2>1, <2>2, <2>3, BoundsAssumption, NobodyAssumption DEF Init, TypeOK, LoginPcs
<1>2. ListenerRuns /\ TokenIsOwn /\ SavedIsOwn
  BY DEF Init, ListenerRuns, TokenIsOwn, SavedIsOwn
<1>3. RequestsAreHeld /\ ProcessesDiffer /\ RejectedHasRival
  BY DEF Init, RequestsAreHeld, ProcessesDiffer, RejectedHasRival, Idle, Down
<1>4. SpentIsKnown
  BY DEF Init, SpentIsKnown
<1>5. QED BY <1>1, <1>2, <1>3, <1>4 DEF CliInv

LEMMA CliStep == CliInv /\ [Next]_vars => CliInv'
<1> SUFFICES ASSUME CliInv, [Next]_vars PROVE CliInv'
  OBVIOUS
<1>1. ASSUME NEW l \in Logins, StartLogin(l) \/ LoginStep(l) \/ Kill(l) PROVE CliInv'
  BY <1>1, StartLoginInv, ListenInv, OpenBrowserInv, ReceiveInv, ExchangeInv, CloseListenerInv,
     DrainedInv, FinishInv, KillInv DEF LoginStep
<1>2. ASSUME NEW b \in Callbacks, Reload(b) \/ Arrive(b) PROVE CliInv'
  BY <1>2, ReloadInv, ArriveInv
<1>3. CASE Logout
  BY <1>3, LogoutInv
<1>4. ASSUME NEW x \in Proxies, \/ StartProxy(x) \/ ExpireAccess(x) \/ ServerCrashes(x)
                                \/ Interrupt(x) \/ Stop(x)
      PROVE  CliInv'
  BY <1>4, StartProxyInv, ExpireAccessInv, InterruptInv, LeaveInv DEF ServerCrashes, Stop
<1>5. ASSUME NEW x \in Proxies, NEW q \in Requests, Accept(q, x) PROVE CliInv'
  BY <1>5, AcceptInv
<1>6. ASSUME NEW q \in Requests, RequestStep(q) PROVE CliInv'
  BY <1>6, UseCachedInv, RefreshInv, LoseReplyInv, RejectInv, ForwardInv
  DEF RequestStep
<1>7. CASE UNCHANGED vars
  <2>1. UNCHANGED <<loginVars, keyring, providerVars, proxyVars>>
    BY <1>7 DEF vars
  <2>2. TypeOK'
    BY <2>1 DEF CliInv, TypeOK, Senders, InProgress, loginVars, providerVars, proxyVars
  <2>3. ListenerRuns' /\ TokenIsOwn' /\ SavedIsOwn'
    BY <2>1, ProxyFrame DEF providerVars
  <2>4. QED BY <2>1, <2>2, <2>3, LoginFrame DEF CliInv
<1>8. CASE AllEnded
  BY <1>7, <1>8 DEF AllEnded
<1>9. ASSUME NEW n \in Tokens, ExpireToken(n) PROVE CliInv'
  BY <1>9, ExpireTokenInv
<1>10. QED BY <1>1, <1>2, <1>3, <1>4, <1>5, <1>6, <1>7, <1>8, <1>9 DEF Next

(* Every state of the command line tool satisfies the inductive invariant.  *)
THEOREM CliInvariant == Spec => []CliInv
<1>1. QED BY CliInit, CliStep, PTL DEF Spec

(* Every variable keeps its type: the port belongs to the one login that    *)
(* serves (http.Server of LoginBrowser), and handlers and requests belong   *)
(* to processes that are running.                                           *)
THEOREM CliTypeCorrect == Spec => []TypeOK
<1>1. CliInv => TypeOK
  BY DEF CliInv
<1>2. QED BY <1>1, CliInvariant, PTL

(* What the login command put into the keyring was given to a login for the *)
(* code of its own tab: the comparison of the states in the callback        *)
(* handler keeps apart logins that compete for the port.                    *)
THEOREM CliSavedIsOwn == Spec => []SavedIsOwn
<1>1. CliInv => SavedIsOwn
  BY DEF CliInv
<1>2. QED BY <1>1, CliInvariant, PTL

(* A local proxy whose refresh token is refused never had the answer to its *)
(* own use of it: the token expired or was revoked, or the provider rotates *)
(* tokens and another process that read the same keyring entry used it up,  *)
(* or this one did and the reply was lost.                                  *)
THEOREM CliRejectedHasRival == Spec => []RejectedHasRival
<1>1. CliInv => RejectedHasRival
  BY DEF CliInv
<1>2. QED BY <1>1, CliInvariant, PTL

===============================================================================
