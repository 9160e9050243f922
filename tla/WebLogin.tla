------------------------------- MODULE WebLogin -------------------------------
(***************************************************************************)
(* The web login (internal/server/authapi) as one browser lives through    *)
(* it: two tabs share the cookie jar, and every request carries the        *)
(* cookies of the moment it is sent while the cookies of an answer take    *)
(* effect when it arrives.  The server keeps no state of its own: what it  *)
(* knows of a login is what the cookies and the URL bring back.            *)
(*                                                                         *)
(* A page without a valid token redirects to /login with the page as       *)
(* return_to (ProtectWithRedirect); /login redirects to the provider, the  *)
(* provider to /callback, and that one to the page.                        *)
(***************************************************************************)
EXTENDS Naturals

CONSTANTS
    Tabs,       \* the tabs of the browser
    Pages,      \* URLs under /browse
    Home,       \* "/browse", where a login without return_to ends
    MaxLogins,  \* bound: how many logins are started
    Tokens,     \* what the provider may hand out
    Absent      \* no cookie, no state

(* A "good" token passes verification until its cookie expires; an "opaque" *)
(* one is an access token that came without an id_token.                    *)
ASSUME TokensAssumption == Tokens \subseteq {"good", "opaque", "expired"} /\ Absent \notin Tokens
ASSUME PagesAssumption == Home \in Pages /\ Absent \notin Pages
ASSUME LoginsAssumption == MaxLogins \in Nat /\ Absent \notin Nat

VARIABLES
    jar,       \* the cookies oauth_state, oauth_return_to and access_token
    tab,       \* tab -> where it is and what the request on its way carries
    issued,    \* number of states handed out: each is new
    disturbed  \* history: tabs at the provider whose oauth_state went meanwhile

webVars == <<jar, tab, issued, disturbed>>

States == 1..MaxLogins

NoCookies == [state |-> Absent, returnTo |-> Absent, token |-> Absent]

(* "asked" is the page the user wanted, "page" the URL the tab is led to.   *)
Blank == [at |-> "idle", asked |-> Home, page |-> Home, state |-> Absent,
          sent |-> NoCookies, code |-> FALSE, token |-> Absent, loggedIn |-> FALSE]

WebInit ==
    /\ jar = NoCookies
    /\ tab = [t \in Tabs |-> Blank]
    /\ issued = 0
    /\ disturbed = {}

Move(t, next) == tab' = [tab EXCEPT ![t] = next]

AtProvider == {t \in Tabs : tab[t].at = "provider"}

-------------------------------------------------------------------------------
(* Pages                                                                    *)

Visit(t, p) ==
    /\ tab[t].at = "idle"
    /\ Move(t, [Blank EXCEPT !.at = "get", !.asked = p, !.page = p, !.sent = jar])
    /\ UNCHANGED <<jar, issued, disturbed>>

(* The user opens /login itself.                                            *)
VisitLogin(t) ==
    /\ tab[t].at = "idle"
    /\ Move(t, [Blank EXCEPT !.at = "login"])
    /\ UNCHANGED <<jar, issued, disturbed>>

(* OIDCMiddleware lets the request pass.                                    *)
Admit(t) ==
    /\ tab[t].at = "get" /\ tab[t].sent.token = "good"
    /\ Move(t, [tab[t] EXCEPT !.at = "serving"])
    /\ UNCHANGED <<jar, issued, disturbed>>

(* Its 401 is rewritten into a redirect to /login by redirectResponseWriter. *)
Redirect(t) ==
    /\ tab[t].at = "get" /\ tab[t].sent.token # "good"
    /\ Move(t, [tab[t] EXCEPT !.at = "login"])
    /\ UNCHANGED <<jar, issued, disturbed>>

(* The token is good, but CasbinAuthorization finds no policy that allows.   *)
Forbid(t) ==
    /\ tab[t].at = "get" /\ tab[t].sent.token = "good"
    /\ Move(t, [tab[t] EXCEPT !.at = "forbidden"])
    /\ UNCHANGED <<jar, issued, disturbed>>

Show(t) ==
    /\ tab[t].at = "serving"
    /\ Move(t, [tab[t] EXCEPT !.at = "shown"])
    /\ UNCHANGED <<jar, issued, disturbed>>

-------------------------------------------------------------------------------
(* handleLogin                                                              *)

HandleLogin(t) ==
    /\ tab[t].at = "login" /\ issued < MaxLogins
    /\ issued' = issued + 1
    /\ Move(t, [tab[t] EXCEPT !.at = "loginAnswer", !.state = issued + 1])
    /\ UNCHANGED <<jar, disturbed>>

(* Mutant: a state that is already there is kept.                           *)
ReceiveLoginKeeps(t) ==
    /\ tab[t].at = "loginAnswer"
    /\ jar' = IF jar.state = Absent
              THEN [jar EXCEPT !.state = tab[t].state, !.returnTo = tab[t].page] ELSE jar
    /\ Move(t, [tab[t] EXCEPT !.at = "provider", !.sent = NoCookies])
    /\ disturbed' = disturbed \ {t}
    /\ UNCHANGED issued

(* Mutant: without a return_to in the query its cookie is not set.          *)
ReceiveLoginStateOnly(t) ==
    /\ tab[t].at = "loginAnswer"
    /\ jar' = [jar EXCEPT !.state = tab[t].state,
                          !.returnTo = IF tab[t].page = Home THEN @ ELSE tab[t].page]
    /\ Move(t, [tab[t] EXCEPT !.at = "provider", !.sent = NoCookies])
    /\ disturbed' = (disturbed \cup AtProvider) \ {t}
    /\ UNCHANGED issued

(* Both cookies arrive in one answer, over those of any other login.        *)
ReceiveLogin(t) ==
    /\ tab[t].at = "loginAnswer"
    /\ jar' = [jar EXCEPT !.state = tab[t].state, !.returnTo = tab[t].page]
    /\ Move(t, [tab[t] EXCEPT !.at = "provider", !.sent = NoCookies])
    /\ disturbed' = (disturbed \cup AtProvider) \ {t}
    /\ UNCHANGED issued

(* At the provider the user logs in, or refuses: then there is no code.     *)
LeaveProvider(t) ==
    /\ tab[t].at = "provider"
    /\ \E code \in BOOLEAN :
          Move(t, [tab[t] EXCEPT !.at = "callback", !.sent = jar, !.code = code])
    /\ UNCHANGED <<jar, issued, disturbed>>

-------------------------------------------------------------------------------
(* handleCallback                                                           *)

FailCallback(t, why) ==
    /\ Move(t, [tab[t] EXCEPT !.at = why])
    /\ UNCHANGED <<jar, issued, disturbed>>

Failures == {"stateMissing", "stateMismatch", "codeMissing", "exchangeFailed", "expired"}

RejectCallback(t) ==
    /\ tab[t].at = "callback"
    /\ \/ tab[t].sent.state = Absent /\ FailCallback(t, "stateMissing")
       \/ /\ tab[t].sent.state \notin {Absent, tab[t].state}
          /\ FailCallback(t, "stateMismatch")
       \/ /\ tab[t].sent.state = tab[t].state /\ ~tab[t].code
          /\ FailCallback(t, "codeMissing")

(* The code is exchanged; a token that has expired already is refused.      *)
AcceptCallback(t) ==
    /\ tab[t].at = "callback" /\ tab[t].sent.state = tab[t].state /\ tab[t].code
    /\ \/ FailCallback(t, "exchangeFailed")
       \/ "expired" \in Tokens /\ FailCallback(t, "expired")
       \/ \E token \in Tokens \ {"expired"} :
             /\ Move(t, [tab[t] EXCEPT !.at = "callbackAnswer", !.token = token,
                           !.page = IF tab[t].sent.returnTo = Absent THEN Home
                                    ELSE tab[t].sent.returnTo])
             /\ UNCHANGED <<jar, issued, disturbed>>

(* The token arrives and the two cookies of the login go, whoever's they    *)
(* are by now; the tab follows to its page with the new jar.                *)
ReceiveCallback(t) ==
    LET cleared == [state |-> Absent, returnTo |-> Absent, token |-> tab[t].token] IN
    /\ tab[t].at = "callbackAnswer"
    /\ jar' = cleared
    /\ disturbed' = disturbed \cup AtProvider
    /\ Move(t, [tab[t] EXCEPT !.at = "get", !.sent = cleared, !.loggedIn = TRUE,
                              !.state = Absent, !.token = Absent, !.code = FALSE])
    /\ UNCHANGED issued

-------------------------------------------------------------------------------
(* Time and the user                                                        *)

(* The two cookies of a login live for the same five minutes.               *)
ExpireLogin ==
    /\ jar.state # Absent
    /\ jar' = [jar EXCEPT !.state = Absent, !.returnTo = Absent]
    /\ disturbed' = disturbed \cup AtProvider
    /\ UNCHANGED <<tab, issued>>

(* The cookie of the token lives as long as the token.                      *)
ExpireToken ==
    /\ jar.token # Absent
    /\ jar' = [jar EXCEPT !.token = Absent]
    /\ UNCHANGED <<tab, issued, disturbed>>

Quit(t) ==
    /\ tab[t].at \in Failures \cup {"login", "provider", "shown", "forbidden"}
    /\ Move(t, Blank)
    /\ disturbed' = disturbed \ {t}
    /\ UNCHANGED <<jar, issued>>

LoginStep(t) ==
    \/ Redirect(t) \/ HandleLogin(t) \/ ReceiveLogin(t) \/ LeaveProvider(t)
    \/ RejectCallback(t) \/ AcceptCallback(t) \/ ReceiveCallback(t)

UserStep(t) == (\E p \in Pages : Visit(t, p)) \/ VisitLogin(t) \/ Quit(t)

WebNext ==
    \/ \E t \in Tabs : LoginStep(t) \/ UserStep(t) \/ Admit(t) \/ Forbid(t) \/ Show(t)
    \/ ExpireLogin \/ ExpireToken

WebSpec == WebInit /\ [][WebNext]_webVars

-------------------------------------------------------------------------------
(* Properties                                                               *)

Cookies == [state : States \cup {Absent}, returnTo : Pages \cup {Absent},
            token : {Absent, "good", "opaque"}]

InLogin == {"loginAnswer", "provider", "callback", "callbackAnswer"}

Places == Failures \cup InLogin \cup {"idle", "get", "login", "serving", "shown", "forbidden"}

TabShapes == [at : Places, asked : Pages, page : Pages, state : States \cup {Absent},
              sent : Cookies, code : BOOLEAN, token : {Absent, "good", "opaque"},
              loggedIn : BOOLEAN]

(* Every variable has its type, and a tab that is on its way through a      *)
(* login knows the state it was given.                                      *)
WebTypeOK ==
    /\ jar \in Cookies
    /\ tab \in [Tabs -> TabShapes]
    /\ issued \in 0..MaxLogins
    /\ disturbed \subseteq Tabs
    /\ \A t \in Tabs : tab[t].at \in InLogin => tab[t].state \in 1..issued

(* A login takes the user to the page that the tab was opened for, and not  *)
(* to the one of another login whose cookies are in the jar.                *)
ReturnsToOwnPage ==
    \A t \in Tabs :
        tab[t].at \in {"get", "login", "callbackAnswer", "serving", "shown"}
            => tab[t].page = tab[t].asked

(* A callback is turned away for its state only when another login, or the  *)
(* five minutes, took the state away while the user was at the provider;    *)
(* and a tab that has just logged in is sent to log in again only when the  *)
(* provider gave no id_token and the opaque token cannot be verified.       *)
LoginFailureExplained ==
    \A t \in Tabs :
        /\ tab[t].at \in {"stateMissing", "stateMismatch"} => t \in disturbed
        /\ tab[t].at = "login" /\ tab[t].loggedIn => tab[t].sent.token = "opaque"

===============================================================================
