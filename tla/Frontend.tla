------------------------------- MODULE Frontend -------------------------------
(***************************************************************************)
(* The HTTP surface of the server as cmd/server puts it together: the      *)
(* management API and the protocols behind Protect, the browse pages       *)
(* behind ProtectWithRedirect, /login and /callback open.  API clients     *)
(* bring a bearer token, the tabs of a browser the cookie of a web login;  *)
(* both reach the same tables.  A tab's page is a request of Management,   *)
(* and the tab is its caller.                                              *)
(***************************************************************************)
EXTENDS Management, WebLogin

CONSTANTS
    Clients,  \* callers that are not tabs
    Crowds    \* which callers may take part together

ASSUME CallersAssumption == Clients \cap Tabs = {} /\ Callers = Clients \cup Tabs
ASSUME CrowdsAssumption == Crowds \subseteq SUBSET Callers
ASSUME BrowseAssumption ==
    Pages \subseteq {k \in Calls : k.op \in {"listAll", "list", "browse", "browseFile"}}

VARIABLES
    open,  \* whether the policy that allows everyone everything is loaded
    crowd  \* the callers that take part

vars == <<managementVars, webVars, open, crowd>>

(* SetupCasbin ignores the error of AddPolicy: a statement that fails when  *)
(* the server first starts leaves it without any policy.                    *)
Init ==
    /\ ManagementInit /\ WebInit
    /\ open \in {TRUE} \cup {"db" \notin Faults}
    /\ crowd \in Crowds

(* Protect in front of /manage and /registries.                             *)
ClientCalls(c) ==
    /\ \E token \in {Absent, "opaque", "good"} :
          \/ token # "good" /\ Refuse(c, "unauthorized")
          \/ token = "good" /\ ~open /\ Refuse(c, "forbidden")
          \/ /\ token = "good" /\ open
             /\ Refuse(c, "badRequest") \/ \E k \in Calls : Receive(c, k)
    /\ UNCHANGED webVars

(* ProtectWithRedirect in front of /browse.                                 *)
TabIsServed(t) ==
    \/ open /\ Admit(t) /\ Receive(t, tab[t].page)
    \/ ~open /\ Forbid(t) /\ UNCHANGED managementVars

TabIsAnswered(t) == pc[t] = "done" /\ Show(t) /\ Release(t)

ClientStep(c) == ClientCalls(c) /\ UNCHANGED <<open, crowd>>

ServerStep(c) == HandlerStep(c) /\ UNCHANGED <<webVars, open, crowd>>

PageStep(t) == (TabIsServed(t) \/ TabIsAnswered(t)) /\ UNCHANGED <<open, crowd>>

BrowserStep(t) ==
    (LoginStep(t) \/ UserStep(t)) /\ UNCHANGED <<managementVars, open, crowd>>

CookiesExpire == (ExpireLogin \/ ExpireToken) /\ UNCHANGED <<managementVars, open, crowd>>

(* A crowd without a tab ends when its clients are answered.                *)
AllAnswered == (\A c \in crowd : pc[c] = "done") /\ UNCHANGED vars

Next ==
    \/ \E c \in crowd : ServerStep(c)
    \/ \E c \in crowd \cap Clients : ClientStep(c)
    \/ \E t \in crowd \cap Tabs : PageStep(t) \/ BrowserStep(t)
    \/ CookiesExpire
    \/ AllAnswered

Spec == Init /\ [][Next]_vars

-------------------------------------------------------------------------------
(* Properties                                                               *)

(* The two components have their types, and a tab has a request in the      *)
(* server exactly while it waits for its page.                              *)
TypeOK ==
    /\ ManagementTypeOK /\ WebTypeOK
    /\ open \in BOOLEAN /\ crowd \in Crowds
    /\ \A t \in Tabs : pc[t] # "idle" <=> tab[t].at = "serving"

===============================================================================
