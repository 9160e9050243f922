------------------------------- MODULE WriteOnce -------------------------------
(***************************************************************************)
(* What a hosted repository promises its publishers, whatever the protocol *)
(* does underneath: each file is a register that is written at most once,  *)
(* an upload answered "created" is the one that wrote it, and an upload    *)
(* answered "conflict" found it written.  An upload may also fail, and its *)
(* client may then not know whether the file was written.                  *)
(***************************************************************************)
CONSTANTS Artifacts, Contents, Uploads, None

VARIABLES
    recorded,  \* artifact -> the content it was written with, or None
    offer,     \* upload -> [art, content] it was submitted with, or None
    outcome    \* upload -> how it ended

vars == <<recorded, offer, outcome>>

Outcomes == {"none", "created", "conflict", "badRequest", "error", "crashed"}

Init ==
    /\ recorded = [a \in Artifacts |-> None]
    /\ offer = [r \in Uploads |-> None]
    /\ outcome = [r \in Uploads |-> "none"]

Submit(r) ==
    /\ offer[r] = None /\ outcome[r] = "none"
    /\ \E a \in Artifacts, c \in Contents :
          offer' = [offer EXCEPT ![r] = [art |-> a, content |-> c]]
    /\ UNCHANGED <<recorded, outcome>>

(* The only way a file comes to exist: one pending upload writes it, once.  *)
Write(r) ==
    /\ offer[r] # None /\ outcome[r] = "none"
    /\ recorded[offer[r].art] = None
    /\ recorded' = [recorded EXCEPT ![offer[r].art] = offer[r].content]
    /\ UNCHANGED <<offer, outcome>>

(* The rivals of an upload are the other uploads of the same file.          *)
Created(r) ==
    /\ outcome[r] = "none" /\ offer[r] # None
    /\ recorded[offer[r].art] = offer[r].content
    /\ \A w \in Uploads : outcome[w] = "created" => offer[w].art # offer[r].art
    /\ outcome' = [outcome EXCEPT ![r] = "created"]
    /\ UNCHANGED <<recorded, offer>>

Conflict(r) ==
    /\ outcome[r] = "none" /\ offer[r] # None
    /\ recorded[offer[r].art] # None
    /\ outcome' = [outcome EXCEPT ![r] = "conflict"]
    /\ UNCHANGED <<recorded, offer>>

Reject(r) ==
    /\ offer[r] = None /\ outcome[r] = "none"
    /\ outcome' = [outcome EXCEPT ![r] = "badRequest"]
    /\ UNCHANGED <<recorded, offer>>

Fail(r) ==
    /\ offer[r] # None /\ outcome[r] = "none"
    /\ outcome' = [outcome EXCEPT ![r] = "error"]
    /\ UNCHANGED <<recorded, offer>>

(* The server dies: every pending upload is cut off at once.                *)
CutOff ==
    /\ outcome' = [r \in Uploads |-> IF offer[r] # None /\ outcome[r] = "none"
                                     THEN "crashed" ELSE outcome[r]]
    /\ UNCHANGED <<recorded, offer>>

Next ==
    \/ \E r \in Uploads : \/ Submit(r) \/ Write(r) \/ Created(r) \/ Conflict(r)
                          \/ Reject(r) \/ Fail(r)
    \/ CutOff

Spec == Init /\ [][Next]_vars

===============================================================================
