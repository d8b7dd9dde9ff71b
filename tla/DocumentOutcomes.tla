-------------------------- MODULE DocumentOutcomes --------------------------
(***************************************************************************)
(* What the document operations promise, with no tasks, callbacks, object  *)
(* store or crashes: a request is accepted on a target that no other       *)
(* request holds, and later it either takes effect at once, on the very    *)
(* document version it was made from, or fails and leaves the target as it *)
(* was.  A target in "submitting" is locked until then.                    *)
(***************************************************************************)
CONSTANTS Operations, Responses, TemplateDrafts, Plans, NoPlan, NoKey

VARIABLES
    request,   \* the accepted request
    outcome,   \* "none", "open", "completed" or "failed"
    document,  \* the target's draft version
    phase,     \* the target's lifecycle
    records    \* requests that produced a Submission or Published Template

abstractVars == <<request, outcome, document, phase, records>>

Targets  == Responses \cup TemplateDrafts
Seed(t)  == [kind |-> "seed",  of |-> t]
Final(o) == [kind |-> "final", of |-> o]

Init ==
    /\ request = [o \in Operations |-> NoPlan]
    /\ outcome = [o \in Operations |-> "none"]
    /\ document = [t \in Targets |-> Seed(t)]
    /\ phase = [t \in Targets |-> "draft"]
    /\ records = {}

Submits(p) == p.action = "submit"

Accept(o, p) ==
    /\ outcome[o] = "none"
    /\ \A other \in Operations :
          outcome[other] = "open" => request[other].target # p.target
    /\ request' = [request EXCEPT ![o] = p]
    /\ outcome' = [outcome EXCEPT ![o] = "open"]
    /\ IF Submits(p)
       THEN phase[p.target] = "draft" /\ phase' = [phase EXCEPT ![p.target] = "submitting"]
       ELSE phase' = phase
    /\ UNCHANGED <<document, records>>

(* Each action takes effect on the version the request was made from.      *)
Complete(o) ==
    LET p == request[o]
        t == p.target
    IN  /\ outcome[o] = "open"
        /\ document[t] = p.base
        /\ outcome' = [outcome EXCEPT ![o] = "completed"]
        /\ \/ /\ p.action \in {"save-draft", "save-template"}
              /\ phase[t] = "draft"
              /\ document' = [document EXCEPT ![t] = Final(o)]
              /\ UNCHANGED <<phase, records>>
           \/ /\ Submits(p)
              /\ phase[t] = "submitting"
              /\ document' = [document EXCEPT ![t] = NoKey]
              /\ phase' = [phase EXCEPT ![t] = "submitted"]
              /\ records' = records \cup {o}
           \/ /\ p.action = "publish"
              /\ phase[t] = "draft"
              /\ phase' = [phase EXCEPT ![t] = "published"]
              /\ records' = records \cup {o}
              /\ document' = document
        /\ request' = request

Fail(o) ==
    LET p == request[o] IN
    /\ outcome[o] = "open"
    /\ outcome' = [outcome EXCEPT ![o] = "failed"]
    /\ phase' = IF Submits(p) THEN [phase EXCEPT ![p.target] = "draft"] ELSE phase
    /\ UNCHANGED <<request, document, records>>

Next ==
    \E o \in Operations :
        \/ \E p \in Plans : Accept(o, p)
        \/ Complete(o)
        \/ Fail(o)

Spec == Init /\ [][Next]_abstractVars
=============================================================================
