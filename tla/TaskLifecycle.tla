--------------------------- MODULE TaskLifecycle ---------------------------
(***************************************************************************)
(* What the task queue promises about one row of agent.tasks, without      *)
(* steps, worker loops or statements: a task is claimed only while it is   *)
(* queued, and after that its status is the business of its claimants and  *)
(* of whoever cancels it.                                                  *)
(***************************************************************************)
CONSTANTS Tasks, Workers

VARIABLES
    status,   \* status of each task
    claims    \* claims[t]: the workers that selected t and have not let go of it

vars == <<status, claims>>

Init ==
    /\ status = [t \in Tasks |-> "ABSENT"]
    /\ claims = [t \in Tasks |-> {}]

Submit(t) ==
    /\ status[t] = "ABSENT"
    /\ status' = [status EXCEPT ![t] = "QUEUED"]
    /\ UNCHANGED claims

Withdraw(t) ==
    /\ status[t] \in {"QUEUED", "RUNNING"}
    /\ status' = [status EXCEPT ![t] = "CANCELLED"]
    /\ UNCHANGED claims

Claim(w, t) ==
    /\ status[t] = "QUEUED"
    /\ \A u \in Tasks : w \notin claims[u]
    /\ claims' = [claims EXCEPT ![t] = @ \union {w}]
    /\ UNCHANGED status

Start(w, t) ==
    /\ w \in claims[t]
    /\ status' = [status EXCEPT ![t] = "RUNNING"]
    /\ UNCHANGED claims

\* Only a task that has left the queue finishes, and it keeps no claim of w.
Finish(w, t) ==
    /\ w \in claims[t]
    /\ status[t] \notin {"ABSENT", "QUEUED"}
    /\ \E s \in {"DONE", "PARTIAL", "FAILED"} : status' = [status EXCEPT ![t] = s]
    /\ claims' = [claims EXCEPT ![t] = @ \ {w}]

Die ==
    /\ claims' = [t \in Tasks |-> {}]
    /\ UNCHANGED status

Next ==
    \/ \E t \in Tasks : Submit(t) \/ Withdraw(t)
    \/ \E w \in Workers, t \in Tasks : Claim(w, t) \/ Start(w, t) \/ Finish(w, t)
    \/ Die

Spec == Init /\ [][Next]_vars
=============================================================================
