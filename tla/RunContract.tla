------------------------------ MODULE RunContract ------------------------------
(***************************************************************************)
(* What a user is promised about a task, with no worker, lease, checkpoint  *)
(* or process in sight: a task is accepted, may be asked to stop, and ends  *)
(* exactly once, as answered, stopped or failed.                            *)
(***************************************************************************)
EXTENDS Naturals

CONSTANTS Runs, Conversations, ConvOf

VARIABLES
    phase,      \* where each task is
    answer      \* how many assistant messages answer it

contractVars == <<phase, answer>>

Open == {"working", "stopping"}

Init ==
    /\ phase = [r \in Runs |-> "new"]
    /\ answer = [r \in Runs |-> 0]

\* A task is accepted when its conversation has no open task.
Accept(r) ==
    /\ phase[r] = "new"
    /\ \A q \in Runs : ConvOf[q] = ConvOf[r] => phase[q] \notin Open
    /\ phase' = [phase EXCEPT ![r] = "working"]
    /\ UNCHANGED answer

\* The user asks to stop.
Ask(r) ==
    /\ phase[r] = "working"
    /\ phase' = [phase EXCEPT ![r] = "stopping"]
    /\ UNCHANGED answer

\* The answer becomes visible in the same step as the task is over.
Answer(r) ==
    /\ phase[r] = "working"
    /\ phase' = [phase EXCEPT ![r] = "answered"]
    /\ answer' = [answer EXCEPT ![r] = @ + 1]

\* Stopped is the answer to a request of the user, never the system's own idea.
Stop(r) ==
    /\ phase[r] = "stopping"
    /\ phase' = [phase EXCEPT ![r] = "stopped"]
    /\ UNCHANGED answer

Fail(r) ==
    /\ phase[r] \in Open
    /\ phase' = [phase EXCEPT ![r] = "failed"]
    /\ UNCHANGED answer

Next == \E r \in Runs : Accept(r) \/ Ask(r) \/ Answer(r) \/ Stop(r) \/ Fail(r)

Spec == Init /\ [][Next]_contractVars
=============================================================================
