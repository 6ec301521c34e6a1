-------------------------------- MODULE Requests --------------------------------
(***************************************************************************)
(* What the administration modules share: the threads of the gunicorn      *)
(* workers, each with at most one request under way.  A request is a       *)
(* record whose field pc names the step that comes next; between two steps *)
(* another worker may commit, or this one may die.                         *)
(***************************************************************************)
CONSTANTS
    Workers,
    None

VARIABLE job

Idle == [pc |-> "idle"]
IsAt(w, step) == job[w].pc = step
Begin(w, request) == IsAt(w, "idle") /\ job' = [job EXCEPT ![w] = request]
Go(w, request) == job' = [job EXCEPT ![w] = request]
Done(w) == job' = [job EXCEPT ![w] = Idle]

\* The requests at one of the steps learn (for the properties) that somebody
\* committed since they began.
Overtaken(steps) ==
    [w \in Workers |-> IF job[w].pc \in steps THEN [job[w] EXCEPT !.late = TRUE] ELSE job[w]]
================================================================================
