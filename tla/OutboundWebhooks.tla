-------------------------- MODULE OutboundWebhooks --------------------------
(***************************************************************************)
(* Outbound webhooks (webhooks/outbound_service.py, webhooks/relay.py): a  *)
(* published event inserts one delivery row per matching endpoint, and the *)
(* scheduler thread that every process starts drains the due ones by HTTP, *)
(* retries with a backoff, and disables an endpoint that keeps failing.    *)
(*                                                                         *)
(* Rows are read without a lock or a claim, and an attempt saves what it   *)
(* computed from its own reading, so the drains of two processes, a test   *)
(* delivery and an administrator meet on the same rows.                    *)
(***************************************************************************)
EXTENDS Integers, FiniteSets, Functions

CONSTANTS
    Schedulers,   \* scheduler threads, one of each process
    Requests,     \* request threads
    Endpoints,    \* ids of vbwd_webhook rows
    Deliveries,   \* ids of vbwd_webhook_delivery rows
    EndpointOf,   \* EndpointOf[d]: the webhook_id of d
    MaxAttempts,  \* max_attempts
    Threshold,    \* AUTO_DISABLE_FAILURE_THRESHOLD
    MaxToggles,   \* bound on toggles
    MaxCrashes,   \* bound on process deaths
    None          \* no delivery, no endpoint

ASSUME WebhookConstants ==
    /\ EndpointOf \in [Deliveries -> Endpoints]
    /\ MaxAttempts \in Nat \ {0} /\ Threshold \in Nat \ {0}
    /\ MaxToggles \in Nat /\ MaxCrashes \in Nat
    /\ None \notin Deliveries \cup Endpoints
    /\ Schedulers \cap Requests = {} /\ Endpoints \cap Deliveries = {}

Workers == Schedulers \cup Requests

VARIABLES
    endpoint,  \* the endpoint rows there are: their is_active and failure count
    delivery,  \* the delivery rows there are
    unused,    \* ids no row has had yet
    posts,     \* how often each row was posted, counted up to MaxAttempts
    task,      \* what each worker is doing
    toggles, crashes  \* counters the bounds are on

rows == <<endpoint, delivery, unused>>
vars == <<rows, posts, task, toggles, crashes>>

-----------------------------------------------------------------------------
NewEndpoint == [active |-> TRUE, failures |-> 0]

\* next_attempt_at is in the past ("due"), ahead ("later") or NULL ("never").
NewDelivery == [status |-> "pending", attempts |-> 0, next |-> "due"]

Empty == [x \in {} |-> x]

Idle == [pc |-> "idle", todo |-> {}, cache |-> Empty, d |-> None,
         seen |-> NewDelivery, e |-> None, seenE |-> NewEndpoint]

Init == /\ endpoint = Empty
        /\ delivery = Empty
        /\ unused = Endpoints \cup Deliveries
        /\ posts = [d \in Deliveries |-> 0]
        /\ task = [w \in Workers |-> Idle]
        /\ toggles = 0 /\ crashes = 0

Live(e) == e \in DOMAIN endpoint
Active == {e \in DOMAIN endpoint : endpoint[e].active}

\* A row with a value for one more id.
With(table, id, row) == [x \in DOMAIN table \cup {id} |-> IF x = id THEN row ELSE table[x]]

\* find_due: pending, attempts left, due.
IsDue(row) == row.status = "pending" /\ row.attempts < MaxAttempts /\ row.next = "due"
Due == {d \in DOMAIN delivery : IsDue(delivery[d])}

\* An UPDATE leaves out the columns whose new value is the one that was read.
Changed(read, new, current) == IF new = read THEN current ELSE new

Go(w, pc) == task' = [task EXCEPT ![w].pc = pc]

\* A commit expires what the session has read.
Committed(w, pc) ==
    task' = [task EXCEPT ![w] = [Idle EXCEPT !.pc = pc, !.todo = task[w].todo,
                                             !.d = task[w].d]]
Ends(w) == task' = [task EXCEPT ![w] = Idle]

\* The attempt on a delivery is over: its commit expired what the session read.
NextDelivery(w) ==
    LET left == task[w].todo IN
    task' = [task EXCEPT ![w] = IF left = {} THEN Idle
                                ELSE [Idle EXCEPT !.pc = "draining", !.todo = left]]

\* An exception that nothing in outbound_service catches.  A request answers
\* it with an error; a drain it leaves is over.
Raises(w) == IF w \in Schedulers THEN task' = [task EXCEPT ![w] = [Idle EXCEPT !.pc = "raised"]]
             ELSE Ends(w)

-----------------------------------------------------------------------------
(***************************************************************************)
(* Administrators.                                                         *)
(***************************************************************************)
Create(e) ==
    /\ e \in unused \cap Endpoints
    /\ endpoint' = With(endpoint, e, NewEndpoint)
    /\ unused' = unused \ {e}
    /\ UNCHANGED <<delivery, posts, task, toggles, crashes>>

\* Mutant: the deliveries are left behind.
DeleteEndpointOnly(e) ==
    /\ Live(e)
    /\ endpoint' = Restrict(endpoint, DOMAIN endpoint \ {e})
    /\ UNCHANGED <<delivery, unused, posts, task, toggles, crashes>>

\* The foreign key cascades.
Delete(e) ==
    /\ Live(e)
    /\ endpoint' = Restrict(endpoint, DOMAIN endpoint \ {e})
    /\ delivery' = Restrict(delivery, {d \in DOMAIN delivery : EndpointOf[d] # e})
    /\ posts' = [d \in Deliveries |-> IF EndpointOf[d] = e THEN 0 ELSE posts[d]]
    /\ UNCHANGED <<unused, task, toggles, crashes>>

BeginToggle(w, e) ==
    /\ task[w].pc = "idle" /\ Live(e) /\ toggles < MaxToggles
    /\ task' = [task EXCEPT ![w] = [Idle EXCEPT !.pc = "toggling", !.e = e,
                                                !.seenE = endpoint[e]]]
    /\ toggles' = toggles + 1
    /\ UNCHANGED <<rows, posts, crashes>>

\* Enabling an endpoint clears its counter.
SaveToggle(w) ==
    LET e == task[w].e
        seen == task[w].seenE
    IN  /\ task[w].pc = "toggling"
        /\ endpoint' =
              IF ~Live(e) THEN endpoint
              ELSE [endpoint EXCEPT ![e] =
                      [active |-> ~seen.active,
                       failures |-> IF seen.active THEN @.failures
                                    ELSE Changed(seen.failures, 0, @.failures)]]
        /\ Ends(w)
        /\ UNCHANGED <<delivery, unused, posts, toggles, crashes>>

-----------------------------------------------------------------------------
(***************************************************************************)
(* The relay and the test button.                                          *)
(***************************************************************************)
\* enqueue_for_event reads the active endpoints that want the event: one new
\* row for each.
Publish(w, new) ==
    /\ task[w].pc = "idle"
    /\ new # {} /\ new \subseteq unused \cap Deliveries
    /\ \A d \in new : EndpointOf[d] \in Active
    /\ \A c, d \in new : EndpointOf[c] = EndpointOf[d] => c = d
    /\ unused' = unused \ new
    /\ task' = [task EXCEPT ![w] = [Idle EXCEPT !.pc = "publishing", !.todo = new]]
    /\ UNCHANGED <<endpoint, delivery, posts, toggles, crashes>>

\* It inserts them one by one, each with a commit; the insert for an endpoint
\* deleted meanwhile fails, and the relay gives up on the others.
Enqueue(w, d) ==
    /\ task[w].pc = "publishing" /\ d \in task[w].todo
    /\ IF Live(EndpointOf[d])
       THEN /\ delivery' = With(delivery, d, NewDelivery)
            /\ task' = [task EXCEPT ![w].pc = "touching", ![w].d = d, ![w].todo = @ \ {d}]
       ELSE Ends(w) /\ UNCHANGED delivery
    /\ UNCHANGED <<endpoint, unused, posts, toggles, crashes>>

\* The save of the endpoint's last_triggered_at fails in the same way.
TouchEndpoint(w) ==
    LET t == task[w] IN
    /\ t.pc = "touching"
    /\ task' = [task EXCEPT ![w] =
                  IF t.todo = {} \/ ~Live(EndpointOf[t.d]) THEN Idle
                  ELSE [Idle EXCEPT !.pc = "publishing", !.todo = t.todo]]
    /\ UNCHANGED <<rows, posts, toggles, crashes>>

\* send_test: the new row is due, and is attempted at once by the request.
SendTest(w, d) ==
    /\ task[w].pc = "idle" /\ d \in unused /\ Live(EndpointOf[d])
    /\ delivery' = With(delivery, d, NewDelivery)
    /\ unused' = unused \ {d}
    /\ task' = [task EXCEPT ![w] = [Idle EXCEPT !.pc = "posting", !.d = d]]
    /\ UNCHANGED <<endpoint, posts, toggles, crashes>>

-----------------------------------------------------------------------------
(***************************************************************************)
(* The drain, and the attempt on one delivery.                             *)
(***************************************************************************)
\* deliver_due reads the due rows.
FindDue(w) ==
    /\ task[w].pc = "idle" /\ Due # {}
    /\ task' = [task EXCEPT ![w] = [Idle EXCEPT !.pc = "draining", !.todo = Due,
                                                !.cache = Restrict(delivery, Due)]]
    /\ UNCHANGED <<rows, posts, toggles, crashes>>

\* The next of them, as it was read or, after a commit, as it is by now,
\* whether still due or not.  One of a deleted endpoint is skipped, but
\* reading it anew raises (ObjectDeletedError).
Take(w, d) ==
    LET t == task[w]
        seen == IF d \in DOMAIN t.cache THEN t.cache[d] ELSE delivery[d]
        left == t.todo \ {d}
    IN  /\ t.pc = "draining" /\ d \in t.todo
        /\ IF Live(EndpointOf[d])
           THEN task' = [task EXCEPT ![w] = [Idle EXCEPT !.pc = "posting", !.todo = left,
                                                         !.d = d, !.seen = seen]]
           ELSE IF d \notin DOMAIN t.cache
           THEN Raises(w)
           ELSE task' = [task EXCEPT ![w] = IF left = {} THEN Idle ELSE [t EXCEPT !.todo = left]]
        /\ UNCHANGED <<rows, posts, toggles, crashes>>

Exists(w) == task[w].d \in DOMAIN delivery

\* The HTTP request: answered with 2xx, or not.
Post(w) ==
    LET d == task[w].d IN
    /\ task[w].pc = "posting"
    /\ posts' = [posts EXCEPT ![d] = IF Exists(w) /\ @ < MaxAttempts THEN @ + 1 ELSE @]
    /\ Go(w, "delivered") \/ Go(w, "refused")
    /\ UNCHANGED <<rows, toggles, crashes>>

\* The row saved after an attempt: its status and next_attempt_at, and one
\* attempt more than were read.
Saved(w, status, next) ==
    LET seen == task[w].seen
        row == delivery[task[w].d]
    IN  [status |-> Changed(seen.status, status, row.status),
         attempts |-> seen.attempts + 1,
         next |-> IF next = "never" THEN Changed(seen.next, next, row.next) ELSE next]

SaveAttempt(w, status, next) ==
    delivery' = [delivery EXCEPT ![task[w].d] = Saved(w, status, next)]


\* Mutant: the attempt that was just made is counted twice.
ExhaustedEarly(w) == task[w].seen.attempts + 2 >= MaxAttempts

\* The attempt that was just made was the last.
Exhausted(w) == task[w].seen.attempts + 1 >= MaxAttempts

RecordSuccess(w) ==
    /\ task[w].pc = "delivered" /\ Exists(w)
    /\ SaveAttempt(w, "success", "never")
    /\ Committed(w, "clearing")
    /\ UNCHANGED <<endpoint, unused, posts, toggles, crashes>>

\* Mutant: next_attempt_at is reset and not set again.
RetryNever(w) ==
    /\ task[w].pc = "refused" /\ Exists(w) /\ ~Exhausted(w)
    /\ SaveAttempt(w, "pending", "never")
    /\ NextDelivery(w)
    /\ UNCHANGED <<endpoint, unused, posts, toggles, crashes>>

\* Mutant: every failed attempt is counted against the endpoint.
RetryCounts(w) ==
    /\ task[w].pc = "refused" /\ Exists(w) /\ ~Exhausted(w)
    /\ SaveAttempt(w, "pending", "later")
    /\ Committed(w, "counting")
    /\ UNCHANGED <<endpoint, unused, posts, toggles, crashes>>

RecordRetry(w) ==
    /\ task[w].pc = "refused" /\ Exists(w) /\ ~Exhausted(w)
    /\ SaveAttempt(w, "pending", "later")
    /\ NextDelivery(w)
    /\ UNCHANGED <<endpoint, unused, posts, toggles, crashes>>

RecordFailure(w) ==
    /\ task[w].pc = "refused" /\ Exists(w) /\ Exhausted(w)
    /\ SaveAttempt(w, "failed", "never")
    /\ Committed(w, "counting")
    /\ UNCHANGED <<endpoint, unused, posts, toggles, crashes>>

\* The endpoint is a transaction of its own: its counter is set to zero ...
ClearCounter(w) ==
    LET e == EndpointOf[task[w].d] IN
    /\ task[w].pc = "clearing" /\ Live(e)
    /\ endpoint' = [endpoint EXCEPT ![e].failures = 0]
    /\ NextDelivery(w)
    /\ UNCHANGED <<delivery, unused, posts, toggles, crashes>>

\* ... or read ...
ReadCounter(w) ==
    LET e == EndpointOf[task[w].d] IN
    /\ task[w].pc = "counting" /\ Live(e)
    /\ task' = [task EXCEPT ![w].pc = "disabling", ![w].seenE = endpoint[e]]
    /\ UNCHANGED <<rows, posts, toggles, crashes>>

\* ... and saved one higher, with the endpoint disabled at the threshold.
SaveCounter(w) ==
    LET e == EndpointOf[task[w].d]
        seen == task[w].seenE
        count == seen.failures + 1
    IN  /\ task[w].pc = "disabling" /\ Live(e)
        /\ endpoint' = [endpoint EXCEPT ![e] =
              [active |-> IF count >= Threshold THEN Changed(seen.active, FALSE, @.active)
                          ELSE @.active,
               failures |-> count]]
        /\ NextDelivery(w)
        /\ UNCHANGED <<delivery, unused, posts, toggles, crashes>>

\* The row to save, or to read, was deleted with its endpoint: the save finds
\* no row (StaleDataError), the read no object.
RowIsGone(w) ==
    /\ task[w].pc \in {"delivered", "refused", "clearing", "counting", "disabling"}
    /\ ~Exists(w)
    /\ Raises(w)
    /\ UNCHANGED <<rows, posts, toggles, crashes>>

\* The scheduler logs what its job raised, and runs it again.
JobFailed(w) ==
    /\ task[w].pc = "raised"
    /\ Ends(w)
    /\ UNCHANGED <<rows, posts, toggles, crashes>>

BackoffElapses(d) ==
    /\ d \in DOMAIN delivery /\ delivery[d].next = "later"
    /\ delivery' = [delivery EXCEPT ![d].next = "due"]
    /\ UNCHANGED <<endpoint, unused, posts, task, toggles, crashes>>

Crash(w) ==
    /\ task[w].pc # "idle" /\ crashes < MaxCrashes
    /\ Ends(w)
    /\ crashes' = crashes + 1
    /\ UNCHANGED <<rows, posts, toggles>>

-----------------------------------------------------------------------------
Request(w) ==
    \/ \E e \in Endpoints : BeginToggle(w, e)
    \/ \E new \in SUBSET Deliveries : Publish(w, new)
    \/ \E d \in Deliveries : SendTest(w, d)

\* What a worker does by itself once it has begun.
Proceed(w) ==
    \/ SaveToggle(w)
    \/ \E d \in Deliveries : Enqueue(w, d) \/ Take(w, d)
    \/ TouchEndpoint(w)
    \/ Post(w)
    \/ RecordSuccess(w) \/ RecordRetry(w) \/ RecordFailure(w)
    \/ ClearCounter(w) \/ ReadCounter(w) \/ SaveCounter(w)
    \/ RowIsGone(w) \/ JobFailed(w)

\* A drain that finds nothing due.
NothingDue == Due = {} /\ UNCHANGED vars

Next == \/ \E e \in Endpoints : Create(e) \/ Delete(e)
        \/ \E w \in Requests : Request(w)
        \/ \E w \in Schedulers : FindDue(w)
        \/ \E w \in Workers : Proceed(w) \/ Crash(w)
        \/ \E d \in Deliveries : BackoffElapses(d)
        \/ NothingDue

Spec == Init /\ [][Next]_vars

\* The scheduler runs its job at an interval, every HTTP request has a timeout,
\* and time passes.
FairSpec ==
    /\ Spec
    /\ \A w \in Schedulers : WF_vars(FindDue(w))
    /\ \A w \in Workers : WF_vars(Proceed(w))
    /\ \A d \in Deliveries : WF_vars(BackoffElapses(d))

-----------------------------------------------------------------------------
EndpointRow == [active : BOOLEAN, failures : Nat]
DeliveryRow == [status : {"pending", "success", "failed"}, attempts : Nat,
                next : {"due", "later", "never"}]
Steps == {"idle", "toggling", "publishing", "touching", "draining", "posting",
          "delivered", "refused", "clearing", "counting", "disabling", "raised"}

\* Type of every variable; a delivery row has its endpoint's row.
TypeOK ==
    /\ DOMAIN endpoint \subseteq Endpoints
    /\ \A e \in DOMAIN endpoint : endpoint[e] \in EndpointRow
    /\ DOMAIN delivery \subseteq {d \in Deliveries : Live(EndpointOf[d])}
    /\ \A d \in DOMAIN delivery : delivery[d] \in DeliveryRow
    /\ unused \subseteq (Endpoints \cup Deliveries) \ (DOMAIN endpoint \cup DOMAIN delivery)
    /\ posts \in [Deliveries -> 0 .. MaxAttempts]
    /\ DOMAIN task = Workers
    /\ \A w \in Workers : LET t == task[w] IN
          /\ t.pc \in Steps
          /\ t.todo \subseteq Deliveries
          /\ \A d \in DOMAIN t.cache : d \in Deliveries /\ t.cache[d] \in DeliveryRow
          /\ t.d \in Deliveries \cup {None} /\ t.e \in Endpoints \cup {None}
          /\ t.seen \in DeliveryRow /\ t.seenE \in EndpointRow
    /\ toggles \in Nat /\ crashes \in Nat

\* No delivery is given up before it was posted max_attempts times, though two
\* drains may count the same attempt, or write over each other's count.
FailedAfterAllAttempts ==
    \A d \in DOMAIN delivery : delivery[d].status = "failed" => posts[d] = MaxAttempts

\* An endpoint no administrator touched is disabled only after a delivery to it
\* was posted max_attempts times.
DisabledAfterAllAttempts ==
    toggles = 0 =>
        \A e \in DOMAIN endpoint : ~endpoint[e].active =>
            \E d \in Deliveries : EndpointOf[d] = e /\ posts[d] = MaxAttempts

\* Neither a delivery nor an endpoint is given up before a delivery was posted
\* max_attempts times, whatever the drains overwrite and whichever dies.
GivenUpAfterAllAttempts == FailedAfterAllAttempts /\ DisabledAfterAllAttempts

\* Every pending delivery is a success or a failure in the end, or deleted,
\* whatever the drains overwrite and whichever process dies.
EveryDeliverySettles ==
    \A d \in Deliveries :
        d \in DOMAIN delivery ~> (d \notin DOMAIN delivery \/ delivery[d].status # "pending")
=============================================================================
