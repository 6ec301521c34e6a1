----------------------- MODULE OutboundWebhooksProofs -----------------------
(***************************************************************************)
(* Theorems about OutboundWebhooks, for any schedulers, requests,          *)
(* endpoints, deliveries and thresholds.                                   *)
(***************************************************************************)
EXTENDS OutboundWebhooks, TLAPS

Attempting == {"posting", "delivered", "refused", "clearing", "counting", "disabling"}

\* The rows a worker is going to insert, and those it has seen or inserted.
Reserved(w) == IF task[w].pc \in {"publishing", "touching"} THEN task[w].todo ELSE {}
Handled(w) == (IF task[w].pc \in {"publishing", "touching"} THEN {} ELSE task[w].todo)
              \cup DOMAIN task[w].cache \cup ({task[w].d} \ {None})

RowsTyped ==
    /\ endpoint \in [DOMAIN endpoint -> EndpointRow]
    /\ DOMAIN endpoint \subseteq Endpoints
    /\ delivery \in [DOMAIN delivery -> DeliveryRow]
    /\ DOMAIN delivery \subseteq Deliveries
    /\ \A d \in DOMAIN delivery : Live(EndpointOf[d])
    /\ unused \subseteq (Endpoints \cup Deliveries) \ (DOMAIN endpoint \cup DOMAIN delivery)
    /\ posts \in [Deliveries -> 0 .. MaxAttempts]
    /\ toggles \in Nat /\ crashes \in Nat

Caches == UNION {[D -> DeliveryRow] : D \in SUBSET Deliveries}

TaskRow == [pc : Steps, todo : SUBSET Deliveries, cache : Caches, d : Deliveries \cup {None},
            seen : DeliveryRow, e : Endpoints \cup {None}, seenE : EndpointRow]

TaskTyped(t) ==
    /\ t \in TaskRow
    /\ t.pc \in Attempting \cup {"touching"} => t.d \in Deliveries

TasksTyped ==
    /\ task \in [Workers -> TaskRow]
    /\ \A w \in Workers : TaskTyped(task[w])

Typed == RowsTyped /\ TasksTyped

\* There were as many posts of d as n attempts need, or as many as are counted.
Covered(d, n) == n <= posts[d] \/ posts[d] = MaxAttempts

CoveredNext(d, n) == n <= posts'[d] \/ posts'[d] = MaxAttempts

RowsCovered ==
    \A d \in DOMAIN delivery :
        /\ Covered(d, delivery[d].attempts)
        /\ delivery[d].status = "failed" => posts[d] = MaxAttempts

\* What a worker has read of a row that is still there was posted as often as
\* it says, and once more when the worker is about to save it.
WorkerOK(w) ==
    /\ \A d \in Handled(w) :
          /\ d \notin unused /\ EndpointOf[d] \notin unused
          /\ Live(EndpointOf[d]) => d \in DOMAIN delivery
    /\ \A d \in Reserved(w) : d \notin unused /\ d \notin DOMAIN delivery
    /\ \A d \in DOMAIN task[w].cache \cap DOMAIN delivery : Covered(d, task[w].cache[d].attempts)
    /\ task[w].pc = "posting" /\ Exists(w) => Covered(task[w].d, task[w].seen.attempts)
    /\ task[w].pc \in {"delivered", "refused"} /\ Exists(w)
          => Covered(task[w].d, task[w].seen.attempts + 1)
    /\ task[w].pc \in {"counting", "disabling"} /\ Exists(w) => posts[task[w].d] = MaxAttempts
    /\ task[w].pc = "toggling" => toggles > 0

\* A row that one worker is going to insert is unknown to the others.
Apart ==
    \A v, w \in Workers :
        /\ Reserved(v) \cap Handled(w) = {}
        /\ v # w => Reserved(v) \cap Reserved(w) = {}

Inv == /\ Typed
       /\ RowsCovered
       /\ \A w \in Workers : WorkerOK(w)
       /\ Apart
       /\ DisabledAfterAllAttempts

-----------------------------------------------------------------------------
\* What a worker relies on when others move: rows are not inserted but from ids
\* that were set aside for it, and posts of a row that is there are not undone.
RowsAdvance ==
    /\ unused' \subseteq unused
    /\ DOMAIN endpoint' \subseteq DOMAIN endpoint \cup unused
    /\ \A d \in DOMAIN delivery : d \in DOMAIN delivery' \/ ~Live(EndpointOf[d])'
    /\ \A d \in DOMAIN delivery' : posts'[d] >= posts[d]
    /\ toggles' >= toggles

LEMMA CachesAre ==
    ASSUME NEW c \in Caches
    PROVE  c \in [DOMAIN c -> DeliveryRow] /\ DOMAIN c \subseteq Deliveries
BY DEF Caches

LEMMA TaskFields ==
    ASSUME TasksTyped, NEW w \in Workers
    PROVE  /\ task[w].todo \subseteq Deliveries
           /\ task[w].cache \in [DOMAIN task[w].cache -> DeliveryRow]
           /\ DOMAIN task[w].cache \subseteq Deliveries
           /\ task[w].d \in Deliveries \cup {None}
           /\ task[w].pc \in Attempting \cup {"touching"} => task[w].d \in Deliveries
           /\ task[w].seen \in DeliveryRow /\ task[w].seen.attempts \in Nat
           /\ task[w].seenE \in EndpointRow /\ task[w].seenE.failures \in Nat
           /\ \A d \in DOMAIN task[w].cache : task[w].cache[d].attempts \in Nat
<1>1. task[w].cache \in Caches
    BY DEF TasksTyped, TaskRow
<1>2. /\ task[w].cache \in [DOMAIN task[w].cache -> DeliveryRow]
      /\ DOMAIN task[w].cache \subseteq Deliveries
    BY <1>1, CachesAre
<1>3. task[w].seen \in DeliveryRow /\ task[w].seenE \in EndpointRow
    BY DEF TasksTyped, TaskRow
<1> QED BY <1>2, <1>3 DEF TasksTyped, TaskTyped, TaskRow, DeliveryRow, EndpointRow

LEMMA CoverGrows ==
    ASSUME RowsTyped, RowsTyped', NEW d \in Deliveries, NEW n \in Nat,
           Covered(d, n), posts'[d] >= posts[d]
    PROVE  n <= posts'[d] \/ posts'[d] = MaxAttempts
<1>1. posts[d] \in 0 .. MaxAttempts /\ posts'[d] \in 0 .. MaxAttempts
    BY DEF RowsTyped
<1> QED BY <1>1, WebhookConstants DEF Covered

\* A worker that does not move stays in order.
LEMMA Bystander ==
    ASSUME Typed, Typed', RowsAdvance, NEW v \in Workers, WorkerOK(v), task'[v] = task[v],
           DOMAIN delivery' \cap (Reserved(v) \cup Handled(v)) \subseteq DOMAIN delivery
    PROVE  WorkerOK(v)'
<1> USE DEF Typed
<1>1. /\ Handled(v)' = Handled(v) /\ Reserved(v)' = Reserved(v)
      /\ Handled(v) \subseteq Deliveries
      /\ DOMAIN task[v].cache \subseteq Handled(v)
    BY TaskFields DEF Handled, Reserved
<1>2. ASSUME NEW d \in Handled(v)
      PROVE  /\ d \notin unused' /\ EndpointOf[d] \notin unused'
             /\ Live(EndpointOf[d])' => d \in DOMAIN delivery'
    BY DEF WorkerOK, RowsAdvance, Live
<1>3. \A d \in Reserved(v) : d \notin unused' /\ d \notin DOMAIN delivery'
    BY DEF WorkerOK, RowsAdvance
<1>4. \A d \in Handled(v) : d \in DOMAIN delivery' => d \in DOMAIN delivery /\ posts'[d] >= posts[d]
    BY DEF RowsAdvance
<1>5. ASSUME NEW d \in Handled(v), d \in DOMAIN delivery', NEW n \in Nat, Covered(d, n)
      PROVE  n <= posts'[d] \/ posts'[d] = MaxAttempts
    BY <1>1, <1>4, <1>5, CoverGrows
<1>6. ASSUME NEW d \in DOMAIN task[v].cache, d \in DOMAIN delivery'
      PROVE  Covered(d, task[v].cache[d].attempts)'
  <2>1. task[v].cache[d].attempts \in Nat
    BY TaskFields
  <2>2. Covered(d, task[v].cache[d].attempts)
    BY <1>1, <1>4, <1>6 DEF WorkerOK
  <2> QED BY <1>1, <1>5, <1>6, <2>1, <2>2 DEF Covered
<1>7. ASSUME task[v].pc \in Attempting, Exists(v)'
      PROVE  task[v].d \in Handled(v) /\ Exists(v)
  <2>1. task[v].d \in Handled(v)
    BY <1>7, TaskFields, WebhookConstants DEF Handled
  <2> QED BY <1>4, <1>7, <2>1 DEF Exists
<1>8. task[v].pc = "posting" /\ Exists(v)' => Covered(task[v].d, task[v].seen.attempts)'
  <2> SUFFICES ASSUME task[v].pc = "posting", Exists(v)'
               PROVE  Covered(task[v].d, task[v].seen.attempts)'
    OBVIOUS
  <2>1. task[v].seen.attempts \in Nat
    BY TaskFields
  <2> QED BY <1>5, <1>7, <2>1 DEF WorkerOK, Covered, Attempting, Exists
<1>9. task[v].pc \in {"delivered", "refused"} /\ Exists(v)'
         => Covered(task[v].d, task[v].seen.attempts + 1)'
  <2> SUFFICES ASSUME task[v].pc \in {"delivered", "refused"}, Exists(v)'
               PROVE  Covered(task[v].d, task[v].seen.attempts + 1)'
    OBVIOUS
  <2>1. task[v].seen.attempts + 1 \in Nat
    BY TaskFields
  <2> QED BY <1>5, <1>7, <2>1 DEF WorkerOK, Covered, Attempting, Exists
<1>10. task[v].pc \in {"counting", "disabling"} /\ Exists(v)' => posts'[task[v].d] = MaxAttempts
  <2> SUFFICES ASSUME task[v].pc \in {"counting", "disabling"}, Exists(v)'
               PROVE  posts'[task[v].d] = MaxAttempts
    OBVIOUS
  <2>1. /\ posts[task[v].d] = MaxAttempts /\ posts'[task[v].d] >= posts[task[v].d]
        /\ task[v].d \in Deliveries
    BY <1>1, <1>4, <1>7 DEF WorkerOK, Attempting, Exists
  <2>2. posts'[task[v].d] \in 0 .. MaxAttempts
    BY <2>1 DEF RowsTyped
  <2> QED BY <2>1, <2>2, WebhookConstants
<1>11. task[v].pc = "toggling" => toggles' > 0
    BY DEF WorkerOK, RowsAdvance, RowsTyped
<1> QED BY <1>1, <1>2, <1>3, <1>6, <1>8, <1>9, <1>10, <1>11 DEF WorkerOK

\* A worker moves: it sets aside unused ids, and learns of rows there are.
LEMMA OneMoves ==
    ASSUME Inv, Typed', RowsAdvance, NEW w \in Workers, WorkerOK(w)',
           \A v \in Workers \ {w} : task'[v] = task[v],
           DOMAIN delivery' \subseteq DOMAIN delivery \cup unused \cup Reserved(w),
           Reserved(w)' \subseteq Reserved(w) \cup unused,
           Handled(w)' \subseteq Handled(w) \cup Reserved(w) \cup DOMAIN delivery \cup unused,
           Reserved(w)' \cap Handled(w)' = {}
    PROVE  (\A v \in Workers : WorkerOK(v)') /\ Apart'
<1>1. \A v \in Workers \ {w} : Reserved(v)' = Reserved(v) /\ Handled(v)' = Handled(v)
    BY DEF Reserved, Handled
<1>2. ASSUME NEW v \in Workers \ {w} PROVE WorkerOK(v)'
  <2>1. (unused \cup Reserved(w)) \cap (Reserved(v) \cup Handled(v)) = {}
    BY DEF Inv, WorkerOK, Apart
  <2> QED BY <2>1, Bystander DEF Inv
<1>3. Apart'
  <2>1. \A v \in Workers : unused \cap (Reserved(v) \cup Handled(v)) = {} /\ Reserved(v) \cap DOMAIN delivery = {}
    BY DEF Inv, WorkerOK
  <2> QED BY <1>1, <2>1 DEF Inv, Apart
<1> QED BY <1>2, <1>3

LEMMA NobodyMoves ==
    ASSUME Inv, Typed', RowsAdvance, task' = task, DOMAIN delivery' \subseteq DOMAIN delivery
    PROVE  (\A v \in Workers : WorkerOK(v)') /\ Apart'
<1>1. \A v \in Workers : WorkerOK(v)'
    BY Bystander DEF Inv
<1>2. Apart'
    BY DEF Inv, Apart, Reserved, Handled
<1> QED BY <1>1, <1>2

\* Only tasks change.
LEMMA RowsStay ==
    ASSUME Inv, UNCHANGED <<rows, posts>>, toggles' >= toggles, toggles' \in Nat, crashes' \in Nat
    PROVE  RowsTyped' /\ RowsCovered' /\ RowsAdvance /\ DisabledAfterAllAttempts'
<1> USE DEF rows
<1>1. RowsTyped'
    BY DEF Inv, Typed, RowsTyped, Live
<1>2. RowsCovered'
    BY DEF Inv, RowsCovered, Covered
<1>3. RowsAdvance
  <2>1. \A d \in DOMAIN delivery : posts[d] \in 0 .. MaxAttempts
    BY DEF Inv, Typed, RowsTyped
  <2> QED BY <2>1, WebhookConstants DEF RowsAdvance
<1>4. DisabledAfterAllAttempts'
    BY DEF Inv, Typed, RowsTyped, DisabledAfterAllAttempts
<1> QED BY <1>1, <1>2, <1>3, <1>4

\* A worker that becomes t.
LEMMA TasksStayTyped ==
    ASSUME TasksTyped, NEW w \in Workers, NEW t, TaskTyped(t), task' = [task EXCEPT ![w] = t]
    PROVE  TasksTyped' /\ task'[w] = t /\ \A v \in Workers \ {w} : task'[v] = task[v]
BY DEF TasksTyped, TaskTyped

LEMMA NewRowsTyped == NewDelivery \in DeliveryRow /\ NewEndpoint \in EndpointRow
BY DEF NewDelivery, NewEndpoint, DeliveryRow, EndpointRow

LEMMA IdleTyped ==
    /\ Idle \in TaskRow /\ TaskTyped(Idle)
    /\ Idle.pc = "idle" /\ Idle.d = None /\ Idle.todo = {} /\ DOMAIN Idle.cache = {}
    /\ Idle.seen.attempts = 0
<1>1. Empty \in Caches /\ DOMAIN Empty = {}
    BY DEF Caches, Empty
<1> QED BY <1>1, NewRowsTyped DEF Idle, TaskTyped, TaskRow, Steps, Attempting, NewDelivery

\* Ending is always in order.
LEMMA EndsInOrder ==
    ASSUME Inv, NEW w \in Workers, NEW t, t \in {Idle, [Idle EXCEPT !.pc = "raised"]},
           task' = [task EXCEPT ![w] = t], UNCHANGED <<rows, posts>>,
           toggles' = toggles, crashes' \in Nat
    PROVE  Inv'
<1>1. toggles \in Nat
    BY DEF Inv, Typed, RowsTyped
<1>2. RowsTyped' /\ RowsCovered' /\ RowsAdvance /\ DisabledAfterAllAttempts'
    BY <1>1, RowsStay
<1>3. TaskTyped(t) /\ DOMAIN t.cache = {} /\ t.todo = {} /\ t.d = None /\ t.pc \in {"idle", "raised"}
    BY IdleTyped DEF TaskTyped, TaskRow, Steps, Attempting
<1>4. TasksTyped' /\ task'[w] = t /\ \A v \in Workers \ {w} : task'[v] = task[v]
    BY <1>3, TasksStayTyped DEF Inv, Typed
<1>5. Handled(w)' = {} /\ Reserved(w)' = {}
    BY <1>3, <1>4 DEF Handled, Reserved
<1>6. WorkerOK(w)'
    BY <1>3, <1>4, <1>5 DEF WorkerOK
<1> QED BY <1>2, <1>4, <1>5, <1>6, OneMoves DEF Inv, Typed, rows

-----------------------------------------------------------------------------
\* Administrators.
LEMMA CreateKeeps == ASSUME Inv, NEW e \in Endpoints, Create(e) PROVE Inv'
<1>1. e \in unused /\ ~Live(e) /\ e \notin Deliveries
    BY WebhookConstants DEF Create, Inv, Typed, RowsTyped, Live
<1>2. /\ endpoint' \in [DOMAIN endpoint' -> EndpointRow] /\ DOMAIN endpoint' = DOMAIN endpoint \cup {e}
      /\ \A f \in DOMAIN endpoint : endpoint'[f] = endpoint[f]
      /\ endpoint'[e].active
    BY <1>1 DEF Create, With, NewEndpoint, EndpointRow, Inv, Typed, RowsTyped, Live
<1>3. RowsTyped'
    BY <1>1, <1>2 DEF Create, Inv, Typed, RowsTyped, Live
<1>4. Typed'
    BY <1>3 DEF Create, Inv, Typed, TasksTyped
<1>5. RowsAdvance
  <2>1. \A d \in DOMAIN delivery : posts[d] \in 0 .. MaxAttempts
    BY DEF Inv, Typed, RowsTyped
  <2> QED BY <1>1, <1>2, <2>1, WebhookConstants DEF Create, RowsAdvance, Inv, Typed, RowsTyped
<1>6. RowsCovered'
    BY DEF Create, Inv, RowsCovered, Covered
<1>7. DisabledAfterAllAttempts'
    BY <1>1, <1>2 DEF Create, Inv, DisabledAfterAllAttempts
<1> QED BY <1>4, <1>5, <1>6, <1>7, NobodyMoves DEF Create, Inv

LEMMA DeleteKeeps == ASSUME Inv, NEW e \in Endpoints, Delete(e) PROVE Inv'
<1>1. /\ endpoint' \in [DOMAIN endpoint' -> EndpointRow] /\ DOMAIN endpoint' = DOMAIN endpoint \ {e}
      /\ \A f \in DOMAIN endpoint' : endpoint'[f] = endpoint[f]
    BY DEF Delete, Restrict, Inv, Typed, RowsTyped
<1>2. /\ delivery' \in [DOMAIN delivery' -> DeliveryRow]
      /\ DOMAIN delivery' = {d \in DOMAIN delivery : EndpointOf[d] # e}
      /\ \A d \in DOMAIN delivery' : delivery'[d] = delivery[d]
    BY DEF Delete, Restrict, Inv, Typed, RowsTyped
<1>3. /\ posts' \in [Deliveries -> 0 .. MaxAttempts]
      /\ \A d \in Deliveries : EndpointOf[d] # e => posts'[d] = posts[d]
    BY WebhookConstants DEF Delete, Inv, Typed, RowsTyped
<1>4. Typed'
    BY <1>1, <1>2, <1>3 DEF Delete, Inv, Typed, RowsTyped, TasksTyped, Live
<1>5. RowsAdvance
  <2>1. \A d \in DOMAIN delivery' : posts[d] \in 0 .. MaxAttempts /\ posts'[d] = posts[d]
    BY <1>2, <1>3 DEF Inv, Typed, RowsTyped
  <2>2. \A d \in DOMAIN delivery' : posts'[d] >= posts[d]
    BY <2>1, WebhookConstants
  <2>3. \A d \in DOMAIN delivery : d \in DOMAIN delivery' \/ ~Live(EndpointOf[d])'
    BY <1>1, <1>2 DEF Live
  <2>4. toggles' >= toggles
    BY DEF Delete, Inv, Typed, RowsTyped
  <2> QED BY <1>1, <2>2, <2>3, <2>4 DEF Delete, RowsAdvance
<1>6. RowsCovered'
    BY <1>2, <1>3 DEF Inv, Typed, RowsTyped, RowsCovered, Covered
<1>7. DisabledAfterAllAttempts'
  <2> SUFFICES ASSUME toggles = 0, NEW f \in DOMAIN endpoint', ~endpoint'[f].active
               PROVE  \E d \in Deliveries : EndpointOf[d] = f /\ posts'[d] = MaxAttempts
    BY DEF Delete, DisabledAfterAllAttempts
  <2>1. f \in DOMAIN endpoint /\ f # e /\ ~endpoint[f].active
    BY <1>1
  <2>2. PICK d \in Deliveries : EndpointOf[d] = f /\ posts[d] = MaxAttempts
    BY <2>1 DEF Inv, DisabledAfterAllAttempts
  <2> QED BY <1>3, <2>1, <2>2
<1> QED BY <1>2, <1>4, <1>5, <1>6, <1>7, NobodyMoves DEF Delete, Inv

LEMMA BackoffKeeps == ASSUME Inv, NEW d \in Deliveries, BackoffElapses(d) PROVE Inv'
<1>1. /\ delivery' \in [DOMAIN delivery' -> DeliveryRow] /\ DOMAIN delivery' = DOMAIN delivery
      /\ \A c \in DOMAIN delivery' : /\ delivery'[c].attempts = delivery[c].attempts
                                    /\ delivery'[c].status = delivery[c].status
    BY DEF BackoffElapses, Inv, Typed, RowsTyped, DeliveryRow
<1>2. Typed'
    BY <1>1 DEF BackoffElapses, Inv, Typed, RowsTyped, TasksTyped, Live
<1>3. RowsAdvance
  <2>1. \A c \in DOMAIN delivery : posts[c] \in 0 .. MaxAttempts
    BY DEF Inv, Typed, RowsTyped
  <2> QED BY <1>1, <2>1, WebhookConstants DEF BackoffElapses, RowsAdvance, Inv, Typed, RowsTyped
<1>4. RowsCovered'
    BY <1>1 DEF BackoffElapses, Inv, RowsCovered, Covered
<1>5. DisabledAfterAllAttempts'
    BY DEF BackoffElapses, Inv, DisabledAfterAllAttempts
<1> QED BY <1>1, <1>2, <1>3, <1>4, <1>5, NobodyMoves DEF BackoffElapses, Inv

\* A task that is set to what a worker is now doing, on rows that stay.
LEMMA TaskBegins ==
    ASSUME Inv, NEW w \in Workers, NEW t, TaskTyped(t), task' = [task EXCEPT ![w] = t],
           UNCHANGED <<rows, posts>>, toggles' >= toggles, toggles' \in Nat, crashes' \in Nat,
           WorkerOK(w)',
           Reserved(w)' \subseteq Reserved(w) \cup unused,
           Handled(w)' \subseteq Handled(w) \cup DOMAIN delivery,
           Reserved(w)' \cap Handled(w)' = {}
    PROVE  Inv'
<1>1. RowsTyped' /\ RowsCovered' /\ RowsAdvance /\ DisabledAfterAllAttempts'
    BY RowsStay
<1>2. TasksTyped' /\ task'[w] = t /\ \A v \in Workers \ {w} : task'[v] = task[v]
    BY TasksStayTyped DEF Inv, Typed
<1> QED BY <1>1, <1>2, OneMoves DEF Inv, Typed, rows

LEMMA BeginToggleKeeps ==
    ASSUME Inv, NEW w \in Workers, NEW e \in Endpoints, BeginToggle(w, e) PROVE Inv'
<1> DEFINE t == [Idle EXCEPT !.pc = "toggling", !.e = e, !.seenE = endpoint[e]]
<1>1. toggles \in Nat /\ crashes \in Nat /\ endpoint[e] \in EndpointRow
    BY DEF BeginToggle, Inv, Typed, RowsTyped, Live
<1>2. TaskTyped(t) /\ t.pc = "toggling" /\ DOMAIN t.cache = {} /\ t.d = None /\ t.todo = {}
    BY <1>1, IdleTyped DEF TaskTyped, TaskRow, Steps, Attempting
<1>3. task' = [task EXCEPT ![w] = t] /\ task'[w] = t
  <2>1. task' = [task EXCEPT ![w] = t]
    BY DEF BeginToggle
  <2> QED BY <1>2, <2>1, TasksStayTyped DEF Inv, Typed
<1>4. Reserved(w)' = {} /\ Handled(w)' = {}
    BY <1>2, <1>3 DEF Reserved, Handled
<1> HIDE DEF t
<1>5. toggles' \in Nat /\ toggles' >= toggles /\ toggles' > 0
    BY <1>1 DEF BeginToggle
<1>6. WorkerOK(w)'
    BY <1>2, <1>3, <1>4, <1>5 DEF WorkerOK
<1> QED BY <1>1, <1>2, <1>3, <1>4, <1>5, <1>6, TaskBegins DEF BeginToggle

LEMMA SaveToggleKeeps == ASSUME Inv, NEW w \in Workers, SaveToggle(w) PROVE Inv'
<1>1. task[w].pc = "toggling" /\ toggles > 0 /\ task' = [task EXCEPT ![w] = Idle]
    BY DEF SaveToggle, Ends, Inv, WorkerOK
<1>2. endpoint' \in [DOMAIN endpoint' -> EndpointRow] /\ DOMAIN endpoint' = DOMAIN endpoint
    BY DEF SaveToggle, Inv, Typed, RowsTyped, TasksTyped, TaskTyped, EndpointRow, Changed, Live
<1>3. TasksTyped' /\ task'[w] = Idle /\ \A v \in Workers \ {w} : task'[v] = task[v]
    BY <1>1, IdleTyped, TasksStayTyped DEF Inv, Typed
<1>4. Typed'
    BY <1>2, <1>3 DEF SaveToggle, Inv, Typed, RowsTyped, Live
<1>5. RowsAdvance
  <2>1. \A c \in DOMAIN delivery : posts[c] \in 0 .. MaxAttempts
    BY DEF Inv, Typed, RowsTyped
  <2> QED BY <1>2, <2>1, WebhookConstants DEF SaveToggle, RowsAdvance, Inv, Typed, RowsTyped
<1>6. RowsCovered' /\ DisabledAfterAllAttempts'
    BY <1>1 DEF SaveToggle, Inv, RowsCovered, Covered, DisabledAfterAllAttempts
<1>7. Handled(w)' = {} /\ Reserved(w)' = {}
    BY <1>3, IdleTyped DEF Handled, Reserved, Idle
<1>8. WorkerOK(w)'
    BY <1>3, <1>7, IdleTyped DEF WorkerOK, Idle
<1> QED BY <1>3, <1>4, <1>5, <1>6, <1>7, <1>8, OneMoves DEF SaveToggle, Inv

-----------------------------------------------------------------------------
\* The relay and the test button.
LEMMA PublishKeeps ==
    ASSUME Inv, NEW w \in Workers, NEW new \in SUBSET Deliveries, Publish(w, new) PROVE Inv'
<1> DEFINE t == [Idle EXCEPT !.pc = "publishing", !.todo = new]
<1>1. TaskTyped(t) /\ t.pc = "publishing" /\ DOMAIN t.cache = {} /\ t.d = None /\ t.todo = new
    BY IdleTyped DEF TaskTyped, TaskRow, Steps, Attempting
<1>2. task' = [task EXCEPT ![w] = t]
    BY DEF Publish
<1> HIDE DEF t
<1>3. TasksTyped' /\ task'[w] = t /\ \A v \in Workers \ {w} : task'[v] = task[v]
    BY <1>1, <1>2, TasksStayTyped DEF Inv, Typed
<1>4. Typed'
    BY <1>3 DEF Publish, Inv, Typed, RowsTyped, Live
<1>5. RowsAdvance
  <2>1. \A d \in DOMAIN delivery : posts[d] \in 0 .. MaxAttempts
    BY DEF Inv, Typed, RowsTyped
  <2> QED BY <2>1, WebhookConstants DEF Publish, RowsAdvance, Inv, Typed, RowsTyped
<1>6. RowsCovered' /\ DisabledAfterAllAttempts'
    BY DEF Publish, Inv, RowsCovered, Covered, DisabledAfterAllAttempts
<1>7. Handled(w)' = {} /\ Reserved(w)' = new
    BY <1>1, <1>3 DEF Handled, Reserved
<1>8. WorkerOK(w)'
    BY <1>1, <1>3, <1>7 DEF WorkerOK, Publish, Inv, Typed, RowsTyped
<1> QED BY <1>3, <1>4, <1>5, <1>6, <1>7, <1>8, OneMoves DEF Publish, Inv

\* A row is inserted for an endpoint that is there.
LEMMA RowIsInserted ==
    ASSUME Inv, NEW d \in Deliveries, d \notin DOMAIN delivery, Live(EndpointOf[d]),
           delivery' = With(delivery, d, NewDelivery), unused' \in SUBSET unused, d \notin unused',
           UNCHANGED <<endpoint, posts, toggles, crashes>>
    PROVE  /\ RowsTyped' /\ RowsAdvance /\ RowsCovered' /\ DisabledAfterAllAttempts'
           /\ DOMAIN delivery' = DOMAIN delivery \cup {d}
<1>1. /\ delivery' \in [DOMAIN delivery' -> DeliveryRow] /\ DOMAIN delivery' = DOMAIN delivery \cup {d}
      /\ \A c \in DOMAIN delivery : delivery'[c] = delivery[c]
      /\ delivery'[d] = NewDelivery
    BY NewRowsTyped DEF With, Inv, Typed, RowsTyped
<1>2. RowsTyped'
    BY <1>1, WebhookConstants DEF Inv, Typed, RowsTyped, Live
<1>3. RowsAdvance
  <2>1. \A c \in DOMAIN delivery' : posts[c] \in 0 .. MaxAttempts
    BY <1>1 DEF Inv, Typed, RowsTyped
  <2> QED BY <1>1, <2>1, WebhookConstants DEF RowsAdvance, Inv, Typed, RowsTyped
<1>4. RowsCovered'
  <2>1. posts[d] \in 0 .. MaxAttempts
    BY DEF Inv, Typed, RowsTyped
  <2> QED BY <1>1, <2>1, WebhookConstants DEF Inv, RowsCovered, Covered, NewDelivery
<1>5. DisabledAfterAllAttempts'
    BY DEF Inv, DisabledAfterAllAttempts
<1> QED BY <1>1, <1>2, <1>3, <1>4, <1>5

LEMMA EnqueueKeeps ==
    ASSUME Inv, NEW w \in Workers, NEW d \in Deliveries, Enqueue(w, d) PROVE Inv'
<1>1. d \in Reserved(w) /\ d \notin unused /\ d \notin DOMAIN delivery
    BY DEF Enqueue, Inv, WorkerOK, Reserved
<1>2. CASE Live(EndpointOf[d])
  <2> DEFINE t == [task[w] EXCEPT !.pc = "touching", !.d = d, !.todo = @ \ {d}]
  <2>1. /\ TaskTyped(t) /\ t.pc = "touching" /\ t.cache = task[w].cache
        /\ t.d = d /\ t.todo = task[w].todo \ {d}
    BY DEF Inv, Typed, TasksTyped, TaskTyped, TaskRow, Steps, Attempting
  <2>2. task' = [task EXCEPT ![w] = t]
    BY <1>2 DEF Enqueue, Inv, Typed, TasksTyped, TaskRow
  <2> HIDE DEF t
  <2>3. TasksTyped' /\ task'[w] = t /\ \A v \in Workers \ {w} : task'[v] = task[v]
    BY <2>1, <2>2, TasksStayTyped DEF Inv, Typed
  <2>4. /\ RowsTyped' /\ RowsAdvance /\ RowsCovered' /\ DisabledAfterAllAttempts'
        /\ DOMAIN delivery' = DOMAIN delivery \cup {d}
    BY <1>1, <1>2, RowIsInserted DEF Enqueue
  <2>5. Handled(w)' \subseteq Handled(w) \cup {d} /\ Reserved(w)' = Reserved(w) \ {d}
    BY <2>1, <2>3, WebhookConstants DEF Handled, Reserved, Enqueue
  <2>6. Reserved(w)' \cap Handled(w)' = {}
    BY <2>5 DEF Inv, Apart
  <2>7. WorkerOK(w)'
    <3>1. ASSUME NEW c \in Handled(w)'
          PROVE  c \notin unused' /\ EndpointOf[c] \notin unused' /\ (Live(EndpointOf[c])' => c \in DOMAIN delivery')
      BY <1>1, <1>2, <2>4, <2>5 DEF Enqueue, Inv, WorkerOK, Live, Typed, RowsTyped
    <3>2. \A c \in Reserved(w)' : c \notin unused' /\ c \notin DOMAIN delivery'
      BY <2>4, <2>5 DEF Enqueue, Inv, WorkerOK
    <3>3. \A c \in DOMAIN task[w].cache : c \in Handled(w)
      BY DEF Handled
    <3>4. \A c \in DOMAIN task[w].cache \cap DOMAIN delivery' : Covered(c, task[w].cache[c].attempts)
      BY <1>1, <2>4, <3>3 DEF Inv, WorkerOK, Apart
    <3>5. posts' = posts /\ task'[w].cache = task[w].cache /\ task'[w].pc = "touching"
      BY <2>1, <2>3 DEF Enqueue
    <3>6. \A c \in DOMAIN task'[w].cache \cap DOMAIN delivery' : Covered(c, task[w].cache[c].attempts)'
      BY <3>4, <3>5 DEF Covered
    <3> QED BY <3>1, <3>2, <3>5, <3>6 DEF WorkerOK
  <2> QED BY <1>1, <2>3, <2>4, <2>5, <2>6, <2>7, OneMoves DEF Enqueue, Inv, Typed
<1>3. CASE ~Live(EndpointOf[d])
  <2>1. /\ task' = [task EXCEPT ![w] = Idle] /\ UNCHANGED <<rows, posts>>
        /\ toggles' = toggles /\ crashes' \in Nat
    BY <1>3 DEF Enqueue, Ends, Inv, Typed, RowsTyped, rows
  <2> QED BY <2>1, EndsInOrder
<1> QED BY <1>2, <1>3

LEMMA TouchEndpointKeeps == ASSUME Inv, NEW w \in Workers, TouchEndpoint(w) PROVE Inv'
<1>0. toggles \in Nat /\ crashes \in Nat
    BY DEF Inv, Typed, RowsTyped
<1>1. CASE task' = [task EXCEPT ![w] = Idle]
    BY <1>0, <1>1, EndsInOrder DEF TouchEndpoint
<1>2. CASE task' = [task EXCEPT ![w] = [Idle EXCEPT !.pc = "publishing", !.todo = task[w].todo]]
  <2> DEFINE t == [Idle EXCEPT !.pc = "publishing", !.todo = task[w].todo]
  <2>1. /\ TaskTyped(t) /\ t.pc = "publishing" /\ DOMAIN t.cache = {}
        /\ t.d = None /\ t.todo = task[w].todo
    BY TaskFields, IdleTyped DEF TaskTyped, TaskRow, Steps, Attempting, Inv, Typed
  <2> HIDE DEF t
  <2>2. task' = [task EXCEPT ![w] = t] /\ task'[w] = t
    BY <1>2, <2>1, TasksStayTyped DEF t, Inv, Typed
  <2>3. Handled(w)' = {} /\ Reserved(w)' = Reserved(w)
    BY <2>1, <2>2 DEF Handled, Reserved, TouchEndpoint
  <2>4. WorkerOK(w)'
    BY <2>1, <2>2, <2>3 DEF Inv, WorkerOK, TouchEndpoint, rows
  <2> QED BY <1>0, <2>1, <2>2, <2>3, <2>4, TaskBegins DEF TouchEndpoint
<1> QED BY <1>1, <1>2 DEF TouchEndpoint

LEMMA SendTestKeeps ==
    ASSUME Inv, NEW w \in Workers, NEW d \in Deliveries, SendTest(w, d) PROVE Inv'
<1> DEFINE t == [Idle EXCEPT !.pc = "posting", !.d = d]
<1>1. /\ TaskTyped(t) /\ t.pc = "posting" /\ DOMAIN t.cache = {} /\ t.d = d /\ t.todo = {}
      /\ t.seen.attempts = 0
    BY IdleTyped DEF TaskTyped, TaskRow, Steps, Attempting
<1>2. task' = [task EXCEPT ![w] = t]
    BY DEF SendTest
<1> HIDE DEF t
<1>3. TasksTyped' /\ task'[w] = t /\ \A v \in Workers \ {w} : task'[v] = task[v]
    BY <1>1, <1>2, TasksStayTyped DEF Inv, Typed
<1>4. d \in unused /\ d \notin DOMAIN delivery /\ Live(EndpointOf[d])
    BY DEF SendTest, Inv, Typed, RowsTyped
<1>5. /\ RowsTyped' /\ RowsAdvance /\ RowsCovered' /\ DisabledAfterAllAttempts'
      /\ DOMAIN delivery' = DOMAIN delivery \cup {d}
    BY <1>4, RowIsInserted DEF SendTest
<1>6. Handled(w)' = {d} /\ Reserved(w)' = {}
    BY <1>1, <1>3, WebhookConstants DEF Handled, Reserved
<1>7. WorkerOK(w)'
  <2>1. posts[d] \in 0 .. MaxAttempts
    BY DEF Inv, Typed, RowsTyped
  <2>2. Covered(d, 0)'
    BY <2>1, WebhookConstants DEF SendTest, Covered
  <2>3. EndpointOf[d] \notin unused
    BY <1>4 DEF Inv, Typed, RowsTyped, Live
  <2> QED BY <1>1, <1>3, <1>4, <1>5, <1>6, <2>2, <2>3 DEF SendTest, WorkerOK, Covered
<1> QED BY <1>3, <1>4, <1>5, <1>6, <1>7, OneMoves DEF Inv, Typed

-----------------------------------------------------------------------------
\* The drain.  What a worker handles by now it handled before, or is there.
LEMMA HandledStays ==
    ASSUME Inv, Typed', RowsAdvance, NEW w \in Workers,
           Handled(w)' \subseteq Handled(w) \cup DOMAIN delivery
    PROVE  \A d \in Handled(w)' :
              /\ d \notin unused' /\ EndpointOf[d] \notin unused'
              /\ Live(EndpointOf[d])' => d \in DOMAIN delivery'
<1>1. ASSUME NEW d \in DOMAIN delivery
      PROVE  d \notin unused /\ EndpointOf[d] \notin unused
    BY DEF Inv, Typed, RowsTyped, Live
<1>2. ASSUME NEW d \in Handled(w)
      PROVE  /\ d \notin unused /\ EndpointOf[d] \notin unused
             /\ Live(EndpointOf[d]) => d \in DOMAIN delivery
    BY DEF Inv, WorkerOK
<1> QED BY <1>1, <1>2 DEF RowsAdvance, Live

\* A worker that has committed, or skipped a row, holds no claims but these.
LEMMA TaskGoesOn ==
    ASSUME Inv, NEW w \in Workers, NEW t, TaskTyped(t), task' = [task EXCEPT ![w] = t],
           RowsTyped', RowsCovered', RowsAdvance, DisabledAfterAllAttempts',
           DOMAIN delivery' = DOMAIN delivery,
           t.pc \notin {"publishing", "touching", "toggling"},
           t.todo \cup DOMAIN t.cache \cup ({t.d} \ {None}) \subseteq Handled(w) \cup DOMAIN delivery,
           \A c \in DOMAIN t.cache \cap DOMAIN delivery : CoveredNext(c, t.cache[c].attempts),
           t.pc = "posting" /\ t.d \in DOMAIN delivery => CoveredNext(t.d, t.seen.attempts),
           t.pc \in {"delivered", "refused"} /\ t.d \in DOMAIN delivery
               => CoveredNext(t.d, t.seen.attempts + 1),
           t.pc \in {"counting", "disabling"} /\ t.d \in DOMAIN delivery => posts'[t.d] = MaxAttempts
    PROVE  Inv'
<1>1. TasksTyped' /\ task'[w] = t /\ \A v \in Workers \ {w} : task'[v] = task[v]
    BY TasksStayTyped DEF Inv, Typed
<1>2. Reserved(w)' = {} /\ Handled(w)' = t.todo \cup DOMAIN t.cache \cup ({t.d} \ {None})
    BY <1>1 DEF Reserved, Handled
<1>3. WorkerOK(w)'
  <2>1. \A d \in Handled(w)' :
              /\ d \notin unused' /\ EndpointOf[d] \notin unused'
              /\ Live(EndpointOf[d])' => d \in DOMAIN delivery'
    BY <1>1, <1>2, HandledStays DEF Typed
  <2> QED BY <1>1, <1>2, <2>1 DEF WorkerOK, Covered, CoveredNext, Exists
<1> QED BY <1>1, <1>2, <1>3, OneMoves DEF Inv, Typed

LEMMA FindDueKeeps == ASSUME Inv, NEW w \in Workers, FindDue(w) PROVE Inv'
<1> DEFINE c == Restrict(delivery, Due)
           t == [Idle EXCEPT !.pc = "draining", !.todo = Due, !.cache = c]
<1>1. /\ Due \subseteq DOMAIN delivery /\ DOMAIN delivery \subseteq Deliveries
      /\ \A d \in Due : delivery[d] \in DeliveryRow
    BY DEF Due, Inv, Typed, RowsTyped
<1>2. c \in Caches /\ DOMAIN c = Due /\ \A d \in Due : c[d] = delivery[d]
    BY <1>1 DEF Caches, Restrict
<1> HIDE DEF c
<1>3. TaskTyped(t) /\ t.pc = "draining" /\ t.cache = c /\ t.d = None /\ t.todo = Due
    BY <1>1, <1>2, IdleTyped DEF TaskTyped, TaskRow, Steps, Attempting
<1>4. task' = [task EXCEPT ![w] = t]
    BY DEF FindDue, c
<1> HIDE DEF t
<1>5. toggles' = toggles /\ toggles \in Nat /\ crashes' \in Nat /\ UNCHANGED <<rows, posts>>
    BY DEF FindDue, Inv, Typed, RowsTyped
<1>6. /\ RowsTyped' /\ RowsCovered' /\ RowsAdvance /\ DisabledAfterAllAttempts'
      /\ DOMAIN delivery' = DOMAIN delivery
    BY <1>5, RowsStay DEF rows
<1>7. \A d \in Due : CoveredNext(d, c[d].attempts)
    BY <1>1, <1>2, <1>5 DEF Inv, RowsCovered, Covered, CoveredNext
<1> QED BY <1>1, <1>2, <1>3, <1>4, <1>6, <1>7, TaskGoesOn

LEMMA TakeKeeps == ASSUME Inv, NEW w \in Workers, NEW d \in Deliveries, Take(w, d) PROVE Inv'
<1> DEFINE t == task[w]
           seen == IF d \in DOMAIN t.cache THEN t.cache[d] ELSE delivery[d]
           left == t.todo \ {d}
<1>1. toggles' = toggles /\ toggles \in Nat /\ crashes' \in Nat /\ UNCHANGED <<rows, posts>>
    BY DEF Take, Inv, Typed, RowsTyped
<1>2. /\ RowsTyped' /\ RowsCovered' /\ RowsAdvance /\ DisabledAfterAllAttempts'
      /\ delivery' = delivery /\ posts' = posts
    BY <1>1, RowsStay DEF rows
<1>3. d \in Handled(w) /\ t.todo \subseteq Handled(w) /\ DOMAIN t.cache \subseteq Handled(w) /\ t.pc = "draining"
    BY DEF Take, Handled
<1>4. CASE Live(EndpointOf[d])
  <2> DEFINE u == [Idle EXCEPT !.pc = "posting", !.todo = left, !.d = d, !.seen = seen]
  <2>1. d \in DOMAIN delivery
    BY <1>3, <1>4 DEF Inv, WorkerOK
  <2>2. seen \in DeliveryRow /\ Covered(d, seen.attempts)
    BY <2>1, TaskFields DEF Inv, WorkerOK, RowsCovered, Typed, RowsTyped
  <2>3. task' = [task EXCEPT ![w] = u]
    BY <1>4 DEF Take
  <2> HIDE DEF seen
  <2>4. /\ TaskTyped(u) /\ u.pc = "posting" /\ DOMAIN u.cache = {} /\ u.d = d /\ u.todo = left
        /\ u.seen = seen
    BY <2>2, TaskFields, IdleTyped DEF TaskTyped, TaskRow, Steps, Attempting, Inv, Typed
  <2> HIDE DEF u
  <2>5. CoveredNext(d, seen.attempts)
    BY <1>2, <2>2 DEF Covered, CoveredNext
  <2> QED BY <1>2, <1>3, <2>3, <2>4, <2>5, TaskGoesOn
<1>5. CASE ~Live(EndpointOf[d]) /\ d \notin DOMAIN t.cache
    BY <1>1, <1>5, EndsInOrder DEF Take, Raises, Ends
<1>6. CASE ~Live(EndpointOf[d]) /\ d \in DOMAIN t.cache
  <2>1. CASE left = {}
    BY <1>1, <1>6, <2>1, EndsInOrder DEF Take
  <2>2. CASE left # {}
    <3> DEFINE u == [t EXCEPT !.todo = left]
    <3>1. /\ TaskTyped(u) /\ u.pc = "draining" /\ u.cache = t.cache /\ u.d = t.d /\ u.todo = left
      BY <1>3 DEF TaskTyped, TaskRow, Inv, Typed, TasksTyped
    <3>2. task' = [task EXCEPT ![w] = u]
      BY <1>6, <2>2 DEF Take
    <3>3. \A c \in DOMAIN u.cache \cap DOMAIN delivery : CoveredNext(c, u.cache[c].attempts)
      BY <1>2, <3>1 DEF Inv, WorkerOK, Covered, CoveredNext
    <3>4. {t.d} \ {None} \subseteq Handled(w)
      BY DEF Handled
    <3> HIDE DEF u
    <3> QED BY <1>2, <1>3, <3>1, <3>2, <3>3, <3>4, TaskGoesOn
  <2> QED BY <2>1, <2>2
<1> QED BY <1>4, <1>5, <1>6

LEMMA PostKeeps == ASSUME Inv, NEW w \in Workers, Post(w) PROVE Inv'
<1> DEFINE d == task[w].d
<1>1. /\ task[w].pc = "posting" /\ d \in Deliveries /\ posts[d] \in 0 .. MaxAttempts
      /\ task[w].seen.attempts \in Nat /\ MaxAttempts \in Nat
    BY TaskFields, WebhookConstants DEF Post, Attempting, Inv, Typed, RowsTyped
<1>2. /\ posts' \in [Deliveries -> 0 .. MaxAttempts]
      /\ \A c \in Deliveries : posts'[c] >= posts[c]
      /\ \A c \in Deliveries \ {d} : posts'[c] = posts[c]
  <2>1. posts' = [posts EXCEPT ![d] = IF Exists(w) /\ posts[d] < MaxAttempts THEN posts[d] + 1 ELSE posts[d]]
    BY DEF Post
  <2>2. posts \in [Deliveries -> 0 .. MaxAttempts]
    BY DEF Inv, Typed, RowsTyped
  <2>3. \A c \in Deliveries : posts[c] \in Int /\ posts[c] >= posts[c]
    BY <1>1, <2>2
  <2> QED BY <1>1, <2>1, <2>2, <2>3
<1>3. Exists(w) => posts'[d] = MaxAttempts \/ posts'[d] = posts[d] + 1
  <2>1. posts \in [Deliveries -> 0 .. MaxAttempts]
    BY DEF Inv, Typed, RowsTyped
  <2> QED BY <1>1, <2>1 DEF Post
<1>4. RowsTyped' /\ delivery' = delivery
    BY <1>2 DEF Post, rows, Inv, Typed, RowsTyped, Live
<1>5. RowsCovered'
  <2> SUFFICES ASSUME NEW c \in DOMAIN delivery
               PROVE  /\ Covered(c, delivery[c].attempts)'
                      /\ delivery[c].status = "failed" => posts'[c] = MaxAttempts
    BY <1>4 DEF RowsCovered
  <2>1. /\ c \in Deliveries /\ delivery[c].attempts \in Nat
        /\ posts[c] \in 0 .. MaxAttempts /\ posts'[c] \in 0 .. MaxAttempts /\ posts'[c] >= posts[c]
    BY <1>2 DEF Inv, Typed, RowsTyped, DeliveryRow
  <2>2. /\ Covered(c, delivery[c].attempts)
        /\ delivery[c].status = "failed" => posts[c] = MaxAttempts
    BY DEF Inv, RowsCovered
  <2> QED BY <1>1, <1>4, <2>1, <2>2 DEF Covered
<1>6. RowsAdvance
    BY <1>2, <1>4 DEF Post, rows, RowsAdvance, Inv, Typed, RowsTyped
<1>7. DisabledAfterAllAttempts'
  <2> SUFFICES ASSUME toggles = 0, NEW e \in DOMAIN endpoint, ~endpoint[e].active
               PROVE  \E c \in Deliveries : EndpointOf[c] = e /\ posts'[c] = MaxAttempts
    BY DEF Post, rows, DisabledAfterAllAttempts
  <2>1. PICK c \in Deliveries : EndpointOf[c] = e /\ posts[c] = MaxAttempts
    BY DEF Inv, DisabledAfterAllAttempts
  <2>2. posts'[c] \in 0 .. MaxAttempts /\ posts'[c] >= MaxAttempts
    BY <1>2, <2>1
  <2> QED BY <1>1, <2>1, <2>2
<1>8. ASSUME NEW pc \in {"delivered", "refused"}, Go(w, pc) PROVE Inv'
  <2> DEFINE u == [task[w] EXCEPT !.pc = pc]
  <2>1. /\ TaskTyped(u) /\ u.pc = pc /\ u.cache = task[w].cache /\ u.d = d
        /\ u.todo = task[w].todo /\ u.seen = task[w].seen
    BY <1>1 DEF TaskTyped, TaskRow, Inv, Typed, TasksTyped, Steps
  <2>2. task' = [task EXCEPT ![w] = u]
    BY <1>8 DEF Go, Inv, Typed, TasksTyped, TaskRow
  <2>3. \A c \in DOMAIN u.cache \cap DOMAIN delivery : CoveredNext(c, u.cache[c].attempts)
    <3> SUFFICES ASSUME NEW c \in DOMAIN task[w].cache, c \in DOMAIN delivery
                 PROVE  CoveredNext(c, task[w].cache[c].attempts)
      BY <2>1
    <3>1. /\ c \in Deliveries /\ task[w].cache[c].attempts \in Nat
          /\ posts[c] \in 0 .. MaxAttempts /\ posts'[c] \in 0 .. MaxAttempts /\ posts'[c] >= posts[c]
      BY <1>2, TaskFields DEF Inv, Typed, RowsTyped
    <3>2. Covered(c, task[w].cache[c].attempts)
      BY DEF Inv, WorkerOK
    <3> QED BY <1>1, <3>1, <3>2 DEF Covered, CoveredNext
  <2>4. d \in DOMAIN delivery => CoveredNext(d, task[w].seen.attempts + 1)
    <3> SUFFICES ASSUME Exists(w) PROVE CoveredNext(d, task[w].seen.attempts + 1)
      BY DEF Exists
    <3>1. Covered(d, task[w].seen.attempts)
      BY <1>1 DEF Inv, WorkerOK
    <3>2. posts'[d] = MaxAttempts \/ posts'[d] = posts[d] + 1
      BY <1>3
    <3>3. posts'[d] \in 0 .. MaxAttempts /\ posts'[d] >= posts[d]
      BY <1>1, <1>2
    <3> QED BY <1>1, <3>1, <3>2, <3>3 DEF Covered, CoveredNext
  <2>5. task[w].todo \cup DOMAIN task[w].cache \cup ({d} \ {None}) \subseteq Handled(w)
    BY <1>1 DEF Handled
  <2> HIDE DEF u
  <2> QED BY <1>4, <1>5, <1>6, <1>7, <2>1, <2>2, <2>3, <2>4, <2>5, TaskGoesOn
<1> QED BY <1>8 DEF Post

\* The row is saved after an attempt, given up only when all have been made.
LEMMA RowIsSaved ==
    ASSUME Inv, NEW w \in Workers, task[w].pc \in {"delivered", "refused"}, Exists(w),
           NEW status \in {"pending", "success", "failed"}, NEW next \in {"later", "never"},
           SaveAttempt(w, status, next), UNCHANGED <<endpoint, unused, posts, toggles, crashes>>,
           status = "failed" => Exhausted(w)
    PROVE  /\ RowsTyped' /\ RowsCovered' /\ RowsAdvance /\ DisabledAfterAllAttempts'
           /\ DOMAIN delivery' = DOMAIN delivery
           /\ Exhausted(w) => posts[task[w].d] = MaxAttempts
<1> DEFINE d == task[w].d
           row == Saved(w, status, next)
<1>1. /\ d \in Deliveries /\ d \in DOMAIN delivery /\ delivery[d] \in DeliveryRow
      /\ task[w].seen \in DeliveryRow /\ task[w].seen.attempts \in Nat
      /\ posts[d] \in 0 .. MaxAttempts /\ MaxAttempts \in Nat
    BY TaskFields, WebhookConstants DEF Inv, Typed, RowsTyped, Attempting, Exists
<1>2. Covered(d, task[w].seen.attempts + 1)
    BY DEF Inv, WorkerOK
<1>3. Exhausted(w) => posts[d] = MaxAttempts
    BY <1>1, <1>2 DEF Exhausted, Covered
<1>4. row \in DeliveryRow /\ row.attempts = task[w].seen.attempts + 1
    BY <1>1 DEF Saved, Changed, DeliveryRow
<1>5. row.status = "failed" => posts[d] = MaxAttempts
    BY <1>1, <1>3 DEF Saved, Changed, Inv, RowsCovered
<1> HIDE DEF row
<1>6. delivery' = [delivery EXCEPT ![d] = row]
    BY DEF SaveAttempt, row
<1>7. /\ delivery' \in [DOMAIN delivery' -> DeliveryRow] /\ DOMAIN delivery' = DOMAIN delivery
      /\ delivery'[d] = row /\ \A c \in DOMAIN delivery \ {d} : delivery'[c] = delivery[c]
    BY <1>1, <1>4, <1>6 DEF Inv, Typed, RowsTyped
<1>8. RowsTyped'
    BY <1>7 DEF Inv, Typed, RowsTyped, Live
<1>9. RowsCovered'
    BY <1>2, <1>4, <1>5, <1>7 DEF Inv, RowsCovered, Covered
<1>10. RowsAdvance
  <2>1. \A c \in DOMAIN delivery : posts[c] \in Int
    BY <1>1 DEF Inv, Typed, RowsTyped
  <2> QED BY <1>7, <2>1 DEF RowsAdvance, Inv, Typed, RowsTyped
<1>11. DisabledAfterAllAttempts'
    BY DEF Inv, DisabledAfterAllAttempts
<1> QED BY <1>3, <1>7, <1>8, <1>9, <1>10, <1>11

\* After a commit a worker goes on with the endpoint, or with the next row.
LEMMA GoesOnAfterCommit ==
    ASSUME Inv, NEW w \in Workers, task[w].pc \in Attempting,
           RowsTyped', RowsCovered', RowsAdvance, DisabledAfterAllAttempts',
           DOMAIN delivery' = DOMAIN delivery,
           \/ Committed(w, "clearing")
           \/ Committed(w, "counting") /\ (Exists(w) => posts'[task[w].d] = MaxAttempts)
           \/ NextDelivery(w)
    PROVE  Inv'
<1>1. /\ task[w].todo \subseteq Handled(w) /\ task[w].d \in Handled(w)
      /\ task[w].d \in Deliveries /\ task[w].todo \subseteq Deliveries
    BY TaskFields, WebhookConstants DEF Handled, Attempting, Inv, Typed
<1>2. ASSUME NEW pc \in {"clearing", "counting"}, Committed(w, pc),
             pc = "counting" => (Exists(w) => posts'[task[w].d] = MaxAttempts)
      PROVE  Inv'
  <2> DEFINE u == [Idle EXCEPT !.pc = pc, !.todo = task[w].todo, !.d = task[w].d]
  <2>1. /\ TaskTyped(u) /\ u.pc = pc /\ DOMAIN u.cache = {} /\ u.d = task[w].d /\ u.todo = task[w].todo
    BY <1>1, IdleTyped DEF TaskTyped, TaskRow, Steps
  <2>2. task' = [task EXCEPT ![w] = u]
    BY <1>2 DEF Committed
  <2> HIDE DEF u
  <2> QED BY <1>1, <1>2, <2>1, <2>2, TaskGoesOn DEF Exists
<1>3. ASSUME NextDelivery(w) PROVE Inv'
  <2> DEFINE u == IF task[w].todo = {} THEN Idle
                  ELSE [Idle EXCEPT !.pc = "draining", !.todo = task[w].todo]
  <2>1. /\ TaskTyped(u) /\ u.pc \in {"idle", "draining"} /\ DOMAIN u.cache = {} /\ u.d = None
        /\ u.todo = task[w].todo
    BY <1>1, IdleTyped DEF TaskTyped, TaskRow, Steps, Attempting
  <2>2. task' = [task EXCEPT ![w] = u]
    BY <1>3 DEF NextDelivery
  <2> HIDE DEF u
  <2> QED BY <1>1, <2>1, <2>2, TaskGoesOn
<1> QED BY <1>2, <1>3

LEMMA RecordKeeps ==
    ASSUME Inv, NEW w \in Workers, RecordSuccess(w) \/ RecordRetry(w) \/ RecordFailure(w)
    PROVE  Inv'
<1>1. CASE RecordSuccess(w)
    BY <1>1, RowIsSaved, GoesOnAfterCommit DEF RecordSuccess, Attempting
<1>2. CASE RecordRetry(w)
    BY <1>2, RowIsSaved, GoesOnAfterCommit DEF RecordRetry, Attempting
<1>3. CASE RecordFailure(w)
    BY <1>3, RowIsSaved, GoesOnAfterCommit DEF RecordFailure, Attempting
<1> QED BY <1>1, <1>2, <1>3

\* An endpoint's counter is saved, and the endpoint disabled only for a reason.
LEMMA CounterIsSaved ==
    ASSUME Inv, NEW e \in Endpoints, Live(e), NEW row \in EndpointRow,
           endpoint' = [endpoint EXCEPT ![e] = row],
           UNCHANGED <<delivery, unused, posts, toggles, crashes>>,
           row.active \/ ~endpoint[e].active
              \/ \E d \in Deliveries : EndpointOf[d] = e /\ posts[d] = MaxAttempts
    PROVE  /\ RowsTyped' /\ RowsCovered' /\ RowsAdvance /\ DisabledAfterAllAttempts'
           /\ DOMAIN delivery' = DOMAIN delivery
<1>1. /\ endpoint' \in [DOMAIN endpoint' -> EndpointRow] /\ DOMAIN endpoint' = DOMAIN endpoint
      /\ endpoint'[e] = row /\ \A f \in DOMAIN endpoint \ {e} : endpoint'[f] = endpoint[f]
    BY DEF Live, Inv, Typed, RowsTyped
<1>2. RowsTyped'
    BY <1>1 DEF Inv, Typed, RowsTyped, Live
<1>3. RowsAdvance
  <2>1. \A c \in DOMAIN delivery : posts[c] \in 0 .. MaxAttempts
    BY DEF Inv, Typed, RowsTyped
  <2> QED BY <1>1, <2>1, WebhookConstants DEF RowsAdvance, Inv, Typed, RowsTyped
<1>4. RowsCovered'
    BY DEF Inv, RowsCovered, Covered
<1>5. DisabledAfterAllAttempts'
    BY <1>1 DEF Inv, DisabledAfterAllAttempts, Live
<1> QED BY <1>2, <1>3, <1>4, <1>5

LEMMA ClearCounterKeeps == ASSUME Inv, NEW w \in Workers, ClearCounter(w) PROVE Inv'
<1> DEFINE e == EndpointOf[task[w].d]
           row == [endpoint[e] EXCEPT !.failures = 0]
<1>1. e \in Endpoints /\ Live(e) /\ endpoint[e] \in EndpointRow
    BY DEF ClearCounter, Live, Inv, Typed, RowsTyped
<1>2. row \in EndpointRow /\ row.active = endpoint[e].active
    BY <1>1 DEF EndpointRow
<1>3. endpoint' = [endpoint EXCEPT ![e] = row]
    BY <1>1 DEF ClearCounter, Inv, Typed, RowsTyped, Live
<1>4. /\ RowsTyped' /\ RowsCovered' /\ RowsAdvance /\ DisabledAfterAllAttempts'
      /\ DOMAIN delivery' = DOMAIN delivery
  <2> HIDE DEF e, row
  <2>1. row.active \/ ~endpoint[e].active
    BY <1>1, <1>2 DEF EndpointRow
  <2> QED BY <1>1, <1>2, <1>3, <2>1, CounterIsSaved DEF ClearCounter
<1> QED BY <1>4, GoesOnAfterCommit DEF ClearCounter, Attempting

LEMMA ReadCounterKeeps == ASSUME Inv, NEW w \in Workers, ReadCounter(w) PROVE Inv'
<1> DEFINE e == EndpointOf[task[w].d]
           u == [task[w] EXCEPT !.pc = "disabling", !.seenE = endpoint[e]]
<1>1. toggles' = toggles /\ toggles \in Nat /\ crashes' \in Nat /\ UNCHANGED <<rows, posts>>
    BY DEF ReadCounter, Inv, Typed, RowsTyped
<1>2. /\ RowsTyped' /\ RowsCovered' /\ RowsAdvance /\ DisabledAfterAllAttempts'
      /\ delivery' = delivery /\ posts' = posts
    BY <1>1, RowsStay DEF rows
<1>3. endpoint[e] \in EndpointRow /\ task[w].d \in Deliveries
    BY TaskFields DEF ReadCounter, Live, Attempting, Inv, Typed, RowsTyped
<1>4. /\ TaskTyped(u) /\ u.pc = "disabling" /\ u.cache = task[w].cache /\ u.d = task[w].d
      /\ u.todo = task[w].todo
    BY <1>3 DEF TaskTyped, TaskRow, Inv, Typed, TasksTyped, Steps
<1>5. task' = [task EXCEPT ![w] = u]
    BY DEF ReadCounter, Inv, Typed, TasksTyped, TaskRow
<1>6. \A c \in DOMAIN u.cache \cap DOMAIN delivery : CoveredNext(c, u.cache[c].attempts)
    BY <1>2, <1>4 DEF Inv, WorkerOK, Covered, CoveredNext
<1>7. task[w].d \in DOMAIN delivery => posts'[task[w].d] = MaxAttempts
    BY <1>2 DEF ReadCounter, Inv, WorkerOK, Exists
<1>8. task[w].todo \cup DOMAIN task[w].cache \cup ({task[w].d} \ {None}) \subseteq Handled(w)
    BY DEF ReadCounter, Handled
<1> HIDE DEF u
<1> QED BY <1>2, <1>4, <1>5, <1>6, <1>7, <1>8, TaskGoesOn

LEMMA SaveCounterKeeps == ASSUME Inv, NEW w \in Workers, SaveCounter(w) PROVE Inv'
<1> DEFINE d == task[w].d
           e == EndpointOf[d]
           seen == task[w].seenE
           count == seen.failures + 1
           active == IF count >= Threshold THEN Changed(seen.active, FALSE, endpoint[e].active)
                     ELSE endpoint[e].active
           row == [active |-> active, failures |-> count]
<1>1. /\ e \in Endpoints /\ Live(e) /\ endpoint[e] \in EndpointRow /\ d \in Deliveries
      /\ seen.failures \in Nat
    BY TaskFields DEF SaveCounter, Live, Attempting, Inv, Typed, RowsTyped
<1>2. d \in DOMAIN delivery /\ posts[d] = MaxAttempts
  <2>1. d \in Handled(w)
    BY <1>1, WebhookConstants DEF Handled, SaveCounter
  <2> QED BY <1>1, <2>1 DEF Inv, WorkerOK, SaveCounter, Exists
<1>3. row \in EndpointRow
  <2>1. endpoint[e].active \in BOOLEAN
    BY <1>1 DEF EndpointRow
  <2>2. active \in BOOLEAN
    BY <2>1, Zenon DEF Changed
  <2>3. count \in Nat
    BY <1>1
  <2> HIDE DEF active, count
  <2> QED BY <2>2, <2>3 DEF EndpointRow
<1>4. endpoint' = [endpoint EXCEPT ![e] = row]
    BY <1>1 DEF SaveCounter, Inv, Typed, RowsTyped, Live
<1>5. /\ RowsTyped' /\ RowsCovered' /\ RowsAdvance /\ DisabledAfterAllAttempts'
      /\ DOMAIN delivery' = DOMAIN delivery
  <2> HIDE DEF row
  <2> QED BY <1>1, <1>2, <1>3, <1>4, CounterIsSaved DEF SaveCounter
<1> QED BY <1>5, GoesOnAfterCommit DEF SaveCounter, Attempting

-----------------------------------------------------------------------------
\* Inv is inductive.
LEMMA NextKeeps == Inv /\ [Next]_vars => Inv'
<1> SUFFICES ASSUME Inv, [Next]_vars PROVE Inv'
    OBVIOUS
<1>1. ASSUME NEW w \in Workers, RowIsGone(w) \/ JobFailed(w) \/ Crash(w) PROVE Inv'
    BY <1>1, EndsInOrder DEF RowIsGone, Raises, JobFailed, Crash, Ends, Inv, Typed, RowsTyped
<1>2. ASSUME NEW w \in Workers, Proceed(w) PROVE Inv'
    BY <1>1, <1>2, SaveToggleKeeps, EnqueueKeeps, TakeKeeps, TouchEndpointKeeps, PostKeeps, RecordKeeps,
       ClearCounterKeeps, ReadCounterKeeps, SaveCounterKeeps DEF Proceed
<1>3. ASSUME NEW w \in Requests, Request(w) PROVE Inv'
    BY <1>3, BeginToggleKeeps, PublishKeeps, SendTestKeeps DEF Request, Workers
<1>4. CASE UNCHANGED vars
    BY <1>4 DEF vars, rows, Inv, Typed, RowsTyped, TasksTyped, RowsCovered, Covered, WorkerOK, Handled,
                Reserved, Exists, Live, Apart, DisabledAfterAllAttempts
<1> QED BY <1>1, <1>2, <1>3, <1>4, CreateKeeps, DeleteKeeps, FindDueKeeps, BackoffKeeps
        DEF Next, NothingDue, Workers

\* There are no rows at the start.
LEMMA InitInv == Init => Inv
<1> SUFFICES ASSUME Init PROVE Inv
    OBVIOUS
<1>1. endpoint = Empty /\ delivery = Empty /\ DOMAIN Empty = {} /\ Empty \in [{} -> {}]
    BY DEF Init, Empty
<1>2. RowsTyped
    BY <1>1, WebhookConstants DEF Init, RowsTyped
<1>3. TasksTyped
    BY IdleTyped DEF Init, TasksTyped
<1>4. \A w \in Workers : task[w] = Idle /\ Handled(w) = {} /\ Reserved(w) = {}
    BY IdleTyped DEF Init, Handled, Reserved
<1> QED BY <1>1, <1>2, <1>3, <1>4, IdleTyped
        DEF Inv, Typed, RowsCovered, WorkerOK, Apart, DisabledAfterAllAttempts

\* Rows, tasks and what was posted fit together at all times, whatever workers
\* and administrators do between one another's steps.
THEOREM Invariant == Spec => []Inv
BY InitInv, NextKeeps, PTL DEF Spec

\* Tables, ids and tasks have their types at all times, and no delivery row
\* outlives the row of its endpoint, though workers still hold it.
THEOREM TypeCorrect == Spec => []TypeOK
<1>1. Inv => TypeOK
  <2> SUFFICES ASSUME Inv PROVE TypeOK
    OBVIOUS
  <2>1. \A w \in Workers : /\ task[w].pc \in Steps /\ task[w].e \in Endpoints \cup {None}
    BY DEF Inv, Typed, TasksTyped, TaskRow
  <2> QED BY <2>1, TaskFields DEF Inv, Typed, RowsTyped, TasksTyped, TypeOK
<1> QED BY <1>1, Invariant, PTL

\* However many drains, test deliveries, administrators and deaths meet on the
\* rows, and whatever they overwrite, no delivery is marked as failed, and no
\* endpoint disabled but by an administrator, before a delivery was posted
\* max_attempts times (_record_failure, _attempt_delivery).
THEOREM NothingIsGivenUpEarly == Spec => []GivenUpAfterAllAttempts
<1>1. Inv => GivenUpAfterAllAttempts
    BY DEF Inv, RowsCovered, GivenUpAfterAllAttempts, FailedAfterAllAttempts
<1> QED BY <1>1, Invariant, PTL
=============================================================================
