------------------------------ MODULE LogShipping ------------------------------
(***************************************************************************)
(* The way of a log record out of a process: the dispatcher's buffer, which *)
(* the threads that log append to, and the scheduler's tick, which drains a *)
(* batch and hands it to the shippers that plugins registered.             *)
(*                                                                         *)
(* Times are left out: a shipper that failed waits until its backoff ends. *)
(* A restart empties the process, and the disk keeps what was not shipped. *)
(***************************************************************************)
EXTENDS Integers, SequencesExt, Scenes

CONSTANTS
    Shippers,
    Capacities,     \* of the buffer, in the operators' settings
    MaxBatch,
    MaxFailures,    \* auto_disable_threshold
    MaxRecords,     \* bound
    MaxEnables      \* bound: plugins enabled again after the boot

VARIABLES
    buffer,         \* records, numbered in the order in which they were buffered
    config,         \* the settings as of the last tick
    shipper,        \* registered or not, and its state, which outlives registration
    tick,           \* what the scheduler's thread is at
    count,          \* of records dropped; and, history: appended, cut, plugins enabled
    drained         \* history: how many records left the buffer, and the last of them

shippingVars == <<buffer, config, shipper, tick, count, drained>>

ASSUME ShippingAssumption ==
    /\ Capacities \subseteq Nat /\ MaxBatch \in Nat \ {0} /\ MaxFailures \in Nat \ {0}
    /\ IsFiniteSet(Shippers)

NoTick == [pc |-> "idle", todo |-> <<>>, batch |-> <<>>]
\* The backoff and the disabling follow from the failures.  History: the last
\* record given to it, whether it never failed since it registered, and if so
\* how many of the records drained since it was not given.
Fresh == [on |-> TRUE, failures |-> 0, last |-> 0, spotless |-> TRUE, owed |-> 0]

ShippingInit ==
    /\ buffer = <<>> /\ drained = [n |-> 0, last |-> 0]
    /\ config \in [enabled : {TRUE}, capacity : Capacities]
    /\ shipper = [s \in Shippers |-> Fresh] /\ tick = NoTick
    /\ count = [appended |-> 0, dropped |-> 0, cut |-> 0, enabled |-> 0]

Shipping == On("ship")
Scheduling == Shipping /\ UNCHANGED job

-----------------------------------------------------------------------------
Newest(records, n) == SubSeq(records, Len(records) - n + 1, Len(records))

\* deque(maxlen) lets the oldest go.
Kept(records) == Newest(records, IF Len(records) > config.capacity THEN config.capacity ELSE Len(records))

Buffered ==
    /\ buffer' = Kept(Append(buffer, count.appended + 1))
    /\ count' = [count EXCEPT !.appended = @ + 1,
                              !.dropped = IF Len(buffer) = config.capacity THEN @ + 1 ELSE @]

\* enqueue looks at the settings and the registry without the lock.  Records
\* below the floor are not its concern, and are left out.
Accepts == config.enabled /\ \E s \in Shippers : shipper[s].on

Enqueue(w) ==
    /\ Shipping /\ count.appended < MaxRecords /\ Accepts
    /\ Begin(w, [pc |-> "buffer"])
    /\ UNCHANGED shippingVars

BufferRecord(w) ==
    /\ Shipping /\ IsAt(w, "buffer")
    /\ Buffered /\ Done(w)
    /\ UNCHANGED <<config, shipper, tick, drained>>

-----------------------------------------------------------------------------
IsDisabled(s) == shipper[s].failures >= MaxFailures

\* A plugin registers its shipper, then has its state forgotten; it is external.
Register(w) ==
    /\ Shipping /\ count.enabled < MaxEnables
    /\ count' = [count EXCEPT !.enabled = @ + 1]
    /\ \E s \in Shippers :
          /\ Begin(w, [pc |-> "reset", shipper |-> s])
          /\ shipper' = [shipper EXCEPT ![s] =
                [Fresh EXCEPT !.failures = shipper[s].failures,
                              !.spotless = /\ shipper[s].failures = 0
                                           /\ tick.pc # "take" /\ s \notin Range(tick.todo)]]
    /\ UNCHANGED <<buffer, config, tick, drained>>

ResetShipper(w) ==
    /\ Shipping /\ IsAt(w, "reset")
    /\ shipper' = [shipper EXCEPT ![job[w].shipper].failures = 0]
    /\ Done(w)
    /\ UNCHANGED <<buffer, config, tick, count, drained>>

Tarnished(state) == [state EXCEPT !.spotless = FALSE, !.owed = 0]

Unregister(s) ==
    /\ Scheduling /\ shipper[s].on
    /\ shipper' = [shipper EXCEPT ![s] = [Tarnished(@) EXCEPT !.on = FALSE]]
    /\ UNCHANGED <<buffer, config, tick, count, drained>>

-----------------------------------------------------------------------------
\* The tick of the scheduler: the settings and the shippers, then the batch,
\* then one shipper after the other.  The backoff of some may be over.
IsReady(s, over) == shipper[s].on /\ ~IsDisabled(s) /\ (shipper[s].failures > 0 => s \in over)

RefreshAndSelect ==
    /\ Scheduling /\ tick.pc = "idle"
    /\ config' \in [enabled : BOOLEAN, capacity : Capacities]
    /\ buffer' = IF config'.capacity < Len(buffer) THEN Newest(buffer, config'.capacity) ELSE buffer
    /\ count' = [count EXCEPT !.cut = @ + Len(buffer) - Len(buffer')]
    /\ \E over \in SUBSET Shippers :
       \E order \in SetToSeqs({s \in Shippers : IsReady(s, over)}) :
          tick' = IF order = <<>> THEN NoTick ELSE [NoTick EXCEPT !.pc = "take", !.todo = order]
    /\ UNCHANGED <<shipper, drained>>

TakeBatch ==
    LET n == IF Len(buffer) < MaxBatch THEN Len(buffer) ELSE MaxBatch
        batch == SubSeq(buffer, 1, n) IN
    /\ Scheduling /\ tick.pc = "take"
    /\ IF n = 0 THEN tick' = NoTick /\ UNCHANGED <<drained, shipper>>
       ELSE /\ tick' = [tick EXCEPT !.pc = "ship", !.batch = batch]
            /\ drained' = [n |-> drained.n + n, last |-> Last(batch)]
            /\ shipper' = [s \in Shippers |->
                   [shipper[s] EXCEPT !.owed = IF shipper[s].spotless THEN @ + n ELSE 0]]
    /\ buffer' = SubSeq(buffer, n + 1, Len(buffer))
    /\ UNCHANGED <<config, count>>

Given(state) ==
    [state EXCEPT !.last = Last(tick.batch), !.owed = IF state.spotless THEN @ - Len(tick.batch) ELSE 0]

\* Mutant: the batch goes to no other shipper once one failed.
ShipBatchUntilFailure ==
    LET s == Head(tick.todo)
        given == Given(shipper[s]) IN
    /\ Scheduling /\ tick.pc = "ship"
    /\ \/ /\ shipper' = [shipper EXCEPT ![s] = [given EXCEPT !.failures = 0]]
          /\ tick' = IF Len(tick.todo) = 1 THEN NoTick ELSE [tick EXCEPT !.todo = Tail(@)]
       \/ /\ shipper' = [shipper EXCEPT ![s] = [Tarnished(given) EXCEPT !.failures = @ + 1]]
          /\ tick' = NoTick
    /\ UNCHANGED <<buffer, count, config, drained>>

\* A backend that failed may have taken the batch all the same.  The failure
\* is logged, and what is logged is shipped.
ShipBatch ==
    LET s == Head(tick.todo)
        given == Given(shipper[s]) IN
    /\ Scheduling /\ tick.pc = "ship"
    /\ \/ /\ shipper' = [shipper EXCEPT ![s] = [given EXCEPT !.failures = 0]]
          /\ UNCHANGED <<buffer, count>>
       \/ /\ shipper' = [shipper EXCEPT ![s] = [Tarnished(given) EXCEPT !.failures = @ + 1]]
          /\ IF Accepts /\ count.appended < MaxRecords THEN Buffered ELSE UNCHANGED <<buffer, count>>
    /\ tick' = IF Len(tick.todo) = 1 THEN NoTick ELSE [tick EXCEPT !.todo = Tail(@)]
    /\ UNCHANGED <<config, drained>>

ShippingNext ==
    \/ RefreshAndSelect \/ TakeBatch \/ ShipBatch
    \/ \E s \in Shippers : Unregister(s)
    \/ \E w \in Workers :
          Enqueue(w) \/ BufferRecord(w) \/ Register(w) \/ ResetShipper(w)

-----------------------------------------------------------------------------
Ascending(s) == \A i \in 1 .. Len(s) - 1 : s[i] < s[i + 1]

ShippingTypeOK ==
    /\ \A n \in Range(buffer) : n \in 1 .. count.appended
    /\ \A s \in Shippers : shipper[s].failures \in 0 .. MaxFailures
    /\ tick.pc \in {"idle", "take", "ship"} /\ (tick.pc = "ship" => tick.batch # <<>>)

\* Every record that was buffered waits, or was drained, or is in the counter
\* of those dropped (or was cut off by a smaller capacity), and no shipper is
\* given one twice or out of order, however threads and the tick interleave.
\* A shipper that never failed since it registered was given all that was
\* drained since: the others' failures do not concern it.
RecordsAreAccounted ==
    /\ Ascending(<<drained.last>> \o buffer) /\ Ascending(tick.batch)
    /\ count.appended = drained.n + Len(buffer) + count.dropped + count.cut
    /\ \A s \in Range(tick.todo) : tick.batch # <<>> => shipper[s].last < Head(tick.batch)
    /\ \A s \in Shippers : shipper[s].spotless =>
          shipper[s].owed = IF s \in Range(tick.todo) THEN Len(tick.batch) ELSE 0
================================================================================
