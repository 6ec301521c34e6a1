---------------------------- MODULE ProviderCalls ----------------------------
(***************************************************************************)
(* The two directions between the program and a payment provider: calls    *)
(* through an SDK adapter, which remembers the answers it got under an     *)
(* idempotency key and tries again after a transient error (scene "sdk"),  *)
(* and the webhooks the provider sends, and sends again until one of them  *)
(* is acknowledged (scene "inbound").                                      *)
(*                                                                         *)
(* The adapters belong to the plugins; one that wraps its operations in    *)
(* both helpers of the base class stands for them.  The provider is the    *)
(* one of MockSDKAdapter, with answers that get lost.  There is one        *)
(* payment, and so one key for each operation.                             *)
(***************************************************************************)
EXTENDS Integers, FiniteSets, Scenes

CONSTANTS
    Keyed,          \* operations whose callers give a key
    MaxRetries,     \* max_retries
    MaxPerformed,   \* bound on how often the provider performs an operation
    Events          \* webhook events of the provider

Operations == {"create", "capture", "refund"}

ASSUME ProvidersAssumption == Keyed \subseteq Operations /\ {MaxRetries, MaxPerformed} \subseteq Nat

VARIABLES
    intent,      \* at the provider: status of the payment
    known,       \* at the provider: creation keys it remembers
    performed,   \* at the provider: how often it did each operation
    recorded,    \* Redis: operations with a recorded answer
    excused,     \* history: operations whose record was not there when needed
    handler,     \* the provider's webhook handler is registered
    sent,        \* webhooks on their way
    handled,     \* events the handler took, and said so
    acknowledged

sdkVars == <<intent, known, performed, recorded, excused>>
inboundVars == <<handler, sent, handled, acknowledged>>
providerVars == <<sdkVars, inboundVars>>

-----------------------------------------------------------------------------
Forms == {"genuine", "forged", "garbled", "unparsable"}

ProvidersInit ==
    /\ intent = None /\ known = FALSE
    /\ performed = [o \in Operations |-> 0]
    /\ recorded = {} /\ excused = {}
    /\ handler = FALSE /\ sent = {} /\ handled = {} /\ acknowledged = {}

Outbound == On("sdk") /\ UNCHANGED inboundVars
Inbound == On("inbound") /\ UNCHANGED <<sdkVars, job>>

-----------------------------------------------------------------------------
(***************************************************************************)
(* The provider.                                                           *)
(***************************************************************************)
\* A payment that does not exist cannot be captured or refunded, one that does
\* can, whatever its status.
Possible(o) == o = "create" \/ intent # None

\* A key it knows gets the same payment once more.
Again(o) == o = "create" /\ known

Perform(o) ==
    IF Again(o) THEN UNCHANGED <<intent, known, performed>>
    ELSE /\ performed[o] < MaxPerformed    \* bound
         /\ performed' = [performed EXCEPT ![o] = @ + 1]
         /\ intent' = CASE o = "create" -> "created"
                        [] o = "capture" -> "captured"
                        [] o = "refund" -> "refunded"
         /\ known' = (known \/ (o = "create" /\ o \in Keyed))

-----------------------------------------------------------------------------
(***************************************************************************)
(* A call.  The key is looked up before, and the answer stored after.      *)
(***************************************************************************)
Under(o, w) == \E v \in Workers \ {w} : job[v].pc \in {"try", "store"} /\ job[v].op = o

Call(w, o) ==
    /\ Begin(w, [pc |-> "try", op |-> o, tries |-> 0])
    /\ excused' = IF Under(o, w) THEN excused \cup {o} ELSE excused
    /\ UNCHANGED <<intent, known, performed, recorded>>

\* Mutant: the key is not looked up.
CheckNothing(w, o) == Outbound /\ Call(w, o)

\* Without a key, or without a recorded answer under it.
CheckKey(w, o) == Outbound /\ o \notin recorded /\ Call(w, o)

\* The recorded answer is the answer; if Redis fails there is none, and no
\* call: nothing changes in either case.

\* The provider does it and answers, or says no.
AnswerCall(w) ==
    LET r == job[w] IN
    /\ Outbound /\ IsAt(w, "try")
    /\ IF Possible(r.op)
       THEN /\ Perform(r.op)
            /\ IF r.op \in Keyed THEN Go(w, [r EXCEPT !.pc = "store"]) ELSE Done(w)
       ELSE Done(w) /\ UNCHANGED <<intent, known, performed>>
    /\ UNCHANGED <<recorded, excused>>

\* It says no for reasons of its own; a refusal is not recorded.
Refuse(w) == Outbound /\ IsAt(w, "try") /\ Done(w) /\ UNCHANGED sdkVars

Retried(w) ==
    IF job[w].tries < MaxRetries THEN Go(w, [job[w] EXCEPT !.tries = @ + 1]) ELSE Done(w)

\* A transient error: the request was lost, or the answer to it.
LoseRequest(w) == Outbound /\ IsAt(w, "try") /\ Retried(w) /\ UNCHANGED sdkVars

LoseAnswer(w) ==
    LET r == job[w] IN
    /\ Outbound /\ IsAt(w, "try") /\ Possible(r.op)
    /\ Perform(r.op)
    /\ excused' = excused \cup {r.op}
    /\ Retried(w)
    /\ UNCHANGED recorded

StoreAnswer(w) ==
    /\ Outbound /\ IsAt(w, "store")
    /\ recorded' = recorded \cup {job[w].op}
    /\ Done(w)
    /\ UNCHANGED <<intent, known, performed, excused>>

\* Redis fails, and the caller gets the exception and not the answer.
StoreFails(w) ==
    /\ Outbound /\ IsAt(w, "store")
    /\ excused' = excused \cup {job[w].op}
    /\ Done(w)
    /\ UNCHANGED <<intent, known, performed, recorded>>

\* The worker dies, before it asks or before it stores the answer.
CrashCall(w) ==
    /\ Outbound /\ job[w].pc \in {"try", "store"}
    /\ excused' = IF IsAt(w, "store") THEN excused \cup {job[w].op} ELSE excused
    /\ Done(w)
    /\ UNCHANGED <<intent, known, performed, recorded>>

\* After a day, or by delete.
Forget(o) ==
    /\ Outbound /\ o \in recorded
    /\ recorded' = recorded \ {o} /\ excused' = excused \cup {o}
    /\ UNCHANGED <<intent, known, performed, job>>

-----------------------------------------------------------------------------
(***************************************************************************)
(* Webhooks.  Nobody remembers an event, so one may be handled again.      *)
(***************************************************************************)
RegisterHandler == Inbound /\ handler' = TRUE /\ UNCHANGED <<sent, handled, acknowledged>>

\* The provider sends its events until one is acknowledged; others send what
\* is not from it, and what it sends may be cut short or of a new kind.
Send ==
    /\ Inbound
    /\ \E e \in Events, f \in Forms :
          /\ f = "genuine" => e \notin acknowledged
          /\ sent' = sent \cup {[event |-> e, form |-> f]}
    /\ UNCHANGED <<handler, handled, acknowledged>>

\* A handler is known, the signature its own, the body JSON, the event one it
\* can parse: it is handled, well or not, and the answer may get lost.  All
\* else is answered with an error.
Process(m) ==
    /\ Inbound /\ m \in sent
    /\ sent' = sent \ {m}
    /\ \/ /\ handler /\ m.form = "genuine" /\ handled' = handled \cup {m.event}
          /\ acknowledged' \in {acknowledged, acknowledged \cup {m.event}}
       \/ UNCHANGED <<handled, acknowledged>>
    /\ UNCHANGED handler

-----------------------------------------------------------------------------
ProvidersNext ==
    \/ \E w \in Workers : \/ \E o \in Operations : CheckKey(w, o)
                          \/ AnswerCall(w) \/ Refuse(w) \/ LoseRequest(w) \/ LoseAnswer(w)
                          \/ StoreAnswer(w) \/ StoreFails(w) \/ CrashCall(w)
    \/ \E o \in Operations : Forget(o)
    \/ RegisterHandler \/ Send
    \/ \E m \in sent : Process(m)

-----------------------------------------------------------------------------
ProvidersTypeOK ==
    /\ intent \in {None, "created", "captured", "refunded"}
    /\ performed \in [Operations -> 0 .. MaxPerformed]
    /\ \A w \in Workers : scene = "sdk" /\ IsAt(w, "try") => job[w].tries <= MaxRetries

\* An operation is not performed twice, unless its callers give no key or call
\* twice at once, its key was forgotten, or an answer got lost between the
\* provider and Redis; the payment itself is not created twice even then, if
\* its callers give a key; and what is recorded as done was done, after
\* whatever refusals and failures before.
PerformedOnce ==
    /\ \A o \in Keyed : performed[o] <= 1 \/ (o \in excused /\ o # "create")
    /\ \A o \in recorded : performed[o] > 0

\* An acknowledged webhook was handled well, though it came among forged ones
\* and broken copies of itself.
AcknowledgedIsHandled == acknowledged \subseteq handled

\* Both directions: see the two parts.
ProviderCallsAreExact == PerformedOnce /\ AcknowledgedIsHandled
================================================================================
