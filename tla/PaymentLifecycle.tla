-------------------------- MODULE PaymentLifecycle --------------------------
(***************************************************************************)
(* The money path of the core: invoices, the token bundle purchases that   *)
(* are their line items, and the buyer's tokens, driven by the payment     *)
(* provider's notifications and by administrators.                         *)
(*                                                                         *)
(* Request workers (gunicorn processes and threads) run the handlers.      *)
(* Every BaseRepository.save commits, so a handler is a sequence of small  *)
(* transactions: it reads the invoice, saves its new status, then for each *)
(* line item reads the purchase, saves it, and moves the tokens.  Another  *)
(* worker may run, and the process may die, between any two of them.  A    *)
(* token movement is one step here; TokenLedger takes it apart.            *)
(***************************************************************************)
EXTENDS Integers, FiniteSets, FiniteSetsExt

CONSTANTS
    Workers,
    Invoices,      \* invoices of one buyer
    Purchases,     \* token bundle purchases
    Items,         \* Items[i]: the purchases that are line items of i
    Size,          \* Size[p]: token_amount of p
    Opening,       \* tokens the buyer owns besides
    HooksMayVeto,  \* a plugin has registered a hook that may raise
    MaxCrashes,    \* bound on process deaths
    MaxRepeats,    \* bound on repeated notifications
    MaxReversals,  \* bound on refunds the provider takes back
    None           \* no line item

ASSUME PaymentConstants ==
    /\ IsFiniteSet(Purchases)
    /\ Items \in [Invoices -> SUBSET Purchases]
    /\ \A i, j \in Invoices : i # j => Items[i] \cap Items[j] = {}
    /\ Size \in [Purchases -> Nat \ {0}]
    /\ Opening \in Nat
    /\ HooksMayVeto \in BOOLEAN
    /\ MaxCrashes \in Nat /\ MaxRepeats \in Nat /\ MaxReversals \in Nat
    /\ None \notin Purchases

VARIABLES
    status,    \* InvoiceStatus of each invoice
    paidBy,    \* whose captured event set its paid_at: "none" if nobody's
    purchase,  \* PurchaseStatus of each purchase
    granted,   \* sum of the ledger rows that refer to the purchase
    balance,   \* the buyer's token balance
    intent,    \* the provider's side of the payment of each invoice
    inbox,     \* notifications sent and not yet answered
    sent,      \* notifications ever sent
    job,       \* what each worker is doing
    crashes, repeats, reversals  \* counters the bounds are on

database == <<status, paidBy, purchase, granted, balance>>
provider == <<intent, sent>>
counters == <<crashes, repeats, reversals>>
vars == <<database, provider, inbox, job, counters>>

-----------------------------------------------------------------------------
Notification == {"authorized", "captured", "refunded", "restored"}

Message == Notification \X Invoices

\* A captured event is one of the provider's, or the one an administrator's
\* request emits.
Captures == {"captured", "manual"}

Operation == Notification \cup
    {"manual", "markpaid", "capture", "release", "void", "fail", "refund"}

\* Mutant: the purchase's word for done, written to the invoice.
NewStatusOfItem(op) ==
    CASE op \in Captures \cup {"markpaid", "restored"} -> "COMPLETED"
      [] op = "authorized" -> "AUTHORIZED"
      [] op = "refunded" -> "REFUNDED"
      [] op = "fail" -> "FAILED"
      [] OTHER -> "CANCELLED"

\* The invoice status an operation saves.
NewStatus(op) ==
    CASE op \in Captures \cup {"markpaid", "restored"} -> "PAID"
      [] op = "authorized" -> "AUTHORIZED"
      [] op = "refunded" -> "REFUNDED"
      [] op = "fail" -> "FAILED"
      [] OTHER -> "CANCELLED"

\* The purchase status a line item handler expects, and the one it saves.
ItemFrom(op) == CASE op \in Captures -> "PENDING"
                  [] op = "refunded" -> "COMPLETED"
                  [] OTHER -> "REFUNDED"
ItemTo(op) == IF op = "refunded" THEN "REFUNDED" ELSE "COMPLETED"

Idle == [pc |-> "idle", op |-> "void", inv |-> None, hook |-> FALSE,
         seen |-> "PENDING", todo |-> {}, item |-> None]

Init == /\ status = [i \in Invoices |-> "PENDING"]
        /\ paidBy = [i \in Invoices |-> "none"]
        /\ purchase = [p \in Purchases |-> "PENDING"]
        /\ granted = [p \in Purchases |-> 0]
        /\ balance = Opening
        /\ intent = [i \in Invoices |-> "none"]
        /\ inbox = {} /\ sent = {}
        /\ job = [w \in Workers |-> Idle]
        /\ crashes = 0 /\ repeats = 0 /\ reversals = 0

-----------------------------------------------------------------------------
(***************************************************************************)
(* The provider and the customer (external).  A notification stays in the  *)
(* inbox until a worker has answered it, and may be repeated afterwards.   *)
(***************************************************************************)
Notify(kind, i) == /\ inbox' = inbox \cup {<<kind, i>>}
                   /\ sent' = sent \cup {<<kind, i>>}

\* A checkout session can be created for a pending invoice only
\* (validate_invoice_for_payment); the customer pays in it whenever he likes.
OpenSession(i) ==
    /\ status[i] = "PENDING" /\ intent[i] = "none"
    /\ intent' = [intent EXCEPT ![i] = "open"]
    /\ UNCHANGED <<database, inbox, sent, job, counters>>

CustomerPays(i) ==
    /\ intent[i] = "open"
    /\ intent' = [intent EXCEPT ![i] = "captured"]
    /\ Notify("captured", i)
    /\ UNCHANGED <<database, job, counters>>

\* determine_capture_method is "manual": the funds are held only.
CustomerAuthorizes(i) ==
    /\ intent[i] = "open"
    /\ intent' = [intent EXCEPT ![i] = "held"]
    /\ Notify("authorized", i)
    /\ UNCHANGED <<database, job, counters>>

\* A refund made at the provider, and one it takes back.
ProviderRefunds(i) ==
    /\ intent[i] = "captured"
    /\ intent' = [intent EXCEPT ![i] = "refunded"]
    /\ Notify("refunded", i)
    /\ UNCHANGED <<database, job, counters>>

ProviderReverses(i) ==
    /\ intent[i] = "refunded" /\ reversals < MaxReversals
    /\ intent' = [intent EXCEPT ![i] = "captured"]
    /\ reversals' = reversals + 1
    /\ Notify("restored", i)
    /\ UNCHANGED <<database, job, crashes, repeats>>

ProviderRepeats(m) ==
    /\ m \in sent \ inbox /\ repeats < MaxRepeats
    /\ inbox' = inbox \cup {m}
    /\ repeats' = repeats + 1
    /\ UNCHANGED <<database, provider, job, crashes, reversals>>

-----------------------------------------------------------------------------
\* Tokens a refund of i takes back: its completed bundles (RefundService).
TokensToDebit(i) ==
    MapThenSumSet(LAMBDA p : Size[p], {p \in Items[i] : purchase[p] = "COMPLETED"})

EnoughTokens(i) == TokensToDebit(i) <= balance

\* w goes on at pc with operation op on invoice i, having read its status
\* (which no later step looks at once the line items are being processed).
Continue(w, pc, op, i, hook) ==
    job' = [job EXCEPT ![w] =
               [pc |-> pc, op |-> op, inv |-> i, hook |-> hook, item |-> None,
                seen |-> IF pc = "items" THEN "PENDING" ELSE status[i],
                todo |-> IF pc = "items" THEN Items[i] ELSE {}]]

\* w is done with its request, which answers a notification.
Done(w) ==
    /\ job' = [job EXCEPT ![w] = Idle]
    /\ inbox' = IF job[w].hook THEN inbox \ {<<job[w].op, job[w].inv>>} ELSE inbox

(***************************************************************************)
(* The first step of each handler: it reads the invoice and decides.       *)
(***************************************************************************)
\* Mutant: the line items are activated before the invoice is paid.
ActivateFirst(w, op, i, hook) == Continue(w, "items", op, i, hook)

\* PaymentCapturedHandler: any status but PAID becomes PAID; the line items
\* are processed either way.
BeginCaptured(w, op, i, hook) ==
    Continue(w, IF status[i] = "PAID" THEN "items" ELSE "saving", op, i, hook)

\* The guards of PaymentAuthorizedHandler (none), RefundService and
\* RestoreService.
MayBegin(kind, i) ==
    CASE kind = "authorized" -> TRUE
      [] kind = "refunded" -> status[i] = "PAID" /\ EnoughTokens(i)
      [] kind = "restored" -> status[i] = "REFUNDED"

\* Mutant: a notification is answered when it is taken up.
AnswerFirst(w, m) ==
    /\ job[w].pc = "idle" /\ m \in inbox
    /\ IF m[1] = "captured"
       THEN BeginCaptured(w, m[1], m[2], FALSE)
       ELSE IF MayBegin(m[1], m[2])
       THEN Continue(w, "saving", m[1], m[2], FALSE)
       ELSE UNCHANGED job
    /\ inbox' = inbox \ {m}
    /\ UNCHANGED <<database, provider, counters>>

\* A worker takes up a notification; a refused one is answered at once.
Receive(w, m) ==
    LET kind == m[1]
        i == m[2]
    IN  /\ job[w].pc = "idle" /\ m \in inbox
        /\ IF kind = "captured"
           THEN BeginCaptured(w, kind, i, TRUE) /\ UNCHANGED inbox
           ELSE IF MayBegin(kind, i)
           THEN Continue(w, "saving", kind, i, TRUE) /\ UNCHANGED inbox
           ELSE inbox' = inbox \ {m} /\ UNCHANGED job
        /\ UNCHANGED <<database, provider, counters>>

\* POST /webhooks/payment: the captured event with no look at the status.
AdminCaptured(w, i) ==
    /\ job[w].pc = "idle"
    /\ BeginCaptured(w, "manual", i, FALSE)
    /\ UNCHANGED <<database, provider, inbox, counters>>

\* POST /invoices/<id>/mark-paid: InvoiceService.mark_paid, PENDING only.
AdminMarksPaid(w, i) ==
    /\ job[w].pc = "idle" /\ status[i] = "PENDING"
    /\ Continue(w, "saving", "markpaid", i, FALSE)
    /\ UNCHANGED <<database, provider, inbox, counters>>

\* POST .../void and InvoiceService.mark_failed: whatever the status.
AdminCloses(w, op, i) ==
    /\ job[w].pc = "idle" /\ op \in {"void", "fail"}
    /\ Continue(w, "saving", op, i, FALSE)
    /\ UNCHANGED <<database, provider, inbox, counters>>

\* CaptureService.capture and release (also auto-capture): AUTHORIZED only.
BeginCapture(w, op, i) ==
    /\ job[w].pc = "idle" /\ op \in {"capture", "release"}
    /\ status[i] = "AUTHORIZED"
    /\ Continue(w, "calling", op, i, FALSE)
    /\ UNCHANGED <<database, provider, inbox, counters>>

\* POST .../refund: the tokens are checked, the status is not; then comes the
\* provider, if the invoice names one whose plugin is registered.
AdminRefunds(w, i) ==
    /\ job[w].pc = "idle" /\ EnoughTokens(i)
    /\ \E pc \in {"calling", "checking"} : Continue(w, pc, "refund", i, FALSE)
    /\ UNCHANGED <<database, provider, inbox, counters>>

-----------------------------------------------------------------------------
(***************************************************************************)
(* The later steps of a request.                                           *)
(***************************************************************************)
\* The provider captures, or lets go, what it holds.  After a capture
\* emit_payment_captured runs the handler on the same session, where the
\* invoice is still the one read as AUTHORIZED: it will be saved as PAID.
CallProvider(w) ==
    LET i == job[w].inv IN
    /\ job[w].pc = "calling" /\ job[w].op \in {"capture", "release"}
    /\ IF intent[i] = "held"
       THEN IF job[w].op = "capture"
            THEN /\ intent' = [intent EXCEPT ![i] = "captured"]
                 /\ job' = [job EXCEPT ![w].pc = "saving", ![w].op = "captured"]
                 /\ Notify("captured", i)
            ELSE /\ intent' = [intent EXCEPT ![i] = "released"]
                 /\ job' = [job EXCEPT ![w].pc = "saving"]
                 /\ UNCHANGED <<inbox, sent>>
       ELSE Done(w) /\ UNCHANGED provider
    /\ UNCHANGED <<database, counters>>

\* Whether its plugin is enabled is asked of PluginManager.is_enabled, which
\* does not exist: the request ends there, with an error.
CallRefund(w) ==
    /\ job[w].pc = "calling" /\ job[w].op = "refund"
    /\ Done(w)
    /\ UNCHANGED <<database, provider, counters>>

\* process_refund: the status as the session first read it, the tokens anew.
CheckRefund(w) ==
    /\ job[w].pc = "checking"
    /\ IF job[w].seen = "PAID" /\ EnoughTokens(job[w].inv)
       THEN job' = [job EXCEPT ![w].pc = "saving", ![w].op = "refunded"] /\ UNCHANGED inbox
       ELSE Done(w)
    /\ UNCHANGED <<database, provider, counters>>

\* The invoice is saved, whatever its status in the database is by now: the
\* UPDATE leaves out a column that has the value that was read.
SaveInvoice(w) ==
    LET op == job[w].op
        i == job[w].inv
    IN  /\ job[w].pc = "saving"
        /\ status' = IF job[w].seen = NewStatus(op) THEN status
                     ELSE [status EXCEPT ![i] = NewStatus(op)]
        /\ paidBy' = CASE op = "captured" -> [paidBy EXCEPT ![i] = "provider"]
                       [] op \in {"manual", "markpaid"} -> [paidBy EXCEPT ![i] = "admin"]
                       [] OTHER -> paidBy
        /\ CASE op \in Captures \cup {"refunded", "restored"} ->
                  /\ Continue(w, "items", op, i, job[w].hook)
                  /\ UNCHANGED inbox
             [] op = "markpaid" ->
                  /\ job' = [job EXCEPT ![w].pc = "marked", ![w].seen = "PENDING"]
                  /\ UNCHANGED inbox
             [] OTHER -> Done(w)
        /\ UNCHANGED <<purchase, granted, balance, provider, counters>>

\* The save of mark-paid has read the row back (refresh), and the handler of the
\* captured event it then emits decides on that.
EmitCaptured(w) ==
    /\ job[w].pc = "marked"
    /\ BeginCaptured(w, "manual", job[w].inv, FALSE)
    /\ UNCHANGED <<database, provider, inbox, counters>>

\* Mutant: the status of the purchase is not looked at.
NextItemAlways(w, p) ==
    /\ job[w].pc = "items" /\ p \in job[w].todo
    /\ job' = [job EXCEPT ![w].pc = "item", ![w].item = p, ![w].todo = @ \ {p}]
    /\ UNCHANGED <<database, provider, inbox, counters>>

\* The next line item, in any order: its handler reads the purchase, and
\* leaves one alone that is not in the status it expects.
NextItem(w, p) ==
    /\ job[w].pc = "items" /\ p \in job[w].todo
    /\ job' = IF purchase[p] = ItemFrom(job[w].op)
              THEN [job EXCEPT ![w].pc = "item", ![w].item = p, ![w].todo = @ \ {p}]
              ELSE [job EXCEPT ![w].todo = @ \ {p}]
    /\ UNCHANGED <<database, provider, inbox, counters>>

SaveItem(w) ==
    /\ job[w].pc = "item"
    /\ purchase' = [purchase EXCEPT ![job[w].item] = ItemTo(job[w].op)]
    /\ job' = [job EXCEPT ![w].pc = "moving"]
    /\ UNCHANGED <<status, paidBy, granted, balance, provider, inbox, counters>>

\* A refund is clamped to the balance; a credit is not.
TokenDelta(w) ==
    LET size == Size[job[w].item] IN
    IF job[w].op # "refunded" THEN size
    ELSE IF size <= balance THEN -size ELSE -balance

MoveTokens(w) ==
    /\ job[w].pc = "moving"
    /\ balance' = balance + TokenDelta(w)
    /\ granted' = [granted EXCEPT ![job[w].item] = @ + TokenDelta(w)]
    /\ job' = [job EXCEPT ![w].pc = "items", ![w].item = None]
    /\ UNCHANGED <<status, paidBy, purchase, provider, inbox, counters>>

\* A token movement hook raises: the movement is rolled back, and the line
\* item registry turns the exception into an error result nobody acts on.
HookVetoes(w) ==
    /\ HooksMayVeto /\ job[w].pc = "moving" /\ TokenDelta(w) # 0
    /\ job' = [job EXCEPT ![w].pc = "items", ![w].item = None]
    /\ UNCHANGED <<database, provider, inbox, counters>>

Finish(w) ==
    /\ job[w].pc = "items" /\ job[w].todo = {}
    /\ Done(w)
    /\ UNCHANGED <<database, provider, counters>>

\* The process dies: what it committed stays, its notification is unanswered.
Crash(w) ==
    /\ job[w].pc # "idle" /\ crashes < MaxCrashes
    /\ job' = [job EXCEPT ![w] = Idle]
    /\ crashes' = crashes + 1
    /\ UNCHANGED <<database, provider, inbox, repeats, reversals>>

\* The buyer spends tokens (debit_tokens, on some worker).
Spend(w) ==
    /\ job[w].pc = "idle" /\ balance > 0
    /\ balance' = balance - 1
    /\ UNCHANGED <<status, paidBy, purchase, granted, provider, inbox, job, counters>>

-----------------------------------------------------------------------------
Provider ==
    \/ \E i \in Invoices : \/ OpenSession(i) \/ CustomerPays(i) \/ CustomerAuthorizes(i)
                           \/ ProviderRefunds(i) \/ ProviderReverses(i)
    \/ \E m \in Message : ProviderRepeats(m)

Request(w) ==
    \E i \in Invoices :
       \/ AdminCaptured(w, i)
       \/ AdminMarksPaid(w, i)
       \/ \E op \in {"void", "fail"} : AdminCloses(w, op, i)
       \/ \E op \in {"capture", "release"} : BeginCapture(w, op, i)
       \/ AdminRefunds(w, i)

Proceed(w) ==
    \/ CallProvider(w)
    \/ CallRefund(w)
    \/ CheckRefund(w)
    \/ SaveInvoice(w)
    \/ EmitCaptured(w)
    \/ \E p \in Purchases : NextItem(w, p)
    \/ SaveItem(w)
    \/ MoveTokens(w)
    \/ Finish(w)

Next == \/ Provider
        \/ \E w \in Workers : \/ Request(w)
                              \/ \E m \in Message : Receive(w, m)
                              \/ Proceed(w)
                              \/ HookVetoes(w) \/ Crash(w) \/ Spend(w)

Spec == Init /\ [][Next]_vars

\* A worker that runs a handler goes on with it, and some worker takes up a
\* notification the provider keeps sending.
FairSpec ==
    /\ Spec
    /\ \A w \in Workers : WF_vars(Proceed(w))
    /\ \A m \in Message : SF_vars(\E w \in Workers : Receive(w, m))

-----------------------------------------------------------------------------
InvoiceStatus == {"PENDING", "AUTHORIZED", "PAID", "FAILED", "CANCELLED", "REFUNDED"}
PurchaseStatus == {"PENDING", "COMPLETED", "REFUNDED"}
Job == [pc : {"idle", "calling", "checking", "saving", "marked", "items", "item", "moving"},
        op : Operation, inv : Invoices \cup {None}, hook : BOOLEAN,
        seen : InvoiceStatus, todo : SUBSET Purchases, item : Purchases \cup {None}]

\* Type of every variable.
TypeOK ==
    /\ status \in [Invoices -> InvoiceStatus]
    /\ paidBy \in [Invoices -> {"none", "provider", "admin"}]
    /\ purchase \in [Purchases -> PurchaseStatus]
    /\ granted \in [Purchases -> Int]
    /\ balance \in Int
    /\ intent \in [Invoices -> {"none", "open", "held", "captured", "released", "refunded"}]
    /\ inbox \subseteq Message /\ sent \subseteq Message
    /\ job \in [Workers -> Job]
    /\ crashes \in Nat /\ repeats \in Nat /\ reversals \in Nat

AllIdle == \A w \in Workers : job[w].pc = "idle"

\* Between requests, none of which was cut short by the death of its process.
Settled == AllIdle /\ crashes = 0

\* Nothing is activated, paid or refunded without a captured event for its
\* invoice, whatever interleaves, is repeated, or dies half way.
NothingWithoutPayment ==
    \A i \in Invoices : paidBy[i] = "none" =>
        /\ status[i] \notin {"PAID", "REFUNDED"}
        /\ \A p \in Items[i] : purchase[p] = "PENDING"

\* An invoice the provider's captured event paid is one whose money the
\* provider took; CaptureService emits that event only after the capture.
PaidMeansCaptured ==
    \A i \in Invoices : paidBy[i] = "provider" => intent[i] \in {"captured", "refunded"}

\* Whatever interleaves, is repeated, or dies half way, what a customer gets and
\* what the books say goes back to an event, and a provider's event to its money.
MoneyComesFirst == NothingWithoutPayment /\ PaidMeansCaptured

\* Between requests, the ledger has the tokens of exactly the completed
\* purchases, however events are repeated and reordered.
TokensMatchPurchases ==
    Settled => \A p \in Purchases :
        granted[p] = IF purchase[p] = "COMPLETED" THEN Size[p] ELSE 0

\* Between requests, a refunded invoice has every bundle taken back and a paid
\* one has none left to activate.
ItemsAgreeWithInvoice ==
    Settled => \A i \in Invoices : \A p \in Items[i] :
        /\ status[i] = "REFUNDED" => purchase[p] = "REFUNDED"
        /\ status[i] = "PAID" => purchase[p] # "PENDING"

\* Between requests, invoice, purchases and tokens agree, however events are
\* repeated and reordered.
BooksAgree == TokensMatchPurchases /\ ItemsAgreeWithInvoice

\* Money the provider took is booked: the invoice is marked paid in the end,
\* though the process that captured it, or handled the notification, may die.
CapturedIsBooked ==
    \A i \in Invoices : intent[i] = "captured" ~> paidBy[i] # "none"

\* What token_balance_hooks says of a veto, that the whole unit of work is
\* rolled back: no purchase is left durably COMPLETED with no tokens.
CompletedHasTokens ==
    AllIdle => \A p \in Purchases : purchase[p] = "COMPLETED" => granted[p] > 0
=============================================================================
