---------------------------- MODULE TokenLedger -----------------------------
(***************************************************************************)
(* TokenService (services/token_service.py) on PostgreSQL: every balance   *)
(* change is one database transaction of one request worker, run at READ   *)
(* COMMITTED (config.py), so a worker reads the committed balance, then    *)
(* writes an absolute value computed from what it read.                    *)
(*                                                                         *)
(* A worker's transaction is the record tx[w]; nothing of it is visible to *)
(* the others before Commit.  The row lock that an UPDATE or INSERT takes  *)
(* until the transaction ends is derived from tx: see HoldsRow.            *)
(***************************************************************************)
EXTENDS Integers

CONSTANTS
    Workers,     \* request processes and threads
    Users,
    Purchases,   \* token bundle purchases
    Amounts,     \* amounts a request may ask for
    BuyerOf,     \* BuyerOf[p]: the user who made purchase p
    BundleSize,  \* BundleSize[p]: its token_amount
    Serves,      \* Serves[w]: the users whose requests w may handle
    MaxRows,     \* bound: no request starts for a user with this many rows
    None         \* the absent purchase, or the user of an idle worker

ASSUME LedgerConstants ==
    /\ Amounts \subseteq Nat \ {0}
    /\ BuyerOf \in [Purchases -> Users]
    /\ BundleSize \in [Purchases -> Nat \ {0}]
    /\ Serves \in [Workers -> SUBSET Users]
    /\ MaxRows \in Nat
    /\ None \notin Purchases \cup Users

VARIABLES
    rows,      \* users that have a committed vbwd_user_token_balance row
    balance,   \* its committed balance; 0 for a user without a row
    ledger,    \* sum of the user's committed vbwd_token_transaction amounts
    moves,     \* number of those rows
    purchase,  \* committed status of each purchase
    credited,  \* number of committed ledger rows that refer to a purchase
    tx         \* the open transaction of each worker

vars == <<rows, balance, ledger, moves, purchase, credited, tx>>

Idle == [pc |-> "idle", user |-> None, seen |-> 0, delta |-> 0,
         purchase |-> None, commit |-> TRUE]

Init == /\ rows = {}
        /\ balance = [u \in Users |-> 0]
        /\ ledger = [u \in Users |-> 0]
        /\ moves = [u \in Users |-> 0]
        /\ purchase = [p \in Purchases |-> "PENDING"]
        /\ credited = [p \in Purchases |-> 0]
        /\ tx = [w \in Workers |-> Idle]

-----------------------------------------------------------------------------
\* The balance row (or the unique key of one just inserted) is locked from the
\* first write of it to the end of the transaction.
HoldsRow(w, u) == tx[w].user = u /\ tx[w].pc \in {"created", "flushed", "composed"}

\* Mutant: a transaction waits for its own insert.
RowFreeOfAll(w) == \A v \in Workers : ~HoldsRow(v, tx[w].user)

RowFree(w) == \A v \in Workers \ {w} : ~HoldsRow(v, tx[w].user)

\* complete_purchase's UPDATE of the purchase row is sent by the autoflush of
\* the balance query that follows it, and locks the row from there.
HoldsPurchase(w, p) == tx[w].purchase = p /\ tx[w].pc \notin {"idle", "marking"}

PurchaseFree(w) == \A v \in Workers \ {w} : ~HoldsPurchase(v, tx[w].purchase)

\* A worker that may take up a request about u.
Begin(w, u) == tx[w].pc = "idle" /\ u \in Serves[w] /\ moves[u] < MaxRows

\* w has read u's balance row, or found none, and will move it by delta.
Read(w, u, delta, p, commit) ==
    tx' = [tx EXCEPT ![w] =
              [pc |-> IF u \in rows THEN "found" ELSE "missing", user |-> u,
               seen |-> balance[u], delta |-> delta, purchase |-> p,
               commit |-> commit]]

Ends(w) == tx' = [tx EXCEPT ![w] = Idle]

NothingCommitted == UNCHANGED <<rows, balance, ledger, moves, purchase, credited>>

-----------------------------------------------------------------------------
(***************************************************************************)
(* The requests, each up to the read its decision rests on.  A request     *)
(* that is refused (ValueError, a refund of nothing) writes nothing and is *)
(* no step.                                                                *)
(***************************************************************************)
CreditTokens(w, u, amount, commit) ==
    /\ Begin(w, u)
    /\ Read(w, u, amount, None, commit)
    /\ NothingCommitted

\* Mutant: no check of the balance.
DebitUnchecked(w, u, amount, commit) ==
    /\ Begin(w, u)
    /\ u \in rows
    /\ Read(w, u, -amount, None, commit)
    /\ NothingCommitted

DebitTokens(w, u, amount, commit) ==
    /\ Begin(w, u)
    /\ u \in rows
    /\ balance[u] >= amount
    /\ Read(w, u, -amount, None, commit)
    /\ NothingCommitted

\* Mutant: the refund is not clamped to the balance.
RefundUnclamped(w, u, amount, commit) ==
    /\ Begin(w, u)
    /\ u \in rows
    /\ balance[u] > 0
    /\ Read(w, u, -amount, None, commit)
    /\ NothingCommitted

\* A refund takes what there is, and is nothing when there is nothing.
RefundTokens(w, u, amount, commit) ==
    /\ Begin(w, u)
    /\ u \in rows
    /\ balance[u] > 0
    /\ Read(w, u, IF amount <= balance[u] THEN -amount ELSE -balance[u], None, commit)
    /\ NothingCommitted

\* Mutant: a purchase that is not pending is completed again.
CompleteAgain(w, p) ==
    /\ Begin(w, BuyerOf[p])
    /\ tx' = [tx EXCEPT ![w] = [Idle EXCEPT !.pc = "marking", !.purchase = p]]
    /\ NothingCommitted

\* complete_purchase reads the purchase and sets its status in the session.
CompletePurchase(w, p) ==
    /\ Begin(w, BuyerOf[p])
    /\ purchase[p] = "PENDING"
    /\ tx' = [tx EXCEPT ![w] = [Idle EXCEPT !.pc = "marking", !.purchase = p]]
    /\ NothingCommitted

\* Mutant: the status is saved, which commits it, before the credit.
MarkAndCommit(w) ==
    LET p == tx[w].purchase IN
    /\ tx[w].pc = "marking"
    /\ PurchaseFree(w)
    /\ Read(w, BuyerOf[p], BundleSize[p], p, TRUE)
    /\ purchase' = [purchase EXCEPT ![p] = "COMPLETED"]
    /\ UNCHANGED <<rows, balance, ledger, moves, credited>>

\* Its credit_tokens: the autoflush writes the status, then the balance is read.
MarkPurchase(w) ==
    LET p == tx[w].purchase IN
    /\ tx[w].pc = "marking"
    /\ PurchaseFree(w)
    /\ Read(w, BuyerOf[p], BundleSize[p], p, TRUE)
    /\ NothingCommitted

\* An administrator sets an absolute balance: the difference to the balance
\* read first ...
AdminReadBalance(w, u, target) ==
    /\ Begin(w, u)
    /\ target # balance[u]
    /\ tx' = [tx EXCEPT ![w] = [Idle EXCEPT !.pc = "adjusting", !.user = u,
                                            !.delta = target - balance[u]]]
    /\ NothingCommitted

\* ... becomes a credit, or a debit, that reads the balance again, refuses an
\* overdraft, and leaves the commit to admin_update.
AdminMoveBalance(w) ==
    LET u == tx[w].user IN
    /\ tx[w].pc = "adjusting"
    /\ IF tx[w].delta > 0 \/ (u \in rows /\ balance[u] + tx[w].delta >= 0)
       THEN Read(w, u, tx[w].delta, None, FALSE)
       ELSE Ends(w)
    /\ NothingCommitted

-----------------------------------------------------------------------------
\* get_or_create inserts a zero row; the unique key makes it wait for another
\* worker's uncommitted row, and fail (IntegrityError) on a committed one.
CreateRow(w) ==
    /\ tx[w].pc = "missing"
    /\ RowFree(w)
    /\ IF tx[w].user \in rows
       THEN Ends(w)
       ELSE tx' = [tx EXCEPT ![w].pc = "created"]
    /\ NothingCommitted

\* Mutant: the balance is saved, which commits it, before its transaction row.
FlushAndCommitBalance(w) ==
    /\ tx[w].pc \in {"found", "created"}
    /\ RowFree(w)
    /\ balance' = [balance EXCEPT ![tx[w].user] = tx[w].seen + tx[w].delta]
    /\ tx' = [tx EXCEPT ![w].pc = "flushed"]
    /\ UNCHANGED <<rows, ledger, moves, purchase, credited>>

\* _apply_movement flushes the new balance and the TokenTransaction.
Flush(w) ==
    /\ tx[w].pc \in {"found", "created"}
    /\ RowFree(w)
    /\ tx' = [tx EXCEPT ![w].pc = "flushed"]
    /\ NothingCommitted

\* A token movement hook raises: the whole unit of work is rolled back.
HookVetoes(w) ==
    /\ tx[w].pc = "flushed"
    /\ Ends(w)
    /\ NothingCommitted

\* commit=False: the hooks have run, the transaction is now the caller's ...
LeaveToCaller(w) ==
    /\ tx[w].pc = "flushed" /\ ~tx[w].commit
    /\ tx' = [tx EXCEPT ![w].pc = "composed"]
    /\ NothingCommitted

\* ... who may still fail and roll it back.
CallerRollsBack(w) ==
    /\ tx[w].pc = "composed"
    /\ Ends(w)
    /\ NothingCommitted

\* The process dies, or loses its connection: the database rolls back.
Crash(w) ==
    /\ tx[w].pc # "idle"
    /\ Ends(w)
    /\ NothingCommitted

\* Mutant: an absolute write of the balance with no TokenTransaction.
CommitBalanceOnly(w) ==
    LET t == tx[w] IN
    /\ t.pc = "composed" \/ (t.pc = "flushed" /\ t.commit)
    /\ rows' = rows \cup {t.user}
    /\ balance' = [balance EXCEPT ![t.user] = t.seen + t.delta]
    /\ Ends(w)
    /\ UNCHANGED <<ledger, moves, purchase, credited>>

\* Mutant: the row is written under the id of the purchase.
CommitUnderPurchase(w) ==
    LET t == tx[w] IN
    /\ t.pc = "composed" \/ (t.pc = "flushed" /\ t.commit)
    /\ rows' = rows \cup {t.purchase}
    /\ Ends(w)
    /\ UNCHANGED <<balance, ledger, moves, purchase, credited>>

\* The commit makes the balance written by Flush, the ledger row and the
\* status of the purchase durable at once.
Commit(w) ==
    LET t == tx[w] IN
    /\ t.pc = "composed" \/ (t.pc = "flushed" /\ t.commit)
    /\ rows' = rows \cup {t.user}
    /\ balance' = [balance EXCEPT ![t.user] = t.seen + t.delta]
    /\ ledger' = [ledger EXCEPT ![t.user] = @ + t.delta]
    /\ moves' = [moves EXCEPT ![t.user] = @ + 1]
    /\ purchase' = [p \in Purchases |-> IF p = t.purchase THEN "COMPLETED" ELSE purchase[p]]
    /\ credited' = [p \in Purchases |-> IF p = t.purchase THEN credited[p] + 1 ELSE credited[p]]
    /\ Ends(w)

-----------------------------------------------------------------------------
\* The requests a worker may be given: a caller, or an administrator, decides.
Request(w) ==
    \/ \E u \in Users, amount \in Amounts, commit \in BOOLEAN :
          \/ CreditTokens(w, u, amount, commit)
          \/ DebitTokens(w, u, amount, commit)
          \/ RefundTokens(w, u, amount, commit)
    \/ \E u \in Users, target \in Amounts \cup {0} : AdminReadBalance(w, u, target)
    \/ \E p \in Purchases : CompletePurchase(w, p)

\* The steps a worker takes by itself once it has a request.
Proceed(w) ==
    \/ MarkPurchase(w)
    \/ AdminMoveBalance(w)
    \/ CreateRow(w)
    \/ Flush(w)
    \/ LeaveToCaller(w)
    \/ Commit(w)

Fail(w) == HookVetoes(w) \/ CallerRollsBack(w) \/ Crash(w)

\* Nobody asks for anything, or every user is at the bound.
Quiet == (\A w \in Workers : tx[w].pc = "idle") /\ UNCHANGED vars

Next == \/ \E w \in Workers : Request(w) \/ Proceed(w) \/ Fail(w)
        \/ Quiet

Spec == Init /\ [][Next]_vars

\* A worker that holds a request keeps running, and PostgreSQL grants a row
\* lock to its waiters in turn, so a wait that is over again and again ends.
FairSpec == Spec /\ \A w \in Workers : SF_vars(Proceed(w))

-----------------------------------------------------------------------------
TransactionType ==
    [pc : {"idle", "marking", "adjusting", "missing", "found", "created",
           "flushed", "composed"},
     user : Users \cup {None}, seen : Int, delta : Int,
     purchase : Purchases \cup {None}, commit : BOOLEAN]

\* Type of every variable.
TypeOK ==
    /\ rows \subseteq Users
    /\ balance \in [Users -> Int]
    /\ ledger \in [Users -> Int]
    /\ moves \in [Users -> Nat]
    /\ purchase \in [Purchases -> {"PENDING", "COMPLETED"}]
    /\ credited \in [Purchases -> Nat]
    /\ tx \in [Workers -> TransactionType]

\* However requests of a user interleave, a committed balance is not negative:
\* every write is an absolute value that its own read covered.
NeverNegative == \A u \in Users : balance[u] >= 0

\* A purchase is COMPLETED exactly when its tokens are in the ledger, whatever
\* crashed, was vetoed or ran at the same time (complete_purchase is one unit
\* of work; it once committed the status first).
CompletedIffCredited ==
    \A p \in Purchases : purchase[p] = "COMPLETED" <=> credited[p] > 0

\* No change of a balance is without its ledger row.
BalanceMovesWithLedger ==
    [][\A u \in Users : balance'[u] # balance[u] => moves'[u] = moves[u] + 1]_vars

\* Every request ends: no set of workers waits on each other's row locks.
EveryRequestEnds == \A w \in Workers : tx[w].pc # "idle" ~> tx[w].pc = "idle"

\* The invariant UserService._apply_token_balance names: the balance is the
\* sum of the amounts of the user's TokenTransaction rows.
BalanceIsLedgerSum == \A u \in Users : balance[u] = ledger[u]

\* A purchase is credited at most once.
CreditedOnce == \A p \in Purchases : credited[p] <= 1

\* Both, of users who send one request at a time.
LedgerIsExact == BalanceIsLedgerSum /\ CreditedOnce

\* No two workers handle requests of the same user at the same time.
SerialPerUser ==
    \A v, w \in Workers : v # w => Serves[v] \cap Serves[w] = {}

Account == INSTANCE TokenAccount WITH Users <- Users, balance <- balance, ledger <- ledger

\* One user's requests in turn are what TokenAccount promises.
ImplementsAccount == Account!Spec
=============================================================================
