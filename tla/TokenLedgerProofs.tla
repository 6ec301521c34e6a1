------------------------- MODULE TokenLedgerProofs --------------------------
(***************************************************************************)
(* What TokenService guarantees, proved for every number of workers, users *)
(* and purchases: what holds however requests interleave, and what more    *)
(* holds when no two workers handle requests of the same user at a time.   *)
(***************************************************************************)
EXTENDS TokenLedger, TLAPS

-----------------------------------------------------------------------------
(***************************************************************************)
(* However requests interleave.  The inductive invariant adds to the       *)
(* properties what a transaction knows: the absolute balance it will write *)
(* is covered by the balance it read, whatever was committed since.        *)
(***************************************************************************)
Moving == {"missing", "found", "created", "flushed", "composed"}

Covered(t) ==
    /\ t.pc \in Moving => t.user \in Users /\ t.seen + t.delta >= 0
    /\ t.pc = "adjusting" => t.user \in Users
    /\ t.pc = "marking" => t.purchase \in Purchases

Inv == /\ TypeOK
       /\ NeverNegative
       /\ CompletedIffCredited
       /\ \A w \in Workers : Covered(tx[w])

\* A step that only moves on one transaction, to a covered state, keeps Inv.
LEMMA OneTransaction ==
    ASSUME Inv, NEW w \in Workers, NEW t \in TransactionType, Covered(t),
           tx' = [tx EXCEPT ![w] = t], NothingCommitted
    PROVE  Inv'
<1>1. TypeOK'
    BY DEF Inv, TypeOK, NothingCommitted
<1>2. NeverNegative' /\ CompletedIffCredited'
    BY DEF Inv, NeverNegative, CompletedIffCredited, NothingCommitted
<1>3. ASSUME NEW v \in Workers PROVE Covered(tx[v])'
  <2>1. tx'[v] = IF v = w THEN t ELSE tx[v]
      BY DEF Inv, TypeOK
  <2>2. Covered(tx'[v])
      BY <2>1 DEF Inv
  <2>3. QED
      BY <2>2 DEF Covered
<1>4. QED
    BY <1>1, <1>2, <1>3 DEF Inv

\* A request may read a balance and mean to move it by what the balance covers.
LEMMA ReadCovered ==
    ASSUME Inv, NEW w \in Workers, NEW u \in Users, NEW delta \in Int,
           NEW p \in Purchases \cup {None}, NEW commit \in BOOLEAN,
           balance[u] + delta >= 0, Read(w, u, delta, p, commit), NothingCommitted
    PROVE  Inv'
<1> DEFINE t == [pc |-> IF u \in rows THEN "found" ELSE "missing", user |-> u,
                 seen |-> balance[u], delta |-> delta, purchase |-> p,
                 commit |-> commit]
<1>1. t \in TransactionType /\ Covered(t)
    BY DEF Inv, TypeOK, TransactionType, Covered, Moving
<1>2. tx' = [tx EXCEPT ![w] = t]
    BY DEF Read
<1>3. QED
    BY <1>1, <1>2, OneTransaction

\* A worker without a transaction is covered.
LEMMA IdleCovered == Idle \in TransactionType /\ Covered(Idle)
BY DEF Idle, TransactionType, Covered, Moving

\* A transaction may be rolled back at any time.
LEMMA EndsCovered ==
    ASSUME Inv, NEW w \in Workers, Ends(w), NothingCommitted
    PROVE  Inv'
BY IdleCovered, OneTransaction DEF Ends

\* A transaction that keeps what it knows may go on to another of its steps.
LEMMA GoesOnCovered ==
    ASSUME Inv, NEW w \in Workers, tx[w].pc \in Moving, NEW pc \in Moving,
           tx' = [tx EXCEPT ![w].pc = pc], NothingCommitted
    PROVE  Inv'
<1> DEFINE t == [tx[w] EXCEPT !.pc = pc]
<1>1. t \in TransactionType /\ Covered(t)
    BY DEF Inv, TypeOK, TransactionType, Covered, Moving
<1>2. tx' = [tx EXCEPT ![w] = t]
    OBVIOUS
<1>3. QED
    BY <1>1, <1>2, OneTransaction

\* Committing a covered write leaves no balance negative, and a purchase its
\* status and its ledger row together.
LEMMA CommitInv ==
    ASSUME Inv, NEW w \in Workers, Commit(w)
    PROVE  Inv'
<1> DEFINE t == tx[w]
<1>1. t \in TransactionType /\ t.user \in Users /\ t.seen + t.delta >= 0
    BY DEF Inv, TypeOK, Covered, Moving, Commit
<1>2. t.delta \in Int /\ t.seen + t.delta \in Int
    BY <1>1 DEF TransactionType
<1>3. /\ rows' = rows \cup {t.user}
      /\ balance' = [balance EXCEPT ![t.user] = t.seen + t.delta]
      /\ ledger' = [ledger EXCEPT ![t.user] = @ + t.delta]
      /\ moves' = [moves EXCEPT ![t.user] = @ + 1]
      /\ purchase' = [p \in Purchases |->
                        IF p = t.purchase THEN "COMPLETED" ELSE purchase[p]]
      /\ credited' = [p \in Purchases |->
                        IF p = t.purchase THEN credited[p] + 1 ELSE credited[p]]
      /\ tx' = [tx EXCEPT ![w] = Idle]
    BY DEF Commit, Ends
<1> HIDE DEF t
<1>4. TypeOK'
    BY <1>1, <1>2, <1>3, IdleCovered DEF Inv, TypeOK
<1>5. NeverNegative'
    BY <1>1, <1>3 DEF Inv, TypeOK, NeverNegative
<1>6. CompletedIffCredited'
    BY <1>3 DEF Inv, TypeOK, CompletedIffCredited
<1>7. ASSUME NEW v \in Workers PROVE Covered(tx[v])'
  <2>1. Covered(tx'[v])
      BY <1>3, IdleCovered DEF Inv, TypeOK
  <2>2. QED
      BY <2>1 DEF Covered
<1>8. QED
    BY <1>4, <1>5, <1>6, <1>7 DEF Inv

\* The initial state satisfies the invariant.
LEMMA InvInit == Init => Inv
BY LedgerConstants DEF Init, Inv, TypeOK, NeverNegative, CompletedIffCredited,
                       Idle, TransactionType, Covered, Moving

\* Every step of TokenService keeps the invariant.
LEMMA InvNext == Inv /\ [Next]_vars => Inv'
<1> SUFFICES ASSUME Inv, [Next]_vars PROVE Inv'
    OBVIOUS
<1>a. /\ \A u \in Users : balance[u] \in Int /\ balance[u] >= 0
      /\ \A amount \in Amounts : amount \in Int /\ amount > 0
    BY LedgerConstants DEF Inv, TypeOK, NeverNegative
<1>1. ASSUME NEW w \in Workers, NEW u \in Users, NEW amount \in Amounts,
             NEW commit \in BOOLEAN, CreditTokens(w, u, amount, commit)
      PROVE  Inv'
  <2>1. amount \in Int /\ balance[u] + amount >= 0
      BY <1>a
  <2>2. QED
      BY <1>1, <2>1, ReadCovered DEF CreditTokens
<1>2. ASSUME NEW w \in Workers, NEW u \in Users, NEW amount \in Amounts,
             NEW commit \in BOOLEAN, DebitTokens(w, u, amount, commit)
      PROVE  Inv'
  <2>1. -amount \in Int /\ balance[u] + (-amount) >= 0
      BY <1>2, <1>a DEF DebitTokens
  <2>2. QED
      BY <1>2, <2>1, ReadCovered DEF DebitTokens
<1>3. ASSUME NEW w \in Workers, NEW u \in Users, NEW amount \in Amounts,
             NEW commit \in BOOLEAN, RefundTokens(w, u, amount, commit)
      PROVE  Inv'
  <2> DEFINE delta == IF amount <= balance[u] THEN -amount ELSE -balance[u]
  <2>1. delta \in Int /\ balance[u] + delta >= 0
      BY <1>a
  <2>2. Read(w, u, delta, None, commit) /\ NothingCommitted
      BY <1>3 DEF RefundTokens
  <2> HIDE DEF delta
  <2>3. QED
      BY <2>1, <2>2, ReadCovered
<1>4. ASSUME NEW w \in Workers, NEW u \in Users, NEW target \in Amounts \cup {0},
             AdminReadBalance(w, u, target)
      PROVE  Inv'
  <2> DEFINE t == [Idle EXCEPT !.pc = "adjusting", !.user = u,
                               !.delta = target - balance[u]]
  <2>1. target - balance[u] \in Int
      BY <1>a
  <2>2. t \in TransactionType /\ Covered(t)
      BY <2>1, IdleCovered DEF TransactionType, Covered, Moving
  <2>3. tx' = [tx EXCEPT ![w] = t] /\ NothingCommitted
      BY <1>4 DEF AdminReadBalance
  <2>4. QED
      BY <2>2, <2>3, OneTransaction
<1>5. ASSUME NEW w \in Workers, NEW p \in Purchases, CompletePurchase(w, p)
      PROVE  Inv'
  <2> DEFINE t == [Idle EXCEPT !.pc = "marking", !.purchase = p]
  <2>1. t \in TransactionType /\ Covered(t)
      BY IdleCovered DEF TransactionType, Covered, Moving
  <2>2. tx' = [tx EXCEPT ![w] = t] /\ NothingCommitted
      BY <1>5 DEF CompletePurchase
  <2>3. QED
      BY <2>1, <2>2, OneTransaction
<1>6. ASSUME NEW w \in Workers, MarkPurchase(w) PROVE Inv'
  <2> DEFINE p == tx[w].purchase
  <2>1. p \in Purchases
      BY <1>6 DEF Inv, Covered, MarkPurchase
  <2>2. Read(w, BuyerOf[p], BundleSize[p], p, TRUE) /\ NothingCommitted
      BY <1>6 DEF MarkPurchase
  <2> HIDE DEF p
  <2>3. BuyerOf[p] \in Users /\ BundleSize[p] \in Int /\ BundleSize[p] > 0
      BY <2>1, LedgerConstants
  <2>4. balance[BuyerOf[p]] + BundleSize[p] >= 0
      BY <2>3, <1>a
  <2>5. QED
      BY <2>1, <2>2, <2>3, <2>4, ReadCovered
<1>7. ASSUME NEW w \in Workers, AdminMoveBalance(w) PROVE Inv'
  <2> DEFINE u == tx[w].user
             delta == tx[w].delta
  <2>1. u \in Users /\ delta \in Int
      BY <1>7 DEF Inv, TypeOK, TransactionType, Covered, AdminMoveBalance
  <2>2. CASE delta > 0 \/ (u \in rows /\ balance[u] + delta >= 0)
    <3>1. Read(w, u, delta, None, FALSE) /\ NothingCommitted
        BY <1>7, <2>2 DEF AdminMoveBalance
    <3>2. balance[u] + delta >= 0
        BY <2>1, <2>2, <1>a
    <3> HIDE DEF u, delta
    <3>3. QED
        BY <2>1, <3>1, <3>2, ReadCovered
  <2>3. CASE ~(delta > 0 \/ (u \in rows /\ balance[u] + delta >= 0))
      BY <1>7, <2>3, EndsCovered DEF AdminMoveBalance
  <2>4. QED
      BY <2>2, <2>3
<1>8. ASSUME NEW w \in Workers, CreateRow(w) PROVE Inv'
  <2>1. CASE tx[w].user \in rows
      BY <1>8, <2>1, EndsCovered DEF CreateRow
  <2>2. CASE tx[w].user \notin rows
      BY <1>8, <2>2, GoesOnCovered DEF CreateRow, Moving
  <2>3. QED
      BY <2>1, <2>2
<1>9. ASSUME NEW w \in Workers, Flush(w) \/ LeaveToCaller(w) PROVE Inv'
    BY <1>9, GoesOnCovered DEF Flush, LeaveToCaller, Moving
<1>10. ASSUME NEW w \in Workers, Fail(w) PROVE Inv'
    BY <1>10, EndsCovered DEF Fail, HookVetoes, CallerRollsBack, Crash
<1>11. CASE Quiet \/ UNCHANGED vars
    BY <1>11 DEF Inv, TypeOK, NeverNegative, CompletedIffCredited, Covered, Quiet, vars
<1>12. QED
    BY <1>1, <1>2, <1>3, <1>4, <1>5, <1>6, <1>7, <1>8, <1>9, <1>10, <1>11,
       CommitInv DEF Next, Request, Proceed

\* The invariant holds in every reachable state of the token service.
THEOREM Invariant == Spec => []Inv
BY InvInit, InvNext, PTL DEF Spec

\* Every variable keeps its type.
THEOREM TypeCorrect == Spec => []TypeOK
<1>1. Inv => TypeOK
    BY DEF Inv
<1>2. QED
    BY <1>1, Invariant, PTL

\* No committed balance of TokenService is ever negative, though debits check a
\* balance that others may be changing.
THEOREM NoOverdraft == Spec => []NeverNegative
<1>1. Inv => NeverNegative
    BY DEF Inv
<1>2. QED
    BY <1>1, Invariant, PTL

\* complete_purchase is one unit of work: a purchase is COMPLETED exactly when
\* its tokens are in the ledger.
THEOREM CompletionIsAtomic == Spec => []CompletedIffCredited
<1>1. Inv => CompletedIffCredited
    BY DEF Inv
<1>2. QED
    BY <1>1, Invariant, PTL

\* Every step but a commit leaves what is committed as it is.
LEMMA OnlyCommitCommits ==
    ASSUME [Next]_vars
    PROVE  NothingCommitted \/ \E w \in Workers : Commit(w)
<1>1. ASSUME NEW w \in Workers, Request(w)
      PROVE  NothingCommitted
    BY <1>1 DEF Request, CreditTokens, DebitTokens, RefundTokens, AdminReadBalance,
                CompletePurchase
<1>2. ASSUME NEW w \in Workers, Proceed(w)
      PROVE  NothingCommitted \/ Commit(w)
    BY <1>2 DEF Proceed, MarkPurchase, AdminMoveBalance, CreateRow, Flush,
                LeaveToCaller
<1>3. ASSUME NEW w \in Workers, Fail(w)
      PROVE  NothingCommitted
    BY <1>3 DEF Fail, HookVetoes, CallerRollsBack, Crash
<1>4. CASE Quiet \/ UNCHANGED vars
    BY <1>4 DEF Quiet, vars, NothingCommitted
<1>5. QED
    BY <1>1, <1>2, <1>3, <1>4 DEF Next

\* A step of _apply_movement that changes a balance adds one ledger row.
THEOREM NoSilentMovement == Spec => BalanceMovesWithLedger
<1>1. Inv /\ [Next]_vars =>
          [\A u \in Users : balance'[u] # balance[u] => moves'[u] = moves[u] + 1]_vars
  <2> SUFFICES ASSUME Inv, [Next]_vars, NEW u \in Users, balance'[u] # balance[u]
               PROVE  moves'[u] = moves[u] + 1
      OBVIOUS
  <2>1. CASE NothingCommitted
      BY <2>1 DEF NothingCommitted
  <2>2. ASSUME NEW w \in Workers, Commit(w)
        PROVE  moves'[u] = moves[u] + 1
    <3>1. u = tx[w].user
        BY <2>2 DEF Commit, Inv, TypeOK
    <3>2. moves' = [moves EXCEPT ![u] = @ + 1]
        BY <2>2, <3>1 DEF Commit
    <3>3. QED
        BY <3>2 DEF Inv, TypeOK
  <2>3. QED
      BY <2>1, <2>2, OnlyCommitCommits
<1>2. QED
    BY <1>1, Invariant, PTL DEF Spec, BalanceMovesWithLedger

-----------------------------------------------------------------------------
(***************************************************************************)
(* When the requests of a user are handled one after the other.  A         *)
(* transaction's read is then still fresh when it commits, and the         *)
(* purchase it completes still pending.                                    *)
(***************************************************************************)
Fresh(w) ==
    /\ tx[w].pc = "adjusting" => tx[w].user \in Serves[w]
    /\ tx[w].pc \in Moving =>
          tx[w].user \in Serves[w] /\ tx[w].seen = balance[tx[w].user]
    /\ tx[w].purchase # None =>
          BuyerOf[tx[w].purchase] \in Serves[w] /\ purchase[tx[w].purchase] = "PENDING"

SerialInv == /\ BalanceIsLedgerSum
             /\ CreditedOnce
             /\ \A w \in Workers : Fresh(w)

\* The initial state is fresh.
LEMMA SerialInit == Init => SerialInv
BY DEF Init, SerialInv, BalanceIsLedgerSum, CreditedOnce, Fresh, Idle, Moving

\* A step that commits nothing and leaves its own transaction fresh.
LEMMA SerialQuietStep ==
    ASSUME SerialInv, NEW w \in Workers, NEW t, tx' = [tx EXCEPT ![w] = t],
           tx \in [Workers -> TransactionType], NothingCommitted,
           t.pc = "adjusting" => t.user \in Serves[w],
           t.pc \in Moving => t.user \in Serves[w] /\ t.seen = balance[t.user],
           t.purchase # None =>
               BuyerOf[t.purchase] \in Serves[w] /\ purchase[t.purchase] = "PENDING"
    PROVE  SerialInv'
<1>1. BalanceIsLedgerSum' /\ CreditedOnce'
    BY DEF SerialInv, NothingCommitted, BalanceIsLedgerSum, CreditedOnce
<1>2. ASSUME NEW v \in Workers PROVE Fresh(v)'
  <2>1. CASE v = w
    <3>1. tx'[v] = t
        BY <2>1
    <3>2. QED
        BY <2>1, <3>1 DEF Fresh, NothingCommitted
  <2>2. CASE v # w
    <3>1. tx'[v] = tx[v]
        BY <2>2
    <3>2. Fresh(v)
        BY DEF SerialInv
    <3>3. QED
        BY <3>1, <3>2 DEF Fresh, NothingCommitted
  <2>3. QED
      BY <2>1, <2>2
<1>3. QED
    BY <1>1, <1>2 DEF SerialInv

\* A request may read the balance of a user its worker serves.
LEMMA SerialRead ==
    ASSUME Inv, SerialInv, NEW w \in Workers, NEW u \in Serves[w], NEW delta,
           NEW p, NEW commit, Read(w, u, delta, p, commit), NothingCommitted,
           p # None => BuyerOf[p] \in Serves[w] /\ purchase[p] = "PENDING"
    PROVE  SerialInv'
<1> DEFINE t == [pc |-> IF u \in rows THEN "found" ELSE "missing", user |-> u,
                 seen |-> balance[u], delta |-> delta, purchase |-> p,
                 commit |-> commit]
<1>1. tx' = [tx EXCEPT ![w] = t]
    BY DEF Read
<1>2. /\ t.pc # "adjusting"
      /\ t.user \in Serves[w] /\ t.seen = balance[t.user]
      /\ t.purchase = p
    OBVIOUS
<1>3. tx \in [Workers -> TransactionType]
    BY DEF Inv, TypeOK
<1> HIDE DEF t
<1>4. QED
    BY <1>1, <1>2, <1>3, SerialQuietStep

\* A transaction may be rolled back.
LEMMA SerialEnds ==
    ASSUME Inv, SerialInv, NEW w \in Workers, Ends(w), NothingCommitted
    PROVE  SerialInv'
<1>1. Idle.pc = "idle" /\ Idle.purchase = None
    BY DEF Idle
<1>2. tx' = [tx EXCEPT ![w] = Idle] /\ tx \in [Workers -> TransactionType]
    BY DEF Ends, Inv, TypeOK
<1>3. QED
    BY <1>1, <1>2, SerialQuietStep DEF Moving

\* A transaction may go on to another of its steps.
LEMMA SerialGoesOn ==
    ASSUME Inv, SerialInv, NEW w \in Workers, tx[w].pc \in Moving, NEW pc \in Moving,
           tx' = [tx EXCEPT ![w].pc = pc], NothingCommitted
    PROVE  SerialInv'
<1> DEFINE t == [tx[w] EXCEPT !.pc = pc]
<1>1. tx \in [Workers -> TransactionType] /\ tx[w] \in TransactionType
    BY DEF Inv, TypeOK
<1>2. /\ t.pc = pc /\ t.user = tx[w].user
      /\ t.seen = tx[w].seen /\ t.purchase = tx[w].purchase
    BY <1>1 DEF TransactionType
<1>3. tx' = [tx EXCEPT ![w] = t]
    OBVIOUS
<1>4. Fresh(w)
    BY DEF SerialInv
<1> HIDE DEF t
<1>5. QED
    BY <1>1, <1>2, <1>3, <1>4, SerialQuietStep DEF Fresh, Moving

\* A commit of what is fresh keeps balance and ledger equal, credits a purchase
\* that had no credit, and touches nothing another worker has read.
LEMMA SerialCommit ==
    ASSUME Inv, SerialInv, SerialPerUser, NEW w \in Workers, Commit(w)
    PROVE  SerialInv'
<1> DEFINE t == tx[w]
<1>1. /\ t \in TransactionType /\ t.user \in Users
      /\ tx \in [Workers -> TransactionType]
    BY DEF Inv, TypeOK, Covered, Moving, Commit
<1>2. /\ t.user \in Serves[w] /\ t.seen = balance[t.user]
      /\ t.purchase # None =>
            BuyerOf[t.purchase] \in Serves[w] /\ purchase[t.purchase] = "PENDING"
    BY DEF SerialInv, Fresh, Moving, Commit
<1>3. /\ balance' = [balance EXCEPT ![t.user] = t.seen + t.delta]
      /\ ledger' = [ledger EXCEPT ![t.user] = @ + t.delta]
      /\ purchase' = [p \in Purchases |->
                        IF p = t.purchase THEN "COMPLETED" ELSE purchase[p]]
      /\ credited' = [p \in Purchases |->
                        IF p = t.purchase THEN credited[p] + 1 ELSE credited[p]]
      /\ tx' = [tx EXCEPT ![w] = Idle]
    BY DEF Commit, Ends
<1> HIDE DEF t
<1>4. BalanceIsLedgerSum'
    BY <1>1, <1>2, <1>3 DEF Inv, TypeOK, SerialInv, BalanceIsLedgerSum
<1>5. CreditedOnce'
  <2> SUFFICES ASSUME NEW p \in Purchases PROVE credited'[p] <= 1
      BY DEF CreditedOnce
  <2>1. CASE p = t.purchase
    <3>1. purchase[p] = "PENDING"
        BY <1>2, <2>1, LedgerConstants
    <3>2. credited[p] = 0
        BY <3>1 DEF Inv, TypeOK, CompletedIffCredited
    <3>3. QED
        BY <1>3, <2>1, <3>2
  <2>2. CASE p # t.purchase
      BY <1>3, <2>2 DEF SerialInv, CreditedOnce
  <2>3. QED
      BY <2>1, <2>2
<1>6. ASSUME NEW v \in Workers PROVE Fresh(v)'
  <2>1. CASE v = w
    <3>1. tx'[v].pc = "idle" /\ tx'[v].purchase = None
        BY <1>1, <1>3, <2>1 DEF Idle
    <3>2. QED
        BY <3>1 DEF Fresh, Moving
  <2>2. CASE v # w
    <3>1. tx'[v] = tx[v] /\ tx[v] \in TransactionType /\ Covered(tx[v]) /\ Fresh(v)
        BY <1>1, <1>3, <2>2 DEF SerialInv, Inv
    <3>2. Serves[v] \cap Serves[w] = {}
        BY <2>2 DEF SerialPerUser
    <3>3. tx[v].pc \in Moving => balance'[tx[v].user] = balance[tx[v].user]
        BY <1>2, <1>3, <3>1, <3>2 DEF Inv, TypeOK, Fresh, Covered
    <3>4. tx[v].purchase # None =>
              purchase'[tx[v].purchase] = purchase[tx[v].purchase]
        BY <1>2, <1>3, <3>1, <3>2 DEF Fresh, TransactionType
    <3>5. QED
        BY <3>1, <3>3, <3>4 DEF Fresh
  <2>3. QED
      BY <2>1, <2>2
<1>7. QED
    BY <1>4, <1>5, <1>6 DEF SerialInv

\* Every step keeps the serial invariant.
LEMMA SerialNext ==
    ASSUME SerialPerUser
    PROVE  Inv /\ SerialInv /\ [Next]_vars => SerialInv'
<1> SUFFICES ASSUME Inv, SerialInv, [Next]_vars PROVE SerialInv'
    OBVIOUS
<1>a. tx \in [Workers -> TransactionType]
    BY DEF Inv, TypeOK
<1>1. ASSUME NEW w \in Workers, NEW u \in Users, NEW amount \in Amounts,
             NEW commit \in BOOLEAN,
             \/ CreditTokens(w, u, amount, commit)
             \/ DebitTokens(w, u, amount, commit)
             \/ RefundTokens(w, u, amount, commit)
      PROVE  SerialInv'
  <2>1. PICK delta : Read(w, u, delta, None, commit)
      BY <1>1 DEF CreditTokens, DebitTokens, RefundTokens
  <2>2. u \in Serves[w] /\ NothingCommitted
      BY <1>1 DEF CreditTokens, DebitTokens, RefundTokens, Begin
  <2>3. QED
      BY <2>1, <2>2, SerialRead
<1>2. ASSUME NEW w \in Workers, NEW u \in Users, NEW target \in Amounts \cup {0},
             AdminReadBalance(w, u, target)
      PROVE  SerialInv'
  <2> DEFINE t == [Idle EXCEPT !.pc = "adjusting", !.user = u,
                               !.delta = target - balance[u]]
  <2>1. t.pc = "adjusting" /\ t.user = u /\ t.purchase = None
      BY DEF Idle
  <2>2. tx' = [tx EXCEPT ![w] = t] /\ NothingCommitted /\ u \in Serves[w]
      BY <1>2 DEF AdminReadBalance, Begin
  <2> HIDE DEF t
  <2>3. QED
      BY <1>a, <2>1, <2>2, SerialQuietStep DEF Moving
<1>3. ASSUME NEW w \in Workers, NEW p \in Purchases, CompletePurchase(w, p)
      PROVE  SerialInv'
  <2> DEFINE t == [Idle EXCEPT !.pc = "marking", !.purchase = p]
  <2>1. t.pc = "marking" /\ t.purchase = p
      BY DEF Idle
  <2>2. /\ tx' = [tx EXCEPT ![w] = t] /\ NothingCommitted
        /\ BuyerOf[p] \in Serves[w] /\ purchase[p] = "PENDING"
      BY <1>3 DEF CompletePurchase, Begin
  <2> HIDE DEF t
  <2>3. QED
      BY <1>a, <2>1, <2>2, SerialQuietStep DEF Moving
<1>4. ASSUME NEW w \in Workers, MarkPurchase(w) PROVE SerialInv'
  <2> DEFINE p == tx[w].purchase
  <2>1. p \in Purchases /\ Fresh(w)
      BY <1>4 DEF Inv, Covered, MarkPurchase, SerialInv
  <2>2. p # None
      BY <2>1, LedgerConstants
  <2>3. BuyerOf[p] \in Serves[w] /\ purchase[p] = "PENDING"
      BY <2>1, <2>2 DEF Fresh
  <2>4. Read(w, BuyerOf[p], BundleSize[p], p, TRUE) /\ NothingCommitted
      BY <1>4 DEF MarkPurchase
  <2> HIDE DEF p
  <2>5. QED
      BY <2>3, <2>4, SerialRead
<1>5. ASSUME NEW w \in Workers, AdminMoveBalance(w) PROVE SerialInv'
  <2>1. tx[w].user \in Serves[w] /\ NothingCommitted
      BY <1>5 DEF AdminMoveBalance, SerialInv, Fresh
  <2>2. Ends(w) \/ Read(w, tx[w].user, tx[w].delta, None, FALSE)
      BY <1>5 DEF AdminMoveBalance
  <2>3. QED
      BY <2>1, <2>2, SerialRead, SerialEnds
<1>6. ASSUME NEW w \in Workers, CreateRow(w) PROVE SerialInv'
    BY <1>6, SerialEnds, SerialGoesOn DEF CreateRow, Moving
<1>7. ASSUME NEW w \in Workers, Flush(w) \/ LeaveToCaller(w) PROVE SerialInv'
    BY <1>7, SerialGoesOn DEF Flush, LeaveToCaller, Moving
<1>8. ASSUME NEW w \in Workers, Fail(w) PROVE SerialInv'
    BY <1>8, SerialEnds DEF Fail, HookVetoes, CallerRollsBack, Crash
<1>9. CASE Quiet \/ UNCHANGED vars
    BY <1>9 DEF SerialInv, BalanceIsLedgerSum, CreditedOnce, Fresh, Quiet, vars
<1>10. QED
    BY <1>1, <1>2, <1>3, <1>4, <1>5, <1>6, <1>7, <1>8, <1>9, SerialCommit
       DEF Next, Request, Proceed

\* If no two workers handle requests of the same user at once, the balance is
\* the sum of the ledger, as UserService._apply_token_balance says it is.
THEOREM SerialLedger ==
    ASSUME SerialPerUser
    PROVE  Spec => []BalanceIsLedgerSum
<1>1. SerialInv => BalanceIsLedgerSum
    BY DEF SerialInv
<1>2. QED
    BY <1>1, SerialInit, SerialNext, Invariant, PTL DEF Spec

\* ... and complete_purchase credits a purchase at most once.
THEOREM SerialExact ==
    ASSUME SerialPerUser
    PROVE  Spec => []LedgerIsExact
<1>1. SerialInv => LedgerIsExact
    BY DEF SerialInv, LedgerIsExact
<1>2. QED
    BY <1>1, SerialInit, SerialNext, Invariant, PTL DEF Spec

-----------------------------------------------------------------------------
(***************************************************************************)
(* Refinement: then TokenService is the account its callers think it is.   *)
(***************************************************************************)
\* Every step of the token service is a movement of the account, or invisible.
LEMMA StepIsMovement ==
    ASSUME Inv, SerialInv, [Next]_vars
    PROVE  [Account!Next]_<<balance, ledger>>
<1>1. CASE NothingCommitted
    BY <1>1 DEF NothingCommitted
<1>2. ASSUME NEW w \in Workers, Commit(w)
      PROVE  Account!Next
  <2> DEFINE u == tx[w].user
             delta == tx[w].delta
  <2>1. u \in Users /\ delta \in Int /\ tx[w].seen = balance[u]
      BY <1>2 DEF Inv, TypeOK, TransactionType, Covered, SerialInv, Fresh, Moving, Commit
  <2>2. balance[u] \in Int /\ balance[u] + delta >= 0
      BY <1>2, <2>1 DEF Inv, TypeOK, Covered, Moving, Commit
  <2>3. /\ balance' = [balance EXCEPT ![u] = @ + delta]
        /\ ledger' = [ledger EXCEPT ![u] = @ + delta]
      BY <1>2, <2>1 DEF Commit
  <2> HIDE DEF u, delta
  <2>4. balance'[u] - balance[u] = delta
      BY <2>1, <2>2, <2>3 DEF Inv, TypeOK
  <2>5. Account!Move(u, balance'[u] - balance[u])
      BY <2>2, <2>3, <2>4 DEF Account!Move
  <2>6. QED
      BY <2>1, <2>5 DEF Account!Next
<1>3. QED
    BY <1>1, <1>2, OnlyCommitCommits

\* One user's requests in turn: TokenService implements TokenAccount.
THEOREM SerialRefinement ==
    ASSUME SerialPerUser
    PROVE  Spec => ImplementsAccount
<1>1. Init => Account!Init
    BY DEF Init, Account!Init
<1>2. QED
    BY <1>1, SerialInit, SerialNext, Invariant, StepIsMovement, PTL
       DEF Spec, ImplementsAccount, Account!Spec
=============================================================================
