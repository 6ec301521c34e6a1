----------------------- MODULE PaymentLifecycleProofs -----------------------
(***************************************************************************)
(* Proofs, for every number of workers, invoices, purchases, crashes and   *)
(* repeats, of what PaymentLifecycle may never do: book an invoice nobody  *)
(* paid, or activate or refund what was not paid for.                      *)
(***************************************************************************)
EXTENDS PaymentLifecycle, FiniteSetTheorems, WellFoundedInduction, TLAPS

\* A set of natural numbers has a least one.
LEMMA LeastNumber ==
    ASSUME NEW T \in SUBSET Nat, T # {}
    PROVE  \E m \in T : \A n \in T : m <= n
<1> DEFINE R == {ss \in Nat \X Nat : ss[1] < ss[2]}
<1>1. OpToRel(<, Nat) = R
    BY Zenon DEF OpToRel
<1>2. IsWellFoundedOn(R, Nat)
    BY <1>1, NatLessThanWellFounded, Zenon
<1>3. \E m \in T : \A n \in T : ~(<<n, m>> \in R)
    BY <1>2, WFMin, Zenon
<1>4. \A m, n \in Nat : (<<n, m>> \in R) <=> n < m
    OBVIOUS
<1> HIDE DEF R
<1>5. PICK m \in T : \A n \in T : ~(<<n, m>> \in R)
    BY <1>3
<1>6. \A n \in T : ~(n < m)
    BY <1>4, <1>5
<1> QED BY <1>6

-----------------------------------------------------------------------------
(***************************************************************************)
(* The sum of a function over a finite set, of which the fold that defines *)
(* it chooses one element after the other.                                 *)
(***************************************************************************)
Total(f, S) == MapThenSumSet(LAMBDA x : f[x], S)

Chosen(s) == CHOOSE x \in s : TRUE

IsFold(g, f, S) ==
    g = [s \in SUBSET S |-> IF s = {} THEN 0 ELSE f[Chosen(s)] + g[s \ {Chosen(s)}]]

\* Some finite sets have one that contains no other of them.
LEMMA LeastSet ==
    ASSUME NEW B, B # {}, \A S \in B : IsFiniteSet(S)
    PROVE  \E S \in B : \A T \in B : T \subseteq S => T = S
<1> DEFINE N == {Cardinality(S) : S \in B}
<1>1. N \in SUBSET Nat /\ N # {}
    BY FS_CardinalityType
<1> HIDE DEF N
<1>2. PICK m \in N : \A n \in N : m <= n
    BY <1>1, LeastNumber
<1>3. PICK S \in B : m = Cardinality(S)
    BY DEF N
<1>4. ASSUME NEW T \in B, T \subseteq S PROVE T = S
  <2>1. Cardinality(S) <= Cardinality(T)
    BY <1>2, <1>3 DEF N
  <2>2. /\ Cardinality(T) <= Cardinality(S)
        /\ Cardinality(S) = Cardinality(T) => S = T
    BY <1>4, FS_Subset
  <2>3. Cardinality(S) \in Nat /\ Cardinality(T) \in Nat
    BY FS_CardinalityType
  <2> QED BY <2>1, <2>2, <2>3
<1> QED BY <1>4

LEMMA ChosenFact == \A s : s # {} => Chosen(s) \in s
BY DEF Chosen

LEMMA FoldStep ==
    ASSUME NEW f, NEW S, NEW g, IsFold(g, f, S), NEW s \in SUBSET S, s # {}
    PROVE  g[s] = f[Chosen(s)] + g[s \ {Chosen(s)}]
<1> DEFINE val(t) == IF t = {} THEN 0 ELSE f[Chosen(t)] + g[t \ {Chosen(t)}]
<1>1. g = [t \in SUBSET S |-> val(t)]
    BY Zenon DEF IsFold
<1>2. g[s] = val(s)
  <2> HIDE DEF val
  <2> QED BY <1>1
<1> QED BY <1>2, Zenon

\* Two folds agree where both are defined.
LEMMA FoldUnique ==
    ASSUME NEW f, NEW S, IsFiniteSet(S), NEW T, NEW g, NEW h, IsFold(g, f, S), IsFold(h, f, T)
    PROVE  \A s \in (SUBSET S) \cap (SUBSET T) : g[s] = h[s]
<1> DEFINE B == {s \in (SUBSET S) \cap (SUBSET T) : g[s] # h[s]}
<1> SUFFICES ASSUME B # {} PROVE FALSE
    OBVIOUS
<1>1. \A s \in B : IsFiniteSet(s)
    BY FS_Subset
<1>2. PICK s \in B : \A t \in B : t \subseteq s => t = s
  <2> HIDE DEF B
  <2> QED BY <1>1, LeastSet
<1>3. s # {}
  <2>1. g[{}] = 0 /\ h[{}] = 0
    BY DEF IsFold
  <2> QED BY <2>1
<1> DEFINE t == s \ {Chosen(s)}
<1>4. g[t] = h[t]
  <2>1. t \subseteq s /\ t # s
    BY <1>3, ChosenFact
  <2> QED BY <1>2, <2>1
<1>5. /\ g[s] = f[Chosen(s)] + g[t]
      /\ h[s] = f[Chosen(s)] + h[t]
    BY <1>3, FoldStep
<1> QED BY <1>4, <1>5

LEMMA FoldExists ==
    ASSUME NEW f, NEW S, IsFiniteSet(S)
    PROVE  \E g : IsFold(g, f, S)
<1> DEFINE B == {s \in SUBSET S : ~\E g : IsFold(g, f, s)}
<1> SUFFICES ASSUME B # {} PROVE FALSE
    OBVIOUS
<1>1. \A s \in B : IsFiniteSet(s)
    BY FS_Subset
<1>2. PICK M \in B : \A t \in B : t \subseteq M => t = M
  <2> HIDE DEF B
  <2> QED BY <1>1, LeastSet
<1> DEFINE H(t) == CHOOSE g : IsFold(g, f, t)
<1>3. ASSUME NEW t \in SUBSET M, t # M PROVE IsFiniteSet(t) /\ IsFold(H(t), f, t)
  <2>1. t \in SUBSET S /\ \E g : IsFold(g, f, t)
    BY <1>2, <1>3
  <2>2. IsFold(H(t), f, t)
    BY <2>1
  <2> QED BY <2>1, <2>2, FS_Subset
<1> DEFINE val(t) == IF t = {} THEN 0
                     ELSE f[Chosen(t)] + H(t \ {Chosen(t)})[t \ {Chosen(t)}]
           G == [t \in SUBSET M |-> val(t)]
<1> HIDE DEF H
<1>4. ASSUME NEW t \in SUBSET M, t # M PROVE val(t) = H(t)[t]
  <2>1. CASE t = {}
    BY <1>3, <1>4, <2>1 DEF IsFold
  <2>2. CASE t # {}
    <3> DEFINE r == t \ {Chosen(t)}
    <3>1. r \in SUBSET t /\ r \in SUBSET M /\ r # M
      BY <1>4, <2>2, ChosenFact
    <3>2. IsFold(H(t), f, t) /\ IsFold(H(r), f, r) /\ IsFiniteSet(r)
      BY <1>3, <1>4, <3>1
    <3> HIDE DEF r
    <3>3. H(r)[r] = H(t)[r]
      <4>1. \A s \in (SUBSET r) \cap (SUBSET t) : H(r)[s] = H(t)[s]
        BY <3>2, FoldUnique
      <4>2. r \in (SUBSET r) \cap (SUBSET t)
        BY <3>1
      <4> QED BY <4>1, <4>2
    <3>4. H(t)[t] = f[Chosen(t)] + H(t)[r]
      BY <2>2, <3>2, FoldStep DEF r
    <3> QED BY <2>2, <3>3, <3>4 DEF r
  <2> QED BY <2>1, <2>2
<1>5. IsFold(G, f, M)
  <2>1. ASSUME NEW t \in SUBSET M, t # {}
        PROVE  H(t \ {Chosen(t)})[t \ {Chosen(t)}] = G[t \ {Chosen(t)}]
    <3> DEFINE r == t \ {Chosen(t)}
    <3>1. r \in SUBSET M /\ r # M
      BY <2>1, ChosenFact
    <3>2. val(r) = H(r)[r]
      <4> HIDE DEF val, r
      <4> QED BY <1>4, <3>1
    <3> HIDE DEF val
    <3> QED BY <3>1, <3>2
  <2> QED BY <2>1 DEF IsFold
<1> QED BY <1>5

\* The sum is the fold of the set itself.
LEMMA TotalIsFold ==
    ASSUME NEW f, NEW S, IsFiniteSet(S)
    PROVE  \E g : IsFold(g, f, S) /\ Total(f, S) = g[S]
<1> DEFINE g == CHOOSE h : IsFold(h, f, S)
<1>1. IsFold(g, f, S)
    BY FoldExists, Zenon
<1>2. Total(f, S) = g[S]
    BY Zenon DEF Total, MapThenSumSet, MapThenFoldSet, IsFold, Chosen
<1> QED BY <1>1, <1>2, Zenon

LEMMA TotalStep ==
    ASSUME NEW f, NEW S, IsFiniteSet(S)
    PROVE  /\ S = {} => Total(f, S) = 0
           /\ S # {} => Total(f, S) = f[Chosen(S)] + Total(f, S \ {Chosen(S)})
<1>1. PICK g : IsFold(g, f, S) /\ Total(f, S) = g[S]
    BY TotalIsFold
<1>2. CASE S = {}
    BY <1>1, <1>2 DEF IsFold
<1>3. CASE S # {}
  <2> DEFINE T == S \ {Chosen(S)}
  <2>1. IsFiniteSet(T) /\ T \in (SUBSET T) \cap (SUBSET S)
    BY FS_RemoveElement
  <2> HIDE DEF T
  <2>2. PICK h : IsFold(h, f, T) /\ Total(f, T) = h[T]
    BY <2>1, TotalIsFold
  <2>3. \A s \in (SUBSET T) \cap (SUBSET S) : h[s] = g[s]
    BY <1>1, <2>1, <2>2, FoldUnique
  <2>4. Total(f, T) = g[T]
    BY <2>1, <2>2, <2>3
  <2>5. g[S] = f[Chosen(S)] + g[T]
    BY <1>1, <1>3, FoldStep DEF T
  <2> QED BY <1>1, <1>3, <2>4, <2>5 DEF T
<1> QED BY <1>2, <1>3

\* A sum of natural numbers is one, ...
LEMMA TotalIsNat ==
    ASSUME NEW D, NEW f \in [D -> Nat], NEW S \in SUBSET D, IsFiniteSet(S)
    PROVE  Total(f, S) \in Nat
<1> DEFINE B == {s \in SUBSET S : Total(f, s) \notin Nat}
<1> SUFFICES ASSUME B # {} PROVE FALSE
    OBVIOUS
<1>1. \A s \in B : IsFiniteSet(s)
    BY FS_Subset
<1>2. PICK s \in B : \A t \in B : t \subseteq s => t = s
  <2> HIDE DEF B
  <2> QED BY <1>1, LeastSet
<1>3. s # {}
  <2>1. Total(f, s) \notin Nat /\ IsFiniteSet(s)
    BY <1>1
  <2>2. s = {} => Total(f, s) = 0
    BY <2>1, TotalStep
  <2> QED BY <2>1, <2>2
<1> DEFINE t == s \ {Chosen(s)}
<1>4. Total(f, t) \in Nat /\ f[Chosen(s)] \in Nat
    BY <1>2, <1>3, ChosenFact
<1>5. Total(f, s) = f[Chosen(s)] + Total(f, t)
    BY <1>1, <1>3, TotalStep
<1> HIDE DEF t
<1>6. Total(f, s) \in Nat
    BY <1>4, <1>5
<1> QED BY <1>6

\* ... and each element of the set contributes its own to it.
LEMMA TotalWithout ==
    ASSUME NEW D, NEW f \in [D -> Nat], NEW S \in SUBSET D, IsFiniteSet(S), NEW p \in S
    PROVE  /\ Total(f, S) = f[p] + Total(f, S \ {p})
           /\ Total(f, S \ {p}) \in Nat
<1> DEFINE B == {s \in SUBSET S : \E q \in s : Total(f, s) # f[q] + Total(f, s \ {q})}
<1>1. ASSUME B # {} PROVE FALSE
  <2>1. \A s \in B : IsFiniteSet(s)
    BY FS_Subset
  <2>2. PICK s \in B : \A t \in B : t \subseteq s => t = s
    <3> HIDE DEF B
    <3> QED BY <1>1, <2>1, LeastSet
  <2>3. PICK q \in s : Total(f, s) # f[q] + Total(f, s \ {q})
    OBVIOUS
  <2>4. PICK x : x = Chosen(s)
    OBVIOUS
  <2>5. x \in s /\ IsFiniteSet(s) /\ Total(f, s) = f[x] + Total(f, s \ {x})
    BY <2>1, <2>3, <2>4, ChosenFact, TotalStep
  <2>6. x # q
    BY <2>3, <2>5
  <2>7. Total(f, s \ {x}) = f[q] + Total(f, s \ {x, q})
    <3>1. s \ {x} \in SUBSET s /\ s \ {x} # s /\ q \in s \ {x} /\ (s \ {x}) \ {q} = s \ {x, q}
      BY <2>5, <2>6
    <3>2. s \ {x} \notin B
      BY <2>2, <3>1
    <3> QED BY <3>1, <3>2
  <2>8. Total(f, s \ {q}) = f[x] + Total(f, s \ {x, q})
    <3>1. s \ {q} \in SUBSET s /\ s \ {q} # s /\ x \in s \ {q} /\ (s \ {q}) \ {x} = s \ {x, q}
      BY <2>5, <2>6
    <3>2. s \ {q} \notin B
      BY <2>2, <3>1
    <3> QED BY <3>1, <3>2
  <2>9. Total(f, s \ {x, q}) \in Nat /\ f[x] \in Nat /\ f[q] \in Nat
    <3>1. IsFiniteSet(s \ {x, q}) /\ s \ {x, q} \in SUBSET D
      BY <2>5, FS_Subset
    <3> QED BY <2>5, <3>1, TotalIsNat
  <2> QED BY <2>3, <2>5, <2>7, <2>8, <2>9
<1>2. Total(f, S \ {p}) \in Nat
    BY FS_Subset, TotalIsNat
<1> QED BY <1>1, <1>2

-----------------------------------------------------------------------------

Taken == {"captured", "refunded"}  \* of a payment, whose money came in once

\* What a running request knows of its invoice: its line items are processed,
\* and its refund or its restoration saved, only after somebody paid it; and it
\* handles a provider's captured event only after a capture.
JobOK(t) ==
    /\ t \in Job
    /\ t.pc # "idle" =>
          /\ t.inv \in Invoices
          /\ t.seen \in {"PAID", "REFUNDED"} => paidBy[t.inv] # "none"
          /\ t.pc = "saving" /\ t.op \in {"refunded", "restored"} => paidBy[t.inv] # "none"
          /\ t.pc \in {"items", "item", "moving"} =>
                paidBy[t.inv] # "none" /\ t.todo \subseteq Items[t.inv]
          /\ t.pc \in {"item", "moving"} => t.item \in Items[t.inv]
          /\ t.op = "captured" => intent[t.inv] \in Taken

\* The provider tells of a capture only after it.
ToldAfterCapture ==
    \A i \in Invoices : <<"captured", i>> \in inbox \cup sent => intent[i] \in Taken

Inv == /\ TypeOK
       /\ NothingWithoutPayment
       /\ PaidMeansCaptured
       /\ ToldAfterCapture
       /\ \A w \in Workers : JobOK(job[w])

\* The initial state satisfies the invariant.
LEMMA InvInit == Init => Inv
BY PaymentConstants
   DEF Init, Inv, TypeOK, NothingWithoutPayment, PaidMeansCaptured, ToldAfterCapture,
       JobOK, Idle, Job, Operation, Captures, Notification, InvoiceStatus, PurchaseStatus

-----------------------------------------------------------------------------
\* An idle worker's job is well typed and knows nothing.
LEMMA IdleOK == JobOK(Idle)
BY DEF JobOK, Idle, Job, Operation, Notification, InvoiceStatus

\* What a request knows of its invoice stays true while others pay invoices and
\* the provider moves money.
LEMMA JobKeeps ==
    ASSUME NEW t, JobOK(t),
           \A i \in Invoices : paidBy[i] # "none" => paidBy'[i] # "none",
           \A i \in Invoices : intent[i] \in Taken => intent'[i] \in Taken
    PROVE  JobOK(t)'
BY DEF JobOK

\* A step of one worker, with whatever it has saved.
LEMMA JobsKeep ==
    ASSUME Inv, NEW w \in Workers, NEW t, JobOK(t)', job' = [job EXCEPT ![w] = t],
           \A i \in Invoices : paidBy[i] # "none" => paidBy'[i] # "none",
           \A i \in Invoices : intent[i] \in Taken => intent'[i] \in Taken
    PROVE  job' \in [Workers -> Job] /\ \A v \in Workers : JobOK(job[v])'
<1>1. t \in Job /\ job \in [Workers -> Job]
    BY DEF JobOK, Inv, TypeOK
<1>2. ASSUME NEW v \in Workers PROVE JobOK(job[v])'
  <2>1. CASE v = w
      BY <1>1, <2>1
  <2>2. CASE v # w
    <3>1. job'[v] = job[v]
        BY <1>1, <2>2
    <3>2. JobOK(job[v])
        BY DEF Inv
    <3>3. QED
        BY <3>1, <3>2 DEF JobOK
  <2>3. QED
      BY <2>1, <2>2
<1>3. QED
    BY <1>1, <1>2

\* A step of one worker that saves nothing and calls nobody.
LEMMA JobStep ==
    ASSUME Inv, NEW w \in Workers, NEW t, JobOK(t), job' = [job EXCEPT ![w] = t],
           UNCHANGED <<database, provider, repeats, reversals>>, crashes' \in Nat,
           inbox' \subseteq inbox
    PROVE  Inv'
<1>1. UNCHANGED <<status, paidBy, purchase, granted, balance, intent, sent>>
    BY DEF database, provider
<1>2. JobOK(t)'
    BY <1>1, JobKeeps
<1>3. job' \in [Workers -> Job] /\ \A v \in Workers : JobOK(job[v])'
    BY <1>1, <1>2, JobsKeep
<1>4. TypeOK'
    BY <1>1, <1>3 DEF Inv, TypeOK
<1>5. NothingWithoutPayment' /\ PaidMeansCaptured' /\ ToldAfterCapture'
    BY <1>1 DEF Inv, NothingWithoutPayment, PaidMeansCaptured, ToldAfterCapture
<1>6. QED
    BY <1>3, <1>4, <1>5 DEF Inv

\* A handler that has read invoice i and decided.
LEMMA ContinueStep ==
    ASSUME Inv, NEW w \in Workers, NEW i \in Invoices, NEW op \in Operation,
           NEW hook \in BOOLEAN, NEW pc \in {"calling", "checking", "saving", "items"},
           Continue(w, pc, op, i, hook),
           pc = "saving" /\ op \in {"refunded", "restored"} => paidBy[i] # "none",
           pc = "items" => paidBy[i] # "none",
           op = "captured" => intent[i] \in Taken,
           UNCHANGED <<database, provider, counters>>, inbox' \subseteq inbox
    PROVE  Inv'
<1>1. PICK t : t = [pc |-> pc, op |-> op, inv |-> i, hook |-> hook, item |-> None,
                    seen |-> IF pc = "items" THEN "PENDING" ELSE status[i],
                    todo |-> IF pc = "items" THEN Items[i] ELSE {}]
    OBVIOUS
<1>2. /\ status[i] \in InvoiceStatus
      /\ status[i] \in {"PAID", "REFUNDED"} => paidBy[i] # "none"
    BY DEF Inv, TypeOK, NothingWithoutPayment
<1>3. t \in Job
  <2>1. (IF pc = "items" THEN "PENDING" ELSE status[i]) \in InvoiceStatus
      BY <1>2 DEF InvoiceStatus
  <2>2. (IF pc = "items" THEN Items[i] ELSE {}) \in SUBSET Purchases
      BY PaymentConstants
  <2>3. QED
      BY <1>1, <2>1, <2>2 DEF Job
<1>4. JobOK(t)
  <2>1. /\ t.inv = i /\ t.op = op /\ t.pc = pc
        /\ t.seen = (IF pc = "items" THEN "PENDING" ELSE status[i])
        /\ t.todo = (IF pc = "items" THEN Items[i] ELSE {})
      BY <1>1
  <2>2. t.seen \in {"PAID", "REFUNDED"} => paidBy[i] # "none"
      BY <1>2, <2>1
  <2>3. QED
      BY <1>3, <2>1, <2>2 DEF JobOK
<1>5. job' = [job EXCEPT ![w] = t]
    BY <1>1 DEF Continue
<1>6. QED
    BY <1>4, <1>5, JobStep DEF counters, Inv, TypeOK

\* A request that ends.
LEMMA DoneStep ==
    ASSUME Inv, NEW w \in Workers, job' = [job EXCEPT ![w] = Idle],
           UNCHANGED <<database, provider, repeats, reversals>>, crashes' \in Nat,
           inbox' \subseteq inbox
    PROVE  Inv'
<1>1. PICK t : t = Idle
    OBVIOUS
<1>2. QED
    BY <1>1, IdleOK, JobStep

\* PaymentCapturedHandler's decision.
LEMMA BeginCapturedStep ==
    ASSUME Inv, NEW w \in Workers, NEW i \in Invoices, NEW op \in Captures,
           NEW hook \in BOOLEAN, BeginCaptured(w, op, i, hook),
           op = "captured" => intent[i] \in Taken,
           UNCHANGED <<database, provider, counters>>, inbox' \subseteq inbox
    PROVE  Inv'
<1>1. op \in Operation /\ op \notin {"refunded", "restored"}
    BY DEF Captures, Operation, Notification
<1>2. CASE status[i] = "PAID"
  <2>1. paidBy[i] # "none"
      BY <1>2 DEF Inv, NothingWithoutPayment
  <2>2. Continue(w, "items", op, i, hook)
      BY <1>2 DEF BeginCaptured
  <2>3. QED
      BY <1>1, <2>1, <2>2, ContinueStep
<1>3. CASE status[i] # "PAID"
  <2>1. Continue(w, "saving", op, i, hook)
      BY <1>3 DEF BeginCaptured
  <2>2. QED
      BY <1>1, <2>1, ContinueStep
<1>4. QED
    BY <1>2, <1>3

\* Taking up a notification, or refusing it.
LEMMA ReceiveStep ==
    ASSUME Inv, NEW w \in Workers, NEW m \in Message, Receive(w, m)
    PROVE  Inv'
<1>1. PICK kind \in Notification, i \in Invoices : m = <<kind, i>>
    BY DEF Message
<1>2. /\ UNCHANGED <<database, provider, counters>>
      /\ inbox' \subseteq inbox
      /\ m \in inbox
    BY DEF Receive
<1>3. CASE kind = "captured"
  <2>1. intent[i] \in Taken
      BY <1>1, <1>2, <1>3 DEF Inv, ToldAfterCapture
  <2>2. BeginCaptured(w, kind, i, TRUE)
      BY <1>1, <1>3 DEF Receive
  <2>3. QED
      BY <1>2, <1>3, <2>1, <2>2, BeginCapturedStep DEF Captures
<1>4. CASE kind # "captured" /\ MayBegin(kind, i)
  <2>1. Continue(w, "saving", kind, i, TRUE)
      BY <1>1, <1>4 DEF Receive
  <2>2. kind \in {"refunded", "restored"} => paidBy[i] # "none"
    <3>1. kind = "refunded" => status[i] = "PAID"
        BY <1>4 DEF MayBegin
    <3>2. kind = "restored" => status[i] = "REFUNDED"
        BY <1>4 DEF MayBegin
    <3>3. QED
        BY <3>1, <3>2 DEF Inv, NothingWithoutPayment
  <2>3. kind \in Operation
      BY DEF Operation
  <2>4. QED
      BY <1>2, <1>4, <2>1, <2>2, <2>3, ContinueStep
<1>5. CASE kind # "captured" /\ ~MayBegin(kind, i)
  <2>1. UNCHANGED job
      BY <1>1, <1>5 DEF Receive
  <2>2. PICK t : t = job[w]
      OBVIOUS
  <2>3. job' = [job EXCEPT ![w] = t] /\ JobOK(t)
      BY <2>1, <2>2 DEF Inv, TypeOK
  <2>4. QED
      BY <1>2, <2>3, JobStep DEF counters, Inv, TypeOK
<1>6. QED
    BY <1>3, <1>4, <1>5

\* The requests of administrators.
LEMMA RequestStep ==
    ASSUME Inv, NEW w \in Workers, Request(w)
    PROVE  Inv'
<1>1. PICK i \in Invoices :
         \/ AdminCaptured(w, i)
         \/ AdminMarksPaid(w, i)
         \/ \E op \in {"void", "fail"} : AdminCloses(w, op, i)
         \/ \E op \in {"capture", "release"} : BeginCapture(w, op, i)
         \/ AdminRefunds(w, i)
    BY DEF Request
<1>2. CASE AdminCaptured(w, i)
    BY <1>2, BeginCapturedStep DEF AdminCaptured, Captures
<1>3. CASE AdminMarksPaid(w, i)
    BY <1>3, ContinueStep DEF AdminMarksPaid, Operation
<1>4. ASSUME NEW op \in {"void", "fail"}, AdminCloses(w, op, i)
      PROVE  Inv'
    BY <1>4, ContinueStep DEF AdminCloses, Operation
<1>5. ASSUME NEW op \in {"capture", "release"}, BeginCapture(w, op, i)
      PROVE  Inv'
    BY <1>5, ContinueStep DEF BeginCapture, Operation
<1>6. CASE AdminRefunds(w, i)
  <2>1. PICK pc \in {"calling", "checking"} : Continue(w, pc, "refund", i, FALSE)
      BY <1>6 DEF AdminRefunds
  <2>2. "refund" \in Operation /\ UNCHANGED <<database, provider, counters>> /\ inbox' = inbox
      BY <1>6 DEF AdminRefunds, Operation
  <2>3. QED
      BY <2>1, <2>2, ContinueStep
<1>7. QED
    BY <1>1, <1>2, <1>3, <1>4, <1>5, <1>6

\* The customer pays, the provider refunds or repeats itself: a capture is told
\* of when it has happened, and never undone to a payment not taken.
LEMMA ProviderStep ==
    ASSUME Inv, Provider
    PROVE  Inv'
<1>1. UNCHANGED <<status, paidBy, purchase, granted, balance, job, crashes>>
    BY DEF Provider, OpenSession, CustomerPays, CustomerAuthorizes, ProviderRefunds,
           ProviderReverses, ProviderRepeats, database, counters
<1>2. repeats' \in Nat /\ reversals' \in Nat
    BY DEF Provider, OpenSession, CustomerPays, CustomerAuthorizes, ProviderRefunds,
           ProviderReverses, ProviderRepeats, counters, Inv, TypeOK
<1>3. /\ intent' \in [Invoices -> {"none", "open", "held", "captured", "released", "refunded"}]
      /\ \A i \in Invoices : intent[i] \in Taken => intent'[i] \in Taken
      /\ inbox' \subseteq Message /\ sent' \subseteq Message
      /\ ToldAfterCapture'
  <2>1. /\ intent \in [Invoices -> {"none", "open", "held", "captured", "released", "refunded"}]
        /\ inbox \subseteq Message /\ sent \subseteq Message /\ ToldAfterCapture
      BY DEF Inv, TypeOK
  <2>2. ASSUME NEW i \in Invoices,
               OpenSession(i) \/ CustomerAuthorizes(i) \/ ProviderReverses(i)
        PROVE  <1>3!1 /\ <1>3!2 /\ <1>3!3 /\ <1>3!4
      BY <2>1, <2>2 DEF OpenSession, CustomerAuthorizes, ProviderReverses, Notify, Taken,
                        Message, Notification, ToldAfterCapture
  <2>3. ASSUME NEW i \in Invoices, CustomerPays(i) \/ ProviderRefunds(i)
        PROVE  <1>3!1 /\ <1>3!2 /\ <1>3!3 /\ <1>3!4
      BY <2>1, <2>3 DEF CustomerPays, ProviderRefunds, Notify, Taken,
                        Message, Notification, ToldAfterCapture
  <2>4. ASSUME NEW m \in Message, ProviderRepeats(m)
        PROVE  <1>3!1 /\ <1>3!2 /\ <1>3!3 /\ <1>3!4
      BY <2>1, <2>4 DEF ProviderRepeats, provider, ToldAfterCapture
  <2>5. QED
      BY <2>2, <2>3, <2>4 DEF Provider
<1>4. TypeOK'
    BY <1>1, <1>2, <1>3 DEF Inv, TypeOK
<1>5. NothingWithoutPayment' /\ PaidMeansCaptured'
    BY <1>1, <1>3 DEF Inv, NothingWithoutPayment, PaidMeansCaptured, Taken
<1>6. ASSUME NEW w \in Workers PROVE JobOK(job[w])'
  <2>1. JobOK(job[w])
      BY DEF Inv
  <2>2. QED
      BY <1>1, <1>3, <2>1 DEF JobOK
<1>7. QED
    BY <1>3, <1>4, <1>5, <1>6 DEF Inv

\* The provider's answer to a capture or a release; a refund ends before it.
LEMMA CallStep ==
    ASSUME Inv, NEW w \in Workers, CallProvider(w) \/ CallRefund(w)
    PROVE  Inv'
<1>1. PICK i \in Invoices : i = job[w].inv
    BY DEF Inv, JobOK, CallProvider, CallRefund
<1>2. /\ JobOK(job[w]) /\ job[w] \in Job /\ job[w].pc = "calling"
      /\ UNCHANGED <<status, paidBy, purchase, granted, balance, crashes, repeats, reversals>>
    BY DEF Inv, JobOK, CallProvider, CallRefund, database, counters
<1>3. CASE job' = [job EXCEPT ![w] = Idle] /\ inbox' \subseteq inbox /\ UNCHANGED provider
    BY <1>2, <1>3, DoneStep DEF database, Inv, TypeOK
<1>4. ASSUME NEW op \in {"captured", "release"},
             NEW new \in {"captured", "released"}, NEW kind \in Notification,
             job' = [job EXCEPT ![w].pc = "saving", ![w].op = op],
             intent' = [intent EXCEPT ![i] = new],
             intent[i] \in Taken => new \in Taken,
             Notify(kind, i) \/ UNCHANGED <<inbox, sent>>,
             op = "captured" \/ kind = "captured" => new = "captured"
      PROVE  Inv'
  <2>1. /\ intent' \in [Invoices -> {"none", "open", "held", "captured", "released", "refunded"}]
        /\ intent'[i] = new
        /\ \A j \in Invoices : intent[j] \in Taken => intent'[j] \in Taken
      BY <1>4 DEF Inv, TypeOK
  <2>2. PICK t : t = [job[w] EXCEPT !.pc = "saving", !.op = op]
      OBVIOUS
  <2>3. /\ t \in Job /\ t.inv = i /\ t.seen = job[w].seen /\ t.op = op /\ t.pc = "saving"
        /\ job' = [job EXCEPT ![w] = t]
      BY <1>1, <1>2, <1>4, <2>2 DEF Job, Operation, Notification
  <2>4. JobOK(t)'
    <3>1. t.seen \in {"PAID", "REFUNDED"} => paidBy'[i] # "none"
        BY <1>1, <1>2, <2>3 DEF JobOK
    <3>2. op = "captured" => intent'[i] \in Taken
        BY <1>4, <2>1 DEF Taken
    <3>3. QED
        BY <2>3, <3>1, <3>2 DEF JobOK
  <2>5. job' \in [Workers -> Job] /\ \A v \in Workers : JobOK(job[v])'
      BY <1>2, <2>1, <2>3, <2>4, JobsKeep
  <2>6. inbox' \subseteq Message /\ sent' \subseteq Message
      BY <1>4 DEF Notify, Message, Inv, TypeOK
  <2>7. TypeOK'
      BY <1>2, <2>1, <2>5, <2>6 DEF Inv, TypeOK
  <2>8. NothingWithoutPayment' /\ PaidMeansCaptured'
      BY <1>2, <2>1 DEF Inv, NothingWithoutPayment, PaidMeansCaptured, Taken
  <2>9. ToldAfterCapture'
    <3>1. ASSUME NEW j \in Invoices, <<"captured", j>> \in inbox' \cup sent'
          PROVE  intent'[j] \in Taken
      <4>1. CASE <<"captured", j>> \in inbox \cup sent
          BY <2>1, <4>1 DEF Inv, ToldAfterCapture
      <4>2. CASE <<"captured", j>> \notin inbox \cup sent
          BY <1>4, <2>1, <3>1, <4>2 DEF Notify, Taken
      <4>3. QED
          BY <4>1, <4>2
    <3>2. QED
        BY <3>1 DEF ToldAfterCapture
  <2>10. QED
      BY <2>5, <2>7, <2>8, <2>9 DEF Inv
<1>5. CASE CallProvider(w) /\ intent[i] = "held" /\ job[w].op = "capture"
  <2>1. /\ job' = [job EXCEPT ![w].pc = "saving", ![w].op = "captured"]
        /\ intent' = [intent EXCEPT ![i] = "captured"]
        /\ Notify("captured", i)
      BY <1>1, <1>5 DEF CallProvider
  <2>2. QED
      BY <1>4, <1>5, <2>1 DEF Taken, Notification
<1>6. CASE CallProvider(w) /\ intent[i] = "held" /\ job[w].op = "release"
  <2>1. /\ job' = [job EXCEPT ![w].pc = "saving"]
        /\ intent' = [intent EXCEPT ![i] = "released"]
        /\ UNCHANGED <<inbox, sent>>
      BY <1>1, <1>6 DEF CallProvider
  <2>2. job' = [job EXCEPT ![w].pc = "saving", ![w].op = "release"]
      BY <1>2, <1>6, <2>1 DEF Inv, TypeOK, Job
  <2>3. QED
      BY <1>4, <1>6, <2>1, <2>2 DEF Taken, Notification
<1>7. CASE Done(w) /\ UNCHANGED provider
    BY <1>3, <1>7 DEF Done
<1>8. QED
    BY <1>1, <1>5, <1>6, <1>7 DEF CallProvider, CallRefund

\* process_refund goes on only for an invoice it read as PAID.
LEMMA CheckRefundStep ==
    ASSUME Inv, NEW w \in Workers, CheckRefund(w)
    PROVE  Inv'
<1>1. JobOK(job[w]) /\ job[w] \in Job /\ job[w].pc = "checking"
    BY DEF Inv, JobOK, CheckRefund
<1>2. CASE job[w].seen = "PAID" /\ EnoughTokens(job[w].inv)
  <2>1. PICK t : t = [job[w] EXCEPT !.pc = "saving", !.op = "refunded"]
      OBVIOUS
  <2>2. /\ t \in Job /\ t.pc = "saving" /\ t.op = "refunded"
        /\ t.inv = job[w].inv /\ t.seen = job[w].seen
      BY <1>1, <2>1 DEF Job, Operation, Notification
  <2>3. JobOK(t)
      BY <1>1, <1>2, <2>2 DEF JobOK
  <2>4. job' = [job EXCEPT ![w] = t] /\ inbox' = inbox
      BY <1>2, <2>1 DEF CheckRefund
  <2>5. QED
      BY <2>3, <2>4, JobStep DEF CheckRefund, counters, Inv, TypeOK
<1>3. CASE ~(job[w].seen = "PAID" /\ EnoughTokens(job[w].inv))
    BY <1>3, DoneStep DEF CheckRefund, Done, counters, Inv, TypeOK
<1>4. QED
    BY <1>2, <1>3

\* Saving an invoice as PAID or REFUNDED is saving one somebody paid.
LEMMA SaveInvoiceStep ==
    ASSUME Inv, NEW w \in Workers, SaveInvoice(w)
    PROVE  Inv'
<1>1. PICK op \in Operation, i \in Invoices : op = job[w].op /\ i = job[w].inv
    BY DEF Inv, JobOK, Job, SaveInvoice
<1>2. JobOK(job[w]) /\ job[w] \in Job /\ job[w].pc = "saving"
    BY DEF Inv, JobOK, SaveInvoice
<1>3. /\ \/ status' = status
         \/ status' = [status EXCEPT ![i] = NewStatus(op)]
      /\ paidBy' = CASE op = "captured" -> [paidBy EXCEPT ![i] = "provider"]
                     [] op \in {"manual", "markpaid"} -> [paidBy EXCEPT ![i] = "admin"]
                     [] OTHER -> paidBy
      /\ UNCHANGED <<purchase, granted, balance, intent, sent, crashes, repeats, reversals>>
    BY <1>1 DEF SaveInvoice, provider, counters
<1>4. paidBy' \in [Invoices -> {"none", "provider", "admin"}]
    BY <1>3 DEF Inv, TypeOK
<1>5. \A j \in Invoices : paidBy[j] # "none" => paidBy'[j] # "none"
    BY <1>3 DEF Inv, TypeOK
<1>6. op \in Captures \cup {"markpaid", "refunded", "restored"} => paidBy'[i] # "none"
    BY <1>1, <1>2, <1>3 DEF Captures, JobOK, Inv, TypeOK
<1>7. NewStatus(op) \in {"PAID", "REFUNDED"} =>
          op \in Captures \cup {"markpaid", "refunded", "restored"}
    BY DEF NewStatus
<1>8. NewStatus(op) \in InvoiceStatus
    BY DEF NewStatus, InvoiceStatus
<1>9. PICK t : /\ job' = [job EXCEPT ![w] = t] /\ JobOK(t)'
               /\ inbox' \subseteq inbox
  <2>1. CASE op \in Captures \cup {"refunded", "restored"}
    <3>1. PICK t : t = [pc |-> "items", op |-> op, inv |-> i, hook |-> job[w].hook,
                        item |-> None, seen |-> "PENDING", todo |-> Items[i]]
        OBVIOUS
    <3>2. job' = [job EXCEPT ![w] = t] /\ inbox' = inbox
      <4>1. Continue(w, "items", op, i, job[w].hook) /\ inbox' = inbox
          BY <1>1, <2>1 DEF SaveInvoice, Captures
      <4>2. QED
          BY <3>1, <4>1 DEF Continue
    <3>3. t \in Job
        BY <1>2, <3>1, PaymentConstants DEF Job, InvoiceStatus
    <3>4. op = "captured" => intent'[i] \in Taken
        BY <1>1, <1>2, <1>3 DEF JobOK
    <3>5. JobOK(t)'
        BY <1>6, <2>1, <3>1, <3>3, <3>4 DEF JobOK
    <3>6. QED
        BY <3>2, <3>5
  <2>2. CASE op = "markpaid"
    <3>1. PICK t : t = [job[w] EXCEPT !.pc = "marked", !.seen = "PENDING"]
        OBVIOUS
    <3>2. job' = [job EXCEPT ![w] = t] /\ inbox' = inbox
        BY <1>1, <2>2, <3>1 DEF SaveInvoice, Captures
    <3>3. /\ t \in Job /\ t.pc = "marked" /\ t.seen = "PENDING"
          /\ t.op = op /\ t.inv = i
        BY <1>1, <1>2, <3>1 DEF Job, InvoiceStatus
    <3>4. JobOK(t)'
        BY <2>2, <3>3 DEF JobOK
    <3>5. QED
        BY <3>2, <3>4
  <2>3. CASE op \notin Captures \cup {"refunded", "restored", "markpaid"}
    <3>1. Done(w)
        BY <1>1, <2>3 DEF SaveInvoice
    <3>2. PICK t : t = Idle
        OBVIOUS
    <3>3. t \in Job /\ t.pc = "idle"
        BY <3>2, IdleOK DEF JobOK, Idle
    <3>4. JobOK(t)'
        BY <3>3 DEF JobOK
    <3>5. QED
        BY <3>1, <3>2, <3>4 DEF Done
  <2>4. QED
      BY <2>1, <2>2, <2>3
<1>10. job' \in [Workers -> Job] /\ \A v \in Workers : JobOK(job[v])'
    BY <1>3, <1>5, <1>9, JobsKeep
<1>11. TypeOK'
    BY <1>3, <1>4, <1>8, <1>9, <1>10 DEF Inv, TypeOK
<1>12. NothingWithoutPayment'
  <2> SUFFICES ASSUME NEW j \in Invoices, paidBy'[j] = "none"
               PROVE  /\ status'[j] \notin {"PAID", "REFUNDED"}
                      /\ \A p \in Items[j] : purchase'[p] = "PENDING"
      BY DEF NothingWithoutPayment
  <2>1. paidBy[j] = "none"
      BY <1>5
  <2>2. CASE j = i
      BY <1>3, <1>6, <1>7, <2>1, <2>2 DEF Inv, TypeOK, NothingWithoutPayment
  <2>3. CASE j # i
      BY <1>3, <2>1, <2>3 DEF Inv, TypeOK, NothingWithoutPayment
  <2>4. QED
      BY <2>2, <2>3
<1>13. PaidMeansCaptured'
  <2> SUFFICES ASSUME NEW j \in Invoices, paidBy'[j] = "provider"
               PROVE  intent'[j] \in Taken
      BY DEF PaidMeansCaptured, Taken
  <2>1. CASE j = i /\ op = "captured"
      BY <1>1, <1>2, <1>3, <2>1 DEF JobOK
  <2>2. CASE ~(j = i /\ op = "captured")
    <3>1. paidBy[j] = "provider"
        BY <1>3, <2>2 DEF Inv, TypeOK
    <3>2. QED
        BY <1>3, <3>1 DEF Inv, PaidMeansCaptured, Taken
  <2>3. QED
      BY <2>1, <2>2
<1>14. ToldAfterCapture'
    BY <1>3, <1>9 DEF Inv, ToldAfterCapture
<1>15. QED
    BY <1>10, <1>11, <1>12, <1>13, <1>14 DEF Inv

\* Line items are processed for an invoice somebody paid, and belong to no
\* other.
LEMMA ItemStep ==
    ASSUME Inv, NEW w \in Workers,
           \/ \E p \in Purchases : NextItem(w, p)
           \/ SaveItem(w) \/ MoveTokens(w) \/ HookVetoes(w)
    PROVE  Inv'
<1>1. /\ JobOK(job[w]) /\ job[w] \in Job
      /\ job \in [Workers -> Job]
      /\ job[w].pc \in {"items", "item", "moving"}
      /\ UNCHANGED <<status, paidBy, intent, sent, inbox, crashes, repeats, reversals>>
    BY DEF Inv, TypeOK, NextItem, SaveItem, MoveTokens, HookVetoes, database, provider,
           counters
<1>2. PICK i \in Invoices : /\ i = job[w].inv /\ paidBy[i] # "none"
                            /\ job[w].todo \subseteq Items[i]
    BY <1>1 DEF JobOK
<1>3. ASSUME NEW pc \in {"items", "item", "moving"}, NEW item \in Purchases \cup {None},
             NEW todo \in SUBSET Items[i], pc \in {"item", "moving"} => item \in Items[i],
             NEW t, t = [job[w] EXCEPT !.pc = pc, !.item = item, !.todo = todo],
             job' = [job EXCEPT ![w] = t]
      PROVE  job' \in [Workers -> Job] /\ \A v \in Workers : JobOK(job[v])'
  <2>1. todo \in SUBSET Purchases
      BY PaymentConstants
  <2>2. /\ t \in Job /\ t.pc = pc /\ t.item = item /\ t.todo = todo
        /\ t.inv = i /\ t.op = job[w].op /\ t.seen = job[w].seen
      BY <1>1, <1>2, <1>3, <2>1 DEF Job
  <2>3. JobOK(t)'
      BY <1>1, <1>2, <1>3, <2>2 DEF JobOK
  <2>4. QED
      BY <1>1, <1>3, <2>3, JobsKeep
<1>4. ASSUME NEW p \in Purchases, NextItem(w, p)
      PROVE  Inv'
  <2>1. p \in Items[i] /\ UNCHANGED <<purchase, granted, balance>>
      BY <1>2, <1>4 DEF NextItem, database
  <2>2. PICK pc \in {"items", "item"}, item \in Purchases \cup {None} :
           /\ pc = "item" => item = p
           /\ job' = [job EXCEPT ![w] = [job[w] EXCEPT !.pc = pc, !.item = item,
                                                       !.todo = job[w].todo \ {p}]]
    <3>1. CASE purchase[p] = ItemFrom(job[w].op)
        BY <1>4, <3>1 DEF NextItem
    <3>2. CASE purchase[p] # ItemFrom(job[w].op)
      <4>1. job[w] = [job[w] EXCEPT !.pc = "items", !.item = job[w].item]
          BY <1>1, <1>4 DEF NextItem, Job
      <4>2. job' = [job EXCEPT ![w] = [job[w] EXCEPT !.todo = job[w].todo \ {p}]]
          BY <1>4, <3>2 DEF NextItem
      <4>3. [job[w] EXCEPT !.todo = job[w].todo \ {p}] =
               [job[w] EXCEPT !.pc = "items", !.item = job[w].item,
                              !.todo = job[w].todo \ {p}]
          BY <1>1, <1>4 DEF NextItem, Job
      <4>4. job[w].item \in Purchases \cup {None}
          BY <1>1 DEF Job
      <4>5. QED
          BY <4>2, <4>3, <4>4
    <3>3. QED
        BY <3>1, <3>2
  <2>3. job[w].todo \ {p} \in SUBSET Items[i]
      BY <1>2
  <2>4. PICK t : t = [job[w] EXCEPT !.pc = pc, !.item = item, !.todo = job[w].todo \ {p}]
      OBVIOUS
  <2>5. job' \in [Workers -> Job] /\ \A v \in Workers : JobOK(job[v])'
      BY <1>3, <2>1, <2>2, <2>3, <2>4
  <2>6. QED
      BY <1>1, <2>1, <2>5 DEF Inv, TypeOK, NothingWithoutPayment, PaidMeansCaptured,
                              ToldAfterCapture
<1>5. CASE SaveItem(w)
  <2>1. job[w].pc = "item" /\ job[w].item \in Items[i] /\ job[w].item \in Purchases
      BY <1>1, <1>2, <1>5, PaymentConstants DEF SaveItem, JobOK
  <2>2. PICK t : t = [job[w] EXCEPT !.pc = "moving", !.item = job[w].item,
                                    !.todo = job[w].todo]
      OBVIOUS
  <2>3. t = [job[w] EXCEPT !.pc = "moving"]
      BY <1>1, <2>2 DEF Job
  <2>4. job' = [job EXCEPT ![w] = t]
      BY <1>5, <2>3 DEF SaveItem
  <2>5. job' \in [Workers -> Job] /\ \A v \in Workers : JobOK(job[v])'
      BY <1>2, <1>3, <2>1, <2>2, <2>4
  <2>6. /\ purchase' = [purchase EXCEPT ![job[w].item] = ItemTo(job[w].op)]
        /\ UNCHANGED <<granted, balance>>
        /\ ItemTo(job[w].op) \in PurchaseStatus
      BY <1>5 DEF SaveItem, ItemTo, PurchaseStatus
  <2>7. NothingWithoutPayment'
    <3> SUFFICES ASSUME NEW j \in Invoices, paidBy'[j] = "none", NEW p \in Items[j]
                 PROVE  purchase'[p] = "PENDING"
        BY <1>1 DEF Inv, NothingWithoutPayment
    <3>1. j # i /\ purchase[p] = "PENDING"
        BY <1>1, <1>2 DEF Inv, NothingWithoutPayment
    <3>2. p # job[w].item /\ p \in Purchases
        BY <2>1, <3>1, PaymentConstants
    <3>3. QED
        BY <2>6, <3>1, <3>2 DEF Inv, TypeOK
  <2>8. TypeOK' /\ PaidMeansCaptured' /\ ToldAfterCapture'
      BY <1>1, <2>5, <2>6 DEF Inv, TypeOK, PaidMeansCaptured, ToldAfterCapture
  <2>9. QED
      BY <2>5, <2>7, <2>8 DEF Inv
<1>6. CASE MoveTokens(w) \/ HookVetoes(w)
  <2>1. job[w].pc = "moving" /\ job[w].item \in Purchases
      BY <1>1, <1>2, <1>6, PaymentConstants DEF MoveTokens, HookVetoes, JobOK
  <2>2. PICK t : t = [job[w] EXCEPT !.pc = "items", !.item = None,
                                    !.todo = job[w].todo]
      OBVIOUS
  <2>3. t = [job[w] EXCEPT !.pc = "items", !.item = None]
      BY <1>1, <2>2 DEF Job
  <2>4. job' = [job EXCEPT ![w] = t]
      BY <1>6, <2>3 DEF MoveTokens, HookVetoes
  <2>5. job' \in [Workers -> Job] /\ \A v \in Workers : JobOK(job[v])'
      BY <1>2, <1>3, <2>2, <2>4
  <2>6. TokenDelta(w) \in Int
      BY <2>1, PaymentConstants DEF TokenDelta, Inv, TypeOK
  <2>7. purchase' = purchase /\ granted' \in [Purchases -> Int] /\ balance' \in Int
      BY <1>6, <2>1, <2>6 DEF MoveTokens, HookVetoes, database, Inv, TypeOK
  <2>8. QED
      BY <1>1, <2>5, <2>7 DEF Inv, TypeOK, NothingWithoutPayment, PaidMeansCaptured,
                              ToldAfterCapture
<1>7. QED
    BY <1>4, <1>5, <1>6

\* Every step keeps the invariant.
LEMMA InvNext == Inv /\ [Next]_vars => Inv'
<1> SUFFICES ASSUME Inv, [Next]_vars PROVE Inv'
    OBVIOUS
<1>1. ASSUME NEW w \in Workers, EmitCaptured(w) PROVE Inv'
  <2>1. job[w].inv \in Invoices
      BY <1>1 DEF Inv, JobOK, EmitCaptured
  <2>2. QED
      BY <1>1, <2>1, BeginCapturedStep DEF EmitCaptured, Captures
<1>2. ASSUME NEW w \in Workers, Finish(w) \/ Crash(w) PROVE Inv'
  <2>1. /\ job' = [job EXCEPT ![w] = Idle] /\ inbox' \subseteq inbox
        /\ UNCHANGED <<database, provider, repeats, reversals>>
      BY <1>2 DEF Finish, Done, Crash, counters
  <2>2. crashes' \in Nat
      BY <1>2 DEF Finish, Crash, counters, Inv, TypeOK
  <2>3. QED
      BY <2>1, <2>2, DoneStep
<1>3. ASSUME NEW w \in Workers, Spend(w) PROVE Inv'
    BY <1>3 DEF Spend, provider, counters, Inv, TypeOK, NothingWithoutPayment,
                PaidMeansCaptured, ToldAfterCapture, JobOK
<1>4. CASE UNCHANGED vars
    BY <1>4 DEF vars, database, provider, counters, Inv, TypeOK, NothingWithoutPayment,
                PaidMeansCaptured, ToldAfterCapture, JobOK
<1>5. ASSUME NEW w \in Workers, Proceed(w) PROVE Inv'
    BY <1>1, <1>2, <1>5, CallStep, CheckRefundStep, SaveInvoiceStep, ItemStep DEF Proceed
<1>6. QED
    BY <1>2, <1>3, <1>4, <1>5, ProviderStep, RequestStep, ReceiveStep, ItemStep DEF Next

\* The invariant holds in every reachable state of the payment handlers.
THEOREM Invariant == Spec => []Inv
BY InvInit, InvNext, PTL DEF Spec

\* Every variable keeps its type.
THEOREM TypeCorrect == Spec => []TypeOK
<1>1. Inv => TypeOK
    BY DEF Inv
<1>2. QED
    BY <1>1, Invariant, PTL

\* No line item is activated, and no invoice paid or refunded, for which neither
\* the provider's nor an administrator's captured event was handled; and
\* CaptureService, and the provider's webhooks, book only money that was taken.
THEOREM NothingIsFree == Spec => []MoneyComesFirst
<1>1. Inv => MoneyComesFirst
    BY DEF Inv, MoneyComesFirst
<1>2. QED
    BY <1>1, Invariant, PTL
-----------------------------------------------------------------------------
(***************************************************************************)
(* One worker, whose hooks do not veto.  While it handles the line items   *)
(* of an invoice, what its request is still to do makes up for what the    *)
(* invoice, the purchases and the tokens lack to agree.                    *)
(***************************************************************************)
Serial == ~HooksMayVeto /\ \A v, w \in Workers : v = w

Handling(t) == t.pc \in {"items", "item", "moving"}

\* The line items whose purchases a request has not looked at, or not saved.
Left(t) == t.todo \cup (IF t.pc = "item" THEN {t.item} ELSE {})

\* The tokens of completed purchases, and those a refund is still to take back.
Unrefunded(S) == Total(Size, {p \in S : purchase[p] = "COMPLETED"})
Owed(t) == Unrefunded(t.todo)
           + (IF t.pc \in {"item", "moving"} THEN Size[t.item] ELSE 0)

\* The tokens of each purchase, but for the one whose tokens come next.
TokensAgree(t) ==
    \A p \in Purchases :
       granted[p] = IF t.pc = "moving" /\ t.item = p
                    THEN IF t.op = "refunded" THEN Size[p] ELSE 0
                    ELSE IF purchase[p] = "COMPLETED" THEN Size[p] ELSE 0

\* The purchases of each invoice, but for the one being worked on.
OthersAgree(t) ==
    \A i \in Invoices :
       \/ i = t.inv /\ (Handling(t) \/ t.pc = "marked")
       \/ \A p \in Items[i] : /\ status[i] = "REFUNDED" => purchase[p] = "REFUNDED"
                              /\ status[i] = "PAID" => purchase[p] # "PENDING"

\* What a request read when it began is still so when it saves the invoice.
DecidedRightly(t) ==
    /\ t.pc \in {"calling", "checking", "saving"} => t.seen = status[t.inv]
    /\ (t.pc = "saving" /\ t.op = "refunded") =>
          t.seen = "PAID" /\ TokensToDebit(t.inv) <= balance
    /\ (t.pc = "saving" /\ t.op = "restored") => t.seen = "REFUNDED"
    /\ (t.pc = "saving" /\ t.op = "markpaid") => t.seen = "PENDING"
    /\ t.pc = "marked" => status[t.inv] = "PAID"

HandlesRightly(t) == Handling(t) =>
    /\ t.op \in Captures \cup {"refunded", "restored"}
    /\ status[t.inv] = NewStatus(t.op)
    /\ t.pc \in {"item", "moving"} => t.item \notin t.todo
    /\ t.pc = "item" => purchase[t.item] = ItemFrom(t.op)
    /\ t.pc = "moving" => purchase[t.item] = ItemTo(t.op)
    /\ t.op \in {"refunded", "restored"} =>
          \A p \in Items[t.inv] : purchase[p] # "PENDING"
    /\ \A p \in Items[t.inv] \ Left(t) :
          IF t.op = "refunded" THEN purchase[p] = "REFUNDED" ELSE purchase[p] # "PENDING"
    /\ t.op = "refunded" => Owed(t) <= balance

Books(t) == TokensAgree(t) /\ OthersAgree(t) /\ DecidedRightly(t) /\ HandlesRightly(t)

SerialInv == crashes = 0 => \A w \in Workers : Books(job[w])

\* The tokens a refund takes back are a sum over a set of purchases.
LEMMA TokensToDebitIs ==
    ASSUME NEW i
    PROVE  TokensToDebit(i) = Unrefunded(Items[i])
BY Zenon DEF TokensToDebit, Unrefunded, Total, MapThenSumSet, MapThenFoldSet

\* Steps that leave the books and the only worker's request as they are.
LEMMA BooksKept ==
    ASSUME SerialInv, UNCHANGED <<database, job, crashes>>
    PROVE  SerialInv'
<1>1. UNCHANGED <<status, paidBy, purchase, granted, balance, job, crashes>>
    BY DEF database
<1>2. \A i : TokensToDebit(i)' = TokensToDebit(i)
    BY <1>1, Zenon DEF TokensToDebit, MapThenSumSet, MapThenFoldSet
<1>3. \A w \in Workers : Owed(job[w])' = Owed(job[w])
    BY <1>1, Zenon DEF Owed, Unrefunded, Total, MapThenSumSet, MapThenFoldSet
<1> QED
    BY <1>1, <1>2, <1>3
    DEF SerialInv, Books, TokensAgree, OthersAgree, DecidedRightly, HandlesRightly, Handling, Left

\* The only worker goes on.
LEMMA OnlyWorker ==
    ASSUME Serial, Inv, SerialInv, NEW w \in Workers, crashes = 0,
           NEW t, job' = [job EXCEPT ![w] = t], Books(t)'
    PROVE  SerialInv'
<1>1. job \in [Workers -> Job] /\ \A v \in Workers : v = w
    BY DEF Inv, TypeOK, Serial
<1>2. \A v \in Workers : job'[v] = t
    BY <1>1
<1> QED
    BY <1>2 DEF SerialInv

\* Sums and requests of which nothing changes stay the same.
LEMMA SameDebit ==
    ASSUME UNCHANGED purchase
    PROVE  /\ \A i : TokensToDebit(i)' = TokensToDebit(i)
           /\ \A t : Owed(t)' = Owed(t)
<1>1. \A i : TokensToDebit(i)' = TokensToDebit(i)
    BY Zenon DEF TokensToDebit, MapThenSumSet, MapThenFoldSet
<1>2. \A t : Owed(t)' = Owed(t)
    BY Zenon DEF Owed, Unrefunded, Total, MapThenSumSet, MapThenFoldSet
<1> QED
    BY <1>1, <1>2

\* A request that ends leaves nothing undone.
LEMMA DoneBooks ==
    ASSUME Serial, Inv, SerialInv, NEW w \in Workers, crashes = 0,
           job' = [job EXCEPT ![w] = Idle],
           UNCHANGED <<purchase, granted>>,
           job[w].pc # "moving",
           \A i \in Invoices : \A p \in Items[i] :
              /\ status'[i] = "REFUNDED" => purchase[p] = "REFUNDED"
              /\ status'[i] = "PAID" => purchase[p] # "PENDING"
    PROVE  SerialInv'
<1>1. Idle.pc = "idle"
    BY DEF Idle
<1>2. TokensAgree(job[w])
    BY DEF SerialInv, Books
<1>3. Books(Idle)'
    BY <1>1, <1>2 DEF Books, TokensAgree, OthersAgree, DecidedRightly, HandlesRightly, Handling
<1>4. PICK t : t = Idle
    OBVIOUS
<1>5. Books(t)'
    BY <1>3, <1>4
<1> QED
    BY <1>4, <1>5, OnlyWorker

\* A request that has read invoice i and decided.
LEMMA ContinueBooks ==
    ASSUME Serial, Inv, SerialInv, NEW w \in Workers, crashes = 0,
           NEW i \in Invoices, NEW op \in Operation, NEW hook,
           NEW pc \in {"calling", "checking", "saving", "items"},
           Continue(w, pc, op, i, hook), UNCHANGED database,
           job[w].pc = "idle" \/ (job[w].pc = "marked" /\ job[w].inv = i /\ pc = "items"),
           pc = "saving" /\ op = "refunded" => status[i] = "PAID" /\ EnoughTokens(i),
           pc = "saving" /\ op = "restored" => status[i] = "REFUNDED",
           pc = "saving" /\ op = "markpaid" => status[i] = "PENDING",
           pc = "items" => op \in Captures /\ status[i] = "PAID"
    PROVE  SerialInv'
<1>1. PICK t : t = [pc |-> pc, op |-> op, inv |-> i, hook |-> hook, item |-> None,
                    seen |-> IF pc = "items" THEN "PENDING" ELSE status[i],
                    todo |-> IF pc = "items" THEN Items[i] ELSE {}]
    OBVIOUS
<1>2. /\ t.pc = pc /\ t.op = op /\ t.inv = i
      /\ pc # "items" => t.seen = status[i]
      /\ pc = "items" => t.todo = Items[i]
    BY <1>1
<1>3. UNCHANGED <<status, purchase, granted, balance>>
    BY DEF database
<1>4. TokensAgree(job[w]) /\ OthersAgree(job[w])
    BY DEF SerialInv, Books
<1>5. TokensAgree(t)'
    BY <1>2, <1>3, <1>4 DEF TokensAgree
<1>6. OthersAgree(t)'
    BY <1>2, <1>3, <1>4 DEF OthersAgree, Handling
<1>7. DecidedRightly(t)'
    BY <1>2, <1>3, SameDebit DEF DecidedRightly, EnoughTokens
<1>8. HandlesRightly(t)'
    BY <1>2, <1>3 DEF HandlesRightly, Handling, Left, NewStatus, Captures
<1>9. job' = [job EXCEPT ![w] = t]
    BY <1>1 DEF Continue
<1>10. Books(t)'
    BY <1>5, <1>6, <1>7, <1>8 DEF Books
<1> QED
    BY <1>9, <1>10, OnlyWorker

LEMMA BeginCapturedBooks ==
    ASSUME Serial, Inv, SerialInv, NEW w \in Workers, crashes = 0,
           NEW i \in Invoices, NEW op \in Captures, NEW hook,
           BeginCaptured(w, op, i, hook), UNCHANGED database,
           job[w].pc = "idle" \/ (job[w].pc = "marked" /\ job[w].inv = i /\ status[i] = "PAID")
    PROVE  SerialInv'
<1>1. op \in Operation /\ op \notin {"refunded", "restored", "markpaid"}
    BY DEF Captures, Operation, Notification
<1>2. CASE status[i] = "PAID"
  <2>1. Continue(w, "items", op, i, hook)
      BY <1>2 DEF BeginCaptured
  <2> QED
      BY <1>1, <1>2, <2>1, ContinueBooks
<1>3. CASE status[i] # "PAID"
  <2>1. Continue(w, "saving", op, i, hook)
      BY <1>3 DEF BeginCaptured
  <2> QED
      BY <1>1, <1>3, <2>1, ContinueBooks
<1> QED
    BY <1>2, <1>3

\* Notifications and requests that are taken up, and those that are refused.
LEMMA ReceiveBooks ==
    ASSUME Serial, Inv, SerialInv, NEW w \in Workers, crashes = 0,
           NEW m \in Message, Receive(w, m)
    PROVE  SerialInv'
<1>1. PICK kind \in Notification, i \in Invoices : m = <<kind, i>>
    BY DEF Message
<1>2. UNCHANGED <<database, crashes>> /\ job[w].pc = "idle"
    BY DEF Receive, counters
<1>3. CASE kind = "captured"
  <2>1. BeginCaptured(w, kind, i, TRUE)
      BY <1>1, <1>3 DEF Receive
  <2> QED
      BY <1>2, <1>3, <2>1, BeginCapturedBooks DEF Captures
<1>4. CASE kind # "captured" /\ MayBegin(kind, i)
  <2>1. Continue(w, "saving", kind, i, TRUE) /\ kind \in Operation
      BY <1>1, <1>4 DEF Receive, Operation
  <2>2. /\ kind = "refunded" => status[i] = "PAID" /\ EnoughTokens(i)
        /\ kind = "restored" => status[i] = "REFUNDED"
        /\ kind # "markpaid"
      BY <1>4 DEF MayBegin, Notification
  <2> QED
      BY <1>2, <2>1, <2>2, ContinueBooks
<1>5. CASE kind # "captured" /\ ~MayBegin(kind, i)
  <2>1. UNCHANGED job
      BY <1>1, <1>5 DEF Receive
  <2> QED
      BY <1>2, <2>1, BooksKept
<1> QED
    BY <1>3, <1>4, <1>5

LEMMA RequestBooks ==
    ASSUME Serial, Inv, SerialInv, NEW w \in Workers, crashes = 0, Request(w)
    PROVE  SerialInv'
<1>1. PICK i \in Invoices :
         \/ AdminCaptured(w, i)
         \/ AdminMarksPaid(w, i)
         \/ \E op \in {"void", "fail"} : AdminCloses(w, op, i)
         \/ \E op \in {"capture", "release"} : BeginCapture(w, op, i)
         \/ AdminRefunds(w, i)
    BY DEF Request
<1>2. CASE AdminCaptured(w, i)
    BY <1>2, BeginCapturedBooks DEF AdminCaptured, Captures
<1>3. CASE AdminMarksPaid(w, i)
    BY <1>3, ContinueBooks DEF AdminMarksPaid, Operation
<1>4. ASSUME NEW op \in {"void", "fail"}, AdminCloses(w, op, i)
      PROVE  SerialInv'
    BY <1>4, ContinueBooks DEF AdminCloses, Operation
<1>5. ASSUME NEW op \in {"capture", "release"}, BeginCapture(w, op, i)
      PROVE  SerialInv'
    BY <1>5, ContinueBooks DEF BeginCapture, Operation
<1>6. CASE AdminRefunds(w, i)
  <2>1. PICK pc \in {"calling", "checking"} : Continue(w, pc, "refund", i, FALSE)
      BY <1>6 DEF AdminRefunds
  <2>2. "refund" \in Operation /\ UNCHANGED database /\ job[w].pc = "idle"
      BY <1>6 DEF AdminRefunds, Operation
  <2> QED
      BY <2>1, <2>2, ContinueBooks
<1> QED
    BY <1>1, <1>2, <1>3, <1>4, <1>5, <1>6

\* The provider is asked, or the refund checked: the invoice is as it was.
LEMMA DecideBooks ==
    ASSUME Serial, Inv, SerialInv, NEW w \in Workers, crashes = 0,
           CallProvider(w) \/ CallRefund(w) \/ CheckRefund(w)
    PROVE  SerialInv'
<1>1. /\ Books(job[w]) /\ JobOK(job[w]) /\ job[w] \in Job
      /\ job[w].pc \in {"calling", "checking"} /\ UNCHANGED database
    BY DEF SerialInv, Inv, JobOK, CallProvider, CallRefund, CheckRefund
<1>2. UNCHANGED <<status, purchase, granted, balance>>
    BY <1>1 DEF database
<1>3. CASE job' = [job EXCEPT ![w] = Idle]
  <2>1. \A i \in Invoices : \A p \in Items[i] :
              /\ status'[i] = "REFUNDED" => purchase[p] = "REFUNDED"
              /\ status'[i] = "PAID" => purchase[p] # "PENDING"
      BY <1>1, <1>2 DEF Books, OthersAgree, Handling
  <2> QED
      BY <1>1, <1>2, <1>3, <2>1, DoneBooks
<1>4. ASSUME NEW op \in {"captured", "release", "refunded"},
             job' = [job EXCEPT ![w].pc = "saving", ![w].op = op],
             op = "refunded" => job[w].seen = "PAID" /\ EnoughTokens(job[w].inv)
      PROVE  SerialInv'
  <2>1. PICK t : t = [job[w] EXCEPT !.pc = "saving", !.op = op]
      OBVIOUS
  <2>2. t.pc = "saving" /\ t.op = op /\ t.inv = job[w].inv /\ t.seen = job[w].seen
      BY <1>1, <2>1 DEF Job
  <2>3. job' = [job EXCEPT ![w] = t]
      BY <1>4, <2>1
  <2>4. TokensAgree(t)' /\ OthersAgree(t)'
      BY <1>1, <1>2, <2>2 DEF Books, TokensAgree, OthersAgree, Handling
  <2>5. DecidedRightly(t)'
      BY <1>1, <1>2, <1>4, <2>2, SameDebit DEF Books, DecidedRightly, EnoughTokens
  <2>6. HandlesRightly(t)'
      BY <2>2 DEF HandlesRightly, Handling
  <2>7. Books(t)'
      BY <2>4, <2>5, <2>6 DEF Books
  <2> QED
      BY <2>3, <2>7, OnlyWorker
<1>5. CASE CallProvider(w)
  <2>1. \/ job' = [job EXCEPT ![w] = Idle]
        \/ job' = [job EXCEPT ![w].pc = "saving", ![w].op = "captured"]
        \/ job' = [job EXCEPT ![w].pc = "saving"] /\ job[w].op = "release"
      BY <1>5 DEF CallProvider, Done
  <2>2. (job' = [job EXCEPT ![w].pc = "saving"] /\ job[w].op = "release")
           => job' = [job EXCEPT ![w].pc = "saving", ![w].op = "release"]
    <3>1. job[w].op = "release" =>
             [job[w] EXCEPT !.pc = "saving"] = [job[w] EXCEPT !.pc = "saving", !.op = "release"]
        BY <1>1 DEF Job
    <3> QED
        BY <3>1
  <2> QED
      BY <1>3, <1>4, <2>1, <2>2
<1>6. CASE CallRefund(w) \/ CheckRefund(w)
    BY <1>3, <1>4, <1>6 DEF CallRefund, CheckRefund, Done
<1> QED
    BY <1>5, <1>6

\* The invoice is saved: its line items come next, if they are to change.
LEMMA SaveInvoiceBooks ==
    ASSUME Serial, Inv, SerialInv, NEW w \in Workers, crashes = 0, SaveInvoice(w)
    PROVE  SerialInv'
<1>1. PICK op \in Operation, i \in Invoices : op = job[w].op /\ i = job[w].inv
    BY DEF Inv, JobOK, Job, SaveInvoice
<1>2. Books(job[w]) /\ job[w] \in Job /\ job[w].pc = "saving" /\ status[i] = job[w].seen
    BY <1>1 DEF SerialInv, Inv, JobOK, SaveInvoice, Books, DecidedRightly
<1>3. /\ status \in [Invoices -> InvoiceStatus]
      /\ UNCHANGED <<purchase, granted, balance>>
      /\ \A j \in Invoices : status'[j] = IF j = i THEN NewStatus(op) ELSE status[j]
    BY <1>1, <1>2 DEF SaveInvoice, Inv, TypeOK
<1>4. \A j \in Invoices : \A p \in Items[j] :
         /\ status[j] = "REFUNDED" => purchase[p] = "REFUNDED"
         /\ status[j] = "PAID" => purchase[p] # "PENDING"
    BY <1>2 DEF Books, OthersAgree, Handling
<1>5. TokensAgree(job[w])
    BY <1>2 DEF Books
<1>6. CASE op \in Captures \cup {"refunded", "restored"}
  <2>1. PICK t : t = [pc |-> "items", op |-> op, inv |-> i, hook |-> job[w].hook,
                      item |-> None, seen |-> "PENDING", todo |-> Items[i]]
      OBVIOUS
  <2>2. job' = [job EXCEPT ![w] = t]
    <3>1. Continue(w, "items", op, i, job[w].hook)
        BY <1>1, <1>6 DEF SaveInvoice, Captures
    <3> QED
        BY <2>1, <3>1 DEF Continue
  <2>3. t.pc = "items" /\ t.op = op /\ t.inv = i /\ t.todo = Items[i]
      BY <2>1
  <2>4. TokensAgree(t)'
      BY <1>2, <1>3, <1>5, <2>3 DEF TokensAgree
  <2>5. OthersAgree(t)'
      BY <1>3, <1>4, <2>3 DEF OthersAgree, Handling
  <2>6. DecidedRightly(t)'
      BY <2>3 DEF DecidedRightly
  <2>7. op \in {"refunded", "restored"} => \A p \in Items[i] : purchase[p] # "PENDING"
      BY <1>1, <1>2, <1>4 DEF Books, DecidedRightly
  <2>8. op = "refunded" => Owed(t)' <= balance
    <3>1. Unrefunded(Items[i]) \in Nat
      <4>1. {p \in Items[i] : purchase[p] = "COMPLETED"} \in SUBSET Purchases
          BY PaymentConstants
      <4> QED
          BY <4>1, PaymentConstants, FS_Subset, TotalIsNat DEF Unrefunded
    <3>2. op = "refunded" =>
             Unrefunded(Items[i]) <= balance
        BY <1>1, <1>2, TokensToDebitIs DEF Books, DecidedRightly
    <3>3. Owed(t)' = Unrefunded(Items[i]) + 0
      <4>1. Owed(t)' = Owed(t)
          BY <1>3, SameDebit
      <4>2. Owed(t) = Unrefunded(Items[i]) + 0
          BY <2>3 DEF Owed
      <4> QED
          BY <4>1, <4>2
    <3> QED
        BY <3>1, <3>2, <3>3
  <2>9. HandlesRightly(t)'
      BY <1>3, <1>6, <2>3, <2>7, <2>8 DEF HandlesRightly, Handling, Left
  <2>10. Books(t)'
      BY <2>4, <2>5, <2>6, <2>9 DEF Books
  <2> QED
      BY <2>2, <2>10, OnlyWorker
<1>7. CASE op = "markpaid"
  <2>1. PICK t : t = [job[w] EXCEPT !.pc = "marked", !.seen = "PENDING"]
      OBVIOUS
  <2>2. job' = [job EXCEPT ![w] = t]
    <3>1. job' = [job EXCEPT ![w].pc = "marked", ![w].seen = "PENDING"]
        BY <1>1, <1>7 DEF SaveInvoice, Captures
    <3>2. job \in [Workers -> Job]
        BY DEF Inv, TypeOK
    <3> QED
        BY <2>1, <3>1, <3>2 DEF Job
  <2>3. t.pc = "marked" /\ t.inv = i
      BY <1>1, <1>2, <2>1 DEF Job
  <2>4. TokensAgree(t)' /\ OthersAgree(t)' /\ HandlesRightly(t)'
      BY <1>2, <1>3, <1>4, <1>5, <2>3 DEF TokensAgree, OthersAgree, HandlesRightly, Handling
  <2>5. DecidedRightly(t)'
      BY <1>3, <1>7, <2>3 DEF DecidedRightly, NewStatus, Captures
  <2>6. Books(t)'
      BY <2>4, <2>5 DEF Books
  <2> QED
      BY <2>2, <2>6, OnlyWorker
<1>8. CASE op \notin Captures \cup {"refunded", "restored", "markpaid"}
  <2>1. job' = [job EXCEPT ![w] = Idle]
      BY <1>1, <1>8 DEF SaveInvoice, Done
  <2>2. NewStatus(op) \notin {"PAID", "REFUNDED"}
      BY <1>8 DEF NewStatus
  <2>3. \A j \in Invoices : \A p \in Items[j] :
           /\ status'[j] = "REFUNDED" => purchase[p] = "REFUNDED"
           /\ status'[j] = "PAID" => purchase[p] # "PENDING"
      BY <1>3, <1>4, <2>2
  <2> QED
      BY <1>2, <1>3, <2>1, <2>3, DoneBooks
<1> QED
    BY <1>6, <1>7, <1>8

\* The tokens of the purchases left are fewer by the one that is next.
LEMMA OwedWithout ==
    ASSUME NEW T \in SUBSET Purchases, NEW p \in T
    PROVE  /\ Unrefunded(T) \in Nat /\ Unrefunded(T \ {p}) \in Nat
           /\ purchase[p] = "COMPLETED" => Unrefunded(T) = Size[p] + Unrefunded(T \ {p})
           /\ purchase[p] # "COMPLETED" => Unrefunded(T) = Unrefunded(T \ {p})
<1> DEFINE D(S) == {x \in S : purchase[x] = "COMPLETED"}
<1>1. /\ D(T) \in SUBSET Purchases /\ D(T \ {p}) \in SUBSET Purchases
      /\ Size \in [Purchases -> Nat] /\ IsFiniteSet(Purchases)
    BY PaymentConstants
<1>2. IsFiniteSet(D(T)) /\ IsFiniteSet(D(T \ {p}))
    BY <1>1, FS_Subset
<1>3. /\ purchase[p] = "COMPLETED" => p \in D(T) /\ D(T \ {p}) = D(T) \ {p}
      /\ purchase[p] # "COMPLETED" => D(T \ {p}) = D(T)
    OBVIOUS
<1> HIDE DEF D
<1>4. Total(Size, D(T)) \in Nat /\ Total(Size, D(T \ {p})) \in Nat
    BY <1>1, <1>2, TotalIsNat
<1>5. ASSUME purchase[p] = "COMPLETED"
      PROVE  Total(Size, D(T)) = Size[p] + Total(Size, D(T \ {p}))
  <2>1. p \in D(T) /\ D(T \ {p}) = D(T) \ {p}
      BY <1>3, <1>5
  <2>2. Total(Size, D(T)) = Size[p] + Total(Size, D(T) \ {p})
      BY <1>1, <1>2, <2>1, TotalWithout
  <2> QED
      BY <2>1, <2>2
<1> QED
    BY <1>3, <1>4, <1>5 DEF D, Unrefunded

LEMMA NextItemBooks ==
    ASSUME Serial, Inv, SerialInv, NEW w \in Workers, crashes = 0,
           NEW p \in Purchases, NextItem(w, p)
    PROVE  SerialInv'
<1>1. /\ Books(job[w]) /\ JobOK(job[w]) /\ job[w] \in Job
      /\ job[w].pc = "items" /\ p \in job[w].todo /\ job[w].todo \subseteq Purchases
      /\ UNCHANGED <<status, purchase, granted, balance>>
    BY PaymentConstants DEF SerialInv, Inv, JobOK, NextItem, database, Job
<1>h. HandlesRightly(job[w]) /\ Handling(job[w])
    BY <1>1 DEF Books, Handling
<1>2. ASSUME purchase[p] = ItemFrom(job[w].op) PROVE SerialInv'
  <2>1. PICK t : t = [job[w] EXCEPT !.pc = "item", !.item = p, !.todo = job[w].todo \ {p}]
      OBVIOUS
  <2>2. job' = [job EXCEPT ![w] = t]
      BY <1>2, <2>1 DEF NextItem
  <2>3. /\ t.pc = "item" /\ t.item = p /\ t.todo = job[w].todo \ {p}
        /\ t.op = job[w].op /\ t.inv = job[w].inv
      BY <1>1, <2>1 DEF Job
  <2>4. TokensAgree(t)' /\ OthersAgree(t)' /\ DecidedRightly(t)'
      BY <1>1, <2>3 DEF Books, TokensAgree, OthersAgree, DecidedRightly, Handling
  <2>5. Left(t) = Left(job[w]) /\ t.item \notin t.todo
      BY <1>1, <2>3 DEF Left
  <2>6. t.op = "refunded" => Owed(t)' <= balance
    <3> SUFFICES ASSUME t.op = "refunded" PROVE Owed(t) <= balance
        BY <1>1, SameDebit
    <3>1. purchase[p] = "COMPLETED" /\ Owed(job[w]) <= balance /\ Size[p] \in Nat
        BY <1>2, <1>h, <2>3, PaymentConstants DEF HandlesRightly, ItemFrom, Captures
    <3>2. /\ Unrefunded(job[w].todo)
                 = Size[p] + Unrefunded(t.todo)
          /\ Unrefunded(job[w].todo) \in Nat
          /\ Unrefunded(t.todo) \in Nat
        BY <1>1, <2>3, <3>1, OwedWithout
    <3>3. /\ Owed(job[w]) = Unrefunded(job[w].todo) + 0
          /\ Owed(t) = Unrefunded(t.todo) + Size[p]
        BY <1>1, <2>3 DEF Owed
    <3> QED
        BY <3>1, <3>2, <3>3
  <2>7. HandlesRightly(t)'
      BY <1>1, <1>2, <1>h, <2>3, <2>5, <2>6 DEF HandlesRightly, Handling, Left
  <2>8. Books(t)'
      BY <2>4, <2>7 DEF Books
  <2> QED
      BY <2>2, <2>8, OnlyWorker
<1>3. ASSUME purchase[p] # ItemFrom(job[w].op) PROVE SerialInv'
  <2>1. PICK t : t = [job[w] EXCEPT !.todo = job[w].todo \ {p}]
      OBVIOUS
  <2>2. job' = [job EXCEPT ![w] = t]
      BY <1>3, <2>1 DEF NextItem
  <2>3. /\ t.pc = "items" /\ t.item = job[w].item /\ t.todo = job[w].todo \ {p}
        /\ t.op = job[w].op /\ t.inv = job[w].inv
      BY <1>1, <2>1 DEF Job
  <2>4. TokensAgree(t)' /\ OthersAgree(t)' /\ DecidedRightly(t)'
      BY <1>1, <2>3 DEF Books, TokensAgree, OthersAgree, DecidedRightly, Handling
  <2>5. Left(t) = Left(job[w]) \ {p} /\ p \in Items[t.inv]
      BY <1>1, <2>3 DEF Left, JobOK
  <2>6. IF t.op = "refunded" THEN purchase[p] = "REFUNDED" ELSE purchase[p] # "PENDING"
    <3>1. purchase[p] \in PurchaseStatus
        BY DEF Inv, TypeOK
    <3> QED
        BY <1>3, <1>h, <2>3, <2>5, <3>1 DEF HandlesRightly, ItemFrom, PurchaseStatus, Captures
  <2>7. t.op = "refunded" => Owed(t)' <= balance
    <3> SUFFICES ASSUME t.op = "refunded" PROVE Owed(t) <= balance
        BY <1>1, SameDebit
    <3>1. purchase[p] # "COMPLETED" /\ Owed(job[w]) <= balance
        BY <1>h, <2>3, <2>6 DEF HandlesRightly
    <3>2. Unrefunded(job[w].todo)
             = Unrefunded(t.todo)
        BY <1>1, <2>3, <3>1, OwedWithout
    <3>3. /\ Owed(job[w]) = Unrefunded(job[w].todo) + 0
          /\ Owed(t) = Unrefunded(t.todo) + 0
        BY <1>1, <2>3 DEF Owed
    <3> QED
        BY <3>1, <3>2, <3>3
  <2>8. HandlesRightly(t)'
      BY <1>1, <1>h, <2>3, <2>5, <2>6, <2>7 DEF HandlesRightly, Handling
  <2>9. Books(t)'
      BY <2>4, <2>8 DEF Books
  <2> QED
      BY <2>2, <2>9, OnlyWorker
<1> QED
    BY <1>2, <1>3

\* The purchase is saved, and then its tokens move.
LEMMA SaveItemBooks ==
    ASSUME Serial, Inv, SerialInv, NEW w \in Workers, crashes = 0, SaveItem(w)
    PROVE  SerialInv'
<1>1. /\ Books(job[w]) /\ JobOK(job[w]) /\ job[w] \in Job /\ job[w].pc = "item"
      /\ UNCHANGED <<status, granted, balance>>
    BY DEF SerialInv, Inv, JobOK, SaveItem
<1>h. HandlesRightly(job[w]) /\ Handling(job[w])
    BY <1>1 DEF Books, Handling
<1>2. PICK p \in Purchases : p = job[w].item
    BY <1>1, PaymentConstants DEF JobOK
<1>3. PICK op \in Operation : op = job[w].op
    BY <1>1 DEF Job
<1>4. PICK t : t = [job[w] EXCEPT !.pc = "moving"]
    OBVIOUS
<1>5. job' = [job EXCEPT ![w] = t]
    BY <1>4 DEF SaveItem
<1>6. /\ t.pc = "moving" /\ t.item = p /\ t.todo = job[w].todo
      /\ t.op = op /\ t.inv = job[w].inv
    BY <1>1, <1>2, <1>3, <1>4 DEF Job
<1>7. \A x \in Purchases : purchase'[x] = IF x = p THEN ItemTo(op) ELSE purchase[x]
    BY <1>2, <1>3 DEF SaveItem, Inv, TypeOK
<1>8. /\ op \in Captures \cup {"refunded", "restored"} /\ p \notin t.todo
      /\ p \in Items[t.inv] /\ purchase[p] = ItemFrom(op)
    BY <1>1, <1>h, <1>2, <1>3, <1>6 DEF HandlesRightly, JobOK
<1>9. TokensAgree(t)'
  <2>1. granted[p] = IF op = "refunded" THEN Size[p] ELSE 0
      BY <1>1, <1>8 DEF Books, TokensAgree, ItemFrom, Captures
  <2> QED
      BY <1>1, <1>2, <1>6, <1>7, <2>1 DEF Books, TokensAgree
<1>10. OthersAgree(t)'
  <2>1. \A i \in Invoices : i # t.inv => p \notin Items[i]
      BY <1>1, <1>6, <1>8, PaymentConstants DEF JobOK
  <2>2. \A i \in Invoices : Items[i] \subseteq Purchases
      BY PaymentConstants
  <2> QED
      BY <1>1, <1>6, <1>7, <2>1, <2>2 DEF Books, OthersAgree, Handling
<1>11. DecidedRightly(t)'
    BY <1>6 DEF DecidedRightly
<1>12. op = "refunded" => Owed(t)' <= balance
  <2>1. {x \in t.todo : purchase'[x] = "COMPLETED"} = {x \in t.todo : purchase[x] = "COMPLETED"}
    <3>1. t.todo \subseteq Purchases
        BY <1>1, <1>6 DEF Job
    <3> QED
        BY <1>7, <1>8, <3>1
  <2>2. Unrefunded(t.todo)' = Unrefunded(t.todo)
    <3>1. \A S : Total(Size, S)' = Total(Size, S)
        BY Zenon DEF Total, MapThenSumSet, MapThenFoldSet
    <3> QED
        BY <2>1, <3>1 DEF Unrefunded
  <2>3. Owed(t)' = Unrefunded(t.todo) + Size[p] /\ Owed(job[w]) = Unrefunded(t.todo) + Size[p]
      BY <1>1, <1>2, <1>6, <2>2 DEF Owed
  <2> QED
      BY <1>h, <1>3, <2>3 DEF HandlesRightly
<1>13. HandlesRightly(t)'
  <2>1. Items[t.inv] \subseteq Purchases
      BY <1>1, <1>6, PaymentConstants DEF JobOK
  <2>2. ItemTo(op) # "PENDING" /\ (op = "refunded" => ItemTo(op) = "REFUNDED")
      BY DEF ItemTo
  <2>3. /\ status[t.inv] = NewStatus(op)
        /\ op \in {"refunded", "restored"} => \A x \in Items[t.inv] : purchase[x] # "PENDING"
        /\ \A x \in Items[t.inv] \ (t.todo \cup {p}) :
              IF op = "refunded" THEN purchase[x] = "REFUNDED" ELSE purchase[x] # "PENDING"
      BY <1>1, <1>h, <1>2, <1>3, <1>6 DEF HandlesRightly, Left
  <2>4. /\ op \in {"refunded", "restored"} => \A x \in Items[t.inv] : purchase'[x] # "PENDING"
        /\ \A x \in Items[t.inv] \ t.todo :
              IF op = "refunded" THEN purchase'[x] = "REFUNDED" ELSE purchase'[x] # "PENDING"
      BY <1>7, <2>1, <2>2, <2>3
  <2>5. purchase'[p] = ItemTo(op)
      BY <1>7
  <2> QED
      BY <1>1, <1>6, <1>8, <1>12, <2>3, <2>4, <2>5 DEF HandlesRightly, Left
<1>14. Books(t)'
    BY <1>9, <1>10, <1>11, <1>13 DEF Books
<1> QED
    BY <1>5, <1>14, OnlyWorker

LEMMA MoveTokensBooks ==
    ASSUME Serial, Inv, SerialInv, NEW w \in Workers, crashes = 0, MoveTokens(w)
    PROVE  SerialInv'
<1>1. /\ Books(job[w]) /\ JobOK(job[w]) /\ job[w] \in Job /\ job[w].pc = "moving"
      /\ UNCHANGED <<status, purchase>>
    BY DEF SerialInv, Inv, JobOK, MoveTokens
<1>h. HandlesRightly(job[w]) /\ Handling(job[w])
    BY <1>1 DEF Books, Handling
<1>2. PICK p \in Purchases : p = job[w].item
    BY <1>1, PaymentConstants DEF JobOK
<1>3. PICK op \in Operation : op = job[w].op
    BY <1>1 DEF Job
<1>4. PICK t : t = [job[w] EXCEPT !.pc = "items", !.item = None]
    OBVIOUS
<1>5. job' = [job EXCEPT ![w] = t]
    BY <1>4 DEF MoveTokens
<1>6. /\ t.pc = "items" /\ t.todo = job[w].todo /\ t.op = op /\ t.inv = job[w].inv
    BY <1>1, <1>3, <1>4 DEF Job
<1>7. /\ Size[p] \in Nat /\ balance \in Int /\ Unrefunded(t.todo) \in Nat
      /\ Owed(job[w]) = Unrefunded(t.todo) + Size[p]
      /\ Owed(t)' = Unrefunded(t.todo) + 0
  <2>1. Unrefunded(t.todo) \in Nat
    <3>1. {x \in t.todo : purchase[x] = "COMPLETED"} \in SUBSET Purchases
        BY <1>1, <1>6 DEF Job
    <3> QED
        BY <3>1, PaymentConstants, FS_Subset, TotalIsNat DEF Unrefunded
  <2>2. Owed(t)' = Owed(t)
      BY <1>1, SameDebit
  <2> QED
      BY <1>1, <1>2, <1>6, <2>1, <2>2, PaymentConstants DEF Owed, Inv, TypeOK
<1>8. op = "refunded" => Size[p] <= balance
    BY <1>h, <1>3, <1>7 DEF HandlesRightly
<1>9. /\ TokenDelta(w) = IF op = "refunded" THEN -Size[p] ELSE Size[p]
      /\ balance' = balance + TokenDelta(w)
      /\ \A x \in Purchases : granted'[x] = IF x = p THEN granted[x] + TokenDelta(w) ELSE granted[x]
    BY <1>2, <1>3, <1>8 DEF TokenDelta, MoveTokens, Inv, TypeOK
<1>10. purchase[p] = ItemTo(op)
    BY <1>1, <1>h, <1>2, <1>3 DEF HandlesRightly
<1>11. TokensAgree(t)'
  <2>1. granted[p] = IF op = "refunded" THEN Size[p] ELSE 0
      BY <1>1, <1>2, <1>3 DEF Books, TokensAgree
  <2>2. granted'[p] = IF purchase[p] = "COMPLETED" THEN Size[p] ELSE 0
      BY <1>7, <1>9, <1>10, <2>1 DEF ItemTo
  <2> QED
      BY <1>1, <1>2, <1>6, <1>9, <2>2 DEF Books, TokensAgree
<1>12. OthersAgree(t)' /\ DecidedRightly(t)'
    BY <1>1, <1>6 DEF Books, OthersAgree, DecidedRightly, Handling
<1>13. op = "refunded" => Owed(t)' <= balance'
  <2> SUFFICES ASSUME op = "refunded" PROVE Owed(t)' <= balance'
      OBVIOUS
  <2>1. Unrefunded(t.todo) + Size[p] <= balance
      BY <1>h, <1>3, <1>7 DEF HandlesRightly
  <2>2. balance' = balance - Size[p]
      BY <1>7, <1>9
  <2> QED
      BY <1>7, <2>1, <2>2
<1>14. HandlesRightly(t)'
    BY <1>1, <1>h, <1>3, <1>6, <1>13 DEF HandlesRightly, Handling, Left
<1>15. Books(t)'
    BY <1>11, <1>12, <1>14 DEF Books
<1> QED
    BY <1>5, <1>15, OnlyWorker

\* Every step of the only worker, and of the provider, keeps the books.
LEMMA SerialNext == Serial /\ Inv /\ SerialInv /\ [Next]_vars => SerialInv'
<1> SUFFICES ASSUME Serial, Inv, SerialInv, [Next]_vars PROVE SerialInv'
    OBVIOUS
<1>c. crashes \in Nat
    BY DEF Inv, TypeOK
<1>1. CASE crashes # 0
  <2>1. crashes' \in {crashes, crashes + 1}
      BY <1>1 DEF Next, vars, Provider, OpenSession, CustomerPays, CustomerAuthorizes,
                  ProviderRefunds, ProviderReverses, ProviderRepeats, Request, AdminCaptured,
                  AdminMarksPaid, AdminCloses, BeginCapture, AdminRefunds, Receive, Proceed,
                  CallProvider, CallRefund, CheckRefund, SaveInvoice, EmitCaptured, NextItem,
                  SaveItem, MoveTokens, Finish, HookVetoes, Crash, Spend, counters
  <2> QED
      BY <1>c, <1>1, <2>1 DEF SerialInv
<1>2. CASE crashes = 0
  <2>1. CASE Provider \/ UNCHANGED vars
    <3>1. UNCHANGED <<database, job, crashes>>
        BY <2>1 DEF Provider, OpenSession, CustomerPays, CustomerAuthorizes, ProviderRefunds,
                    ProviderReverses, ProviderRepeats, vars, counters
    <3> QED
        BY <3>1, BooksKept
  <2>2. ASSUME NEW w \in Workers, EmitCaptured(w) PROVE SerialInv'
    <3>1. /\ job[w].pc = "marked" /\ job[w].inv \in Invoices /\ UNCHANGED database
          /\ status[job[w].inv] = "PAID"
        BY <1>2, <2>2 DEF EmitCaptured, Inv, JobOK, SerialInv, Books, DecidedRightly
    <3>2. BeginCaptured(w, "manual", job[w].inv, FALSE) /\ "manual" \in Captures
        BY <2>2 DEF EmitCaptured, Captures
    <3> QED
        BY <1>2, <3>1, <3>2, BeginCapturedBooks
  <2>3. ASSUME NEW w \in Workers, Finish(w) PROVE SerialInv'
    <3>1. /\ job[w].pc = "items" /\ job[w].todo = {} /\ job' = [job EXCEPT ![w] = Idle]
          /\ UNCHANGED <<status, purchase, granted>>
        BY <2>3 DEF Finish, Done, database
    <3>2. OthersAgree(job[w]) /\ HandlesRightly(job[w]) /\ Handling(job[w]) /\ Left(job[w]) = {}
        BY <1>2, <3>1 DEF SerialInv, Books, Handling, Left
    <3>3. \A p \in Items[job[w].inv] :
             /\ status[job[w].inv] = "REFUNDED" => purchase[p] = "REFUNDED"
             /\ status[job[w].inv] = "PAID" => purchase[p] # "PENDING"
        BY <3>2 DEF HandlesRightly, NewStatus, Captures
    <3>4. \A i \in Invoices : \A p \in Items[i] :
             /\ status'[i] = "REFUNDED" => purchase[p] = "REFUNDED"
             /\ status'[i] = "PAID" => purchase[p] # "PENDING"
        BY <3>1, <3>2, <3>3 DEF OthersAgree
    <3> QED
        BY <1>2, <3>1, <3>4, DoneBooks
  <2>4. ASSUME NEW w \in Workers, Crash(w) PROVE SerialInv'
    <3>1. crashes' = 1
        BY <1>2, <2>4 DEF Crash
    <3> QED
        BY <3>1 DEF SerialInv
  <2>5. ASSUME NEW w \in Workers, Spend(w) PROVE SerialInv'
    <3>1. /\ job[w].pc = "idle" /\ UNCHANGED <<status, purchase, granted, job>>
        BY <2>5 DEF Spend
    <3>2. \A v \in Workers : v = w
        BY DEF Serial
    <3>3. Books(job[w])'
        BY <1>2, <3>1 DEF SerialInv, Books, TokensAgree, OthersAgree, DecidedRightly,
                          HandlesRightly, Handling
    <3> QED
        BY <3>2, <3>3 DEF SerialInv
  <2>6. ASSUME NEW w \in Workers, HookVetoes(w) PROVE SerialInv'
      BY <2>6 DEF HookVetoes, Serial
  <2>7. ASSUME NEW w \in Workers, Proceed(w) PROVE SerialInv'
      BY <1>2, <2>2, <2>3, <2>7, DecideBooks, SaveInvoiceBooks, NextItemBooks, SaveItemBooks,
         MoveTokensBooks DEF Proceed
  <2> QED
      BY <1>2, <2>1, <2>4, <2>5, <2>6, <2>7, ReceiveBooks, RequestBooks DEF Next
<1> QED
    BY <1>1, <1>2

\* One worker at a time, whose hooks do not veto, leaves invoice, purchases and
\* tokens in agreement, in whatever order events come and however often they are
\* repeated: line items are moved once each, and a refund takes back what was
\* granted in full (the payment handlers, RefundService and RestoreService).
THEOREM BooksStayInAgreement ==
    ASSUME ~HooksMayVeto, NEW v, Workers = {v}
    PROVE  Spec => []BooksAgree
<1>s. Serial
    BY DEF Serial
<1>1. Init => SerialInv
  <2> SUFFICES ASSUME Init, NEW w \in Workers PROVE Books(job[w])
      BY DEF SerialInv
  <2>1. job[w] = Idle /\ Idle.pc = "idle"
      BY DEF Init, Idle
  <2> QED
      BY <2>1, PaymentConstants
      DEF Init, Books, TokensAgree, OthersAgree, DecidedRightly, HandlesRightly, Handling
<1>2. Inv /\ SerialInv => BooksAgree
  <2> SUFFICES ASSUME Inv, SerialInv, Settled PROVE BooksAgree
      BY DEF BooksAgree, TokensMatchPurchases, ItemsAgreeWithInvoice
  <2>1. PICK w \in Workers : job[w].pc = "idle" /\ crashes = 0
      BY DEF Settled, AllIdle
  <2>2. TokensAgree(job[w]) /\ OthersAgree(job[w])
      BY <2>1 DEF SerialInv, Books
  <2> QED
      BY <2>1, <2>2 DEF BooksAgree, TokensMatchPurchases, ItemsAgreeWithInvoice, TokensAgree,
                        OthersAgree, Handling
<1>3. SerialInv /\ Inv /\ [Next]_vars => SerialInv'
    BY <1>s, SerialNext
<1> QED
    BY <1>1, <1>2, <1>3, Invariant, PTL DEF Spec
=============================================================================
