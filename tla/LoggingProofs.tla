------------------------------ MODULE LoggingProofs ------------------------------
(***************************************************************************)
(* Proofs about the log: the records on their way to the shippers, and the *)
(* log files, which some write while others read them without a lock.      *)
(* Each invariant says of its own scenes what is under way, and of the     *)
(* other scenes that they leave its variables alone.                       *)
(***************************************************************************)
EXTENDS Operations, FiniteSetTheorems, SequenceTheorems, WellFoundedInduction, TLAPS

\* A set of natural numbers has a least one.
LEMMA LeastNumber ==
    ASSUME NEW T \in SUBSET Nat, T # {}
    PROVE  \E m \in T : \A n \in T : m <= n
<1> DEFINE R == {ss \in Nat \X Nat : ss[1] < ss[2]}
<1>1. OpToRel(<, Nat) = R
    BY Zenon DEF OpToRel
<1>2. IsWellFoundedOn(R, Nat)
    BY <1>1, NatLessThanWellFounded, Zenon
<1>3. \E m \in T : \A n \in T : ~(<<n, m>> \in R)
    BY <1>2, WFMin, Zenon
<1>4. \A m, n \in Nat : (<<n, m>> \in R) <=> n < m
    OBVIOUS
<1> HIDE DEF R
<1>5. PICK m \in T : \A n \in T : ~(<<n, m>> \in R)
    BY <1>3
<1>6. \A n \in T : ~(n < m)
    BY <1>4, <1>5
<1> QED BY <1>6

\* Different numbers up to m are at most m.
LEMMA AtMost ==
    ASSUME NEW n \in Nat, NEW m \in Nat, NEW g, DOMAIN g = 1 .. n,
           \A i \in 1 .. n : g[i] \in 1 .. m,
           \A i, j \in 1 .. n : g[i] = g[j] => i = j
    PROVE  n <= m
<1> DEFINE h == [i \in 1 .. n |-> g[i]]
<1>1. h \in Injection(1 .. n, 1 .. m)
    BY DEF Injection, IsInjective
<1>2. IsFiniteSet(1 .. m) /\ Cardinality(1 .. m) = m /\ Cardinality(1 .. n) = n
    BY FS_Interval
<1> HIDE DEF h
<1> QED BY <1>1, <1>2, FS_Injection

\* A sequence of a finite set names each of its members once.
LEMMA OrdersAreComplete ==
    ASSUME NEW S, IsFiniteSet(S), NEW seq \in SetToSeqs(S)
    PROVE  /\ seq \in Seq(S) /\ Range(seq) = S /\ Len(seq) = Cardinality(S)
           /\ \A i, j \in 1 .. Len(seq) : seq[i] = seq[j] => i = j
<1> DEFINE n == Cardinality(S)
           D == 1 .. n
<1>1. n \in Nat
    BY FS_CardinalityType
<1>2. seq \in [D -> S] /\ \A i, j \in D : i # j => seq[i] # seq[j]
    BY DEF SetToSeqs
<1>3. seq \in Seq(S) /\ Len(seq) = n
    BY <1>1, <1>2
<1>4. IsFiniteSet(D) /\ Cardinality(D) = n
    BY <1>1, FS_Interval
<1>5. seq \in Injection(D, S)
    BY <1>2 DEF Injection, IsInjective
<1>6. seq \in Surjection(D, S)
    BY <1>4, <1>5, FS_Injection
<1>7. \A s \in S : \E i \in D : seq[i] = s
    BY <1>6 DEF Surjection
<1>8. Range(seq) = S
    BY <1>2, <1>7 DEF Range
<1> QED BY <1>2, <1>3, <1>8


\* The least of a set of numbers.
LEMMA MinIsLeast ==
    ASSUME NEW T \in SUBSET Nat, T # {}
    PROVE  Min(T) \in T /\ \A n \in T : Min(T) <= n
<1>1. \E m \in T : \A n \in T : m <= n
    BY LeastNumber
<1> QED BY <1>1 DEF Min

\* The greatest of a set of numbers.
LEMMA MaxIsGreatest ==
    ASSUME NEW n \in Nat, NEW T \in SUBSET (0 .. n), T # {}
    PROVE  Max(T) \in T /\ \A i \in T : Max(T) >= i
<1> DEFINE U == {m \in 0 .. n : n - m \in T}
<1>1. U \in SUBSET Nat /\ U # {}
  <2>1. PICK i \in T : TRUE
    OBVIOUS
  <2>2. n - i \in 0 .. n /\ n - (n - i) = i
    OBVIOUS
  <2> QED BY <2>2
<1>2. PICK m \in U : \A k \in U : m <= k
    BY <1>1, LeastNumber
<1>3. n - m \in T
    OBVIOUS
<1>4. \A i \in T : n - m >= i
  <2> SUFFICES ASSUME NEW i \in T PROVE n - m >= i
    OBVIOUS
  <2>1. i \in 0 .. n /\ n - i \in 0 .. n /\ n - (n - i) = i
    OBVIOUS
  <2>2. n - i \in U
    BY <2>1
  <2>3. m <= n - i /\ m \in 0 .. n
    BY <1>2, <2>2
  <2> QED BY <2>1, <2>3
<1> QED BY <1>3, <1>4 DEF Max

\* The image of a finite set.
LEMMA ImageIsFinite ==
    ASSUME NEW S, IsFiniteSet(S), NEW g, DOMAIN g = S
    PROVE  IsFiniteSet({g[x] : x \in S})
<1> DEFINE T == {g[x] : x \in S}
           h == [x \in S |-> g[x]]
<1>1. h \in Surjection(S, T)
    BY DEF Surjection
<1> QED BY <1>1, FS_Surjection

-----------------------------------------------------------------------------
(***************************************************************************)
(* The records on their way out.                                           *)
(***************************************************************************)
ShipRequest ==
    [pc : {"idle"}] \cup [pc : {"buffer"}] \cup [pc : {"reset"}, shipper : Shippers]

ShipperRow == [on : BOOLEAN, failures : Nat, last : Nat, spotless : BOOLEAN, owed : Nat]

ShipTyped ==
    /\ buffer \in Seq(Nat) /\ config.capacity \in Capacities
    /\ shipper \in [Shippers -> ShipperRow]
    /\ tick \in [pc : {"idle", "take", "ship"}, todo : Seq(Shippers), batch : Seq(Nat \ {0})]
    /\ count \in [appended : Nat, dropped : Nat, cut : Nat, enabled : Nat]
    /\ drained \in [n : Nat, last : Nat]
    /\ Len(buffer) <= config.capacity
    /\ scene = "ship" => job \in [Workers -> ShipRequest]

Rising(s) == \A i, j \in 1 .. Len(s) : i < j => s[i] < s[j]

\* What waits was logged, in this order, after all that was drained.
Waiting ==
    /\ Rising(buffer) /\ drained.last <= count.appended
    /\ \A i \in 1 .. Len(buffer) : drained.last < buffer[i] /\ buffer[i] <= count.appended

Balanced == count.appended = drained.n + Len(buffer) + count.dropped + count.cut

\* A shipper is called once in a tick, and not when it is disabled.
TickOK ==
    /\ tick.pc = "idle" => tick.todo = <<>>
    /\ tick.pc # "idle" => tick.todo # <<>>
    /\ tick.pc = "ship" <=> tick.batch # <<>>
    /\ Rising(tick.batch) /\ (tick.batch # <<>> => tick.batch[Len(tick.batch)] = drained.last)
    /\ \A i, j \in 1 .. Len(tick.todo) : tick.todo[i] = tick.todo[j] => i = j
    /\ \A s \in Range(tick.todo) : shipper[s].failures < MaxFailures

\* It has been given nothing that is drained later, or is still to come in this tick.
Served(s) ==
    /\ shipper[s].last <= drained.last /\ shipper[s].failures <= MaxFailures
    /\ s \in Range(tick.todo) /\ tick.batch # <<>> => shipper[s].last < tick.batch[1]

\* A shipper that never failed is not passed over.
InFavour(s) ==
    shipper[s].spotless =>
       /\ shipper[s].on /\ shipper[s].failures = 0
       /\ shipper[s].owed = IF s \in Range(tick.todo) THEN Len(tick.batch) ELSE 0
       /\ tick.pc = "take" => s \in Range(tick.todo)

ShipInv ==
    /\ ShipTyped /\ Waiting /\ Balanced /\ TickOK
    /\ \A s \in Shippers : Served(s) /\ InFavour(s)

LEMMA InitShip == Init => ShipInv
<1> SUFFICES ASSUME Init PROVE ShipInv
    OBVIOUS
<1>1. /\ buffer = <<>> /\ drained = [n |-> 0, last |-> 0] /\ tick = NoTick
      /\ config \in [enabled : {TRUE}, capacity : Capacities]
      /\ shipper = [s \in Shippers |-> Fresh] /\ job = [w \in Workers |-> Idle]
      /\ count = [appended |-> 0, dropped |-> 0, cut |-> 0, enabled |-> 0]
    BY DEF Init, ShippingInit
<1>2. config.capacity \in Nat
    BY <1>1, ShippingAssumption
<1>3. Range(tick.todo) = {}
    BY <1>1 DEF NoTick, Range
<1>4. Fresh \in ShipperRow
    BY DEF Fresh, ShipperRow
<1>5. ShipTyped
  <2>1. buffer \in Seq(Nat) /\ Len(buffer) = 0 /\ tick.todo \in Seq(Shippers) /\ tick.batch \in Seq(Nat \ {0})
    BY <1>1 DEF NoTick
  <2>2. tick \in [pc : {"idle", "take", "ship"}, todo : Seq(Shippers), batch : Seq(Nat \ {0})]
    BY <1>1, <2>1 DEF NoTick
  <2>3. job \in [Workers -> ShipRequest]
    BY <1>1 DEF ShipRequest, Idle
  <2>4. config.capacity \in Capacities /\ Len(buffer) <= config.capacity
    BY <1>1, <1>2, <2>1
  <2>5. shipper \in [Shippers -> ShipperRow]
    BY <1>1, <1>4
  <2>6. /\ count \in [appended : Nat, dropped : Nat, cut : Nat, enabled : Nat]
        /\ drained \in [n : Nat, last : Nat]
    BY <1>1
  <2> QED BY <2>1, <2>2, <2>3, <2>4, <2>5, <2>6 DEF ShipTyped
<1>6. \A s \in Shippers : Served(s) /\ InFavour(s)
    BY <1>1, <1>3, ShippingAssumption DEF Served, InFavour, Fresh, NoTick
<1> QED BY <1>1, <1>3, <1>5, <1>6 DEF ShipInv, Waiting, Balanced, TickOK, Rising, NoTick

\* The types of the parts, by field.
LEMMA ShipTypes ==
    ASSUME ShipTyped
    PROVE  /\ config.capacity \in Nat /\ config.capacity \in Capacities
           /\ count.appended \in Nat /\ count.dropped \in Nat /\ count.cut \in Nat
           /\ drained.n \in Nat /\ drained.last \in Nat
           /\ tick.pc \in {"idle", "take", "ship"} /\ tick.todo \in Seq(Shippers)
           /\ tick.batch \in Seq(Nat \ {0}) /\ buffer \in Seq(Nat) /\ Len(buffer) \in Nat
           /\ \A s \in Shippers : /\ shipper[s] \in ShipperRow /\ shipper[s].on \in BOOLEAN
                                  /\ shipper[s].failures \in Nat /\ shipper[s].last \in Nat
                                  /\ shipper[s].spotless \in BOOLEAN /\ shipper[s].owed \in Nat
<1>1. config.capacity \in Nat /\ config.capacity \in Capacities
    BY ShippingAssumption DEF ShipTyped
<1>2. \A s \in Shippers : shipper[s] \in ShipperRow
    BY DEF ShipTyped
<1> QED BY <1>1, <1>2 DEF ShipTyped, ShipperRow

\* The newest of the records are those at the end.
LEMMA NewestRecords ==
    ASSUME NEW s \in Seq(Nat), NEW n \in 0 .. Len(s)
    PROVE  /\ Newest(s, n) \in Seq(Nat) /\ Len(Newest(s, n)) = n
           /\ \A i \in 1 .. n : Newest(s, n)[i] = s[Len(s) - n + i]
<1> DEFINE m == Len(s) - n + 1
<1>1. Len(s) \in Nat /\ m \in 1 .. Len(s) + 1
    OBVIOUS
<1>2. \A i \in m .. Len(s) : s[i] \in Nat
    OBVIOUS
<1>3. Len(s) - m + 1 = n /\ (m <= Len(s) <=> n >= 1)
    BY <1>1
<1>4. /\ SubSeq(s, m, Len(s)) \in Seq(Nat)
      /\ Len(SubSeq(s, m, Len(s))) = IF m <= Len(s) THEN Len(s) - m + 1 ELSE 0
      /\ \A i \in 1 .. Len(s) - m + 1 : SubSeq(s, m, Len(s))[i] = s[m + i - 1]
    BY <1>1, <1>2, SubSeqProperties
<1>5. \A i \in 1 .. n : m + i - 1 = Len(s) - n + i
    BY <1>1
<1>6. Newest(s, n) = SubSeq(s, m, Len(s))
    BY DEF Newest
<1> HIDE DEF m
<1> QED BY <1>1, <1>3, <1>4, <1>5, <1>6

\* A record that is buffered comes last, and one that has to go for it is counted.
LEMMA BufferedKeeps ==
    ASSUME ShipInv, Buffered, config' = config, drained' = drained
    PROVE  /\ buffer' \in Seq(Nat) /\ Len(buffer') <= config.capacity
           /\ count' \in [appended : Nat, dropped : Nat, cut : Nat, enabled : Nat]
           /\ Waiting' /\ Balanced'
<1>t. ShipTyped /\ Waiting /\ Balanced
    BY DEF ShipInv
<1>u. /\ config.capacity \in Nat /\ count.appended \in Nat /\ count.dropped \in Nat
      /\ count.cut \in Nat /\ drained.n \in Nat /\ drained.last \in Nat
      /\ buffer \in Seq(Nat) /\ Len(buffer) \in Nat /\ Len(buffer) <= config.capacity
    BY <1>t, ShipTypes DEF ShipTyped
<1> DEFINE all == Append(buffer, count.appended + 1)
           n == IF Len(all) > config.capacity THEN config.capacity ELSE Len(all)
<1>1. all \in Seq(Nat) /\ Len(all) = Len(buffer) + 1 /\ n \in 0 .. Len(all)
    BY <1>u
<1>2. \A i \in 1 .. Len(all) : all[i] = IF i <= Len(buffer) THEN buffer[i] ELSE count.appended + 1
    BY <1>u
<1>3. buffer' = Newest(all, n)
    BY DEF Buffered, Kept
<1>4. /\ count' \in [appended : Nat, dropped : Nat, cut : Nat, enabled : Nat]
      /\ count'.appended = count.appended + 1 /\ count'.cut = count.cut
      /\ count'.dropped = IF Len(buffer) = config.capacity THEN count.dropped + 1 ELSE count.dropped
  <2>1. count \in [appended : Nat, dropped : Nat, cut : Nat, enabled : Nat]
    BY <1>t DEF ShipTyped
  <2>2. count' = [count EXCEPT !.appended = @ + 1,
                               !.dropped = IF Len(buffer) = config.capacity THEN @ + 1 ELSE @]
    BY DEF Buffered
  <2>3. PICK d \in Nat : d = IF Len(buffer) = config.capacity THEN count.dropped + 1 ELSE count.dropped
    BY <1>u
  <2>6. PICK a \in Nat : a = count.appended + 1
    BY <1>u
  <2>4. count' = [count EXCEPT !.appended = a, !.dropped = d]
    BY <2>2, <2>3, <2>6
  <2>5. count' \in [appended : Nat, dropped : Nat, cut : Nat, enabled : Nat]
    BY <2>1, <2>4
  <2> QED BY <2>1, <2>3, <2>4, <2>5, <2>6
<1> HIDE DEF all
<1>5. n = IF Len(buffer) = config.capacity THEN Len(buffer) ELSE Len(buffer) + 1
    BY <1>u, <1>1
<1>15. n <= config.capacity
    BY <1>u, <1>1
<1> HIDE DEF n
<1>6. \A i, j \in 1 .. Len(all) : i < j => all[i] < all[j]
  <2> SUFFICES ASSUME NEW i \in 1 .. Len(all), NEW j \in 1 .. Len(all), i < j PROVE all[i] < all[j]
    OBVIOUS
  <2>1. i \in 1 .. Len(buffer) /\ all[i] = buffer[i]
    BY <1>u, <1>1, <1>2
  <2>2. CASE j <= Len(buffer)
    <3>1. j \in 1 .. Len(buffer) /\ all[j] = buffer[j]
      BY <1>u, <1>1, <1>2, <2>2
    <3> QED BY <1>t, <2>1, <3>1 DEF Waiting, Rising
  <2>3. CASE ~(j <= Len(buffer))
    <3>1. all[j] = count.appended + 1
      BY <1>2, <2>3
    <3>2. buffer[i] <= count.appended
      BY <1>t, <2>1 DEF Waiting
    <3>3. buffer[i] \in Nat
      BY <1>u, <2>1
    <3> QED BY <1>u, <2>1, <3>1, <3>2, <3>3
  <2> QED BY <2>2, <2>3
<1>7. \A i \in 1 .. Len(all) : drained.last < all[i] /\ all[i] <= count.appended + 1
  <2> SUFFICES ASSUME NEW i \in 1 .. Len(all)
               PROVE  drained.last < all[i] /\ all[i] <= count.appended + 1
    OBVIOUS
  <2>1. CASE i <= Len(buffer)
    <3>1. i \in 1 .. Len(buffer) /\ buffer[i] \in Nat
      BY <1>u, <2>1
    <3>2. all[i] = buffer[i]
      BY <1>1, <1>2, <2>1, <3>1
    <3> QED BY <1>t, <1>u, <3>1, <3>2 DEF Waiting
  <2>2. CASE ~(i <= Len(buffer))
    BY <1>t, <1>u, <1>1, <1>2, <2>2 DEF Waiting
  <2> QED BY <2>1, <2>2
<1>8. /\ buffer' \in Seq(Nat) /\ Len(buffer') = n
      /\ \A i \in 1 .. n : buffer'[i] = all[Len(all) - n + i]
    BY <1>1, <1>3, NewestRecords
<1>9. \A i \in 1 .. n : Len(all) - n + i \in 1 .. Len(all)
    BY <1>1
<1>10. \A i, j \in 1 .. n : i < j => Len(all) - n + i < Len(all) - n + j
    BY <1>1
<1>11. Rising(buffer')
    BY <1>6, <1>8, <1>9, <1>10 DEF Rising
<1>12. \A i \in 1 .. Len(buffer') : drained.last < buffer'[i] /\ buffer'[i] <= count'.appended
    BY <1>4, <1>7, <1>8, <1>9
<1>13. Waiting'
    BY <1>t, <1>u, <1>4, <1>11, <1>12 DEF Waiting
<1>14. Balanced'
  <2>1. PICK a \in Nat, d \in Nat, l \in Nat, n0 \in Nat, c \in Nat :
           a = count.appended /\ d = count.dropped /\ l = Len(buffer) /\ n0 = drained.n /\ c = count.cut
    BY <1>u
  <2>2. a = n0 + l + d + c
    BY <1>t, <2>1 DEF Balanced
  <2>3. /\ count'.appended = a + 1 /\ count'.cut = c /\ drained'.n = n0
        /\ \/ Len(buffer') = l /\ count'.dropped = d + 1
           \/ Len(buffer') = l + 1 /\ count'.dropped = d
    BY <1>4, <1>5, <1>8, <2>1
  <2>4. a + 1 = n0 + l + (d + 1) + c /\ a + 1 = n0 + (l + 1) + d + c
    BY <2>2
  <2> QED BY <2>3, <2>4 DEF Balanced
<1> QED BY <1>4, <1>8, <1>13, <1>14, <1>15
\* The settings are read, and the buffer is cut to them.
LEMMA RefreshKeeps ==
    ASSUME ShipInv, scene' = scene, RefreshAndSelect
    PROVE  ShipInv'
<1>t. ShipTyped /\ Waiting /\ Balanced /\ TickOK
    BY DEF ShipInv
<1>u. /\ config.capacity \in Nat /\ buffer \in Seq(Nat) /\ Len(buffer) \in Nat
      /\ count \in [appended : Nat, dropped : Nat, cut : Nat, enabled : Nat]
      /\ count.appended \in Nat /\ count.dropped \in Nat /\ count.cut \in Nat /\ drained.n \in Nat
      /\ shipper \in [Shippers -> ShipperRow]
      /\ \A s \in Shippers : shipper[s].failures \in Nat
    BY <1>t, ShipTypes DEF ShipTyped
<1>1. /\ tick.pc = "idle" /\ config'.capacity \in Capacities /\ config'.capacity \in Nat
      /\ buffer' = IF config'.capacity < Len(buffer) THEN Newest(buffer, config'.capacity) ELSE buffer
      /\ count' = [count EXCEPT !.cut = @ + Len(buffer) - Len(buffer')]
      /\ shipper' = shipper /\ drained' = drained /\ job' = job
    BY ShippingAssumption DEF RefreshAndSelect, Scheduling
<1>2. PICK over \in SUBSET Shippers :
         \E order1 \in SetToSeqs({s \in Shippers : IsReady(s, over)}) :
            tick' = IF order1 = <<>> THEN NoTick ELSE [NoTick EXCEPT !.pc = "take", !.todo = order1]
    BY DEF RefreshAndSelect
<1> DEFINE ready == {s \in Shippers : IsReady(s, over)}
<1>3. PICK chosen \in SetToSeqs(ready) :
         tick' = IF chosen = <<>> THEN NoTick ELSE [NoTick EXCEPT !.pc = "take", !.todo = chosen]
    BY <1>2
<1>4. IsFiniteSet(ready)
    BY ShippingAssumption, FS_Subset
<1>5. ready \subseteq Shippers /\ \A s \in ready : shipper[s].failures < MaxFailures
    BY <1>u, ShippingAssumption DEF IsReady, IsDisabled
<1>6. \A s \in Shippers : shipper[s].spotless => s \in ready
    BY ShippingAssumption DEF ShipInv, InFavour, IsReady, IsDisabled
<1> HIDE DEF ready
<1>7. /\ chosen \in Seq(ready) /\ Range(chosen) = ready
      /\ \A i, j \in 1 .. Len(chosen) : chosen[i] = chosen[j] => i = j
    BY <1>4, OrdersAreComplete
<1>8. /\ tick'.todo = chosen /\ tick'.batch = <<>>
      /\ tick'.pc = IF chosen = <<>> THEN "idle" ELSE "take"
      /\ tick' \in [pc : {"idle", "take", "ship"}, todo : Seq(Shippers), batch : Seq(Nat \ {0})]
  <2>1. chosen \in Seq(Shippers)
    BY <1>5, <1>7, SeqMonotonic
  <2>2. CASE chosen = <<>>
    <3>1. tick' = [pc |-> "idle", todo |-> <<>>, batch |-> <<>>]
      BY <1>3, <2>2 DEF NoTick
    <3> QED BY <2>1, <2>2, <3>1
  <2>3. CASE chosen # <<>>
    <3>1. tick' = [pc |-> "take", todo |-> chosen, batch |-> <<>>]
      BY <1>3, <2>3 DEF NoTick
    <3> QED BY <2>1, <2>3, <3>1
  <2> QED BY <2>2, <2>3
<1>9. PICK k \in 0 .. Len(buffer) :
         /\ buffer' \in Seq(Nat) /\ Len(buffer') = k /\ k <= config'.capacity
         /\ \A i \in 1 .. k : buffer'[i] = buffer[Len(buffer) - k + i]
  <2>1. CASE config'.capacity < Len(buffer)
    <3>1. config'.capacity \in 0 .. Len(buffer)
      BY <1>u, <1>1, <2>1
    <3>2. PICK k \in 0 .. Len(buffer) : k = config'.capacity
      BY <3>1
    <3>3. /\ Newest(buffer, k) \in Seq(Nat) /\ Len(Newest(buffer, k)) = k
          /\ \A i \in 1 .. k : Newest(buffer, k)[i] = buffer[Len(buffer) - k + i]
      BY <1>u, NewestRecords
    <3>4. buffer' = Newest(buffer, k) /\ k <= config'.capacity
      BY <1>1, <2>1, <3>2
    <3> QED BY <3>3, <3>4
  <2>2. CASE ~(config'.capacity < Len(buffer))
    <3>1. buffer' = buffer /\ Len(buffer) \in 0 .. Len(buffer) /\ Len(buffer) <= config'.capacity
      BY <1>u, <1>1, <2>2
    <3>2. \A i \in 1 .. Len(buffer) : Len(buffer) - Len(buffer) + i = i
      BY <1>u
    <3> QED BY <1>u, <3>1, <3>2
  <2> QED BY <2>1, <2>2
<1>10. PICK c \in Nat : c = count.cut + Len(buffer) - k
    BY <1>u
<1>11. count' = [count EXCEPT !.cut = c]
    BY <1>1, <1>9, <1>10
<1>12. /\ count' \in [appended : Nat, dropped : Nat, cut : Nat, enabled : Nat]
       /\ count'.appended = count.appended /\ count'.dropped = count.dropped /\ count'.cut = c
    BY <1>u, <1>11
<1>13. ShipTyped'
    BY <1>t, <1>1, <1>8, <1>9, <1>12 DEF ShipTyped
<1>14. Waiting'
  <2>1. \A i \in 1 .. k : Len(buffer) - k + i \in 1 .. Len(buffer)
    BY <1>u
  <2>2. \A i, j \in 1 .. k : i < j => Len(buffer) - k + i < Len(buffer) - k + j
    BY <1>u
  <2>3. Rising(buffer')
    BY <1>t, <1>9, <2>1, <2>2 DEF Waiting, Rising
  <2> QED BY <1>t, <1>1, <1>9, <1>12, <2>1, <2>3 DEF Waiting
<1>15. Balanced'
  <2>1. PICK a \in Nat, d \in Nat, l \in Nat, n0 \in Nat, c0 \in Nat :
           a = count.appended /\ d = count.dropped /\ l = Len(buffer) /\ n0 = drained.n /\ c0 = count.cut
    BY <1>u
  <2>2. a = n0 + l + d + c0
    BY <1>t, <2>1 DEF Balanced
  <2>3. c = c0 + l - k /\ k \in Nat
    BY <1>10, <2>1
  <2>4. a = n0 + k + d + c
    BY <2>2, <2>3
  <2>5. count'.appended = a /\ drained'.n = n0 /\ Len(buffer') = k /\ count'.dropped = d /\ count'.cut = c
    BY <1>1, <1>9, <1>12, <2>1
  <2> QED BY <2>4, <2>5 DEF Balanced
<1>16. TickOK'
  <2>1. \A s \in Range(tick'.todo) : shipper'[s].failures < MaxFailures
    BY <1>1, <1>5, <1>7, <1>8
  <2> QED BY <1>7, <1>8, <2>1 DEF TickOK, Rising
<1>17. \A s \in Shippers : (Served(s) /\ InFavour(s))'
  <2> SUFFICES ASSUME NEW s \in Shippers PROVE (Served(s) /\ InFavour(s))'
    OBVIOUS
  <2>1. Served(s) /\ InFavour(s)
    BY DEF ShipInv
  <2>2. Served(s)'
    BY <1>1, <1>8, <2>1 DEF Served
  <2>3. tick.batch = <<>> /\ Len(<<>>) = 0
    BY <1>t, <1>1 DEF TickOK
  <2>4. InFavour(s)'
    BY <1>1, <1>6, <1>7, <1>8, <2>1, <2>3 DEF InFavour
  <2> QED BY <2>2, <2>4
<1> QED BY <1>13, <1>14, <1>15, <1>16, <1>17 DEF ShipInv
\* A batch is drained from the front of the buffer.
LEMMA TakeKeeps ==
    ASSUME ShipInv, scene' = scene, TakeBatch
    PROVE  ShipInv'
<1>t. ShipTyped /\ Waiting /\ Balanced /\ TickOK
    BY DEF ShipInv
<1>u. /\ config.capacity \in Nat /\ buffer \in Seq(Nat) /\ Len(buffer) \in Nat
      /\ Len(buffer) <= config.capacity
      /\ count.appended \in Nat /\ count.dropped \in Nat /\ count.cut \in Nat /\ drained.n \in Nat
      /\ drained.last \in Nat /\ tick.todo \in Seq(Shippers)
      /\ shipper \in [Shippers -> ShipperRow]
      /\ \A s \in Shippers : /\ shipper[s] \in ShipperRow /\ shipper[s].last \in Nat
                             /\ shipper[s].owed \in Nat /\ shipper[s].failures \in Nat
    BY <1>t, ShipTypes DEF ShipTyped
<1>a. tick.pc = "take" /\ tick.todo # <<>> /\ tick.batch = <<>> /\ Len(<<>>) = 0
    BY <1>t DEF TakeBatch, TickOK
<1>s. \A s \in Shippers : Served(s) /\ InFavour(s)
    BY DEF ShipInv
<1>1. PICK n \in 0 .. Len(buffer) :
         n = IF Len(buffer) < MaxBatch THEN Len(buffer) ELSE MaxBatch
    BY <1>u, ShippingAssumption
<1> DEFINE batch == SubSeq(buffer, 1, n)
<1>2. /\ buffer' = SubSeq(buffer, n + 1, Len(buffer)) /\ config' = config /\ count' = count
      /\ job' = job
      /\ n = 0 => tick' = NoTick /\ drained' = drained /\ shipper' = shipper
      /\ n # 0 => /\ tick' = [tick EXCEPT !.pc = "ship", !.batch = batch]
                  /\ drained' = [n |-> drained.n + n, last |-> Last(batch)]
                  /\ shipper' = [s \in Shippers |->
                        [shipper[s] EXCEPT !.owed = IF shipper[s].spotless THEN @ + n ELSE 0]]
    BY <1>1 DEF TakeBatch, Scheduling
<1>3. /\ batch \in Seq(Nat) /\ Len(batch) = n /\ \A i \in 1 .. n : batch[i] = buffer[i]
    BY <1>u
<1>4. /\ buffer' \in Seq(Nat) /\ Len(buffer') = Len(buffer) - n /\ Len(buffer') \in Nat
      /\ \A i \in 1 .. Len(buffer') : buffer'[i] = buffer[n + i] /\ n + i \in 1 .. Len(buffer)
  <2>1. PICK m \in Nat : m = Len(buffer) /\ n <= m
    BY <1>u
  <2>2. PICK rest : rest = SubSeq(buffer, n + 1, m)
    OBVIOUS
  <2>3. /\ rest \in Seq(Nat) /\ Len(rest) = IF n + 1 <= m THEN m - (n + 1) + 1 ELSE 0
        /\ \A i \in 1 .. m - (n + 1) + 1 : rest[i] = buffer[(n + 1) + i - 1]
    <3>1. n + 1 \in Int /\ m \in Int /\ \A i \in n + 1 .. m : buffer[i] \in Nat
      BY <1>u, <2>1
    <3> QED BY <2>2, <3>1, SubSeqProperties
  <2>4. m - (n + 1) + 1 = m - n /\ (IF n + 1 <= m THEN m - (n + 1) + 1 ELSE 0) = m - n
    BY <2>1
  <2>5. Len(rest) = m - n /\ m - n \in Nat
    BY <2>1, <2>3, <2>4
  <2>6. \A i \in 1 .. m - n : rest[i] = buffer[n + i] /\ n + i \in 1 .. m
    <3> SUFFICES ASSUME NEW i \in 1 .. m - n PROVE rest[i] = buffer[n + i] /\ n + i \in 1 .. m
      OBVIOUS
    <3>1. (n + 1) + i - 1 = n + i /\ n + i \in 1 .. m
      BY <2>1
    <3>2. rest[i] = buffer[(n + 1) + i - 1]
      BY <2>3, <2>4
    <3> QED BY <3>1, <3>2
  <2>7. buffer' = rest
    BY <1>2, <2>1, <2>2
  <2> QED BY <2>1, <2>3, <2>5, <2>6, <2>7
<1>9. Len(buffer') <= config.capacity
    BY <1>u, <1>4
<1>5. \A i, j \in 1 .. Len(buffer) : i < j => buffer[i] < buffer[j]
    BY <1>t DEF Waiting, Rising
<1>6. Rising(buffer')
  <2> SUFFICES ASSUME NEW i \in 1 .. Len(buffer'), NEW j \in 1 .. Len(buffer'), i < j
               PROVE  buffer'[i] < buffer'[j]
    BY DEF Rising
  <2>1. n + i < n + j
    BY <1>4
  <2> QED BY <1>4, <1>5, <2>1
<1> HIDE DEF batch
<1>7. CASE n = 0
  <2>1. /\ tick'.pc = "idle" /\ tick'.todo = <<>> /\ tick'.batch = <<>>
        /\ tick' \in [pc : {"idle", "take", "ship"}, todo : Seq(Shippers), batch : Seq(Nat \ {0})]
    <3>1. tick' = [pc |-> "idle", todo |-> <<>>, batch |-> <<>>]
      BY <1>2, <1>7 DEF NoTick
    <3> QED BY <3>1
  <2>2. Range(tick'.todo) = {}
    BY <2>1 DEF Range
  <2>3. ShipTyped'
    <3>1. /\ config'.capacity \in Capacities /\ shipper' \in [Shippers -> ShipperRow]
          /\ count' \in [appended : Nat, dropped : Nat, cut : Nat, enabled : Nat]
          /\ drained' \in [n : Nat, last : Nat]
          /\ scene' = "ship" => job' \in [Workers -> ShipRequest]
      BY <1>t, <1>2, <1>7 DEF ShipTyped
    <3> QED BY <1>2, <1>4, <1>9, <2>1, <3>1 DEF ShipTyped
  <2>4. Waiting'
    BY <1>t, <1>2, <1>4, <1>6, <1>7 DEF Waiting
  <2>5. Balanced'
    BY <1>t, <1>u, <1>2, <1>4, <1>7 DEF Balanced
  <2>6. TickOK'
    BY <2>1, <2>2 DEF TickOK, Rising
  <2>7. \A s \in Shippers : (Served(s) /\ InFavour(s))'
    BY <1>a, <1>s, <1>2, <1>7, <2>1, <2>2 DEF Served, InFavour
  <2> QED BY <2>3, <2>4, <2>5, <2>6, <2>7 DEF ShipInv
<1>8. CASE n # 0
  <2>0. n \in 1 .. Len(buffer) /\ n \in 1 .. n /\ 1 \in 1 .. n
    BY <1>u, <1>8
  <2>1. /\ tick'.pc = "ship" /\ tick'.todo = tick.todo /\ tick'.batch = batch
        /\ drained'.n = drained.n + n /\ drained'.last = batch[n]
        /\ tick' = [pc |-> "ship", todo |-> tick.todo, batch |-> batch]
        /\ drained' = [n |-> drained.n + n, last |-> batch[n]]
    <3>1. tick' = [tick EXCEPT !.pc = "ship", !.batch = batch]
      BY <1>2, <1>8
    <3>2. tick \in [pc : {"idle", "take", "ship"}, todo : Seq(Shippers), batch : Seq(Nat \ {0})]
      BY <1>t DEF ShipTyped
    <3>3. tick' = [pc |-> "ship", todo |-> tick.todo, batch |-> batch]
      BY <3>1, <3>2
    <3>4. Last(batch) = batch[n]
      BY <1>3 DEF Last
    <3>5. drained' = [n |-> drained.n + n, last |-> batch[n]]
      BY <1>2, <1>8, <3>4
    <3> QED BY <3>3, <3>5
  <2>2. batch[n] = buffer[n] /\ batch[n] \in Nat /\ batch[n] <= count.appended
    BY <1>t, <1>u, <1>3, <2>0 DEF Waiting
  <2>3. \A i \in 1 .. n : batch[i] \in Nat \ {0} /\ drained.last < batch[i]
    <3> SUFFICES ASSUME NEW i \in 1 .. n PROVE batch[i] \in Nat \ {0} /\ drained.last < batch[i]
      OBVIOUS
    <3>1. batch[i] = buffer[i]
      BY <1>3
    <3>3. i \in 1 .. Len(buffer) /\ buffer[i] \in Nat
      BY <1>u
    <3>2. drained.last < buffer[i]
      BY <1>t, <3>3 DEF Waiting
    <3> QED BY <1>u, <3>1, <3>2, <3>3
  <2>4. batch \in Seq(Nat \ {0}) /\ batch # <<>>
    BY <1>3, <1>8, <2>3
  <2>5. \A s \in Shippers :
           /\ shipper'[s] \in ShipperRow
           /\ shipper'[s].owed = IF shipper[s].spotless THEN shipper[s].owed + n ELSE 0
           /\ shipper'[s].last = shipper[s].last /\ shipper'[s].failures = shipper[s].failures
           /\ shipper'[s].on = shipper[s].on /\ shipper'[s].spotless = shipper[s].spotless
    <3> SUFFICES ASSUME NEW s \in Shippers
                 PROVE  /\ shipper'[s] \in ShipperRow
                        /\ shipper'[s].owed = IF shipper[s].spotless THEN shipper[s].owed + n ELSE 0
                        /\ shipper'[s].last = shipper[s].last
                        /\ shipper'[s].failures = shipper[s].failures
                        /\ shipper'[s].on = shipper[s].on
                        /\ shipper'[s].spotless = shipper[s].spotless
      OBVIOUS
    <3>1. PICK o \in Nat : o = IF shipper[s].spotless THEN shipper[s].owed + n ELSE 0
      BY <1>u
    <3>2. shipper'[s] = [shipper[s] EXCEPT !.owed = o]
      BY <1>2, <1>8, <3>1
    <3>3. shipper[s] \in ShipperRow
      BY <1>u
    <3> QED BY <3>1, <3>2, <3>3 DEF ShipperRow
  <2>6. shipper' \in [Shippers -> ShipperRow]
    <3>1. DOMAIN shipper' = Shippers /\ shipper' = [s \in Shippers |-> shipper'[s]]
      BY <1>2, <1>8
    <3> QED BY <2>5, <3>1
  <2>7. tick' \in [pc : {"idle", "take", "ship"}, todo : Seq(Shippers), batch : Seq(Nat \ {0})]
    BY <1>u, <2>1, <2>4
  <2>8. drained' \in [n : Nat, last : Nat]
    BY <1>u, <2>1, <2>2
  <2>9. ShipTyped'
    <3>1. /\ config'.capacity \in Capacities
          /\ count' \in [appended : Nat, dropped : Nat, cut : Nat, enabled : Nat]
          /\ scene' = "ship" => job' \in [Workers -> ShipRequest]
      BY <1>t, <1>2 DEF ShipTyped
    <3> QED BY <1>2, <1>4, <1>9, <2>6, <2>7, <2>8, <3>1 DEF ShipTyped
  <2>10. Waiting'
    <3>1. \A i \in 1 .. Len(buffer') : batch[n] < buffer'[i] /\ buffer'[i] <= count.appended
      <4> SUFFICES ASSUME NEW i \in 1 .. Len(buffer')
                   PROVE  batch[n] < buffer'[i] /\ buffer'[i] <= count.appended
        OBVIOUS
      <4>1. n < n + i
        BY <1>4
      <4> QED BY <1>t, <1>4, <1>5, <2>0, <2>2, <4>1 DEF Waiting
    <3> QED BY <1>2, <1>6, <2>1, <2>2, <3>1 DEF Waiting
  <2>11. Balanced'
    <3>0. Len(buffer') \in Nat /\ Len(buffer) = Len(buffer') + n
      BY <1>u, <1>4
    <3>1. PICK l \in Nat : l = Len(buffer') /\ Len(buffer) = l + n
      BY <3>0
    <3>2. PICK a \in Nat, d \in Nat, n0 \in Nat, c \in Nat :
             a = count.appended /\ d = count.dropped /\ n0 = drained.n /\ c = count.cut
      BY <1>u
    <3>3. a = n0 + (l + n) + d + c
      BY <1>t, <3>1, <3>2 DEF Balanced
    <3>4. a = (n0 + n) + l + d + c
      BY <3>3
    <3> QED BY <1>2, <2>1, <3>1, <3>2, <3>4 DEF Balanced
  <2>12. TickOK'
    <3>1. Rising(batch)
      BY <1>3, <1>5 DEF Rising
    <3>2. \A s \in Range(tick.todo) : s \in Shippers /\ shipper[s].failures < MaxFailures
      BY <1>t, <1>u, RangeOfSeq DEF TickOK
    <3>3. \A s \in Range(tick'.todo) : shipper'[s].failures < MaxFailures
      BY <2>1, <2>5, <3>2
    <3> QED BY <1>a, <1>t, <1>3, <2>1, <2>4, <3>1, <3>3 DEF TickOK
  <2>13. ASSUME NEW s \in Shippers PROVE (Served(s) /\ InFavour(s))'
    <3>1. shipper[s].last <= drained.last /\ shipper[s].failures <= MaxFailures
      BY <1>s DEF Served
    <3>2. shipper[s].last <= batch[n] /\ shipper[s].last < batch[1]
      BY <1>u, <2>0, <2>2, <2>3, <3>1
    <3>3. Served(s)'
      BY <2>1, <2>5, <3>1, <3>2 DEF Served
    <3>4. InFavour(s)'
      <4> SUFFICES ASSUME shipper[s].spotless
                   PROVE  /\ shipper'[s].on /\ shipper'[s].failures = 0
                          /\ shipper'[s].owed = IF s \in Range(tick'.todo) THEN Len(tick'.batch) ELSE 0
        BY <2>1, <2>5 DEF InFavour
      <4>1. shipper[s].on /\ shipper[s].failures = 0 /\ shipper[s].owed = 0 /\ s \in Range(tick.todo)
        BY <1>a, <1>s DEF InFavour
      <4>2. shipper'[s].owed = n
        BY <1>u, <2>5, <4>1
      <4> QED BY <1>3, <2>1, <2>5, <4>1, <4>2
    <3> QED BY <3>3, <3>4
  <2> QED BY <2>9, <2>10, <2>11, <2>12, <2>13 DEF ShipInv
<1> QED BY <1>7, <1>8
\* The next shipper is given the batch, and may fail, whereupon a record of the
\* failure is buffered.
LEMMA ShipKeeps ==
    ASSUME ShipInv, scene' = scene, ShipBatch
    PROVE  ShipInv'
<1>t. ShipTyped /\ Waiting /\ Balanced /\ TickOK
    BY DEF ShipInv
<1>u. /\ tick.todo \in Seq(Shippers) /\ tick.batch \in Seq(Nat \ {0}) /\ drained.last \in Nat
      /\ shipper \in [Shippers -> ShipperRow]
      /\ tick \in [pc : {"idle", "take", "ship"}, todo : Seq(Shippers), batch : Seq(Nat \ {0})]
      /\ \A s \in Shippers : /\ shipper[s] \in ShipperRow /\ shipper[s].last \in Nat
                             /\ shipper[s].owed \in Nat /\ shipper[s].failures \in Nat
    BY <1>t, ShipTypes DEF ShipTyped
<1>a. /\ tick.pc = "ship" /\ tick.todo # <<>> /\ tick.batch # <<>> /\ config' = config
      /\ drained' = drained /\ job' = job
    BY <1>t DEF ShipBatch, Scheduling, TickOK
<1>s. \A s \in Shippers : Served(s) /\ InFavour(s)
    BY DEF ShipInv
<1>1. PICK s \in Shippers : s = Head(tick.todo) /\ s = tick.todo[1]
    BY <1>u, <1>a
<1> DEFINE given == Given(shipper[s])
           rest == IF Len(tick.todo) = 1 THEN NoTick ELSE [tick EXCEPT !.todo = Tail(@)]
<1>2. /\ tick' = rest
      /\ \/ /\ shipper' = [shipper EXCEPT ![s] = [given EXCEPT !.failures = 0]]
            /\ buffer' = buffer /\ count' = count
         \/ /\ shipper' = [shipper EXCEPT ![s] = [Tarnished(given) EXCEPT !.failures = @ + 1]]
            /\ Buffered \/ (buffer' = buffer /\ count' = count)
    BY <1>1 DEF ShipBatch
\* It was owed the batch, and no more.
<1>3. /\ given.last = drained.last /\ given.on = shipper[s].on
      /\ given.failures = shipper[s].failures /\ given.spotless = shipper[s].spotless
      /\ given.owed = 0 /\ given \in ShipperRow
  <2>1. s \in Range(tick.todo)
    <3>1. 1 \in DOMAIN tick.todo
      BY <1>u, <1>a
    <3> QED BY <1>1, <3>1 DEF Range
  <2>2. Last(tick.batch) = drained.last
    BY <1>a, <1>t DEF Last, TickOK
  <2>3. Len(tick.batch) \in Nat /\ (shipper[s].spotless => shipper[s].owed = Len(tick.batch))
    BY <1>u, <1>s, <2>1 DEF InFavour
  <2>4. (IF shipper[s].spotless THEN shipper[s].owed - Len(tick.batch) ELSE 0) = 0
    BY <2>3
  <2>5. given = [shipper[s] EXCEPT !.last = drained.last, !.owed = 0]
    BY <2>2, <2>4 DEF Given
  <2>6. shipper[s] \in [on : BOOLEAN, failures : Nat, last : Nat, spotless : BOOLEAN, owed : Nat]
    BY <1>u DEF ShipperRow
  <2>7. PICK l \in Nat : l = drained.last
    BY <1>u
  <2>8. given = [shipper[s] EXCEPT !.last = l, !.owed = 0]
    BY <2>5, <2>7
  <2>9. given = [on |-> shipper[s].on, failures |-> shipper[s].failures, last |-> l,
                 spotless |-> shipper[s].spotless, owed |-> 0]
    BY <2>6, <2>8
  <2>10. shipper[s].on \in BOOLEAN /\ shipper[s].spotless \in BOOLEAN /\ shipper[s].failures \in Nat
    BY <2>6
  <2> QED BY <2>7, <2>9, <2>10 DEF ShipperRow
<1>4. shipper[s].failures < MaxFailures /\ shipper[s].failures + 1 \in Nat
  <2>1. s \in Range(tick.todo)
    <3>1. 1 \in DOMAIN tick.todo
      BY <1>u, <1>a
    <3> QED BY <1>1, <3>1 DEF Range
  <2> QED BY <1>t, <1>u, <2>1 DEF TickOK
<1> HIDE DEF given
<1>5. /\ shipper' \in [Shippers -> ShipperRow] /\ shipper'[s].last = drained.last
      /\ shipper'[s].failures <= MaxFailures /\ shipper'[s].owed = 0
      /\ shipper'[s].spotless => shipper[s].spotless /\ shipper'[s].failures = 0
      /\ shipper'[s].on = shipper[s].on
      /\ \A r \in Shippers \ {s} : shipper'[r] = shipper[r]
  <2>1. CASE shipper' = [shipper EXCEPT ![s] = [given EXCEPT !.failures = 0]]
    <3>1. [given EXCEPT !.failures = 0] \in ShipperRow
      BY <1>3 DEF ShipperRow
    <3>2. shipper' \in [Shippers -> ShipperRow] /\ shipper'[s] = [given EXCEPT !.failures = 0]
      BY <1>u, <2>1, <3>1
    <3>3. /\ shipper'[s].last = given.last /\ shipper'[s].failures = 0
          /\ shipper'[s].owed = given.owed /\ shipper'[s].on = given.on
          /\ shipper'[s].spotless = given.spotless
      BY <1>3, <3>2 DEF ShipperRow
    <3> QED BY <1>u, <1>3, <2>1, <3>2, <3>3, ShippingAssumption
  <2>2. CASE shipper' = [shipper EXCEPT ![s] = [Tarnished(given) EXCEPT !.failures = @ + 1]]
    <3> DEFINE new == [Tarnished(given) EXCEPT !.failures = @ + 1]
    <3>1. /\ new \in ShipperRow /\ new.last = given.last /\ new.failures = given.failures + 1
          /\ new.owed = 0 /\ new.on = given.on /\ ~new.spotless
      <4>1. given.failures + 1 \in Nat
        BY <1>3, <1>4
      <4>2. new = [given EXCEPT !.spotless = FALSE, !.owed = 0, !.failures = given.failures + 1]
        BY <1>3 DEF Tarnished, ShipperRow
      <4>3. given \in [on : BOOLEAN, failures : Nat, last : Nat, spotless : BOOLEAN, owed : Nat]
        BY <1>3 DEF ShipperRow
      <4>4. PICK f \in Nat : f = given.failures + 1
        BY <4>1
      <4> HIDE DEF new
      <4>7. new = [given EXCEPT !.spotless = FALSE, !.owed = 0, !.failures = f]
        BY <4>2, <4>4
      <4>5. new = [on |-> given.on, failures |-> f, last |-> given.last,
                   spotless |-> FALSE, owed |-> 0]
        BY <4>3, <4>7
      <4>6. given.on \in BOOLEAN /\ given.last \in Nat
        BY <4>3
      <4> QED BY <4>4, <4>5, <4>6 DEF ShipperRow
    <3> HIDE DEF new
    <3>2. shipper' \in [Shippers -> ShipperRow] /\ shipper'[s] = new
      BY <1>u, <2>2, <3>1 DEF new
    <3>3. given.failures + 1 <= MaxFailures
      BY <1>u, <1>3, <1>4, ShippingAssumption
    <3> QED BY <1>u, <1>3, <2>2, <3>1, <3>2, <3>3
  <2> QED BY <1>2, <2>1, <2>2
\* The rest of the tick.
<1>6. /\ tick' \in [pc : {"idle", "take", "ship"}, todo : Seq(Shippers), batch : Seq(Nat \ {0})]
      /\ \/ tick' = NoTick
         \/ /\ tick'.pc = "ship" /\ tick'.todo = Tail(tick.todo) /\ tick'.batch = tick.batch
            /\ Tail(tick.todo) # <<>>
      /\ Range(tick'.todo) \subseteq Range(tick.todo) \ {s}
      /\ tick'.pc = "ship" => Range(tick.todo) \ {s} \subseteq Range(tick'.todo)
      /\ tick'.pc # "ship" => Range(tick.todo) = {s}
  <2>0. /\ Len(tick.todo) \in Nat \ {0}
        /\ \A i, j \in 1 .. Len(tick.todo) : tick.todo[i] = tick.todo[j] => i = j
        /\ Range(tick.todo) = {tick.todo[i] : i \in 1 .. Len(tick.todo)}
    BY <1>t, <1>u, <1>a, EmptySeq, RangeEquality DEF TickOK
  <2>1. CASE Len(tick.todo) = 1
    <3>1. tick' = [pc |-> "idle", todo |-> <<>>, batch |-> <<>>]
      BY <1>2, <2>1 DEF NoTick
    <3>2. Range(tick'.todo) = {}
      BY <3>1 DEF Range
    <3>3. Range(tick.todo) = {s}
      BY <1>1, <2>0, <2>1
    <3> QED BY <3>1, <3>2, <3>3 DEF NoTick
  <2>2. CASE Len(tick.todo) # 1
    <3>1. tick' = [tick EXCEPT !.todo = Tail(@)]
      BY <1>2, <2>2
    <3>2. /\ Tail(tick.todo) \in Seq(Shippers) /\ Len(Tail(tick.todo)) = Len(tick.todo) - 1
          /\ \A i \in 1 .. Len(tick.todo) - 1 : Tail(tick.todo)[i] = tick.todo[i + 1]
      BY <1>u, <1>a, HeadTailProperties
    <3>3. tick' = [pc |-> "ship", todo |-> Tail(tick.todo), batch |-> tick.batch]
      BY <1>u, <1>a, <3>1
    <3>4. Tail(tick.todo) # <<>>
      <4>1. Len(Tail(tick.todo)) # 0
        BY <2>0, <2>2, <3>2
      <4> QED BY <4>1, EmptySeq
    <3>5. Range(Tail(tick.todo)) = {Tail(tick.todo)[i] : i \in 1 .. Len(Tail(tick.todo))}
      BY <3>2, RangeEquality
    <3>6. \A i \in 1 .. Len(tick.todo) - 1 : i + 1 \in 1 .. Len(tick.todo) /\ i + 1 # 1
      BY <2>0
    <3>7. Range(Tail(tick.todo)) \subseteq Range(tick.todo) \ {s}
      BY <1>1, <2>0, <3>2, <3>5, <3>6
    <3>8. Range(tick.todo) \ {s} \subseteq Range(Tail(tick.todo))
      <4> SUFFICES ASSUME NEW i \in 1 .. Len(tick.todo), tick.todo[i] # s
                   PROVE  tick.todo[i] \in Range(Tail(tick.todo))
        BY <2>0
      <4>1. i # 1 /\ i - 1 \in 1 .. Len(tick.todo) - 1 /\ (i - 1) + 1 = i
        BY <1>1, <2>0
      <4> QED BY <3>2, <3>5, <4>1
    <3> QED BY <1>u, <3>2, <3>3, <3>4, <3>7, <3>8
  <2> QED BY <2>1, <2>2
<1>7. /\ buffer' \in Seq(Nat) /\ Len(buffer') <= config.capacity
      /\ count' \in [appended : Nat, dropped : Nat, cut : Nat, enabled : Nat]
      /\ Waiting' /\ Balanced'
  <2>1. CASE Buffered
    BY <1>a, <2>1, BufferedKeeps
  <2>2. CASE buffer' = buffer /\ count' = count
    BY <1>t, <1>a, <2>2 DEF ShipTyped, Waiting, Balanced, Rising
  <2> QED BY <1>2, <2>1, <2>2
<1>8. ShipTyped'
  <2>1. /\ config'.capacity \in Capacities /\ drained' \in [n : Nat, last : Nat]
        /\ scene' = "ship" => job' \in [Workers -> ShipRequest]
    BY <1>t, <1>a DEF ShipTyped
  <2> QED BY <1>5, <1>6, <1>7, <1>a, <2>1 DEF ShipTyped
<1>9. TickOK'
  <2>1. \A r \in Range(tick'.todo) : shipper'[r].failures < MaxFailures
    BY <1>t, <1>u, <1>5, <1>6, RangeOfSeq DEF TickOK
  <2>2. CASE tick' = NoTick
    BY <2>1, <2>2 DEF TickOK, NoTick, Rising
  <2>3. CASE tick'.pc = "ship" /\ tick'.todo = Tail(tick.todo) /\ tick'.batch = tick.batch
             /\ Tail(tick.todo) # <<>>
    <3>1. /\ Len(tick'.todo) = Len(tick.todo) - 1 /\ Len(tick.todo) \in Nat
          /\ \A i \in 1 .. Len(tick'.todo) : tick'.todo[i] = tick.todo[i + 1]
      BY <1>u, <1>a, <2>3, HeadTailProperties
    <3>2. \A i, j \in 1 .. Len(tick'.todo) : tick'.todo[i] = tick'.todo[j] => i = j
      <4> SUFFICES ASSUME NEW i \in 1 .. Len(tick'.todo), NEW j \in 1 .. Len(tick'.todo),
                          tick'.todo[i] = tick'.todo[j]
                   PROVE  i = j
        OBVIOUS
      <4>1. i + 1 \in 1 .. Len(tick.todo) /\ j + 1 \in 1 .. Len(tick.todo)
        BY <3>1
      <4>2. i + 1 = j + 1
        BY <1>t, <3>1, <4>1 DEF TickOK
      <4> QED BY <4>2
    <3> QED BY <1>t, <1>a, <2>1, <2>3, <3>2 DEF TickOK, Rising
  <2> QED BY <1>6, <2>2, <2>3
<1>10. ASSUME NEW r \in Shippers PROVE (Served(r) /\ InFavour(r))'
  <2>1. Served(r) /\ InFavour(r)
    BY <1>s
  <2>2. CASE r = s
    <3>1. s \notin Range(tick'.todo)
      BY <1>6
    <3>2. Served(s)'
      BY <1>a, <1>u, <1>5, <3>1 DEF Served
    <3>3. InFavour(s)'
      <4>1. shipper'[s].spotless => shipper'[s].on
        BY <1>5, <2>1, <2>2 DEF InFavour
      <4>2. tick'.pc # "take"
        BY <1>6 DEF NoTick
      <4> QED BY <1>5, <3>1, <4>1, <4>2 DEF InFavour
    <3> QED BY <2>2, <3>2, <3>3
  <2>3. CASE r # s
    <3>1. shipper'[r] = shipper[r]
      BY <1>5, <2>3
    <3>2. tick'.pc # "take" /\ (tick'.batch # <<>> => tick'.batch = tick.batch)
      BY <1>6 DEF NoTick
    <3>3. r \in Range(tick'.todo) => r \in Range(tick.todo)
      BY <1>6
    <3>4. Served(r)'
      BY <1>a, <2>1, <3>1, <3>2, <3>3 DEF Served
    <3>5. CASE tick'.pc = "ship"
      <4>1. r \in Range(tick.todo) <=> r \in Range(tick'.todo)
        BY <1>6, <2>3, <3>5
      <4>2. tick'.batch = tick.batch
        BY <1>6, <3>5 DEF NoTick
      <4> QED BY <2>1, <3>1, <3>2, <3>4, <4>1, <4>2 DEF InFavour
    <3>6. CASE tick'.pc # "ship"
      BY <1>6, <2>1, <2>3, <3>1, <3>2, <3>3, <3>4, <3>6 DEF InFavour
    <3> QED BY <3>5, <3>6
  <2> QED BY <2>2, <2>3
<1> QED BY <1>7, <1>8, <1>9, <1>10 DEF ShipInv
\* What changes is one shipper, which is none that the tick relies on to be well.
LEMMA ShipperChanges ==
    ASSUME ShipInv, NEW s \in Shippers, NEW row \in ShipperRow,
           shipper' = [shipper EXCEPT ![s] = row],
           UNCHANGED <<buffer, config, tick, drained>>, count'.appended = count.appended,
           count' \in [appended : Nat, dropped : Nat, cut : Nat, enabled : Nat],
           count'.dropped = count.dropped, count'.cut = count.cut,
           scene' = "ship" => job' \in [Workers -> ShipRequest],
           row.last = 0 \/ row.last = shipper[s].last,
           row.failures = 0 \/ row.failures = shipper[s].failures,
           row.spotless => /\ row.on /\ row.failures = 0
                           /\ \/ row.owed = 0 /\ tick.pc # "take" /\ s \notin Range(tick.todo)
                              \/ row.owed = shipper[s].owed /\ shipper[s].spotless
    PROVE  ShipInv'
<1>t. ShipTyped /\ Waiting /\ Balanced /\ TickOK
    BY DEF ShipInv
<1>u. /\ tick.todo \in Seq(Shippers) /\ tick.batch \in Seq(Nat \ {0}) /\ drained.last \in Nat
      /\ shipper \in [Shippers -> ShipperRow]
      /\ \A r \in Shippers : shipper[r].last \in Nat /\ shipper[r].failures \in Nat
    BY <1>t, ShipTypes DEF ShipTyped
<1>s. \A r \in Shippers : Served(r) /\ InFavour(r)
    BY DEF ShipInv
<1>1. shipper' \in [Shippers -> ShipperRow] /\ shipper'[s] = row
      /\ \A r \in Shippers \ {s} : shipper'[r] = shipper[r]
    BY <1>u
<1>2. ShipTyped'
    BY <1>t, <1>1 DEF ShipTyped
<1>3. Waiting' /\ Balanced'
    BY <1>t DEF Waiting, Balanced, Rising
<1>4. \A r \in Range(tick.todo) : r \in Shippers /\ shipper[r].failures < MaxFailures
    BY <1>t, <1>u, RangeOfSeq DEF TickOK
<1>5. \A r \in Range(tick.todo) : shipper'[r].failures < MaxFailures
    BY <1>1, <1>4, ShippingAssumption
<1>6. TickOK'
    BY <1>t, <1>5 DEF TickOK, Rising
<1>7. ASSUME NEW r \in Shippers PROVE (Served(r) /\ InFavour(r))'
  <2>1. CASE r # s
    BY <1>1, <1>s, <2>1 DEF Served, InFavour
  <2>2. CASE r = s
    <3>1. tick.batch # <<>> => tick.batch[1] \in Nat \ {0}
      BY <1>u, EmptySeq
    <3>2. Served(s) /\ InFavour(s)
      BY <1>s
    <3>3. row.last <= drained.last /\ row.failures <= MaxFailures
      BY <1>u, <3>2, ShippingAssumption DEF Served
    <3>4. s \in Range(tick.todo) /\ tick.batch # <<>> => row.last < tick.batch[1]
      BY <3>1, <3>2 DEF Served
    <3>5. Served(s)'
      BY <1>1, <3>3, <3>4 DEF Served
    <3>6. InFavour(s)'
      BY <1>1, <3>2 DEF InFavour
    <3> QED BY <2>2, <3>5, <3>6
  <2> QED BY <2>1, <2>2
<1> QED BY <1>2, <1>3, <1>6, <1>7 DEF ShipInv

\* Every step of the shipping keeps its invariant.
LEMMA ShipStep ==
    ASSUME ShipInv, scene = "ship", scene' = scene, ShippingNext
    PROVE  ShipInv'
<1>t. ShipTyped
    BY DEF ShipInv
<1>u. /\ shipper \in [Shippers -> ShipperRow] /\ job \in [Workers -> ShipRequest]
      /\ count \in [appended : Nat, dropped : Nat, cut : Nat, enabled : Nat]
      /\ \A s \in Shippers : shipper[s] \in ShipperRow
    BY <1>t, ShipTypes DEF ShipTyped
<1>1. CASE RefreshAndSelect
    BY <1>1, RefreshKeeps
<1>2. CASE TakeBatch
    BY <1>2, TakeKeeps
<1>3. CASE ShipBatch
    BY <1>3, ShipKeeps
<1>4. ASSUME NEW s \in Shippers, Unregister(s) PROVE ShipInv'
  <2>1. PICK row : row = [Tarnished(shipper[s]) EXCEPT !.on = FALSE]
    OBVIOUS
  <2>2. row \in ShipperRow /\ ~row.spotless /\ row.last = shipper[s].last
        /\ row.failures = shipper[s].failures
    BY <1>u, <2>1 DEF Tarnished, ShipperRow
  <2>3. shipper' = [shipper EXCEPT ![s] = row] /\ UNCHANGED <<buffer, config, tick, drained, count, job>>
    BY <1>4, <2>1 DEF Unregister, Scheduling
  <2> QED BY <1>u, <2>2, <2>3, ShipperChanges
<1>5. ASSUME NEW w \in Workers, Enqueue(w) PROVE ShipInv'
  <2>1. job' \in [Workers -> ShipRequest]
    BY <1>5, <1>u DEF Enqueue, Begin, ShipRequest
  <2>2. UNCHANGED shippingVars
    BY <1>5 DEF Enqueue
  <2> QED BY <1>t, <2>1, <2>2 DEF ShipInv, shippingVars, ShipTyped, Waiting, Balanced, TickOK, Rising,
           Served, InFavour
<1>6. ASSUME NEW w \in Workers, BufferRecord(w) PROVE ShipInv'
  <2>1. job' \in [Workers -> ShipRequest]
    BY <1>6, <1>u DEF BufferRecord, Done, Idle, ShipRequest
  <2>2. Buffered /\ UNCHANGED <<config, shipper, tick, drained>>
    BY <1>6 DEF BufferRecord
  <2>3. /\ buffer' \in Seq(Nat) /\ Len(buffer') <= config.capacity
        /\ count' \in [appended : Nat, dropped : Nat, cut : Nat, enabled : Nat]
        /\ Waiting' /\ Balanced'
    BY <2>2, BufferedKeeps
  <2>4. ShipTyped'
    BY <1>t, <2>1, <2>2, <2>3 DEF ShipTyped
  <2> QED BY <2>2, <2>3, <2>4 DEF ShipInv, TickOK, Rising, Served, InFavour
<1>7. ASSUME NEW w \in Workers, Register(w) PROVE ShipInv'
  <2>1. PICK s \in Shippers :
           /\ Begin(w, [pc |-> "reset", shipper |-> s])
           /\ shipper' = [shipper EXCEPT ![s] =
                [Fresh EXCEPT !.failures = shipper[s].failures,
                              !.spotless = /\ shipper[s].failures = 0
                                           /\ tick.pc # "take" /\ s \notin Range(tick.todo)]]
    BY <1>7 DEF Register
  <2>2. PICK row : row = [Fresh EXCEPT !.failures = shipper[s].failures,
                                       !.spotless = /\ shipper[s].failures = 0
                                                    /\ tick.pc # "take" /\ s \notin Range(tick.todo)]
    OBVIOUS
  <2>4. shipper' = [shipper EXCEPT ![s] = row]
    BY <2>1, <2>2, Zenon
  <2>3. /\ row.on /\ row.last = 0 /\ row.owed = 0 /\ row.failures = shipper[s].failures
        /\ row.spotless => shipper[s].failures = 0 /\ tick.pc # "take" /\ s \notin Range(tick.todo)
    BY <2>2 DEF Fresh
  <2>5. row \in ShipperRow
    BY <1>t, <2>2, ShipTypes DEF ShipperRow, Fresh
  <2>6. job' \in [Workers -> ShipRequest]
    BY <1>u, <2>1 DEF Begin, ShipRequest
  <2>7. UNCHANGED <<buffer, config, tick, drained>> /\ count' = [count EXCEPT !.enabled = @ + 1]
    BY <1>7 DEF Register
  <2>8. /\ count' \in [appended : Nat, dropped : Nat, cut : Nat, enabled : Nat]
        /\ count'.appended = count.appended /\ count'.dropped = count.dropped /\ count'.cut = count.cut
    BY <1>u, <2>7
  <2>9. /\ row.last = 0 /\ row.failures = shipper[s].failures /\ row.on /\ row.owed = 0
        /\ row.spotless => row.failures = 0 /\ tick.pc # "take" /\ s \notin Range(tick.todo)
    BY <2>3
  <2> QED BY <2>4, <2>5, <2>6, <2>7, <2>8, <2>9, ShipperChanges
<1>8. ASSUME NEW w \in Workers, ResetShipper(w) PROVE ShipInv'
  <2>1. /\ IsAt(w, "reset") /\ shipper' = [shipper EXCEPT ![job[w].shipper].failures = 0]
        /\ job' = [job EXCEPT ![w] = Idle] /\ UNCHANGED <<buffer, config, tick, drained, count>>
    BY <1>8 DEF ResetShipper, Done
  <2>2. PICK s \in Shippers : s = job[w].shipper
    BY <1>u, <2>1 DEF IsAt, ShipRequest
  <2>3. PICK row : row = [shipper[s] EXCEPT !.failures = 0]
    OBVIOUS
  <2>4. shipper' = [shipper EXCEPT ![s] = row]
    BY <1>u, <2>1, <2>2, <2>3
  <2>5. /\ row \in ShipperRow /\ row.last = shipper[s].last /\ row.failures = 0
        /\ row.owed = shipper[s].owed /\ row.spotless = shipper[s].spotless
        /\ row.on = shipper[s].on
    BY <1>u, <2>3 DEF ShipperRow
  <2>6. shipper[s].spotless => shipper[s].on
    BY DEF ShipInv, InFavour
  <2>7. job' \in [Workers -> ShipRequest]
    BY <1>u, <2>1 DEF Idle, ShipRequest
  <2> QED BY <1>u, <2>1, <2>4, <2>5, <2>6, <2>7, ShipperChanges
<1> QED BY <1>1, <1>2, <1>3, <1>4, <1>5, <1>6, <1>7, <1>8 DEF ShippingNext

LEMMA ShipInvStep == ShipInv /\ [Next]_vars => ShipInv'
<1> SUFFICES ASSUME ShipInv, [Next]_vars PROVE ShipInv'
    OBVIOUS
<1>1. CASE UNCHANGED <<shippingVars, scene, job>>
    BY <1>1 DEF ShipInv, shippingVars, ShipTyped, Waiting, Balanced, TickOK, Rising, Served, InFavour
<1>2. CASE UNCHANGED vars
    BY <1>1, <1>2 DEF vars
<1>3. CASE Next /\ scene = "ship"
  <2>1. ShippingNext /\ scene' = scene
    BY <1>3 DEF Next
  <2> QED BY <1>3, <2>1, ShipStep
<1>4. CASE Next /\ scene # "ship"
  <2>1. UNCHANGED shippingVars /\ scene' # "ship"
    BY <1>4 DEF Next
  <2> QED BY <2>1 DEF ShipInv, shippingVars, ShipTyped, Waiting, Balanced, TickOK, Rising,
             Served, InFavour
<1> QED BY <1>2, <1>3, <1>4

LEMMA ShipInvAccounts == ShipInv => RecordsAreAccounted
<1> SUFFICES ASSUME ShipInv PROVE RecordsAreAccounted
    OBVIOUS
<1>t. ShipTyped /\ Waiting /\ Balanced /\ TickOK
    BY DEF ShipInv
<1>u. /\ tick.todo \in Seq(Shippers) /\ tick.batch \in Seq(Nat \ {0}) /\ drained.last \in Nat
      /\ buffer \in Seq(Nat) /\ Len(buffer) \in Nat
    BY <1>t, ShipTypes
<1>1. Ascending(tick.batch)
  <2>1. \A i \in 1 .. Len(tick.batch) - 1 :
           i \in 1 .. Len(tick.batch) /\ i + 1 \in 1 .. Len(tick.batch) /\ i < i + 1
    BY <1>u
  <2> QED BY <1>t, <2>1 DEF Ascending, TickOK, Rising
<1>2. Ascending(<<drained.last>> \o buffer)
  <2> DEFINE all == <<drained.last>> \o buffer
  <2>1. /\ <<drained.last>> \in Seq(Nat) /\ Len(<<drained.last>>) = 1
        /\ <<drained.last>>[1] = drained.last
    BY <1>u
  <2>2. /\ Len(all) = Len(<<drained.last>>) + Len(buffer)
        /\ \A i \in 1 .. Len(<<drained.last>>) + Len(buffer) :
              all[i] = IF i <= Len(<<drained.last>>) THEN <<drained.last>>[i]
                       ELSE buffer[i - Len(<<drained.last>>)]
    BY <1>u, <2>1, ConcatProperties
  <2> HIDE DEF all
  <2>3. /\ Len(all) = 1 + Len(buffer) /\ all[1] = drained.last
        /\ \A i \in 1 .. Len(buffer) : all[i + 1] = buffer[i]
    BY <1>u, <2>1, <2>2
  <2> SUFFICES ASSUME NEW i \in 1 .. Len(all) - 1 PROVE all[i] < all[i + 1]
    BY DEF Ascending, all
  <2>4. i \in 1 .. Len(buffer) /\ all[i + 1] = buffer[i]
    BY <1>u, <2>3
  <2>5. CASE i = 1
    BY <1>t, <2>3, <2>4, <2>5 DEF Waiting
  <2>6. CASE i # 1
    <3>1. i - 1 \in 1 .. Len(buffer) /\ (i - 1) + 1 = i /\ i - 1 < i
      BY <1>u, <2>4, <2>6
    <3>2. all[i] = buffer[i - 1]
      BY <2>3, <3>1
    <3> QED BY <1>t, <2>4, <3>1, <3>2 DEF Waiting, Rising
  <2> QED BY <2>5, <2>6
<1>3. \A s \in Range(tick.todo) : tick.batch # <<>> => shipper[s].last < Head(tick.batch)
  <2>1. \A s \in Range(tick.todo) : s \in Shippers
    BY <1>u, RangeOfSeq
  <2>2. tick.batch # <<>> => Head(tick.batch) = tick.batch[1]
    BY <1>u
  <2> QED BY <2>1, <2>2 DEF ShipInv, Served
<1>4. \A s \in Shippers : shipper[s].spotless =>
          shipper[s].owed = IF s \in Range(tick.todo) THEN Len(tick.batch) ELSE 0
    BY DEF ShipInv, InFavour
<1> QED BY <1>t, <1>1, <1>2, <1>3, <1>4 DEF RecordsAreAccounted, Balanced

-----------------------------------------------------------------------------
(***************************************************************************)
(* The log files and their readers.                                        *)
(***************************************************************************)
Line == [n : Nat, ts : Nat]

WriterRow ==
         [pc : {"idle"}]
    \cup [pc : {"open", "append"}, files : Seq(Files), line : Line]
    \cup [pc : {"roll"}, at : Segments, files : Seq(Files), line : Line]

TailRow ==
    [pc : {"off", "open", "polling"}, file : Files \cup {<<>>}, known : Nat, sent : Seq(Line),
     rolled : BOOLEAN, upto : Nat]

WalkRow ==
    [pc : {"off", "list", "read", "between", "end"}, todo : Seq(Files), file : Files \cup {<<>>},
     names : SUBSET Segments, since : Nat, before : Nat, found : SUBSET (Files \X Line),
     spent : Nat, seen : SUBSET (Files \X Line), had : SUBSET (Files \X Line),
     twice : BOOLEAN, excused : BOOLEAN]

ReadTyped ==
    /\ segment \in [Files -> [Segments -> Seq(Line)]]
    /\ order \in [Files -> Seq(Line)]
    /\ lines \in 0 .. MaxLines /\ clock \in 1 .. lines + 1
    /\ tail \in TailRow /\ walk \in WalkRow

HasLine(o, l) == \E a \in 1 .. Len(o) : o[a] = l
InTurn(o, l, m) == \E a, b \in 1 .. Len(o) : a < b /\ o[a] = l /\ o[b] = m

\* What is in a file was appended to it, and is older than what comes after it
\* or is in a newer segment; the newest segment lacks nothing at its end.
FileOK(f) ==
    LET o == order[f]
        s == segment[f] IN
    /\ \A a \in 1 .. Len(o) : o[a].n <= lines /\ o[a].ts <= clock
    /\ Len(s[0]) <= Len(o)
    /\ \A k \in 1 .. Len(s[0]) : s[0][k] = o[Len(o) - Len(s[0]) + k]
    /\ \A i \in Segments : \A k \in 1 .. Len(s[i]) : HasLine(o, s[i][k])
    /\ \A i, j \in Segments : \A k \in 1 .. Len(s[i]), m \in 1 .. Len(s[j]) :
          i > j \/ (i = j /\ k < m) => InTurn(o, s[i][k], s[j][m])

\* A writer has files to write to, each once, and a line that is in none of them,
\* nor another writer's.
WriterOK(w) ==
    job[w].pc # "idle" =>
       /\ job[w].files # <<>> /\ job[w].line.n <= lines /\ job[w].line.ts <= clock
       /\ \A i, j \in 1 .. Len(job[w].files) : job[w].files[i] = job[w].files[j] => i = j
       /\ \A i \in 1 .. Len(job[w].files) :
             LET o == order[job[w].files[i]] IN \A a \in 1 .. Len(o) : o[a].n # job[w].line.n
       /\ \A v \in Workers \ {w} : job[v].pc # "idle" => job[v].line.n # job[w].line.n

\* The lines are in a file, in this order, before or at a place; they are all that is
\* there up to the place.
SentOf(s, o, u) ==
    /\ \A i \in 1 .. Len(s) : \E a \in 1 .. u : o[a] = s[i]
    /\ \A i, j \in 1 .. Len(s) : i < j => \E a, b \in 1 .. u : a < b /\ o[a] = s[i] /\ o[b] = s[j]
EndsAt(s, o, u) == Len(s) <= u /\ \A i \in 1 .. Len(s) : s[i] = o[u - Len(s) + i]

\* What a tail sent of a file is in order, up to where the file was read; what was
\* read of the newest segment ends there, or the segment begins after it.
KeepsUp(t, o, base) ==
    /\ t.pc # "polling" => t.sent = <<>> /\ t.upto = 0
    /\ t.pc = "polling" =>
          /\ t.upto <= Len(o) /\ SentOf(t.sent, o, t.upto)
          /\ base + t.known = t.upto \/ base >= t.upto
          /\ ~t.rolled => base + t.known = t.upto /\ EndsAt(t.sent, o, t.upto)

\* Where the newest segment begins in what was appended.
Base(f) == Len(order[f]) - Len(segment[f][0])

TailOK ==
    /\ tail.pc # "off" => tail.file \in Files
    /\ KeepsUp(tail, order[tail.file], Base(tail.file))

\* A line that may still be found, by the request under way or a later one.
Awaited(x) ==
    /\ x[2].ts < walk.before
    /\ \/ walk.pc = "between"
       \/ walk.pc \in {"list", "read"} /\ (x \in walk.found \/ x[1] \in Range(walk.todo))
       \/ /\ walk.pc = "read" /\ x[1] = walk.file
          /\ \E i \in walk.names : x[2] \in Range(segment[walk.file][i])

WasSeen(x) == \E y \in walk.seen : y[2] = x[2]

WalkOK ==
    /\ walk.pc = "off" => walk.had = {}
    /\ walk.pc = "list" => walk.todo # <<>>
    /\ walk.pc = "read" => walk.file \in Files
    /\ ~walk.twice /\ IsFiniteSet(walk.found)
    /\ \A x \in walk.found : x[2].ts < walk.before
    /\ \A x \in walk.seen : walk.before <= x[2].ts
    /\ \A x \in walk.found \cup walk.had : HasLine(order[x[1]], x[2])
    /\ ~walk.excused /\ (walk.since > 0 => ~Swapped) =>
          \A x \in walk.had \cap Present :
             x[2].ts >= walk.since /\ Unmistakable(x[2]) => WasSeen(x) \/ Awaited(x)

ReadInv ==
    /\ ReadTyped /\ TailOK /\ WalkOK /\ \A f \in Files : FileOK(f)
    /\ scene \in {"tail", "pages"} => job \in [Workers -> WriterRow] /\ \A w \in Workers : WriterOK(w)

\* What a sequence has, in turn, it has when it is longer; and what is appended comes last.
LEMMA LongerHas ==
    ASSUME NEW S, NEW o \in Seq(S), NEW x \in S
    PROVE  /\ \A l : HasLine(o, l) => HasLine(Append(o, x), l) /\ InTurn(Append(o, x), l, x)
           /\ \A l, m : InTurn(o, l, m) => InTurn(Append(o, x), l, m)
           /\ HasLine(Append(o, x), x)
<1>1. /\ Len(o) \in Nat /\ Len(Append(o, x)) = Len(o) + 1
      /\ \A a \in 1 .. Len(o) : Append(o, x)[a] = o[a]
      /\ Append(o, x)[Len(o) + 1] = x
    OBVIOUS
<1>2. /\ 1 .. Len(o) \subseteq 1 .. Len(Append(o, x)) /\ Len(o) + 1 \in 1 .. Len(Append(o, x))
      /\ \A a \in 1 .. Len(o) : a < Len(o) + 1
    BY <1>1
<1> QED BY <1>1, <1>2 DEF HasLine, InTurn

\* A file's segments, by number, and the fields of what is under way.
LEMMA ReadTypes ==
    ASSUME ReadTyped
    PROVE  /\ \A f \in Files, i \in Segments : segment[f][i] \in Seq(Line) /\ Len(segment[f][i]) \in Nat
           /\ \A f \in Files : order[f] \in Seq(Line) /\ Len(order[f]) \in Nat
           /\ lines \in Nat /\ clock \in Nat /\ clock <= lines + 1 /\ lines <= MaxLines
           /\ MaxLines \in Nat /\ Rolled \in Nat \ {0} /\ 0 \in Segments /\ Segments \subseteq Nat
           /\ tail.pc \in {"off", "open", "polling"} /\ tail.file \in Files \cup {<<>>}
           /\ tail.known \in Nat /\ tail.sent \in Seq(Line) /\ Len(tail.sent) \in Nat
           /\ tail.rolled \in BOOLEAN /\ tail.upto \in Nat
           /\ walk.pc \in {"off", "list", "read", "between", "end"} /\ walk.todo \in Seq(Files)
           /\ walk.names \subseteq Segments /\ walk.since \in Nat /\ walk.before \in Nat
           /\ walk.spent \in Nat /\ walk.twice \in BOOLEAN /\ walk.excused \in BOOLEAN
           /\ walk.found \subseteq Files \X Line /\ walk.seen \subseteq Files \X Line
           /\ walk.had \subseteq Files \X Line
           /\ \A x \in walk.found \cup walk.seen \cup walk.had :
                 x[1] \in Files /\ x[2] \in Line /\ x[2].ts \in Nat
<1>1. /\ MaxLines \in Nat /\ Rolled \in Nat \ {0}
    BY ReadingAssumption
<1>2. 0 \in Segments /\ Segments \subseteq Nat
    BY <1>1 DEF Segments
<1>3. \A f \in Files, i \in Segments : segment[f][i] \in Seq(Line) /\ Len(segment[f][i]) \in Nat
    BY DEF ReadTyped
<1>4. \A f \in Files : order[f] \in Seq(Line) /\ Len(order[f]) \in Nat
    BY DEF ReadTyped
<1>5. lines \in Nat /\ clock \in Nat /\ clock <= lines + 1 /\ lines <= MaxLines
    BY <1>1 DEF ReadTyped
<1>6. /\ tail.pc \in {"off", "open", "polling"} /\ tail.file \in Files \cup {<<>>}
      /\ tail.known \in Nat /\ tail.sent \in Seq(Line) /\ Len(tail.sent) \in Nat
      /\ tail.rolled \in BOOLEAN /\ tail.upto \in Nat
    BY DEF ReadTyped, TailRow
<1>7. /\ walk.pc \in {"off", "list", "read", "between", "end"} /\ walk.todo \in Seq(Files)
      /\ walk.names \subseteq Segments /\ walk.since \in Nat /\ walk.before \in Nat
      /\ walk.spent \in Nat /\ walk.twice \in BOOLEAN /\ walk.excused \in BOOLEAN
      /\ walk.found \subseteq Files \X Line /\ walk.seen \subseteq Files \X Line
      /\ walk.had \subseteq Files \X Line
    BY DEF ReadTyped, WalkRow
<1>8. \A x \in Files \X Line : x[1] \in Files /\ x[2] \in Line /\ x[2].ts \in Nat
    BY DEF Line
<1> QED BY <1>1, <1>2, <1>3, <1>4, <1>5, <1>6, <1>7, <1>8

\* What there is to write and to whom.
LEMMA Targets ==
    ASSUME NEW source \in Sources
    PROVE  LET fs == TargetFiles(source) IN
           /\ fs \in Seq(Files) /\ fs # <<>> /\ Len(fs) \in {1, 2}
           /\ \A i, j \in 1 .. Len(fs) : fs[i] = fs[j] => i = j
<1> DEFINE fs == TargetFiles(source)
<1>1. Range(fs) \subseteq Files
    BY DEF Files
<1>2. \/ \E f : fs = <<f>>
      \/ fs = << <<"core", "events">>, source >> /\ source[1] # "core"
    BY DEF TargetFiles
<1> HIDE DEF fs
<1>3. CASE \E f : fs = <<f>>
  <2>1. PICK f : fs = <<f>>
    BY <1>3
  <2>2. Len(fs) = 1 /\ fs[1] = f /\ fs # <<>>
    BY <2>1
  <2>3. f \in Files
    BY <1>1, <2>1 DEF Range
  <2>4. fs \in Seq(Files)
    BY <2>1, <2>3
  <2> QED BY <2>2, <2>4 DEF fs
<1>4. CASE fs = << <<"core", "events">>, source >> /\ source[1] # "core"
  <2>1. PICK e : e = <<"core", "events">>
    OBVIOUS
  <2>2. e[1] = "core"
    BY <2>1
  <2>3. fs = <<e, source>> /\ e # source
    BY <1>4, <2>1, <2>2
  <2>4. Len(fs) = 2 /\ fs[1] = e /\ fs[2] = source /\ fs # <<>> /\ DOMAIN fs = {1, 2}
    BY <2>3
  <2>5. e \in Files /\ source \in Files
    BY <1>1, <2>4 DEF Range
  <2>6. fs \in Seq(Files)
    BY <2>3, <2>5
  <2> QED BY <2>3, <2>4, <2>6 DEF fs
<1> QED BY <1>2, <1>3, <1>4

LEMMA InitRead == Init => ReadInv
<1> SUFFICES ASSUME Init PROVE ReadInv
    OBVIOUS
<1>1. /\ segment = [f \in Files |-> [i \in Segments |-> <<>>]] /\ lines = 0 /\ clock = 1
      /\ order = [f \in Files |-> <<>>] /\ tail = NoTail /\ walk = NoWalk
      /\ job = [w \in Workers |-> Idle]
    BY DEF Init, ReadingInit
<1>2. MaxLines \in Nat /\ Rolled \in Nat \ {0}
    BY ReadingAssumption
<1>3. 0 \in Segments
    BY <1>2 DEF Segments
<1>4. ReadTyped
  <2>1. tail \in TailRow
    BY <1>1 DEF NoTail, TailRow
  <2>2. <<>> \in Seq(Files) /\ {} \in SUBSET Segments /\ {} \in SUBSET (Files \X Line)
    OBVIOUS
  <2>3. walk \in WalkRow
    BY <1>1, <2>2 DEF NoWalk, WalkRow
  <2>4. segment \in [Files -> [Segments -> Seq(Line)]] /\ order \in [Files -> Seq(Line)]
    BY <1>1
  <2> QED BY <1>1, <1>2, <2>1, <2>3, <2>4 DEF ReadTyped
<1>5. TailOK
  <2>1. tail.pc = "off" /\ tail.sent = <<>> /\ tail.upto = 0
    BY <1>1 DEF NoTail
  <2> QED BY <2>1 DEF TailOK, KeepsUp
<1>6. WalkOK
  <2>1. IsFiniteSet({})
    BY FS_EmptySet
  <2> QED BY <1>1, <2>1 DEF WalkOK, NoWalk
<1>7. ASSUME NEW f \in Files PROVE FileOK(f)
    BY <1>1, <1>3 DEF FileOK
<1>8. job \in [Workers -> WriterRow] /\ \A w \in Workers : WriterOK(w)
    BY <1>1 DEF WriterOK, Idle, WriterRow
<1> QED BY <1>4, <1>5, <1>6, <1>7, <1>8 DEF ReadInv

Writing == scene \in {"tail", "pages"}

LEMMA WriterTypes ==
    ASSUME ReadInv, Writing, NEW w \in Workers
    PROVE  /\ job \in [Workers -> WriterRow] /\ job[w] \in WriterRow
           /\ job[w].pc \in {"idle", "open", "append", "roll"}
           /\ job[w].pc # "idle" =>
                 /\ job[w].files \in Seq(Files) /\ job[w].files # <<>> /\ Len(job[w].files) \in Nat \ {0}
                 /\ job[w].line \in Line /\ job[w].line.n \in Nat /\ job[w].line.ts \in Nat
                 /\ job[w].line.n <= lines /\ job[w].line.ts <= clock
                 /\ FileOf(w) \in Files /\ FileOf(w) = job[w].files[1]
           /\ job[w].pc = "roll" => job[w].at \in Segments
<1>1. job \in [Workers -> WriterRow] /\ job[w] \in WriterRow /\ WriterOK(w)
    BY DEF ReadInv, Writing
<1>2. job[w].pc \in {"idle", "open", "append", "roll"}
    BY <1>1 DEF WriterRow
<1>3. job[w].pc # "idle" => job[w].files \in Seq(Files) /\ job[w].line \in Line
    BY <1>1 DEF WriterRow
<1>4. job[w].pc # "idle" => job[w].files # <<>> /\ job[w].line.n <= lines /\ job[w].line.ts <= clock
    BY <1>1 DEF WriterOK
<1>5. \A l \in Line : l.n \in Nat /\ l.ts \in Nat
    BY DEF Line
<1>6. \A fs \in Seq(Files) : fs # <<>> =>
         Len(fs) \in Nat \ {0} /\ Head(fs) \in Files /\ Head(fs) = fs[1]
    BY EmptySeq
<1>7. job[w].pc = "roll" => job[w].at \in Segments
    BY <1>1 DEF WriterRow
<1> QED BY <1>1, <1>2, <1>3, <1>4, <1>5, <1>6, <1>7 DEF FileOf

\* A writer that only goes on with its own keeps the others'.
LEMMA WritersGoOn ==
    ASSUME ReadInv, Writing, NEW w \in Workers, NEW row \in WriterRow,
           job' = [job EXCEPT ![w] = row], lines' = lines, clock' = clock,
           job[w].pc # "idle",
           row.pc # "idle" => row.line = job[w].line /\ row.files # <<>>,
           \* the files to go are among those to go
           row.pc # "idle" => \E d \in {0, 1} :
              /\ Len(row.files) = Len(job[w].files) - d
              /\ \A i \in 1 .. Len(row.files) : row.files[i] = job[w].files[i + d],
           order' = order
    PROVE  job' \in [Workers -> WriterRow] /\ \A v \in Workers : WriterOK(v)'
<1>1. job \in [Workers -> WriterRow] /\ \A v \in Workers : WriterOK(v)
    BY DEF ReadInv, Writing
<1>2. job' \in [Workers -> WriterRow]
    BY <1>1
<1>3. /\ job'[w] = row
      /\ \A v \in Workers \ {w} : job'[v] = job[v]
    BY <1>1
<1>4. ASSUME NEW v \in Workers \ {w} PROVE WriterOK(v)'
  <2> SUFFICES ASSUME job[v].pc # "idle" PROVE WriterOK(v)'
    BY <1>3 DEF WriterOK
  <2>1. job'[v] = job[v]
    BY <1>3
  <2>2. \A u \in Workers \ {v} : job'[u].pc # "idle" => job'[u].line.n # job[v].line.n
    <3> SUFFICES ASSUME NEW u \in Workers \ {v}, job'[u].pc # "idle"
                 PROVE  job'[u].line.n # job[v].line.n
      OBVIOUS
    <3>1. job[u].pc # "idle" /\ job'[u].line = job[u].line
      BY <1>3
    <3> QED BY <1>1, <3>1 DEF WriterOK
  <2>3. /\ job[v].files # <<>> /\ job[v].line.n <= lines' /\ job[v].line.ts <= clock'
        /\ \A i, j \in 1 .. Len(job[v].files) : job[v].files[i] = job[v].files[j] => i = j
        /\ \A i \in 1 .. Len(job[v].files) :
              \A a \in 1 .. Len(order'[job[v].files[i]]) :
                  order'[job[v].files[i]][a].n # job[v].line.n
    BY <1>1 DEF WriterOK
  <2> QED BY <2>1, <2>2, <2>3 DEF WriterOK
<1>5. WriterOK(w)'
  <2> SUFFICES ASSUME row.pc # "idle" PROVE WriterOK(w)'
    BY <1>3 DEF WriterOK
  <2>1. PICK d \in {0, 1} : 
              /\ Len(row.files) = Len(job[w].files) - d
              /\ \A i \in 1 .. Len(row.files) : row.files[i] = job[w].files[i + d]
    OBVIOUS
  <2>2. Len(job[w].files) \in Nat
    BY WriterTypes
  <2>3. \A i \in 1 .. Len(row.files) : i + d \in 1 .. Len(job[w].files)
    BY <2>1, <2>2
  <2>4. \A i, j \in 1 .. Len(row.files) : row.files[i] = row.files[j] => i = j
    BY <1>1, <2>1, <2>2, <2>3 DEF WriterOK
  <2>5. /\ job[w].line.n <= lines /\ job[w].line.ts <= clock
        /\ \A i \in 1 .. Len(job[w].files) :
              \A a \in 1 .. Len(order[job[w].files[i]]) : order[job[w].files[i]][a].n # job[w].line.n
        /\ \A v \in Workers \ {w} : job[v].pc # "idle" => job[v].line.n # job[w].line.n
    BY <1>1 DEF WriterOK
  <2>6. \A i \in 1 .. Len(row.files) :
           \A a \in 1 .. Len(order[row.files[i]]) : order[row.files[i]][a].n # row.line.n
    <3> SUFFICES ASSUME NEW i \in 1 .. Len(row.files), NEW a \in 1 .. Len(order[row.files[i]])
                 PROVE  order[row.files[i]][a].n # row.line.n
      OBVIOUS
    <3>1. row.files[i] = job[w].files[i + d] /\ i + d \in 1 .. Len(job[w].files)
      BY <2>1, <2>3
    <3>2. a \in 1 .. Len(order[job[w].files[i + d]])
      BY <3>1
    <3>3. order[job[w].files[i + d]][a].n # job[w].line.n
      BY <2>5, <3>1, <3>2
    <3> QED BY <3>1, <3>3
  <2>7. \A v \in Workers \ {w} : job'[v].pc # "idle" => job'[v].line.n # row.line.n
    BY <1>3, <2>5
  <2>8. job'[w] = row
    BY <1>3
  <2>9. /\ row.files # <<>> /\ row.line.n <= lines' /\ row.line.ts <= clock'
        /\ \A i \in 1 .. Len(row.files) :
              \A a \in 1 .. Len(order'[row.files[i]]) : order'[row.files[i]][a].n # row.line.n
    BY <2>5, <2>6
  <2> QED BY <2>4, <2>7, <2>8, <2>9 DEF WriterOK
<1> QED BY <1>2, <1>4, <1>5

\* The tail depends on nothing else.
LEMMA TailGoesOn ==
    ASSUME TailOK, tail' = tail, order' = order, segment' = segment
    PROVE  TailOK'
    BY DEF TailOK, Base

\* What a record that is about to be written changes.
LEMMA EmitKeeps ==
    ASSUME ReadInv, NEW w \in Workers, EmitRecord(w)
    PROVE  ReadInv'
<1>0. Writing
    BY DEF EmitRecord, Reading, Writing
<1>t. ReadTyped /\ (\A f \in Files : FileOK(f)) /\ (\A v \in Workers : WriterOK(v))
      /\ job \in [Workers -> WriterRow]
    BY <1>0 DEF ReadInv, Writing
<1>u. /\ lines \in Nat /\ clock \in Nat /\ clock <= lines + 1 /\ MaxLines \in Nat /\ 1 <= clock
    BY <1>t, ReadTypes DEF ReadTyped
<1>1. UNCHANGED <<scene, segment, order, tail, walk>>
    BY DEF EmitRecord, Reading
<1>2. PICK source \in Sources :
          /\ lines' = lines + Len(TargetFiles(source)) /\ lines' <= MaxLines
          /\ job[w].pc = "idle"
          /\ job' = [job EXCEPT ![w] = [pc |-> "open", files |-> TargetFiles(source),
                                        line |-> [n |-> lines', ts |-> clock]]]
    BY DEF EmitRecord, Begin, Go, IsAt
<1>3. clock' \in {clock, clock + 1}
    BY DEF EmitRecord
<1>4. PICK fs \in Seq(Files) : /\ fs = TargetFiles(source) /\ fs # <<>> /\ Len(fs) \in {1, 2}
                               /\ \A i, j \in 1 .. Len(fs) : fs[i] = fs[j] => i = j
    BY Targets
<1>5. lines' \in Nat /\ lines' > lines /\ clock' \in 1 .. lines' + 1 /\ clock' >= clock
      /\ lines' \in 0 .. MaxLines /\ clock' \in Nat
    BY <1>u, <1>2, <1>3, <1>4
<1>6. ReadTyped'
    BY <1>t, <1>1, <1>5 DEF ReadTyped
<1>7. PICK line \in Line : line = [n |-> lines', ts |-> clock]
    BY <1>u, <1>5 DEF Line
<1>8. PICK row : row = [pc |-> "open", files |-> fs, line |-> line]
    OBVIOUS
<1>9. /\ row \in WriterRow /\ row.pc = "open" /\ row.files = fs /\ row.line = line
      /\ line.n = lines' /\ line.ts = clock
    BY <1>7, <1>8 DEF WriterRow
<1>10. job' = [job EXCEPT ![w] = row]
    BY <1>2, <1>4, <1>7, <1>8
<1>11. job' \in [Workers -> WriterRow] /\ job'[w] = row
       /\ \A v \in Workers \ {w} : job'[v] = job[v]
    BY <1>t, <1>9, <1>10
<1>12. \A f \in Files : \A a \in 1 .. Len(order[f]) :
          order[f][a].n \in Nat /\ order[f][a].ts \in Nat /\ order[f][a].n <= lines /\ order[f][a].ts <= clock
  <2>1. \A f \in Files : \A a \in 1 .. Len(order[f]) : order[f][a] \in Line
    BY <1>t, ReadTypes
  <2> QED BY <1>t, <2>1 DEF FileOK, Line
<1>13. ASSUME NEW f \in Files PROVE FileOK(f)'
  <2>1. \A a \in 1 .. Len(order[f]) : order[f][a].n <= lines' /\ order[f][a].ts <= clock'
    BY <1>u, <1>5, <1>12
  <2> QED BY <1>t, <1>1, <2>1 DEF FileOK
<1>14. \A v \in Workers : job[v].pc # "idle" => job[v].line.n \in Nat /\ job[v].line.n <= lines
            /\ job[v].line.ts \in Nat /\ job[v].line.ts <= clock
    BY <1>0, WriterTypes
<1>15. ASSUME NEW v \in Workers \ {w} PROVE WriterOK(v)'
  <2>1. job[v].pc # "idle" => job[v].line.n <= lines' /\ job[v].line.ts <= clock' /\ line.n # job[v].line.n
    BY <1>u, <1>5, <1>9, <1>14
  <2>2. WriterOK(v)
    BY <1>t
  <2> SUFFICES ASSUME job[v].pc # "idle" PROVE WriterOK(v)'
    BY <1>11 DEF WriterOK
  <2>3. \A u \in Workers \ {v} : job'[u].pc # "idle" => job'[u].line.n # job[v].line.n
    BY <1>9, <1>11, <2>1, <2>2 DEF WriterOK
  <2>4. job'[v] = job[v] /\ order' = order
    BY <1>1, <1>11
  <2> QED BY <2>1, <2>2, <2>3, <2>4 DEF WriterOK
<1>16. WriterOK(w)'
  <2>1. line.n <= lines' /\ line.ts <= clock'
    BY <1>u, <1>5, <1>9
  <2>2. \A v \in Workers \ {w} : job[v].pc # "idle" => job[v].line.n # line.n
    BY <1>u, <1>5, <1>9, <1>14
  <2>3. \A i \in 1 .. Len(fs) : fs[i] \in Files
    BY <1>4
  <2>4. \A i \in 1 .. Len(fs) : \A a \in 1 .. Len(order[fs[i]]) : order[fs[i]][a].n # line.n
    BY <1>u, <1>5, <1>9, <1>12, <2>3
  <2> QED BY <1>1, <1>4, <1>9, <1>11, <2>1, <2>2, <2>4 DEF WriterOK
<1>17. TailOK'
    BY <1>1, TailGoesOn DEF ReadInv
<1>18. WalkOK'
    BY <1>1 DEF ReadInv, WalkOK, Swapped, Present, Unmistakable, WasSeen, Awaited
<1> QED BY <1>6, <1>11, <1>13, <1>15, <1>16, <1>17, <1>18 DEF ReadInv

LEMMA LockKeeps ==
    ASSUME ReadInv, NEW w \in Workers, LockFile(w)
    PROVE  ReadInv'
<1>0. Writing /\ UNCHANGED <<scene, segment, order, tail, walk, lines, clock>> /\ job[w].pc = "open"
    BY DEF LockFile, Reading, Writing, readingVars, IsAt
<1>t. ReadTyped /\ \A f \in Files : FileOK(f)
    BY DEF ReadInv
<1>1. /\ job[w].files \in Seq(Files) /\ job[w].files # <<>> /\ job[w].line \in Line
      /\ Len(job[w].files) \in Nat
    BY <1>0, WriterTypes
<1>2. Rolled \in Segments
    BY <1>t, ReadTypes DEF Segments
<1>3. PICK row : /\ job' = [job EXCEPT ![w] = row]
                 /\ \/ row = [pc |-> "roll", at |-> Rolled, files |-> job[w].files, line |-> job[w].line]
                    \/ row = [pc |-> "append", files |-> job[w].files, line |-> job[w].line]
    BY DEF LockFile, Go
<1>4. /\ row \in WriterRow /\ row.line = job[w].line /\ row.files = job[w].files
    BY <1>1, <1>2, <1>3 DEF WriterRow
<1>5. /\ Len(row.files) = Len(job[w].files) - 0
      /\ \A i \in 1 .. Len(row.files) : row.files[i] = job[w].files[i + 0]
    BY <1>1, <1>4
<1>6. job' \in [Workers -> WriterRow] /\ \A v \in Workers : WriterOK(v)'
    BY <1>0, <1>1, <1>3, <1>4, <1>5, WritersGoOn
<1>7. ReadTyped' /\ (\A f \in Files : FileOK(f)')
    BY <1>0, <1>t DEF ReadTyped, FileOK
<1>9. TailOK'
    BY <1>0, TailGoesOn DEF ReadInv
<1>8. WalkOK'
    BY <1>0 DEF ReadInv, WalkOK, Swapped, Present, Unmistakable, WasSeen, Awaited
<1> QED BY <1>6, <1>7, <1>8, <1>9 DEF ReadInv

\* What was sent of a file stays in it.
LEMMA SentStays ==
    ASSUME NEW o \in Seq(Line), NEW x \in Line, NEW s, NEW u \in Nat, u <= Len(o), Len(s) \in Nat
    PROVE  /\ SentOf(s, o, u) => SentOf(s, Append(o, x), u)
           /\ EndsAt(s, o, u) => EndsAt(s, Append(o, x), u)
<1>1. /\ Len(o) \in Nat /\ Len(Append(o, x)) = Len(o) + 1
      /\ \A a \in 1 .. Len(o) : Append(o, x)[a] = o[a]
    OBVIOUS
<1> DEFINE p == Append(o, x)
<1>2. \A a \in 1 .. u : p[a] = o[a]
    BY <1>1
<1> HIDE DEF p
<1>3. SentOf(s, o, u) => SentOf(s, p, u)
  <2> SUFFICES ASSUME SentOf(s, o, u) PROVE SentOf(s, p, u)
    OBVIOUS
  <2>1. \A i \in 1 .. Len(s) : \E a \in 1 .. u : p[a] = s[i]
    BY <1>2 DEF SentOf
  <2>2. ASSUME NEW i \in 1 .. Len(s), NEW j \in 1 .. Len(s), i < j
        PROVE  \E a, b \in 1 .. u : a < b /\ p[a] = s[i] /\ p[b] = s[j]
    <3>1. PICK a \in 1 .. u, b \in 1 .. u : a < b /\ o[a] = s[i] /\ o[b] = s[j]
      BY <2>2 DEF SentOf
    <3> QED BY <1>2, <3>1
  <2> QED BY <2>1, <2>2 DEF SentOf
<1>4. EndsAt(s, o, u) => EndsAt(s, p, u)
  <2> SUFFICES ASSUME EndsAt(s, o, u) PROVE EndsAt(s, p, u)
    OBVIOUS
  <2>1. \A i \in 1 .. Len(s) : u - Len(s) + i \in 1 .. u
    BY DEF EndsAt
  <2> QED BY <1>2, <2>1 DEF EndsAt
<1> QED BY <1>3, <1>4 DEF p

\* A tail follows a file that grows.
LEMMA FollowsOn ==
    ASSUME NEW t \in TailRow, NEW o \in Seq(Line), NEW x \in Line, NEW base \in Int,
           KeepsUp(t, o, base)
    PROVE  KeepsUp(t, Append(o, x), base)
<1>1. Len(o) \in Nat /\ Len(Append(o, x)) = Len(o) + 1
    OBVIOUS
<1>2. t.upto \in Nat /\ Len(t.sent) \in Nat
    BY DEF TailRow
<1>3. CASE t.pc # "polling"
    BY <1>3 DEF KeepsUp
<1>4. CASE t.pc = "polling"
  <2>1. t.upto <= Len(o) /\ t.upto <= Len(Append(o, x))
    BY <1>1, <1>2, <1>4 DEF KeepsUp
  <2>2. /\ SentOf(t.sent, o, t.upto) => SentOf(t.sent, Append(o, x), t.upto)
        /\ EndsAt(t.sent, o, t.upto) => EndsAt(t.sent, Append(o, x), t.upto)
    BY <1>2, <2>1, SentStays
  <2> QED BY <1>4, <2>1, <2>2 DEF KeepsUp
<1> QED BY <1>3, <1>4

\* What a line that is appended changes of a file.
LEMMA AppendFile ==
    ASSUME ReadTyped, NEW f \in Files, NEW x \in Line, FileOK(f), x.n <= lines, x.ts <= clock,
           order'[f] = Append(order[f], x), lines' = lines, clock' = clock,
           segment'[f] = [segment[f] EXCEPT ![0] = Append(@, x)]
    PROVE  FileOK(f)' /\ Base(f)' = Base(f)
<1> DEFINE o == order[f]
           s == segment[f]
           p == Append(o, x)
           r == [s EXCEPT ![0] = Append(@, x)]
<1>u. /\ o \in Seq(Line) /\ Len(o) \in Nat /\ 0 \in Segments
      /\ s \in [Segments -> Seq(Line)] /\ \A i \in Segments : s[i] \in Seq(Line) /\ Len(s[i]) \in Nat
    BY ReadTypes DEF ReadTyped
<1>1. /\ Len(p) = Len(o) + 1 /\ p[Len(o) + 1] = x
      /\ \A a \in 1 .. Len(o) : p[a] = o[a]
    BY <1>u
<1>2. /\ Len(r[0]) = Len(s[0]) + 1 /\ r[0][Len(s[0]) + 1] = x
      /\ \A a \in 1 .. Len(s[0]) : r[0][a] = s[0][a]
    BY <1>u
<1>3. \A i \in Segments : i # 0 => r[i] = s[i]
    BY <1>u
<1>4. /\ \A l : HasLine(o, l) => HasLine(p, l) /\ InTurn(p, l, x)
      /\ \A l, m : InTurn(o, l, m) => InTurn(p, l, m)
      /\ HasLine(p, x)
    BY <1>u, LongerHas
<1>5. /\ \A a \in 1 .. Len(o) : o[a].n <= lines /\ o[a].ts <= clock
      /\ Len(s[0]) <= Len(o)
      /\ \A k \in 1 .. Len(s[0]) : s[0][k] = o[Len(o) - Len(s[0]) + k]
      /\ \A i \in Segments : \A k \in 1 .. Len(s[i]) : HasLine(o, s[i][k])
      /\ \A i, j \in Segments : \A k \in 1 .. Len(s[i]), m \in 1 .. Len(s[j]) :
            i > j \/ (i = j /\ k < m) => InTurn(o, s[i][k], s[j][m])
    BY DEF FileOK
<1>6. order'[f] = p /\ segment'[f] = r
    OBVIOUS
<1> HIDE DEF o, s, p, r
<1>7. \A a \in 1 .. Len(p) : p[a].n <= lines /\ p[a].ts <= clock
  <2> SUFFICES ASSUME NEW a \in 1 .. Len(p) PROVE p[a].n <= lines /\ p[a].ts <= clock
    OBVIOUS
  <2>1. a = Len(o) + 1 \/ a \in 1 .. Len(o)
    BY <1>u, <1>1
  <2> QED BY <1>1, <1>5, <2>1
<1>8. Len(r[0]) <= Len(p) /\ Len(p) - Len(r[0]) = Len(o) - Len(s[0])
    BY <1>u, <1>1, <1>2, <1>5
<1>9. \A k \in 1 .. Len(r[0]) : r[0][k] = p[Len(p) - Len(r[0]) + k]
  <2> SUFFICES ASSUME NEW k \in 1 .. Len(r[0]) PROVE r[0][k] = p[Len(o) - Len(s[0]) + k]
    BY <1>8
  <2>1. CASE k = Len(s[0]) + 1
    <3>1. Len(o) - Len(s[0]) + k = Len(o) + 1
      BY <1>u, <2>1
    <3> QED BY <1>1, <1>2, <2>1, <3>1
  <2>2. CASE k \in 1 .. Len(s[0])
    <3>1. Len(o) - Len(s[0]) + k \in 1 .. Len(o)
      BY <1>u, <1>5, <2>2
    <3> QED BY <1>1, <1>2, <1>5, <2>2, <3>1
  <2> QED BY <1>u, <1>2, <2>1, <2>2
\* A line is the new one, at the end of the newest, or was there before.
<1>10. \A i \in Segments : \A k \in 1 .. Len(r[i]) :
          \/ k \in 1 .. Len(s[i]) /\ r[i][k] = s[i][k]
          \/ i = 0 /\ k = Len(s[0]) + 1 /\ r[i][k] = x
  <2> SUFFICES ASSUME NEW i \in Segments, NEW k \in 1 .. Len(r[i])
               PROVE  \/ k \in 1 .. Len(s[i]) /\ r[i][k] = s[i][k]
                      \/ i = 0 /\ k = Len(s[0]) + 1 /\ r[i][k] = x
    OBVIOUS
  <2>1. CASE i # 0
    BY <1>3, <2>1
  <2>2. CASE i = 0
    <3>1. k \in 1 .. Len(s[0]) \/ k = Len(s[0]) + 1
      BY <1>u, <1>2, <2>2
    <3> QED BY <1>2, <2>2, <3>1
  <2> QED BY <2>1, <2>2
<1>11. \A i \in Segments : \A k \in 1 .. Len(r[i]) : HasLine(p, r[i][k])
    BY <1>4, <1>5, <1>10
<1>12. \A i, j \in Segments : \A k \in 1 .. Len(r[i]), m \in 1 .. Len(r[j]) :
            i > j \/ (i = j /\ k < m) => InTurn(p, r[i][k], r[j][m])
  <2> SUFFICES ASSUME NEW i \in Segments, NEW j \in Segments, NEW k \in 1 .. Len(r[i]),
                      NEW m \in 1 .. Len(r[j]), i > j \/ (i = j /\ k < m)
               PROVE  InTurn(p, r[i][k], r[j][m])
    OBVIOUS
  <2>1. k \in 1 .. Len(s[i]) /\ r[i][k] = s[i][k]
    <3> SUFFICES ASSUME i = 0, k = Len(s[0]) + 1 PROVE FALSE
      BY <1>10
    <3>1. j \in Nat
      BY ReadTypes
    <3>2. j = 0 /\ k < m
      BY <3>1
    <3>3. m <= Len(s[0]) + 1
      BY <1>2, <3>2
    <3> QED BY <1>u, <3>2, <3>3
  <2>2. CASE m \in 1 .. Len(s[j]) /\ r[j][m] = s[j][m]
    BY <1>4, <1>5, <2>1, <2>2
  <2>3. CASE r[j][m] = x
    BY <1>4, <1>5, <2>1, <2>3
  <2> QED BY <1>10, <2>2, <2>3
<1>13. FileOK(f)'
    BY <1>6, <1>7, <1>8, <1>9, <1>11, <1>12 DEF FileOK
<1>14. Base(f)' = Base(f)
    BY <1>6, <1>8 DEF Base, o, s
<1> QED BY <1>13, <1>14

\* The lines that are in the files.
LEMMA PresentLines ==
    \A x : x \in Present <=>
       \E f \in Files, i \in Segments : \E l \in Range(segment[f][i]) : x = <<f, l>>
    BY DEF Present

\* What is in a sequence is at one of its places.
LEMMA Places ==
    ASSUME NEW S, NEW o \in Seq(S), NEW l
    PROVE  l \in Range(o) <=> HasLine(o, l)
    BY RangeEquality DEF HasLine

\* A walk under way bears that the files grow.
LEMMA WalkGoesOn ==
    ASSUME WalkOK, walk' = walk,
           \A x \in walk.found \cup walk.had : HasLine(order[x[1]], x[2]) => HasLine(order'[x[1]], x[2]),
           Swapped => Swapped', \A l : Unmistakable(l)' => Unmistakable(l),
           walk.had \cap Present' \subseteq Present,
           walk.pc = "read" => \A i \in walk.names :
              Range(segment[walk.file][i]) \subseteq Range(segment'[walk.file][i])
    PROVE  WalkOK'
<1>1. \A x : Awaited(x) => Awaited(x)'
    BY DEF Awaited
<1>2. \A x : WasSeen(x) => WasSeen(x)'
    BY DEF WasSeen
<1>3. ASSUME ~walk.excused, walk.since > 0 => ~Swapped', NEW x \in walk.had \cap Present',
             x[2].ts >= walk.since, Unmistakable(x[2])'
      PROVE  WasSeen(x)' \/ Awaited(x)'
    BY <1>1, <1>2, <1>3 DEF WalkOK
<1> QED BY <1>3 DEF WalkOK

\* What is appended to a file can only take from what the readers promise.
LEMMA AppendPromises ==
    ASSUME ReadTyped, NEW f \in Files, NEW x \in Line,
           order' = [order EXCEPT ![f] = Append(@, x)]
    PROVE  /\ \A g \in Files : \A l : HasLine(order[g], l) => HasLine(order'[g], l)
           /\ Swapped => Swapped'
           /\ \A l : Unmistakable(l)' => Unmistakable(l)
<1>u. \A g \in Files : order[g] \in Seq(Line) /\ Len(order[g]) \in Nat
    BY ReadTypes
<1>0. /\ order'[f] = Append(order[f], x) /\ \A g \in Files : g # f => order'[g] = order[g]
    BY DEF ReadTyped
<1>1. \A g \in Files : \A l : HasLine(order[g], l) => HasLine(order'[g], l)
    BY <1>u, <1>0, LongerHas
<1>2. \A g \in Files : /\ order'[g] \in Seq(Line) /\ Len(order[g]) <= Len(order'[g])
                       /\ \A a \in 1 .. Len(order[g]) : order'[g][a] = order[g][a]
    BY <1>u, <1>0
<1>3. Swapped => Swapped'
  <2> SUFFICES ASSUME Swapped PROVE Swapped'
    OBVIOUS
  <2>1. PICK g \in Files : \E i, j \in 1 .. Len(order[g]) : i < j /\ order[g][i].ts > order[g][j].ts
    BY DEF Swapped
  <2>2. PICK i \in 1 .. Len(order[g]), j \in 1 .. Len(order[g]) : i < j /\ order[g][i].ts > order[g][j].ts
    BY <2>1
  <2>3. i \in 1 .. Len(order'[g]) /\ j \in 1 .. Len(order'[g])
    BY <1>u, <1>2
  <2>4. order'[g][i].ts > order'[g][j].ts
    BY <1>2, <2>2
  <2> QED BY <2>2, <2>3, <2>4 DEF Swapped
<1>4. \A l : Unmistakable(l)' => Unmistakable(l)
  <2> SUFFICES ASSUME NEW l, Unmistakable(l)', NEW g \in Files, NEW m \in Range(order[g]), m.ts = l.ts
               PROVE  m = l
    BY DEF Unmistakable
  <2>1. HasLine(order[g], m)
    BY <1>u, Places
  <2>2. m \in Range(order'[g])
    BY <1>1, <1>2, <2>1, Places
  <2> QED BY <2>2 DEF Unmistakable
<1> QED BY <1>1, <1>3, <1>4

LEMMA AppendKeeps ==
    ASSUME ReadInv, NEW w \in Workers, AppendLine(w)
    PROVE  ReadInv'
<1>f. PICK f : f = FileOf(w)
    OBVIOUS
<1>x. PICK x : x = job[w].line
    OBVIOUS
<1>0. Writing /\ UNCHANGED <<scene, tail, walk, lines, clock>> /\ job[w].pc = "append"
    BY DEF AppendLine, Reading, Writing, IsAt
<1>t. ReadTyped /\ TailOK /\ WalkOK /\ (\A g \in Files : FileOK(g)) /\ (\A v \in Workers : WriterOK(v))
    BY <1>0 DEF ReadInv, Writing
<1>1. /\ job[w].files \in Seq(Files) /\ job[w].files # <<>> /\ Len(job[w].files) \in Nat \ {0}
      /\ x \in Line /\ x.n \in Nat /\ x.n <= lines /\ x.ts <= clock /\ f \in Files /\ f = job[w].files[1]
      /\ job \in [Workers -> WriterRow]
    BY <1>0, <1>f, <1>x, WriterTypes
<1>2. /\ segment' = [segment EXCEPT ![f][0] = Append(@, x)]
      /\ order' = [order EXCEPT ![f] = Append(@, x)]
    BY <1>f, <1>x DEF AppendLine
<1>3. PICK row : /\ job' = [job EXCEPT ![w] = row]
                 /\ \/ Len(job[w].files) = 1 /\ row = [pc |-> "idle"]
                    \/ /\ Len(job[w].files) # 1
                       /\ row = [pc |-> "open", files |-> Tail(job[w].files), line |-> x]
    BY <1>x DEF AppendLine, Go, Done, Idle
<1>4. /\ segment \in [Files -> [Segments -> Seq(Line)]] /\ order \in [Files -> Seq(Line)] /\ 0 \in Segments
      /\ \A g \in Files : order[g] \in Seq(Line) /\ Len(order[g]) \in Nat
      /\ \A g \in Files, i \in Segments : segment[g][i] \in Seq(Line)
    BY <1>t, ReadTypes DEF ReadTyped
<1>5. /\ order'[f] = Append(order[f], x) /\ segment'[f] = [segment[f] EXCEPT ![0] = Append(@, x)]
      /\ \A g \in Files : g # f => order'[g] = order[g] /\ segment'[g] = segment[g]
    BY <1>1, <1>2, <1>4
<1>6. ReadTyped'
  <2>1. segment' \in [Files -> [Segments -> Seq(Line)]]
    BY <1>1, <1>2, <1>4
  <2>2. order' \in [Files -> Seq(Line)]
    BY <1>1, <1>2, <1>4
  <2> QED BY <1>0, <1>t, <2>1, <2>2 DEF ReadTyped
<1>7. FileOK(f)' /\ Base(f)' = Base(f)
    BY <1>0, <1>t, <1>1, <1>5, AppendFile
<1>8. \A g \in Files : FileOK(g)' /\ Base(g)' = Base(g)
  <2>1. ASSUME NEW g \in Files, g # f PROVE FileOK(g)' /\ Base(g)' = Base(g)
    <3>1. order'[g] = order[g] /\ segment'[g] = segment[g] /\ FileOK(g)
      BY <1>t, <1>5, <2>1
    <3>2. FileOK(g)'
      BY <1>0, <3>1 DEF FileOK
    <3> QED BY <3>1, <3>2 DEF Base
  <2> QED BY <1>7, <2>1
<1>9. TailOK'
  <2>1. CASE tail.pc = "off"
    <3>1. tail.sent = <<>> /\ tail.upto = 0
      BY <1>t, <2>1 DEF TailOK, KeepsUp
    <3> QED BY <1>0, <2>1, <3>1 DEF TailOK, KeepsUp
  <2>2. CASE tail.pc # "off"
    <3>1. tail.file \in Files /\ KeepsUp(tail, order[tail.file], Base(tail.file)) /\ tail \in TailRow
      BY <1>t, <2>2 DEF TailOK, ReadTyped
    <3>2. Base(tail.file) \in Int
      BY <1>t, <3>1, ReadTypes DEF Base
    <3>3. KeepsUp(tail, order'[tail.file], Base(tail.file))
      <4>1. order[tail.file] \in Seq(Line)
        BY <1>4, <3>1
      <4>2. KeepsUp(tail, Append(order[tail.file], x), Base(tail.file))
        BY <1>1, <3>1, <3>2, <4>1, FollowsOn
      <4> QED BY <1>5, <3>1, <4>2
    <3>4. Base(tail.file)' = Base(tail.file)
      BY <1>0, <1>8, <3>1
    <3> QED BY <1>0, <3>1, <3>3, <3>4 DEF TailOK
  <2> QED BY <2>1, <2>2
<1>10. /\ \A g \in Files : \A l : HasLine(order[g], l) => HasLine(order'[g], l)
       /\ Swapped => Swapped'
       /\ \A l : Unmistakable(l)' => Unmistakable(l)
    BY <1>t, <1>1, <1>2, AppendPromises
<1>11. ~HasLine(order[f], x)
  <2>1. 1 \in 1 .. Len(job[w].files) /\ job[w].files[1] = f
    BY <1>1
  <2>2. \A a \in 1 .. Len(order[f]) : order[f][a].n # x.n
    BY <1>0, <1>x, <1>t, <2>1 DEF WriterOK
  <2> QED BY <2>2 DEF HasLine
<1>12. \A g \in Files, i \in Segments : /\ Range(segment[g][i]) \subseteq Range(segment'[g][i])
                                        /\ Range(segment'[g][i]) \subseteq Range(segment[g][i]) \cup {x}
                                        /\ g # f => segment'[g][i] = segment[g][i]
  <2>1. segment'[f][0] = Append(segment[f][0], x) /\ \A i \in Segments : i # 0 => segment'[f][i] = segment[f][i]
    BY <1>1, <1>4, <1>5
  <2>2. Range(segment'[f][0]) = Range(segment[f][0]) \cup {x}
    <3>1. \A s \in Seq(Line) : Range(Append(s, x)) = Range(s) \cup {x}
      <4> SUFFICES ASSUME NEW s \in Seq(Line) PROVE Range(Append(s, x)) = Range(s) \cup {x}
        OBVIOUS
      <4>1. /\ Append(s, x) \in Seq(Line) /\ Len(Append(s, x)) = Len(s) + 1
            /\ \A a \in 1 .. Len(s) : Append(s, x)[a] = s[a]
            /\ Append(s, x)[Len(s) + 1] = x /\ Len(s) \in Nat
        BY <1>1
      <4>2. \A l : HasLine(Append(s, x), l) <=> HasLine(s, l) \/ l = x
        BY <4>1 DEF HasLine
      <4> QED BY <4>1, <4>2, Places
    <3> QED BY <1>1, <1>4, <2>1, <3>1
  <2> QED BY <1>4, <1>5, <2>1, <2>2
<1>13. WalkOK'
  <2>1. \A y \in walk.found \cup walk.had : y[1] \in Files
    BY <1>t, ReadTypes
  <2>2. walk.had \cap Present' \subseteq Present
    <3> SUFFICES ASSUME NEW y \in walk.had, y \in Present' PROVE y \in Present
      OBVIOUS
    <3>1. PICK g \in Files, i \in Segments : \E l \in Range(segment'[g][i]) : y = <<g, l>>
      BY DEF Present
    <3>2. PICK l \in Range(segment'[g][i]) : y = <<g, l>>
      BY <3>1
    <3>3. HasLine(order[g], l)
      BY <1>t, <3>2 DEF WalkOK
    <3>4. l \in Range(segment[g][i])
      BY <1>11, <1>12, <3>2, <3>3
    <3> QED BY <3>2, <3>4, PresentLines
  <2>3. walk.pc = "read" => walk.file \in Files /\ walk.names \subseteq Segments
    BY <1>t, ReadTypes DEF WalkOK
  <2>4. walk.pc = "read" => \A i \in walk.names :
              Range(segment[walk.file][i]) \subseteq Range(segment'[walk.file][i])
    BY <1>12, <2>3
  <2> QED BY <1>0, <1>t, <1>10, <2>1, <2>2, <2>4, WalkGoesOn
<1>14. job' \in [Workers -> WriterRow] /\ \A v \in Workers : WriterOK(v)'
  <2>1. /\ row.pc # "idle" => /\ row.files = Tail(job[w].files) /\ row.line = x /\ row.files # <<>>
                              /\ Len(row.files) = Len(job[w].files) - 1
                              /\ \A i \in 1 .. Len(row.files) : row.files[i] = job[w].files[i + 1]
        /\ row \in WriterRow
    <3>1. /\ Tail(job[w].files) \in Seq(Files) /\ Len(Tail(job[w].files)) = Len(job[w].files) - 1
          /\ \A i \in 1 .. Len(Tail(job[w].files)) : Tail(job[w].files)[i] = job[w].files[i + 1]
      BY <1>1, HeadTailProperties
    <3>2. Len(job[w].files) # 1 => Tail(job[w].files) # <<>>
      <4> SUFFICES ASSUME Tail(job[w].files) = <<>> PROVE Len(job[w].files) = 1
        OBVIOUS
      <4>1. Len(Tail(job[w].files)) = 0
        BY EmptySeq
      <4> QED BY <1>1, <3>1, <4>1
    <3>3. CASE Len(job[w].files) = 1
      <4>1. row = [pc |-> "idle"]
        BY <1>3, <3>3
      <4> QED BY <4>1 DEF WriterRow
    <3>4. CASE Len(job[w].files) # 1
      <4>1. row = [pc |-> "open", files |-> Tail(job[w].files), line |-> x]
        BY <1>3, <3>4
      <4>2. row \in WriterRow
        BY <1>1, <3>1, <4>1 DEF WriterRow
      <4> QED BY <3>1, <3>2, <3>4, <4>1, <4>2
    <3> QED BY <3>3, <3>4
  <2>2. job'[w] = row /\ \A v \in Workers \ {w} : job'[v] = job[v]
    BY <1>1, <1>3
  <2>3. \A l \in Line : l.n # x.n => \A g \in Files :
           (\A a \in 1 .. Len(order[g]) : order[g][a].n # l.n) =>
              \A a \in 1 .. Len(order'[g]) : order'[g][a].n # l.n
    <3>1. /\ Len(order'[f]) = Len(order[f]) + 1 /\ order'[f][Len(order[f]) + 1] = x
          /\ \A a \in 1 .. Len(order[f]) : order'[f][a] = order[f][a]
          /\ Len(order[f]) \in Nat
      BY <1>1, <1>4, <1>5
    <3>2. \A a \in 1 .. Len(order'[f]) : a = Len(order[f]) + 1 \/ a \in 1 .. Len(order[f])
      BY <3>1
    <3>3. ASSUME NEW l \in Line, l.n # x.n, \A a \in 1 .. Len(order[f]) : order[f][a].n # l.n
          PROVE  \A a \in 1 .. Len(order'[f]) : order'[f][a].n # l.n
      <4> SUFFICES ASSUME NEW a \in 1 .. Len(order'[f]) PROVE order'[f][a].n # l.n
        OBVIOUS
      <4>1. CASE a = Len(order[f]) + 1
        BY <3>1, <3>3, <4>1
      <4>2. CASE a \in 1 .. Len(order[f])
        BY <3>1, <3>3, <4>2
      <4> QED BY <3>2, <4>1, <4>2
    <3> QED BY <1>5, <3>3
  <2>4. ASSUME NEW v \in Workers \ {w} PROVE WriterOK(v)'
    <3> SUFFICES ASSUME job[v].pc # "idle" PROVE WriterOK(v)'
      BY <2>2 DEF WriterOK
    <3>1. /\ job[v].line \in Line /\ job[v].files \in Seq(Files)
          /\ \A i \in 1 .. Len(job[v].files) : job[v].files[i] \in Files
      BY <1>0, WriterTypes
    <3>2. WriterOK(v) /\ job[v].line.n # x.n
      BY <1>0, <1>x, <1>t DEF WriterOK
    <3>3. \A i \in 1 .. Len(job[v].files) : \A a \in 1 .. Len(order'[job[v].files[i]]) :
             order'[job[v].files[i]][a].n # job[v].line.n
      BY <2>3, <3>1, <3>2 DEF WriterOK
    <3>4. \A u \in Workers \ {v} : job'[u].pc # "idle" => job'[u].line.n # job[v].line.n
      BY <1>0, <1>x, <2>1, <2>2, <3>2 DEF WriterOK
    <3>5. /\ job[v].files # <<>> /\ job[v].line.n <= lines' /\ job[v].line.ts <= clock'
          /\ \A i, j \in 1 .. Len(job[v].files) : job[v].files[i] = job[v].files[j] => i = j
      BY <1>0, <3>2 DEF WriterOK
    <3>6. job'[v] = job[v]
      BY <2>2
    <3> QED BY <3>3, <3>4, <3>5, <3>6 DEF WriterOK
  <2>5. WriterOK(w)'
    <3> SUFFICES ASSUME row.pc # "idle" PROVE WriterOK(w)'
      BY <2>2 DEF WriterOK
    <3>1. WriterOK(w)
      BY <1>t
    <3>2. \A i \in 1 .. Len(row.files) : i + 1 \in 1 .. Len(job[w].files) /\ i + 1 # 1
      BY <1>1, <2>1
    <3>3. \A i, j \in 1 .. Len(job[w].files) : job[w].files[i] = job[w].files[j] => i = j
      BY <1>0, <3>1 DEF WriterOK
    <3>4. \A i, j \in 1 .. Len(row.files) : row.files[i] = row.files[j] => i = j
      <4> SUFFICES ASSUME NEW i \in 1 .. Len(row.files), NEW j \in 1 .. Len(row.files),
                          row.files[i] = row.files[j]
                   PROVE  i = j
        OBVIOUS
      <4>1. job[w].files[i + 1] = job[w].files[j + 1]
        BY <2>1
      <4>2. i + 1 = j + 1
        BY <3>2, <3>3, <4>1
      <4> QED BY <4>2
    <3>5. \A i \in 1 .. Len(row.files) : row.files[i] \in Files /\ row.files[i] # f
      <4> SUFFICES ASSUME NEW i \in 1 .. Len(row.files) PROVE row.files[i] \in Files /\ row.files[i] # f
        OBVIOUS
      <4>1. row.files[i] = job[w].files[i + 1]
        BY <2>1
      <4>2. i + 1 \in 1 .. Len(job[w].files) /\ 1 \in 1 .. Len(job[w].files) /\ i + 1 # 1
        BY <1>1, <3>2
      <4>3. job[w].files[i + 1] # job[w].files[1]
        BY <3>3, <4>2
      <4>4. job[w].files[i + 1] \in Files
        BY <1>1, <4>2
      <4> QED BY <1>1, <4>1, <4>3, <4>4
    <3>6. \A i \in 1 .. Len(row.files) :
             \A a \in 1 .. Len(order[row.files[i]]) : order[row.files[i]][a].n # x.n
      <4>1. \A i \in 1 .. Len(job[w].files) :
               \A a \in 1 .. Len(order[job[w].files[i]]) : order[job[w].files[i]][a].n # x.n
        BY <1>0, <1>x, <3>1 DEF WriterOK
      <4> SUFFICES ASSUME NEW i \in 1 .. Len(row.files)
                   PROVE  \A a \in 1 .. Len(order[row.files[i]]) : order[row.files[i]][a].n # x.n
        OBVIOUS
      <4>2. row.files[i] = job[w].files[i + 1] /\ i + 1 \in 1 .. Len(job[w].files)
        BY <2>1, <3>2
      <4> QED BY <4>1, <4>2
    <3>7. \A i \in 1 .. Len(row.files) :
             \A a \in 1 .. Len(order'[row.files[i]]) : order'[row.files[i]][a].n # x.n
      BY <1>5, <3>5, <3>6
    <3>8. \A v \in Workers \ {w} : job'[v].pc # "idle" => job'[v].line.n # x.n
      BY <1>0, <1>x, <2>2, <3>1 DEF WriterOK
    <3> QED BY <1>0, <1>x, <1>1, <2>1, <2>2, <3>4, <3>7, <3>8 DEF WriterOK
  <2> QED BY <1>1, <1>3, <2>1, <2>4, <2>5
<1> QED BY <1>6, <1>8, <1>9, <1>13, <1>14 DEF ReadInv

\* The segments after a step of the rolling of a file.
RolledBy(s, i) ==
    IF i = Rolled THEN [s EXCEPT ![i] = <<>>]
    ELSE IF s[i] = <<>> THEN s ELSE [s EXCEPT ![i + 1] = s[i], ![i] = <<>>]

\* What a segment holds then, it or a newer one held before, in the same order.
LEMMA RollMoves ==
    ASSUME NEW s \in [Segments -> Seq(Line)], NEW i \in Segments
    PROVE  /\ RolledBy(s, i) \in [Segments -> Seq(Line)]
           /\ RolledBy(s, i)[0] \in {s[0], <<>>}
           /\ \E h \in [Segments -> Segments] :
                 /\ \A j \in Segments : RolledBy(s, i)[j] = <<>> \/ RolledBy(s, i)[j] = s[h[j]]
                 /\ \A j, k \in Segments : j > k /\ RolledBy(s, i)[j] # <<>> /\ RolledBy(s, i)[k] # <<>>
                       => h[j] > h[k]
<1>1. Rolled \in Nat \ {0} /\ 0 \in Segments /\ Segments \subseteq Nat /\ i \in Nat
    BY ReadingAssumption DEF Segments
<1>2. <<>> \in Seq(Line)
    OBVIOUS
<1>3. CASE i = Rolled
  <2>1. PICK r : r = [s EXCEPT ![i] = <<>>]
    OBVIOUS
  <2>2. /\ r \in [Segments -> Seq(Line)] /\ r[i] = <<>> /\ \A j \in Segments : j # i => r[j] = s[j]
    BY <1>2, <2>1
  <2>3. r = RolledBy(s, i)
    BY <1>3, <2>1 DEF RolledBy
  <2> DEFINE h == [j \in Segments |-> j]
  <2>4. /\ h \in [Segments -> Segments] /\ \A j \in Segments : r[j] = <<>> \/ r[j] = s[h[j]]
        /\ \A j, k \in Segments : j > k => h[j] > h[k]
    BY <2>2
  <2> HIDE DEF h
  <2> QED BY <1>1, <1>3, <2>2, <2>3, <2>4
<1>4. CASE i # Rolled /\ s[i] = <<>>
  <2>1. RolledBy(s, i) = s
    BY <1>4 DEF RolledBy
  <2> DEFINE h == [j \in Segments |-> j]
  <2>2. /\ h \in [Segments -> Segments] /\ \A j \in Segments : h[j] = j
    OBVIOUS
  <2> HIDE DEF h
  <2> QED BY <2>1, <2>2
<1>5. CASE i # Rolled /\ s[i] # <<>>
  <2>1. PICK m \in Segments : m = i + 1
    BY <1>1, <1>5 DEF Segments
  <2>2. PICK r : r = [s EXCEPT ![m] = s[i], ![i] = <<>>]
    OBVIOUS
  <2>3. m # i /\ m # 0 /\ m > i
    BY <1>1, <2>1
  <2>4. /\ r \in [Segments -> Seq(Line)] /\ r[i] = <<>> /\ r[m] = s[i]
        /\ \A j \in Segments : j # i /\ j # m => r[j] = s[j]
    BY <1>2, <2>2, <2>3
  <2>5. r = RolledBy(s, i)
    BY <1>5, <2>1, <2>2 DEF RolledBy
  <2> DEFINE h == [j \in Segments |-> IF j = m THEN i ELSE j]
  <2>6. /\ h \in [Segments -> Segments] /\ h[m] = i /\ \A j \in Segments : j # m => h[j] = j
    OBVIOUS
  <2> HIDE DEF h
  <2>7. \A j \in Segments : r[j] = <<>> \/ r[j] = s[h[j]]
    BY <2>4, <2>6
  <2>8. \A j, k \in Segments : j > k /\ r[j] # <<>> /\ r[k] # <<>> => h[j] > h[k]
    <3> SUFFICES ASSUME NEW j \in Segments, NEW k \in Segments, j > k, r[j] # <<>>, r[k] # <<>>
                 PROVE  h[j] > h[k]
      OBVIOUS
    <3>1. j # i /\ k # i /\ j \in Nat /\ k \in Nat
      BY <1>1, <2>4
    <3>2. CASE j = m
      <4>1. k # m /\ k < i
        BY <1>1, <2>1, <3>1, <3>2
      <4> QED BY <1>1, <2>6, <3>1, <3>2, <4>1
    <3>3. CASE j # m /\ k = m
      BY <1>1, <2>3, <2>6, <3>1, <3>3
    <3>4. CASE j # m /\ k # m
      BY <2>6, <3>4
    <3> QED BY <3>2, <3>3, <3>4
  <2>9. r[0] \in {s[0], <<>>}
    BY <1>1, <2>3, <2>4
  <2> QED BY <2>4, <2>5, <2>6, <2>7, <2>8, <2>9
<1> QED BY <1>3, <1>4, <1>5

LEMMA RollFile ==
    ASSUME ReadTyped, NEW f \in Files, NEW i \in Segments, FileOK(f),
           order'[f] = order[f], lines' = lines, clock' = clock,
           segment'[f] = RolledBy(segment[f], i)
    PROVE  /\ FileOK(f)' /\ segment'[f] \in [Segments -> Seq(Line)]
           /\ Base(f)' = Base(f) \/ Base(f)' = Len(order[f])
           /\ \A j \in Segments : \A l \in Range(segment'[f][j]) :
                 \E k \in Segments : l \in Range(segment[f][k])
<1> DEFINE o == order[f]
           s == segment[f]
<1>u. /\ o \in Seq(Line) /\ Len(o) \in Nat /\ 0 \in Segments /\ Segments \subseteq Nat
      /\ s \in [Segments -> Seq(Line)] /\ \A j \in Segments : s[j] \in Seq(Line) /\ Len(s[j]) \in Nat
    BY ReadTypes DEF ReadTyped
<1>5. /\ \A a \in 1 .. Len(o) : o[a].n <= lines /\ o[a].ts <= clock
      /\ Len(s[0]) <= Len(o)
      /\ \A k \in 1 .. Len(s[0]) : s[0][k] = o[Len(o) - Len(s[0]) + k]
      /\ \A j \in Segments : \A k \in 1 .. Len(s[j]) : HasLine(o, s[j][k])
      /\ \A p, q \in Segments : \A k \in 1 .. Len(s[p]), m \in 1 .. Len(s[q]) :
            p > q \/ (p = q /\ k < m) => InTurn(o, s[p][k], s[q][m])
    BY DEF FileOK
<1>1. PICK r : r = RolledBy(s, i)
    OBVIOUS
<1>6. segment'[f] = r /\ order'[f] = o
    BY <1>1
<1> HIDE DEF o, s
<1>2. /\ r \in [Segments -> Seq(Line)] /\ r[0] \in {s[0], <<>>}
      /\ \E h \in [Segments -> Segments] :
            /\ \A j \in Segments : r[j] = <<>> \/ r[j] = s[h[j]]
            /\ \A j, k \in Segments : j > k /\ r[j] # <<>> /\ r[k] # <<>> => h[j] > h[k]
  <2>1. s \in [Segments -> Seq(Line)]
    BY <1>u
  <2>2. /\ RolledBy(s, i) \in [Segments -> Seq(Line)] /\ RolledBy(s, i)[0] \in {s[0], <<>>}
        /\ \E h \in [Segments -> Segments] :
              /\ \A j \in Segments : RolledBy(s, i)[j] = <<>> \/ RolledBy(s, i)[j] = s[h[j]]
              /\ \A j, k \in Segments : j > k /\ RolledBy(s, i)[j] # <<>> /\ RolledBy(s, i)[k] # <<>>
                    => h[j] > h[k]
    BY <2>1, RollMoves
  <2> QED BY <1>1, <2>2
<1>3. PICK h \in [Segments -> Segments] :
            /\ \A j \in Segments : r[j] = <<>> \/ r[j] = s[h[j]]
            /\ \A j, k \in Segments : j > k /\ r[j] # <<>> /\ r[k] # <<>> => h[j] > h[k]
    BY <1>2
<1>4. Len(<<>>) = 0
    BY EmptySeq
<1>7. Len(r[0]) <= Len(o) /\ \A k \in 1 .. Len(r[0]) : r[0][k] = o[Len(o) - Len(r[0]) + k]
    BY <1>u, <1>2, <1>4, <1>5
<1>8. \A j \in Segments : \A k \in 1 .. Len(r[j]) :
         r[j] # <<>> /\ h[j] \in Segments /\ k \in 1 .. Len(s[h[j]]) /\ r[j][k] = s[h[j]][k]
    BY <1>3, <1>4
<1>9. \A j \in Segments : \A k \in 1 .. Len(r[j]) : HasLine(o, r[j][k])
    BY <1>5, <1>8
<1>10. \A p, q \in Segments : \A k \in 1 .. Len(r[p]), m \in 1 .. Len(r[q]) :
            p > q \/ (p = q /\ k < m) => InTurn(o, r[p][k], r[q][m])
  <2> SUFFICES ASSUME NEW p \in Segments, NEW q \in Segments, NEW k \in 1 .. Len(r[p]),
                      NEW m \in 1 .. Len(r[q]), p > q \/ (p = q /\ k < m)
               PROVE  InTurn(o, r[p][k], r[q][m])
    OBVIOUS
  <2>1. /\ r[p] # <<>> /\ h[p] \in Segments /\ k \in 1 .. Len(s[h[p]]) /\ r[p][k] = s[h[p]][k]
        /\ r[q] # <<>> /\ h[q] \in Segments /\ m \in 1 .. Len(s[h[q]]) /\ r[q][m] = s[h[q]][m]
    BY <1>8
  <2>2. h[p] > h[q] \/ (h[p] = h[q] /\ k < m)
    BY <1>3, <2>1
  <2> QED BY <1>5, <2>1, <2>2
<1>11. FileOK(f)'
    BY <1>5, <1>6, <1>7, <1>9, <1>10 DEF FileOK
<1>12. Base(f)' = Base(f) \/ Base(f)' = Len(order[f])
  <2>1. Base(f)' = Len(o) - Len(r[0])
    BY <1>6 DEF Base
  <2>2. Base(f) = Len(o) - Len(s[0])
    BY DEF Base, o, s
  <2>3. Len(r[0]) = Len(s[0]) \/ Len(r[0]) = 0
    BY <1>2, <1>4
  <2>4. Len(o) = Len(order[f])
    BY DEF o
  <2>5. Len(o) \in Nat /\ Len(o) - 0 = Len(o)
    BY <1>u
  <2>6. CASE Len(r[0]) = Len(s[0])
    BY <2>1, <2>2, <2>6
  <2>7. CASE Len(r[0]) = 0
    BY <2>1, <2>4, <2>5, <2>7
  <2> QED BY <2>3, <2>6, <2>7
<1>13. \A j \in Segments : \A l \in Range(r[j]) : \E k \in Segments : l \in Range(s[k])
  <2> SUFFICES ASSUME NEW j \in Segments, NEW l \in Range(r[j]) PROVE \E k \in Segments : l \in Range(s[k])
    OBVIOUS
  <2>1. r[j] \in Seq(Line)
    BY <1>2
  <2>2. PICK k \in 1 .. Len(r[j]) : r[j][k] = l
    BY <2>1, RangeEquality
  <2>3. h[j] \in Segments /\ r[j] = s[h[j]]
    BY <1>3, <1>8, <2>2
  <2> QED BY <2>3
<1> QED BY <1>2, <1>6, <1>11, <1>12, <1>13 DEF s

LEMMA RollKeeps ==
    ASSUME ReadInv, NEW w \in Workers, RollSegment(w)
    PROVE  ReadInv'
<1>f. PICK f : f = FileOf(w)
    OBVIOUS
<1>i. PICK i : i = job[w].at
    OBVIOUS
<1>0. Writing /\ UNCHANGED <<scene, lines, clock, order>> /\ job[w].pc = "roll"
    BY DEF RollSegment, Reading, Writing, IsAt
<1>t. ReadTyped /\ TailOK /\ WalkOK /\ (\A g \in Files : FileOK(g)) /\ (\A v \in Workers : WriterOK(v))
    BY <1>0 DEF ReadInv, Writing
<1>1. /\ job[w].files \in Seq(Files) /\ job[w].files # <<>> /\ Len(job[w].files) \in Nat \ {0}
      /\ job[w].line \in Line /\ f \in Files /\ i \in Segments /\ job[w] \in WriterRow
    BY <1>0, <1>f, <1>i, WriterTypes
<1>2. segment' = [segment EXCEPT ![f] = RolledBy(@, i)]
    BY <1>f, <1>i DEF RollSegment, RolledBy
<1>3. /\ segment \in [Files -> [Segments -> Seq(Line)]] /\ order \in [Files -> Seq(Line)]
      /\ tail \in TailRow /\ walk \in WalkRow
    BY <1>t DEF ReadTyped
<1>4. segment'[f] = RolledBy(segment[f], i) /\ \A g \in Files : g # f => segment'[g] = segment[g]
    BY <1>1, <1>2, <1>3
<1>r. /\ ReadTyped /\ FileOK(f) /\ f \in Files /\ i \in Segments
      /\ order'[f] = order[f] /\ lines' = lines /\ clock' = clock
      /\ segment'[f] = RolledBy(segment[f], i)
    BY <1>0, <1>t, <1>1, <1>4
<1>5. /\ FileOK(f)' /\ segment'[f] \in [Segments -> Seq(Line)]
      /\ Base(f)' = Base(f) \/ Base(f)' = Len(order[f])
      /\ \A j \in Segments : \A l \in Range(segment'[f][j]) : \E k \in Segments : l \in Range(segment[f][k])
    BY <1>r, RollFile
<1>6. \A g \in Files : FileOK(g)' /\ (Base(g)' = Base(g) \/ (g = f /\ Base(g)' = Len(order[g])))
  <2>1. ASSUME NEW g \in Files, g # f PROVE FileOK(g)' /\ Base(g)' = Base(g)
    <3>1. order'[g] = order[g] /\ segment'[g] = segment[g] /\ FileOK(g)
      BY <1>0, <1>t, <1>4, <2>1
    <3>2. FileOK(g)'
      BY <1>0, <3>1 DEF FileOK
    <3> QED BY <3>1, <3>2 DEF Base
  <2> QED BY <1>5, <2>1
<1>8. /\ tail' \in TailRow /\ tail'.pc = tail.pc /\ tail'.file = tail.file /\ tail'.known = tail.known
      /\ tail'.sent = tail.sent /\ tail'.upto = tail.upto
      /\ tail'.rolled <=> tail.rolled \/ tail.file = f
  <2>1. tail' = [tail EXCEPT !.rolled = @ \/ tail.file = f]
    BY <1>f DEF RollSegment
  <2>2. PICK b \in BOOLEAN : b <=> tail.rolled \/ tail.file = f
    OBVIOUS
  <2>3. tail.rolled \in BOOLEAN
    BY <1>3 DEF TailRow
  <2>4. (tail.rolled \/ tail.file = f) = b
    BY <2>2, <2>3
  <2>5. tail' = [tail EXCEPT !.rolled = b]
    BY <2>1, <2>4
  <2> QED BY <1>3, <2>2, <2>5 DEF TailRow
<1>9. /\ walk' \in WalkRow /\ walk'.pc = walk.pc /\ walk'.todo = walk.todo /\ walk'.file = walk.file
      /\ walk'.names = walk.names /\ walk'.since = walk.since /\ walk'.before = walk.before
      /\ walk'.found = walk.found /\ walk'.seen = walk.seen /\ walk'.had = walk.had
      /\ walk'.twice = walk.twice
      /\ walk'.excused <=> walk.excused \/ walk.pc \in {"list", "read"}
  <2>1. walk' = [walk EXCEPT !.excused = @ \/ walk.pc \in {"list", "read"}]
    BY DEF RollSegment
  <2>2. PICK b \in BOOLEAN : b <=> walk.excused \/ walk.pc \in {"list", "read"}
    OBVIOUS
  <2>3. walk.excused \in BOOLEAN
    BY <1>3 DEF WalkRow
  <2>4. (walk.excused \/ walk.pc \in {"list", "read"}) = b
    BY <2>2, <2>3
  <2>5. walk' = [walk EXCEPT !.excused = b]
    BY <2>1, <2>4
  <2> QED BY <1>3, <2>2, <2>5 DEF WalkRow
<1>10. ReadTyped'
  <2>1. segment' \in [Files -> [Segments -> Seq(Line)]]
    BY <1>1, <1>2, <1>3, <1>4, <1>5
  <2> QED BY <1>0, <1>t, <1>8, <1>9, <2>1 DEF ReadTyped
<1>11. TailOK'
  <2>1. CASE tail.pc = "polling"
    <3>1. tail.file \in Files /\ KeepsUp(tail, order[tail.file], Base(tail.file))
      BY <1>t, <2>1 DEF TailOK
    <3>2. Base(tail.file)' = Base(tail.file) \/ (tail.file = f /\ Base(tail.file)' = Len(order[tail.file]))
      BY <1>6, <1>8, <3>1
    <3>3. tail.upto <= Len(order[tail.file]) /\ tail.upto \in Nat /\ Len(order[tail.file]) \in Nat
      BY <1>t, <2>1, <3>1, ReadTypes DEF KeepsUp
    <3>4. KeepsUp(tail', order[tail.file], Base(tail.file)')
      BY <1>8, <2>1, <3>1, <3>2, <3>3 DEF KeepsUp
    <3> QED BY <1>0, <1>8, <3>1, <3>4 DEF TailOK
  <2>2. CASE tail.pc # "polling"
    BY <1>t, <1>8, <2>2 DEF TailOK, KeepsUp
  <2> QED BY <2>1, <2>2
<1>12. WalkOK'
  <2>1. \A x : Swapped' = Swapped /\ Unmistakable(x)' = Unmistakable(x)
    BY <1>0 DEF Swapped, Unmistakable
  <2>2. Present' \subseteq Present
    <3> SUFFICES ASSUME NEW y \in Present' PROVE y \in Present
      OBVIOUS
    <3>1. PICK g \in Files, j \in Segments : \E l \in Range(segment'[g][j]) : y = <<g, l>>
      BY DEF Present
    <3>2. PICK l \in Range(segment'[g][j]) : y = <<g, l>>
      BY <3>1
    <3>3. PICK k \in Segments : l \in Range(segment[g][k])
      BY <1>4, <1>5, <3>2
    <3> QED BY <3>2, <3>3, PresentLines
  <2>3. \A x : WasSeen(x)' <=> WasSeen(x)
    BY <1>9 DEF WasSeen
  <2>4. walk.pc \notin {"list", "read"} => \A x : Awaited(x) => Awaited(x)'
    BY <1>9 DEF Awaited
  <2>5. ASSUME ~walk'.excused, walk'.since > 0 => ~Swapped', NEW x \in walk'.had \cap Present',
               x[2].ts >= walk'.since, Unmistakable(x[2])'
        PROVE  WasSeen(x)' \/ Awaited(x)'
    <3>1. ~walk.excused /\ walk.pc \notin {"list", "read"} /\ (walk.since > 0 => ~Swapped)
          /\ x \in walk.had \cap Present /\ x[2].ts >= walk.since /\ Unmistakable(x[2])
      BY <1>9, <2>1, <2>2, <2>5
    <3>2. WasSeen(x) \/ Awaited(x)
      BY <1>t, <3>1 DEF WalkOK
    <3> QED BY <2>3, <2>4, <3>1, <3>2
  <2>6. /\ walk'.pc = "off" => walk'.had = {}
        /\ walk'.pc = "list" => walk'.todo # <<>>
        /\ walk'.pc = "read" => walk'.file \in Files
        /\ ~walk'.twice /\ IsFiniteSet(walk'.found)
        /\ \A x \in walk'.found : x[2].ts < walk'.before
        /\ \A x \in walk'.seen : walk'.before <= x[2].ts
        /\ \A x \in walk'.found \cup walk'.had : HasLine(order'[x[1]], x[2])
    BY <1>0, <1>t, <1>9 DEF WalkOK
  <2> QED BY <2>5, <2>6 DEF WalkOK
<1>13. PICK row : /\ job' = [job EXCEPT ![w] = row]
                  /\ \/ row = [pc |-> "append", files |-> job[w].files, line |-> job[w].line]
                     \/ i # 0 /\ row = [job[w] EXCEPT !.at = i - 1]
    BY <1>i DEF RollSegment, Go
<1>14. /\ row \in WriterRow /\ row.line = job[w].line /\ row.files = job[w].files
  <2>1. CASE row = [pc |-> "append", files |-> job[w].files, line |-> job[w].line]
    BY <1>1, <2>1 DEF WriterRow
  <2>2. CASE i # 0 /\ row = [job[w] EXCEPT !.at = i - 1]
    <3>1. PICK j \in Segments : j = i - 1
      BY <1>1, <2>2, ReadingAssumption DEF Segments
    <3>2. job[w] \in [pc : {"roll"}, at : Segments, files : Seq(Files), line : Line]
      BY <1>0, <1>1 DEF WriterRow
    <3>3. row = [job[w] EXCEPT !.at = j]
      BY <2>2, <3>1
    <3>4. /\ row \in [pc : {"roll"}, at : Segments, files : Seq(Files), line : Line]
          /\ row.line = job[w].line /\ row.files = job[w].files
      BY <3>2, <3>3
    <3> QED BY <3>4 DEF WriterRow
  <2> QED BY <1>13, <2>1, <2>2
<1>15. /\ Len(row.files) = Len(job[w].files) - 0
       /\ \A k \in 1 .. Len(row.files) : row.files[k] = job[w].files[k + 0]
    BY <1>1, <1>14
<1>16. job' \in [Workers -> WriterRow] /\ \A v \in Workers : WriterOK(v)'
    BY <1>0, <1>1, <1>13, <1>14, <1>15, WritersGoOn
<1> QED BY <1>6, <1>10, <1>11, <1>12, <1>16 DEF ReadInv

\* The last lines of a sequence, after the first c.
LEMMA FromFacts ==
    ASSUME NEW s \in Seq(Line), NEW c \in 0 .. Len(s)
    PROVE  /\ From(s, c + 1) \in Seq(Line) /\ Len(From(s, c + 1)) = Len(s) - c
           /\ \A i \in 1 .. Len(s) - c : From(s, c + 1)[i] = s[c + i]
<1>1. Len(s) \in Nat /\ c \in Nat /\ c <= Len(s)
    OBVIOUS
<1>2. PICK m \in Nat : m = c + 1
    BY <1>1
<1>3. \A i \in m .. Len(s) : s[i] \in Line
    BY <1>1, <1>2
<1>4. /\ SubSeq(s, m, Len(s)) \in Seq(Line)
      /\ Len(SubSeq(s, m, Len(s))) = IF m <= Len(s) THEN Len(s) - m + 1 ELSE 0
      /\ \A i \in 1 .. Len(s) - m + 1 : SubSeq(s, m, Len(s))[i] = s[m + i - 1]
    BY <1>1, <1>2, <1>3, SubSeqProperties
<1>5. /\ Len(s) - m + 1 = Len(s) - c /\ (IF m <= Len(s) THEN Len(s) - m + 1 ELSE 0) = Len(s) - c
      /\ \A i \in Nat : m + i - 1 = c + i
    BY <1>1, <1>2
<1>6. PICK r : r = SubSeq(s, m, Len(s))
    OBVIOUS
<1>7. From(s, c + 1) = r
    BY <1>2, <1>6 DEF From
<1>8. r \in Seq(Line) /\ Len(r) = Len(s) - c
    BY <1>4, <1>5, <1>6
<1>9. \A i \in 1 .. Len(s) - c : r[i] = s[m + i - 1] /\ m + i - 1 = c + i
    BY <1>4, <1>5, <1>6
<1> QED BY <1>7, <1>8, <1>9

\* A poll sends all that comes after some line of the newest segment, which is
\* the last that was read unless the tail begins or the file is shorter.
LEMMA NewLinesFrom ==
    ASSUME NEW text \in Seq(Line), tail.known \in Nat
    PROVE  \E c \in 0 .. Len(text) :
              /\ NewLines(text) = From(text, c + 1)
              /\ tail.pc # "open" => c = IF Len(text) < tail.known THEN 0 ELSE tail.known
<1>1. Len(text) \in Nat /\ Backfill \in Nat
    BY ReadingAssumption
<1>2. CASE tail.pc = "open" /\ Len(text) > Backfill
  <2>1. PICK c \in 0 .. Len(text) : c = Len(text) - Backfill
    BY <1>1, <1>2
  <2>2. Len(text) - Backfill + 1 = c + 1
    BY <2>1
  <2> QED BY <1>2, <2>2 DEF NewLines
<1>3. CASE tail.pc = "open" /\ ~(Len(text) > Backfill)
  <2>1. 0 \in 0 .. Len(text) /\ 0 + 1 = 1
    BY <1>1
  <2> QED BY <1>3, <2>1 DEF NewLines
<1>4. CASE tail.pc # "open" /\ Len(text) < tail.known
  <2>1. 0 \in 0 .. Len(text) /\ NewLines(text) = text
    BY <1>1, <1>4 DEF NewLines
  <2>2. /\ From(text, 0 + 1) \in Seq(Line) /\ Len(From(text, 0 + 1)) = Len(text) - 0
        /\ \A i \in 1 .. Len(text) - 0 : From(text, 0 + 1)[i] = text[0 + i]
    BY <2>1, FromFacts
  <2>3. Len(From(text, 0 + 1)) = Len(text) /\ \A i \in 1 .. Len(text) : From(text, 0 + 1)[i] = text[i]
    BY <1>1, <2>2
  <2>4. From(text, 0 + 1) = text
    BY <2>2, <2>3, SeqEqual
  <2> QED BY <1>4, <2>1, <2>4
<1>5. CASE tail.pc # "open" /\ ~(Len(text) < tail.known)
  <2>1. tail.known \in 0 .. Len(text)
    BY <1>1, <1>5
  <2> QED BY <1>5, <2>1 DEF NewLines
<1> QED BY <1>2, <1>3, <1>4, <1>5

\* What comes after c lines of a file is added to what was sent of them.
LEMMA SentOn ==
    ASSUME NEW o, NEW s, NEW new, NEW z, NEW c \in Nat, NEW u \in Nat, NEW m \in Nat, NEW k \in Nat,
           NEW n \in Nat, c + k = n, u <= c, m = Len(s), Len(z) = m + k,
           \A i \in 1 .. m : z[i] = s[i], \A i \in 1 .. k : z[m + i] = o[c + i], SentOf(s, o, u)
    PROVE  /\ SentOf(z, o, n)
           /\ EndsAt(s, o, c) => EndsAt(z, o, n)
<1>1. \A i \in m + 1 .. m + k : z[i] = o[c + (i - m)] /\ c + (i - m) \in c + 1 .. n
  <2> SUFFICES ASSUME NEW i \in m + 1 .. m + k
               PROVE  z[i] = o[c + (i - m)] /\ c + (i - m) \in c + 1 .. n
    OBVIOUS
  <2>1. PICK j \in 1 .. k : j = i - m
    OBVIOUS
  <2>2. z[m + j] = o[c + j] /\ m + j = i
    BY <2>1
  <2>3. c + j \in c + 1 .. n
    BY <2>1
  <2> QED BY <2>1, <2>2, <2>3
<1>2. \A i \in 1 .. m + k : i \in 1 .. m \/ i \in m + 1 .. m + k
    OBVIOUS
<1>3. \A i \in 1 .. m + k : \E a \in 1 .. n : o[a] = z[i]
  <2> SUFFICES ASSUME NEW i \in 1 .. m + k PROVE \E a \in 1 .. n : o[a] = z[i]
    OBVIOUS
  <2>1. CASE i \in 1 .. m
    <3>1. PICK a \in 1 .. u : o[a] = s[i]
      BY <2>1 DEF SentOf
    <3> QED BY <2>1, <3>1
  <2>2. CASE i \in m + 1 .. m + k
    <3>1. PICK a \in c + 1 .. n : z[i] = o[a]
      BY <1>1, <2>2
    <3> QED BY <3>1
  <2> QED BY <1>2, <2>1, <2>2
<1>4. \A i, j \in 1 .. m + k : i < j => \E a, b \in 1 .. n : a < b /\ o[a] = z[i] /\ o[b] = z[j]
  <2> SUFFICES ASSUME NEW i \in 1 .. m + k, NEW j \in 1 .. m + k, i < j
               PROVE  \E a, b \in 1 .. n : a < b /\ o[a] = z[i] /\ o[b] = z[j]
    OBVIOUS
  <2>1. CASE i \in 1 .. m /\ j \in 1 .. m
    <3>1. PICK a \in 1 .. u, b \in 1 .. u : a < b /\ o[a] = s[i] /\ o[b] = s[j]
      BY <2>1 DEF SentOf
    <3>2. z[i] = s[i] /\ z[j] = s[j]
      BY <2>1
    <3>3. a \in 1 .. n /\ b \in 1 .. n
      OBVIOUS
    <3> WITNESS a \in 1 .. n, b \in 1 .. n
    <3> QED BY <3>1, <3>2
  <2>2. CASE i \in 1 .. m /\ j \in m + 1 .. m + k
    <3>1. PICK a \in 1 .. u : o[a] = s[i]
      BY <2>2 DEF SentOf
    <3>2. PICK b \in c + 1 .. n : o[b] = z[j]
      BY <1>1, <2>2
    <3>3. a \in 1 .. n /\ b \in 1 .. n /\ a < b /\ z[i] = s[i]
      BY <2>2, <3>1, <3>2
    <3> QED BY <3>1, <3>2, <3>3
  <2>3. CASE i \in m + 1 .. m + k
    <3>1. j \in m + 1 .. m + k
      BY <2>3
    <3>2. /\ z[i] = o[c + (i - m)] /\ z[j] = o[c + (j - m)]
          /\ c + (i - m) \in c + 1 .. n /\ c + (j - m) \in c + 1 .. n
      BY <1>1, <2>3, <3>1
    <3>3. c + (i - m) \in 1 .. n /\ c + (j - m) \in 1 .. n
      BY <3>2
    <3>4. PICK a \in 1 .. n : a = c + (i - m)
      BY <3>3
    <3>b. PICK b \in 1 .. n : b = c + (j - m)
      BY <3>3
    <3>5. i - m < j - m
      OBVIOUS
    <3>6. PICK d \in Int, g \in Int : d = i - m /\ g = j - m /\ d < g
      BY <3>5
    <3>7. a = c + d /\ b = c + g
      BY <3>4, <3>b, <3>6
    <3>8. a < b
      BY <3>6, <3>7
    <3>9. o[a] = z[i] /\ o[b] = z[j]
      BY <3>2, <3>4, <3>b
    <3> WITNESS a \in 1 .. n, b \in 1 .. n
    <3> QED BY <3>8, <3>9
  <2>4. j \in 1 .. m => i \in 1 .. m
    OBVIOUS
  <2> QED BY <1>2, <2>1, <2>2, <2>3, <2>4
<1>5. EndsAt(s, o, c) => EndsAt(z, o, n)
  <2> SUFFICES ASSUME m <= c, \A i \in 1 .. m : s[i] = o[c - m + i]
               PROVE  m + k <= n /\ \A i \in 1 .. m + k : z[i] = o[n - (m + k) + i]
    BY DEF EndsAt
  <2>1. m + k <= n
    OBVIOUS
  <2>2. ASSUME NEW i \in 1 .. m + k PROVE z[i] = o[n - (m + k) + i]
    <3>1. n - (m + k) + i = c - m + i /\ c + (i - m) = c - m + i
      OBVIOUS
    <3>2. CASE i \in 1 .. m
      BY <3>1, <3>2
    <3>3. CASE i \in m + 1 .. m + k
      <4>1. z[i] = o[c + (i - m)]
        BY <1>1, <3>3
      <4> QED BY <3>1, <4>1
    <3> QED BY <1>2, <3>2, <3>3
  <2> QED BY <2>1, <2>2
<1>6. SentOf(z, o, n)
    BY <1>3, <1>4 DEF SentOf
<1> QED BY <1>5, <1>6

LEMMA SentAdds ==
    ASSUME NEW o \in Seq(Line), NEW s \in Seq(Line), NEW c \in 0 .. Len(o), NEW u \in Nat, u <= c,
           NEW new \in Seq(Line), Len(new) = Len(o) - c, \A i \in 1 .. Len(o) - c : new[i] = o[c + i],
           SentOf(s, o, u)
    PROVE  /\ SentOf(s \o new, o, Len(o))
           /\ EndsAt(s, o, c) => EndsAt(s \o new, o, Len(o))
<1>1. Len(o) \in Nat /\ Len(s) \in Nat /\ Len(new) \in Nat
    OBVIOUS
<1>2. PICK m \in Nat, k \in Nat, n \in Nat : m = Len(s) /\ k = Len(new) /\ n = Len(o)
    BY <1>1
<1>3. c \in Nat /\ c + k = n /\ k = n - c
    BY <1>2
<1>4. /\ Len(s \o new) = Len(s) + Len(new)
      /\ \A i \in 1 .. Len(s) + Len(new) :
            (s \o new)[i] = IF i <= Len(s) THEN s[i] ELSE new[i - Len(s)]
    BY ConcatProperties
<1>5. PICK z : z = s \o new
    OBVIOUS
<1>6. Len(z) = m + k /\ \A i \in 1 .. m + k : z[i] = IF i <= m THEN s[i] ELSE new[i - m]
    BY <1>2, <1>4, <1>5
<1>7. \A i \in 1 .. m : z[i] = s[i]
  <2>1. \A i \in 1 .. m : i \in 1 .. m + k /\ i <= m
    BY <1>2
  <2> QED BY <1>6, <2>1
<1>8. \A i \in 1 .. k : z[m + i] = new[i]
  <2>1. \A i \in 1 .. k : m + i \in 1 .. m + k /\ ~(m + i <= m) /\ (m + i) - m = i
    BY <1>2
  <2> QED BY <1>6, <2>1
<1>9. \A i \in 1 .. k : new[i] = o[c + i]
    BY <1>2, <1>3
<1>10. \A i \in 1 .. k : z[m + i] = o[c + i]
    BY <1>8, <1>9
<1>11. SentOf(z, o, n) /\ (EndsAt(s, o, c) => EndsAt(z, o, n))
    BY <1>2, <1>3, <1>6, <1>7, <1>10, SentOn
<1> QED BY <1>2, <1>5, <1>11

LEMMA TailKeeps ==
    ASSUME ReadInv, OpenTail \/ PollTail
    PROVE  ReadInv'
<1>0. /\ UNCHANGED <<segment, lines, clock, order, walk, job, scene>>
    BY DEF OpenTail, PollTail, Tailing, On
<1>t. ReadTyped /\ TailOK /\ \A g \in Files : FileOK(g)
    BY DEF ReadInv
<1>u. /\ tail \in TailRow /\ tail.known \in Nat /\ tail.upto \in Nat /\ tail.rolled \in BOOLEAN
      /\ tail.sent \in Seq(Line)
    BY <1>t DEF ReadTyped, TailRow
<1>1. tail' \in TailRow /\ TailOK'
  <2>1. CASE OpenTail
    <3>1. PICK f \in Files : tail' = [NoTail EXCEPT !.pc = "open", !.file = f]
      BY <2>1 DEF OpenTail
    <3>2. tail' = [pc |-> "open", file |-> f, known |-> 0, sent |-> <<>>, rolled |-> FALSE, upto |-> 0]
      BY <3>1 DEF NoTail
    <3>3. tail' \in TailRow /\ tail'.pc = "open" /\ tail'.file = f /\ tail'.sent = <<>> /\ tail'.upto = 0
      BY <3>2 DEF TailRow
    <3> QED BY <3>3 DEF TailOK, KeepsUp
  <2>2. CASE PollTail
    <3>1. PICK f \in Files : f = tail.file
      BY <1>t, <2>2 DEF PollTail, TailOK
    <3>2. PICK text \in Seq(Line), o \in Seq(Line) : text = segment[f][0] /\ o = order[f]
      BY <1>t, <3>1, ReadTypes
    <3>3. PICK c \in 0 .. Len(text) :
              /\ NewLines(text) = From(text, c + 1)
              /\ tail.pc # "open" => c = IF Len(text) < tail.known THEN 0 ELSE tail.known
      BY <1>u, NewLinesFrom
    <3>4. PICK new : new = From(text, c + 1)
      OBVIOUS
    <3>5. /\ new \in Seq(Line) /\ Len(new) = Len(text) - c
          /\ \A i \in 1 .. Len(text) - c : new[i] = text[c + i]
      BY <3>4, FromFacts
    <3>6. /\ Len(text) <= Len(o) /\ Len(text) \in Nat /\ Len(o) \in Nat
          /\ \A k \in 1 .. Len(text) : text[k] = o[Len(o) - Len(text) + k]
      <4>1. FileOK(f) /\ Len(text) \in Nat /\ Len(o) \in Nat
        BY <1>t
      <4> QED BY <3>2, <4>1 DEF FileOK
    <3>7. PICK base \in Nat : base = Len(o) - Len(text)
      <4>1. Len(o) - Len(text) \in Nat
        BY <3>6
      <4> QED BY <4>1
    <3>8. Base(f) = base /\ Base(f)' = base
      BY <1>0, <3>2, <3>7 DEF Base
    <3>9. PICK d \in 0 .. Len(o) : d = base + c
      BY <3>6, <3>7
    <3>10. Len(new) = Len(o) - d /\ \A i \in 1 .. Len(new) : new[i] = o[d + i]
      <4>1. Len(new) = Len(o) - d
        BY <3>5, <3>6, <3>7, <3>9
      <4>2. \A i \in 1 .. Len(new) : c + i \in 1 .. Len(text) /\ base + (c + i) = d + i
        BY <3>5, <3>6, <3>7, <3>9
      <4> QED BY <3>5, <3>6, <3>7, <4>1, <4>2
    <3>11. PICK allSent \in Seq(Line), b \in BOOLEAN :
              allSent = tail.sent \o new /\ (b <=> tail.rolled /\ tail.pc # "open")
      <4>1. tail.sent \o new \in Seq(Line)
        BY <1>u, <3>5, ConcatProperties
      <4>2. \E b \in BOOLEAN : b <=> tail.rolled /\ tail.pc # "open"
        OBVIOUS
      <4> QED BY <4>1, <4>2
    <3>12. (tail.rolled /\ tail.pc # "open") = b
      BY <1>u, <3>11
    <3>13. PICK k \in Nat, u \in Nat : k = Len(text) /\ u = Len(o)
      BY <3>6
    <3>14. tail' = [tail EXCEPT !.pc = "polling", !.known = k, !.sent = allSent, !.rolled = b, !.upto = u]
      <4>1. tail' = [tail EXCEPT !.pc = "polling", !.known = Len(segment[tail.file][0]),
                            !.sent = @ \o NewLines(segment[tail.file][0]),
                            !.rolled = @ /\ tail.pc # "open",
                            !.upto = Len(order[tail.file])]
        BY <2>2 DEF PollTail
      <4> QED BY <3>1, <3>2, <3>3, <3>4, <3>11, <3>12, <3>13, <4>1
    <3>15. /\ tail' \in TailRow /\ tail'.pc = "polling" /\ tail'.known = k /\ tail'.sent = allSent
           /\ tail'.rolled = b /\ tail'.upto = u /\ tail'.file = f
      BY <1>u, <3>1, <3>11, <3>14 DEF TailRow
    <3>16. base + tail'.known = Len(o)
      BY <3>6, <3>7, <3>13, <3>15
    <3>20. ASSUME tail.upto <= d, SentOf(tail.sent, o, tail.upto),
                  ~tail'.rolled => EndsAt(tail.sent, o, d)
           PROVE  TailOK'
      <4>1. SentOf(allSent, o, Len(o)) /\ (EndsAt(tail.sent, o, d) => EndsAt(allSent, o, Len(o)))
        <5>1. Len(new) = Len(o) - d /\ \A i \in 1 .. Len(o) - d : new[i] = o[d + i]
          BY <3>10
        <5>2. /\ SentOf(tail.sent \o new, o, Len(o))
              /\ EndsAt(tail.sent, o, d) => EndsAt(tail.sent \o new, o, Len(o))
          <6>1. tail.sent \in Seq(Line) /\ tail.upto \in Nat /\ new \in Seq(Line)
            BY <1>u, <3>5
          <6> QED BY <3>20, <5>1, <6>1, SentAdds
        <5>3. allSent = tail.sent \o new
          BY <3>11
        <5> QED BY <5>2, <5>3
      <4>5. tail'.upto = Len(o)
        BY <3>13, <3>15
      <4>3. tail'.upto = Len(o) /\ tail'.upto <= Len(o) /\ base + tail'.known = tail'.upto
        BY <3>6, <3>16, <4>5
      <4>4. SentOf(tail'.sent, o, tail'.upto) /\ (~tail'.rolled => EndsAt(tail'.sent, o, tail'.upto))
        BY <3>15, <3>20, <4>1, <4>3
      <4>2. KeepsUp(tail', o, base)
        BY <3>15, <4>3, <4>4 DEF KeepsUp
      <4> QED BY <1>0, <3>1, <3>2, <3>8, <3>15, <4>2 DEF TailOK
    <3>17. CASE tail.pc = "open"
      <4>1. tail.sent = <<>> /\ tail.upto = 0 /\ Len(tail.sent) = 0
        BY <1>t, <3>17, EmptySeq DEF TailOK, KeepsUp
      <4>2. SentOf(tail.sent, o, tail.upto)
        BY <4>1 DEF SentOf
      <4>3. EndsAt(tail.sent, o, d) /\ tail.upto <= d
        BY <3>6, <3>9, <4>1 DEF EndsAt
      <4> QED BY <3>15, <3>20, <4>2, <4>3
    <3>18. CASE tail.pc = "polling"
      <4>1. KeepsUp(tail, o, base)
        BY <1>t, <3>1, <3>2, <3>8, <3>18 DEF TailOK
      <4>2. /\ tail.upto <= Len(o) /\ SentOf(tail.sent, o, tail.upto)
            /\ base + tail.known = tail.upto \/ base >= tail.upto
            /\ ~tail.rolled => base + tail.known = tail.upto /\ EndsAt(tail.sent, o, tail.upto)
        BY <3>18, <4>1 DEF KeepsUp
      <4>3. tail.upto <= d /\ (~tail.rolled => tail.upto = d)
        BY <1>u, <3>3, <3>6, <3>7, <3>9, <3>18, <4>2
      <4>4. ~tail'.rolled => ~tail.rolled
        BY <3>11, <3>15, <3>18
      <4> QED BY <3>15, <3>20, <4>2, <4>3, <4>4
    <3>19. tail.pc # "off"
      BY <2>2 DEF PollTail
    <3> QED BY <1>u, <3>15, <3>17, <3>18, <3>19 DEF TailRow
  <2> QED BY <2>1, <2>2
<1>2. ReadTyped'
    BY <1>0, <1>t, <1>1 DEF ReadTyped
<1>3. WalkOK'
    BY <1>0 DEF ReadInv, WalkOK, Swapped, Present, Unmistakable, WasSeen, Awaited
<1>4. \A g \in Files : FileOK(g)'
    BY <1>0, <1>t DEF FileOK
<1>5. scene' \in {"tail", "pages"} => job' \in [Workers -> WriterRow] /\ \A w \in Workers : WriterOK(w)'
  <2>1. ASSUME NEW w \in Workers, WriterOK(w) PROVE WriterOK(w)'
    BY <1>0, <2>1 DEF WriterOK
  <2> QED BY <1>0, <2>1 DEF ReadInv
<1> QED BY <1>1, <1>2, <1>3, <1>4, <1>5 DEF ReadInv

LEMMA FilesAreFinite == IsFiniteSet(Files) /\ Files # {}
<1> DEFINE g == [s \in Sources |-> Range(TargetFiles(s))]
           T == {g[s] : s \in Sources}
<1>1. DOMAIN g = Sources /\ T = {Range(TargetFiles(s)) : s \in Sources}
    OBVIOUS
<1>2. IsFiniteSet(Sources) /\ Sources # {}
    BY ReadingAssumption
<1> HIDE DEF g
<1>3. IsFiniteSet(T)
    BY <1>1, <1>2, ImageIsFinite
<1>4. \A s \in Sources : IsFiniteSet(Range(TargetFiles(s))) /\ Range(TargetFiles(s)) # {}
  <2> SUFFICES ASSUME NEW s \in Sources
               PROVE  IsFiniteSet(Range(TargetFiles(s))) /\ Range(TargetFiles(s)) # {}
    OBVIOUS
  <2>1. PICK fs \in Seq(Files) : fs = TargetFiles(s) /\ fs # <<>> /\ Len(fs) \in {1, 2}
    BY Targets
  <2>2. Range(fs) = {fs[i] : i \in DOMAIN fs} /\ DOMAIN fs = 1 .. Len(fs)
    BY <2>1 DEF Range
  <2>3. IsFiniteSet(1 .. Len(fs)) /\ 1 \in 1 .. Len(fs)
    BY <2>1, FS_Interval
  <2>4. IsFiniteSet({fs[i] : i \in DOMAIN fs})
    BY <2>2, <2>3, ImageIsFinite
  <2> QED BY <2>1, <2>2, <2>3, <2>4
<1>5. \A U \in T : IsFiniteSet(U)
    BY <1>1, <1>4
<1>6. Files = UNION T
    BY <1>1 DEF Files
<1> HIDE DEF T
<1>7. IsFiniteSet(Files)
    BY <1>3, <1>5, <1>6, FS_UNION
<1>8. Files # {}
  <2>1. PICK s \in Sources : TRUE
    BY <1>2
  <2> QED BY <1>4, <2>1 DEF Files
<1> QED BY <1>7, <1>8

\* Every file has its turn.
LEMMA FileOrderIsComplete ==
    FileOrder \in Seq(Files) /\ Range(FileOrder) = Files /\ FileOrder # <<>>
<1> DEFINE D == 1 .. Cardinality(Files)
<1>1. ExistsBijection(D, Files)
    BY FilesAreFinite, FS_CardinalityType
<1>2. \E f \in [D -> Files] : IsInjective(f)
    BY <1>1 DEF ExistsBijection, Bijection, Injection
<1>3. FileOrder \in [D -> Files] /\ IsInjective(FileOrder)
    BY <1>2 DEF FileOrder, SetToSeq
<1>4. FileOrder \in SetToSeqs(Files)
    BY <1>3 DEF SetToSeqs, IsInjective
<1>5. FileOrder \in Seq(Files) /\ Range(FileOrder) = Files
    BY <1>4, FilesAreFinite, OrdersAreComplete
<1>6. FileOrder # <<>>
  <2>1. Range(<<>>) = {}
    BY DEF Range
  <2> QED BY <1>5, <2>1, FilesAreFinite
<1> QED BY <1>5, <1>6

\* A line that is not looked at is before one that is too old.
LEMMA NewerFacts ==
    ASSUME NEW text \in Seq(Line)
    PROVE  /\ Newer(text) \in Seq(Line) /\ Range(Newer(text)) \subseteq Range(text)
           /\ \A k \in 1 .. Len(text) : text[k] \in Range(Newer(text))
                 \/ \E m \in 1 .. Len(text) : TooOld(text[m]) /\ k <= m
<1> DEFINE T == {0} \cup {i \in 1 .. Len(text) : TooOld(text[i])}
<1>1. Len(text) \in Nat /\ T \in SUBSET (0 .. Len(text)) /\ T # {}
    OBVIOUS
<1>2. PICK c \in T : c = Max(T) /\ \A i \in T : c >= i
    BY <1>1, MaxIsGreatest
<1>3. c \in 0 .. Len(text)
    BY <1>1
<1>4. PICK r : r = From(text, c + 1)
    OBVIOUS
<1>5. /\ r \in Seq(Line) /\ Len(r) = Len(text) - c
      /\ \A i \in 1 .. Len(text) - c : r[i] = text[c + i]
    BY <1>3, <1>4, FromFacts
<1>6. Newer(text) = r
    BY <1>2, <1>4 DEF Newer
<1>7. Range(r) = {r[i] : i \in 1 .. Len(r)} /\ Range(text) = {text[i] : i \in 1 .. Len(text)}
    BY <1>5, RangeEquality
<1>8. Range(r) \subseteq Range(text)
  <2>1. \A i \in 1 .. Len(r) : c + i \in 1 .. Len(text) /\ r[i] = text[c + i]
    BY <1>1, <1>3, <1>5
  <2> QED BY <1>7, <2>1
<1>9. ASSUME NEW k \in 1 .. Len(text), text[k] \notin Range(r)
      PROVE  \E m \in 1 .. Len(text) : TooOld(text[m]) /\ k <= m
  <2>1. k <= c
    <3> SUFFICES ASSUME ~(k <= c) PROVE FALSE
      OBVIOUS
    <3>1. PICK i \in 1 .. Len(text) - c : c + i = k
      <4>1. k - c \in 1 .. Len(text) - c /\ c + (k - c) = k
        BY <1>1, <1>3
      <4> QED BY <4>1
    <3>2. r[i] = text[k] /\ i \in 1 .. Len(r)
      BY <1>5, <3>1
    <3> QED BY <1>7, <1>9, <3>2
  <2>2. c # 0
    BY <1>3, <2>1
  <2>3. c \in 1 .. Len(text) /\ TooOld(text[c])
    BY <2>2
  <2> QED BY <2>1, <2>3
<1> QED BY <1>5, <1>6, <1>8, <1>9

LEMMA ScanFacts ==
    ASSUME NEW text \in Seq(Line), walk.file \in Files
    PROVE  /\ Scan(text) \subseteq Files \X Line /\ IsFiniteSet(Scan(text))
           /\ \A x \in Scan(text) : x[2].ts < walk.before /\ x[2] \in Range(text) /\ x[1] = walk.file
           /\ \A l \in Range(Newer(text)) : l.ts < walk.before => <<walk.file, l>> \in Scan(text)
<1>1. Range(Newer(text)) \subseteq Range(text) /\ Range(text) \subseteq Line
    BY NewerFacts, RangeOfSeq
<1>2. \A x : x \in Scan(text) <=> \E l \in Range(Newer(text)) : l.ts < walk.before /\ x = <<walk.file, l>>
    BY DEF Scan
<1>3. IsFiniteSet(Scan(text))
  <2> DEFINE g == [i \in 1 .. Len(text) |-> <<walk.file, text[i]>>]
             T == {g[i] : i \in 1 .. Len(text)}
  <2>1. IsFiniteSet(1 .. Len(text)) /\ DOMAIN g = 1 .. Len(text)
    BY FS_Interval
  <2>2. \A i \in 1 .. Len(text) : g[i] = <<walk.file, text[i]>>
    OBVIOUS
  <2> HIDE DEF g
  <2>3. IsFiniteSet(T)
    BY <2>1, ImageIsFinite
  <2>4. Range(text) = {text[i] : i \in 1 .. Len(text)}
    BY RangeEquality
  <2>5. Scan(text) \subseteq T
    BY <1>1, <1>2, <2>2, <2>4
  <2> QED BY <2>3, <2>5, FS_Subset
<1>4. \A x \in Scan(text) : /\ x[2].ts < walk.before /\ x[2] \in Range(text) /\ x[1] = walk.file
                            /\ x \in Files \X Line
    BY <1>1, <1>2
<1>5. \A l \in Range(Newer(text)) : l.ts < walk.before => <<walk.file, l>> \in Scan(text)
    BY <1>2
<1> QED BY <1>3, <1>4, <1>5

\* A request for pages changes nothing else.
LEMMA WalkAlone ==
    ASSUME ReadInv, Paging, walk' \in WalkRow, WalkOK'
    PROVE  ReadInv'
<1>0. UNCHANGED <<segment, lines, clock, order, tail, job, scene>>
    BY DEF Paging, On
<1>1. ReadTyped'
    BY <1>0 DEF ReadInv, ReadTyped
<1>2. TailOK'
    BY <1>0, TailGoesOn DEF ReadInv
<1>3. \A g \in Files : FileOK(g)'
  <2>1. ASSUME NEW g \in Files, FileOK(g) PROVE FileOK(g)'
    BY <1>0, <2>1 DEF FileOK
  <2> QED BY <2>1 DEF ReadInv
<1>4. scene' \in {"tail", "pages"} => job' \in [Workers -> WriterRow] /\ \A w \in Workers : WriterOK(w)'
  <2>1. ASSUME NEW w \in Workers, WriterOK(w) PROVE WriterOK(w)'
    BY <1>0, <2>1 DEF WriterOK
  <2> QED BY <1>0, <2>1 DEF ReadInv
<1> QED BY <1>1, <1>2, <1>3, <1>4 DEF ReadInv

\* What the files hold does not change in the meantime.
LEMMA PagingSame ==
    ASSUME Paging
    PROVE  /\ segment' = segment /\ order' = order /\ Present' = Present /\ Swapped' = Swapped
           /\ \A l : Unmistakable(l)' = Unmistakable(l)
    BY DEF Paging, Present, Swapped, Unmistakable

\* A line that is present is in a segment, was appended, and is not of the future.
LEMMA PresentFacts ==
    ASSUME ReadInv, NEW x \in Present
    PROVE  /\ x[1] \in Files /\ x[2] \in Line /\ x[2].ts \in Nat /\ x[2].ts <= MaxLines + 1
           /\ HasLine(order[x[1]], x[2]) /\ x \in Files \X Line /\ x = <<x[1], x[2]>>
           /\ \E i \in Segments : x[2] \in Range(segment[x[1]][i])
<1>t. ReadTyped /\ \A f \in Files : FileOK(f)
    BY DEF ReadInv
<1>1. PICK f \in Files, i \in Segments : \E l \in Range(segment[f][i]) : x = <<f, l>>
    BY PresentLines
<1>2. PICK l \in Range(segment[f][i]) : x = <<f, l>>
    BY <1>1
<1>3. segment[f][i] \in Seq(Line) /\ order[f] \in Seq(Line)
    BY <1>t, ReadTypes
<1>4. l \in Line /\ \E k \in 1 .. Len(segment[f][i]) : segment[f][i][k] = l
    BY <1>3, RangeEquality, RangeOfSeq
<1>5. HasLine(order[f], l)
    BY <1>t, <1>4 DEF FileOK
<1>6. PICK a \in 1 .. Len(order[f]) : order[f][a] = l
    BY <1>5 DEF HasLine
<1>7. l.ts \in Nat /\ l.ts <= clock
    BY <1>t, <1>4, <1>6 DEF FileOK, Line
<1>8. l.ts <= MaxLines + 1
    BY <1>t, <1>7, ReadTypes
<1> QED BY <1>2, <1>4, <1>5, <1>7, <1>8

LEMMA OpenWalkKeeps ==
    ASSUME ReadInv, OpenWalk
    PROVE  ReadInv'
<1>0. Paging
    BY DEF OpenWalk
<1>t. ReadTyped
    BY DEF ReadInv
<1>1. PICK since \in {0, 2} :
          walk' = [NoWalk EXCEPT !.pc = "list", !.todo = FileOrder, !.since = since,
                                 !.before = MaxLines + 2, !.had = Present]
    BY DEF OpenWalk
<1>2. PICK b \in Nat : b = MaxLines + 2
    BY <1>t, ReadTypes
<1>3. walk' = [pc |-> "list", todo |-> FileOrder, file |-> <<>>, names |-> {}, since |-> since,
               before |-> b, found |-> {}, spent |-> 0, seen |-> {}, had |-> Present,
               twice |-> FALSE, excused |-> FALSE]
    BY <1>1, <1>2 DEF NoWalk
<1>4. Present \subseteq Files \X Line
    BY PresentFacts
<1>5. walk' \in WalkRow
    BY <1>3, <1>4, FileOrderIsComplete DEF WalkRow
<1>6. \A x \in walk'.had \cap Present' : Awaited(x)'
  <2> SUFFICES ASSUME NEW x \in Present PROVE Awaited(x)'
    BY <1>0, <1>3, PagingSame
  <2>1. x[1] \in Range(walk'.todo)
    BY <1>3, FileOrderIsComplete, PresentFacts
  <2>2. x[2].ts < walk'.before
    BY <1>2, <1>3, <1>t, PresentFacts, ReadTypes
  <2> QED BY <1>3, <2>1, <2>2 DEF Awaited
<1>7. \A x \in walk'.had : HasLine(order'[x[1]], x[2])
    BY <1>0, <1>3, PagingSame, PresentFacts
<1>8. WalkOK'
    BY <1>3, <1>6, <1>7, FileOrderIsComplete, FS_EmptySet DEF WalkOK
<1> QED BY <1>0, <1>5, <1>8, WalkAlone

\* While a walk goes on: what it was asked for, and what was there, stay; what has
\* been given and what may still be found only has to be kept.
LEMMA WalkOn ==
    ASSUME ReadInv, Paging, walk' \in WalkRow, walk'.had = walk.had, walk'.since = walk.since,
           walk'.pc # "off",
           walk'.pc = "list" => walk'.todo # <<>>,
           walk'.pc = "read" => walk'.file \in Files,
           ~walk'.twice, IsFiniteSet(walk'.found),
           \A x \in walk'.found : x[2].ts < walk'.before /\ HasLine(order[x[1]], x[2]),
           \A x \in walk'.seen : walk'.before <= x[2].ts,
           ~walk'.excused => ~walk.excused,
           ASSUME ~walk'.excused, walk.since > 0 => ~Swapped, NEW x \in walk.had \cap Present,
                  x[2].ts >= walk.since, Unmistakable(x[2]), WasSeen(x) \/ Awaited(x)
           PROVE  WasSeen(x)' \/ Awaited(x)'
    PROVE  ReadInv'
<1>1. WalkOK
    BY DEF ReadInv
<1>2. /\ segment' = segment /\ order' = order /\ Present' = Present /\ Swapped' = Swapped
      /\ \A l : Unmistakable(l)' = Unmistakable(l)
    BY PagingSame
<1>3. ASSUME ~walk'.excused, walk'.since > 0 => ~Swapped', NEW x \in walk'.had \cap Present',
             x[2].ts >= walk'.since, Unmistakable(x[2])'
      PROVE  WasSeen(x)' \/ Awaited(x)'
  <2>1. /\ ~walk.excused /\ (walk.since > 0 => ~Swapped) /\ x \in walk.had \cap Present
        /\ x[2].ts >= walk.since /\ Unmistakable(x[2])
    BY <1>2, <1>3
  <2>2. WasSeen(x) \/ Awaited(x)
    BY <1>1, <2>1 DEF WalkOK
  <2> QED BY <1>3, <2>1, <2>2
<1>4. \A x \in walk'.found \cup walk'.had : HasLine(order'[x[1]], x[2])
    BY <1>1, <1>2 DEF WalkOK
<1>5. WalkOK'
    BY <1>3, <1>4 DEF WalkOK
<1> QED BY <1>5, WalkAlone

LEMMA NextPageKeeps ==
    ASSUME ReadInv, NextPage
    PROVE  ReadInv'
<1>0. Paging /\ walk.pc = "between"
    BY DEF NextPage
<1>t. ReadTyped /\ WalkOK /\ walk \in WalkRow
    BY DEF ReadInv, ReadTyped
<1>1. walk' = [walk EXCEPT !.pc = "list", !.todo = FileOrder, !.found = {}, !.spent = 0]
    BY DEF NextPage
<1>2. /\ walk' \in WalkRow /\ walk'.pc = "list" /\ walk'.todo = FileOrder /\ walk'.found = {}
      /\ walk'.had = walk.had /\ walk'.since = walk.since /\ walk'.seen = walk.seen
      /\ walk'.before = walk.before /\ walk'.twice = walk.twice /\ walk'.excused = walk.excused
    BY <1>t, <1>1, FileOrderIsComplete DEF WalkRow
<1>3. ~walk'.twice /\ IsFiniteSet(walk'.found) /\ walk'.todo # <<>>
    BY <1>t, <1>2, FileOrderIsComplete, FS_EmptySet DEF WalkOK
<1>4. \A x \in walk'.seen : walk'.before <= x[2].ts
    BY <1>t, <1>2 DEF WalkOK
<1>5. ASSUME NEW x \in walk.had \cap Present, WasSeen(x) \/ Awaited(x)
      PROVE  WasSeen(x)' \/ Awaited(x)'
  <2>1. x[1] \in Range(walk'.todo)
    BY <1>2, PresentFacts, FileOrderIsComplete
  <2>2. CASE WasSeen(x)
    BY <1>2, <2>2 DEF WasSeen
  <2>3. CASE Awaited(x)
    BY <1>2, <2>1, <2>3 DEF Awaited
  <2> QED BY <1>5, <2>2, <2>3
<1> QED BY <1>0, <1>2, <1>3, <1>4, <1>5, WalkOn

LEMMA ListKeeps ==
    ASSUME ReadInv, ListSegments
    PROVE  ReadInv'
<1>0. Paging /\ walk.pc = "list"
    BY DEF ListSegments
<1>t. ReadTyped /\ WalkOK /\ walk \in WalkRow
    BY DEF ReadInv, ReadTyped
<1>u. walk.todo \in Seq(Files) /\ walk.todo # <<>>
    BY <1>0, <1>t DEF WalkOK, WalkRow
<1>1. PICK f \in Files, rest \in Seq(Files) : f = Head(walk.todo) /\ rest = Tail(walk.todo)
    BY <1>u, HeadTailProperties
<1>2. Range(walk.todo) = {f} \cup Range(rest)
  <2>1. /\ Len(walk.todo) \in Nat \ {0} /\ walk.todo[1] = f /\ Len(rest) = Len(walk.todo) - 1
        /\ \A i \in 1 .. Len(rest) : rest[i] = walk.todo[i + 1]
    BY <1>u, <1>1, HeadTailProperties, EmptySeq
  <2>2. \A i \in 1 .. Len(walk.todo) : i = 1 \/ (i - 1 \in 1 .. Len(rest) /\ rest[i - 1] = walk.todo[i])
    BY <2>1
  <2>3. 1 \in 1 .. Len(walk.todo) /\ \A i \in 1 .. Len(rest) : i + 1 \in 1 .. Len(walk.todo)
    BY <2>1
  <2>4. \A g : HasLine(walk.todo, g) <=> g = f \/ HasLine(rest, g)
    BY <2>1, <2>2, <2>3 DEF HasLine
  <2> QED BY <1>u, <1>1, <2>4, Places
<1>3. PICK names \in SUBSET Segments : names = Existing(f)
    BY DEF Existing
<1>4. walk' = [walk EXCEPT !.pc = "read", !.file = f, !.todo = rest, !.names = names]
    BY <1>1, <1>3 DEF ListSegments
<1>5. /\ walk' \in WalkRow /\ walk'.pc = "read" /\ walk'.todo = rest /\ walk'.file = f
      /\ walk'.names = names /\ walk'.found = walk.found
      /\ walk'.had = walk.had /\ walk'.since = walk.since /\ walk'.seen = walk.seen
      /\ walk'.before = walk.before /\ walk'.twice = walk.twice /\ walk'.excused = walk.excused
    BY <1>t, <1>4 DEF WalkRow
<1>6. /\ ~walk'.twice /\ IsFiniteSet(walk'.found)
      /\ \A x \in walk'.found : x[2].ts < walk'.before /\ HasLine(order[x[1]], x[2])
      /\ \A x \in walk'.seen : walk'.before <= x[2].ts
    BY <1>t, <1>5 DEF WalkOK
<1>7. ASSUME NEW x \in walk.had \cap Present, WasSeen(x) \/ Awaited(x)
      PROVE  WasSeen(x)' \/ Awaited(x)'
  <2>1. CASE WasSeen(x)
    BY <1>5, <2>1 DEF WasSeen
  <2>2. CASE Awaited(x) /\ x[1] = f
    <3>1. PICK i \in Segments : x[2] \in Range(segment[f][i])
      BY <2>2, PresentFacts
    <3>2. Range(<<>>) = {}
      BY DEF Range
    <3>3. i \in names
      BY <1>3, <3>1, <3>2 DEF Existing
    <3>4. segment' = segment
      BY <1>0, PagingSame
    <3>5. x[2] \in Range(segment'[walk'.file][i])
      BY <1>5, <3>1, <3>4
    <3>6. x[2].ts < walk'.before
      BY <1>5, <2>2 DEF Awaited
    <3> QED BY <1>5, <2>2, <3>3, <3>5, <3>6 DEF Awaited
  <2>3. CASE Awaited(x) /\ x[1] # f
    BY <1>0, <1>2, <1>5, <2>3 DEF Awaited
  <2> QED BY <1>7, <2>1, <2>2, <2>3
<1> QED BY <1>0, <1>5, <1>6, <1>7, WalkOn

LEMMA EndOfFileKeeps ==
    ASSUME ReadInv, EndOfFile
    PROVE  ReadInv'
<1>0. Paging /\ walk.pc = "read" /\ walk.names = {} /\ walk.todo # <<>>
    BY DEF EndOfFile
<1>t. ReadTyped /\ WalkOK /\ walk \in WalkRow
    BY DEF ReadInv, ReadTyped
<1>1. walk' = [walk EXCEPT !.pc = "list"]
    BY DEF EndOfFile
<1>2. /\ walk' \in WalkRow /\ walk'.pc = "list" /\ walk'.todo = walk.todo /\ walk'.found = walk.found
      /\ walk'.had = walk.had /\ walk'.since = walk.since /\ walk'.seen = walk.seen
      /\ walk'.before = walk.before /\ walk'.twice = walk.twice /\ walk'.excused = walk.excused
    BY <1>t, <1>1 DEF WalkRow
<1>3. /\ ~walk'.twice /\ IsFiniteSet(walk'.found)
      /\ \A x \in walk'.found : x[2].ts < walk'.before /\ HasLine(order[x[1]], x[2])
      /\ \A x \in walk'.seen : walk'.before <= x[2].ts
    BY <1>t, <1>2 DEF WalkOK
<1>4. ASSUME NEW x \in walk.had \cap Present, WasSeen(x) \/ Awaited(x)
      PROVE  WasSeen(x)' \/ Awaited(x)'
    BY <1>0, <1>2, <1>4 DEF WasSeen, Awaited
<1> QED BY <1>0, <1>2, <1>3, <1>4, WalkOn

\* What is in turn, and too old where the files are in order, was not asked for.
LEMMA TooOldFacts ==
    ASSUME ReadInv, NEW f \in Files, NEW i \in Segments, NEW j \in Segments,
           NEW k \in 1 .. Len(segment[f][i]), NEW m \in 1 .. Len(segment[f][j]),
           i > j \/ (i = j /\ k <= m), TooOld(segment[f][j][m]),
           walk.since > 0 => ~Swapped
    PROVE  segment[f][i][k].ts < walk.since
<1>t. ReadTyped /\ FileOK(f)
    BY DEF ReadInv
<1>1. segment[f][i] \in Seq(Line) /\ segment[f][j] \in Seq(Line) /\ walk.since \in Nat
    BY <1>t, ReadTypes
<1>2. PICK l \in Line, p \in Line : l = segment[f][i][k] /\ p = segment[f][j][m]
    BY <1>1
<1>3. l.ts \in Nat /\ p.ts \in Nat
    BY <1>2 DEF Line
<1>4. p.ts < walk.since
    BY <1>2 DEF TooOld
<1>5. CASE i = j /\ k = m
    BY <1>2, <1>4, <1>5
<1>6. CASE ~(i = j /\ k = m)
  <2>1. i > j \/ (i = j /\ k < m)
    BY <1>6
  <2>2. InTurn(order[f], l, p)
    BY <1>t, <1>2, <2>1 DEF FileOK
  <2>3. PICK a \in 1 .. Len(order[f]), b \in 1 .. Len(order[f]) : a < b /\ order[f][a] = l /\ order[f][b] = p
    BY <2>2 DEF InTurn
  <2>4. ~Swapped
    BY <1>1, <1>3, <1>4
  <2>5. ~(l.ts > p.ts)
    BY <2>3, <2>4 DEF Swapped
  <2>6. l.ts < walk.since
    BY <1>1, <1>3, <1>4, <2>5
  <2> QED BY <1>2, <2>6
<1> QED BY <1>5, <1>6

LEMMA ReadSegmentKeeps ==
    ASSUME ReadInv, ReadSegment
    PROVE  ReadInv'
<1>0. Paging /\ walk.pc = "read" /\ walk.names # {}
    BY DEF ReadSegment
<1>t. ReadTyped /\ WalkOK /\ walk \in WalkRow /\ walk.file \in Files
    BY <1>0 DEF ReadInv, ReadTyped, WalkOK
<1>u. walk.names \subseteq Segments /\ Segments \subseteq Nat /\ walk.spent \in Nat /\ walk.since \in Nat
      /\ walk.found \subseteq Files \X Line
    BY <1>t, ReadTypes
<1>1. PICK i \in walk.names : i = Min(walk.names) /\ \A j \in walk.names : i <= j
    BY <1>0, <1>u, MinIsLeast
<1>2. PICK f \in Files, text \in Seq(Line) : f = walk.file /\ text = segment[f][i]
    BY <1>t, <1>u, <1>1, ReadTypes
<1>3. CASE walk.spent >= ScanLimit
  <2>1. walk' = [walk EXCEPT !.names = {}, !.excused = TRUE]
    BY <1>3 DEF ReadSegment
  <2>2. /\ walk' \in WalkRow /\ walk'.pc = "read" /\ walk'.found = walk.found /\ walk'.file = f
        /\ walk'.had = walk.had /\ walk'.since = walk.since /\ walk'.seen = walk.seen
        /\ walk'.before = walk.before /\ walk'.twice = walk.twice /\ walk'.excused
    BY <1>0, <1>t, <1>2, <2>1 DEF WalkRow
  <2>3. /\ ~walk'.twice /\ IsFiniteSet(walk'.found)
        /\ \A x \in walk'.found : x[2].ts < walk'.before /\ HasLine(order[x[1]], x[2])
        /\ \A x \in walk'.seen : walk'.before <= x[2].ts
    BY <1>t, <2>2 DEF WalkOK
  <2> QED BY <1>0, <2>2, <2>3, WalkOn
<1>4. CASE ~(walk.spent >= ScanLimit)
  <2> DEFINE stop == \E l \in Range(text) : TooOld(l)
  <2>1. PICK names \in SUBSET walk.names : names = IF stop THEN {} ELSE walk.names \ {i}
    OBVIOUS
  <2>2. PICK spent \in Nat : spent = walk.spent + Len(text)
    BY <1>u, <1>2
  <2>3. PICK scan \in SUBSET (Files \X Line) : scan = Scan(text)
    BY <1>2, <1>t, ScanFacts
  <2>4. walk' = [walk EXCEPT !.names = names, !.found = walk.found \cup scan, !.spent = spent]
    BY <1>1, <1>2, <1>4, <2>1, <2>2, <2>3 DEF ReadSegment
  <2>5. /\ walk' \in WalkRow /\ walk'.pc = "read" /\ walk'.found = walk.found \cup scan
        /\ walk'.file = f /\ walk'.names = names /\ walk'.todo = walk.todo
        /\ walk'.had = walk.had /\ walk'.since = walk.since /\ walk'.seen = walk.seen
        /\ walk'.before = walk.before /\ walk'.twice = walk.twice /\ walk'.excused = walk.excused
    <3>1. names \in SUBSET Segments /\ walk.found \cup scan \in SUBSET (Files \X Line)
      BY <1>u, <2>1, <2>3
    <3> QED BY <1>0, <1>t, <1>2, <2>2, <2>4, <3>1 DEF WalkRow
  <2>6. /\ IsFiniteSet(scan) /\ \A x \in scan : x[2].ts < walk.before /\ x[2] \in Range(text) /\ x[1] = f
        /\ \A l \in Range(Newer(text)) : l.ts < walk.before => <<f, l>> \in scan
    BY <1>t, <1>2, <2>3, ScanFacts
  <2>7. ~walk'.twice /\ \A x \in walk'.seen : walk'.before <= x[2].ts
    BY <1>t, <2>5 DEF WalkOK
  <2>8. IsFiniteSet(walk'.found)
    <3>1. IsFiniteSet(walk.found)
      BY <1>t DEF WalkOK
    <3>2. IsFiniteSet(walk.found \cup scan)
      BY <2>6, <3>1, FS_Union
    <3> QED BY <2>5, <3>2
  <2>9. \A x \in walk'.found : x[2].ts < walk'.before /\ HasLine(order[x[1]], x[2])
    <3>1. \A l \in Range(text) : HasLine(order[f], l)
      <4>1. \A l \in Range(text) : \E k \in 1 .. Len(text) : text[k] = l
        BY <1>2, RangeEquality
      <4>2. FileOK(f)
        BY DEF ReadInv
      <4>3. \A k \in 1 .. Len(text) : HasLine(order[f], text[k])
        BY <1>u, <1>1, <1>2, <4>2 DEF FileOK
      <4> QED BY <4>1, <4>3
    <3> QED BY <1>t, <2>5, <2>6, <3>1 DEF WalkOK
  <2>10. ASSUME walk.since > 0 => ~Swapped, NEW x \in walk.had \cap Present,
                x[2].ts >= walk.since, WasSeen(x) \/ Awaited(x)
         PROVE  WasSeen(x)' \/ Awaited(x)'
    <3>0. /\ x = <<x[1], x[2]>> /\ x[2].ts \in Nat
          /\ segment' = segment
      BY <1>0, PresentFacts, PagingSame
    <3>1. CASE WasSeen(x)
      BY <2>5, <3>1 DEF WasSeen
    <3>2. CASE Awaited(x) /\ (x \in walk.found \/ x[1] \in Range(walk.todo))
      BY <1>0, <2>5, <3>2 DEF Awaited
    <3>3. CASE Awaited(x) /\ ~(x \in walk.found \/ x[1] \in Range(walk.todo))
      <4>1. x[2].ts < walk.before /\ x[1] = f /\ \E j \in walk.names : x[2] \in Range(segment[f][j])
        BY <1>0, <1>2, <3>3 DEF Awaited
      <4>2. PICK j \in walk.names : x[2] \in Range(segment[f][j])
        BY <4>1
      <4>3. segment[f][j] \in Seq(Line) /\ j \in Segments /\ i \in Segments
        BY <1>t, <1>u, <1>1, ReadTypes
      <4>4. PICK k \in 1 .. Len(segment[f][j]) : x[2] = segment[f][j][k]
        BY <4>2, <4>3, RangeEquality
      \* It is not behind a line that is too old.
      <4>5. \A m \in 1 .. Len(text) : ~(TooOld(text[m]) /\ (j > i \/ (j = i /\ k <= m)))
        <5> SUFFICES ASSUME NEW m \in 1 .. Len(text), TooOld(text[m]), j > i \/ (j = i /\ k <= m)
                     PROVE  FALSE
          OBVIOUS
        <5>1. x[2].ts < walk.since
          BY <1>2, <2>10, <4>3, <4>4, TooOldFacts
        <5> QED BY <1>u, <2>10, <3>0, <5>1
      <4>6. CASE j = i
        <5>1. text[k] \in Range(Newer(text))
          BY <1>2, <4>4, <4>5, <4>6, NewerFacts
        <5>2. x \in scan
          BY <1>2, <2>6, <3>0, <4>1, <4>4, <4>6, <5>1
        <5> QED BY <2>5, <4>1, <5>2 DEF Awaited
      <4>7. CASE j # i
        <5>1. j > i
          <6>1. i \in Nat /\ j \in Nat
            BY <1>u
          <6>2. i <= j
            BY <1>1
          <6> QED BY <4>7, <6>1, <6>2
        <5>2. ~stop
          BY <1>2, <4>5, <5>1, RangeEquality
        <5>3. j \in names
          BY <2>1, <4>7, <5>2
        <5> QED BY <2>5, <3>0, <4>1, <4>2, <5>3 DEF Awaited
      <4> QED BY <4>6, <4>7
    <3> QED BY <2>10, <3>1, <3>2, <3>3
  <2> QED BY <1>0, <1>2, <2>5, <2>7, <2>8, <2>9, <2>10, WalkOn
<1> QED BY <1>3, <1>4

LEMMA FinishPageKeeps ==
    ASSUME ReadInv, FinishPage
    PROVE  ReadInv'
<1>0. Paging /\ walk.pc = "read" /\ walk.names = {} /\ walk.todo = <<>>
    BY DEF FinishPage
<1>t. ReadTyped /\ WalkOK /\ walk \in WalkRow
    BY DEF ReadInv, ReadTyped
<1>u. /\ walk.found \subseteq Files \X Line /\ walk.seen \subseteq Files \X Line /\ walk.before \in Nat
      /\ \A x \in walk.found \cup walk.seen : x[2].ts \in Nat
      /\ walk.twice \in BOOLEAN /\ walk.excused \in BOOLEAN
    BY <1>t, ReadTypes
<1>v. IsFiniteSet(walk.found) /\ ~walk.twice
    BY <1>t DEF WalkOK
<1>1. PICK n \in Nat : n = Cardinality(walk.found)
    BY <1>v, FS_CardinalityType
<1>p. PageSize \in Nat \ {0}
    BY ReadingAssumption
<1>2. PICK k \in Nat : k = IF n < PageSize THEN n ELSE PageSize
    BY <1>p
<1>3. PICK cut \in BOOLEAN : cut <=> walk.spent >= ScanLimit
    OBVIOUS
<1>4. PICK more \in BOOLEAN : more <=> (cut \/ n > PageSize) /\ k > 0
    BY Zenon
<1>5. PICK page \in Page(walk.found, k) :
          walk' = [walk EXCEPT !.pc = IF more THEN "between" ELSE "end",
                               !.before = IF more THEN Min({x[2].ts : x \in page}) ELSE 0,
                               !.seen = @ \cup page, !.twice = @ \/ page \cap walk.seen # {},
                               !.excused = @ \/ walk.spent >= ScanLimit, !.found = {}]
  <2>1. ((walk.spent >= ScanLimit \/ n > PageSize) /\ k > 0) = more
    BY <1>3, <1>4
  <2> QED BY <1>1, <1>2, <2>1, Zenon DEF FinishPage
<1>6. /\ page \subseteq walk.found /\ Cardinality(page) = k
      /\ \A x \in page, y \in walk.found \ page : x[2].ts >= y[2].ts
    BY <1>5 DEF Page
<1>7. PICK times : times = {x[2].ts : x \in page}
    OBVIOUS
<1>8. times \subseteq Nat
    BY <1>6, <1>7, <1>u
<1>9. more => times # {}
  <2>1. more => k # 0
    BY <1>4
  <2>2. page = {} => k = 0
    BY <1>6, FS_EmptySet
  <2> QED BY <1>7, <2>1, <2>2
<1>10. PICK b \in Nat : b = IF more THEN Min(times) ELSE 0
    BY <1>8, <1>9, MinIsLeast
<1>11. /\ more => \E x \in page : x[2].ts = b
       /\ \A x \in page : b <= x[2].ts
  <2>1. CASE more
    <3>1. b \in times /\ \A m \in times : b <= m
      BY <1>8, <1>9, <1>10, <2>1, MinIsLeast
    <3> QED BY <1>7, <3>1
  <2>2. CASE ~more
    <3>1. b = 0
      BY <1>10, <2>2
    <3> QED BY <1>6, <1>u, <2>2, <3>1
  <2> QED BY <2>1, <2>2
\* What was given before is newer than all that can be found now.
<1>12. page \cap walk.seen = {}
  <2> SUFFICES ASSUME NEW x \in page, x \in walk.seen PROVE FALSE
    OBVIOUS
  <2>1. x[2].ts < walk.before /\ walk.before <= x[2].ts
    BY <1>t, <1>6 DEF WalkOK
  <2> QED BY <1>6, <1>u, <2>1
<1>13. PICK pc \in {"between", "end"} : pc = IF more THEN "between" ELSE "end"
    OBVIOUS
<1>14. PICK pardoned \in BOOLEAN : pardoned <=> walk.excused \/ cut
    OBVIOUS
<1>15. walk' = [walk EXCEPT !.pc = pc, !.before = b, !.seen = walk.seen \cup page, !.twice = FALSE,
                            !.excused = pardoned, !.found = {}]
  <2>1. (walk.twice \/ page \cap walk.seen # {}) = FALSE
    BY <1>v, <1>u, <1>12
  <2>2. (walk.excused \/ walk.spent >= ScanLimit) = pardoned
    BY <1>u, <1>3, <1>14
  <2> QED BY <1>5, <1>7, <1>10, <1>13, <2>1, <2>2
<1>16. /\ walk' \in WalkRow /\ walk'.pc = pc /\ walk'.before = b /\ walk'.seen = walk.seen \cup page
       /\ walk'.twice = FALSE /\ walk'.excused = pardoned /\ walk'.found = {}
       /\ walk'.had = walk.had /\ walk'.since = walk.since
  <2>1. walk.seen \cup page \in SUBSET (Files \X Line) /\ {} \in SUBSET (Files \X Line)
    BY <1>u, <1>6
  <2> QED BY <1>t, <1>15, <2>1 DEF WalkRow
<1>17. \A x \in walk'.seen : walk'.before <= x[2].ts
  <2> SUFFICES ASSUME NEW x \in walk.seen PROVE b <= x[2].ts
    BY <1>11, <1>16
  <2>1. walk.before <= x[2].ts /\ x[2].ts \in Nat
    BY <1>t, <1>u DEF WalkOK
  <2>2. CASE more
    <3>1. PICK y \in page : y[2].ts = b
      BY <1>11, <2>2
    <3>2. b < walk.before
      BY <1>t, <1>6, <3>1 DEF WalkOK
    <3> QED BY <1>u, <2>1, <3>2
  <2>3. CASE ~more
    <3>1. b = 0
      BY <1>10, <2>3
    <3> QED BY <2>1, <3>1
  <2> QED BY <2>2, <2>3
<1>18. ASSUME ~walk'.excused, NEW x \in walk.had \cap Present, Unmistakable(x[2]),
              WasSeen(x) \/ Awaited(x)
       PROVE  WasSeen(x)' \/ Awaited(x)'
  <2>0. ~cut /\ x[2].ts \in Nat
    BY <1>14, <1>16, <1>18, PresentFacts
  <2>1. CASE WasSeen(x)
    BY <1>16, <2>1 DEF WasSeen
  <2>2. CASE Awaited(x)
    <3>1. x \in walk.found
      <4>1. Range(<<>>) = {}
        BY DEF Range
      <4> QED BY <1>0, <2>2, <4>1 DEF Awaited
    <3>2. CASE x \in page
      BY <1>16, <3>2 DEF WasSeen
    <3>3. CASE x \notin page
      \* A page that is not full holds everything.
      <4>1. more
        <5> SUFFICES ASSUME ~more PROVE FALSE
          OBVIOUS
        <5>1. k = n
          BY <1>2, <1>4, <1>p, <2>0
        <5>2. page = walk.found
          BY <1>1, <1>6, <1>v, <5>1, FS_Subset
        <5> QED BY <3>1, <3>3, <5>2
      <4>2. PICK y \in page : y[2].ts = b
        BY <1>11, <4>1
      <4>3. x[2].ts <= b
        BY <1>6, <1>u, <3>1, <3>3, <4>2
      <4>4. CASE x[2].ts < b
        <5>1. walk'.pc = "between"
          BY <1>13, <1>16, <4>1
        <5> QED BY <1>16, <4>4, <5>1 DEF Awaited
      <4>5. CASE x[2].ts = b
        <5>1. y[1] \in Files /\ HasLine(order[y[1]], y[2]) /\ order[y[1]] \in Seq(Line)
          BY <1>t, <1>6, <1>u, ReadTypes DEF WalkOK
        <5>2. y[2] \in Range(order[y[1]])
          BY <5>1, Places
        <5>3. y[2] = x[2]
          BY <1>18, <4>2, <4>5, <5>1, <5>2 DEF Unmistakable
        <5> QED BY <1>16, <5>3 DEF WasSeen
      <4> QED BY <2>0, <4>3, <4>4, <4>5
    <3> QED BY <3>2, <3>3
  <2> QED BY <1>18, <2>1, <2>2
<1>19. /\ walk'.pc # "off" /\ walk'.pc # "list" /\ walk'.pc # "read" /\ ~walk'.twice /\ IsFiniteSet(walk'.found)
       /\ \A x \in walk'.found : x[2].ts < walk'.before /\ HasLine(order[x[1]], x[2])
       /\ ~walk'.excused => ~walk.excused
    BY <1>13, <1>14, <1>16, FS_EmptySet
<1> QED BY <1>0, <1>16, <1>17, <1>18, <1>19, WalkOn

LEMMA ReadStep ==
    ASSUME ReadInv, ReadingNext
    PROVE  ReadInv'
<1>1. ASSUME NEW w \in Workers, EmitRecord(w) PROVE ReadInv'
    BY <1>1, EmitKeeps
<1>2. ASSUME NEW w \in Workers, LockFile(w) PROVE ReadInv'
    BY <1>2, LockKeeps
<1>3. ASSUME NEW w \in Workers, RollSegment(w) PROVE ReadInv'
    BY <1>3, RollKeeps
<1>4. ASSUME NEW w \in Workers, AppendLine(w) PROVE ReadInv'
    BY <1>4, AppendKeeps
<1>5. CASE OpenTail \/ PollTail
    BY <1>5, TailKeeps
<1>6. CASE OpenWalk
    BY <1>6, OpenWalkKeeps
<1>7. CASE NextPage
    BY <1>7, NextPageKeeps
<1>8. CASE ListSegments
    BY <1>8, ListKeeps
<1>9. CASE ReadSegment
    BY <1>9, ReadSegmentKeeps
<1>10. CASE EndOfFile
    BY <1>10, EndOfFileKeeps
<1>11. CASE FinishPage
    BY <1>11, FinishPageKeeps
<1> QED BY <1>1, <1>2, <1>3, <1>4, <1>5, <1>6, <1>7, <1>8, <1>9, <1>10, <1>11 DEF ReadingNext

LEMMA ReadInvStep == ReadInv /\ [Next]_vars => ReadInv'
<1> SUFFICES ASSUME ReadInv, [Next]_vars PROVE ReadInv'
    OBVIOUS
<1>1. ASSUME UNCHANGED readingVars, scene' = scene, scene \in {"tail", "pages"} => job' = job
      PROVE  ReadInv'
  <2>0. UNCHANGED <<segment, lines, clock, order, tail, walk>>
    BY <1>1 DEF readingVars
  <2>1. ReadTyped'
    BY <2>0 DEF ReadInv, ReadTyped
  <2>2. TailOK'
    BY <2>0, TailGoesOn DEF ReadInv
  <2>3. WalkOK'
    BY <2>0 DEF ReadInv, WalkOK, Swapped, Present, Unmistakable, WasSeen, Awaited
  <2>4. \A g \in Files : FileOK(g)'
    <3>1. ASSUME NEW g \in Files, FileOK(g) PROVE FileOK(g)'
      BY <2>0, <3>1 DEF FileOK
    <3> QED BY <3>1 DEF ReadInv
  <2>5. scene' \in {"tail", "pages"} => job' \in [Workers -> WriterRow] /\ \A w \in Workers : WriterOK(w)'
    <3>1. ASSUME NEW w \in Workers, WriterOK(w), job' = job PROVE WriterOK(w)'
      BY <2>0, <3>1 DEF WriterOK
    <3> QED BY <1>1, <3>1 DEF ReadInv
  <2> QED BY <2>1, <2>2, <2>3, <2>4, <2>5 DEF ReadInv
<1>2. CASE UNCHANGED vars
    BY <1>1, <1>2 DEF vars
<1>3. CASE Next /\ scene \in {"tail", "pages"}
  <2>1. ReadingNext
    BY <1>3 DEF Next
  <2> QED BY <2>1, ReadStep
<1>4. CASE Next /\ scene \notin {"tail", "pages"}
  <2>1. UNCHANGED readingVars /\ scene' = scene
    BY <1>4 DEF Next
  <2> QED BY <1>1, <1>4, <2>1
<1> QED BY <1>2, <1>3, <1>4

LEMMA ReadInvServes == ReadInv => ReadersAreFaithful
<1> SUFFICES ASSUME ReadInv PROVE ReadersAreFaithful
    OBVIOUS
<1>t. ReadTyped /\ TailOK /\ WalkOK
    BY DEF ReadInv
<1>1. TailIsFaithful
  <2>0. Len(<<>>) = 0
    BY EmptySeq
  <2>1. CASE tail.pc # "polling"
    <3>1. tail.sent = <<>> /\ tail.upto = 0
      BY <1>t, <2>1 DEF TailOK, KeepsUp
    <3>2. \A o : SubSeq(o, 1, 0) = <<>>
      BY SubSeqEmpty
    <3>3. \A o : tail.sent = SubSeq(o, tail.upto - Len(tail.sent) + 1, tail.upto)
      BY <2>0, <3>1, <3>2
    <3>4. 1 .. Len(tail.sent) = {}
      BY <2>0, <3>1
    <3> QED BY <3>3, <3>4 DEF TailIsFaithful
  <2>2. CASE tail.pc = "polling"
    <3>1. PICK o \in Seq(Line) : o = order[tail.file]
      BY <1>t, <2>2, ReadTypes DEF TailOK
    <3>2. PICK s \in Seq(Line), u \in Nat : s = tail.sent /\ u = tail.upto
      BY <1>t, ReadTypes
    <3>3. u <= Len(o) /\ SentOf(s, o, u) /\ (~tail.rolled => EndsAt(s, o, u))
      BY <1>t, <2>2, <3>1, <3>2 DEF TailOK, KeepsUp
    <3>4. Len(o) \in Nat /\ Len(s) \in Nat
      OBVIOUS
    <3>5. ASSUME NEW i \in 1 .. Len(s), NEW j \in 1 .. Len(s), i < j
          PROVE  \E a, b \in 1 .. Len(o) : a < b /\ o[a] = s[i] /\ o[b] = s[j]
      <4>1. PICK a \in 1 .. u, b \in 1 .. u : a < b /\ o[a] = s[i] /\ o[b] = s[j]
        BY <3>3, <3>5 DEF SentOf
      <4>2. a \in 1 .. Len(o) /\ b \in 1 .. Len(o)
        BY <3>3, <3>4
      <4> QED BY <4>1, <4>2
    <3>6. ASSUME EndsAt(s, o, u) PROVE s = SubSeq(o, u - Len(s) + 1, u)
      <4>1. PICK m \in Nat : m = Len(s)
        BY <3>4
      <4>2. m <= u /\ \A i \in 1 .. m : s[i] = o[u - m + i]
        BY <3>6, <4>1 DEF EndsAt
      <4>3. PICK c \in Nat : c = u - m + 1
        <5>1. u - m + 1 \in Nat
          BY <4>2
        <5> QED BY <5>1
      <4>4. \A i \in c .. u : o[i] \in Line
        <5>1. \A i \in c .. u : i \in 1 .. Len(o)
          BY <3>3, <3>4, <4>2, <4>3
        <5> QED BY <5>1
      <4>5. PICK r : r = SubSeq(o, c, u)
        OBVIOUS
      <4>6. /\ r \in Seq(Line) /\ Len(r) = IF c <= u THEN u - c + 1 ELSE 0
            /\ \A i \in 1 .. u - c + 1 : r[i] = o[c + i - 1]
        BY <4>4, <4>5, SubSeqProperties
      <4>7. Len(r) = m /\ u - c + 1 = m /\ \A i \in 1 .. m : c + i - 1 = u - m + i
        BY <4>2, <4>3, <4>6
      <4>8. \A i \in 1 .. m : r[i] = s[i]
        BY <4>2, <4>6, <4>7
      <4>9. s = r
        BY <4>1, <4>6, <4>7, <4>8, SeqEqual
      <4> QED BY <4>1, <4>3, <4>5, <4>9
    <3>7. tail.pc # "off"
      BY <2>2
    <3> QED BY <3>1, <3>2, <3>3, <3>5, <3>6, <3>7 DEF TailIsFaithful
  <2> QED BY <2>1, <2>2
<1>2. PagesAreComplete
  <2>1. walk.pc = "end" => \A x : ~Awaited(x)
    BY DEF Awaited
  <2> QED BY <1>t, <2>1 DEF PagesAreComplete, WalkOK, WasSeen
<1> QED BY <1>1, <1>2 DEF ReadersAreFaithful

\* What is logged is accounted for until it is shipped, and the readers of the
\* files, who take no lock, miss nothing and repeat nothing.
THEOREM LogsStayFaithful == Spec => []LogsAreFaithful
<1>1. Init => ShipInv /\ ReadInv
    BY InitShip, InitRead
<1>2. ShipInv /\ ReadInv /\ [Next]_vars => ShipInv' /\ ReadInv'
    BY ShipInvStep, ReadInvStep
<1>3. ShipInv /\ ReadInv => LogsAreFaithful
    BY ShipInvAccounts, ReadInvServes DEF LogsAreFaithful
<1> QED BY <1>1, <1>2, <1>3, PTL DEF Spec

-----------------------------------------------------------------------------
\* What limits the files and what is read of them: the lines of a file have
\* different numbers, those of a segment fit, and a writer about to append has
\* the file to itself and room in it.
Roomy == \A f \in Files, i \in Segments : f[2] # "events" => Len(segment[f][i]) <= Room
Counted ==
    \A f \in Files : \A a, b \in 1 .. Len(order[f]) :
       order[f][a].n > 0 /\ (order[f][a].n = order[f][b].n => a = b)
Locking(w) == job[w].pc \in {"roll", "append"}
WriterFits(w) ==
    /\ job[w].pc # "idle" => job[w].line.n > 0
    /\ job[w].pc = "append" /\ FileOf(w)[2] # "events" => Len(segment[FileOf(w)][0]) < Room
    /\ \A v \in Workers : v # w /\ Locking(v) /\ Locking(w) => FileOf(v) # FileOf(w)
BoundInv ==
    /\ Roomy /\ Counted /\ tail.known <= MaxLines
    /\ Writing => \A w \in Workers : WriterFits(w)

LEMMA OrderBound ==
    ASSUME ReadInv, BoundInv, NEW f \in Files
    PROVE  Len(order[f]) <= lines
<1>1. PICK o \in Seq(Line) : o = order[f]
    BY ReadTypes DEF ReadInv
<1>2. Len(o) \in Nat /\ lines \in Nat /\ \A a \in 1 .. Len(o) : o[a] \in Line
    BY <1>1, ReadTypes DEF ReadInv
<1>3. \A a \in 1 .. Len(o) : o[a].n <= lines
    BY <1>1 DEF ReadInv, FileOK
<1>4. \A a, b \in 1 .. Len(o) : o[a].n > 0 /\ (o[a].n = o[b].n => a = b)
    BY <1>1 DEF BoundInv, Counted
<1>5. \A l \in Line : l.n \in Nat
    BY DEF Line
<1> DEFINE g == [a \in 1 .. Len(o) |-> o[a].n]
<1>6. \A a \in 1 .. Len(o) : g[a] \in 1 .. lines
    BY <1>2, <1>3, <1>4, <1>5
<1>7. \A a, b \in 1 .. Len(o) : g[a] = g[b] => a = b
    BY <1>4
<1>8. DOMAIN g = 1 .. Len(o)
    OBVIOUS
<1> HIDE DEF g
<1> QED BY <1>1, <1>2, <1>6, <1>7, <1>8, AtMost

LEMMA BoundServes == ReadInv /\ BoundInv => ReadingTypeOK
<1> SUFFICES ASSUME ReadInv, BoundInv PROVE ReadingTypeOK
    OBVIOUS
<1>t. ReadTyped /\ TailOK
    BY DEF ReadInv
<1>1. Len(tail.sent) <= lines
  <2>1. CASE tail.pc # "polling"
    <3>1. Len(tail.sent) = 0
      BY <1>t, <2>1, EmptySeq DEF TailOK, KeepsUp
    <3> QED BY <1>t, <3>1, ReadTypes
  <2>2. CASE tail.pc = "polling"
    <3>1. tail.file \in Files
      BY <1>t, <2>2 DEF TailOK
    <3>2. PICK o \in Seq(Line) : o = order[tail.file]
      BY <1>t, <3>1, ReadTypes
    <3>3. PICK s \in Seq(Line), u \in Nat : s = tail.sent /\ u = tail.upto
      BY <1>t, ReadTypes
    <3>4. u <= Len(o) /\ SentOf(s, o, u) /\ Len(o) \in Nat /\ Len(s) \in Nat
      BY <1>t, <2>2, <3>2, <3>3 DEF TailOK, KeepsUp
    <3>5. \A a \in 1 .. u : a \in 1 .. Len(o)
      BY <3>4
    <3>6. \A a, b \in 1 .. Len(o) : o[a].n > 0 /\ (o[a].n = o[b].n => a = b)
      BY <3>1, <3>2 DEF BoundInv, Counted
    <3>7. \A a \in 1 .. Len(o) : o[a].n <= lines
      BY <3>1, <3>2 DEF ReadInv, FileOK
    <3>8. \A l \in Line : l.n \in Nat
      BY DEF Line
    <3> DEFINE g == [i \in 1 .. Len(s) |-> s[i].n]
    <3>9. ASSUME NEW i \in 1 .. Len(s) PROVE g[i] \in 1 .. lines
      <4>1. PICK a \in 1 .. u : o[a] = s[i]
        BY <3>4 DEF SentOf
      <4>2. o[a] \in Line /\ o[a].n \in Nat /\ o[a].n > 0 /\ o[a].n <= lines
        BY <3>5, <3>6, <3>7, <3>8
      <4>3. g[i] = o[a].n
        BY <4>1
      <4> HIDE DEF g
      <4> QED BY <1>t, <4>2, <4>3, ReadTypes
    <3>10. ASSUME NEW i \in 1 .. Len(s), NEW j \in 1 .. Len(s), i < j PROVE g[i] # g[j]
      <4>1. PICK a \in 1 .. u, b \in 1 .. u : a < b /\ o[a] = s[i] /\ o[b] = s[j]
        BY <3>4, <3>10 DEF SentOf
      <4>2. o[a].n # o[b].n
        BY <3>5, <3>6, <4>1
      <4> QED BY <4>1, <4>2
    <3>11. \A i, j \in 1 .. Len(s) : g[i] = g[j] => i = j
      <4>1. \A i, j \in 1 .. Len(s) : i < j \/ j < i \/ i = j
        BY <3>4
      <4> HIDE DEF g
      <4> QED BY <3>10, <4>1
    <3>12. DOMAIN g = 1 .. Len(s)
      OBVIOUS
    <3>13. lines \in Nat
      BY <1>t, ReadTypes
    <3> HIDE DEF g
    <3> QED BY <3>3, <3>4, <3>9, <3>11, <3>12, <3>13, AtMost
  <2> QED BY <2>1, <2>2
<1> QED BY <1>t, <1>1, ReadTypes DEF ReadingTypeOK, BoundInv, Roomy

LEMMA BoundInit == Init => BoundInv
<1> SUFFICES ASSUME Init PROVE BoundInv
    OBVIOUS
<1>1. /\ segment = [f \in Files |-> [i \in Segments |-> <<>>]] /\ order = [f \in Files |-> <<>>]
      /\ tail.known = 0 /\ job = [w \in Workers |-> Idle]
    BY DEF Init, ReadingInit, NoTail
<1>2. Room \in Nat /\ MaxLines \in Nat /\ Len(<<>>) = 0
    BY ReadingAssumption, EmptySeq
<1>3. Roomy /\ Counted
    BY <1>1, <1>2 DEF Roomy, Counted
<1>4. \A w \in Workers : job[w].pc = "idle"
    BY <1>1 DEF Idle
<1>5. \A w \in Workers : WriterFits(w)
    BY <1>4 DEF WriterFits, Locking
<1> QED BY <1>1, <1>2, <1>3, <1>5 DEF BoundInv

\* A writer that takes the next step, while the files stay.
LEMMA EmitBound ==
    ASSUME ReadInv, BoundInv, NEW w \in Workers, EmitRecord(w)
    PROVE  BoundInv'
<1>1. /\ Writing /\ scene' = scene /\ UNCHANGED <<segment, order, tail>>
    BY DEF EmitRecord, Reading, Writing
<1>2. PICK source \in Sources : lines' = lines + Len(TargetFiles(source)) /\
         job' = [job EXCEPT ![w] = [pc |-> "open", files |-> TargetFiles(source),
                                    line |-> [n |-> lines', ts |-> clock]]]
    BY DEF EmitRecord, Begin
<1>3. lines' \in Nat /\ lines' > 0
  <2>1. Len(TargetFiles(source)) \in {1, 2}
    BY Targets
  <2>2. lines \in Nat
    BY ReadTypes DEF ReadInv
  <2> QED BY <1>2, <2>1, <2>2
<1>4. job'[w].pc = "open" /\ job'[w].line.n > 0 /\ \A v \in Workers \ {w} : job'[v] = job[v]
    BY <1>1, <1>2, <1>3, WriterTypes
<1>5. ASSUME NEW v \in Workers PROVE WriterFits(v)'
  <2>1. \A u \in Workers : Locking(u)' => u # w /\ Locking(u) /\ FileOf(u)' = FileOf(u)
    BY <1>4 DEF Locking, FileOf
  <2>2. WriterFits(v)
    BY <1>1 DEF BoundInv
  <2>3. v # w => FileOf(v)' = FileOf(v) /\ job'[v] = job[v]
    BY <1>4 DEF FileOf
  <2> QED BY <1>1, <1>4, <2>1, <2>2, <2>3 DEF WriterFits
<1> QED BY <1>1, <1>5 DEF BoundInv, Roomy, Counted, Writing

LEMMA LockBound ==
    ASSUME ReadInv, BoundInv, NEW w \in Workers, LockFile(w)
    PROVE  BoundInv'
<1>1. /\ Writing /\ scene' = scene /\ UNCHANGED <<segment, order, tail>> /\ job[w].pc = "open"
      /\ \A v \in Workers : ~HasLock(v, FileOf(w))
    BY DEF LockFile, Reading, Writing, readingVars, IsAt
<1> DEFINE Full == FileOf(w)[2] # "events" /\ Len(segment[FileOf(w)][0]) >= Room
<1>a. PICK row : /\ job' = [job EXCEPT ![w] = row]
                 /\ Full => row = [pc |-> "roll", at |-> Rolled, files |-> job[w].files, line |-> job[w].line]
                 /\ ~Full => row = [pc |-> "append", files |-> job[w].files, line |-> job[w].line]
    BY DEF LockFile, Go
<1>2. /\ job' = [job EXCEPT ![w] = row] /\ row.files = job[w].files /\ row.line = job[w].line
      /\ row.pc = "roll" \/ (row.pc = "append" /\ ~Full)
  <2> HIDE DEF Full
  <2> QED BY <1>a
<1>3. job'[w] = row /\ \A v \in Workers \ {w} : job'[v] = job[v]
    BY <1>1, <1>2, WriterTypes
<1>4. \A v \in Workers : FileOf(v)' = FileOf(v)
    BY <1>2, <1>3 DEF FileOf
<1>5. FileOf(w) \in Files /\ Len(segment[FileOf(w)][0]) \in Nat /\ Room \in Nat
    BY <1>1, WriterTypes, ReadTypes, ReadingAssumption DEF ReadInv
<1>6. ASSUME NEW v \in Workers PROVE WriterFits(v)'
  <2>1. WriterFits(v) /\ WriterFits(w)
    BY <1>1 DEF BoundInv
  <2>2. \A u \in Workers \ {w} : Locking(u) => FileOf(u) # FileOf(w)
    BY <1>1 DEF HasLock, Locking
  <2>3. \A u \in Workers \ {w} : Locking(u)' = Locking(u)
    BY <1>3 DEF Locking
  <2>4. job'[v].pc # "idle" => job'[v].line.n > 0
    BY <1>1, <1>2, <1>3, <2>1 DEF WriterFits
  <2>5. job'[v].pc = "append" /\ FileOf(v)[2] # "events" => Len(segment[FileOf(v)][0]) < Room
    BY <1>2, <1>3, <1>5, <2>1 DEF WriterFits
  <2>6. \A u \in Workers : u # v /\ Locking(u)' /\ Locking(v)' => FileOf(u) # FileOf(v)
    BY <2>1, <2>2, <2>3 DEF WriterFits
  <2> QED BY <1>1, <1>4, <2>4, <2>5, <2>6 DEF WriterFits
<1> QED BY <1>1, <1>6 DEF BoundInv, Roomy, Counted, Writing

\* What a roll or an append leaves of the others.
LEMMA OthersFit ==
    ASSUME ReadInv, BoundInv, Writing, NEW w \in Workers, Locking(w),
           NEW row, job' = [job EXCEPT ![w] = row],
           \A g \in Files : g # FileOf(w) => segment'[g] = segment[g],
           NEW v \in Workers, v # w
    PROVE  /\ job'[v].pc # "idle" => job'[v].line.n > 0
           /\ job'[v].pc = "append" /\ FileOf(v)'[2] # "events" => Len(segment'[FileOf(v)'][0]) < Room
           /\ \A u \in Workers \ {w} : u # v /\ Locking(u)' /\ Locking(v)' => FileOf(u)' # FileOf(v)'
           /\ Locking(v)' => FileOf(v)' # FileOf(w)
<1>1. \A u \in Workers \ {w} : job'[u] = job[u]
    BY WriterTypes
<1>2. \A u \in Workers \ {w} : FileOf(u)' = FileOf(u) /\ Locking(u)' = Locking(u)
    BY <1>1 DEF FileOf, Locking
<1>3. WriterFits(v)
    BY DEF BoundInv
<1>4. Locking(v) => FileOf(v) # FileOf(w)
    BY <1>3 DEF WriterFits
<1>5. job[v].pc = "append" => segment'[FileOf(v)] = segment[FileOf(v)]
  <2>1. job[v].pc = "append" => FileOf(v) \in Files /\ Locking(v)
    BY WriterTypes DEF Locking
  <2> QED BY <1>4, <2>1
<1> QED BY <1>1, <1>2, <1>3, <1>4, <1>5 DEF WriterFits

LEMMA RollBound ==
    ASSUME ReadInv, BoundInv, NEW w \in Workers, RollSegment(w)
    PROVE  BoundInv'
<1> DEFINE f == FileOf(w)
           i == job[w].at
<1>1. /\ Writing /\ scene' = scene /\ UNCHANGED <<lines, order>> /\ job[w].pc = "roll"
      /\ tail' = [tail EXCEPT !.rolled = @ \/ tail.file = f]
      /\ segment' = [segment EXCEPT ![f] =
            IF i = Rolled THEN [@ EXCEPT ![i] = <<>>]
            ELSE IF @[i] = <<>> THEN @ ELSE [@ EXCEPT ![i + 1] = segment[f][i], ![i] = <<>>]]
    BY DEF RollSegment, Reading, Writing, IsAt
<1>2. PICK row : /\ job' = [job EXCEPT ![w] = row]
                 /\ i = 0 => row = [pc |-> "append", files |-> job[w].files, line |-> job[w].line]
                 /\ i # 0 => row = [job[w] EXCEPT !.at = i - 1]
    BY DEF RollSegment, Go
<1>t. ReadTyped
    BY DEF ReadInv
<1>3. /\ f \in Files /\ i \in Segments /\ job[w].line.n > 0 /\ job[w] \in WriterRow
      /\ Len(<<>>) = 0 /\ Room \in Nat \ {0} /\ Rolled \in Nat \ {0} /\ 0 \in Segments
  <2>1. WriterFits(w)
    BY <1>1 DEF BoundInv
  <2> QED BY <1>1, <1>t, <2>1, WriterTypes, ReadTypes, EmptySeq, ReadingAssumption DEF WriterFits
<1> HIDE DEF f, i
<1>4. row.files = job[w].files /\ row.line = job[w].line /\ (row.pc = "roll" \/ (row.pc = "append" /\ i = 0))
  <2>1. CASE i = 0
    BY <1>2, <2>1
  <2>2. CASE i # 0
    <3>1. PICK k : k = i - 1
      OBVIOUS
    <3>2. row = [job[w] EXCEPT !.at = k]
      BY <1>2, <2>2, <3>1
    <3>3. job[w] \in [pc : {"roll"}, at : Segments, files : Seq(Files), line : Line]
      BY <1>1, <1>3 DEF WriterRow
    <3> QED BY <1>1, <3>2, <3>3
  <2> QED BY <2>1, <2>2
<1>5. /\ \A g \in Files : g # f => segment'[g] = segment[g]
      /\ segment'[f] = IF i = Rolled THEN [segment[f] EXCEPT ![i] = <<>>]
                       ELSE IF segment[f][i] = <<>> THEN segment[f]
                       ELSE [segment[f] EXCEPT ![i + 1] = segment[f][i], ![i] = <<>>]
      /\ segment[f] \in [Segments -> Seq(Line)]
    BY <1>1, <1>3, <1>t DEF ReadTyped
<1>6. PICK s : s = segment[f]
    OBVIOUS
<1>7. ASSUME NEW j \in Segments
      PROVE  segment'[f][j] = <<>> \/ \E k \in Segments : segment'[f][j] = s[k]
  <2>1. s \in [Segments -> Seq(Line)]
    BY <1>5, <1>6
  <2>2. CASE i = Rolled
    <3>1. segment'[f] = [s EXCEPT ![i] = <<>>]
      BY <1>5, <1>6, <2>2
    <3> QED BY <2>1, <3>1
  <2>3. CASE i # Rolled /\ s[i] = <<>>
    <3>1. segment'[f] = s
      BY <1>5, <1>6, <2>3
    <3> QED BY <3>1
  <2>4. CASE i # Rolled /\ s[i] # <<>>
    <3>1. segment'[f] = [s EXCEPT ![i + 1] = s[i], ![i] = <<>>]
      BY <1>5, <1>6, <2>4
    <3> QED BY <1>3, <2>1, <3>1
  <2> QED BY <2>2, <2>3, <2>4
<1>8. i = 0 => segment'[f][0] = <<>>
  <2> SUFFICES ASSUME i = 0 PROVE segment'[f][0] = <<>>
    OBVIOUS
  <2>1. s \in [Segments -> Seq(Line)] /\ i # Rolled
    BY <1>3, <1>5, <1>6
  <2>2. CASE s[i] = <<>>
    <3>1. segment'[f] = s
      BY <1>5, <1>6, <2>1, <2>2
    <3> QED BY <2>2, <3>1
  <2>3. CASE s[i] # <<>>
    <3>1. segment'[f] = [s EXCEPT ![i + 1] = s[i], ![i] = <<>>]
      BY <1>5, <1>6, <2>1, <2>3
    <3> QED BY <1>3, <2>1, <3>1
  <2> QED BY <2>2, <2>3
<1>9. Roomy'
  <2> SUFFICES ASSUME NEW g \in Files, NEW j \in Segments, g[2] # "events"
               PROVE  Len(segment'[g][j]) <= Room
    BY DEF Roomy
  <2>1. \A k \in Segments : Len(segment[g][k]) <= Room
    BY DEF BoundInv, Roomy
  <2>2. CASE g # f
    BY <1>5, <2>1, <2>2
  <2>3. CASE g = f
    <3>1. segment'[g][j] = <<>> => Len(segment'[g][j]) <= Room
      BY <1>3
    <3>2. \A k \in Segments : segment'[g][j] = s[k] => Len(segment'[g][j]) <= Room
      BY <1>6, <2>1, <2>3
    <3> QED BY <1>7, <2>3, <3>1, <3>2
  <2> QED BY <2>2, <2>3
<1>10. ASSUME NEW v \in Workers PROVE WriterFits(v)'
  <2>0. Locking(w) /\ job'[w] = row
    BY <1>1, <1>2, WriterTypes DEF Locking
  <2>1. FileOf(w)' = f
    BY <1>4, <2>0 DEF FileOf, f
  <2>2. CASE v # w
    <3>1. /\ job'[v].pc # "idle" => job'[v].line.n > 0
          /\ job'[v].pc = "append" /\ FileOf(v)'[2] # "events" => Len(segment'[FileOf(v)'][0]) < Room
          /\ \A u \in Workers \ {w} : u # v /\ Locking(u)' /\ Locking(v)' => FileOf(u)' # FileOf(v)'
          /\ Locking(v)' => FileOf(v)' # f
      BY <1>1, <1>2, <1>5, <2>0, <2>2, OthersFit DEF f
    <3> QED BY <2>1, <3>1 DEF WriterFits
  <2>3. CASE v = w
    <3>1. job'[w].line.n > 0
      BY <1>3, <1>4, <2>0
    <3>2. \A u \in Workers : u # w /\ Locking(u)' => FileOf(u)' # f
      BY <1>1, <1>2, <1>5, <2>0, OthersFit DEF f
    <3>3. job'[w].pc = "append" => Len(segment'[f][0]) < Room
      BY <1>3, <1>4, <1>8, <2>0
    <3> QED BY <2>1, <2>3, <3>1, <3>2, <3>3 DEF WriterFits
  <2> QED BY <2>2, <2>3
<1>11. tail'.known = tail.known
    BY <1>1, <1>t DEF ReadTyped, TailRow
<1> QED BY <1>1, <1>9, <1>10, <1>11 DEF BoundInv, Counted, Writing

LEMMA AppendBound ==
    ASSUME ReadInv, BoundInv, NEW w \in Workers, AppendLine(w)
    PROVE  BoundInv'
<1> DEFINE f == FileOf(w)
<1>1. /\ Writing /\ scene' = scene /\ UNCHANGED <<lines, tail>> /\ job[w].pc = "append"
      /\ segment' = [segment EXCEPT ![f][0] = Append(@, job[w].line)]
      /\ order' = [order EXCEPT ![f] = Append(@, job[w].line)]
    BY DEF AppendLine, Reading, Writing, IsAt
<1>2. PICK row : /\ job' = [job EXCEPT ![w] = row]
                 /\ row.pc = "idle" \/ (row.pc = "open" /\ row.line = job[w].line)
  <2>1. Idle.pc = "idle"
    BY DEF Idle
  <2>2. CASE Len(job[w].files) = 1
    BY <2>1, <2>2 DEF AppendLine, Done
  <2>3. CASE Len(job[w].files) # 1
    <3> DEFINE row == [pc |-> "open", files |-> Tail(job[w].files), line |-> job[w].line]
    <3>1. row.pc = "open" /\ row.line = job[w].line
      OBVIOUS
    <3>2. job' = [job EXCEPT ![w] = row]
      BY <2>3 DEF AppendLine, Go
    <3> HIDE DEF row
    <3> QED BY <3>1, <3>2
  <2> QED BY <2>2, <2>3
<1>t. ReadTyped
    BY DEF ReadInv
<1>3. PICK l \in Line : l = job[w].line
    BY <1>1, WriterTypes
<1>4. /\ f \in Files /\ l.n > 0 /\ 0 \in Segments /\ Room \in Nat
      /\ f[2] # "events" => Len(segment[f][0]) < Room
  <2>1. WriterFits(w)
    BY <1>1 DEF BoundInv
  <2> QED BY <1>1, <1>3, <1>t, <2>1, WriterTypes, ReadTypes, ReadingAssumption DEF WriterFits
<1>5. /\ \A g \in Files : g # f => segment'[g] = segment[g] /\ order'[g] = order[g]
      /\ \A j \in Segments : j # 0 => segment'[f][j] = segment[f][j]
      /\ segment'[f][0] = Append(segment[f][0], l)
      /\ order'[f] = Append(order[f], l)
  <2> HIDE DEF f
  <2> QED BY <1>1, <1>3, <1>4, <1>t DEF ReadTyped
<1>6. \A a \in 1 .. Len(order[f]) : order[f][a].n # l.n
  <2>1. WriterOK(w) /\ job[w].files \in Seq(Files) /\ job[w].files # <<>> /\ f = job[w].files[1]
    BY <1>1, WriterTypes DEF ReadInv, Writing
  <2>2. 1 \in 1 .. Len(job[w].files)
    BY <2>1, EmptySeq
  <2> HIDE DEF f
  <2> QED BY <1>1, <1>3, <2>1, <2>2 DEF WriterOK
<1> HIDE DEF f
<1>7. Roomy'
  <2> SUFFICES ASSUME NEW g \in Files, NEW j \in Segments, g[2] # "events"
               PROVE  Len(segment'[g][j]) <= Room
    BY DEF Roomy
  <2>1. Len(segment[g][j]) <= Room
    BY DEF BoundInv, Roomy
  <2>2. CASE g = f /\ j = 0
    <3>1. segment[f][0] \in Seq(Line) /\ Len(segment[f][0]) \in Nat
      BY <1>4, <1>t, ReadTypes
    <3>2. Len(segment'[f][0]) = Len(segment[f][0]) + 1
      BY <1>5, <3>1
    <3> QED BY <1>4, <2>2, <3>1, <3>2
  <2> QED BY <1>5, <2>1, <2>2
<1>8. Counted'
  <2> SUFFICES ASSUME NEW g \in Files
               PROVE  \A a, b \in 1 .. Len(order'[g]) :
                         order'[g][a].n > 0 /\ (order'[g][a].n = order'[g][b].n => a = b)
    BY DEF Counted
  <2>1. \A a, b \in 1 .. Len(order[g]) : order[g][a].n > 0 /\ (order[g][a].n = order[g][b].n => a = b)
    BY DEF BoundInv, Counted
  <2>2. CASE g # f
    BY <1>5, <2>1, <2>2
  <2>3. CASE g = f
    <3>1. PICK o \in Seq(Line) : o = order[f]
      BY <1>4, <1>t, ReadTypes
    <3>2. PICK p : p = Append(o, l)
      OBVIOUS
    <3>3. /\ Len(o) \in Nat /\ Len(p) = Len(o) + 1 /\ p[Len(o) + 1] = l
          /\ \A a \in 1 .. Len(o) : p[a] = o[a]
      BY <3>2
    <3>4. \A a \in 1 .. Len(p) : a \in 1 .. Len(o) \/ a = Len(o) + 1
      BY <3>3
    <3>5. /\ \A a, b \in 1 .. Len(o) : o[a].n > 0 /\ (o[a].n = o[b].n => a = b)
          /\ \A a \in 1 .. Len(o) : o[a].n # l.n
      BY <1>6, <2>1, <2>3, <3>1
    <3>6. \A a, b \in 1 .. Len(p) : p[a].n > 0 /\ (p[a].n = p[b].n => a = b)
      BY <1>4, <3>3, <3>4, <3>5
    <3>7. order'[g] = p
      BY <1>5, <2>3, <3>1, <3>2
    <3> QED BY <3>6, <3>7
  <2> QED BY <2>2, <2>3
<1>9. ASSUME NEW v \in Workers PROVE WriterFits(v)'
  <2>0. Locking(w) /\ job'[w] = row
    BY <1>1, <1>2, WriterTypes DEF Locking
  <2>2. CASE v # w
    <3>1. /\ job'[v].pc # "idle" => job'[v].line.n > 0
          /\ job'[v].pc = "append" /\ FileOf(v)'[2] # "events" => Len(segment'[FileOf(v)'][0]) < Room
          /\ \A u \in Workers \ {w} : u # v /\ Locking(u)' /\ Locking(v)' => FileOf(u)' # FileOf(v)'
      BY <1>1, <1>2, <1>5, <2>0, <2>2, OthersFit DEF f
    <3>2. ~Locking(w)'
      BY <1>2, <2>0 DEF Locking
    <3> QED BY <3>1, <3>2 DEF WriterFits
  <2>3. CASE v = w
    BY <1>2, <1>3, <1>4, <2>0, <2>3 DEF WriterFits, Locking
  <2> QED BY <2>2, <2>3
<1> QED BY <1>1, <1>7, <1>8, <1>9 DEF BoundInv, Writing

LEMMA TailBound ==
    ASSUME ReadInv, BoundInv, OpenTail \/ PollTail
    PROVE  BoundInv'
<1>1. UNCHANGED <<scene, segment, order, job>>
    BY DEF OpenTail, PollTail, Tailing, On
<1>2. tail'.known <= MaxLines
  <2>0. 0 <= MaxLines /\ MaxLines \in Nat
    BY ReadingAssumption
  <2>1. CASE OpenTail
    <3>1. tail'.known = 0
      BY <2>1 DEF OpenTail, NoTail
    <3> QED BY <2>0, <3>1
  <2>2. CASE PollTail
    <3>1. tail.file \in Files
      BY <2>2 DEF PollTail, ReadInv, TailOK
    <3>2. PICK n : n = Len(segment[tail.file][0])
      OBVIOUS
    <3>3. tail'.known = n
      <4>1. PICK s, u, r : tail' = [tail EXCEPT !.pc = "polling", !.known = n, !.sent = s,
                                               !.rolled = r, !.upto = u]
        BY <2>2, <3>2 DEF PollTail
      <4> QED BY <4>1 DEF ReadInv, ReadTyped, TailRow
    <3>4. n <= Len(order[tail.file]) /\ n \in Nat /\ Len(order[tail.file]) \in Nat
      BY <3>1, <3>2, ReadTypes DEF ReadInv, FileOK
    <3>5. Len(order[tail.file]) <= lines /\ lines <= MaxLines /\ lines \in Nat
      BY <3>1, OrderBound, ReadTypes DEF ReadInv
    <3> QED BY <2>0, <3>3, <3>4, <3>5
  <2> QED BY <2>1, <2>2
<1> QED BY <1>1, <1>2 DEF BoundInv, Roomy, Counted, Writing, WriterFits, Locking, FileOf

LEMMA BoundStep == ReadInv /\ BoundInv /\ [Next]_vars => BoundInv'
<1> SUFFICES ASSUME ReadInv, BoundInv, [Next]_vars PROVE BoundInv'
    OBVIOUS
<1>1. ASSUME UNCHANGED <<scene, segment, order, tail>>, Writing => job' = job
      PROVE  BoundInv'
    BY <1>1 DEF BoundInv, Roomy, Counted, Writing, WriterFits, Locking, FileOf
<1>2. CASE UNCHANGED vars
    BY <1>1, <1>2 DEF vars, readingVars
<1>3. CASE Next /\ Writing
  <2>1. ReadingNext
    BY <1>3 DEF Next, Writing
  <2>2. ASSUME NEW w \in Workers, EmitRecord(w) \/ LockFile(w) \/ RollSegment(w) \/ AppendLine(w)
        PROVE  BoundInv'
    BY <2>2, EmitBound, LockBound, RollBound, AppendBound
  <2>3. CASE OpenTail \/ PollTail
    BY <2>3, TailBound
  <2>4. CASE OpenWalk \/ NextPage \/ ListSegments \/ ReadSegment \/ EndOfFile \/ FinishPage
    <3>1. Paging
      BY <2>4 DEF OpenWalk, NextPage, ListSegments, ReadSegment, EndOfFile, FinishPage
    <3> QED BY <1>1, <3>1 DEF Paging, On
  <2> QED BY <2>1, <2>2, <2>3, <2>4 DEF ReadingNext
<1>4. CASE Next /\ ~Writing
    BY <1>1, <1>4 DEF Next, Writing, readingVars
<1> QED BY <1>2, <1>3, <1>4
================================================================================
