---------------------------- MODULE OperationsProofs ----------------------------
(***************************************************************************)
(* Proofs about the operation of an installation: the license gate, the    *)
(* calls to and from other services, the delivery of events, the commands  *)
(* that fill the database, and its rows, tables and keys.  Each invariant  *)
(* says of its own scene what is under way, and of the other scenes that   *)
(* they leave its variables alone.  Together with those of LoggingProofs   *)
(* they make the type invariant.                                           *)
(***************************************************************************)
EXTENDS LoggingProofs

-----------------------------------------------------------------------------
(***************************************************************************)
(* The license gate.                                                       *)
(***************************************************************************)
LicenseRequest ==
         [pc : {"idle", "make", "write", "error"}]
    \cup [pc : {"build"}, salt : Workers]
    \cup [pc : {"save"}, key : Licenses]
    \cup [pc : {"check"}, names : SUBSET Licenses, covering : SUBSET Licenses,
          steady : SUBSET Licenses]
    \cup [pc : {"ask"}, key : Numbered, names : SUBSET Licenses, covering : SUBSET Licenses,
          steady : SUBSET Licenses]
    \cup [pc : {"answer"}, granted : BOOLEAN, covering : SUBSET Licenses,
          steady : SUBSET Licenses]

Memory == [Numbered -> Verdicts \cup {None}]

\* What is in memory and on disk has its shape, and a worker remembers what it
\* was told.
GateTyped ==
    /\ salt \in Workers \cup {None, "empty"}
    /\ keyFile \in [Licenses -> Workers \cup {None, "torn"}]
    /\ expired \subseteq Licenses
    /\ box \in [Workers -> [up : BOOLEAN, instance : Workers \cup {None},
                            context : {"keys", "rejecting", "null"}, answer : Memory]]
    /\ told \in [Workers -> Memory]
    /\ job \in [Workers -> LicenseRequest]
    /\ clash \in BOOLEAN

\* Only a worker that is up answers, and only one that is down boots.
BoxFits(w) ==
    /\ box[w].answer = told[w]
    /\ box[w].up => box[w].instance \in Workers
    /\ ~box[w].up => box[w] = Down
    /\ job[w].pc \in {"make", "write", "build"} => ~box[w].up
    /\ job[w].pc \in {"save", "check", "ask", "answer"} => box[w].up
    /\ setting.pinned /\ box[w].up => box[w].context = "keys"

\* A check has not counted on a key of which it was told that it is revoked.
Scrupulous(w) ==
    /\ job[w].pc \in {"check", "ask"} => job[w].names \cap job[w].covering = {}
    /\ job[w].pc = "ask" => job[w].key \in job[w].names /\ setting.online
    /\ job[w].pc \in {"check", "ask", "answer"} /\ setting.online =>
          \A k \in job[w].covering \cap Numbered : told[w][k] # "revoked"

Excused(w, k) ==
    k \in expired \/ (setting.online /\ k \in Numbered /\ told[w][k] = "revoked")

\* A check under way has still to look at a key that nobody touches, or
\* counted on it, or is excused.
Thorough(w) ==
    /\ job[w].pc \in {"check", "ask"} =>
          \A k \in job[w].steady : keyFile[k] \in Workers /\ (k \in job[w].names \/ k \in job[w].covering \/ Excused(w, k))
    /\ job[w].pc = "answer" => \A k \in job[w].steady : k \in job[w].covering \/ Excused(w, k)

\* Unless two made one at once, there is one salt, and all are bound to it.
OneSalt ==
    /\ \A v, w \in MakingSalt : v = w
    /\ MakingSalt # {} => salt \in {None, "empty"}
    /\ \A w \in Workers : /\ box[w].up => salt = box[w].instance
                          /\ job[w].pc = "build" => salt = job[w].salt
    /\ \A k \in Licenses : keyFile[k] \in Workers => salt = keyFile[k]

GateInv ==
    scene = "license" =>
        /\ GateTyped
        /\ \A w \in Workers : BoxFits(w) /\ Scrupulous(w)
        /\ setting.pinned /\ ~clash => OneSalt /\ \A w \in Workers : Thorough(w)

\* At the start nobody has a key, and every worker is down.
LEMMA InitGate == Init => GateInv
<1> SUFFICES ASSUME Init PROVE GateInv
    OBVIOUS
<1>1. GateTyped
    BY DEF Init, LicensingInit, GateTyped, Memory, LicenseRequest, Idle, Down
<1>2. \A w \in Workers : job[w].pc = "idle" /\ box[w] = Down /\ told[w] = Down.answer
    BY DEF Init, LicensingInit, Idle, Down
<1>3. \A w \in Workers : BoxFits(w) /\ Scrupulous(w) /\ Thorough(w)
  <2>1. Down.up = FALSE
    BY DEF Down
  <2> QED BY <1>2, <2>1 DEF BoxFits, Scrupulous, Thorough
<1>4. OneSalt
    BY <1>2, LicensingAssumption DEF OneSalt, MakingSalt, Init, LicensingInit, Down
<1> QED BY <1>1, <1>3, <1>4 DEF GateInv

\* Every step of the license gate leaves things in their shape.
LEMMA GateTypedStep ==
    ASSUME GateInv, scene = "license", LicensingNext
    PROVE  GateTyped'
<1> USE DEF GateInv, GateTyped
<1>i. Idle \in LicenseRequest
    BY DEF Idle, LicenseRequest
<1>d. /\ Down \in [up : BOOLEAN, instance : Workers \cup {None},
                     context : {"keys", "rejecting", "null"}, answer : Memory]
      /\ Down.answer \in Memory
    BY DEF Down, Memory
<1>u. \A k \in Licenses : Unsettled(k) \in [Workers -> LicenseRequest]
  <2> SUFFICES ASSUME NEW k \in Licenses, NEW v \in Workers
               PROVE  (IF job[v].pc \in {"check", "ask"} THEN [job[v] EXCEPT !.steady = @ \ {k}]
                                                       ELSE job[v]) \in LicenseRequest
    BY DEF Unsettled
  <2>1. CASE job[v].pc = "check"
    BY <2>1 DEF LicenseRequest
  <2>2. CASE job[v].pc = "ask"
    BY <2>2 DEF LicenseRequest
  <2> QED BY <2>1, <2>2
<1>1. ASSUME NEW w \in Workers, LookForSalt(w) PROVE GateTyped'
  <2>1. [pc |-> "make"] \in LicenseRequest
    BY DEF LicenseRequest
  <2>2. salt \in Workers => [pc |-> "build", salt |-> salt] \in LicenseRequest
    BY DEF LicenseRequest
  <2> QED BY <1>1, <2>1, <2>2 DEF LookForSalt, Begin, Licensed
<1>2. ASSUME NEW w \in Workers, OpenSalt(w) PROVE GateTyped'
  <2>1. [pc |-> "write"] \in LicenseRequest
    BY DEF LicenseRequest
  <2> QED BY <1>2, <2>1 DEF OpenSalt, Go
<1>3. ASSUME NEW w \in Workers, WriteSalt(w) PROVE GateTyped'
  <2>1. [pc |-> "build", salt |-> w] \in LicenseRequest
    BY DEF LicenseRequest
  <2> QED BY <1>3, <2>1 DEF WriteSalt, Go
<1>4. ASSUME NEW w \in Workers, BuildEnvironment(w) PROVE GateTyped'
  <2>1. job[w].salt \in Workers
    BY <1>4 DEF BuildEnvironment, IsAt, LicenseRequest
  <2>2. ContextAtBoot \in {"keys", "rejecting", "null"}
    BY DEF ContextAtBoot
  <2>3. [Down EXCEPT !.up = TRUE, !.instance = job[w].salt, !.context = ContextAtBoot]
            \in [up : BOOLEAN, instance : Workers \cup {None},
                 context : {"keys", "rejecting", "null"}, answer : Memory]
    BY <1>d, <2>1, <2>2 DEF Down
  <2> QED BY <1>4, <1>i, <2>3 DEF BuildEnvironment, Done
<1>5. ASSUME NEW w \in Workers, Stop(w) PROVE GateTyped'
    BY <1>5, <1>i, <1>d DEF Stop, Done
<1>6. ASSUME NEW w \in Workers, AddKey(w) PROVE GateTyped'
  <2>1. PICK k \in Licenses : /\ Changing(w, k, [pc |-> "save", key |-> k])
                              /\ keyFile' = [keyFile EXCEPT ![k] = "torn"]
    BY <1>6 DEF AddKey
  <2>2. [pc |-> "save", key |-> k] \in LicenseRequest
    BY DEF LicenseRequest
  <2>3. Unsettled(k) \in [Workers -> LicenseRequest]
    BY <1>u
  <2>4. job' \in [Workers -> LicenseRequest]
    BY <2>1, <2>2, <2>3 DEF Changing
  <2> QED BY <1>6, <2>1, <2>4 DEF AddKey
<1>7. ASSUME NEW w \in Workers, SaveKey(w) PROVE GateTyped'
    BY <1>7, <1>i DEF SaveKey, Done
<1>8. ASSUME NEW w \in Workers, RemoveKey(w) PROVE GateTyped'
  <2>1. PICK k \in Licenses : /\ Changing(w, k, Idle)
                              /\ keyFile' = [keyFile EXCEPT ![k] = None]
    BY <1>8 DEF RemoveKey
  <2>3. Unsettled(k) \in [Workers -> LicenseRequest]
    BY <1>u
  <2>4. job' \in [Workers -> LicenseRequest]
    BY <2>1, <1>i, <2>3 DEF Changing
  <2> QED BY <1>8, <2>1, <2>4 DEF RemoveKey
<1>9. ASSUME NEW w \in Workers, CheckFeature(w) PROVE GateTyped'
  <2>1. [pc |-> "check", names |-> {k \in Licenses : keyFile[k] # None}, covering |-> {},
         steady |-> {k \in Licenses : keyFile[k] \in Workers}] \in LicenseRequest
    BY DEF LicenseRequest
  <2> QED BY <1>9, <2>1 DEF CheckFeature, Begin
<1>10. ASSUME NEW w \in Workers, ReadKey(w) PROVE GateTyped'
  <2>0. job[w] \in [pc : {"check"}, names : SUBSET Licenses, covering : SUBSET Licenses,
                    steady : SUBSET Licenses]
    BY <1>10 DEF ReadKey, IsAt, LicenseRequest
  <2>1. PICK k \in job[w].names :
          Go(w, IF keyFile[k] = None THEN [pc |-> "error"]
                ELSE IF ~Covers(w, k) THEN [job[w] EXCEPT !.names = @ \ {k}]
                ELSE IF ~NeedsGate(k) THEN [job[w] EXCEPT !.names = @ \ {k}, !.covering = @ \cup {k}]
                ELSE [pc |-> "ask", key |-> k, names |-> job[w].names,
                      covering |-> job[w].covering, steady |-> job[w].steady])
    BY <1>10 DEF ReadKey
  <2>2. [pc |-> "error"] \in LicenseRequest
    BY DEF LicenseRequest
  <2>3. [job[w] EXCEPT !.names = @ \ {k}] \in LicenseRequest
    BY <2>0 DEF LicenseRequest
  <2>4. [job[w] EXCEPT !.names = @ \ {k}, !.covering = @ \cup {k}] \in LicenseRequest
    BY <2>0, <2>1 DEF LicenseRequest
  <2>5. NeedsGate(k) =>
            [pc |-> "ask", key |-> k, names |-> job[w].names,
             covering |-> job[w].covering, steady |-> job[w].steady] \in LicenseRequest
    BY <2>0 DEF LicenseRequest, NeedsGate
  <2>6. job' \in [Workers -> LicenseRequest]
    BY <2>1, <2>2, <2>3, <2>4, <2>5 DEF Go
  <2> QED BY <1>10, <2>6 DEF ReadKey
<1>g. ASSUME NEW w \in Workers, IsAt(w, "ask"), NEW verdict
      PROVE  Gated(w, job[w].key, verdict) \in LicenseRequest
    BY <1>g, LicensingAssumption DEF Gated, IsAt, LicenseRequest
<1>11. ASSUME NEW w \in Workers, AskAuthority(w) PROVE GateTyped'
  <2>1. PICK verdict \in Verdicts :
          /\ box' = [box EXCEPT ![w].answer[job[w].key] = verdict]
          /\ told' = [told EXCEPT ![w][job[w].key] = verdict]
          /\ Go(w, Gated(w, job[w].key, verdict))
    BY <1>11 DEF AskAuthority
  <2>2. job' \in [Workers -> LicenseRequest]
    BY <1>11, <1>g, <2>1 DEF AskAuthority, Go
  <2>3. told' \in [Workers -> Memory]
    BY <2>1 DEF Memory
  <2>4. [box[w].answer EXCEPT ![job[w].key] = verdict] \in Memory
    BY DEF Memory
  <2>5. box' \in [Workers -> [up : BOOLEAN, instance : Workers \cup {None},
                              context : {"keys", "rejecting", "null"}, answer : Memory]]
    BY <2>1, <2>4
  <2> QED BY <1>11, <2>2, <2>3, <2>5 DEF AskAuthority
<1>12. ASSUME NEW w \in Workers, RecallAnswer(w) PROVE GateTyped'
    BY <1>12, <1>g DEF RecallAnswer, Go
<1>13. ASSUME NEW w \in Workers, Answer(w) PROVE GateTyped'
  <2>1. [pc |-> "answer", granted |-> job[w].covering # {}, covering |-> job[w].covering,
         steady |-> job[w].steady] \in LicenseRequest
    BY <1>13 DEF Answer, IsAt, LicenseRequest
  <2> QED BY <1>13, <2>1 DEF Answer, Go
<1>14. ASSUME NEW w \in Workers, Responded(w) PROVE GateTyped'
    BY <1>14, <1>i DEF Responded, Done
<1>15. CASE TimePasses
    BY <1>15 DEF TimePasses
<1> QED
    BY <1>1, <1>2, <1>3, <1>4, <1>5, <1>6, <1>7, <1>8, <1>9, <1>10, <1>11, <1>12, <1>13,
       <1>14, <1>15
    DEF LicensingNext

\* A change of a key leaves a check what it is, but for the keys it counts as
\* steady.
LEMMA UnsettledKeeps ==
    ASSUME job \in [Workers -> LicenseRequest], NEW k \in Licenses, NEW v \in Workers
    PROVE  /\ Unsettled(k)[v].pc = job[v].pc
           /\ job[v].pc \in {"check", "ask"} =>
                 /\ Unsettled(k)[v].names = job[v].names
                 /\ Unsettled(k)[v].covering = job[v].covering
                 /\ Unsettled(k)[v].steady = job[v].steady \ {k}
           /\ job[v].pc = "ask" => Unsettled(k)[v].key = job[v].key
           /\ job[v].pc \notin {"check", "ask"} => Unsettled(k)[v] = job[v]
<1>1. CASE job[v].pc = "check"
    BY <1>1 DEF Unsettled, LicenseRequest
<1>2. CASE job[v].pc = "ask"
    BY <1>2 DEF Unsettled, LicenseRequest
<1>3. CASE job[v].pc \notin {"check", "ask"}
    BY <1>3 DEF Unsettled
<1> QED BY <1>1, <1>2, <1>3

\* What a worker has in memory, and what its check counts on, concern no other
\* worker.
LEMMA GateFitsStep ==
    ASSUME GateInv, scene = "license", LicensingNext
    PROVE  \A v \in Workers : (BoxFits(v) /\ Scrupulous(v))'
<1> SUFFICES ASSUME NEW v \in Workers
             PROVE  (BoxFits(v) /\ Scrupulous(v))'
    OBVIOUS
<1> DEFINE Same(u) == box'[u] = box[u] /\ told'[u] = told[u] /\ job'[u] = job[u]
<1>t. GateTyped /\ BoxFits(v) /\ Scrupulous(v) /\ (\A w \in Workers : BoxFits(w) /\ Scrupulous(w))
    BY DEF GateInv
<1>s. ASSUME Same(v), UNCHANGED setting PROVE (BoxFits(v) /\ Scrupulous(v))'
    BY <1>s, <1>t DEF BoxFits, Scrupulous
<1>r. ASSUME UNCHANGED <<box, told, setting>>, NEW k \in Licenses, job'[v] = Unsettled(k)[v]
      PROVE  (BoxFits(v) /\ Scrupulous(v))'
  <2>1. job \in [Workers -> LicenseRequest]
    BY <1>t DEF GateTyped
  <2> QED BY <1>r, <1>t, <2>1, UnsettledKeeps DEF BoxFits, Scrupulous
<1>d. Down.up = FALSE /\ Down.answer = [k \in Numbered |-> None]
    BY DEF Down
<1>1. ASSUME NEW w \in Workers, LookForSalt(w) PROVE (BoxFits(v) /\ Scrupulous(v))'
  <2>1. CASE v = w
    BY <1>1, <1>t, <2>1 DEF LookForSalt, Begin, Licensed, On, BoxFits, Scrupulous, GateTyped
  <2>2. CASE v # w
    BY <1>1, <1>s, <1>t, <2>2 DEF LookForSalt, Begin, Licensed, GateTyped
  <2> QED BY <2>1, <2>2
<1>2. ASSUME NEW w \in Workers, OpenSalt(w) PROVE (BoxFits(v) /\ Scrupulous(v))'
  <2>1. CASE v = w
    BY <1>2, <1>t, <2>1 DEF OpenSalt, Go, IsAt, Licensed, BoxFits, Scrupulous, GateTyped
  <2>2. CASE v # w
    BY <1>2, <1>s, <1>t, <2>2 DEF OpenSalt, Go, Licensed, GateTyped
  <2> QED BY <2>1, <2>2
<1>3. ASSUME NEW w \in Workers, WriteSalt(w) PROVE (BoxFits(v) /\ Scrupulous(v))'
  <2>1. CASE v = w
    BY <1>3, <1>t, <2>1 DEF WriteSalt, Go, IsAt, Licensed, BoxFits, Scrupulous, GateTyped
  <2>2. CASE v # w
    BY <1>3, <1>s, <1>t, <2>2 DEF WriteSalt, Go, Licensed, GateTyped
  <2> QED BY <2>1, <2>2
<1>4. ASSUME NEW w \in Workers, BuildEnvironment(w) PROVE (BoxFits(v) /\ Scrupulous(v))'
  <2>1. CASE v = w
    <3>1. /\ box'[v] = [Down EXCEPT !.up = TRUE, !.instance = job[v].salt, !.context = ContextAtBoot]
          /\ job'[v].pc = "idle" /\ told'[v] = told[v] /\ UNCHANGED setting
      BY <1>4, <1>t, <2>1 DEF BuildEnvironment, Done, Idle, Licensed, GateTyped
    <3>2. told[v] = Down.answer /\ job[v].salt \in Workers
      BY <1>4, <1>t, <2>1 DEF BuildEnvironment, IsAt, BoxFits, GateTyped, LicenseRequest
    <3>3. /\ box'[v].up /\ box'[v].instance \in Workers /\ box'[v].answer = told'[v]
          /\ box'[v].context = ContextAtBoot
      BY <3>1, <3>2 DEF Down
    <3> QED BY <3>1, <3>3 DEF BoxFits, Scrupulous, ContextAtBoot
  <2>2. CASE v # w
    BY <1>4, <1>s, <1>t, <2>2 DEF BuildEnvironment, Done, Licensed, GateTyped
  <2> QED BY <2>1, <2>2
<1>5. ASSUME NEW w \in Workers, Stop(w) PROVE (BoxFits(v) /\ Scrupulous(v))'
  <2>1. CASE v = w
    <3>1. box'[v] = Down /\ told'[v] = Down.answer /\ job'[v].pc = "idle"
      BY <1>5, <1>t, <2>1 DEF Stop, Done, Idle, GateTyped
    <3> QED BY <3>1, <1>d DEF BoxFits, Scrupulous
  <2>2. CASE v # w
    BY <1>5, <1>s, <1>t, <2>2 DEF Stop, Done, Licensed, GateTyped
  <2> QED BY <2>1, <2>2
<1>6. ASSUME NEW w \in Workers, AddKey(w) PROVE (BoxFits(v) /\ Scrupulous(v))'
  <2>1. PICK k \in Licenses : Changing(w, k, [pc |-> "save", key |-> k])
    BY <1>6 DEF AddKey
  <2>2. CASE v = w
    <3>1. job'[v].pc = "save"
      BY <2>1, <2>2 DEF Changing, Unsettled
    <3>2. box[v].up
      BY <1>6, <1>t, <2>2 DEF AddKey, BoxFits, Down
    <3> QED BY <1>6, <1>t, <3>1, <3>2 DEF AddKey, Licensed, BoxFits, Scrupulous
  <2>3. CASE v # w
    <3>1. job'[v] = Unsettled(k)[v]
      BY <2>1, <2>3 DEF Changing, Unsettled
    <3> QED BY <1>6, <1>r, <3>1 DEF AddKey, Licensed
  <2> QED BY <2>2, <2>3
<1>7. ASSUME NEW w \in Workers, SaveKey(w) PROVE (BoxFits(v) /\ Scrupulous(v))'
  <2>1. CASE v = w
    BY <1>7, <1>t, <2>1 DEF SaveKey, Done, Idle, Licensed, BoxFits, Scrupulous, GateTyped
  <2>2. CASE v # w
    BY <1>7, <1>s, <1>t, <2>2 DEF SaveKey, Done, Licensed, GateTyped
  <2> QED BY <2>1, <2>2
<1>8. ASSUME NEW w \in Workers, RemoveKey(w) PROVE (BoxFits(v) /\ Scrupulous(v))'
  <2>1. PICK k \in Licenses : Changing(w, k, Idle)
    BY <1>8 DEF RemoveKey
  <2>2. CASE v = w
    <3>1. job'[v].pc = "idle"
      BY <2>1, <2>2 DEF Changing, Unsettled, Idle
    <3> QED BY <1>8, <1>t, <3>1 DEF RemoveKey, Licensed, BoxFits, Scrupulous
  <2>3. CASE v # w
    <3>1. job'[v] = Unsettled(k)[v]
      BY <2>1, <2>3 DEF Changing, Unsettled
    <3> QED BY <1>8, <1>r, <3>1 DEF RemoveKey, Licensed
  <2> QED BY <2>2, <2>3
<1>9. ASSUME NEW w \in Workers, CheckFeature(w) PROVE (BoxFits(v) /\ Scrupulous(v))'
  <2>1. CASE v = w
    <3>1. job'[v].pc = "check" /\ job'[v].covering = {}
      BY <1>9, <1>t, <2>1 DEF CheckFeature, Begin, GateTyped
    <3> QED BY <1>9, <1>t, <2>1, <3>1 DEF CheckFeature, Licensed, BoxFits, Scrupulous
  <2>2. CASE v # w
    BY <1>9, <1>s, <1>t, <2>2 DEF CheckFeature, Begin, Licensed, GateTyped
  <2> QED BY <2>1, <2>2
<1>10. ASSUME NEW w \in Workers, ReadKey(w) PROVE (BoxFits(v) /\ Scrupulous(v))'
  <2>1. CASE v = w
    <3>0. job[v] \in [pc : {"check"}, names : SUBSET Licenses, covering : SUBSET Licenses,
                      steady : SUBSET Licenses]
      BY <1>10, <1>t, <2>1 DEF ReadKey, IsAt, GateTyped, LicenseRequest
    <3>1. PICK k \in job[v].names :
            Go(v, IF keyFile[k] = None THEN [pc |-> "error"]
                  ELSE IF ~Covers(v, k) THEN [job[v] EXCEPT !.names = @ \ {k}]
                  ELSE IF ~NeedsGate(k) THEN [job[v] EXCEPT !.names = @ \ {k}, !.covering = @ \cup {k}]
                  ELSE [pc |-> "ask", key |-> k, names |-> job[v].names,
                        covering |-> job[v].covering, steady |-> job[v].steady])
      BY <1>10, <2>1 DEF ReadKey
    <3>2. UNCHANGED <<box, told, setting>> /\ box[v].up
      BY <1>10, <1>t, <3>0 DEF ReadKey, Licensed, BoxFits
    <3>3. CASE job'[v] = [pc |-> "error"]
      BY <1>t, <3>2, <3>3 DEF BoxFits, Scrupulous
    <3>4. CASE job'[v] = [job[v] EXCEPT !.names = @ \ {k}]
      <4>1. job'[v].pc = "check" /\ job'[v].names = job[v].names \ {k} /\ job'[v].covering = job[v].covering
        BY <3>0, <3>4
      <4> QED BY <1>t, <3>0, <3>2, <4>1 DEF BoxFits, Scrupulous
    <3>5. CASE ~NeedsGate(k) /\ job'[v] = [job[v] EXCEPT !.names = @ \ {k}, !.covering = @ \cup {k}]
      <4>1. /\ job'[v].pc = "check" /\ job'[v].names = job[v].names \ {k}
            /\ job'[v].covering = job[v].covering \cup {k}
        BY <3>0, <3>5
      <4> QED BY <1>t, <3>0, <3>2, <3>5, <4>1 DEF BoxFits, Scrupulous, NeedsGate
    <3>6. CASE NeedsGate(k) /\ job'[v] = [pc |-> "ask", key |-> k, names |-> job[v].names,
                                          covering |-> job[v].covering, steady |-> job[v].steady]
      BY <1>t, <3>0, <3>2, <3>6 DEF BoxFits, Scrupulous, NeedsGate
    <3>7. \/ job'[v] \in {[pc |-> "error"], [job[v] EXCEPT !.names = @ \ {k}]}
          \/ ~NeedsGate(k) /\ job'[v] = [job[v] EXCEPT !.names = @ \ {k}, !.covering = @ \cup {k}]
          \/ NeedsGate(k) /\ job'[v] = [pc |-> "ask", key |-> k, names |-> job[v].names,
                                         covering |-> job[v].covering, steady |-> job[v].steady]
      BY <1>t, <3>1 DEF Go, GateTyped
    <3> QED BY <3>3, <3>4, <3>5, <3>6, <3>7
  <2>2. CASE v # w
    BY <1>10, <1>s, <1>t, <2>2 DEF ReadKey, Go, Licensed, GateTyped
  <2> QED BY <2>1, <2>2
<1>11. ASSUME NEW w \in Workers, AskAuthority(w) PROVE (BoxFits(v) /\ Scrupulous(v))'
  <2>1. PICK verdict \in Verdicts :
          /\ box' = [box EXCEPT ![w].answer[job[w].key] = verdict]
          /\ told' = [told EXCEPT ![w][job[w].key] = verdict]
          /\ Go(w, Gated(w, job[w].key, verdict))
    BY <1>11 DEF AskAuthority
  <2>2. CASE v = w
    <3>0. job[v] \in [pc : {"ask"}, key : Numbered, names : SUBSET Licenses,
                      covering : SUBSET Licenses, steady : SUBSET Licenses]
      BY <1>11, <1>t, <2>2 DEF AskAuthority, IsAt, GateTyped, LicenseRequest
    <3>1. /\ box'[v].answer = [box[v].answer EXCEPT ![job[v].key] = verdict]
          /\ box'[v].up = box[v].up /\ box'[v].instance = box[v].instance
          /\ box'[v].context = box[v].context
      BY <1>t, <2>1, <2>2 DEF GateTyped
    <3>2. told'[v] = [told[v] EXCEPT ![job[v].key] = verdict] /\ told[v] \in Memory
      BY <1>t, <2>1, <2>2 DEF GateTyped
    <3>3. job'[v] = Gated(v, job[v].key, verdict) /\ UNCHANGED setting
      BY <1>11, <1>t, <2>1, <2>2 DEF AskAuthority, Go, GateTyped, Licensed
    <3>4. BoxFits(v)'
      BY <1>t, <3>0, <3>1, <3>2, <3>3 DEF BoxFits, Gated
    <3>5. /\ job[v].key \in job[v].names /\ job[v].names \cap job[v].covering = {}
          /\ setting.online => \A k \in job[v].covering \cap Numbered : told[v][k] # "revoked"
      BY <1>t, <3>0 DEF Scrupulous
    <3>6. \A k \in Numbered : told'[v][k] = IF k = job[v].key THEN verdict ELSE told[v][k]
      BY <3>2 DEF Memory
    <3>7. /\ job'[v].pc = "check" /\ job'[v].names = job[v].names \ {job[v].key}
          /\ job'[v].covering = IF verdict = "revoked" THEN job[v].covering
                                ELSE job[v].covering \cup {job[v].key}
      BY <3>3 DEF Gated
    <3> QED BY <3>3, <3>4, <3>5, <3>6, <3>7 DEF Scrupulous
  <2>3. CASE v # w
    BY <1>11, <1>s, <1>t, <2>1, <2>3 DEF AskAuthority, Go, Licensed, GateTyped
  <2> QED BY <2>2, <2>3
<1>12. ASSUME NEW w \in Workers, RecallAnswer(w) PROVE (BoxFits(v) /\ Scrupulous(v))'
  <2>2. CASE v = w
    <3>0. job[v] \in [pc : {"ask"}, key : Numbered, names : SUBSET Licenses,
                      covering : SUBSET Licenses, steady : SUBSET Licenses]
      BY <1>12, <1>t, <2>2 DEF RecallAnswer, IsAt, GateTyped, LicenseRequest
    <3>3. /\ job'[v] = Gated(v, job[v].key, told[v][job[v].key])
          /\ UNCHANGED <<setting, box, told>>
      BY <1>12, <1>t, <2>2 DEF RecallAnswer, Go, GateTyped, Licensed, BoxFits
    <3>7. /\ job'[v].pc = "check" /\ job'[v].names = job[v].names \ {job[v].key}
          /\ job'[v].covering = IF told[v][job[v].key] = "revoked" THEN job[v].covering
                                ELSE job[v].covering \cup {job[v].key}
      BY <3>3 DEF Gated
    <3> QED BY <1>t, <3>0, <3>3, <3>7 DEF BoxFits, Scrupulous
  <2>3. CASE v # w
    BY <1>12, <1>s, <1>t, <2>3 DEF RecallAnswer, Go, Licensed, GateTyped
  <2> QED BY <2>2, <2>3
<1>13. ASSUME NEW w \in Workers, Answer(w) PROVE (BoxFits(v) /\ Scrupulous(v))'
  <2>1. CASE v = w
    <3>1. /\ job'[v].pc = "answer" /\ job'[v].covering = job[v].covering
          /\ job[v].pc = "check" /\ UNCHANGED <<setting, box, told>>
      BY <1>13, <1>t, <2>1 DEF Answer, Go, IsAt, Licensed, GateTyped
    <3> QED BY <1>t, <3>1 DEF BoxFits, Scrupulous
  <2>2. CASE v # w
    BY <1>13, <1>s, <1>t, <2>2 DEF Answer, Go, Licensed, GateTyped
  <2> QED BY <2>1, <2>2
<1>14. ASSUME NEW w \in Workers, Responded(w) PROVE (BoxFits(v) /\ Scrupulous(v))'
  <2>1. CASE v = w
    <3>1. job'[v].pc = "idle" /\ UNCHANGED <<setting, box, told>>
      BY <1>14, <1>t, <2>1 DEF Responded, Done, Idle, Licensed, GateTyped
    <3> QED BY <1>t, <3>1 DEF BoxFits, Scrupulous
  <2>2. CASE v # w
    BY <1>14, <1>s, <1>t, <2>2 DEF Responded, Done, Licensed, GateTyped
  <2> QED BY <2>1, <2>2
<1>15. CASE TimePasses
    BY <1>15, <1>s DEF TimePasses, Licensed
<1> QED
    BY <1>1, <1>2, <1>3, <1>4, <1>5, <1>6, <1>7, <1>8, <1>9, <1>10, <1>11, <1>12, <1>13,
       <1>14, <1>15
    DEF LicensingNext

\* While nobody clashes, the salt is made once.
LEMMA OneSaltStep ==
    ASSUME GateInv, scene = "license", LicensingNext, setting.pinned, ~clash'
    PROVE  OneSalt'
<1>t. GateTyped /\ (\A u \in Workers : BoxFits(u))
    BY DEF GateInv
<1>c. OneSalt /\ ~clash /\ UNCHANGED setting
    BY <1>t DEF GateInv, GateTyped, LicensingNext, LookForSalt, OpenSalt, WriteSalt,
       BuildEnvironment, Stop,
         AddKey, SaveKey, RemoveKey, CheckFeature, ReadKey, AskAuthority, RecallAnswer, Answer,
         Responded, TimePasses, Licensed
<1>n. MakingSalt # {} \/ salt \in {None, "empty"} =>
          /\ \A u \in Workers : ~box[u].up /\ job[u].pc # "build"
          /\ \A k \in Licenses : keyFile[k] \notin Workers
  <2>1. \A u \in Workers : job[u].pc = "build" => job[u].salt \in Workers
    BY <1>t DEF GateTyped, LicenseRequest
  <2> QED BY <1>t, <1>c, <2>1, LicensingAssumption DEF OneSalt, BoxFits
<1>f. ASSUME UNCHANGED salt,
             \A k \in Licenses : keyFile'[k] \in Workers => salt = keyFile'[k],
             \A u \in Workers : /\ box'[u].up => box[u].up /\ box'[u].instance = box[u].instance
                                /\ job'[u].pc \in {"make", "write"} => job[u].pc \in {"make", "write"}
                                /\ job'[u].pc = "build" => job[u].pc = "build" /\ job'[u].salt = job[u].salt
      PROVE  OneSalt'
    BY <1>c, <1>f DEF OneSalt, MakingSalt
<1>k. \A k \in Licenses : keyFile[k] \in Workers => salt = keyFile[k]
    BY <1>c DEF OneSalt
<1>i. Idle.pc = "idle"
    BY DEF Idle
<1>1. ASSUME NEW w \in Workers, LookForSalt(w) PROVE OneSalt'
  <2>0. UNCHANGED <<salt, keyFile, box>> /\ job[w].pc = "idle"
    BY <1>1 DEF LookForSalt, Begin, IsAt
  <2>1. CASE salt \in {None, "empty"}
    <3>1. MakingSalt = {}
      BY <1>1, <2>1 DEF LookForSalt
    <3>2. job' = [job EXCEPT ![w] = [pc |-> "make"]]
      BY <1>1, <2>1 DEF LookForSalt, Begin
    <3>3. MakingSalt' \subseteq {w}
      BY <1>t, <3>1, <3>2 DEF MakingSalt, GateTyped
    <3> QED BY <1>t, <1>n, <2>0, <2>1, <3>2, <3>3 DEF OneSalt, GateTyped
  <2>2. CASE salt \notin {None, "empty"}
    <3>1. job' = [job EXCEPT ![w] = [pc |-> "build", salt |-> salt]]
      BY <1>1, <2>2 DEF LookForSalt, Begin
    <3>2. MakingSalt' \subseteq MakingSalt
      BY <1>t, <3>1 DEF MakingSalt, GateTyped
    <3> QED BY <1>t, <1>c, <2>0, <2>2, <3>1, <3>2 DEF OneSalt, GateTyped
  <2> QED BY <2>1, <2>2
<1>2. ASSUME NEW w \in Workers, OpenSalt(w) PROVE OneSalt'
  <2>1. /\ salt' = "empty" /\ UNCHANGED <<keyFile, box>> /\ job[w].pc = "make"
        /\ job' = [job EXCEPT ![w] = [pc |-> "write"]]
    BY <1>2 DEF OpenSalt, IsAt, Go
  <2>2. MakingSalt' = MakingSalt /\ w \in MakingSalt
    BY <1>t, <2>1 DEF MakingSalt, GateTyped
  <2> QED BY <1>t, <1>c, <1>n, <2>1, <2>2 DEF OneSalt, GateTyped
<1>3. ASSUME NEW w \in Workers, WriteSalt(w) PROVE OneSalt'
  <2>1. /\ salt' = w /\ UNCHANGED <<keyFile, box>> /\ job[w].pc = "write"
        /\ job' = [job EXCEPT ![w] = [pc |-> "build", salt |-> w]]
    BY <1>3 DEF WriteSalt, IsAt, Go
  <2>2. MakingSalt' = {} /\ w \in MakingSalt
    BY <1>t, <1>c, <2>1 DEF MakingSalt, GateTyped, OneSalt
  <2> QED BY <1>t, <1>n, <2>1, <2>2 DEF OneSalt, GateTyped
<1>4. ASSUME NEW w \in Workers, BuildEnvironment(w) PROVE OneSalt'
  <2>1. /\ box' = [box EXCEPT ![w] = [Down EXCEPT !.up = TRUE, !.instance = job[w].salt, !.context = ContextAtBoot]]
        /\ job' = [job EXCEPT ![w] = Idle] /\ job[w].pc = "build"
        /\ UNCHANGED <<salt, keyFile>>
    BY <1>4 DEF BuildEnvironment, IsAt, Done
  <2>2. box'[w].instance = salt
    BY <1>t, <1>c, <2>1 DEF OneSalt, Down, GateTyped
  <2>3. MakingSalt' \subseteq MakingSalt
    BY <1>t, <1>i, <2>1 DEF MakingSalt, GateTyped
  <2> QED BY <1>t, <1>c, <1>i, <2>1, <2>2, <2>3 DEF OneSalt, GateTyped
<1>5. ASSUME NEW w \in Workers, Stop(w) PROVE OneSalt'
  <2>1. Down.up = FALSE
    BY DEF Down
  <2> QED BY <1>5, <1>t, <1>f, <1>k, <1>i, <2>1 DEF Stop, Done, GateTyped
<1>6. ASSUME NEW w \in Workers, AddKey(w) PROVE OneSalt'
  <2>1. PICK k \in Licenses : /\ Changing(w, k, [pc |-> "save", key |-> k])
                              /\ keyFile' = [keyFile EXCEPT ![k] = "torn"]
    BY <1>6 DEF AddKey
  <2>2. \A u \in Workers : \/ job'[u] = [pc |-> "save", key |-> k]
                           \/ job'[u].pc \in {"check", "ask"} 
                           \/ job'[u] = job[u]
    BY <1>t, <2>1, UnsettledKeeps DEF Changing, GateTyped, Unsettled
  <2> QED BY <1>6, <1>t, <1>f, <1>k, <2>1, <2>2, LicensingAssumption DEF AddKey, GateTyped
<1>7. ASSUME NEW w \in Workers, SaveKey(w) PROVE OneSalt'
  <2>1. box[w].instance = salt
    BY <1>7, <1>t, <1>c DEF SaveKey, IsAt, BoxFits, OneSalt
  <2> QED BY <1>7, <1>t, <1>f, <1>k, <1>i, <2>1 DEF SaveKey, Done, GateTyped
<1>8. ASSUME NEW w \in Workers, RemoveKey(w) PROVE OneSalt'
  <2>1. PICK k \in Licenses : Changing(w, k, Idle) /\ keyFile' = [keyFile EXCEPT ![k] = None]
    BY <1>8 DEF RemoveKey
  <2>2. \A u \in Workers : \/ job'[u] = Idle
                           \/ job'[u].pc \in {"check", "ask"} 
                           \/ job'[u] = job[u]
    BY <1>t, <2>1, UnsettledKeeps DEF Changing, GateTyped, Unsettled
  <2> QED BY <1>8, <1>t, <1>f, <1>k, <1>i, <2>1, <2>2, LicensingAssumption DEF RemoveKey, GateTyped
<1>9. ASSUME NEW w \in Workers, CheckFeature(w) PROVE OneSalt'
    BY <1>9, <1>t, <1>f, <1>k DEF CheckFeature, Begin, GateTyped
<1>10. ASSUME NEW w \in Workers, ReadKey(w) PROVE OneSalt'
  <2>0. job[w] \in [pc : {"check"}, names : SUBSET Licenses, covering : SUBSET Licenses,
                    steady : SUBSET Licenses]
    BY <1>10, <1>t DEF ReadKey, IsAt, GateTyped, LicenseRequest
  <2>1. \A u \in Workers : u # w => job'[u] = job[u]
    BY <1>10, <1>t DEF ReadKey, Go, GateTyped
  <2>2. job'[w].pc \in {"error", "check", "ask"}
    BY <1>10, <1>t, <2>0 DEF ReadKey, Go, GateTyped
  <2> QED BY <1>10, <1>f, <1>k, <2>1, <2>2 DEF ReadKey
<1>11. ASSUME NEW w \in Workers, AskAuthority(w) \/ RecallAnswer(w) PROVE OneSalt'
  <2>1. /\ \A u \in Workers : u # w => job'[u] = job[u]
        /\ job'[w].pc = "check"
    BY <1>11, <1>t DEF AskAuthority, RecallAnswer, Go, Gated, GateTyped
  <2>2. \A u \in Workers : box'[u].up = box[u].up /\ box'[u].instance = box[u].instance
    BY <1>11, <1>t DEF AskAuthority, RecallAnswer, GateTyped
  <2> QED BY <1>11, <1>f, <1>k, <2>1, <2>2 DEF AskAuthority, RecallAnswer
<1>13. ASSUME NEW w \in Workers, Answer(w) PROVE OneSalt'
    BY <1>13, <1>t, <1>f, <1>k DEF Answer, Go, GateTyped
<1>14. ASSUME NEW w \in Workers, Responded(w) PROVE OneSalt'
    BY <1>14, <1>t, <1>f, <1>k, <1>i DEF Responded, Done, GateTyped
<1>15. CASE TimePasses
    BY <1>15, <1>f, <1>k DEF TimePasses
<1> QED
    BY <1>1, <1>2, <1>3, <1>4, <1>5, <1>6, <1>7, <1>8, <1>9, <1>10, <1>11, <1>13, <1>14, <1>15
    DEF LicensingNext

\* A check goes through all the keys that were there when it began.
LEMMA ThoroughStep ==
    ASSUME GateInv, scene = "license", LicensingNext, setting.pinned, ~clash'
    PROVE  \A v \in Workers : Thorough(v)'
<1> SUFFICES ASSUME NEW v \in Workers PROVE Thorough(v)'
    OBVIOUS
<1>t. GateTyped /\ (\A u \in Workers : BoxFits(u) /\ Scrupulous(u))
    BY DEF GateInv
<1>c. OneSalt /\ Thorough(v) /\ UNCHANGED setting
    BY <1>t DEF GateInv, GateTyped, LicensingNext, LookForSalt, OpenSalt, WriteSalt,
       BuildEnvironment, Stop,
         AddKey, SaveKey, RemoveKey, CheckFeature, ReadKey, AskAuthority, RecallAnswer, Answer,
         Responded, TimePasses, Licensed
<1>q. ASSUME job'[v].pc \notin {"check", "ask", "answer"} PROVE Thorough(v)'
    BY <1>q DEF Thorough
<1>f. ASSUME job'[v] = job[v], told'[v] = told[v], expired \subseteq expired',
             \A k \in Licenses : keyFile[k] \in Workers => keyFile'[k] \in Workers
      PROVE  Thorough(v)'
  <2>1. job[v].pc \in {"check", "ask"} => job[v].steady \subseteq Licenses
    BY <1>t DEF GateTyped, LicenseRequest
  <2> QED BY <1>c, <1>f, <2>1 DEF Thorough, Excused
<1>r. ASSUME NEW k \in Licenses, job'[v] = Unsettled(k)[v], told'[v] = told[v], UNCHANGED expired,
             \A l \in Licenses : l # k => keyFile'[l] = keyFile[l]
      PROVE  Thorough(v)'
  <2>1. job[v].pc \in {"check", "ask"} => job[v].steady \subseteq Licenses
    BY <1>t DEF GateTyped, LicenseRequest
  <2>2. job \in [Workers -> LicenseRequest]
    BY <1>t DEF GateTyped
  <2>3. CASE job[v].pc \in {"check", "ask"}
    <3>1. /\ job'[v].pc = job[v].pc
          /\ job'[v].names = job[v].names /\ job'[v].covering = job[v].covering
          /\ job'[v].steady = job[v].steady \ {k}
      BY <1>r, <2>2, <2>3, UnsettledKeeps
    <3> QED BY <1>c, <1>r, <2>1, <2>3, <3>1 DEF Thorough, Excused
  <2>4. CASE job[v].pc \notin {"check", "ask"}
    <3>1. job'[v] = job[v]
      BY <1>r, <2>2, <2>4, UnsettledKeeps
    <3> QED BY <1>c, <1>r, <2>4, <3>1 DEF Thorough, Excused
  <2> QED BY <2>3, <2>4
<1>i. Idle.pc = "idle"
    BY DEF Idle
<1>1. ASSUME NEW w \in Workers, LookForSalt(w) PROVE Thorough(v)'
    BY <1>1, <1>t, <1>f, <1>q DEF LookForSalt, Begin, GateTyped
<1>2. ASSUME NEW w \in Workers, OpenSalt(w) \/ WriteSalt(w) PROVE Thorough(v)'
    BY <1>2, <1>t, <1>f, <1>q DEF OpenSalt, WriteSalt, Go, GateTyped
<1>4. ASSUME NEW w \in Workers, BuildEnvironment(w) PROVE Thorough(v)'
    BY <1>4, <1>t, <1>f, <1>q, <1>i DEF BuildEnvironment, Done, GateTyped
<1>5. ASSUME NEW w \in Workers, Stop(w) PROVE Thorough(v)'
    BY <1>5, <1>t, <1>f, <1>q, <1>i DEF Stop, Done, GateTyped
<1>6. ASSUME NEW w \in Workers, AddKey(w) PROVE Thorough(v)'
  <2>1. PICK k \in Licenses : /\ Changing(w, k, [pc |-> "save", key |-> k])
                              /\ keyFile' = [keyFile EXCEPT ![k] = "torn"]
    BY <1>6 DEF AddKey
  <2>2. CASE v = w
    <3>1. job'[v].pc = "save"
      BY <2>1, <2>2 DEF Changing, Unsettled
    <3> QED BY <1>q, <3>1
  <2>3. CASE v # w
    <3>1. job'[v] = Unsettled(k)[v]
      BY <2>1, <2>3 DEF Changing, Unsettled
    <3> QED BY <1>6, <1>t, <1>r, <2>1, <3>1 DEF AddKey, GateTyped
  <2> QED BY <2>2, <2>3
<1>7. ASSUME NEW w \in Workers, SaveKey(w) PROVE Thorough(v)'
  <2>1. box[w].instance \in Workers
    BY <1>7, <1>t DEF SaveKey, IsAt, BoxFits
  <2> QED BY <1>7, <1>t, <1>f, <1>q, <1>i, <2>1 DEF SaveKey, Done, GateTyped
<1>8. ASSUME NEW w \in Workers, RemoveKey(w) PROVE Thorough(v)'
  <2>1. PICK k \in Licenses : Changing(w, k, Idle) /\ keyFile' = [keyFile EXCEPT ![k] = None]
    BY <1>8 DEF RemoveKey
  <2>2. CASE v = w
    <3>1. job'[v].pc = "idle"
      BY <2>1, <2>2, <1>i DEF Changing, Unsettled
    <3> QED BY <1>q, <3>1
  <2>3. CASE v # w
    <3>1. job'[v] = Unsettled(k)[v]
      BY <2>1, <2>3 DEF Changing, Unsettled
    <3> QED BY <1>8, <1>t, <1>r, <2>1, <3>1 DEF RemoveKey, GateTyped
  <2> QED BY <2>2, <2>3
<1>9. ASSUME NEW w \in Workers, CheckFeature(w) PROVE Thorough(v)'
  <2>1. CASE v = w
    <3>1. /\ job'[v] = [pc |-> "check", names |-> {k \in Licenses : keyFile[k] # None}, covering |-> {},
                        steady |-> {k \in Licenses : keyFile[k] \in Workers}]
          /\ UNCHANGED <<keyFile, expired, told>>
      BY <1>9, <1>t, <2>1 DEF CheckFeature, Begin, GateTyped
    <3> QED BY <3>1, LicensingAssumption DEF Thorough
  <2>2. CASE v # w
    BY <1>9, <1>t, <1>f, <2>2 DEF CheckFeature, Begin, GateTyped
  <2> QED BY <2>1, <2>2
<1>10. ASSUME NEW w \in Workers, ReadKey(w) PROVE Thorough(v)'
  <2>1. CASE v = w
    <3>0. job[v] \in [pc : {"check"}, names : SUBSET Licenses, covering : SUBSET Licenses,
                      steady : SUBSET Licenses]
      BY <1>10, <1>t, <2>1 DEF ReadKey, IsAt, GateTyped, LicenseRequest
    <3>1. PICK k \in job[v].names :
            Go(v, IF keyFile[k] = None THEN [pc |-> "error"]
                  ELSE IF ~Covers(v, k) THEN [job[v] EXCEPT !.names = @ \ {k}]
                  ELSE IF ~NeedsGate(k) THEN [job[v] EXCEPT !.names = @ \ {k}, !.covering = @ \cup {k}]
                  ELSE [pc |-> "ask", key |-> k, names |-> job[v].names,
                        covering |-> job[v].covering, steady |-> job[v].steady])
      BY <1>10, <2>1 DEF ReadKey
    <3>2. UNCHANGED <<keyFile, expired, told>>
      BY <1>10 DEF ReadKey
    <3>3. CASE job'[v] = [pc |-> "error"]
      BY <1>q, <3>3
    <3>4. CASE ~Covers(v, k) /\ job'[v] = [job[v] EXCEPT !.names = @ \ {k}]
      <4>1. /\ job'[v].pc = "check" /\ job'[v].names = job[v].names \ {k}
            /\ job'[v].covering = job[v].covering /\ job'[v].steady = job[v].steady
        BY <3>0, <3>4
      <4>2. k \in job[v].steady => k \in expired
        <5>1. box[v].up /\ box[v].context = "keys" /\ box[v].instance = salt
          BY <1>t, <1>c, <3>0 DEF BoxFits, OneSalt
        <5>2. k \in job[v].steady => keyFile[k] = salt
          BY <1>c, <3>0 DEF Thorough, OneSalt
        <5> QED BY <3>4, <5>1, <5>2 DEF Covers
      <4> QED BY <1>c, <3>0, <3>2, <4>1, <4>2 DEF Thorough, Excused
    <3>5. CASE job'[v] = [job[v] EXCEPT !.names = @ \ {k}, !.covering = @ \cup {k}]
      <4>1. /\ job'[v].pc = "check" /\ job'[v].names = job[v].names \ {k}
            /\ job'[v].covering = job[v].covering \cup {k} /\ job'[v].steady = job[v].steady
        BY <3>0, <3>5
      <4> QED BY <1>c, <3>0, <3>2, <4>1 DEF Thorough, Excused
    <3>6. CASE job'[v] = [pc |-> "ask", key |-> k, names |-> job[v].names,
                          covering |-> job[v].covering, steady |-> job[v].steady]
      BY <1>c, <3>0, <3>2, <3>6 DEF Thorough, Excused
    <3>7. \/ job'[v] = [pc |-> "error"]
          \/ ~Covers(v, k) /\ job'[v] = [job[v] EXCEPT !.names = @ \ {k}]
          \/ job'[v] = [job[v] EXCEPT !.names = @ \ {k}, !.covering = @ \cup {k}]
          \/ job'[v] = [pc |-> "ask", key |-> k, names |-> job[v].names,
                         covering |-> job[v].covering, steady |-> job[v].steady]
      BY <1>t, <3>1 DEF Go, GateTyped
    <3> QED BY <3>3, <3>4, <3>5, <3>6, <3>7
  <2>2. CASE v # w
    BY <1>10, <1>t, <1>f, <2>2 DEF ReadKey, Go, GateTyped
  <2> QED BY <2>1, <2>2
<1>11. ASSUME NEW w \in Workers, AskAuthority(w) \/ RecallAnswer(w) PROVE Thorough(v)'
  <2>2. CASE v = w
    <3>0. job[v] \in [pc : {"ask"}, key : Numbered, names : SUBSET Licenses,
                      covering : SUBSET Licenses, steady : SUBSET Licenses]
      BY <1>11, <1>t, <2>2 DEF AskAuthority, RecallAnswer, IsAt, GateTyped, LicenseRequest
    <3>1. PICK verdict : /\ job'[v] = Gated(v, job[v].key, verdict)
                         /\ told'[v] = [told[v] EXCEPT ![job[v].key] = verdict]
                         /\ UNCHANGED <<keyFile, expired>>
      <4>1. CASE AskAuthority(w)
        BY <1>t, <2>2, <4>1 DEF AskAuthority, Go, GateTyped
      <4>2. CASE RecallAnswer(w)
        <5>1. told[v] \in Memory /\ box[v].answer = told[v]
          BY <1>t DEF GateTyped, BoxFits
        <5>2. told[v] = [told[v] EXCEPT ![job[v].key] = box[v].answer[job[v].key]]
          BY <5>1, <3>0 DEF Memory
        <5> QED BY <1>t, <2>2, <4>2, <5>2 DEF RecallAnswer, Go, GateTyped
      <4> QED BY <1>11, <4>1, <4>2
    <3>2. told[v] \in Memory
      BY <1>t DEF GateTyped
    <3>6. \A k \in Numbered : told'[v][k] = IF k = job[v].key THEN verdict ELSE told[v][k]
      BY <3>1, <3>2 DEF Memory
    <3>7. /\ job'[v].pc = "check" /\ job'[v].names = job[v].names \ {job[v].key}
          /\ job'[v].steady = job[v].steady
          /\ job'[v].covering = IF verdict = "revoked" THEN job[v].covering
                                ELSE job[v].covering \cup {job[v].key}
      BY <3>1 DEF Gated
    <3>8. setting.online
      BY <1>t, <3>0 DEF Scrupulous
    <3> QED BY <1>c, <3>0, <3>1, <3>6, <3>7, <3>8 DEF Thorough, Excused
  <2>3. CASE v # w
    BY <1>11, <1>t, <1>f, <2>3 DEF AskAuthority, RecallAnswer, Go, GateTyped
  <2> QED BY <2>2, <2>3
<1>13. ASSUME NEW w \in Workers, Answer(w) PROVE Thorough(v)'
  <2>1. CASE v = w
    <3>1. /\ job[v].pc = "check" /\ job[v].names = {}
          /\ job'[v].pc = "answer" /\ job'[v].covering = job[v].covering
          /\ job'[v].steady = job[v].steady /\ UNCHANGED <<told, expired>>
      BY <1>13, <1>t, <2>1 DEF Answer, Go, IsAt, GateTyped
    <3> QED BY <1>c, <3>1 DEF Thorough, Excused
  <2>2. CASE v # w
    BY <1>13, <1>t, <1>f, <2>2 DEF Answer, Go, GateTyped
  <2> QED BY <2>1, <2>2
<1>14. ASSUME NEW w \in Workers, Responded(w) PROVE Thorough(v)'
    BY <1>14, <1>t, <1>f, <1>q, <1>i DEF Responded, Done, GateTyped
<1>15. CASE TimePasses
    BY <1>15, <1>f DEF TimePasses
<1> QED
    BY <1>1, <1>2, <1>4, <1>5, <1>6, <1>7, <1>8, <1>9, <1>10, <1>11, <1>13, <1>14, <1>15
    DEF LicensingNext

\* The invariant of the license gate is inductive.
LEMMA GateStep == GateInv /\ [Next]_vars => GateInv'
<1> SUFFICES ASSUME GateInv, [Next]_vars PROVE GateInv'
    OBVIOUS
<1>1. CASE UNCHANGED vars
    BY <1>1 DEF vars, licenseVars, GateInv, GateTyped, BoxFits, Scrupulous, OneSalt, MakingSalt,
         Thorough, Excused
<1>2. CASE Next /\ scene = "license"
  <2>1. LicensingNext
    BY <1>2, SMTT(20) DEF Next
  <2>2. setting' = setting /\ scene' = scene
    BY <1>2, <2>1, Zenon DEF Next, LicensingNext, LookForSalt, OpenSalt, WriteSalt,
       BuildEnvironment, Stop,
         AddKey, SaveKey, RemoveKey, CheckFeature, ReadKey, AskAuthority, RecallAnswer, Answer,
         Responded, TimePasses, Licensed
  <2>3. GateTyped'
    BY <1>2, <2>1, GateTypedStep
  <2>4. \A v \in Workers : (BoxFits(v) /\ Scrupulous(v))'
    BY <1>2, <2>1, GateFitsStep
  <2>5. setting.pinned /\ ~clash' => OneSalt' /\ \A v \in Workers : Thorough(v)'
    BY <1>2, <2>1, OneSaltStep, ThoroughStep
  <2> QED BY <2>2, <2>3, <2>4, <2>5 DEF GateInv
<1>3. CASE Next /\ scene # "license"
    BY <1>3 DEF Next, GateInv
<1> QED BY <1>1, <1>2, <1>3

\* However workers boot, die and check, keys come and go and the authority
\* changes its mind, no worker grants a feature by a license of which it was
\* told that it is revoked, and, with one salt, none refuses a key that nobody
\* touched (LicenseManager, InstanceIdentity).
THEOREM TheGateIsRight == Spec => []GateIsRight
<1>1. GateInv => GateIsRight
  <2> SUFFICES ASSUME GateInv, NEW w \in Workers, scene = "license", IsAt(w, "answer")
               PROVE  /\ setting.online => \A k \in job[w].covering \cap Numbered : told[w][k] # "revoked"
                      /\ setting.pinned /\ ~clash => \A k \in job[w].steady :
                            \/ k \in expired
                            \/ setting.online /\ k \in Numbered /\ told[w][k] = "revoked"
                            \/ k \in job[w].covering
    BY DEF GateIsRight, RevocationIsHeld, KeysAreHonoured
  <2>1. Scrupulous(w) /\ (setting.pinned /\ ~clash => Thorough(w))
    BY DEF GateInv
  <2> QED BY <2>1 DEF Scrupulous, Thorough, Excused, IsAt
<1> QED BY <1>1, InitGate, GateStep, PTL DEF Spec

-----------------------------------------------------------------------------
(***************************************************************************)
(* The calls to a payment provider, and its webhooks.                      *)
(***************************************************************************)
ProviderRequest ==
    [pc : {"idle"}] \cup [pc : {"try", "store"}, op : Operations, tries : 0 .. MaxRetries]

SdkTyped ==
    /\ intent \in {None, "created", "captured", "refunded"} /\ known \in BOOLEAN
    /\ performed \in [Operations -> 0 .. MaxPerformed]
    /\ recorded \subseteq Operations /\ excused \subseteq Operations

\* What the provider knows and Redis has is what was done.
DoneIsKnown ==
    /\ known => performed["create"] > 0
    /\ "create" \in Keyed => performed["create"] = IF known THEN 1 ELSE 0
    /\ \A o \in recorded : performed[o] > 0

Busy(w, o) == job[w].pc \in {"try", "store"} /\ job[w].op = o

\* Of an operation that nothing excuses there is one call at a time; one that
\* was done is recorded or about to be, and not tried again.
OneCall(o) ==
    /\ performed[o] <= 1
    /\ scene = "sdk" =>
         /\ \A v, w \in Workers : Busy(v, o) /\ Busy(w, o) => v = w
         /\ performed[o] = 1 =>
                o \in recorded \/ \E w \in Workers : Busy(w, o) /\ job[w].pc = "store"
         /\ \A w \in Workers : Busy(w, o) /\ job[w].pc = "try" => performed[o] = 0

SdkInv ==
    /\ SdkTyped /\ DoneIsKnown
    /\ \A o \in Keyed \ excused : OneCall(o)
    /\ scene = "sdk" => /\ job \in [Workers -> ProviderRequest]
                        /\ \A w \in Workers : job[w].pc = "store" => performed[job[w].op] > 0

\* Nothing is asked of the provider at the start.
LEMMA InitSdk == Init => SdkInv
<1> SUFFICES ASSUME Init PROVE SdkInv
    OBVIOUS
<1>1. SdkTyped
  <2>1. 0 \in 0 .. MaxPerformed
    BY ProvidersAssumption
  <2> QED BY <2>1 DEF Init, ProvidersInit, SdkTyped
<1>2. \A w \in Workers : job[w].pc = "idle"
    BY DEF Init, Idle
<1>3. job \in [Workers -> ProviderRequest]
    BY DEF Init, Idle, ProviderRequest
<1>4. known = FALSE /\ recorded = {} /\ \A o \in Operations : performed[o] = 0
    BY DEF Init, ProvidersInit
<1>5. DoneIsKnown
    BY <1>4 DEF DoneIsKnown, Operations
<1>6. \A o \in Keyed : OneCall(o)
    BY <1>2, <1>4, ProvidersAssumption DEF OneCall, Busy
<1> QED BY <1>1, <1>2, <1>3, <1>5, <1>6 DEF SdkInv

\* The provider does an operation once more, or gives the payment it has.
LEMMA Performing ==
    ASSUME SdkTyped, DoneIsKnown, NEW o \in Operations, Perform(o),
           UNCHANGED recorded, excused' \subseteq Operations
    PROVE  /\ SdkTyped' /\ DoneIsKnown' /\ performed'[o] > 0
           /\ \A p \in Operations : p # o => performed'[p] = performed[p]
           /\ performed'[o] \in performed[o] .. performed[o] + 1
<1>1. CASE Again(o)
    BY <1>1 DEF Perform, SdkTyped, DoneIsKnown, Again
<1>2. CASE ~Again(o)
  <2>1. /\ performed' = [performed EXCEPT ![o] = @ + 1] /\ performed[o] < MaxPerformed
        /\ intent' = CASE o = "create" -> "created"
                       [] o = "capture" -> "captured"
                       [] o = "refund" -> "refunded"
        /\ known' = (known \/ (o = "create" /\ o \in Keyed))
    BY <1>2 DEF Perform
  <2>2. intent' \in {None, "created", "captured", "refunded"}
    BY <2>1 DEF Operations
  <2>3. known' \in BOOLEAN
    BY <2>1 DEF SdkTyped
  <2>4. /\ performed' \in [Operations -> 0 .. MaxPerformed]
        /\ performed'[o] = performed[o] + 1 /\ performed'[o] > 0
        /\ \A p \in Operations : p # o => performed'[p] = performed[p]
    BY <2>1, ProvidersAssumption DEF SdkTyped
  <2>5. SdkTyped'
    BY <2>2, <2>3, <2>4 DEF SdkTyped
  <2>6. \A p \in Operations : performed'[p] >= performed[p]
    BY <2>4 DEF SdkTyped
  <2>7. known' => performed'["create"] > 0
    BY <2>1, <2>4, <2>6 DEF DoneIsKnown, SdkTyped, Operations
  <2>8. "create" \in Keyed => performed'["create"] = IF known' THEN 1 ELSE 0
    <3> SUFFICES ASSUME "create" \in Keyed PROVE performed'["create"] = IF known' THEN 1 ELSE 0
      OBVIOUS
    <3>1. performed["create"] = IF known THEN 1 ELSE 0
      BY DEF DoneIsKnown
    <3>2. CASE o = "create"
      <4>1. known = FALSE
        BY <1>2, <3>2 DEF Again, SdkTyped
      <4>2. known' = TRUE
        BY <2>1, <3>2
      <4>3. performed["create"] = 0
        BY <3>1, <4>1
      <4>4. performed'["create"] = performed["create"] + 1
        BY <2>4, <3>2
      <4> QED BY <4>2, <4>3, <4>4
    <3>3. CASE o # "create"
      <4>1. performed'["create"] = performed["create"]
        BY <2>4, <3>3 DEF Operations
      <4> QED BY <2>1, <3>1, <3>3, <4>1
    <3> QED BY <3>2, <3>3
  <2>9. \A p \in recorded' : performed'[p] > 0
    BY <2>4, <2>6 DEF DoneIsKnown, SdkTyped
  <2>10. performed'[o] \in performed[o] .. performed[o] + 1
    BY <2>4, ProvidersAssumption DEF SdkTyped
  <2> QED BY <2>4, <2>5, <2>7, <2>8, <2>9, <2>10 DEF DoneIsKnown
<1> QED BY <1>1, <1>2

\* The steps of a call to the provider keep its invariant.
LEMMA SdkStep ==
    ASSUME SdkInv, scene = "sdk", UNCHANGED scene, ProvidersNext
    PROVE  SdkInv'
<1> DEFINE Recordable == \A u \in Workers : job[u].pc = "store" => performed[job[u].op] > 0
<1>t. /\ SdkTyped /\ DoneIsKnown /\ job \in [Workers -> ProviderRequest] /\ Recordable
      /\ \A o \in Keyed \ excused : OneCall(o)
    BY DEF SdkInv
<1>p. \A o \in Operations : performed[o] \in Nat
    BY ProvidersAssumption DEF SdkTyped, SdkInv
<1>i. Idle \in ProviderRequest /\ Idle.pc = "idle"
    BY DEF Idle, ProviderRequest
\* A call that ends without an answer.
<1>e. ASSUME NEW w \in Workers, Done(w), UNCHANGED <<intent, known, performed, recorded>>,
             excused' \subseteq Operations, excused \subseteq excused',
             job[w].pc = "store" => job[w].op \in excused'
      PROVE  SdkInv'
  <2>1. SdkTyped' /\ DoneIsKnown' /\ job' \in [Workers -> ProviderRequest]
    BY <1>t, <1>i, <1>e DEF SdkTyped, DoneIsKnown, Done
  <2>2. \A u \in Workers : u # w => job'[u] = job[u]
    BY <1>t, <1>e DEF Done
  <2>3. job'[w].pc = "idle"
    BY <1>t, <1>i, <1>e DEF Done
  <2>4. \A o \in Keyed \ excused' : OneCall(o)'
    BY <1>t, <1>e, <2>2, <2>3 DEF OneCall, Busy
  <2> QED BY <1>t, <1>e, <2>1, <2>2, <2>3, <2>4 DEF SdkInv
\* A call that is tried again: nothing else happens that a check could see.
<1>r. ASSUME NEW w \in Workers, IsAt(w, "try"), job'[w].pc \in {"idle", "try"},
             job'[w].pc = "try" => job'[w].op = job[w].op, SdkTyped', DoneIsKnown',
             job' \in [Workers -> ProviderRequest], UNCHANGED recorded,
             \A u \in Workers : u # w => job'[u] = job[u],
             excused \subseteq excused',
             \A o \in Operations : performed'[o] >= performed[o]
                                   /\ (performed'[o] = performed[o] \/ o \in excused')
      PROVE  SdkInv'
  <2>1. \A o \in Keyed \ excused' : OneCall(o)'
    BY <1>t, <1>r, ProvidersAssumption DEF OneCall, Busy, IsAt
  <2>2. ASSUME NEW u \in Workers, job'[u].pc = "store" PROVE performed'[job'[u].op] > 0
    <3>1. u # w /\ job'[u] = job[u] /\ job[u].pc = "store"
      BY <1>r, <2>2
    <3>2. job[u].op \in Operations
      BY <1>t, <3>1 DEF ProviderRequest
    <3>3. performed[job[u].op] > 0 /\ performed'[job[u].op] \in 0 .. MaxPerformed
      BY <1>t, <1>r, <3>1, <3>2 DEF SdkTyped
    <3>4. performed'[job[u].op] >= performed[job[u].op]
      BY <1>r, <3>2
    <3> QED BY <1>p, <3>1, <3>2, <3>3, <3>4
  <2> QED BY <1>r, <2>1, <2>2 DEF SdkInv
<1>1. ASSUME NEW w \in Workers, NEW o \in Operations, CheckKey(w, o) PROVE SdkInv'
  <2>1. /\ o \notin recorded /\ job[w].pc = "idle" /\ job' = [job EXCEPT ![w] = [pc |-> "try", op |-> o, tries |-> 0]]
        /\ excused' = IF Under(o, w) THEN excused \cup {o} ELSE excused
        /\ UNCHANGED <<intent, known, performed, recorded>>
    BY <1>1 DEF CheckKey, Call, Begin, IsAt
  <2>2. [pc |-> "try", op |-> o, tries |-> 0] \in ProviderRequest
    <3>1. 0 \in 0 .. MaxRetries
      BY ProvidersAssumption
    <3> QED BY <3>1 DEF ProviderRequest
  <2>3. job' \in [Workers -> ProviderRequest] /\ SdkTyped' /\ DoneIsKnown'
    BY <1>t, <2>1, <2>2 DEF SdkTyped, DoneIsKnown
  <2>4. ASSUME NEW p \in Keyed \ excused' PROVE OneCall(p)'
    <3>1. OneCall(p) /\ performed[p] \in Nat
      BY <1>t, <1>p, <2>1, <2>4, ProvidersAssumption
    <3>2. CASE p # o
      BY <1>t, <2>1, <3>1, <3>2 DEF OneCall, Busy
    <3>3. CASE p = o
      <4>1. \A v \in Workers : ~Busy(v, p)
        BY <2>1, <2>4, <3>3 DEF Under, Busy
      <4>2. performed[p] = 0
        BY <2>1, <3>1, <3>3, <4>1 DEF OneCall
      <4> QED BY <1>t, <2>1, <3>3, <4>1, <4>2 DEF OneCall, Busy
    <3> QED BY <3>2, <3>3
  <2> QED BY <1>t, <2>1, <2>3, <2>4 DEF SdkInv
<1>2. ASSUME NEW w \in Workers, AnswerCall(w) PROVE SdkInv'
  <2>0. /\ job[w].pc = "try" /\ job[w] \in ProviderRequest /\ job[w].op \in Operations
        /\ UNCHANGED <<recorded, excused>>
    BY <1>2, <1>t DEF AnswerCall, IsAt, ProviderRequest
  <2>1. CASE ~Possible(job[w].op)
    BY <1>2, <1>e, <1>t, <2>0, <2>1 DEF AnswerCall, SdkTyped
  <2>2. CASE Possible(job[w].op)
    <3>1. /\ SdkTyped' /\ DoneIsKnown' /\ performed'[job[w].op] > 0
          /\ \A p \in Operations : p # job[w].op => performed'[p] = performed[p]
          /\ performed'[job[w].op] \in performed[job[w].op] .. performed[job[w].op] + 1
      BY <1>2, <1>t, <2>0, <2>2, Performing DEF AnswerCall, SdkTyped
    <3>2. CASE job[w].op \in Keyed
      <4>1. job' = [job EXCEPT ![w] = [job[w] EXCEPT !.pc = "store"]]
        BY <1>2, <2>2, <3>2 DEF AnswerCall, Go
      <4>2. /\ [job[w] EXCEPT !.pc = "store"] \in ProviderRequest
            /\ job'[w].pc = "store" /\ job'[w].op = job[w].op
            /\ \A u \in Workers : u # w => job'[u] = job[u]
        BY <1>t, <2>0, <4>1 DEF ProviderRequest
      <4>3. job' \in [Workers -> ProviderRequest]
        BY <1>t, <4>1, <4>2
      <4>4. ASSUME NEW p \in Keyed \ excused' PROVE OneCall(p)'
        <5>1. OneCall(p) /\ performed[p] \in Nat /\ p \in Operations
          BY <1>t, <1>p, <2>0, <4>4, ProvidersAssumption
        <5>2. CASE p # job[w].op
          BY <2>0, <3>1, <4>2, <5>1, <5>2 DEF OneCall, Busy
        <5>3. CASE p = job[w].op
          <6>1. Busy(w, p) /\ performed[p] = 0 /\ \A u \in Workers : Busy(u, p) => u = w
            BY <2>0, <5>1, <5>3 DEF OneCall, Busy
          <6>2. performed'[p] <= 1
            BY <3>1, <5>3, <6>1
          <6>3. Busy(w, p)' /\ job'[w].pc = "store" /\ \A u \in Workers : Busy(u, p)' => u = w
            BY <2>0, <4>2, <5>3, <6>1 DEF Busy
          <6> QED BY <6>2, <6>3 DEF OneCall
        <5> QED BY <5>2, <5>3
      <4>5. ASSUME NEW u \in Workers, job'[u].pc = "store" PROVE performed'[job'[u].op] > 0
        <5>1. CASE u = w
          BY <3>1, <4>2, <5>1
        <5>2. CASE u # w
          <6>1. job[u].op \in Operations /\ performed[job[u].op] > 0 /\ job'[u] = job[u]
            BY <1>t, <4>2, <4>5, <5>2 DEF ProviderRequest
          <6> QED BY <3>1, <6>1
        <5> QED BY <5>1, <5>2
      <4> QED BY <3>1, <4>3, <4>4, <4>5 DEF SdkInv
    <3>3. CASE job[w].op \notin Keyed
      <4>1. job' = [job EXCEPT ![w] = Idle]
        BY <1>2, <2>2, <3>3 DEF AnswerCall, Done
      <4>2. /\ job' \in [Workers -> ProviderRequest] /\ job'[w].pc = "idle"
            /\ \A u \in Workers : u # w => job'[u] = job[u]
        BY <1>t, <1>i, <4>1
      <4>3. ASSUME NEW p \in Keyed \ excused' PROVE OneCall(p)'
        <5>1. OneCall(p) /\ p \in Operations /\ p # job[w].op
          BY <1>t, <2>0, <3>3, <4>3, ProvidersAssumption
        <5> QED BY <2>0, <3>1, <4>2, <5>1 DEF OneCall, Busy
      <4>4. ASSUME NEW u \in Workers, job'[u].pc = "store" PROVE performed'[job'[u].op] > 0
        <5>1. u # w /\ job[u].op \in Operations /\ performed[job[u].op] > 0 /\ job'[u] = job[u]
          BY <1>t, <4>2, <4>4 DEF ProviderRequest
        <5> QED BY <3>1, <5>1
      <4> QED BY <3>1, <4>2, <4>3, <4>4 DEF SdkInv
    <3> QED BY <3>2, <3>3
  <2> QED BY <2>1, <2>2
<1>3. ASSUME NEW w \in Workers, Refuse(w) PROVE SdkInv'
    BY <1>3, <1>e, <1>t DEF Refuse, IsAt, sdkVars, SdkTyped
<1>4. ASSUME NEW w \in Workers, IsAt(w, "try"), Retried(w)
      PROVE  /\ job' \in [Workers -> ProviderRequest] /\ job'[w].pc \in {"idle", "try"}
             /\ job'[w].pc = "try" => job'[w].op = job[w].op
             /\ \A u \in Workers : u # w => job'[u] = job[u]
  <2>0. job[w].pc = "try" /\ job[w] \in [pc : {"try", "store"}, op : Operations, tries : 0 .. MaxRetries]
    BY <1>4, <1>t DEF IsAt, ProviderRequest
  <2>1. CASE job[w].tries < MaxRetries
    <3>1. job[w].tries + 1 \in 0 .. MaxRetries
      BY <2>0, <2>1, ProvidersAssumption
    <3>2. /\ [job[w] EXCEPT !.tries = @ + 1] \in ProviderRequest
          /\ [job[w] EXCEPT !.tries = @ + 1].pc = "try"
          /\ [job[w] EXCEPT !.tries = @ + 1].op = job[w].op
      BY <2>0, <3>1 DEF ProviderRequest
    <3> HIDE DEF ProviderRequest
    <3>3. job' = [job EXCEPT ![w] = [job[w] EXCEPT !.tries = @ + 1]]
      BY <1>4, <2>1 DEF Retried, Go
    <3> QED BY <1>t, <3>2, <3>3
  <2>2. CASE ~(job[w].tries < MaxRetries)
    BY <1>4, <1>t, <1>i, <2>2 DEF Retried, Done
  <2> QED BY <2>1, <2>2
<1>5. ASSUME NEW w \in Workers, LoseRequest(w) PROVE SdkInv'
  <2>1. /\ job' \in [Workers -> ProviderRequest] /\ job'[w].pc \in {"idle", "try"}
        /\ job'[w].pc = "try" => job'[w].op = job[w].op
        /\ \A u \in Workers : u # w => job'[u] = job[u]
    BY <1>4, <1>5 DEF LoseRequest
  <2>2. IsAt(w, "try") /\ UNCHANGED <<intent, known, performed, recorded, excused>>
    BY <1>5 DEF LoseRequest, sdkVars
  <2>3. SdkTyped' /\ DoneIsKnown' /\ \A o \in Operations : performed'[o] >= performed[o]
    BY <1>t, <1>p, <2>2 DEF SdkTyped, DoneIsKnown
  <2> QED BY <1>r, <2>1, <2>2, <2>3
<1>6. ASSUME NEW w \in Workers, LoseAnswer(w) PROVE SdkInv'
  <2>1. /\ job' \in [Workers -> ProviderRequest] /\ job'[w].pc \in {"idle", "try"}
        /\ job'[w].pc = "try" => job'[w].op = job[w].op
        /\ \A u \in Workers : u # w => job'[u] = job[u]
    BY <1>4, <1>6 DEF LoseAnswer
  <2>2. /\ IsAt(w, "try") /\ Perform(job[w].op) /\ excused' = excused \cup {job[w].op}
        /\ recorded' = recorded
    BY <1>6 DEF LoseAnswer
  <2>3. job[w].op \in Operations
    BY <1>t, <2>2 DEF IsAt, ProviderRequest
  <2>4. /\ SdkTyped' /\ DoneIsKnown'
        /\ \A o \in Operations : o # job[w].op => performed'[o] = performed[o]
        /\ performed'[job[w].op] \in performed[job[w].op] .. performed[job[w].op] + 1
    BY <1>t, <2>2, <2>3, Performing DEF SdkTyped
  <2>5. \A o \in Operations : performed'[o] >= performed[o]
                              /\ (performed'[o] = performed[o] \/ o \in excused')
    BY <1>p, <2>2, <2>3, <2>4
  <2> QED BY <1>r, <2>1, <2>2, <2>4, <2>5
<1>7. ASSUME NEW w \in Workers, StoreAnswer(w) PROVE SdkInv'
  <2>1. /\ job[w].pc = "store" /\ job[w].op \in Operations /\ performed[job[w].op] > 0
        /\ recorded' = recorded \cup {job[w].op} /\ job' = [job EXCEPT ![w] = Idle]
        /\ UNCHANGED <<intent, known, performed, excused>>
    BY <1>7, <1>t DEF StoreAnswer, IsAt, Done, ProviderRequest
  <2>2. /\ job' \in [Workers -> ProviderRequest] /\ job'[w].pc = "idle"
        /\ \A u \in Workers : u # w => job'[u] = job[u]
    BY <1>t, <1>i, <2>1
  <2>3. SdkTyped' /\ DoneIsKnown'
    BY <1>t, <2>1 DEF SdkTyped, DoneIsKnown
  <2>4. ASSUME NEW p \in Keyed \ excused' PROVE OneCall(p)'
    <3>1. OneCall(p)
      BY <1>t, <2>1, <2>4
    <3> QED BY <2>1, <2>2, <3>1 DEF OneCall, Busy
  <2> QED BY <1>t, <2>1, <2>2, <2>3, <2>4 DEF SdkInv
<1>8. ASSUME NEW w \in Workers, StoreFails(w) PROVE SdkInv'
  <2>1. job[w].op \in Operations
    BY <1>8, <1>t DEF StoreFails, IsAt, ProviderRequest
  <2> QED BY <1>8, <1>e, <1>t, <2>1 DEF StoreFails, SdkTyped
<1>9. ASSUME NEW w \in Workers, CrashCall(w) PROVE SdkInv'
  <2>1. job[w].op \in Operations
    BY <1>9, <1>t DEF CrashCall, ProviderRequest
  <2> QED BY <1>9, <1>e, <1>t, <2>1 DEF CrashCall, IsAt, SdkTyped
<1>10. ASSUME NEW o \in Operations, Forget(o) PROVE SdkInv'
  <2>1. /\ recorded' = recorded \ {o} /\ excused' = excused \cup {o}
        /\ UNCHANGED <<intent, known, performed, job>>
    BY <1>10 DEF Forget
  <2>2. SdkTyped' /\ DoneIsKnown'
    BY <1>t, <2>1 DEF SdkTyped, DoneIsKnown
  <2>3. \A p \in Keyed \ excused' : OneCall(p)'
    BY <1>t, <2>1 DEF OneCall, Busy
  <2> QED BY <1>t, <2>1, <2>2, <2>3 DEF SdkInv
<1>11. RegisterHandler \/ Send \/ (\E m \in sent : Process(m)) => FALSE
    BY DEF RegisterHandler, Send, Process, Inbound, On
<1> QED
    BY <1>1, <1>2, <1>3, <1>5, <1>6, <1>7, <1>8, <1>9, <1>10, <1>11 DEF ProvidersNext

-----------------------------------------------------------------------------
(***************************************************************************)
(* The calls to language models.                                           *)
(***************************************************************************)
Asked ==
    [pc : {"ask", "stamp"}, row : Connections, edition : Nat, stamps : BOOLEAN,
     schema : Schemas, chat : BOOLEAN, left : Int, lost : BOOLEAN, reply : Replies]

Over ==
    [pc : {"over"}, kind : {"reply", "raised"}, reply : Replies, schema : Schemas,
     lost : BOOLEAN]

LlmRequest == [pc : {"idle"}] \cup Asked \cup Over

Connection == [edition : Nat \ {0}, active : BOOLEAN, stamped : BOOLEAN]

\* A reply that is kept was wanted, and who has not lost the row has it.
AskedWell(w) ==
    /\ job[w].pc \in {"ask", "stamp"} =>
         /\ job[w].chat => job[w].schema.expected = {}
         /\ job[w].lost \/ connection[job[w].row] \in Connection
    /\ job[w].pc = "stamp" => Wanted(w, job[w].reply)

Fits(r) ==
    /\ r.kind = "raised" => r.lost
    /\ r.kind = "reply" /\ r.schema.expected # {} =>
           /\ r.reply # None /\ r.reply \cap r.schema.expected # {}
           /\ r.schema.required \subseteq r.reply

LlmInv ==
    scene = "llm" =>
        /\ edits \in Nat
        /\ connection \in [Connections -> {NoConnection} \cup Connection]
        /\ job \in [Workers -> LlmRequest]
        /\ \A w \in Workers : AskedWell(w) /\ (IsAt(w, "over") => Fits(job[w]))

\* No model is asked anything at the start.
LEMMA InitLlm == Init => LlmInv
<1> SUFFICES ASSUME Init PROVE LlmInv
    OBVIOUS
<1>1. edits \in Nat /\ connection \in [Connections -> {NoConnection} \cup Connection]
    BY DEF Init, LlmInit
<1>2. job \in [Workers -> LlmRequest] /\ \A w \in Workers : job[w].pc = "idle"
    BY DEF Init, Idle, LlmRequest
<1> QED BY <1>1, <1>2 DEF LlmInv, AskedWell, IsAt

\* A row that is there is told from one that is not by its edition.
LEMMA StoredRow ==
    ASSUME connection \in [Connections -> {NoConnection} \cup Connection], NEW m \in Connections
    PROVE  Stored(m) <=> connection[m] \in Connection
BY DEF Stored, NoConnection, Connection

\* The steps of a call to a language model keep its invariant.
LEMMA LlmStep ==
    ASSUME LlmInv, scene = "llm", UNCHANGED scene, LlmNext
    PROVE  LlmInv' /\ StampKeepsEdits
<1>t. /\ edits \in Nat /\ connection \in [Connections -> {NoConnection} \cup Connection]
      /\ job \in [Workers -> LlmRequest]
      /\ \A w \in Workers : AskedWell(w) /\ (IsAt(w, "over") => Fits(job[w]))
    BY DEF LlmInv
<1>i. Idle \in LlmRequest /\ Idle.pc = "idle"
    BY DEF Idle, LlmRequest
\* Only the job of one worker changes.
<1>j. ASSUME NEW w \in Workers, NEW r \in LlmRequest, job' = [job EXCEPT ![w] = r],
             UNCHANGED llmVars,
             r.pc \in {"ask", "stamp"} => AskedWell(w)',
             r.pc = "over" => Fits(r)
      PROVE  LlmInv' /\ StampKeepsEdits
  <2>1. /\ \A v \in Workers : v # w => job'[v] = job[v]
        /\ job'[w] = r /\ job' \in [Workers -> LlmRequest]
    BY <1>t, <1>j
  <2>2. UNCHANGED <<connection, edits>>
    BY <1>j DEF llmVars
  <2>3. \A v \in Workers : AskedWell(v)'
    BY <1>t, <1>j, <2>1, <2>2 DEF AskedWell, Wanted
  <2>4. \A v \in Workers : IsAt(v, "over")' => Fits(job'[v])
    BY <1>t, <1>j, <2>1 DEF IsAt
  <2>5. StampKeepsEdits
    BY <2>2 DEF StampKeepsEdits, Unstamped, Stored
  <2> QED BY <1>t, <2>1, <2>2, <2>3, <2>4, <2>5 DEF LlmInv
\* Only a connection changes, and it stays one.
<1>s. ASSUME NEW m \in Connections, NEW c \in Connection, connection' = [connection EXCEPT ![m] = c],
             edits' \in Nat, UNCHANGED job
      PROVE  LlmInv' /\ StampKeepsEdits
  <2>1. connection' \in [Connections -> {NoConnection} \cup Connection]
    BY <1>t, <1>s
  <2>2. \A v \in Workers : AskedWell(v)'
    BY <1>t, <1>s DEF AskedWell, Wanted
  <2>3. StampKeepsEdits
    BY <1>s DEF StampKeepsEdits, IsAt
  <2> QED BY <1>t, <1>s, <2>1, <2>2, <2>3 DEF LlmInv, IsAt
<1>1. ASSUME NEW m \in Connections, CreateConnection(m) PROVE LlmInv' /\ StampKeepsEdits
  <2>1. PICK active \in BOOLEAN : connection' = [connection EXCEPT ![m] =
              [edition |-> edits + 1, active |-> active, stamped |-> FALSE]]
    BY <1>1 DEF CreateConnection
  <2>2. [edition |-> edits + 1, active |-> active, stamped |-> FALSE] \in Connection
    BY <1>t DEF Connection
  <2>3. edits' \in Nat /\ UNCHANGED job
    BY <1>1, <1>t DEF CreateConnection
  <2> QED BY <1>s, <2>1, <2>2, <2>3
<1>2. ASSUME NEW m \in Connections, UpdateConnection(m) PROVE LlmInv' /\ StampKeepsEdits
  <2>1. PICK active \in BOOLEAN :
            connection' = [connection EXCEPT ![m].edition = edits + 1, ![m].active = active]
    BY <1>2 DEF UpdateConnection
  <2>2. connection[m] \in Connection
    BY <1>2, <1>t, StoredRow DEF UpdateConnection
  <2>3. [connection[m] EXCEPT !.edition = edits + 1, !.active = active] \in Connection
    <3>1. edits + 1 \in Nat \ {0}
      BY <1>t
    <3> QED BY <2>2, <3>1 DEF Connection
  <2>4. connection' = [connection EXCEPT ![m] = [connection[m] EXCEPT !.edition = edits + 1, !.active = active]]
    BY <1>t, <2>1
  <2>5. edits' \in Nat /\ UNCHANGED job
    BY <1>2, <1>t DEF UpdateConnection
  <2> QED BY <1>s, <2>3, <2>4, <2>5
<1>3. ASSUME NEW m \in Connections, SetActive(m) PROVE LlmInv' /\ StampKeepsEdits
  <2>1. PICK active \in BOOLEAN : connection' = [connection EXCEPT ![m].active = active]
    BY <1>3 DEF SetActive
  <2>2. connection[m] \in Connection
    BY <1>3, <1>t, StoredRow DEF SetActive
  <2>3. [connection[m] EXCEPT !.active = active] \in Connection
    BY <2>2 DEF Connection
  <2>4. connection' = [connection EXCEPT ![m] = [connection[m] EXCEPT !.active = active]]
    BY <1>t, <2>1
  <2> QED BY <1>3, <1>s, <1>t, <2>3, <2>4 DEF SetActive
<1>4. ASSUME NEW m \in Connections, DeleteConnection(m) PROVE LlmInv' /\ StampKeepsEdits
  <2>1. connection' = [connection EXCEPT ![m] = NoConnection] /\ job' = Gone(m) /\ UNCHANGED edits
    BY <1>4 DEF DeleteConnection
  <2>2. ASSUME NEW w \in Workers
        PROVE  /\ job'[w] \in LlmRequest /\ job'[w].pc = job[w].pc
               /\ job[w].pc = "over" => job'[w] = job[w]
               /\ AskedWell(w)'
    <3>1. CASE job[w].pc \in {"ask", "stamp"} /\ job[w].row = m
      <4>1. job[w] \in Asked
        BY <1>t, <3>1 DEF LlmRequest, Over
      <4>2. job'[w] = [job[w] EXCEPT !.lost = TRUE]
        BY <2>1, <3>1 DEF Gone
      <4>3. /\ [job[w] EXCEPT !.lost = TRUE] \in Asked
            /\ job'[w].pc = job[w].pc /\ job'[w].chat = job[w].chat /\ job'[w].schema = job[w].schema
            /\ job'[w].reply = job[w].reply
        BY <4>1, <4>2 DEF Asked
      <4>4. job'[w].lost
        BY <4>1, <4>2 DEF Asked
      <4>5. AskedWell(w)
        BY <1>t
      <4> QED BY <3>1, <4>2, <4>3, <4>4, <4>5 DEF AskedWell, Wanted, LlmRequest
    <3>2. CASE ~(job[w].pc \in {"ask", "stamp"} /\ job[w].row = m)
      <4>1. job'[w] = job[w]
        BY <2>1, <3>2 DEF Gone
      <4>2. job[w].pc \in {"ask", "stamp"} => connection'[job[w].row] = connection[job[w].row]
        BY <1>t, <2>1, <3>2
      <4> QED BY <1>t, <4>1, <4>2 DEF AskedWell, Wanted
    <3> QED BY <3>1, <3>2
  <2>3. job' \in [Workers -> LlmRequest]
    BY <2>1, <2>2 DEF Gone
  <2>4. connection' \in [Connections -> {NoConnection} \cup Connection]
    BY <1>t, <2>1
  <2>5. StampKeepsEdits
    BY <2>2 DEF StampKeepsEdits, IsAt
  <2> QED BY <1>t, <2>1, <2>2, <2>3, <2>4, <2>5 DEF LlmInv, IsAt
<1>5. ASSUME NEW w \in Workers, NEW m \in Connections, Resolve(w, m) \/ TestConnection(w, m)
      PROVE  LlmInv' /\ StampKeepsEdits
  <2>1. connection[m] \in Connection
    BY <1>5, <1>t, StoredRow DEF Resolve, TestConnection
  <2>2. PICK s \in Schemas, chat \in BOOLEAN, stamps \in BOOLEAN :
          /\ chat => s.expected = {}
          /\ Begin(w, [pc |-> "ask", row |-> m, edition |-> connection[m].edition,
                       stamps |-> stamps, schema |-> s, chat |-> chat,
                       left |-> IF chat THEN 1 ELSE MaxAttempts, lost |-> FALSE, reply |-> None])
    BY <1>5 DEF Resolve, TestConnection, Client
  <2> DEFINE r == [pc |-> "ask", row |-> m, edition |-> connection[m].edition,
                   stamps |-> stamps, schema |-> s, chat |-> chat,
                   left |-> IF chat THEN 1 ELSE MaxAttempts, lost |-> FALSE, reply |-> None]
  <2>3. r \in Asked
    <3>1. None \in Replies
      BY DEF Replies
    <3>2. (IF chat THEN 1 ELSE MaxAttempts) \in Int
      BY LlmAssumption
    <3>3. connection[m].edition \in Nat
      BY <2>1 DEF Connection
    <3> QED BY <3>1, <3>2, <3>3 DEF Asked
  <2>4. UNCHANGED llmVars /\ job' = [job EXCEPT ![w] = r]
    BY <1>5, <2>2 DEF Resolve, TestConnection, Client, Begin
  <2>5. r.pc = "ask" /\ r.row = m /\ r.chat = chat /\ r.schema = s
    OBVIOUS
  <2>6. r \in LlmRequest
    BY <2>3 DEF LlmRequest
  <2> HIDE DEF r
  <2>7. AskedWell(w)'
    <3>1. job'[w] = r /\ connection' = connection
      BY <1>t, <2>4 DEF llmVars
    <3> QED BY <2>1, <2>2, <2>5, <3>1 DEF AskedWell
  <2> QED BY <1>j, <2>4, <2>5, <2>6, <2>7
<1>6. ASSUME NEW w \in Workers, AskFails(w) \/ Return(w) PROVE LlmInv' /\ StampKeepsEdits
    BY <1>6, <1>j, <1>i DEF AskFails, Return, Done
<1>7. ASSUME NEW w \in Workers, NEW reply \in Replies, AskAgain(w, reply)
      PROVE  LlmInv' /\ StampKeepsEdits
  <2>0. job[w].pc = "ask" /\ job[w] \in Asked /\ AskedWell(w) /\ UNCHANGED llmVars
    BY <1>7, <1>t DEF AskAgain, IsAt, LlmRequest, Over
  <2>1. CASE job[w].left = 1
    BY <1>7, <1>j, <1>i, <2>1 DEF AskAgain, Done
  <2>2. CASE job[w].left # 1
    <3> DEFINE r == [job[w] EXCEPT !.left = @ - 1]
    <3>1. /\ r \in Asked /\ r.pc = "ask" /\ r.row = job[w].row /\ r.chat = job[w].chat
          /\ r.schema = job[w].schema /\ r.lost = job[w].lost
      BY <2>0 DEF Asked
    <3>2. job' = [job EXCEPT ![w] = r]
      BY <1>7, <2>2 DEF AskAgain, Go
    <3>3. r \in LlmRequest
      BY <3>1 DEF LlmRequest
    <3> HIDE DEF r
    <3>4. job'[w] = r /\ connection' = connection
      BY <1>t, <2>0, <3>2 DEF llmVars
    <3>5. AskedWell(w)'
      BY <2>0, <3>1, <3>4 DEF AskedWell
    <3> QED BY <1>j, <2>0, <3>1, <3>2, <3>3, <3>5
  <2> QED BY <2>1, <2>2
<1>8. ASSUME NEW w \in Workers, NEW reply \in Replies, AskSucceeds(w, reply)
      PROVE  LlmInv' /\ StampKeepsEdits
  <2>0. /\ job[w].pc = "ask" /\ job[w] \in Asked /\ AskedWell(w) /\ Wanted(w, reply)
        /\ UNCHANGED llmVars
    BY <1>8, <1>t DEF AskSucceeds, IsAt, LlmRequest, Over
  <2>1. CASE job[w].stamps /\ ~job[w].lost
    <3> DEFINE r == [job[w] EXCEPT !.pc = "stamp", !.reply = reply]
    <3>1. /\ r \in Asked /\ r.pc = "stamp" /\ r.row = job[w].row /\ r.chat = job[w].chat
          /\ r.schema = job[w].schema /\ r.lost = job[w].lost /\ r.reply = reply
      BY <2>0 DEF Asked
    <3>2. job' = [job EXCEPT ![w] = r]
      BY <1>8, <2>1 DEF AskSucceeds, Go
    <3>3. r \in LlmRequest
      BY <3>1 DEF LlmRequest
    <3> HIDE DEF r
    <3>4. job'[w] = r /\ connection' = connection
      BY <1>t, <2>0, <3>2 DEF llmVars
    <3>5. AskedWell(w)'
      BY <2>0, <3>1, <3>4 DEF AskedWell, Wanted
    <3> QED BY <1>j, <2>0, <3>1, <3>2, <3>3, <3>5
  <2>2. CASE ~(job[w].stamps /\ ~job[w].lost)
    <3> DEFINE r == [pc |-> "over", kind |-> "reply", reply |-> reply,
                     schema |-> job[w].schema, lost |-> job[w].lost]
    <3>1. /\ r \in Over /\ r.pc = "over" /\ r.kind = "reply" /\ r.reply = reply
          /\ r.schema = job[w].schema
      BY <2>0 DEF Asked, Over
    <3>2. job' = [job EXCEPT ![w] = r]
      BY <1>8, <2>2 DEF AskSucceeds, Go, End
    <3>3. r \in LlmRequest
      BY <3>1 DEF LlmRequest
    <3> HIDE DEF r
    <3>4. Fits(r)
      BY <2>0, <3>1 DEF Fits, AskedWell, Wanted, Matches
    <3> QED BY <1>j, <2>0, <3>1, <3>2, <3>3, <3>4
  <2> QED BY <2>1, <2>2
<1>9. ASSUME NEW w \in Workers, Stamp(w) PROVE LlmInv' /\ StampKeepsEdits
  <2>0. job[w].pc = "stamp" /\ job[w] \in Asked /\ AskedWell(w)
    BY <1>9, <1>t DEF Stamp, IsAt, LlmRequest, Over
  <2> DEFINE m == job[w].row
             r == [pc |-> "over", kind |-> "reply", reply |-> job[w].reply,
                   schema |-> job[w].schema, lost |-> job[w].lost]
             c == [connection[m] EXCEPT !.stamped = TRUE]
  <2>1. /\ r \in Over /\ r.pc = "over" /\ r.kind = "reply" /\ r.reply = job[w].reply
        /\ r.schema = job[w].schema
    BY <2>0 DEF Asked, Over
  <2>2. job' = [job EXCEPT ![w] = r] /\ edits' = edits
    BY <1>9 DEF Stamp, Go, End
  <2>3. r \in LlmRequest
    BY <2>1 DEF LlmRequest
  <2>4. m \in Connections /\ connection[m] \in Connection
    BY <1>9, <2>0 DEF Stamp, AskedWell, Asked
  <2>5. connection' = [connection EXCEPT ![m] = c]
    BY <1>9, <1>t, <2>4 DEF Stamp
  <2>6. c \in Connection /\ [c EXCEPT !.stamped = FALSE] = [connection[m] EXCEPT !.stamped = FALSE]
    BY <2>4 DEF Connection
  <2> HIDE DEF r, c
  <2>7. Fits(r)
    BY <2>0, <2>1 DEF Fits, AskedWell, Wanted, Matches
  <2>8. /\ job' \in [Workers -> LlmRequest] /\ job'[w] = r
        /\ \A v \in Workers : v # w => job'[v] = job[v]
        /\ connection' \in [Connections -> {NoConnection} \cup Connection]
        /\ connection'[m] = c
        /\ \A n \in Connections : n # m => connection'[n] = connection[n]
    BY <1>t, <2>2, <2>3, <2>4, <2>5, <2>6
  <2>9. ASSUME NEW v \in Workers PROVE AskedWell(v)'
    <3>1. CASE v = w
      BY <2>1, <2>8, <3>1 DEF AskedWell
    <3>2. CASE v # w
      <4>1. AskedWell(v) /\ job'[v] = job[v]
        BY <1>t, <2>8, <3>2
      <4>2. job[v].pc \in {"ask", "stamp"} => job[v].row \in Connections
        BY <1>t DEF LlmRequest, Asked, Over
      <4> QED BY <2>6, <2>8, <4>1, <4>2 DEF AskedWell, Wanted
    <3> QED BY <3>1, <3>2
  <2>10. \A v \in Workers : IsAt(v, "over")' => Fits(job'[v])
    BY <1>t, <2>7, <2>8 DEF IsAt
  <2>11. StampKeepsEdits
    <3>1. Stored(m) /\ connection'[m] # NoConnection
      BY <2>4, <2>6, <2>8 DEF Stored, Connection, NoConnection
    <3>2. \A n \in Connections : Unstamped(n)' = Unstamped(n)
      BY <2>6, <2>8, <3>1 DEF Unstamped, Stored
    <3> QED BY <3>2 DEF StampKeepsEdits
  <2> QED BY <1>t, <2>2, <2>8, <2>9, <2>10, <2>11 DEF LlmInv
<1>10. ASSUME NEW w \in Workers, StampFails(w) PROVE LlmInv' /\ StampKeepsEdits
  <2>0. job[w].pc = "stamp" /\ job[w] \in Asked /\ job[w].lost /\ UNCHANGED llmVars
    BY <1>10, <1>t DEF StampFails, IsAt, LlmRequest, Over
  <2> DEFINE r == [pc |-> "over", kind |-> "raised", reply |-> None,
                   schema |-> job[w].schema, lost |-> job[w].lost]
  <2>1. r \in Over /\ r.pc = "over" /\ r.kind = "raised" /\ r.lost = job[w].lost
    BY <2>0 DEF Asked, Over, Replies
  <2>2. job' = [job EXCEPT ![w] = r]
    BY <1>10 DEF StampFails, Go, End
  <2>3. r \in LlmRequest
    BY <2>1 DEF LlmRequest
  <2> HIDE DEF r
  <2>4. Fits(r)
    BY <2>0, <2>1 DEF Fits
  <2> QED BY <1>j, <2>0, <2>1, <2>2, <2>3, <2>4
<1> QED
    BY <1>1, <1>2, <1>3, <1>4, <1>5, <1>6, <1>7, <1>8, <1>9, <1>10 DEF LlmNext

-----------------------------------------------------------------------------
CallsInv == SdkInv /\ AcknowledgedIsHandled /\ LlmInv

\* The steps of every scene keep the invariant of the calls.
LEMMA CallsStep == CallsInv /\ [Next]_vars => CallsInv' /\ StampKeepsEdits
<1> SUFFICES ASSUME CallsInv, [Next]_vars PROVE CallsInv' /\ StampKeepsEdits
    OBVIOUS
<1> USE DEF CallsInv
<1>1. CASE UNCHANGED vars
  <2>1. UNCHANGED <<scene, job, intent, known, performed, recorded, excused, handled, acknowledged,
                    connection, edits>>
    BY <1>1 DEF vars, providerVars, sdkVars, inboundVars, llmVars
  <2>2. SdkInv'
    BY <2>1 DEF SdkInv, SdkTyped, DoneIsKnown, OneCall, Busy
  <2>3. LlmInv'
    BY <2>1 DEF LlmInv, AskedWell, Wanted, IsAt
  <2>4. AcknowledgedIsHandled' /\ StampKeepsEdits
    BY <2>1 DEF AcknowledgedIsHandled, StampKeepsEdits, Unstamped, Stored
  <2> QED BY <2>2, <2>3, <2>4
<1>2. CASE Next /\ scene = "sdk"
  <2>1. ProvidersNext /\ UNCHANGED scene
    BY <1>2 DEF Next
  <2>2. SdkInv'
    BY <1>2, <2>1, SdkStep
  <2>3. UNCHANGED <<handled, acknowledged>>
    BY <1>2, <2>1
    DEF ProvidersNext, CheckKey, AnswerCall, Refuse, LoseRequest, LoseAnswer, StoreAnswer,
        StoreFails, CrashCall, Forget, RegisterHandler, Send, Process, Inbound, Outbound, On, inboundVars
  <2> QED BY <1>2, <2>1, <2>2, <2>3 DEF AcknowledgedIsHandled, LlmInv, StampKeepsEdits
<1>3. CASE Next /\ scene = "inbound"
  <2>1. ProvidersNext /\ UNCHANGED scene
    BY <1>3 DEF Next
  <2>2. UNCHANGED <<intent, known, performed, recorded, excused>> /\ AcknowledgedIsHandled'
    BY <1>3, <2>1
    DEF ProvidersNext, CheckKey, AnswerCall, Refuse, LoseRequest, LoseAnswer, StoreAnswer,
        StoreFails, CrashCall, Forget, RegisterHandler, Send, Process, Inbound, Outbound, On, sdkVars,
        AcknowledgedIsHandled
  <2> QED BY <1>3, <2>1, <2>2 DEF SdkInv, SdkTyped, DoneIsKnown, OneCall, LlmInv, StampKeepsEdits
<1>4. CASE Next /\ scene = "llm"
  <2>1. LlmNext /\ UNCHANGED scene /\ UNCHANGED providerVars
    BY <1>4 DEF Next
  <2>2. LlmInv' /\ StampKeepsEdits
    BY <1>4, <2>1, LlmStep
  <2> QED BY <1>4, <2>1, <2>2
          DEF providerVars, sdkVars, inboundVars, SdkInv, SdkTyped, DoneIsKnown, OneCall,
              AcknowledgedIsHandled
<1>5. CASE Next /\ scene \notin {"sdk", "inbound", "llm"}
  <2>1. UNCHANGED scene /\ UNCHANGED providerVars
    BY <1>5 DEF Next
  <2> QED BY <1>5, <2>1
          DEF providerVars, sdkVars, inboundVars, SdkInv, SdkTyped, DoneIsKnown, OneCall,
              AcknowledgedIsHandled, LlmInv, StampKeepsEdits
<1> QED BY <1>1, <1>2, <1>3, <1>4, <1>5

\* Whatever refusals, lost answers, retries, deaths and edits there are: an
\* operation at a payment provider that nothing excuses is performed once, what
\* is acknowledged was handled, a language model's answer fits, and the stamp of
\* a call keeps what was edited (BaseSDKAdapter, MockWebhookHandler, LlmClient).
THEOREM CallsStayExact == Spec => CallsAreExact
<1>1. Init => CallsInv
    BY InitSdk, InitLlm DEF CallsInv, AcknowledgedIsHandled, Init, ProvidersInit
<1>2. CallsInv => ProviderCallsAreExact /\ AnswersFit
  <2> SUFFICES ASSUME CallsInv PROVE ProviderCallsAreExact /\ AnswersFit
    OBVIOUS
  <2>1. ASSUME NEW o \in Keyed PROVE performed[o] <= 1 \/ (o \in excused /\ o # "create")
    <3>1. CASE o \notin excused
      BY <3>1 DEF CallsInv, SdkInv, OneCall
    <3>2. CASE o = "create"
      BY <3>2 DEF CallsInv, SdkInv, DoneIsKnown
    <3> QED BY <3>1, <3>2
  <2>2. PerformedOnce
    BY <2>1 DEF PerformedOnce, CallsInv, SdkInv, DoneIsKnown
  <2>3. AnswersFit
    BY DEF CallsInv, LlmInv, AnswersFit, Fits
  <2> QED BY <2>2, <2>3 DEF ProviderCallsAreExact, CallsInv
<1>3. CallsInv' => ProviderCallsAreExact' /\ AnswersFit'
    BY <1>2, PTL
<1>4. CallsInv /\ [Next]_vars => CallsInv' /\ StampKeepsEdits
    BY CallsStep
<1> QED BY <1>1, <1>3, <1>4, PTL DEF Spec, CallsAreExact

-----------------------------------------------------------------------------
(***************************************************************************)
(* The delivery of an event.                                               *)
(***************************************************************************)
Delivery ==
    [pc : {"calling", "handled", "done"}, live : BOOLEAN, list : Seq(Callbacks), next : Nat,
     first : Seq(Callbacks), called : Seq(Callbacks), moved : BOOLEAN, cut : BOOLEAN,
     stopped : BOOLEAN]

UrgentFirst == \A i, j \in DOMAIN listeners :
                i < j /\ listeners[j] \in Urgent => listeners[i] \in Urgent

ListsTyped ==
    /\ subscribers \in Seq(Callbacks) /\ everyone \in Seq(Callbacks) /\ listeners \in Seq(Callbacks)
    /\ IsInjective(subscribers) /\ IsInjective(everyone)
    /\ sorting \in Callbacks \cup {None}
    /\ scene # "listeners" => sorting = None
    /\ scene = "listeners" => UrgentFirst
    /\ Len(listeners) <= MaxListeners /\ (sorting # None => Len(listeners) < MaxListeners)
    /\ delivery \in {NoDelivery} \cup Delivery

\* The list a walk is in, also while a sort lets it look empty.
Path == IF delivery.live THEN listeners ELSE delivery.list

\* Who was registered was called, or is further on.
AheadOrHeard ==
    \A i \in 1 .. Len(delivery.first) :
        \/ \E k \in 1 .. Len(delivery.called) : delivery.called[k] = delivery.first[i]
        \/ \E k \in delivery.next .. Len(Path) : Path[k] = delivery.first[i]

\* The walk is along the list it began with, which at most has become longer.
OnCourse ==
    /\ \A i \in 1 .. Len(delivery.called) : delivery.called[i] = Path[i]
    /\ Len(delivery.first) <= Len(Path)
    /\ \A i \in 1 .. Len(delivery.first) : Path[i] = delivery.first[i]
    /\ scene # "domain" => Len(Path) = Len(delivery.first)

Underway ==
    /\ delivery.next = Len(delivery.called) + 1 /\ delivery.next <= Len(Path) + 1
    /\ delivery.live /\ sorting # None => delivery.moved
    /\ AheadOrHeard
    /\ ~delivery.moved => OnCourse

Heard ==
    /\ ~delivery.moved =>
          /\ Len(delivery.first) <= Len(delivery.called)
          /\ \A i \in 1 .. Len(delivery.first) : delivery.called[i] = delivery.first[i]
          /\ scene # "domain" => Len(delivery.called) = Len(delivery.first)
    /\ ~delivery.cut =>
          \A i \in 1 .. Len(delivery.first) :
              \E k \in 1 .. Len(delivery.called) : delivery.called[k] = delivery.first[i]

EventsInv ==
    /\ ListsTyped
    /\ delivery.pc = "calling" => Underway
    /\ delivery.pc \in {"handled", "done"} /\ ~delivery.stopped => Heard

\* Nobody is registered at the start.
LEMMA InitEvents == Init => EventsInv
<1> SUFFICES ASSUME Init PROVE EventsInv
    OBVIOUS
<1>1. /\ subscribers = <<>> /\ everyone = <<>> /\ listeners = <<>> /\ sorting = None
      /\ delivery = NoDelivery
    BY DEF Init, EventsInit
<1>2. ListsTyped
    BY <1>1, EventsAssumption DEF ListsTyped, IsInjective, UrgentFirst
<1> QED BY <1>1, <1>2 DEF EventsInv, NoDelivery

\* A list without some of its listeners is a list of listeners, sorted as it was.
LEMMA AllButIsList ==
    ASSUME NEW S, NEW s \in Seq(S), NEW c,
           \A i, j \in 1 .. Len(s) : i < j /\ s[j] \in Urgent => s[i] \in Urgent
    PROVE  /\ AllBut(s, c) \in Seq(S) /\ Len(AllBut(s, c)) <= Len(s)
           /\ \A i, j \in DOMAIN AllBut(s, c) :
                 i < j /\ AllBut(s, c)[j] \in Urgent => AllBut(s, c)[i] \in Urgent
<1> DEFINE Longer(f, i) ==
               IF i = 0 THEN <<>> ELSE IF s[i] = c THEN f[i - 1] ELSE Append(f[i - 1], s[i])
           kept == CHOOSE f : f = [i \in 0 .. Len(s) |-> Longer(f, i)]
           T == {m \in 0 .. Len(s) : ~ \E f : f = [i \in 0 .. m |-> Longer(f, i)]}
<1>1. T = {}
  <2> SUFFICES ASSUME T # {} PROVE FALSE
    OBVIOUS
  <2>0. T \in SUBSET Nat
    OBVIOUS
  <2>1. PICK m \in T : \A n \in T : m <= n
    <3> HIDE DEF T
    <3> QED BY <2>0, LeastNumber
  <2>2. CASE m = 0
    <3> DEFINE g == [i \in 0 .. 0 |-> <<>>]
    <3>1. \A i \in 0 .. 0 : <<>> = Longer(g, i)
      OBVIOUS
    <3>2. g = [i \in 0 .. 0 |-> Longer(g, i)]
      BY <3>1
    <3> QED BY <2>1, <2>2, <3>2
  <2>3. CASE m # 0
    <3>0. m \in 0 .. Len(s) /\ m - 1 \in 0 .. Len(s)
      BY <2>1, <2>3
    <3>1. m - 1 \notin T
      <4> HIDE DEF T
      <4> QED BY <2>1, <3>0
    <3>2. PICK f : f = [i \in 0 .. m - 1 |-> Longer(f, i)]
      BY <3>0, <3>1
    <3> DEFINE g == [i \in 0 .. m |-> IF i < m THEN f[i] ELSE Longer(f, i)]
    <3>3. \A i \in 0 .. m : g[i] = Longer(g, i)
      <4> TAKE i \in 0 .. m
      <4>1. i # 0 => i - 1 \in 0 .. m /\ i - 1 < m
        BY <2>1
      <4>2. i # 0 => g[i - 1] = f[i - 1]
        BY <4>1
      <4>3. CASE i = m
        <5>1. g[i] = Longer(f, i)
          BY <4>3
        <5> QED BY <4>2, <5>1
      <4>4. CASE i # m
        <5>1. i \in 0 .. m - 1 /\ i < m
          BY <2>1, <4>4
        <5>2. f[i] = Longer(f, i)
          BY <3>2, <5>1
        <5>3. g[i] = f[i]
          BY <5>1
        <5> QED BY <4>2, <5>2, <5>3
      <4> QED BY <4>3, <4>4
    <3>4. g = [i \in 0 .. m |-> Longer(g, i)]
      BY <3>3, SMTT(20)
    <3> QED BY <2>1, <3>4
  <2> QED BY <2>2, <2>3
<1>2. kept = [i \in 0 .. Len(s) |-> Longer(kept, i)]
  <2>1. Len(s) \in 0 .. Len(s) /\ Len(s) \notin T
    BY <1>1, SMTT(20)
  <2>2. \E f : f = [i \in 0 .. Len(s) |-> Longer(f, i)]
    BY <2>1
  <2> QED BY <2>2, Zenon
<1>3. AllBut(s, c) = kept[Len(s)]
    BY DEF AllBut
<1> HIDE DEF T, kept
<1>4. \A i \in 0 .. Len(s) : kept[i] = Longer(kept, i)
    BY <1>2
<1> DEFINE Good(m) ==
               /\ kept[m] \in Seq(S) /\ Len(kept[m]) <= m
               /\ \A p \in 1 .. Len(kept[m]) : \E k \in 1 .. m : kept[m][p] = s[k]
               /\ \A i, j \in 1 .. Len(kept[m]) :
                     i < j /\ kept[m][j] \in Urgent => kept[m][i] \in Urgent
           U == {m \in 0 .. Len(s) : ~Good(m)}
<1>5. U = {}
  <2> SUFFICES ASSUME U # {} PROVE FALSE
    OBVIOUS
  <2>0. U \in SUBSET Nat
    <3> HIDE DEF Good
    <3> QED OBVIOUS
  <2>1. PICK m \in U : \A n \in U : m <= n
    <3> HIDE DEF U
    <3> QED BY <2>0, LeastNumber
  <2>2. m # 0
    <3>1. kept[0] = <<>>
      <4> HIDE DEF Good, U
      <4>1. 0 \in 0 .. Len(s)
        OBVIOUS
      <4> QED BY <1>4, <4>1
    <3>2. <<>> \in Seq(S) /\ Len(<<>>) = 0
      OBVIOUS
    <3>3. Good(0)
      BY <3>1, <3>2
    <3> QED BY <2>1, <3>3
  <2>3. m - 1 \in 0 .. Len(s) /\ m - 1 \notin U /\ m \in 1 .. Len(s)
    <3> HIDE DEF Good
    <3> QED BY <2>1, <2>2
  <2>4. Good(m - 1) /\ s[m] \in S
    <3> HIDE DEF Good
    <3> QED BY <2>3
  <2>5. Good(m)
    <3>1. kept[m] = IF s[m] = c THEN kept[m - 1] ELSE Append(kept[m - 1], s[m])
      BY <1>4, <2>3
    <3> DEFINE old == kept[m - 1]
               new == kept[m]
    <3>2. /\ old \in Seq(S) /\ Len(old) <= m - 1
          /\ \A p \in 1 .. Len(old) : \E k \in 1 .. m - 1 : old[p] = s[k]
          /\ \A i, j \in 1 .. Len(old) : i < j /\ old[j] \in Urgent => old[i] \in Urgent
      BY <2>4
    <3>3. new = old \/ new = Append(old, s[m])
      BY <3>1
    <3>4. Good(m) <=> /\ new \in Seq(S) /\ Len(new) <= m
                      /\ \A p \in 1 .. Len(new) : \E k \in 1 .. m : new[p] = s[k]
                      /\ \A i, j \in 1 .. Len(new) :
                            i < j /\ new[j] \in Urgent => new[i] \in Urgent
      OBVIOUS
    <3> HIDE DEF old, new, Good
    <3>o. \A p \in 1 .. Len(old) : \E k \in 1 .. m : old[p] = s[k]
      <4>1. \A k \in 1 .. m - 1 : k \in 1 .. m
        BY <2>3
      <4> QED BY <3>2, <4>1
    <3>5. CASE new = old
      <4>1. Len(old) <= m
        BY <2>3, <3>2
      <4> QED BY <3>2, <3>4, <3>5, <3>o, <4>1
    <3>6. CASE new = Append(old, s[m])
      <4>1. /\ new \in Seq(S) /\ Len(new) = Len(old) + 1 /\ new[Len(old) + 1] = s[m]
            /\ \A p \in 1 .. Len(old) : new[p] = old[p]
        BY <2>4, <3>2, <3>6
      <4>2. \A p \in 1 .. Len(new) : p \in 1 .. Len(old) \/ p = Len(old) + 1
        BY <3>2, <4>1
      <4>3. \A p \in 1 .. Len(new) : \E k \in 1 .. m : new[p] = s[k]
        <5>1. m \in 1 .. m
          BY <2>3
        <5> QED BY <3>o, <4>1, <4>2, <5>1
      <4>4. ASSUME NEW i \in 1 .. Len(new), NEW j \in 1 .. Len(new), i < j,
                   new[j] \in Urgent
            PROVE  new[i] \in Urgent
        <5>1. i \in 1 .. Len(old) /\ new[i] = old[i]
          BY <3>2, <4>1, <4>2, <4>4
        <5>2. CASE j \in 1 .. Len(old)
          BY <3>2, <4>1, <4>4, <5>1, <5>2
        <5>3. CASE j = Len(old) + 1
          <6>1. s[m] \in Urgent
            BY <4>1, <4>4, <5>3
          <6>2. PICK k \in 1 .. m - 1 : old[i] = s[k]
            BY <3>2, <5>1
          <6>3. k \in 1 .. Len(s) /\ m \in 1 .. Len(s) /\ k < m
            BY <2>3
          <6> QED BY <5>1, <6>1, <6>2, <6>3
        <5> QED BY <4>2, <5>2, <5>3
      <4>5. Len(new) <= m
        BY <2>3, <3>2, <4>1
      <4> QED BY <3>4, <4>1, <4>3, <4>4, <4>5
    <3> QED BY <3>3, <3>5, <3>6
  <2> HIDE DEF Good
  <2> QED BY <2>1, <2>5
<1>6. Len(s) \in 0 .. Len(s)
    OBVIOUS
<1>7. Good(Len(s))
  <2> HIDE DEF Good
  <2> QED BY <1>5, <1>6
<1> HIDE DEF kept
<1> QED BY <1>3, <1>7

\* Insertion shifts what comes after.
LEMMA InsertAtFacts ==
    ASSUME NEW S, NEW s \in Seq(S), NEW c \in S, NEW n \in 1 .. Len(s) + 1
    PROVE  /\ InsertAt(s, n, c) \in Seq(S) /\ Len(InsertAt(s, n, c)) = Len(s) + 1
           /\ \A i \in 1 .. Len(s) + 1 :
                 InsertAt(s, n, c)[i] = IF i < n THEN s[i] ELSE IF i = n THEN c ELSE s[i - 1]
<1> DEFINE a == SubSeq(s, 1, n - 1)
           b == SubSeq(s, n, Len(s))
<1>1. a \in Seq(S) /\ Len(a) = n - 1 /\ \A i \in 1 .. n - 1 : a[i] = s[i]
    OBVIOUS
<1>2. b \in Seq(S) /\ Len(b) = Len(s) - n + 1 /\ \A i \in 1 .. Len(s) - n + 1 : b[i] = s[n + i - 1]
    OBVIOUS
<1>3. InsertAt(s, n, c) = a \o <<c>> \o b
    BY DEF InsertAt
<1> HIDE DEF a, b
<1> DEFINE d == a \o <<c>>
<1>4. d \in Seq(S) /\ Len(d) = n /\ \A i \in 1 .. n : d[i] = IF i < n THEN s[i] ELSE c
    BY <1>1
<1>5. InsertAt(s, n, c) = d \o b
    BY <1>3
<1> HIDE DEF d
<1>6. d \o b \in Seq(S) /\ Len(d \o b) = Len(d) + Len(b)
    BY <1>2, <1>4
<1>7. Len(d) + Len(b) = Len(s) + 1
    BY <1>2, <1>4
<1>8. ASSUME NEW i \in 1 .. Len(s) + 1
      PROVE  InsertAt(s, n, c)[i] = IF i < n THEN s[i] ELSE IF i = n THEN c ELSE s[i - 1]
  <2>1. CASE i <= n
    <3>1. (d \o b)[i] = d[i]
      BY <1>2, <1>4, <2>1
    <3> QED BY <1>4, <1>5, <2>1, <3>1
  <2>2. CASE i > n
    <3>1. (d \o b)[i] = b[i - n]
      BY <1>2, <1>4, <2>2
    <3>2. i - n \in 1 .. Len(s) - n + 1
      BY <2>2
    <3>3. b[i - n] = s[n + (i - n) - 1]
      BY <1>2, <3>2
    <3> QED BY <1>5, <2>2, <3>1, <3>3
  <2> QED BY <2>1, <2>2
<1> QED BY <1>5, <1>6, <1>7, <1>8

\* Removal keeps the others, each once.
LEMMA RemoveAtFacts ==
    ASSUME NEW S, NEW s \in Seq(S), NEW n \in 1 .. Len(s)
    PROVE  /\ RemoveAt(s, n) \in Seq(S) /\ Len(RemoveAt(s, n)) = Len(s) - 1
           /\ \A i \in 1 .. Len(s) - 1 : RemoveAt(s, n)[i] = IF i < n THEN s[i] ELSE s[i + 1]
<1> DEFINE a == SubSeq(s, 1, n - 1)
           b == SubSeq(s, n + 1, Len(s))
<1>1. a \in Seq(S) /\ Len(a) = n - 1 /\ \A i \in 1 .. n - 1 : a[i] = s[i]
    OBVIOUS
<1>2. b \in Seq(S) /\ Len(b) = Len(s) - n /\ \A i \in 1 .. Len(s) - n : b[i] = s[n + i]
    OBVIOUS
<1>3. RemoveAt(s, n) = a \o b
    BY DEF RemoveAt
<1> HIDE DEF a, b
<1>4. a \o b \in Seq(S) /\ Len(a \o b) = Len(a) + Len(b)
  <2>1. a \in Seq(S) /\ b \in Seq(S)
    BY <1>1, <1>2
  <2> QED BY <2>1
<1>5. Len(a) + Len(b) = Len(s) - 1
    BY <1>1, <1>2
<1>6. ASSUME NEW i \in 1 .. Len(s) - 1
      PROVE  RemoveAt(s, n)[i] = IF i < n THEN s[i] ELSE s[i + 1]
  <2>1. CASE i < n
    <3>1. (a \o b)[i] = a[i]
      BY <1>1, <1>2, <2>1
    <3> QED BY <1>1, <1>3, <2>1, <3>1
  <2>2. CASE ~(i < n)
    <3>1. (a \o b)[i] = b[i - n + 1]
      BY <1>1, <1>2, <2>2
    <3>2. i - n + 1 \in 1 .. Len(s) - n
      BY <2>2
    <3>3. b[i - n + 1] = s[n + (i - n + 1)]
      BY <1>2, <3>2
    <3> QED BY <1>3, <2>2, <3>1, <3>3
  <2> QED BY <2>1, <2>2
<1> QED BY <1>3, <1>4, <1>5, <1>6

-----------------------------------------------------------------------------

\* There is a place for a listener in a sorted list, and the list stays sorted.
LEMMA InsertedIsSorted ==
    ASSUME listeners \in Seq(Callbacks), UrgentFirst, NEW c \in Callbacks
    PROVE  /\ Place(c) \in 1 .. Len(listeners) + 1
           /\ Inserted(c) \in Seq(Callbacks) /\ Len(Inserted(c)) = Len(listeners) + 1
           /\ \A i \in 1 .. Len(listeners) + 1 :
                 Inserted(c)[i] = IF i < Place(c) THEN listeners[i]
                                  ELSE IF i = Place(c) THEN c ELSE listeners[i - 1]
           /\ \A i, j \in DOMAIN Inserted(c) :
                 i < j /\ Inserted(c)[j] \in Urgent => Inserted(c)[i] \in Urgent
<1> DEFINE before(i) == listeners[i] \in Urgent \/ c \notin Urgent
           Fit(n) == \A i \in DOMAIN listeners : i < n <=> before(i)
           T == {n \in 1 .. Len(listeners) + 1 : n = Len(listeners) + 1 \/ ~before(n)}
<1>1. PICK m \in T : \A n \in T : m <= n
  <2>1. T \in SUBSET Nat /\ Len(listeners) + 1 \in T
    OBVIOUS
  <2> HIDE DEF T
  <2> QED BY <2>1, LeastNumber
<1>2. Fit(m)
  <2> SUFFICES ASSUME NEW i \in 1 .. Len(listeners) PROVE i < m <=> before(i)
    OBVIOUS
  <2>1. i < m => before(i)
    BY <1>1
  <2>2. ASSUME ~(i < m), before(i) PROVE FALSE
    <3>1. m <= i /\ m \in 1 .. Len(listeners)
      BY <1>1, <2>2
    <3>2. ~before(m)
      BY <1>1, <3>1
    <3>3. listeners[i] \in Urgent /\ listeners[m] \notin Urgent
      BY <2>2, <3>2
    <3>4. m < i
      BY <3>1, <3>3
    <3> QED BY <3>1, <3>3, <3>4 DEF UrgentFirst
  <2> QED BY <2>1, <2>2
<1>3. Place(c) \in 1 .. Len(listeners) + 1 /\ Fit(Place(c))
  <2>1. Place(c) = CHOOSE n \in 1 .. Len(listeners) + 1 : Fit(n)
    BY Zenon DEF Place
  <2>2. \E n \in 1 .. Len(listeners) + 1 : Fit(n)
    BY <1>1, <1>2
  <2> HIDE DEF Fit
  <2> QED BY <2>1, <2>2
<1> DEFINE p == Place(c)
           new == Inserted(c)
<1>4. /\ new \in Seq(Callbacks) /\ Len(new) = Len(listeners) + 1
      /\ \A i \in 1 .. Len(listeners) + 1 :
            new[i] = IF i < p THEN listeners[i] ELSE IF i = p THEN c ELSE listeners[i - 1]
  <2>1. \A n \in 1 .. Len(listeners) + 1 :
           LET l == InsertAt(listeners, n, c) IN
           /\ l \in Seq(Callbacks) /\ Len(l) = Len(listeners) + 1
           /\ \A i \in 1 .. Len(listeners) + 1 :
                 l[i] = IF i < n THEN listeners[i] ELSE IF i = n THEN c ELSE listeners[i - 1]
    BY InsertAtFacts
  <2>2. p \in 1 .. Len(listeners) + 1
    BY <1>3
  <2>3. new = InsertAt(listeners, p, c)
    BY Zenon DEF Inserted
  <2> HIDE DEF p, new
  <2> QED BY <2>1, <2>2, <2>3
<1>5. p \in 1 .. Len(listeners) + 1 /\ \A i \in 1 .. Len(listeners) : i < p <=> before(i)
    BY <1>3
<1> HIDE DEF p, new
<1>6. ASSUME NEW i \in 1 .. Len(listeners) + 1, NEW j \in 1 .. Len(listeners) + 1, i < j,
             new[j] \in Urgent
      PROVE  new[i] \in Urgent
  <2>1. CASE j < p
    BY <1>4, <1>5, <1>6, <2>1 DEF UrgentFirst
  <2>2. CASE j = p
    <3>1. c \in Urgent /\ new[i] = listeners[i] /\ i \in 1 .. Len(listeners) /\ i < p
      BY <1>4, <1>5, <1>6, <2>2
    <3> QED BY <1>5, <3>1
  <2>3. CASE j > p
    <3>1. new[j] = listeners[j - 1] /\ j - 1 \in 1 .. Len(listeners) /\ ~(j - 1 < p)
      BY <1>4, <1>5, <2>3
    <3>2. listeners[j - 1] \notin Urgent
      BY <1>5, <3>1
    <3> QED BY <1>6, <3>1, <3>2
  <2> QED BY <1>5, <2>1, <2>2, <2>3
<1>7. DOMAIN new = 1 .. Len(listeners) + 1
    BY <1>4
<1> QED BY <1>4, <1>5, <1>6, <1>7 DEF p, new

\* A walk begins at the head of the list.
LEMMA WalkBegins ==
    ASSUME NEW l \in Seq(Callbacks), NEW live \in BOOLEAN, delivery' = Walk(l, live),
           live => l = listeners' /\ sorting' = None, scene' = scene
    PROVE  delivery' \in Delivery /\ delivery'.pc = "calling" /\ Underway'
<1>1. /\ delivery'.pc = "calling" /\ delivery'.live = live /\ delivery'.next = 1
      /\ delivery'.first = l /\ delivery'.called = <<>>
      /\ ~live => delivery'.list = l
    BY DEF Walk
<1>2. delivery' \in Delivery
  <2>1. (IF live THEN <<>> ELSE l) \in Seq(Callbacks) /\ <<>> \in Seq(Callbacks)
    OBVIOUS
  <2> QED BY <2>1 DEF Walk, Delivery
<1>3. Path' = l
    BY <1>1 DEF Path
<1>4. Underway'
    BY <1>1, <1>3 DEF Underway, AheadOrHeard, OnCourse
<1> QED BY <1>1, <1>2, <1>4

\* Every step of a delivery, and every registration during it, keeps its invariant.
LEMMA EventsStep ==
    ASSUME EventsInv, scene \in {"bus", "listeners", "domain"}, UNCHANGED scene, EventsNext
    PROVE  EventsInv'
<1>t. ListsTyped
    BY DEF EventsInv
<1>a. /\ subscribers \in Seq(Callbacks) /\ everyone \in Seq(Callbacks) /\ listeners \in Seq(Callbacks)
      /\ sorting \in Callbacks \cup {None}
      /\ Len(listeners) <= MaxListeners /\ MaxListeners \in Nat
    BY <1>t, EventsAssumption DEF ListsTyped
<1>c. delivery.pc # "none" => delivery \in Delivery
    BY <1>t DEF ListsTyped, NoDelivery
<1>w. delivery.pc = "calling" => /\ Underway /\ delivery \in Delivery
                                 /\ Path \in Seq(Callbacks) /\ delivery.first \in Seq(Callbacks)
                                 /\ delivery.called \in Seq(Callbacks) /\ delivery.next \in Nat
    BY <1>a, <1>c DEF EventsInv, Path, Delivery
<1>h. delivery.pc \in {"handled", "done"} /\ ~delivery.stopped => Heard
    BY DEF EventsInv
\* The delivery and the lists it sees stay as they are.
<1>u. ASSUME UNCHANGED <<listeners, sorting, delivery>>, ListsTyped' PROVE EventsInv'
    BY <1>u DEF EventsInv, Underway, AheadOrHeard, OnCourse, Path, Heard
\* A walk begins.
<1>b. ASSUME NEW l \in Seq(Callbacks), NEW live \in BOOLEAN, delivery' = Walk(l, live),
             live => l = listeners /\ sorting = None,
             UNCHANGED <<subscribers, everyone, listeners, sorting>>
      PROVE  EventsInv'
  <2>1. delivery' \in Delivery /\ delivery'.pc = "calling" /\ Underway'
    BY <1>b, WalkBegins
  <2>2. ListsTyped'
    BY <1>t, <1>b, <2>1 DEF ListsTyped, UrgentFirst
  <2> QED BY <2>1, <2>2 DEF EventsInv
\* A listener is sorted in, by the one thread or by another.
<1>s. ASSUME scene = "listeners", NEW c \in Callbacks, listeners' = Inserted(c), sorting' = None,
             UNCHANGED <<subscribers, everyone>>, Len(listeners) < MaxListeners,
             delivery' = delivery \/ (Walking /\ delivery' = [delivery EXCEPT !.moved = TRUE]),
             Walking => delivery'.moved
      PROVE  EventsInv'
  <2>1. UrgentFirst
    BY <1>t, <1>s DEF ListsTyped
  <2>2. /\ Place(c) \in 1 .. Len(listeners) + 1
        /\ listeners' \in Seq(Callbacks) /\ Len(listeners') = Len(listeners) + 1
        /\ \A i \in 1 .. Len(listeners) + 1 :
              listeners'[i] = IF i < Place(c) THEN listeners[i]
                              ELSE IF i = Place(c) THEN c ELSE listeners[i - 1]
        /\ UrgentFirst'
    BY <1>a, <1>s, <2>1, InsertedIsSorted DEF UrgentFirst
  <2>3. CASE Walking
    <3>0. delivery.pc = "calling" /\ delivery.live /\ Path = listeners
      BY <2>3 DEF Walking, Path
    <3>1. /\ delivery' \in Delivery /\ delivery'.pc = "calling" /\ delivery'.live = delivery.live
          /\ delivery'.next = delivery.next /\ delivery'.first = delivery.first
          /\ delivery'.called = delivery.called
      BY <1>s, <1>w, <3>0 DEF Delivery
    <3>2. delivery'.moved
      BY <1>s, <2>3
    <3>3. Path' = listeners'
      BY <3>0, <3>1 DEF Path
    <3>4. AheadOrHeard'
      <4> SUFFICES ASSUME NEW i \in 1 .. Len(delivery.first),
                          ~ \E k \in 1 .. Len(delivery.called) : delivery.called[k] = delivery.first[i]
                   PROVE  \E k \in delivery.next .. Len(listeners') : listeners'[k] = delivery.first[i]
        BY <3>1, <3>3 DEF AheadOrHeard
      <4>1. PICK k \in delivery.next .. Len(listeners) : listeners[k] = delivery.first[i]
        BY <1>w, <3>0 DEF Underway, AheadOrHeard
      <4>2. k \in 1 .. Len(listeners) /\ k + 1 \in 1 .. Len(listeners) + 1
        BY <1>a, <1>w, <3>0 DEF Underway
      <4>3. CASE k < Place(c)
        BY <2>2, <4>1, <4>2, <4>3
      <4>4. CASE ~(k < Place(c))
        <5>1. listeners'[k + 1] = listeners[k]
          <6>1. ~(k + 1 < Place(c)) /\ k + 1 # Place(c) /\ (k + 1) - 1 = k
            BY <2>2, <4>2, <4>4
          <6> QED BY <2>2, <4>2, <6>1
        <5>2. k + 1 \in delivery.next .. Len(listeners')
          BY <1>a, <1>w, <2>2, <3>0, <4>1
        <5> QED BY <4>1, <5>1, <5>2
      <4> QED BY <4>3, <4>4
    <3>5. Underway'
      <4>1. delivery.next <= Len(listeners) + 1 /\ delivery.next = Len(delivery.called) + 1
        BY <1>w, <3>0 DEF Underway
      <4>2. delivery.next <= Len(listeners') + 1
        BY <1>a, <1>w, <2>2, <3>0, <4>1
      <4> QED BY <1>s, <3>1, <3>2, <3>3, <3>4, <4>1, <4>2 DEF Underway
    <3>6. ListsTyped'
      BY <1>t, <1>a, <1>s, <2>2, <3>1 DEF ListsTyped
    <3> QED BY <3>1, <3>5, <3>6 DEF EventsInv
  <2>4. CASE ~Walking
    <3>1. delivery' = delivery
      BY <1>s, <2>4
    <3>2. ListsTyped'
      BY <1>t, <1>a, <1>s, <2>2, <3>1 DEF ListsTyped
    <3>3. delivery.pc = "calling" => Path' = Path /\ ~delivery.live
      BY <2>4, <3>1 DEF Walking, Path
    <3>4. delivery'.pc = "calling" => Underway'
      BY <1>w, <3>1, <3>3 DEF Underway, AheadOrHeard, OnCourse
    <3>5. delivery'.pc \in {"handled", "done"} /\ ~delivery'.stopped => Heard'
      BY <1>h, <3>1 DEF Heard
    <3> QED BY <3>2, <3>4, <3>5 DEF EventsInv
  <2> QED BY <2>3, <2>4
<1>1. ASSUME NEW c \in Callbacks, Subscribe(c) PROVE EventsInv'
  <2>1. /\ subscribers' = Append(subscribers, c) /\ ~Contains(subscribers, c)
        /\ UNCHANGED <<listeners, sorting, delivery, everyone>>
    BY <1>1 DEF Subscribe, OnBus
  <2>2. subscribers' \in Seq(Callbacks) /\ IsInjective(subscribers')
    BY <1>t, <2>1 DEF ListsTyped, IsInjective, Contains
  <2> QED BY <1>t, <1>u, <2>1, <2>2 DEF ListsTyped, UrgentFirst
<1>2. ASSUME NEW c \in Callbacks, SubscribeAll(c) PROVE EventsInv'
  <2>1. /\ everyone' = Append(everyone, c) /\ ~Contains(everyone, c)
        /\ UNCHANGED <<listeners, sorting, delivery, subscribers>>
    BY <1>2 DEF SubscribeAll, OnBus
  <2>2. everyone' \in Seq(Callbacks) /\ IsInjective(everyone')
    BY <1>t, <2>1 DEF ListsTyped, IsInjective, Contains
  <2> QED BY <1>t, <1>u, <2>1, <2>2 DEF ListsTyped, UrgentFirst
<1>3. ASSUME NEW c \in Callbacks, Unsubscribe(c) PROVE EventsInv'
  <2>1. PICK n \in 1 .. Len(subscribers) : subscribers' = RemoveAt(subscribers, n)
    BY <1>3, <1>a DEF Unsubscribe
  <2>2. /\ subscribers' \in Seq(Callbacks) /\ Len(subscribers') = Len(subscribers) - 1
        /\ \A i \in 1 .. Len(subscribers) - 1 :
              subscribers'[i] = IF i < n THEN subscribers[i] ELSE subscribers[i + 1]
    BY <1>a, <2>1, RemoveAtFacts
  <2>3. \A i, j \in 1 .. Len(subscribers) : subscribers[i] = subscribers[j] => i = j
    BY <1>t, <1>a DEF ListsTyped, IsInjective
  <2>4. ASSUME NEW i \in 1 .. Len(subscribers) - 1, NEW j \in 1 .. Len(subscribers) - 1,
               subscribers'[i] = subscribers'[j]
        PROVE  i = j
    <3>1. i \in 1 .. Len(subscribers) /\ i + 1 \in 1 .. Len(subscribers)
          /\ j \in 1 .. Len(subscribers) /\ j + 1 \in 1 .. Len(subscribers)
      BY <1>a
    <3> QED BY <2>2, <2>3, <2>4, <3>1
  <2>5. IsInjective(subscribers')
    BY <2>2, <2>4 DEF IsInjective
  <2>6. UNCHANGED <<listeners, sorting, delivery, everyone>>
    BY <1>3 DEF Unsubscribe, OnBus
  <2> QED BY <1>t, <1>u, <2>2, <2>5, <2>6 DEF ListsTyped, UrgentFirst
<1>4. ASSUME NEW c \in Callbacks, AddListener(c) PROVE EventsInv'
  <2>1. delivery.pc = "calling" /\ delivery.live => [delivery EXCEPT !.moved = TRUE].moved
    BY <1>w DEF Delivery
  <2> QED BY <1>4, <1>s, <2>1 DEF AddListener, OnListeners, On, Walking
<1>5. ASSUME NEW c \in Callbacks, BeginSort(c) PROVE EventsInv'
  <2>1. /\ sorting' = c /\ delivery.pc = "calling" /\ delivery.live
        /\ delivery' = [delivery EXCEPT !.moved = TRUE] /\ Len(listeners) < MaxListeners
        /\ UNCHANGED <<subscribers, everyone, listeners>> /\ scene = "listeners"
    BY <1>5 DEF BeginSort, OnListeners, On, Walking
  <2>2. /\ delivery' \in Delivery /\ delivery'.pc = "calling" /\ delivery'.live = delivery.live
        /\ delivery'.next = delivery.next /\ delivery'.first = delivery.first
        /\ delivery'.called = delivery.called /\ delivery'.moved = TRUE
    BY <1>w, <2>1 DEF Delivery
  <2>3. Path' = Path
    BY <2>1, <2>2 DEF Path
  <2>4. Underway'
    BY <1>w, <2>1, <2>2, <2>3 DEF Underway, AheadOrHeard
  <2>5. ListsTyped'
    BY <1>t, <2>1, <2>2 DEF ListsTyped, UrgentFirst
  <2> QED BY <2>2, <2>4, <2>5 DEF EventsInv
<1>6. CASE EndSort
  <2>1. /\ sorting \in Callbacks /\ listeners' = Inserted(sorting) /\ sorting' = None
        /\ UNCHANGED <<subscribers, everyone, delivery>> /\ scene = "listeners"
        /\ Len(listeners) < MaxListeners
    BY <1>6, <1>t DEF EndSort, OnListeners, On, ListsTyped
  <2>2. Walking => delivery.moved
    BY <1>6, <1>w DEF EndSort, Walking, Underway
  <2> QED BY <1>s, <2>1, <2>2
<1>7. ASSUME NEW c \in Callbacks, RemoveListener(c) PROVE EventsInv'
  <2>1. /\ listeners' = AllBut(listeners, c) /\ sorting = None /\ scene = "listeners"
        /\ UNCHANGED <<subscribers, everyone, sorting>>
        /\ delivery' = IF Walking THEN [delivery EXCEPT !.live = FALSE, !.list = listeners]
                       ELSE delivery
    BY <1>7 DEF RemoveListener, OnListeners, On
  <2>2. /\ listeners' \in Seq(Callbacks) /\ Len(listeners') <= MaxListeners
        /\ UrgentFirst'
    <3>1. \A i, j \in 1 .. Len(listeners) :
             i < j /\ listeners[j] \in Urgent => listeners[i] \in Urgent
      BY <1>a, <1>t, <2>1 DEF ListsTyped, UrgentFirst
    <3>2. /\ listeners' \in Seq(Callbacks) /\ Len(listeners') <= Len(listeners)
          /\ \A i, j \in DOMAIN listeners' :
                i < j /\ listeners'[j] \in Urgent => listeners'[i] \in Urgent
      BY <1>a, <2>1, <3>1, AllButIsList
    <3>3. UrgentFirst'
      BY <3>2 DEF UrgentFirst
    <3> QED BY <1>a, <3>2, <3>3
  <2>3. CASE Walking
    <3>1. /\ delivery' \in Delivery /\ delivery'.pc = "calling" /\ delivery'.live = FALSE
          /\ delivery'.next = delivery.next /\ delivery'.first = delivery.first
          /\ delivery'.called = delivery.called /\ delivery'.moved = delivery.moved
          /\ delivery'.list = listeners
      BY <1>a, <1>w, <2>1, <2>3 DEF Delivery, Walking
    <3>2. Path = listeners /\ Path' = listeners
      BY <2>3, <3>1 DEF Path, Walking
    <3>3. Underway'
      BY <1>w, <2>1, <2>3, <3>1, <3>2 DEF Underway, AheadOrHeard, OnCourse, Walking
    <3>4. ListsTyped'
      BY <1>t, <2>1, <2>2, <3>1 DEF ListsTyped
    <3> QED BY <3>1, <3>3, <3>4 DEF EventsInv
  <2>4. CASE ~Walking
    <3>1. delivery' = delivery
      BY <2>1, <2>4
    <3>2. ListsTyped'
      BY <1>t, <2>1, <2>2, <3>1 DEF ListsTyped
    <3>3. delivery.pc = "calling" => Path' = Path /\ ~delivery.live
      BY <2>4, <3>1 DEF Walking, Path
    <3>4. delivery'.pc = "calling" => Underway'
      BY <1>w, <3>1, <3>3 DEF Underway, AheadOrHeard, OnCourse
    <3>5. delivery'.pc \in {"handled", "done"} /\ ~delivery'.stopped => Heard'
      BY <1>h, <3>1 DEF Heard
    <3> QED BY <3>2, <3>4, <3>5 DEF EventsInv
  <2> QED BY <2>3, <2>4
<1>8. ASSUME NEW c \in Callbacks, RegisterDomainHandler(c) PROVE EventsInv'
  <2>1. /\ listeners' = Append(listeners, c) /\ Len(listeners) < MaxListeners
        /\ UNCHANGED <<subscribers, everyone, sorting, delivery>> /\ scene = "domain"
    BY <1>8 DEF RegisterDomainHandler, OnDomain, On
  <2>2. /\ listeners' \in Seq(Callbacks) /\ Len(listeners') = Len(listeners) + 1
        /\ \A i \in 1 .. Len(listeners) : listeners'[i] = listeners[i]
    BY <1>a, <2>1
  <2>3. ListsTyped'
    BY <1>t, <1>a, <2>1, <2>2 DEF ListsTyped
  <2>4. ASSUME delivery.pc = "calling" PROVE Underway'
    <3>1. /\ Len(Path') >= Len(Path) /\ Len(Path') \in Nat
          /\ \A i \in 1 .. Len(Path) : Path'[i] = Path[i]
      BY <1>w, <1>a, <2>1, <2>2, <2>4 DEF Path
    <3> HIDE DEF Path
    <3>2. Underway /\ Len(Path) \in Nat /\ Len(delivery.called) \in Nat /\ Len(delivery.first) \in Nat
          /\ delivery.next \in Nat
      BY <1>w, <2>4
    <3>3. AheadOrHeard'
      <4> SUFFICES ASSUME NEW i \in 1 .. Len(delivery.first),
                          ~ \E k \in 1 .. Len(delivery.called) : delivery.called[k] = delivery.first[i]
                   PROVE  \E k \in delivery.next .. Len(Path') : Path'[k] = delivery.first[i]
        BY <2>1 DEF AheadOrHeard
      <4>1. PICK k \in delivery.next .. Len(Path) : Path[k] = delivery.first[i]
        BY <3>2 DEF Underway, AheadOrHeard
      <4>2. k \in 1 .. Len(Path) /\ k \in delivery.next .. Len(Path')
        BY <3>1, <3>2 DEF Underway
      <4> QED BY <3>1, <4>1, <4>2
    <3>4. ~delivery.moved => OnCourse'
      <4>1. Len(delivery.called) <= Len(Path)
        BY <3>2 DEF Underway
      <4> QED BY <2>1, <3>1, <3>2, <4>1 DEF Underway, OnCourse
    <3>5. delivery.next <= Len(Path') + 1
      BY <3>1, <3>2 DEF Underway
    <3> QED BY <2>1, <3>2, <3>3, <3>4, <3>5 DEF Underway
  <2>5. delivery'.pc \in {"handled", "done"} /\ ~delivery'.stopped => Heard'
    BY <1>h, <2>1 DEF Heard
  <2> QED BY <2>1, <2>3, <2>4, <2>5 DEF EventsInv
<1>9. CASE Publish \/ Forward
  <2>1. /\ delivery' = Walk(subscribers \o everyone, FALSE)
        /\ UNCHANGED <<subscribers, everyone, listeners, sorting>>
    BY <1>9 DEF Publish, Forward, OnBus, OnDomain
  <2>2. subscribers \o everyone \in Seq(Callbacks)
    BY <1>a
  <2> QED BY <1>b, <2>1, <2>2
<1>10. CASE Dispatch \/ Emit
  <2>1. /\ delivery' = Walk(listeners, TRUE) /\ sorting = None
        /\ UNCHANGED <<subscribers, everyone, listeners, sorting>>
    BY <1>10, <1>t DEF Dispatch, Emit, OnListeners, OnDomain, On, ListsTyped
  <2> QED BY <1>a, <1>b, <2>1
\* Nobody is called through a list that looks empty.
<1>l. delivery.pc = "calling" /\ delivery.next <= Len(List) => List = Path
  <2> SUFFICES ASSUME delivery.pc = "calling", delivery.live, sorting # None
               PROVE  ~(delivery.next <= Len(<<>>))
    BY DEF List, Path
  <2> QED BY <1>w DEF Underway
<1>11. CASE CallNext
  <2>1. PICK stop \in BOOLEAN : delivery' = [Called EXCEPT !.stopped = stop]
    BY <1>11 DEF CallNext
  <2>2. /\ delivery.pc = "calling" /\ delivery.next <= Len(Path) /\ List = Path
        /\ UNCHANGED <<subscribers, everyone, listeners, sorting>>
    BY <1>11, <1>l DEF CallNext, Calling, OnDelivery
  <2>3. delivery.next \in 1 .. Len(Path) /\ Path[delivery.next] \in Callbacks
    BY <1>w, <2>2 DEF Underway
  <2>4. /\ Append(delivery.called, Path[delivery.next]) \in Seq(Callbacks)
        /\ delivery.next + 1 \in Nat
    BY <1>w, <2>2, <2>3
  <2>5. /\ delivery' \in Delivery /\ delivery'.pc = "calling" /\ delivery'.live = delivery.live
        /\ delivery'.next = delivery.next + 1 /\ delivery'.first = delivery.first
        /\ delivery'.called = Append(delivery.called, Path[delivery.next])
        /\ delivery'.moved = delivery.moved /\ delivery'.list = delivery.list
    BY <1>w, <2>1, <2>2, <2>4 DEF Called, Delivery
  <2>6. Path' = Path
    BY <2>2, <2>5 DEF Path
  <2>7. /\ Len(delivery'.called) = Len(delivery.called) + 1
        /\ delivery'.called[Len(delivery.called) + 1] = Path[delivery.next]
        /\ \A i \in 1 .. Len(delivery.called) : delivery'.called[i] = delivery.called[i]
        /\ delivery.next = Len(delivery.called) + 1
    BY <1>w, <2>2, <2>3, <2>5 DEF Underway
  <2> HIDE DEF Path
  <2>8. AheadOrHeard'
    <3> SUFFICES ASSUME NEW i \in 1 .. Len(delivery.first)
                 PROVE  \/ \E k \in 1 .. Len(delivery'.called) : delivery'.called[k] = delivery.first[i]
                        \/ \E k \in delivery.next + 1 .. Len(Path) : Path[k] = delivery.first[i]
      BY <2>5, <2>6 DEF AheadOrHeard
    <3>1. CASE \E k \in 1 .. Len(delivery.called) : delivery.called[k] = delivery.first[i]
      BY <1>w, <2>2, <2>7, <3>1
    <3>2. CASE \E k \in delivery.next .. Len(Path) : Path[k] = delivery.first[i]
      <4>1. PICK k \in delivery.next .. Len(Path) : Path[k] = delivery.first[i]
        BY <3>2
      <4>2. CASE k = delivery.next
        BY <1>w, <2>2, <2>7, <4>1, <4>2
      <4>3. CASE k # delivery.next
        BY <1>w, <2>2, <4>1, <4>3
      <4> QED BY <4>2, <4>3
    <3> QED BY <1>w, <2>2, <3>1, <3>2 DEF Underway, AheadOrHeard
  <2>9. ~delivery.moved => OnCourse'
    BY <1>w, <2>2, <2>5, <2>6, <2>7 DEF Underway, OnCourse
  <2>10. Underway'
    BY <1>w, <2>2, <2>3, <2>5, <2>6, <2>7, <2>8, <2>9 DEF Underway
  <2>11. ListsTyped'
    BY <1>t, <2>2, <2>5 DEF ListsTyped, UrgentFirst
  <2> QED BY <2>5, <2>10, <2>11 DEF EventsInv
<1>12. CASE EndWalk
  <2>1. /\ delivery.pc = "calling" /\ (delivery.stopped \/ delivery.next > Len(List))
        /\ delivery' = [delivery EXCEPT
              !.pc = IF scene = "domain" /\ delivery.live THEN "handled" ELSE "done",
              !.cut = sorting # None]
        /\ UNCHANGED <<subscribers, everyone, listeners, sorting>>
    BY <1>12 DEF EndWalk, OnDelivery
  <2>2. (sorting # None) \in BOOLEAN
    OBVIOUS
  <2>3. /\ delivery' \in Delivery /\ delivery'.pc \in {"handled", "done"}
        /\ delivery'.first = delivery.first /\ delivery'.called = delivery.called
        /\ delivery'.moved = delivery.moved /\ delivery'.stopped = delivery.stopped
    BY <1>w, <2>1, <2>2 DEF Delivery
  <2>4. ~delivery'.cut => sorting = None
    BY <1>w, <2>1 DEF Delivery
  <2>5. ASSUME ~delivery.stopped PROVE Heard'
    <3>1. sorting = None \/ ~delivery.live => List = Path /\ Len(Path) < delivery.next
      BY <2>1, <2>5 DEF List, Path
    <3>2. /\ Underway /\ Len(Path) \in Nat /\ Len(delivery.called) \in Nat
          /\ Len(delivery.first) \in Nat /\ delivery.next \in Nat
      BY <1>w, <2>1
    <3> HIDE DEF Path, List
    <3>3. sorting = None \/ ~delivery.live => Len(delivery.called) = Len(Path)
      BY <3>1, <3>2 DEF Underway
    <3>4. ~delivery.moved => sorting = None \/ ~delivery.live
      BY <3>2 DEF Underway
    <3>5. ~delivery.moved =>
             /\ Len(delivery.first) <= Len(delivery.called)
             /\ \A i \in 1 .. Len(delivery.first) : delivery.called[i] = delivery.first[i]
             /\ scene # "domain" => Len(delivery.called) = Len(delivery.first)
      BY <3>2, <3>3, <3>4 DEF Underway, OnCourse
    <3>6. sorting = None => \A i \in 1 .. Len(delivery.first) :
             \E k \in 1 .. Len(delivery.called) : delivery.called[k] = delivery.first[i]
      BY <3>1, <3>2 DEF Underway, AheadOrHeard
    <3> QED BY <2>3, <2>4, <3>5, <3>6 DEF Heard
  <2>6. ListsTyped'
    BY <1>t, <2>1, <2>3 DEF ListsTyped, UrgentFirst
  <2> QED BY <2>3, <2>5, <2>6 DEF EventsInv
<1> QED
    BY <1>1, <1>2, <1>3, <1>4, <1>5, <1>6, <1>7, <1>8, <1>9, <1>10, <1>11, <1>12 DEF EventsNext

\* The steps of every scene keep the invariant of the deliveries.
LEMMA EventsInvStep == EventsInv /\ [Next]_vars => EventsInv'
<1> SUFFICES ASSUME EventsInv, [Next]_vars PROVE EventsInv'
    OBVIOUS
<1>1. CASE Next /\ scene \in {"bus", "listeners", "domain"}
  <2>1. EventsNext /\ UNCHANGED scene
    BY <1>1 DEF Next
  <2> QED BY <1>1, <2>1, EventsStep
<1>2. CASE UNCHANGED vars \/ (Next /\ scene \notin {"bus", "listeners", "domain"})
  <2>1. UNCHANGED <<scene, eventVars>>
    BY <1>2 DEF vars, Next
  <2> QED BY <2>1 DEF eventVars, EventsInv, ListsTyped, UrgentFirst, Underway, AheadOrHeard,
                      OnCourse, Path, Heard
<1> QED BY <1>1, <1>2

\* A delivery that is not stopped has called everybody who was registered when
\* it began, in that order, however many register, leave or raise meanwhile
\* (EventBus.publish, the dispatchers' dispatch and emit), for any number of
\* callbacks and any length of the lists.
THEOREM NobodyIsLeftOut == Spec => []EveryListenerHears
<1>1. EventsInv => EveryListenerHears
  <2> SUFFICES ASSUME EventsInv, delivery.pc \in {"handled", "done"}, ~delivery.stopped
               PROVE  EveryListenerHears
    BY DEF EveryListenerHears
  <2>1. delivery \in Delivery /\ Heard
    BY DEF EventsInv, ListsTyped, NoDelivery
  <2> DEFINE f == delivery.first
             c == delivery.called
  <2>2. f \in Seq(Callbacks) /\ c \in Seq(Callbacks)
    BY <2>1 DEF Delivery
  <2>3. Heard <=> /\ ~delivery.moved =>
                        /\ Len(f) <= Len(c)
                        /\ \A i \in 1 .. Len(f) : c[i] = f[i]
                        /\ scene # "domain" => Len(c) = Len(f)
                  /\ ~delivery.cut => \A i \in 1 .. Len(f) : \E k \in 1 .. Len(c) : c[k] = f[i]
    BY DEF Heard
  <2>4. EveryListenerHears <=>
           /\ ~delivery.moved => IsPrefix(f, c)
           /\ ~delivery.moved /\ scene # "domain" => c = f
           /\ ~delivery.cut => ToSet(f) \subseteq ToSet(c)
    BY DEF EveryListenerHears
  <2> HIDE DEF f, c
  <2>5. ASSUME ~delivery.moved PROVE IsPrefix(f, c)
    <3>1. Len(f) <= Len(c) /\ \A i \in 1 .. Len(f) : c[i] = f[i]
      BY <2>1, <2>3, <2>5
    <3> DEFINE a == SubSeq(f, 1, Len(f))
               b == SubSeq(c, 1, Len(f))
    <3>2. a \in Seq(Callbacks) /\ Len(a) = Len(f) /\ \A i \in 1 .. Len(f) : a[i] = f[i]
      BY <2>2
    <3>3. b \in Seq(Callbacks) /\ Len(b) = Len(f) /\ \A i \in 1 .. Len(f) : b[i] = c[i]
      BY <2>2, <3>1
    <3>4. IsPrefix(f, c) <=> a = b
      BY <3>1 DEF IsPrefix
    <3> HIDE DEF a, b
    <3>5. a = b
      BY <3>1, <3>2, <3>3
    <3> QED BY <3>4, <3>5
  <2>6. ASSUME ~delivery.moved, scene # "domain" PROVE c = f
    BY <2>1, <2>2, <2>3, <2>6
  <2>7. ASSUME ~delivery.cut PROVE ToSet(f) \subseteq ToSet(c)
    BY <2>1, <2>2, <2>3, <2>7 DEF ToSet
  <2> QED BY <2>4, <2>5, <2>6, <2>7
<1> QED BY <1>1, InitEvents, EventsInvStep, PTL DEF Spec

-----------------------------------------------------------------------------
(***************************************************************************)
(* The commands that fill the database.  A command has got what it owes: it *)
(* is committed, or in its session and a commit is still to come.          *)
(***************************************************************************)
Commands == DOMAIN Scripts \cup {"seed", "unseed"}
Big == {"install", "reset"}
Bundle == <<"core", "bundle">>

\* What a command may delete, what comes only from elsewhere, and what it may
\* write over.
Cleared == Of({"ledger", "sale", "invoice", "balance", "plan", "bundle", "pack", "tax", "user",
               "link", "details", "grant"}) \cup {Marker(p) : p \in Plugins}
Foreign == Of({"settings", "balance"})
Rewritten == Of({"plan", "details", "user"})

Statement == {"ensure", "insert", "overwrite", "clear", "file", "commit"} \X SUBSET Things

\* The statements of a command, while it is at the plugin (or the core) name.
Lawful(cmd, name) ==
    {s \in Statement :
       /\ s[1] = "clear" => s[2] \subseteq Cleared /\ (s[2] \cap Named # {} => cmd = "reset")
       /\ s[1] = "insert" => cmd = "reset" /\ s[2] = {Bundle}
       /\ s[1] = "overwrite" => s[2] \subseteq Rewritten
       /\ s[1] = "file" => s[2] = Of({"settings"})
       /\ s[1] = "commit" => s[2] = {}
       /\ s[1] = "ensure" => /\ Bundle \notin s[2] /\ s[2] \cap Foreign = {}
                             /\ s[2] \cap Named # {} => cmd \in Big
       /\ cmd = "seed" => s[1] \in {"ensure", "commit"} /\ \A x \in s[2] : x[1] = name}

\* A command clears before anything else, inserts bundles once, after they were
\* cleared, and ends with a commit.
Ordered(todo) ==
    \A i, j \in 1 .. Len(todo) : i < j =>
       /\ todo[j][1] = "clear" => todo[i][1] = "clear"
       /\ todo[j][1] = "insert" => todo[i][1] # "insert"

Closed(todo) == todo # <<>> => todo[Len(todo)] = Commit

Clears(todo, k) == todo[k][1] = "clear" /\ Bundle \in todo[k][2]

SessionRow ==
    [pc : {"run"}, cmd : Commands, names : Seq(Plugins \cup {"core"}), todo : Seq(Statement),
     strict : BOOLEAN, new : SUBSET Things, gone : [Things -> Nat], changed : SUBSET Things,
     broken : BOOLEAN, owed : SUBSET Things, lost : SUBSET Things]

SeedRequest ==
    [pc : {"idle"}] \cup SessionRow \cup [pc : {"ok"}, cmd : Commands, owed : SUBSET Things]

\* Only the plugins' own data are more than one thing to do.
NamesOf(cmd, names) == IF cmd = "seed" THEN names \in Seq(Plugins) ELSE Len(names) = 1

\* A command keeps to its script, and what it owes and has not committed is of
\* the plugin it is at.
Disciplined(t) ==
    /\ NamesOf(t.cmd, t.names)
    /\ t.names # <<>> /\ t.todo \in Seq(Lawful(t.cmd, t.names[1])) /\ Ordered(t.todo) /\ Closed(t.todo)
    /\ t.todo # <<>> /\ t.todo[1][1] = "clear" => t.owed = {} /\ t.new = {}
    /\ t.todo = <<>> => t.owed \cap t.new = {}
    /\ t.cmd = "seed" => \A x \in t.owed \cap t.new : x[1] = t.names[1]
    /\ t.broken => t.new = {}
    /\ t.changed \subseteq Rewritten /\ t.new \cap Foreign = {}
    /\ t.new \cap Named # {} => t.cmd \in Big

Within(t, c) ==
    \A x \in Things : /\ t.gone[x] <= c[x]
                      /\ t.gone[x] > 0 => x \in Cleared /\ (x \in Named => t.cmd = "reset")

\* What w sees, were c the rows there are.
There(t, c, x) == t.gone[x] < c[x] \/ x \in t.new

Due(t, c) == \A x \in t.owed \ t.lost : There(t, c, x)

Data(p) == {Rows(p), Rest(p)}

\* A marker comes after the data of its plugin.
Supplied(t, c) ==
    \A p \in Plugins : \A y \in Data(p) :
       /\ Marker(p) \in t.new => There(t, c, y)
       /\ \A i \in 1 .. Len(t.todo) : t.todo[i][1] = "ensure" /\ Marker(p) \in t.todo[i][2] =>
             There(t, c, y) \/ \E k \in 1 .. i - 1 : t.todo[k] = <<"ensure", {y}>>

RunOK(t, c) ==
    t.pc = "run" => Disciplined(t) /\ Within(t, c) /\ Due(t, c) /\ Supplied(t, c)

OkOK(t, c) == t.pc = "ok" => \A x \in t.owed : c[x] > 0

\* Nobody deletes what another has deleted; of what may be there once, nobody
\* inserts a second one.
Single(x) == Unique(x) \/ (x \in Named /\ mixed = {})

SessionsApart ==
    \A v, w \in Workers : IsAt(v, "run") /\ IsAt(w, "run") /\ v # w =>
       \A x \in Things : /\ job[v].gone[x] = 0 \/ job[w].gone[x] = 0
                         /\ Single(x) => x \notin job[v].new \/ x \notin job[w].new

OneOfEach == \A x \in Things : Single(x) => copies[x] <= 1

FirstOfAKind ==
    \A x \in Things : Single(x) =>
       \A w \in Workers : IsAt(w, "run") /\ x \in job[w].new => copies[x] = job[w].gone[x]

FillsAll(w) == IsAt(w, "run") /\ job[w].cmd \in Big

\* Bundles have been cleared before they are inserted, and no other command that
\* creates any is under way.
Ready(t, c) ==
    \A i \in 1 .. Len(t.todo) : t.todo[i][1] = "insert" =>
       \/ c[Bundle] = t.gone[Bundle] /\ Bundle \notin t.new
       \/ \E k \in 1 .. i - 1 : Clears(t.todo, k)

Alone ==
    mixed = {} => /\ \A v, w \in Workers : FillsAll(v) /\ FillsAll(w) => v = w
                  /\ \A w \in Workers : IsAt(w, "run") => Ready(job[w], copies)

Truthful == \A p \in Plugins : copies[Marker(p)] > 0 => \A y \in Data(p) : copies[y] > 0

SeedTyped ==
    /\ copies \in [Things -> Nat] /\ own \subseteq Things /\ mixed \in {{}, Named}
    /\ edited \subseteq Of({"tax", "country", "plan", "settings"})
    /\ EditsSurvive

SeedInv ==
    /\ SeedTyped /\ Truthful /\ OneOfEach
    /\ scene = "seed" => /\ job \in [Workers -> SeedRequest]
                         /\ \A w \in Workers : RunOK(job[w], copies) /\ OkOK(job[w], copies)
                         /\ SessionsApart /\ FirstOfAKind /\ Alone

-----------------------------------------------------------------------------
\* Which things there are, and which are which.
LEMMA ThingsApart ==
    /\ Of(Core) \subseteq Things /\ Named \subseteq Of(Core) /\ Foreign \subseteq Of(Core)
    /\ Rewritten \subseteq Of(Core) /\ Rewritten \cap (Foreign \cup Named) = {}
    /\ Bundle \in Named /\ Named \cap Foreign = {}
    /\ Cleared \subseteq Things /\ <<"core", "settings">> \in Foreign \ Cleared
    /\ \A p \in Plugins : /\ Marker(p) \in Things \ Of(Core) /\ Marker(p) \in Cleared
                          /\ Data(p) \subseteq Things \ (Of(Core) \cup Cleared)
                          /\ \A q \in Plugins : Marker(p) \notin Data(q)
<1>1. /\ Of(Core) \subseteq Things /\ Named \subseteq Of(Core) /\ Foreign \subseteq Of(Core)
      /\ Rewritten \subseteq Of(Core)
    BY DEF Things, Named, Foreign, Rewritten, Of, Core
<1>2. Rewritten \cap (Foreign \cup Named) = {}
    BY DEF Named, Foreign, Rewritten, Of
<1>3. Bundle \in Named /\ Named \cap Foreign = {}
    BY DEF Bundle, Named, Foreign, Of
<1>4. \A p \in Plugins : /\ Marker(p) \in Things \ Of(Core) /\ Marker(p) \in Cleared
                         /\ Data(p) \subseteq Things \ (Of(Core) \cup Cleared)
                         /\ \A q \in Plugins : Marker(p) \notin Data(q)
  <2> TAKE p \in Plugins
  <2>1. Marker(p) \in Things /\ Rows(p) \in Things /\ Rest(p) \in Things
    BY DEF Things
  <2>2. \A names : "marker" \notin names /\ "rows" \notin names /\ "rest" \notin names
            => Marker(p) \notin Of(names) /\ Rows(p) \notin Of(names) /\ Rest(p) \notin Of(names)
    BY DEF Of, Marker, Rows, Rest
  <2>3. /\ Marker(p) \notin Of(Core) /\ Rows(p) \notin Of(Core) /\ Rest(p) \notin Of(Core)
    BY <2>2 DEF Core
  <2>4. \A q \in Plugins : Marker(q) \notin {Rows(p), Rest(p)} /\ Marker(p) \notin {Rows(q), Rest(q)}
    BY DEF Marker, Rows, Rest
  <2>5. Rows(p) \notin Cleared /\ Rest(p) \notin Cleared
    BY <2>2, <2>4 DEF Cleared
  <2> QED BY <2>1, <2>3, <2>4, <2>5 DEF Data, Cleared
<1>5. Cleared \subseteq Things
  <2>1. Of({"ledger", "sale", "invoice", "balance", "plan", "bundle", "pack", "tax", "user",
            "link", "details", "grant"}) \subseteq Of(Core)
    BY DEF Of, Core
  <2> QED BY <1>1, <1>4, <2>1 DEF Cleared
<1>6. <<"core", "settings">> \in Foreign \ Cleared
  <2>1. <<"core", "settings">> \in Foreign
    BY DEF Foreign, Of
  <2>2. <<"core", "settings">> \notin Of({"ledger", "sale", "invoice", "balance", "plan", "bundle", "pack",
            "tax", "user", "link", "details", "grant"})
    BY DEF Of
  <2>3. \A p \in Plugins : <<"core", "settings">> # Marker(p)
    BY <1>1, <1>4, <2>1
  <2> QED BY <2>1, <2>2, <2>3 DEF Cleared
<1> QED BY <1>1, <1>2, <1>3, <1>4, <1>5, <1>6

\* What a cascade takes along may be cleared, and is no bundle.
LEMMA CascadesAreCleared ==
    ASSUME NEW xs \in SUBSET Cleared
    PROVE  /\ WithCascades(xs) \subseteq Cleared /\ xs \subseteq WithCascades(xs)
           /\ WithCascades(xs) \cap Named \subseteq xs
<1> DEFINE along == Of({"link", "details", "grant", "invoice"})
<1>1. \A x \in Things : Cascaded[x] \subseteq along
  <2> SUFFICES ASSUME NEW x \in Things, NEW y \in Cascaded[x] PROVE y \in along
    OBVIOUS
  <2>1. PICK key \in Cascades : Of({key[1]}) = {y}
    BY DEF Cascaded, Children
  <2>2. key[1] \in {"link", "details", "grant", "invoice"}
    BY DEF Cascades
  <2> QED BY <2>1, <2>2 DEF Of
<1>2. along \subseteq Cleared /\ along \cap Named = {}
    BY DEF Of, Cleared, Named
<1>3. \A x \in xs : x \in Things
    BY ThingsApart
<1> HIDE DEF along
<1> QED BY <1>1, <1>2, <1>3 DEF WithCascades

-----------------------------------------------------------------------------
\* Scripts are put together from statements that get or create something, which
\* may come in any order.
Plain(cmd) ==
    {s \in Lawful(cmd, "core") : s[1] \notin {"clear", "insert"} /\ (s[1] = "ensure" => s[2] \subseteq Of(Core))}

Prepared(todo) ==
    \A i \in 1 .. Len(todo) : todo[i][1] = "insert" => \E k \in 1 .. i - 1 : Clears(todo, k)

Known(todo) == \A i \in 1 .. Len(todo) : todo[i][1] = "ensure" => todo[i][2] \subseteq Of(Core)

Script(cmd, s) ==
    /\ s \in Seq(Lawful(cmd, "core")) /\ s # <<>>
    /\ Ordered(s) /\ Closed(s) /\ Prepared(s) /\ Known(s)

LEMMA PlainStatements ==
    ASSUME NEW cmd, cmd # "seed"
    PROVE  /\ Commit \in Plain(cmd) /\ Write({"settings"}) \in Plain(cmd)
           /\ \A name \in {"tax", "country", "method", "role", "currency", "user", "invoice", "grant",
                           "link", "plan"} : Ensure({name}) \in Plain(cmd)
           /\ \A name \in {"plan", "details", "user"} : Overwrite({name}) \in Plain(cmd)
           /\ cmd = "install" => Ensure({"pack"}) \in Plain(cmd)
<1>1. Commit \in Plain(cmd)
    BY DEF Commit, Plain, Lawful, Statement
<1>2. Write({"settings"}) \in Plain(cmd)
  <2>1. Of({"settings"}) \subseteq Things
    BY ThingsApart DEF Of, Core
  <2> QED BY <2>1 DEF Write, Plain, Lawful, Statement
<1>3. ASSUME NEW name \in {"tax", "country", "method", "role", "currency", "user", "invoice", "grant",
                           "link", "plan"}
      PROVE  Ensure({name}) \in Plain(cmd)
  <2>1. Of({name}) = {<<"core", name>>} /\ <<"core", name>> \in Of(Core)
    BY DEF Of, Core
  <2>2. <<"core", name>> \notin Named \cup Foreign /\ <<"core", name>> # Bundle
    BY DEF Named, Foreign, Of, Bundle
  <2>3. Ensure({name}) = <<"ensure", {<<"core", name>>}>>
    BY <2>1 DEF Ensure
  <2>4. Ensure({name}) \in Statement
    BY <2>1, <2>3, ThingsApart DEF Statement
  <2> QED BY <2>1, <2>2, <2>3, <2>4 DEF Plain, Lawful
<1>4. ASSUME NEW name \in {"plan", "details", "user"}
      PROVE  Overwrite({name}) \in Plain(cmd)
  <2>1. Of({name}) = {<<"core", name>>} /\ <<"core", name>> \in Of(Core) /\ <<"core", name>> \in Rewritten
    BY DEF Of, Core, Rewritten
  <2>2. Overwrite({name}) = <<"overwrite", {<<"core", name>>}>>
    BY <2>1 DEF Overwrite
  <2>3. Overwrite({name}) \in Statement
    BY <2>1, <2>2, ThingsApart DEF Statement
  <2> QED BY <2>1, <2>2, <2>3 DEF Plain, Lawful
<1>5. ASSUME cmd = "install" PROVE Ensure({"pack"}) \in Plain(cmd)
  <2>1. Of({"pack"}) = {<<"core", "pack">>} /\ <<"core", "pack">> \in Of(Core)
    BY DEF Of, Core
  <2>2. <<"core", "pack">> \notin Foreign /\ <<"core", "pack">> # Bundle
    BY DEF Foreign, Of, Bundle
  <2>3. Ensure({"pack"}) = <<"ensure", {<<"core", "pack">>}>>
    BY <2>1 DEF Ensure
  <2>4. Ensure({"pack"}) \in Statement
    BY <2>1, <2>3, ThingsApart DEF Statement
  <2> QED BY <1>5, <2>1, <2>2, <2>3, <2>4 DEF Plain, Lawful, Big
<1> QED BY <1>1, <1>2, <1>3, <1>4, <1>5

LEMMA PlainScripts ==
    ASSUME NEW cmd, NEW s \in Seq(Plain(cmd)), s # <<>>, Closed(s)
    PROVE  Script(cmd, s)
<1>1. \A i \in 1 .. Len(s) : s[i] \in Plain(cmd)
    BY ElementOfSeq
<1>2. s \in Seq(Lawful(cmd, "core"))
    BY SeqMonotonic DEF Plain
<1> QED BY <1>1, <1>2 DEF Script, Ordered, Prepared, Known, Plain

\* One script after another.
LEMMA ClosedConcat ==
    ASSUME NEW S, NEW s \in Seq(S), NEW t \in Seq(S), t # <<>>, Closed(t)
    PROVE  s \o t \in Seq(S) /\ s \o t # <<>> /\ Closed(s \o t)
<1>1. Len(t) \in Nat \ {0} /\ Len(s) \in Nat
    BY EmptySeq, LenProperties
<1>2. /\ s \o t \in Seq(S) /\ Len(s \o t) = Len(s) + Len(t)
      /\ \A i \in 1 .. Len(s) + Len(t) : (s \o t)[i] = IF i <= Len(s) THEN s[i] ELSE t[i - Len(s)]
    BY ConcatProperties
<1>3. (s \o t)[Len(s) + Len(t)] = t[Len(t)]
  <2>1. /\ Len(s) + Len(t) \in 1 .. Len(s) + Len(t) /\ ~(Len(s) + Len(t) <= Len(s))
        /\ Len(s) + Len(t) - Len(s) = Len(t)
    BY <1>1
  <2> QED BY <1>2, <2>1
<1>4. s \o t # <<>>
    BY <1>1, <1>2, EmptySeq
<1> QED BY <1>2, <1>3, <1>4 DEF Closed

LEMMA PlainCommands ==
    \A cmd \in {"taxes", "countries", "methods", "roles", "tests", "admin", "install"} :
        Script(cmd, Scripts[cmd])
<1>1. ASSUME NEW cmd, cmd # "seed"
      PROVE  /\ SeedTaxes \in Seq(Plain(cmd)) /\ SeedTaxes # <<>> /\ Closed(SeedTaxes)
             /\ SeedCountries \in Seq(Plain(cmd)) /\ SeedCountries # <<>> /\ Closed(SeedCountries)
             /\ SeedMethods \in Seq(Plain(cmd)) /\ SeedMethods # <<>> /\ Closed(SeedMethods)
             /\ SeedRoles \in Seq(Plain(cmd)) /\ SeedRoles # <<>> /\ Closed(SeedRoles)
             /\ <<Ensure({"grant"}), Commit>> \in Seq(Plain(cmd)) /\ <<Ensure({"grant"}), Commit>> # <<>>
             /\ Closed(<<Ensure({"grant"}), Commit>>)
             /\ <<Overwrite({"user"}), Commit>> \in Seq(Plain(cmd))
    BY <1>1, PlainStatements DEF SeedTaxes, SeedCountries, SeedMethods, SeedRoles, Closed
<1>2. /\ Scripts["taxes"] = SeedTaxes /\ Scripts["countries"] = SeedCountries
      /\ Scripts["methods"] = SeedMethods /\ Scripts["roles"] = SeedRoles
      /\ Scripts["tests"] = SeedTests /\ Scripts["admin"] = CreateAdmin /\ Scripts["install"] = Install
      /\ Scripts["reset"] = Reset /\ Scripts["clean"] = CleanTests
    BY DEF Scripts
<1>3. ASSUME NEW cmd \in {"taxes", "countries", "methods", "roles"} PROVE Script(cmd, Scripts[cmd])
  <2>1. cmd # "seed"
    OBVIOUS
  <2>2. /\ Script(cmd, SeedTaxes) /\ Script(cmd, SeedCountries)
        /\ Script(cmd, SeedMethods) /\ Script(cmd, SeedRoles)
    BY <1>1, <2>1, PlainScripts
  <2> QED BY <1>2, <2>2
<1>4. Script("tests", SeedTests)
  <2>1. SeedTests \in Seq(Plain("tests")) /\ SeedTests # <<>> /\ Closed(SeedTests)
    BY PlainStatements DEF SeedTests, Closed
  <2> QED BY <2>1, PlainScripts
<1>5. Script("admin", CreateAdmin)
  <2> DEFINE P == Plain("admin")
             a == <<Overwrite({"user"}), Commit>> \o SeedRoles
  <2>1. /\ <<Overwrite({"user"}), Commit>> \in Seq(P) /\ SeedRoles \in Seq(P) /\ SeedRoles # <<>>
        /\ Closed(SeedRoles)
        /\ <<Ensure({"grant"}), Commit>> \in Seq(P) /\ <<Ensure({"grant"}), Commit>> # <<>>
        /\ Closed(<<Ensure({"grant"}), Commit>>)
    BY <1>1
  <2> HIDE DEF P
  <2>2. a \in Seq(P)
    BY <2>1, ClosedConcat
  <2>3. /\ a \o <<Ensure({"grant"}), Commit>> \in Seq(P)
        /\ a \o <<Ensure({"grant"}), Commit>> # <<>> /\ Closed(a \o <<Ensure({"grant"}), Commit>>)
    BY <2>1, <2>2, ClosedConcat
  <2>4. CreateAdmin = a \o <<Ensure({"grant"}), Commit>>
    BY DEF CreateAdmin
  <2> QED BY <2>3, <2>4, PlainScripts DEF P
<1>6. Script("install", Install)
  <2> DEFINE P == Plain("install")
  <2>1. /\ InstallCurrencies \in Seq(P) /\ InstallPlans \in Seq(P) /\ InstallUsers \in Seq(P)
        /\ InstallPacks \in Seq(P) /\ InstallSales \in Seq(P)
    BY PlainStatements DEF InstallCurrencies, InstallPlans, InstallUsers, InstallPacks, InstallSales
  <2>2. /\ SeedCountries \in Seq(P) /\ SeedRoles \in Seq(P)
        /\ <<Ensure({"grant"}), Commit>> \in Seq(P) /\ <<Ensure({"grant"}), Commit>> # <<>>
        /\ Closed(<<Ensure({"grant"}), Commit>>)
    BY <1>1
  <2> HIDE DEF P
  <2>3. SeedCountries \o SeedRoles \in Seq(P)
    BY <2>2, ConcatProperties
  <2>4. InstallRights \in Seq(P) /\ InstallRights # <<>> /\ Closed(InstallRights)
    BY <2>2, <2>3, ClosedConcat DEF InstallRights
  <2>5. InstallCurrencies \o InstallPlans \in Seq(P)
    BY <2>1, ConcatProperties
  <2>6. InstallCurrencies \o InstallPlans \o InstallUsers \in Seq(P)
    BY <2>1, <2>5, ConcatProperties
  <2>7. InstallCurrencies \o InstallPlans \o InstallUsers \o InstallPacks \in Seq(P)
    BY <2>1, <2>6, ConcatProperties
  <2>8. InstallCurrencies \o InstallPlans \o InstallUsers \o InstallPacks \o InstallSales \in Seq(P)
    BY <2>1, <2>7, ConcatProperties
  <2>9. Install \in Seq(P) /\ Install # <<>> /\ Closed(Install)
    BY <2>4, <2>8, ClosedConcat DEF Install
  <2> QED BY <2>9, PlainScripts DEF P
<1> QED BY <1>2, <1>3, <1>4, <1>5, <1>6

\* What is cleared comes first.
LEMMA ClearedFirst ==
    ASSUME NEW cmd, NEW c \in Seq({s \in Lawful(cmd, "core") : s[1] = "clear"}),
           NEW k \in 1 .. Len(c), Clears(c, k),
           NEW t \in Seq(Lawful(cmd, "core")), Ordered(t), Known(t), Closed(t), t # <<>>,
           \A i \in 1 .. Len(t) : t[i][1] # "clear"
    PROVE  Script(cmd, c \o t)
<1> DEFINE L == Lawful(cmd, "core")
           s == c \o t
<1>1. c \in Seq(L) /\ \A i \in 1 .. Len(c) : c[i][1] = "clear"
    BY ElementOfSeq, SeqMonotonic
<1>2. s \in Seq(L) /\ s # <<>> /\ Closed(s)
    BY <1>1, ClosedConcat
<1>3. /\ Len(s) = Len(c) + Len(t) /\ Len(c) \in Nat /\ Len(t) \in Nat
      /\ \A i \in 1 .. Len(s) : s[i] = IF i <= Len(c) THEN c[i] ELSE t[i - Len(c)]
    BY <1>1, ConcatProperties, LenProperties
<1> HIDE DEF s, L
<1>4. /\ \A i \in 1 .. Len(s) : i <= Len(c) => s[i] = c[i] /\ s[i][1] = "clear"
      /\ \A i \in 1 .. Len(s) : ~(i <= Len(c)) => /\ i - Len(c) \in 1 .. Len(t) /\ s[i] = t[i - Len(c)]
                                                  /\ s[i][1] # "clear"
    BY <1>1, <1>3
<1>5. Ordered(s)
  <2> SUFFICES ASSUME NEW i \in 1 .. Len(s), NEW j \in 1 .. Len(s), i < j
               PROVE  /\ s[j][1] = "clear" => s[i][1] = "clear"
                      /\ s[j][1] = "insert" => s[i][1] # "insert"
    BY DEF Ordered
  <2>1. CASE i <= Len(c)
    BY <1>4, <2>1
  <2>2. CASE ~(i <= Len(c))
    <3>1. ~(j <= Len(c)) /\ i - Len(c) < j - Len(c)
      BY <1>3, <2>2
    <3>2. /\ i - Len(c) \in 1 .. Len(t) /\ s[i] = t[i - Len(c)]
          /\ j - Len(c) \in 1 .. Len(t) /\ s[j] = t[j - Len(c)] /\ s[j][1] # "clear"
      BY <1>4, <2>2, <3>1
    <3> QED BY <3>1, <3>2 DEF Ordered
  <2> QED BY <2>1, <2>2
<1>6. Prepared(s)
  <2> SUFFICES ASSUME NEW i \in 1 .. Len(s), s[i][1] = "insert" PROVE \E m \in 1 .. i - 1 : Clears(s, m)
    BY DEF Prepared
  <2>1. ~(i <= Len(c))
    BY <1>4
  <2>2. k \in 1 .. i - 1 /\ s[k] = c[k]
    BY <1>3, <1>4, <2>1
  <2> QED BY <2>2 DEF Clears
<1>7. Known(s)
    BY <1>1, <1>4 DEF Known
<1> QED BY <1>2, <1>5, <1>6, <1>7 DEF Script, s, L

LEMMA ResetIsScript == Script("reset", Reset)
<1> DEFINE P == Plain("reset")
           R == P \cup {Insert({"bundle"})}
           C == {s \in Lawful("reset", "core") : s[1] = "clear"}
           triple == <<Insert({"bundle"}), Ensure({"link"}), Ensure({"plan"})>>
           t == SeedCatalog \o SeedCountries \o <<Commit>>
           c == ClearActivity \o ClearCatalog
<1>1. \A names \in SUBSET {"ledger", "sale", "invoice", "balance", "plan", "bundle", "pack", "tax"} :
          Clear(names) \in C
  <2> SUFFICES ASSUME NEW names \in SUBSET {"ledger", "sale", "invoice", "balance", "plan", "bundle", "pack", "tax"}
               PROVE  Clear(names) \in C
    OBVIOUS
  <2>1. Of(names) \subseteq Cleared
    BY DEF Of, Cleared
  <2>2. Clear(names) = <<"clear", Of(names)>>
    BY DEF Clear
  <2>3. Clear(names) \in Statement
    BY <2>1, <2>2, ThingsApart DEF Statement
  <2> QED BY <2>1, <2>2, <2>3 DEF Lawful
<1>2. /\ {"ledger"} \in SUBSET {"ledger", "sale", "invoice", "balance", "plan", "bundle", "pack", "tax"}
      /\ {"sale", "invoice"} \in SUBSET {"ledger", "sale", "invoice", "balance", "plan", "bundle", "pack", "tax"}
      /\ {"balance"} \in SUBSET {"ledger", "sale", "invoice", "balance", "plan", "bundle", "pack", "tax"}
      /\ {"plan", "bundle", "pack"} \in SUBSET {"ledger", "sale", "invoice", "balance", "plan", "bundle", "pack", "tax"}
      /\ {"tax"} \in SUBSET {"ledger", "sale", "invoice", "balance", "plan", "bundle", "pack", "tax"}
    OBVIOUS
<1>3. ClearActivity \in Seq(C) /\ ClearCatalog \in Seq(C)
  <2> HIDE DEF C
  <2> QED BY <1>1, <1>2 DEF ClearActivity, ClearCatalog
<1>4. Len(ClearActivity) = 3 /\ Len(ClearCatalog) = 2 /\ Clears(ClearCatalog, 1)
  <2>1. ClearCatalog[1] = Clear({"plan", "bundle", "pack"})
    BY DEF ClearCatalog
  <2>2. Clear({"plan", "bundle", "pack"})[1] = "clear" /\ Bundle \in Clear({"plan", "bundle", "pack"})[2]
    BY DEF Clear, Of, Bundle
  <2>3. Len(ClearActivity) = 3 /\ Len(ClearCatalog) = 2
    BY DEF ClearActivity, ClearCatalog
  <2> QED BY <2>1, <2>2, <2>3 DEF Clears
<1>5. c \in Seq(C) /\ 4 \in 1 .. Len(c) /\ Clears(c, 4)
  <2>1. /\ c \in Seq(C) /\ Len(c) = Len(ClearActivity) + Len(ClearCatalog)
        /\ \A i \in 1 .. Len(ClearActivity) + Len(ClearCatalog) :
              c[i] = IF i <= Len(ClearActivity) THEN ClearActivity[i] ELSE ClearCatalog[i - Len(ClearActivity)]
    <3> HIDE DEF C
    <3> QED BY <1>3, ConcatProperties
  <2>2. Len(c) = 5 /\ c[4] = ClearCatalog[1]
    <3> HIDE DEF c
    <3> QED BY <1>4, <2>1
  <2> HIDE DEF c, C
  <2> QED BY <1>4, <2>1, <2>2 DEF Clears
<1>6. Insert({"bundle"}) \in Lawful("reset", "core") /\ Insert({"bundle"})[1] = "insert"
  <2>1. Of({"bundle"}) = {Bundle}
    BY DEF Of, Bundle
  <2>2. Insert({"bundle"}) = <<"insert", {Bundle}>>
    BY <2>1 DEF Insert
  <2> QED BY <2>2, ThingsApart DEF Lawful, Statement
<1>7. /\ triple \in Seq(R) /\ Len(triple) = 3 /\ triple[2] \in P /\ triple[3] \in P
      /\ SeedTaxes \in Seq(R) /\ Len(SeedTaxes) = 2 /\ SeedTaxes[1] \in P /\ SeedTaxes[2] \in P
      /\ SeedCountries \in Seq(P) /\ SeedCountries \in Seq(R)
      /\ <<Commit>> \in Seq(P) /\ <<Commit>> \in Seq(R) /\ Closed(<<Commit>>) /\ <<Commit>> # <<>>
  <2>1. Commit \in P /\ Ensure({"tax"}) \in P /\ Ensure({"country"}) \in P /\ Ensure({"link"}) \in P
        /\ Ensure({"plan"}) \in P
    BY PlainStatements
  <2> HIDE DEF P
  <2> QED BY <2>1 DEF SeedTaxes, SeedCountries, Closed
<1>8. /\ SeedCatalog \in Seq(R) /\ Len(SeedCatalog) = 5
      /\ \A i \in 1 .. 5 : i # 3 => SeedCatalog[i] \in P
  <2> HIDE DEF P, R
  <2>1. SeedCatalog = SeedTaxes \o triple
    BY DEF SeedCatalog
  <2> HIDE DEF triple
  <2>2. /\ SeedCatalog \in Seq(R) /\ Len(SeedCatalog) = Len(SeedTaxes) + Len(triple)
        /\ \A i \in 1 .. Len(SeedTaxes) + Len(triple) :
              SeedCatalog[i] = IF i <= Len(SeedTaxes) THEN SeedTaxes[i] ELSE triple[i - Len(SeedTaxes)]
    BY <1>7, <2>1, ConcatProperties
  <2> QED BY <1>7, <2>2
<1>9. SeedCountries \o <<Commit>> \in Seq(P) /\ SeedCountries \o <<Commit>> \in Seq(R)
      /\ SeedCountries \o <<Commit>> # <<>> /\ Closed(SeedCountries \o <<Commit>>)
  <2> HIDE DEF P, R
  <2> QED BY <1>7, ClosedConcat
<1>10. t = SeedCatalog \o (SeedCountries \o <<Commit>>)
  <2> HIDE DEF P, R
  <2> QED BY <1>7, <1>8, ConcatAssociative, SMTT(30)
<1>11. t \in Seq(R) /\ t # <<>> /\ Closed(t) /\ \A i \in 1 .. Len(t) : i # 3 => t[i] \in P
  <2> DEFINE u == SeedCountries \o <<Commit>>
  <2> HIDE DEF P, R, u
  <2>1. t = SeedCatalog \o u /\ u \in Seq(P) /\ u \in Seq(R) /\ u # <<>> /\ Closed(u)
    BY <1>9, <1>10 DEF u
  <2> HIDE DEF t
  <2>2. t \in Seq(R) /\ t # <<>> /\ Closed(t)
    BY <1>8, <2>1, ClosedConcat
  <2>3. /\ Len(t) = Len(SeedCatalog) + Len(u) /\ Len(u) \in Nat
        /\ \A i \in 1 .. Len(SeedCatalog) + Len(u) :
              t[i] = IF i <= Len(SeedCatalog) THEN SeedCatalog[i] ELSE u[i - Len(SeedCatalog)]
    BY <1>8, <2>1, ConcatProperties, LenProperties
  <2>4. \A i \in 1 .. Len(u) : u[i] \in P
    BY <2>1, ElementOfSeq
  <2> QED BY <1>8, <2>2, <2>3, <2>4
<1>12. \A i \in 1 .. Len(t) : /\ t[i][1] # "clear" /\ (t[i][1] = "insert" => i = 3)
                              /\ (t[i][1] = "ensure" => t[i][2] \subseteq Of(Core))
  <2> SUFFICES ASSUME NEW i \in 1 .. Len(t)
               PROVE  /\ t[i][1] # "clear" /\ (t[i][1] = "insert" => i = 3)
                      /\ (t[i][1] = "ensure" => t[i][2] \subseteq Of(Core))
    OBVIOUS
  <2>1. t[i] \in R
    <3> HIDE DEF R, t
    <3> QED BY <1>11, ElementOfSeq
  <2>2. i # 3 => t[i] \in P
    BY <1>11
  <2> HIDE DEF t
  <2>3. t[i] \in P => t[i][1] \notin {"clear", "insert"} /\ (t[i][1] = "ensure" => t[i][2] \subseteq Of(Core))
    BY DEF Plain
  <2>4. t[i] = Insert({"bundle"}) => t[i][1] = "insert"
    BY <1>6
  <2> HIDE DEF P
  <2> QED BY <2>1, <2>2, <2>3, <2>4
<1>13. t \in Seq(Lawful("reset", "core"))
  <2>1. R \subseteq Lawful("reset", "core")
    BY <1>6 DEF Plain
  <2> HIDE DEF R, t
  <2> QED BY <1>11, <2>1, SeqMonotonic
<1>14. Ordered(t) /\ Known(t)
  <2> HIDE DEF t
  <2> QED BY <1>12 DEF Ordered, Known
<1>15. Script("reset", c \o t)
  <2>1. /\ c \in Seq(C) /\ 4 \in 1 .. Len(c) /\ Clears(c, 4) /\ Closed(t) /\ t # <<>>
        /\ \A i \in 1 .. Len(t) : t[i][1] # "clear"
    BY <1>5, <1>11, <1>12
  <2> HIDE DEF c, t
  <2> QED BY <2>1, <1>13, <1>14, ClearedFirst
<1>16. Reset = c \o t
  <2> DEFINE S == Lawful("reset", "core")
  <2>1. c \in Seq(S)
    <3> HIDE DEF c
    <3> QED BY <1>5, SeqMonotonic
  <2>2. /\ SeedCatalog \in Seq(R) /\ SeedCountries \in Seq(R) /\ <<Commit>> \in Seq(R) /\ R \subseteq S
    BY <1>6, <1>7, <1>8 DEF Plain
  <2>3. /\ SeedCatalog \in Seq(S) /\ SeedCountries \in Seq(S) /\ <<Commit>> \in Seq(S)
    <3> HIDE DEF R, S
    <3> QED BY <2>2, SeqMonotonic
  <2>4. Reset = ((c \o SeedCatalog) \o SeedCountries) \o <<Commit>>
    BY DEF Reset
  <2> HIDE DEF c, S
  <2>5. (c \o SeedCatalog) \o SeedCountries = c \o (SeedCatalog \o SeedCountries)
    BY <2>1, <2>3, ConcatAssociative, SMTT(30)
  <2>6. SeedCatalog \o SeedCountries \in Seq(S)
    BY <2>3, ConcatProperties
  <2> QED BY <2>1, <2>3, <2>4, <2>5, <2>6, ConcatAssociative, SMTT(30)
<1> QED BY <1>15, <1>16

LEMMA ScriptsAreScripts == \A cmd \in DOMAIN Scripts : cmd # "seed" /\ Script(cmd, Scripts[cmd])
<1>1. Script("clean", CleanTests)
  <2> DEFINE c == <<Clear({"user"})>>
             t == <<Commit>>
             L == Lawful("clean", "core")
  <2>1. Clear({"user"}) \in {s \in L : s[1] = "clear"}
    <3>1. Of({"user"}) \subseteq Cleared /\ Of({"user"}) \cap Named = {}
      BY DEF Of, Cleared, Named
    <3> QED BY <3>1, ThingsApart DEF Clear, Lawful, Statement
  <2>2. Commit \in L /\ Commit[1] = "commit"
    BY DEF Lawful, Statement, Commit
  <2>3. /\ CleanTests \in Seq(L) /\ CleanTests # <<>> /\ Len(CleanTests) = 2
        /\ CleanTests[1][1] = "clear" /\ CleanTests[2] = Commit
    <3> HIDE DEF L
    <3>1. Clear({"user"}) \in L /\ Clear({"user"})[1] = "clear"
      BY <2>1
    <3> QED BY <2>2, <3>1 DEF CleanTests
  <2> QED BY <2>2, <2>3 DEF Script, Ordered, Closed, Prepared, Known
<1>2. Scripts["reset"] = Reset /\ Scripts["clean"] = CleanTests
    BY DEF Scripts
<1>3. DOMAIN Scripts = {"taxes", "countries", "methods", "roles", "tests", "admin", "install", "reset", "clean"}
    BY DEF Scripts
<1> QED BY <1>1, <1>2, <1>3, PlainCommands, ResetIsScript

-----------------------------------------------------------------------------
\* A command at its start.
Backed(todo) ==
    \A p \in Plugins : \A y \in Data(p) : \A i \in 1 .. Len(todo) :
       todo[i][1] = "ensure" /\ Marker(p) \in todo[i][2] => \E k \in 1 .. i - 1 : todo[k] = <<"ensure", {y}>>

LEMMA SessionStarts ==
    ASSUME NEW c \in [Things -> Nat], NEW cmd \in Commands,
           NEW names \in Seq(Plugins \cup {"core"}), names # <<>>, NamesOf(cmd, names),
           NEW todo \in Seq(Lawful(cmd, names[1])), todo # <<>>, Ordered(todo), Closed(todo), Backed(todo),
           Prepared(todo), NEW strict \in BOOLEAN
    PROVE  LET s == Session(cmd, names, todo, strict) IN
           s \in SeedRequest /\ RunOK(s, c) /\ OkOK(s, c) /\ Ready(s, c)
<1> DEFINE s == Session(cmd, names, todo, strict)
<1>1. todo \in Seq(Statement)
    BY SeqMonotonic DEF Lawful
<1>2. NoChange \in [Things -> Nat] /\ \A x \in Things : NoChange[x] = 0
    BY DEF NoChange
<1>3. s \in SeedRequest
    BY <1>1, <1>2 DEF Session, SeedRequest, SessionRow
<1>4. /\ s.pc = "run" /\ s.cmd = cmd /\ s.names = names /\ s.todo = todo /\ s.new = {} /\ s.gone = NoChange
      /\ s.changed = {} /\ s.owed = {} /\ s.broken = FALSE
    BY DEF Session
<1> HIDE DEF s
<1>5. Disciplined(s)
    BY <1>4 DEF Disciplined
<1>6. Within(s, c)
    BY <1>2, <1>4 DEF Within
<1>7. Due(s, c)
    BY <1>4 DEF Due
<1>8. Supplied(s, c)
    BY <1>4 DEF Supplied, Backed
<1>9. Ready(s, c)
    BY <1>4 DEF Ready, Prepared
<1> QED BY <1>3, <1>4, <1>5, <1>6, <1>7, <1>8, <1>9 DEF RunOK, OkOK, s

LEMMA KnownIsBacked ==
    ASSUME NEW todo, Known(todo)
    PROVE  Backed(todo)
BY ThingsApart DEF Known, Backed

\* What a command does for a plugin.
LEMMA PluginScripts ==
    ASSUME NEW p \in Plugins
    PROVE  /\ SeedPlugin(p) \in Seq(Lawful("seed", p)) /\ SeedPlugin(p) # <<>> /\ Ordered(SeedPlugin(p))
           /\ Closed(SeedPlugin(p)) /\ Backed(SeedPlugin(p)) /\ Prepared(SeedPlugin(p))
           /\ SeedPlugin(p)[1][1] # "clear"
           /\ ClearMarker(p) \in Seq(Lawful("unseed", p)) /\ ClearMarker(p) # <<>> /\ Ordered(ClearMarker(p))
           /\ Closed(ClearMarker(p)) /\ Backed(ClearMarker(p)) /\ Prepared(ClearMarker(p))
<1>0. /\ Rows(p) \in Things \ Of(Core) /\ Rest(p) \in Things \ Of(Core) /\ Marker(p) \in Things \ Of(Core)
      /\ Marker(p) \in Cleared
    BY ThingsApart DEF Data
<1>1. Rows(p)[1] = p /\ Rest(p)[1] = p /\ Marker(p)[1] = p
    BY DEF Rows, Rest, Marker
<1>2. /\ Bundle \in Of(Core) /\ Foreign \subseteq Of(Core) /\ Named \subseteq Of(Core)
    BY ThingsApart
<1>3. \A x \in {Rows(p), Rest(p), Marker(p)} : <<"ensure", {x}>> \in Lawful("seed", p)
  <2> TAKE x \in {Rows(p), Rest(p), Marker(p)}
  <2>1. x \in Things /\ x \notin Of(Core) /\ x[1] = p
    BY <1>0, <1>1
  <2> QED BY <1>2, <2>1 DEF Lawful, Statement
<1>4. Commit \in Lawful("seed", p) /\ Commit \in Lawful("unseed", p)
    BY DEF Commit, Lawful, Statement
<1>5. <<"clear", {Marker(p)}>> \in Lawful("unseed", p)
  <2>1. {Marker(p)} \cap Named = {}
    BY <1>0, <1>2
  <2> QED BY <1>0, <2>1 DEF Lawful, Statement
<1>6. /\ SeedPlugin(p) \in Seq(Lawful("seed", p)) /\ SeedPlugin(p) # <<>> /\ Len(SeedPlugin(p)) = 4
      /\ SeedPlugin(p)[1] = <<"ensure", {Rows(p)}>> /\ SeedPlugin(p)[2] = <<"ensure", {Rest(p)}>>
      /\ SeedPlugin(p)[3] = <<"ensure", {Marker(p)}>> /\ SeedPlugin(p)[4] = Commit
    BY <1>3, <1>4 DEF SeedPlugin
<1>7. /\ ClearMarker(p) \in Seq(Lawful("unseed", p)) /\ ClearMarker(p) # <<>> /\ Len(ClearMarker(p)) = 2
      /\ ClearMarker(p)[1] = <<"clear", {Marker(p)}>> /\ ClearMarker(p)[2] = Commit
    BY <1>4, <1>5 DEF ClearMarker
<1>8. /\ SeedPlugin(p)[1][1] = "ensure" /\ SeedPlugin(p)[2][1] = "ensure" /\ SeedPlugin(p)[3][1] = "ensure"
      /\ SeedPlugin(p)[4][1] = "commit" /\ ClearMarker(p)[1][1] = "clear" /\ ClearMarker(p)[2][1] = "commit"
      /\ SeedPlugin(p)[1][2] = {Rows(p)} /\ SeedPlugin(p)[2][2] = {Rest(p)} /\ SeedPlugin(p)[3][2] = {Marker(p)}
    BY <1>6, <1>7 DEF Commit
<1>9. Ordered(SeedPlugin(p)) /\ Closed(SeedPlugin(p)) /\ Prepared(SeedPlugin(p))
  <2>1. \A i \in 1 .. 4 : SeedPlugin(p)[i][1] \notin {"clear", "insert"}
    BY <1>8
  <2> QED BY <1>6, <2>1 DEF Ordered, Closed, Prepared
<1>10. Ordered(ClearMarker(p)) /\ Closed(ClearMarker(p)) /\ Prepared(ClearMarker(p)) /\ Backed(ClearMarker(p))
    BY <1>7, <1>8 DEF Ordered, Closed, Prepared, Backed
<1>11. Backed(SeedPlugin(p))
  <2> SUFFICES ASSUME NEW q \in Plugins, NEW y \in Data(q), NEW i \in 1 .. 4,
                      SeedPlugin(p)[i][1] = "ensure", Marker(q) \in SeedPlugin(p)[i][2]
               PROVE  \E k \in 1 .. i - 1 : SeedPlugin(p)[k] = <<"ensure", {y}>>
    BY <1>6 DEF Backed
  <2>1. Marker(q) # Rows(p) /\ Marker(q) # Rest(p)
    BY ThingsApart DEF Data
  <2>2. i = 3 /\ Marker(q) = Marker(p)
    BY <1>8, <2>1
  <2>3. q = p
    BY <2>2 DEF Marker
  <2>4. y = Rows(p) \/ y = Rest(p)
    BY <2>3 DEF Data
  <2> QED BY <1>6, <2>2, <2>4
<1> QED BY <1>6, <1>7, <1>8, <1>9, <1>10, <1>11

-----------------------------------------------------------------------------
\* A step of one command that leaves the rows alone.
LEMMA OwnStep ==
    ASSUME SeedInv, scene = "seed", scene' = "seed", UNCHANGED <<copies, own, edited>>,
           mixed' = mixed \/ mixed' = Named,
           NEW w \in Workers, NEW r \in SeedRequest, job' = [job EXCEPT ![w] = r],
           RunOK(r, copies), OkOK(r, copies),
           r.pc = "run" => \A x \in Things :
              /\ \A v \in Others(w) : /\ job[v].gone[x] = 0 \/ r.gone[x] = 0
                                      /\ Single(x) => x \notin job[v].new \/ x \notin r.new
              /\ Single(x) /\ x \in r.new => copies[x] = r.gone[x],
           r.pc = "run" /\ mixed' = {} =>
              Ready(r, copies) /\ (r.cmd \in Big => \A v \in Others(w) : ~FillsAll(v))
    PROVE  SeedInv'
<1>1. job \in [Workers -> SeedRequest] /\ job' \in [Workers -> SeedRequest]
    BY DEF SeedInv
<1>2. job'[w] = r /\ \A v \in Workers : v # w => job'[v] = job[v]
    BY <1>1
<1>3. SeedTyped' /\ Truthful' /\ UNCHANGED copies
  <2>1. EditsSurvive'
    BY DEF SeedInv, SeedTyped, EditsSurvive
  <2> QED BY <2>1 DEF SeedInv, SeedTyped, Truthful
<1>4. \A x : Single(x)' => Single(x)
  <2>1. Named # {}
    BY ThingsApart
  <2> QED BY <2>1 DEF Single
<1>5. OneOfEach'
    BY <1>4 DEF SeedInv, OneOfEach
<1>6. \A v \in Workers : v # w /\ job[v].pc = "run" => v \in Others(w)
    BY DEF Others, Running, IsAt
<1>7. \A v \in Workers : RunOK(job'[v], copies) /\ OkOK(job'[v], copies)
    BY <1>2 DEF SeedInv
<1>8. (\A v \in Workers : RunOK(job[v], copies) /\ OkOK(job[v], copies))'
    BY <1>3, <1>7
<1>9. SessionsApart'
  <2> SUFFICES ASSUME NEW u \in Workers, NEW v \in Workers, job'[u].pc = "run", job'[v].pc = "run", u # v,
                      NEW x \in Things
               PROVE  /\ job'[u].gone[x] = 0 \/ job'[v].gone[x] = 0
                      /\ Single(x)' => x \notin job'[u].new \/ x \notin job'[v].new
    BY DEF SessionsApart, IsAt
  <2>1. CASE u # w /\ v # w
    BY <1>2, <1>4, <2>1 DEF SeedInv, SessionsApart, IsAt
  <2>2. CASE u = w
    BY <1>2, <1>4, <1>6, <2>2
  <2>3. CASE v = w
    BY <1>2, <1>4, <1>6, <2>3
  <2> QED BY <2>1, <2>2, <2>3
<1>10. FirstOfAKind'
  <2> SUFFICES ASSUME NEW x \in Things, Single(x)', NEW v \in Workers, job'[v].pc = "run", x \in job'[v].new
               PROVE  copies'[x] = job'[v].gone[x]
    BY DEF FirstOfAKind, IsAt
  <2>1. CASE v # w
    BY <1>2, <1>3, <1>4, <2>1 DEF SeedInv, FirstOfAKind, IsAt
  <2>2. CASE v = w
    BY <1>2, <1>3, <1>4, <2>2
  <2> QED BY <2>1, <2>2
<1>11. Alone'
  <2> SUFFICES ASSUME mixed' = {}
               PROVE  /\ (\A u, v \in Workers : FillsAll(u) /\ FillsAll(v) => u = v)'
                      /\ (\A v \in Workers : IsAt(v, "run") => Ready(job[v], copies))'
    BY DEF Alone
  <2>1. mixed = {}
    BY ThingsApart
  <2>2. /\ \A u, v \in Workers : FillsAll(u) /\ FillsAll(v) => u = v
        /\ \A v \in Workers : IsAt(v, "run") => Ready(job[v], copies)
    BY <2>1 DEF SeedInv, Alone
  <2>3. \A v \in Workers : v # w => FillsAll(v)' = FillsAll(v)
    BY <1>2 DEF FillsAll, IsAt
  <2>4. FillsAll(w)' => \A v \in Workers : v # w => ~FillsAll(v)
    BY <1>2, <1>6 DEF FillsAll, IsAt
  <2>5. ASSUME NEW v \in Workers, job'[v].pc = "run" PROVE Ready(job'[v], copies)
    BY <1>2, <2>2, <2>5 DEF IsAt
  <2> QED BY <1>3, <2>2, <2>3, <2>4, <2>5 DEF IsAt
<1> QED BY <1>1, <1>3, <1>5, <1>8, <1>9, <1>10, <1>11 DEF SeedInv

\* The end of a command, by whatever; and its beginning.
LEMMA RequestEnds ==
    ASSUME SeedInv, scene = "seed", scene' = "seed", UNCHANGED seedingVars, NEW w \in Workers, Done(w)
    PROVE  SeedInv'
<1>1. Idle \in SeedRequest /\ Idle.pc = "idle" /\ job' = [job EXCEPT ![w] = Idle]
    BY DEF Idle, SeedRequest, Done
<1>2. RunOK(Idle, copies) /\ OkOK(Idle, copies)
    BY <1>1 DEF RunOK, OkOK
<1>3. UNCHANGED <<copies, own, edited>> /\ mixed' = mixed
    BY DEF seedingVars
<1> QED BY <1>1, <1>2, <1>3, OwnStep

LEMMA Begins ==
    ASSUME SeedInv, scene = "seed", scene' = "seed", UNCHANGED <<copies, own, edited>>,
           mixed' = mixed \/ mixed' = Named, NEW w \in Workers, NEW cmd \in Commands,
           NEW names \in Seq(Plugins \cup {"core"}), names # <<>>, NamesOf(cmd, names),
           NEW todo \in Seq(Lawful(cmd, names[1])), todo # <<>>, Ordered(todo), Closed(todo), Backed(todo),
           Prepared(todo), NEW strict \in BOOLEAN, Begin(w, Session(cmd, names, todo, strict)),
           mixed' = {} /\ cmd \in Big => \A v \in Others(w) : ~FillsAll(v)
    PROVE  SeedInv'
<1> DEFINE s == Session(cmd, names, todo, strict)
<1>1. copies \in [Things -> Nat]
    BY DEF SeedInv, SeedTyped
<1>2. s \in SeedRequest /\ RunOK(s, copies) /\ OkOK(s, copies) /\ Ready(s, copies)
    BY <1>1, SessionStarts
<1>3. job' = [job EXCEPT ![w] = s]
    BY DEF Begin
<1>4. s.cmd = cmd /\ s.new = {} /\ \A x \in Things : s.gone[x] = 0
    BY DEF Session, NoChange
<1> HIDE DEF s
<1> QED BY <1>2, <1>3, <1>4, OwnStep

LEMMA ScriptBegins ==
    ASSUME SeedInv, scene = "seed", scene' = "seed", NEW w \in Workers, StartScript(w)
    PROVE  SeedInv'
<1>1. PICK cmd \in DOMAIN Scripts :
        /\ Begin(w, Session(cmd, <<"core">>, Scripts[cmd], TRUE))
        /\ mixed' = IF cmd \in {"install", "reset"} /\ \E v \in Others(w) : job[v].cmd \in {"install", "reset"}
                    THEN mixed \cup Named ELSE mixed
    BY DEF StartScript
<1>2. cmd # "seed" /\ Script(cmd, Scripts[cmd])
    BY ScriptsAreScripts
<1>3. cmd \in Commands
    BY DEF Commands
<1>4. /\ Scripts[cmd] \in Seq(Lawful(cmd, "core")) /\ Scripts[cmd] # <<>> /\ Ordered(Scripts[cmd])
      /\ Closed(Scripts[cmd]) /\ Prepared(Scripts[cmd]) /\ Backed(Scripts[cmd])
    BY <1>2, KnownIsBacked DEF Script
<1>5. <<"core">> \in Seq(Plugins \cup {"core"}) /\ <<"core">> # <<>> /\ <<"core">>[1] = "core"
      /\ Len(<<"core">>) = 1
    OBVIOUS
<1>6. mixed' = mixed \/ mixed' = Named
    BY <1>1 DEF SeedInv, SeedTyped
<1>7. mixed' = {} /\ cmd \in Big => \A v \in Others(w) : ~FillsAll(v)
  <2>1. Named # {}
    BY ThingsApart
  <2> QED BY <1>1, <2>1 DEF Big, FillsAll
<1>8. UNCHANGED <<copies, own, edited>>
    BY DEF StartScript
<1> DEFINE names == <<"core">>
           todo == Scripts[cmd]
<1>9. /\ names \in Seq(Plugins \cup {"core"}) /\ names # <<>> /\ todo \in Seq(Lawful(cmd, names[1]))
      /\ Begin(w, Session(cmd, names, todo, TRUE)) /\ todo # <<>> /\ Ordered(todo) /\ Closed(todo)
      /\ Backed(todo) /\ Prepared(todo) /\ NamesOf(cmd, names)
    BY <1>1, <1>2, <1>4, <1>5 DEF NamesOf
<1> HIDE DEF names, todo
<1> QED BY <1>3, <1>6, <1>7, <1>8, <1>9, Begins

LEMMA OrdersOfPlugins ==
    ASSUME NEW ps \in SUBSET Plugins, ps # {}, NEW names \in SetToSeqs(ps)
    PROVE  /\ names \in Seq(Plugins \cup {"core"}) /\ names \in Seq(Plugins) /\ names # <<>>
           /\ Head(names) = names[1] /\ names[1] \in Plugins
<1>1. IsFiniteSet(ps)
    BY SeedingAssumption, FS_Subset
<1>2. Cardinality(ps) \in Nat /\ Cardinality(ps) # 0
    BY <1>1, FS_CardinalityType, FS_EmptySet
<1>3. names \in [1 .. Cardinality(ps) -> ps]
    BY DEF SetToSeqs
<1>4. PICK n \in Nat \ {0} : names \in [1 .. n -> ps]
    BY <1>2, <1>3
<1>5. names \in Seq(Plugins) /\ Len(names) = n
    BY <1>4
<1>6. names \in Seq(Plugins \cup {"core"})
    BY <1>5, SeqMonotonic
<1>7. names[1] \in Plugins
    BY <1>4
<1>8. names # <<>>
    BY <1>5
<1> QED BY <1>5, <1>6, <1>7, <1>8

LEMMA PluginsBegin ==
    ASSUME SeedInv, scene = "seed", scene' = "seed", NEW w \in Workers, StartSeed(w) \/ ResetMarkers(w)
    PROVE  SeedInv'
<1>1. CASE StartSeed(w)
  <2>1. PICK ps \in (SUBSET Plugins) \ {{}}, strict \in BOOLEAN :
           \E names \in SetToSeqs(ps) : Begin(w, Session("seed", names, SeedPlugin(Head(names)), strict))
    BY <1>1 DEF StartSeed
  <2>2. PICK names \in SetToSeqs(ps) : Begin(w, Session("seed", names, SeedPlugin(Head(names)), strict))
    BY <2>1
  <2>3. /\ names \in Seq(Plugins \cup {"core"}) /\ names # <<>> /\ Head(names) = names[1] /\ names[1] \in Plugins
        /\ NamesOf("seed", names)
    BY <2>2, OrdersOfPlugins DEF NamesOf
  <2>4. PICK todo : todo = SeedPlugin(Head(names))
    OBVIOUS
  <2>5. /\ todo \in Seq(Lawful("seed", names[1])) /\ todo # <<>> /\ Ordered(todo) /\ Closed(todo)
        /\ Backed(todo) /\ Prepared(todo)
    BY <2>3, <2>4, PluginScripts
  <2>6. "seed" \notin Big /\ "seed" \in Commands /\ Begin(w, Session("seed", names, todo, strict))
    BY <2>2, <2>4 DEF Big, Commands
  <2>7. UNCHANGED <<copies, own, edited>> /\ mixed' = mixed
    BY <1>1 DEF StartSeed
  <2> QED BY <2>1, <2>3, <2>5, <2>6, <2>7, Begins
<1>2. CASE ResetMarkers(w)
  <2>1. PICK p \in Plugins : Begin(w, Session("unseed", <<p>>, ClearMarker(p), TRUE))
    BY <1>2 DEF ResetMarkers
  <2>2. PICK todo, names : todo = ClearMarker(p) /\ names = <<p>>
    OBVIOUS
  <2>3. names \in Seq(Plugins \cup {"core"}) /\ names # <<>> /\ names[1] = p /\ NamesOf("unseed", names)
    BY <2>2 DEF NamesOf
  <2>4. /\ todo \in Seq(Lawful("unseed", names[1])) /\ todo # <<>> /\ Ordered(todo) /\ Closed(todo)
        /\ Backed(todo) /\ Prepared(todo)
    BY <2>2, <2>3, PluginScripts
  <2>5. "unseed" \notin Big /\ "unseed" \in Commands /\ Begin(w, Session("unseed", names, todo, TRUE))
    BY <2>1, <2>2 DEF Big, Commands
  <2>6. UNCHANGED <<copies, own, edited>> /\ mixed' = mixed
    BY <1>2 DEF ResetMarkers
  <2> QED BY <2>3, <2>4, <2>5, <2>6, Begins
<1> QED BY <1>1, <1>2

-----------------------------------------------------------------------------
\* What is left to do after a statement.
LEMMA Onward ==
    ASSUME NEW L, NEW todo \in Seq(L), todo # <<>>, Ordered(todo), Closed(todo)
    PROVE  /\ Head(todo) = todo[1] /\ todo[1] \in L
           /\ Tail(todo) \in Seq(L) /\ Len(Tail(todo)) \in Nat /\ Ordered(Tail(todo)) /\ Closed(Tail(todo))
           /\ Tail(todo) = <<>> => todo[1] = Commit
           /\ Tail(todo) # <<>> /\ Tail(todo)[1][1] = "clear" => todo[1][1] = "clear"
           /\ \A i \in 1 .. Len(Tail(todo)) : i + 1 \in 2 .. Len(todo) /\ Tail(todo)[i] = todo[i + 1]
           /\ Len(todo) \in Nat \ {0} /\ 1 \in 1 .. Len(todo)
<1> DEFINE rest == Tail(todo)
<1>1. /\ Head(todo) \in L /\ rest \in Seq(L) /\ Len(rest) = Len(todo) - 1
      /\ \A i \in 1 .. Len(rest) : rest[i] = todo[i + 1]
    BY HeadTailProperties
<1>2. Len(todo) \in Nat \ {0} /\ Len(rest) \in Nat
    BY <1>1, EmptySeq, LenProperties
<1>3. Head(todo) = todo[1] /\ todo[1] \in L
    BY <1>1
<1>4. rest # <<>> => Len(rest) # 0
    BY <1>1, EmptySeq
<1>5. rest = <<>> => Len(rest) = 0
    BY EmptySeq
<1> HIDE DEF rest
<1>6. \A i \in 1 .. Len(rest) : i + 1 \in 2 .. Len(todo) /\ rest[i] = todo[i + 1]
    BY <1>1, <1>2
<1>7. Ordered(rest)
  <2> SUFFICES ASSUME NEW i \in 1 .. Len(rest), NEW j \in 1 .. Len(rest), i < j
               PROVE  /\ rest[j][1] = "clear" => rest[i][1] = "clear"
                      /\ rest[j][1] = "insert" => rest[i][1] # "insert"
    BY DEF Ordered
  <2>1. i + 1 \in 1 .. Len(todo) /\ j + 1 \in 1 .. Len(todo) /\ i + 1 < j + 1
    BY <1>2, <1>6
  <2> QED BY <1>6, <2>1 DEF Ordered
<1>8. Closed(rest)
    BY <1>1, <1>2, <1>4 DEF Closed
<1>9. rest = <<>> => todo[1] = Commit
  <2> SUFFICES ASSUME rest = <<>> PROVE todo[1] = Commit
    OBVIOUS
  <2>1. Len(todo) = 1
    BY <1>1, <1>2, <1>5
  <2>2. todo[Len(todo)] = Commit
    BY DEF Closed
  <2> QED BY <2>1, <2>2
<1>10. rest # <<>> /\ rest[1][1] = "clear" => todo[1][1] = "clear"
  <2> SUFFICES ASSUME rest # <<>>, rest[1][1] = "clear" PROVE todo[1][1] = "clear"
    OBVIOUS
  <2>1. 1 \in 1 .. Len(rest)
    BY <1>2, <1>4
  <2>2. 2 \in 1 .. Len(todo) /\ 1 \in 1 .. Len(todo) /\ rest[1] = todo[2]
    BY <1>1, <1>2, <1>4
  <2> QED BY <2>2 DEF Ordered
<1> QED BY <1>1, <1>2, <1>3, <1>6, <1>7, <1>8, <1>9, <1>10 DEF rest

\* A session whose first statement was done.
Follows(r, t) ==
    /\ r.pc = "run" /\ t.pc = "run" /\ r.cmd = t.cmd /\ r.names = t.names /\ r.todo = Tail(t.todo)
    /\ r.lost = t.lost /\ r.broken = t.broken

\* The marker of a plugin still comes after its data.
LEMMA StillSupplied ==
    ASSUME NEW t, NEW r, NEW c, NEW d, Follows(r, t), t.pc = "run", RunOK(t, c), t.todo # <<>>,
           \A p \in Plugins : \A y \in Data(p) :
              /\ There(t, c, y) => There(r, d, y)
              /\ t.todo[1] = <<"ensure", {y}>> => There(r, d, y),
           \A p \in Plugins : Marker(p) \in r.new \ t.new => t.todo[1][1] = "ensure" /\ Marker(p) \in t.todo[1][2]
    PROVE  Supplied(r, d)
<1>1. t.todo \in Seq(Lawful(t.cmd, t.names[1])) /\ Ordered(t.todo) /\ Closed(t.todo) /\ Supplied(t, c)
    BY DEF RunOK, Disciplined
<1>2. /\ \A i \in 1 .. Len(r.todo) : i + 1 \in 2 .. Len(t.todo) /\ r.todo[i] = t.todo[i + 1]
      /\ Len(r.todo) \in Nat /\ 1 \in 1 .. Len(t.todo)
    BY <1>1, Onward DEF Follows
<1> SUFFICES ASSUME NEW p \in Plugins, NEW y \in Data(p)
             PROVE  /\ Marker(p) \in r.new => There(r, d, y)
                    /\ \A i \in 1 .. Len(r.todo) : r.todo[i][1] = "ensure" /\ Marker(p) \in r.todo[i][2] =>
                          There(r, d, y) \/ \E k \in 1 .. i - 1 : r.todo[k] = <<"ensure", {y}>>
    BY DEF Supplied
<1>3. ASSUME Marker(p) \in r.new PROVE There(r, d, y)
  <2>1. CASE Marker(p) \in t.new
    BY <1>1, <2>1 DEF Supplied
  <2>2. CASE Marker(p) \notin t.new
    <3>1. There(t, c, y) \/ \E k \in 1 .. 1 - 1 : t.todo[k] = <<"ensure", {y}>>
      BY <1>1, <1>2, <1>3, <2>2 DEF Supplied
    <3> QED BY <3>1
  <2> QED BY <2>1, <2>2
<1>4. ASSUME NEW i \in 1 .. Len(r.todo), r.todo[i][1] = "ensure", Marker(p) \in r.todo[i][2], ~There(r, d, y)
      PROVE  \E k \in 1 .. i - 1 : r.todo[k] = <<"ensure", {y}>>
  <2>1. i + 1 \in 1 .. Len(t.todo) /\ r.todo[i] = t.todo[i + 1] /\ i \in Nat
    BY <1>2, <1>4
  <2>2. There(t, c, y) \/ \E k \in 1 .. (i + 1) - 1 : t.todo[k] = <<"ensure", {y}>>
    BY <1>1, <1>4, <2>1 DEF Supplied
  <2>3. PICK k \in 1 .. i : t.todo[k] = <<"ensure", {y}>>
    BY <1>4, <2>1, <2>2
  <2>4. k # 1
    BY <1>4, <2>3
  <2>5. k - 1 \in 1 .. i - 1 /\ k - 1 \in 1 .. Len(r.todo) /\ k - 1 + 1 = k
    BY <1>2, <1>4, <2>1, <2>3, <2>4
  <2>6. r.todo[k - 1] = <<"ensure", {y}>>
    BY <1>2, <2>3, <2>5
  <2> QED BY <2>5, <2>6
<1> QED BY <1>3, <1>4

\* Bundles are still cleared before they are inserted.
LEMMA StillReady ==
    ASSUME NEW t, NEW r, NEW c, NEW d, Follows(r, t), t.todo # <<>>, RunOK(t, c), Ready(t, c),
           \/ t.todo[1][1] = "insert"
           \/ Bundle \in r.new => Bundle \in t.new,
           \/ t.todo[1][1] = "insert"
           \/ c[Bundle] = t.gone[Bundle] /\ Bundle \notin t.new => d[Bundle] = r.gone[Bundle],
           Clears(t.todo, 1) => d[Bundle] = r.gone[Bundle] /\ Bundle \notin r.new
    PROVE  Ready(r, d)
<1>1. t.todo \in Seq(Lawful(t.cmd, t.names[1])) /\ Ordered(t.todo) /\ Closed(t.todo)
    BY DEF RunOK, Disciplined, Follows
<1>2. /\ \A i \in 1 .. Len(r.todo) : i + 1 \in 2 .. Len(t.todo) /\ r.todo[i] = t.todo[i + 1]
      /\ Len(r.todo) \in Nat /\ 1 \in 1 .. Len(t.todo)
    BY <1>1, Onward DEF Follows
<1> SUFFICES ASSUME NEW i \in 1 .. Len(r.todo), r.todo[i][1] = "insert",
                    ~(d[Bundle] = r.gone[Bundle] /\ Bundle \notin r.new)
             PROVE  \E k \in 1 .. i - 1 : Clears(r.todo, k)
    BY DEF Ready
<1>3. i + 1 \in 1 .. Len(t.todo) /\ r.todo[i] = t.todo[i + 1] /\ i \in Nat /\ 1 < i + 1
    BY <1>2
<1>4. t.todo[1][1] # "insert"
    BY <1>1, <1>2, <1>3 DEF Ordered
<1>5. \E k \in 1 .. (i + 1) - 1 : Clears(t.todo, k)
    BY <1>3, <1>4 DEF Ready
<1>6. PICK k \in 1 .. i : Clears(t.todo, k)
    BY <1>3, <1>5
<1>7. k # 1
    BY <1>6
<1>8. k - 1 \in 1 .. i - 1 /\ k - 1 \in 1 .. Len(r.todo) /\ k - 1 + 1 = k
    BY <1>2, <1>3, <1>6, <1>7
<1>9. Clears(r.todo, k - 1)
    BY <1>2, <1>6, <1>8 DEF Clears
<1> QED BY <1>8, <1>9

\* A statement that brings the rows in A, writes over those in C, and owes those
\* in O.
LEMMA Advances ==
    ASSUME NEW t, NEW r \in SeedRequest, NEW c, NEW d, Follows(r, t), RunOK(t, c), ~t.broken, t.todo # <<>>,
           t.todo[1][1] \in {"ensure", "insert", "overwrite", "file"},
           Within(t, d), \A x \in Things : There(t, c, x) => There(t, d, x),
           NEW A, NEW C, NEW O, A \subseteq t.todo[1][2], O \subseteq t.todo[1][2], C \subseteq Rewritten,
           r.gone = t.gone, r.new = t.new \cup A, r.changed = t.changed \cup C, r.owed = t.owed \cup O,
           t.todo[1][1] = "file" => A = {},
           \A x \in O : There(r, d, x),
           t.todo[1][1] = "ensure" =>
               \A x \in Things : t.todo[1][2] = {x} /\ x # <<"core", "link">> => There(r, d, x)
    PROVE  RunOK(r, d) /\ OkOK(r, d)
<1> DEFINE op == t.todo[1][1]
           xs == t.todo[1][2]
           L == Lawful(t.cmd, t.names[1])
<1>1. /\ t.names # <<>> /\ t.todo \in Seq(L) /\ Ordered(t.todo) /\ Closed(t.todo)
      /\ NamesOf(t.cmd, t.names)
      /\ t.cmd = "seed" => \A x \in t.owed \cap t.new : x[1] = t.names[1]
      /\ t.changed \subseteq Rewritten /\ t.new \cap Foreign = {}
      /\ t.new \cap Named # {} => t.cmd \in Big
    BY DEF RunOK, Disciplined, Follows
<1> HIDE DEF L
<1>2. /\ t.todo[1] \in L /\ r.todo \in Seq(L) /\ Ordered(r.todo) /\ Closed(r.todo)
      /\ r.todo = <<>> => t.todo[1] = Commit
      /\ r.todo # <<>> /\ r.todo[1][1] = "clear" => t.todo[1][1] = "clear"
  <2>1. PICK todo \in Seq(L) : todo = t.todo
    BY <1>1
  <2>2. todo # <<>> /\ Ordered(todo) /\ Closed(todo) /\ r.todo = Tail(todo)
    BY <1>1, <2>1 DEF Follows
  <2>3. /\ todo[1] \in L /\ Tail(todo) \in Seq(L) /\ Ordered(Tail(todo)) /\ Closed(Tail(todo))
        /\ Tail(todo) = <<>> => todo[1] = Commit
        /\ Tail(todo) # <<>> /\ Tail(todo)[1][1] = "clear" => todo[1][1] = "clear"
    BY <2>2, Onward
  <2> QED BY <2>1, <2>2, <2>3
<1>3. /\ op = "insert" => t.cmd = "reset" /\ xs = {Bundle}
      /\ op = "overwrite" => xs \subseteq Rewritten
      /\ op = "ensure" => xs \cap Foreign = {} /\ (xs \cap Named # {} => t.cmd \in Big)
      /\ t.cmd = "seed" => op \in {"ensure", "commit"} /\ \A x \in xs : x[1] = t.names[1]
      /\ xs \subseteq Things
    BY <1>2 DEF Lawful, L, Statement
<1>4. A \cap Foreign = {} /\ (A \cap Named # {} => t.cmd \in Big)
    BY <1>3, ThingsApart DEF Big
<1>5. r.todo # <<>> /\ ~(r.todo[1][1] = "clear")
    BY <1>2 DEF Commit
<1>6. Disciplined(r)
  <2>1. r.cmd = "seed" => \A x \in r.owed \cap r.new : x[1] = r.names[1]
    <3> SUFFICES ASSUME r.cmd = "seed", NEW x \in r.owed \cap r.new PROVE x[1] = r.names[1]
      OBVIOUS
    <3>1. x \in xs \/ x \in t.owed \cap t.new
      OBVIOUS
    <3> QED BY <1>1, <1>3, <3>1 DEF Follows
  <2>2. r.names # <<>> /\ r.todo \in Seq(Lawful(r.cmd, r.names[1])) /\ NamesOf(r.cmd, r.names)
    BY <1>1, <1>2 DEF L, Follows
  <2>3. r.changed \subseteq Rewritten /\ r.new \cap Foreign = {} /\ (r.new \cap Named # {} => r.cmd \in Big)
    BY <1>1, <1>4 DEF Follows
  <2>4. ~r.broken
    BY DEF Follows
  <2> QED BY <1>2, <1>5, <2>1, <2>2, <2>3, <2>4 DEF Disciplined
<1>7. Within(r, d)
    BY DEF Within, Follows
<1>8. \A x \in Things : There(t, c, x) => There(r, d, x)
    BY DEF There
<1>9. Due(r, d)
  <2>1. Due(t, c)
    BY DEF RunOK, Follows
  <2>2. r.owed \subseteq Things
    BY DEF SeedRequest, SessionRow, Follows
  <2> QED BY <1>8, <2>1, <2>2 DEF Due, Follows
<1>10. Supplied(r, d)
  <2>1. \A p \in Plugins : \A y \in Data(p) :
          /\ There(t, c, y) => There(r, d, y)
          /\ t.todo[1] = <<"ensure", {y}>> => There(r, d, y)
    <3> SUFFICES ASSUME NEW p \in Plugins, NEW y \in Data(p)
                 PROVE  /\ There(t, c, y) => There(r, d, y)
                        /\ t.todo[1] = <<"ensure", {y}>> => There(r, d, y)
      OBVIOUS
    <3>1. y \in Things /\ y \notin Of(Core)
      BY ThingsApart
    <3>2. y # <<"core", "link">>
      BY <3>1 DEF Of, Core
    <3> QED BY <1>8, <3>1, <3>2
  <2>2. \A p \in Plugins : Marker(p) \in r.new \ t.new => t.todo[1][1] = "ensure" /\ Marker(p) \in t.todo[1][2]
    BY <1>3, ThingsApart
  <2> QED BY <2>1, <2>2, StillSupplied DEF Follows
<1> QED BY <1>6, <1>7, <1>9, <1>10 DEF RunOK, OkOK, Follows

-----------------------------------------------------------------------------
\* What a session is, and what it sees.
LEMMA Sessions ==
    ASSUME SeedInv, scene = "seed", NEW w \in Workers, job[w].pc = "run"
    PROVE  /\ job[w] \in SessionRow
           /\ job[w].names # <<>> /\ job[w].todo \in Seq(Lawful(job[w].cmd, job[w].names[1]))
           /\ Head(job[w].todo) = job[w].todo[1]
           /\ RunOK(job[w], copies)
           /\ \A x \in Things : /\ copies[x] \in Nat /\ job[w].gone[x] \in Nat /\ job[w].gone[x] <= copies[x]
                                /\ Left(w, x) \in Nat
                                /\ Sees(w, x) <=> There(job[w], copies, x)
                                /\ ~Sees(w, x) => copies[x] = job[w].gone[x]
<1>1. job[w] \in SeedRequest /\ RunOK(job[w], copies) /\ copies \in [Things -> Nat]
    BY DEF SeedInv, SeedTyped
<1>2. job[w] \in SessionRow
    BY <1>1 DEF SeedRequest, SessionRow
<1>3. job[w].names # <<>> /\ job[w].todo \in Seq(Lawful(job[w].cmd, job[w].names[1])) /\ Within(job[w], copies)
    BY <1>1 DEF RunOK, Disciplined
<1>4. \A x \in Things : copies[x] \in Nat /\ job[w].gone[x] \in Nat /\ job[w].gone[x] <= copies[x]
    BY <1>1, <1>2, <1>3 DEF Within, SessionRow
<1>5. \A x \in Things : /\ Left(w, x) \in Nat /\ (Left(w, x) > 0 <=> job[w].gone[x] < copies[x])
                        /\ ~(Left(w, x) > 0) => copies[x] = job[w].gone[x]
    BY <1>4 DEF Left
<1>6. Head(job[w].todo) = job[w].todo[1]
    BY <1>2 DEF SessionRow
<1> QED BY <1>1, <1>2, <1>3, <1>4, <1>5, <1>6 DEF Sees, There

LEMMA Brings ==
    ASSUME SeedInv, scene = "seed", scene' = "seed", UNCHANGED seedingVars, NEW w \in Workers,
           job[w].pc = "run", ~job[w].broken, job[w].todo # <<>>,
           job[w].todo[1][1] \in {"ensure", "insert", "overwrite"},
           NEW r \in SeedRequest, Follows(r, job[w]), Go(w, r),
           NEW A, NEW C, NEW O, A \subseteq job[w].todo[1][2], O \subseteq job[w].todo[1][2], C \subseteq Rewritten,
           r.gone = job[w].gone, r.new = job[w].new \cup A, r.changed = job[w].changed \cup C,
           r.owed = job[w].owed \cup O,
           \A x \in O : There(r, copies, x),
           job[w].todo[1][1] = "ensure" =>
               \A x \in Things : job[w].todo[1][2] = {x} /\ x # <<"core", "link">> => There(r, copies, x),
           \A x \in A : /\ Single(x) => copies[x] = job[w].gone[x]
                        /\ Unique(x) => \A v \in Others(w) : ~Inserting(v, x)
    PROVE  SeedInv'
<1> DEFINE t == job[w]
           op == t.todo[1][1]
           xs == t.todo[1][2]
<1>1. /\ RunOK(t, copies) /\ t.todo \in Seq(Lawful(t.cmd, t.names[1]))
      /\ Within(t, copies) /\ Disciplined(t)
    BY Sessions DEF RunOK
<1>2. t.todo[1] \in Lawful(t.cmd, t.names[1])
    BY <1>1, Onward DEF Disciplined
<1>3. /\ op = "insert" => t.cmd = "reset" /\ xs = {Bundle}
      /\ op = "overwrite" => xs \subseteq Rewritten
      /\ op = "ensure" => Bundle \notin xs /\ (xs \cap Named # {} => t.cmd \in Big)
      /\ xs \subseteq Things
    BY <1>2 DEF Lawful, Statement
<1>4. RunOK(r, copies) /\ OkOK(r, copies)
  <2>1. op \in {"ensure", "insert", "overwrite", "file"} /\ (op = "file" => A = {})
    OBVIOUS
  <2>2. \A x \in Things : There(t, copies, x) => There(t, copies, x)
    OBVIOUS
  <2> QED BY <1>1, <2>1, <2>2, Advances
<1>5. r.pc = "run" /\ r.cmd = t.cmd
    BY DEF Follows
<1>6. \A v \in Others(w) : v \in Workers /\ v # w /\ job[v].pc = "run"
    BY DEF Others, Running, IsAt
<1>7. A \cap Named # {} => t.cmd \in Big
    BY <1>3, ThingsApart DEF Big
<1>8. \A x \in Things : \A v \in Others(w) : job[v].gone[x] = 0 \/ r.gone[x] = 0
    BY <1>6 DEF SeedInv, SessionsApart, IsAt
<1>9. ASSUME NEW x \in Things, NEW v \in Others(w), Single(x), x \in job[v].new, x \in r.new PROVE FALSE
  <2>1. x \notin t.new
    BY <1>6, <1>9 DEF SeedInv, SessionsApart, IsAt
  <2>2. x \in A
    BY <1>9, <2>1
  <2>3. ~Unique(x)
    BY <1>9, <2>2 DEF Inserting
  <2>4. x \in Named /\ mixed = {}
    BY <1>9, <2>3 DEF Single
  <2>5. FillsAll(w)
    BY <1>7, <2>2, <2>4 DEF FillsAll, IsAt
  <2>6. Disciplined(job[v])
    BY <1>6 DEF SeedInv, RunOK
  <2>7. FillsAll(v)
    BY <1>6, <1>9, <2>4, <2>6 DEF FillsAll, IsAt, Disciplined
  <2> QED BY <1>6, <2>4, <2>5, <2>7 DEF SeedInv, Alone
<1>10. ASSUME NEW x \in Things, Single(x), x \in r.new PROVE copies[x] = r.gone[x]
  <2>1. CASE x \in A
    BY <1>10, <2>1
  <2>2. CASE x \in t.new
    BY <1>10, <2>2 DEF SeedInv, FirstOfAKind, IsAt
  <2> QED BY <1>10, <2>1, <2>2
<1>11. ASSUME mixed' = {} PROVE Ready(r, copies) /\ (r.cmd \in Big => \A v \in Others(w) : ~FillsAll(v))
  <2>1. mixed = {}
    BY <1>11 DEF seedingVars
  <2>2. Ready(t, copies) /\ \A u, v \in Workers : FillsAll(u) /\ FillsAll(v) => u = v
    BY <2>1 DEF SeedInv, Alone, IsAt
  <2>3. Ready(r, copies)
    <3>1. Bundle \in Things
      BY ThingsApart
    <3>2. op = "insert" \/ (Bundle \in r.new => Bundle \in t.new)
      BY <1>3, ThingsApart
    <3>3. ~Clears(t.todo, 1)
      BY DEF Clears
    <3> QED BY <1>1, <2>2, <3>2, <3>3, StillReady
  <2>4. r.cmd \in Big => FillsAll(w)
    BY <1>5 DEF FillsAll, IsAt
  <2> QED BY <1>6, <2>2, <2>3, <2>4
<1>12. UNCHANGED <<copies, own, edited>> /\ mixed' = mixed /\ job' = [job EXCEPT ![w] = r]
    BY DEF seedingVars, Go
<1> HIDE DEF t, op, xs
<1> QED BY <1>4, <1>5, <1>8, <1>9, <1>10, <1>11, <1>12, OwnStep

LEMMA RowsAreBrought ==
    ASSUME SeedInv, scene = "seed", scene' = "seed", NEW w \in Workers,
           EnsureRows(w) \/ InsertRows(w) \/ OverwriteRows(w)
    PROVE  SeedInv'
<1> DEFINE t == job[w]
           xs == Subject(w)
           O == {x \in xs : Sees(w, x) \/ Absent(w, {x}) # {}}
<1>1. UNCHANGED seedingVars /\ job[w].pc = "run" /\ job[w].todo # <<>> /\ ~job[w].broken
    BY DEF EnsureRows, InsertRows, OverwriteRows, At, Running, IsAt
<1>2. /\ t \in SessionRow
      /\ xs = t.todo[1][2] /\ Head(t.todo) = t.todo[1] /\ t.todo \in Seq(Lawful(t.cmd, t.names[1]))
      /\ \A x \in Things : /\ Sees(w, x) <=> There(t, copies, x)
                           /\ ~Sees(w, x) => copies[x] = t.gone[x]
    BY <1>1, Sessions DEF Subject
<1>3. t.todo[1] \in Statement /\ Tail(t.todo) \in Seq(Statement) /\ xs \subseteq Things
      /\ t.todo[1] \in Lawful(t.cmd, t.names[1])
  <2>1. t.todo[1] \in Statement /\ Tail(t.todo) \in Seq(Statement)
    <3>1. PICK todo \in Seq(Statement) : todo = t.todo
      BY <1>2 DEF SessionRow
    <3>2. todo # <<>> /\ Head(todo) = todo[1]
      BY <1>1, <1>2, <3>1
    <3>3. todo[1] \in Statement /\ Tail(todo) \in Seq(Statement)
      BY <3>2, HeadTailProperties
    <3> QED BY <3>1, <3>3
  <2>2. t.todo[1] \in Lawful(t.cmd, t.names[1])
    BY <1>1, <1>2, HeadTailProperties
  <2> QED BY <1>2, <2>1, <2>2 DEF Statement
<1>4. \A x \in xs : x \in Absent(w, xs) <=> Absent(w, {x}) # {}
    BY DEF Absent
<1>5. Absent(w, xs) \subseteq xs /\ \A x \in Absent(w, xs) : ~Sees(w, x)
    BY DEF Absent
<1>6. PICK s : s = Stepped(w)
    OBVIOUS
<1>7. /\ s \in SessionRow /\ s.pc = "run" /\ s.cmd = t.cmd /\ s.names = t.names /\ s.todo = Tail(t.todo)
      /\ s.lost = t.lost /\ s.broken = t.broken /\ s.gone = t.gone /\ s.new = t.new /\ s.changed = t.changed
      /\ s.owed = t.owed \cup O
  <2>1. O \subseteq Things
    BY <1>3
  <2>2. s = [t EXCEPT !.todo = Tail(@), !.owed = @ \cup O]
    BY <1>6 DEF Stepped
  <2> HIDE DEF O, xs, t
  <2> QED BY <1>2, <1>3, <2>1, <2>2 DEF SessionRow
<1>8. ASSUME NEW A, NEW r, Absent(w, xs) \subseteq A, r.gone = t.gone, r.new = t.new \cup A
      PROVE  \A x \in O : There(r, copies, x)
  <2> SUFFICES ASSUME NEW x \in O PROVE There(r, copies, x)
    OBVIOUS
  <2>1. CASE Sees(w, x)
    BY <1>2, <1>3, <1>8, <2>1 DEF There
  <2>2. CASE Absent(w, {x}) # {}
    BY <1>4, <1>8, <2>2 DEF There
  <2> QED BY <2>1, <2>2
<1> USE DEF Go
<1>9. CASE EnsureRows(w)
  <2>1. PICK A, C : A = Absent(w, xs) /\ C = {}
    OBVIOUS
  <2>2. PICK r : r = [s EXCEPT !.new = @ \cup A]
    OBVIOUS
  <2>3. /\ r \in SeedRequest /\ Follows(r, t)
        /\ r.gone = t.gone /\ r.new = t.new \cup A /\ r.changed = t.changed \cup C /\ r.owed = t.owed \cup O
    <3>1. A \subseteq Things /\ t.pc = "run"
      BY <1>1, <1>3, <1>5, <2>1
    <3> HIDE DEF t, O, xs
    <3> QED BY <1>7, <2>1, <2>2, <3>1 DEF SeedRequest, SessionRow, Follows
  <2>4. r = [Stepped(w) EXCEPT !.new = @ \cup A]
    BY <1>6, <2>2
  <2>5. Go(w, r) /\ t.todo[1][1] = "ensure" /\ MayInsert(w, A)
    BY <1>2, <1>9, <2>1, <2>4 DEF EnsureRows, At
  <2>6. \A x \in O : There(r, copies, x)
    BY <1>8, <2>1, <2>3
  <2>7. \A x \in Things : xs = {x} /\ x # <<"core", "link">> => There(r, copies, x)
    <3> SUFFICES ASSUME NEW x \in Things, xs = {x}, x # <<"core", "link">> PROVE x \in O
      BY <2>6
    <3> QED BY DEF Absent
  <2>8. \A x \in A : /\ Single(x) => copies[x] = t.gone[x]
                     /\ Unique(x) => \A v \in Others(w) : ~Inserting(v, x)
    BY <1>2, <1>3, <1>5, <2>1, <2>5 DEF MayInsert
  <2>9. A \subseteq t.todo[1][2] /\ O \subseteq t.todo[1][2] /\ xs = t.todo[1][2] /\ C \subseteq Rewritten
    BY <1>2, <1>5, <2>1
  <2> HIDE DEF t, O, xs
  <2> QED BY <1>1, <2>3, <2>5, <2>6, <2>7, <2>8, <2>9, Brings DEF t
<1>10. CASE InsertRows(w)
  <2>1. PICK A, C : A = xs /\ C = {}
    OBVIOUS
  <2>2. PICK r : r = [s EXCEPT !.new = @ \cup A]
    OBVIOUS
  <2>3. /\ r \in SeedRequest /\ Follows(r, t)
        /\ r.gone = t.gone /\ r.new = t.new \cup A /\ r.changed = t.changed \cup C /\ r.owed = t.owed \cup O
    <3>1. A \subseteq Things /\ t.pc = "run"
      BY <1>1, <1>3, <2>1
    <3> HIDE DEF t, O, xs
    <3> QED BY <1>7, <2>1, <2>2, <3>1 DEF SeedRequest, SessionRow, Follows
  <2>4. r = [Stepped(w) EXCEPT !.new = @ \cup A]
    BY <1>6, <2>2
  <2>5. Go(w, r) /\ t.todo[1][1] = "insert"
    BY <1>2, <1>10, <2>1, <2>4 DEF InsertRows, At
  <2>6. \A x \in O : There(r, copies, x)
    BY <1>5, <1>8, <2>1, <2>3
  <2>7. xs = {Bundle} /\ Bundle \in Named /\ ~Unique(Bundle)
    BY <1>2, <1>3, <2>5, ThingsApart DEF Lawful, Unique
  <2>8. Single(Bundle) => copies[Bundle] = t.gone[Bundle]
    <3> SUFFICES ASSUME mixed = {} PROVE copies[Bundle] = t.gone[Bundle]
      BY <2>7 DEF Single
    <3>1. Ready(t, copies)
      BY <1>1 DEF SeedInv, Alone, IsAt
    <3>2. 1 \in 1 .. Len(t.todo)
      BY <1>1, <1>2, EmptySeq
    <3> QED BY <2>5, <3>1, <3>2 DEF Ready
  <2>9. A \subseteq t.todo[1][2] /\ O \subseteq t.todo[1][2] /\ C \subseteq Rewritten
    BY <1>2, <2>1
  <2>10. \A x \in A : /\ Single(x) => copies[x] = t.gone[x]
                      /\ Unique(x) => \A v \in Others(w) : ~Inserting(v, x)
    BY <2>1, <2>7, <2>8
  <2>11. \A x \in Things : t.todo[1][2] = {x} /\ x # <<"core", "link">> => There(r, copies, x)
    BY <1>2, <2>1, <2>3 DEF There
  <2> HIDE DEF t, O, xs
  <2> QED BY <1>1, <2>3, <2>5, <2>6, <2>9, <2>10, <2>11, Brings DEF t
<1>11. CASE OverwriteRows(w)
  <2>1. PICK A, C : A = Absent(w, xs) /\ C = {x \in xs : Left(w, x) > 0}
    OBVIOUS
  <2>2. PICK r : r = [s EXCEPT !.new = @ \cup A, !.changed = @ \cup C]
    OBVIOUS
  <2>3. /\ r \in SeedRequest /\ Follows(r, t)
        /\ r.gone = t.gone /\ r.new = t.new \cup A /\ r.changed = t.changed \cup C /\ r.owed = t.owed \cup O
    <3>1. A \subseteq Things /\ C \subseteq Things /\ t.pc = "run"
      BY <1>1, <1>3, <1>5, <2>1
    <3> HIDE DEF t, O, xs
    <3> QED BY <1>7, <2>1, <2>2, <3>1 DEF SeedRequest, SessionRow, Follows
  <2>4. r = [Stepped(w) EXCEPT !.new = @ \cup A, !.changed = @ \cup C]
    BY <1>6, <2>2
  <2>5. Go(w, r) /\ t.todo[1][1] = "overwrite" /\ MayInsert(w, A)
    BY <1>2, <1>11, <2>1, <2>4 DEF OverwriteRows, At
  <2>6. \A x \in O : There(r, copies, x)
    BY <1>8, <2>1, <2>3
  <2>7. xs \subseteq Rewritten /\ C \subseteq Rewritten
    BY <1>2, <1>3, <2>1, <2>5 DEF Lawful
  <2>8. \A x \in A : /\ Single(x) => copies[x] = t.gone[x]
                     /\ Unique(x) => \A v \in Others(w) : ~Inserting(v, x)
    BY <1>2, <1>3, <1>5, <2>1, <2>5 DEF MayInsert
  <2>9. A \subseteq t.todo[1][2] /\ O \subseteq t.todo[1][2]
    BY <1>2, <1>5, <2>1
  <2> HIDE DEF t, O, xs
  <2> QED BY <1>1, <2>3, <2>5, <2>6, <2>7, <2>8, <2>9, Brings DEF t
<1> QED BY <1>9, <1>10, <1>11

-----------------------------------------------------------------------------
\* A step that changes what there is.  No session gets more to insert, or
\* deletes anything else.
LEMMA RowsChange ==
    ASSUME SeedInv, scene = "seed", mixed' = mixed, SeedTyped', Truthful', OneOfEach',
           job' \in [Workers -> SeedRequest],
           \A v \in Workers : RunOK(job'[v], copies') /\ OkOK(job'[v], copies'),
           \A v \in Workers : job'[v].pc = "run" =>
              /\ job[v].pc = "run" /\ job'[v].cmd = job[v].cmd /\ job'[v].new \subseteq job[v].new
              /\ \A x \in Things : job'[v].gone[x] = 0 \/ job'[v].gone[x] = job[v].gone[x]
              /\ \A x \in Things : Single(x) /\ x \in job'[v].new => copies'[x] = job'[v].gone[x]
              /\ mixed = {} => Ready(job'[v], copies')
    PROVE  SeedInv'
<1>1. \A x : Single(x)' = Single(x)
    BY DEF Single
<1>2. SessionsApart'
  <2> SUFFICES ASSUME NEW u \in Workers, NEW v \in Workers, job'[u].pc = "run", job'[v].pc = "run", u # v,
                      NEW x \in Things
               PROVE  /\ job'[u].gone[x] = 0 \/ job'[v].gone[x] = 0
                      /\ Single(x)' => x \notin job'[u].new \/ x \notin job'[v].new
    BY DEF SessionsApart, IsAt
  <2>1. /\ job[u].gone[x] = 0 \/ job[v].gone[x] = 0
        /\ Single(x) => x \notin job[u].new \/ x \notin job[v].new
    BY DEF SeedInv, SessionsApart, IsAt
  <2> QED BY <1>1, <2>1
<1>3. FirstOfAKind'
    BY <1>1 DEF FirstOfAKind, IsAt
<1>4. Alone'
  <2> SUFFICES ASSUME mixed = {}
               PROVE  /\ (\A u, v \in Workers : FillsAll(u) /\ FillsAll(v) => u = v)'
                      /\ (\A v \in Workers : IsAt(v, "run") => Ready(job[v], copies))'
    BY DEF Alone
  <2>1. \A v \in Workers : FillsAll(v)' => FillsAll(v)
    BY DEF FillsAll, IsAt
  <2>2. \A u, v \in Workers : FillsAll(u) /\ FillsAll(v) => u = v
    BY DEF SeedInv, Alone
  <2> QED BY <2>1, <2>2 DEF IsAt
<1>5. (\A v \in Workers : RunOK(job[v], copies) /\ OkOK(job[v], copies))'
    OBVIOUS
<1> QED BY <1>2, <1>3, <1>4, <1>5 DEF SeedInv

\* The session of another, which learns what is lost.
Learns(r, t) ==
    /\ r.pc = t.pc /\ r.cmd = t.cmd /\ r.names = t.names /\ r.todo = t.todo /\ r.new = t.new /\ r.gone = t.gone
    /\ r.changed = t.changed /\ r.broken = t.broken /\ r.owed = t.owed /\ t.lost \subseteq r.lost

LEMMA OthersGoOn ==
    ASSUME NEW t, NEW r \in SessionRow, NEW c, NEW d, Learns(r, t), RunOK(t, c),
           \A x \in Things : t.gone[x] <= d[x] /\ (There(t, c, x) => There(t, d, x) \/ x \in r.lost),
           \A p \in Plugins : \A y \in Data(p) : There(t, c, y) => There(t, d, y)
    PROVE  RunOK(r, d) /\ OkOK(r, d)
<1>1. r.pc = "run" /\ t.pc = "run" /\ r.owed \subseteq Things
    BY DEF SessionRow, Learns
<1>2. Disciplined(t) /\ Within(t, c) /\ Due(t, c) /\ Supplied(t, c)
    BY <1>1 DEF RunOK
<1>3. Disciplined(r)
    BY <1>2 DEF Disciplined, Learns
<1>4. Within(r, d)
    BY <1>2 DEF Within, Learns
<1>5. \A x \in Things : There(t, d, x) => There(r, d, x)
    BY DEF There, Learns
<1>6. Due(r, d)
    BY <1>1, <1>2, <1>5 DEF Due, Learns
<1>7. \A p \in Plugins : \A y \in Data(p) : There(t, c, y) => There(r, d, y)
    BY <1>5, ThingsApart
<1>8. Supplied(r, d)
    BY <1>2, <1>7 DEF Supplied, Learns
<1> QED BY <1>1, <1>3, <1>4, <1>6, <1>8 DEF RunOK, OkOK

\* Nothing, or what all are told, is deleted by Without.
LEMMA AllAreTold ==
    ASSUME SeedInv, scene = "seed", NEW xs \in SUBSET Things
    PROVE  /\ Without(xs) \in [Workers -> SeedRequest]
           /\ \A v \in Workers :
                 /\ Without(xs)[v].pc = job[v].pc
                 /\ job[v].pc = "run" => /\ Without(xs)[v] \in SessionRow /\ Learns(Without(xs)[v], job[v])
                                         /\ Without(xs)[v].lost = job[v].lost \cup xs
                 /\ job[v].pc = "ok" => Without(xs)[v].owed = job[v].owed \ xs
<1>1. job \in [Workers -> SeedRequest]
    BY DEF SeedInv
<1>2. ASSUME NEW u \in Workers
      PROVE  /\ Without(xs)[u] \in SeedRequest /\ Without(xs)[u].pc = job[u].pc
             /\ job[u].pc = "run" => /\ Without(xs)[u] \in SessionRow /\ Learns(Without(xs)[u], job[u])
                                     /\ Without(xs)[u].lost = job[u].lost \cup xs
             /\ job[u].pc = "ok" => Without(xs)[u].owed = job[u].owed \ xs
  <2>1. CASE job[u].pc = "run"
    <3>1. PICK r, t : r = Without(xs)[u] /\ t = job[u]
      OBVIOUS
    <3>2. t \in SessionRow
      BY <1>1, <2>1, <3>1 DEF SeedRequest, SessionRow
    <3>3. r = [t EXCEPT !.lost = @ \cup xs]
      BY <2>1, <3>1 DEF Without, Running, IsAt
    <3>4. r \in SessionRow /\ Learns(r, t) /\ r.lost = t.lost \cup xs /\ r.pc = "run"
      BY <3>2, <3>3 DEF SessionRow, Learns
    <3> QED BY <2>1, <3>1, <3>4 DEF SeedRequest
  <2>2. CASE job[u].pc = "ok"
    <3>1. PICK r, t : r = Without(xs)[u] /\ t = job[u]
      OBVIOUS
    <3>2. t \in [pc : {"ok"}, cmd : Commands, owed : SUBSET Things]
      BY <1>1, <2>2, <3>1 DEF SeedRequest, SessionRow
    <3>3. r = [t EXCEPT !.owed = @ \ xs]
      BY <2>2, <3>1 DEF Without, Running, IsAt
    <3>4. r \in [pc : {"ok"}, cmd : Commands, owed : SUBSET Things] /\ r.owed = t.owed \ xs /\ r.pc = "ok"
      BY <3>2, <3>3
    <3> QED BY <2>2, <3>1, <3>4 DEF SeedRequest
  <2>3. CASE job[u].pc \notin {"run", "ok"}
    <3>1. Without(xs)[u] = job[u]
      BY <2>3 DEF Without, Running, IsAt
    <3> QED BY <1>1, <2>3, <3>1
  <2> QED BY <2>1, <2>2, <2>3
<1>3. Without(xs) \in [Workers -> SeedRequest]
  <2>1. PICK f : f = Without(xs)
    OBVIOUS
  <2>2. f = [u \in Workers |-> f[u]]
    BY <2>1 DEF Without
  <2>3. \A u \in Workers : f[u] \in SeedRequest
    BY <1>2, <2>1
  <2> QED BY <2>1, <2>2, <2>3
<1> QED BY <1>2, <1>3

-----------------------------------------------------------------------------
\* What operators and customers do.
LEMMA TouchesKeep ==
    ASSUME SeedInv, scene = "seed", EditRow \/ DeleteRow \/ Buy
    PROVE  SeedInv'
<1>1. /\ copies \in [Things -> Nat] /\ own \subseteq Things /\ mixed \in {{}, Named}
      /\ edited \subseteq Of({"tax", "country", "plan", "settings"}) /\ EditsSurvive
      /\ job \in [Workers -> SeedRequest] /\ OneOfEach /\ FirstOfAKind /\ Truthful
      /\ \A v \in Workers : RunOK(job[v], copies) /\ OkOK(job[v], copies)
    BY DEF SeedInv, SeedTyped
<1>2. \A v \in Workers : IsAt(v, "run") /\ mixed = {} => Ready(job[v], copies)
    BY DEF SeedInv, Alone
<1>3. mixed' = mixed
    BY DEF EditRow, DeleteRow, Buy, Touch
<1>4. CASE EditRow
  <2>1. PICK x \in Of({"tax", "country", "plan", "settings"}) :
           own' = own \cup {x} /\ edited' = edited \cup {x}
    BY <1>4 DEF EditRow
  <2>2. UNCHANGED <<copies, job>>
    BY <1>4 DEF EditRow
  <2>3. x \in Things
    BY <2>1, ThingsApart DEF Of, Core
  <2>4. SeedTyped'
    BY <1>1, <1>3, <2>1, <2>2, <2>3 DEF SeedTyped, EditsSurvive
  <2>5. Truthful' /\ OneOfEach'
    BY <1>1, <1>3, <2>2 DEF Truthful, OneOfEach, Single
  <2> QED BY <1>1, <1>2, <1>3, <2>2, <2>4, <2>5, RowsChange DEF FirstOfAKind, IsAt
<1>5. CASE DeleteRow
  <2>1. PICK x \in Of({"tax", "method"}) :
           /\ copies[x] > 0 /\ Free(x) /\ copies' = [copies EXCEPT ![x] = 0]
           /\ own' = own \ {x} /\ edited' = edited \ {x} /\ job' = Without({x})
    BY <1>5 DEF DeleteRow
  <2>2. /\ x \in Of(Core) /\ x \in Things /\ x # Bundle /\ Unique(x)
    BY <2>1, ThingsApart DEF Of, Core, Bundle, Unique, Named
  <2>3. copies' \in [Things -> Nat] /\ \A y \in Things : copies'[y] = IF y = x THEN 0 ELSE copies[y]
    BY <1>1, <2>1, <2>2
  <2>4. SeedTyped'
    BY <1>1, <1>3, <2>1, <2>3 DEF SeedTyped, EditsSurvive
  <2>5. \A p \in Plugins : Marker(p) # x /\ x \notin Data(p) /\ Marker(p) \in Things /\ Data(p) \subseteq Things
    BY <2>2, ThingsApart
  <2>6. Truthful'
    BY <1>1, <2>3, <2>5 DEF Truthful
  <2>7. OneOfEach'
    BY <1>1, <1>3, <2>3 DEF OneOfEach, Single
  <2>8. {x} \in SUBSET Things
    BY <2>2
  <2>9. /\ job' \in [Workers -> SeedRequest]
        /\ \A v \in Workers :
             /\ job'[v].pc = job[v].pc
             /\ job[v].pc = "run" => job'[v] \in SessionRow /\ Learns(job'[v], job[v]) /\ x \in job'[v].lost
             /\ job[v].pc = "ok" => job'[v].owed = job[v].owed \ {x}
    <3>1. PICK xs \in SUBSET Things : xs = {x}
      BY <2>8
    <3> QED BY <2>1, <3>1, AllAreTold
  <2>10. ASSUME NEW v \in Workers, job[v].pc = "run"
         PROVE  /\ RunOK(job'[v], copies') /\ OkOK(job'[v], copies')
                /\ job[v].gone[x] = 0 /\ x \notin job[v].new
    <3>1. /\ job[v].gone \in [Things -> Nat] /\ job[v].gone[x] = 0
          /\ \A y \in Things : job[v].gone[y] \in Nat /\ job[v].gone[y] <= copies[y]
      <4>1. \A y \in Things : job[v].gone[y] \in Nat /\ job[v].gone[y] <= copies[y]
        BY <2>10, Sessions
      <4>2. ~(job[v].gone[x] > 0)
        BY <2>1, <2>10 DEF Free, Holding, Running, IsAt
      <4>3. job[v].gone \in [Things -> Nat]
        BY <2>10, Sessions DEF SessionRow
      <4> QED BY <2>2, <4>1, <4>2, <4>3
    <3>2. \A y \in Things : /\ job[v].gone[y] <= copies'[y]
                            /\ There(job[v], copies, y) => There(job[v], copies', y) \/ y \in job'[v].lost
      BY <2>3, <2>9, <2>10, <3>1 DEF There
    <3>3. \A p \in Plugins : \A y \in Data(p) : There(job[v], copies, y) => There(job[v], copies', y)
      BY <2>3, <2>5 DEF There
    <3>4. RunOK(job'[v], copies') /\ OkOK(job'[v], copies')
      BY <1>1, <2>9, <2>10, <3>2, <3>3, OthersGoOn
    <3>5. x \notin job[v].new
      BY <1>1, <2>1, <2>2, <2>10, <3>1 DEF FirstOfAKind, IsAt, Single
    <3> QED BY <3>1, <3>4, <3>5
  <2>11. ASSUME NEW v \in Workers PROVE RunOK(job'[v], copies') /\ OkOK(job'[v], copies')
    <3>1. CASE job[v].pc = "run"
      BY <2>10, <3>1
    <3>2. CASE job[v].pc = "ok"
      <4>1. \A y \in job[v].owed : y \in Things /\ copies[y] > 0
        BY <1>1, <3>2 DEF OkOK, SeedRequest, SessionRow
      <4> QED BY <2>3, <2>9, <3>2, <4>1 DEF OkOK, RunOK
    <3>3. CASE job[v].pc \notin {"run", "ok"}
      BY <2>9, <3>3 DEF OkOK, RunOK
    <3> QED BY <3>1, <3>2, <3>3
  <2>12. ASSUME NEW v \in Workers, job'[v].pc = "run"
         PROVE  /\ job[v].pc = "run" /\ job'[v].cmd = job[v].cmd /\ job'[v].new \subseteq job[v].new
                /\ \A y \in Things : job'[v].gone[y] = 0 \/ job'[v].gone[y] = job[v].gone[y]
                /\ \A y \in Things : Single(y) /\ y \in job'[v].new => copies'[y] = job'[v].gone[y]
                /\ mixed = {} => Ready(job'[v], copies')
    <3>1. job[v].pc = "run" /\ Learns(job'[v], job[v])
      BY <2>9, <2>12
    <3>2. \A y \in Things : Single(y) /\ y \in job'[v].new => copies'[y] = job'[v].gone[y]
      BY <1>1, <2>3, <2>10, <3>1 DEF FirstOfAKind, IsAt, Learns
    <3>3. mixed = {} => Ready(job'[v], copies')
      <4>1. copies'[Bundle] = copies[Bundle]
        BY <2>2, <2>3, ThingsApart
      <4> QED BY <1>2, <3>1, <4>1 DEF Ready, IsAt, Learns
    <3> QED BY <3>1, <3>2, <3>3 DEF Learns
  <2> QED BY <1>3, <2>4, <2>6, <2>7, <2>9, <2>11, <2>12, RowsChange
<1>6. CASE Buy
  <2> DEFINE More == Of({"sale", "ledger"})
             Balance == <<"core", "balance">>
  <2>1. /\ copies' = [x \in Things |-> IF x = <<"core", "balance">> THEN 1
                                       ELSE IF x \in Of({"sale", "ledger"}) THEN copies[x] + 1 ELSE copies[x]]
        /\ UNCHANGED <<own, edited, job>>
    BY <1>6 DEF Buy
  <2>2. /\ Balance \in Of(Core) /\ Balance \in Foreign /\ Unique(Balance) /\ Balance # Bundle
        /\ More \subseteq Of(Core) /\ Bundle \notin More
        /\ \A x \in More : ~Single(x)
    BY ThingsApart DEF Of, Core, Foreign, Unique, Named, Bundle, Single
  <2>3. /\ copies' \in [Things -> Nat] /\ copies'[Balance] = 1
        /\ \A x \in Things : x # Balance => copies'[x] = IF x \in More THEN copies[x] + 1 ELSE copies[x]
    BY <1>1, <2>1, <2>2, ThingsApart
  <2>4. Balance \in Things => copies[Balance] <= 1
    BY <1>1, <2>2 DEF OneOfEach, Single
  <2> HIDE DEF Balance, More
  <2>5. \A x \in Things : copies[x] \in Nat /\ copies'[x] \in Nat /\ copies[x] <= copies'[x]
    <3> SUFFICES ASSUME NEW x \in Things PROVE copies[x] \in Nat /\ copies'[x] \in Nat /\ copies[x] <= copies'[x]
      OBVIOUS
    <3>1. copies[x] \in Nat /\ copies'[x] \in Nat
      BY <1>1, <2>3
    <3>2. CASE x = Balance
      BY <2>3, <2>4, <3>1, <3>2
    <3>3. CASE x # Balance
      BY <2>3, <3>1, <3>3
    <3> QED BY <3>1, <3>2, <3>3
  <2>6. SeedTyped'
    BY <1>1, <1>3, <2>1, <2>3 DEF SeedTyped, EditsSurvive
  <2>7. \A p \in Plugins : /\ copies'[Marker(p)] = copies[Marker(p)] /\ Data(p) \subseteq Things
    BY <2>2, <2>3, ThingsApart
  <2>8. Truthful'
    BY <1>1, <2>5, <2>7 DEF Truthful
  <2>9. OneOfEach'
    <3> SUFFICES ASSUME NEW x \in Things, Single(x) PROVE copies'[x] <= 1
      BY <1>3 DEF OneOfEach, Single
    <3>1. CASE x = Balance
      BY <2>3, <3>1
    <3>2. CASE x # Balance
      BY <1>1, <2>2, <2>3, <3>2 DEF OneOfEach
    <3> QED BY <3>1, <3>2
  <2>10. ASSUME NEW v \in Workers PROVE RunOK(job'[v], copies') /\ OkOK(job'[v], copies')
    <3>1. job' = job
      BY <2>1
    <3>2. CASE job[v].pc = "run"
      <4>1. job[v] \in SessionRow
        BY <3>2, Sessions
      <4>2. \A x \in Things : job[v].gone[x] \in Nat /\ job[v].gone[x] <= copies[x]
        BY <3>2, Sessions
      <4>3. \A x \in Things : /\ job[v].gone[x] <= copies'[x]
                              /\ There(job[v], copies, x) => There(job[v], copies', x)
        BY <2>5, <4>2 DEF There
      <4>4. PICK r, d : r = job[v] /\ d = copies'
        OBVIOUS
      <4>5. Learns(r, job[v]) /\ r \in SessionRow
        BY <4>1, <4>4 DEF Learns
      <4>6. \A p \in Plugins : \A y \in Data(p) : There(job[v], copies, y) => There(job[v], d, y)
        BY <2>7, <4>3, <4>4
      <4>7. RunOK(r, d) /\ OkOK(r, d)
        BY <1>1, <4>3, <4>4, <4>5, <4>6, OthersGoOn
      <4> QED BY <3>1, <4>4, <4>7
    <3>3. CASE job[v].pc = "ok"
      <4>1. \A y \in job[v].owed : y \in Things /\ copies[y] > 0
        BY <1>1, <3>3 DEF OkOK, SeedRequest, SessionRow
      <4> QED BY <2>5, <3>1, <3>3, <4>1 DEF OkOK, RunOK
    <3>4. CASE job[v].pc \notin {"run", "ok"}
      BY <3>1, <3>4 DEF OkOK, RunOK
    <3> QED BY <3>2, <3>3, <3>4
  <2>11. ASSUME NEW v \in Workers, job'[v].pc = "run"
         PROVE  /\ \A x \in Things : Single(x) /\ x \in job'[v].new => copies'[x] = job'[v].gone[x]
                /\ mixed = {} => Ready(job'[v], copies')
    <3>1. job'[v] = job[v] /\ Disciplined(job[v])
      BY <1>1, <2>1, <2>11 DEF RunOK
    <3>2. ASSUME NEW x \in Things, Single(x), x \in job[v].new PROVE copies'[x] = job[v].gone[x]
      <4>1. x # Balance /\ x \notin More
        BY <2>2, <3>1, <3>2 DEF Disciplined
      <4> QED BY <1>1, <2>3, <2>11, <3>1, <3>2, <4>1 DEF FirstOfAKind, IsAt
    <3>3. mixed = {} => Ready(job[v], copies')
      <4>1. copies'[Bundle] = copies[Bundle]
        BY <2>2, <2>3, ThingsApart
      <4> QED BY <1>2, <2>11, <3>1, <4>1 DEF Ready, IsAt
    <3> QED BY <3>1, <3>2, <3>3
  <2> QED BY <1>1, <1>3, <2>1, <2>6, <2>8, <2>9, <2>10, <2>11, RowsChange
<1> QED BY <1>4, <1>5, <1>6

-----------------------------------------------------------------------------
\* What a session deletes, and what it does not.
LEMMA DeletesLittle ==
    ASSUME SeedInv, scene = "seed", NEW w \in Workers, job[w].pc = "run"
    PROVE  /\ \A p \in Plugins : \A y \in Data(p) : y \in Things /\ job[w].gone[y] = 0
           /\ <<"core", "settings">> \in Things /\ job[w].gone[<<"core", "settings">>] = 0
           /\ job[w].cmd \notin Big => job[w].gone[Bundle] = 0 /\ Bundle \notin job[w].new
<1>1. /\ Disciplined(job[w]) /\ Within(job[w], copies)
      /\ \A x \in Things : job[w].gone[x] \in Nat
    BY Sessions DEF RunOK
<1>2. \A x \in Things : x \notin Cleared => job[w].gone[x] = 0
    BY <1>1 DEF Within
<1>3. Bundle \in Things /\ Bundle \in Named
    BY ThingsApart
<1>4. job[w].cmd \notin Big => job[w].gone[Bundle] = 0 /\ Bundle \notin job[w].new
    BY <1>1, <1>3 DEF Within, Disciplined, Big
<1>5. <<"core", "settings">> \in Things /\ <<"core", "settings">> \notin Cleared
    BY ThingsApart
<1>6. \A p \in Plugins : \A y \in Data(p) : y \in Things /\ y \notin Cleared
    BY ThingsApart
<1> QED BY <1>2, <1>4, <1>5, <1>6

LEMMA CommitKeeps ==
    ASSUME SeedInv, scene = "seed", NEW w \in Workers, CommitSession(w)
    PROVE  SeedInv'
<1> DEFINE t == job[w]
           gone == {x \in Things : job[w].gone[x] > 0}
<1>1. /\ copies \in [Things -> Nat] /\ own \subseteq Things /\ mixed \in {{}, Named}
      /\ edited \subseteq Of({"tax", "country", "plan", "settings"}) /\ EditsSurvive
      /\ job \in [Workers -> SeedRequest] /\ OneOfEach /\ FirstOfAKind /\ Truthful /\ SessionsApart
      /\ \A v \in Workers : RunOK(job[v], copies) /\ OkOK(job[v], copies)
    BY DEF SeedInv, SeedTyped
<1>2. /\ t.pc = "run" /\ t.todo # <<>> /\ ~t.broken
      /\ Head(t.todo)[1] = "commit"
      /\ copies' = [x \in Things |-> Left(w, x) + IF x \in job[w].new THEN 1 ELSE 0]
      /\ own' = own \ (gone \cup job[w].changed) /\ edited' = edited \ gone /\ mixed' = mixed
      /\ job' = [Without(gone) EXCEPT ![w] = [Stepped(w) EXCEPT !.new = {}, !.gone = NoChange, !.changed = {}]]
    BY DEF CommitSession, At, Running, IsAt
<1>3. /\ t \in SessionRow /\ RunOK(t, copies) /\ Head(t.todo) = t.todo[1]
      /\ \A x \in Things : /\ copies[x] \in Nat /\ t.gone[x] \in Nat /\ t.gone[x] <= copies[x]
                           /\ Left(w, x) \in Nat /\ Left(w, x) = copies[x] - t.gone[x]
    BY <1>2, Sessions DEF Left
<1>4. /\ Disciplined(t) /\ Within(t, copies) /\ Due(t, copies) /\ Supplied(t, copies)
    BY <1>2, <1>3 DEF RunOK
<1>5. /\ t.todo[1] \in Lawful(t.cmd, t.names[1]) /\ t.todo[1][1] = "commit" /\ t.todo[1][2] = {}
      /\ Tail(t.todo) \in Seq(Statement) /\ Tail(t.todo) \in Seq(Lawful(t.cmd, t.names[1]))
      /\ Ordered(Tail(t.todo)) /\ Closed(Tail(t.todo))
      /\ Tail(t.todo) # <<>> => Tail(t.todo)[1][1] # "clear"
  <2>1. PICK todo, L : todo = t.todo /\ L = Lawful(t.cmd, t.names[1])
    OBVIOUS
  <2>2. todo \in Seq(L) /\ todo # <<>> /\ Ordered(todo) /\ Closed(todo) /\ todo[1][1] = "commit"
    BY <1>2, <1>3, <1>4, <2>1 DEF Disciplined
  <2>3. /\ todo[1] \in L /\ Tail(todo) \in Seq(L) /\ Ordered(Tail(todo)) /\ Closed(Tail(todo))
        /\ Tail(todo) # <<>> /\ Tail(todo)[1][1] = "clear" => todo[1][1] = "clear"
    BY <2>2, Onward
  <2>4. L \subseteq Statement
    BY <2>1 DEF Lawful
  <2>5. Tail(todo) \in Seq(Statement)
    BY <2>3, <2>4, SeqMonotonic
  <2>6. todo[1][2] = {}
    BY <2>1, <2>2, <2>3 DEF Lawful
  <2> QED BY <2>1, <2>2, <2>3, <2>5, <2>6
<1>6. copies' \in [Things -> Nat]
      /\ \A x \in Things : copies'[x] = Left(w, x) + IF x \in t.new THEN 1 ELSE 0
    BY <1>2, <1>3
<1>7. /\ gone \in SUBSET Things
      /\ \A x \in Things : /\ x \in gone <=> t.gone[x] > 0
                           /\ x \notin gone => t.gone[x] = 0 /\ copies[x] <= copies'[x]
                           /\ There(t, copies, x) <=> copies'[x] > 0
    BY <1>3, <1>6 DEF There
<1>8. PICK r : r = [Stepped(w) EXCEPT !.new = {}, !.gone = NoChange, !.changed = {}]
    OBVIOUS
<1>9. /\ r \in SessionRow /\ Follows(r, t) /\ r.new = {} /\ r.gone \in [Things -> Nat]
      /\ \A x \in Things : r.gone[x] = 0
      /\ r.changed = {} /\ r.owed = t.owed
  <2>1. Subject(w) = {}
    BY <1>2, <1>3, <1>5 DEF Subject
  <2>2. PICK s : s = Stepped(w)
    OBVIOUS
  <2>3. s = [t EXCEPT !.todo = Tail(@), !.owed = @ \cup {}]
    BY <2>1, <2>2 DEF Stepped
  <2>4. r = [s EXCEPT !.new = {}, !.gone = NoChange, !.changed = {}]
    BY <1>8, <2>2
  <2>5. NoChange \in [Things -> Nat] /\ \A x \in Things : NoChange[x] = 0
    BY DEF NoChange
  <2>6. t.pc = "run"
    BY <1>2
  <2> HIDE DEF t
  <2>7. /\ s \in SessionRow /\ s.pc = "run" /\ s.cmd = t.cmd /\ s.names = t.names /\ s.todo = Tail(t.todo)
        /\ s.lost = t.lost /\ s.broken = t.broken /\ s.owed = t.owed
    BY <1>3, <1>5, <2>3 DEF SessionRow
  <2> QED BY <2>4, <2>5, <2>6, <2>7 DEF SessionRow, Follows
<1>10. /\ job' \in [Workers -> SeedRequest] /\ job'[w] = r
       /\ \A v \in Workers : v # w =>
             /\ job'[v].pc = job[v].pc
             /\ job[v].pc = "run" => /\ job'[v] \in SessionRow /\ Learns(job'[v], job[v])
                                     /\ job'[v].lost = job[v].lost \cup gone
             /\ job[v].pc = "ok" => job'[v].owed = job[v].owed \ gone
  <2>1. PICK xs \in SUBSET Things : xs = gone
    BY <1>7
  <2>2. job' = [Without(xs) EXCEPT ![w] = r]
    BY <1>2, <1>8, <2>1
  <2>3. r \in SeedRequest
    BY <1>9 DEF SeedRequest
  <2> HIDE DEF gone
  <2>4. /\ Without(xs) \in [Workers -> SeedRequest]
        /\ \A v \in Workers :
             /\ Without(xs)[v].pc = job[v].pc
             /\ job[v].pc = "run" => /\ Without(xs)[v] \in SessionRow /\ Learns(Without(xs)[v], job[v])
                                     /\ Without(xs)[v].lost = job[v].lost \cup xs
             /\ job[v].pc = "ok" => Without(xs)[v].owed = job[v].owed \ xs
    BY AllAreTold
  <2> QED BY <2>1, <2>2, <2>3, <2>4
<1> HIDE DEF gone
<1>11. SeedTyped'
  <2>1. EditsSurvive'
    <3> SUFFICES ASSUME NEW x \in edited', x \notin Of({"plan", "settings"}) PROVE x \in own'
      BY DEF EditsSurvive
    <3>1. x \in edited /\ x \notin gone /\ x \in own
      BY <1>1, <1>2 DEF EditsSurvive
    <3>2. x \notin Rewritten
      BY <1>1, <3>1 DEF Of, Rewritten
    <3>3. x \notin t.changed
      BY <1>4, <3>2 DEF Disciplined
    <3> QED BY <1>2, <3>1, <3>3
  <2> QED BY <1>1, <1>2, <1>6, <2>1 DEF SeedTyped
<1>12. \A p \in Plugins : /\ Marker(p) \in Things
                          /\ \A y \in Data(p) : y \in Things /\ y \notin gone
  <2>1. \A p \in Plugins : \A y \in Data(p) : y \in Things /\ t.gone[y] = 0
    BY <1>2, DeletesLittle
  <2> QED BY <1>7, <2>1, ThingsApart
<1>13. Truthful'
  <2> SUFFICES ASSUME NEW p \in Plugins, copies'[Marker(p)] > 0, NEW y \in Data(p) PROVE copies'[y] > 0
    BY DEF Truthful
  <2>1. There(t, copies, Marker(p))
    BY <1>7, <1>12
  <2>2. There(t, copies, y)
    <3>1. CASE Marker(p) \in t.new
      BY <1>4, <3>1 DEF Supplied
    <3>2. CASE t.gone[Marker(p)] < copies[Marker(p)]
      <4>1. copies[y] > 0
        BY <1>1, <1>3, <1>12, <3>2 DEF Truthful
      <4> QED BY <1>3, <1>7, <1>12, <4>1 DEF There
    <3> QED BY <2>1, <3>1, <3>2 DEF There
  <2> QED BY <1>7, <1>12, <2>2
<1>14. OneOfEach'
  <2> SUFFICES ASSUME NEW x \in Things, Single(x) PROVE copies'[x] <= 1
    BY <1>2 DEF OneOfEach, Single
  <2>1. CASE x \in t.new
    <3>1. copies[x] = t.gone[x]
      BY <1>1, <1>2, <2>1 DEF FirstOfAKind, IsAt
    <3> QED BY <1>3, <1>6, <2>1, <3>1
  <2>2. CASE x \notin t.new
    <3>1. copies[x] <= 1
      BY <1>1 DEF OneOfEach
    <3> QED BY <1>3, <1>6, <2>2, <3>1
  <2> QED BY <2>1, <2>2
<1>15. RunOK(r, copies') /\ OkOK(r, copies')
  <2>1. r.pc = "run"
    BY <1>9 DEF SessionRow
  <2>2. Disciplined(r)
    <3>1. r.todo # <<>> => r.todo[1][1] # "clear"
      BY <1>5, <1>9 DEF Follows
    <3> QED BY <1>4, <1>5, <1>9, <3>1 DEF Disciplined, Follows
  <2>3. Within(r, copies')
    BY <1>6, <1>9 DEF Within
  <2>4. \A x \in Things : There(t, copies, x) => There(r, copies', x)
    BY <1>6, <1>7, <1>9 DEF There
  <2>5. Due(r, copies')
    <3>1. r.owed \subseteq Things
      BY <1>9 DEF SessionRow
    <3> QED BY <1>4, <1>9, <2>4, <3>1 DEF Due, Follows
  <2>6. Supplied(r, copies')
    <3>1. PICK d : d = copies'
      OBVIOUS
    <3>2. \A p \in Plugins : \A y \in Data(p) :
             /\ There(t, copies, y) => There(r, d, y)
             /\ t.todo[1] = <<"ensure", {y}>> => There(r, d, y)
      BY <1>5, <1>12, <2>4, <3>1
    <3>3. \A p \in Plugins : Marker(p) \in r.new \ t.new => t.todo[1][1] = "ensure" /\ Marker(p) \in t.todo[1][2]
      BY <1>9
    <3>4. Supplied(r, d)
      BY <1>2, <1>3, <1>9, <3>2, <3>3, StillSupplied
    <3> QED BY <3>1, <3>4
  <2> QED BY <2>1, <2>2, <2>3, <2>5, <2>6 DEF RunOK, OkOK
<1>16. ASSUME NEW v \in Workers, v # w, job[v].pc = "run"
       PROVE  RunOK(job'[v], copies') /\ OkOK(job'[v], copies')
  <2>1. \A x \in Things : job[v].gone[x] \in Nat /\ job[v].gone[x] <= copies[x]
    BY <1>16, Sessions
  <2>2. \A x \in Things : job[v].gone[x] = 0 \/ t.gone[x] = 0
    BY <1>1, <1>2, <1>16 DEF SessionsApart, IsAt
  <2>3. \A x \in Things : x \in gone => job[v].gone[x] = 0
    BY <1>7, <2>2
  <2>4. ASSUME NEW x \in Things
        PROVE  /\ job[v].gone[x] <= copies'[x]
               /\ There(job[v], copies, x) => There(job[v], copies', x) \/ x \in job'[v].lost
    <3>1. copies'[x] \in Nat
      BY <1>6
    <3>2. CASE x \in gone
      BY <1>10, <1>16, <2>3, <3>1, <3>2
    <3>3. CASE x \notin gone
      <4>1. copies[x] <= copies'[x] /\ copies[x] \in Nat
        BY <1>3, <1>7, <3>3
      <4> QED BY <2>1, <3>1, <4>1 DEF There
    <3> QED BY <3>2, <3>3
  <2>5. ASSUME NEW p \in Plugins, NEW y \in Data(p), There(job[v], copies, y) PROVE There(job[v], copies', y)
    <3>1. y \in Things /\ y \notin gone
      BY <1>12
    <3>2. copies[y] <= copies'[y] /\ copies[y] \in Nat /\ copies'[y] \in Nat
      BY <1>3, <1>6, <1>7, <3>1
    <3> QED BY <2>1, <2>5, <3>1, <3>2 DEF There
  <2>6. PICK d, q, c : d = copies' /\ q = job'[v] /\ c = job[v]
    OBVIOUS
  <2>7. RunOK(q, d) /\ OkOK(q, d)
    <3>1. q \in SessionRow /\ Learns(q, c) /\ RunOK(c, copies)
      BY <1>1, <1>10, <1>16, <2>6
    <3>2. /\ \A x \in Things : c.gone[x] <= d[x] /\ (There(c, copies, x) => There(c, d, x) \/ x \in q.lost)
          /\ \A p \in Plugins : \A y \in Data(p) : There(c, copies, y) => There(c, d, y)
      BY <2>4, <2>5, <2>6
    <3> QED BY <3>1, <3>2, OthersGoOn
  <2> QED BY <2>6, <2>7
<1>17. ASSUME NEW v \in Workers PROVE RunOK(job'[v], copies') /\ OkOK(job'[v], copies')
  <2>1. CASE v = w
    BY <1>10, <1>15, <2>1
  <2>2. CASE v # w /\ job[v].pc = "run"
    BY <1>16, <2>2
  <2>3. CASE v # w /\ job[v].pc = "ok"
    <3>1. \A y \in job[v].owed : y \in Things /\ copies[y] > 0 /\ copies[y] \in Nat
      BY <1>1, <1>3, <2>3 DEF OkOK, SeedRequest, SessionRow
    <3>2. \A y \in job'[v].owed : y \in job[v].owed /\ y \notin gone
      BY <1>10, <2>3
    <3>3. \A y \in job'[v].owed : copies'[y] > 0
      BY <1>6, <1>7, <3>1, <3>2
    <3> QED BY <1>10, <2>3, <3>3 DEF OkOK, RunOK
  <2>4. CASE v # w /\ job[v].pc \notin {"run", "ok"}
    BY <1>10, <2>4 DEF OkOK, RunOK
  <2> QED BY <2>1, <2>2, <2>3, <2>4
<1>18. ASSUME NEW v \in Workers, v # w, job[v].pc = "run"
       PROVE  /\ \A x \in Things : Single(x) /\ x \in job[v].new => copies'[x] = job[v].gone[x]
              /\ mixed = {} => Ready(job[v], copies')
  <2>1. /\ \A x \in Things : /\ job[v].gone[x] \in Nat /\ job[v].gone[x] <= copies[x]
                             /\ job[v].gone[x] = 0 \/ t.gone[x] = 0
                             /\ Single(x) => x \notin job[v].new \/ x \notin t.new
    BY <1>1, <1>2, <1>18, Sessions DEF SessionsApart, IsAt
  <2>2. ASSUME NEW x \in Things, Single(x), x \in job[v].new PROVE copies'[x] = job[v].gone[x]
    <3>1. copies[x] = job[v].gone[x] /\ x \notin t.new
      BY <1>1, <1>18, <2>1, <2>2 DEF FirstOfAKind, IsAt
    <3>2. t.gone[x] = 0
      BY <1>3, <2>1, <3>1
    <3> QED BY <1>3, <1>6, <3>1, <3>2
  <2>3. ASSUME mixed = {} PROVE Ready(job[v], copies')
    <3>1. Ready(job[v], copies) /\ \A u1, u2 \in Workers : FillsAll(u1) /\ FillsAll(u2) => u1 = u2
      BY <1>18, <2>3 DEF SeedInv, Alone, IsAt
    <3> SUFFICES ASSUME NEW i \in 1 .. Len(job[v].todo), job[v].todo[i][1] = "insert"
                 PROVE  \/ copies'[Bundle] = job[v].gone[Bundle] /\ Bundle \notin job[v].new
                        \/ \E k \in 1 .. i - 1 : Clears(job[v].todo, k)
      BY DEF Ready
    <3>2. job[v].cmd = "reset"
      <4>1. job[v].todo[i] \in Lawful(job[v].cmd, job[v].names[1])
        BY <1>18, Sessions, ElementOfSeq
      <4> QED BY <4>1 DEF Lawful
    <3>3. t.cmd \notin Big
      BY <1>2, <1>18, <3>1, <3>2 DEF FillsAll, Big, IsAt
    <3>4. t.gone[Bundle] = 0 /\ Bundle \notin t.new
      BY <1>2, <3>3, DeletesLittle
    <3>5. copies'[Bundle] = copies[Bundle]
      BY <1>3, <1>6, <3>4, ThingsApart
    <3> QED BY <3>1, <3>5 DEF Ready
  <2> QED BY <2>2, <2>3
<1>19. ASSUME mixed = {} PROVE Ready(r, copies')
  <2>1. Ready(t, copies)
    BY <1>2, <1>19 DEF SeedInv, Alone, IsAt
  <2>2. Bundle \in Things
    BY ThingsApart
  <2>3. copies[Bundle] = t.gone[Bundle] /\ Bundle \notin t.new => copies'[Bundle] = r.gone[Bundle]
    BY <1>3, <1>6, <1>9, <2>2
  <2>4. PICK d : d = copies'
    OBVIOUS
  <2>5. Ready(r, d)
    <3>1. ~Clears(t.todo, 1) /\ (Bundle \in r.new => Bundle \in t.new)
      BY <1>5, <1>9 DEF Clears
    <3>2. copies[Bundle] = t.gone[Bundle] /\ Bundle \notin t.new => d[Bundle] = r.gone[Bundle]
      BY <2>3, <2>4
    <3> QED BY <1>2, <1>3, <1>9, <2>1, <3>1, <3>2, StillReady
  <2> QED BY <2>4, <2>5
<1>20. ASSUME NEW v \in Workers, job'[v].pc = "run"
       PROVE  /\ job[v].pc = "run" /\ job'[v].cmd = job[v].cmd /\ job'[v].new \subseteq job[v].new
              /\ \A x \in Things : job'[v].gone[x] = 0 \/ job'[v].gone[x] = job[v].gone[x]
              /\ \A x \in Things : Single(x) /\ x \in job'[v].new => copies'[x] = job'[v].gone[x]
              /\ mixed = {} => Ready(job'[v], copies')
  <2>1. CASE v = w
    BY <1>2, <1>9, <1>10, <1>19, <2>1 DEF Follows
  <2>2. CASE v # w
    <3>1. job[v].pc = "run" /\ Learns(job'[v], job[v])
      BY <1>10, <1>20, <2>2
    <3>2. /\ \A x \in Things : Single(x) /\ x \in job[v].new => copies'[x] = job[v].gone[x]
          /\ mixed = {} => Ready(job[v], copies')
      BY <1>18, <2>2, <3>1
    <3> QED BY <3>1, <3>2 DEF Learns, Ready
  <2> QED BY <2>1, <2>2
<1> QED BY <1>2, <1>10, <1>11, <1>13, <1>14, <1>17, <1>20, RowsChange

-----------------------------------------------------------------------------
\* The settings are a file: what is written is there at once.
LEMMA FileKeeps ==
    ASSUME SeedInv, scene = "seed", NEW w \in Workers, WriteFile(w)
    PROVE  SeedInv'
<1> DEFINE t == job[w]
           SettingsFile == <<"core", "settings">>
           O == {x \in Subject(w) : Sees(w, x) \/ Absent(w, {x}) # {}}
<1>1. /\ copies \in [Things -> Nat] /\ own \subseteq Things /\ mixed \in {{}, Named}
      /\ edited \subseteq Of({"tax", "country", "plan", "settings"}) /\ EditsSurvive
      /\ job \in [Workers -> SeedRequest] /\ OneOfEach /\ FirstOfAKind /\ Truthful
      /\ \A v \in Workers : RunOK(job[v], copies) /\ OkOK(job[v], copies)
    BY DEF SeedInv, SeedTyped
<1>2. /\ t.pc = "run" /\ t.todo # <<>> /\ ~t.broken /\ Head(t.todo)[1] = "file"
      /\ copies' = [x \in Things |-> IF x \in Subject(w) THEN 1 ELSE copies[x]]
      /\ own' = own \ Subject(w) /\ edited' = edited /\ mixed' = mixed
      /\ job' = [job EXCEPT ![w] = Stepped(w)]
    BY DEF WriteFile, At, Running, IsAt, Go
<1>3. /\ t \in SessionRow /\ RunOK(t, copies) /\ Head(t.todo) = t.todo[1]
      /\ \A x \in Things : copies[x] \in Nat /\ t.gone[x] \in Nat /\ t.gone[x] <= copies[x]
    BY <1>2, Sessions
<1>4. Disciplined(t) /\ Within(t, copies)
    BY <1>2, <1>3 DEF RunOK
<1>5. /\ t.todo[1] \in Lawful(t.cmd, t.names[1]) /\ t.todo[1][1] = "file" /\ t.todo[1][2] = {SettingsFile}
      /\ Tail(t.todo) \in Seq(Statement)
  <2>1. PICK todo, L : todo = t.todo /\ L = Lawful(t.cmd, t.names[1])
    OBVIOUS
  <2>2. todo \in Seq(L) /\ todo # <<>> /\ Ordered(todo) /\ Closed(todo) /\ todo[1][1] = "file"
    BY <1>2, <1>3, <1>4, <2>1 DEF Disciplined
  <2>3. todo[1] \in L /\ Tail(todo) \in Seq(L)
    BY <2>2, Onward
  <2>4. L \subseteq Statement
    BY <2>1 DEF Lawful
  <2>5. Tail(todo) \in Seq(Statement)
    BY <2>3, <2>4, SeqMonotonic
  <2>6. todo[1][2] = {SettingsFile}
    BY <2>1, <2>2, <2>3 DEF Lawful, Of
  <2> QED BY <2>1, <2>2, <2>3, <2>5, <2>6
<1>6. Subject(w) = {SettingsFile}
    BY <1>3, <1>5 DEF Subject
<1>7. /\ SettingsFile \in Things /\ SettingsFile \in Foreign /\ SettingsFile # Bundle /\ SettingsFile \notin Cleared
      /\ SettingsFile \in Of(Core) /\ Bundle \in Things
    BY ThingsApart
<1>8. /\ copies' \in [Things -> Nat]
      /\ \A x \in Things : copies'[x] = IF x = SettingsFile THEN 1 ELSE copies[x]
    BY <1>1, <1>2, <1>6
<1>9. PICK r : r = Stepped(w)
    OBVIOUS
<1>10. /\ r \in SessionRow /\ Follows(r, t) /\ r.gone = t.gone /\ r.new = t.new /\ r.changed = t.changed
       /\ r.owed = t.owed \cup O
  <2>1. O \subseteq Things
    BY <1>6, <1>7
  <2>2. r = [t EXCEPT !.todo = Tail(@), !.owed = @ \cup O]
    BY <1>9 DEF Stepped
  <2>3. t.pc = "run"
    BY <1>2
  <2> HIDE DEF O, t
  <2> QED BY <1>3, <1>5, <2>1, <2>2, <2>3 DEF SessionRow, Follows
<1>11. job' \in [Workers -> SeedRequest] /\ job'[w] = r /\ \A v \in Workers : v # w => job'[v] = job[v]
  <2>1. r \in SeedRequest
    BY <1>10 DEF SeedRequest
  <2> QED BY <1>1, <1>2, <1>9, <2>1
<1> HIDE DEF O
<1>12. O \subseteq {SettingsFile}
    BY <1>6 DEF O
<1>13. ASSUME NEW v \in Workers, job[v].pc = "run"
       PROVE  /\ job[v] \in SessionRow /\ Within(job[v], copies')
              /\ \A x \in Things : /\ job[v].gone[x] <= copies'[x]
                                   /\ There(job[v], copies, x) => There(job[v], copies', x)
  <2>1. /\ job[v] \in SessionRow
        /\ \A x \in Things : /\ job[v].gone[x] \in Nat /\ copies[x] \in Nat /\ job[v].gone[x] <= copies[x]
    BY <1>13, Sessions
  <2>2. job[v].gone[SettingsFile] = 0
    BY <1>13, DeletesLittle
  <2>3. \A x \in Things : /\ job[v].gone[x] <= copies'[x]
                          /\ There(job[v], copies, x) => There(job[v], copies', x)
    BY <1>8, <2>1, <2>2 DEF There
  <2>4. Within(job[v], copies)
    BY <1>1, <1>13 DEF RunOK
  <2> QED BY <2>1, <2>3, <2>4 DEF Within
<1>14. RunOK(r, copies') /\ OkOK(r, copies')
  <2>1. PICK d, A, C : d = copies' /\ A = {} /\ C = {}
    OBVIOUS
  <2>2. r \in SeedRequest
    BY <1>10 DEF SeedRequest
  <2>3. \A x \in O : There(r, d, x)
    <3>1. t.gone[SettingsFile] = 0
      BY <1>2, DeletesLittle
    <3> QED BY <1>7, <1>8, <1>10, <1>12, <2>1, <3>1 DEF There
  <2>4. /\ t.todo[1][1] \in {"ensure", "insert", "overwrite", "file"}
        /\ A \subseteq t.todo[1][2] /\ O \subseteq t.todo[1][2] /\ C \subseteq Rewritten
        /\ r.new = t.new \cup A /\ r.changed = t.changed \cup C
        /\ t.todo[1][1] = "file" => A = {}
    BY <1>5, <1>10, <1>12, <2>1
  <2>5. t.todo[1][1] = "ensure" =>
            \A x \in Things : t.todo[1][2] = {x} /\ x # <<"core", "link">> => There(r, d, x)
    BY <1>5
  <2>6. Within(t, d) /\ \A x \in Things : There(t, copies, x) => There(t, d, x)
    BY <1>2, <1>13, <2>1
  <2>7. RunOK(r, d) /\ OkOK(r, d)
    <3> HIDE DEF t
    <3> QED BY <1>2, <1>3, <1>10, <2>2, <2>3, <2>4, <2>5, <2>6, Advances
  <2> QED BY <2>1, <2>7
<1>15. \A p \in Plugins : /\ copies'[Marker(p)] = copies[Marker(p)]
                          /\ \A y \in Data(p) : y \in Things /\ copies'[y] = copies[y]
    BY <1>7, <1>8, ThingsApart
<1>16. ASSUME NEW v \in Workers PROVE RunOK(job'[v], copies') /\ OkOK(job'[v], copies')
  <2>1. CASE v = w
    BY <1>11, <1>14, <2>1
  <2>2. CASE v # w /\ job[v].pc = "run"
    <3>1. PICK q, d : q = job[v] /\ d = copies'
      OBVIOUS
    <3>2. q \in SessionRow /\ Learns(q, job[v]) /\ RunOK(job[v], copies)
      BY <1>1, <1>13, <2>2, <3>1 DEF Learns
    <3>3. /\ \A x \in Things : job[v].gone[x] <= d[x] /\ (There(job[v], copies, x) => There(job[v], d, x))
          /\ \A p \in Plugins : \A y \in Data(p) : There(job[v], copies, y) => There(job[v], d, y)
      BY <1>13, <1>15, <2>2, <3>1
    <3>4. RunOK(q, d) /\ OkOK(q, d)
      BY <3>2, <3>3, OthersGoOn
    <3> QED BY <1>11, <2>2, <3>1, <3>4
  <2>3. CASE v # w /\ job[v].pc = "ok"
    <3>1. \A y \in job[v].owed : y \in Things /\ copies[y] > 0
      BY <1>1, <2>3 DEF OkOK, SeedRequest, SessionRow
    <3>2. \A y \in job[v].owed : copies'[y] > 0
      BY <1>8, <3>1
    <3> QED BY <1>11, <2>3, <3>2 DEF OkOK, RunOK
  <2>4. CASE v # w /\ job[v].pc \notin {"run", "ok"}
    BY <1>11, <2>4 DEF OkOK, RunOK
  <2> QED BY <2>1, <2>2, <2>3, <2>4
<1>17. SeedTyped'
  <2>1. EditsSurvive'
    BY <1>1, <1>2, <1>6 DEF EditsSurvive, Of
  <2> QED BY <1>1, <1>2, <1>8, <2>1 DEF SeedTyped
<1>18. Truthful'
    BY <1>1, <1>15 DEF Truthful
<1>19. OneOfEach'
    BY <1>1, <1>2, <1>8 DEF OneOfEach, Single
<1>20. ASSUME NEW v \in Workers, job'[v].pc = "run"
       PROVE  /\ job[v].pc = "run" /\ job'[v].cmd = job[v].cmd /\ job'[v].new \subseteq job[v].new
              /\ \A x \in Things : job'[v].gone[x] = 0 \/ job'[v].gone[x] = job[v].gone[x]
              /\ \A x \in Things : Single(x) /\ x \in job'[v].new => copies'[x] = job'[v].gone[x]
              /\ mixed = {} => Ready(job'[v], copies')
  <2>1. /\ job[v].pc = "run" /\ job'[v].cmd = job[v].cmd /\ job'[v].new = job[v].new
        /\ job'[v].gone = job[v].gone
    BY <1>2, <1>10, <1>11, <1>20 DEF Follows
  <2>2. ASSUME NEW x \in Things, Single(x), x \in job[v].new PROVE copies'[x] = job[v].gone[x]
    <3>1. Disciplined(job[v])
      BY <1>1, <2>1 DEF RunOK
    <3>2. x # SettingsFile
      BY <1>7, <2>2, <3>1 DEF Disciplined
    <3> QED BY <1>1, <1>8, <2>1, <2>2, <3>2 DEF FirstOfAKind, IsAt
  <2>3. copies'[Bundle] = copies[Bundle]
    BY <1>7, <1>8
  <2>4. ASSUME mixed = {} PROVE Ready(job'[v], copies')
    <3>1. Ready(job[v], copies)
      BY <2>1, <2>4 DEF SeedInv, Alone, IsAt
    <3>2. CASE v # w
      BY <1>11, <2>3, <3>1, <3>2 DEF Ready
    <3>3. CASE v = w
      <4>1. PICK d : d = copies'
        OBVIOUS
      <4>2. /\ ~Clears(t.todo, 1) /\ (Bundle \in r.new => Bundle \in t.new)
            /\ copies[Bundle] = t.gone[Bundle] /\ Bundle \notin t.new => d[Bundle] = r.gone[Bundle]
        BY <1>5, <1>10, <2>3, <4>1 DEF Clears
      <4>3. Ready(r, d)
        BY <1>2, <1>3, <1>10, <3>1, <3>3, <4>2, StillReady
      <4> QED BY <1>11, <3>3, <4>1, <4>3
    <3> QED BY <3>2, <3>3
  <2> QED BY <2>1, <2>2, <2>4
<1> QED BY <1>2, <1>11, <1>16, <1>17, <1>18, <1>19, <1>20, RowsChange

\* What is cleared, with what refers to it, is nobody else's.
LEMMA ClearKeeps ==
    ASSUME SeedInv, scene = "seed", scene' = "seed", NEW w \in Workers, ClearRows(w)
    PROVE  SeedInv'
<1>1. PICK xs : xs = WithCascades(Subject(w))
    OBVIOUS
<1> DEFINE t == job[w]
           gone == [x \in Things |-> IF x \in xs THEN copies[x] ELSE t.gone[x]]
<1>2. /\ t.pc = "run" /\ t.todo # <<>> /\ ~t.broken /\ Head(t.todo)[1] = "clear"
      /\ MayClear(w, xs) /\ UNCHANGED seedingVars
      /\ job' = [job EXCEPT ![w] = [t EXCEPT !.todo = Tail(@), !.new = @ \ xs, !.changed = @ \ xs, !.gone = gone]]
  <2>1. job' = [job EXCEPT ![w] = [job[w] EXCEPT !.todo = Tail(@), !.new = @ \ xs, !.changed = @ \ xs,
                            !.gone = [x \in Things |-> IF x \in xs THEN copies[x] ELSE @[x]]]]
    BY <1>1 DEF ClearRows, Go
  <2> QED BY <1>1, <2>1 DEF ClearRows, At, Running, IsAt
<1>3. /\ t \in SessionRow /\ RunOK(t, copies) /\ Head(t.todo) = t.todo[1]
      /\ \A x \in Things : copies[x] \in Nat /\ t.gone[x] \in Nat /\ t.gone[x] <= copies[x]
    BY <1>2, Sessions
<1>4. Disciplined(t) /\ Within(t, copies)
    BY <1>2, <1>3 DEF RunOK
<1>5. /\ t.todo[1] \in Lawful(t.cmd, t.names[1]) /\ t.todo[1][1] = "clear" /\ t.todo[1][2] = Subject(w)
      /\ t.owed = {} /\ t.new = {} /\ 1 \in 1 .. Len(t.todo)
      /\ Tail(t.todo) \in Seq(Statement) /\ Tail(t.todo) \in Seq(Lawful(t.cmd, t.names[1]))
      /\ Ordered(Tail(t.todo)) /\ Closed(Tail(t.todo))
  <2>1. PICK todo, L : todo = t.todo /\ L = Lawful(t.cmd, t.names[1])
    OBVIOUS
  <2>2. todo \in Seq(L) /\ todo # <<>> /\ Ordered(todo) /\ Closed(todo) /\ todo[1][1] = "clear"
    BY <1>2, <1>3, <1>4, <2>1 DEF Disciplined
  <2>3. /\ todo[1] \in L /\ Tail(todo) \in Seq(L) /\ Ordered(Tail(todo)) /\ Closed(Tail(todo))
        /\ 1 \in 1 .. Len(todo)
    BY <2>2, Onward
  <2>4. L \subseteq Statement
    BY <2>1 DEF Lawful
  <2>5. Tail(todo) \in Seq(Statement)
    BY <2>3, <2>4, SeqMonotonic
  <2>6. t.owed = {} /\ t.new = {}
    BY <1>2, <1>3, <1>4 DEF Disciplined
  <2>7. todo[1][2] = Subject(w)
    BY <1>3, <2>1 DEF Subject
  <2> QED BY <2>1, <2>2, <2>3, <2>5, <2>6, <2>7
<1>6. /\ Subject(w) \subseteq Cleared /\ (Subject(w) \cap Named # {} => t.cmd = "reset")
    BY <1>5 DEF Lawful
<1>7. /\ xs \subseteq Cleared /\ Subject(w) \subseteq xs /\ xs \cap Named \subseteq Subject(w)
  <2>1. Subject(w) \in SUBSET Cleared
    BY <1>6
  <2> QED BY <1>1, <2>1, CascadesAreCleared
<1>8. PICK r : r = [t EXCEPT !.todo = Tail(@), !.new = @ \ xs, !.changed = @ \ xs, !.gone = gone]
    OBVIOUS
<1>9. /\ r \in SessionRow /\ Follows(r, t) /\ r.new = {} /\ r.owed = {} /\ r.changed \subseteq t.changed
      /\ \A x \in Things : r.gone[x] = IF x \in xs THEN copies[x] ELSE t.gone[x]
  <2>1. gone \in [Things -> Nat]
    BY <1>3
  <2>2. t.pc = "run"
    BY <1>2
  <2>3. \A x \in Things : gone[x] = IF x \in xs THEN copies[x] ELSE t.gone[x]
    OBVIOUS
  <2> HIDE DEF t, gone
  <2> QED BY <1>3, <1>5, <1>8, <2>1, <2>2, <2>3 DEF SessionRow, Follows
<1> HIDE DEF gone
<1>10. Disciplined(r)
  <2>1. r.changed \subseteq Rewritten
    BY <1>4, <1>9 DEF Disciplined
  <2> QED BY <1>4, <1>5, <1>9, <2>1 DEF Disciplined, Follows
<1>11. Within(r, copies)
  <2> SUFFICES ASSUME NEW x \in Things
               PROVE  /\ r.gone[x] <= copies[x]
                      /\ r.gone[x] > 0 => x \in Cleared /\ (x \in Named => r.cmd = "reset")
    BY DEF Within
  <2>1. CASE x \in xs
    BY <1>3, <1>6, <1>7, <1>9, <2>1 DEF Follows
  <2>2. CASE x \notin xs
    BY <1>4, <1>9, <2>2 DEF Follows, Within
  <2> QED BY <2>1, <2>2
<1>12. Supplied(r, copies)
  <2>1. \A p \in Plugins : \A y \in Data(p) : y \in Things /\ y \notin xs
    BY <1>7, ThingsApart
  <2>2. \A p \in Plugins : \A y \in Data(p) :
          /\ There(t, copies, y) => There(r, copies, y)
          /\ t.todo[1] = <<"ensure", {y}>> => There(r, copies, y)
    BY <1>5, <1>9, <2>1 DEF There
  <2>3. \A p \in Plugins : Marker(p) \in r.new \ t.new => t.todo[1][1] = "ensure" /\ Marker(p) \in t.todo[1][2]
    BY <1>9
  <2> QED BY <1>2, <1>3, <1>9, <2>2, <2>3, StillSupplied
<1>13. RunOK(r, copies) /\ OkOK(r, copies) /\ r.pc = "run" /\ r \in SeedRequest
    BY <1>9, <1>10, <1>11, <1>12 DEF RunOK, OkOK, Due, SessionRow, SeedRequest
<1>14. ASSUME NEW x \in Things
       PROVE  /\ \A v \in Others(w) : /\ job[v].gone[x] = 0 \/ r.gone[x] = 0
                                      /\ Single(x) => x \notin job[v].new \/ x \notin r.new
              /\ Single(x) /\ x \in r.new => copies[x] = r.gone[x]
  <2>1. ASSUME NEW v \in Others(w) PROVE job[v].gone[x] = 0 \/ r.gone[x] = 0
    <3>1. v \in Workers /\ v # w /\ job[v].pc = "run"
      BY DEF Others, Running, IsAt
    <3>2. job[v].gone[x] \in Nat
      BY <3>1, Sessions
    <3>3. CASE x \in xs
      <4>1. ~(job[v].gone[x] > 0)
        BY <1>2, <3>3 DEF MayClear, Holding
      <4> QED BY <3>2, <4>1
    <3>4. CASE x \notin xs
      BY <1>2, <1>9, <3>1, <3>4 DEF SeedInv, SessionsApart, IsAt
    <3> QED BY <3>3, <3>4
  <2> QED BY <1>9, <2>1
<1>15. ASSUME mixed' = {} PROVE Ready(r, copies) /\ (r.cmd \in Big => \A v \in Others(w) : ~FillsAll(v))
  <2>1. mixed = {}
    BY <1>2, <1>15 DEF seedingVars
  <2>2. Ready(t, copies) /\ \A u, v \in Workers : FillsAll(u) /\ FillsAll(v) => u = v
    BY <1>2, <2>1 DEF SeedInv, Alone, IsAt
  <2>3. Bundle \in Things
    BY ThingsApart
  <2>4. Clears(t.todo, 1) => Bundle \in xs
    BY <1>5, <1>7 DEF Clears
  <2>5. /\ Bundle \in r.new => Bundle \in t.new
        /\ copies[Bundle] = t.gone[Bundle] /\ Bundle \notin t.new => copies[Bundle] = r.gone[Bundle]
        /\ Clears(t.todo, 1) => copies[Bundle] = r.gone[Bundle] /\ Bundle \notin r.new
    BY <1>9, <2>3, <2>4
  <2>6. Ready(r, copies)
    BY <1>2, <1>3, <1>9, <2>2, <2>5, StillReady
  <2>7. r.cmd \in Big => FillsAll(w)
    BY <1>2, <1>9 DEF FillsAll, IsAt, Follows
  <2>8. \A v \in Others(w) : v \in Workers /\ v # w
    BY DEF Others
  <2> QED BY <2>2, <2>6, <2>7, <2>8
<1>16. UNCHANGED <<copies, own, edited>> /\ mixed' = mixed /\ job' = [job EXCEPT ![w] = r]
    BY <1>2, <1>8 DEF seedingVars
<1> QED BY <1>13, <1>14, <1>15, <1>16, OwnStep

-----------------------------------------------------------------------------
\* The next plugin, the end, or a plugin that failed.  What is not owed any more
\* is what the session has not committed.
LEMMA FinishKeeps ==
    ASSUME SeedInv, scene = "seed", scene' = "seed", NEW w \in Workers, Finish(w)
    PROVE  SeedInv'
<1> DEFINE t == job[w]
<1>1. t.pc = "run" /\ t.todo = <<>> /\ UNCHANGED seedingVars
    BY DEF Finish, Running, IsAt
<1>2. /\ t \in SessionRow /\ RunOK(t, copies)
      /\ \A x \in Things : copies[x] \in Nat /\ t.gone[x] \in Nat /\ t.gone[x] <= copies[x]
    BY <1>1, Sessions
<1>3. Disciplined(t) /\ Within(t, copies) /\ Due(t, copies) /\ Supplied(t, copies)
    BY <1>1, <1>2 DEF RunOK
<1>4. t.owed \cap t.new = {} /\ t.owed \subseteq Things
    BY <1>1, <1>2, <1>3 DEF Disciplined, SessionRow
<1>5. UNCHANGED <<copies, own, edited>> /\ mixed' = mixed
    BY <1>1 DEF seedingVars
<1>6. CASE Len(t.names) > 1
  <2>1. t.cmd = "seed" /\ t.names \in Seq(Plugins)
    <3>1. NamesOf(t.cmd, t.names)
      BY <1>3 DEF Disciplined
    <3>2. Len(t.names) # 1
      <4>1. PICK names \in Seq(Plugins \cup {"core"}) : names = t.names
        BY <1>2 DEF SessionRow
      <4>2. Len(names) \in Nat /\ Len(names) > 1
        BY <1>6, <4>1
      <4>3. Len(names) # 1
        <5>1. \A n \in Nat : n > 1 => n # 1
          OBVIOUS
        <5> QED BY <4>2, <5>1
      <4> QED BY <4>1, <4>3
    <3> QED BY <3>1, <3>2 DEF NamesOf
  <2>2. PICK ns : ns = Tail(t.names)
    OBVIOUS
  <2>3. ns \in Seq(Plugins) /\ ns \in Seq(Plugins \cup {"core"}) /\ ns # <<>> /\ ns[1] = t.names[2] /\ ns[1] \in Plugins
    <3>1. PICK names \in Seq(Plugins) : names = t.names
      BY <2>1
    <3>2. Len(names) \in Nat /\ Len(names) > 1 /\ names # <<>>
      BY <1>6, <3>1
    <3>3. Tail(names) \in Seq(Plugins) /\ Len(Tail(names)) = Len(names) - 1
          /\ \A i \in 1 .. Len(Tail(names)) : Tail(names)[i] = names[i + 1]
      BY <3>2, HeadTailProperties
    <3>4. 1 \in 1 .. Len(Tail(names)) /\ Tail(names)[1] = names[2] /\ Tail(names) # <<>>
      <4>1. PICK rest : rest = Tail(names)
        OBVIOUS
      <4>2. Len(rest) \in Nat \ {0} /\ 1 \in 1 .. Len(rest)
        <5>1. PICK m \in Nat : m = Len(names) /\ m > 1
          BY <3>2
        <5>2. Len(rest) = m - 1
          BY <3>3, <4>1, <5>1
        <5> QED BY <5>1, <5>2
      <4>3. rest \in Seq(Plugins) /\ rest[1] = names[1 + 1]
        BY <3>3, <4>1, <4>2
      <4>4. rest # <<>> /\ 1 + 1 = 2
        BY <4>2, <4>3, EmptySeq
      <4> QED BY <4>1, <4>2, <4>3, <4>4
    <3>5. Tail(names)[1] \in Plugins
      BY <3>3, <3>4, ElementOfSeq
    <3>6. Tail(names) \in Seq(Plugins \cup {"core"})
      BY <3>3, SeqMonotonic
    <3> QED BY <2>2, <3>1, <3>3, <3>4, <3>5, <3>6
  <2>4. PICK todo : todo = SeedPlugin(t.names[2])
    OBVIOUS
  <2>5. /\ todo \in Seq(Lawful("seed", ns[1])) /\ todo # <<>> /\ Ordered(todo) /\ Closed(todo)
        /\ Backed(todo) /\ Prepared(todo) /\ todo[1][1] # "clear"
    BY <2>3, <2>4, PluginScripts
  <2>6. todo \in Seq(Statement)
    BY <2>5, SeqMonotonic DEF Lawful
  <2>7. PICK r : r = [t EXCEPT !.names = ns, !.todo = todo]
    OBVIOUS
  <2>8. /\ r \in SessionRow /\ r \in SeedRequest /\ r.pc = "run" /\ r.cmd = "seed" /\ r.names = ns /\ r.todo = todo
        /\ r.new = t.new /\ r.gone = t.gone /\ r.changed = t.changed /\ r.owed = t.owed /\ r.lost = t.lost
        /\ r.broken = t.broken
    <3>1. t.cmd = "seed" /\ t.pc = "run"
      BY <1>1, <2>1
    <3> HIDE DEF t
    <3> QED BY <1>2, <2>3, <2>6, <2>7, <3>1 DEF SessionRow, SeedRequest
  <2>9. job' = [job EXCEPT ![w] = r]
    <3>1. job' = [job EXCEPT ![w] = [job[w] EXCEPT !.names = Tail(@), !.todo = SeedPlugin(job[w].names[2])]]
      BY <1>6 DEF Finish, Go
    <3> QED BY <2>2, <2>4, <2>7, <3>1
  <2>10. Disciplined(r)
    BY <1>3, <1>4, <2>1, <2>3, <2>5, <2>8 DEF Disciplined, NamesOf
  <2>11. Within(r, copies)
    BY <1>3, <2>1, <2>8 DEF Within
  <2>12. \A x : There(r, copies, x) = There(t, copies, x)
    BY <2>8 DEF There
  <2>13. Due(r, copies)
    BY <1>3, <2>8, <2>12 DEF Due
  <2>14. Supplied(r, copies)
    BY <1>3, <2>5, <2>8, <2>12 DEF Supplied, Backed
  <2>15. RunOK(r, copies) /\ OkOK(r, copies)
    BY <2>8, <2>10, <2>11, <2>13, <2>14 DEF RunOK, OkOK
  <2>16. \A x \in Things :
            /\ \A v \in Others(w) : /\ job[v].gone[x] = 0 \/ r.gone[x] = 0
                                    /\ Single(x) => x \notin job[v].new \/ x \notin r.new
            /\ Single(x) /\ x \in r.new => copies[x] = r.gone[x]
    BY <1>1, <2>8 DEF SeedInv, SessionsApart, FirstOfAKind, Others, Running, IsAt
  <2>17. Ready(r, copies) /\ r.cmd \notin Big
    BY <2>5, <2>8 DEF Ready, Prepared, Big
  <2> QED BY <1>5, <2>8, <2>9, <2>15, <2>16, <2>17, OwnStep
<1>7. CASE ~(Len(t.names) > 1)
  <2>1. PICK r : r = [pc |-> "ok", cmd |-> t.cmd, owed |-> t.owed \ t.lost]
    OBVIOUS
  <2>2. r.pc = "ok" /\ r.owed = t.owed \ t.lost /\ r \in SeedRequest
    <3>1. t.cmd \in Commands
      BY <1>2 DEF SessionRow
    <3> QED BY <1>4, <2>1, <3>1 DEF SeedRequest
  <2>3. job' = [job EXCEPT ![w] = r]
    BY <1>7, <2>1 DEF Finish, Go
  <2>4. \A x \in r.owed : copies[x] > 0
    <3> SUFFICES ASSUME NEW x \in r.owed PROVE copies[x] > 0
      OBVIOUS
    <3>1. x \in Things /\ There(t, copies, x) /\ x \notin t.new
      BY <1>3, <1>4, <2>2 DEF Due
    <3> QED BY <1>2, <3>1 DEF There
  <2>5. RunOK(r, copies) /\ OkOK(r, copies)
    BY <2>2, <2>4 DEF RunOK, OkOK
  <2> QED BY <1>5, <2>2, <2>3, <2>5, OwnStep
<1> QED BY <1>6, <1>7

LEMMA FailureKeeps ==
    ASSUME SeedInv, scene = "seed", scene' = "seed", NEW w \in Workers, FailPlugin(w), ~Done(w)
    PROVE  SeedInv'
<1> DEFINE t == job[w]
<1>1. t.pc = "run" /\ t.cmd = "seed" /\ UNCHANGED seedingVars
    BY DEF FailPlugin, Running, IsAt
<1>2. PICK broken \in BOOLEAN :
        /\ job[w].broken => broken
        /\ Go(w, [job[w] EXCEPT !.todo = <<>>, !.broken = broken,
                                !.owed = {x \in @ : x[1] # Head(job[w].names)},
                                !.new = IF broken THEN {} ELSE @])
    BY DEF FailPlugin
<1>3. /\ t \in SessionRow /\ RunOK(t, copies)
    BY <1>1, Sessions
<1>4. Disciplined(t) /\ Within(t, copies) /\ Due(t, copies) /\ Supplied(t, copies)
    BY <1>1, <1>3 DEF RunOK
<1>5. Head(t.names) = t.names[1] /\ \A x \in t.owed \cap t.new : x[1] = t.names[1]
  <2>1. PICK names \in Seq(Plugins) : names = t.names
    BY <1>1, <1>4 DEF Disciplined, NamesOf
  <2> QED BY <1>1, <1>4, <2>1 DEF Disciplined
<1>6. PICK owed, new : /\ owed = {x \in t.owed : x[1] # Head(t.names)}
                       /\ new = IF broken THEN {} ELSE t.new
    OBVIOUS
<1>7. owed \subseteq t.owed /\ owed \cap t.new = {} /\ new \subseteq t.new /\ (broken => new = {})
      /\ (~broken => new = t.new)
    BY <1>5, <1>6
<1>8. PICK r : r = [t EXCEPT !.todo = <<>>, !.broken = broken, !.owed = owed, !.new = new]
    OBVIOUS
<1>9. /\ r \in SessionRow /\ r \in SeedRequest /\ r.pc = "run" /\ r.cmd = t.cmd /\ r.names = t.names /\ r.todo = <<>>
      /\ r.new = new /\ r.gone = t.gone /\ r.changed = t.changed /\ r.owed = owed /\ r.lost = t.lost
      /\ r.broken = broken
  <2>1. t.pc = "run" /\ new \subseteq Things /\ owed \subseteq Things /\ <<>> \in Seq(Statement)
    BY <1>1, <1>3, <1>7 DEF SessionRow
  <2> HIDE DEF t
  <2> QED BY <1>3, <1>8, <2>1 DEF SessionRow, SeedRequest
<1>10. job' = [job EXCEPT ![w] = r]
    BY <1>2, <1>6, <1>8 DEF Go
<1>11. Disciplined(r)
  <2>1. <<>> \in Seq(Lawful(r.cmd, r.names[1])) /\ Ordered(<<>>) /\ Closed(<<>>)
    BY DEF Ordered, Closed
  <2> QED BY <1>4, <1>7, <1>9, <2>1 DEF Disciplined
<1>12. Within(r, copies)
    BY <1>4, <1>9 DEF Within
<1>13. Due(r, copies)
    BY <1>4, <1>7, <1>9 DEF Due, There
<1>14. Supplied(r, copies)
  <2>1. Len(r.todo) = 0
    BY <1>9
  <2>2. \A p \in Plugins : \A y \in Data(p) : Marker(p) \in r.new => There(r, copies, y)
    BY <1>4, <1>7, <1>9 DEF Supplied, There
  <2> QED BY <2>1, <2>2 DEF Supplied
<1>15. RunOK(r, copies) /\ OkOK(r, copies)
    BY <1>9, <1>11, <1>12, <1>13, <1>14 DEF RunOK, OkOK
<1>16. \A x \in Things :
          /\ \A v \in Others(w) : /\ job[v].gone[x] = 0 \/ r.gone[x] = 0
                                  /\ Single(x) => x \notin job[v].new \/ x \notin r.new
          /\ Single(x) /\ x \in r.new => copies[x] = r.gone[x]
    BY <1>1, <1>7, <1>9 DEF SeedInv, SessionsApart, FirstOfAKind, Others, Running, IsAt
<1>17. Ready(r, copies) /\ r.cmd \notin Big
  <2>1. Len(r.todo) = 0
    BY <1>9
  <2> QED BY <1>1, <1>9, <2>1 DEF Ready, Big
<1>18. UNCHANGED <<copies, own, edited>> /\ mixed' = mixed
    BY <1>1 DEF seedingVars
<1> QED BY <1>9, <1>10, <1>15, <1>16, <1>17, <1>18, OwnStep

LEMMA SeedStep ==
    ASSUME SeedInv, scene = "seed", scene' = "seed", SeedingNext
    PROVE  SeedInv'
<1>1. ASSUME NEW w \in Workers,
             \/ StartScript(w) \/ StartSeed(w) \/ ResetMarkers(w)
             \/ EnsureRows(w) \/ InsertRows(w) \/ OverwriteRows(w) \/ WriteFile(w) \/ ClearRows(w)
             \/ CommitSession(w) \/ Finish(w) \/ Report(w) \/ Fail(w) \/ FailPlugin(w)
      PROVE  SeedInv'
  <2>1. CASE StartScript(w)
    BY <2>1, ScriptBegins
  <2>2. CASE StartSeed(w) \/ ResetMarkers(w)
    BY <2>2, PluginsBegin
  <2>3. CASE EnsureRows(w) \/ InsertRows(w) \/ OverwriteRows(w)
    BY <2>3, RowsAreBrought
  <2>4. CASE WriteFile(w)
    BY <2>4, FileKeeps
  <2>5. CASE ClearRows(w)
    BY <2>5, ClearKeeps
  <2>6. CASE CommitSession(w)
    BY <2>6, CommitKeeps
  <2>7. CASE Finish(w)
    BY <2>7, FinishKeeps
  <2>8. CASE Report(w) \/ Fail(w)
    BY <2>8, RequestEnds DEF Report, Fail
  <2>9. CASE FailPlugin(w)
    <3>1. CASE Done(w)
      BY <2>9, <3>1, RequestEnds DEF FailPlugin
    <3>2. CASE ~Done(w)
      BY <2>9, <3>2, FailureKeeps
    <3> QED BY <3>1, <3>2
  <2> QED BY <1>1, <2>1, <2>2, <2>3, <2>4, <2>5, <2>6, <2>7, <2>8, <2>9
<1>2. ASSUME EditRow \/ DeleteRow \/ Buy PROVE SeedInv'
    BY <1>2, TouchesKeep
<1> QED BY <1>1, <1>2 DEF SeedingNext

LEMMA SeedInvStep == SeedInv /\ [Next]_vars => SeedInv'
<1> SUFFICES ASSUME SeedInv, [Next]_vars PROVE SeedInv'
    OBVIOUS
<1>1. CASE scene = "seed" /\ SeedingNext /\ scene' = scene
    BY <1>1, SeedStep
<1>2. CASE scene' = scene /\ UNCHANGED seedingVars /\ (scene # "seed" \/ job' = job)
  <2>1. UNCHANGED <<copies, own, edited, mixed>>
    BY <1>2 DEF seedingVars
  <2>2. (SeedTyped /\ Truthful /\ OneOfEach)'
    BY <2>1 DEF SeedInv, SeedTyped, Truthful, OneOfEach, Single, EditsSurvive
  <2>3. CASE scene # "seed"
    BY <1>2, <2>2, <2>3 DEF SeedInv
  <2>4. CASE scene = "seed"
    <3>1. (/\ job \in [Workers -> SeedRequest]
           /\ \A w \in Workers : RunOK(job[w], copies) /\ OkOK(job[w], copies))'
      BY <1>2, <2>1, <2>4 DEF SeedInv
    <3>2. (SessionsApart /\ FirstOfAKind /\ Alone)'
      BY <1>2, <2>1, <2>4 DEF SeedInv, SessionsApart, FirstOfAKind, Alone, Single, FillsAll, IsAt
    <3> QED BY <2>2, <3>1, <3>2 DEF SeedInv
  <2> QED BY <2>3, <2>4
<1>3. CASE UNCHANGED vars
  <2>1. scene' = scene /\ job' = job /\ UNCHANGED seedingVars
    BY <1>3 DEF vars
  <2> QED BY <1>2, <2>1
<1>4. CASE Next
    BY <1>1, <1>2, <1>4 DEF Next
<1> QED BY <1>3, <1>4

LEMMA InitSeed == Init => SeedInv
<1> SUFFICES ASSUME Init PROVE SeedInv
    OBVIOUS
<1>1. PICK there \in {{}, Provides(Install), Provides(Reset) \cup Of({"sale", "ledger", "balance"})} :
        copies = [x \in Things |-> IF x \in there THEN 1 ELSE 0]
    BY DEF Init, SeedingInit
<1>2. own = {} /\ edited = {} /\ mixed = {} /\ job = [w \in Workers |-> Idle]
    BY DEF Init, SeedingInit
<1>3. there \subseteq Of(Core)
  <2>1. \A s : Known(s) /\ s \in Seq(Lawful("reset", "core")) \cup Seq(Lawful("install", "core"))
               => Provides(s) \subseteq Of(Core)
    <3> SUFFICES ASSUME NEW s, Known(s), NEW L \in {Lawful("reset", "core"), Lawful("install", "core")},
                        s \in Seq(L), NEW x \in Provides(s)
                 PROVE  x \in Of(Core)
      OBVIOUS
    <3>1. PICK step \in Range(s) : step[1] # "clear" /\ x \in step[2]
      BY DEF Provides
    <3>2. PICK i \in 1 .. Len(s) : step = s[i]
      BY <3>1 DEF Range
    <3>3. step \in L
      BY <3>2, ElementOfSeq
    <3>4. /\ step[1] \in {"ensure", "insert", "overwrite", "clear", "file", "commit"}
          /\ step[1] = "insert" => step[2] = {Bundle}
          /\ step[1] = "overwrite" => step[2] \subseteq Rewritten
          /\ step[1] = "file" => step[2] = Of({"settings"})
          /\ step[1] = "commit" => step[2] = {}
      BY <3>3 DEF Lawful, Statement
    <3>5. step[1] = "ensure" => step[2] \subseteq Of(Core)
      BY <3>2 DEF Known
    <3>6. Of({"settings"}) \subseteq Of(Core)
      BY DEF Of, Core
    <3> QED BY <3>1, <3>4, <3>5, <3>6, ThingsApart
  <2>2. Script("install", Install) /\ Script("reset", Reset)
    BY PlainCommands, ResetIsScript DEF Scripts
  <2>3. Of({"sale", "ledger", "balance"}) \subseteq Of(Core)
    BY DEF Of, Core
  <2> QED BY <2>1, <2>2, <2>3 DEF Script
<1>4. \A x \in Things : copies[x] \in {0, 1}
    BY <1>1
<1>5. SeedTyped
    BY <1>1, <1>2 DEF SeedTyped, EditsSurvive
<1>6. Truthful
    BY <1>1, <1>3, ThingsApart DEF Truthful
<1>7. OneOfEach
    BY <1>4 DEF OneOfEach
<1>8. Idle.pc = "idle" /\ Idle \in SeedRequest
    BY DEF Idle, SeedRequest
<1>9. job \in [Workers -> SeedRequest] /\ \A w \in Workers : job[w].pc = "idle"
    BY <1>2, <1>8
<1> QED BY <1>5, <1>6, <1>7, <1>9 DEF SeedInv, RunOK, OkOK, SessionsApart, FirstOfAKind, Alone,
           FillsAll, IsAt

\* What a command that ended well got or created is there unless somebody
\* removed it, whoever else fills the database meanwhile, a plugin with a marker
\* has all its data, bundles are there once unless two commands that create them
\* overlapped, and an operator's edits of taxes and countries outlive the
\* commands (demo_seed_service.py, reset_demo_service.py, seeders.py).
THEOREM SeedsStayWhole == Spec => []SeedsAreWhole
<1>1. SeedInv => SeedsAreWhole
  <2> SUFFICES ASSUME SeedInv PROVE SeedsAreWhole
    OBVIOUS
  <2>1. SuccessIsWhole
    BY DEF SuccessIsWhole, SeedInv, OkOK, IsAt
  <2>2. MarkersAreTruthful
    BY DEF MarkersAreTruthful, SeedInv, Truthful, Data
  <2>3. NothingTwice
    BY ThingsApart DEF NothingTwice, SeedInv, SeedTyped, OneOfEach, Single
  <2>4. EditsSurvive
    BY DEF SeedInv, SeedTyped
  <2> QED BY <2>1, <2>2, <2>3, <2>4 DEF SeedsAreWhole
<1> QED BY <1>1, InitSeed, SeedInvStep, PTL DEF Spec

-----------------------------------------------------------------------------
(***************************************************************************)
(* The rows of the database.  Whole is what a deletion keeps of a state of *)
(* the tables, whatever keys the migrations have left: the rows are of the *)
(* part, and no key of a row is without its parent.                        *)
(***************************************************************************)
Whole(db) ==
    /\ db.rows \subseteq part /\ db.link \subseteq {k \in RowKeys : k.opt}
    /\ \A k \in Tied(db) : k.to \in db.rows
    /\ \A k \in db.link : k.from \in db.rows

DatabaseState == [rows : SUBSET part, link : SUBSET {k \in RowKeys : k.opt}, ok : BOOLEAN]

\* What goes with some rows is closed under the keys that own.
LEMMA GoneIsClosed ==
    ASSUME NEW db \in DatabaseState, NEW S
    PROVE  LET gone == WentWith(db, S) IN
           /\ gone \subseteq db.rows /\ S \cap db.rows \subseteq gone
           /\ \A k \in Tied(db) : k.on = "cascade" /\ k.to \in gone => k.from \in gone
<1> DEFINE gone == WentWith(db, S)
           Full(H) == S \cap db.rows \subseteq H /\ Owned(db, H) \subseteq H
<1>1. gone = {t \in db.rows : \A H \in SUBSET db.rows : Full(H) => t \in H}
    BY DEF WentWith
<1>2. gone \subseteq db.rows /\ S \cap db.rows \subseteq gone
    BY <1>1
<1>3. ASSUME NEW k \in Tied(db), k.on = "cascade", k.to \in gone PROVE k.from \in gone
  <2>1. k.from \in db.rows
    BY <1>3 DEF Tied
  <2>2. ASSUME NEW H \in SUBSET db.rows, Full(H) PROVE k.from \in H
    <3>1. k.to \in H
      BY <1>1, <1>3, <2>2
    <3>2. k.from \in Owned(db, H)
      BY <1>3, <3>1 DEF Owned
    <3> QED BY <2>2, <3>2
  <2> QED BY <1>1, <2>1, <2>2
<1> QED BY <1>2, <1>3

LEMMA DeleteIsState ==
    ASSUME NEW db \in DatabaseState, NEW S
    PROVE  Delete(db, S) \in DatabaseState
<1> DEFINE gone == WentWith(db, S)
<1>1. CASE ~db.ok \/ Blocked(db, gone)
    BY <1>1 DEF Delete, DatabaseState
<1>2. CASE ~(~db.ok \/ Blocked(db, gone))
  <2>1. Delete(db, S) = [db EXCEPT !.rows = @ \ gone,
                                   !.link = {k \in @ : k.from \notin gone /\ k.to \notin gone}]
    BY <1>2 DEF Delete
  <2> HIDE DEF gone
  <2> QED BY <2>1 DEF DatabaseState
<1> QED BY <1>1, <1>2

\* A DELETE that the database does not refuse leaves no key without its parent.
LEMMA DeleteKeepsWhole ==
    ASSUME NEW db \in DatabaseState, Whole(db), NEW S, Delete(db, S).ok
    PROVE  /\ db.ok /\ Delete(db, S) \in DatabaseState /\ Whole(Delete(db, S))
           /\ Delete(db, S).rows \subseteq db.rows
<1> DEFINE gone == WentWith(db, S)
           after == Delete(db, S)
<1>1. db.ok /\ ~Blocked(db, gone)
  <2>1. ASSUME ~db.ok \/ Blocked(db, gone) PROVE FALSE
    <3>1. after = [db EXCEPT !.ok = FALSE]
      BY <2>1 DEF Delete
    <3> QED BY <3>1 DEF DatabaseState
  <2> QED BY <2>1
<1>2. /\ after \in DatabaseState /\ after.rows = db.rows \ gone
      /\ after.link = {k \in db.link : k.from \notin gone /\ k.to \notin gone}
  <2>1. after = [db EXCEPT !.rows = @ \ gone,
                           !.link = {k \in @ : k.from \notin gone /\ k.to \notin gone}]
    BY <1>1 DEF Delete
  <2> HIDE DEF gone, after
  <2> QED BY <2>1 DEF DatabaseState
<1> HIDE DEF after
<1>3. ASSUME NEW k \in Tied(after) PROVE k.to \in after.rows
  <2>1. k \in RowKeys /\ k.from \in db.rows \ gone /\ (k.opt => k \in after.link)
    BY <1>2 DEF Tied
  <2>2. k \in Tied(db)
    BY <1>2, <2>1 DEF Tied
  <2>3. k.to \in db.rows
    BY <2>2 DEF Whole
  <2>4. k.to \notin gone
    <3> SUFFICES ASSUME k.to \in gone PROVE FALSE
      OBVIOUS
    <3>1. ~(k.on = "cascade")
      BY <2>1, <2>2, GoneIsClosed
    <3>2. k.on = "null" /\ k.opt
      BY <1>1, <2>1, <2>2, <3>1 DEF Blocked
    <3> QED BY <1>2, <2>1, <3>2
  <2> QED BY <1>2, <2>3, <2>4
<1>4. \A k \in after.link : k.from \in after.rows
    BY <1>2 DEF Whole
<1> QED BY <1>1, <1>2, <1>3, <1>4 DEF Whole, DatabaseState, after

\* The requests of the scene, and the rows.
DeleteRequest ==
         [pc : {"idle"}]
    \cup [pc : {"delete"}, table : part, force : BOOLEAN, seen : SUBSET part, stale : BOOLEAN]

RowsInv ==
    /\ Whole(Database)
    /\ scene = "rows" => job \in [Workers -> DeleteRequest]

\* Whoever loses rows meanwhile is a request still.
LEMMA LosersAreRequests ==
    ASSUME job \in [Workers -> DeleteRequest], NEW gone
    PROVE  Losing(gone) \in [Workers -> DeleteRequest]
<1> SUFFICES ASSUME NEW w \in Workers PROVE Losing(gone)[w] \in DeleteRequest
    BY DEF Losing
<1>1. CASE ~IsAt(w, "delete")
    BY <1>1 DEF Losing
<1>2. CASE IsAt(w, "delete")
  <2>1. job[w] \in [pc : {"delete"}, table : part, force : BOOLEAN, seen : SUBSET part,
                    stale : BOOLEAN]
    BY <1>2 DEF IsAt, DeleteRequest
  <2>2. PICK b \in BOOLEAN :
           b <=> job[w].stale \/ Related(job[w].table) \cap job[w].seen \cap Joins \cap gone # {}
    OBVIOUS
  <2>3. Losing(gone)[w] = [job[w] EXCEPT !.seen = job[w].seen \ gone,
                 !.stale = job[w].stale \/ Related(job[w].table) \cap job[w].seen
                                                \cap Joins \cap gone # {}]
    BY <1>2 DEF Losing
  <2>4. Losing(gone)[w] = [job[w] EXCEPT !.seen = job[w].seen \ gone, !.stale = b]
    BY <2>1, <2>2, <2>3
  <2> QED BY <2>1, <2>4 DEF DeleteRequest
<1> QED BY <1>1, <1>2

LEMMA DatabaseIsState == Whole(Database) => Database \in DatabaseState
BY DEF Database, Whole, DatabaseState

LEMMA RowsStep ==
    ASSUME RowsInv, scene = "rows", UNCHANGED scene, RowsNext
    PROVE  RowsInv'
<1>t. Whole(Database) /\ Database \in DatabaseState /\ job \in [Workers -> DeleteRequest]
    BY DatabaseIsState DEF RowsInv
<1>d. Database.rows = rows /\ Database.link = link
    BY DEF Database
<1>p. ASSUME UNCHANGED part, NEW db \in DatabaseState, Whole(db), rows' = db.rows, link' = db.link
      PROVE  Whole(Database)'
  <2>1. RowKeys' = RowKeys
    BY <1>p DEF RowKeys
  <2>2. Database'.rows = db.rows /\ Database'.link = db.link
    BY <1>p DEF Database
  <2> QED BY <1>p, <2>1, <2>2 DEF Whole, Tied
<1>i. Idle \in DeleteRequest
    BY DEF Idle, DeleteRequest
<1>q. UNCHANGED part => DeleteRequest' = DeleteRequest
    BY DEF DeleteRequest
<1>1. ASSUME NEW w \in Workers, NEW t, NEW force \in BOOLEAN, Find(w, t, force), OnRows PROVE RowsInv'
  <2>1. UNCHANGED <<part, rows, link>> /\ t \in part
    BY <1>1, <1>t, <1>d DEF Find, OnRows, Whole
  <2>2. HangingOn(t) \subseteq part
    BY <1>t, <1>d DEF HangingOn, Tied, Whole
  <2>3. [pc |-> "delete", table |-> t, force |-> force, seen |-> HangingOn(t), stale |-> FALSE]
            \in DeleteRequest
    BY <2>1, <2>2 DEF DeleteRequest
  <2>4. job' \in [Workers -> DeleteRequest]
    BY <1>1, <1>t, <2>3 DEF Find, Begin
  <2> QED BY <1>t, <1>d, <1>p, <1>q, <2>1, <2>4 DEF RowsInv
<1>2. ASSUME NEW w \in Workers,
             \/ FindUser(w) \/ FindBundle(w) \/ FindInvoice(w) \/ FindTax(w) \/ FindRole(w)
             \/ FindLevel(w) \/ FindGroup(w) \/ FindTag(w) \/ FindMethod(w) \/ FindWebhook(w)
      PROVE  RowsInv'
  <2>1. OnRows /\ \E t : \E force \in BOOLEAN : Find(w, t, force)
    BY <1>2 DEF FindUser, FindBundle, FindInvoice, FindTax, FindRole, FindLevel, FindGroup, FindTag,
       FindMethod, FindWebhook
  <2> QED BY <1>1, <2>1
<1>3. ASSUME NEW w \in Workers, DeleteNow(w) PROVE RowsInv'
  <2>1. CASE UNCHANGED <<rows, link>> /\ Done(w)
    <3>1. job' \in [Workers -> DeleteRequest] /\ UNCHANGED part
      BY <1>3, <1>t, <1>i, <2>1 DEF DeleteNow, OnRows, Done
    <3> QED BY <1>t, <1>d, <1>p, <1>q, <2>1, <3>1 DEF RowsInv
  <2>2. CASE ~(UNCHANGED <<rows, link>> /\ Done(w))
    <3>1. PICK db : db = Deleted(job[w])
      OBVIOUS
    <3>2. /\ UNCHANGED part /\ db.ok /\ rows' = db.rows /\ link' = db.link
          /\ job' = [Losing(rows \ db.rows) EXCEPT ![w] = Idle]
      BY <1>3, <2>2, <3>1 DEF DeleteNow, OnRows
    <3>3. db \in DatabaseState /\ Whole(db)
      <4>1. CASE job[w].table = "user"
        BY <1>t, <3>1, <3>2, <4>1, DeleteKeepsWhole DEF Deleted
      <4>2. CASE job[w].table # "user"
        <5>1. PICK first : first = Delete(Database, Related(job[w].table) \cap job[w].seen)
          OBVIOUS
        <5>2. db = Delete(first, {job[w].table})
          BY <3>1, <4>2, <5>1 DEF Deleted
        <5>3. first.ok
          <6> SUFFICES ASSUME ~first.ok PROVE FALSE
            OBVIOUS
          <6>1. db = [first EXCEPT !.ok = FALSE]
            BY <5>2 DEF Delete
          <6>2. first \in DatabaseState
            BY <1>t, <5>1, DeleteIsState
          <6> QED BY <3>2, <6>1, <6>2 DEF DatabaseState
        <5>4. first \in DatabaseState /\ Whole(first)
          BY <1>t, <5>1, <5>3, DeleteKeepsWhole
        <5> QED BY <3>2, <5>2, <5>4, DeleteKeepsWhole
      <4> QED BY <4>1, <4>2
    <3>4. job' \in [Workers -> DeleteRequest]
      BY <1>t, <1>i, <3>2, LosersAreRequests
    <3> QED BY <1>p, <1>q, <3>2, <3>3, <3>4 DEF RowsInv
  <2> QED BY <2>1, <2>2
<1>4. ASSUME NEW t \in part, Detach(t) PROVE RowsInv'
  <2>1. PICK db : db = Delete(Database, {t})
    OBVIOUS
  <2>2. /\ UNCHANGED part /\ db.ok /\ rows' = db.rows /\ link' = db.link
        /\ job' = Losing(rows \ db.rows)
    BY <1>4, <2>1 DEF Detach, OnRows
  <2>3. db \in DatabaseState /\ Whole(db)
    BY <1>t, <2>1, <2>2, DeleteKeepsWhole
  <2>4. job' \in [Workers -> DeleteRequest]
    BY <1>t, <2>2, LosersAreRequests
  <2> QED BY <1>p, <1>q, <2>2, <2>3, <2>4 DEF RowsInv
<1>5. ASSUME NEW t \in part, InsertRow(t) PROVE RowsInv'
  <2>1. PICK chosen \in SUBSET {k \in RowKeys : k.from = t /\ k.opt /\ k.to \in rows} :
           link' = link \cup chosen
    BY <1>5 DEF InsertRow
  <2>2. /\ UNCHANGED <<part, job>> /\ t \in part \ rows /\ rows' = rows \cup {t}
        /\ \A k \in RowKeys : k.from = t /\ ~k.opt => k.to \in rows
    BY <1>5 DEF InsertRow, OnRows
  <2>3. PICK db : db = [rows |-> rows \cup {t}, link |-> link \cup chosen, ok |-> TRUE]
    OBVIOUS
  <2>4. /\ db.rows = rows \cup {t} /\ db.link = link \cup chosen /\ db.ok = TRUE
        /\ rows \subseteq part /\ link \subseteq {k \in RowKeys : k.opt}
        /\ \A k \in link : k.from \in rows
    BY <1>t, <1>d, <2>3 DEF Whole
  <2>5. db \in DatabaseState
    BY <2>2, <2>3, <2>4 DEF DatabaseState
  <2>6. ASSUME NEW k \in Tied(db) PROVE k.to \in db.rows
    <3>1. k \in RowKeys /\ k.from \in rows \cup {t} /\ (k.opt => k \in link \cup chosen)
      BY <2>4 DEF Tied
    <3>2. CASE k.from = t
      BY <2>2, <2>4, <3>1, <3>2
    <3>3. CASE k.from # t
      <4>1. k \in Tied(Database)
        BY <1>d, <3>1, <3>3 DEF Tied
      <4> QED BY <1>t, <1>d, <2>4, <4>1 DEF Whole
    <3> QED BY <3>2, <3>3
  <2>7. Whole(db)
    BY <2>2, <2>4, <2>6 DEF Whole
  <2> QED BY <1>p, <1>q, <1>t, <2>1, <2>2, <2>4, <2>5, <2>7 DEF RowsInv
<1> QED BY <1>2, <1>3, <1>4, <1>5 DEF RowsNext

LEMMA InitRows == Init => RowsInv
<1> SUFFICES ASSUME Init PROVE RowsInv
    OBVIOUS
<1>1. rows = {} /\ link = {} /\ job = [w \in Workers |-> Idle]
    BY DEF Init, RowsInit
<1>2. Idle \in DeleteRequest
    BY DEF Idle, DeleteRequest
<1> QED BY <1>1, <1>2 DEF RowsInv, Whole, Tied, Database

LEMMA RowsInvStep == RowsInv /\ [Next]_vars => RowsInv'
<1> SUFFICES ASSUME RowsInv, [Next]_vars PROVE RowsInv'
    OBVIOUS
<1>1. CASE UNCHANGED <<scene, rowVars>> /\ (scene # "rows" \/ UNCHANGED job)
    BY <1>1 DEF RowsInv, rowVars, Whole, Tied, RowKeys, Database, DeleteRequest
<1>2. CASE UNCHANGED scene /\ scene = "rows" /\ RowsNext
    BY <1>2, RowsStep
<1>3. CASE UNCHANGED vars
    BY <1>1, <1>3 DEF vars
<1> QED BY <1>1, <1>2, <1>3 DEF Next

LEMMA RowsInvServes == RowsInv => RowsTypeOK
<1> SUFFICES ASSUME RowsInv PROVE RowsTypeOK
    OBVIOUS
<1>1. /\ rows \subseteq part /\ link \subseteq {k \in RowKeys : k.opt}
      /\ \A k \in Tied(Database) : k.to \in rows
      /\ \A k \in link : k.from \in rows
    BY DEF RowsInv, Whole, Database
<1>2. scene = "rows" => \A w \in Workers : IsAt(w, "delete") => job[w].seen \subseteq part
    BY DEF RowsInv, DeleteRequest, IsAt
<1> QED BY <1>1, <1>2 DEF RowsTypeOK

\* Whatever keys the migrations leave, and whatever others insert, delete or
\* take away between the look-up and the DELETE of a request: no row is left
\* with a key whose parent is gone, and nobody deletes with rows of another
\* part (ON DELETE of the foreign keys; the delete routes under vbwd/routes/admin).
THEOREM NoKeyDangles == Spec => []RowsTypeOK
BY InitRows, RowsInvStep, RowsInvServes, PTL DEF Spec

-----------------------------------------------------------------------------
(***************************************************************************)
(* What a deletion takes with it and what refuses it.  A request carries   *)
(* what its look-up has checked; what goes with it is in the estate of     *)
(* its table, and EstatesAreSettled says which keys impede it.             *)
(***************************************************************************)
Checked(r) ==
    /\ r.table \in Deletable
    /\ r.table = "user" /\ ~r.force => "user_invoice" \notin r.seen
    /\ r.table = "token_bundle" => "token_bundle_purchase" \notin r.seen
    /\ r.stale => r.table \in {"token_bundle", "admin_role", "access_level"}

DeletionInv ==
    /\ RowsInv /\ part \in Parts /\ DeletionsHold
    /\ scene = "rows" => \A w \in Workers : IsAt(w, "delete") => Checked(job[w])

LEMMA RowKeysAreAtHead ==
    ASSUME part \in Parts
    PROVE  \A k : k \in RowKeys <=> k \in AtHead.keys /\ k.from \in part /\ k.to \in part
BY DEF RowKeys, KeysAmong

LEMMA RelatedAreInTheEstate ==
    ASSUME NEW t \in Deletable
    PROVE  /\ t \in Estate(t) /\ Related(t) \subseteq Estate(t)
           /\ Estate(t) \cap CatalogRows \subseteq {t}
<1>1. LET estate == Estate(t) IN
      {t} \cup Related(t) \subseteq estate /\ estate \cap CatalogRows \subseteq {t}
    BY EstatesAreSettled
<1> QED BY <1>1

LEMMA KeysOfTheEstate ==
    ASSUME NEW t \in Deletable, NEW k \in AtHead.keys, k.to \in Estate(t)
    PROVE  \/ k.on = "cascade" /\ k.from \in Estate(t)
           \/ k.on = "null" /\ k.opt
           \/ k.on # "cascade" /\ Impedes(k, t)
<1>1. LET estate == Estate(t) IN
      \A x \in {y \in AtHead.keys : y.to \in estate} :
         \/ x.on = "cascade" /\ x.from \in estate
         \/ x.on = "null" /\ x.opt
         \/ x.on # "cascade" /\ Impedes(x, t)
    BY EstatesAreSettled
<1> QED BY <1>1

\* Nothing goes but what is in the estate.
LEMMA EstateCloses ==
    ASSUME part \in Parts, NEW t \in Deletable, NEW db \in DatabaseState, NEW S \in SUBSET Estate(t)
    PROVE  WentWith(db, S) \subseteq Estate(t)
<1> DEFINE H == db.rows \cap Estate(t)
<1>1. S \cap db.rows \subseteq H
    OBVIOUS
<1>2. ASSUME NEW k \in Tied(db), k.on = "cascade", k.to \in H PROVE k.from \in H
  <2>1. k \in AtHead.keys /\ k.from \in db.rows
    BY <1>2, RowKeysAreAtHead DEF Tied
  <2> QED BY <1>2, <2>1, KeysOfTheEstate
<1>3. Owned(db, H) \subseteq H
    BY <1>2 DEF Owned
<1>4. H \in SUBSET db.rows
    OBVIOUS
<1> HIDE DEF H
<1>5. WentWith(db, S) \subseteq H
    BY <1>1, <1>3, <1>4 DEF WentWith
<1> QED BY <1>5 DEF H

\* A DELETE that is not refused takes what goes with the rows, and no more.
LEMMA DeleteTakes ==
    ASSUME NEW db \in DatabaseState, NEW S, Delete(db, S).ok
    PROVE  /\ db.ok /\ Delete(db, S) \in DatabaseState
           /\ Delete(db, S).rows = db.rows \ WentWith(db, S)
<1> DEFINE gone == WentWith(db, S)
           after == Delete(db, S)
<1>1. db.ok /\ ~Blocked(db, gone)
  <2>1. ASSUME ~db.ok \/ Blocked(db, gone) PROVE FALSE
    <3>1. after = [db EXCEPT !.ok = FALSE]
      BY <2>1 DEF Delete
    <3> QED BY <3>1 DEF DatabaseState
  <2> QED BY <2>1
<1>2. PICK left, kept : /\ left = db.rows \ gone
                         /\ kept = {k \in db.link : k.from \notin gone /\ k.to \notin gone}
    OBVIOUS
<1>3. after = [db EXCEPT !.rows = left, !.link = kept]
    BY <1>1, <1>2 DEF Delete
<1> HIDE DEF gone, after
<1>4. after.rows = left
    BY <1>3 DEF DatabaseState
<1> QED BY <1>1, <1>2, <1>4, DeleteIsState DEF after, gone

\* One that is refused is impeded.
LEMMA RefusedIsImpeded ==
    ASSUME part \in Parts, NEW t \in Deletable, NEW db \in DatabaseState, db.ok,
           NEW S \in SUBSET Estate(t), ~Delete(db, S).ok
    PROVE  \E k \in Tied(db) : /\ Impedes(k, t) /\ k \in RowKeys /\ k.from \in db.rows
                               /\ k.on = "restrict" \/ k.from \notin WentWith(db, S)
<1> DEFINE gone == WentWith(db, S)
<1>1. Blocked(db, gone)
  <2>1. ASSUME ~Blocked(db, gone) PROVE FALSE
    <3>1. PICK left, kept : left = db.rows \ gone
                            /\ kept = {k \in db.link : k.from \notin gone /\ k.to \notin gone}
      OBVIOUS
    <3>2. Delete(db, S) = [db EXCEPT !.rows = left, !.link = kept]
      BY <2>1, <3>1 DEF Delete
    <3>3. Delete(db, S).ok = db.ok
      BY <3>2 DEF DatabaseState
    <3> QED BY <3>3
  <2> QED BY <2>1
<1>2. PICK k \in Tied(db) :
         /\ k.to \in gone
         /\ \/ k.on = "restrict"
            \/ k.on # "cascade" /\ ~(k.on = "null" /\ k.opt) /\ k.from \notin gone
    BY <1>1 DEF Blocked
<1>3. k \in RowKeys /\ k.from \in db.rows /\ k \in AtHead.keys
    BY RowKeysAreAtHead DEF Tied
<1>4. k.to \in Estate(t)
    BY <1>2, EstateCloses
<1>5. Impedes(k, t)
    BY <1>2, <1>3, <1>4, KeysOfTheEstate
<1> QED BY <1>2, <1>3, <1>5

\* A user is deleted by one statement.
LEMMA UserIsDeleted ==
    ASSUME part \in Parts, Database \in DatabaseState, NEW r, r.table = "user", "user" \in rows
    PROVE  /\ Deleted(r).ok => rows \ Deleted(r).rows \subseteq Estate("user")
           /\ ~Deleted(r).ok => rows \cap (Holders("user") \ DeclaredTables) # {}
<1> DEFINE S == {"user"}
           db == Deleted(r)
           gone == WentWith(Database, S)
<1>t. "user" \in Deletable /\ Database.rows = rows /\ Database.ok
    BY DEF Deletable, Database
<1>s. S \in SUBSET Estate("user")
    BY <1>t, RelatedAreInTheEstate
<1>1. db = Delete(Database, S)
    BY DEF Deleted
<1>2. ASSUME db.ok PROVE rows \ db.rows \subseteq Estate("user")
  <2>1. db.rows = rows \ gone
    BY <1>1, <1>2, <1>t, DeleteTakes
  <2>2. gone \subseteq Estate("user")
    BY <1>t, <1>s, EstateCloses
  <2> QED BY <2>1, <2>2
<1>3. ASSUME ~db.ok PROVE rows \cap (Holders("user") \ DeclaredTables) # {}
  <2>1. PICK k \in Tied(Database) :
           /\ Impedes(k, "user") /\ k \in RowKeys /\ k.from \in rows
           /\ k.on = "restrict" \/ k.from \notin gone
    BY <1>1, <1>3, <1>s, <1>t, RefusedIsImpeded
  <2>2. rows \subseteq part
    BY <1>t DEF DatabaseState
  <2>3. CASE /\ k.from \notin DeclaredTables
             /\ \E x \in AtHead.keys : x.from = k.from /\ x.to = "user" /\ x.on = "nothing"
    <3>1. PICK x \in RowKeys : x.from = k.from /\ x.to = "user" /\ x.on = "nothing"
      BY <2>1, <2>2, <2>3, RowKeysAreAtHead
    <3>2. k.from \in Holders("user")
      BY <3>1 DEF Holders
    <3> QED BY <2>1, <2>3, <3>2
  <2>4. CASE /\ k.on # "restrict"
             /\ \E x \in AtHead.keys :
                   x.from = k.from /\ x.to = "user" /\ x.on = "cascade" /\ ~x.opt
    <3>1. PICK x \in RowKeys : x.from = k.from /\ x.to = "user" /\ x.on = "cascade" /\ ~x.opt
      BY <2>1, <2>2, <2>4, RowKeysAreAtHead
    <3>2. x \in Tied(Database)
      BY <1>t, <2>1, <3>1 DEF Tied
    <3>3. "user" \in gone
      BY <1>t, GoneIsClosed
    <3>4. x.from \in gone
      BY <3>1, <3>2, <3>3, GoneIsClosed
    <3> QED BY <2>1, <2>4, <3>1, <3>4
  <2> QED BY <2>1, <2>3, <2>4 DEF Impedes
<1> QED BY <1>2, <1>3

\* The others go after what the ORM has loaded.
LEMMA RecordIsDeleted ==
    ASSUME part \in Parts, Database \in DatabaseState, NEW r, NEW t \in Deletable, r.table = t,
           t # "user"
    PROVE  /\ Deleted(r).ok => rows \ Deleted(r).rows \subseteq Estate(t)
           /\ ~Deleted(r).ok =>
                \E k \in RowKeys : /\ Impedes(k, t) /\ k.from \in rows
                                   /\ k.on = "restrict" \/ k.from \notin Related(t) \cap r.seen
<1> DEFINE S == Related(t) \cap r.seen
           first == Delete(Database, S)
           db == Delete(first, {t})
<1>t. Database.rows = rows /\ Database.ok
    BY DEF Database
<1>s. S \in SUBSET Estate(t) /\ {t} \in SUBSET Estate(t)
    BY RelatedAreInTheEstate
<1>d. db = Deleted(r)
    BY DEF Deleted
<1>f. first \in DatabaseState
    BY DeleteIsState
<1> HIDE DEF db
<1>1. CASE ~first.ok
  <2>1. ~db.ok
    BY <1>1, <1>f, DeleteTakes DEF db
  <2>2. PICK k \in Tied(Database) :
           /\ Impedes(k, t) /\ k \in RowKeys /\ k.from \in rows
           /\ k.on = "restrict" \/ k.from \notin WentWith(Database, S)
    BY <1>1, <1>s, <1>t, RefusedIsImpeded
  <2>3. S \cap rows \subseteq WentWith(Database, S)
    BY <1>t, GoneIsClosed
  <2> QED BY <1>d, <2>1, <2>2, <2>3
<1>2. CASE first.ok
  <2>1. first.rows = rows \ WentWith(Database, S) /\ WentWith(Database, S) \subseteq Estate(t)
    BY <1>2, <1>s, <1>t, DeleteTakes, EstateCloses
  <2>2. S \cap rows \subseteq WentWith(Database, S)
    BY <1>t, GoneIsClosed
  <2>3. ASSUME db.ok PROVE rows \ db.rows \subseteq Estate(t)
    <3>1. db.rows = first.rows \ WentWith(first, {t}) /\ WentWith(first, {t}) \subseteq Estate(t)
      BY <1>f, <1>s, <2>3, DeleteTakes, EstateCloses DEF db
    <3> QED BY <2>1, <3>1
  <2>4. ASSUME ~db.ok
        PROVE  \E k \in RowKeys : /\ Impedes(k, t) /\ k.from \in rows
                                  /\ k.on = "restrict" \/ k.from \notin S
    <3>1. PICK k \in Tied(first) : Impedes(k, t) /\ k \in RowKeys /\ k.from \in first.rows
      BY <1>2, <1>f, <1>s, <2>4, RefusedIsImpeded DEF db
    <3> QED BY <2>1, <2>2, <3>1
  <2> QED BY <1>d, <2>3, <2>4
<1> QED BY <1>1, <1>2

\* What a deletion came to is what DeletionsHold allows.
LEMMA DeletionEnds ==
    ASSUME DeletionInv, scene = "rows", NEW w \in Workers, DeleteNow(w)
    PROVE  DeletionsHold'
<1>t. /\ part \in Parts /\ Database \in DatabaseState /\ Checked(job[w])
      /\ RowKeys' = RowKeys
    BY DatabaseIsState DEF DeletionInv, RowsInv, DeleteNow, OnRows, RowKeys
<1>h. \A t : Holders(t)' = Holders(t)
    BY <1>t DEF Holders
<1> DEFINE t == job[w].table
           came == rows \ job[w].seen
<1>1. CASE t \notin rows
    BY <1>1 DEF DeleteNow, DeletionsHold
<1>2. CASE t \in rows
  <2>1. PICK r, db : r = job[w] /\ db = Deleted(r)
    OBVIOUS
  <2>2. t \in Deletable /\ rows \subseteq part
    BY <1>t DEF Checked, DatabaseState, Database
  <2>3. db.ok => (rows \ db.rows) \cap CatalogRows \subseteq {t}
    <3>1. db.ok => rows \ db.rows \subseteq Estate(t)
      <4>1. CASE t = "user"
        BY <1>2, <1>t, <2>1, <4>1, UserIsDeleted
      <4>2. CASE t # "user"
        BY <1>t, <2>1, <2>2, <4>2, RecordIsDeleted
      <4> QED BY <4>1, <4>2
    <3> QED BY <2>2, <3>1, RelatedAreInTheEstate
  <2>4. ASSUME t # "user", ~db.ok
        PROVE  \E k \in RowKeys : /\ Impedes(k, t) /\ k.from \in rows
                                  /\ k.on = "restrict" \/ k.from \notin Related(t) \cap r.seen
    BY <1>t, <2>1, <2>2, <2>4, RecordIsDeleted
  <2>5. ASSUME ~db.ok \/ r.stale, t \notin {"user", "tax"}
        PROVE  \/ t = "user_invoice" /\ rows \cap Holders("user_invoice") # {}
               \/ t = "token_bundle" /\ "token_bundle_purchase" \in came
               \/ t \in {"token_bundle", "admin_role", "access_level"}
                  /\ (r.stale \/ came \cap Related(t) # {})
    <3>1. CASE r.stale
      BY <1>t, <2>1, <3>1 DEF Checked
    <3>2. CASE ~db.ok
      <4>1. PICK k \in RowKeys : /\ Impedes(k, t) /\ k.from \in rows
                                 /\ k.on = "restrict" \/ k.from \notin Related(t) \cap r.seen
        BY <2>4, <2>5, <3>2
      <4>2. CASE t = "user_invoice"
        <5>1. k.to = "user_invoice" /\ k.on = "nothing"
          BY <4>1, <4>2 DEF Impedes
        <5>2. k.from \in Holders("user_invoice")
          BY <4>1, <5>1 DEF Holders
        <5> QED BY <4>1, <4>2, <5>2
      <4>3. CASE t = "token_bundle"
        <5>1. k.from = "token_bundle_purchase"
          BY <4>1, <4>3 DEF Impedes
        <5>2. "token_bundle_purchase" \notin r.seen
          BY <1>t, <2>1, <4>3 DEF Checked
        <5> QED BY <2>1, <4>1, <4>3, <5>1, <5>2
      <4>4. CASE t \in {"admin_role", "access_level"}
        <5>1. k.from \in Related(t) /\ k.on # "restrict"
          BY <4>1, <4>4 DEF Impedes
        <5> QED BY <2>1, <4>1, <4>4, <5>1
      <4>5. CASE t \notin {"user_invoice", "token_bundle", "admin_role", "access_level"}
        BY <2>5, <4>1, <4>5 DEF Impedes
      <4> QED BY <4>2, <4>3, <4>4, <4>5
    <3> QED BY <2>5, <3>1, <3>2
  <2>6. ASSUME ~db.ok \/ r.stale, t \in {"user", "tax"}
        PROVE  IF t = "tax" THEN "token_bundle_tax" \in rows
               ELSE rows \cap (Holders("user") \ DeclaredTables) # {}
    <3>1. ~db.ok
      BY <1>t, <2>1, <2>6 DEF Checked
    <3>2. CASE t = "tax"
      <4>1. PICK k \in RowKeys : Impedes(k, t) /\ k.from \in rows
        BY <2>4, <3>1, <3>2
      <4> QED BY <3>2, <4>1 DEF Impedes
    <3>3. CASE t = "user"
      BY <1>2, <1>t, <2>1, <3>1, <3>3, UserIsDeleted
    <3> QED BY <2>6, <3>2, <3>3
  <2>7. t = "user" /\ ~r.force => ("user_invoice" \in rows => "user_invoice" \in came)
    BY <1>t, <2>1 DEF Checked
  <2>8. CASE db.ok /\ ~r.stale
    <3>1. PICK gone : gone = rows \ db.rows
      OBVIOUS
    <3>2. outcome' = [request |-> r, code |-> "done", was |-> rows, gone |-> gone]
      BY <1>2, <2>1, <2>8, <3>1 DEF DeleteNow
    <3>3. /\ outcome'.request = r /\ outcome'.code = "done" /\ outcome'.was = rows
          /\ outcome'.gone = gone
      BY <3>2
    <3> QED BY <2>1, <2>3, <2>7, <2>8, <3>1, <3>3 DEF DeletionsHold
  <2>9. CASE ~(db.ok /\ ~r.stale)
    <3>1. PICK code : code = IF t \in {"user", "tax"} THEN "conflict" ELSE "error"
      OBVIOUS
    <3>2. outcome' = [request |-> r, was |-> rows, gone |-> {}, code |-> code]
      BY <1>2, <2>1, <2>9, <3>1 DEF DeleteNow
    <3>3. /\ outcome'.request = r /\ outcome'.code = code /\ outcome'.was = rows
          /\ outcome'.gone = {}
      BY <3>2
    <3>4. CASE t \in {"user", "tax"}
      <4>1. code = "conflict"
        BY <3>1, <3>4
      <4>2. IF t = "tax" THEN "token_bundle_tax" \in rows
            ELSE rows \cap (Holders("user") \ DeclaredTables) # {}
        BY <2>6, <2>9, <3>4
      <4> QED BY <1>h, <2>1, <3>3, <4>1, <4>2 DEF DeletionsHold
    <3>5. CASE t \notin {"user", "tax"}
      <4>1. code = "error"
        BY <3>1, <3>5
      <4>2. \/ t = "user_invoice" /\ rows \cap Holders("user_invoice") # {}
            \/ t = "token_bundle" /\ "token_bundle_purchase" \in came
            \/ t \in {"token_bundle", "admin_role", "access_level"}
               /\ (r.stale \/ came \cap Related(t) # {})
        BY <2>5, <2>9, <3>5
      <4> QED BY <1>h, <2>1, <3>3, <4>1, <4>2 DEF DeletionsHold
    <3> QED BY <3>4, <3>5
  <2> QED BY <2>8, <2>9
<1> QED BY <1>1, <1>2

\* A request under way is as its look-up left it, or has lost rows since.
LEMMA LosersAreChecked ==
    ASSUME job \in [Workers -> DeleteRequest], NEW gone,
           \A w \in Workers : IsAt(w, "delete") => Checked(job[w]),
           NEW w \in Workers, Losing(gone)[w].pc = "delete"
    PROVE  Checked(Losing(gone)[w])
<1>1. CASE ~IsAt(w, "delete")
    BY <1>1 DEF Losing, IsAt
<1>2. CASE IsAt(w, "delete")
  <2>1. job[w] \in [pc : {"delete"}, table : part, force : BOOLEAN, seen : SUBSET part,
                    stale : BOOLEAN]
    BY <1>2 DEF IsAt, DeleteRequest
  <2>2. PICK b \in BOOLEAN :
           b <=> job[w].stale \/ Related(job[w].table) \cap job[w].seen \cap Joins \cap gone # {}
    OBVIOUS
  <2>3. PICK left : left = job[w].seen \ gone
    OBVIOUS
  <2>4. Losing(gone)[w] = [job[w] EXCEPT !.seen = job[w].seen \ gone,
                 !.stale = job[w].stale \/ Related(job[w].table) \cap job[w].seen
                                                \cap Joins \cap gone # {}]
    BY <1>2 DEF Losing
  <2>5. Losing(gone)[w] = [job[w] EXCEPT !.seen = left, !.stale = b]
    BY <2>1, <2>2, <2>3, <2>4
  <2>6. PICK x : x = Losing(gone)[w]
    OBVIOUS
  <2>7. x.table = job[w].table /\ x.force = job[w].force /\ x.seen = left /\ x.stale = b
    BY <2>1, <2>5, <2>6
  <2>8. Checked(job[w])
    BY <1>2
  <2>9. b => x.table \in {"token_bundle", "admin_role", "access_level"}
    <3>1. CASE job[w].stale
      BY <2>7, <2>8, <3>1 DEF Checked
    <3>2. CASE Related(job[w].table) \cap Joins # {}
      BY <2>7, <2>8, <3>2 DEF Checked, Related, Joins, Deletable, CatalogRows
    <3> QED BY <2>2, <3>1, <3>2
  <2> QED BY <2>3, <2>6, <2>7, <2>8, <2>9 DEF Checked
<1> QED BY <1>1, <1>2

LEMMA DeletionStep ==
    ASSUME DeletionInv, scene = "rows", UNCHANGED scene, RowsNext
    PROVE  DeletionInv'
<1>t. /\ RowsInv /\ part \in Parts /\ DeletionsHold /\ job \in [Workers -> DeleteRequest]
      /\ \A w \in Workers : IsAt(w, "delete") => Checked(job[w])
    BY DEF DeletionInv, RowsInv
<1>p. UNCHANGED part /\ RowsInv'
  <2>1. UNCHANGED part
    BY Zenon DEF RowsNext, FindUser, FindBundle, FindInvoice, FindTax, FindRole, FindLevel, FindGroup,
       FindTag, FindMethod, FindWebhook, DeleteNow, InsertRow, Detach, OnRows
  <2> QED BY <1>t, <2>1, RowsStep
<1>i. Idle.pc # "delete"
    BY DEF Idle
<1>1. ASSUME NEW w \in Workers, NEW t, NEW force \in BOOLEAN, Find(w, t, force), t \in Deletable,
             t = "user" => force \/ "user_invoice" \notin HangingOn("user"),
             t = "token_bundle" => "token_bundle_purchase" \notin HangingOn(t)
      PROVE  DeletionInv'
  <2>1. PICK seen : seen = HangingOn(t)
    OBVIOUS
  <2>2. PICK x : /\ x = [pc |-> "delete", table |-> t, force |-> force, seen |-> seen, stale |-> FALSE]
                 /\ job' = [job EXCEPT ![w] = x]
    BY <1>1, <2>1 DEF Find, Begin
  <2>3. x.table = t /\ x.force = force /\ x.seen = seen /\ ~x.stale
    BY <2>2
  <2>4. Checked(x)
    BY <1>1, <2>1, <2>3 DEF Checked
  <2>5. \A v \in Workers : job'[v] = job[v] \/ job'[v] = x
    BY <1>t, <2>2
  <2>6. \A v \in Workers : job'[v].pc = "delete" => Checked(job'[v])
    BY <1>t, <2>4, <2>5 DEF IsAt
  <2>7. DeletionsHold'
    BY <1>1 DEF Find, DeletionsHold
  <2> QED BY <1>p, <1>t, <2>6, <2>7 DEF DeletionInv, IsAt, Checked
<1>2. ASSUME NEW w \in Workers,
             \/ FindUser(w) \/ FindBundle(w) \/ FindInvoice(w) \/ FindTax(w) \/ FindRole(w)
             \/ FindLevel(w) \/ FindGroup(w) \/ FindTag(w) \/ FindMethod(w) \/ FindWebhook(w)
      PROVE  DeletionInv'
  <2>1. CASE FindUser(w)
    <3>1. PICK force \in BOOLEAN, registered \in BOOLEAN :
             (force \/ Dependencies(registered) = {}) /\ Find(w, "user", force)
      BY <2>1 DEF FindUser
    <3>2. force \/ "user_invoice" \notin HangingOn("user")
      BY <3>1 DEF Dependencies
    <3> QED BY <1>1, <3>1, <3>2 DEF Deletable
  <2>2. CASE FindBundle(w)
    BY <1>1, <2>2 DEF FindBundle, Deletable, CatalogRows
  <2>3. CASE \/ FindInvoice(w) \/ FindTax(w) \/ FindRole(w) \/ FindLevel(w) \/ FindGroup(w)
             \/ FindTag(w) \/ FindMethod(w) \/ FindWebhook(w)
    <3>1. \E t \in Deletable \ {"user", "token_bundle"} : Find(w, t, FALSE)
      BY <2>3 DEF FindInvoice, FindTax, FindRole, FindLevel, FindGroup, FindTag, FindMethod,
         FindWebhook, Deletable, CatalogRows
    <3> QED BY <1>1, <3>1
  <2> QED BY <1>2, <2>1, <2>2, <2>3
<1>3. ASSUME NEW w \in Workers, DeleteNow(w) PROVE DeletionInv'
  <2>1. PICK gone : gone = rows \ Deleted(job[w]).rows
    OBVIOUS
  <2>2. job' = [job EXCEPT ![w] = Idle] \/ job' = [Losing(gone) EXCEPT ![w] = Idle]
    BY <1>3, <2>1 DEF DeleteNow, Done
  <2>3. Losing(gone) \in [Workers -> DeleteRequest]
    BY <1>t, LosersAreRequests
  <2>4. ASSUME NEW v \in Workers, job'[v].pc = "delete" PROVE Checked(job'[v])
    <3>1. job'[v] = job[v] \/ job'[v] = Losing(gone)[v]
      BY <1>i, <1>t, <2>2, <2>3, <2>4
    <3> QED BY <1>t, <2>4, <3>1, LosersAreChecked DEF IsAt
  <2>5. DeletionsHold'
    BY <1>3, DeletionEnds
  <2> QED BY <1>p, <1>t, <2>4, <2>5 DEF DeletionInv, IsAt, Checked
<1>4. ASSUME NEW t \in part, InsertRow(t) \/ Detach(t) PROVE DeletionInv'
  <2>1. outcome' = None
    BY <1>4 DEF InsertRow, Detach
  <2>2. \E gone : job' = job \/ job' = Losing(gone)
    BY <1>4 DEF InsertRow, Detach
  <2>3. ASSUME NEW v \in Workers, job'[v].pc = "delete" PROVE Checked(job'[v])
    BY <1>t, <2>2, <2>3, LosersAreChecked DEF IsAt
  <2>4. DeletionsHold'
    BY <2>1 DEF DeletionsHold
  <2> QED BY <1>p, <1>t, <2>3, <2>4 DEF DeletionInv, IsAt, Checked
<1> QED BY <1>2, <1>3, <1>4 DEF RowsNext

LEMMA DeletionInvStep == DeletionInv /\ [Next]_vars => DeletionInv'
<1> SUFFICES ASSUME DeletionInv, [Next]_vars PROVE DeletionInv'
    OBVIOUS
<1>1. CASE UNCHANGED <<scene, rowVars>> /\ (scene # "rows" \/ UNCHANGED job)
  <2>1. RowsInv'
    BY <1>1 DEF DeletionInv, RowsInv, rowVars, Whole, Tied, RowKeys, Database, DeleteRequest
  <2>2. \A t : Holders(t)' = Holders(t)
    BY <1>1 DEF Holders, RowKeys, rowVars
  <2>3. DeletionsHold'
    BY <1>1, <2>2 DEF DeletionInv, DeletionsHold, rowVars
  <2> QED BY <1>1, <2>1, <2>3 DEF DeletionInv, rowVars, IsAt, Checked
<1>2. CASE UNCHANGED scene /\ scene = "rows" /\ RowsNext
    BY <1>2, DeletionStep
<1>3. CASE UNCHANGED vars
    BY <1>1, <1>3 DEF vars
<1> QED BY <1>1, <1>2, <1>3 DEF Next

\* Whatever tables a part has, and whoever inserts, deletes or takes away while
\* a deletion is between its look-up and its DELETE: it ends in an unhandled
\* error, is refused, or takes rows of others with it only where the code
\* expects it, or where the row came in between (the delete routes under
\* vbwd/routes/admin, user_repository.py).
THEOREM DeletionsStayRight == Spec => []DeletionsHold
<1>1. Init => DeletionInv
  <2>1. ASSUME Init PROVE /\ outcome = None /\ part \in Parts
                          /\ \A w \in Workers : job[w].pc = "idle"
    BY <2>1 DEF Init, RowsInit, Idle
  <2> QED BY <2>1, InitRows DEF DeletionInv, DeletionsHold, IsAt
<1>2. DeletionInv => DeletionsHold
    BY DEF DeletionInv
<1> QED BY <1>1, <1>2, DeletionInvStep, PTL DEF Spec

-----------------------------------------------------------------------------
(***************************************************************************)
(* The tables and keys of the database.  Every revision is a script of     *)
(* statements of which each leaves a key without a table neither at its    *)
(* own end nor at the other.                                               *)
(***************************************************************************)
\* What a migration consists of: a table comes with keys of its own.
IsKey(k) == k = KeyOf(k.from, k)
Proper(s) ==
    /\ s.do \in {"create", "ensure", "drop", "release", "rename", "add key", "drop key", "drop column"}
    /\ s.do \in {"create", "ensure"} => \A k \in s.keys : IsKey(k) /\ k.from = s.table
    /\ s.do = "add key" => IsKey(s.key)
ProperScript(s) == \E S : s \in Seq(S) /\ \A x \in S : Proper(x)

\* A database whose keys join tables that are there.
Joined(db) ==
    /\ db = [tables |-> db.tables, keys |-> db.keys, ok |-> db.ok]
    /\ \A k \in db.keys : IsKey(k) /\ k.from \in db.tables /\ k.to \in db.tables

LEMMA KeysAreOwn ==
    ASSUME NEW t, NEW keys
    PROVE  \A k \in KeysOf(t, keys) : IsKey(k) /\ k.from = t
BY DEF KeysOf, KeyOf, IsKey

LEMMA StatementsFit ==
    ASSUME NEW t, NEW n, NEW m, NEW k, NEW keys
    PROVE  /\ Proper(Create(t, keys)) /\ Proper(CreateMissing(t, keys))
           /\ Proper(Drop(t)) /\ Proper(Release(t)) /\ Proper(Rename(t, n)) /\ Proper(Tie(t, k))
           /\ Proper(Untie(t, n, m)) /\ Proper(DropColumn(t, n))
<1>1. Proper(Create(t, keys)) /\ Proper(CreateMissing(t, keys))
    BY KeysAreOwn DEF Proper, Create, CreateMissing
<1>2. Proper(Drop(t)) /\ Proper(Release(t)) /\ Proper(Rename(t, n))
    BY DEF Proper, Drop, Release, Rename
<1>3. Proper(Untie(t, n, m)) /\ Proper(DropColumn(t, n))
    BY DEF Proper, Untie, DropColumn
<1>4. Proper(Tie(t, k))
    BY DEF Proper, Tie, KeyOf, IsKey
<1> QED BY <1>1, <1>2, <1>3, <1>4

\* No statement leaves a key to or from a table that is not there.
LEMMA RefusalJoins ==
    ASSUME NEW db, Joined(db)
    PROVE  Joined([db EXCEPT !.ok = FALSE])
<1>1. db = [tables |-> db.tables, keys |-> db.keys, ok |-> db.ok]
    BY DEF Joined
<1>2. ASSUME NEW b PROVE Joined([db EXCEPT !.ok = b])
  <2> DEFINE new == [db EXCEPT !.ok = b]
  <2>1. new = [tables |-> db.tables, keys |-> db.keys, ok |-> b]
    BY <1>1
  <2> HIDE DEF new
  <2>2. Joined(new)
    BY <2>1 DEF Joined
  <2> QED BY <2>2 DEF new
<1> QED BY <1>2

LEMMA StepJoins ==
    ASSUME NEW db, Joined(db), NEW s, Proper(s)
    PROVE  Joined(Step(db, s))
<1> DEFINE new == After(db, s)
<1> SUFFICES ASSUME Legal(db, s) PROVE Joined(new)
  <2> HIDE DEF new
  <2> QED BY RefusalJoins DEF Step, new
<1>1. db = [tables |-> db.tables, keys |-> db.keys, ok |-> db.ok]
    BY DEF Joined
<1>2. \A k \in db.keys : IsKey(k) /\ k.from \in db.tables /\ k.to \in db.tables
    BY DEF Joined
<1>3. ASSUME NEW t, NEW ks, new = [tables |-> t, keys |-> ks, ok |-> db.ok],
             \A k \in ks : IsKey(k) /\ k.from \in t /\ k.to \in t
      PROVE  Joined(new)
  <2> HIDE DEF new
  <2> QED BY <1>3 DEF Joined
<1>4. CASE s.do \in {"create", "ensure"}
  <2>1. \A k \in s.keys : IsKey(k) /\ k.from = s.table
    BY <1>4 DEF Proper
  <2>2. CASE s.do = "ensure" /\ s.table \in db.tables
    <3>1. new = db
      BY <2>2 DEF After
    <3> HIDE DEF new
    <3> QED BY <3>1
  <2>3. CASE ~(s.do = "ensure" /\ s.table \in db.tables)
    <3> DEFINE t == db.tables \cup {s.table}
               ks == db.keys \cup s.keys
    <3>1. new = With(db, s)
      BY <1>4, <2>3 DEF After
    <3>2. \A k \in s.keys : k.to \in t
      BY <1>4, <2>3 DEF Legal
    <3>3. new = [tables |-> t, keys |-> ks, ok |-> db.ok]
      BY <1>1, <3>1 DEF With
    <3>4. \A k \in ks : IsKey(k) /\ k.from \in t /\ k.to \in t
      BY <1>2, <2>1, <3>2
    <3> HIDE DEF new, t, ks
    <3> QED BY <1>3, <3>3, <3>4
  <2> QED BY <2>2, <2>3
<1>5. CASE s.do = "drop"
  <2> DEFINE t == db.tables \ {s.table}
             ks == {k \in db.keys : k.from # s.table}
  <2>1. new = [tables |-> t, keys |-> ks, ok |-> db.ok]
    BY <1>1, <1>5 DEF After
  <2>2. \A k \in db.keys : k.to = s.table => k.from = s.table
    BY <1>5 DEF Legal, KeysTo
  <2>3. \A k \in ks : IsKey(k) /\ k.from \in t /\ k.to \in t
    BY <1>2, <2>2
  <2> HIDE DEF new, t, ks
  <2> QED BY <1>3, <2>1, <2>3
<1>6. CASE s.do = "rename"
  <2> DEFINE t == (db.tables \ {s.table}) \cup {s.as}
             N(x) == IF x = s.table THEN s.as ELSE x
             R(k) == Renamed(k, s.table, s.as)
             ks == {R(k) : k \in db.keys}
  <2>1. new = [tables |-> t, keys |-> ks, ok |-> db.ok]
    BY <1>1, <1>6 DEF After
  <2>2. ASSUME NEW k \in db.keys
        PROVE  IsKey(R(k)) /\ R(k).from \in t /\ R(k).to \in t
    <3>1. N(k.from) \in t /\ N(k.to) \in t
      BY <1>2
    <3>2. R(k) = [k EXCEPT !.from = N(@), !.to = N(@), !.by = N(@)]
      BY DEF Renamed
    <3>3. k = [from |-> k.from, to |-> k.to, by |-> k.by, on |-> k.on, opt |-> k.opt,
               name |-> k.name]
      BY <1>2 DEF IsKey, KeyOf
    <3> HIDE DEF N, R, t
    <3>4. R(k) = [from |-> N(k.from), to |-> N(k.to), by |-> N(k.by), on |-> k.on, opt |-> k.opt,
                  name |-> k.name]
      BY <3>2, <3>3
    <3> QED BY <3>1, <3>4 DEF IsKey, KeyOf
  <2>3. \A k \in ks : IsKey(k) /\ k.from \in t /\ k.to \in t
    BY <2>2
  <2> HIDE DEF new, t, ks
  <2> QED BY <1>3, <2>1, <2>3
<1>7. CASE s.do = "add key"
  <2> DEFINE ks == db.keys \cup {s.key}
  <2>1. new = [tables |-> db.tables, keys |-> ks, ok |-> db.ok]
    BY <1>1, <1>7 DEF After
  <2>2. \A k \in ks : IsKey(k) /\ k.from \in db.tables /\ k.to \in db.tables
    BY <1>2, <1>7 DEF Legal, Proper
  <2> HIDE DEF new, ks
  <2> QED BY <1>3, <2>1, <2>2
<1>8. CASE s.do \in {"drop key", "drop column", "release"}
  <2>1. PICK gone : new = [db EXCEPT !.keys = @ \ gone]
    <3>1. s.do = "drop key" => new = [db EXCEPT !.keys = @ \ Dropped(db, s)]
      BY DEF After
    <3>2. s.do = "drop column" =>
             new = [db EXCEPT !.keys = @ \ {k \in @ : k.from = s.table /\ k.by = s.by}]
      BY DEF After
    <3>3. s.do = "release" => new = [db EXCEPT !.keys = @ \ KeysTo(db, s.table)]
      BY DEF After
    <3> HIDE DEF new
    <3> QED BY <1>8, <3>1, <3>2, <3>3
  <2> DEFINE ks == db.keys \ gone
  <2>2. new = [tables |-> db.tables, keys |-> ks, ok |-> db.ok]
    BY <1>1, <2>1
  <2>3. \A k \in ks : IsKey(k) /\ k.from \in db.tables /\ k.to \in db.tables
    BY <1>2
  <2> HIDE DEF new, ks
  <2> QED BY <1>3, <2>2, <2>3
<1> HIDE DEF new
<1> QED BY <1>4, <1>5, <1>6, <1>7, <1>8 DEF Proper

\* Nor does a migration.
LEMMA MigratedJoins ==
    ASSUME NEW db, Joined(db), NEW s, ProperScript(s)
    PROVE  Joined(Migrated(db, s))
<1>0. PICK S : s \in Seq(S) /\ \A x \in S : Proper(x)
    BY DEF ProperScript
<1> USE <1>0
<1> DEFINE Next1(f, i) == IF i = 0 THEN db ELSE Step(f[i - 1], s[i])
           reached == CHOOSE f : f = [i \in 0 .. Len(s) |-> Next1(f, i)]
           T == {m \in 0 .. Len(s) : ~ \E f : f = [i \in 0 .. m |-> Next1(f, i)]}
<1>1. T = {}
  <2> SUFFICES ASSUME T # {} PROVE FALSE
    OBVIOUS
  <2>1. PICK m \in T : \A n \in T : m <= n
    <3>1. T \in SUBSET Nat
      OBVIOUS
    <3> HIDE DEF T
    <3> QED BY <3>1, LeastNumber
  <2>2. CASE m = 0
    <3> DEFINE g == [i \in 0 .. 0 |-> db]
    <3>1. \A i \in 0 .. 0 : db = Next1(g, i)
      OBVIOUS
    <3>2. g = [i \in 0 .. 0 |-> Next1(g, i)]
      BY <3>1
    <3> QED BY <2>1, <2>2, <3>2
  <2>3. CASE m # 0
    <3>0. m \in 0 .. Len(s) /\ m - 1 \in 0 .. Len(s)
      BY <2>1, <2>3
    <3>1. m - 1 \notin T
      <4> HIDE DEF T
      <4> QED BY <2>1, <3>0
    <3>2. PICK f : f = [i \in 0 .. m - 1 |-> Next1(f, i)]
      BY <3>0, <3>1
    <3> DEFINE g == [i \in 0 .. m |-> IF i < m THEN f[i] ELSE Next1(f, i)]
    <3>3. \A i \in 0 .. m : g[i] = Next1(g, i)
      <4> TAKE i \in 0 .. m
      <4>1. i # 0 => i - 1 \in 0 .. m /\ i - 1 < m
        BY <2>1
      <4>2. i # 0 => g[i - 1] = f[i - 1]
        BY <4>1
      <4>3. CASE i = m
        <5>1. g[i] = Next1(f, i)
          BY <4>3
        <5> QED BY <4>2, <5>1
      <4>4. CASE i # m
        <5>1. i \in 0 .. m - 1 /\ i < m
          BY <2>1, <4>4
        <5>2. f[i] = Next1(f, i)
          BY <3>2, <5>1
        <5>3. g[i] = f[i]
          BY <5>1
        <5> QED BY <4>2, <5>2, <5>3
      <4> QED BY <4>3, <4>4
    <3>4. g = [i \in 0 .. m |-> Next1(g, i)]
      BY <3>3
    <3> QED BY <2>1, <3>4
  <2> QED BY <2>2, <2>3
<1>2. reached = [i \in 0 .. Len(s) |-> Next1(reached, i)]
  <2>1. Len(s) \in 0 .. Len(s) /\ Len(s) \notin T
    BY <1>1
  <2>2. \E f : f = [i \in 0 .. Len(s) |-> Next1(f, i)]
    BY <2>1
  <2> QED BY <2>2, Zenon
<1> DEFINE end == reached[Len(s)]
<1>3. Migrated(db, s) = IF end.ok THEN end ELSE [db EXCEPT !.ok = FALSE]
    BY DEF Migrated
<1> HIDE DEF T, reached
<1>4. \A i \in 0 .. Len(s) : reached[i] = Next1(reached, i)
    BY <1>2
<1> DEFINE Good(m) == Joined(reached[m])
           U == {m \in 0 .. Len(s) : ~Good(m)}
<1>5. U = {}
  <2> SUFFICES ASSUME U # {} PROVE FALSE
    OBVIOUS
  <2>1. PICK m \in U : \A n \in U : m <= n
    <3>1. U \in SUBSET Nat
      OBVIOUS
    <3> HIDE DEF U
    <3> QED BY <3>1, LeastNumber
  <2>2. m # 0
    <3>1. reached[0] = db
      BY <1>4
    <3> QED BY <2>1, <3>1
  <2>3. m - 1 \in 0 .. Len(s) /\ m - 1 \notin U /\ m \in 1 .. Len(s)
    <3> HIDE DEF Good
    <3> QED BY <2>1, <2>2
  <2>4. Good(m - 1) /\ Proper(s[m])
    <3> HIDE DEF Good
    <3> QED BY <2>3
  <2>5. reached[m] = Step(reached[m - 1], s[m])
    BY <1>4, <2>3
  <2>6. Good(m)
    BY <2>4, <2>5, StepJoins
  <2> QED BY <2>1, <2>6
<1>6. Good(Len(s))
  <2>1. Len(s) \in 0 .. Len(s)
    OBVIOUS
  <2> HIDE DEF Good
  <2> QED BY <1>5, <2>1
<1> QED BY <1>3, <1>6, RefusalJoins

LEMMA ScriptsJoin ==
    ASSUME NEW s, NEW t, ProperScript(s), ProperScript(t)
    PROVE  ProperScript(s \o t)
<1>1. PICK S : s \in Seq(S) /\ \A x \in S : Proper(x)
    BY DEF ProperScript
<1>2. PICK T : t \in Seq(T) /\ \A x \in T : Proper(x)
    BY DEF ProperScript
<1>3. s \in Seq(S \cup T) /\ t \in Seq(S \cup T)
    BY <1>1, <1>2
<1>4. s \o t \in Seq(S \cup T)
    BY <1>3
<1> QED BY <1>1, <1>2, <1>4 DEF ProperScript

\* The tables are dropped by statements too.
LEMMA UndoneFits ==
    ASSUME NEW s, ProperScript(s)
    PROVE  ProperScript(Undone(s))
<1>0. PICK S : s \in Seq(S) /\ \A x \in S : Proper(x)
    BY DEF ProperScript
<1>l. Len(s) \in Nat /\ \A i \in 1 .. Len(s) : s[i] \in S
    BY <1>0
<1> USE <1>l
<1> DEFINE D == {Drop(x.table) : x \in S}
           Next1(f, i) == IF i = 0 THEN <<>>
                          ELSE IF s[i].table \in LevelTables THEN f[i - 1]
                          ELSE <<Drop(s[i].table)>> \o f[i - 1]
           drops == CHOOSE f : f = [i \in 0 .. Len(s) |-> Next1(f, i)]
           T == {m \in 0 .. Len(s) : ~ \E f : f = [i \in 0 .. m |-> Next1(f, i)]}
<1>1. T = {}
  <2> SUFFICES ASSUME T # {} PROVE FALSE
    OBVIOUS
  <2>1. PICK m \in T : \A n \in T : m <= n
    <3>1. T \in SUBSET Nat
      OBVIOUS
    <3> HIDE DEF T
    <3> QED BY <3>1, LeastNumber
  <2>2. CASE m = 0
    <3> DEFINE g == [i \in 0 .. 0 |-> <<>>]
    <3>1. \A i \in 0 .. 0 : <<>> = Next1(g, i)
      OBVIOUS
    <3>2. g = [i \in 0 .. 0 |-> Next1(g, i)]
      BY <3>1
    <3> QED BY <2>1, <2>2, <3>2
  <2>3. CASE m # 0
    <3>0. m \in 0 .. Len(s) /\ m - 1 \in 0 .. Len(s)
      BY <2>1, <2>3
    <3>1. m - 1 \notin T
      <4> HIDE DEF T
      <4> QED BY <2>1, <3>0
    <3>2. PICK f : f = [i \in 0 .. m - 1 |-> Next1(f, i)]
      BY <3>0, <3>1
    <3> DEFINE g == [i \in 0 .. m |-> IF i < m THEN f[i] ELSE Next1(f, i)]
    <3>3. \A i \in 0 .. m : g[i] = Next1(g, i)
      <4> TAKE i \in 0 .. m
      <4>1. i # 0 => i - 1 \in 0 .. m /\ i - 1 < m
        BY <2>1
      <4>2. i # 0 => g[i - 1] = f[i - 1]
        BY <4>1
      <4>3. CASE i = m
        <5>1. g[i] = Next1(f, i)
          BY <4>3
        <5> QED BY <4>2, <5>1
      <4>4. CASE i # m
        <5>1. i \in 0 .. m - 1 /\ i < m
          BY <2>1, <4>4
        <5>2. f[i] = Next1(f, i)
          BY <3>2, <5>1
        <5>3. g[i] = f[i]
          BY <5>1
        <5> QED BY <4>2, <5>2, <5>3
      <4> QED BY <4>3, <4>4
    <3>4. g = [i \in 0 .. m |-> Next1(g, i)]
      BY <3>3
    <3> QED BY <2>1, <3>4
  <2> QED BY <2>2, <2>3
<1>2. drops = [i \in 0 .. Len(s) |-> Next1(drops, i)]
  <2>1. Len(s) \in 0 .. Len(s) /\ Len(s) \notin T
    <3> HIDE DEF T
    <3> QED BY <1>1
  <2>2. \E f : f = [i \in 0 .. Len(s) |-> Next1(f, i)]
    BY <2>1
  <2> QED BY <2>2, Zenon
<1>3. Undone(s) = drops[Len(s)]
    BY DEF Undone
<1> HIDE DEF T, drops
<1>4. \A i \in 0 .. Len(s) : drops[i] = Next1(drops, i)
    BY <1>2
<1> DEFINE U == {m \in 0 .. Len(s) : drops[m] \notin Seq(D)}
<1>5. U = {}
  <2> SUFFICES ASSUME U # {} PROVE FALSE
    OBVIOUS
  <2>1. PICK m \in U : \A n \in U : m <= n
    <3>1. U \in SUBSET Nat
      OBVIOUS
    <3> HIDE DEF U
    <3> QED BY <3>1, LeastNumber
  <2>2. m # 0
    <3>1. 0 \in 0 .. Len(s)
      OBVIOUS
    <3>2. drops[0] = Next1(drops, 0)
      <4> HIDE DEF Next1
      <4> QED BY <1>4, <3>1
    <3>3. drops[0] \in Seq(D)
      <4> HIDE DEF D
      <4> QED BY <3>2
    <3> HIDE DEF D
    <3> QED BY <2>1, <3>3
  <2>3. m - 1 \in 0 .. Len(s) /\ m - 1 \notin U /\ m \in 1 .. Len(s)
    <3>1. m \in 0 .. Len(s)
      OBVIOUS
    <3> HIDE DEF U
    <3> QED BY <2>1, <2>2, <3>1
  <2>4. drops[m - 1] \in Seq(D) /\ s[m] \in S
    BY <2>3
  <2>5. drops[m] = Next1(drops, m)
    BY <1>4, <2>3
  <2>6. <<Drop(s[m].table)>> \in Seq(D)
    BY <2>4
  <2>7. drops[m] \in Seq(D)
    <3>1. drops[m] = drops[m - 1] \/ drops[m] = <<Drop(s[m].table)>> \o drops[m - 1]
      BY <2>3, <2>5
    <3> HIDE DEF D, U, Next1
    <3>2. \A p, q \in Seq(D) : p \o q \in Seq(D)
      OBVIOUS
    <3>3. <<Drop(s[m].table)>> \o drops[m - 1] \in Seq(D)
      BY <2>4, <2>6, <3>2, Zenon
    <3> QED BY <2>4, <3>1, <3>3, Zenon
  <2> QED BY <2>1, <2>7
<1>6. Undone(s) \in Seq(D)
    BY <1>3, <1>5
<1>7. \A x \in D : Proper(x)
    BY StatementsFit
<1> QED BY <1>6, <1>7 DEF ProperScript

LEMMA FewFit ==
    ASSUME NEW a, NEW b, NEW c, NEW d, Proper(a), Proper(b), Proper(c), Proper(d)
    PROVE  ProperScript(<<a>>) /\ ProperScript(<<a, b>>) /\ ProperScript(<<a, b, c>>) /\ ProperScript(<<a, b, c, d>>)
<1> DEFINE S == {a, b, c, d}
<1>1. <<a>> \in Seq(S) /\ <<a, b>> \in Seq(S) /\ <<a, b, c>> \in Seq(S) /\ <<a, b, c, d>> \in Seq(S)
    OBVIOUS
<1>2. \A x \in S : Proper(x)
    OBVIOUS
<1> HIDE DEF S
<1> QED BY <1>1, <1>2 DEF ProperScript

LEMMA BaselineFits == ProperScript(BaselineUp) /\ ProperScript(BaselineDown)
<1>1. ProperScript(Catalogs)
  <2> DEFINE S == {x \in ToSet(Catalogs) : Proper(x)}
  <2>1. Catalogs \in Seq(S)
    BY StatementsFit DEF Catalogs, ToSet
  <2> QED BY <2>1 DEF ProperScript
<1>2. ProperScript(Goods)
  <2> DEFINE S == {x \in ToSet(Goods) : Proper(x)}
  <2>1. Goods \in Seq(S)
    BY StatementsFit DEF Goods, ToSet
  <2> QED BY <2>1 DEF ProperScript
<1>3. ProperScript(Settings)
  <2> DEFINE S == {x \in ToSet(Settings) : Proper(x)}
  <2>1. Settings \in Seq(S)
    BY StatementsFit DEF Settings, ToSet
  <2> QED BY <2>1 DEF ProperScript
<1>4. ProperScript(Pages)
  <2> DEFINE S == {x \in ToSet(Pages) : Proper(x)}
  <2>1. Pages \in Seq(S)
    BY StatementsFit DEF Pages, ToSet
  <2> QED BY <2>1 DEF ProperScript
<1>5. ProperScript(Products)
  <2> DEFINE S == {x \in ToSet(Products) : Proper(x)}
  <2>1. Products \in Seq(S)
    BY StatementsFit DEF Products, ToSet
  <2> QED BY <2>1 DEF ProperScript
<1>6. ProperScript(Persons)
  <2> DEFINE S == {x \in ToSet(Persons) : Proper(x)}
  <2>1. Persons \in Seq(S)
    BY StatementsFit DEF Persons, ToSet
  <2> QED BY <2>1 DEF ProperScript
<1>7. ProperScript(Stock)
  <2> DEFINE S == {x \in ToSet(Stock) : Proper(x)}
  <2>1. Stock \in Seq(S)
    BY StatementsFit DEF Stock, ToSet
  <2> QED BY <2>1 DEF ProperScript
<1>8. ProperScript(Contracts)
  <2> DEFINE S == {x \in ToSet(Contracts) : Proper(x)}
  <2>1. Contracts \in Seq(S)
    BY StatementsFit DEF Contracts, ToSet
  <2> QED BY <2>1 DEF ProperScript
<1>9. ProperScript(Orders)
  <2> DEFINE S == {x \in ToSet(Orders) : Proper(x)}
  <2>1. Orders \in Seq(S)
    BY StatementsFit DEF Orders, ToSet
  <2> QED BY <2>1 DEF ProperScript
<1>10. ProperScript(Tail(Pages)) /\ ProperScript(<<Pages[1]>>)
  <2>1. PICK S : Pages \in Seq(S) /\ \A x \in S : Proper(x)
    BY <1>4 DEF ProperScript
  <2>2. Pages # <<>> /\ Len(Pages) \in Nat \ {0} /\ 1 \in 1 .. Len(Pages)
    BY DEF Pages
  <2>3. Tail(Pages) \in Seq(S) /\ Pages[1] \in S
    BY <2>1, <2>2
  <2>4. <<Pages[1]>> \in Seq(S)
    BY <2>3
  <2> QED BY <2>1, <2>3, <2>4 DEF ProperScript
<1>11. ProperScript(BaselineUp)
  <2>1. ProperScript(Catalogs \o Goods \o Settings)
    BY <1>1, <1>2, <1>3, ScriptsJoin
  <2>2. ProperScript(Catalogs \o Goods \o Settings \o Pages \o Products \o Persons)
    BY <1>4, <1>5, <1>6, <2>1, ScriptsJoin
  <2> QED BY <1>7, <1>8, <1>9, <2>2, ScriptsJoin DEF BaselineUp
<1>12. ProperScript(DropReferring)
  <2>1. ProperScript(Tail(Pages) \o Products \o Persons)
    BY <1>5, <1>6, <1>10, ScriptsJoin
  <2>2. ProperScript(Tail(Pages) \o Products \o Persons \o Stock \o Contracts \o Orders)
    BY <1>7, <1>8, <1>9, <2>1, ScriptsJoin
  <2> QED BY <2>2, UndoneFits DEF DropReferring
<1>13. ProperScript(DropReferredTo)
  <2>1. ProperScript(Catalogs \o Goods \o Settings \o <<Pages[1]>>)
    BY <1>1, <1>2, <1>3, <1>10, ScriptsJoin
  <2> QED BY <2>1, UndoneFits DEF DropReferredTo
<1> QED BY <1>11, <1>12, <1>13, ScriptsJoin DEF BaselineDown

\* Keys that are made again, table by table.
LEMMA RetiedFits ==
    ASSUME NEW k
    PROVE  ProperScript(Retied(k))
<1> DEFINE Pair(i) == <<Untie(UserOwned[i], "user", "any"), Tie(UserOwned[i], k)>>
           s == [i \in DOMAIN UserOwned |-> Pair(i)]
           S == UNION {ToSet(Pair(i)) : i \in 1 .. 3}
<1>1. DOMAIN UserOwned = 1 .. 3
    BY DEF UserOwned
<1>2. s = [i \in 1 .. 3 |-> Pair(i)]
    BY <1>1
<1>3. \A i \in 1 .. 3 : Pair(i) \in Seq(ToSet(Pair(i))) /\ ToSet(Pair(i)) \subseteq S
    BY DEF ToSet
<1>4. \A i \in 1 .. 3 : \A x \in ToSet(Pair(i)) : Proper(x)
    BY StatementsFit DEF ToSet
<1>5. \A x \in S : Proper(x)
    BY <1>4
<1> HIDE DEF Pair, S
<1>6. \A i \in 1 .. 3 : s[i] \in Seq(S)
    BY <1>2, <1>3
<1>7. s \in Seq(Seq(S)) /\ Len(s) = 3
    BY <1>2, <1>6
<1> DEFINE Join(g) == g = [i \in 1 .. Len(s) |-> IF i = 1 THEN s[i] ELSE g[i - 1] \o s[i]]
           f == [i \in 1 .. 3 |-> IF i = 1 THEN s[1] ELSE IF i = 2 THEN s[1] \o s[2]
                                  ELSE (s[1] \o s[2]) \o s[3]]
<1>8. FlattenSeq(s) \in Seq(S)
  <2> HIDE DEF s
  <2>1. Join(f)
    BY <1>7
  <2>2. PICK g : g = CHOOSE h : Join(h)
    OBVIOUS
  <2>3. Join(g)
    <3> HIDE DEF Join
    <3> QED BY <2>1, <2>2, Zenon
  <2>4. FlattenSeq(s) = g[3]
    BY <1>7, <2>2 DEF FlattenSeq
  <2>5. g[1] \in Seq(S)
    BY <1>6, <1>7, <2>3
  <2>6. g[2] = g[1] \o s[2] /\ g[3] = g[2] \o s[3]
    <3>1. \A i \in 1 .. 3 : g[i] = IF i = 1 THEN s[i] ELSE g[i - 1] \o s[i]
      BY <1>7, <2>3
    <3>2. \A i \in 1 .. 3 : i # 1 => g[i] = g[i - 1] \o s[i]
      BY <3>1, Zenon
    <3>3. 2 \in 1 .. 3 /\ 3 \in 1 .. 3 /\ 2 # 1 /\ 3 # 1 /\ 2 - 1 = 1 /\ 3 - 1 = 2
      OBVIOUS
    <3>4. g[2] = g[2 - 1] \o s[2] /\ g[3] = g[3 - 1] \o s[3]
      BY <3>2, <3>3, Zenon
    <3> QED BY <3>3, <3>4, Zenon
  <2>7. g[2] \in Seq(S)
    BY <1>6, <2>5, <2>6
  <2>8. g[3] \in Seq(S)
    BY <1>6, <2>6, <2>7
  <2> QED BY <2>4, <2>8
<1>9. Retied(k) = FlattenSeq(s)
    BY DEF Retied, Pair
<1> HIDE DEF s
<1> QED BY <1>5, <1>8, <1>9 DEF ProperScript

Revision(r) == ProperScript(r.up) /\ ProperScript(r.down)

LEMMA RevisionsFit == \A r \in Revisions : Revision(r)
<1>1. Revision(TaxClass)
    BY StatementsFit, FewFit DEF Revision, TaxClass
<1>2. Revision(AccessLevels)
    BY StatementsFit, FewFit DEF Revision, AccessLevels
<1>3. Revision(InvoiceWithoutSubscription)
    BY StatementsFit, FewFit DEF Revision, InvoiceWithoutSubscription
<1>4. Revision(SeedMarker)
    BY StatementsFit, FewFit DEF Revision, SeedMarker
<1>5. Revision(ApiKeys)
    BY StatementsFit, FewFit DEF Revision, ApiKeys
<1>6. Revision(DeviceTokens)
    BY StatementsFit, FewFit DEF Revision, DeviceTokens
<1>7. Revision(FlattenTaxClass)
    BY StatementsFit, FewFit DEF Revision, FlattenTaxClass
<1>8. Revision(UserGroups)
    BY StatementsFit, FewFit DEF Revision, UserGroups
<1>9. Revision(DropPrice)
    BY StatementsFit, FewFit DEF Revision, DropPrice
<1>10. Revision(Tags)
    BY StatementsFit, FewFit DEF Revision, Tags
<1>11. Revision(BundleTaxes)
    BY StatementsFit, FewFit DEF Revision, BundleTaxes
<1>12. Revision(UserRoleTable)
    BY StatementsFit, FewFit DEF Revision, UserRoleTable
<1>13. Revision(LlmConnections)
    BY StatementsFit, FewFit DEF Revision, LlmConnections
<1>14. Revision(DropUserCase)
    BY StatementsFit, FewFit DEF Revision, DropUserCase
<1>15. Revision(RenameAdminRole)
    BY StatementsFit, FewFit DEF Revision, RenameAdminRole
<1>16. Revision(RenameLevelJoin)
    BY StatementsFit, FewFit DEF Revision, RenameLevelJoin
<1>17. Revision(RenameAccessLevel)
    BY StatementsFit, FewFit DEF Revision, RenameAccessLevel
<1>18. Revision(OutboundTables)
    BY StatementsFit, FewFit DEF Revision, OutboundTables
<1>19. Revision(Baseline)
    BY BaselineFits DEF Revision, Baseline
<1>20. Revision(UserCascade)
    BY RetiedFits DEF Revision, UserCascade
<1> QED BY <1>1, <1>2, <1>3, <1>4, <1>5, <1>6, <1>7, <1>8, <1>9, <1>10, <1>11, <1>12, <1>13,
           <1>14, <1>15, <1>16, <1>17, <1>18, <1>19, <1>20 DEF Revisions, History, ToSet

LEMMA KeysStayJoined ==
    ASSUME Joined(schema), SchemaNext
    PROVE  Joined(schema')
<1>1. PICK r \in Revisions : Upgrade(r) \/ Downgrade(r)
    BY DEF SchemaNext
<1>2. PICK s : ProperScript(s) /\ (schema' = Migrated(schema, s) \/ schema' = schema)
  <2>1. ProperScript(r.up) /\ ProperScript(r.down)
    BY <1>1, RevisionsFit DEF Revision
  <2>2. CASE Upgrade(r)
    <3>1. schema' = Migrated(schema, r.up) \/ schema' = schema
      BY <2>2 DEF Upgrade, Run
    <3> QED BY <2>1, <3>1
  <2>3. CASE Downgrade(r)
    <3>1. schema' = Migrated(schema, r.down) \/ schema' = schema
      BY <2>3 DEF Downgrade, Run
    <3> QED BY <2>1, <3>1
  <2> QED BY <1>1, <2>2, <2>3
<1> QED BY <1>2, MigratedJoins

SchemaInv == Joined(schema) /\ applied \subseteq {r.id : r \in Revisions}

LEMMA InitSchema == Init => SchemaInv
BY DEF Init, SchemaInit, SchemaInv, Joined, NoTables

LEMMA SchemaInvStep == SchemaInv /\ [Next]_vars => SchemaInv'
<1> SUFFICES ASSUME SchemaInv, [Next]_vars PROVE SchemaInv'
    OBVIOUS
<1>1. CASE SchemaNext
  <2>1. Joined(schema')
    BY <1>1, KeysStayJoined DEF SchemaInv
  <2>2. PICK r \in Revisions : Upgrade(r) \/ Downgrade(r)
    BY <1>1 DEF SchemaNext
  <2>3. applied' \subseteq applied \cup {r.id}
    BY <2>2 DEF Upgrade, Downgrade, Run
  <2> QED BY <2>1, <2>3 DEF SchemaInv
<1>2. CASE UNCHANGED schemaVars
    BY <1>2 DEF SchemaInv, schemaVars
<1>3. CASE UNCHANGED vars
    BY <1>2, <1>3 DEF vars
<1> QED BY <1>1, <1>2, <1>3 DEF Next

LEMMA SchemaInvServes == SchemaInv => SchemaTypeOK
BY DEF SchemaInv, Joined, SchemaTypeOK

-----------------------------------------------------------------------------
(***************************************************************************)
(* All scenes together: what the invariants above do not say of the shape  *)
(* of the variables, and the type invariant of the installation.           *)
(***************************************************************************)
LEMMA LlmBounds ==
    ASSUME LlmInv, LlmTypeOK, scene = "llm", UNCHANGED scene, LlmNext
    PROVE  LlmTypeOK'
<1>t. /\ edits \in Nat /\ connection \in [Connections -> {NoConnection} \cup Connection]
      /\ job \in [Workers -> LlmRequest]
      /\ \A m \in Connections : Stored(m) => connection[m].edition \in 1 .. edits
      /\ \A w \in Workers : job[w].pc = "ask" => job[w].left \in 1 .. MaxAttempts
      /\ MaxAttempts \in Nat \ {0}
    BY LlmAssumption DEF LlmInv, LlmTypeOK, IsAt
\* A connection that is written has one of the editions there have been.
<1>c. ASSUME NEW m \in Connections, NEW c, connection' = [connection EXCEPT ![m] = c],
             edits' \in Nat, edits <= edits', c = NoConnection \/ c.edition \in 1 .. edits'
      PROVE  \A n \in Connections : (Stored(n) => connection[n].edition \in 1 .. edits)'
    BY <1>t, <1>c DEF Stored
\* A request that goes on has an attempt left.
<1>r. ASSUME NEW w \in Workers, NEW r, job' = [job EXCEPT ![w] = r],
             r.pc = "ask" => r.left \in 1 .. MaxAttempts
      PROVE  \A v \in Workers : job'[v].pc = "ask" => job'[v].left \in 1 .. MaxAttempts
    BY <1>t, <1>r
<1>u. UNCHANGED llmVars => \A n \in Connections : (Stored(n) => connection[n].edition \in 1 .. edits)'
    BY <1>t DEF llmVars, Stored
<1>q. SUFFICES /\ \A n \in Connections : (Stored(n) => connection[n].edition \in 1 .. edits)'
               /\ \A v \in Workers : job'[v].pc = "ask" => job'[v].left \in 1 .. MaxAttempts
    BY DEF LlmTypeOK, IsAt
<1> HIDE DEF LlmInv, LlmTypeOK
<1>1. ASSUME NEW m \in Connections, CreateConnection(m) \/ UpdateConnection(m)
      PROVE  /\ \A n \in Connections : (Stored(n) => connection[n].edition \in 1 .. edits)'
             /\ UNCHANGED job
  <2>1. PICK n \in Nat : n = edits + 1
    BY <1>t
  <2>2. PICK c : connection' = [connection EXCEPT ![m] = c] /\ c.edition = n
    <3>1. CASE CreateConnection(m)
      <4>1. PICK active \in BOOLEAN : connection' = [connection EXCEPT ![m] =
                [edition |-> edits + 1, active |-> active, stamped |-> FALSE]]
        BY <3>1 DEF CreateConnection
      <4> DEFINE c == [edition |-> edits + 1, active |-> active, stamped |-> FALSE]
      <4>2. c.edition = n
        BY <2>1
      <4>3. connection' = [connection EXCEPT ![m] = c]
        BY <4>1
      <4> HIDE DEF c
      <4> QED BY <4>2, <4>3
    <3>2. CASE UpdateConnection(m)
      <4>1. PICK active \in BOOLEAN :
                connection' = [connection EXCEPT ![m].edition = n, ![m].active = active]
        BY <2>1, <3>2 DEF UpdateConnection
      <4>2. connection[m] \in Connection
        BY <1>t, <3>2, StoredRow DEF UpdateConnection
      <4>3. [connection[m] EXCEPT !.edition = n, !.active = active].edition = n
        BY <4>2 DEF Connection
      <4>4. connection' = [connection EXCEPT ![m] = [connection[m] EXCEPT !.edition = n, !.active = active]]
        BY <1>t, <4>1
      <4> QED BY <4>3, <4>4
    <3> QED BY <1>1, <3>1, <3>2
  <2>3. edits' = n /\ UNCHANGED job
    BY <1>1, <2>1 DEF CreateConnection, UpdateConnection
  <2>4. n \in 1 .. n /\ edits <= n
    BY <1>t, <2>1
  <2> QED BY <1>c, <2>2, <2>3, <2>4
<1>2. ASSUME NEW m \in Connections, SetActive(m)
      PROVE  /\ \A n \in Connections : (Stored(n) => connection[n].edition \in 1 .. edits)'
             /\ UNCHANGED job
  <2>1. PICK active \in BOOLEAN : connection' = [connection EXCEPT ![m].active = active]
    BY <1>2 DEF SetActive
  <2>2. connection[m] \in Connection /\ connection[m].edition \in 1 .. edits
    BY <1>2, <1>t, StoredRow DEF SetActive
  <2>3. [connection[m] EXCEPT !.active = active].edition \in 1 .. edits
    BY <2>2 DEF Connection
  <2>4. connection' = [connection EXCEPT ![m] = [connection[m] EXCEPT !.active = active]]
    BY <1>t, <2>1
  <2>5. UNCHANGED <<edits, job>>
    BY <1>2 DEF SetActive
  <2>6. edits <= edits' /\ edits' \in Nat
    BY <1>t, <2>5
  <2> QED BY <1>c, <2>3, <2>4, <2>5, <2>6
<1>3. ASSUME NEW m \in Connections, DeleteConnection(m)
      PROVE  /\ \A n \in Connections : (Stored(n) => connection[n].edition \in 1 .. edits)'
             /\ \A v \in Workers : job'[v].pc = "ask" => job'[v].left \in 1 .. MaxAttempts
  <2>1. connection' = [connection EXCEPT ![m] = NoConnection] /\ job' = Gone(m) /\ UNCHANGED edits
    BY <1>3 DEF DeleteConnection
  <2>2. edits <= edits' /\ edits' \in Nat
    BY <1>t, <2>1
  <2>3. ASSUME NEW v \in Workers, job'[v].pc = "ask" PROVE job'[v].left \in 1 .. MaxAttempts
    <3>1. CASE job[v].pc \in {"ask", "stamp"} /\ job[v].row = m
      <4>1. job[v] \in Asked
        BY <1>t, <3>1 DEF LlmRequest, Over
      <4>2. job'[v] = [job[v] EXCEPT !.lost = TRUE]
        BY <2>1, <3>1 DEF Gone
      <4>3. job'[v].pc = job[v].pc /\ job'[v].left = job[v].left
        BY <4>1, <4>2 DEF Asked
      <4> QED BY <1>t, <2>3, <4>3
    <3>2. CASE ~(job[v].pc \in {"ask", "stamp"} /\ job[v].row = m)
      BY <1>t, <2>1, <2>3, <3>2 DEF Gone
    <3> QED BY <3>1, <3>2
  <2> QED BY <1>c, <2>1, <2>2, <2>3
<1>4. ASSUME NEW w \in Workers, NEW m \in Connections, Resolve(w, m) \/ TestConnection(w, m)
      PROVE  /\ UNCHANGED llmVars
             /\ \A v \in Workers : job'[v].pc = "ask" => job'[v].left \in 1 .. MaxAttempts
  <2>1. PICK s \in Schemas, chat \in BOOLEAN, stamps \in BOOLEAN :
          Begin(w, [pc |-> "ask", row |-> m, edition |-> connection[m].edition,
                    stamps |-> stamps, schema |-> s, chat |-> chat,
                    left |-> IF chat THEN 1 ELSE MaxAttempts, lost |-> FALSE, reply |-> None])
    BY <1>4 DEF Resolve, TestConnection, Client
  <2>2. PICK n : n = IF chat THEN 1 ELSE MaxAttempts
    OBVIOUS
  <2>3. n \in 1 .. MaxAttempts
    BY <1>t, <2>2
  <2>4. job' = [job EXCEPT ![w] = [pc |-> "ask", row |-> m, edition |-> connection[m].edition,
                    stamps |-> stamps, schema |-> s, chat |-> chat,
                    left |-> n, lost |-> FALSE, reply |-> None]]
    BY <2>1, <2>2 DEF Begin
  <2>5. UNCHANGED llmVars
    BY <1>4 DEF Resolve, TestConnection, Client
  <2> QED BY <1>r, <2>3, <2>4, <2>5
<1>5. ASSUME NEW w \in Workers, NEW reply \in Replies, AskAgain(w, reply)
      PROVE  /\ UNCHANGED llmVars
             /\ \A v \in Workers : job'[v].pc = "ask" => job'[v].left \in 1 .. MaxAttempts
  <2>0. job[w].pc = "ask" /\ job[w] \in Asked /\ UNCHANGED llmVars
    BY <1>5, <1>t DEF AskAgain, IsAt, LlmRequest, Over
  <2>1. CASE job[w].left = 1
    BY <1>5, <1>r, <2>0, <2>1 DEF AskAgain, Done, Idle
  <2>2. CASE job[w].left # 1
    <3>1. PICK n \in Int : n = job[w].left - 1
      BY <2>0 DEF Asked
    <3>2. n \in 1 .. MaxAttempts
      BY <1>t, <2>0, <2>2, <3>1
    <3>3. [job[w] EXCEPT !.left = n].left = n
      BY <2>0 DEF Asked
    <3>4. job' = [job EXCEPT ![w] = [job[w] EXCEPT !.left = n]]
      BY <1>5, <2>2, <3>1 DEF AskAgain, Go
    <3> QED BY <1>r, <2>0, <3>2, <3>3, <3>4
  <2> QED BY <2>1, <2>2
<1>6. ASSUME NEW w \in Workers, NEW reply \in Replies, AskSucceeds(w, reply)
      PROVE  /\ UNCHANGED llmVars
             /\ \A v \in Workers : job'[v].pc = "ask" => job'[v].left \in 1 .. MaxAttempts
  <2>0. job[w].pc = "ask" /\ job[w] \in Asked /\ UNCHANGED llmVars
    BY <1>6, <1>t DEF AskSucceeds, IsAt, LlmRequest, Over
  <2>1. CASE job[w].stamps /\ ~job[w].lost
    <3>1. [job[w] EXCEPT !.pc = "stamp", !.reply = reply].pc = "stamp"
      BY <2>0 DEF Asked
    <3>2. job' = [job EXCEPT ![w] = [job[w] EXCEPT !.pc = "stamp", !.reply = reply]]
      BY <1>6, <2>1 DEF AskSucceeds, Go
    <3> QED BY <1>r, <2>0, <3>1, <3>2
  <2>2. CASE ~(job[w].stamps /\ ~job[w].lost)
    BY <1>6, <1>r, <2>0, <2>2 DEF AskSucceeds, End, Go
  <2> QED BY <2>1, <2>2
<1>7. ASSUME NEW w \in Workers, AskFails(w) \/ Return(w) \/ StampFails(w)
      PROVE  /\ UNCHANGED llmVars
             /\ \A v \in Workers : job'[v].pc = "ask" => job'[v].left \in 1 .. MaxAttempts
    BY <1>7, <1>r DEF AskFails, Return, StampFails, Done, Idle, End, Go
<1>8. ASSUME NEW w \in Workers, Stamp(w)
      PROVE  /\ \A n \in Connections : (Stored(n) => connection[n].edition \in 1 .. edits)'
             /\ \A v \in Workers : job'[v].pc = "ask" => job'[v].left \in 1 .. MaxAttempts
  <2>0. PICK m \in Connections : m = job[w].row /\ connection[m] \in Connection
    <3>1. job[w].pc = "stamp" /\ ~job[w].lost
      BY <1>8 DEF Stamp, IsAt
    <3>2. job[w] \in Asked /\ AskedWell(w)
      BY <1>t, <3>1 DEF LlmInv, LlmRequest, Over
    <3> QED BY <3>1, <3>2 DEF AskedWell, Asked
  <2>1. /\ connection' = [connection EXCEPT ![m].stamped = TRUE] /\ UNCHANGED edits
        /\ job' = [job EXCEPT ![w] = [pc |-> "over", kind |-> "reply", reply |-> job[w].reply,
                                     schema |-> job[w].schema, lost |-> job[w].lost]]
    BY <1>8, <2>0 DEF Stamp, End, Go
  <2>2. connection' = [connection EXCEPT ![m] = [connection[m] EXCEPT !.stamped = TRUE]]
    BY <1>t, <2>1
  <2>3. [connection[m] EXCEPT !.stamped = TRUE].edition \in 1 .. edits
    BY <1>t, <2>0, StoredRow DEF Connection
  <2>4. edits <= edits' /\ edits' \in Nat
    BY <1>t, <2>1
  <2> QED BY <1>c, <1>r, <2>1, <2>2, <2>3, <2>4
<1> QED BY <1>1, <1>2, <1>3, <1>4, <1>5, <1>6, <1>7, <1>8, <1>t, <1>u DEF LlmNext

\* The shape of the rows and requests of the language models, and of the keys
\* and answers of the license gate.
Shaped == LlmTypeOK /\ LicensingTypeOK

LEMMA InitShaped == Init => Shaped
<1> SUFFICES ASSUME Init PROVE Shaped
    OBVIOUS
<1>1. LlmTypeOK
    BY DEF Init, LlmInit, LlmTypeOK, Stored, IsAt, Idle
<1>2. LicensingTypeOK
    BY DEF Init, LicensingInit, LicensingTypeOK, Down
<1> QED BY <1>1, <1>2 DEF Shaped

LEMMA GateIsShaped == GateInv' /\ scene' = "license" => LicensingTypeOK'
BY DEF GateInv, GateTyped, BoxFits, Memory, LicensingTypeOK

LEMMA ShapedStep == LlmInv /\ GateInv' /\ Shaped /\ [Next]_vars => Shaped'
<1> SUFFICES ASSUME LlmInv, GateInv', Shaped, [Next]_vars PROVE Shaped'
    OBVIOUS
<1>1. UNCHANGED scene
    BY DEF Next, vars
<1>2. LlmTypeOK'
  <2>1. CASE scene = "llm" /\ LlmNext
    BY <1>1, <2>1, LlmBounds DEF Shaped
  <2>2. CASE UNCHANGED llmVars /\ (scene # "llm" \/ UNCHANGED job)
    BY <1>1, <2>2 DEF Shaped, LlmTypeOK, llmVars, Stored, IsAt
  <2>3. CASE UNCHANGED vars
    BY <2>2, <2>3 DEF vars
  <2> QED BY <2>1, <2>2, <2>3 DEF Next
<1>3. LicensingTypeOK'
  <2>1. CASE scene = "license"
    <3>1. scene' = "license"
      BY <1>1, <2>1
    <3> QED BY <3>1, GateIsShaped
  <2>2. CASE UNCHANGED licenseVars
    BY <2>2 DEF Shaped, LicensingTypeOK, licenseVars
  <2>3. CASE UNCHANGED vars
    BY <2>2, <2>3 DEF vars
  <2> QED BY <2>1, <2>2, <2>3 DEF Next
<1> QED BY <1>2, <1>3 DEF Shaped

LEMMA ShipIsShaped == ShipInv => ShippingTypeOK
<1> SUFFICES ASSUME ShipInv PROVE ShippingTypeOK
    OBVIOUS
<1>t. ShipTyped /\ Waiting /\ TickOK /\ \A s \in Shippers : Served(s)
    BY DEF ShipInv
<1>1. \A n \in Range(buffer) : n \in 1 .. count.appended
  <2> SUFFICES ASSUME NEW i \in 1 .. Len(buffer) PROVE buffer[i] \in 1 .. count.appended
    BY <1>t DEF Range, ShipTyped
  <2>1. buffer[i] \in Nat /\ drained.last \in Nat /\ count.appended \in Nat
    BY <1>t DEF ShipTyped
  <2> QED BY <1>t, <2>1 DEF Waiting
<1>2. ASSUME NEW s \in Shippers PROVE shipper[s].failures \in 0 .. MaxFailures
  <2>1. shipper[s].failures \in Nat /\ shipper[s].failures <= MaxFailures
    BY <1>t DEF ShipTyped, ShipperRow, Served
  <2>2. MaxFailures \in Nat
    BY ShippingAssumption
  <2> QED BY <2>1, <2>2
<1>3. tick.pc \in {"idle", "take", "ship"} /\ (tick.pc = "ship" => tick.batch # <<>>)
    BY <1>t DEF ShipTyped, TickOK
<1> QED BY <1>1, <1>2, <1>3 DEF ShippingTypeOK

LEMMA SeedIsShaped == SeedInv => SeedingTypeOK
<1> SUFFICES ASSUME SeedInv PROVE SeedingTypeOK
    OBVIOUS
<1>1. SeedTyped /\ OneOfEach
    BY DEF SeedInv
<1>2. edited \subseteq Things
  <2>1. Of({"tax", "country", "plan", "settings"}) \subseteq Of(Core)
    BY DEF Of, Core
  <2> QED BY <1>1, <2>1, ThingsApart DEF SeedTyped
<1>3. \A x \in OfOneRow : copies[x] <= 1
    BY <1>1 DEF OneOfEach, Single, OfOneRow
<1> QED BY <1>1, <1>2, <1>3 DEF SeedTyped, SeedingTypeOK

LEMMA EventsAreShaped == EventsInv => EventsTypeOK
<1> SUFFICES ASSUME EventsInv PROVE EventsTypeOK
    OBVIOUS
<1>1. ListsTyped
    BY DEF EventsInv
<1> QED BY <1>1 DEF ListsTyped, UrgentFirst, EventsTypeOK

LEMMA SdkIsShaped == SdkInv => ProvidersTypeOK
<1> SUFFICES ASSUME SdkInv PROVE ProvidersTypeOK
    OBVIOUS
<1>1. SdkTyped /\ (scene = "sdk" => job \in [Workers -> ProviderRequest])
    BY DEF SdkInv
<1>2. MaxRetries \in Nat
    BY ProvidersAssumption
<1>3. scene = "sdk" => \A w \in Workers : IsAt(w, "try") => job[w].tries <= MaxRetries
    BY <1>1, <1>2 DEF ProviderRequest, IsAt
<1> QED BY <1>1, <1>3 DEF SdkTyped, ProvidersTypeOK

\* Records, files, keys, copies, lists, calls, tables and rows keep their shape
\* and their limits, whatever runs: no segment of a log overflows, nothing that
\* is unique is there twice, no call is tried too often, and no key of the
\* database, whichever migrations are in, is without its table or its row.
THEOREM TypeCorrect == Spec => []TypeOK
<1> DEFINE Inv == /\ GateInv /\ CallsInv /\ EventsInv /\ SeedInv /\ ShipInv /\ ReadInv
                  /\ BoundInv /\ RowsInv /\ SchemaInv /\ Shaped
<1>1. Init => Inv
    BY InitGate, InitSdk, InitLlm, InitEvents, InitSeed, InitShip, InitRead, BoundInit, InitRows,
       InitSchema, InitShaped
    DEF CallsInv, AcknowledgedIsHandled, Init, ProvidersInit
<1>2. Inv /\ [Next]_vars => Inv'
  <2>1. Inv /\ [Next]_vars => LlmInv
    BY DEF CallsInv
  <2> QED BY <2>1, GateStep, CallsStep, EventsInvStep, SeedInvStep, ShipInvStep, ReadInvStep,
             BoundStep, RowsInvStep, SchemaInvStep, ShapedStep, Zenon
<1>3. Inv => TypeOK
  <2> SUFFICES ASSUME Inv PROVE TypeOK
    OBVIOUS
  <2>1. SdkInv
    BY DEF CallsInv
  <2> QED BY <2>1, ShipIsShaped, BoundServes, SeedIsShaped, EventsAreShaped, SdkIsShaped,
             SchemaInvServes, RowsInvServes
          DEF TypeOK, Shaped
<1> HIDE DEF Inv
<1> QED BY <1>1, <1>2, <1>3, PTL DEF Spec
================================================================================
