------------------------- MODULE PluginManagerProofs -------------------------
(***************************************************************************)
(* Theorems about PluginManager, for any processes, plugins, dependencies  *)
(* and files.                                                              *)
(***************************************************************************)
EXTENDS PluginManager, TLAPS

-----------------------------------------------------------------------------
(***************************************************************************)
(* What a boot should enable, and in which order.                          *)
(***************************************************************************)

\* A fine plugin whose dependencies should be enabled should be, too.
LEMMA BootableGrows ==
    ASSUME NEW d, NEW W, NEW p \in Fine(d, W), Requires(d, p) \subseteq Bootable(d, W)
    PROVE  p \in Bootable(d, W)
<1>1. p \in W
  BY DEF Fine
<1>2. ASSUME NEW S \in SUBSET W, Closed(d, W, S)
      PROVE  p \in S
  <2>1. Requires(d, p) \subseteq S
    BY <1>2 DEF Bootable
  <2> QED
    BY <1>2, <2>1 DEF Closed
<1> QED
  BY <1>1, <1>2 DEF Bootable

\* No other plugin should be: the set is the least one.
LEMMA BootableNeeds ==
    ASSUME NEW d, NEW W, NEW p \in Bootable(d, W)
    PROVE  p \in Fine(d, W) /\ Requires(d, p) \subseteq Bootable(d, W)
<1> DEFINE S == {r \in Bootable(d, W) : r \in Fine(d, W)
                                         /\ Requires(d, r) \subseteq Bootable(d, W)}
<1>1. S \in SUBSET W
  BY DEF Bootable
<1>2. Closed(d, W, S)
  <2> SUFFICES ASSUME NEW r \in Fine(d, W), Requires(d, r) \subseteq S
               PROVE  r \in S
    BY DEF Closed
  <2>1. Requires(d, r) \subseteq Bootable(d, W)
    OBVIOUS
  <2> QED
    BY <2>1, BootableGrows
<1>3. p \in S
  BY <1>1, <1>2 DEF Bootable
<1> QED
  BY <1>3

\* A plugin on or behind a dependency cycle should not be enabled.
LEMMA BootableAcyclic ==
    ASSUME NEW d, NEW W, NEW p \in Bootable(d, W)
    PROVE  p \notin Cyclic(d, W)
<1> DEFINE S == W \ Cyclic(d, W)
<1>1. ASSUME NEW r \in Fine(d, W), Requires(d, r) \subseteq S, r \in Cyclic(d, W)
      PROVE  FALSE
  <2>1. PICK C \in SUBSET W : r \in C /\ \A x \in C : Requires(d, x) \cap C # {}
    BY <1>1 DEF Cyclic
  <2>2. PICK x \in Requires(d, r) : x \in C
    BY <2>1
  <2>3. x \in Cyclic(d, W)
    BY <2>1, <2>2 DEF Cyclic
  <2> QED
    BY <1>1, <2>2, <2>3
<1>2. Closed(d, W, S)
  BY <1>1 DEF Closed, Fine
<1> QED
  BY <1>2 DEF Bootable

\* Trying p, after what it depends on, keeps the enabled plugins S exact.
LEMMA TriedIsExact ==
    ASSUME NEW d, NEW W, NEW S, NEW T, NEW p \in W,
           S \subseteq Bootable(d, W), Bootable(d, W) \ (T \cup {p}) \subseteq S,
           p \in Cyclic(d, W) \/ Requires(d, p) \cap (T \cup {p}) = {}
    PROVE  /\ Tried(d, p, S) \subseteq Bootable(d, W)
           /\ Bootable(d, W) \ T \subseteq Tried(d, p, S)
<1>1. Tried(d, p, S) \subseteq Bootable(d, W)
  <2>1. CASE MayEnable(d, p, S) /\ p \notin d.faulty
    <3>1. p \in Fine(d, W)
      BY <2>1 DEF Fine, MayEnable, DependenciesMet, Licensed
    <3>2. Requires(d, p) \subseteq Bootable(d, W)
      BY <2>1 DEF MayEnable, DependenciesMet
    <3>3. p \in Bootable(d, W)
      BY <3>1, <3>2, BootableGrows
    <3> QED
      BY <2>1, <3>3 DEF Tried, Enabled
  <2>2. CASE ~(MayEnable(d, p, S) /\ p \notin d.faulty)
    BY <2>2 DEF Tried, Enabled
  <2> QED
    BY <2>1, <2>2
<1>2. S \subseteq Tried(d, p, S)
  BY DEF Tried, Enabled
<1>3. ASSUME p \in Bootable(d, W)
      PROVE  p \in Tried(d, p, S)
  <2>1. p \in Fine(d, W) /\ Requires(d, p) \subseteq Bootable(d, W)
    BY <1>3, BootableNeeds
  <2>2. Requires(d, p) \cap (T \cup {p}) = {}
    BY <1>3, BootableAcyclic
  <2>3. Requires(d, p) \subseteq S
    BY <2>1, <2>2
  <2> QED
    BY <2>1, <2>3 DEF Fine, Tried, Enabled, MayEnable, DependenciesMet, Licensed
<1> QED
  BY <1>1, <1>2, <1>3

-----------------------------------------------------------------------------
(***************************************************************************)
(* Saves.                                                                  *)
(***************************************************************************)

\* A save is a file again, and changes the flag of one plugin.
LEMMA SaveIsFile ==
    ASSUME NEW f \in Files, NEW p \in Plugins, NEW flag \in BOOLEAN, NEW stamp \in BOOLEAN
    PROVE  /\ Save(f, p, flag, stamp) \in Files
           /\ flag => Persisted(Save(f, p, flag, stamp)) = Persisted(f) \cup {p}
           /\ ~flag => Persisted(Save(f, p, flag, stamp)) = Persisted(f) \ {p}
<1> DEFINE Entries == [enabled: BOOLEAN, stale: BOOLEAN]
<1>1. PICK S \in SUBSET Plugins : f \in [S -> Entries]
  BY DEF Files
<1>2. DOMAIN f = S /\ S \cup {p} \in SUBSET Plugins
  BY <1>1
<1>3. \A x \in S : f[x] \in Entries /\ f[x].enabled \in BOOLEAN /\ f[x].stale \in BOOLEAN
  BY <1>1
<1>4. (~stamp /\ (p \in DOMAIN f => f[p].stale)) \in BOOLEAN
  BY <1>2, <1>3
<1>5. Save(f, p, flag, stamp) \in [S \cup {p} -> Entries]
  BY <1>2, <1>3, <1>4 DEF Save
<1>6. Save(f, p, flag, stamp) \in Files
  BY <1>2, <1>5 DEF Files
<1>7. /\ DOMAIN Save(f, p, flag, stamp) = S \cup {p}
      /\ Save(f, p, flag, stamp)[p].enabled = flag
      /\ \A x \in S \ {p} : Save(f, p, flag, stamp)[x] = f[x]
  BY <1>2 DEF Save
<1> QED
  BY <1>2, <1>6, <1>7 DEF Persisted

\* A process that is down, and empty configurations, have their types.
LEMMA DownType ==
    ASSUME PluginConstants
    PROVE  Down \in ProcType /\ EmptyConfigs \in ConfigFiles
<1>1. EmptyConfigs \in ConfigFiles
  BY DEF EmptyConfigs, ConfigFiles
<1>2. [p \in {} |-> {}] \in [{} -> [enabled: BOOLEAN, stale: BOOLEAN]]
  OBVIOUS
<1>3. [p \in {} |-> {}] \in Files
  BY <1>2 DEF Files
<1> QED
  BY <1>1, <1>3 DEF Down, ProcType

-----------------------------------------------------------------------------
(***************************************************************************)
(* The inductive invariant.                                                *)
(***************************************************************************)

\* The plugin whose save is under way, if any.
Pending(q) == IF proc[q].pc \in {"file", "config"} THEN {proc[q].plugin} ELSE {}

Restoring(q) ==
    \/ proc[q].pc = "loading"
    \/ proc[q].pc = "file" /\ proc[q].op = "pin"

LicenceOf(q) ==
    /\ \A p \in on[q] : Licensed(deployment, p)
    /\ (proc[q].pc \in {"file", "config"} /\ proc[q].op = "admin" /\ proc[q].flag)
          => Licensed(deployment, proc[q].plugin)

\* A process that was alone has read the file as it is, and memory and file
\* differ in the plugin being saved at most.
PersistedOf(q) == proc[q].alone =>
    /\ Restoring(q) => proc[q].want \subseteq Persisted(file)
    /\ proc[q].pc = "file" =>
         /\ proc[q].file = file
         /\ proc[q].op \in {"pin", "default", "admin", "shell"}
         /\ proc[q].op = "pin" => proc[q].plugin \in proc[q].want
         /\ proc[q].op \in {"pin", "default"} => proc[q].flag
         /\ (proc[q].op = "shell" /\ ~proc[q].flag) => proc[q].plugin \notin on[q]
    /\ on[q] \subseteq Persisted(file) \cup Pending(q)
    /\ (proc[q].pc = "config" /\ (proc[q].op # "admin" \/ proc[q].flag))
          => on[q] \subseteq Persisted(file)
    /\ (proc[q].pc = "config" /\ proc[q].op = "admin" /\ proc[q].flag)
          => proc[q].plugin \in Persisted(file)

\* While a boot restores plugins: those tried so far are enabled exactly if
\* they should be, and one whose pin is being saved waits for nothing.
BootOf(q) == Restoring(q) =>
    /\ proc[q].todo \subseteq proc[q].want
    /\ on[q] \subseteq Bootable(deployment, proc[q].want)
    /\ Bootable(deployment, proc[q].want) \ (proc[q].todo \cup Pending(q)) \subseteq on[q]
    /\ \A p \in Pending(q) :
         /\ p \in proc[q].want
         /\ \/ p \in Cyclic(deployment, proc[q].want)
            \/ Requires(deployment, p) \cap (proc[q].todo \cup {p}) = {}

ProcInv(q) ==
    /\ proc[q].pc = "down" => on[q] = {}
    /\ LicenceOf(q)
    /\ PersistedOf(q)
    /\ BootOf(q)

Inv == TypeOK /\ \A q \in Procs : ProcInv(q)

\* The initial states satisfy the invariant.
LEMMA InitInv ==
    Init => Inv
<1> SUFFICES ASSUME Init PROVE Inv
  OBVIOUS
<1> USE PluginConstants, DownType
<1>1. TypeOK
  <2>1. file \in Files /\ config \in ConfigFiles
    BY DEF Init
  <2>2. proc \in [Procs -> ProcType] /\ on \in [Procs -> SUBSET Plugins]
        /\ cfg \in [Procs -> ConfigFiles] /\ requests \in 0..MaxRequests
    BY DEF Init
  <2>3. \A q \in Procs : proc[q].stale \subseteq proc[q].want
                         /\ proc[q].pc \notin {"file", "config"}
    BY DEF Init, Down
  <2> QED
    BY <2>1, <2>2, <2>3 DEF Init, TypeOK
<1>2. \A q \in Procs : on[q] = {} /\ proc[q].pc = "down" /\ proc[q].alone = FALSE
  BY DEF Init, Down
<1>3. ASSUME NEW q \in Procs PROVE ProcInv(q)
  BY <1>2 DEF ProcInv, LicenceOf, PersistedOf, BootOf, Restoring
<1> QED
  BY <1>1, <1>3 DEF Inv

-----------------------------------------------------------------------------
(***************************************************************************)
(* What a step leaves alone.                                               *)
(***************************************************************************)

\* A process that nothing happens to keeps its invariant ...
LEMMA Untouched ==
    ASSUME NEW r \in Procs, ProcInv(r), proc'[r] = proc[r], on'[r] = on[r],
           UNCHANGED <<deployment, file>>
    PROVE  ProcInv(r)'
  BY DEF ProcInv, LicenceOf, PersistedOf, BootOf, Restoring, Pending

\* ... and so does one that is not alone any more.
LEMMA NotAlone ==
    ASSUME NEW r \in Procs, ProcInv(r), TypeOK, UNCHANGED deployment,
           proc'[r] = [proc[r] EXCEPT !.alone = FALSE], on'[r] = on[r]
    PROVE  ProcInv(r)'
<1>1. proc[r] \in ProcType
  BY DEF TypeOK
<1>2. /\ proc'[r].pc = proc[r].pc /\ proc'[r].op = proc[r].op
      /\ proc'[r].plugin = proc[r].plugin /\ proc'[r].flag = proc[r].flag
      /\ proc'[r].want = proc[r].want /\ proc'[r].todo = proc[r].todo
      /\ proc'[r].alone = FALSE
  BY <1>1 DEF ProcType
<1> QED
  BY <1>2 DEF ProcInv, LicenceOf, PersistedOf, BootOf, Restoring, Pending

\* The first half of a save.
LEMMA ReadFileType ==
    ASSUME TypeOK, NEW q \in Procs, NEW p \in Plugins, NEW flag \in BOOLEAN,
           NEW op \in {"pin", "default", "admin", "shell"}, ReadFile(q, op, p, flag)
    PROVE  /\ proc' \in [Procs -> ProcType]
           /\ \A r \in Procs \ {q} : proc'[r] = proc[r]
           /\ proc'[q].pc = "file" /\ proc'[q].op = op /\ proc'[q].plugin = p
           /\ proc'[q].flag = flag /\ proc'[q].file = file
           /\ proc'[q].want = proc[q].want /\ proc'[q].stale = proc[q].stale
           /\ proc'[q].todo = proc[q].todo \ {p}
           /\ proc'[q].alone = proc[q].alone
<1>1. proc \in [Procs -> ProcType] /\ proc[q] \in ProcType /\ file \in Files
  BY DEF TypeOK
<1>2. proc[q].todo \ {p} \in SUBSET Plugins
  BY <1>1 DEF ProcType
<1> QED
  BY <1>1, <1>2 DEF ReadFile, ProcType

\* The gates make a set of plugins of a set of plugins.
LEMMA GateType ==
    ASSUME NEW d, NEW p \in Plugins, NEW S \in SUBSET Plugins
    PROVE  Tried(d, p, S) \in SUBSET Plugins
  BY DEF Tried, Enabled

-----------------------------------------------------------------------------
(***************************************************************************)
(* The actions, one lemma each for those that do something of their own.   *)
(***************************************************************************)
\* A boot starts with nothing enabled and everything to restore.
LEMMA BootInv ==
    ASSUME Inv, NEW q \in Procs, Boot(q)
    PROVE  Inv'
<1>1. TypeOK /\ file \in Files /\ config \in ConfigFiles
  BY DEF Inv, TypeOK
<1>2. Persisted(file) \in SUBSET Plugins
  BY <1>1 DEF Files, Persisted
<1> DEFINE stale == {p \in Persisted(file) : file[p].stale}
<1>3. proc'[q] = [Down EXCEPT !.pc = "loading", !.want = Persisted(file),
                              !.stale = stale, !.todo = Persisted(file),
                              !.alone = TRUE]
  BY <1>1 DEF Boot, TypeOK
<1>4. /\ proc'[q].pc = "loading" /\ proc'[q].want = Persisted(file)
      /\ proc'[q].stale = stale /\ proc'[q].todo = Persisted(file)
  BY <1>3 DEF Down
<1>5. proc'[q] \in ProcType
  BY <1>2, <1>3, PluginConstants, DownType DEF ProcType
<1>6. proc' \in [Procs -> ProcType] /\ \A r \in Procs \ {q} : proc'[r] = proc[r]
  BY <1>1, <1>5 DEF Boot, TypeOK
<1>7. cfg' \in [Procs -> ConfigFiles]
  BY <1>1 DEF Boot, TypeOK, ConfigFiles
<1>8. TypeOK'
  BY <1>1, <1>4, <1>6, <1>7 DEF Boot, files, TypeOK
<1>9. on[q] = {} /\ on' = on /\ UNCHANGED <<deployment, file>>
  BY DEF Boot, files, Inv, ProcInv
<1>10. ProcInv(q)'
  <2>1. Bootable(deployment, Persisted(file)) \subseteq Persisted(file)
    BY DEF Bootable
  <2> QED
    BY <1>4, <1>9, <2>1
    DEF ProcInv, LicenceOf, PersistedOf, BootOf, Restoring, Pending
<1> QED
  BY <1>6, <1>8, <1>9, <1>10, Untouched DEF Inv

\* A process that stops has nothing enabled.
LEMMA StopInv ==
    ASSUME Inv, NEW q \in Procs, Stop(q)
    PROVE  Inv'
<1>1. TypeOK
  BY DEF Inv
<1>2. proc'[q] = Down /\ on'[q] = {} /\ UNCHANGED <<deployment, file>>
  BY <1>1 DEF Stop, TypeOK, files
<1>3. \A r \in Procs \ {q} : proc'[r] = proc[r] /\ on'[r] = on[r]
  BY <1>1 DEF Stop, TypeOK
<1>4. /\ proc' \in [Procs -> ProcType] /\ on' \in [Procs -> SUBSET Plugins]
      /\ cfg' \in [Procs -> ConfigFiles]
  BY <1>1, PluginConstants, DownType DEF Stop, TypeOK
<1>5. TypeOK'
  BY <1>1, <1>2, <1>3, <1>4 DEF Stop, files, TypeOK, Down
<1>6. ProcInv(q)'
  BY <1>2 DEF ProcInv, LicenceOf, PersistedOf, BootOf, Restoring, Pending, Down
<1> QED
  BY <1>2, <1>3, <1>5, <1>6, Untouched DEF Inv

\* A plugin whose pin is to be saved is neither tried nor to do.
LEMMA ReconcilePinInv ==
    ASSUME Inv, NEW q \in Procs, NEW p \in Plugins, ReconcilePin(q, p)
    PROVE  Inv'
<1>1. TypeOK /\ ProcInv(q) /\ proc[q].pc = "loading" /\ Turn(q, p)
  BY DEF Inv, ReconcilePin
<1>2. ReadFile(q, "pin", p, TRUE)
      /\ UNCHANGED <<deployment, file, config, on, cfg, requests>>
  BY DEF ReconcilePin, files, memory
<1>3. /\ proc' \in [Procs -> ProcType]
      /\ \A r \in Procs \ {q} : proc'[r] = proc[r]
      /\ proc'[q].pc = "file" /\ proc'[q].op = "pin" /\ proc'[q].plugin = p
      /\ proc'[q].flag = TRUE /\ proc'[q].file = file
      /\ proc'[q].want = proc[q].want /\ proc'[q].stale = proc[q].stale
      /\ proc'[q].todo = proc[q].todo \ {p}
      /\ proc'[q].alone = proc[q].alone
  BY <1>1, <1>2, ReadFileType
<1>4. TypeOK'
  BY <1>1, <1>2, <1>3 DEF TypeOK
<1>5. p \in proc[q].todo /\ p \in proc[q].want
      /\ (p \in Cyclic(deployment, proc[q].want)
            \/ Requires(deployment, p) \cap proc[q].todo = {})
  BY <1>1 DEF Turn, ProcInv, BootOf, Restoring
<1>6. ProcInv(q)'
  <2>1. BootOf(q)'
    BY <1>1, <1>2, <1>3, <1>5 DEF ProcInv, BootOf, Restoring, Pending
  <2>2. PersistedOf(q)'
    BY <1>1, <1>2, <1>3, <1>5 DEF ProcInv, PersistedOf, Restoring, Pending
  <2> QED
    BY <1>1, <1>2, <1>3, <2>1, <2>2 DEF ProcInv, LicenceOf
<1> QED
  BY <1>2, <1>3, <1>4, <1>6, Untouched DEF Inv

\* A plugin is tried after all it depends on (TriedIsExact).
LEMMA RestoreInv ==
    ASSUME Inv, NEW q \in Procs, NEW p \in Plugins, Restore(q, p)
    PROVE  Inv'
<1>1. TypeOK /\ ProcInv(q) /\ proc[q].pc = "loading" /\ Turn(q, p)
  BY DEF Inv, Restore
<1>2. proc[q] \in ProcType /\ on[q] \in SUBSET Plugins
  BY <1>1 DEF TypeOK
<1>3. proc'[q] = [proc[q] EXCEPT !.todo = @ \ {p}]
      /\ on'[q] = Tried(deployment, p, on[q])
      /\ UNCHANGED <<deployment, file, config, cfg, requests>>
  BY <1>1 DEF Restore, TypeOK, files
<1>4. \A r \in Procs \ {q} : proc'[r] = proc[r] /\ on'[r] = on[r]
  BY <1>1 DEF Restore, TypeOK
<1>5. /\ proc'[q].pc = "loading" /\ proc'[q].want = proc[q].want
      /\ proc'[q].stale = proc[q].stale /\ proc'[q].todo = proc[q].todo \ {p}
      /\ proc'[q].alone = proc[q].alone /\ proc'[q] \in ProcType
  BY <1>1, <1>2, <1>3 DEF ProcType
<1>6. TypeOK'
  <2>1. proc' \in [Procs -> ProcType] /\ on' \in [Procs -> SUBSET Plugins]
    BY <1>1, <1>2, <1>3, <1>5, GateType DEF Restore, TypeOK
  <2> QED
    BY <1>1, <1>3, <1>4, <1>5, <2>1 DEF TypeOK
<1>7. /\ p \in proc[q].todo /\ p \in proc[q].want
      /\ proc[q].todo \subseteq proc[q].want
      /\ on[q] \subseteq Bootable(deployment, proc[q].want)
      /\ Bootable(deployment, proc[q].want) \ proc[q].todo \subseteq on[q]
      /\ \/ p \in Cyclic(deployment, proc[q].want)
         \/ Requires(deployment, p) \cap proc[q].todo = {}
  BY <1>1 DEF Turn, ProcInv, BootOf, Restoring, Pending
<1>8. /\ on'[q] \subseteq Bootable(deployment, proc[q].want)
      /\ Bootable(deployment, proc[q].want) \ (proc[q].todo \ {p}) \subseteq on'[q]
  <2> DEFINE W == proc[q].want
             S == on[q]
             T == proc[q].todo \ {p}
  <2>1. T \cup {p} = proc[q].todo
    BY <1>7
  <2>2. /\ p \in W /\ S \subseteq Bootable(deployment, W)
        /\ Bootable(deployment, W) \ (T \cup {p}) \subseteq S
        /\ \/ p \in Cyclic(deployment, W)
           \/ Requires(deployment, p) \cap (T \cup {p}) = {}
    BY <1>7, <2>1
  <2> HIDE DEF W, S, T
  <2>3. /\ Tried(deployment, p, S) \subseteq Bootable(deployment, W)
        /\ Bootable(deployment, W) \ T \subseteq Tried(deployment, p, S)
    BY <2>2, TriedIsExact
  <2> QED
    BY <1>3, <2>3 DEF W, S, T
<1>9. ProcInv(q)'
  <2>1. BootOf(q)'
    BY <1>1, <1>3, <1>5, <1>7, <1>8 DEF BootOf, Restoring, Pending
  <2>2. PersistedOf(q)'
    <3>1. Bootable(deployment, proc[q].want) \subseteq proc[q].want
      BY DEF Bootable
    <3> QED
      BY <1>1, <1>3, <1>5, <1>8, <3>1 DEF ProcInv, PersistedOf, Restoring, Pending
  <2>3. LicenceOf(q)'
    <3>1. \A x \in on'[q] : x \in on[q] \/ Licensed(deployment, x)
      BY <1>3 DEF Tried, Enabled, MayEnable
    <3> QED
      BY <1>1, <1>3, <1>5, <3>1 DEF ProcInv, LicenceOf
  <2> QED
    BY <1>5, <2>1, <2>2, <2>3 DEF ProcInv
<1> QED
  BY <1>3, <1>4, <1>6, <1>9, Untouched DEF Inv

\* A boot goes on to the defaults, or to its end.
LEMMA ServeInv ==
    ASSUME Inv, NEW q \in Procs,
           \/ Loaded(q)
           \/ Serve(q)
           \/ \E p \in Plugins : SkipDefault(q, p)
    PROVE  Inv'
<1>1. TypeOK /\ ProcInv(q) /\ proc[q] \in ProcType
  BY DEF Inv, TypeOK
<1>2. UNCHANGED <<deployment, file, config, on, cfg, requests>>
  BY DEF Loaded, Serve, SkipDefault, files, memory
<1>3. /\ proc'[q].pc \in {"defaults", "serving"} /\ proc'[q].alone = proc[q].alone
      /\ proc'[q].stale \subseteq proc'[q].want /\ proc'[q] \in ProcType
      /\ proc[q].pc \in {"loading", "defaults"}
      /\ proc' = [proc EXCEPT ![q] = proc'[q]]
  <2>1. CASE Loaded(q)
    <3>1. Down \in ProcType /\ Defaults \in SUBSET Plugins
      BY PluginConstants, DownType
    <3>2. proc'[q] = [Down EXCEPT !.pc = IF on[q] = {} THEN "defaults" ELSE "serving",
                                  !.todo = IF on[q] = {} THEN Defaults ELSE {},
                                  !.alone = proc[q].alone]
          /\ proc' = [proc EXCEPT ![q] = proc'[q]] /\ proc[q].pc = "loading"
      BY <1>1, <2>1 DEF Loaded, TypeOK
    <3> QED
      BY <1>1, <3>1, <3>2 DEF ProcType, Down
  <2>2. CASE Serve(q)
    <3>1. proc'[q] = [proc[q] EXCEPT !.pc = "serving"] /\ proc[q].pc = "defaults"
          /\ proc' = [proc EXCEPT ![q] = proc'[q]]
      BY <1>1, <2>2 DEF Serve, TypeOK
    <3> QED
      BY <1>1, <3>1 DEF ProcType, TypeOK
  <2>3. CASE \E p \in Plugins : SkipDefault(q, p)
    <3>1. PICK p \in Plugins : SkipDefault(q, p)
      BY <2>3
    <3>2. proc'[q] = [proc[q] EXCEPT !.todo = @ \ {p}] /\ proc[q].pc = "defaults"
          /\ proc' = [proc EXCEPT ![q] = proc'[q]]
      BY <1>1, <3>1 DEF SkipDefault, TypeOK
    <3> QED
      BY <1>1, <3>2 DEF ProcType, TypeOK
  <2> QED
    BY <2>1, <2>2, <2>3
<1>4. proc' \in [Procs -> ProcType] /\ \A r \in Procs \ {q} : proc'[r] = proc[r]
  BY <1>1, <1>3 DEF TypeOK
<1>5. TypeOK'
  BY <1>1, <1>2, <1>3, <1>4 DEF TypeOK
<1>6. ProcInv(q)'
  BY <1>1, <1>2, <1>3
  DEF ProcInv, LicenceOf, PersistedOf, BootOf, Restoring, Pending
<1> QED
  BY <1>2, <1>4, <1>5, <1>6, Untouched DEF Inv

\* enable_plugin, of a default or from a shell.
LEMMA EnablePluginInv ==
    ASSUME Inv, NEW q \in Procs, NEW p \in Plugins, NEW op \in {"default", "shell"},
           proc[q].pc \in {"defaults", "serving"}, EnablePlugin(q, op, p),
           requests' \in 0..MaxRequests
    PROVE  Inv'
<1>1. TypeOK /\ ProcInv(q) /\ on[q] \in SUBSET Plugins
  BY DEF Inv, TypeOK
<1>2. ReadFile(q, op, p, TRUE) /\ UNCHANGED <<deployment, file, config, cfg>>
  BY DEF EnablePlugin, files
<1>3. /\ proc' \in [Procs -> ProcType]
      /\ \A r \in Procs \ {q} : proc'[r] = proc[r]
      /\ proc'[q].pc = "file" /\ proc'[q].op = op /\ proc'[q].plugin = p
      /\ proc'[q].flag = TRUE /\ proc'[q].file = file
      /\ proc'[q].want = proc[q].want /\ proc'[q].stale = proc[q].stale
      /\ proc'[q].alone = proc[q].alone
  <2>1. CASE op = "default"
    BY <1>1, <1>2, <2>1, ReadFileType
  <2>2. CASE op = "shell"
    BY <1>1, <1>2, <2>2, ReadFileType
  <2> QED
    BY <2>1, <2>2
<1>4. /\ on'[q] = on[q] \cup {p} /\ Licensed(deployment, p)
      /\ on' \in [Procs -> SUBSET Plugins]
      /\ \A r \in Procs \ {q} : on'[r] = on[r]
  BY <1>1 DEF EnablePlugin, MayEnable, TypeOK
<1>5. TypeOK'
  BY <1>1, <1>2, <1>3, <1>4 DEF TypeOK
<1>6. ProcInv(q)'
  BY <1>1, <1>2, <1>3, <1>4
  DEF ProcInv, LicenceOf, PersistedOf, BootOf, Restoring, Pending
<1> QED
  BY <1>2, <1>3, <1>4, <1>5, <1>6, Untouched DEF Inv

\* The two uses of enable_plugin.
LEMMA EnableInv ==
    ASSUME Inv, NEW q \in Procs, NEW p \in Plugins,
           EnableDefault(q, p) \/ ShellEnable(q, p)
    PROVE  Inv'
<1>1. requests \in 0..MaxRequests
  BY DEF Inv, TypeOK
<1>2. CASE EnableDefault(q, p)
  BY <1>1, <1>2, EnablePluginInv DEF EnableDefault
<1>3. CASE ShellEnable(q, p)
  <2>1. requests' \in 0..MaxRequests
    BY <1>1, <1>3, PluginConstants DEF ShellEnable, Request
  <2> QED
    BY <1>3, <2>1, EnablePluginInv DEF ShellEnable, Request
<1> QED
  BY <1>2, <1>3

\* An administrator's request, or a command to disable, reads plugins.json.
LEMMA RequestInv ==
    ASSUME Inv, NEW q \in Procs, NEW p \in Plugins,
           AdminEnable(q, p) \/ AdminDisable(q, p) \/ ShellDisable(q, p)
    PROVE  Inv'
<1>1. TypeOK /\ ProcInv(q) /\ proc[q].pc = "serving" /\ on[q] \in SUBSET Plugins
  BY DEF Inv, TypeOK, AdminEnable, AdminDisable, ShellDisable, Request
<1>2. requests' \in 0..MaxRequests
      /\ UNCHANGED <<deployment, file, config, cfg>>
  <2>1. requests < MaxRequests /\ requests' = requests + 1
    BY DEF AdminEnable, AdminDisable, ShellDisable, Request
  <2>2. requests' \in 0..MaxRequests
    BY <1>1, <2>1, PluginConstants DEF TypeOK
  <2>3. UNCHANGED <<deployment, file, config, cfg>>
    BY DEF AdminEnable, AdminDisable, ShellDisable, files, memory
  <2> QED
    BY <2>2, <2>3
<1>3. PICK op \in {"admin", "shell"}, flag \in BOOLEAN :
        /\ ReadFile(q, op, p, flag)
        /\ (op = "admin" /\ flag) => Licensed(deployment, p)
        /\ on' = IF op = "admin" THEN on ELSE [on EXCEPT ![q] = @ \ {p}]
        /\ op = "shell" => ~flag
  <2>1. CASE AdminEnable(q, p)
    BY <2>1 DEF AdminEnable, MayEnable, memory
  <2>2. CASE AdminDisable(q, p)
    BY <2>2 DEF AdminDisable, memory
  <2>3. CASE ShellDisable(q, p)
    BY <2>3 DEF ShellDisable
  <2> QED
    BY <2>1, <2>2, <2>3
<1>4. /\ proc' \in [Procs -> ProcType]
      /\ \A r \in Procs \ {q} : proc'[r] = proc[r]
      /\ proc'[q].pc = "file" /\ proc'[q].op = op /\ proc'[q].plugin = p
      /\ proc'[q].flag = flag /\ proc'[q].file = file
      /\ proc'[q].want = proc[q].want /\ proc'[q].stale = proc[q].stale
      /\ proc'[q].alone = proc[q].alone
  BY <1>1, <1>3, ReadFileType
<1>5. /\ on' \in [Procs -> SUBSET Plugins]
      /\ \A r \in Procs \ {q} : on'[r] = on[r]
      /\ on'[q] \subseteq on[q]
      /\ op = "shell" => p \notin on'[q]
  BY <1>1, <1>3 DEF TypeOK
<1>6. TypeOK'
  BY <1>1, <1>2, <1>4, <1>5 DEF TypeOK
<1>7. ProcInv(q)'
  BY <1>1, <1>2, <1>3, <1>4, <1>5
  DEF ProcInv, LicenceOf, PersistedOf, BootOf, Restoring, Pending
<1> QED
  BY <1>2, <1>4, <1>5, <1>6, <1>7, Untouched DEF Inv

\* A saved configuration touches neither plugins.json nor memory.
LEMMA SaveConfigInv ==
    ASSUME Inv, NEW q \in Procs, NEW p \in Plugins, NEW c \in Configs,
           AdminSaveConfig(q, p, c)
    PROVE  Inv'
<1>1. TypeOK /\ ProcInv(q) /\ proc[q].pc = "serving" /\ proc[q] \in ProcType
      /\ config \in ConfigFiles
  BY DEF Inv, TypeOK, AdminSaveConfig, Request
<1>2. requests' \in 0..MaxRequests
      /\ UNCHANGED <<deployment, file, config, on, cfg>>
  BY <1>1, PluginConstants DEF AdminSaveConfig, Request, TypeOK, files, memory
<1>3. proc'[q] = [proc[q] EXCEPT !.pc = "config", !.op = "put", !.plugin = p,
                                 !.value = c, !.config = config]
      /\ proc' = [proc EXCEPT ![q] = proc'[q]]
  BY <1>1 DEF AdminSaveConfig, TypeOK
<1>4. /\ proc'[q].pc = "config" /\ proc'[q].op = "put" /\ proc'[q].plugin = p
      /\ proc'[q].want = proc[q].want /\ proc'[q].stale = proc[q].stale
      /\ proc'[q].alone = proc[q].alone /\ proc'[q] \in ProcType
  BY <1>1, <1>3 DEF ProcType
<1>5. proc' \in [Procs -> ProcType] /\ \A r \in Procs \ {q} : proc'[r] = proc[r]
  BY <1>1, <1>3, <1>4 DEF TypeOK
<1>6. TypeOK'
  BY <1>1, <1>2, <1>4, <1>5 DEF TypeOK
<1>7. ProcInv(q)'
  BY <1>1, <1>2, <1>4
  DEF ProcInv, LicenceOf, PersistedOf, BootOf, Restoring, Pending
<1> QED
  BY <1>2, <1>5, <1>6, <1>7, Untouched DEF Inv

\* The second half of a save, for any of them.
LEMMA WriteFileInv ==
    ASSUME Inv, NEW q \in Procs, WriteFile(q)
    PROVE  Inv'
<1> DEFINE p == proc[q].plugin
           stamp == proc[q].op # "admin"
<1>1. TypeOK /\ ProcInv(q) /\ proc[q].pc = "file" /\ proc[q] \in ProcType
      /\ p \in Plugins /\ proc[q].file \in Files /\ proc[q].flag \in BOOLEAN
      /\ on[q] \in SUBSET Plugins
  BY DEF Inv, TypeOK, WriteFile, ProcType
<1>2. file' = Save(proc[q].file, p, proc[q].flag, stamp)
      /\ UNCHANGED <<deployment, config, cfg, requests>>
  BY DEF WriteFile
<1>3. /\ file' \in Files
      /\ proc[q].flag => Persisted(file)' = Persisted(proc[q].file) \cup {p}
      /\ ~proc[q].flag => Persisted(file)' = Persisted(proc[q].file) \ {p}
  <2>1. stamp \in BOOLEAN
    OBVIOUS
  <2>2. Persisted(file)' = Persisted(Save(proc[q].file, p, proc[q].flag, stamp))
    BY <1>2 DEF Persisted
  <2> QED
    BY <1>1, <1>2, <2>1, <2>2, SaveIsFile
<1>4. ASSUME NEW r \in Procs, r # q
      PROVE  proc'[r] = [proc[r] EXCEPT !.alone = FALSE] /\ on'[r] = on[r]
  <2>1. OthersNotAlone(q)[r] = [proc[r] EXCEPT !.alone = FALSE]
    BY <1>1, <1>4 DEF OthersNotAlone, TypeOK, ProcType
  <2> QED
    BY <1>1, <1>4, <2>1 DEF WriteFile, TypeOK, OthersNotAlone
<1>5. /\ proc'[q].want = proc[q].want /\ proc'[q].stale = proc[q].stale
      /\ proc'[q].todo = proc[q].todo /\ proc'[q].alone = proc[q].alone
      /\ proc'[q] \in ProcType /\ on'[q] \in SUBSET Plugins
      /\ proc[q].op = "pin" =>
           /\ proc'[q].pc = "loading"
           /\ on'[q] = Tried(deployment, p, on[q])
      /\ proc[q].op # "pin" =>
           /\ proc'[q].pc = "config" /\ proc'[q].op = proc[q].op
           /\ proc'[q].plugin = p /\ proc'[q].flag = proc[q].flag
           /\ on'[q] = on[q]
  <2>1. CASE proc[q].op = "pin"
    <3>1. proc'[q] = Saved(q, "loading") /\ on'[q] = Tried(deployment, p, on[q])
      BY <1>1, <2>1 DEF WriteFile, OthersNotAlone, TypeOK
    <3>2. Saved(q, "loading") \in ProcType
      BY <1>1, PluginConstants, DownType DEF Saved, ProcType
    <3>3. Tried(deployment, p, on[q]) \in SUBSET Plugins
      BY <1>1 DEF Tried, Enabled
    <3>4. /\ proc'[q].pc = "loading"
          /\ proc'[q].want = proc[q].want /\ proc'[q].stale = proc[q].stale
          /\ proc'[q].todo = proc[q].todo /\ proc'[q].alone = proc[q].alone
      BY <3>1 DEF Saved, Down
    <3> QED
      BY <2>1, <3>1, <3>2, <3>3, <3>4
  <2>2. CASE proc[q].op # "pin"
    <3>1. proc'[q] = [OthersNotAlone(q)[q] EXCEPT !.pc = "config", !.config = config,
                                                  !.value = cfg[q][p]]
          /\ on'[q] = on[q]
      BY <2>2 DEF WriteFile, OthersNotAlone
    <3>2. OthersNotAlone(q)[q] = proc[q]
      BY <1>1 DEF OthersNotAlone, ProcType
    <3>3. cfg[q][p] \in Configs \cup {NoConfig} /\ config \in ConfigFiles
      BY <1>1 DEF TypeOK, ConfigFiles
    <3>4. proc'[q] = [proc[q] EXCEPT !.pc = "config", !.config = config,
                                     !.value = cfg[q][p]]
      BY <3>1, <3>2
    <3>5. /\ proc'[q].want = proc[q].want /\ proc'[q].stale = proc[q].stale
          /\ proc'[q].todo = proc[q].todo /\ proc'[q].alone = proc[q].alone
          /\ proc'[q].pc = "config" /\ proc'[q].op = proc[q].op
          /\ proc'[q].plugin = p /\ proc'[q].flag = proc[q].flag
      BY <1>1, <3>4 DEF ProcType
    <3>6. proc'[q] \in ProcType
      BY <1>1, <3>3, <3>4 DEF ProcType
    <3> QED
      BY <1>1, <2>2, <3>1, <3>5, <3>6
  <2> QED
    BY <2>1, <2>2
<1>6. TypeOK'
  <2>1. DOMAIN proc' = Procs /\ DOMAIN on' = Procs
        /\ proc' = [r \in Procs |-> proc'[r]] /\ on' = [r \in Procs |-> on'[r]]
    BY <1>1 DEF WriteFile, OthersNotAlone, TypeOK
  <2>2. ASSUME NEW r \in Procs
        PROVE  proc'[r] \in ProcType /\ on'[r] \in SUBSET Plugins
    <3>1. proc[r] \in ProcType /\ on[r] \in SUBSET Plugins
      BY <1>1 DEF TypeOK
    <3>2. [proc[r] EXCEPT !.alone = FALSE] \in ProcType
      BY <3>1 DEF ProcType
    <3> QED
      BY <1>4, <1>5, <3>1, <3>2
  <2>3. proc' \in [Procs -> ProcType] /\ on' \in [Procs -> SUBSET Plugins]
    BY <2>1, <2>2
  <2>4. ASSUME NEW r \in Procs
        PROVE  proc'[r].stale \subseteq proc'[r].want
               /\ (proc'[r].pc \in {"file", "config"} => proc'[r].plugin \in Plugins)
    <3>1. proc[r] \in ProcType /\ proc[r].stale \subseteq proc[r].want
          /\ (proc[r].pc \in {"file", "config"} => proc[r].plugin \in Plugins)
      BY <1>1 DEF TypeOK
    <3>2. CASE r = q
      BY <1>1, <1>5, <3>1, <3>2
    <3>3. CASE r # q
      BY <1>4, <3>1, <3>3 DEF ProcType
    <3> QED
      BY <3>2, <3>3
  <2> QED
    BY <1>1, <1>2, <1>3, <2>3, <2>4 DEF TypeOK
<1>7. ProcInv(q)'
  <2>1. CASE proc[q].op = "pin"
    <3>1. /\ p \in proc[q].want /\ proc[q].todo \subseteq proc[q].want
          /\ on[q] \subseteq Bootable(deployment, proc[q].want)
          /\ Bootable(deployment, proc[q].want) \ (proc[q].todo \cup {p}) \subseteq on[q]
          /\ \/ p \in Cyclic(deployment, proc[q].want)
             \/ Requires(deployment, p) \cap (proc[q].todo \cup {p}) = {}
      BY <1>1, <2>1 DEF ProcInv, BootOf, Restoring, Pending
    <3>2. /\ on'[q] \subseteq Bootable(deployment, proc[q].want)
          /\ Bootable(deployment, proc[q].want) \ proc[q].todo \subseteq on'[q]
      <4> DEFINE W == proc[q].want
                 S == on[q]
                 T == proc[q].todo
      <4>1. /\ Tried(deployment, p, S) \subseteq Bootable(deployment, W)
            /\ Bootable(deployment, W) \ T \subseteq Tried(deployment, p, S)
        BY <3>1, TriedIsExact
      <4> QED
        BY <1>5, <2>1, <4>1
    <3>3. BootOf(q)'
      BY <1>2, <1>5, <2>1, <3>1, <3>2 DEF BootOf, Restoring, Pending
    <3>4. LicenceOf(q)'
      <4>1. \A x \in on'[q] : x \in on[q] \/ Licensed(deployment, x)
        BY <1>5, <2>1 DEF Tried, Enabled, MayEnable
      <4> QED
        BY <1>1, <1>2, <1>5, <2>1, <4>1 DEF ProcInv, LicenceOf
    <3>5. PersistedOf(q)'
      <4> SUFFICES ASSUME proc[q].alone
                   PROVE  PersistedOf(q)'
        BY <1>5 DEF PersistedOf
      <4>1. proc[q].want \subseteq Persisted(file) /\ proc[q].file = file /\ proc[q].flag
        BY <1>1, <2>1 DEF ProcInv, PersistedOf, Restoring
      <4>2. Persisted(file)' = Persisted(file) \cup {p}
        BY <1>3, <4>1
      <4>3. on'[q] \subseteq proc[q].want
        BY <3>2 DEF Bootable
      <4> QED
        BY <1>5, <2>1, <4>1, <4>2, <4>3 DEF PersistedOf, Restoring, Pending
    <3> QED
      BY <1>5, <2>1, <3>3, <3>4, <3>5 DEF ProcInv
  <2>2. CASE proc[q].op # "pin"
    <3>1. LicenceOf(q)'
      BY <1>1, <1>2, <1>5, <2>2 DEF ProcInv, LicenceOf
    <3>2. PersistedOf(q)'
      <4> SUFFICES ASSUME proc[q].alone
                   PROVE  PersistedOf(q)'
        BY <1>5 DEF PersistedOf
      <4>1. /\ proc[q].file = file /\ proc[q].op \in {"default", "admin", "shell"}
            /\ proc[q].op = "default" => proc[q].flag
            /\ (proc[q].op = "shell" /\ ~proc[q].flag) => p \notin on[q]
            /\ on[q] \subseteq Persisted(file) \cup {p}
        BY <1>1, <2>2 DEF ProcInv, PersistedOf, Pending
      <4>2. CASE proc[q].flag
        <5>1. Persisted(file)' = Persisted(file) \cup {p}
          BY <1>3, <4>1, <4>2
        <5> QED
          BY <1>5, <2>2, <4>1, <5>1 DEF PersistedOf, Restoring, Pending
      <4>3. CASE ~proc[q].flag
        <5>1. Persisted(file)' = Persisted(file) \ {p}
          BY <1>3, <4>1, <4>3
        <5> QED
          BY <1>5, <2>2, <4>1, <4>3, <5>1 DEF PersistedOf, Restoring, Pending
      <4> QED
        BY <4>2, <4>3
    <3> QED
      BY <1>5, <2>2, <3>1, <3>2 DEF ProcInv, BootOf, Restoring
  <2> QED
    BY <2>1, <2>2
<1> QED
  BY <1>1, <1>2, <1>4, <1>6, <1>7, NotAlone DEF Inv

\* The end of a save: memory and plugins.json agree again.
LEMMA WriteConfigInv ==
    ASSUME Inv, NEW q \in Procs, WriteConfig(q)
    PROVE  Inv'
<1> DEFINE p == proc[q].plugin
           next == CASE proc[q].op = "default" -> "defaults"
                     [] proc[q].op = "shell" -> "done"
                     [] OTHER -> "serving"
<1>1. TypeOK /\ ProcInv(q) /\ proc[q].pc = "config" /\ proc[q] \in ProcType
      /\ p \in Plugins /\ on[q] \in SUBSET Plugins
  BY DEF Inv, TypeOK, WriteConfig
<1>2. UNCHANGED <<deployment, file, cfg, requests>>
  BY DEF WriteConfig
<1>3. proc'[q] = Saved(q, next) /\ next \in {"defaults", "done", "serving"}
  BY <1>1 DEF WriteConfig, TypeOK
<1>4. Saved(q, next) \in ProcType
  <2> HIDE DEF next
  <2> QED
    BY <1>1, <1>3, PluginConstants, DownType DEF Saved, ProcType
<1>5. /\ proc'[q].pc = next /\ proc'[q].want = proc[q].want
      /\ proc'[q].stale = proc[q].stale /\ proc'[q].alone = proc[q].alone
  <2> HIDE DEF next
  <2> QED
    BY <1>3 DEF Saved, Down
<1>6. on'[q] = IF proc[q].op # "admin" THEN on[q]
               ELSE IF proc[q].flag THEN Enabled(deployment, p, on[q])
               ELSE on[q] \ {p}
  BY <1>1 DEF WriteConfig, TypeOK
<1>7. \A r \in Procs \ {q} : proc'[r] = proc[r] /\ on'[r] = on[r]
  BY <1>1 DEF WriteConfig, TypeOK
<1>8. TypeOK'
  <2>1. config' \in ConfigFiles
    <3>1. proc[q].config \in ConfigFiles /\ proc[q].value \in Configs \cup {NoConfig}
      BY <1>1 DEF ProcType
    <3> QED
      BY <3>1 DEF WriteConfig, ConfigFiles
  <2>2. on'[q] \in SUBSET Plugins
    BY <1>1, <1>6 DEF Enabled
  <2>3. proc' \in [Procs -> ProcType] /\ on' \in [Procs -> SUBSET Plugins]
    <3>1. proc' = [proc EXCEPT ![q] = proc'[q]] /\ on' = [on EXCEPT ![q] = on'[q]]
      BY <1>1 DEF WriteConfig, TypeOK
    <3> QED
      BY <1>1, <1>3, <1>4, <2>2, <3>1 DEF TypeOK
  <2>4. \A r \in Procs : proc'[r].stale \subseteq proc'[r].want
    BY <1>1, <1>5, <1>7 DEF TypeOK
  <2>5. \A r \in Procs : proc'[r].pc \in {"file", "config"} => proc'[r].plugin \in Plugins
    BY <1>1, <1>3, <1>5, <1>7 DEF TypeOK
  <2> QED
    BY <1>1, <1>2, <2>1, <2>3, <2>4, <2>5 DEF TypeOK
<1>9. ProcInv(q)'
  <2>1. LicenceOf(q)'
    <3>1. \A x \in on'[q] : Licensed(deployment, x)
      BY <1>1, <1>6 DEF ProcInv, LicenceOf, Enabled
    <3> QED
      BY <1>2, <1>3, <1>5, <3>1 DEF LicenceOf
  <2>2. PersistedOf(q)'
    <3> SUFFICES ASSUME proc[q].alone
                 PROVE  on'[q] \subseteq Persisted(file)
      BY <1>2, <1>3, <1>5 DEF PersistedOf, Restoring, Pending
    <3>1. on[q] \subseteq Persisted(file) \cup {p}
      BY <1>1 DEF ProcInv, PersistedOf, Pending
    <3>2. (proc[q].op # "admin" \/ proc[q].flag) => on[q] \subseteq Persisted(file)
      BY <1>1 DEF ProcInv, PersistedOf
    <3>3. (proc[q].op = "admin" /\ proc[q].flag) => p \in Persisted(file)
      BY <1>1 DEF ProcInv, PersistedOf
    <3> QED
      BY <1>6, <3>1, <3>2, <3>3 DEF Enabled
  <2> QED
    BY <1>3, <1>5, <2>1, <2>2 DEF ProcInv, BootOf, Restoring
<1> QED
  BY <1>2, <1>7, <1>8, <1>9, Untouched DEF Inv

-----------------------------------------------------------------------------
(***************************************************************************)
(* The theorems.                                                           *)
(***************************************************************************)

\* Every step preserves the invariant.
LEMMA StepInv ==
    ASSUME Inv, [Next]_vars
    PROVE  Inv'
<1>1. CASE UNCHANGED vars
  <2>1. UNCHANGED <<deployment, file, config, on, cfg, proc, requests>>
    BY <1>1 DEF vars, files, memory
  <2>2. TypeOK'
    BY <2>1 DEF Inv, TypeOK
  <2> QED
    BY <2>1, <2>2, Untouched DEF Inv
<1>2. ASSUME NEW q \in Procs,
             Boot(q) \/ Stop(q) \/ WriteFile(q) \/ WriteConfig(q)
      PROVE  Inv'
  BY <1>2, BootInv, StopInv, WriteFileInv, WriteConfigInv
<1>3. ASSUME NEW q \in Procs, Loaded(q) \/ Serve(q)
      PROVE  Inv'
  BY <1>3, ServeInv
<1>4. ASSUME NEW q \in Procs, NEW p \in Plugins,
             ReconcilePin(q, p) \/ Restore(q, p) \/ SkipDefault(q, p)
      PROVE  Inv'
  BY <1>4, ReconcilePinInv, RestoreInv, ServeInv
<1>5. ASSUME NEW q \in Procs, NEW p \in Plugins,
             \/ EnableDefault(q, p) \/ ShellEnable(q, p)
             \/ AdminEnable(q, p) \/ AdminDisable(q, p) \/ ShellDisable(q, p)
      PROVE  Inv'
  BY <1>5, EnableInv, RequestInv
<1>6. ASSUME NEW q \in Procs, NEW p \in Plugins, NEW c \in Configs,
             AdminSaveConfig(q, p, c)
      PROVE  Inv'
  BY <1>6, SaveConfigInv
<1> QED
  BY <1>1, <1>2, <1>3, <1>4, <1>5, <1>6 DEF Next

\* The inductive invariant holds in every state.
THEOREM Invariance ==
    Spec => []Inv
<1>1. Init => Inv
  BY InitInv
<1>2. Inv /\ [Next]_vars => Inv'
  BY StepInv
<1> QED
  BY <1>1, <1>2, PTL DEF Spec

\* The variables keep their types.
THEOREM TypeCorrect ==
    Spec => []TypeOK
<1>1. Inv => TypeOK
  BY DEF Inv
<1> QED
  BY <1>1, Invariance, PTL

\* No process has a plugin enabled that needs a licence and has none.
THEOREM LicensedOnly ==
    Spec => []ActiveIsLicensed
<1>1. Inv => ActiveIsLicensed
  BY DEF Inv, ProcInv, LicenceOf, ActiveIsLicensed
<1> QED
  BY <1>1, Invariance, PTL

\* A process that was alone has enabled what is so in plugins.json.
THEOREM MemoryIsPersisted ==
    Spec => []EnabledIsPersisted
<1>1. Inv => EnabledIsPersisted
  BY DEF Inv, ProcInv, PersistedOf, Pending, EnabledIsPersisted
<1> QED
  BY <1>1, Invariance, PTL

\* A boot enables exactly the plugins it should.
THEOREM BootIsExact ==
    Spec => []BootEnablesBootable
<1>1. Inv => BootEnablesBootable
  BY DEF Inv, ProcInv, BootOf, Restoring, Pending, BootEnablesBootable
<1> QED
  BY <1>1, Invariance, PTL

-----------------------------------------------------------------------------
(***************************************************************************)
(* Commands in a shell.  What a shell has enabled stands on its own: each  *)
(* plugin of it would be enabled by a boot that had to restore just these. *)
(***************************************************************************)
Grounded(d, S) == S \subseteq Bootable(d, S)

NoRanges == \A p \in Plugins : deployment.ranged[p] = {}

ShellOf(q) ==
    /\ proc[q].op # "admin"
    /\ NoRanges => Grounded(deployment, on[q])

ShellInv == \A q \in Shells : ShellOf(q)

\* The more plugins there are to restore, the more a boot enables.
LEMMA BootableMonotone ==
    ASSUME NEW d, NEW W, NEW V, W \subseteq V
    PROVE  Bootable(d, W) \subseteq Bootable(d, V)
<1> SUFFICES ASSUME NEW p \in Bootable(d, W), NEW S \in SUBSET V, Closed(d, V, S)
             PROVE  p \in S
  BY DEF Bootable
<1>1. S \cap W \in SUBSET W
  OBVIOUS
<1>2. Closed(d, W, S \cap W)
  BY DEF Closed, Fine
<1> QED
  BY <1>1, <1>2 DEF Bootable

\* Enabling a plugin that passes the gates keeps the rest of them up.
LEMMA EnableGrounded ==
    ASSUME NEW d, NEW S, NEW p, Grounded(d, S), MayEnable(d, p, S), p \notin d.faulty
    PROVE  Grounded(d, S \cup {p})
<1>1. S \subseteq Bootable(d, S \cup {p})
  BY BootableMonotone DEF Grounded
<1>2. p \in Fine(d, S \cup {p}) /\ Requires(d, p) \subseteq S
  BY DEF Fine, MayEnable, DependenciesMet, Licensed
<1> QED
  BY <1>1, <1>2, BootableGrows DEF Grounded

LEMMA TriedGrounded ==
    ASSUME NEW d, NEW S, NEW p, Grounded(d, S)
    PROVE  Grounded(d, Tried(d, p, S))
  BY EnableGrounded DEF Tried, Enabled

\* Disabling one that nothing enabled depends on does, too.
LEMMA DisableGrounded ==
    ASSUME NEW d, NEW S, NEW p, Grounded(d, S), \A r \in S : p \notin Requires(d, r)
    PROVE  Grounded(d, S \ {p})
<1> SUFFICES ASSUME NEW r \in S \ {p}, NEW T \in SUBSET (S \ {p}), Closed(d, S \ {p}, T)
             PROVE  r \in T
  BY DEF Grounded, Bootable
<1>1. Closed(d, S, T \cup {p})
  <2> SUFFICES ASSUME NEW x \in Fine(d, S), Requires(d, x) \subseteq T \cup {p}, x # p
               PROVE  x \in T
    BY DEF Closed
  <2>1. x \in Fine(d, S \ {p}) /\ Requires(d, x) \subseteq T
    BY DEF Fine
  <2> QED
    BY <2>1 DEF Closed
<1>2. CASE p \in S
  BY <1>1, <1>2 DEF Grounded, Bootable
<1>3. CASE p \notin S
  <2>1. S \ {p} = S
    BY <1>3
  <2> QED
    BY <2>1 DEF Grounded, Bootable
<1> QED
  BY <1>2, <1>3

LEMMA EmptyGrounded == \A d : Grounded(d, {})
BY DEF Grounded

\* A process that does something, and the shells, which do something else.
LEMMA ShellUnless ==
    ASSUME ShellInv, UNCHANGED deployment, NEW q \in Procs,
           \A r \in Procs \ {q} : proc'[r].op = proc[r].op /\ on'[r] = on[r],
           q \in Shells => ShellOf(q)'
    PROVE  ShellInv'
<1>1. ASSUME NEW r \in Shells, r # q PROVE ShellOf(r)'
  BY <1>1 DEF ShellInv, ShellOf, NoRanges, Procs
<1> QED
  BY <1>1 DEF ShellInv

LEMMA ShellStep ==
    ASSUME Inv, ShellInv, [Next]_vars
    PROVE  ShellInv'
<1> USE DEF Procs
<1>t. /\ TypeOK /\ \A r \in Procs : proc[r] \in ProcType
      /\ on \in [Procs -> SUBSET Plugins] /\ proc \in [Procs -> ProcType]
  BY DEF Inv, TypeOK
<1>d. Down.op = "none"
  BY DEF Down
<1>1. ASSUME NEW q \in Procs, Boot(q) PROVE ShellInv'
  <2>1. /\ UNCHANGED <<deployment, on>> /\ proc'[q].op = "none"
        /\ \A r \in Procs \ {q} : proc'[r] = proc[r]
    BY <1>1, <1>t DEF Boot, Down
  <2> QED
    BY <2>1, ShellUnless DEF ShellInv, ShellOf, NoRanges
<1>2. ASSUME NEW q \in Procs, Stop(q) PROVE ShellInv'
  <2>1. /\ UNCHANGED deployment /\ proc'[q].op = "none" /\ on'[q] = {}
        /\ \A r \in Procs \ {q} : proc'[r] = proc[r] /\ on'[r] = on[r]
    BY <1>2, <1>t, <1>d DEF Stop
  <2> QED
    BY <2>1, EmptyGrounded, ShellUnless DEF ShellInv, ShellOf
<1>3. ASSUME NEW q \in Procs, Loaded(q) \/ Serve(q) PROVE ShellInv'
  <2>1. /\ UNCHANGED <<deployment, on>> /\ proc'[q].op \in {"none", proc[q].op}
        /\ \A r \in Procs \ {q} : proc'[r] = proc[r]
    <3>1. CASE Loaded(q)
      BY <3>1, <1>t DEF Loaded, Down, memory
    <3>2. CASE Serve(q)
      BY <3>2, <1>t DEF Serve, ProcType, memory
    <3> QED
      BY <1>3, <3>1, <3>2
  <2> QED
    BY <2>1, ShellUnless DEF ShellInv, ShellOf, NoRanges
<1>4. ASSUME NEW q \in Procs, NEW p \in Plugins, Restore(q, p) \/ SkipDefault(q, p)
      PROVE  ShellInv'
  <2>1. /\ UNCHANGED deployment /\ proc'[q].op = proc[q].op
        /\ \A r \in Procs \ {q} : proc'[r] = proc[r] /\ on'[r] = on[r]
        /\ on'[q] \in {on[q], Tried(deployment, p, on[q])}
    BY <1>4, <1>t DEF Restore, SkipDefault, ProcType, memory
  <2> QED
    BY <2>1, TriedGrounded, ShellUnless DEF ShellInv, ShellOf, NoRanges
<1>5. ASSUME NEW q \in Procs, NEW p \in Plugins, ReconcilePin(q, p) PROVE ShellInv'
  <2>1. UNCHANGED <<deployment, on>> /\ ReadFile(q, "pin", p, TRUE)
    BY <1>5 DEF ReconcilePin, memory
  <2>2. proc'[q].op = "pin" /\ \A r \in Procs \ {q} : proc'[r] = proc[r]
    BY <1>t, <2>1, ReadFileType
  <2> QED
    BY <2>1, <2>2, ShellUnless DEF ShellInv, ShellOf, NoRanges
<1>6. ASSUME NEW q \in Procs, NEW p \in Plugins, NEW op \in {"default", "shell"},
             EnablePlugin(q, op, p)
      PROVE  ShellInv'
  <2>1. /\ UNCHANGED deployment /\ ReadFile(q, op, p, TRUE)
        /\ MayEnable(deployment, p, on[q]) /\ p \notin deployment.faulty
        /\ on'[q] = on[q] \cup {p} /\ \A r \in Procs \ {q} : on'[r] = on[r]
    BY <1>6, <1>t DEF EnablePlugin
  <2>2. proc'[q].op = op /\ \A r \in Procs \ {q} : proc'[r] = proc[r]
    <3>1. CASE op = "default"
      BY <1>t, <2>1, <3>1, ReadFileType
    <3>2. CASE op = "shell"
      BY <1>t, <2>1, <3>2, ReadFileType
    <3> QED
      BY <3>1, <3>2
  <2> QED
    BY <2>1, <2>2, EnableGrounded, ShellUnless DEF ShellInv, ShellOf, NoRanges
<1>7. ASSUME NEW q \in Procs, NEW p \in Plugins, AdminEnable(q, p) \/ AdminDisable(q, p)
      PROVE  ShellInv'
  <2>1. PICK flag \in BOOLEAN : /\ UNCHANGED <<deployment, on>> /\ q \in Workers
                                /\ ReadFile(q, "admin", p, flag)
    BY <1>7 DEF AdminEnable, AdminDisable, Request, memory
  <2>2. \A r \in Procs \ {q} : proc'[r] = proc[r]
    BY <1>t, <2>1, ReadFileType
  <2> QED
    BY <2>1, <2>2, PluginConstants, ShellUnless
<1>8. ASSUME NEW q \in Procs, NEW p \in Plugins, NEW c \in Configs, AdminSaveConfig(q, p, c)
      PROVE  ShellInv'
  <2>1. /\ UNCHANGED <<deployment, on>> /\ q \in Workers
        /\ \A r \in Procs \ {q} : proc'[r] = proc[r]
    BY <1>8, <1>t DEF AdminSaveConfig, Request, memory
  <2> QED
    BY <2>1, PluginConstants, ShellUnless
<1>9. ASSUME NEW q \in Procs, NEW p \in Plugins, ShellDisable(q, p) PROVE ShellInv'
  <2>1. /\ UNCHANGED deployment /\ ReadFile(q, "shell", p, FALSE)
        /\ on'[q] = on[q] \ {p} /\ \A r \in Procs \ {q} : on'[r] = on[r]
        /\ \A x \in on[q] : p \notin deployment.bare[x]
    BY <1>9, <1>t DEF ShellDisable
  <2>2. proc'[q].op = "shell" /\ \A r \in Procs \ {q} : proc'[r] = proc[r]
    BY <1>t, <2>1, ReadFileType
  <2>3. NoRanges => \A x \in on[q] : p \notin Requires(deployment, x)
    BY <1>t, <2>1 DEF NoRanges, Requires
  <2>4. q \in Shells => ShellOf(q)'
    <3> SUFFICES ASSUME q \in Shells, NoRanges
                 PROVE  Grounded(deployment, on[q] \ {p})
      BY <2>1, <2>2 DEF ShellOf, NoRanges
    <3>1. Grounded(deployment, on[q])
      BY DEF ShellInv, ShellOf
    <3> QED
      BY <2>3, <3>1, DisableGrounded
  <2> QED
    BY <2>1, <2>2, <2>4, ShellUnless
<1>10. ASSUME NEW q \in Procs, WriteFile(q) PROVE ShellInv'
  <2> DEFINE p == proc[q].plugin
  <2>1. UNCHANGED deployment /\ on'[q] \in {on[q], Tried(deployment, p, on[q])}
        /\ \A r \in Procs \ {q} : on'[r] = on[r]
    BY <1>10, <1>t DEF WriteFile
  <2>2. \A r \in Procs \ {q} : proc'[r] = OthersNotAlone(q)[r]
    BY <1>10, <1>t DEF WriteFile, OthersNotAlone
  <2>3. \A r \in Procs : OthersNotAlone(q)[r].op = proc[r].op
    BY <1>t DEF OthersNotAlone, ProcType
  <2>4. proc'[q].op \in {"none", proc[q].op}
    <3>1. CASE proc[q].op = "pin"
      <4>1. proc'[q] = Saved(q, "loading")
        BY <1>10, <1>t, <3>1 DEF WriteFile, OthersNotAlone
      <4> QED
        BY <4>1 DEF Saved, Down
    <3>2. CASE proc[q].op # "pin"
      <4>1. proc'[q] = [OthersNotAlone(q)[q] EXCEPT !.pc = "config", !.config = config,
                                                   !.value = cfg[q][p]]
        BY <1>10, <1>t, <3>2 DEF WriteFile, OthersNotAlone
      <4>2. OthersNotAlone(q)[q] \in ProcType
        BY <1>t DEF OthersNotAlone, ProcType
      <4> QED
        BY <2>3, <4>1, <4>2 DEF ProcType
    <3> QED
      BY <3>1, <3>2
  <2> QED
    BY <2>1, <2>2, <2>3, <2>4, TriedGrounded, ShellUnless DEF ShellInv, ShellOf, NoRanges
<1>11. ASSUME NEW q \in Procs, WriteConfig(q) PROVE ShellInv'
  <2>1. PICK pc : /\ UNCHANGED deployment /\ proc'[q] = Saved(q, pc)
                  /\ \A r \in Procs \ {q} : proc'[r] = proc[r] /\ on'[r] = on[r]
    BY <1>11, <1>t DEF WriteConfig
  <2>2. proc'[q].op = "none"
    BY <2>1 DEF Saved, Down
  <2>3. proc[q].op # "admin" => on'[q] = on[q]
    BY <1>11, <1>t DEF WriteConfig
  <2> QED
    BY <2>1, <2>2, <2>3, ShellUnless DEF ShellInv, ShellOf, NoRanges
<1>12. CASE UNCHANGED vars
  BY <1>12 DEF vars, memory, ShellInv, ShellOf, NoRanges
<1> QED
  <2>1. ASSUME NEW q \in Procs, NEW p \in Plugins, EnableDefault(q, p) \/ ShellEnable(q, p)
        PROVE  ShellInv'
    BY <2>1, <1>6 DEF EnableDefault, ShellEnable
  <2> QED
    BY <1>1, <1>2, <1>3, <1>4, <1>5, <1>7, <1>8, <1>9, <1>10, <1>11, <1>12, <2>1 DEF Next

\* What commands in a shell leave enabled, a boot from the file they wrote
\* enables, whatever the dependencies among the plugins and whatever the
\* commands before it (PluginManager.enable_plugin and disable_plugin).
THEOREM CommandsOutliveShells ==
    Spec => []CommandOutlivesShell
<1>1. Init => ShellInv
  <2> SUFFICES ASSUME Init, NEW q \in Shells PROVE ShellOf(q)
    BY DEF ShellInv
  <2>1. proc[q] = Down /\ on[q] = {}
    BY DEF Init, Procs
  <2> QED
    BY <2>1, EmptyGrounded DEF ShellOf, Down
<1>2. Inv /\ ShellInv => CommandOutlivesShell
  <2> SUFFICES ASSUME Inv, ShellInv, NoRanges, NEW q \in Shells,
                      proc[q].alone, proc[q].pc \in {"serving", "done"}
               PROVE  on[q] \subseteq Bootable(deployment, Persisted(file))
    BY DEF CommandOutlivesShell, NoRanges
  <2>1. on[q] \subseteq Persisted(file)
    BY DEF Inv, ProcInv, PersistedOf, Pending, Procs
  <2>2. Bootable(deployment, on[q]) \subseteq Bootable(deployment, Persisted(file))
    BY <2>1, BootableMonotone
  <2> QED
    BY <2>2 DEF ShellInv, ShellOf, Grounded
<1> QED
  BY <1>1, <1>2, ShellStep, Invariance, PTL DEF Spec
=============================================================================
