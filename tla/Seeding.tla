--------------------------------- MODULE Seeding ---------------------------------
(***************************************************************************)
(* The commands that fill the database: the reference data of every deploy, *)
(* the demo data and their reset, the plugins' own data, the first admin.  *)
(* A command is a sequence of steps in one session.  Rows that the same    *)
(* statements treat alike are one thing, of which there may be copies.     *)
(*                                                                         *)
(* What a command did since its last commit is its own, but for the locks  *)
(* that others wait for: a key inserted twice, a row deleted or changed,   *)
(* and a parent of a new row.                                              *)
(***************************************************************************)
EXTENDS FiniteSets, Integers, SequencesExt, Scenes

CONSTANTS
    Plugins,
    MaxCommands,   \* bound
    MaxTouches     \* bound on what operators and customers do meanwhile

VARIABLES
    copies,        \* of each thing, committed
    own,           \* the things that hold what an operator put there
    edited,        \* history: those an operator changed, and nobody removed
    mixed,         \* history: things that two commands under way insert
    used           \* history: commands and touches, against the bounds

seedingVars == <<copies, own, edited, mixed, used>>

ASSUME SeedingAssumption == IsFiniteSet(Plugins) /\ MaxCommands \in Nat /\ MaxTouches \in Nat

Core == {"currency", "settings", "plan", "user", "details", "pack", "method", "invoice", "country",
         "role", "grant", "bundle", "link", "tax", "sale", "ledger", "balance"}
Of(names) == {<<"core", x>> : x \in names}
Rows(p) == <<p, "rows">>
Rest(p) == <<p, "rest">>
Marker(p) == <<p, "marker">>
Things == Of(Core) \cup UNION {{Rows(p), Rest(p), Marker(p)} : p \in Plugins}

Seeds == On("seed")

-----------------------------------------------------------------------------
\* The steps of a command.
Ensure(names) == <<"ensure", Of(names)>>
Insert(names) == <<"insert", Of(names)>>
Overwrite(names) == <<"overwrite", Of(names)>>
Clear(names) == <<"clear", Of(names)>>
Write(names) == <<"file", Of(names)>>
Commit == <<"commit", {}>>

SeedTaxes == <<Ensure({"tax"}), Commit>>
SeedCountries == <<Ensure({"country"}), Commit>>
SeedMethods == <<Ensure({"method"}), Commit>>
SeedRoles == <<Ensure({"role"}), Commit>>

\* The demo data.  The settings are a file, written before anything is
\* committed; trial periods and details are overwritten.
InstallCurrencies == <<Ensure({"currency"}), Write({"settings"})>>
InstallPlans == <<Overwrite({"plan"})>>
InstallUsers == <<Ensure({"user"}), Overwrite({"details"})>>
InstallPacks == <<Ensure({"pack"})>>
InstallSales == <<Overwrite({"details"}), Ensure({"method"}), Ensure({"invoice"})>>
InstallRights == SeedCountries \o SeedRoles \o <<Ensure({"grant"}), Commit>>
Install == InstallCurrencies \o InstallPlans \o InstallUsers \o InstallPacks \o InstallSales \o InstallRights

\* The reset of the demo data: children before parents, then the catalog.
\* Plans are a plugin's, which clears and seeds them in hooks.
ClearActivity == <<Clear({"ledger"}), Clear({"sale", "invoice"}), Clear({"balance"})>>
ClearCatalog == <<Clear({"plan", "bundle", "pack"}), Clear({"tax"})>>
SeedCatalog == SeedTaxes \o <<Insert({"bundle"}), Ensure({"link"}), Ensure({"plan"})>>
Reset == ClearActivity \o ClearCatalog \o SeedCatalog \o SeedCountries \o <<Commit>>

SeedTests == <<Overwrite({"user"}), Commit, Ensure({"grant"}), Commit>>
CleanTests == <<Clear({"user"}), Commit>>
CreateAdmin == <<Overwrite({"user"}), Commit>> \o SeedRoles \o <<Ensure({"grant"}), Commit>>

Scripts ==
    [taxes |-> SeedTaxes, countries |-> SeedCountries, methods |-> SeedMethods, roles |-> SeedRoles,
     install |-> Install, reset |-> Reset, tests |-> SeedTests, clean |-> CleanTests, admin |-> CreateAdmin]

\* Of a plugin: what its populate() adds, and a marker.
SeedPlugin(p) == << <<"ensure", {Rows(p)}>>, <<"ensure", {Rest(p)}>>, <<"ensure", {Marker(p)}>>, Commit>>
ClearMarker(p) == << <<"clear", {Marker(p)}>>, Commit>>

\* The database is new, or has the demo data, or was reset and used (bound).
Provides(steps) == UNION {step[2] : step \in {s \in Range(steps) : s[1] # "clear"}}

SeedingInit ==
    /\ \E there \in {{}, Provides(Install), Provides(Reset) \cup Of({"sale", "ledger", "balance"})} :
          copies = [x \in Things |-> IF x \in there THEN 1 ELSE 0]
    /\ own = {} /\ edited = {} /\ mixed = {}
    /\ used = [commands |-> 0, touches |-> 0]

-----------------------------------------------------------------------------
\* The foreign keys: those that restrict, and those that cascade.
Restricts == {<<"sale", "bundle">>, <<"link", "tax">>}
Cascades == {<<"link", "bundle">>, <<"details", "user">>, <<"grant", "user">>, <<"invoice", "user">>}

Children(keys) == [x \in Things |-> {y \in Things : \E key \in keys : Of({key[1]}) = {y} /\ Of({key[2]}) = {x}}]
Restricted == Children(Restricts)
Cascaded == Children(Cascades)
Referring == Children(Restricts \cup Cascades)

WithCascades(xs) == xs \cup UNION {Cascaded[x] : x \in xs}

\* No unique key: the name of a bundle, and what customers bring.
Named == Of({"pack", "bundle"})
Unique(x) == x \notin Named \cup Of({"sale", "ledger", "link"})

Running(v) == IsAt(v, "run")
Others(w) == {v \in Workers \ {w} : Running(v)}

Inserting(v, x) == x \in job[v].new
Holding(v, x) == job[v].gone[x] > 0 \/ x \in job[v].changed

Left(w, x) == copies[x] - job[w].gone[x]
Sees(w, x) == Left(w, x) > 0 \/ x \in job[w].new

\* A new link needs a tax; without one there is no link.
Absent(w, xs) ==
    {x \in xs : ~Sees(w, x) /\ (x = <<"core", "link">> => Sees(w, <<"core", "tax">>))}

MayInsert(w, xs) ==
    \A v \in Others(w) : \A x \in xs :
       /\ ~(Unique(x) /\ Inserting(v, x))
       /\ \A y \in Things : job[v].gone[y] > 0 => x \notin Referring[y]

\* Rows of a child that are on their way hold the parent.
MayClear(w, xs) ==
    /\ \A v \in Others(w) : \A x \in xs :
          ~Holding(v, x) /\ \A y \in Referring[x] : ~Inserting(v, y)
    /\ \A x \in xs : \A y \in Restricted[x] \ xs : ~Sees(w, y)

-----------------------------------------------------------------------------
NoChange == [x \in Things |-> 0]
Session(cmd, names, todo, strict) ==
    [pc |-> "run", cmd |-> cmd, names |-> names, todo |-> todo, strict |-> strict, new |-> {},
     gone |-> NoChange, changed |-> {}, broken |-> FALSE, owed |-> {}, lost |-> {}]

\* Two commands that get or create the same names do not see each other.
StartScript(w) ==
    /\ Seeds /\ used.commands < MaxCommands
    /\ \E cmd \in DOMAIN Scripts :
          /\ Begin(w, Session(cmd, <<"core">>, Scripts[cmd], TRUE))
          /\ mixed' = IF cmd \in {"install", "reset"} /\ \E v \in Others(w) : job[v].cmd \in {"install", "reset"}
                      THEN mixed \cup Named ELSE mixed
    /\ used' = [used EXCEPT !.commands = @ + 1]
    /\ UNCHANGED <<copies, own, edited>>

\* flask seed, for some plugins in some order, strict or best effort.
StartSeed(w) ==
    /\ Seeds /\ used.commands < MaxCommands
    /\ \E ps \in (SUBSET Plugins) \ {{}}, strict \in BOOLEAN :
       \E names \in SetToSeqs(ps) :
          Begin(w, Session("seed", names, SeedPlugin(Head(names)), strict))
    /\ used' = [used EXCEPT !.commands = @ + 1]
    /\ UNCHANGED <<copies, own, edited, mixed>>

ResetMarkers(w) ==
    /\ Seeds /\ used.commands < MaxCommands
    /\ \E p \in Plugins : Begin(w, Session("unseed", <<p>>, ClearMarker(p), TRUE))
    /\ used' = [used EXCEPT !.commands = @ + 1]
    /\ UNCHANGED <<copies, own, edited, mixed>>

\* The step that is next, unless the session is broken.
At(w, op) == Running(w) /\ job[w].todo # <<>> /\ ~job[w].broken /\ Head(job[w].todo)[1] = op
Subject(w) == Head(job[w].todo)[2]
Stepped(w) ==
    [job[w] EXCEPT !.todo = Tail(@),
                   !.owed = @ \cup {x \in Subject(w) : Sees(w, x) \/ Absent(w, {x}) # {}}]

\* Get or create: what is there is left as it is.
EnsureRows(w) ==
    /\ Seeds /\ At(w, "ensure")
    /\ MayInsert(w, Absent(w, Subject(w)))
    /\ Go(w, [Stepped(w) EXCEPT !.new = @ \cup Absent(w, Subject(w))])
    /\ UNCHANGED seedingVars

InsertRows(w) ==
    /\ Seeds /\ At(w, "insert")
    /\ Go(w, [Stepped(w) EXCEPT !.new = @ \cup Subject(w)])
    /\ UNCHANGED seedingVars

OverwriteRows(w) ==
    /\ Seeds /\ At(w, "overwrite")
    /\ \A v \in Others(w), x \in Subject(w) : ~Holding(v, x)
    /\ MayInsert(w, Absent(w, Subject(w)))
    /\ Go(w, [Stepped(w) EXCEPT !.new = @ \cup Absent(w, Subject(w)),
                                !.changed = @ \cup {x \in Subject(w) : Left(w, x) > 0}])
    /\ UNCHANGED seedingVars

WriteFile(w) ==
    /\ Seeds /\ At(w, "file")
    /\ copies' = [x \in Things |-> IF x \in Subject(w) THEN 1 ELSE copies[x]]
    /\ own' = own \ Subject(w)
    /\ Go(w, Stepped(w))
    /\ UNCHANGED <<edited, mixed, used>>

\* DELETE takes the rows that are committed when it runs, and its own.
ClearRows(w) ==
    LET xs == WithCascades(Subject(w)) IN
    /\ Seeds /\ At(w, "clear") /\ MayClear(w, xs)
    /\ Go(w, [job[w] EXCEPT !.todo = Tail(@), !.new = @ \ xs, !.changed = @ \ xs,
                            !.gone = [x \in Things |-> IF x \in xs THEN copies[x] ELSE @[x]]])
    /\ UNCHANGED seedingVars

\* The others learn that rows they may have seen are gone.
Without(xs) ==
    [v \in Workers |-> IF Running(v) THEN [job[v] EXCEPT !.lost = @ \cup xs]
                       ELSE IF IsAt(v, "ok") THEN [job[v] EXCEPT !.owed = @ \ xs] ELSE job[v]]

CommitSession(w) ==
    LET gone == {x \in Things : job[w].gone[x] > 0} IN
    /\ Seeds /\ At(w, "commit")
    /\ copies' = [x \in Things |-> Left(w, x) + IF x \in job[w].new THEN 1 ELSE 0]
    /\ own' = own \ (gone \cup job[w].changed)
    /\ edited' = edited \ gone
    /\ job' = [Without(gone) EXCEPT ![w] =
                  [Stepped(w) EXCEPT !.new = {}, !.gone = NoChange, !.changed = {}]]
    /\ UNCHANGED <<mixed, used>>

\* The next plugin, or the end.
Finish(w) ==
    /\ Seeds /\ Running(w) /\ job[w].todo = <<>>
    /\ IF Len(job[w].names) > 1
       THEN Go(w, [job[w] EXCEPT !.names = Tail(@), !.todo = SeedPlugin(job[w].names[2])])
       ELSE Go(w, [pc |-> "ok", cmd |-> job[w].cmd, owed |-> job[w].owed \ job[w].lost])
    /\ UNCHANGED seedingVars

Report(w) == Seeds /\ IsAt(w, "ok") /\ Done(w) /\ UNCHANGED seedingVars

\* A statement is refused, a plugin's hook raises, or the shell dies.
Fail(w) ==
    /\ Seeds /\ Running(w) /\ job[w].cmd # "seed"
    /\ Done(w)
    /\ UNCHANGED seedingVars

\* Mutant: the errors that a plugin reports are not looked at.
FailPluginUnnoticed(w) ==
    /\ Seeds /\ Running(w) /\ job[w].cmd = "seed" /\ Len(job[w].todo) > 2
    /\ Go(w, [job[w] EXCEPT !.todo = SubSeq(@, Len(@) - 1, Len(@))])
    /\ UNCHANGED seedingVars

\* A plugin fails, or its marker does.  What it had added stays in the session,
\* unless a flush failed, after which the session does nothing any more.
FailPlugin(w) ==
    /\ Seeds /\ Running(w) /\ job[w].cmd = "seed" /\ job[w].todo # <<>>
    /\ \/ Done(w)
       \/ /\ ~job[w].strict
          /\ \E broken \in BOOLEAN :
                /\ job[w].broken => broken
                /\ Go(w, [job[w] EXCEPT !.todo = <<>>, !.broken = broken,
                                        !.owed = {x \in @ : x[1] # Head(job[w].names)},
                                        !.new = IF broken THEN {} ELSE @])
    /\ UNCHANGED seedingVars

-----------------------------------------------------------------------------
Touch == Seeds /\ used.touches < MaxTouches /\ used' = [used EXCEPT !.touches = @ + 1] /\ UNCHANGED mixed
Free(x) == \A v \in Workers : Running(v) => ~Holding(v, x)

EditRow ==
    /\ Touch
    /\ \E x \in Of({"tax", "country", "plan", "settings"}) :
          /\ copies[x] > 0 /\ Free(x)
          /\ own' = own \cup {x} /\ edited' = edited \cup {x}
    /\ UNCHANGED <<copies, job>>

\* A tax that a bundle is linked to is not deleted.
DeleteRow ==
    /\ Touch
    /\ \E x \in Of({"tax", "method"}) :
          /\ copies[x] > 0 /\ Free(x)
          /\ \A y \in Restricted[x] :
                copies[y] = 0 /\ \A v \in Workers : Running(v) => ~Inserting(v, y)
          /\ copies' = [copies EXCEPT ![x] = 0]
          /\ own' = own \ {x} /\ edited' = edited \ {x} /\ job' = Without({x})

\* A customer buys a bundle: the purchase, its tokens, and a row of the ledger.
Buy ==
    /\ Touch
    /\ copies[<<"core", "bundle">>] > 0 /\ \A x \in Of({"bundle", "balance"}) : Free(x)
    /\ copies' = [x \in Things |-> IF x = <<"core", "balance">> THEN 1
                                   ELSE IF x \in Of({"sale", "ledger"}) THEN copies[x] + 1 ELSE copies[x]]
    /\ UNCHANGED <<own, edited, job>>

SeedingNext ==
    \/ \E w \in Workers :
          \/ StartScript(w) \/ StartSeed(w) \/ ResetMarkers(w)
          \/ EnsureRows(w) \/ InsertRows(w) \/ OverwriteRows(w) \/ WriteFile(w) \/ ClearRows(w)
          \/ CommitSession(w) \/ Finish(w) \/ Report(w) \/ Fail(w) \/ FailPlugin(w)
    \/ EditRow \/ DeleteRow \/ Buy

-----------------------------------------------------------------------------
OfOneRow == {x \in Things : Unique(x)}

SeedingTypeOK ==
    /\ \A x \in Things : copies[x] \in Nat
    /\ \A x \in OfOneRow : copies[x] <= 1
    /\ own \subseteq Things /\ edited \subseteq Things /\ mixed \subseteq Named

\* What a command that ended well got or created is there, unless somebody
\* removed it meanwhile, also when others ran at the same time, and when it
\* is run again after it failed anywhere.
SuccessIsWhole ==
    \A w \in Workers : scene = "seed" /\ IsAt(w, "ok") => \A x \in job[w].owed : copies[x] > 0

\* A plugin with a marker has all its data.
MarkersAreTruthful ==
    \A p \in Plugins : copies[Marker(p)] > 0 => copies[Rows(p)] > 0 /\ copies[Rest(p)] > 0

\* Bundles, whose names need not differ, are not there twice, unless two
\* commands that create them overlapped.
NothingTwice == \A x \in Named \ mixed : copies[x] <= 1

\* An operator's edits survive the commands of every deploy, but for the
\* settings and the trial periods, which the demo data overwrite.
EditsSurvive == edited \ Of({"plan", "settings"}) \subseteq own

\* The commands leave whole what they say they did, once, and leave alone what
\* was there, wherever they fail or meet.
SeedsAreWhole == SuccessIsWhole /\ MarkersAreTruthful /\ NothingTwice /\ EditsSurvive
================================================================================
