------------------------------- MODULE Catalogue -------------------------------
(***************************************************************************)
(* What an administrator keeps in the catalog tables: payment methods and  *)
(* LLM connections, each with at most one default; tags and custom fields  *)
(* of an entity; the countries of the billing form; token bundles, and the *)
(* cached list of them that the shop reads.                                *)
(*                                                                         *)
(* Each of these is a scene.  Requests meet at READ COMMITTED, and a worker *)
(* may die between two commits.                                            *)
(***************************************************************************)
EXTENDS Integers, FiniteSets, FiniteSetsExt, Scenes

CONSTANTS
    Rows,         \* payment methods or connections, tags, countries
    Offers,       \* lists of active bundles
    MaxPosition   \* bound on the positions of countries

ASSUME CatalogueAssumption ==
    /\ IsFiniteSet(Rows) /\ None \notin Rows
    /\ MaxPosition \in Nat /\ Cardinality(Rows) <= MaxPosition + 1

VARIABLES
    entry,        \* scenes "methods" and "connections": the stored rows
    doubtful,     \* history: setting a default was overtaken, or imported
    tags,         \* scene "tags": the catalog of tags
    attached,     \* tags of the one entity looked at
    defs, values, \* scene "fields": field definitions; values of the one entity
    position,     \* scene "countries": place of each enabled one, 999 if disabled
    offer, cache, \* scene "bundles": active bundles, and the cached list
    excused       \* history: what the cache holds was overtaken

flagVars == <<entry, doubtful>>
tagVars == <<tags, attached>>
fieldVars == <<defs, values>>
bundleVars == <<offer, cache, excused>>
catalogueVars == <<flagVars, tagVars, fieldVars, position, bundleVars>>

-----------------------------------------------------------------------------
NoRow == [active |-> FALSE, default |-> FALSE, stored |-> FALSE]
Flags == [active : BOOLEAN, default : BOOLEAN, stored : {TRUE}]
Stored(m) == entry[m].stored
Defaults == {m \in Rows : entry[m].default}

Types == {"text", "number"}
Disabled == 999
Enabled == {c \in Rows : position[c] # Disabled}

CatalogueInit ==
    /\ entry = [m \in Rows |-> NoRow] /\ doubtful = FALSE
    /\ tags = {} /\ attached = {}
    /\ defs = [k \in Rows |-> None] /\ values = [k \in Rows |-> None]
    /\ position = [c \in Rows |-> Disabled]
    /\ offer \in Offers /\ cache = None /\ excused = FALSE

Methods == On("methods") /\ UNCHANGED <<tagVars, fieldVars, position, bundleVars>>
Connections == On("connections") /\ UNCHANGED <<tagVars, fieldVars, position, bundleVars>>
Tags == On("tags") /\ UNCHANGED <<flagVars, fieldVars, position, bundleVars>>
Fields == On("fields") /\ UNCHANGED <<flagVars, tagVars, position, bundleVars>>
Countries == On("countries") /\ UNCHANGED <<flagVars, tagVars, fieldVars, bundleVars, job>>
Bundles == On("bundles") /\ UNCHANGED <<flagVars, tagVars, fieldVars, position>>

\* Another default is being set.
Passed == Overtaken({"default", "off", "on"})

\* An import updates the rows it names and copies their flags, that of the
\* default too; it creates the others, with or without their flags; and it
\* deletes what it does not name when it replaces.
Imported(named, flagged, active, replace, withFlags) ==
    LET copied(m) == [active |-> active, default |-> m \in flagged, stored |-> TRUE]
        created(m) == IF withFlags THEN copied(m)
                      ELSE [active |-> FALSE, default |-> FALSE, stored |-> TRUE] IN
    [m \in Rows |-> IF m \notin named THEN (IF replace THEN NoRow ELSE entry[m])
                    ELSE IF Stored(m) /\ ~replace THEN copied(m) ELSE created(m)]

Import(withFlags) ==
    \E named \in (SUBSET Rows) \ {{}}, active, replace \in BOOLEAN :
        /\ \E flagged \in SUBSET named : entry' = Imported(named, flagged, active, replace, withFlags)
        /\ doubtful' = (doubtful \/ Cardinality(Defaults') > 1)
        /\ job' = Passed

-----------------------------------------------------------------------------
(***************************************************************************)
(* Payment methods.  The defaults are cleared by one statement and the new *)
(* one is set in the same transaction; the statement only meets the rows   *)
(* that were committed when it started.                                    *)
(***************************************************************************)
\* Mutant: a new default leaves the old one.
BeginWithoutClearing(w, m) ==
    /\ Methods
    /\ \E new \in {x \in BOOLEAN : x = ~Stored(m)}, active \in BOOLEAN :
          Begin(w, [pc |-> "default", row |-> m, create |-> new, active |-> active,
                    cleared |-> {}, late |-> FALSE])
    /\ UNCHANGED flagVars

\* A method is created as the default, or one is made the default.
ClearDefaults(w, m) ==
    /\ Methods
    /\ \E new \in {x \in BOOLEAN : x = ~Stored(m)}, active \in BOOLEAN :
          Begin(w, [pc |-> "default", row |-> m, create |-> new, active |-> active,
                    cleared |-> Defaults, late |-> FALSE])
    /\ UNCHANGED flagVars

\* The code is taken by now, or the method is gone: nothing is committed.
CommitDefault(w) ==
    LET r == job[w]
        without == [m \in Rows |-> IF m \in r.cleared THEN [entry[m] EXCEPT !.default = FALSE]
                                   ELSE entry[m]] IN
    /\ Methods /\ IsAt(w, "default")
    /\ IF Stored(r.row) # r.create
       THEN /\ entry' = [without EXCEPT ![r.row] =
                            [stored |-> TRUE, default |-> TRUE,
                             active |-> IF r.create THEN r.active ELSE entry[r.row].active]]
            /\ doubtful' = r.late
            /\ job' = [Passed EXCEPT ![w] = Idle]
       ELSE Done(w) /\ UNCHANGED flagVars

CreateMethod(m) ==
    /\ Methods /\ ~Stored(m)
    /\ \E active \in BOOLEAN :
          entry' = [entry EXCEPT ![m] = [active |-> active, default |-> FALSE, stored |-> TRUE]]
    /\ UNCHANGED <<doubtful, job>>

ImportMethods == Methods /\ Import(TRUE)

\* The general update sets "active" without looking at the default.
UpdateMethod(m) ==
    /\ Methods /\ Stored(m)
    /\ \E active \in BOOLEAN : entry' = [entry EXCEPT ![m].active = active]
    /\ UNCHANGED <<doubtful, job>>

\* Neither of these is done to the default, as far as the request has read.
CheckNotDefault(w, m) ==
    /\ Methods /\ Stored(m) /\ ~entry[m].default
    /\ \E step \in {"deactivate", "delete"} : Begin(w, [pc |-> step, row |-> m])
    /\ UNCHANGED flagVars

DeactivateMethod(w) ==
    /\ Methods /\ IsAt(w, "deactivate")
    /\ entry' = IF Stored(job[w].row) THEN [entry EXCEPT ![job[w].row].active = FALSE] ELSE entry
    /\ Done(w)
    /\ UNCHANGED doubtful

DeleteMethod(w) ==
    /\ Methods /\ IsAt(w, "delete")
    /\ entry' = [entry EXCEPT ![job[w].row] = NoRow]
    /\ job' = [Passed EXCEPT ![w] = Idle]
    /\ UNCHANGED doubtful

-----------------------------------------------------------------------------
(***************************************************************************)
(* LLM connections.  The old default is cleared by a commit of its own.    *)
(***************************************************************************)
CreateConnection(m) ==
    /\ Connections /\ ~Stored(m)
    /\ \E active \in BOOLEAN :
          entry' = [entry EXCEPT ![m] = [active |-> active, default |-> FALSE, stored |-> TRUE]]
    /\ UNCHANGED <<doubtful, job>>

UpdateConnection(m) ==
    /\ Connections /\ Stored(m)
    /\ \E active \in BOOLEAN : entry' = [entry EXCEPT ![m].active = active]
    /\ UNCHANGED <<doubtful, job>>

\* A connection an import creates waits for its key.
ImportConnections == Connections /\ Import(FALSE)

DeleteConnection(m) ==
    /\ Connections /\ Stored(m)
    /\ entry' = [entry EXCEPT ![m] = NoRow]
    /\ job' = Passed
    /\ UNCHANGED doubtful

\* Several are activated or deactivated, each in a commit of its own.
BeginSetActive(w) ==
    /\ Connections
    /\ \E ids \in SUBSET {m \in Rows : Stored(m)} \ {{}}, active \in BOOLEAN :
          Begin(w, [pc |-> "activate", todo |-> ids, active |-> active])
    /\ UNCHANGED flagVars

SetOneActive(w, m) ==
    /\ Connections /\ IsAt(w, "activate") /\ m \in job[w].todo
    /\ entry' = IF Stored(m)
                THEN [entry EXCEPT ![m].active = job[w].active,
                                   ![m].default = @ /\ job[w].active]
                ELSE entry
    /\ job' = [Passed EXCEPT ![w] = IF Stored(m) /\ job[w].todo # {m}
                                    THEN [job[w] EXCEPT !.todo = @ \ {m}] ELSE Idle]
    /\ UNCHANGED doubtful

\* Mutant: the old default is looked for after the new one is set.
BeginWithoutPrevious(w, m) ==
    /\ Connections /\ Stored(m) /\ entry[m].active
    /\ Begin(w, [pc |-> "on", row |-> m, previous |-> None, late |-> FALSE])
    /\ UNCHANGED flagVars

BeginMakeDefault(w, m) ==
    /\ Connections /\ Stored(m) /\ entry[m].active
    /\ \E p \in IF Defaults = {} THEN {None} ELSE Defaults :
          Begin(w, [pc |-> IF p \in {None, m} THEN "on" ELSE "off", row |-> m,
                    previous |-> p, late |-> FALSE])
    /\ UNCHANGED flagVars

FlipOff(w) ==
    LET p == job[w].previous IN
    /\ Connections /\ IsAt(w, "off")
    /\ IF Stored(p)
       THEN /\ entry' = [entry EXCEPT ![p].default = FALSE]
            /\ job' = [Passed EXCEPT ![w] = [job[w] EXCEPT !.pc = "on"]]
       ELSE Done(w) /\ UNCHANGED entry
    /\ UNCHANGED doubtful

FlipOn(w) ==
    LET m == job[w].row IN
    /\ Connections /\ IsAt(w, "on")
    /\ IF Stored(m)
       THEN /\ entry' = [entry EXCEPT ![m].default = TRUE]
            /\ doubtful' = (doubtful \/ job[w].late)
       ELSE UNCHANGED flagVars
    /\ job' = [Passed EXCEPT ![w] = Idle]

-----------------------------------------------------------------------------
(***************************************************************************)
(* Tags: unknown ones are created, a commit each, and then the tags of the *)
(* entity are deleted and inserted again.  A deleted tag takes its         *)
(* attachments along.                                                      *)
(***************************************************************************)
CreateTag(s) == Tags /\ s \notin tags /\ tags' = tags \cup {s} /\ UNCHANGED <<attached, job>>

\* Mutant: the attachments stay.
DeleteTagOnly(s) ==
    /\ Tags /\ s \in tags
    /\ tags' = tags \ {s}
    /\ UNCHANGED <<attached, job>>

DeleteTag(s) ==
    /\ Tags /\ s \in tags
    /\ tags' = tags \ {s} /\ attached' = attached \ {s}
    /\ UNCHANGED job

BeginSetTags(w) ==
    /\ Tags
    /\ \E want \in SUBSET Rows :
          Begin(w, [pc |-> "tags", want |-> want, missing |-> want \ tags])
    /\ UNCHANGED tagVars

EnsureTag(w, s) ==
    /\ Tags /\ IsAt(w, "tags") /\ s \in job[w].missing
    /\ tags' = tags \cup {s}
    /\ IF s \in tags THEN Done(w)    \* the slug is unique: the request fails
                     ELSE Go(w, [job[w] EXCEPT !.missing = @ \ {s}])
    /\ UNCHANGED attached

DetachTags(w) ==
    /\ Tags /\ IsAt(w, "tags") /\ job[w].missing = {}
    /\ Go(w, [pc |-> "attach", want |-> job[w].want, seen |-> attached])
    /\ UNCHANGED tagVars

\* A tag is gone, or attached by somebody else: the transaction fails.
AttachTags(w) ==
    LET others == attached \ job[w].seen IN
    /\ Tags /\ IsAt(w, "attach")
    /\ attached' = IF job[w].want \subseteq tags \ others THEN others \cup job[w].want
                   ELSE attached
    /\ Done(w)
    /\ UNCHANGED tags

-----------------------------------------------------------------------------
(***************************************************************************)
(* Custom fields.  A value is validated against the definition of the      *)
(* moment; what changes the definition leaves the values alone.            *)
(***************************************************************************)
CreateDef(k) ==
    /\ Fields /\ defs[k] = None
    /\ \E t \in Types : defs' = [defs EXCEPT ![k] = t]
    /\ UNCHANGED <<values, job>>

UpdateDef(k) ==
    /\ Fields /\ defs[k] # None
    /\ \E t \in Types : defs' = [defs EXCEPT ![k] = t]
    /\ UNCHANGED <<values, job>>

DeleteDef(k) ==
    /\ Fields /\ defs[k] # None
    /\ defs' = [defs EXCEPT ![k] = None]
    /\ UNCHANGED <<values, job>>

\* All the fields named are valid, or nothing is stored.
SetFields(w) ==
    /\ Fields
    /\ \E keys \in (SUBSET Rows) \ {{}}, t \in Types \cup {None} :
          /\ \A k \in keys : defs[k] # None /\ t \in {None, defs[k]}
          /\ Begin(w, [pc |-> "values", keys |-> keys, new |-> t])
    /\ UNCHANGED fieldVars

CommitFields(w) ==
    /\ Fields /\ IsAt(w, "values")
    /\ values' = [k \in Rows |-> IF k \in job[w].keys THEN job[w].new ELSE values[k]]
    /\ Done(w)
    /\ UNCHANGED defs

-----------------------------------------------------------------------------
(***************************************************************************)
(* Countries.                                                              *)
(***************************************************************************)
\* "(max or -1) + 1": a highest place of 0 counts as none.
EnableCountry(c) ==
    LET highest == Max({position[d] : d \in Enabled} \cup {0}) IN
    /\ Countries /\ c \notin Enabled
    /\ position' = [position EXCEPT ![c] = IF highest = 0 THEN 0 ELSE highest + 1]
    /\ position'[c] <= MaxPosition    \* bound

DisableCountry(c) == Countries /\ position' = [position EXCEPT ![c] = Disabled]

\* The enabled ones that the list names get their place in it.
ReorderCountries ==
    /\ Countries
    /\ \E place \in [Rows -> 0 .. Cardinality(Rows) - 1] :
          /\ \A c, d \in Rows : place[c] = place[d] => c = d
          /\ \E named \in SUBSET Enabled :
                position' = [c \in Rows |-> IF c \in named THEN place[c] ELSE position[c]]

-----------------------------------------------------------------------------
(***************************************************************************)
(* Token bundles.  A write commits and then clears the cached list; a      *)
(* reader that finds none reads the table and stores what it read.         *)
(***************************************************************************)
\* Mutant: a write that forgets the cache.
WriteOnly(w, v) ==
    /\ Bundles /\ offer # v /\ IsAt(w, "idle")
    /\ offer' = v
    /\ job' = Overtaken({"fill"})
    /\ UNCHANGED <<cache, excused>>

Write(w, v) ==
    /\ Bundles /\ offer # v /\ IsAt(w, "idle")
    /\ offer' = v
    /\ job' = [Overtaken({"fill"}) EXCEPT ![w] = [pc |-> "clear"]]
    /\ UNCHANGED <<cache, excused>>

ClearCache(w) ==
    /\ Bundles /\ IsAt(w, "clear")
    /\ cache' = None /\ excused' = FALSE
    /\ Done(w)
    /\ UNCHANGED offer

\* Redis does not answer: the time to live is the backstop.
ClearFails(w) ==
    /\ Bundles /\ IsAt(w, "clear")
    /\ excused' = TRUE
    /\ Done(w)
    /\ UNCHANGED <<offer, cache>>

\* The import of bundles does not clear the cache.
ImportBundles(v) ==
    /\ Bundles /\ offer # v
    /\ offer' = v /\ excused' = TRUE
    /\ job' = Overtaken({"fill"})
    /\ UNCHANGED cache

\* A hit changes nothing.
ReadBundles(w) ==
    /\ Bundles /\ cache = None
    /\ Begin(w, [pc |-> "fill", body |-> offer, late |-> FALSE])
    /\ UNCHANGED bundleVars

FillCache(w) ==
    /\ Bundles /\ IsAt(w, "fill")
    /\ cache' = job[w].body /\ excused' = job[w].late
    /\ Done(w)
    /\ UNCHANGED offer

FillFails(w) == Bundles /\ IsAt(w, "fill") /\ Done(w) /\ UNCHANGED bundleVars

CacheExpires ==
    /\ Bundles /\ cache # None
    /\ cache' = None /\ excused' = FALSE
    /\ UNCHANGED <<offer, job>>

-----------------------------------------------------------------------------
CrashCatalogue(w) ==
    /\ ~IsAt(w, "idle") /\ UNCHANGED scene
    /\ excused' = (excused \/ IsAt(w, "clear"))
    /\ Done(w)
    /\ UNCHANGED <<flagVars, tagVars, fieldVars, position, offer, cache>>

CatalogueNext ==
    \/ ImportMethods \/ ImportConnections \/ ReorderCountries \/ CacheExpires
    \/ \E v \in Offers : ImportBundles(v) \/ \E w \in Workers : Write(w, v)
    \/ \E m \in Rows : \/ CreateMethod(m) \/ UpdateMethod(m)
                       \/ CreateConnection(m) \/ UpdateConnection(m) \/ DeleteConnection(m)
                       \/ CreateTag(m) \/ DeleteTag(m)
                       \/ CreateDef(m) \/ UpdateDef(m) \/ DeleteDef(m)
                       \/ EnableCountry(m) \/ DisableCountry(m)
    \/ \E w \in Workers :
          \/ CommitDefault(w) \/ DeactivateMethod(w) \/ DeleteMethod(w)
          \/ BeginSetActive(w) \/ FlipOff(w) \/ FlipOn(w)
          \/ BeginSetTags(w) \/ DetachTags(w) \/ AttachTags(w)
          \/ SetFields(w) \/ CommitFields(w)
          \/ ClearCache(w) \/ ClearFails(w) \/ ReadBundles(w) \/ FillCache(w) \/ FillFails(w)
          \/ CrashCatalogue(w)
          \/ \E m \in Rows : \/ ClearDefaults(w, m) \/ CheckNotDefault(w, m)
                             \/ SetOneActive(w, m) \/ BeginMakeDefault(w, m)
                             \/ EnsureTag(w, m)

-----------------------------------------------------------------------------
CatalogueTypeOK ==
    /\ entry \in [Rows -> Flags \cup {NoRow}]
    /\ attached \subseteq tags /\ tags \subseteq Rows
    /\ defs \in [Rows -> Types \cup {None}] /\ values \in [Rows -> Types \cup {None}]
    /\ position \in [Rows -> 0 .. MaxPosition \cup {Disabled}]

\* There is at most one default payment method, and at most one default LLM
\* connection, unless two requests that set one met or an import brought a
\* second: also after a crash between two commits, and whatever is created,
\* deleted or deactivated meanwhile.
AtMostOneDefault == ~doubtful => Cardinality(Defaults) <= 1

\* The cached list of bundles is the current one (or absent) once the write
\* that changed it has cleared it, unless a reader overlapped that write, the
\* cache could not be reached, the writer died, or the write was an import.
CacheIsCurrent ==
    cache \in {None, offer} \/ excused \/ \E w \in Workers : IsAt(w, "clear")
================================================================================
