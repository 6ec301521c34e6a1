---------------------------- MODULE AccessControl ----------------------------
(***************************************************************************)
(* Admin roles and user access levels, the permissions they carry, the     *)
(* seeder that runs on every deploy, the port through which plans grant    *)
(* them, and the membership of a user in groups.                           *)
(*                                                                         *)
(* Roles and levels have the same shape and almost the same handlers; a    *)
(* scene is of one kind, or of groups.  A handler loads a row, and its      *)
(* flush sends the difference to what was loaded: two workers at READ      *)
(* COMMITTED meet between the load and the commit.                         *)
(***************************************************************************)
EXTENDS Scenes

CONSTANTS
    Levels,      \* primary keys of roles or levels, never used twice
    Groups       \* slugs of user groups

VARIABLES
    known,      \* permission rows
    plugin,     \* the plugin that declares "declared" is enabled
    level,      \* role or level of each primary key
    gone,       \* primary keys of deleted rows
    groups,     \* user groups that exist
    members,    \* groups the user is in
    may, must,  \* history: memberships asked for, see MembershipBetween
    reseeding   \* history: nothing was committed since a seeding read

rbac == <<known, plugin, level, gone>>
grouping == <<groups, members, may, must>>
accessVars == <<rbac, grouping, reseeding>>

-----------------------------------------------------------------------------
Names == {"default", "other"}
Permissions == {"declared", "own"}

ASSUME AccessConstants == None \notin Levels \cup Names

\* What the default role or level is meant to have, where a permission of that
\* name exists.  (A permission of the core is as one of a plugin that is
\* always enabled.)
DefaultGrants == {"declared"}
Declared == IF plugin THEN {"declared"} ELSE {}

NoLevel == [slug |-> None, name |-> None, system |-> FALSE, grants |-> {}]
Level == [slug : Names, name : Names, system : BOOLEAN, grants : SUBSET Permissions]
Present(r) == level[r] # NoLevel
Fresh(r) == ~Present(r) /\ r \notin gone

\* Every seeding or replacement under way has been overtaken.
Outrun == Overtaken({"seed", "groups"})

\* The unique keys on slug and name, when r is saved as v.
Unique(r, v) ==
    \A q \in Levels \ {r} : Present(q) => level[q].slug # v.slug /\ level[q].name # v.name

\* A flush inserts what is new against the loaded set and deletes what is
\* missing from it.
Merged(r, loaded, new) == (level[r].grants \ (loaded \ new)) \cup (new \ loaded)
Collides(r, loaded, new) == (new \ loaded) \cap level[r].grants # {}

AccessInit ==
    /\ known = {} /\ plugin = FALSE
    /\ level = [r \in Levels |-> NoLevel] /\ gone = {}
    /\ groups = {} /\ members = {} /\ may = {} /\ must = {}
    /\ reseeding = FALSE

RolesOrLevels == scene \in {"role", "level"} /\ UNCHANGED <<scene, grouping>>

-----------------------------------------------------------------------------
(***************************************************************************)
(* Administration of roles and levels.                                     *)
(***************************************************************************)
\* Naming a permission that does not exist creates it.
CreateLevel(r) ==
    /\ RolesOrLevels /\ Fresh(r)
    /\ \E v \in Level : /\ ~v.system /\ Unique(r, v)
                      /\ level' = [level EXCEPT ![r] = v]
                      /\ known' = known \cup v.grants
    /\ reseeding' = FALSE /\ job' = Outrun
    /\ UNCHANGED <<plugin, gone>>

LoadLevel(w, r) ==
    /\ RolesOrLevels /\ Present(r)
    /\ Begin(w, [pc |-> "edit", row |-> r, loaded |-> level[r].grants])
    /\ UNCHANGED <<rbac, reseeding>>

UpdateLevel(w) ==
    LET r == job[w].row IN
    /\ RolesOrLevels /\ IsAt(w, "edit") /\ Present(r)
    /\ \E slug, name \in Names, new \in SUBSET Permissions :
          LET v == [level[r] EXCEPT !.slug = slug, !.name = name,
                                    !.grants = Merged(r, job[w].loaded, new)] IN
          /\ Unique(r, v) /\ ~Collides(r, job[w].loaded, new)
          /\ level' = [level EXCEPT ![r] = v]
          /\ known' = known \cup new
    /\ job' = [Outrun EXCEPT ![w] = Idle]
    /\ reseeding' = FALSE
    /\ UNCHANGED <<plugin, gone>>

\* The slug or the name is taken, the row is gone, or two flushes collide.
UpdateRefused(w) ==
    /\ RolesOrLevels /\ IsAt(w, "edit")
    /\ Done(w)
    /\ UNCHANGED <<rbac, reseeding>>

\* A super administrator may delete system rows too.
DeleteLevel(r) ==
    /\ RolesOrLevels /\ Present(r)
    /\ level' = [level EXCEPT ![r] = NoLevel]
    /\ gone' = gone \cup {r}
    /\ reseeding' = FALSE /\ job' = Outrun
    /\ UNCHANGED <<known, plugin>>

EnablePlugin ==
    /\ RolesOrLevels /\ ~plugin
    /\ plugin' = TRUE
    /\ reseeding' = FALSE /\ job' = Outrun
    /\ UNCHANGED <<known, level, gone>>

\* The level a plan's grants are kept in is found by its slug, the role by its
\* name.
Managed(q) == IF scene = "role" THEN level[q].name = "other" ELSE level[q].slug = "other"

\* The permissions of the managed row become the known ones of the plan.
PlanGrants ==
    /\ RolesOrLevels
    /\ \E r \in Levels, grants \in SUBSET known :
          LET same == [level[r] EXCEPT !.name = IF scene = "role" THEN @ ELSE "other",
                                       !.grants = grants]
              new == [slug |-> "other", name |-> "other", system |-> TRUE, grants |-> grants]
              v == IF Managed(r) THEN same ELSE new IN
          /\ Managed(r) \/ (Fresh(r) /\ ~\E q \in Levels : Managed(q))
          /\ Unique(r, v)
          /\ level' = [level EXCEPT ![r] = v]
    /\ reseeding' = FALSE /\ job' = Outrun
    /\ UNCHANGED <<known, plugin, gone>>

-----------------------------------------------------------------------------
(***************************************************************************)
(* The seeder: permission rows first, then the default row, in one         *)
(* transaction.                                                            *)
(***************************************************************************)
DefaultLevel == {r \in Levels : level[r].slug = "default"}

\* Mutant: the defaults are resolved before the catalog is stored.
SeedReadEarly(w) ==
    /\ RolesOrLevels
    /\ \E r \in IF DefaultLevel = {} THEN {None} ELSE DefaultLevel :
          Begin(w, [pc |-> "seed", row |-> r, late |-> FALSE,
                    catalog |-> Declared, want |-> DefaultGrants \cap known,
                    loaded |-> IF r = None THEN {} ELSE level[r].grants])
    /\ UNCHANGED <<rbac, reseeding>>

SeedRead(w) ==
    /\ RolesOrLevels
    /\ \E r \in IF DefaultLevel = {} THEN {None} ELSE DefaultLevel :
          Begin(w, [pc |-> "seed", row |-> r, late |-> FALSE, catalog |-> Declared,
                    want |-> DefaultGrants \cap (known \cup Declared),
                    loaded |-> IF r = None THEN {} ELSE level[r].grants])
    /\ UNCHANGED <<rbac, reseeding>>

\* Mutant: the defaults replace what is there.
SeededAnew(r, missing) ==
    IF ~level[r].system THEN level[r]
    ELSE [level[r] EXCEPT !.name = IF scene = "role" THEN "default" ELSE @,
                          !.grants = DefaultGrants \cap known]

\* A row of an operator is left alone; of the seeder's own, a role gets its
\* name back, and either gets the defaults it lacked.
Seeded(r, missing) ==
    IF ~level[r].system THEN level[r]
    ELSE [level[r] EXCEPT !.name = IF scene = "role" THEN "default" ELSE @,
                          !.grants = @ \cup missing]

New(want) == [slug |-> "default", name |-> "default", system |-> TRUE, grants |-> want]

\* What a seeding at this point of w would store, and where.
SeedTargets(w) ==
    IF job[w].row = None
    THEN {<<r, New(job[w].want)>> : r \in {q \in Levels : Fresh(q)}}
    ELSE {<<job[w].row, Seeded(job[w].row, job[w].want \ job[w].loaded)>>}

SeedFits(w) ==
    /\ job[w].row # None =>
          /\ Present(job[w].row)
          /\ level[job[w].row].system => ~Collides(job[w].row, job[w].loaded, job[w].want)
    /\ \A t \in SeedTargets(w) : Unique(t[1], t[2])

SeedCommit(w) ==
    /\ RolesOrLevels /\ IsAt(w, "seed") /\ SeedFits(w)
    /\ known' = known \cup job[w].catalog
    /\ \E t \in SeedTargets(w) : level' = [level EXCEPT ![t[1]] = t[2]]
    /\ job' = [Outrun EXCEPT ![w] = Idle]
    /\ reseeding' = ~job[w].late
    /\ UNCHANGED <<plugin, gone>>

\* A name it needs is taken, or another transaction was first: all of it is
\* rolled back.
SeedFails(w) ==
    /\ RolesOrLevels /\ IsAt(w, "seed") /\ ~SeedFits(w)
    /\ Done(w)
    /\ UNCHANGED <<rbac, reseeding>>

-----------------------------------------------------------------------------
(***************************************************************************)
(* Groups.  Replacing a membership reads it first, then inserts and        *)
(* deletes the differences.                                                *)
(***************************************************************************)
OfGroups == On("group") /\ UNCHANGED <<rbac, reseeding>>

CreateGroup(g) ==
    /\ OfGroups /\ g \notin groups
    /\ groups' = groups \cup {g}
    /\ UNCHANGED <<members, may, must, job>>

\* Mutant: the memberships of the group are left behind.
DeleteGroupOnly(g) ==
    /\ OfGroups /\ g \in groups
    /\ groups' = groups \ {g}
    /\ job' = Outrun
    /\ UNCHANGED <<members, may, must>>

\* The foreign key takes the members along.
DeleteGroup(g) ==
    /\ OfGroups /\ g \in groups
    /\ groups' = groups \ {g} /\ members' = members \ {g}
    /\ may' = may \ {g} /\ must' = must \ {g}
    /\ job' = Outrun

\* The slug of a group without members can be changed (there is no ON UPDATE).
RenameGroup(g, h) ==
    /\ OfGroups /\ g \in groups \ members /\ h \notin groups
    /\ groups' = (groups \ {g}) \cup {h}
    /\ UNCHANGED <<members, may, must, job>>

ReadGroups(w) ==
    /\ OfGroups
    /\ \E want \in SUBSET Groups :
          Begin(w, [pc |-> "groups", loaded |-> members, want |-> want, late |-> FALSE])
    /\ UNCHANGED grouping

Replaced(w) ==
    (members \cup ((job[w].want \ job[w].loaded) \cap groups)) \ (job[w].loaded \ job[w].want)

Asked(w) ==
    IF job[w].late THEN may' = may \cup job[w].want /\ must' = must \cap job[w].want
    ELSE may' = job[w].want \cap groups /\ must' = job[w].want \cap groups

\* Mutant: what is no longer wanted stays.
AddGroups(w) ==
    /\ OfGroups /\ IsAt(w, "groups")
    /\ members' = members \cup ((job[w].want \ job[w].loaded) \cap groups)
    /\ Asked(w)
    /\ job' = [Outrun EXCEPT ![w] = Idle]
    /\ UNCHANGED groups

SetGroups(w) ==
    /\ OfGroups /\ IsAt(w, "groups")
    /\ members' = Replaced(w)
    /\ Asked(w)
    /\ job' = [Outrun EXCEPT ![w] = Idle]
    /\ UNCHANGED groups

AddMember(g) ==
    /\ OfGroups /\ g \in groups
    /\ members' = members \cup {g} /\ may' = may \cup {g} /\ must' = must \cup {g}
    /\ job' = Outrun
    /\ UNCHANGED groups

RemoveMember(g) ==
    /\ OfGroups
    /\ members' = members \ {g} /\ may' = may \ {g} /\ must' = must \ {g}
    /\ job' = Outrun
    /\ UNCHANGED groups

-----------------------------------------------------------------------------
AccessNext ==
    \/ \E r \in Levels : CreateLevel(r) \/ DeleteLevel(r)
    \/ EnablePlugin \/ PlanGrants
    \/ \E w \in Workers : \/ \E r \in Levels : LoadLevel(w, r)
                          \/ UpdateLevel(w) \/ UpdateRefused(w)
                          \/ SeedRead(w) \/ SeedCommit(w) \/ SeedFails(w)
                          \/ ReadGroups(w) \/ SetGroups(w)
    \/ \E g \in Groups : CreateGroup(g) \/ DeleteGroup(g) \/ AddMember(g) \/ RemoveMember(g)
    \/ \E g, h \in Groups : RenameGroup(g, h)

AccessSpec ==
    /\ AccessInit /\ scene \in {"role", "level", "group"} /\ job = [w \in Workers |-> Idle]
    /\ [][AccessNext]_<<accessVars, job, scene>>

-----------------------------------------------------------------------------
\* Slugs and names stay unique, permissions are known ones and members are in
\* groups that exist, through seedings, plan grants and edits that overlap.
AccessTypeOK ==
    /\ level \in [Levels -> Level \cup {NoLevel}]
    /\ \A r, q \in Levels : Present(r) /\ Present(q) /\ r # q =>
          level[r].slug # level[q].slug /\ level[r].name # level[q].name
    /\ \A r \in Levels : level[r].grants \subseteq known
    /\ members \subseteq groups

\* A seeding takes no permission away, and leaves a row of an operator as it
\* is, whatever happened since it read.
SeedingAdds ==
    [][\A w \in Workers : SeedCommit(w) =>
          \A r \in Levels : Present(r) =>
             /\ level[r].grants \subseteq level'[r].grants
             /\ level[r].system \/ level'[r] = level[r]]_<<accessVars, job>>

\* A seeding right after another one changes nothing.
SeedingIsIdempotent ==
    [][\A w \in Workers : SeedCommit(w) /\ reseeding /\ ~job[w].late => UNCHANGED rbac]_<<accessVars, job>>

\* The user's groups are those of the last replacement; of replacements that
\* overlap, at least what all of them asked for, at most what any did.
MembershipBetween == must \subseteq members /\ members \subseteq may
=============================================================================
