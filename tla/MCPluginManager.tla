--------------------------- MODULE MCPluginManager ---------------------------
(***************************************************************************)
(* Instances of PluginManager for TLC.                                     *)
(***************************************************************************)
EXTENDS PluginManager

CONSTANTS w1, s1, a, b, c, c1

\* b needs a, and c needs b.
NeedsNone == [p \in {a, b, c} |-> {}]
Chain == [p \in {a, b, c} |-> CASE p = a -> {} [] p = b -> {a} [] p = c -> {b}]
Cycle == [p \in {a, b, c} |-> CASE p = a -> {} [] p = b -> {a, c} [] p = c -> {b}]

Sound == [bare |-> Chain, ranged |-> NeedsNone, outdated |-> {},
          licensed |-> {a, b, c}, faulty |-> {}, unfit |-> {}]

MCDeployments ==
    {Sound,
     [Sound EXCEPT !.licensed = {a, c}],
     [Sound EXCEPT !.faulty = {a}, !.unfit = {c}],
     [Sound EXCEPT !.bare = Cycle],
     [Sound EXCEPT !.bare = NeedsNone, !.ranged = Chain, !.outdated = {c}]}

\* plugins.json with any flags of a and b, and c enabled or without an entry;
\* all pins may be stale if a and b are enabled.  a has a configuration.
MCInstalls ==
    {[file |-> f, config |-> [p \in {a, b, c} |-> IF p = a THEN c1 ELSE NoConfig]] :
        f \in {g \in Files :
                 /\ {a, b} \subseteq DOMAIN g
                 /\ c \in DOMAIN g => g[c].enabled
                 /\ \A p \in DOMAIN g :
                      g[p].stale = g[a].stale /\ (g[p].stale => g[p].enabled)}}
=============================================================================
