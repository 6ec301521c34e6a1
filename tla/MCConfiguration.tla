---------------------------- MODULE MCConfiguration ----------------------------
(***************************************************************************)
(* Finite instance of Configuration.                                       *)
(***************************************************************************)
EXTENDS Configuration, TLC

MCScenes == {"currencies", "methods", "connections", "tags", "fields", "countries", "bundles",
             "import", "export", "atomic", "inplace", "log", "role", "level", "group"}
MCEntities == Kinds

\* Codes, identifiers and backups are told apart; the rest is interchangeable.
Interchangeable == Permutations(Workers) \cup Permutations(Levels)
================================================================================
