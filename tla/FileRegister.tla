------------------------------ MODULE FileRegister ------------------------------
(***************************************************************************)
(* What a caller of the filesystem manager relies on, as the in-memory     *)
(* manager of the tests gives it: a file is a register, read and written   *)
(* as a whole, and a log keeps its newest lines.  A file that must keep    *)
(* its inode, and a log that rolls, may lose content when a process dies;  *)
(* one that is replaced may not.                                           *)
(***************************************************************************)
EXTENDS Integers, Sequences

CONSTANTS
    Values,
    Readers,
    Nothing,     \* the default of read_json
    Kept         \* lines a log never drops

VARIABLES
    mode,        \* "atomic", "inplace", "log", or something else
    value,
    got,         \* what each reader read last
    log,
    torn         \* a process died in the middle of a write

vars == <<mode, value, got, log, torn>>

Init ==
    /\ value = Nothing /\ got = [r \in Readers |-> Nothing]
    /\ log = <<>> /\ torn = FALSE

Write == value' \in Values /\ UNCHANGED <<mode, got, log, torn>>

Delete == mode = "atomic" /\ value' = Nothing /\ UNCHANGED <<mode, got, log, torn>>

Read(r) == got' = [got EXCEPT ![r] = value] /\ UNCHANGED <<mode, value, log, torn>>

Forget(r) == got' = [got EXCEPT ![r] = Nothing] /\ UNCHANGED <<mode, value, log, torn>>

AppendLine == \E r \in Readers : log' = Append(log, r) /\ UNCHANGED <<mode, value, got, torn>>

DropOldest ==
    /\ \E n \in 1 .. Len(log) : log' = SubSeq(log, n + 1, Len(log)) /\ (Len(log') >= Kept \/ torn)
    /\ UNCHANGED <<mode, value, got, torn>>

Tear(r) ==
    /\ mode # "atomic"
    /\ torn' = TRUE
    /\ value' \in {value, Nothing} /\ got' \in {got, [got EXCEPT ![r] = Nothing]}
    /\ UNCHANGED <<mode, log>>

Next ==
    /\ mode \in {"atomic", "inplace", "log"}
    /\ \/ Write \/ Delete \/ AppendLine \/ DropOldest
       \/ \E r \in Readers : Read(r) \/ Forget(r) \/ Tear(r)

Spec == Init /\ [][Next]_vars
================================================================================
