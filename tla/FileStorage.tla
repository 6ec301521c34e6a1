------------------------------- MODULE FileStorage -------------------------------
(***************************************************************************)
(* The filesystem manager on a disk that several processes share, in its   *)
(* three ways of writing, each a scene: a file is replaced by a temporary  *)
(* one ("atomic": settings, uploads, secrets), written in place under a    *)
(* lock ("inplace": the plugin manifests, which are mounted one by one),   *)
(* or appended to and rolled ("log").                                      *)
(*                                                                         *)
(* A process dies between any two system calls; what it wrote stays.  The  *)
(* temporary file of a process that died stays too, and nobody reads it.   *)
(***************************************************************************)
EXTENDS Integers, SequencesExt, Scenes

CONSTANTS
    Contents,
    Backups,     \* number of rolled segments
    Segment      \* lines that fit in a segment

VARIABLES
    disk,        \* the file: None, "torn" (truncated, or partly written), or its content
    got,         \* what each worker read last; None is the caller's default
    segment,     \* the log: 0 is written to, 1 .. Backups are rolled, the last is oldest
    torn         \* history: a process died while the file, or the log, was in pieces

fileVars == <<disk, got, segment, torn>>

ASSUME FileAssumption ==
    /\ Backups \in Nat \ {0} /\ Segment \in Nat \ {0}
    /\ "torn" \notin Contents \cup {None}

-----------------------------------------------------------------------------
FilesInit ==
    /\ disk = None /\ got = [w \in Workers |-> None]
    /\ segment = [i \in 0 .. Backups |-> <<>>] /\ torn = FALSE

\* read_json gives the default for a file that is not there or does not parse.
AsRead(d) == IF d = "torn" THEN None ELSE d

Atomic == On("atomic") /\ UNCHANGED <<segment, torn>>
InPlace == On("inplace") /\ UNCHANGED segment
Log == On("log") /\ UNCHANGED <<disk, got>>

\* flock: one writer, or readers.
Locked == \E w \in Workers : job[w].pc \in {"locked", "truncated"}
LogLocked == \E w \in Workers : job[w].pc \in {"drop", "shift", "roll", "append"}

-----------------------------------------------------------------------------
\* The temporary file is written and synced before anything is visible.
WriteTemporary(w) ==
    /\ Atomic
    /\ \E v \in Contents : Begin(w, [pc |-> "replace", new |-> v])
    /\ UNCHANGED <<disk, got>>

Replace(w) ==
    /\ Atomic /\ IsAt(w, "replace")
    /\ disk' = job[w].new
    /\ Done(w)
    /\ UNCHANGED got

\* The disk is full: the temporary file is removed.
ReplaceFails(w) == Atomic /\ IsAt(w, "replace") /\ Done(w) /\ UNCHANGED <<disk, got>>

Delete(w) == Atomic /\ IsAt(w, "idle") /\ disk' = None /\ UNCHANGED <<got, job>>

\* An open file stays the one that was opened.
OpenReplaced(w) ==
    /\ Atomic /\ IsAt(w, "idle")
    /\ IF disk = None THEN got' = [got EXCEPT ![w] = None] /\ UNCHANGED job
                      ELSE Begin(w, [pc |-> "read", seen |-> disk]) /\ UNCHANGED got
    /\ UNCHANGED disk

ReadReplaced(w) ==
    /\ Atomic /\ IsAt(w, "read")
    /\ got' = [got EXCEPT ![w] = AsRead(job[w].seen)]
    /\ Done(w)
    /\ UNCHANGED disk

-----------------------------------------------------------------------------
\* Mutant: opening for writing truncates the file before it is locked.
OpenTruncating(w) ==
    /\ InPlace
    /\ \E v \in Contents : Begin(w, [pc |-> "open", new |-> v, old |-> AsRead(disk)])
    /\ disk' = "torn"
    /\ UNCHANGED <<got, torn>>

\* Opening creates an empty file where there is none.
OpenInPlace(w) ==
    /\ InPlace
    /\ \E v \in Contents : Begin(w, [pc |-> "open", new |-> v, old |-> None])
    /\ disk' = IF disk = None THEN "torn" ELSE disk
    /\ UNCHANGED <<got, torn>>

LockFile(w) ==
    /\ InPlace /\ IsAt(w, "open") /\ ~Locked
    /\ Go(w, [job[w] EXCEPT !.pc = "locked"])
    /\ UNCHANGED <<disk, got, torn>>

Truncate(w) ==
    /\ InPlace /\ IsAt(w, "locked")
    /\ disk' = "torn"
    /\ Go(w, [job[w] EXCEPT !.pc = "truncated", !.old = AsRead(disk)])
    /\ UNCHANGED <<got, torn>>

WriteInPlace(w) ==
    /\ InPlace /\ IsAt(w, "truncated")
    /\ disk' = job[w].new
    /\ Done(w)
    /\ UNCHANGED <<got, torn>>

\* The disk is full, as if the process died.
WriteFails(w) ==
    /\ InPlace /\ IsAt(w, "truncated")
    /\ torn' = TRUE
    /\ Done(w)
    /\ UNCHANGED <<disk, got>>

ReadLocked(w) ==
    /\ InPlace /\ IsAt(w, "idle") /\ (disk = None \/ ~Locked)
    /\ got' = [got EXCEPT ![w] = AsRead(disk)]
    /\ UNCHANGED <<disk, torn, job>>

-----------------------------------------------------------------------------
\* append_with_rotation, whose lock is a file beside the log.
BeginAppend(w) == Log /\ Begin(w, [pc |-> "wait"]) /\ UNCHANGED <<segment, torn>>

LockLog(w) ==
    /\ Log /\ IsAt(w, "wait") /\ ~LogLocked
    /\ Go(w, [pc |-> IF Len(segment[0]) >= Segment THEN "drop" ELSE "append", at |-> Backups - 1])
    /\ UNCHANGED <<segment, torn>>

RemoveOldest(w) ==
    /\ Log /\ IsAt(w, "drop")
    /\ segment' = [segment EXCEPT ![Backups] = <<>>]
    /\ Go(w, [job[w] EXCEPT !.pc = IF Backups = 1 THEN "roll" ELSE "shift"])
    /\ UNCHANGED torn

\* A missing segment is not renamed over the next.
ShiftSegment(w) ==
    LET i == job[w].at IN
    /\ Log /\ IsAt(w, "shift")
    /\ segment' = IF segment[i] = <<>> THEN segment
                  ELSE [segment EXCEPT ![i + 1] = segment[i], ![i] = <<>>]
    /\ Go(w, [job[w] EXCEPT !.at = i - 1, !.pc = IF i = 1 THEN "roll" ELSE "shift"])
    /\ UNCHANGED torn

RollLog(w) ==
    /\ Log /\ IsAt(w, "roll")
    /\ segment' = [segment EXCEPT ![1] = segment[0], ![0] = <<>>]
    /\ Go(w, [job[w] EXCEPT !.pc = "append"])
    /\ UNCHANGED torn

AppendToLog(w) ==
    /\ Log /\ IsAt(w, "append")
    /\ segment' = [segment EXCEPT ![0] = Append(@, w)]
    /\ Done(w)
    /\ UNCHANGED torn

-----------------------------------------------------------------------------
Pieces == {"truncated", "shift", "roll"}

CrashFiles(w) ==
    /\ ~IsAt(w, "idle") /\ UNCHANGED scene
    /\ Done(w)
    /\ torn' = (torn \/ job[w].pc \in Pieces)
    /\ got' = [got EXCEPT ![w] = None]
    /\ UNCHANGED <<disk, segment>>

FilesNext ==
    \E w \in Workers :
       \/ WriteTemporary(w) \/ Replace(w) \/ ReplaceFails(w) \/ Delete(w)
       \/ OpenReplaced(w) \/ ReadReplaced(w)
       \/ OpenInPlace(w) \/ LockFile(w) \/ Truncate(w) \/ WriteInPlace(w) \/ WriteFails(w)
       \/ ReadLocked(w)
       \/ BeginAppend(w) \/ LockLog(w) \/ RemoveOldest(w) \/ ShiftSegment(w) \/ RollLog(w)
       \/ AppendToLog(w)
       \/ CrashFiles(w)

-----------------------------------------------------------------------------
FilesTypeOK ==
    /\ disk \in Contents \cup {None, "torn"} /\ got \in [Workers -> Contents \cup {None}]
    /\ \A i \in 0 .. Backups : Len(segment[i]) <= Segment
    /\ torn \in BOOLEAN

\* The register the files implement.  A file being rewritten in place still
\* has its old content for the others, who wait for the lock; a reader of a
\* file that is replaced has read it when it opened it; and the log is its
\* segments, whatever their names are at the moment.
Content ==
    IF scene # "inplace" THEN AsRead(disk)
    ELSE IF \E w \in Workers : IsAt(w, "truncated")
    THEN job[CHOOSE w \in Workers : IsAt(w, "truncated")].old ELSE AsRead(disk)

LogLines ==
    IF scene # "log" THEN <<>>
    ELSE FlattenSeq([i \in 1 .. Backups + 1 |-> segment[Backups + 1 - i]])

Register == INSTANCE FileRegister WITH
    Values <- Contents, Readers <- Workers, Nothing <- None, Kept <- Backups * Segment,
    mode <- scene, value <- Content,
    got <- [w \in Workers |->
               IF scene = "atomic" /\ IsAt(w, "read") THEN AsRead(job[w].seen) ELSE got[w]],
    log <- LogLines, torn <- torn

\* A file is a register and a log keeps its newest lines, whoever reads and
\* writes at the same time; only a death in the middle of a rewriting in
\* place or of a rolling loses content, and then no reader sees a part of it.
FileIsRegister == Register!Spec
================================================================================
