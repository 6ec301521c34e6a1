------------------------------- MODULE LogReading -------------------------------
(***************************************************************************)
(* The log files: the router and the event subscriber that append records  *)
(* to them, rolling those that are full, and the administrators' reader,   *)
(* which looks at the files without the writers' lock: a tail of one file  *)
(* ("tail"), and pages of all of them, newest first ("pages").  What a     *)
(* writer that dies leaves of the files is FileStorage's concern.          *)
(***************************************************************************)
EXTENDS Integers, FiniteSetsExt, SequencesExt, Scenes

CONSTANTS
    Sources,      \* <<scope, stream>> of the records
    MaxLines,     \* bound
    Room,         \* lines that fit in a segment
    Rolled,       \* segments kept of a file that was rolled
    PageSize,
    Backfill,     \* lines that a tail begins with
    ScanLimit     \* lines after which a request reads no other segment

VARIABLES
    segment,      \* 0 of a file is written to, the last is the oldest
    lines,        \* lines of all records so far, by which they are numbered; a time
                  \* stamp is a clock's
    clock,
    order,        \* history: what was appended to each file
    tail,         \* an open tail, and what it sent
    walk          \* a request for pages, and the pages so far

readingVars == <<segment, lines, clock, order, tail, walk>>

ASSUME ReadingAssumption ==
    /\ {MaxLines, Room, Rolled, PageSize, ScanLimit} \subseteq Nat \ {0} /\ Backfill \in Nat
    /\ Sources # {} /\ IsFiniteSet(Sources)

-----------------------------------------------------------------------------
\* What a plugin may not write to a file of its own goes to the core's.
AllowedStreams(scope) == IF scope = "core" THEN {"error", "warnings", "info"} ELSE {"error"}

\* Events go to the core's file and to their origin's.
TargetFiles(source) ==
    LET scope == source[1]
        stream == source[2] IN
    IF stream = "events"
    THEN IF scope = "core" THEN <<source>> ELSE << <<"core", "events">>, source >>
    ELSE IF stream \in AllowedStreams(scope) THEN <<source>> ELSE << <<"core", stream>> >>

Files == UNION {Range(TargetFiles(s)) : s \in Sources}
Segments == 0 .. Rolled

NoTail == [pc |-> "off", file |-> <<>>, known |-> 0, sent |-> <<>>, rolled |-> FALSE, upto |-> 0]
NoWalk == [pc |-> "off", todo |-> <<>>, file |-> <<>>, names |-> {}, since |-> 0, before |-> 0,
           found |-> {}, spent |-> 0, seen |-> {}, had |-> {}, twice |-> FALSE, excused |-> FALSE]

ReadingInit ==
    /\ segment = [f \in Files |-> [i \in Segments |-> <<>>]]
    /\ lines = 0 /\ clock = 1
    /\ order = [f \in Files |-> <<>>]
    /\ tail = NoTail /\ walk = NoWalk

Reading == scene \in {"tail", "pages"} /\ UNCHANGED scene

-----------------------------------------------------------------------------
\* The record is built, with its time, before anything is locked.  The time
\* makes no difference to a tail.
EmitRecord(w) ==
    /\ Reading
    /\ \E source \in Sources :
          /\ lines' = lines + Len(TargetFiles(source)) /\ lines' <= MaxLines
          /\ Begin(w, [pc |-> "open", files |-> TargetFiles(source), line |-> [n |-> lines', ts |-> clock]])
    /\ clock' \in IF scene = "tail" THEN {clock} ELSE {clock, clock + 1}
    /\ UNCHANGED <<segment, order, tail, walk>>

FileOf(w) == Head(job[w].files)
HasLock(w, f) == job[w].pc \in {"roll", "append"} /\ FileOf(w) = f

\* Mutant: a file is rolled when it is more than full.
LockFileLate(w) ==
    LET f == FileOf(w) IN
    /\ Reading /\ IsAt(w, "open") /\ \A v \in Workers : ~HasLock(v, f)
    /\ Go(w, IF f[2] # "events" /\ Len(segment[f][0]) > Room
             THEN [pc |-> "roll", at |-> Rolled, files |-> job[w].files, line |-> job[w].line]
             ELSE [pc |-> "append", files |-> job[w].files, line |-> job[w].line])
    /\ UNCHANGED readingVars

\* The events are not rolled.
LockFile(w) ==
    LET f == FileOf(w) IN
    /\ Reading /\ IsAt(w, "open") /\ \A v \in Workers : ~HasLock(v, f)
    /\ Go(w, IF f[2] # "events" /\ Len(segment[f][0]) >= Room
             THEN [pc |-> "roll", at |-> Rolled, files |-> job[w].files, line |-> job[w].line]
             ELSE [pc |-> "append", files |-> job[w].files, line |-> job[w].line])
    /\ UNCHANGED readingVars

\* The oldest segment is removed, the others are renamed, each by itself.
RollSegment(w) ==
    LET f == FileOf(w)
        i == job[w].at IN
    /\ Reading /\ IsAt(w, "roll")
    /\ segment' = [segment EXCEPT ![f] =
          IF i = Rolled THEN [@ EXCEPT ![i] = <<>>]
          ELSE IF @[i] = <<>> THEN @ ELSE [@ EXCEPT ![i + 1] = segment[f][i], ![i] = <<>>]]
    /\ Go(w, IF i = 0 THEN [pc |-> "append", files |-> job[w].files, line |-> job[w].line]
                      ELSE [job[w] EXCEPT !.at = i - 1])
    /\ tail' = [tail EXCEPT !.rolled = @ \/ tail.file = f]
    /\ walk' = [walk EXCEPT !.excused = @ \/ walk.pc \in {"list", "read"}]
    /\ UNCHANGED <<lines, clock, order>>

AppendLine(w) ==
    LET f == FileOf(w) IN
    /\ Reading /\ IsAt(w, "append")
    /\ segment' = [segment EXCEPT ![f][0] = Append(@, job[w].line)]
    /\ order' = [order EXCEPT ![f] = Append(@, job[w].line)]
    /\ IF Len(job[w].files) = 1 THEN Done(w)
       ELSE Go(w, [pc |-> "open", files |-> Tail(job[w].files), line |-> job[w].line])
    /\ UNCHANGED <<lines, clock, tail, walk>>

-----------------------------------------------------------------------------
Tailing == On("tail") /\ UNCHANGED <<segment, lines, clock, order, walk, job>>

OpenTail ==
    /\ Tailing /\ tail.pc = "off"
    /\ \E f \in Files : tail' = [NoTail EXCEPT !.pc = "open", !.file = f]

From(s, i) == SubSeq(s, i, Len(s))

\* Mutant: a file that has not grown is taken for one that was rolled.
NewLinesAgain(text) ==
    IF tail.pc = "open" THEN From(text, IF Len(text) > Backfill THEN Len(text) - Backfill + 1 ELSE 1)
    ELSE IF Len(text) <= tail.known THEN text
    ELSE From(text, tail.known + 1)

\* A file that is shorter than what was read of it has been rolled.
NewLines(text) ==
    IF tail.pc = "open" THEN From(text, IF Len(text) > Backfill THEN Len(text) - Backfill + 1 ELSE 1)
    ELSE IF Len(text) < tail.known THEN text
    ELSE From(text, tail.known + 1)

\* One read of the file, which may be missing for a moment.
PollTail ==
    LET text == segment[tail.file][0] IN
    /\ Tailing /\ tail.pc # "off"
    /\ tail' = [tail EXCEPT !.pc = "polling", !.known = Len(text),
                            !.sent = @ \o NewLines(text),
                            !.rolled = @ /\ tail.pc # "open",
                            !.upto = Len(order[tail.file])]

-----------------------------------------------------------------------------
Paging == On("pages") /\ UNCHANGED <<segment, lines, clock, order, tail, job>>

Present == UNION {{<<f, l>> : l \in UNION {Range(segment[f][i]) : i \in Segments}} : f \in Files}

FileOrder == SetToSeq(Files)

\* A client asks for a page, and for the next as long as it is given a cursor.
OpenWalk ==
    /\ Paging /\ walk.pc = "off"
    /\ \E since \in {0, 2} :
          walk' = [NoWalk EXCEPT !.pc = "list", !.todo = FileOrder, !.since = since,
                                 !.before = MaxLines + 2, !.had = Present]

NextPage ==
    /\ Paging /\ walk.pc = "between"
    /\ walk' = [walk EXCEPT !.pc = "list", !.todo = FileOrder, !.found = {}, !.spent = 0]

Existing(f) == {i \in Segments : segment[f][i] # <<>>}

ListSegments ==
    /\ Paging /\ walk.pc = "list"
    /\ walk' = [walk EXCEPT !.pc = "read", !.file = Head(walk.todo), !.todo = Tail(@),
                            !.names = Existing(Head(walk.todo))]

\* The lines of a segment are looked at from the last, up to the first that is
\* older than asked for: what is before it is taken to be older still.
TooOld(line) == line.ts < walk.before /\ line.ts < walk.since
Newer(text) == From(text, Max({0} \cup {i \in 1 .. Len(text) : TooOld(text[i])}) + 1)
Scan(text) == {<<walk.file, l>> : l \in {l \in Range(Newer(text)) : l.ts < walk.before}}

\* The newest comes first.  A segment that was renamed away is not there to be
\* read, or another is.
ReadSegment ==
    LET i == Min(walk.names)
        text == segment[walk.file][i]
        stop == \E l \in Range(text) : TooOld(l) IN
    /\ Paging /\ walk.pc = "read" /\ walk.names # {}
    /\ walk' = IF walk.spent >= ScanLimit THEN [walk EXCEPT !.names = {}, !.excused = TRUE]
               ELSE [walk EXCEPT !.names = IF stop THEN {} ELSE @ \ {i},
                                 !.found = @ \cup Scan(text), !.spent = @ + Len(text)]

EndOfFile ==
    /\ Paging /\ walk.pc = "read" /\ walk.names = {} /\ walk.todo # <<>>
    /\ walk' = [walk EXCEPT !.pc = "list"]

Page(found, k) ==
    {page \in SUBSET found : Cardinality(page) = k /\ \A x \in page, y \in found \ page : x[2].ts >= y[2].ts}

\* The cursor is the time of the last line of the page.
FinishPage ==
    LET truncated == walk.spent >= ScanLimit
        k == IF Cardinality(walk.found) < PageSize THEN Cardinality(walk.found) ELSE PageSize
        more == (truncated \/ Cardinality(walk.found) > PageSize) /\ k > 0 IN
    /\ Paging /\ walk.pc = "read" /\ walk.names = {} /\ walk.todo = <<>>
    /\ \E page \in Page(walk.found, k) :
          walk' = [walk EXCEPT !.pc = IF more THEN "between" ELSE "end",
                               !.before = IF more THEN Min({x[2].ts : x \in page}) ELSE 0,
                               !.seen = @ \cup page, !.twice = @ \/ page \cap walk.seen # {},
                               !.excused = @ \/ truncated, !.found = {}]

ReadingNext ==
    \/ \E w \in Workers :
          EmitRecord(w) \/ LockFile(w) \/ RollSegment(w) \/ AppendLine(w)
    \/ OpenTail \/ PollTail
    \/ OpenWalk \/ NextPage \/ ListSegments \/ ReadSegment \/ EndOfFile \/ FinishPage

-----------------------------------------------------------------------------
ReadingTypeOK ==
    /\ \A f \in Files, i \in Segments : f[2] # "events" => Len(segment[f][i]) <= Room
    /\ tail.known \in 0 .. MaxLines /\ Len(tail.sent) <= MaxLines
    /\ walk.pc \in {"off", "list", "read", "between", "end"}

\* A tail never sends a line twice, nor before one that is older in the file;
\* and until the file is rolled it sends every line from where it began.
TailIsFaithful ==
    LET o == IF tail.pc = "off" THEN <<>> ELSE order[tail.file] IN
    /\ \A i, j \in 1 .. Len(tail.sent) : i < j =>
          \E a, b \in 1 .. Len(o) : a < b /\ o[a] = tail.sent[i] /\ o[b] = tail.sent[j]
    /\ ~tail.rolled => tail.sent = SubSeq(o, tail.upto - Len(tail.sent) + 1, tail.upto)

Swapped == \E f \in Files : \E i, j \in 1 .. Len(order[f]) : i < j /\ order[f][i].ts > order[f][j].ts
Unmistakable(line) == \A f \in Files : \A l \in Range(order[f]) : l.ts = line.ts => l = line

\* A client that follows the cursors to the end is given no line twice, and
\* every record that was in the files from the first page to the last and is
\* as new as was asked for, though writers append all the while.  Excused: a
\* file rolled while a page was being read, a request that met its limit, two
\* records of one time, and a lower bound among lines that are not in order.
PagesAreComplete ==
    /\ ~walk.twice
    /\ walk.pc = "end" /\ ~walk.excused /\ (walk.since > 0 => ~Swapped) =>
          \A x \in walk.had \cap Present :
             x[2].ts >= walk.since /\ Unmistakable(x[2]) => \E y \in walk.seen : y[2] = x[2]

\* The readers, who take no lock, miss nothing and repeat nothing.
ReadersAreFaithful == TailIsFaithful /\ PagesAreComplete
================================================================================
