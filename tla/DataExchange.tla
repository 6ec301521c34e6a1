------------------------------ MODULE DataExchange ------------------------------
(***************************************************************************)
(* The data exchange: an import of a bundle of tables, one exchanger after *)
(* the other in one database session, and an export that pages through a   *)
(* table while others change it.                                           *)
(*                                                                         *)
(* There is one import (bound), and others edit the same tables.  What the *)
(* session has sent is visible to it alone, and locked, until it           *)
(* commits.  A table is named after its exchanger: "catalog" for those     *)
(* that are BaseModelExchangers (the custom fields are one that is never   *)
(* replaced), "levels" for the two kinds of access levels, "users",        *)
(* "countries", and "templates" (files the session knows nothing of).      *)
(***************************************************************************)
EXTENDS Integers, SequencesExt, Scenes

CONSTANTS
    Entities,
    Keys,        \* natural keys
    MaxBundle,   \* bound on the tables of a bundle
    Ids,         \* primary keys
    PageSize,    \* EXPORT_CHUNK_SIZE
    RowCap       \* DEFAULT_ROW_CAP

VARIABLES
    table,       \* committed rows: of the import ("new"), others ("old") or None
    session,     \* what the import has sent and not committed
    broken,      \* a flush failed and nothing rolled back since
    request,     \* the import or the export under way
    present,     \* the rows of the exported table
    lasting      \* history: those that were there since the export began

exchangeVars == <<table, session, broken, request, present, lasting>>

ASSUME ExchangeAssumption ==
    /\ Ids \subseteq Nat \ {0} /\ PageSize \in Nat \ {0} /\ RowCap \in Nat
    /\ None \notin {"old", "new", "keep"}

-----------------------------------------------------------------------------
Kinds == {"catalog", "levels", "users", "countries", "templates"}
RolledBack == {"catalog", "levels", "users"}    \* an exception rolls the session back

\* A row the file does not have, a good one, one that raises when it is read,
\* one that the database refuses.
Lines == {"none", "good", "raises", "refused"}

Nothing == [e \in Entities |-> [k \in Keys |-> "keep"]]
NoRequest == [pc |-> "idle"]

ExchangeInit ==
    /\ \E v \in {"old", None} : table = [e \in Entities |-> [k \in Keys |-> v]]
    /\ session = Nothing /\ broken = FALSE
    /\ request = NoRequest
    /\ present \in SUBSET Ids /\ lasting = {}

Importing == On("import") /\ UNCHANGED <<present, lasting>>
Exporting == On("export") /\ UNCHANGED <<table, session, broken>>

\* A row as the session sees it.
View(e, k) == IF session[e][k] = "keep" THEN table[e][k] ELSE session[e][k]

\* The row last written waits for the next statement to be sent: it must be
\* there, or not be there, as when it was looked up.
Fits == \A u \in request.unsent :
            request.file[u.key] = "good" /\ u.exists = (View(request.entity, u.key) # None)
Sent == [session EXCEPT ![request.entity] =
            [k \in Keys |-> IF \E u \in request.unsent : u.key = k THEN "new" ELSE @[k]]]

-----------------------------------------------------------------------------
BeginImport ==
    /\ Importing /\ request.pc = "idle"
    /\ \E bundle \in (SUBSET Entities) \ {{}}, replace, dry \in BOOLEAN :
          /\ Cardinality(bundle) <= MaxBundle
          /\ request' = [pc |-> "entity", left |-> bundle, replace |-> replace, dry |-> dry]
    /\ UNCHANGED <<table, session, broken>>

\* A file without rows changes nothing, and is not looked at.
BeginEntity(e) ==
    /\ Importing /\ request.pc = "entity" /\ e \in request.left
    /\ ~(e = "templates" /\ request.replace) /\ ~(e = "countries" /\ request.dry)
    /\ \E file \in [Keys -> Lines] :
          LET rows == {k \in Keys : file[k] # "none"} IN
          /\ rows # {}
          /\ request' = [pc |-> "rows", left |-> request.left \ {e}, entity |-> e, file |-> file,
                         replace |-> request.replace, dry |-> request.dry,
                         todo |-> rows, unsent |-> {}, errors |-> {}]
    \* delete_all
    /\ session' = IF e = "catalog" /\ request.replace /\ ~request.dry /\ ~broken
                  THEN [session EXCEPT ![e] = [k \in Keys |-> IF View(e, k) = None THEN @[k] ELSE None]]
                  ELSE session
    /\ UNCHANGED <<table, broken>>

\* The templates refuse "replace_all"; a dry run only counts the countries.
SkipEntity(e) ==
    /\ Importing /\ request.pc = "entity" /\ e \in request.left
    /\ (e = "templates" /\ request.replace) \/ (e = "countries" /\ request.dry)
    /\ request' = [request EXCEPT !.left = @ \ {e}]
    /\ UNCHANGED <<table, session, broken>>

EndEntity == [pc |-> "entity", left |-> request.left, replace |-> request.replace, dry |-> request.dry]

\* A template is written to its file at once.
ApplyTemplate(k) ==
    /\ Importing /\ request.pc = "rows" /\ k \in request.todo /\ request.entity = "templates"
    /\ request' = [request EXCEPT !.todo = @ \ {k}]
    /\ table' = IF request.dry \/ request.file[k] # "good" THEN table
                ELSE [table EXCEPT !["templates"][k] = "new"]
    /\ UNCHANGED <<session, broken>>

\* The look-up sends the row before.  Users are not created; a dry run writes
\* into the session unless the exchanger is a catalog's; a country that
\* exists is updated by a statement of its own.
ApplyRow(k) ==
    LET e == request.entity
        exists == View(e, k) # None
        writes == ~(e = "users" /\ ~exists) /\ ~(e = "catalog" /\ request.dry)
        atOnce == e = "countries" /\ exists IN
    /\ Importing /\ request.pc = "rows" /\ k \in request.todo /\ e # "templates"
    /\ ~broken /\ Fits /\ request.file[k] # "raises" /\ ~(atOnce /\ request.file[k] = "refused")
    /\ session' = IF atOnce THEN [Sent EXCEPT ![e][k] = "new"] ELSE Sent
    /\ request' = [request EXCEPT
                     !.todo = @ \ {k},
                     !.unsent = IF writes /\ ~atOnce THEN {[key |-> k, exists |-> exists]} ELSE {},
                     !.errors = IF e = "users" /\ ~exists THEN @ \cup {k} ELSE @]
    /\ UNCHANGED <<table, broken>>

RowFails(k) ==
    /\ request.pc = "rows" /\ k \in request.todo /\ request.entity # "templates"
    /\ \/ broken \/ ~Fits \/ request.file[k] = "raises"
       \/ /\ request.entity = "countries" /\ View("countries", k) # None
          /\ request.file[k] = "refused"

\* Mutant: an exception leaves the session as it is.
LeaveOnFailure(k) ==
    /\ Importing /\ RowFails(k) /\ request' = EndEntity
    /\ session' = IF Fits THEN Sent ELSE Nothing
    /\ broken' = (broken \/ ~Fits)
    /\ UNCHANGED table

\* The import of countries does not roll back: what it sent waits for the
\* commit of the table after it, unless the database refused a row.
FailEntity(k) ==
    LET fails == broken \/ ~Fits \/ request.file[k] = "refused" IN
    /\ Importing /\ RowFails(k) /\ request' = EndEntity
    /\ IF request.entity \in RolledBack \/ fails THEN session' = Nothing ELSE session' = Sent
    /\ broken' = (request.entity \notin RolledBack /\ fails)
    /\ UNCHANGED table

\* A row the database refuses at the commit breaks the session, and here
\* nobody rolls back.
CommitEntity ==
    /\ Importing /\ request.pc = "rows" /\ request.todo = {} /\ request.entity # "templates"
    /\ request' = EndEntity
    /\ session' = Nothing
    /\ IF request.dry THEN UNCHANGED <<table, broken>>
       ELSE /\ broken' = ~Fits
            /\ table' = IF Fits THEN [e \in Entities |-> [k \in Keys |->
                                        IF Sent[e][k] = "keep" THEN table[e][k] ELSE Sent[e][k]]]
                        ELSE table

EndTemplates ==
    /\ Importing /\ request.pc = "rows" /\ request.todo = {} /\ request.entity = "templates"
    /\ request' = EndEntity
    /\ UNCHANGED <<table, session, broken>>

\* The end of the request removes the session; so does the worker's death.
EndImport ==
    /\ Importing /\ request.pc \in {"entity", "rows"}
    /\ request' = [pc |-> "over"] /\ session' = Nothing /\ broken' = FALSE
    /\ UNCHANGED table

\* Others change what the import has not locked (bound: of the table it is at).
EditRow(k) ==
    /\ Importing /\ request.pc = "rows" /\ session[request.entity][k] = "keep"
    /\ \E v \in {"old", None} : table' = [table EXCEPT ![request.entity][k] = v]
    /\ UNCHANGED <<session, broken, request>>

-----------------------------------------------------------------------------
BeginExport ==
    /\ Exporting /\ request.pc # "page"
    /\ request' = [pc |-> "page", last |-> 0, sent |-> <<>>]
    /\ lasting' = present
    /\ UNCHANGED present

\* The one page of the first n of the ids, in their order.
Pages(n, ids) ==
    {page \in UNION {[1 .. k -> ids] : k \in 0 .. n} :
        /\ \A i, j \in DOMAIN page : i < j => page[i] < page[j]
        /\ \A x \in ids \ Range(page) : Len(page) = n /\ \A i \in DOMAIN page : page[i] < x}

Emit(page) ==
    LET sent == request.sent \o page IN
    request' = IF page = <<>> THEN [pc |-> "done", sent |-> request.sent]
               ELSE IF Len(sent) > RowCap THEN [pc |-> "refused"]
               ELSE [request EXCEPT !.sent = sent, !.last = Last(page)]

\* Mutant: the pages are counted.
PageByOffset ==
    /\ Exporting /\ request.pc = "page"
    /\ \E page \in Pages(PageSize, {i \in present :
                              Cardinality({j \in present : j < i}) >= Len(request.sent)}) : Emit(page)
    /\ UNCHANGED <<present, lasting>>

\* The rows after the last key sent.
NextPage ==
    /\ Exporting /\ request.pc = "page"
    /\ \E page \in Pages(PageSize, {i \in present : i > request.last}) : Emit(page)
    /\ UNCHANGED <<present, lasting>>

InsertRow(i) ==
    /\ Exporting /\ i \notin present
    /\ present' = present \cup {i}
    /\ UNCHANGED <<lasting, request>>

DropRow(i) ==
    /\ Exporting /\ i \in present
    /\ present' = present \ {i} /\ lasting' = lasting \ {i}
    /\ UNCHANGED request

-----------------------------------------------------------------------------
ExchangeNext ==
    /\ \/ BeginImport \/ CommitEntity \/ EndTemplates \/ EndImport
       \/ \E e \in Entities : BeginEntity(e) \/ SkipEntity(e)
       \/ \E k \in Keys : ApplyTemplate(k) \/ ApplyRow(k) \/ FailEntity(k) \/ EditRow(k)
       \/ BeginExport \/ NextPage
       \/ \E i \in Ids : InsertRow(i) \/ DropRow(i)
    /\ UNCHANGED job

-----------------------------------------------------------------------------
ExchangeTypeOK ==
    /\ table \in [Entities -> [Keys -> {"old", "new", None}]]
    /\ session \in [Entities -> [Keys -> {"keep", "new", None}]]
    /\ broken \in BOOLEAN
    /\ request.pc = "rows" => /\ request.todo \subseteq Keys /\ request.errors \subseteq Keys
                              /\ Cardinality(request.unsent) <= 1
    /\ lasting \subseteq present /\ present \subseteq Ids

\* An export that ends has sent no row twice, and every row that was there
\* from its beginning to its end, whatever was inserted and deleted between
\* two pages.
ExportIsComplete ==
    request.pc = "done" => IsInjective(request.sent) /\ lasting \subseteq Range(request.sent)

\* A step of an import changes no table, countries and templates apart, but
\* the one it is about, and that one as a whole and never in a dry run: every
\* row the result does not report as an error is there, and no other row has
\* changed (a replacing import drops those it does not name).  Neither a
\* table that failed before it in the bundle, nor the edits of others, nor a
\* death leave part of a table behind.  (Of a step.)
ImportAllOrNothing ==
    \A e \in Entities \cap RolledBack : request' # request /\ table'[e] # table[e] =>
        /\ request.entity = e /\ ~request.dry
        /\ \A k \in Keys :
              IF request.file[k] # "none" /\ k \notin request.errors THEN table'[e][k] = "new"
              ELSE table'[e][k] = table[e][k] \/ (request.replace /\ table'[e][k] = None)

\* Both directions: an import steps as it should, and an export ends complete.
ExchangeIsFaithful == [][ImportAllOrNothing /\ ExportIsComplete']_exchangeVars
================================================================================
