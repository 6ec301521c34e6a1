-------------------------------- MODULE Deletions --------------------------------
(***************************************************************************)
(* What an administrator deletes, and what goes with it: rows of tables    *)
(* of vbwd and of the first plugins, under the keys that the migrations    *)
(* leave.  A behaviour looks at some of the tables, its part: each has at  *)
(* most one row that comes and goes (bound); every other table has one     *)
(* that stays.                                                             *)
(***************************************************************************)
EXTENDS Schema, FiniteSets

CONSTANTS
    Parts,         \* sets of tables
    MaxRows        \* bound on the rows that are there at a time

VARIABLES
    part,
    rows,          \* the tables of the part that have their row
    link,          \* the keys those rows have and need not have
    outcome        \* history: the deletion that has just ended

rowVars == <<part, rows, link, outcome>>

RowsInit == part \in Parts /\ rows = {} /\ link = {} /\ outcome = None

OnRows == On("rows") /\ UNCHANGED part

KeysAmong == [p \in Parts |-> {k \in AtHead.keys : k.from \in p /\ k.to \in p}]
RowKeys == KeysAmong[part]
Tied(db) == {k \in RowKeys : k.from \in db.rows /\ (k.opt => k \in db.link)}

Database == [rows |-> rows, link |-> link, ok |-> TRUE]

-----------------------------------------------------------------------------
(***************************************************************************)
(* DELETE, as PostgreSQL does it: what the rows own goes too, and what     *)
(* forgets them stays.  A key that restricts is looked at at once, one     *)
(* that neither owns nor can forget at the end of the statement.           *)
(***************************************************************************)
Owned(db, S) == {k.from : k \in {x \in Tied(db) : x.on = "cascade" /\ x.to \in S}}

WentWith(db, S) ==
    {t \in db.rows : \A H \in SUBSET db.rows :
        (S \cap db.rows \subseteq H /\ Owned(db, H) \subseteq H) => t \in H}

Blocked(db, gone) ==
    \E k \in Tied(db) :
        /\ k.to \in gone
        /\ \/ k.on = "restrict"
           \/ k.on # "cascade" /\ ~(k.on = "null" /\ k.opt) /\ k.from \notin gone

Delete(db, S) ==
    LET gone == WentWith(db, S) IN
    IF ~db.ok \/ Blocked(db, gone) THEN [db EXCEPT !.ok = FALSE]
    ELSE [db EXCEPT !.rows = @ \ gone,
                    !.link = {k \in @ : k.from \notin gone /\ k.to \notin gone}]

-----------------------------------------------------------------------------
(***************************************************************************)
(* Who is asked to delete.  The ORM loads what it has relationships to,    *)
(* deletes that first, and takes it amiss when a row of a join table has   *)
(* gone meanwhile.  A user is deleted by one statement instead.            *)
(***************************************************************************)
Related(t) ==
    CASE t = "user_invoice" -> {"invoice_line_item"}
      [] t = "tax" -> {"tax_rate"}
      [] t = "payment_method" -> {"payment_method_translation"}
      [] t = "admin_role" -> {"user_admin_role", "admin_role_permissions"}
      [] t = "access_level" -> {"user_access_level_rel", "access_level_permissions"}
      [] t = "token_bundle" -> {"token_bundle_tax"}
      [] OTHER -> {}

Joins == {"user_admin_role", "admin_role_permissions", "user_access_level_rel",
          "access_level_permissions", "token_bundle_tax"}

\* Mutant: a user is deleted the way of the base repository.
AllByOrm(r) ==
    LET related == IF r.table = "user" THEN {"user_details", "user_invoice"}
                   ELSE Related(r.table) IN
    Delete(Delete(Database, related \cap r.seen), {r.table})

Deleted(r) ==
    IF r.table = "user" THEN Delete(Database, {"user"})
    ELSE Delete(Delete(Database, Related(r.table) \cap r.seen), {r.table})

\* Others whose deletion is under way learn what they have lost.
Losing(gone) ==
    [w \in Workers |->
       IF ~IsAt(w, "delete") THEN job[w]
       ELSE [job[w] EXCEPT !.seen = @ \ gone,
                           !.stale = @ \/ Related(job[w].table) \cap job[w].seen
                                            \cap Joins \cap gone # {}]]

\* What refers to a row at the moment.
HangingOn(t) == {k.from : k \in {x \in Tied(Database) : x.to = t}}

Find(w, t, force) ==
    /\ t \in rows
    /\ Begin(w, [pc |-> "delete", table |-> t, force |-> force, seen |-> HangingOn(t),
                 stale |-> FALSE])
    /\ outcome' = None /\ UNCHANGED <<rows, link>>

\* Invoices, and subscriptions if their plugin has registered that it counts them.
Dependencies(registered) ==
    HangingOn("user") \cap ({"user_invoice"} \cup {t \in {"subscription"} : registered})

\* With dependencies, and without "force", the answer is 409.
FindUser(w) ==
    /\ OnRows
    /\ \E force, registered \in BOOLEAN :
          /\ force \/ Dependencies(registered) = {}
          /\ Find(w, "user", force)

\* A bundle with purchases is kept (400).
FindBundle(w) ==
    /\ OnRows /\ "token_bundle_purchase" \notin HangingOn("token_bundle")
    /\ Find(w, "token_bundle", FALSE)

FindInvoice(w) == OnRows /\ Find(w, "user_invoice", FALSE)
FindTax(w) == OnRows /\ Find(w, "tax", FALSE)
FindRole(w) == OnRows /\ Find(w, "admin_role", FALSE)
FindLevel(w) == OnRows /\ Find(w, "access_level", FALSE)
FindGroup(w) == OnRows /\ Find(w, "user_groups", FALSE)
FindTag(w) == OnRows /\ Find(w, "tag", FALSE)
\* Not the default one: see Catalogue.
FindMethod(w) == OnRows /\ Find(w, "payment_method", FALSE)
FindWebhook(w) == OnRows /\ Find(w, "webhook", FALSE)

\* A refusal of the database is an answer (409) for users and taxes only.  What
\* has gone meanwhile is no error.
DeleteNow(w) ==
    LET r == job[w]
        db == Deleted(r) IN
    /\ OnRows /\ IsAt(w, "delete")
    /\ IF r.table \notin rows
       THEN Done(w) /\ outcome' = None /\ UNCHANGED <<rows, link>>
       ELSE IF db.ok /\ ~r.stale
       THEN /\ rows' = db.rows /\ link' = db.link
            /\ outcome' = [request |-> r, code |-> "done", was |-> rows, gone |-> rows \ db.rows]
            /\ job' = [Losing(rows \ db.rows) EXCEPT ![w] = Idle]
       ELSE /\ outcome' = [request |-> r, was |-> rows, gone |-> {},
                           code |-> IF r.table \in {"user", "tax"} THEN "conflict" ELSE "error"]
            /\ Done(w) /\ UNCHANGED <<rows, link>>

-----------------------------------------------------------------------------
\* Everybody else: a row comes, with some of the keys it may have; a role, a
\* level or a tax is taken away.
InsertRow(t) ==
    /\ OnRows /\ t \in part \ rows /\ Cardinality(rows) < MaxRows
    /\ \A w \in Workers : IsAt(w, "delete") => job[w].table # t
    /\ \A k \in RowKeys : k.from = t /\ ~k.opt => k.to \in rows
    /\ \E chosen \in SUBSET {k \in RowKeys : k.from = t /\ k.opt /\ k.to \in rows} :
          link' = link \cup chosen
    /\ rows' = rows \cup {t} /\ outcome' = None /\ UNCHANGED job

Detach(t) ==
    LET db == Delete(Database, {t}) IN
    /\ OnRows /\ t \in Joins \cap rows /\ db.ok
    /\ rows' = db.rows /\ link' = db.link /\ outcome' = None
    /\ job' = Losing(rows \ db.rows)

RowsNext ==
    \/ \E w \in Workers :
          \/ FindUser(w) \/ FindBundle(w) \/ FindInvoice(w) \/ FindTax(w) \/ FindRole(w)
          \/ FindLevel(w) \/ FindGroup(w) \/ FindTag(w) \/ FindMethod(w) \/ FindWebhook(w)
          \/ DeleteNow(w)
    \/ \E t \in part : InsertRow(t) \/ Detach(t)

-----------------------------------------------------------------------------
\* No key dangles, and nobody deletes with more than was loaded.
RowsTypeOK ==
    /\ rows \subseteq part /\ link \subseteq {k \in RowKeys : k.opt}
    /\ \A k \in Tied(Database) : k.to \in rows
    /\ \A k \in link : k.from \in rows
    /\ scene = "rows" => \A w \in Workers : IsAt(w, "delete") => job[w].seen \subseteq part

\* What only an administrator of the shop may remove.
CatalogRows == {"token_bundle", "tax", "admin_role", "access_level", "user_groups", "tag",
             "payment_method", "webhook"}
Holders(t) == {k.from : k \in {x \in RowKeys : x.to = t /\ x.on = "nothing"}}

\* What administrators delete, and the tables whose rows may go with a row of it.
Deletable == {"user", "user_invoice"} \cup CatalogRows
Heirs(S) == S \cup {k.from : k \in {x \in AtHead.keys : x.on = "cascade" /\ x.to \in S}}
Estate(t) ==
    LET heirs[n \in 0 .. 9] == IF n = 0 THEN {t} \cup Related(t) ELSE Heirs(heirs[n - 1]) IN
    heirs[9]

\* The key k stands in the way of a deletion from t only like this.
Impedes(k, t) ==
    CASE t = "user" -> \/ k.from \notin DeclaredTables
                          /\ \E x \in AtHead.keys :
                                x.from = k.from /\ x.to = "user" /\ x.on = "nothing"
                       \/ k.on # "restrict"
                          /\ \E x \in AtHead.keys :
                                x.from = k.from /\ x.to = "user" /\ x.on = "cascade" /\ ~x.opt
      [] t = "user_invoice" -> k.to = t /\ k.on = "nothing"
      [] t = "tax" -> k.from = "token_bundle_tax"
      [] t = "token_bundle" -> k.from = "token_bundle_purchase"
      [] t \in {"admin_role", "access_level"} -> k.from \in Related(t) /\ k.on # "restrict"
      [] OTHER -> FALSE

\* The keys that the migrations make, looked at once: no CONSTANT occurs.
ASSUME EstatesAreSettled ==
    \A t \in Deletable :
        LET estate == Estate(t) IN
        /\ {t} \cup Related(t) \subseteq estate /\ estate \cap CatalogRows \subseteq {t}
        /\ \A k \in {x \in AtHead.keys : x.to \in estate} :
              \/ k.on = "cascade" /\ k.from \in estate
              \/ k.on = "null" /\ k.opt
              \/ k.on # "cascade" /\ Impedes(k, t)

\* A deletion ends in an unhandled error only for an invoice that something
\* bought or booked refers to, for a bundle that was bought after the purchases
\* were counted, and for a role or level given or taken after it was loaded.
\* The database keeps a user only for a row of a plugin, and a tax only for a
\* bundle.  What is deleted takes nothing of the catalogs with it; and an
\* invoice goes with its user, unless that was forced, only if it came after
\* the dependencies were counted.
DeletionsHold ==
    outcome # None =>
      LET r == outcome.request
          came == outcome.was \ r.seen IN
      /\ outcome.code = "error" =>
           \/ r.table = "user_invoice" /\ outcome.was \cap Holders("user_invoice") # {}
           \/ r.table = "token_bundle" /\ "token_bundle_purchase" \in came
           \/ r.table \in {"token_bundle", "admin_role", "access_level"}
              /\ (r.stale \/ came \cap Related(r.table) # {})
      /\ outcome.code = "conflict" =>
           IF r.table = "tax" THEN "token_bundle_tax" \in outcome.was
           ELSE outcome.was \cap (Holders("user") \ DeclaredTables) # {}
      /\ outcome.gone \cap CatalogRows \subseteq {r.table}
      /\ r.table = "user" /\ ~r.force /\ "user_invoice" \in outcome.gone => "user_invoice" \in came
================================================================================
