--------------------------------- MODULE Schema ---------------------------------
(***************************************************************************)
(* The schema of the database as the migrations leave it: the tables, and  *)
(* the foreign keys between them with what the deletion of a parent does   *)
(* to the child.  Columns, indexes and types are left out, and so are the  *)
(* migrations that change nothing else.  The baseline holds the tables of  *)
(* the first plugins too.  Names are those of the tables without "vbwd_".  *)
(*                                                                         *)
(* A migration is a sequence of statements, run in a transaction: one that *)
(* the database refuses takes the others back.                             *)
(***************************************************************************)
EXTENDS Integers, SequencesExt, Scenes

VARIABLES
    schema,        \* tables and keys
    applied,       \* the revisions that are in
    refused        \* history: the last command, if the database refused it

schemaVars == <<schema, applied, refused>>

\* A foreign key, but for the table that has it.  Its name matters only where
\* a statement drops it by name; "auto" is the name PostgreSQL gives.
Key(parent, on, opt) ==
    [to |-> parent, by |-> parent, on |-> on, opt |-> opt, name |-> "auto"]
Needs(p) == Key(p, "nothing", FALSE)
MayNeed(p) == Key(p, "nothing", TRUE)
OwnedBy(p) == Key(p, "cascade", FALSE)
MayBeOwned(p) == Key(p, "cascade", TRUE)
Forgets(p) == Key(p, "null", TRUE)
Holds(p) == Key(p, "restrict", FALSE)
WithName(key, name) == [key EXCEPT !.name = name]
By(key, column) == [key EXCEPT !.by = column]

KeyOf(table, k) ==
    [from |-> table, to |-> k.to, by |-> k.by, on |-> k.on, opt |-> k.opt, name |-> k.name]
KeysOf(table, keys) == {KeyOf(table, k) : k \in keys}

Create(table, keys) == [do |-> "create", table |-> table, keys |-> KeysOf(table, keys)]
Drop(table) == [do |-> "drop", table |-> table]
Rename(table, as) == [do |-> "rename", table |-> table, as |-> as]
Tie(table, key) == [do |-> "add key", key |-> KeyOf(table, key)]
Untie(table, column, name) == [do |-> "drop key", table |-> table, by |-> column, name |-> name]
DropColumn(table, column) == [do |-> "drop column", table |-> table, by |-> column]
\* CREATE TABLE after a look at the catalog; and the drop of all keys to a table.
CreateMissing(table, keys) == [do |-> "ensure", table |-> table, keys |-> KeysOf(table, keys)]
Release(table) == [do |-> "release", table |-> table]

-----------------------------------------------------------------------------
(***************************************************************************)
(* The baseline, in the order of its statements.                           *)
(***************************************************************************)
Catalogs ==
    <<Create("arcana", {}), Create("booking_custom_schema", {}), Create("booking_export_rule", {}),
      Create("booking_resource_category", {MayNeed("booking_resource_category")}),
      Create("cms_category", {Forgets("cms_category")}),
      Create("cms_image", {}), Create("cms_layout", {}), Create("cms_routing_rules", {}),
      Create("cms_style", {})>>

Goods ==
    <<Create("cms_widget", {}), Create("discount", {}), Create("email_template", {}),
      Create("shop_product", {}), Create("shop_product_category", {Forgets("shop_product_category")}),
      Create("shop_warehouse", {}), Create("tarot_session", {}), Create("addon", {})>>

Settings ==
    <<Create("country", {}), Create("currency", {}), Create("payment_method", {}),
      Create("permission", {}), Create("role", {}), Create("user_access_level", {}),
      Create("tarif_plan_category", {Forgets("tarif_plan_category")}),
      Create("tax", {}), Create("token_bundle", {})>>

Pages ==
    <<Create("user", {}),
      Create("booking_resource", {MayNeed("booking_custom_schema")}),
      Create("cms_layout_widget", {OwnedBy("cms_layout"), Holds("cms_widget")}),
      Create("cms_menu_item", {MayBeOwned("cms_menu_item"), OwnedBy("cms_widget")}),
      Create("cms_page", {Forgets("cms_category"), Forgets("cms_layout"), Forgets("cms_style")}),
      Create("coupon", {OwnedBy("discount")}),
      Create("ghrm_user_github_access", {OwnedBy("user")})>>

Products ==
    <<Create("shop_abandoned_cart", {MayBeOwned("user")}),
      Create("shop_product_category_link", {OwnedBy("shop_product_category"), OwnedBy("shop_product")}),
      Create("shop_product_image", {OwnedBy("shop_product")}),
      Create("shop_product_review", {OwnedBy("shop_product"), OwnedBy("user")}),
      Create("shop_product_variant", {OwnedBy("shop_product")}),
      Create("tarot_card_draw", {Needs("arcana")}),
      Create("feature_usage", {Needs("user")}),
      Create("password_reset_token", {OwnedBy("user")}),
      Create("payment_method_translation", {OwnedBy("payment_method")})>>

Persons ==
    <<Create("price", {Needs("currency")}),
      Create("role_permissions", {Needs("permission"), Needs("role")}),
      Create("tax_rate", {OwnedBy("tax")}),
      Create("token_transaction", {OwnedBy("user")}),
      Create("user_case", {OwnedBy("user")}),
      Create("user_details", {OwnedBy("user")}),
      Create("user_roles", {Needs("role"), Needs("user")}),
      Create("user_access_level_permissions", {Needs("user_access_level"), Needs("permission")}),
      Create("user_user_access_levels", {Needs("user"), Needs("user_access_level")}),
      Create("user_token_balance", {OwnedBy("user")}),
      Create("booking_resource_category_link",
             {OwnedBy("booking_resource_category"), OwnedBy("booking_resource")}),
      Create("booking_resource_image", {OwnedBy("cms_image"), OwnedBy("booking_resource")})>>

Stock ==
    <<Create("booking_resource_slot_block", {MayNeed("user"), OwnedBy("booking_resource")}),
      Create("cms_page_content_block", {OwnedBy("cms_page")}),
      Create("shop_stock_block", {OwnedBy("shop_product"), MayBeOwned("shop_product_variant"),
                                  OwnedBy("shop_warehouse")}),
      Create("shop_warehouse_stock", {OwnedBy("shop_product"), MayBeOwned("shop_product_variant"),
                                      OwnedBy("shop_warehouse")}),
      Create("shop_wishlist_item", {OwnedBy("shop_product"), OwnedBy("user"),
                                    MayBeOwned("shop_product_variant")}),
      Create("tarif_plan", {MayNeed("price")}),
      Create("ghrm_software_package", {OwnedBy("tarif_plan")}),
      Create("addon_tarif_plans", {OwnedBy("addon"), OwnedBy("tarif_plan")})>>

Contracts ==
    <<Create("subscription", {Needs("tarif_plan"), By(MayNeed("tarif_plan"), "pending"),
                              OwnedBy("user")}),
      Create("tarif_plan_category_plans", {OwnedBy("tarif_plan_category"), OwnedBy("tarif_plan")}),
      Create("ghrm_access_log", {Forgets("ghrm_software_package"), Forgets("user")}),
      Create("ghrm_software_sync", {OwnedBy("ghrm_software_package")}),
      Create("user_invoice", {MayNeed("subscription"), MayNeed("tarif_plan"), OwnedBy("user")}),
      Create("booking", {MayNeed("user_invoice"), Needs("booking_resource"), Needs("user")}),
      Create("coupon_usage", {OwnedBy("coupon"), Forgets("user_invoice"), OwnedBy("user")})>>

Orders ==
    <<Create("shop_order", {MayNeed("user_invoice"), OwnedBy("user")}),
      Create("addon_subscription", {Needs("addon"), MayNeed("user_invoice"),
                                    MayNeed("subscription"), OwnedBy("user")}),
      Create("invoice_line_item", {OwnedBy("user_invoice")}),
      Create("token_bundle_purchase", {Needs("token_bundle"), MayNeed("user_invoice"),
                                       OwnedBy("user")}),
      Create("discount_application", {Forgets("coupon"), OwnedBy("discount"),
                                      OwnedBy("user_invoice"), Forgets("invoice_line_item"),
                                      OwnedBy("user")}),
      Create("shop_order_item", {OwnedBy("shop_order"), Needs("shop_product"),
                                 MayNeed("shop_product_variant"), MayNeed("shop_warehouse")})>>

BaselineUp ==
    Catalogs \o Goods \o Settings \o Pages \o Products \o Persons \o Stock \o Contracts \o Orders

\* The tables are dropped in the reverse order; the three of access levels are
\* left to the revision that comes after.
LevelTables == {"user_access_level", "user_access_level_permissions", "user_user_access_levels"}
Undone(creations) ==
    LET drops[i \in 0 .. Len(creations)] ==
            IF i = 0 THEN <<>>
            ELSE IF creations[i].table \in LevelTables THEN drops[i - 1]
            ELSE <<Drop(creations[i].table)>> \o drops[i - 1] IN
    drops[Len(creations)]

\* Mutant: in the order of their creation.
DropInOrder == Reverse(Undone(Tail(Pages) \o Products \o Persons \o Stock \o Contracts \o Orders))

DropReferring == Undone(Tail(Pages) \o Products \o Persons \o Stock \o Contracts \o Orders)
DropReferredTo == Undone(Catalogs \o Goods \o Settings \o <<Pages[1]>>)
BaselineDown == DropReferring \o DropReferredTo

-----------------------------------------------------------------------------
(***************************************************************************)
(* The revisions after it that change a table or a key, each with those it *)
(* comes after; the revisions between them are left out.                   *)
(***************************************************************************)
Baseline == [id |-> "all tables", after |-> {}, up |-> BaselineUp, down |-> BaselineDown]

\* Its key has a name of its own.
TaxClass ==
    [id |-> "tax class", after |-> {"all tables"},
     up |-> <<Create("tax_class", {}),
              Tie("tax", WithName(By(Forgets("tax_class"), "tax_class_id"), "fk_tax_class"))>>,
     down |-> <<Untie("tax", "tax_class_id", "fk_tax_class"), Drop("tax_class")>>]

\* Tables that the baseline may have made are left alone.
AccessLevels ==
    [id |-> "access levels", after |-> {"tax class"},
     up |-> <<CreateMissing("user_access_level", {}),
              CreateMissing("user_access_level_permissions",
                     {Needs("user_access_level"), Needs("permission")}),
              CreateMissing("user_user_access_levels", {Needs("user"), Needs("user_access_level")})>>,
     down |-> <<Drop("user_user_access_levels"), Drop("user_access_level_permissions"),
                Drop("user_access_level")>>]

InvoiceWithoutSubscription ==
    [id |-> "invoice", after |-> {"access levels"},
     up |-> <<Untie("user_invoice", "subscription", "auto"),
              Untie("user_invoice", "tarif_plan", "auto")>>,
     down |-> <<Tie("user_invoice", MayNeed("tarif_plan")),
                Tie("user_invoice", MayNeed("subscription"))>>]

SeedMarker ==
    [id |-> "seed marker", after |-> {"invoice"},
     up |-> <<Create("plugin_seed_marker", {})>>, down |-> <<Drop("plugin_seed_marker")>>]

ApiKeys ==
    [id |-> "api key", after |-> {"seed marker"},
     up |-> <<Create("api_key", {OwnedBy("user")})>>, down |-> <<Drop("api_key")>>]

DeviceTokens ==
    [id |-> "device token", after |-> {"api key"},
     up |-> <<Create("device_token", {OwnedBy("user")})>>, down |-> <<Drop("device_token")>>]

\* One of two branches.  The key comes back under another name.
FlattenTaxClass ==
    [id |-> "flatten tax class", after |-> {"device token"},
     up |-> <<DropColumn("tax", "tax_class_id"), Drop("tax_class")>>,
     down |-> <<Create("tax_class", {}),
                Tie("tax", By(Forgets("tax_class"), "tax_class_id"))>>]

UserGroups ==
    [id |-> "user groups", after |-> {"flatten tax class"},
     up |-> <<Create("user_groups", {}),
              Create("user_group_rel", {OwnedBy("user"), OwnedBy("user_groups")})>>,
     down |-> <<Drop("user_group_rel"), Drop("user_groups")>>]

\* The other branch.  Whatever refers to the prices is released first, and
\* that of the plans is not tied again.
DropPrice ==
    [id |-> "drop price", after |-> {"device token"},
     up |-> <<Release("price"), Drop("price")>>,
     down |-> <<Create("price", {Needs("currency")})>>]

Tags ==
    [id |-> "tags", after |-> {"user groups", "drop price"},
     up |-> <<Create("tag", {}), Create("entity_tag", {OwnedBy("tag")}),
              Create("custom_field_def", {}), Create("custom_field_value", {})>>,
     down |-> <<Drop("custom_field_value"), Drop("custom_field_def"), Drop("entity_tag"),
                Drop("tag")>>]

BundleTaxes ==
    [id |-> "bundle taxes", after |-> {"tags"},
     up |-> <<Create("token_bundle_tax", {OwnedBy("token_bundle"), Holds("tax")})>>,
     down |-> <<Drop("token_bundle_tax")>>]

UserRoleTable ==
    [id |-> "user role", after |-> {"bundle taxes"},
     up |-> <<Create("user_role", {}), Tie("user", WithName(Needs("user_role"), "fk_user_role"))>>,
     down |-> <<Untie("user", "user_role", "fk_user_role"), Drop("user_role")>>]

LlmConnections ==
    [id |-> "llm connection", after |-> {"user role"},
     up |-> <<Create("llm_connection", {})>>, down |-> <<Drop("llm_connection")>>]

DropUserCase ==
    [id |-> "drop user case", after |-> {"llm connection"},
     up |-> <<Drop("user_case")>>, down |-> <<Create("user_case", {OwnedBy("user")})>>]

\* The names of the keys follow those of the tables.
RenameAdminRole ==
    [id |-> "admin role", after |-> {"drop user case"},
     up |-> <<Rename("role", "admin_role"), Rename("role_permissions", "admin_role_permissions"),
              Rename("user_roles", "user_admin_role")>>,
     down |-> <<Rename("user_admin_role", "user_roles"),
                Rename("admin_role_permissions", "role_permissions"),
                Rename("admin_role", "role")>>]

RenameLevelJoin ==
    [id |-> "level join", after |-> {"admin role"},
     up |-> <<Rename("user_user_access_levels", "user_access_level_rel")>>,
     down |-> <<Rename("user_access_level_rel", "user_user_access_levels")>>]

RenameAccessLevel ==
    [id |-> "access level", after |-> {"level join"},
     up |-> <<Rename("user_access_level", "access_level"),
              Rename("user_access_level_permissions", "access_level_permissions")>>,
     down |-> <<Rename("access_level_permissions", "user_access_level_permissions"),
                Rename("access_level", "user_access_level")>>]

OutboundTables ==
    [id |-> "outbound webhooks", after |-> {"access level"},
     up |-> <<Create("webhook", {}), Create("webhook_delivery", {OwnedBy("webhook")})>>,
     down |-> <<Drop("webhook_delivery"), Drop("webhook")>>]

UserOwned == <<"user_admin_role", "user_access_level_rel", "feature_usage">>

\* The key is looked up by its column, and made again: with the cascade on the
\* way up, without on the way down.
Retied(key) ==
    FlattenSeq([i \in DOMAIN UserOwned |-> <<Untie(UserOwned[i], "user", "any"),
                                            Tie(UserOwned[i], key)>>])

UserCascade ==
    [id |-> "user cascade", after |-> {"outbound webhooks"},
     up |-> Retied(OwnedBy("user")), down |-> Retied(Needs("user"))]

\* In an order that alembic may take.
History ==
    <<Baseline, TaxClass, AccessLevels, InvoiceWithoutSubscription, SeedMarker, ApiKeys,
      DeviceTokens, FlattenTaxClass, UserGroups, DropPrice, Tags, BundleTaxes, UserRoleTable,
      LlmConnections, DropUserCase, RenameAdminRole, RenameLevelJoin, RenameAccessLevel,
      OutboundTables, UserCascade>>
Revisions == ToSet(History)

-----------------------------------------------------------------------------
(***************************************************************************)
(* The database: what it refuses, and what it does.                        *)
(***************************************************************************)
KeysTo(db, t) == {k \in db.keys : k.to = t}
Dropped(db, s) == {k \in db.keys : /\ k.from = s.table /\ k.by = s.by
                                   /\ s.name \in {"any", k.name}}

Legal(db, s) ==
    CASE s.do = "create" -> s.table \notin db.tables
                            /\ \A k \in s.keys : k.to \in db.tables \cup {s.table}
      [] s.do = "ensure" -> \/ s.table \in db.tables
                            \/ \A k \in s.keys : k.to \in db.tables \cup {s.table}
      [] s.do = "drop" -> s.table \in db.tables
                          /\ \A k \in KeysTo(db, s.table) : k.from = s.table
      [] s.do = "rename" -> s.table \in db.tables /\ s.as \notin db.tables
      [] s.do = "add key" -> {s.key.from, s.key.to} \subseteq db.tables
      [] s.do = "drop key" -> s.table \in db.tables /\ (s.name = "any" \/ Dropped(db, s) # {})
      [] OTHER -> s.table \in db.tables

With(db, s) == [db EXCEPT !.tables = @ \cup {s.table}, !.keys = @ \cup s.keys]

\* A key follows the tables when they are renamed.
Renamed(k, old, new) ==
    LET n(t) == IF t = old THEN new ELSE t IN
    [k EXCEPT !.from = n(@), !.to = n(@), !.by = n(@)]

After(db, s) ==
    CASE s.do = "create" -> With(db, s)
      [] s.do = "ensure" -> IF s.table \in db.tables THEN db ELSE With(db, s)
      [] s.do = "drop" -> [db EXCEPT !.tables = @ \ {s.table},
                                     !.keys = {k \in @ : k.from # s.table}]
      [] s.do = "rename" -> [db EXCEPT !.tables = (@ \ {s.table}) \cup {s.as},
                                       !.keys = {Renamed(k, s.table, s.as) : k \in @}]
      [] s.do = "add key" -> [db EXCEPT !.keys = @ \cup {s.key}]
      [] s.do \in {"drop key", "drop column"} ->
           [db EXCEPT !.keys = @ \ (IF s.do = "drop key" THEN Dropped(db, s)
                                    ELSE {k \in @ : k.from = s.table /\ k.by = s.by})]
      [] s.do = "release" -> [db EXCEPT !.keys = @ \ KeysTo(db, s.table)]

\* The whole migration, or nothing.
Step(db, s) == IF db.ok /\ Legal(db, s) THEN After(db, s) ELSE [db EXCEPT !.ok = FALSE]

Migrated(db, statements) ==
    LET reached[i \in 0 .. Len(statements)] ==
            IF i = 0 THEN db ELSE Step(reached[i - 1], statements[i])
        end == reached[Len(statements)] IN
    IF end.ok THEN end ELSE [db EXCEPT !.ok = FALSE]

NoTables == [tables |-> {}, keys |-> {}, ok |-> TRUE]
AtHead == FoldLeft(LAMBDA db, r : Migrated(db, r.up), NoTables, History)

-----------------------------------------------------------------------------
(***************************************************************************)
(* "alembic upgrade" and "downgrade".  A command that spans revisions is   *)
(* one transaction too; here it goes one revision at a time (bound).       *)
(***************************************************************************)
SchemaInit == schema = NoTables /\ applied = {} /\ refused = None

Run(r, dir) ==
    LET db == Migrated(schema, IF dir = "up" THEN r.up ELSE r.down) IN
    IF db.ok
    THEN /\ schema' = db /\ refused' = None
         /\ applied' = IF dir = "up" THEN applied \cup {r.id} ELSE applied \ {r.id}
    ELSE refused' = <<r.id, dir>> /\ UNCHANGED <<schema, applied>>

Upgrade(r) == r.id \notin applied /\ r.after \subseteq applied /\ Run(r, "up")

Downgrade(r) ==
    /\ r.id \in applied /\ \A later \in Revisions : r.id \in later.after => later.id \notin applied
    /\ Run(r, "down")

SchemaNext == On("migrate") /\ UNCHANGED job /\ \E r \in Revisions : Upgrade(r) \/ Downgrade(r)

-----------------------------------------------------------------------------
\* What the models of vbwd declare (vbwd/models); their tables of plain
\* settings have no keys.
DeclaredKeys ==
    UNION {KeysOf(t, {OwnedBy("user")}) : t \in {"api_key", "device_token", "feature_usage",
        "user_invoice", "password_reset_token", "user_details", "user_token_balance",
        "token_transaction"}}
    \cup KeysOf("user", {Needs("user_role")})
    \cup KeysOf("invoice_line_item", {OwnedBy("user_invoice")})
    \cup KeysOf("token_bundle_purchase",
            {OwnedBy("user"), Needs("token_bundle"), MayNeed("user_invoice")})
    \cup KeysOf("token_bundle_tax", {OwnedBy("token_bundle"), Holds("tax")})
    \cup KeysOf("tax_rate", {OwnedBy("tax")})
    \cup KeysOf("payment_method_translation", {OwnedBy("payment_method")})
    \cup KeysOf("admin_role_permissions", {Needs("admin_role"), Needs("permission")})
    \cup KeysOf("user_admin_role", {OwnedBy("user"), Needs("admin_role")})
    \cup KeysOf("access_level_permissions", {Needs("access_level"), Needs("permission")})
    \cup KeysOf("user_access_level_rel", {OwnedBy("user"), Needs("access_level")})
    \cup KeysOf("user_group_rel", {OwnedBy("user"), OwnedBy("user_groups")})
    \cup KeysOf("entity_tag", {OwnedBy("tag")})
    \cup KeysOf("webhook_delivery", {OwnedBy("webhook")})

DeclaredTables ==
    {k.from : k \in DeclaredKeys} \cup {k.to : k \in DeclaredKeys}
    \cup {"country", "currency", "custom_field_def", "custom_field_value", "llm_connection",
          "plugin_seed_marker"}

\* Whatever migrations went up and down before: no upgrade is refused; a
\* downgrade only is when the key of the tax class has come back under the
\* name that PostgreSQL would give it, and that of the baseline while the
\* tables it leaves to its successor are there; with no revision in there is no
\* table, and with all of them in, the tables and keys of the core are those
\* that the models declare.
MigrationsHold ==
    /\ refused # None =>
         \/ refused = <<"tax class", "down">>
            /\ \E k \in schema.keys : k.from = "tax" /\ k.name = "auto"
         \/ refused = <<"all tables", "down">> /\ LevelTables \cap schema.tables # {}
    /\ applied = {} <=> schema.tables = {}
    /\ applied = {r.id : r \in Revisions} =>
         /\ DeclaredTables \subseteq schema.tables
         /\ {[k EXCEPT !.name = "auto"] : k \in {x \in schema.keys : x.from \in DeclaredTables}}
              = DeclaredKeys

\* A key joins tables that are there.
SchemaTypeOK ==
    /\ applied \subseteq {r.id : r \in Revisions}
    /\ \A k \in schema.keys : {k.from, k.to} \subseteq schema.tables

================================================================================
