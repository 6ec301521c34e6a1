------------------------------ MODULE MCOperations ------------------------------
(***************************************************************************)
(* Finite instance of Operations.                                          *)
(***************************************************************************)
EXTENDS Operations, TLC

MCScenes == {"ship", "tail", "pages", "license", "seed", "bus", "listeners", "domain",
             "sdk", "inbound", "llm", "migrate", "rows"}
MCSources == {<<"p", "warnings">>, <<"p", "events">>, <<"core", "events">>}

\* The caller of capture gives no key (capture_service.py).
MCKeyed == {"create", "refund"}

CONSTANTS f1, f2

\* Any object will do; one of two fields; both, of which one must be there.
MCSchemas == {[expected |-> {}, required |-> {}], [expected |-> {f1, f2}, required |-> {}],
              [expected |-> {f1, f2}, required |-> {f1}]}

\* What a user buys, books and administers; what else a user has, and the taxes;
\* what belongs to nobody.
MCParts ==
    {{"user", "user_invoice", "invoice_line_item", "token_bundle", "token_bundle_purchase",
      "token_bundle_tax", "tax", "admin_role", "user_admin_role", "subscription",
      "addon_subscription", "booking"},
     {"user", "access_level", "user_access_level_rel", "user_groups", "user_group_rel",
      "feature_usage", "tax", "tax_rate"},
     {"tag", "entity_tag", "webhook", "webhook_delivery", "payment_method",
      "payment_method_translation"}}

\* The licenses are told apart, since one of them is known to the authority, the
\* callbacks, since one is urgent, and the fields, since one is required.  To
\* permute more than the workers takes TLC longer than the states it saves.
Interchangeable == Permutations(Workers)

\* Of a state, what can vary in its scene: Next leaves the rest alone, and Init
\* gives it one value.
Varying ==
    <<scene, job,
      CASE scene = "ship" -> shippingVars
        [] scene \in {"tail", "pages"} -> readingVars
        [] scene = "license" -> licenseVars
        [] scene = "seed" -> seedingVars
        [] scene \in {"bus", "listeners", "domain"} -> eventVars
        [] scene \in {"sdk", "inbound"} -> providerVars
        [] scene = "llm" -> llmVars
        [] scene = "migrate" -> schemaVars
        [] scene = "rows" -> rowVars>>
================================================================================
