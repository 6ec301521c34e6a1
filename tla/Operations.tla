------------------------------- MODULE Operations -------------------------------
(***************************************************************************)
(* The operation of an installation: the log records on their way out and  *)
(* their readers, the license gate, the commands that fill the database,   *)
(* the delivery of events, the calls to and from payment providers and     *)
(* language models, and the database: its migrations, and what is deleted  *)
(* from it; each a scene or more.  They share the workers and nothing     *)
(* else.                                                                   *)
(***************************************************************************)
EXTENDS LogShipping, LogReading, Licensing, Seeding, EventDelivery, ProviderCalls, LlmCalls,
        Deletions

CONSTANT Scenes

vars == <<scene, job, shippingVars, readingVars, licenseVars, seedingVars,
          eventVars, providerVars, llmVars, schemaVars, rowVars>>

\* What a behaviour is not about starts in one of its initial states (bound).
Init ==
    /\ scene \in Scenes /\ job = [w \in Workers |-> Idle]
    /\ ShippingInit /\ ReadingInit /\ LicensingInit /\ SeedingInit
    /\ EventsInit /\ ProvidersInit /\ LlmInit /\ SchemaInit /\ RowsInit
    /\ scene # "ship" => config.capacity = CHOOSE n \in Capacities : TRUE
    /\ scene # "license" => setting.pinned /\ setting.online
    /\ scene # "seed" => \A x \in Things : copies[x] = 0
    /\ scene # "rows" => part = CHOOSE p \in Parts : TRUE

Next ==
    /\ UNCHANGED scene
    /\ \/ /\ scene = "ship"
          /\ ShippingNext
          /\ UNCHANGED <<readingVars, licenseVars, seedingVars, eventVars,
                         providerVars, llmVars, schemaVars, rowVars>>
       \/ /\ scene \in {"tail", "pages"}
          /\ ReadingNext
          /\ UNCHANGED <<shippingVars, licenseVars, seedingVars, eventVars,
                         providerVars, llmVars, schemaVars, rowVars>>
       \/ /\ scene = "license"
          /\ LicensingNext
          /\ UNCHANGED <<shippingVars, readingVars, seedingVars, eventVars,
                         providerVars, llmVars, schemaVars, rowVars>>
       \/ /\ scene = "seed"
          /\ SeedingNext
          /\ UNCHANGED <<shippingVars, readingVars, licenseVars, eventVars,
                         providerVars, llmVars, schemaVars, rowVars>>
       \/ /\ scene \in {"bus", "listeners", "domain"}
          /\ EventsNext
          /\ UNCHANGED <<shippingVars, readingVars, licenseVars, seedingVars,
                         providerVars, llmVars, schemaVars, rowVars>>
       \/ /\ scene \in {"sdk", "inbound"}
          /\ ProvidersNext
          /\ UNCHANGED <<shippingVars, readingVars, licenseVars, seedingVars,
                         eventVars, llmVars, schemaVars, rowVars>>
       \/ /\ scene = "llm"
          /\ LlmNext
          /\ UNCHANGED <<shippingVars, readingVars, licenseVars, seedingVars,
                         eventVars, providerVars, schemaVars, rowVars>>
       \/ /\ scene = "migrate"
          /\ SchemaNext
          /\ UNCHANGED <<shippingVars, readingVars, licenseVars, seedingVars,
                         eventVars, providerVars, llmVars, rowVars>>
       \/ /\ scene = "rows"
          /\ RowsNext
          /\ UNCHANGED <<shippingVars, readingVars, licenseVars, seedingVars,
                         eventVars, providerVars, llmVars, schemaVars>>

Spec == Init /\ [][Next]_vars

-----------------------------------------------------------------------------
\* Records, files, keys and rows of every scene have their shape: what waits to
\* be shipped was logged, a segment of a log is not overfull, a key file is
\* bound to the fingerprint of a worker, a unique key is there once, listeners
\* are sorted, calls stay within their attempts, and no key of the database
\* refers to a table or a row that is not there.
TypeOK ==
    /\ ShippingTypeOK /\ ReadingTypeOK /\ LicensingTypeOK /\ SeedingTypeOK
    /\ EventsTypeOK /\ ProvidersTypeOK /\ LlmTypeOK /\ SchemaTypeOK /\ RowsTypeOK

\* The log, from its writers to the shippers and the readers: see LogShipping
\* and LogReading.
LogsAreFaithful == RecordsAreAccounted /\ ReadersAreFaithful

\* Calls to and from other services: after every step, what was performed,
\* acknowledged or answered is as ProviderCalls and LlmCalls promise, and the
\* step keeps the edits of the connections.
CallsAreExact ==
    [][ProviderCallsAreExact' /\ AnswersFit' /\ StampKeepsEdits]_vars
================================================================================
