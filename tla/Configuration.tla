----------------------------- MODULE Configuration -----------------------------
(***************************************************************************)
(* The administration of an installation: the currencies and settings, the *)
(* catalog tables, the data exchange, the files and the permissions, each  *)
(* a scene or several.  They share the workers and nothing else.           *)
(***************************************************************************)
EXTENDS Currencies, Catalogue, DataExchange, FileStorage, AccessControl

CONSTANT Scenes

vars == <<scene, job, currencyVars, catalogueVars, exchangeVars, fileVars, accessVars>>

\* What a behaviour is not about starts in one of its initial states (bound).
Init ==
    /\ scene \in Scenes /\ job = [w \in Workers |-> Idle]
    /\ CurrenciesInit /\ CatalogueInit /\ ExchangeInit /\ FilesInit /\ AccessInit
    /\ scene # "currencies" => \A c \in Codes \ {Base} : rate[c] = None
    /\ scene # "bundles" => offer = CHOOSE v \in Offers : TRUE
    /\ scene # "import" => \A e \in Entities, k \in Keys : table[e][k] = None
    /\ scene # "export" => present = {}

Next ==
    /\ UNCHANGED scene
    /\ \/ /\ scene = "currencies"
          /\ CurrenciesNext
          /\ UNCHANGED <<catalogueVars, exchangeVars, fileVars, accessVars>>
       \/ /\ scene \in {"methods", "connections", "tags", "fields", "countries", "bundles"}
          /\ CatalogueNext
          /\ UNCHANGED <<currencyVars, exchangeVars, fileVars, accessVars>>
       \/ /\ scene \in {"import", "export"}
          /\ ExchangeNext
          /\ UNCHANGED <<currencyVars, catalogueVars, fileVars, accessVars>>
       \/ /\ scene \in {"atomic", "inplace", "log"}
          /\ FilesNext
          /\ UNCHANGED <<currencyVars, catalogueVars, exchangeVars, accessVars>>
       \/ /\ scene \in {"role", "level", "group"}
          /\ AccessNext
          /\ UNCHANGED <<currencyVars, catalogueVars, exchangeVars, fileVars>>

Spec == Init /\ [][Next]_vars

-----------------------------------------------------------------------------
\* Rows, files, histories and requests of every scene have their shape: a
\* tag that is attached exists, a segment of a log is not overfull, and the
\* statements an exchanger has not sent are at most one.
TypeOK == CurrenciesTypeOK /\ CatalogueTypeOK /\ ExchangeTypeOK /\ FilesTypeOK /\ AccessTypeOK
================================================================================
