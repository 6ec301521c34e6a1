------------------------------- MODULE Currencies -------------------------------
(***************************************************************************)
(* The currency catalog in the database and the core settings in a file    *)
(* (the default currency and the active ones), under the requests of       *)
(* several administrators.                                                 *)
(*                                                                         *)
(* A rate is kept as its logarithm: the division by which a rebase changes *)
(* every rate is a subtraction, and the rate 1 is 0.  The file is replaced *)
(* as a whole (module FileStorage says why a reader never sees half of     *)
(* it); every rate is a row of its own, committed on its own.              *)
(***************************************************************************)
EXTENDS Integers, Requests

CONSTANTS
    Codes,
    Base,       \* the default currency of DEFAULT_CORE_SETTINGS
    MaxRate     \* bound on the rates

VARIABLES
    rate,       \* catalog rows: the rate of each currency that has one
    settings,   \* the settings file
    exact       \* history: no rebase was cut short or overtaken since the last whole one

currencyVars == <<rate, settings, exact>>

-----------------------------------------------------------------------------
Rates == -MaxRate .. MaxRate

ASSUME CurrencyAssumption == Base \in Codes /\ MaxRate \in Nat /\ None \notin Codes \cup Rates

Settings == [default : Codes, active : SUBSET Codes]
Partials == [default : Codes \cup {None}, active : (SUBSET Codes) \cup {None}]
Catalog == {c \in Codes : rate[c] # None}

\* The price in d of one unit of c.
Quote(rates, c, d) == rates[d] - rates[c]

CurrenciesInit ==
    /\ rate \in [Codes -> Rates \cup {None}] /\ rate[Base] = 0
    /\ settings = [default |-> Base, active |-> {Base}]
    /\ exact = TRUE

\* A new default is being set: from the first row to the file.
Rebasing(w) == IsAt(w, "rebase") \/ (job[w].pc \in {"partial", "write"} /\ job[w].origin = "rebase")

\* A committed row or a replaced file overtakes what changes rates and read before.
Overlapped ==
    [w \in Workers |-> IF Rebasing(w) \/ IsAt(w, "rate") THEN [job[w] EXCEPT !.late = TRUE] ELSE job[w]]

-----------------------------------------------------------------------------
(***************************************************************************)
(* The catalog.                                                            *)
(***************************************************************************)
CreateCurrency(c) ==
    /\ rate[c] = None
    /\ \E r \in Rates : rate' = [rate EXCEPT ![c] = r]
    /\ job' = Overlapped
    /\ UNCHANGED <<settings, exact>>

CheckDelete(w, c) ==
    /\ c \in Catalog /\ c # settings.default /\ c \notin settings.active
    /\ Begin(w, [pc |-> "delete", code |-> c])
    /\ UNCHANGED currencyVars

DeleteCurrency(w) ==
    /\ IsAt(w, "delete")
    /\ rate' = [rate EXCEPT ![job[w].code] = None]
    /\ job' = [Overlapped EXCEPT ![w] = Idle]
    /\ exact' = (exact /\ job[w].code # settings.default)
    /\ UNCHANGED settings

\* Mutant: the rate of the default can be changed like any other.
CheckAnyRate(w, c) ==
    /\ c \in Catalog
    /\ Begin(w, [pc |-> "rate", code |-> c, late |-> FALSE])
    /\ UNCHANGED currencyVars

CheckRate(w, c) ==
    /\ c \in Catalog /\ c # settings.default
    /\ Begin(w, [pc |-> "rate", code |-> c, late |-> FALSE])
    /\ UNCHANGED currencyVars

\* If the row has gone the flush finds nothing to update, and fails.  (A
\* currency that became the default since the check is overtaken.)
UpdateRate(w) ==
    LET c == job[w].code IN
    /\ IsAt(w, "rate")
    /\ IF c \in Catalog
       THEN /\ \E r \in Rates : rate' = [rate EXCEPT ![c] = r]
            /\ job' = [Overlapped EXCEPT ![w] = Idle]
            /\ exact' = (exact /\ (c = settings.default => ~job[w].late))
       ELSE Done(w) /\ UNCHANGED <<rate, exact>>
    /\ UNCHANGED settings

\* The catalog imported by the data exchange, in one transaction: the rows it
\* names created or updated, the others deleted first when it replaces.
ImportRates ==
    \E named \in (SUBSET Codes) \ {{}}, replace \in BOOLEAN, r \in Rates :
        /\ rate' = [c \in Codes |-> IF c \in named THEN r
                                    ELSE IF replace THEN None ELSE rate[c]]
        /\ exact' = (exact /\ rate'[settings.default] = rate[settings.default])
        /\ job' = Overlapped
        /\ UNCHANGED settings

-----------------------------------------------------------------------------
(***************************************************************************)
(* The settings file.  A request that changes part of it ends with the     *)
(* same two steps: the part is validated, laid over what the file then     *)
(* holds and validated as a whole; and the file is replaced.               *)
(***************************************************************************)
Part(origin, default, active) ==
    [pc |-> "partial", origin |-> origin, late |-> FALSE,
     part |-> [default |-> default, active |-> active]]

SetActive(w, c) ==
    /\ c \in Catalog
    /\ \/ Begin(w, Part("edit", None, settings.active \cup {c}))
       \/ c # settings.default /\ Begin(w, Part("edit", None, settings.active \ {c}))
    /\ UNCHANGED currencyVars

Over(p, file) ==
    [default |-> IF p.default = None THEN file.default ELSE p.default,
     active |-> IF p.active = None THEN file.active ELSE p.active]

ValidPart(p) ==
    /\ p.default # None => p.default \in Catalog
    /\ p.active # None => p.active \subseteq Catalog

\* Mutant: the rule about both keys looks only at what the request sends.
DefaultInPart(p, file) ==
    p.default # None /\ p.active # None => p.default \in p.active

\* The rule about both keys, on what the file would hold.
DefaultIsListed(p, file) == Over(p, file).default \in Over(p, file).active

\* What the request sends is merged at once (nothing it depends on was read).
PutSettings(w) ==
    /\ \E p \in Partials \ {[default |-> None, active |-> None]} :
          /\ ValidPart(p) /\ DefaultIsListed(p, settings)
          /\ Begin(w, [pc |-> "write", origin |-> "edit", late |-> FALSE,
                       file |-> Over(p, settings)])
    /\ UNCHANGED currencyVars

\* A set_default that is refused here has rebased the rates already.
MergeSettings(w) ==
    LET p == job[w].part IN
    /\ IsAt(w, "partial")
    /\ IF ValidPart(p) /\ DefaultIsListed(p, settings)
       THEN /\ Go(w, [pc |-> "write", origin |-> job[w].origin, late |-> job[w].late,
                      file |-> Over(p, settings)])
            /\ UNCHANGED exact
       ELSE Done(w) /\ exact' = (exact /\ job[w].origin # "rebase")
    /\ UNCHANGED <<rate, settings>>

WriteSettings(w) ==
    /\ IsAt(w, "write")
    /\ settings' = job[w].file
    /\ exact' = IF job[w].origin = "rebase" THEN ~job[w].late
                ELSE exact /\ job[w].file.default = settings.default
    /\ job' = [Overlapped EXCEPT ![w] = Idle]
    /\ UNCHANGED rate

-----------------------------------------------------------------------------
(***************************************************************************)
(* A new default: its old rate is read, the rates are divided by it one    *)
(* row and one commit at a time, and the file is written last.             *)
(***************************************************************************)
\* The rows are listed once; each is read again after the commit before it.
SetDefault(w, c) ==
    /\ c \in settings.active \cap Catalog
    /\ \A d \in Catalog : Quote(rate, c, d) \in Rates    \* bound
    /\ Begin(w, [pc |-> "rebase", code |-> c, by |-> rate[c], todo |-> Catalog,
                 before |-> rate, late |-> FALSE])
    /\ UNCHANGED currencyVars

\* Mutant: the divisor is read anew for each row.
RebaseByRow(w, d) ==
    LET c == job[w].code IN
    /\ IsAt(w, "rebase") /\ d \in job[w].todo \cap Catalog
    /\ rate[c] # None
    /\ rate' = [rate EXCEPT ![d] = IF d = c THEN 0 ELSE @ - rate[c]]
    /\ rate'[d] \in Rates
    /\ job' = [Overlapped EXCEPT ![w] = [job[w] EXCEPT !.todo = @ \ {d}]]
    /\ UNCHANGED <<settings, exact>>

RebaseRow(w, d) ==
    /\ IsAt(w, "rebase") /\ d \in job[w].todo \cap Catalog
    /\ rate' = [rate EXCEPT ![d] = IF d = job[w].code THEN 0 ELSE @ - job[w].by]
    /\ rate'[d] \in Rates                                \* bound
    /\ job' = [Overlapped EXCEPT ![w] = [job[w] EXCEPT !.todo = @ \ {d}]]
    /\ UNCHANGED <<settings, exact>>

Rebased(w) ==
    /\ IsAt(w, "rebase") /\ job[w].todo = {}
    /\ Go(w, [Part("rebase", job[w].code, None) EXCEPT !.late = job[w].late])
    /\ UNCHANGED currencyVars

\* A listed row was deleted: reading it again raises.
RebaseFails(w) ==
    /\ IsAt(w, "rebase") /\ job[w].todo \ Catalog # {}
    /\ Done(w) /\ exact' = FALSE
    /\ UNCHANGED <<rate, settings>>

\* The worker dies; what it committed stays.
CrashEditing(w) ==
    /\ ~IsAt(w, "idle")
    /\ Done(w) /\ exact' = (exact /\ ~Rebasing(w))
    /\ UNCHANGED <<rate, settings>>

-----------------------------------------------------------------------------
CurrenciesNext ==
    \/ ImportRates
    \/ \E c \in Codes : CreateCurrency(c)
    \/ \E w \in Workers :
          \/ DeleteCurrency(w) \/ UpdateRate(w)
          \/ PutSettings(w) \/ MergeSettings(w) \/ WriteSettings(w)
          \/ Rebased(w) \/ RebaseFails(w) \/ CrashEditing(w)
          \/ \E c \in Codes : \/ CheckDelete(w, c) \/ CheckRate(w, c)
                              \/ SetActive(w, c) \/ SetDefault(w, c) \/ RebaseRow(w, c)

CurrenciesSpec ==
    CurrenciesInit /\ job = [w \in Workers |-> Idle] /\ [][CurrenciesNext]_<<currencyVars, job>>

-----------------------------------------------------------------------------
CurrenciesTypeOK ==
    /\ rate \in [Codes -> Rates \cup {None}]
    /\ settings \in Settings
    /\ exact \in BOOLEAN

\* Whoever writes the settings file, and however their reads, merges and
\* replacements interleave, the default currency is one of the active ones.
DefaultIsActive == settings.default \in settings.active

\* A whole rebase leaves every price in every currency as it was, and between
\* requests the default's own rate is 1: as long as no rebase died or was
\* overtaken, and nobody set the default or its rate without one.
RatesAreExact ==
    /\ \A w \in Workers : IsAt(w, "rebase") /\ job[w].todo = {} /\ ~job[w].late =>
          \A c, d \in Catalog : Quote(rate, c, d) = Quote(job[w].before, c, d)
    /\ exact /\ ~(\E w \in Workers : Rebasing(w)) => rate[settings.default] = 0

\* The two together: the default currency is active, and with it every price
\* that was converted stays what it was.
CurrenciesAgree == DefaultIsActive /\ RatesAreExact
================================================================================
