-------------------------------- MODULE Licensing --------------------------------
(***************************************************************************)
(* The license gate of an installation of several gunicorn workers: the    *)
(* salt that makes its fingerprint, the key files, which every check reads *)
(* again, and the authority that is asked about the keys that have a       *)
(* number, whose answers each worker remembers.                            *)
(*                                                                         *)
(* A key is for the one feature there is; what differs between features is *)
(* which keys cover them.  Signatures are as good as the pinned key.       *)
(***************************************************************************)
EXTENDS FiniteSets, Scenes

CONSTANTS
    Licenses,
    Numbered       \* the keys the authority can be asked about

VARIABLES
    setting,       \* of the installation: public key pinned, license required, authority set
    salt,          \* its file: None, "empty", or who wrote it
    keyFile,       \* for each key: None, "torn", or the fingerprint it is bound to
    expired,       \* the keys past their grace period
    box,           \* what each worker that is up has in memory
    told,          \* history: the authority's last answer to each worker
    clash          \* history: two workers made a salt at the same time

licenseVars == <<setting, salt, keyFile, expired, box, told, clash>>

ASSUME LicensingAssumption ==
    Numbered \subseteq Licenses /\ {None, "empty", "torn"} \cap Workers = {}

Verdicts == {"active", "revoked"}
Down == [up |-> FALSE, instance |-> None, context |-> "null",
         answer |-> [k \in Numbered |-> None]]

LicensingInit ==
    /\ setting \in [pinned : BOOLEAN, required : BOOLEAN, online : BOOLEAN]
    /\ setting.pinned => ~setting.required      \* it makes no difference then
    /\ salt = None /\ keyFile = [k \in Licenses |-> None]
    /\ expired = {}
    /\ box = [w \in Workers |-> Down]
    /\ told = [w \in Workers |-> [k \in Numbered |-> None]]
    /\ clash = FALSE

Licensed == On("license") /\ UNCHANGED setting

-----------------------------------------------------------------------------
\* The boot.  A salt that is there is read; otherwise the file is opened,
\* which empties it, and a new one written.
MakingSalt == {w \in Workers : job[w].pc \in {"make", "write"}}

LookForSalt(w) ==
    /\ Licensed /\ ~box[w].up
    /\ Begin(w, IF salt \in {None, "empty"} THEN [pc |-> "make"] ELSE [pc |-> "build", salt |-> salt])
    /\ clash' = (clash \/ (MakingSalt # {} /\ salt \in {None, "empty"}))
    /\ UNCHANGED <<salt, keyFile, expired, box, told>>

OpenSalt(w) ==
    /\ Licensed /\ IsAt(w, "make")
    /\ salt' = "empty"
    /\ Go(w, [pc |-> "write"])
    /\ UNCHANGED <<keyFile, expired, box, told, clash>>

WriteSalt(w) ==
    /\ Licensed /\ IsAt(w, "write")
    /\ salt' = w
    /\ Go(w, [pc |-> "build", salt |-> w])
    /\ UNCHANGED <<keyFile, expired, box, told, clash>>

\* Without a pinned key, an installation that requires a license, or has key
\* files, trusts none of them.
ContextAtBoot ==
    IF setting.pinned THEN "keys"
    ELSE IF setting.required \/ \E k \in Licenses : keyFile[k] # None THEN "rejecting" ELSE "null"

BuildEnvironment(w) ==
    /\ Licensed /\ IsAt(w, "build")
    /\ box' = [box EXCEPT ![w] = [Down EXCEPT !.up = TRUE, !.instance = job[w].salt, !.context = ContextAtBoot]]
    /\ Done(w)
    /\ UNCHANGED <<salt, keyFile, expired, told, clash>>

\* A worker is restarted, or dies, wherever it is.
Stop(w) ==
    /\ Licensed /\ (box[w].up \/ ~IsAt(w, "idle"))
    /\ box' = [box EXCEPT ![w] = Down]
    /\ told' = [told EXCEPT ![w] = Down.answer]
    /\ Done(w)
    /\ UNCHANGED <<salt, keyFile, expired, clash>>

-----------------------------------------------------------------------------
\* What a worker that verifies the file of a key finds.
Covers(w, k) ==
    /\ box[w].context = "keys" /\ keyFile[k] = box[w].instance /\ k \notin expired

\* The checks under way no longer count on the key.
Unsettled(k) ==
    [v \in Workers |-> IF job[v].pc \in {"check", "ask"} THEN [job[v] EXCEPT !.steady = @ \ {k}] ELSE job[v]]
Changing(w, k, request) == job' = [Unsettled(k) EXCEPT ![w] = request]

\* An envelope that was pasted, or that the hub made for a code, is bound to
\* the fingerprint of a worker of this installation; it is verified, and its
\* file opened, which empties it, and written.
AddKey(w) ==
    /\ Licensed /\ IsAt(w, "idle") /\ box[w].context = "keys"
    /\ \E k \in Licenses :
          /\ k \notin expired
          /\ Changing(w, k, [pc |-> "save", key |-> k])
          /\ keyFile' = [keyFile EXCEPT ![k] = "torn"]
    /\ UNCHANGED <<salt, expired, box, told, clash>>

SaveKey(w) ==
    /\ Licensed /\ IsAt(w, "save")
    /\ keyFile' = [keyFile EXCEPT ![job[w].key] = box[w].instance]
    /\ Done(w)
    /\ UNCHANGED <<salt, expired, box, told, clash>>

RemoveKey(w) ==
    /\ Licensed /\ IsAt(w, "idle") /\ box[w].context # "null"
    /\ \E k \in Licenses :
          /\ keyFile[k] # None
          /\ keyFile' = [keyFile EXCEPT ![k] = None]
          /\ Changing(w, k, Idle)
    /\ UNCHANGED <<salt, expired, box, told, clash>>

-----------------------------------------------------------------------------
\* A request for the feature: the directory is listed, and each file read.
CheckFeature(w) ==
    /\ Licensed /\ box[w].up
    /\ Begin(w, [pc |-> "check", names |-> {k \in Licenses : keyFile[k] # None}, covering |-> {},
                 steady |-> {k \in Licenses : keyFile[k] \in Workers}])
    /\ UNCHANGED <<salt, keyFile, expired, box, told, clash>>

\* The gate is open for keys the authority does not know by number.
NeedsGate(k) == setting.online /\ k \in Numbered

\* A file that was removed meanwhile fails the request.
ReadKey(w) ==
    /\ Licensed /\ IsAt(w, "check")
    /\ \E k \in job[w].names :
          Go(w, IF keyFile[k] = None THEN [pc |-> "error"]
                ELSE IF ~Covers(w, k) THEN [job[w] EXCEPT !.names = @ \ {k}]
                ELSE IF ~NeedsGate(k) THEN [job[w] EXCEPT !.names = @ \ {k}, !.covering = @ \cup {k}]
                ELSE [pc |-> "ask", key |-> k, names |-> job[w].names,
                      covering |-> job[w].covering, steady |-> job[w].steady])
    /\ UNCHANGED <<salt, keyFile, expired, box, told, clash>>

Gated(w, k, verdict) ==
    [pc |-> "check", names |-> job[w].names \ {k}, steady |-> job[w].steady,
     covering |-> IF verdict = "revoked" THEN job[w].covering ELSE job[w].covering \cup {k}]

\* The authority answers what it likes: its operator may change its mind.
AskAuthority(w) ==
    LET k == job[w].key IN
    /\ Licensed /\ IsAt(w, "ask")
    /\ \E verdict \in Verdicts :
          /\ box' = [box EXCEPT ![w].answer[k] = verdict]
          /\ told' = [told EXCEPT ![w][k] = verdict]
          /\ Go(w, Gated(w, k, verdict))
    /\ UNCHANGED <<salt, keyFile, expired, clash>>

\* Mutant: without an answer the signature alone decides.
RecallAnswerForgetting(w) ==
    LET k == job[w].key IN
    /\ Licensed /\ IsAt(w, "ask")
    /\ Go(w, Gated(w, k, None))
    /\ UNCHANGED <<salt, keyFile, expired, box, told, clash>>

\* The last answer is recent, or the authority cannot be reached: then the last
\* one, if any, holds for as long as that lasts.
RecallAnswer(w) ==
    LET k == job[w].key IN
    /\ Licensed /\ IsAt(w, "ask")
    /\ Go(w, Gated(w, k, box[w].answer[k]))
    /\ UNCHANGED <<salt, keyFile, expired, box, told, clash>>

Answer(w) ==
    /\ Licensed /\ IsAt(w, "check") /\ job[w].names = {}
    /\ Go(w, [pc |-> "answer", granted |-> job[w].covering # {}, covering |-> job[w].covering,
              steady |-> job[w].steady])
    /\ UNCHANGED <<salt, keyFile, expired, box, told, clash>>

Responded(w) ==
    /\ Licensed /\ job[w].pc \in {"answer", "error"} /\ Done(w)
    /\ UNCHANGED <<salt, keyFile, expired, box, told, clash>>

-----------------------------------------------------------------------------
TimePasses ==
    /\ Licensed
    /\ \E k \in Licenses \ expired : expired' = expired \cup {k}
    /\ UNCHANGED <<salt, keyFile, box, told, clash, job>>

LicensingNext ==
    \/ \E w \in Workers :
          \/ LookForSalt(w) \/ OpenSalt(w) \/ WriteSalt(w) \/ BuildEnvironment(w) \/ Stop(w)
          \/ AddKey(w) \/ SaveKey(w) \/ RemoveKey(w)
          \/ CheckFeature(w) \/ ReadKey(w) \/ AskAuthority(w) \/ RecallAnswer(w) \/ Answer(w) \/ Responded(w)
    \/ TimePasses

-----------------------------------------------------------------------------
LicensingTypeOK ==
    /\ expired \subseteq Licenses /\ \A k \in Licenses : keyFile[k] \in Workers \cup {None, "torn"}
    /\ \A w \in Workers : box[w].up => box[w].instance \in Workers
    /\ \A w \in Workers, k \in Numbered : box[w].answer[k] \in Verdicts \cup {None}

\* A worker that was told a license is revoked grants nothing by it until it
\* is told otherwise, also while the authority cannot be reached, whatever the
\* key files say; only a restart forgets.
RevocationIsHeld ==
    \A w \in Workers : scene = "license" /\ IsAt(w, "answer") /\ setting.online =>
       \A k \in job[w].covering \cap Numbered : told[w][k] # "revoked"

\* A key that one worker accepted is honoured by all, also by those booted
\* later, for as long as it has not expired, nobody touches its file and the
\* authority does not object.  Excused: the first boots made a salt each.
KeysAreHonoured ==
    \A w \in Workers : scene = "license" /\ IsAt(w, "answer") /\ setting.pinned /\ ~clash =>
       \A k \in job[w].steady :
          \/ k \in expired
          \/ setting.online /\ k \in Numbered /\ told[w][k] = "revoked"
          \/ k \in job[w].covering

\* The gate neither opens for a license that was revoked nor stays shut for one
\* that was not, whichever worker answers.
GateIsRight == RevocationIsHeld /\ KeysAreHonoured
================================================================================
