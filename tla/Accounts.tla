------------------------------ MODULE Accounts ------------------------------
(***************************************************************************)
(* User accounts of the core and what hangs on them: password reset        *)
(* tokens, API keys, the default access level, billing details and         *)
(* invoices.                                                               *)
(*                                                                         *)
(* Request workers run the handlers at READ COMMITTED.  A handler is cut   *)
(* where it commits: what it read before a commit may be stale after it,   *)
(* and the process may die there.  A password is abstracted to the number  *)
(* of times a reset token has set it.                                      *)
(***************************************************************************)
EXTENDS Naturals, FiniteSets

CONSTANTS
    Workers,
    Users,       \* primary keys of user rows, never used twice
    Emails,
    Tokens,      \* password reset tokens, never used twice
    Keys,        \* API keys, never used twice
    Scenes,      \* bound: what one behaviour has of tokens, keys and details
    MaxCrashes,  \* bound on process deaths
    None

ASSUME AccountsConstants ==
    /\ IsFiniteSet(Workers)
    /\ MaxCrashes \in Nat
    /\ Scenes \subseteq [tokens : SUBSET Tokens, keys : SUBSET Keys,
                        details : SUBSET [type : {"private", "business"}, company : BOOLEAN],
                        users : SUBSET Users, invoices : BOOLEAN]
    /\ None \notin Users \cup Emails \cup Tokens \cup Keys

VARIABLES
    email,     \* email of each user row, None when there is no row
    born,      \* keys of user rows used so far
    status,    \* UserStatus
    details,   \* details row: account_type and company
    invoiced,  \* users who have invoices
    levels,    \* users who hold the default access level
    seeded,    \* the default access level exists
    token,     \* reset tokens
    resets,    \* password changes made with each token
    key,       \* API keys
    job,       \* what each worker is doing
    crashes, scene,
    registered, excused, revoked  \* history: see the properties

accounts == <<email, born, status, details, invoiced, levels, seeded>>
secrets == <<token, resets, key>>
history == <<registered, excused, revoked>>
vars == <<accounts, secrets, history, job, crashes, scene>>

-----------------------------------------------------------------------------
NoDetails == [type |-> "none", company |-> FALSE]
Details == {NoDetails} \cup [type : {"private", "business"}, company : BOOLEAN]

Idle == [pc |-> "idle", user |-> None, row |-> None]
Does(w, step, u, r) == job' = [job EXCEPT ![w] = [pc |-> step, user |-> u, row |-> r]]
Done(w) == job' = [job EXCEPT ![w] = Idle]
IsAt(w, step) == job[w].pc = step

Exists(u) == email[u] # None
Live(u) == {t \in Tokens : token[t] = [user |-> u, state |-> "live"]}

\* validate_account_type, on the resulting row.
ValidAccountType(d) == d.type = "business" => d.company

\* A request with a session token: require_auth looks at the row each time.
Authenticated(u) == Exists(u) /\ status[u] = "ACTIVE"

Init ==
    /\ scene \in Scenes
    /\ email = [u \in Users |-> None] /\ born = Users \ scene.users
    /\ status = [u \in Users |-> "ACTIVE"]
    /\ details = [u \in Users |-> NoDetails]
    /\ invoiced = {} /\ levels = {} /\ seeded = FALSE
    /\ token = [t \in Tokens |->
                 [user |-> None, state |-> IF t \in scene.tokens THEN "unborn" ELSE "gone"]]
    /\ resets = [t \in Tokens |-> 0]
    /\ key = [k \in Keys |->
               [user |-> None, state |-> IF k \in scene.keys THEN "unborn" ELSE "gone"]]
    /\ job = [w \in Workers |-> Idle] /\ crashes = 0
    /\ registered = {} /\ excused = {} /\ revoked = {}

-----------------------------------------------------------------------------
(***************************************************************************)
(* Creation.  The look-up of the email, the insert, and what follows are   *)
(* transactions of their own; the unique key on email decides a race.      *)
(***************************************************************************)
EmailFree(e) == \A u \in Users : email[u] # e

CheckEmail(w, e, how) ==
    /\ IsAt(w, "idle") /\ EmailFree(e)
    /\ Does(w, how, None, e)
    /\ UNCHANGED <<accounts, secrets, history, crashes, scene>>

Insert(u, e) ==
    /\ u \notin born
    /\ born' = born \cup {u}
    /\ email' = [email EXCEPT ![u] = e]

InsertDuplicate(w, how) ==
    /\ IsAt(w, how) /\ ~EmailFree(job[w].row)
    /\ Done(w)
    /\ UNCHANGED <<accounts, secrets, history, crashes, scene>>

Register(w) ==
    /\ IsAt(w, "register") /\ EmailFree(job[w].row)
    /\ \E u \in Users :
          /\ Insert(u, job[w].row)
          /\ Does(w, "grant", u, None)
          /\ registered' = registered \cup {u}
    /\ UNCHANGED <<status, details, invoiced, levels, seeded, secrets, excused,
                   revoked, crashes, scene>>

\* Mutant: assign only flushes, and nothing commits.
GrantFlushed(w) ==
    /\ IsAt(w, "grant")
    /\ Done(w)
    /\ excused' = IF seeded THEN excused ELSE excused \cup {job[w].user}
    /\ UNCHANGED <<accounts, secrets, registered, revoked, crashes, scene>>

\* assign_default_access_level never fails: without the level, or without
\* the user (deleted since), there is nothing to grant.
GrantDefaultLevel(w) ==
    /\ IsAt(w, "grant")
    /\ Done(w)
    /\ IF seeded
       THEN /\ levels' = IF Exists(job[w].user) THEN levels \cup {job[w].user} ELSE levels
            /\ excused' = excused
       ELSE levels' = levels /\ excused' = excused \cup {job[w].user}
    /\ UNCHANGED <<email, born, status, details, invoiced, seeded, secrets,
                   registered, revoked, crashes, scene>>

\* admin_create commits the user, then its details.
AdminCreate(w) ==
    /\ IsAt(w, "create") /\ EmailFree(job[w].row)
    /\ \E u \in Users, s \in {"ACTIVE", "SUSPENDED"} :
          /\ Insert(u, job[w].row)
          /\ status' = [status EXCEPT ![u] = s]
          /\ Does(w, "details", u, None) \/ Done(w)
    /\ UNCHANGED <<details, invoiced, levels, seeded, secrets, history, crashes, scene>>

\* Invalid details are refused, and the user's row stays.
AttachDetails(w) ==
    /\ IsAt(w, "details")
    /\ Done(w)
    /\ \E d \in scene.details :
          details' = IF ValidAccountType(d) /\ Exists(job[w].user)
                     THEN [details EXCEPT ![job[w].user] = d] ELSE details
    /\ UNCHANGED <<email, born, status, invoiced, levels, seeded, secrets, history, crashes, scene>>

-----------------------------------------------------------------------------
(***************************************************************************)
(* Administration and self-service on existing rows, one transaction each. *)
(***************************************************************************)
\* The account type is validated only when the payload names it; a payload
\* with the company alone is taken as it is.
UpdateDetails(u) ==
    /\ Exists(u)
    /\ \E d \in scene.details :
          /\ \/ ValidAccountType(d)
             \/ d.type = details[u].type
             \/ d.type = "private" /\ details[u] = NoDetails
          /\ details' = [details EXCEPT ![u] = d]
    /\ UNCHANGED <<email, born, status, invoiced, levels, seeded, secrets,
                   history, job, crashes, scene>>

\* The owner's own update goes through require_auth; the administrator's
\* (_ensure_details_row and _apply_detail_fields) does not ask the user.
UpdateOwnDetails(u) == Authenticated(u) /\ UpdateDetails(u)

AdminUpdate(u) ==
    /\ Exists(u)
    /\ \E s \in {"ACTIVE", "SUSPENDED"}, d \in {details[u]} \cup scene.details :
          /\ ValidAccountType(d) \/ d.type = details[u].type
          /\ status' = [status EXCEPT ![u] = s]
          /\ details' = [details EXCEPT ![u] = d]
    /\ UNCHANGED <<email, born, invoiced, levels, seeded, secrets, history, job, crashes, scene>>

SetStatus(u, s) ==
    /\ Exists(u)
    /\ status' = [status EXCEPT ![u] = s]
    /\ UNCHANGED <<email, born, details, invoiced, levels, seeded, secrets,
                   history, job, crashes, scene>>

SuspendUser(u) == SetStatus(u, "SUSPENDED")
ActivateUser(u) == SetStatus(u, "ACTIVE")

\* Deleting a user counts the dependencies first, and refuses unless forced.
CheckDeletion(w, u, force) ==
    /\ IsAt(w, "idle") /\ Exists(u)
    /\ u \in invoiced => force
    /\ Does(w, "delete", u, None)
    /\ UNCHANGED <<accounts, secrets, history, crashes, scene>>

\* Mutant: the ORM deletes the user alone.
DeleteRowOnly(w) ==
    /\ IsAt(w, "delete")
    /\ email' = [email EXCEPT ![job[w].user] = None]
    /\ levels' = levels \ {job[w].user} /\ invoiced' = invoiced \ {job[w].user}
    /\ details' = [details EXCEPT ![job[w].user] = NoDetails]
    /\ Done(w)
    /\ UNCHANGED <<born, status, seeded, secrets, history, crashes, scene>>

\* One DELETE; the foreign keys cascade to whatever there is by then.
DeleteUser(w) ==
    LET u == job[w].user IN
    /\ IsAt(w, "delete")
    /\ email' = [email EXCEPT ![u] = None]
    /\ levels' = levels \ {u} /\ invoiced' = invoiced \ {u}
    /\ details' = [details EXCEPT ![u] = NoDetails]
    /\ token' = [t \in Tokens |->
                   IF token[t].user = u THEN [user |-> None, state |-> "gone"] ELSE token[t]]
    /\ key' = [k \in Keys |->
                 IF key[k].user = u THEN [user |-> None, state |-> "gone"] ELSE key[k]]
    /\ Done(w)
    /\ UNCHANGED <<born, status, seeded, resets, history, crashes, scene>>

\* A table of a plugin refers to the user without a cascade: nothing changes.
DeletionRefused(w) ==
    /\ IsAt(w, "delete")
    /\ Done(w)
    /\ UNCHANGED <<accounts, secrets, history, crashes, scene>>

IssueInvoice(u) ==
    /\ Exists(u) /\ u \notin invoiced /\ scene.invoices
    /\ invoiced' = invoiced \cup {u}
    /\ UNCHANGED <<email, born, status, details, levels, seeded, secrets,
                   history, job, crashes, scene>>

SeedLevel ==
    /\ ~seeded
    /\ seeded' = TRUE
    /\ UNCHANGED <<email, born, status, details, invoiced, levels, secrets,
                   history, job, crashes, scene>>

AssignLevel(u) ==
    /\ seeded /\ Exists(u)
    /\ levels' = levels \cup {u}
    /\ UNCHANGED <<email, born, status, details, invoiced, seeded, secrets,
                   history, job, crashes, scene>>

RevokeLevel(u) ==
    /\ u \in levels
    /\ levels' = levels \ {u}
    /\ excused' = excused \cup {u}
    /\ UNCHANGED <<email, born, status, details, invoiced, seeded, secrets,
                   registered, revoked, job, crashes, scene>>

-----------------------------------------------------------------------------
(***************************************************************************)
(* Password reset.  A request invalidates the user's tokens, commits, then *)
(* inserts a new one; an execution reads the token, commits the password,  *)
(* then marks the token used.                                              *)
(***************************************************************************)
\* Mutant: the old tokens are left alone.
RequestKeepingOld(w, u) ==
    /\ IsAt(w, "idle") /\ Exists(u)
    /\ Does(w, "token", u, None)
    /\ UNCHANGED <<accounts, secrets, history, crashes, scene>>

InvalidateTokens(w, u) ==
    /\ IsAt(w, "idle") /\ Exists(u)
    /\ token' = [t \in Tokens |-> IF token[t] = [user |-> u, state |-> "live"]
                                  THEN [user |-> u, state |-> "used"] ELSE token[t]]
    /\ Does(w, "token", u, None)
    /\ UNCHANGED <<accounts, resets, key, history, crashes, scene>>

CreateToken(w) ==
    LET u == job[w].user IN
    /\ IsAt(w, "token")
    /\ IF Exists(u)
       THEN \E t \in Tokens :
               /\ token[t].state = "unborn"
               /\ token' = [token EXCEPT ![t] = [user |-> u, state |-> "live"]]
       ELSE token' = token  \* the foreign key refuses it
    /\ Done(w)
    /\ UNCHANGED <<accounts, resets, key, history, crashes, scene>>

ExpireToken(t) ==
    /\ token[t].state = "live"
    /\ token' = [token EXCEPT ![t].state = "expired"]
    /\ UNCHANGED <<accounts, resets, key, history, job, crashes, scene>>

FindToken(w, t) ==
    /\ IsAt(w, "idle") /\ token[t].state = "live"
    /\ Does(w, "password", token[t].user, t)
    /\ UNCHANGED <<accounts, secrets, history, crashes, scene>>

\* The UPDATE of a user deleted since matches no row, and the request fails.
SavePassword(w) ==
    /\ IsAt(w, "password")
    /\ IF Exists(job[w].user)
       THEN /\ resets' = [resets EXCEPT ![job[w].row] = @ + 1]
            /\ Does(w, "mark", job[w].user, job[w].row)
       ELSE Done(w) /\ resets' = resets
    /\ UNCHANGED <<accounts, token, key, history, crashes, scene>>

\* Mutant: the token is left as it is.
ForgetToMark(w) ==
    /\ IsAt(w, "mark")
    /\ Done(w)
    /\ UNCHANGED <<accounts, secrets, history, crashes, scene>>

MarkUsed(w) ==
    /\ IsAt(w, "mark")
    /\ token' = IF token[job[w].row].user = None THEN token
                ELSE [token EXCEPT ![job[w].row].state = "used"]
    /\ Done(w)
    /\ UNCHANGED <<accounts, resets, key, history, crashes, scene>>

-----------------------------------------------------------------------------
(***************************************************************************)
(* API keys.  A request with a key verifies it, commits last_used_at, and  *)
(* then runs as the key's owner.                                           *)
(***************************************************************************)
Generate(u, k) ==
    /\ Exists(u) /\ key[k].state = "unborn"
    /\ key' = [key EXCEPT ![k] = [user |-> u, state |-> "active"]]
    /\ UNCHANGED <<accounts, token, resets, history, job, crashes, scene>>

GenerateOwnKey(u, k) == Authenticated(u) /\ Generate(u, k)

VerifyKey(w, k) ==
    /\ IsAt(w, "idle") /\ key[k].state = "active"
    /\ Does(w, "touch", key[k].user, k)
    /\ UNCHANGED <<accounts, secrets, history, crashes, scene>>

\* Mutant: the row is written back as it was read.
TouchWholeRow(w) ==
    /\ IsAt(w, "touch")
    /\ Done(w)
    /\ key' = IF key[job[w].row].user = None THEN key
              ELSE [key EXCEPT ![job[w].row].state = "active"]
    /\ UNCHANGED <<accounts, token, resets, history, crashes, scene>>

\* The UPDATE names last_used_at alone, and fails when the row is gone.
Touch(w) ==
    /\ IsAt(w, "touch")
    /\ Done(w)
    /\ UNCHANGED <<accounts, secrets, history, crashes, scene>>

Revoke(k) ==
    /\ key[k].state = "active"
    /\ key' = [key EXCEPT ![k].state = "revoked"]
    /\ revoked' = revoked \cup {k}
    /\ UNCHANGED <<accounts, token, resets, registered, excused, job, crashes, scene>>

\* The owner revokes by the key's id and must be signed in as the owner.
RevokeOwnKey(k) == key[k].user # None /\ Authenticated(key[k].user) /\ Revoke(k)

DeleteKey(k) ==
    /\ key[k].state \in {"active", "revoked"}
    /\ key' = [key EXCEPT ![k] = [user |-> None, state |-> "gone"]]
    /\ UNCHANGED <<accounts, token, resets, history, job, crashes, scene>>

-----------------------------------------------------------------------------
\* A process dies; what it committed stays.
Crash(w) ==
    /\ ~IsAt(w, "idle") /\ crashes < MaxCrashes
    /\ crashes' = crashes + 1
    /\ Done(w)
    /\ excused' = IF IsAt(w, "grant") THEN excused \cup {job[w].user} ELSE excused
    /\ UNCHANGED <<accounts, secrets, registered, revoked, scene>>

Create(w) ==
    \/ \E e \in Emails, how \in {"register", "create"} : CheckEmail(w, e, how)
    \/ Register(w) \/ GrantDefaultLevel(w)
    \/ AdminCreate(w) \/ AttachDetails(w)
    \/ \E how \in {"register", "create"} : InsertDuplicate(w, how)

Remove(w) ==
    \/ \E u \in Users, force \in BOOLEAN : CheckDeletion(w, u, force)
    \/ DeleteUser(w) \/ DeletionRefused(w)

ResetPassword(w) ==
    \/ \E u \in Users : InvalidateTokens(w, u)
    \/ CreateToken(w)
    \/ \E t \in Tokens : FindToken(w, t)
    \/ SavePassword(w) \/ MarkUsed(w)

UseKey(w) == (\E k \in Keys : VerifyKey(w, k)) \/ Touch(w)

Administer(u) ==
    \/ UpdateOwnDetails(u) \/ AdminUpdate(u) \/ SuspendUser(u) \/ ActivateUser(u)
    \/ IssueInvoice(u) \/ AssignLevel(u) \/ RevokeLevel(u)
    \/ \E k \in Keys : GenerateOwnKey(u, k) \/ Generate(u, k)

Next ==
    \/ \E w \in Workers : Create(w) \/ Remove(w) \/ ResetPassword(w) \/ UseKey(w) \/ Crash(w)
    \/ \E u \in Users : Administer(u)
    \/ \E t \in Tokens : ExpireToken(t)
    \/ \E k \in Keys : RevokeOwnKey(k) \/ Revoke(k) \/ DeleteKey(k)
    \/ SeedLevel

Spec == Init /\ [][Next]_vars

-----------------------------------------------------------------------------
Steps == {"idle", "register", "create", "grant", "details", "delete", "token",
          "password", "mark", "touch"}

\* Every row that is there belongs to a user that is there, and an email to
\* one user at most: whatever is created while its user is being deleted.
TypeOK ==
    /\ email \in [Users -> Emails \cup {None}]
    /\ born \subseteq Users
    /\ status \in [Users -> {"ACTIVE", "SUSPENDED"}]
    /\ details \in [Users -> Details]
    /\ \A u \in invoiced \cup levels : u \in Users /\ Exists(u)
    /\ seeded \in BOOLEAN
    /\ \A t \in Tokens : \/ token[t].user = None /\ token[t].state \in {"unborn", "gone"}
                         \/ /\ token[t].user \in Users /\ Exists(token[t].user)
                            /\ token[t].state \in {"live", "expired", "used"}
    /\ \A k \in Keys : \/ key[k].user = None /\ key[k].state \in {"unborn", "gone"}
                       \/ /\ key[k].user \in Users /\ Exists(key[k].user)
                          /\ key[k].state \in {"active", "revoked"}
    /\ \A u, v \in Users : Exists(u) /\ email[u] = email[v] => u = v
    /\ \A w \in Workers : job[w].pc \in Steps

\* Two requests for the same user may each leave a token that works, since
\* they invalidate before either inserts; but no more than there are workers.
LiveTokensBounded ==
    \A u \in Users : Cardinality(Live(u)) <= Cardinality(Workers)

\* A token sets the password once for each execution that read it before the
\* first one marked it used, and once more for a death before the mark.
ResetsBounded ==
    \A t \in Tokens : resets[t] <= Cardinality(Workers) + crashes

\* The races on the tokens of a user, in the request and in the execution of a
\* reset, are bounded by the workers that can take part in them.
TokensBounded == LiveTokensBounded /\ ResetsBounded

\* A user who registered, and whose request is over, holds the default level
\* unless there was none to grant, the process died before granting it, or
\* an administrator took it away.
RegisteredHoldsLevel ==
    \A u \in registered :
       \/ ~Exists(u) \/ u \in levels \/ u \in excused
       \/ \E w \in Workers : IsAt(w, "grant") /\ job[w].user = u

\* A revoked key never authenticates again, not even through the save of a
\* request that verified it before.
RevokedForever == [][\A k \in revoked : key'[k].state # "active"]_vars
=============================================================================
