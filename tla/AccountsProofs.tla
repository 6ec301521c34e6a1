---------------------------- MODULE AccountsProofs ----------------------------
(***************************************************************************)
(* Theorems about Accounts, for any workers, users, tokens, keys and       *)
(* bounds.                                                                 *)
(***************************************************************************)
EXTENDS Accounts, FiniteSetTheorems, TLAPS

\* What each step of a request is about.
Request ==
         {Idle}
    \cup [pc : {"register", "create"}, user : {None}, row : Emails]
    \cup [pc : {"grant", "details", "delete", "token"}, user : Users, row : {None}]
    \cup [pc : {"password", "mark"}, user : Users, row : Tokens]
    \cup [pc : {"touch"}, user : Users, row : Keys]

TokenRow ==
         [user : {None}, state : {"unborn", "gone"}]
    \cup [user : Users, state : {"live", "expired", "used"}]

KeyRow ==
         [user : {None}, state : {"unborn", "gone"}]
    \cup [user : Users, state : {"active", "revoked"}]

Typed ==
    /\ email \in [Users -> Emails \cup {None}]
    /\ born \subseteq Users
    /\ status \in [Users -> {"ACTIVE", "SUSPENDED"}]
    /\ details \in [Users -> Details]
    /\ seeded \in BOOLEAN
    /\ token \in [Tokens -> TokenRow]
    /\ key \in [Keys -> KeyRow]
    /\ job \in [Workers -> Request]
    /\ scene \in Scenes

\* Rows refer to users that are there, who are known to have been created.
Referred ==
    /\ \A u \in invoiced \cup levels : u \in Users /\ Exists(u)
    /\ \A t \in Tokens : token[t].user # None => Exists(token[t].user)
    /\ \A k \in Keys : key[k].user # None => Exists(key[k].user)
    /\ \A u, v \in Users : Exists(u) /\ email[u] = email[v] => u = v
    /\ \A u \in Users : Exists(u) => u \in born

\* A user who registered, and is waiting for nothing, has the level.
Granted ==
    /\ registered \subseteq born
    /\ RegisteredHoldsLevel

AccountsInv ==
    /\ Typed /\ Referred /\ Granted
    /\ \A k \in revoked \cap Keys : key[k].state \in {"revoked", "gone"}
    /\ revoked \subseteq Keys

-----------------------------------------------------------------------------
\* A request is at one of its steps, and of what that step is about.
LEMMA RequestAt ==
    ASSUME Typed, NEW w \in Workers
    PROVE  /\ job[w].pc \in {"register", "create"} => job[w].row \in Emails
           /\ job[w].pc \in {"grant", "details", "delete", "token", "password", "mark", "touch"}
                => job[w].user \in Users
           /\ job[w].pc \in {"password", "mark"} => job[w].row \in Tokens
           /\ job[w].pc = "touch" => job[w].row \in Keys
BY DEF Typed, Request, Idle

\* Requests that begin, continue or end leave the rows as they are.
LEMMA OnlyRequests ==
    ASSUME AccountsInv, UNCHANGED <<accounts, secrets, revoked, registered, scene>>,
           NEW w \in Workers, NEW r \in Request, job' = [job EXCEPT ![w] = r],
           excused \subseteq excused',
           IsAt(w, "grant") => job[w].user \in excused'
    PROVE  AccountsInv'
<1> USE DEF accounts, secrets
<1>1. Typed'
    BY DEF AccountsInv, Typed
<1>2. Referred'
    BY DEF AccountsInv, Referred, Exists
<1>3. Granted'
    BY DEF AccountsInv, Typed, Granted, RegisteredHoldsLevel, Exists, IsAt
<1> QED BY <1>1, <1>2, <1>3 DEF AccountsInv

\* Rows that change but neither the users', the levels nor the requests.
LEMMA OtherRows ==
    ASSUME AccountsInv,
           UNCHANGED <<email, born, levels, registered, excused, scene, job>>,
           status' \in [Users -> {"ACTIVE", "SUSPENDED"}], details' \in [Users -> Details],
           seeded' \in BOOLEAN,
           token' \in [Tokens -> TokenRow], key' \in [Keys -> KeyRow],
           \A u \in invoiced' : u \in Users /\ Exists(u),
           \A t \in Tokens : token'[t].user # None => Exists(token'[t].user),
           \A k \in Keys : key'[k].user # None => Exists(key'[k].user),
           revoked' \subseteq Keys,
           \A k \in revoked' : key'[k].state \in {"revoked", "gone"}
    PROVE  AccountsInv'
<1>1. Typed'
    BY DEF AccountsInv, Typed
<1>2. Referred'
    BY DEF AccountsInv, Referred, Exists
<1>3. Granted'
    BY DEF AccountsInv, Granted, RegisteredHoldsLevel, Exists, IsAt
<1> QED BY <1>1, <1>2, <1>3 DEF AccountsInv

LEMMA IdleIsRequest == Idle \in Request
BY DEF Request

-----------------------------------------------------------------------------
\* A new user is nobody's, and has registered if it did so here.
LEMMA UserIsInserted ==
    ASSUME AccountsInv, NEW w \in Workers, NEW u \in Users, NEW e \in Emails, NEW r \in Request,
           EmailFree(e), Insert(u, e), job' = [job EXCEPT ![w] = r], ~IsAt(w, "grant"),
           status' \in [Users -> {"ACTIVE", "SUSPENDED"}],
           UNCHANGED <<details, invoiced, levels, seeded, secrets, excused, revoked, scene>>,
           \/ registered' = registered
           \/ registered' = registered \cup {u} /\ r.pc = "grant" /\ r.user = u
    PROVE  AccountsInv'
<1> USE DEF secrets
<1>n. None \notin Emails
    BY AccountsConstants
<1>1. Typed'
    BY DEF AccountsInv, Typed, Insert
<1>2. \A v \in Users : email'[v] = IF v = u THEN e ELSE email[v]
    BY DEF AccountsInv, Typed, Insert
<1>3. \A v \in Users : Exists(v)' <=> (v = u \/ Exists(v))
    BY <1>n, <1>2 DEF Exists
<1>4. Referred'
  <2>1. /\ \A v \in invoiced \cup levels : v \in Users /\ email'[v] # None
        /\ \A t \in Tokens : token[t].user # None => email'[token[t].user] # None
        /\ \A k \in Keys : key[k].user # None => email'[key[k].user] # None
        /\ \A v \in Users : email'[v] # None => v \in born'
    <3>1. \A t \in Tokens : token[t].user \in Users \cup {None}
      BY DEF AccountsInv, Typed, TokenRow
    <3>2. \A k \in Keys : key[k].user \in Users \cup {None}
      BY DEF AccountsInv, Typed, KeyRow
    <3> QED BY <1>n, <1>2, <3>1, <3>2 DEF AccountsInv, Referred, Insert, Exists
  <2>2. ASSUME NEW v \in Users, NEW x \in Users, email'[v] # None, email'[v] = email'[x] PROVE v = x
    <3>1. \A y \in Users : email[y] # e
      BY DEF EmailFree
    <3> QED BY <1>2, <2>2, <3>1 DEF AccountsInv, Referred, Exists
  <2> QED BY <2>1, <2>2 DEF Referred, Exists
<1>5. Granted'
  <2>1. registered' \subseteq born'
    BY DEF AccountsInv, Granted, Insert
  <2>2. \A v \in Workers : job'[v] = IF v = w THEN r ELSE job[v]
    BY DEF AccountsInv, Typed
  <2>3. u \notin registered
    BY DEF AccountsInv, Granted, Insert
  <2>4. ASSUME NEW v \in registered'
        PROVE  \/ ~Exists(v)' \/ v \in levels' \/ v \in excused'
               \/ \E x \in Workers : job'[x].pc = "grant" /\ job'[x].user = v
    <3>1. CASE v = u
      BY <2>2, <2>3, <2>4, <3>1
    <3>2. CASE v # u
      <4>1. v \in registered /\ v \in Users
        BY <2>4, <3>2 DEF AccountsInv, Typed, Granted
      <4>2. \/ ~Exists(v) \/ v \in levels \/ v \in excused
            \/ \E x \in Workers : job[x].pc = "grant" /\ job[x].user = v
        BY <4>1 DEF AccountsInv, Granted, RegisteredHoldsLevel, IsAt
      <4> QED BY <1>3, <2>2, <3>2, <4>1, <4>2 DEF IsAt
    <3> QED BY <3>1, <3>2
  <2> QED BY <2>1, <2>4 DEF Granted, RegisteredHoldsLevel, IsAt
<1> QED BY <1>1, <1>4, <1>5 DEF AccountsInv

LEMMA CreateStep ==
    ASSUME AccountsInv, NEW w \in Workers, Create(w)
    PROVE  AccountsInv'
<1>t. Typed
    BY DEF AccountsInv
<1>1. ASSUME NEW e \in Emails, NEW how \in {"register", "create"}, CheckEmail(w, e, how)
      PROVE  AccountsInv'
  <2>1. [pc |-> how, user |-> None, row |-> e] \in Request
    BY DEF Request
  <2> QED BY <1>1, <2>1, OnlyRequests DEF CheckEmail, Does, history, IsAt
<1>2. CASE Register(w)
  <2>1. PICK u \in Users : /\ Insert(u, job[w].row) /\ Does(w, "grant", u, None)
                           /\ registered' = registered \cup {u}
    BY <1>2 DEF Register
  <2>2. [pc |-> "grant", user |-> u, row |-> None] \in Request
    BY DEF Request
  <2>3. job[w].row \in Emails
    BY <1>2, <1>t, RequestAt DEF Register, IsAt
  <2> QED BY <1>2, <1>t, <2>1, <2>2, <2>3, UserIsInserted DEF Register, Does, IsAt, Typed
<1>3. CASE GrantDefaultLevel(w)
  <2>1. job[w].user \in Users /\ job[w].pc = "grant" /\ job' = [job EXCEPT ![w] = Idle]
    BY <1>3, <1>t, RequestAt DEF GrantDefaultLevel, IsAt, Done
  <2>2. CASE seeded /\ Exists(job[w].user)
    <3>1. /\ levels' = levels \cup {job[w].user}
          /\ UNCHANGED <<email, born, status, details, invoiced, seeded, token, resets, key,
                         registered, excused, revoked, scene>>
      BY <1>3, <2>2 DEF GrantDefaultLevel, secrets
    <3>2. Typed'
      BY <1>t, <2>1, <3>1, IdleIsRequest DEF Typed
    <3>3. Referred'
      BY <2>1, <2>2, <3>1 DEF AccountsInv, Referred, Exists
    <3>4. Granted'
      BY <1>t, <2>1, <3>1 DEF AccountsInv, Typed, Granted, RegisteredHoldsLevel, Exists, IsAt, Idle
    <3> QED BY <3>1, <3>2, <3>3, <3>4 DEF AccountsInv
  <2>3. CASE seeded /\ ~Exists(job[w].user)
    <3>1. /\ UNCHANGED <<email, born, status, details, invoiced, levels, seeded, token, resets, key,
                         registered, excused, revoked, scene>>
      BY <1>3, <2>3 DEF GrantDefaultLevel, secrets
    <3>2. Typed'
      BY <1>t, <2>1, <3>1, IdleIsRequest DEF Typed
    <3>3. Referred'
      BY <3>1 DEF AccountsInv, Referred, Exists
    <3>4. Granted'
      BY <1>t, <2>1, <2>3, <3>1 DEF AccountsInv, Typed, Granted, RegisteredHoldsLevel, Exists, IsAt, Idle
    <3> QED BY <3>1, <3>2, <3>3, <3>4 DEF AccountsInv
  <2>4. CASE ~seeded
    BY <1>3, <2>1, <2>4, OnlyRequests, IdleIsRequest DEF GrantDefaultLevel, accounts
  <2> QED BY <2>2, <2>3, <2>4
<1>4. CASE AdminCreate(w)
  <2>1. PICK u \in Users, s \in {"ACTIVE", "SUSPENDED"} :
           /\ Insert(u, job[w].row) /\ status' = [status EXCEPT ![u] = s]
           /\ Does(w, "details", u, None) \/ Done(w)
    BY <1>4 DEF AdminCreate
  <2>2. [pc |-> "details", user |-> u, row |-> None] \in Request /\ Idle \in Request
    BY DEF Request
  <2>3. job[w].row \in Emails
    BY <1>4, <1>t, RequestAt DEF AdminCreate, IsAt
  <2>4. PICK r \in Request : job' = [job EXCEPT ![w] = r]
    BY <2>1, <2>2 DEF Does, Done
  <2> QED
    BY <1>4, <1>t, <2>1, <2>3, <2>4, UserIsInserted DEF AdminCreate, IsAt, history, Typed
<1>5. CASE AttachDetails(w)
  <2>1. PICK d \in scene.details : details' = IF ValidAccountType(d) /\ Exists(job[w].user)
                                              THEN [details EXCEPT ![job[w].user] = d] ELSE details
    BY <1>5 DEF AttachDetails
  <2>2. d \in Details
    BY <1>t, <2>1, AccountsConstants DEF Typed, Details
  <2>3. details' \in [Users -> Details]
    BY <1>t, <2>1, <2>2 DEF Typed
  <2>4. /\ job' = [job EXCEPT ![w] = Idle] /\ ~IsAt(w, "grant")
        /\ UNCHANGED <<email, born, status, invoiced, levels, seeded, token, resets, key,
                       registered, excused, revoked, scene>>
    BY <1>5 DEF AttachDetails, Done, secrets, history, IsAt
  <2>5. Typed'
    BY <1>t, <2>3, <2>4, IdleIsRequest DEF Typed
  <2>6. Referred'
    BY <2>4 DEF AccountsInv, Referred, Exists
  <2>7. Granted'
    BY <1>t, <2>4 DEF AccountsInv, Typed, Granted, RegisteredHoldsLevel, Exists, IsAt
  <2> QED BY <2>4, <2>5, <2>6, <2>7 DEF AccountsInv
<1>6. ASSUME NEW how \in {"register", "create"}, InsertDuplicate(w, how) PROVE AccountsInv'
    BY <1>6, OnlyRequests, IdleIsRequest DEF InsertDuplicate, Done, history, IsAt
<1> QED BY <1>1, <1>2, <1>3, <1>4, <1>5, <1>6 DEF Create

\* Deleting a user takes every row that refers to it.
LEMMA RemoveStep ==
    ASSUME AccountsInv, NEW w \in Workers, Remove(w)
    PROVE  AccountsInv'
<1>t. Typed
    BY DEF AccountsInv
<1>1. ASSUME NEW u \in Users, NEW force \in BOOLEAN, CheckDeletion(w, u, force)
      PROVE  AccountsInv'
  <2>1. [pc |-> "delete", user |-> u, row |-> None] \in Request
    BY DEF Request
  <2> QED BY <1>1, <2>1, OnlyRequests DEF CheckDeletion, Does, history, IsAt
<1>2. CASE DeleteUser(w)
  <2> DEFINE u == job[w].user
  <2>1. /\ u \in Users /\ u # None
        /\ email' = [email EXCEPT ![u] = None]
        /\ levels' = levels \ {u} /\ invoiced' = invoiced \ {u}
        /\ details' = [details EXCEPT ![u] = NoDetails]
        /\ token' = [t \in Tokens |->
                       IF token[t].user = u THEN [user |-> None, state |-> "gone"] ELSE token[t]]
        /\ key' = [k \in Keys |->
                     IF key[k].user = u THEN [user |-> None, state |-> "gone"] ELSE key[k]]
        /\ job' = [job EXCEPT ![w] = Idle] /\ ~IsAt(w, "grant")
        /\ UNCHANGED <<born, status, seeded, registered, excused, revoked, scene>>
    BY <1>2, <1>t, RequestAt, AccountsConstants DEF DeleteUser, Done, history, IsAt
  <2> HIDE DEF u
  <2>2. Typed'
    <3>1. /\ token' \in [Tokens -> TokenRow] /\ key' \in [Keys -> KeyRow]
      BY <1>t, <2>1 DEF Typed, TokenRow, KeyRow
    <3> QED BY <1>t, <2>1, <3>1, IdleIsRequest DEF Typed, Details
  <2>3. \A v \in Users : email'[v] = IF v = u THEN None ELSE email[v]
    BY <1>t, <2>1 DEF Typed
  <2>4. Referred'
    <3>1. \A v \in invoiced' \cup levels' : v \in Users /\ email'[v] # None
      BY <2>1, <2>3 DEF AccountsInv, Referred, Exists
    <3>2. \A t \in Tokens : token[t].user \in Users \cup {None}
      BY <1>t DEF Typed, TokenRow
    <3>3. \A t \in Tokens : token'[t].user # None => email'[token'[t].user] # None
      BY <2>1, <2>3, <3>2 DEF AccountsInv, Referred, Exists
    <3>4. \A k \in Keys : key[k].user \in Users \cup {None}
      BY <1>t DEF Typed, KeyRow
    <3>5. \A k \in Keys : key'[k].user # None => email'[key'[k].user] # None
      BY <2>1, <2>3, <3>4 DEF AccountsInv, Referred, Exists
    <3>6. /\ \A v, x \in Users : email'[v] # None /\ email'[v] = email'[x] => v = x
          /\ \A v \in Users : email'[v] # None => v \in born'
      BY <2>1, <2>3 DEF AccountsInv, Referred, Exists
    <3> QED BY <3>1, <3>3, <3>5, <3>6 DEF Referred, Exists
  <2>5. Granted'
    <3>1. \A x \in Workers : x # w => job'[x] = job[x]
      BY <1>t, <2>1 DEF Typed
    <3>2. \A v \in registered : v \in Users
      BY <1>t DEF AccountsInv, Granted, Typed
    <3>3. \A v \in registered :
             \/ email'[v] = None \/ v \in levels' \/ v \in excused'
             \/ \E x \in Workers : job'[x].pc = "grant" /\ job'[x].user = v
      BY <2>1, <2>3, <3>1, <3>2 DEF AccountsInv, Granted, RegisteredHoldsLevel, Exists, IsAt
    <3> QED BY <2>1, <3>3 DEF AccountsInv, Granted, RegisteredHoldsLevel, Exists, IsAt
  <2>6. \A k \in revoked' \cap Keys : key'[k].state \in {"revoked", "gone"}
    BY <2>1 DEF AccountsInv
  <2> QED BY <2>1, <2>2, <2>4, <2>5, <2>6 DEF AccountsInv
<1>3. CASE DeletionRefused(w)
    BY <1>3, OnlyRequests, IdleIsRequest DEF DeletionRefused, Done, history, IsAt
<1> QED BY <1>1, <1>2, <1>3 DEF Remove

\* A step that changes tokens or keys, and goes on or ends the request.
LEMMA SecretsStep ==
    ASSUME AccountsInv, NEW w \in Workers, NEW r \in Request,
           job' = [job EXCEPT ![w] = r], ~IsAt(w, "grant"),
           UNCHANGED <<accounts, history, scene>>,
           token' \in [Tokens -> TokenRow], key' = key,
           \A t \in Tokens : token'[t].user # None => Exists(token'[t].user)
    PROVE  AccountsInv'
<1> USE DEF accounts, history
<1>1. Typed'
    BY DEF AccountsInv, Typed
<1>2. Referred'
    BY DEF AccountsInv, Referred, Exists
<1>3. Granted'
    BY DEF AccountsInv, Typed, Granted, RegisteredHoldsLevel, Exists, IsAt
<1> QED BY <1>1, <1>2, <1>3 DEF AccountsInv

LEMMA ResetStep ==
    ASSUME AccountsInv, NEW w \in Workers, ResetPassword(w)
    PROVE  AccountsInv'
<1>t. Typed /\ None \notin Users
    BY AccountsConstants DEF AccountsInv
<1>o. \A t \in Tokens : /\ token[t] \in TokenRow
                        /\ token[t].user # None => token[t].user \in Users /\ Exists(token[t].user)
    BY <1>t DEF AccountsInv, Typed, Referred, TokenRow
<1>1. ASSUME NEW u \in Users, InvalidateTokens(w, u) PROVE AccountsInv'
  <2>1. [pc |-> "token", user |-> u, row |-> None] \in Request
    BY DEF Request
  <2>2. /\ token' = [t \in Tokens |-> IF token[t] = [user |-> u, state |-> "live"]
                                      THEN [user |-> u, state |-> "used"] ELSE token[t]]
        /\ Exists(u)
    BY <1>1 DEF InvalidateTokens
  <2>3. token' \in [Tokens -> TokenRow]
    BY <1>o, <2>2 DEF TokenRow
  <2>4. \A t \in Tokens : token'[t].user # None => Exists(token'[t].user)
    BY <1>o, <2>2
  <2> QED BY <1>1, <2>1, <2>3, <2>4, SecretsStep DEF InvalidateTokens, Does, IsAt
<1>2. CASE CreateToken(w)
  <2>1. job[w].user \in Users
    BY <1>2, <1>t, RequestAt DEF CreateToken, IsAt
  <2>2. \/ token' = token
        \/ \E t \in Tokens : /\ Exists(job[w].user)
                             /\ token' = [token EXCEPT ![t] = [user |-> job[w].user, state |-> "live"]]
    BY <1>2 DEF CreateToken
  <2>3. token' \in [Tokens -> TokenRow]
    BY <1>t, <2>1, <2>2 DEF Typed, TokenRow
  <2>4. \A t \in Tokens : token'[t].user # None => Exists(token'[t].user)
    BY <1>t, <1>o, <2>2 DEF Typed
  <2> QED BY <1>2, <2>3, <2>4, SecretsStep, IdleIsRequest DEF CreateToken, Done, IsAt
<1>3. ASSUME NEW t \in Tokens, FindToken(w, t) PROVE AccountsInv'
  <2>1. token[t].user \in Users
    BY <1>3, <1>o DEF FindToken, TokenRow
  <2>2. [pc |-> "password", user |-> token[t].user, row |-> t] \in Request
    BY <2>1 DEF Request
  <2> QED BY <1>3, <2>2, OnlyRequests DEF FindToken, Does, history, IsAt
<1>4. CASE SavePassword(w)
  <2>1. job[w].user \in Users /\ job[w].row \in Tokens
    BY <1>4, <1>t, RequestAt DEF SavePassword, IsAt
  <2>2. [pc |-> "mark", user |-> job[w].user, row |-> job[w].row] \in Request
    BY <2>1 DEF Request
  <2>3. PICK r \in Request : job' = [job EXCEPT ![w] = r]
    BY <1>4, <2>2, IdleIsRequest DEF SavePassword, Does, Done
  <2> QED BY <1>4, <1>o, <1>t, <2>3, SecretsStep DEF SavePassword, IsAt, Typed
<1>5. CASE MarkUsed(w)
  <2>1. job[w].row \in Tokens
    BY <1>5, <1>t, RequestAt DEF MarkUsed, IsAt
  <2>2. \/ token' = token
        \/ /\ token[job[w].row].user # None
           /\ token' = [token EXCEPT ![job[w].row].state = "used"]
    BY <1>5 DEF MarkUsed
  <2>3. token' \in [Tokens -> TokenRow]
    BY <1>t, <1>o, <2>1, <2>2 DEF Typed, TokenRow
  <2>4. \A t \in Tokens : token'[t].user # None => Exists(token'[t].user)
    BY <1>t, <1>o, <2>1, <2>2 DEF Typed, TokenRow
  <2> QED BY <1>5, <2>3, <2>4, SecretsStep, IdleIsRequest DEF MarkUsed, Done, IsAt
<1> QED BY <1>1, <1>2, <1>3, <1>4, <1>5 DEF ResetPassword

LEMMA UseKeyStep ==
    ASSUME AccountsInv, NEW w \in Workers, UseKey(w)
    PROVE  AccountsInv'
<1>1. ASSUME NEW k \in Keys, VerifyKey(w, k) PROVE AccountsInv'
  <2>1. key[k].user \in Users
    BY <1>1 DEF VerifyKey, AccountsInv, Typed, KeyRow
  <2>2. [pc |-> "touch", user |-> key[k].user, row |-> k] \in Request
    BY <2>1 DEF Request
  <2> QED BY <1>1, <2>2, OnlyRequests DEF VerifyKey, Does, history, IsAt
<1>2. CASE Touch(w)
    BY <1>2, OnlyRequests, IdleIsRequest DEF Touch, Done, history, IsAt
<1> QED BY <1>1, <1>2 DEF UseKey

LEMMA CrashStep ==
    ASSUME AccountsInv, NEW w \in Workers, Crash(w)
    PROVE  AccountsInv'
BY OnlyRequests, IdleIsRequest DEF Crash, Done

-----------------------------------------------------------------------------
\* What a key may become without a request.
LEMMA KeyStep ==
    ASSUME AccountsInv, NEW k \in Keys,
           \/ \E u \in Users : Generate(u, k)
           \/ Revoke(k) \/ DeleteKey(k)
    PROVE  AccountsInv'
<1>t. /\ Typed /\ None \notin Users /\ key[k] \in KeyRow
      /\ key[k].user # None => key[k].user \in Users /\ Exists(key[k].user)
    BY AccountsConstants DEF AccountsInv, Typed, Referred, KeyRow
<1>o. /\ UNCHANGED <<accounts, token, resets, registered, excused, job, scene>>
      /\ revoked' \subseteq revoked \cup {k}
    BY DEF Generate, Revoke, DeleteKey, history
<1>1. /\ key' = [key EXCEPT ![k] = key'[k]]
      /\ key'[k] \in KeyRow
      /\ key'[k].user # None => Exists(key'[k].user)
      /\ k \in revoked' => key'[k].state \in {"revoked", "gone"}
  <2>1. ASSUME NEW u \in Users, Generate(u, k)
        PROVE  /\ key' = [key EXCEPT ![k] = [user |-> u, state |-> "active"]] /\ Exists(u)
               /\ k \notin revoked /\ revoked' = revoked
    BY <2>1 DEF Generate, history, AccountsInv
  <2>2. CASE Revoke(k)
    BY <1>t, <2>2 DEF Revoke, Typed, KeyRow
  <2>3. CASE DeleteKey(k)
    BY <1>t, <2>3 DEF DeleteKey, Typed, KeyRow
  <2> QED BY <1>t, <2>1, <2>2, <2>3 DEF Typed, KeyRow
<1>2. \A m \in Keys : key'[m] = IF m = k THEN key'[k] ELSE key[m]
    BY <1>t, <1>1 DEF Typed
<1>3. key' \in [Keys -> KeyRow]
    BY <1>t, <1>1 DEF Typed
<1>4. /\ \A m \in Keys : key'[m].user # None => Exists(key'[m].user)
      /\ \A m \in revoked' : m \in Keys /\ key'[m].state \in {"revoked", "gone"}
    BY <1>o, <1>1, <1>2 DEF AccountsInv, Referred
<1> QED
    BY <1>t, <1>o, <1>3, <1>4, OtherRows DEF accounts, AccountsInv, Typed, Referred

LEMMA AdministerStep ==
    ASSUME AccountsInv, NEW u \in Users, Administer(u)
    PROVE  AccountsInv'
<1>t. Typed /\ scene.details \subseteq Details
    BY AccountsConstants DEF AccountsInv, Typed, Details
<1>o. /\ token \in [Tokens -> TokenRow] /\ key \in [Keys -> KeyRow]
      /\ \A v \in invoiced : v \in Users /\ Exists(v)
      /\ \A t \in Tokens : token[t].user # None => Exists(token[t].user)
      /\ \A k \in Keys : key[k].user # None => Exists(key[k].user)
      /\ revoked \subseteq Keys
      /\ \A k \in revoked : key[k].state \in {"revoked", "gone"}
    BY DEF AccountsInv, Typed, Referred
<1> USE DEF secrets, history
<1>1. CASE UpdateOwnDetails(u)
  <2>1. details' \in [Users -> Details]
    BY <1>1, <1>t DEF UpdateOwnDetails, UpdateDetails, Typed
  <2> QED BY <1>1, <1>t, <1>o, <2>1, OtherRows DEF UpdateOwnDetails, UpdateDetails, Typed
<1>2. CASE AdminUpdate(u)
  <2>1. status' \in [Users -> {"ACTIVE", "SUSPENDED"}] /\ details' \in [Users -> Details]
    BY <1>2, <1>t DEF AdminUpdate, Typed
  <2> QED BY <1>2, <1>t, <1>o, <2>1, OtherRows DEF AdminUpdate, Typed
<1>3. ASSUME NEW s \in {"ACTIVE", "SUSPENDED"}, SetStatus(u, s) PROVE AccountsInv'
  <2>1. status' \in [Users -> {"ACTIVE", "SUSPENDED"}]
    BY <1>3, <1>t DEF SetStatus, Typed
  <2> QED BY <1>3, <1>t, <1>o, <2>1, OtherRows DEF SetStatus, Typed
<1>4. CASE IssueInvoice(u)
    BY <1>4, <1>t, <1>o, OtherRows DEF IssueInvoice, Typed
<1>5. CASE AssignLevel(u)
    BY <1>5 DEF AssignLevel, AccountsInv, Typed, Referred, Granted, RegisteredHoldsLevel, Exists, IsAt
<1>6. CASE RevokeLevel(u)
    BY <1>6 DEF RevokeLevel, AccountsInv, Typed, Referred, Granted, RegisteredHoldsLevel, Exists, IsAt
<1>7. ASSUME NEW k \in Keys, Generate(u, k) PROVE AccountsInv'
    BY <1>7, KeyStep
<1> QED
    BY <1>1, <1>2, <1>3, <1>4, <1>5, <1>6, <1>7
    DEF Administer, SuspendUser, ActivateUser, GenerateOwnKey

LEMMA AccountsStep ==
    ASSUME AccountsInv, [Next]_vars
    PROVE  AccountsInv'
<1>o. /\ Typed /\ \A v \in invoiced : v \in Users /\ Exists(v)
      /\ \A t \in Tokens : token[t].user # None => Exists(token[t].user)
      /\ \A k \in Keys : key[k].user # None => Exists(key[k].user)
      /\ revoked \subseteq Keys
      /\ \A k \in revoked : key[k].state \in {"revoked", "gone"}
    BY DEF AccountsInv, Referred
<1>1. ASSUME NEW w \in Workers,
             Create(w) \/ Remove(w) \/ ResetPassword(w) \/ UseKey(w) \/ Crash(w)
      PROVE  AccountsInv'
    BY <1>1, CreateStep, RemoveStep, ResetStep, UseKeyStep, CrashStep
<1>2. ASSUME NEW u \in Users, Administer(u) PROVE AccountsInv'
    BY <1>2, AdministerStep
<1>3. ASSUME NEW t \in Tokens, ExpireToken(t) PROVE AccountsInv'
  <2>1. token' = [token EXCEPT ![t].state = "expired"] /\ token[t].state = "live"
    BY <1>3 DEF ExpireToken
  <2>2. /\ token' \in [Tokens -> TokenRow]
        /\ \A x \in Tokens : token'[x].user # None => Exists(token'[x].user)
    BY <1>o, <2>1 DEF Typed, TokenRow
  <2> QED BY <1>3, <1>o, <2>2, OtherRows DEF ExpireToken, accounts, history, Typed
<1>4. ASSUME NEW k \in Keys, RevokeOwnKey(k) \/ Revoke(k) \/ DeleteKey(k) PROVE AccountsInv'
    BY <1>4, KeyStep DEF RevokeOwnKey
<1>5. CASE SeedLevel
    BY <1>5, <1>o, OtherRows DEF SeedLevel, secrets, history, Typed
<1>6. CASE UNCHANGED vars
  <2> USE <1>6 DEF vars, accounts, secrets, history
  <2>1. Typed'
    BY <1>o DEF Typed
  <2>2. Referred'
    BY DEF AccountsInv, Referred, Exists
  <2>3. Granted'
    BY DEF AccountsInv, Granted, RegisteredHoldsLevel, Exists, IsAt
  <2> QED BY <2>1, <2>2, <2>3 DEF AccountsInv
<1> QED BY <1>1, <1>2, <1>3, <1>4, <1>5, <1>6 DEF Next

LEMMA AccountsKept == Spec => []AccountsInv
<1>1. Init => AccountsInv
  <2> SUFFICES ASSUME Init PROVE AccountsInv
    OBVIOUS
  <2>1. Typed
    BY IdleIsRequest DEF Init, Typed, TokenRow, KeyRow, Details
  <2>2. Referred
    BY DEF Init, Referred, Exists
  <2>3. Granted
    BY DEF Init, Granted, RegisteredHoldsLevel
  <2> QED BY <2>1, <2>2, <2>3 DEF Init, AccountsInv
<1>2. AccountsInv /\ [Next]_vars => AccountsInv'
    BY AccountsStep
<1> QED BY <1>1, <1>2, PTL DEF Spec

-----------------------------------------------------------------------------
\* Whatever creates a row while its user is being deleted, a row that stays
\* belongs to a user that stays, and an email to one user (delete_user with
\* its foreign keys, create_user against the unique email).
THEOREM TypeCorrect == Spec => []TypeOK
<1>1. AccountsInv => TypeOK
  <2> SUFFICES ASSUME AccountsInv PROVE TypeOK
    OBVIOUS
  <2>1. /\ email \in [Users -> Emails \cup {None}] /\ born \subseteq Users
        /\ status \in [Users -> {"ACTIVE", "SUSPENDED"}] /\ details \in [Users -> Details]
        /\ seeded \in BOOLEAN
        /\ \A w \in Workers : job[w].pc \in Steps
    BY DEF AccountsInv, Typed, Request, Idle, Steps
  <2>2. /\ \A u \in invoiced \cup levels : u \in Users /\ Exists(u)
        /\ \A u, v \in Users : Exists(u) /\ email[u] = email[v] => u = v
    BY DEF AccountsInv, Referred
  <2>3. ASSUME NEW t \in Tokens
        PROVE  \/ token[t].user = None /\ token[t].state \in {"unborn", "gone"}
               \/ /\ token[t].user \in Users /\ Exists(token[t].user)
                  /\ token[t].state \in {"live", "expired", "used"}
    BY AccountsConstants DEF AccountsInv, Typed, TokenRow, Referred
  <2>4. ASSUME NEW k \in Keys
        PROVE  \/ key[k].user = None /\ key[k].state \in {"unborn", "gone"}
               \/ /\ key[k].user \in Users /\ Exists(key[k].user)
                  /\ key[k].state \in {"active", "revoked"}
    BY AccountsConstants DEF AccountsInv, Typed, KeyRow, Referred
  <2> QED BY <2>1, <2>2, <2>3, <2>4 DEF TypeOK
<1> QED BY <1>1, AccountsKept, PTL

\* However registrations, deletions and the seeding of the level interleave,
\* a registration that was not cut short leaves its user with the default
\* level (AuthService.register).
THEOREM RegisteredHaveTheLevel == Spec => []RegisteredHoldsLevel
<1>1. AccountsInv => RegisteredHoldsLevel
    BY DEF AccountsInv, Granted
<1> QED BY <1>1, AccountsKept, PTL

\* No request that verified a key before it was revoked makes it active again
\* when it saves the time of the use (ApiKeyService.verify and revoke).
THEOREM RevokedStaysRevoked == Spec => RevokedForever
<1>1. AccountsInv /\ AccountsInv' /\ [Next]_vars => [\A k \in revoked : key'[k].state # "active"]_vars
  <2> SUFFICES ASSUME AccountsInv, AccountsInv', [Next]_vars
               PROVE  \A k \in revoked : key'[k].state # "active"
    OBVIOUS
  <2>1. revoked \subseteq revoked'
    BY DEF Next, Create, Remove, ResetPassword, UseKey, Crash, Administer, ExpireToken, RevokeOwnKey,
       Revoke, DeleteKey, SeedLevel, CheckEmail, Register, GrantDefaultLevel, AdminCreate, AttachDetails,
       InsertDuplicate, CheckDeletion, DeleteUser, DeletionRefused, InvalidateTokens, CreateToken, FindToken,
       SavePassword, MarkUsed, VerifyKey, Touch, UpdateOwnDetails, UpdateDetails, AdminUpdate,
       SuspendUser, ActivateUser, SetStatus, IssueInvoice, AssignLevel, RevokeLevel, GenerateOwnKey,
       Generate, history, vars
  <2> QED BY <2>1 DEF AccountsInv
<1> QED BY <1>1, AccountsKept, PTL DEF Spec, RevokedForever

-----------------------------------------------------------------------------
(***************************************************************************)
(* Reset tokens.  Every worker that may still insert a token takes the     *)
(* place of one that works; every change of the password with a token that *)
(* still works is at its mark, or its process died.                        *)
(***************************************************************************)
Inserting(u) == {w \in Workers : job[w].pc = "token" /\ job[w].user = u}
Saving(t) == {w \in Workers : job[w].pc = "password" /\ job[w].row = t}
Marking(t) == {w \in Workers : job[w].pc = "mark" /\ job[w].row = t}

LiveInv(u) ==
    /\ IsFiniteSet(Live(u))
    /\ Cardinality(Live(u)) + Cardinality(Inserting(u)) <= Cardinality(Workers)

ResetsInv(t) ==
    /\ resets[t] \in Nat
    /\ token[t].state = "unborn" => resets[t] = 0 /\ Saving(t) = {} /\ Marking(t) = {}
    /\ resets[t] + Cardinality(Saving(t)) <= Cardinality(Workers) + crashes
    /\ token[t].state = "live" => resets[t] <= Cardinality(Marking(t)) + crashes

TokensInv ==
    /\ crashes \in Nat /\ resets \in [Tokens -> Nat]
    /\ \A u \in Users : LiveInv(u)
    /\ \A t \in Tokens : ResetsInv(t)

\* The numbers of workers at some step.
LEMMA WorkersCount ==
    /\ Cardinality(Workers) \in Nat
    /\ \A S \in SUBSET Workers : /\ IsFiniteSet(S) /\ Cardinality(S) \in Nat
                                 /\ Cardinality(S) <= Cardinality(Workers)
BY AccountsConstants, FS_Subset, FS_CardinalityType DEF AccountsConstants

\* One worker more, or one less.
LEMMA OneMoreWorker ==
    ASSUME NEW S \in SUBSET Workers, NEW w \in Workers \ S
    PROVE  Cardinality(S \cup {w}) = Cardinality(S) + 1
BY WorkersCount, FS_AddElement

\* Workers that do one thing do not do another.
LEMMA DisjointWorkers ==
    ASSUME NEW S \in SUBSET Workers, NEW T \in SUBSET Workers, S \cap T = {}
    PROVE  Cardinality(S) + Cardinality(T) <= Cardinality(Workers)
<1>1. Cardinality(S \cup T) = Cardinality(S) + Cardinality(T) - Cardinality(S \cap T)
    BY WorkersCount, FS_Union
<1>2. Cardinality(S \cap T) = 0
    BY FS_EmptySet
<1>3. Cardinality(S \cup T) <= Cardinality(Workers)
    BY WorkersCount
<1> QED BY <1>1, <1>2, <1>3, WorkersCount

\* Steps that insert no token and set no password.
LEMMA NothingReset ==
    ASSUME TokensInv, UNCHANGED resets, crashes' \in Nat, crashes <= crashes',
           \A t \in Tokens : token'[t] = token[t] \/ token'[t].state \notin {"live", "unborn"},
           \A u \in Users : Inserting(u)' \subseteq Inserting(u),
           \A t \in Tokens : /\ Saving(t)' \subseteq Saving(t)
                              /\ \/ Marking(t)' = Marking(t)
                                 \/ \E w \in Marking(t) : /\ Marking(t)' = Marking(t) \ {w}
                                                          /\ crashes' = crashes + 1
    PROVE  TokensInv'
<1>1. ASSUME NEW u \in Users PROVE LiveInv(u)'
  <2>1. Live(u)' \subseteq Live(u)
    BY DEF Live
  <2>2. LiveInv(u)
    BY DEF TokensInv
  <2>3. /\ IsFiniteSet(Live(u)') /\ Cardinality(Live(u)') \in Nat /\ Cardinality(Live(u)) \in Nat
        /\ Cardinality(Live(u)') <= Cardinality(Live(u))
    BY <2>1, <2>2, FS_Subset, FS_CardinalityType DEF LiveInv
  <2>4. Inserting(u) \in SUBSET Workers
    BY DEF Inserting
  <2>5. /\ Cardinality(Inserting(u)') <= Cardinality(Inserting(u))
        /\ Cardinality(Inserting(u)') \in Nat /\ Cardinality(Inserting(u)) \in Nat
    BY <2>4, WorkersCount, FS_Subset
  <2> QED BY <2>2, <2>3, <2>5, WorkersCount DEF LiveInv
<1>2. ASSUME NEW t \in Tokens PROVE ResetsInv(t)'
  <2>1. Saving(t) \in SUBSET Workers /\ Marking(t) \in SUBSET Workers
    BY DEF Saving, Marking
  <2>2. /\ Cardinality(Saving(t)') <= Cardinality(Saving(t))
        /\ Cardinality(Saving(t)') \in Nat /\ Cardinality(Saving(t)) \in Nat
        /\ Cardinality(Marking(t)) \in Nat /\ Cardinality(Marking(t)') \in Nat
    BY <2>1, WorkersCount, FS_Subset
  <2>3. Cardinality(Marking(t)) + crashes <= Cardinality(Marking(t)') + crashes'
    <3>1. CASE Marking(t)' = Marking(t)
      BY <2>2, <3>1 DEF TokensInv
    <3>2. ASSUME NEW w \in Marking(t), Marking(t)' = Marking(t) \ {w}, crashes' = crashes + 1
          PROVE  Cardinality(Marking(t)) + crashes <= Cardinality(Marking(t)') + crashes'
      <4>1. /\ Marking(t)' \in SUBSET Workers /\ w \in Workers \ Marking(t)'
            /\ Marking(t) = Marking(t)' \cup {w}
        BY <2>1, <3>2
      <4>2. Cardinality(Marking(t)) = Cardinality(Marking(t)') + 1
        BY <4>1, OneMoreWorker
      <4> QED BY <2>2, <3>2, <4>2 DEF TokensInv
    <3> QED BY <3>1, <3>2
  <2>4. ResetsInv(t) /\ crashes \in Nat
    BY DEF TokensInv
  <2> QED BY <2>2, <2>3, <2>4, WorkersCount DEF ResetsInv
<1> QED BY <1>1, <1>2 DEF TokensInv

\* A request that is not about tokens.
Elsewhere(w) ==
    /\ \A x \in Workers \ {w} : job'[x] = job[x]
    /\ {job[w].pc, job'[w].pc} \cap {"token", "password", "mark"} = {}

LEMMA OtherRequest ==
    ASSUME NEW w \in Workers, Elsewhere(w)
    PROVE  /\ \A u \in Users : Inserting(u)' = Inserting(u)
           /\ \A t \in Tokens : Saving(t)' = Saving(t) /\ Marking(t)' = Marking(t)
BY DEF Elsewhere, Inserting, Saving, Marking

LEMMA ResetTokensStep ==
    ASSUME AccountsInv, TokensInv, NEW w \in Workers, ResetPassword(w)
    PROVE  TokensInv'
<1>t. /\ Typed /\ token \in [Tokens -> TokenRow] /\ job \in [Workers -> Request]
      /\ crashes \in Nat /\ resets \in [Tokens -> Nat]
    BY DEF AccountsInv, Typed, TokensInv
<1>w. /\ \A u \in Users : Inserting(u) \in SUBSET Workers
      /\ \A t \in Tokens : Saving(t) \in SUBSET Workers /\ Marking(t) \in SUBSET Workers
    BY DEF Inserting, Saving, Marking
<1>i. Idle.pc = "idle"
    BY DEF Idle
<1>1. ASSUME NEW u \in Users, InvalidateTokens(w, u) PROVE TokensInv'
  <2>1. /\ token' = [t \in Tokens |-> IF token[t] = [user |-> u, state |-> "live"]
                                      THEN [user |-> u, state |-> "used"] ELSE token[t]]
        /\ job[w].pc = "idle" /\ UNCHANGED <<resets, crashes>>
        /\ job' = [job EXCEPT ![w] = [pc |-> "token", user |-> u, row |-> None]]
    BY <1>1 DEF InvalidateTokens, IsAt, Does
  <2>2. ASSUME NEW v \in Users PROVE LiveInv(v)'
    <3>1. CASE v = u
      <4>1. Live(u)' = {}
        BY <2>1 DEF Live
      <4>2. Inserting(u)' \in SUBSET Workers
        BY DEF Inserting
      <4> QED BY <3>1, <4>1, <4>2, WorkersCount, FS_EmptySet DEF LiveInv
    <3>2. CASE v # u
      <4>1. Live(v)' = Live(v)
        BY <2>1, <3>2 DEF Live
      <4>2. Inserting(v)' = Inserting(v)
        BY <1>t, <2>1, <3>2 DEF Inserting
      <4> QED BY <4>1, <4>2 DEF TokensInv, LiveInv
    <3> QED BY <3>1, <3>2
  <2>3. ASSUME NEW t \in Tokens PROVE ResetsInv(t)'
    <3>1. Saving(t)' = Saving(t) /\ Marking(t)' = Marking(t)
      BY <1>t, <2>1 DEF Saving, Marking
    <3>2. token'[t] = token[t] \/ token'[t].state = "used"
      BY <2>1
    <3> QED BY <2>1, <3>1, <3>2 DEF TokensInv, ResetsInv
  <2> QED BY <1>t, <2>1, <2>2, <2>3 DEF TokensInv
<1>2. CASE CreateToken(w)
  <2>0. PICK u \in Users : u = job[w].user
    BY <1>2, <1>t, RequestAt DEF CreateToken, IsAt
  <2>1. /\ job[w].pc = "token" /\ UNCHANGED <<resets, crashes>>
        /\ job' = [job EXCEPT ![w] = Idle]
    BY <1>2 DEF CreateToken, IsAt, Done
  <2>2. \A t \in Tokens : Saving(t)' = Saving(t) /\ Marking(t)' = Marking(t)
    BY <1>t, <1>i, <2>1 DEF Saving, Marking
  <2>3. Inserting(u) = Inserting(u)' \cup {w} /\ w \notin Inserting(u)'
    BY <1>t, <1>i, <2>0, <2>1 DEF Inserting
  <2>4. \A v \in Users : v # u => Inserting(v)' = Inserting(v)
    BY <1>t, <1>i, <2>0, <2>1 DEF Inserting
  <2>5. CASE Exists(job[w].user)
    <3>0. PICK t \in Tokens : /\ token[t].state = "unborn"
                              /\ token' = [token EXCEPT ![t] = [user |-> u, state |-> "live"]]
      BY <1>2, <2>0, <2>5 DEF CreateToken
    <3>1. /\ token[t].state = "unborn" /\ token'[t] = [user |-> u, state |-> "live"]
          /\ \A x \in Tokens : x # t => token'[x] = token[x]
      BY <1>t, <3>0
    <3>2. Live(u)' = Live(u) \cup {t} /\ t \notin Live(u)
      BY <3>1 DEF Live
    <3>3. ASSUME NEW v \in Users, v # u PROVE LiveInv(v)'
      <4>1. Live(v)' = Live(v)
        BY <3>1, <3>3 DEF Live
      <4> QED BY <2>4, <3>3, <4>1 DEF TokensInv, LiveInv
    <3>4. LiveInv(u)'
      <4>1. LiveInv(u)
        BY <2>1 DEF TokensInv
      <4>2. /\ IsFiniteSet(Live(u)') /\ Cardinality(Live(u)') = Cardinality(Live(u)) + 1
            /\ Cardinality(Live(u)) \in Nat
        BY <3>2, <4>1, FS_AddElement, FS_CardinalityType DEF LiveInv
      <4>3. Inserting(u)' \in SUBSET Workers
        BY DEF Inserting
      <4>4. Cardinality(Inserting(u)) = Cardinality(Inserting(u)') + 1
        BY <2>3, <4>3, OneMoreWorker
      <4>5. Cardinality(Inserting(u)') \in Nat
        BY <4>3, WorkersCount
      <4> QED BY <4>1, <4>2, <4>4, <4>5, WorkersCount DEF LiveInv
    <3>5. ASSUME NEW x \in Tokens PROVE ResetsInv(x)'
      <4>1. token'[x] = token[x] \/ (token[x].state = "unborn" /\ token'[x].state = "live")
        BY <3>1
      <4>2. Cardinality(Marking(x)) \in Nat
        BY <1>w, WorkersCount
      <4> QED BY <1>t, <2>1, <2>2, <4>1, <4>2 DEF TokensInv, ResetsInv
    <3> QED BY <1>t, <2>1, <3>3, <3>4, <3>5 DEF TokensInv
  <2>6. CASE ~Exists(job[w].user)
    <3>1. token' = token
      BY <1>2, <2>6 DEF CreateToken
    <3>2. \A v \in Users : Inserting(v)' \subseteq Inserting(v)
      BY <2>3, <2>4
    <3> QED BY <1>t, <2>1, <2>2, <3>1, <3>2, NothingReset
  <2> QED BY <2>5, <2>6
<1>3. ASSUME NEW t \in Tokens, FindToken(w, t) PROVE TokensInv'
  <2>1. /\ token[t].state = "live" /\ job[w].pc = "idle" /\ UNCHANGED <<token, resets, crashes>>
        /\ job' = [job EXCEPT ![w] = [pc |-> "password", user |-> token[t].user, row |-> t]]
    BY <1>3 DEF FindToken, IsAt, Does, secrets
  <2>2. \A u \in Users : Inserting(u)' = Inserting(u) /\ Live(u)' = Live(u)
    BY <1>t, <2>1 DEF Inserting, Live
  <2>3. /\ \A x \in Tokens : Marking(x)' = Marking(x)
        /\ \A x \in Tokens : x # t => Saving(x)' = Saving(x)
        /\ Saving(t)' = Saving(t) \cup {w} /\ w \notin Saving(t)
    BY <1>t, <2>1 DEF Marking, Saving
  <2>4. ResetsInv(t)'
    <3>1. Cardinality(Saving(t)') + Cardinality(Marking(t)) <= Cardinality(Workers)
      <4>1. Saving(t)' \in SUBSET Workers /\ Saving(t)' \cap Marking(t)' = {}
        BY DEF Saving, Marking
      <4> QED BY <1>w, <2>3, <4>1, DisjointWorkers
    <3>2. /\ Cardinality(Saving(t)') \in Nat /\ Cardinality(Marking(t)) \in Nat
      <4>1. Saving(t)' \in SUBSET Workers
        BY DEF Saving
      <4> QED BY <1>w, <4>1, WorkersCount
    <3> QED BY <1>t, <2>1, <2>3, <3>1, <3>2, WorkersCount DEF TokensInv, ResetsInv
  <2>5. \A x \in Tokens : ResetsInv(x)'
    BY <2>1, <2>3, <2>4 DEF TokensInv, ResetsInv
  <2> QED BY <1>t, <2>1, <2>2, <2>5 DEF TokensInv, LiveInv
<1>4. CASE SavePassword(w)
  <2>0. PICK t \in Tokens : t = job[w].row
    BY <1>4, <1>t, RequestAt DEF SavePassword, IsAt
  <2>1. /\ job[w].pc = "password" /\ UNCHANGED <<token, crashes>>
    BY <1>4 DEF SavePassword, IsAt
  <2>2. CASE Exists(job[w].user)
    <3>1. /\ resets' = [resets EXCEPT ![t] = @ + 1]
          /\ job' = [job EXCEPT ![w] = [pc |-> "mark", user |-> job[w].user, row |-> t]]
      BY <1>4, <2>0, <2>2 DEF SavePassword, Does
    <3>2. \A u \in Users : Inserting(u)' = Inserting(u) /\ Live(u)' = Live(u)
      BY <1>t, <2>1, <3>1 DEF Inserting, Live
    <3>3. /\ \A x \in Tokens : x # t => Saving(x)' = Saving(x) /\ Marking(x)' = Marking(x)
          /\ Saving(t) = Saving(t)' \cup {w} /\ w \notin Saving(t)'
          /\ Marking(t)' = Marking(t) \cup {w} /\ w \notin Marking(t)
      BY <1>t, <2>0, <2>1, <3>1 DEF Marking, Saving
    <3>4. resets'[t] = resets[t] + 1 /\ \A x \in Tokens : x # t => resets'[x] = resets[x]
      BY <1>t, <2>1, <3>1
    <3>t. resets' \in [Tokens -> Nat]
      BY <1>t, <2>1, <3>1
    <3>5. ResetsInv(t)'
      <4>1. Saving(t)' \in SUBSET Workers
        BY DEF Saving
      <4>2. /\ Cardinality(Saving(t)) = Cardinality(Saving(t)') + 1
            /\ Cardinality(Marking(t)') = Cardinality(Marking(t)) + 1
        BY <1>w, <2>1, <3>3, <4>1, OneMoreWorker
      <4>3. Cardinality(Saving(t)') \in Nat /\ Cardinality(Marking(t)) \in Nat
        BY <1>w, <2>1, <4>1, WorkersCount
      <4>4. ResetsInv(t) /\ token[t].state # "unborn"
        BY <2>1, <3>3 DEF TokensInv, ResetsInv
      <4> QED BY <1>t, <2>1, <3>4, <4>2, <4>3, <4>4, WorkersCount DEF ResetsInv
    <3>6. \A x \in Tokens : ResetsInv(x)'
      BY <2>1, <3>3, <3>4, <3>5 DEF TokensInv, ResetsInv
    <3> QED BY <1>t, <2>1, <3>2, <3>6, <3>t DEF TokensInv, LiveInv
  <2>3. CASE ~Exists(job[w].user)
    <3>1. job' = [job EXCEPT ![w] = Idle] /\ resets' = resets
      BY <1>4, <2>3 DEF SavePassword, Done
    <3>2. /\ \A u \in Users : Inserting(u)' = Inserting(u)
          /\ \A x \in Tokens : Saving(x)' \subseteq Saving(x) /\ Marking(x)' = Marking(x)
      BY <1>t, <1>i, <2>1, <3>1 DEF Inserting, Saving, Marking
    <3> QED BY <1>t, <2>1, <3>1, <3>2, NothingReset
  <2> QED BY <2>2, <2>3
<1>5. CASE MarkUsed(w)
  <2>0. PICK t \in Tokens : t = job[w].row
    BY <1>5, <1>t, RequestAt DEF MarkUsed, IsAt
  <2>1. /\ job[w].pc = "mark" /\ UNCHANGED <<resets, crashes>>
        /\ job' = [job EXCEPT ![w] = Idle]
        /\ \/ token' = token /\ token[t].user = None
           \/ token' = [token EXCEPT ![t].state = "used"]
    BY <1>5, <2>0 DEF MarkUsed, IsAt, Done
  <2>2. /\ \A u \in Users : Inserting(u)' = Inserting(u)
        /\ \A x \in Tokens : Saving(x)' = Saving(x)
        /\ \A x \in Tokens : x # t => Marking(x)' = Marking(x)
        /\ w \in Marking(t)
    BY <1>t, <1>i, <2>0, <2>1 DEF Inserting, Saving, Marking
  <2>3. token'[t].state \notin {"live"} /\ \A x \in Tokens : x # t => token'[x] = token[x]
    <3>1. token[t].user = None => token[t].state # "live"
      BY <1>t, <2>1, AccountsConstants DEF TokenRow
    <3>2. token[t] \in TokenRow
      BY <1>t, <2>1
    <3> QED BY <1>t, <2>1, <3>1, <3>2 DEF TokenRow
  <2>4. token'[t].state = "unborn" => token[t].state = "unborn"
    BY <1>t, <2>1 DEF TokenRow
  <2>5. ASSUME NEW u \in Users PROVE LiveInv(u)'
    <3>1. Live(u)' \subseteq Live(u)
      BY <2>3 DEF Live
    <3>2. LiveInv(u)
      BY DEF TokensInv
    <3>3. /\ IsFiniteSet(Live(u)') /\ Cardinality(Live(u)') \in Nat /\ Cardinality(Live(u)) \in Nat
          /\ Cardinality(Live(u)') <= Cardinality(Live(u))
      BY <3>1, <3>2, FS_Subset, FS_CardinalityType DEF LiveInv
    <3>4. Cardinality(Inserting(u)) \in Nat
      BY <1>w, WorkersCount
    <3> QED BY <2>2, <3>2, <3>3, <3>4, WorkersCount DEF LiveInv
  <2>6. ASSUME NEW x \in Tokens PROVE ResetsInv(x)'
    <3>1. ResetsInv(x)
      BY DEF TokensInv
    <3>2. CASE x = t
      BY <2>1, <2>2, <2>3, <2>4, <3>1, <3>2 DEF ResetsInv
    <3>3. CASE x # t
      BY <2>1, <2>2, <2>3, <3>1, <3>3 DEF ResetsInv
    <3> QED BY <3>2, <3>3
  <2> QED BY <1>t, <2>1, <2>5, <2>6 DEF TokensInv
<1> QED BY <1>1, <1>2, <1>3, <1>4, <1>5 DEF ResetPassword

\* Requests that are about something else, and a death at any step.
LEMMA OtherTokensStep ==
    ASSUME AccountsInv, TokensInv, NEW w \in Workers,
           Create(w) \/ Remove(w) \/ UseKey(w) \/ Crash(w)
    PROVE  TokensInv'
<1>t. /\ job \in [Workers -> Request] /\ token \in [Tokens -> TokenRow]
      /\ crashes \in Nat /\ Idle.pc = "idle"
    BY DEF AccountsInv, Typed, TokensInv, Idle
<1> USE DEF secrets, IsAt, Done, Does
<1>1. CASE Create(w)
  <2>1. UNCHANGED <<token, resets, crashes>>
    BY <1>1 DEF Create, CheckEmail, Register, GrantDefaultLevel, AdminCreate, AttachDetails,
                InsertDuplicate
  <2>2. Elsewhere(w)
    BY <1>1, <1>t DEF Create, CheckEmail, Register, GrantDefaultLevel, AdminCreate,
                      AttachDetails, InsertDuplicate, Elsewhere
  <2> QED BY <1>t, <2>1, <2>2, OtherRequest, NothingReset
<1>2. CASE Remove(w)
  <2>1. UNCHANGED <<resets, crashes>> /\ Elsewhere(w)
    BY <1>2, <1>t DEF Remove, CheckDeletion, DeleteUser, DeletionRefused, Elsewhere
  <2>2. \A t \in Tokens : token'[t] = token[t] \/ token'[t].state \notin {"live", "unborn"}
    BY <1>2 DEF Remove, CheckDeletion, DeleteUser, DeletionRefused
  <2> QED BY <1>t, <2>1, <2>2, OtherRequest, NothingReset
<1>3. CASE UseKey(w)
  <2>1. UNCHANGED <<token, resets, crashes>> /\ Elsewhere(w)
    BY <1>3, <1>t DEF UseKey, VerifyKey, Touch, Elsewhere
  <2> QED BY <1>t, <2>1, OtherRequest, NothingReset
<1>4. CASE Crash(w)
  <2>1. /\ UNCHANGED <<token, resets>> /\ crashes' = crashes + 1
        /\ job' = [job EXCEPT ![w] = Idle]
    BY <1>4 DEF Crash
  <2>2. \A u \in Users : Inserting(u)' \subseteq Inserting(u)
    BY <1>t, <2>1 DEF Inserting
  <2>3. \A t \in Tokens : /\ Saving(t)' \subseteq Saving(t)
                          /\ Marking(t)' = Marking(t) \ {w}
    BY <1>t, <2>1 DEF Saving, Marking
  <2>4. \A t \in Tokens : \/ Marking(t)' = Marking(t)
                          \/ \E x \in Marking(t) : Marking(t)' = Marking(t) \ {x}
    BY <2>3
  <2> QED BY <1>t, <2>1, <2>2, <2>3, <2>4, NothingReset
<1> QED BY <1>1, <1>2, <1>3, <1>4

LEMMA TokensStep ==
    ASSUME AccountsInv, TokensInv, [Next]_vars
    PROVE  TokensInv'
<1>t. token \in [Tokens -> TokenRow] /\ crashes \in Nat
    BY DEF AccountsInv, Typed, TokensInv
<1> USE DEF secrets
<1>1. ASSUME UNCHANGED <<resets, crashes, job>>,
             \A t \in Tokens : token'[t] = token[t] \/ token'[t].state \notin {"live", "unborn"}
      PROVE  TokensInv'
  <2>1. /\ \A u \in Users : Inserting(u)' = Inserting(u)
        /\ \A t \in Tokens : Saving(t)' = Saving(t) /\ Marking(t)' = Marking(t)
    BY <1>1 DEF Inserting, Saving, Marking
  <2> QED BY <1>1, <1>t, <2>1, NothingReset
<1>2. ASSUME NEW w \in Workers,
             Create(w) \/ Remove(w) \/ ResetPassword(w) \/ UseKey(w) \/ Crash(w)
      PROVE  TokensInv'
    BY <1>2, ResetTokensStep, OtherTokensStep
<1>3. ASSUME NEW u \in Users, Administer(u) PROVE TokensInv'
  <2>1. UNCHANGED <<token, resets, crashes, job>>
    BY <1>3 DEF Administer, UpdateOwnDetails, UpdateDetails, AdminUpdate, SuspendUser,
                ActivateUser, SetStatus, IssueInvoice, AssignLevel, RevokeLevel,
                GenerateOwnKey, Generate
  <2> QED BY <1>1, <2>1
<1>4. ASSUME NEW t \in Tokens, ExpireToken(t) PROVE TokensInv'
  <2>1. UNCHANGED <<resets, crashes, job>> /\ token' = [token EXCEPT ![t].state = "expired"]
    BY <1>4 DEF ExpireToken
  <2>2. \A x \in Tokens : token'[x] = token[x] \/ token'[x].state = "expired"
    BY <1>t, <2>1 DEF TokenRow
  <2> QED BY <1>1, <2>1, <2>2
<1>5. CASE (\E k \in Keys : RevokeOwnKey(k) \/ Revoke(k) \/ DeleteKey(k)) \/ SeedLevel
  <2>1. UNCHANGED <<token, resets, crashes, job>>
    BY <1>5 DEF RevokeOwnKey, Revoke, DeleteKey, SeedLevel
  <2> QED BY <1>1, <2>1
<1>6. CASE UNCHANGED vars
    BY <1>1, <1>6 DEF vars
<1> QED BY <1>2, <1>3, <1>4, <1>5, <1>6 DEF Next

\* Any number of requests for a reset, and of executions of one, may run at
\* once with deaths among them: the tokens of a user that work are no more
\* than the workers, and so are the passwords set with one token, but for
\* one more with each death (PasswordResetService: the old tokens are
\* invalidated before the new one is inserted, and a token is marked used
\* after the password is committed).
THEOREM ResetsAreBounded == Spec => []TokensBounded
<1>1. ASSUME Init PROVE TokensInv
  <2>1. /\ \A u \in Users : Live(u) = {} /\ Inserting(u) = {}
        /\ \A t \in Tokens : Saving(t) = {} /\ Marking(t) = {} /\ resets[t] = 0
    BY <1>1 DEF Init, Live, Inserting, Saving, Marking, Idle
  <2>2. \A u \in Users : LiveInv(u)
    BY <2>1, FS_EmptySet, WorkersCount DEF LiveInv
  <2>3. \A t \in Tokens : ResetsInv(t)
    BY <1>1, <2>1, FS_EmptySet, WorkersCount DEF ResetsInv, Init
  <2> QED BY <1>1, <2>2, <2>3 DEF TokensInv, Init
<1>2. ASSUME TokensInv PROVE TokensBounded
  <2>1. ASSUME NEW u \in Users PROVE Cardinality(Live(u)) <= Cardinality(Workers)
    <3>1. LiveInv(u) /\ Inserting(u) \in SUBSET Workers
      BY <1>2 DEF TokensInv, Inserting
    <3> QED BY <3>1, WorkersCount, FS_CardinalityType DEF LiveInv
  <2>2. ASSUME NEW t \in Tokens PROVE resets[t] <= Cardinality(Workers) + crashes
    <3>1. ResetsInv(t) /\ Saving(t) \in SUBSET Workers /\ crashes \in Nat
      BY <1>2 DEF TokensInv, Saving
    <3> QED BY <3>1, WorkersCount DEF ResetsInv
  <2> QED BY <2>1, <2>2 DEF TokensBounded, LiveTokensBounded, ResetsBounded
<1> QED BY <1>1, <1>2, TokensStep, AccountsKept, PTL DEF Spec

=============================================================================
