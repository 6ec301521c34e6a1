------------------------------- MODULE LlmCalls -------------------------------
(***************************************************************************)
(* A plugin calls a language model through a connection that               *)
(* administrators edit, deactivate and delete meanwhile: the connection is *)
(* resolved, its model and key are copied into a client, the model is      *)
(* asked (for an object, again and again, until its reply has the fields   *)
(* wanted), and the connection is stamped.                                 *)
(*                                                                         *)
(* How a connection becomes the default is in Catalogue.  A model, key and *)
(* endpoint are an edition.                                                *)
(***************************************************************************)
EXTENDS Integers, FiniteSets, Scenes

CONSTANTS
    Connections,
    Fields,       \* fields of a reply
    Schemas,      \* what callers want of it: the fields expected, and those of
                  \* them required; a schema of the flat kind requires none
    MaxAttempts,  \* json_retry_max
    MaxEditions   \* bound on the editions

ASSUME LlmAssumption ==
    /\ \A s \in Schemas : s.required \subseteq s.expected /\ s.expected \subseteq Fields
    /\ MaxAttempts \in Nat \ {0}

VARIABLES
    connection,   \* the stored rows
    edits         \* editions there have been

llmVars == <<connection, edits>>

-----------------------------------------------------------------------------
NoConnection == [edition |-> 0]
Stored(m) == connection[m] # NoConnection

\* A reply that is no object, or the fields of the object.
Replies == {None} \cup SUBSET Fields

\* Mutant: the required fields are not looked for.
MatchesLoosely(reply, s) == reply # None /\ (s.expected = {} \/ s.expected \cap reply # {})

Matches(reply, s) ==
    /\ reply # None
    /\ s.expected = {} \/ (s.required \subseteq reply /\ s.expected \cap reply # {})

LlmInit ==
    /\ connection = [m \in Connections |-> NoConnection]
    /\ edits = 0

OfLlm == On("llm")

\* The row of those who call through m is gone; another m has another id.
Gone(m) ==
    [w \in Workers |-> IF job[w].pc \in {"ask", "stamp"} /\ job[w].row = m
                       THEN [job[w] EXCEPT !.lost = TRUE] ELSE job[w]]

-----------------------------------------------------------------------------
(***************************************************************************)
(* Administration.                                                         *)
(***************************************************************************)
CreateConnection(m) ==
    /\ OfLlm /\ ~Stored(m) /\ edits < MaxEditions
    /\ \E active \in BOOLEAN :
          connection' = [connection EXCEPT ![m] =
              [edition |-> edits + 1, active |-> active, stamped |-> FALSE]]
    /\ edits' = edits + 1
    /\ UNCHANGED job

\* All fields of the form, the switch among them.
UpdateConnection(m) ==
    /\ OfLlm /\ Stored(m) /\ edits < MaxEditions
    /\ \E active \in BOOLEAN :
          connection' = [connection EXCEPT ![m].edition = edits + 1, ![m].active = active]
    /\ edits' = edits + 1
    /\ UNCHANGED job

SetActive(m) ==
    /\ OfLlm /\ Stored(m)
    /\ \E active \in BOOLEAN :
          connection' = [connection EXCEPT ![m].active = active]
    /\ UNCHANGED <<edits, job>>

DeleteConnection(m) ==
    /\ OfLlm /\ Stored(m)
    /\ connection' = [connection EXCEPT ![m] = NoConnection]
    /\ job' = Gone(m)
    /\ UNCHANGED edits

-----------------------------------------------------------------------------
(***************************************************************************)
(* A call.                                                                 *)
(***************************************************************************)
Client(w, m, stamps) ==
    /\ \E s \in Schemas, chat \in BOOLEAN :
          /\ chat => s.expected = {}    \* any text will do
          /\ Begin(w, [pc |-> "ask", row |-> m, edition |-> connection[m].edition,
                       stamps |-> stamps, schema |-> s, chat |-> chat,
                       left |-> IF chat THEN 1 ELSE MaxAttempts, lost |-> FALSE, reply |-> None])
    /\ UNCHANGED llmVars

\* By its slug, or because it is the default.
Resolve(w, m) == OfLlm /\ Stored(m) /\ connection[m].active /\ Client(w, m, TRUE)

\* The test of a connection takes the stored key if the form has none, and
\* stamps nothing; an inactive one can be tested.
TestConnection(w, m) == OfLlm /\ Stored(m) /\ Client(w, m, FALSE)

End(w, kind, reply) ==
    Go(w, [pc |-> "over", kind |-> kind, reply |-> reply,
           schema |-> job[w].schema, lost |-> job[w].lost])

\* The provider fails, or answers without any content: an LlmError.
AskFails(w) == OfLlm /\ IsAt(w, "ask") /\ Done(w) /\ UNCHANGED llmVars

Wanted(w, reply) == IF job[w].chat THEN TRUE ELSE Matches(reply, job[w].schema)

\* A reply that is not what was wanted: the next request says so.
AskAgain(w, reply) ==
    /\ OfLlm /\ IsAt(w, "ask") /\ ~Wanted(w, reply)
    /\ IF job[w].left = 1 THEN Done(w) ELSE Go(w, [job[w] EXCEPT !.left = @ - 1])
    /\ UNCHANGED llmVars

\* Afterwards the connection is looked for, and one that is found is stamped.
AskSucceeds(w, reply) ==
    /\ OfLlm /\ IsAt(w, "ask") /\ Wanted(w, reply)
    /\ IF job[w].stamps /\ ~job[w].lost
       THEN Go(w, [job[w] EXCEPT !.pc = "stamp", !.reply = reply])
       ELSE End(w, "reply", reply)
    /\ UNCHANGED llmVars

\* Mutant: the stamp writes the row that was loaded for the call.
StampWholeRow(w) ==
    LET r == job[w] IN
    /\ OfLlm /\ IsAt(w, "stamp") /\ ~r.lost
    /\ connection' = [connection EXCEPT ![r.row].stamped = TRUE, ![r.row].edition = r.edition]
    /\ End(w, "reply", r.reply)
    /\ UNCHANGED edits

\* The changed column is written.
Stamp(w) ==
    LET r == job[w] IN
    /\ OfLlm /\ IsAt(w, "stamp") /\ ~r.lost
    /\ connection' = [connection EXCEPT ![r.row].stamped = TRUE]
    /\ End(w, "reply", r.reply)
    /\ UNCHANGED edits

\* The row was deleted after it was found: the update raises, outside the
\* guard of the call, and the reply is lost.
StampFails(w) ==
    /\ OfLlm /\ IsAt(w, "stamp") /\ job[w].lost
    /\ End(w, "raised", None) /\ UNCHANGED llmVars

Return(w) == OfLlm /\ IsAt(w, "over") /\ Done(w) /\ UNCHANGED llmVars

LlmNext ==
    \/ \E m \in Connections : \/ CreateConnection(m) \/ UpdateConnection(m) \/ SetActive(m)
                              \/ DeleteConnection(m)
    \/ \E w \in Workers :
          \/ AskFails(w) \/ Stamp(w) \/ StampFails(w) \/ Return(w)
          \/ \E m \in Connections : Resolve(w, m) \/ TestConnection(w, m)
          \/ \E reply \in Replies : AskAgain(w, reply) \/ AskSucceeds(w, reply)

-----------------------------------------------------------------------------
LlmTypeOK ==
    /\ \A m \in Connections : Stored(m) => connection[m].edition \in 1 .. edits
    /\ \A w \in Workers : IsAt(w, "ask") /\ scene = "llm" => job[w].left \in 1 .. MaxAttempts

\* Who gets an object gets one with what its schema requires, or at least with
\* a field of it, after however many replies without; and a reply is lost
\* only if the connection was deleted while the model was asked.
AnswersFit ==
    \A w \in Workers : scene = "llm" /\ IsAt(w, "over") =>
        LET reply == job[w].reply
            schema == job[w].schema IN
        /\ job[w].kind = "raised" => job[w].lost
        /\ job[w].kind = "reply" /\ schema.expected # {} =>
               reply # None /\ reply \cap schema.expected # {} /\ schema.required \subseteq reply

Unstamped(m) == IF Stored(m) THEN [connection[m] EXCEPT !.stamped = FALSE] ELSE NoConnection

\* A call leaves nothing but its stamp on the connections: what was edited,
\* switched off or deleted while the model was asked stays so.  (Of a step.)
StampKeepsEdits ==
    (\E w \in Workers : scene = "llm" /\ ~IsAt(w, "over") /\ job'[w].pc = "over") =>
        \A m \in Connections : Unstamped(m)' = Unstamped(m)
================================================================================
