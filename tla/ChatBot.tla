------------------------------- MODULE ChatBot -------------------------------
(***************************************************************************)
(* The WhatsApp bot of chat-service.  Every message of a person is a       *)
(* webhook call of its own, and calls run concurrently on one session that *)
(* nothing locks.  A call reads the step, fills in the field that the step *)
(* asks for, sends the next question over HTTP, and then writes the step   *)
(* that follows the one it read; a cancellation writes the step first and  *)
(* sends afterwards.  Meta repeats a message whose call is not answered in *)
(* time, which is one more message here.                                   *)
(***************************************************************************)
EXTENDS Naturals

CONSTANTS Webhook,  \* calls under way at the same time
          NoCall

VARIABLES
  step,      \* session.Step
  filled,    \* the fields of the session that are not empty
  call,      \* call[w]: the step that webhook call w will write, or NoCall
  searches,  \* the fields that were empty in the search links sent
  cancelled  \* the last message handled was a cancellation

botVars == <<step, filled, call, searches, cancelled>>

Field == {"Type", "Origin", "Dest", "Date", "Passengers"}

Asking == {"ASK_TYPE", "ASK_ORIGIN", "ASK_DEST", "ASK_DATE", "ASK_PASSENGERS"}

\* The field that a step asks for, and the step after it.
FieldOf(s) ==
  CASE s = "ASK_TYPE"   -> "Type"
    [] s = "ASK_ORIGIN" -> "Origin"
    [] s = "ASK_DEST"   -> "Dest"
    [] s = "ASK_DATE"   -> "Date"
    [] s = "ASK_PASSENGERS" -> "Passengers"

After(s) ==
  CASE s = "IDLE"       -> "ASK_TYPE"
    [] s = "ASK_TYPE"   -> "ASK_ORIGIN"
    [] s = "ASK_ORIGIN" -> "ASK_DEST"
    [] s = "ASK_DEST"   -> "ASK_DATE"
    [] s = "ASK_DATE"   -> "ASK_PASSENGERS"
    [] s = "ASK_PASSENGERS" -> "IDLE"

\* Text is not empty: a message of blanks cannot be sent.  LoadOrStore gives
\* the first message a session with an empty record.
BotInit ==
  /\ step = "IDLE" /\ filled = {}
  /\ call = [w \in Webhook |-> NoCall]
  /\ searches = {}
  /\ cancelled = FALSE

\* Mutated form: a cancellation empties the session.
Emptied == {}

\* A cancellation leaves the fields as they are.
KeptOnCancel == filled

\* "cancel" or "reset": the step at once, then the message that confirms it.
Cancel(w) ==
  /\ call[w] = NoCall
  /\ step' = "IDLE"
  /\ filled' = KeptOnCancel
  /\ cancelled' = TRUE
  /\ UNCHANGED <<call, searches>>

\* Any message says hello to an idle bot.
Greet(w) ==
  /\ call[w] = NoCall /\ step = "IDLE"
  /\ call' = [call EXCEPT ![w] = After(step)]
  /\ cancelled' = FALSE
  /\ UNCHANGED <<step, filled, searches>>

\* An answer to the question of the step.  To the first one, anything but 1, 2,
\* flight or bus asks again and changes nothing.
TakeAnswer(w) ==
  /\ call[w] = NoCall /\ step \in Asking
  /\ \/ /\ filled' = filled \cup {FieldOf(step)}
        /\ call' = [call EXCEPT ![w] = After(step)]
        /\ searches' = IF step = "ASK_PASSENGERS"
                       THEN searches \cup (Field \ filled') ELSE searches
     \/ step = "ASK_TYPE" /\ UNCHANGED <<filled, call, searches>>
  /\ cancelled' = FALSE
  /\ UNCHANGED step

\* A message that reads the step half written, or written half by one call and
\* half by another, matches no case.
NoCase(w) ==
  /\ call[w] = NoCall
  /\ step = "torn" \/ \E v \in Webhook : call[v] # NoCall
  /\ cancelled' = FALSE
  /\ UNCHANGED <<step, filled, call, searches>>

\* The question has been sent, or has failed to be: its error is not looked at.
\* A string is two words, so two calls that write steps at the same time may
\* leave one that is neither.
WriteStep(w) ==
  /\ call[w] # NoCall
  /\ step' \in {call[w]} \cup (IF \E v \in Webhook \ {w} : call[v] \notin {NoCall, call[w]}
                              THEN {"torn"} ELSE {})
  /\ call' = [call EXCEPT ![w] = NoCall]
  /\ UNCHANGED <<filled, searches, cancelled>>

\* Sessions are kept in memory.
Restart ==
  /\ step' = "IDLE" /\ filled' = {}
  /\ call' = [w \in Webhook |-> NoCall]
  /\ cancelled' = FALSE
  /\ UNCHANGED searches

HandleMessage(w) == Cancel(w) \/ Greet(w) \/ TakeAnswer(w) \/ NoCase(w)

BotNext == (\E w \in Webhook : HandleMessage(w) \/ WriteStep(w)) \/ Restart

BotSpec == BotInit /\ [][BotNext]_botVars
-----------------------------------------------------------------------------
BotTypeOK ==
  /\ step \in Asking \cup {"IDLE", "torn"}
  /\ filled \subseteq Field /\ searches \subseteq Field
  /\ call \in [Webhook -> Asking \cup {"IDLE", NoCall}]
  /\ cancelled \in BOOLEAN

\* A search link never lacks a field, however messages overtake each other, are
\* repeated, and cancel the conversation in the middle of a call.
NoBlankSearch == searches = {}

\* "Allow the user to cancel at any time": after a cancellation the conversation
\* starts over, until the person writes again.
CancelStops == cancelled => step = "IDLE"
=============================================================================
