------------------------------ MODULE Translate ------------------------------
(***************************************************************************)
(* What the chat shows of an ACP agent (acp/translate.js): the updates of  *)
(* a session become stream-json lines, and the chat folds them by message  *)
(* id.  A text is streamed in chunks under an id and consolidated under    *)
(* the same id; a tool call is a card and its result; the plan is one card *)
(* that is refreshed.                                                      *)
(*                                                                         *)
(* A text is the number of its chunks.  The agent speaks when it likes: in *)
(* a turn, while it loads a session, which says the old conversation anew  *)
(* (acp/sessionStart.js:5), and late, after the reset that killed it.  A   *)
(* reset and a boot start the translation anew, ids included; the chat     *)
(* keeps what came before as an earlier part (agentReset.js:6-9).          *)
(***************************************************************************)
EXTENDS Naturals

CONSTANTS
  Calls,    \* tool calls of the agent
  MaxSends, \* bound: turns sent
  MaxIds,   \* bound: message ids given out
  MaxText,  \* bound: chunks of a text
  MaxAnews  \* bound: resets and boots

ASSUME TranslateAssumption == {MaxSends, MaxIds, MaxText, MaxAnews} \subseteq Nat

Ids == 1..MaxIds
FreshState == [seq |-> 0, textId |-> 0, text |-> 0, tools |-> {}, planMsgId |-> 0]

VARIABLES
  tstate,   \* createState(): the open text and its chunks, the calls seen, the plan's card
  shown,    \* what the chat shows under each id: chunks streamed and consolidated,
            \* the turns whose plan it is
  cards, results, \* the calls that have a card, and a result
  earlier,  \* the parts of the chat before the last reset or boot
  running,  \* turns that await their result
  sends, anews,
  dropped   \* history: a text was open when a turn was sent, or came outside a turn

translateVars == <<tstate, shown, cards, results, earlier, running, sends, anews, dropped>>

Blank == [streamed |-> 0, whole |-> 0, closed |-> FALSE, plans |-> {}]

TranslateTypeOK ==
  /\ tstate \in [seq : 0..MaxIds, textId : 0..MaxIds, text : 0..MaxText,
                 tools : SUBSET Calls, planMsgId : 0..MaxIds]
  /\ \A i \in Ids : shown[i].plans \subseteq 0..MaxSends
  /\ cards \subseteq Calls /\ results \subseteq Calls
  /\ running \in 0..MaxSends /\ sends \in 0..MaxSends /\ anews \in 0..MaxAnews
  /\ dropped \in BOOLEAN

TranslateInit ==
  /\ tstate = FreshState /\ shown = [i \in Ids |-> Blank] /\ cards = {} /\ results = {}
  /\ earlier = {} /\ running = 0 /\ sends = 0 /\ anews = 0 /\ dropped = FALSE

-----------------------------------------------------------------------------
\* Variant: what a text had is kept for the next one.
ClosedKeeping(s) == [s EXCEPT !.textId = 0]

\* closeText(): no text is open.
Closed(s) == [s EXCEPT !.textId = 0, !.text = 0]

\* The open text as the chat shows it once consolidated.
Consolidated(sh) ==
  IF tstate.textId = 0 THEN sh
  ELSE [sh EXCEPT ![tstate.textId].whole = tstate.text, ![tstate.textId].closed = TRUE]

\* beginTurn(): an open text is dropped, and a plan gets a card of its own.
Began(s) == [s EXCEPT !.textId = 0, !.text = 0, !.planMsgId = 0]

TurnSent ==
  /\ sends < MaxSends /\ sends' = sends + 1 /\ running' = running + 1
  /\ tstate' = Began(tstate) /\ dropped' = (dropped \/ tstate.textId # 0)
  /\ UNCHANGED <<shown, cards, results, earlier, anews>>

Room(n) == tstate.seq + n <= MaxIds
NextId(s) == [s EXCEPT !.seq = @ + 1]

\* textChunk(): opens a text if none is open.
Chunk ==
  /\ tstate.text < MaxText /\ (tstate.textId # 0 \/ Room(1))
  /\ LET id == IF tstate.textId = 0 THEN tstate.seq + 1 ELSE tstate.textId IN
       /\ tstate' = [tstate EXCEPT !.seq = IF tstate.textId = 0 THEN id ELSE @,
                                   !.textId = id, !.text = @ + 1]
       /\ shown' = [shown EXCEPT ![id].streamed = @ + 1]
  /\ dropped' = (dropped \/ running = 0)
  /\ UNCHANGED <<cards, results, earlier, running, sends, anews>>

\* toolCall(): the open text is closed, the call gets a card, another one if it has
\* been announced before.
Carded(c) ==
  /\ Room(1)
  /\ tstate' = NextId([Closed(tstate) EXCEPT !.tools = @ \cup {c}])
  /\ shown' = Consolidated(shown)
  /\ cards' = cards \cup {c}

ToolCall(c) ==
  /\ Carded(c)
  /\ UNCHANGED <<results, earlier, running, sends, anews, dropped>>

\* toolUpdate() of a finished call: one that was not seen gets its card first.
ToolResult(c) ==
  /\ IF c \in tstate.tools THEN UNCHANGED <<tstate, shown, cards>> ELSE Carded(c)
  /\ results' = results \cup {c}
  /\ UNCHANGED <<earlier, running, sends, anews, dropped>>

\* plan(): a first one gets two ids, its card's and its call's.
Plan ==
  /\ tstate.planMsgId # 0 \/ Room(2)
  /\ LET card == IF tstate.planMsgId = 0 THEN tstate.seq + 1 ELSE tstate.planMsgId IN
       /\ tstate' = [tstate EXCEPT !.seq = IF tstate.planMsgId = 0 THEN @ + 2 ELSE @,
                                   !.planMsgId = card]
       /\ shown' = [shown EXCEPT ![card].plans = @ \cup {sends}]
  /\ UNCHANGED <<cards, results, earlier, running, sends, anews, dropped>>

\* translateEnd, translateError: the open text is closed, then the result (a
\* text that asks to sign in, between them, is left out).
End ==
  /\ running > 0 /\ running' = running - 1
  /\ tstate' = Closed(tstate) /\ shown' = Consolidated(shown)
  /\ UNCHANGED <<cards, results, earlier, sends, anews, dropped>>

\* What the chat keeps of a part: a text that is open in it will not be closed.
ThisPart == [shown |-> shown, cards |-> cards, results |-> results,
         dropped |-> (dropped \/ tstate.textId # 0)]

\* reset(), or a boot: the turns that run are not heard of any more, and the ids
\* start anew, in a part of their own.
Anew ==
  /\ anews < MaxAnews /\ anews' = anews + 1
  /\ earlier' = earlier \cup {ThisPart}
  /\ tstate' = FreshState /\ shown' = [i \in Ids |-> Blank]
  /\ cards' = {} /\ results' = {}
  /\ running' = 0 /\ dropped' = FALSE
  /\ UNCHANGED sends

TranslateNext ==
  \/ TurnSent \/ Chunk \/ Plan \/ End \/ Anew
  \/ \E c \in Calls : ToolCall(c) \/ ToolResult(c)
-----------------------------------------------------------------------------
Parts == earlier \cup {ThisPart}

(* A consolidated text replaces the streamed one under its id and is the same: no
   chunk of it is lost or another text's, whatever came between them. *)
TextsWhole ==
  \A p \in Parts : \A i \in Ids : p.shown[i].closed => p.shown[i].whole = p.shown[i].streamed

(* Once every turn has its result no text is left half shown, unless in its part a
   turn was sent into a text (acpEngine.js:81 drops it: its placeholder is never
   replaced), or one was said outside a turn, or was open when the part ended. *)
NoneLeftOpen ==
  \A i \in Ids :
    /\ running = 0 /\ ~dropped /\ shown[i].streamed > 0 => shown[i].closed
    /\ \A p \in earlier : ~p.dropped /\ p.shown[i].streamed > 0 => p.shown[i].closed

(* A result has its call's card in the same part of the chat, also when the call was
   announced before the reset or the boot that began the part, or never. *)
CardFirst == \A p \in Parts : p.results \subseteq p.cards

(* A plan's card shows the plans of one turn's time, to the next turn's sending, and
   no text. *)
PlanOfItsTurn ==
  \A p \in Parts : \A i \in Ids :
    /\ \A m, n \in p.shown[i].plans : m = n
    /\ p.shown[i].plans # {} => p.shown[i].streamed = 0

(* The chat shows what the agent said: texts whole and closed, no result without a
   card, each turn its own plan, in every part. *)
ChatWhole == TranslateTypeOK /\ TextsWhole /\ NoneLeftOpen /\ CardFirst /\ PlanOfItsTurn
==============================================================================
