-------------------------- MODULE AgentServicesProofs --------------------------
(***************************************************************************)
(* Proofs about services around an agent: the translation of what an ACP   *)
(* agent says, for any number of turns, ids, chunks, calls and resets; and *)
(* the seeding of an agent's configuration, for any number of launches,    *)
(* starts, names of a server and mishaps; what the callers hear that       *)
(* follow a message, for any number of messages; and the turns, engines    *)
(* and sessions of the side chats, for any number of each.                 *)
(***************************************************************************)
EXTENDS AgentServices, FiniteSetTheorems, SequenceTheorems, WellFoundedInduction, TLAPS

-----------------------------------------------------------------------------
(* The translation.                                                        *)

ShownType == [streamed : Nat, whole : Nat, closed : BOOLEAN, plans : SUBSET (0..MaxSends)]

\* An id given out is a text's or a plan's, never both, and what the open text has
\* is what was streamed under its id.
Shows(i) ==
  /\ i > tstate.seq => shown[i].streamed = 0 /\ ~ shown[i].closed /\ shown[i].plans = {}
  /\ shown[i].closed => shown[i].whole = shown[i].streamed
  /\ shown[i].plans # {} => shown[i].streamed = 0
  /\ \A m, n \in shown[i].plans : m = n
  /\ i = tstate.textId =>
       shown[i].streamed = tstate.text /\ ~ shown[i].closed /\ shown[i].plans = {}
  /\ i = tstate.planMsgId => shown[i].streamed = 0 /\ ~ shown[i].closed /\ shown[i].plans \subseteq {sends}

\* Unless a turn was sent into a text, the only one that is not closed is the open one.
NoneLost ==
  ~ dropped => /\ \A i \in Ids : shown[i].streamed > 0 /\ ~ shown[i].closed => i = tstate.textId
               /\ running = 0 => tstate.textId = 0

\* An earlier part of the chat is as the current one was when it ended.
PartHolds(p) ==
  /\ \A i \in Ids :
       /\ p.shown[i].closed => p.shown[i].whole = p.shown[i].streamed
       /\ p.shown[i].plans # {} => p.shown[i].streamed = 0
       /\ \A m, n \in p.shown[i].plans : m = n
       /\ ~ p.dropped /\ p.shown[i].streamed > 0 => p.shown[i].closed
  /\ p.results \subseteq p.cards

TranslateInv ==
  /\ TranslateTypeOK /\ shown \in [Ids -> ShownType]
  /\ tstate.textId <= tstate.seq /\ tstate.planMsgId <= tstate.seq
  /\ tstate.textId # 0 => tstate.textId # tstate.planMsgId
  /\ tstate.textId = 0 => tstate.text = 0
  /\ running <= sends
  /\ \A i \in Ids : Shows(i)
  /\ NoneLost
  /\ cards = tstate.tools /\ results \subseteq cards
  /\ \A p \in earlier : PartHolds(p)

StateType == [seq : 0..MaxIds, textId : 0..MaxIds, text : 0..MaxText,
              tools : SUBSET Calls, planMsgId : 0..MaxIds]

LEMMA StateFields ==
  ASSUME TranslateInv
  PROVE  /\ tstate \in StateType /\ MaxSends \in Nat /\ MaxIds \in Nat /\ MaxText \in Nat
         /\ tstate.seq \in 0..MaxIds /\ tstate.textId \in 0..MaxIds /\ tstate.text \in 0..MaxText
         /\ tstate.tools \subseteq Calls /\ tstate.planMsgId \in 0..MaxIds
         /\ tstate.textId <= tstate.seq /\ tstate.planMsgId <= tstate.seq
         /\ running \in 0..MaxSends /\ sends \in 0..MaxSends /\ anews \in 0..MaxAnews
<1>1. tstate \in StateType
  BY DEF TranslateInv, TranslateTypeOK, StateType
<1>2. running \in 0..MaxSends /\ sends \in 0..MaxSends /\ anews \in 0..MaxAnews
  BY DEF TranslateInv, TranslateTypeOK
<1>3. tstate.textId <= tstate.seq /\ tstate.planMsgId <= tstate.seq
  BY DEF TranslateInv
<1> QED BY <1>1, <1>2, <1>3, TranslateAssumption DEF StateType

LEMMA ClosedIsShown ==
  ASSUME NEW r \in ShownType, NEW b \in BOOLEAN
  PROVE  /\ [r EXCEPT !.closed = b] \in ShownType
         /\ [r EXCEPT !.closed = b].closed = b
BY DEF ShownType

\* A text is closed, or none was open: what was streamed is consolidated.
LEMMA TextClosed ==
  ASSUME TranslateInv, shown' = Consolidated(shown)
  PROVE  /\ shown' \in [Ids -> ShownType]
         /\ \A i \in Ids :
              /\ shown'[i].streamed = shown[i].streamed /\ shown'[i].plans = shown[i].plans
              /\ shown'[i].closed <=> (shown[i].closed \/ i = tstate.textId)
              /\ shown'[i].closed => shown'[i].whole = shown'[i].streamed
<1>1. shown \in [Ids -> ShownType] /\ \A i \in Ids : Shows(i)
  BY DEF TranslateInv
<1>2. CASE tstate.textId = 0
  <2>1. shown' = shown
    BY <1>2 DEF Consolidated
  <2>2. \A i \in Ids : i # tstate.textId
    BY <1>2 DEF Ids
  <2> QED BY <1>1, <2>1, <2>2 DEF Shows
<1>3. CASE tstate.textId # 0
  <2> DEFINE t == tstate.textId
             mid == [shown EXCEPT ![t].whole = tstate.text]
  <2>1. t \in Ids /\ tstate.text \in Nat
    BY <1>3, StateFields DEF Ids
  <2>2. shown' = [mid EXCEPT ![t].closed = TRUE]
    BY <1>3 DEF Consolidated
  <2>3. mid \in [Ids -> ShownType] /\ mid[t] = [shown[t] EXCEPT !.whole = tstate.text]
        /\ \A i \in Ids : i # t => mid[i] = shown[i]
    BY <1>1, <2>1 DEF ShownType
  <2> HIDE DEF mid
  <2> DEFINE new == [mid[t] EXCEPT !.closed = TRUE]
  <2>7. new \in ShownType
    BY <2>1, <2>3, ClosedIsShown
  <2>8. shown' = [mid EXCEPT ![t] = new]
    BY <2>2
  <2> HIDE DEF new
  <2>4. shown' \in [Ids -> ShownType] /\ shown'[t] = new /\ \A i \in Ids : i # t => shown'[i] = mid[i]
    BY <2>1, <2>3, <2>7, <2>8
  <2>9. new.closed /\ new.streamed = mid[t].streamed /\ new.whole = mid[t].whole /\ new.plans = mid[t].plans
    BY <2>1, <2>3 DEF new, ShownType
  <2>5. /\ shown'[t].streamed = shown[t].streamed /\ shown'[t].whole = tstate.text
        /\ shown'[t].closed /\ shown'[t].plans = shown[t].plans
    BY <1>1, <2>1, <2>3, <2>4, <2>9 DEF ShownType
  <2>6. shown[t].streamed = tstate.text
    BY <1>1, <2>1 DEF Shows
  <2> QED BY <1>1, <2>1, <2>3, <2>4, <2>5, <2>6 DEF Shows
<1> QED BY <1>2, <1>3

LEMMA ClosedShows ==
  ASSUME TranslateInv, shown' = Consolidated(shown), UNCHANGED sends,
         tstate'.textId = 0, tstate'.planMsgId = tstate.planMsgId,
         tstate'.seq \in {tstate.seq, tstate.seq + 1}
  PROVE  /\ \A i \in Ids : Shows(i)'
         /\ ~ dropped => \A i \in Ids : ~ (shown'[i].streamed > 0 /\ ~ shown'[i].closed)
<1>1. \A i \in Ids : Shows(i)
  BY DEF TranslateInv
<1>2. \A i \in Ids : i \in Nat /\ i # 0
  BY DEF Ids
<1>3. ASSUME NEW i \in Ids PROVE Shows(i)'
  <2>1. /\ shown'[i].streamed = shown[i].streamed /\ shown'[i].plans = shown[i].plans
        /\ shown'[i].closed <=> (shown[i].closed \/ i = tstate.textId)
        /\ shown'[i].closed => shown'[i].whole = shown'[i].streamed
    BY TextClosed
  <2>2. i > tstate'.seq => i > tstate.seq /\ i # tstate.textId
    BY <1>2, StateFields
  <2>3. i = tstate.planMsgId => i # tstate.textId
    BY <1>2 DEF TranslateInv
  <2> QED BY <1>1, <1>2, <2>1, <2>2, <2>3 DEF Shows
<1>4. ASSUME ~ dropped, NEW i \in Ids PROVE ~ (shown'[i].streamed > 0 /\ ~ shown'[i].closed)
  <2>1. shown[i].streamed > 0 /\ ~ shown[i].closed => i = tstate.textId
    BY <1>4 DEF TranslateInv, NoneLost
  <2> QED BY <2>1, TextClosed
<1> QED BY <1>3, <1>4

\* What a step has to show.
LEMMA TranslateKept ==
  ASSUME tstate' \in StateType, running' \in 0..MaxSends, sends' \in 0..MaxSends,
         anews' \in 0..MaxAnews, dropped' \in BOOLEAN, shown' \in [Ids -> ShownType],
         tstate'.textId <= tstate'.seq, tstate'.planMsgId <= tstate'.seq,
         tstate'.textId # 0 => tstate'.textId # tstate'.planMsgId,
         tstate'.textId = 0 => tstate'.text = 0,
         running' <= sends',
         \A i \in Ids : Shows(i)', NoneLost',
         cards' = tstate'.tools, results' \subseteq cards', \A p \in earlier' : PartHolds(p)
  PROVE  TranslateInv'
<1>1. \A i \in Ids : shown'[i].plans \subseteq 0..MaxSends
  BY DEF ShownType
<1>2. cards' \subseteq Calls /\ results' \subseteq Calls
  BY DEF StateType
<1>3. TranslateTypeOK'
  BY <1>1, <1>2 DEF TranslateTypeOK, StateType
<1>4. \A p \in earlier' : PartHolds(p)'
  BY DEF PartHolds
<1> QED BY <1>3, <1>4 DEF TranslateInv

LEMMA TurnSentKeeps == ASSUME TranslateInv, TurnSent PROVE TranslateInv'
<1>1. /\ sends' = sends + 1 /\ running' = running + 1 /\ sends < MaxSends
      /\ tstate' = Began(tstate) /\ UNCHANGED <<shown, cards, results, earlier, anews>>
  BY DEF TurnSent
<1>2. /\ tstate' \in StateType /\ tstate'.textId = 0 /\ tstate'.text = 0 /\ tstate'.planMsgId = 0
      /\ tstate'.seq = tstate.seq /\ tstate'.tools = tstate.tools
  <2>1. 0 \in 0..MaxIds /\ 0 \in 0..MaxText
    BY StateFields
  <2> QED BY <1>1, <2>1, StateFields DEF Began, StateType
<1>3. running' \in 0..MaxSends /\ sends' \in 0..MaxSends /\ running' <= sends' /\ sends' > 0 /\ running' # 0
  BY <1>1, StateFields DEF TranslateInv
<1>4. \A i \in Ids : i # 0
  BY DEF Ids
<1>5. \A i \in Ids : Shows(i)'
  BY <1>1, <1>2, <1>4 DEF TranslateInv, Shows
<1>6. dropped' \in BOOLEAN /\ (~ dropped' => ~ dropped /\ tstate.textId = 0)
  BY DEF TurnSent, TranslateInv, TranslateTypeOK
<1>7. NoneLost'
  BY <1>1, <1>2, <1>3, <1>4, <1>6 DEF NoneLost, TranslateInv
<1>8. anews' \in 0..MaxAnews /\ shown' \in [Ids -> ShownType]
  BY <1>1 DEF TranslateInv, TranslateTypeOK
<1>9. tstate'.planMsgId <= tstate'.seq /\ tstate'.textId <= tstate'.seq
  BY <1>2, StateFields
<1>10. cards' = tstate'.tools /\ results' \subseteq cards' /\ \A p \in earlier' : PartHolds(p)
  BY <1>1, <1>2 DEF TranslateInv
<1> QED BY <1>2, <1>3, <1>5, <1>6, <1>7, <1>8, <1>9, <1>10, TranslateKept

LEMMA ChunkKeeps == ASSUME TranslateInv, Chunk PROVE TranslateInv'
<1> DEFINE id == IF tstate.textId = 0 THEN tstate.seq + 1 ELSE tstate.textId
<1>1. /\ tstate.text < MaxText /\ (tstate.textId # 0 \/ tstate.seq + 1 <= MaxIds)
      /\ tstate' = [tstate EXCEPT !.seq = IF tstate.textId = 0 THEN id ELSE tstate.seq,
                                  !.textId = id, !.text = tstate.text + 1]
      /\ shown' = [shown EXCEPT ![id].streamed = shown[id].streamed + 1]
      /\ UNCHANGED <<cards, results, earlier, running, sends, anews>>
  BY DEF Chunk, Room
<1>2. id \in Ids /\ id \in 1..MaxIds /\ id # 0
  BY <1>1, StateFields DEF Ids
<1>3. (tstate.textId = 0 => id = tstate.seq + 1) /\ (tstate.textId # 0 => id = tstate.textId)
  OBVIOUS
<1> HIDE DEF id
<1>4. /\ tstate'.textId = id /\ tstate'.text = tstate.text + 1
      /\ tstate'.seq = (IF tstate.textId = 0 THEN id ELSE tstate.seq)
      /\ tstate'.planMsgId = tstate.planMsgId /\ tstate'.tools = tstate.tools
  BY <1>1, StateFields DEF StateType
<1>5. tstate' \in StateType
  <2>1. (IF tstate.textId = 0 THEN id ELSE tstate.seq) \in 0..MaxIds /\ tstate.text + 1 \in 0..MaxText
        /\ id \in 0..MaxIds
    BY <1>1, <1>2, StateFields
  <2> QED BY <1>1, <2>1, StateFields DEF StateType
<1>6. /\ id <= tstate'.seq /\ tstate.seq <= tstate'.seq /\ tstate'.planMsgId <= tstate'.seq
      /\ id # tstate.planMsgId
  <2>1. CASE tstate.textId = 0
    BY <1>2, <1>3, <1>4, <2>1, StateFields
  <2>2. CASE tstate.textId # 0
    BY <1>2, <1>3, <1>4, <2>2, StateFields DEF TranslateInv
  <2> QED BY <2>1, <2>2
<1>7. /\ shown \in [Ids -> ShownType] /\ \A i \in Ids : Shows(i)
      /\ NoneLost
  BY DEF TranslateInv
<1>8. shown[id].streamed = tstate.text /\ ~ shown[id].closed /\ shown[id].plans = {}
  <2>1. CASE tstate.textId = 0
    <3>1. id > tstate.seq /\ tstate.text = 0
      BY <1>3, <2>1, StateFields DEF TranslateInv
    <3> QED BY <1>2, <1>7, <3>1 DEF Shows
  <2>2. CASE tstate.textId # 0
    BY <1>2, <1>3, <1>7, <2>2 DEF Shows
  <2> QED BY <2>1, <2>2
<1>9. /\ shown' \in [Ids -> ShownType] /\ shown'[id].streamed = tstate.text + 1
      /\ ~ shown'[id].closed /\ shown'[id].plans = {}
      /\ \A i \in Ids : i # id => shown'[i] = shown[i]
  <2> DEFINE new == [shown[id] EXCEPT !.streamed = shown[id].streamed + 1]
  <2>1. new \in ShownType /\ new.streamed = shown[id].streamed + 1
        /\ new.closed = shown[id].closed /\ new.plans = shown[id].plans
    BY <1>2, <1>7 DEF ShownType
  <2>2. shown' = [shown EXCEPT ![id] = new]
    BY <1>1
  <2> HIDE DEF new
  <2>3. shown' \in [Ids -> ShownType] /\ shown'[id] = new /\ \A i \in Ids : i # id => shown'[i] = shown[i]
    BY <1>2, <1>7, <2>1, <2>2
  <2> QED BY <1>8, <2>1, <2>3
<1>10. ASSUME NEW i \in Ids PROVE Shows(i)'
  <2>1. i \in Nat /\ tstate'.seq \in Nat /\ tstate.seq \in Nat
    BY <1>5, StateFields DEF Ids, StateType
  <2>2. CASE i = id
    <3>1. ~ (id > tstate'.seq)
      BY <1>6, <2>1, <2>2
    <3> QED BY <1>4, <1>6, <1>9, <2>2, <3>1 DEF Shows
  <2>3. CASE i # id
    <3>1. i > tstate'.seq => i > tstate.seq
      BY <1>6, <2>1
    <3> QED BY <1>1, <1>4, <1>7, <1>9, <2>3, <3>1 DEF Shows
  <2> QED BY <2>2, <2>3
<1>11. dropped' \in BOOLEAN /\ (~ dropped' => ~ dropped /\ running # 0)
  BY DEF Chunk, TranslateInv, TranslateTypeOK
<1>12. NoneLost'
  <2> SUFFICES ASSUME ~ dropped'
               PROVE  /\ \A i \in Ids : shown'[i].streamed > 0 /\ ~ shown'[i].closed => i = id
                      /\ running' # 0
    BY <1>4 DEF NoneLost
  <2>1. running' # 0
    BY <1>1, <1>11
  <2>2. ASSUME NEW i \in Ids, i # id, shown'[i].streamed > 0, ~ shown'[i].closed PROVE FALSE
    <3>1. i = tstate.textId
      BY <1>7, <1>9, <1>11, <2>2 DEF NoneLost
    <3>2. i # 0
      BY DEF Ids
    <3> QED BY <1>3, <2>2, <3>1, <3>2
  <2> QED BY <2>1, <2>2
<1>13. cards' = tstate'.tools /\ results' \subseteq cards' /\ \A p \in earlier' : PartHolds(p)
  BY <1>1, <1>4 DEF TranslateInv
<1>14. /\ running' \in 0..MaxSends /\ sends' \in 0..MaxSends /\ anews' \in 0..MaxAnews
       /\ running' <= sends'
  BY <1>1, <1>7, StateFields DEF TranslateInv, TranslateTypeOK
<1>16. tstate'.textId <= tstate'.seq /\ tstate'.textId # tstate'.planMsgId /\ tstate'.textId # 0
  BY <1>2, <1>4, <1>6
<1> QED BY <1>5, <1>6, <1>9, <1>10, <1>11, <1>12, <1>13, <1>14, <1>16, TranslateKept

\* A call's card or result, and the end of a turn: the open text is closed.
LEMMA ClosesKeep ==
  ASSUME TranslateInv, shown' = Consolidated(shown), UNCHANGED <<earlier, sends, anews, dropped>>,
         running' \in 0..MaxSends, running' <= running, tstate' \in StateType,
         tstate'.textId = 0, tstate'.text = 0, tstate'.planMsgId = tstate.planMsgId,
         tstate'.seq \in {tstate.seq, tstate.seq + 1},
         cards' = tstate'.tools, results' \subseteq cards'
  PROVE  TranslateInv'
<1>1. shown' \in [Ids -> ShownType]
  BY TextClosed
<1>2. (\A i \in Ids : Shows(i)') /\ NoneLost'
  BY ClosedShows DEF NoneLost
<1>3. tstate'.textId <= tstate'.seq /\ tstate'.planMsgId <= tstate'.seq /\ running' <= sends'
  BY StateFields DEF TranslateInv
<1>4. sends' \in 0..MaxSends /\ anews' \in 0..MaxAnews /\ dropped' \in BOOLEAN
  BY DEF TranslateInv, TranslateTypeOK
<1>5. \A p \in earlier' : PartHolds(p)
  BY DEF TranslateInv
<1> QED BY <1>1, <1>2, <1>3, <1>4, <1>5, TranslateKept

LEMMA EndKeeps == ASSUME TranslateInv, End PROVE TranslateInv'
<1>1. /\ running > 0 /\ running' = running - 1 /\ tstate' = Closed(tstate) /\ shown' = Consolidated(shown)
      /\ UNCHANGED <<cards, results, earlier, sends, anews, dropped>>
  BY DEF End
<1>2. /\ tstate' \in StateType /\ tstate'.textId = 0 /\ tstate'.text = 0 /\ tstate'.seq = tstate.seq
      /\ tstate'.planMsgId = tstate.planMsgId /\ tstate'.tools = tstate.tools
  <2>1. 0 \in 0..MaxIds /\ 0 \in 0..MaxText
    BY StateFields
  <2> QED BY <1>1, <2>1, StateFields DEF Closed, StateType
<1>3. running' \in 0..MaxSends /\ running' <= running
  BY <1>1, StateFields
<1>4. cards' = tstate'.tools /\ results' \subseteq cards'
  BY <1>1, <1>2 DEF TranslateInv
<1> QED BY <1>1, <1>2, <1>3, <1>4, ClosesKeep

\* A call gets a card, perhaps with its result.
LEMMA CallSeen ==
  ASSUME TranslateInv, NEW c \in Calls, Carded(c), results' \subseteq results \cup {c},
         UNCHANGED <<earlier, running, sends, anews, dropped>>
  PROVE  TranslateInv'
<1>1. /\ tstate.seq + 1 \in 0..MaxIds /\ 0 \in 0..MaxIds /\ 0 \in 0..MaxText
      /\ tstate' = NextId([Closed(tstate) EXCEPT !.tools = tstate.tools \cup {c}])
      /\ shown' = Consolidated(shown) /\ cards' = cards \cup {c}
  BY StateFields DEF Carded, Room, Closed
<1>2. /\ tstate' \in StateType /\ tstate'.textId = 0 /\ tstate'.text = 0 /\ tstate'.seq = tstate.seq + 1
      /\ tstate'.planMsgId = tstate.planMsgId /\ tstate'.tools = tstate.tools \cup {c}
  BY <1>1, StateFields DEF NextId, Closed, StateType
<1>3. cards' = tstate'.tools /\ results' \subseteq cards'
  BY <1>1, <1>2 DEF TranslateInv
<1>4. running' \in 0..MaxSends /\ running' <= running
  BY StateFields
<1> QED BY <1>1, <1>2, <1>3, <1>4, ClosesKeep

LEMMA ToolCallKeeps == ASSUME TranslateInv, NEW c \in Calls, ToolCall(c) PROVE TranslateInv'
BY CallSeen DEF ToolCall

LEMMA ToolResultKeeps == ASSUME TranslateInv, NEW c \in Calls, ToolResult(c) PROVE TranslateInv'
<1>1. CASE c \in tstate.tools
  <2>1. /\ UNCHANGED <<tstate, shown, cards, earlier, running, sends, anews, dropped>>
        /\ results' = results \cup {c}
    BY <1>1 DEF ToolResult
  <2>2. NoneLost' /\ (\A i \in Ids : Shows(i)') /\ \A p \in earlier' : PartHolds(p)'
    BY <2>1 DEF TranslateInv, NoneLost, Shows, PartHolds
  <2>3. cards' = tstate'.tools /\ results' \subseteq cards'
    BY <1>1, <2>1 DEF TranslateInv
  <2>4. TranslateTypeOK'
    BY <2>1 DEF TranslateInv, TranslateTypeOK
  <2> QED BY <2>1, <2>2, <2>3, <2>4 DEF TranslateInv
<1>2. CASE c \notin tstate.tools
  BY <1>2, CallSeen DEF ToolResult
<1> QED BY <1>1, <1>2

LEMMA PlanKeeps == ASSUME TranslateInv, Plan PROVE TranslateInv'
<1> DEFINE card == IF tstate.planMsgId = 0 THEN tstate.seq + 1 ELSE tstate.planMsgId
<1>1. /\ tstate.planMsgId # 0 \/ tstate.seq + 2 <= MaxIds
      /\ tstate' = [tstate EXCEPT !.seq = IF tstate.planMsgId = 0 THEN tstate.seq + 2 ELSE tstate.seq,
                                  !.planMsgId = card]
      /\ shown' = [shown EXCEPT ![card].plans = shown[card].plans \cup {sends}]
      /\ UNCHANGED <<cards, results, earlier, running, sends, anews, dropped>>
  BY DEF Plan, Room
<1>2. card \in Ids /\ card \in 1..MaxIds /\ card # 0
  BY <1>1, StateFields DEF Ids
<1>3. (tstate.planMsgId = 0 => card = tstate.seq + 1) /\ (tstate.planMsgId # 0 => card = tstate.planMsgId)
  OBVIOUS
<1> HIDE DEF card
<1>4. /\ tstate'.textId = tstate.textId /\ tstate'.text = tstate.text /\ tstate'.planMsgId = card
      /\ tstate'.seq = (IF tstate.planMsgId = 0 THEN tstate.seq + 2 ELSE tstate.seq)
      /\ tstate'.tools = tstate.tools
  BY <1>1, StateFields DEF StateType
<1>5. tstate' \in StateType
  <2>1. (IF tstate.planMsgId = 0 THEN tstate.seq + 2 ELSE tstate.seq) \in 0..MaxIds /\ card \in 0..MaxIds
    BY <1>1, <1>2, StateFields
  <2> QED BY <1>1, <2>1, StateFields DEF StateType
<1>6. /\ card <= tstate'.seq /\ tstate.seq <= tstate'.seq /\ tstate.textId <= tstate'.seq
      /\ card # tstate.textId
  <2>1. CASE tstate.planMsgId = 0
    BY <1>2, <1>3, <1>4, <2>1, StateFields
  <2>2. CASE tstate.planMsgId # 0
    BY <1>2, <1>3, <1>4, <2>2, StateFields DEF TranslateInv
  <2> QED BY <2>1, <2>2
<1>7. /\ shown \in [Ids -> ShownType] /\ \A i \in Ids : Shows(i)
      /\ NoneLost /\ sends \in 0..MaxSends
  BY StateFields DEF TranslateInv
<1>8. shown[card].streamed = 0 /\ ~ shown[card].closed /\ shown[card].plans \subseteq {sends}
  <2>1. CASE tstate.planMsgId = 0
    <3>1. card > tstate.seq
      BY <1>3, <2>1, StateFields
    <3> QED BY <1>2, <1>7, <3>1 DEF Shows
  <2>2. CASE tstate.planMsgId # 0
    BY <1>2, <1>3, <1>7, <2>2 DEF Shows
  <2> QED BY <2>1, <2>2
<1>9. /\ shown' \in [Ids -> ShownType] /\ shown'[card].streamed = 0
      /\ ~ shown'[card].closed /\ shown'[card].plans = {sends}
      /\ \A i \in Ids : i # card => shown'[i] = shown[i]
  <2> DEFINE new == [shown[card] EXCEPT !.plans = shown[card].plans \cup {sends}]
  <2>1. new \in ShownType /\ new.streamed = shown[card].streamed
        /\ new.closed = shown[card].closed /\ new.plans = shown[card].plans \cup {sends}
    BY <1>2, <1>7 DEF ShownType
  <2>2. shown' = [shown EXCEPT ![card] = new]
    BY <1>1
  <2> HIDE DEF new
  <2>3. shown' \in [Ids -> ShownType] /\ shown'[card] = new /\ \A i \in Ids : i # card => shown'[i] = shown[i]
    BY <1>2, <1>7, <2>1, <2>2
  <2>4. shown[card].plans \cup {sends} = {sends}
    BY <1>8
  <2> QED BY <1>8, <2>1, <2>3, <2>4
<1>10. ASSUME NEW i \in Ids PROVE Shows(i)'
  <2>1. i \in Nat /\ tstate'.seq \in Nat /\ tstate.seq \in Nat
    BY <1>5, StateFields DEF Ids, StateType
  <2>2. CASE i = card
    <3>1. ~ (card > tstate'.seq)
      BY <1>6, <2>1, <2>2
    <3> QED BY <1>1, <1>4, <1>6, <1>9, <2>2, <3>1 DEF Shows
  <2>3. CASE i # card
    <3>1. i > tstate'.seq => i > tstate.seq
      BY <1>6, <2>1
    <3> QED BY <1>1, <1>4, <1>7, <1>9, <2>3, <3>1 DEF Shows
  <2> QED BY <2>2, <2>3
<1>11. NoneLost'
  <2> SUFFICES ASSUME ~ dropped'
               PROVE  /\ \A i \in Ids : shown'[i].streamed > 0 /\ ~ shown'[i].closed => i = tstate.textId
                      /\ running' = 0 => tstate.textId = 0
    BY <1>4 DEF NoneLost
  <2>1. ASSUME NEW i \in Ids, shown'[i].streamed > 0, ~ shown'[i].closed PROVE i = tstate.textId
    <3>1. i # card
      BY <1>9, <2>1
    <3> QED BY <1>1, <1>7, <1>9, <2>1, <3>1 DEF NoneLost
  <2>2. running' = 0 => tstate.textId = 0
    BY <1>1, <1>7 DEF NoneLost
  <2> QED BY <2>1, <2>2
<1>12. cards' = tstate'.tools /\ results' \subseteq cards' /\ \A p \in earlier' : PartHolds(p)
  BY <1>1, <1>4 DEF TranslateInv
<1>13. /\ running' \in 0..MaxSends /\ sends' \in 0..MaxSends /\ anews' \in 0..MaxAnews
       /\ dropped' \in BOOLEAN /\ running' <= sends'
  BY <1>1, <1>7, StateFields DEF TranslateInv, TranslateTypeOK
<1>14. tstate'.textId = 0 => tstate'.text = 0
  BY <1>1, <1>4 DEF TranslateInv
<1>15. tstate'.textId <= tstate'.seq /\ tstate'.textId # tstate'.planMsgId /\ tstate'.planMsgId <= tstate'.seq
  BY <1>2, <1>4, <1>6
<1> QED BY <1>5, <1>9, <1>10, <1>11, <1>12, <1>13, <1>14, <1>15, TranslateKept

\* A part ends: a text that is open in it counts as dropped.
LEMMA PartEnds == ASSUME TranslateInv PROVE PartHolds(ThisPart)
<1>1. /\ ThisPart.shown = shown /\ ThisPart.cards = cards /\ ThisPart.results = results
      /\ ~ ThisPart.dropped => ~ dropped /\ tstate.textId = 0
  BY DEF ThisPart
<1>2. \A i \in Ids : Shows(i) /\ i # 0
  BY DEF TranslateInv, Ids
<1>3. NoneLost /\ results \subseteq cards
  BY DEF TranslateInv
<1> HIDE DEF ThisPart
<1> QED BY <1>1, <1>2, <1>3 DEF PartHolds, Shows, NoneLost

\* A new part.
FreshStart ==
  /\ tstate = FreshState /\ shown = [i \in Ids |-> Blank] /\ dropped = FALSE
  /\ cards = {} /\ results = {} /\ \A p \in earlier : PartHolds(p)
  /\ running = 0 /\ sends \in 0..MaxSends /\ anews \in 0..MaxAnews

LEMMA FreshKept == FreshStart => TranslateInv
<1> SUFFICES ASSUME FreshStart PROVE TranslateInv
  OBVIOUS
<1> USE DEF FreshStart
<1>1. MaxIds \in Nat /\ MaxText \in Nat /\ MaxSends \in Nat /\ MaxAnews \in Nat
  BY TranslateAssumption
<1>2. tstate.seq = 0 /\ tstate.textId = 0 /\ tstate.text = 0 /\ tstate.tools = {} /\ tstate.planMsgId = 0
  BY DEF FreshState
<1>3. 0 \in 0..MaxIds /\ 0 \in 0..MaxText /\ 0 \in 0..MaxSends
  BY <1>1
<1>4. tstate \in [seq : 0..MaxIds, textId : 0..MaxIds, text : 0..MaxText,
                 tools : SUBSET Calls, planMsgId : 0..MaxIds]
  BY <1>3 DEF FreshState
<1>5. \A i \in Ids : shown[i] = Blank /\ i # 0
  BY DEF Ids
<1>6. Blank.streamed = 0 /\ ~ Blank.closed /\ Blank.plans = {} /\ Blank \in ShownType
  BY DEF Blank, ShownType
<1>7. shown \in [Ids -> ShownType] /\ (\A i \in Ids : Shows(i)) /\ NoneLost
  BY <1>2, <1>5, <1>6 DEF Shows, NoneLost
<1>8. \A i \in Ids : shown[i].plans \subseteq 0..MaxSends
  BY <1>5, <1>6
<1>9. TranslateTypeOK
  BY <1>3, <1>4, <1>8 DEF TranslateTypeOK
<1>10. cards = tstate.tools /\ results \subseteq cards
  BY <1>2
<1> QED BY <1>2, <1>7, <1>9, <1>10 DEF TranslateInv

LEMMA FreshKeptNext == FreshStart' => TranslateInv'
BY FreshKept, PTL

LEMMA AnewKeeps == ASSUME TranslateInv, Anew PROVE TranslateInv'
<1>1. /\ tstate' = FreshState /\ shown' = [i \in Ids |-> Blank] /\ dropped' = FALSE
      /\ cards' = {} /\ results' = {} /\ earlier' = earlier \cup {ThisPart}
      /\ running' = 0 /\ sends' \in 0..MaxSends
  BY StateFields DEF Anew
<1>2. anews' \in 0..MaxAnews
  BY StateFields, TranslateAssumption DEF Anew
<1>3. \A p \in earlier' : PartHolds(p)
  <2> HIDE DEF ThisPart, PartHolds
  <2> QED BY <1>1, PartEnds DEF TranslateInv
<1>4. \A p \in earlier' : PartHolds(p)'
  BY <1>3 DEF PartHolds
<1> QED BY <1>1, <1>2, <1>4, FreshKeptNext DEF FreshStart

LEMMA TranslateStep == ASSUME TranslateInv, [TranslateNext]_translateVars PROVE TranslateInv'
<1>1. CASE UNCHANGED translateVars
  BY <1>1 DEF translateVars, TranslateInv, TranslateTypeOK, Shows, NoneLost, PartHolds
<1>2. CASE TranslateNext
  BY <1>2, TurnSentKeeps, ChunkKeeps, PlanKeeps, EndKeeps, AnewKeeps, ToolCallKeeps, ToolResultKeeps
     DEF TranslateNext
<1> QED BY <1>1, <1>2

LEMMA TranslateHolds == ASSUME TranslateInv PROVE ChatWhole
<1>1. (\A i \in Ids : Shows(i)) /\ NoneLost /\ TranslateTypeOK
  BY DEF TranslateInv
<1>2. \A p \in Parts : PartHolds(p)
  <2> HIDE DEF ThisPart, PartHolds
  <2> QED BY PartEnds DEF TranslateInv, Parts
<1>3. NoneLeftOpen
  <2>1. ASSUME running = 0, ~ dropped, NEW i \in Ids, shown[i].streamed > 0 PROVE shown[i].closed
    <3>1. tstate.textId = 0 /\ (~ shown[i].closed => i = tstate.textId)
      BY <1>1, <2>1 DEF NoneLost
    <3> QED BY <3>1 DEF Ids
  <2>2. \A p \in earlier : PartHolds(p)
    BY DEF TranslateInv
  <2> QED BY <2>1, <2>2 DEF NoneLeftOpen, PartHolds
<1>4. TextsWhole /\ CardFirst /\ PlanOfItsTurn
  BY <1>2 DEF PartHolds, TextsWhole, CardFirst, PlanOfItsTurn
<1> QED BY <1>1, <1>3, <1>4 DEF ChatWhole

LEMMA TranslateAlone == [Next]_agentServicesVars => [TranslateNext]_translateVars
<1>1. UNCHANGED agentServicesVars => UNCHANGED translateVars
  BY DEF agentServicesVars
<1>2. Next => TranslateNext \/ UNCHANGED translateVars
  BY Zenon DEF Next
<1> QED BY <1>1, <1>2

(* The chat shows what an ACP agent said (acp/translate.js), whenever it speaks: every
   text whole and, once the turns are over, closed, unless a turn was sent into it, it
   was said outside a turn, or its part of the chat ended; no result before a card of
   its call; and each turn its own plan: for any number of turns, ids, chunks, calls,
   resets and boots. *)
THEOREM ChatIsWhole == Spec => []ChatWhole
<1>1. Init => TranslateInv
  <2>1. TranslateInit => FreshStart
    <3>1. 0 \in 0..MaxSends /\ 0 \in 0..MaxAnews
      BY TranslateAssumption
    <3> QED BY <3>1, Zenon DEF TranslateInit, FreshStart
  <2> QED BY <2>1, FreshKept DEF Init
<1>2. TranslateInv /\ [Next]_agentServicesVars => TranslateInv'
  BY TranslateAlone, TranslateStep
<1>3. TranslateInv => ChatWhole
  BY TranslateHolds
<1> QED BY <1>1, <1>2, <1>3, PTL DEF Spec

-----------------------------------------------------------------------------
(* The seeds: what they are, and what they make of a content.              *)

LEMMA FilesSeeded ==
  /\ DOMAIN FileOf = {"auth", "servers", "playwright", "settings", "providers", "context", "guidance"}
  /\ FileOf["auth"] = "claude" /\ FileOf["servers"] = "claude" /\ FileOf["playwright"] = "claude"
  /\ FileOf["settings"] = "settings" /\ FileOf["providers"] = "opencode"
  /\ FileOf["context"] = "context" /\ FileOf["guidance"] = "context"
  /\ SeedFiles = {"claude", "settings", "opencode", "context"}
  /\ JsonFiles = {"claude", "settings", "opencode"}
<1>1. DOMAIN FileOf = {"auth", "servers", "playwright", "settings", "providers", "context", "guidance"}
  BY DEF FileOf
<1>2. /\ FileOf["auth"] = "claude" /\ FileOf["servers"] = "claude" /\ FileOf["playwright"] = "claude"
      /\ FileOf["settings"] = "settings" /\ FileOf["providers"] = "opencode"
      /\ FileOf["context"] = "context" /\ FileOf["guidance"] = "context"
  BY DEF FileOf
<1>3. SeedFiles = {"claude", "settings", "opencode", "context"}
  BY <1>1, <1>2 DEF SeedFiles
<1> QED BY <1>1, <1>2, <1>3 DEF JsonFiles

LEMMA ProgramsOf ==
  /\ Len(Program["boot"]) = 2 /\ Len(Program["launch"]) = 10 /\ Len(Program["side"]) = 1
  /\ Program["boot"][1] = "auth" /\ Program["boot"][2] = "settings"
  /\ Program["launch"][1] = "home" /\ Program["launch"][2] = "auth"
  /\ Program["launch"][3] = "servers" /\ Program["launch"][4] = "playwright"
  /\ Program["launch"][5] = "settings" /\ Program["launch"][6] = "skills"
  /\ Program["launch"][7] = "user skills" /\ Program["launch"][8] = "providers"
  /\ Program["launch"][9] = "context" /\ Program["launch"][10] = "guidance"
<1>1. Program["boot"] = BootSeeds /\ Program["launch"] = LaunchSeeds /\ Program["side"] = SideSeeds
  BY DEF Program
<1>6. Len(SideSeeds) = 1
  BY DEF SideSeeds
<1>2. Len(BootSeeds) = 2 /\ BootSeeds[1] = "auth" /\ BootSeeds[2] = "settings"
  BY DEF BootSeeds
<1>3. Len(LaunchSeeds) = 10
  BY DEF LaunchSeeds
<1>4. /\ LaunchSeeds[1] = "home" /\ LaunchSeeds[2] = "auth" /\ LaunchSeeds[3] = "servers"
      /\ LaunchSeeds[4] = "playwright" /\ LaunchSeeds[5] = "settings"
  BY DEF LaunchSeeds
<1>5. /\ LaunchSeeds[6] = "skills" /\ LaunchSeeds[7] = "user skills" /\ LaunchSeeds[8] = "providers"
      /\ LaunchSeeds[9] = "context" /\ LaunchSeeds[10] = "guidance"
  BY DEF LaunchSeeds
<1> QED BY <1>1, <1>2, <1>3, <1>4, <1>5, <1>6

\* A set of numbers has a smallest one.
LEMMA Smallest ==
  ASSUME NEW T \in SUBSET Nat, T # {}
  PROVE  Least(T) \in T /\ \A k \in T : Least(T) <= k
<1> DEFINE R == OpToRel(<, Nat)
<1>1. \E x \in T : \A y \in T : ~ (<<y, x>> \in R)
  BY NatLessThanWellFounded, WFMin
<1>2. \A x, y \in Nat : ~ (<<y, x>> \in R) => x <= y
  BY DEF OpToRel
<1> HIDE DEF R
<1>3. PICK x \in T : \A y \in T : ~ (<<y, x>> \in R)
  BY <1>1, Zenon
<1>4. \A y \in T : x <= y
  <2> TAKE y \in T
  <2>1. ~ (<<y, x>> \in R)
    BY <1>3, Zenon
  <2> QED BY <1>2, <2>1
<1>5. \E m \in T : \A k \in T : m <= k
  BY <1>4
<1> QED BY <1>5 DEF Least

KeyNames == {"onboarded", "bypass", "unrestricted", "provider", "legacy", "own"}

LEMMA KeyAdded ==
  ASSUME NEW c \in JsonContent, NEW key \in KeyNames, NEW drop
  PROVE  /\ WithKey(c, key, drop) \in JsonContent
         /\ WithKey(c, key, drop).keys = (c.keys \ drop) \cup {key}
         /\ WithKey(c, key, drop).mcp = c.mcp
BY DEF WithKey, JsonContent, KeyNames

\* The servers of a name take its suffixes in order, and one of them at most is ours.
Compact(mcp) == \A i, j \in Slots : i < j /\ mcp[i] = "free" => mcp[j] = "free"
Once(mcp) == \A i, j \in Slots : mcp[i] = "stdio" /\ mcp[j] = "stdio" => i = j

LEMMA FirstIsUnused ==
  ASSUME NEW mcp \in [Slots -> {"free", "http", "stdio"}], Unused(mcp) # {}
  PROVE  /\ FirstUnused(mcp) \in Slots /\ mcp[FirstUnused(mcp)] = "free"
         /\ \A j \in Slots : j < FirstUnused(mcp) => mcp[j] # "free"
<1>1. MaxSlots \in Nat
  BY SeedAssumption
<1>2. Unused(mcp) \in SUBSET Nat
  BY <1>1 DEF Unused, Slots
<1>3. FirstUnused(mcp) = Least(Unused(mcp))
  BY DEF FirstUnused, Least
<1>4. FirstUnused(mcp) \in Unused(mcp) /\ \A k \in Unused(mcp) : FirstUnused(mcp) <= k
  BY <1>2, <1>3, Smallest
<1> QED BY <1>1, <1>4 DEF Unused, Slots

Joins(c, d, kind) ==
  /\ d \in JsonContent /\ d.keys = c.keys
  /\ \E i \in Slots : d.mcp[i] = kind
  /\ \A j \in Slots : c.mcp[j] # "free" => d.mcp[j] = c.mcp[j]
  /\ Compact(c.mcp) => Compact(d.mcp)
  /\ kind = "http" \/ (\A j \in Slots : c.mcp[j] # "stdio") => (Once(c.mcp) => Once(d.mcp))

LEMMA ServerAdded ==
  ASSUME NEW c \in JsonContent, Unused(c.mcp) # {}, NEW kind \in {"http", "stdio"}
  PROVE  Joins(c, [c EXCEPT !.mcp[FirstUnused(c.mcp)] = kind], kind)
<1> DEFINE i == FirstUnused(c.mcp)
           d == [c EXCEPT !.mcp[i] = kind]
<1>1. c.mcp \in [Slots -> {"free", "http", "stdio"}]
  BY DEF JsonContent
<1>2. i \in Slots /\ c.mcp[i] = "free" /\ \A j \in Slots : j < i => c.mcp[j] # "free"
  BY <1>1, FirstIsUnused
<1> HIDE DEF i
<1>4. d \in JsonContent /\ d.keys = c.keys /\ d.mcp = [c.mcp EXCEPT ![i] = kind]
  BY <1>1, <1>2 DEF JsonContent
<1> HIDE DEF d
<1>5. \A j \in Slots : d.mcp[j] = IF j = i THEN kind ELSE c.mcp[j]
  BY <1>1, <1>2, <1>4
<1>6. Slots \subseteq Nat
  BY SeedAssumption DEF Slots
<1>7. ASSUME Compact(c.mcp) PROVE Compact(d.mcp)
  BY <1>2, <1>5, <1>6, <1>7 DEF Compact
<1>8. ASSUME kind = "http" \/ (\A j \in Slots : c.mcp[j] # "stdio"), Once(c.mcp) PROVE Once(d.mcp)
  BY <1>2, <1>5, <1>8 DEF Once
<1>9. Joins(c, d, kind)
  BY <1>2, <1>4, <1>5, <1>7, <1>8 DEF Joins
<1> QED BY <1>9 DEF d, i

-----------------------------------------------------------------------------
(* Texts.                                                                  *)

\* A block of a text is whole, and there is one of its kind at most.
WholeOnce(t, a, b) ==
  \A i \in 1..Len(t) :
    /\ t[i] = a => i + 1 \in 1..Len(t) /\ t[i + 1] = b
    /\ t[i] = b => i - 1 \in 1..Len(t) /\ t[i - 1] = a
    /\ \A j \in 1..Len(t) : t[i] = a /\ t[j] = a => i = j

LEMMA StrippedType ==
  ASSUME NEW P, NEW t \in Seq(P), NEW marks
  PROVE  Stripped(t, marks) \in Seq(P)
<1> DEFINE froms == Places(t, marks[1])
           from == Least(froms)
           ends == {i \in Places(t, marks[2]) : i >= from}
<1>1. Len(t) \in Nat /\ DOMAIN t = 1..Len(t)
  OBVIOUS
<1>2. CASE froms = {}
  BY <1>2 DEF Stripped
<1>3. CASE froms # {}
  <2>1. froms \in SUBSET Nat
    BY <1>1 DEF Places
  <2>2. from \in froms
    <3> HIDE DEF froms
    <3> QED BY <1>3, <2>1, Smallest
  <2>3. from \in 1..Len(t)
    BY <1>1, <2>2 DEF Places
  <2> HIDE DEF from
  <2>4. SubSeq(t, 1, from - 1) \in Seq(P)
    BY <1>1, <2>3
  <2>5. ends # {} => SubSeq(t, Least(ends) + 1, Len(t)) \in Seq(P)
    <3>1. SUFFICES ASSUME ends # {} PROVE SubSeq(t, Least(ends) + 1, Len(t)) \in Seq(P)
      OBVIOUS
    <3>2. ends \in SUBSET Nat
      BY <1>1 DEF Places
    <3>3. Least(ends) \in ends
      <4> HIDE DEF ends
      <4> QED BY <3>1, <3>2, Smallest
    <3>4. Least(ends) \in 1..Len(t)
      BY <1>1, <3>3 DEF Places
    <3> HIDE DEF ends
    <3> QED BY <1>1, <3>4
  <2>6. Stripped(t, marks)
          = SubSeq(t, 1, from - 1)
              \o IF ends = {} THEN <<>> ELSE SubSeq(t, Least(ends) + 1, Len(t))
    BY <1>3 DEF Stripped, from
  <2>7. (IF ends = {} THEN <<>> ELSE SubSeq(t, Least(ends) + 1, Len(t))) \in Seq(P)
    <3> HIDE DEF ends
    <3> QED BY <2>5
  <2> HIDE DEF ends
  <2> QED BY <2>4, <2>6, <2>7
<1> QED BY <1>2, <1>3

\* u is t without its block, if it has one, which begins at i.
CutAt(t, u, a, b, i) ==
  /\ t[i] = a /\ i + 1 <= Len(t) /\ t[i + 1] = b /\ Len(u) = Len(t) - 2
  /\ \A k \in 1..Len(u) : u[k] = IF k < i THEN t[k] ELSE t[k + 2]
TakenOut(t, u, a, b) ==
  /\ \A k \in 1..Len(u) : u[k] # a /\ u[k] # b
  /\ u = t \/ \E i \in 1..Len(t) : CutAt(t, u, a, b, i)

\* Taking a whole block out leaves what is outside it, in its order.
LEMMA StrippedWhole ==
  ASSUME NEW P, NEW t \in Seq(P), NEW a \in P, NEW b \in P, a # b, WholeOnce(t, a, b)
  PROVE  TakenOut(t, Stripped(t, <<a, b>>), a, b)
<1> DEFINE u == Stripped(t, <<a, b>>)
<1>1. Len(t) \in Nat /\ DOMAIN t = 1..Len(t)
  OBVIOUS
<1>2. u \in Seq(P)
  BY StrippedType
<1>3. CASE Places(t, a) = {}
  <2>1. u = t
    BY <1>3 DEF Stripped
  <2>2. \A k \in 1..Len(t) : t[k] # a
    BY <1>1, <1>3 DEF Places
  <2>3. \A k \in 1..Len(t) : t[k] # b
    BY <2>2 DEF WholeOnce
  <2> QED BY <2>1, <2>2, <2>3 DEF TakenOut
<1>4. CASE Places(t, a) # {}
  <2>1. PICK i \in 1..Len(t) : t[i] = a
    BY <1>1, <1>4 DEF Places
  <2>2. i + 1 \in 1..Len(t) /\ t[i + 1] = b /\ i \in Nat
    BY <1>1, <2>1 DEF WholeOnce
  <2>3. \A k \in 1..Len(t) : /\ t[k] = a => k = i
                             /\ t[k] = b => k = i + 1
    <3> TAKE k \in 1..Len(t)
    <3>1. t[k] = a => k = i
      BY <2>1 DEF WholeOnce
    <3>2. ASSUME t[k] = b PROVE k = i + 1
      <4>1. k - 1 \in 1..Len(t) /\ t[k - 1] = a
        BY <3>2 DEF WholeOnce
      <4>2. k - 1 = i
        BY <2>1, <4>1 DEF WholeOnce
      <4> QED BY <1>1, <4>1, <4>2
    <3> QED BY <3>1, <3>2
  <2>4. Places(t, a) = {i} /\ Least({i}) = i
    <3>1. Places(t, a) = {i}
      BY <1>1, <2>1, <2>3 DEF Places
    <3>2. {i} \in SUBSET Nat /\ {i} # {}
      BY <1>1
    <3>3. Least({i}) \in {i}
      BY <3>2, Smallest
    <3> QED BY <3>1, <3>3
  <2>5. {k \in Places(t, b) : k >= i} = {i + 1} /\ Least({i + 1}) = i + 1
    <3>1. {k \in Places(t, b) : k >= i} = {i + 1}
      BY <1>1, <2>2, <2>3 DEF Places
    <3>2. {i + 1} \in SUBSET Nat /\ {i + 1} # {}
      BY <1>1
    <3>3. Least({i + 1}) \in {i + 1}
      BY <3>2, Smallest
    <3> QED BY <3>1, <3>3
  <2> DEFINE x == SubSeq(t, 1, i - 1)
             y == SubSeq(t, i + 2, Len(t))
  <2>6. u = x \o y
    <3>1. (i + 1) + 1 = i + 2
      BY <2>2
    <3> QED BY <2>4, <2>5, <3>1 DEF Stripped
  <2>7. /\ x \in Seq(P) /\ Len(x) = i - 1 /\ \A k \in 1..(i - 1) : x[k] = t[k]
    BY <1>1, <2>2
  <2>8. /\ y \in Seq(P) /\ Len(y) = Len(t) - (i + 1)
        /\ \A k \in 1..(Len(t) - (i + 1)) : y[k] = t[k + i + 1]
    <3>1. y \in Seq(P)
      BY <1>1, <2>2
    <3>2. Len(y) = Len(t) - (i + 1)
      <4>3. i \in Nat /\ Len(t) \in Nat /\ i + 1 <= Len(t)
        BY <1>1, <2>2
      <4>1. CASE i + 2 <= Len(t)
        <5>1. Len(y) = Len(t) - (i + 2) + 1
          BY <1>1, <2>2, <4>1
        <5> HIDE DEF y
        <5> QED BY <1>1, <2>2, <5>1
      <4>2. CASE ~ (i + 2 <= Len(t))
        <5>1. Len(y) = 0
          BY <1>1, <2>2, <4>2
        <5> HIDE DEF y
        <5>2. Len(t) - (i + 1) = 0
          BY <4>2, <4>3
        <5> QED BY <5>1, <5>2
      <4> QED BY <4>1, <4>2
    <3>3. \A k \in 1..(Len(t) - (i + 1)) : y[k] = t[k + i + 1]
      <4> TAKE k \in 1..(Len(t) - (i + 1))
      <4>1. y[k] = t[(i + 2) + k - 1]
        BY <1>1, <2>2
      <4>2. (i + 2) + k - 1 = k + i + 1
        BY <1>1, <2>2
      <4> QED BY <4>1, <4>2
    <3> QED BY <3>1, <3>2, <3>3
  <2> HIDE DEF x, y
  <2>9. /\ Len(u) = Len(x) + Len(y)
        /\ \A k \in 1..(Len(x) + Len(y)) : u[k] = IF k <= Len(x) THEN x[k] ELSE y[k - Len(x)]
    <3> HIDE DEF u
    <3> QED BY <2>6, <2>7, <2>8, ConcatProperties
  <2> HIDE DEF u
  <2>10. Len(u) = Len(t) - 2
    BY <1>1, <2>2, <2>7, <2>8, <2>9
  <2>11. \A k \in 1..Len(u) : u[k] = IF k < i THEN t[k] ELSE t[k + 2]
    <3> TAKE k \in 1..Len(u)
    <3>1. CASE k < i
      BY <1>1, <2>2, <2>7, <2>8, <2>9, <2>10, <3>1
    <3>2. CASE ~ (k < i)
      <4>1. k - (i - 1) \in 1..(Len(t) - (i + 1)) /\ (k - (i - 1)) + i + 1 = k + 2
        BY <1>1, <2>2, <2>10, <3>2
      <4>2. u[k] = y[k - (i - 1)]
        BY <1>1, <2>2, <2>7, <2>8, <2>9, <2>10, <3>2
      <4>3. y[k - (i - 1)] = t[(k - (i - 1)) + i + 1]
        BY <2>8, <4>1
      <4> QED BY <3>2, <4>1, <4>2, <4>3
    <3> QED BY <3>1, <3>2
  <2>12. \A k \in 1..Len(u) : u[k] # a /\ u[k] # b
    <3> TAKE k \in 1..Len(u)
    <3>1. CASE k < i
      <4>1. k \in 1..Len(t) /\ k # i /\ k # i + 1
        BY <1>1, <2>2, <2>10, <3>1
      <4> QED BY <2>3, <2>11, <3>1, <4>1
    <3>2. CASE ~ (k < i)
      <4>1. k + 2 \in 1..Len(t) /\ k + 2 # i /\ k + 2 # i + 1
        BY <1>1, <2>2, <2>10, <3>2
      <4> QED BY <2>3, <2>11, <3>2, <4>1
    <3> QED BY <3>1, <3>2
  <2>13. i + 1 <= Len(t)
    BY <1>1, <2>2
  <2>14. CutAt(t, u, a, b, i)
    BY <2>1, <2>2, <2>10, <2>11, <2>13 DEF CutAt
  <2>15. TakenOut(t, u, a, b)
    BY <2>12, <2>14 DEF TakenOut
  <2> QED BY <2>15 DEF u
<1> QED BY <1>3, <1>4

\* So does putting it at the end: the other blocks stay whole, each once.
LEMMA BlockAdded ==
  ASSUME NEW P, NEW t \in Seq(P), NEW a \in P, NEW b \in P, NEW c \in P, NEW d \in P,
         a # b, c # d, {a, b} \cap {c, d} = {},
         WholeOnce(t, a, b), WholeOnce(t, c, d), NEW s, s = WithBlock(t, <<a, b>>)
  PROVE  /\ s \in Seq(P) /\ WholeOnce(s, a, b) /\ WholeOnce(s, c, d)
         /\ \E k \in 1..Len(s) : s[k] = a
         /\ \A e \in P \ {a, b} :
              (\E k \in 1..Len(t) : t[k] = e) => (\E k \in 1..Len(s) : s[k] = e)
<1> DEFINE u == Stripped(t, <<a, b>>)
           n == Len(u)
<1>1. u \in Seq(P) /\ TakenOut(t, u, a, b)
  BY StrippedType, StrippedWhole
<1>2. Len(t) \in Nat /\ n \in Nat
  BY <1>1
<1>3. s = u \o <<a, b>>
  BY DEF WithBlock
<1> HIDE DEF u
<1>4. /\ s \in Seq(P) /\ Len(s) = n + 2
      /\ \A k \in 1..n : s[k] = u[k]
      /\ s[n + 1] = a /\ s[n + 2] = b
  <2> DEFINE m == <<a, b>>
  <2>1. m \in Seq(P) /\ Len(m) = 2 /\ m[1] = a /\ m[2] = b
    OBVIOUS
  <2> HIDE DEF m
  <2>2. s = u \o m
    BY <1>3 DEF m
  <2>3. /\ s \in Seq(P) /\ Len(s) = n + 2
        /\ \A k \in 1..(n + 2) : s[k] = IF k <= n THEN u[k] ELSE m[k - n]
    <3>1. /\ u \o m \in Seq(P) /\ Len(u \o m) = Len(u) + Len(m)
          /\ \A k \in 1..Len(u) + Len(m) : (u \o m)[k] = IF k <= Len(u) THEN u[k] ELSE m[k - Len(u)]
      <4> HIDE DEF n
      <4> QED BY <1>1, <2>1, ConcatProperties
    <3> QED BY <2>1, <2>2, <3>1
  <2>4. \A k \in 1..n : k \in 1..(n + 2) /\ k <= n
    BY <1>2
  <2>5. /\ n + 1 \in 1..(n + 2) /\ n + 2 \in 1..(n + 2) /\ ~ (n + 1 <= n) /\ ~ (n + 2 <= n)
        /\ (n + 1) - n = 1 /\ (n + 2) - n = 2
    BY <1>2
  <2> QED BY <2>1, <2>3, <2>4, <2>5
<1>5. WholeOnce(u, c, d)
  <2>1. CASE u = t
    BY <2>1
  <2>2. CASE \E i \in 1..Len(t) : CutAt(t, u, a, b, i)
    <3>1. PICK i \in 1..Len(t) :
              /\ t[i] = a /\ i + 1 <= Len(t) /\ t[i + 1] = b /\ Len(u) = Len(t) - 2
              /\ \A k \in 1..Len(u) : u[k] = IF k < i THEN t[k] ELSE t[k + 2]
      BY <2>2 DEF CutAt
    <3>2. ASSUME NEW k \in 1..n, u[k] = c PROVE k + 1 \in 1..n /\ u[k + 1] = d
      <4>1. CASE k < i
        <5>1. t[k] = c /\ k \in 1..Len(t)
          BY <1>2, <3>1, <3>2, <4>1
        <5>2. t[k + 1] = d /\ k + 1 # i
          BY <3>1, <5>1 DEF WholeOnce
        <5>3. k + 1 < i /\ k + 1 \in 1..n
          BY <1>2, <3>1, <4>1, <5>2
        <5> QED BY <3>1, <5>2, <5>3
      <4>2. CASE ~ (k < i)
        <5>1. t[k + 2] = c /\ k + 2 \in 1..Len(t)
          BY <1>2, <3>1, <3>2, <4>2
        <5>2. (k + 2) + 1 \in 1..Len(t) /\ t[(k + 2) + 1] = d
          BY <5>1 DEF WholeOnce
        <5>3. k + 1 \in 1..n /\ ~ (k + 1 < i) /\ (k + 1) + 2 = (k + 2) + 1
          BY <1>2, <3>1, <4>2, <5>2
        <5>4. u[k + 1] = t[(k + 1) + 2]
          BY <3>1, <5>3
        <5> QED BY <5>2, <5>3, <5>4
      <4> QED BY <4>1, <4>2
    <3>3. ASSUME NEW k \in 1..n, u[k] = d PROVE k - 1 \in 1..n /\ u[k - 1] = c
      <4>1. CASE k < i
        <5>1. t[k] = d /\ k \in 1..Len(t)
          BY <1>2, <3>1, <3>3, <4>1
        <5>2. k - 1 \in 1..Len(t) /\ t[k - 1] = c
          BY <5>1 DEF WholeOnce
        <5>3. k - 1 < i /\ k - 1 \in 1..n
          BY <1>2, <3>1, <4>1, <5>2
        <5> QED BY <3>1, <5>2, <5>3
      <4>2. CASE ~ (k < i)
        <5>1. t[k + 2] = d /\ k + 2 \in 1..Len(t)
          BY <1>2, <3>1, <3>3, <4>2
        <5>2. (k + 2) - 1 \in 1..Len(t) /\ t[(k + 2) - 1] = c
          BY <5>1 DEF WholeOnce
        <5>3. (k + 2) - 1 # i + 1
          BY <3>1, <5>2
        <5>4. k - 1 \in 1..n /\ ~ (k - 1 < i) /\ (k - 1) + 2 = (k + 2) - 1
          BY <1>2, <3>1, <4>2, <5>2, <5>3
        <5>5. u[k - 1] = t[(k - 1) + 2]
          BY <3>1, <5>4
        <5> QED BY <5>2, <5>4, <5>5
      <4> QED BY <4>1, <4>2
    <3>4. ASSUME NEW k \in 1..n, NEW j \in 1..n, u[k] = c, u[j] = c PROVE k = j
      <4> DEFINE Before(m) == IF m < i THEN m ELSE m + 2
      <4>1. Before(k) \in 1..Len(t) /\ Before(j) \in 1..Len(t)
        BY <1>2, <3>1
      <4>2. t[Before(k)] = c /\ t[Before(j)] = c
        BY <3>1, <3>4
      <4>3. Before(k) = Before(j)
        <5> HIDE DEF Before
        <5> QED BY <4>1, <4>2 DEF WholeOnce
      <4> QED BY <1>2, <4>3
    <3> QED BY <3>2, <3>3, <3>4 DEF WholeOnce
  <2> QED BY <1>1, <2>1, <2>2 DEF TakenOut
<1>6. \A e \in P \ {a, b} :
        (\E k \in 1..Len(t) : t[k] = e) => (\E k \in 1..n : u[k] = e)
  <2>1. CASE u = t
    BY <2>1
  <2>2. CASE \E i \in 1..Len(t) : CutAt(t, u, a, b, i)
    <3>1. PICK i \in 1..Len(t) :
              /\ t[i] = a /\ i + 1 <= Len(t) /\ t[i + 1] = b /\ Len(u) = Len(t) - 2
              /\ \A k \in 1..Len(u) : u[k] = IF k < i THEN t[k] ELSE t[k + 2]
      BY <2>2 DEF CutAt
    <3> SUFFICES ASSUME NEW e \in P \ {a, b}, NEW k \in 1..Len(t), t[k] = e
                 PROVE  \E j \in 1..n : u[j] = e
      OBVIOUS
    <3>2. k # i /\ k # i + 1
      BY <3>1
    <3>3. CASE k < i
      <4>1. k \in 1..n /\ u[k] = t[k]
        BY <1>2, <3>1, <3>3
      <4> QED BY <4>1
    <3>4. CASE ~ (k < i)
      <4>1. k - 2 \in 1..n /\ ~ (k - 2 < i) /\ (k - 2) + 2 = k
        BY <1>2, <3>1, <3>2, <3>4
      <4>2. u[k - 2] = t[(k - 2) + 2]
        BY <3>1, <4>1
      <4> QED BY <4>1, <4>2
    <3> QED BY <3>3, <3>4
  <2> QED BY <1>1, <2>1, <2>2 DEF TakenOut
<1> HIDE DEF n
<1>11. Len(s) = n + 2
  BY <1>4
<1>7. \A k \in 1..Len(s) : k \in 1..n \/ k = n + 1 \/ k = n + 2
  BY <1>2, <1>11
<1>8. WholeOnce(s, a, b)
  <2>1. \A k \in 1..Len(s) : /\ s[k] = a => k = n + 1
                             /\ s[k] = b => k = n + 2
    BY <1>1, <1>4, <1>7 DEF TakenOut, n
  <2>2. n + 1 \in 1..Len(s) /\ n + 2 \in 1..Len(s) /\ (n + 1) + 1 = n + 2 /\ (n + 2) - 1 = n + 1
    BY <1>2, <1>11
  <2> QED BY <1>4, <2>1, <2>2 DEF WholeOnce
<1>9. WholeOnce(s, c, d)
  <2>1. \A k \in 1..Len(s) : s[k] \in {c, d} => k \in 1..n /\ s[k] = u[k]
    BY <1>4, <1>7
  <2>3. \A k \in 1..n : k \in 1..Len(s)
    BY <1>2, <1>11
  <2>2. \A k \in 1..n : k \in 1..Len(s) /\ s[k] = u[k]
    BY <1>4, <2>3
  <2>4. ASSUME NEW k \in 1..Len(s), s[k] = c PROVE k + 1 \in 1..Len(s) /\ s[k + 1] = d
    <3>1. k + 1 \in 1..n /\ u[k + 1] = d
      BY <1>5, <2>1, <2>4 DEF WholeOnce, n
    <3> QED BY <2>2, <3>1
  <2>5. ASSUME NEW k \in 1..Len(s), s[k] = d PROVE k - 1 \in 1..Len(s) /\ s[k - 1] = c
    <3>1. k - 1 \in 1..n /\ u[k - 1] = c
      BY <1>5, <2>1, <2>5 DEF WholeOnce, n
    <3> QED BY <2>2, <3>1
  <2>6. ASSUME NEW k \in 1..Len(s), NEW j \in 1..Len(s), s[k] = c, s[j] = c PROVE k = j
    BY <1>5, <2>1, <2>6 DEF WholeOnce, n
  <2> QED BY <2>4, <2>5, <2>6 DEF WholeOnce
<1>10. n + 1 \in 1..Len(s) /\ \A k \in 1..n : k \in 1..Len(s)
  BY <1>2, <1>11
<1> QED BY <1>4, <1>6, <1>8, <1>9, <1>10

-----------------------------------------------------------------------------
(* What a file may hold, whoever wrote it.                                 *)

Blanks == {NoSeedFile, TornFile}
ContentOf(f) == IF f = "context" THEN Seq(Pieces) ELSE JsonContent

Tidy(t) == WholeOnce(t, "ctx[", "ctx]") /\ WholeOnce(t, "gd[", "gd]")
Occurs(e, t) == \E i \in 1..Len(t) : t[i] = e

\* The servers stay in order until the user removes one, the text until he breaks
\* a block; mine is the set of files he wrote into.
Sound(f, c, mine, unsure) ==
  /\ c \in ContentOf(f)
  /\ f = "claude" /\ f \notin mine => Compact(c.mcp) /\ Once(c.mcp)
  /\ f = "context" /\ ~ unsure => Tidy(c)

\* What is the user's in it.
HasOwn(f, c, unsure) ==
  IF f = "context" THEN unsure \/ Occurs("own", c) ELSE "own" \in c.keys

\* What a seed put there.
Effect(s, c, unsure) ==
  /\ s = "auth" => "onboarded" \in c.keys
  /\ s = "servers" => \E i \in Slots : c.mcp[i] = "http"
  /\ s = "playwright" => \E i \in Slots : c.mcp[i] = "stdio"
  /\ s = "settings" => {"bypass", "unrestricted"} \subseteq c.keys
  /\ s = "providers" => "provider" \in c.keys /\ "legacy" \notin c.keys
  /\ s = "context" => unsure \/ Occurs("ctx[", c)
  /\ s = "guidance" => unsure \/ Occurs("gd[", c)

\* From which seed to which: the seed s makes d of c.
Makes(s, c, d, mine, unsure) ==
  LET f == FileOf[s]
  IN /\ Sound(f, d, mine, unsure) /\ Effect(s, d, unsure)
     /\ HasOwn(f, c, unsure) => HasOwn(f, d, unsure)
     /\ \A r \in DOMAIN FileOf : FileOf[r] = f /\ Effect(r, c, unsure) => Effect(r, d, unsure)

LEMMA PieceNames ==
  /\ Pieces = {"own", "ctx[", "ctx]", "gd[", "gd]"}
  /\ Markers.context = <<"ctx[", "ctx]">> /\ Markers.guidance = <<"gd[", "gd]">>
  /\ DOMAIN Markers = {"context", "guidance"}
  /\ Markers["context"] = Markers.context /\ Markers["guidance"] = Markers.guidance
<1>1. /\ Markers.context = <<"ctx[", "ctx]">> /\ Markers.guidance = <<"gd[", "gd]">>
      /\ Markers["context"] = <<"ctx[", "ctx]">> /\ Markers["guidance"] = <<"gd[", "gd]">>
  BY DEF Markers
<1>2. DOMAIN Markers = {"context", "guidance"}
  BY DEF Markers
<1>3. /\ Markers["context"][1] = "ctx[" /\ Markers["context"][2] = "ctx]"
      /\ Markers["guidance"][1] = "gd[" /\ Markers["guidance"][2] = "gd]"
  BY <1>1
<1>4. 1..2 = {1, 2}
  OBVIOUS
<1>5. Pieces = {"own", "ctx[", "ctx]", "gd[", "gd]"}
  <2>1. \A x \in Pieces : x \in {"own", "ctx[", "ctx]", "gd[", "gd]"}
    BY <1>2, <1>3, <1>4 DEF Pieces
  <2>2. \A x \in {"own", "ctx[", "ctx]", "gd[", "gd]"} : x \in Pieces
    BY <1>2, <1>3, <1>4 DEF Pieces
  <2> QED BY <2>1, <2>2
<1> QED BY <1>1, <1>2, <1>5

LEMMA ParsedSound ==
  ASSUME NEW f \in SeedFiles, file[f] \in Blanks \/ Sound(f, file[f], own, broken)
  PROVE  /\ Sound(f, Parsed(f), own, broken)
         /\ ~ Absent(f) => Parsed(f) = file[f]
<1>1. CASE ~ Absent(f)
  BY <1>1 DEF Parsed, Absent, Blanks
<1>2. CASE Absent(f) /\ f = "context"
  <2>1. Parsed(f) = <<>> /\ <<>> \in Seq(Pieces) /\ Len(<<>>) = 0
    BY <1>2 DEF Parsed
  <2>2. Tidy(<<>>)
    BY DEF Tidy, WholeOnce
  <2> QED BY <1>2, <2>1, <2>2 DEF Sound, ContentOf
<1>3. CASE Absent(f) /\ f # "context"
  <2>1. Parsed(f) = EmptyConfig
    BY <1>3 DEF Parsed
  <2>2. EmptyConfig \in JsonContent /\ EmptyConfig.mcp = [i \in Slots |-> "free"]
    BY DEF EmptyConfig, JsonContent
  <2>3. Compact(EmptyConfig.mcp) /\ Once(EmptyConfig.mcp)
    BY <2>2 DEF Compact, Once
  <2> QED BY <1>3, <2>1, <2>2, <2>3 DEF Sound, ContentOf
<1> QED BY <1>1, <1>2, <1>3

\* Every seed: of what it could parse it makes what it should, and keeps the rest.
LEMMA MergedMakes ==
  ASSUME NEW s \in DOMAIN FileOf, NEW c, c = Parsed(FileOf[s]), Sound(FileOf[s], c, own, broken),
         FileOf[s] = "claude" => Unused(c.mcp) # {}
  PROVE  Makes(s, c, Merged(s), own, broken)
         \/ (s = "playwright" /\ SeesOwnEntry(c))
<1> DEFINE d == Merged(s)
<1>1. CASE s \in {"auth", "settings", "providers"}
  <2>1. c \in JsonContent
    BY <1>1, FilesSeeded DEF Sound, ContentOf
  <2>2. /\ d \in JsonContent /\ d.mcp = c.mcp
        /\ s = "auth" => d.keys = c.keys \cup {"onboarded"}
        /\ s = "settings" => d.keys = c.keys \cup {"bypass", "unrestricted"}
        /\ s = "providers" => d.keys = (c.keys \ {"legacy"}) \cup {"provider"}
    <3>1. CASE s = "auth"
      <4>1. d = WithKey(c, "onboarded", {})
        BY <3>1 DEF Merged, Onboarded
      <4> HIDE DEF d
      <4> QED BY <2>1, <3>1, <4>1, KeyAdded DEF KeyNames
    <3>2. CASE s = "settings"
      <4> DEFINE e == WithKey(c, "bypass", {})
      <4>1. d = WithKey(e, "unrestricted", {})
        BY <3>2 DEF Merged, Unrestricted, Bypassing
      <4>2. e \in JsonContent /\ e.keys = c.keys \cup {"bypass"} /\ e.mcp = c.mcp
        <5> HIDE DEF e
        <5> QED BY <2>1, KeyAdded DEF KeyNames, e
      <4> HIDE DEF d, e
      <4>3. d \in JsonContent /\ d.keys = e.keys \cup {"unrestricted"} /\ d.mcp = e.mcp
        BY <4>1, <4>2, KeyAdded DEF KeyNames
      <4> QED BY <3>2, <4>2, <4>3
    <3>3. CASE s = "providers"
      <4>1. d = WithKey(c, "provider", {"legacy"})
        BY <3>3 DEF Merged, WithProvider
      <4> HIDE DEF d
      <4> QED BY <2>1, <3>3, <4>1, KeyAdded DEF KeyNames
    <3> QED BY <1>1, <3>1, <3>2, <3>3
  <2> HIDE DEF d
  <2>3. Sound(FileOf[s], d, own, broken)
    BY <1>1, <2>2, FilesSeeded DEF Sound, ContentOf
  <2>4. Effect(s, d, broken)
    BY <1>1, <2>2 DEF Effect
  <2>5. HasOwn(FileOf[s], c, broken) => HasOwn(FileOf[s], d, broken)
    BY <1>1, <2>2, FilesSeeded DEF HasOwn
  <2>6. \A r \in DOMAIN FileOf : FileOf[r] = FileOf[s] /\ Effect(r, c, broken) => Effect(r, d, broken)
    BY <1>1, <2>2, FilesSeeded DEF Effect
  <2> QED BY <2>3, <2>4, <2>5, <2>6 DEF Makes, d
<1>2. CASE s \in {"servers", "playwright"} /\ ~ (s = "playwright" /\ SeesOwnEntry(c))
  <2> DEFINE kind == IF s = "servers" THEN "http" ELSE "stdio"
  <2>1. c \in JsonContent /\ Unused(c.mcp) # {} /\ kind \in {"http", "stdio"}
    BY <1>2, FilesSeeded DEF Sound, ContentOf
  <2>2. d = [c EXCEPT !.mcp[FirstUnused(c.mcp)] = kind]
    BY <1>2, FilesSeeded DEF Merged, WithServer, WithPlaywright
  <2> HIDE DEF d
  <2>3. /\ d \in JsonContent /\ d.keys = c.keys
        /\ \E i \in Slots : d.mcp[i] = kind
        /\ \A j \in Slots : c.mcp[j] # "free" => d.mcp[j] = c.mcp[j]
        /\ Compact(c.mcp) => Compact(d.mcp)
        /\ kind = "http" \/ (\A j \in Slots : c.mcp[j] # "stdio") =>
             (Once(c.mcp) => Once(d.mcp))
    <3> HIDE DEF kind
    <3>1. Joins(c, d, kind)
      BY <2>1, <2>2, ServerAdded
    <3> QED BY <3>1 DEF Joins
  <2>4. Compact(c.mcp) /\ s = "playwright" => \A j \in Slots : c.mcp[j] # "stdio"
    <3> SUFFICES ASSUME Compact(c.mcp), ~ SeesOwnEntry(c), NEW j \in Slots, c.mcp[j] = "stdio"
                 PROVE  FALSE
      BY <1>2
    <3>1. PICK k \in 1..j : c.mcp[k] = "free"
      BY DEF SeesOwnEntry
    <3>2. k \in Slots /\ (k = j \/ k < j)
      BY SeedAssumption DEF Slots
    <3> QED BY <3>1, <3>2 DEF Compact
  <2>5. Sound("claude", d, own, broken)
    BY <1>2, <2>3, <2>4, FilesSeeded DEF Sound, ContentOf
  <2>6. Effect(s, d, broken)
    BY <1>2, <2>3 DEF Effect
  <2>7. \A r \in {"auth", "servers", "playwright"} : Effect(r, c, broken) => Effect(r, d, broken)
    BY <2>3 DEF Effect
  <2>8. FileOf[s] = "claude" /\ \A r \in DOMAIN FileOf : FileOf[r] = "claude" => r \in {"auth", "servers", "playwright"}
    BY <1>2, FilesSeeded
  <2>9. HasOwn("claude", c, broken) => HasOwn("claude", d, broken)
    BY <2>3 DEF HasOwn
  <2> QED BY <2>5, <2>6, <2>7, <2>8, <2>9 DEF Makes, d
<1>3. CASE s \in {"context", "guidance"}
  <2>1. c \in Seq(Pieces) /\ (~ broken => Tidy(c)) /\ FileOf[s] = "context"
    BY <1>3, FilesSeeded DEF Sound, ContentOf
  <2>2. /\ s = "context" => d = WithBlock(c, <<"ctx[", "ctx]">>)
        /\ s = "guidance" => d = WithBlock(c, <<"gd[", "gd]">>)
    BY <1>3, <2>1, PieceNames DEF Merged, WithContext, WithGuidance
  <2> HIDE DEF d
  <2>3. d \in Seq(Pieces)
    <3>1. \A m : Stripped(c, m) \in Seq(Pieces)
      BY <2>1, StrippedType
    <3>2. <<"ctx[", "ctx]">> \in Seq(Pieces) /\ <<"gd[", "gd]">> \in Seq(Pieces)
      BY PieceNames
    <3>3. \A x, y \in Seq(Pieces) : x \o y \in Seq(Pieces)
      BY ConcatProperties
    <3> QED BY <1>3, <2>2, <3>1, <3>2, <3>3 DEF WithBlock
  <2>4. CASE broken
    BY <1>3, <2>1, <2>3, <2>4, FilesSeeded DEF Makes, Sound, ContentOf, HasOwn, Effect, d
  <2>5. CASE ~ broken
    <3>1. WholeOnce(c, "ctx[", "ctx]") /\ WholeOnce(c, "gd[", "gd]")
      BY <2>1, <2>5 DEF Tidy
    <3>2. ASSUME s = "context"
          PROVE  /\ Tidy(d) /\ Occurs("ctx[", d) /\ (Occurs("own", c) => Occurs("own", d))
                 /\ Occurs("gd[", c) => Occurs("gd[", d)
      <4>1. d = WithBlock(c, <<"ctx[", "ctx]">>)
        BY <2>2, <3>2
      <4>2. "own" \in Pieces \ {"ctx[", "ctx]"} /\ "gd[" \in Pieces \ {"ctx[", "ctx]"}
            /\ {"ctx[", "ctx]", "gd[", "gd]"} \subseteq Pieces
        BY PieceNames
      <4> QED BY <2>1, <3>1, <4>1, <4>2, BlockAdded DEF Tidy, Occurs
    <3>3. ASSUME s = "guidance"
          PROVE  /\ Tidy(d) /\ Occurs("gd[", d) /\ (Occurs("own", c) => Occurs("own", d))
                 /\ Occurs("ctx[", c) => Occurs("ctx[", d)
      <4>1. d = WithBlock(c, <<"gd[", "gd]">>)
        BY <2>2, <3>3
      <4>2. "own" \in Pieces \ {"gd[", "gd]"} /\ "ctx[" \in Pieces \ {"gd[", "gd]"}
            /\ {"ctx[", "ctx]", "gd[", "gd]"} \subseteq Pieces
        BY PieceNames
      <4> QED BY <2>1, <3>1, <4>1, <4>2, BlockAdded DEF Tidy, Occurs
    <3>4. Sound("context", d, own, broken)
      BY <1>3, <2>3, <3>2, <3>3 DEF Sound, ContentOf
    <3>5. Effect(s, d, broken) /\ (HasOwn("context", c, broken) => HasOwn("context", d, broken))
      BY <1>3, <2>5, <3>2, <3>3 DEF Effect, HasOwn
    <3>6. \A r \in {"context", "guidance"} : Effect(r, c, broken) => Effect(r, d, broken)
      BY <1>3, <2>5, <3>2, <3>3 DEF Effect
    <3>7. \A r \in DOMAIN FileOf : FileOf[r] = "context" => r \in {"context", "guidance"}
      BY FilesSeeded
    <3> QED BY <2>1, <3>4, <3>5, <3>6, <3>7 DEF Makes, d
  <2> QED BY <2>4, <2>5
<1> QED BY <1>1, <1>2, <1>3, FilesSeeded

-----------------------------------------------------------------------------
(* The inductive invariant.                                                *)

\* A seeder at stage st is writing file f, and has emptied it.
Writes(p, st, f) ==
  st.at \in 1..Len(Program[p]) /\ st.phase # "idle" /\ FileOf[Program[p][st.at]] = f
Empties(p, st, f) == Writes(p, st, f) /\ st.phase = "cut"

GoodFile(f, c, mine, unsure) == c \in Blanks \/ Sound(f, c, mine, unsure)
GoodStage(p, st, mine, unsure) ==
  /\ st.at \in 0..Len(Program[p]) + 1 /\ st.phase \in {"idle", "merged", "cut"} /\ st.xdg \in BOOLEAN
  /\ st.phase # "idle" =>
       /\ st.at \in 1..Len(Program[p]) /\ Program[p][st.at] \in DOMAIN FileOf
       /\ Sound(FileOf[Program[p][st.at]], st.got, mine, unsure)

\* Every file, and all that is about to be written, is sound.
SeedData ==
  /\ DOMAIN file = SeedFiles /\ DOMAIN seeder = Seeders
  /\ \A f \in SeedFiles : GoodFile(f, file[f], own, broken)
  /\ \A p \in Seeders : GoodStage(p, seeder[p], own, broken)

\* What the user wrote is in the file, or in what its one writer has read.
HoldsOwn(f, fs, sts, unsure) ==
  /\ \/ fs[f] \notin Blanks /\ HasOwn(f, fs[f], unsure)
     \/ f = "context" /\ unsure
     \/ \E p \in Seeders : Empties(p, sts[p], f)
  /\ \A p, q \in Seeders : Writes(p, sts[p], f) /\ Writes(q, sts[q], f) => p = q
  /\ \A p \in Seeders : Writes(p, sts[p], f) => HasOwn(f, sts[p].got, unsure)
OwnHeld == own \subseteq SeedFiles /\ \A f \in own \ hurt : HoldsOwn(f, file, seeder, broken)

\* What a launch that runs alone has done when it is at stage st.
Achieved(s, st, fs, unsure, sk, ca) ==
  /\ s \in DOMAIN FileOf =>
       \/ Writes("launch", st, FileOf[s])
       \/ fs[FileOf[s]] \notin Blanks /\ Effect(s, fs[FileOf[s]], unsure)
  /\ s = "home" => ca = "ours" \/ st.xdg
  /\ s = "skills" => sk[BundledId] = "bundled"
  /\ s = "user skills" => sk["picked"] = "picked"
Merging(st, unsure) ==
  st.phase # "idle" =>
    \A k \in 1..st.at :
      LET s == Program["launch"][k]
      IN s \in DOMAIN FileOf /\ FileOf[s] = FileOf[Program["launch"][st.at]] => Effect(s, st.got, unsure)
Others == {"boot", "side"}
LaunchAlone ==
  /\ \A q \in Others : ~ Seeding(q)
  /\ \A k \in 1..10 : k < seeder["launch"].at =>
       Achieved(Program["launch"][k], seeder["launch"], file, broken, skills, cache)
  /\ Merging(seeder["launch"], broken)
CleanLaunch == clean => LaunchAlone

SeedTypes ==
  /\ skills \in [SkillIds -> {"none", "bundled", "picked", "own"}]
  /\ cache \in {"none", "ours", "root"} /\ codex \in {"none", "seeded", "own"}
  /\ runs \in [Seeders -> 0..MaxRuns] /\ mishaps \in 0..MaxMishaps /\ hurt \subseteq SeedFiles
SeedFlags ==
  /\ sideSeeded \subseteq SideKinds /\ broken \in BOOLEAN /\ signed \in BOOLEAN /\ clean \in BOOLEAN
  /\ signed => "codex" \in sideSeeded /\ codex = "own"

SeedInv == SeedData /\ OwnHeld /\ CleanLaunch /\ SeedTypes /\ SeedFlags

-----------------------------------------------------------------------------
(* Every file stays sound, and what is about to be written.                *)

\* What is sound stays so when the user writes more files or breaks a block.
LEMMA SoundStays ==
  ASSUME NEW f, NEW c, NEW mine, NEW mine2, mine \subseteq mine2, NEW unsure, NEW unsure2, unsure => unsure2
  PROVE  /\ Sound(f, c, mine, unsure) => Sound(f, c, mine2, unsure2)
         /\ GoodFile(f, c, mine, unsure) => GoodFile(f, c, mine2, unsure2)
         /\ \A p, st : GoodStage(p, st, mine, unsure) => GoodStage(p, st, mine2, unsure2)
<1>1. \A g, d : Sound(g, d, mine, unsure) => Sound(g, d, mine2, unsure2)
  BY DEF Sound
<1> QED BY <1>1 DEF GoodFile, GoodStage

LEMMA SeedDataMoves ==
  ASSUME SeedData, file' = file, own' = own, broken' = broken, NEW p \in Seeders, NEW st,
         GoodStage(p, st, own, broken), seeder' = [seeder EXCEPT ![p] = st]
  PROVE  SeedData'
BY DEF SeedData

LEMMA SeedDataWrites ==
  ASSUME SeedData, own' = own, broken' = broken, NEW f \in SeedFiles, NEW c,
         GoodFile(f, c, own, broken), file' = [file EXCEPT ![f] = c], NEW p \in Seeders, NEW st,
         GoodStage(p, st, own, broken), seeder' = [seeder EXCEPT ![p] = st]
  PROVE  SeedData'
BY DEF SeedData

LEMMA SeedDataEdited ==
  ASSUME SeedData, seeder' = seeder, NEW f \in SeedFiles, NEW c, GoodFile(f, c, own', broken'),
         file' = [file EXCEPT ![f] = c], own' = own \cup {f}, broken => broken'
  PROVE  SeedData'
<1>1. \A g \in SeedFiles : GoodFile(g, file[g], own', broken')
  BY SoundStays DEF SeedData
<1>2. \A p \in Seeders : GoodStage(p, seeder[p], own', broken')
  BY SoundStays DEF SeedData
<1> QED BY <1>1, <1>2 DEF SeedData

\* The stages a step leads to.
LEMMA StageFacts ==
  ASSUME SeedData, NEW p \in Seeders
  PROVE  /\ seeder[p].at \in 0..Len(Program[p]) + 1 /\ seeder[p].xdg \in BOOLEAN
         /\ seeder[p].phase \in {"idle", "merged", "cut"}
         /\ Len(Program[p]) \in {1, 2, 10} /\ seeder[p].at \in 0..11
         /\ seeder[p].phase # "idle" =>
              /\ Seeding(p) /\ Seed(p) \in DOMAIN FileOf /\ FileOf[Seed(p)] \in SeedFiles
              /\ Sound(FileOf[Seed(p)], seeder[p].got, own, broken)
<1>1. GoodStage(p, seeder[p], own, broken)
  BY DEF SeedData
<1>2. Len(Program[p]) \in {1, 2, 10}
  BY ProgramsOf DEF Seeders
<1>3. \A s \in DOMAIN FileOf : FileOf[s] \in SeedFiles
  BY DEF SeedFiles
<1>4. seeder[p].at \in 0..Len(Program[p]) + 1
  BY <1>1 DEF GoodStage
<1>5. seeder[p].phase \in {"idle", "merged", "cut"} /\ seeder[p].xdg \in BOOLEAN
  BY <1>1 DEF GoodStage
<1>6. seeder[p].phase # "idle" =>
        /\ Seeding(p) /\ Seed(p) \in DOMAIN FileOf
        /\ Sound(FileOf[Seed(p)], seeder[p].got, own, broken)
  BY <1>1 DEF GoodStage, Seeding, Seed
<1>7. seeder[p].at \in 0..11
  <2>1. CASE Len(Program[p]) = 2
    BY <1>4, <2>1
  <2>2. CASE Len(Program[p]) = 10
    BY <1>4, <2>2
  <2>3. CASE Len(Program[p]) = 1
    BY <1>4, <2>3
  <2> QED BY <1>2, <2>1, <2>2, <2>3
<1> QED BY <1>2, <1>3, <1>4, <1>5, <1>6, <1>7

HoldsAt(p, phase, got) == [at |-> seeder[p].at, phase |-> phase, got |-> got, xdg |-> seeder[p].xdg]

LEMMA GoodIdle ==
  ASSUME NEW p \in Seeders, NEW at \in 0..Len(Program[p]) + 1, NEW xdg \in BOOLEAN
  PROVE  /\ GoodStage(p, Resting(at, xdg), own, broken)
         /\ Resting(at, xdg).phase = "idle" /\ Resting(at, xdg).at = at /\ Resting(at, xdg).xdg = xdg
BY DEF GoodStage, Resting

LEMMA GoodHolding ==
  ASSUME SeedData, NEW p \in Seeders, Seeding(p), NEW phase \in {"merged", "cut"}, NEW got,
         Seed(p) \in DOMAIN FileOf, Sound(FileOf[Seed(p)], got, own, broken)
  PROVE  GoodStage(p, HoldsAt(p, phase, got), own, broken)
<1> DEFINE st == HoldsAt(p, phase, got)
<1>1. st.at = seeder[p].at /\ st.phase = phase /\ st.got = got /\ st.xdg = seeder[p].xdg
  BY DEF HoldsAt
<1>2. seeder[p].at \in 0..Len(Program[p]) + 1 /\ seeder[p].xdg \in BOOLEAN
  BY StageFacts
<1> HIDE DEF st
<1>3. GoodStage(p, st, own, broken)
  BY <1>1, <1>2 DEF GoodStage, Seeding, Seed
<1> QED BY <1>3 DEF st

\* The places a step leaves a seeder at.
LEMMA SeederSeats ==
  ASSUME SeedData, NEW p \in Seeders
  PROVE  /\ 0 \in 0..Len(Program[p]) + 1 /\ 1 \in 0..Len(Program[p]) + 1
         /\ seeder[p].at \in 0..Len(Program[p]) + 1 /\ seeder[p].at \in Nat
         /\ Seeding(p) => seeder[p].at + 1 \in 0..Len(Program[p]) + 1
         /\ seeder[p].xdg \in BOOLEAN
<1>1. Len(Program[p]) \in Nat
  BY StageFacts
<1>2. seeder[p].at \in 0..Len(Program[p]) + 1 /\ seeder[p].xdg \in BOOLEAN
  BY StageFacts
<1> QED BY <1>1, <1>2 DEF Seeding

\* The actions that have a seeder move on, and no file changes.
SeederMoved(p, st) ==
  /\ seeder' = [seeder EXCEPT ![p] = st]
  /\ file' = file /\ own' = own /\ broken' = broken /\ hurt \subseteq hurt'

SideSpawns(p) == p = "side" /\ SideSpawn("opencode")
Hops(p) == Start(p) \/ CopySkills(p) \/ EnsureHome(p) \/ SideSpawns(p) \/ SeedFails(p)

LEMMA SeederHops ==
  ASSUME SeedData, NEW p \in Seeders,
         Hops(p)
  PROVE  \E at \in 0..Len(Program[p]) + 1, xdg \in BOOLEAN : SeederMoved(p, Resting(at, xdg))
<1>1. CASE Start(p)
  <2>1. SeederMoved(p, Resting(1, seeder[p].xdg))
    BY <1>1 DEF Start, AtSeed, Resting, SeederMoved
  <2> QED BY <2>1, SeederSeats
<1>2. CASE CopySkills(p)
  <2>1. SeederMoved(p, Resting(seeder[p].at + 1, seeder[p].xdg)) /\ Seeding(p)
    BY <1>2 DEF CopySkills, Advanced, AtSeed, Resting, SeederMoved
  <2> QED BY <2>1, SeederSeats
<1>3. CASE SideSpawns(p)
  <2>1. SeederMoved(p, Resting(1, FALSE))
    BY <1>3 DEF SideSpawns, SideSpawn, AtSeed, Resting, SeederMoved
  <2> QED BY <2>1, SeederSeats
<1>4. CASE SeedFails(p)
  <2>1. SeederMoved(p, Resting(seeder[p].at + 1, seeder[p].xdg)) /\ Seeding(p)
    BY <1>4 DEF SeedFails, Advanced, AtSeed, Resting, SeederMoved, Torn
  <2> QED BY <2>1, SeederSeats
<1>5. CASE EnsureHome(p)
  <2> DEFINE at == IF Seeding(p) THEN seeder[p].at + 1 ELSE seeder[p].at
  <2>1. at \in 0..Len(Program[p]) + 1
    BY SeederSeats
  <2> HIDE DEF at
  <2>2. SeederMoved(p, Resting(at, seeder[p].xdg)) \/ SeederMoved(p, Resting(at, TRUE))
    BY <1>5 DEF EnsureHome, AtSeed, Resting, SeederMoved, at
  <2> QED BY <2>1, <2>2, SeederSeats
<1> QED BY <1>1, <1>2, <1>3, <1>4, <1>5 DEF Hops

\* A process that goes, with its seeders.
LEMMA SeedersGone ==
  ASSUME SeedData, NEW p \in Seeders, SeederKilled(p)
  PROVE  /\ \A q \in Seeders : seeder'[q] = seeder[q] \/ (q \in KilledWith(p) /\ seeder'[q] = Resting(0, FALSE))
         /\ DOMAIN seeder' = Seeders /\ file' = file /\ own' = own /\ broken' = broken /\ hurt \subseteq hurt'
         /\ \A q \in KilledWith(p) : \A f : Empties(q, seeder[q], f) => f \in hurt'
<1>1. /\ seeder' = [q \in Seeders |-> IF q \in KilledWith(p) THEN Resting(0, FALSE) ELSE seeder[q]]
      /\ hurt' = hurt \cup Torn(KilledWith(p))
      /\ file' = file /\ own' = own /\ broken' = broken
  BY DEF SeederKilled
<1>2. ASSUME NEW q \in KilledWith(p), NEW f, Empties(q, seeder[q], f) PROVE f \in hurt'
  BY <1>1, <1>2 DEF Empties, Writes, Seed, Torn
<1> QED BY <1>1, <1>2

LEMMA Reads ==
  ASSUME SeedData, NEW p \in Seeders, Read(p), NEW f, f = FileOf[Seed(p)]
  PROVE  /\ Seeding(p) /\ Seed(p) \in DOMAIN FileOf /\ f \in SeedFiles /\ seeder[p].phase = "idle"
         /\ ~ Absent(f) => Parsed(f) = file[f]
         /\ hurt' = IF InUse(f) THEN hurt \cup {f} ELSE hurt
         /\ \/ /\ Seed(p) = "playwright" /\ SeesOwnEntry(Parsed(f))
               /\ SeederMoved(p, Resting(seeder[p].at + 1, seeder[p].xdg))
            \/ /\ Makes(Seed(p), Parsed(f), Merged(Seed(p)), own, broken)
               /\ SeederMoved(p, HoldsAt(p, "merged", Merged(Seed(p))))
<1>1. /\ Seeding(p) /\ Seed(p) \in DOMAIN FileOf /\ seeder[p].phase = "idle"
      /\ f = "claude" => Unused(Parsed(f).mcp) # {}
      /\ hurt' = IF InUse(f) THEN hurt \cup {f} ELSE hurt
  BY DEF Read
<1>2. f \in SeedFiles
  BY <1>1 DEF SeedFiles
<1>3. GoodFile(f, file[f], own, broken)
  BY <1>2 DEF SeedData
<1>4. Sound(f, Parsed(f), own, broken) /\ (~ Absent(f) => Parsed(f) = file[f])
  BY <1>2, <1>3, ParsedSound DEF GoodFile
<1>5. \/ Makes(Seed(p), Parsed(f), Merged(Seed(p)), own, broken)
      \/ Seed(p) = "playwright" /\ SeesOwnEntry(Parsed(f))
  BY <1>1, <1>4, MergedMakes
<1>6. file' = file /\ own' = own /\ broken' = broken /\ hurt \subseteq hurt'
  BY DEF Read
<1>7. CASE Seed(p) = "playwright" /\ SeesOwnEntry(Parsed(f))
  <2>1. seeder' = Advanced(p)
    BY <1>7 DEF Read
  <2>2. SeederMoved(p, Resting(seeder[p].at + 1, seeder[p].xdg))
    BY <1>6, <2>1 DEF SeederMoved, Resting, Advanced, AtSeed
  <2> QED BY <1>1, <1>2, <1>4, <1>7, <2>2
<1>8. CASE ~ (Seed(p) = "playwright" /\ SeesOwnEntry(Parsed(f)))
  <2>1. seeder' = Holding(p, "merged", Merged(Seed(p)))
    BY <1>8 DEF Read
  <2>2. SeederMoved(p, HoldsAt(p, "merged", Merged(Seed(p))))
    BY <1>6, <2>1 DEF SeederMoved, HoldsAt, Holding
  <2> QED BY <1>1, <1>2, <1>4, <1>5, <1>8, <2>2
<1> QED BY <1>7, <1>8

\* A write in two steps: what is left of the file, and then what was merged.
LEMMA Cuts ==
  ASSUME SeedData, NEW p \in Seeders, Cut(p), NEW f, f = FileOf[Seed(p)]
  PROVE  /\ f \in SeedFiles /\ Seeding(p) /\ Seed(p) \in DOMAIN FileOf /\ seeder[p].phase = "merged"
         /\ file' = [file EXCEPT ![f] = TornFile]
         /\ seeder' = [seeder EXCEPT ![p] = HoldsAt(p, "cut", seeder[p].got)]
         /\ GoodStage(p, HoldsAt(p, "cut", seeder[p].got), own, broken)
         /\ own' = own /\ broken' = broken /\ hurt' = hurt
<1>1. Seeding(p) /\ seeder[p].phase = "merged"
  BY DEF Cut
<1>2. Seed(p) \in DOMAIN FileOf /\ f \in SeedFiles /\ Sound(f, seeder[p].got, own, broken)
  BY <1>1, StageFacts
<1>3. GoodStage(p, HoldsAt(p, "cut", seeder[p].got), own, broken)
  BY <1>1, <1>2, GoodHolding
<1> QED BY <1>1, <1>2, <1>3 DEF Cut, Holding, HoldsAt

LEMMA Puts ==
  ASSUME SeedData, NEW p \in Seeders, Write(p), NEW f, f = FileOf[Seed(p)]
  PROVE  /\ f \in SeedFiles /\ Seeding(p) /\ Seed(p) \in DOMAIN FileOf /\ seeder[p].phase = "cut"
         /\ file' = [file EXCEPT ![f] = seeder[p].got] /\ Sound(f, seeder[p].got, own, broken)
         /\ seeder' = [seeder EXCEPT ![p] = Resting(seeder[p].at + 1, seeder[p].xdg)]
         /\ GoodStage(p, Resting(seeder[p].at + 1, seeder[p].xdg), own, broken)
         /\ own' = own /\ broken' = broken /\ hurt' = hurt
<1>1. Seeding(p) /\ seeder[p].phase = "cut"
  BY DEF Write
<1>2. Seed(p) \in DOMAIN FileOf /\ f \in SeedFiles /\ Sound(f, seeder[p].got, own, broken)
  BY <1>1, StageFacts
<1>3. GoodStage(p, Resting(seeder[p].at + 1, seeder[p].xdg), own, broken)
  BY <1>1, SeederSeats, GoodIdle
<1> QED BY <1>1, <1>2, <1>3 DEF Write, Advanced, AtSeed, Resting

\* The user's edits leave a sound file with what is his in it.
Edited(f, c) ==
  /\ f \in SeedFiles /\ file' = [file EXCEPT ![f] = c] /\ Sound(f, c, own', broken')
  /\ c \notin Blanks /\ HasOwn(f, c, broken')
  /\ own' = own \cup {f} /\ (broken => broken')
  /\ hurt' = IF InUse(f) THEN hurt \cup {f} ELSE hurt
  /\ seeder' = seeder

LEMMA Edits ==
  ASSUME SeedData, WriteKey \/ DeleteMarker \/ (\E i \in Slots : RemoveServer(i))
  PROVE  \E f : \E c : Edited(f, c)
<1>1. \A f \in {"claude", "context"} :
        /\ f \in SeedFiles /\ Sound(f, Parsed(f), own, broken)
        /\ ~ Absent(f) => Parsed(f) = file[f]
  BY FilesSeeded, ParsedSound DEF SeedData, GoodFile
<1>2. Parsed("claude") \in JsonContent /\ Parsed("context") \in Seq(Pieces)
  BY <1>1 DEF Sound, ContentOf
<1>3. \A b \in Blanks : b \notin JsonContent /\ b \notin Seq(Pieces)
  BY SeedFileAssumption DEF Blanks
<1>4. CASE WriteKey
  <2> DEFINE c == WithKey(Parsed("claude"), "own", {})
  <2>1. c \in JsonContent /\ "own" \in c.keys
    <3> DEFINE e == Parsed("claude")
    <3>1. e \in JsonContent
      BY <1>2
    <3> HIDE DEF e
    <3>2. WithKey(e, "own", {}) \in JsonContent /\ "own" \in WithKey(e, "own", {}).keys
      BY <3>1, KeyAdded DEF KeyNames
    <3> QED BY <3>2 DEF e
  <2>2. /\ own' = own \cup {"claude"} /\ hurt' = IF InUse("claude") THEN hurt \cup {"claude"} ELSE hurt
        /\ broken' = broken /\ seeder' = seeder /\ file' = [file EXCEPT !["claude"] = c]
    BY <1>4 DEF WriteKey, EditFile
  <2> HIDE DEF c
  <2>3. Sound("claude", c, own', broken') /\ HasOwn("claude", c, broken')
    BY <2>1, <2>2 DEF Sound, ContentOf, HasOwn
  <2>4. Edited("claude", c)
    BY <1>1, <1>3, <2>1, <2>2, <2>3 DEF Edited
  <2> QED BY <2>4
<1>5. CASE \E i \in Slots : RemoveServer(i)
  <2>1. PICK i \in Slots : RemoveServer(i)
    BY <1>5
  <2>2. ~ Absent("claude")
    <3>1. Parsed("claude").mcp[i] = "http"
      BY <2>1 DEF RemoveServer
    <3>2. EmptyConfig.mcp[i] = "free"
      BY DEF EmptyConfig
    <3> QED BY <3>1, <3>2 DEF Parsed
  <2> DEFINE now == file["claude"]
             e == WithKey(now, "own", {})
             c == [e EXCEPT !.mcp[i] = "free"]
  <2>3. now \in JsonContent
    BY <1>1, <1>2, <2>2
  <2>4. /\ own' = own \cup {"claude"} /\ hurt' = IF InUse("claude") THEN hurt \cup {"claude"} ELSE hurt
        /\ broken' = broken /\ seeder' = seeder /\ file' = [file EXCEPT !["claude"] = c]
    <3>1. "claude" \in DOMAIN file
      BY <1>1 DEF SeedData
    <3> QED BY <2>1, <3>1 DEF RemoveServer, EditFile
  <2> HIDE DEF now
  <2>5. e \in JsonContent /\ "own" \in e.keys
    BY <2>3, KeyAdded DEF KeyNames
  <2> HIDE DEF e
  <2>6. c \in JsonContent /\ c.keys = e.keys
    BY <2>1, <2>5 DEF JsonContent
  <2> HIDE DEF c
  <2>7. Sound("claude", c, own', broken') /\ HasOwn("claude", c, broken')
    BY <2>4, <2>5, <2>6 DEF Sound, ContentOf, HasOwn
  <2>8. Edited("claude", c)
    BY <1>1, <1>3, <2>4, <2>6, <2>7 DEF Edited
  <2> QED BY <2>8
<1>6. CASE DeleteMarker
  <2>1. PICK i \in DOMAIN Parsed("context") :
          file' = [file EXCEPT !["context"] = SubSeq(@, 1, i - 1) \o SubSeq(@, i + 1, Len(@))]
    BY <1>6 DEF DeleteMarker
  <2>2. ~ Absent("context")
    <3>1. Absent("context") => Parsed("context") = <<>>
      BY DEF Parsed
    <3>2. DOMAIN <<>> = {}
      OBVIOUS
    <3> QED BY <2>1, <3>1, <3>2
  <2> DEFINE t == file["context"]
             c == SubSeq(t, 1, i - 1) \o SubSeq(t, i + 1, Len(t))
  <2>3. t = Parsed("context") /\ t \in Seq(Pieces) /\ i \in DOMAIN t
    BY <1>1, <1>2, <2>1, <2>2
  <2>4. /\ own' = own \cup {"context"} /\ hurt' = IF InUse("context") THEN hurt \cup {"context"} ELSE hurt
        /\ broken' = TRUE /\ seeder' = seeder
    BY <1>6 DEF DeleteMarker, EditFile
  <2>5. file' = [file EXCEPT !["context"] = c]
    <3>1. "context" \in DOMAIN file
      BY <1>1 DEF SeedData
    <3> QED BY <2>1, <3>1
  <2> HIDE DEF t
  <2>6. c \in Seq(Pieces)
    <3>1. SubSeq(t, 1, i - 1) \in Seq(Pieces) /\ SubSeq(t, i + 1, Len(t)) \in Seq(Pieces)
      BY <2>3
    <3> QED BY <3>1, ConcatProperties
  <2> HIDE DEF c
  <2>7. Sound("context", c, own', broken') /\ HasOwn("context", c, broken')
    BY <2>4, <2>6 DEF Sound, ContentOf, HasOwn
  <2>8. Edited("context", c)
    BY <1>1, <1>3, <2>4, <2>5, <2>6, <2>7 DEF Edited
  <2> QED BY <2>8
<1> QED BY <1>4, <1>5, <1>6

\* The steps that change neither a file nor a stage.
SeedsAside == SideSpawn("codex") \/ RootWrites \/ SignIn \/ (\E id \in SkillIds : WriteSkill(id))

LEMMA SeedSteps ==
  ASSUME SeedNext
  PROVE  \/ \E p \in Seeders : Hops(p) \/ Read(p) \/ Cut(p) \/ Write(p) \/ SeederKilled(p)
         \/ WriteKey \/ DeleteMarker \/ (\E i \in Slots : RemoveServer(i))
         \/ SeedsAside
BY Zenon DEF SeedNext, SeedStep, SeedsAside, Hops, SideSpawns, SideKinds, Seeders

LEMMA SeedDataKept ==
  ASSUME SeedData, SeedNext
  PROVE  SeedData'
<1>1. ASSUME NEW p \in Seeders, Hops(p)
      PROVE  SeedData'
  <2>1. PICK at \in 0..Len(Program[p]) + 1, xdg \in BOOLEAN : SeederMoved(p, Resting(at, xdg))
    BY <1>1, SeederHops
  <2>2. GoodStage(p, Resting(at, xdg), own, broken)
    BY GoodIdle
  <2> QED BY <2>1, <2>2, SeedDataMoves DEF SeederMoved
<1>2. ASSUME NEW p \in Seeders, Read(p) PROVE SeedData'
  <2> DEFINE f == FileOf[Seed(p)]
             d == Merged(Seed(p))
  <2>1. Seeding(p) /\ Seed(p) \in DOMAIN FileOf
    BY <1>2, Reads
  <2>2. CASE SeederMoved(p, Resting(seeder[p].at + 1, seeder[p].xdg))
    <3>1. GoodStage(p, Resting(seeder[p].at + 1, seeder[p].xdg), own, broken)
      BY <2>1, SeederSeats, GoodIdle
    <3> QED BY <2>2, <3>1, SeedDataMoves DEF SeederMoved
  <2>3. CASE Makes(Seed(p), Parsed(f), d, own, broken) /\ SeederMoved(p, HoldsAt(p, "merged", d))
    <3>1. Sound(f, d, own, broken)
      BY <2>3 DEF Makes
    <3> HIDE DEF d
    <3>2. GoodStage(p, HoldsAt(p, "merged", d), own, broken)
      BY <2>1, <3>1, GoodHolding
    <3> QED BY <2>3, <3>2, SeedDataMoves DEF SeederMoved
  <2> QED BY <1>2, <2>2, <2>3, Reads
<1>3. ASSUME NEW p \in Seeders, Cut(p) PROVE SeedData'
  <2>1. \A f : GoodFile(f, TornFile, own, broken)
    BY DEF GoodFile, Blanks
  <2> QED BY <1>3, <2>1, Cuts, SeedDataWrites
<1>4. ASSUME NEW p \in Seeders, Write(p) PROVE SeedData'
  <2>1. GoodFile(FileOf[Seed(p)], seeder[p].got, own, broken)
    BY <1>4, Puts DEF GoodFile
  <2> QED BY <1>4, <2>1, Puts, SeedDataWrites
<1>5. ASSUME WriteKey \/ DeleteMarker \/ (\E i \in Slots : RemoveServer(i)) PROVE SeedData'
  <2>1. PICK f : \E c : Edited(f, c)
    BY <1>5, Edits
  <2>2. PICK c : Edited(f, c)
    BY <2>1
  <2>3. GoodFile(f, c, own', broken')
    BY <2>2 DEF Edited, GoodFile
  <2> QED BY <2>2, <2>3, SeedDataEdited DEF Edited
<1>6. ASSUME SeedsAside PROVE SeedData'
  <2>1. UNCHANGED <<file, seeder, own, broken>>
    BY <1>6 DEF SeedsAside, SideSpawn, RootWrites, SignIn, WriteSkill
  <2> QED BY <2>1 DEF SeedData
<1>7. ASSUME NEW p \in Seeders, SeederKilled(p) PROVE SeedData'
  <2>1. \A q \in Seeders : GoodStage(q, Resting(0, FALSE), own, broken)
    BY SeederSeats, GoodIdle
  <2>2. \A q \in Seeders : GoodStage(q, seeder'[q], own, broken)
    BY <1>7, <2>1, SeedersGone DEF SeedData
  <2> QED BY <1>7, <2>2, SeedersGone DEF SeedData
<1> QED BY <1>1, <1>2, <1>3, <1>4, <1>5, <1>6, <1>7, SeedSteps

-----------------------------------------------------------------------------
(* What the user wrote stays.                                              *)

LEMMA FileWriters ==
  ASSUME SeedData
  PROVE  /\ \A p \in Seeders : \A f : Writing(p, f) <=> Writes(p, seeder[p], f)
         /\ \A f : InUse(f) <=> \E p \in Seeders : Writes(p, seeder[p], f)
         /\ \A p \in Seeders : \A f, at, xdg : ~ Writes(p, Resting(at, xdg), f)
<1>1. \A p \in Seeders : Len(Program[p]) \in Nat
  BY StageFacts
<1> QED BY <1>1 DEF Writing, Writes, InUse, Seeding, Seed, Resting

LEMMA OwnHeldMoves ==
  ASSUME SeedData, OwnHeld, NEW p \in Seeders, NEW at, NEW xdg, SeederMoved(p, Resting(at, xdg)),
         \A f : Empties(p, seeder[p], f) => f \in hurt'
  PROVE  OwnHeld'
<1>1. own' \subseteq SeedFiles /\ own' \ hurt' \subseteq own \ hurt
  BY DEF OwnHeld, SeederMoved
<1>2. ASSUME NEW f \in own' \ hurt' PROVE HoldsOwn(f, file', seeder', broken')
  <2>1. HoldsOwn(f, file, seeder, broken)
    BY <1>1, <1>2 DEF OwnHeld
  <2>2. \A q \in Seeders : seeder'[q] = IF q = p THEN Resting(at, xdg) ELSE seeder[q]
    BY DEF SeedData, SeederMoved
  <2>3. \A q \in Seeders : Writes(q, seeder'[q], f) => q # p /\ Writes(q, seeder[q], f)
    BY <2>2, FileWriters
  <2>4. \A q \in Seeders : Empties(q, seeder[q], f) => q # p /\ Empties(q, seeder'[q], f)
    BY <1>2, <2>2
  <2>5. file' = file /\ broken' = broken
    BY DEF SeederMoved
  <2> QED BY <2>1, <2>2, <2>3, <2>4, <2>5 DEF HoldsOwn
<1> QED BY <1>1, <1>2 DEF OwnHeld

LEMMA OwnHeldKept ==
  ASSUME SeedData, OwnHeld, SeedNext
  PROVE  OwnHeld'
<1>1. ASSUME NEW p \in Seeders, Hops(p)
      PROVE  OwnHeld'
  <2>1. PICK at \in 0..Len(Program[p]) + 1, xdg \in BOOLEAN : SeederMoved(p, Resting(at, xdg))
    BY <1>1, SeederHops
  <2>2. ASSUME NEW f, Empties(p, seeder[p], f) PROVE f \in hurt'
    <3>1. Seeding(p) /\ Seed(p) \in DOMAIN FileOf /\ seeder[p].phase = "cut" /\ f = FileOf[Seed(p)]
      BY <2>2, StageFacts DEF Empties, Writes, Seed
    <3>2. ~ Start(p)
      BY <3>1 DEF Start, Seeding
    <3>3. ~ CopySkills(p)
      BY <3>1, FilesSeeded DEF CopySkills
    <3>4. ~ EnsureHome(p)
      <4>1. Seed(p) # "home"
        BY <3>1, FilesSeeded
      <4>2. Len(Program[p]) \in Nat
        BY StageFacts
      <4>3. ~ Done(p)
        BY <3>1, <4>2 DEF Seeding, Done
      <4> QED BY <4>1, <4>3 DEF EnsureHome
    <3>5. CASE SeedFails(p)
      BY <3>1, <3>5 DEF SeedFails, Torn
    <3>6. ~ SideSpawns(p)
      <4>1. SideSpawns(p) => seeder[p].at = 0
        BY DEF SideSpawns, SideSpawn
      <4> QED BY <3>1, <4>1 DEF Seeding
    <3> QED BY <1>1, <3>2, <3>3, <3>4, <3>5, <3>6 DEF Hops
  <2> QED BY <2>1, <2>2, OwnHeldMoves
<1>2. ASSUME NEW p \in Seeders, Read(p) PROVE OwnHeld'
  <2> DEFINE f == FileOf[Seed(p)]
             d == Merged(Seed(p))
  <2>1. /\ Seeding(p) /\ Seed(p) \in DOMAIN FileOf /\ f \in SeedFiles /\ seeder[p].phase = "idle"
        /\ ~ Absent(f) => Parsed(f) = file[f]
        /\ hurt' = IF InUse(f) THEN hurt \cup {f} ELSE hurt
    BY <1>2, Reads
  <2>2. CASE SeederMoved(p, Resting(seeder[p].at + 1, seeder[p].xdg))
    <3>1. \A g : ~ Empties(p, seeder[p], g)
      BY <2>1 DEF Empties
    <3> QED BY <2>2, <3>1, OwnHeldMoves
  <2>3. CASE Makes(Seed(p), Parsed(f), d, own, broken) /\ SeederMoved(p, HoldsAt(p, "merged", d))
    <3>1. own' \subseteq SeedFiles /\ own' \ hurt' \subseteq own \ hurt
      BY <2>3 DEF OwnHeld, SeederMoved
    <3>2. HasOwn(f, Parsed(f), broken) => HasOwn(f, d, broken)
      BY <2>3 DEF Makes
    <3> HIDE DEF d
    <3>3. \A q \in Seeders : seeder'[q] = IF q = p THEN HoldsAt(p, "merged", d) ELSE seeder[q]
      BY <2>3 DEF SeedData, SeederMoved
    <3>4. \A g : /\ Writes(p, HoldsAt(p, "merged", d), g) <=> g = f
                 /\ ~ Empties(p, HoldsAt(p, "merged", d), g)
      BY <2>1 DEF Writes, Empties, HoldsAt, Seeding, Seed
    <3>5. HoldsAt(p, "merged", d).got = d
      BY DEF HoldsAt
    <3>6. file' = file /\ broken' = broken
      BY <2>3 DEF SeederMoved
    <3>7. \A g : ~ Writes(p, seeder[p], g) /\ ~ Empties(p, seeder[p], g)
      BY <2>1 DEF Writes, Empties
    <3>8. ASSUME NEW g \in own' \ hurt' PROVE HoldsOwn(g, file', seeder', broken')
      <4>1. HoldsOwn(g, file, seeder, broken)
        BY <3>1, <3>8 DEF OwnHeld
      <4>2. CASE g # f
        <5>1. \A q \in Seeders : /\ Writes(q, seeder'[q], g) <=> Writes(q, seeder[q], g)
                                 /\ Empties(q, seeder'[q], g) <=> Empties(q, seeder[q], g)
          BY <3>3, <3>4, <3>7, <4>2
        <5>2. \A q \in Seeders : Writes(q, seeder'[q], g) => seeder'[q] = seeder[q]
          BY <3>3, <3>4, <4>2
        <5> QED BY <3>6, <4>1, <5>1, <5>2 DEF HoldsOwn
      <4>3. CASE g = f
        <5>1. \A q \in Seeders : ~ Writes(q, seeder[q], f)
          BY <2>1, <3>8, <4>3, FileWriters
        <5>2. \A q \in Seeders : ~ Empties(q, seeder[q], f)
          BY <5>1 DEF Empties
        <5>3. \/ file[f] \notin Blanks /\ HasOwn(f, file[f], broken)
              \/ f = "context" /\ broken
          BY <4>1, <4>3, <5>2 DEF HoldsOwn
        <5>4. HasOwn(f, d, broken)
          <6>1. CASE f = "context" /\ broken
            BY <6>1 DEF HasOwn
          <6>2. CASE file[f] \notin Blanks /\ HasOwn(f, file[f], broken)
            BY <2>1, <3>2, <6>2 DEF Absent, Blanks
          <6> QED BY <5>3, <6>1, <6>2
        <5>5. \A q \in Seeders : Writes(q, seeder'[q], f) => q = p
          BY <3>3, <5>1
        <5>6. \A q \in Seeders : Writes(q, seeder'[q], f) => HasOwn(f, seeder'[q].got, broken)
          BY <3>3, <3>5, <5>4, <5>5
        <5> QED BY <3>6, <4>3, <5>3, <5>5, <5>6 DEF HoldsOwn
      <4> QED BY <4>2, <4>3
    <3> QED BY <3>1, <3>8 DEF OwnHeld
  <2> QED BY <1>2, <2>2, <2>3, Reads
<1>3. ASSUME NEW p \in Seeders, Cut(p) PROVE OwnHeld'
  <2> DEFINE f == FileOf[Seed(p)]
             st == HoldsAt(p, "cut", seeder[p].got)
  <2>1. /\ f \in SeedFiles /\ Seeding(p) /\ seeder[p].phase = "merged"
        /\ file' = [file EXCEPT ![f] = TornFile] /\ seeder' = [seeder EXCEPT ![p] = st]
        /\ own' = own /\ broken' = broken /\ hurt' = hurt
    BY <1>3, Cuts
  <2>2. st.at = seeder[p].at /\ st.got = seeder[p].got /\ st.phase = "cut"
    BY DEF HoldsAt
  <2> HIDE DEF st
  <2>3. \A q \in Seeders : seeder'[q] = IF q = p THEN st ELSE seeder[q]
    BY <2>1 DEF SeedData
  <2>5. \A q \in Seeders : seeder'[q].got = seeder[q].got
    BY <2>2, <2>3
  <2>6. Empties(p, seeder'[p], f)
    BY <2>1, <2>2, <2>3 DEF Empties, Writes, Seeding, Seed
  <2>7. \A g \in SeedFiles : g # f => file'[g] = file[g]
    BY <2>1 DEF SeedData
  <2>8. ASSUME NEW g \in own' \ hurt' PROVE HoldsOwn(g, file', seeder', broken')
    <3>1. HoldsOwn(g, file, seeder, broken) /\ g \in SeedFiles
      BY <2>1, <2>8 DEF OwnHeld
    <3>3. \A q \in Seeders : /\ Writes(q, seeder'[q], g) => Writes(q, seeder[q], g)
                             /\ Empties(q, seeder[q], g) => Empties(q, seeder'[q], g)
      <4> TAKE q \in Seeders
      <4>1. CASE q = p
        BY <2>1, <2>2, <2>3, <4>1 DEF Writes, Empties
      <4>2. CASE q # p
        BY <2>3, <4>2
      <4> QED BY <4>1, <4>2
    <3>2. \/ file'[g] \notin Blanks /\ HasOwn(g, file'[g], broken)
          \/ g = "context" /\ broken
          \/ \E q \in Seeders : Empties(q, seeder'[q], g)
      <4>1. CASE g = f
        BY <2>6, <4>1
      <4>2. CASE g # f
        BY <2>7, <3>1, <3>3, <4>2 DEF HoldsOwn
      <4> QED BY <4>1, <4>2
    <3>4. \A q \in Seeders : Writes(q, seeder'[q], g) => HasOwn(g, seeder'[q].got, broken)
      BY <2>5, <3>1, <3>3 DEF HoldsOwn
    <3>5. \A q, r \in Seeders : Writes(q, seeder'[q], g) /\ Writes(r, seeder'[r], g) => q = r
      BY <3>1, <3>3 DEF HoldsOwn
    <3> QED BY <2>1, <3>2, <3>4, <3>5 DEF HoldsOwn
  <2> QED BY <2>1, <2>8 DEF OwnHeld
<1>4. ASSUME NEW p \in Seeders, Write(p) PROVE OwnHeld'
  <2> DEFINE f == FileOf[Seed(p)]
             st == Resting(seeder[p].at + 1, seeder[p].xdg)
             c == seeder[p].got
  <2>1. /\ f \in SeedFiles /\ Seeding(p) /\ seeder[p].phase = "cut"
        /\ file' = [file EXCEPT ![f] = c] /\ Sound(f, c, own, broken)
        /\ seeder' = [seeder EXCEPT ![p] = st]
        /\ own' = own /\ broken' = broken /\ hurt' = hurt
    BY <1>4, Puts
  <2>2. \A g : ~ Writes(p, st, g)
    BY FileWriters
  <2> HIDE DEF st
  <2>3. \A q \in Seeders : seeder'[q] = IF q = p THEN st ELSE seeder[q]
    BY <2>1 DEF SeedData
  <2>4. Writes(p, seeder[p], f) /\ \A g : Writes(p, seeder[p], g) => g = f
    BY <2>1 DEF Writes, Seeding, Seed
  <2>5. \A q \in Seeders : \A g : Writes(q, seeder'[q], g) => q # p /\ Writes(q, seeder[q], g)
    BY <2>2, <2>3
  <2>6. \A q \in Seeders : \A g : Empties(q, seeder[q], g) /\ g # f => Empties(q, seeder'[q], g)
    BY <2>3, <2>4 DEF Empties
  <2>7. /\ \A g \in SeedFiles : g # f => file'[g] = file[g]
        /\ file'[f] = c
    BY <2>1 DEF SeedData
  <2>8. c \notin Blanks
    BY <2>1, SeedFileAssumption DEF Sound, ContentOf, Blanks
  <2> HIDE DEF c
  <2>9. ASSUME NEW g \in own' \ hurt' PROVE HoldsOwn(g, file', seeder', broken')
    <3>1. HoldsOwn(g, file, seeder, broken) /\ g \in SeedFiles
      BY <2>1, <2>9 DEF OwnHeld
    <3>2. g = f => HasOwn(f, c, broken)
      BY <2>4, <3>1 DEF HoldsOwn, c
    <3>3. \/ file'[g] \notin Blanks /\ HasOwn(g, file'[g], broken)
          \/ g = "context" /\ broken
          \/ \E q \in Seeders : Empties(q, seeder'[q], g)
      BY <2>6, <2>7, <2>8, <3>1, <3>2 DEF HoldsOwn
    <3>4. \A q \in Seeders : Writes(q, seeder'[q], g) => HasOwn(g, seeder'[q].got, broken)
      BY <2>3, <2>5, <3>1 DEF HoldsOwn
    <3>5. \A q, r \in Seeders : Writes(q, seeder'[q], g) /\ Writes(r, seeder'[r], g) => q = r
      BY <2>5, <3>1 DEF HoldsOwn
    <3> QED BY <2>1, <3>3, <3>4, <3>5 DEF HoldsOwn
  <2> QED BY <2>1, <2>9 DEF OwnHeld
<1>5. ASSUME WriteKey \/ DeleteMarker \/ (\E i \in Slots : RemoveServer(i)) PROVE OwnHeld'
  <2>1. PICK f : \E c : Edited(f, c)
    BY <1>5, Edits
  <2>2. PICK c : Edited(f, c)
    BY <2>1
  <2>3. /\ f \in SeedFiles /\ file' = [file EXCEPT ![f] = c]
        /\ c \notin Blanks /\ HasOwn(f, c, broken')
        /\ own' = own \cup {f} /\ (broken => broken')
        /\ hurt' = IF InUse(f) THEN hurt \cup {f} ELSE hurt
        /\ seeder' = seeder
    BY <2>2 DEF Edited
  <2>4. own' \subseteq SeedFiles /\ \A g \in own' \ hurt' : g = f \/ g \in own \ hurt
    BY <2>3 DEF OwnHeld
  <2>5. /\ \A g \in SeedFiles : g # f => file'[g] = file[g]
        /\ file'[f] = c
    BY <2>3 DEF SeedData
  <2>6. \A g, x : HasOwn(g, x, broken) => HasOwn(g, x, broken')
    BY <2>3 DEF HasOwn
  <2>7. ASSUME NEW g \in own' \ hurt' PROVE HoldsOwn(g, file', seeder', broken')
    <3>1. CASE g = f
      <4>1. \A q \in Seeders : ~ Writes(q, seeder[q], f)
        BY <2>3, <2>7, <3>1, FileWriters
      <4> QED BY <2>3, <2>5, <3>1, <4>1 DEF HoldsOwn
    <3>2. CASE g # f
      <4>1. HoldsOwn(g, file, seeder, broken) /\ g \in SeedFiles
        BY <2>4, <2>7, <3>2 DEF OwnHeld
      <4> QED BY <2>3, <2>5, <2>6, <3>2, <4>1 DEF HoldsOwn
    <3> QED BY <3>1, <3>2
  <2> QED BY <2>4, <2>7 DEF OwnHeld
<1>6. ASSUME SeedsAside PROVE OwnHeld'
  <2>1. UNCHANGED <<file, seeder, own, broken, hurt>>
    BY <1>6 DEF SeedsAside, SideSpawn, RootWrites, SignIn, WriteSkill
  <2> QED BY <2>1 DEF OwnHeld
<1>7. ASSUME NEW p \in Seeders, SeederKilled(p) PROVE OwnHeld'
  <2>1. own' \subseteq SeedFiles /\ own' \ hurt' \subseteq own \ hurt
    BY <1>7, SeedersGone DEF OwnHeld
  <2>2. ASSUME NEW f \in own' \ hurt' PROVE HoldsOwn(f, file', seeder', broken')
    <3>1. HoldsOwn(f, file, seeder, broken)
      BY <2>1, <2>2 DEF OwnHeld
    <3>2. \A q \in Seeders : Writes(q, seeder'[q], f) => seeder'[q] = seeder[q]
      BY <1>7, SeedersGone, FileWriters
    <3>3. \A q \in Seeders : Empties(q, seeder[q], f) => seeder'[q] = seeder[q]
      BY <1>7, <2>2, SeedersGone
    <3>4. file' = file /\ broken' = broken
      BY <1>7, SeedersGone
    <3> QED BY <3>1, <3>2, <3>3, <3>4 DEF HoldsOwn
  <2> QED BY <2>1, <2>2 DEF OwnHeld
<1> QED BY <1>1, <1>2, <1>3, <1>4, <1>5, <1>6, <1>7, SeedSteps

-----------------------------------------------------------------------------
(* A launch that runs alone leaves each of its seeds' effects behind it.    *)

LEMMA LaunchPlaces ==
  ASSUME SeedData
  PROVE  /\ "launch" \in Seeders /\ Others \subseteq Seeders /\ "launch" \notin Others
         /\ \A p \in Seeders : p = "launch" \/ p \in Others
         /\ seeder["launch"].at \in Nat /\ seeder["launch"].xdg \in BOOLEAN
         /\ Seeding("launch") <=> seeder["launch"].at \in 1..10
         /\ \A k \in 1..10 : k < seeder["launch"].at + 1 => k < seeder["launch"].at \/ k = seeder["launch"].at
<1>1. /\ "launch" \in Seeders /\ Others \subseteq Seeders /\ "launch" \notin Others
      /\ \A p \in Seeders : p = "launch" \/ p \in Others
  BY DEF Seeders, Others
<1>2. seeder["launch"].at \in Nat /\ seeder["launch"].xdg \in BOOLEAN
  BY <1>1, SeederSeats
<1>3. Seeding("launch") <=> seeder["launch"].at \in 1..10
  BY ProgramsOf DEF Seeding
<1>4. \A n \in Nat : \A k \in 1..10 : k < n + 1 => k < n \/ k = n
  OBVIOUS
<1> QED BY <1>1, <1>2, <1>3, <1>4

\* What is achieved does not depend on where an idle launch is.
LEMMA AchievedThere ==
  ASSUME NEW s, NEW st, st.phase = "idle", NEW fs, NEW unsure, NEW sk, NEW ca, Achieved(s, st, fs, unsure, sk, ca),
         NEW at, NEW xdg, st.xdg => xdg
  PROVE  Achieved(s, Resting(at, xdg), fs, unsure, sk, ca)
<1>1. ~ Writes("launch", st, FileOf[s])
  BY DEF Writes
<1>2. Resting(at, xdg).xdg = xdg
  BY DEF Resting
<1> QED BY <1>1, <1>2 DEF Achieved

LEMMA LaunchAdvances ==
  ASSUME SeedData, LaunchAlone, Seeding("launch"), seeder["launch"].phase = "idle", NEW xdg, seeder["launch"].xdg => xdg,
         seeder' = [seeder EXCEPT !["launch"] = Resting(seeder["launch"].at + 1, xdg)],
         \A k \in 1..10 : k < seeder["launch"].at =>
           Achieved(Program["launch"][k], seeder["launch"], file', broken', skills', cache'),
         Achieved(Seed("launch"), Resting(seeder["launch"].at + 1, xdg), file', broken', skills', cache')
  PROVE  LaunchAlone'
<1> DEFINE st == seeder["launch"]
           st2 == Resting(st.at + 1, xdg)
<1>1. seeder'["launch"] = st2 /\ \A q \in Others : seeder'[q] = seeder[q]
  BY LaunchPlaces DEF SeedData
<1>2. st2.at = st.at + 1 /\ st2.phase = "idle"
  BY DEF Resting
<1>3. \A q \in Others : (~ Seeding(q))'
  BY <1>1 DEF LaunchAlone, Seeding
<1>4. ASSUME NEW k \in 1..10, k < st2.at
      PROVE  Achieved(Program["launch"][k], st2, file', broken', skills', cache')
  <2>1. k < st.at \/ k = st.at
    BY <1>2, <1>4, LaunchPlaces
  <2>2. CASE k < st.at
    BY <2>2, AchievedThere
  <2>3. CASE k = st.at
    BY <2>3 DEF Seed
  <2> QED BY <2>1, <2>2, <2>3
<1>5. Merging(st2, broken')
  BY <1>2 DEF Merging
<1> HIDE DEF st2
<1> QED BY <1>1, <1>3, <1>4, <1>5 DEF LaunchAlone

\* Which of a launch's steps may have been taken, and what they have done.
LEMMA CleanLaunchKept ==
  ASSUME SeedData, CleanLaunch, SeedTypes, SeedNext
  PROVE  CleanLaunch'
<1> SUFFICES ASSUME clean' PROVE LaunchAlone'
  BY DEF CleanLaunch
<1> DEFINE st == seeder["launch"]
<1>1. ASSUME NEW p \in Seeders, Start(p) PROVE LaunchAlone'
  <2>1. p = "launch" /\ (\A q \in Others : ~ Seeding(q)) /\ seeder' = [seeder EXCEPT ![p] = Resting(1, seeder[p].xdg)]
    BY <1>1 DEF Start, AtSeed, Resting, Beside, Others, Seeders
  <2> DEFINE st2 == Resting(1, st.xdg)
  <2>2. seeder'["launch"] = st2 /\ \A q \in Others : seeder'[q] = seeder[q]
    BY <2>1, LaunchPlaces DEF SeedData
  <2>3. st2.at = 1 /\ st2.phase = "idle"
    BY DEF Resting
  <2> HIDE DEF st2
  <2>4. \A q \in Others : (~ Seeding(q))'
    BY <2>1, <2>2 DEF Seeding
  <2>5. \A k \in 1..10 : ~ (k < st2.at)
    BY <2>3
  <2>6. Merging(st2, broken')
    BY <2>3 DEF Merging
  <2> QED BY <2>2, <2>4, <2>5, <2>6 DEF LaunchAlone
<1>2. ASSUME NEW p \in Seeders, Read(p) \/ Cut(p) \/ Write(p) \/ CopySkills(p)
      PROVE  p = "launch" /\ LaunchAlone /\ Seeding("launch") /\ st.at \in 1..10
  <2>1. Seeding(p) /\ clean' = clean
    BY <1>2 DEF Read, Cut, Write, CopySkills
  <2>2. LaunchAlone
    BY <2>1 DEF CleanLaunch
  <2> QED BY <2>1, <2>2, LaunchPlaces DEF LaunchAlone
<1>3. ASSUME NEW p \in Seeders, CopySkills(p) PROVE LaunchAlone'
  <2>1. p = "launch" /\ LaunchAlone /\ Seeding("launch")
    BY <1>2, <1>3
  <2>2. /\ Seed("launch") \in {"skills", "user skills"}
        /\ skills' = IF Seed("launch") = "skills" THEN BundledCopied ELSE PickedWritten
        /\ seeder' = [seeder EXCEPT !["launch"] = Resting(st.at + 1, st.xdg)]
        /\ file' = file /\ broken' = broken /\ cache' = cache
    BY <1>3, <2>1 DEF CopySkills, Advanced, AtSeed, Resting
  <2>3. st.phase = "idle"
    BY <2>2, StageFacts, FilesSeeded, LaunchPlaces
  <2>4. /\ Seed("launch") = "skills" => skills'[BundledId] = "bundled" /\ skills'["picked"] = skills["picked"]
        /\ Seed("launch") = "user skills" => skills'["picked"] = "picked" /\ skills'[BundledId] = skills[BundledId]
    BY <2>2 DEF SeedTypes, BundledCopied, PickedWritten, SkillIds, ReservedIds, BundledId
  <2>5. \A k \in 1..10 : k < st.at => Achieved(Program["launch"][k], st, file, broken, skills, cache)
    BY <2>1 DEF LaunchAlone
  <2>6. \A k \in 1..10 : k < st.at => Achieved(Program["launch"][k], st, file', broken', skills', cache')
    BY <2>2, <2>4, <2>5 DEF Achieved
  <2>7. Achieved(Seed("launch"), Resting(st.at + 1, st.xdg), file', broken', skills', cache')
    BY <2>2, <2>4, FilesSeeded DEF Achieved
  <2> QED BY <2>1, <2>2, <2>3, <2>6, <2>7, LaunchAdvances

<1>4. ASSUME NEW p \in Seeders, EnsureHome(p) PROVE LaunchAlone'
  <2>1. /\ LaunchAlone /\ (\A q \in Others : ~ Seeding(q))
        /\ file' = file /\ broken' = broken /\ skills' = skills
    BY <1>4 DEF EnsureHome, CleanLaunch, LaunchAlone
  <2> DEFINE at == IF Seeding(p) THEN seeder[p].at + 1 ELSE seeder[p].at
  <2>2. \/ cache' = "ours" /\ seeder' = [seeder EXCEPT ![p] = Resting(at, seeder[p].xdg)]
        \/ cache' = cache /\ seeder' = [seeder EXCEPT ![p] = Resting(at, TRUE)]
    BY <1>4 DEF EnsureHome, Reclaimed, Redirected, AtSeed, Resting
  <2>3. \A k \in 1..10 : k < st.at => Achieved(Program["launch"][k], st, file, broken, skills, cache)
    BY <2>1 DEF LaunchAlone
  <2>4. \A k \in 1..10 : k < st.at => Achieved(Program["launch"][k], st, file', broken', skills', cache')
    BY <2>1, <2>2, <2>3 DEF Achieved
  <2>5. CASE p \in Others
    <3>1. at = seeder[p].at
      BY <2>1, <2>5
    <3>2. \E xdg : seeder' = [seeder EXCEPT ![p] = Resting(at, xdg)]
      BY <2>2, <2>5
    <3> HIDE DEF at
    <3>3. seeder'["launch"] = st /\ \A q \in Others : seeder'[q].at = seeder[q].at
      BY <2>5, <3>1, <3>2, LaunchPlaces DEF SeedData, Resting
    <3>4. \A q \in Others : (~ Seeding(q))'
      BY <2>1, <3>3 DEF Seeding
    <3>5. Merging(st, broken')
      BY <2>1 DEF LaunchAlone
    <3> QED BY <2>4, <3>3, <3>4, <3>5 DEF LaunchAlone
  <2>6. CASE p = "launch"
    <3>1. Seeding("launch") /\ Seed("launch") = "home" /\ at = st.at + 1
      BY <1>4, <2>6 DEF EnsureHome
    <3>2. st.phase = "idle"
      BY <3>1, StageFacts, FilesSeeded, LaunchPlaces
    <3>3. PICK xdg : /\ seeder' = [seeder EXCEPT !["launch"] = Resting(st.at + 1, xdg)]
                     /\ st.xdg => xdg
                     /\ cache' = "ours" \/ xdg
      <4>1. CASE cache' = "ours" /\ seeder' = [seeder EXCEPT ![p] = Resting(at, seeder[p].xdg)]
        BY <2>6, <3>1, <4>1
      <4>2. CASE cache' = cache /\ seeder' = [seeder EXCEPT ![p] = Resting(at, TRUE)]
        BY <2>6, <3>1, <4>2
      <4> QED BY <2>2, <4>1, <4>2
    <3>4. Resting(st.at + 1, xdg).xdg = xdg
      BY DEF Resting
    <3>5. Achieved(Seed("launch"), Resting(st.at + 1, xdg), file', broken', skills', cache')
      BY <3>1, <3>3, <3>4, FilesSeeded DEF Achieved
    <3> QED BY <2>1, <2>4, <3>1, <3>2, <3>3, <3>5, LaunchAdvances
  <2> QED BY <2>5, <2>6, LaunchPlaces
<1>5. ASSUME NEW p \in Seeders, Read(p) PROVE LaunchAlone'
  <2> DEFINE s == Seed("launch")
             f == FileOf[s]
             c == Parsed(f)
             d == Merged(s)
  <2>1. p = "launch" /\ LaunchAlone /\ Seeding("launch") /\ st.at \in 1..10
    BY <1>2, <1>5
  <2>2. /\ s \in DOMAIN FileOf /\ f \in SeedFiles /\ st.phase = "idle"
        /\ ~ Absent(f) => c = file[f]
        /\ \/ s = "playwright" /\ SeesOwnEntry(c) /\ SeederMoved("launch", Resting(st.at + 1, st.xdg))
           \/ Makes(s, c, d, own, broken) /\ SeederMoved("launch", HoldsAt("launch", "merged", d))
    BY <1>5, <2>1, Reads
  <2>3. file' = file /\ broken' = broken /\ skills' = skills /\ cache' = cache
    BY <1>5 DEF Read
  <2>4. \A k \in 1..10 : k < st.at => Achieved(Program["launch"][k], st, file', broken', skills', cache')
    BY <2>1, <2>3 DEF LaunchAlone
  <2>5. CASE s = "playwright" /\ SeesOwnEntry(c) /\ SeederMoved("launch", Resting(st.at + 1, st.xdg))
    <3>1. PICK i \in Slots : c.mcp[i] = "stdio"
      BY <2>5 DEF SeesOwnEntry
    <3>2. ~ Absent(f)
      <4>1. EmptyConfig.mcp[i] = "free"
        BY DEF EmptyConfig
      <4> QED BY <2>5, <3>1, <4>1, FilesSeeded DEF Parsed
    <3>3. file[f] \notin Blanks /\ \E j \in Slots : file[f].mcp[j] = "stdio"
      BY <2>2, <3>1, <3>2 DEF Absent, Blanks
    <3>4. Effect("playwright", file[f], broken)
      BY <3>3 DEF Effect
    <3>5. Achieved(s, Resting(st.at + 1, st.xdg), file', broken', skills', cache')
      BY <2>3, <2>5, <3>3, <3>4 DEF Achieved
    <3> QED BY <2>1, <2>2, <2>4, <2>5, <3>5, LaunchAdvances DEF SeederMoved
  <2>6. CASE Makes(s, c, d, own, broken) /\ SeederMoved("launch", HoldsAt("launch", "merged", d))
    <3> DEFINE st2 == HoldsAt("launch", "merged", d)
    <3>1. st2.at = st.at /\ st2.got = d /\ st2.phase = "merged" /\ st2.xdg = st.xdg
      BY DEF HoldsAt
    <3>2. /\ Effect(s, d, broken)
          /\ \A r \in DOMAIN FileOf : FileOf[r] = f /\ Effect(r, c, broken) => Effect(r, d, broken)
      BY <2>6 DEF Makes
    <3> HIDE DEF d, st2
    <3>3. seeder'["launch"] = st2 /\ \A q \in Others : seeder'[q] = seeder[q]
      BY <2>6, LaunchPlaces DEF SeederMoved, SeedData, st2
    <3>4. \A q \in Others : (~ Seeding(q))'
      BY <2>1, <3>3 DEF LaunchAlone, Seeding
    <3>5. \A r \in DOMAIN FileOf : ~ Writes("launch", st, FileOf[r])
      BY <2>2 DEF Writes
    <3>6. ASSUME NEW k \in 1..10, k < st2.at
          PROVE  Achieved(Program["launch"][k], st2, file', broken', skills', cache')
      BY <2>4, <3>1, <3>5, <3>6 DEF Achieved
    <3>7. ASSUME NEW k \in 1..st2.at, Program["launch"][k] \in DOMAIN FileOf, FileOf[Program["launch"][k]] = f
          PROVE  Effect(Program["launch"][k], st2.got, broken')
      <4> DEFINE r == Program["launch"][k]
      <4>1. k \in 1..10 /\ (k < st.at \/ k = st.at)
        BY <2>1, <3>1
      <4>2. CASE k = st.at
        BY <2>3, <3>1, <3>2, <4>2 DEF Seed
      <4>3. CASE k < st.at
        <5>1. Achieved(r, st, file, broken, skills, cache)
          BY <2>3, <2>4, <4>1, <4>3
        <5>2. file[f] \notin Blanks /\ Effect(r, file[f], broken)
          BY <3>5, <3>7, <5>1 DEF Achieved
        <5>3. Effect(r, c, broken)
          BY <2>2, <5>2 DEF Absent, Blanks
        <5> QED BY <2>3, <3>1, <3>2, <3>7, <5>3
      <4> QED BY <4>1, <4>2, <4>3
    <3>8. Merging(st2, broken')
      BY <3>1, <3>7 DEF Merging, Seed
    <3> QED BY <3>3, <3>4, <3>6, <3>8 DEF LaunchAlone
  <2> QED BY <2>2, <2>5, <2>6
<1>6. ASSUME NEW p \in Seeders, Cut(p) PROVE LaunchAlone'
  <2> DEFINE f == FileOf[Seed("launch")]
             st2 == HoldsAt("launch", "cut", st.got)
  <2>1. p = "launch" /\ LaunchAlone /\ Seeding("launch") /\ st.at \in 1..10
    BY <1>2, <1>6
  <2>2. /\ f \in SeedFiles /\ st.phase = "merged"
        /\ file' = [file EXCEPT ![f] = TornFile] /\ seeder' = [seeder EXCEPT !["launch"] = st2]
    BY <1>6, <2>1, Cuts
  <2>3. broken' = broken /\ skills' = skills /\ cache' = cache
    BY <1>6 DEF Cut
  <2>4. st2.at = st.at /\ st2.got = st.got /\ st2.phase = "cut" /\ st2.xdg = st.xdg
    BY DEF HoldsAt
  <2> HIDE DEF st2
  <2>5. seeder'["launch"] = st2 /\ \A q \in Others : seeder'[q] = seeder[q]
    BY <2>2, LaunchPlaces DEF SeedData
  <2>6. \A q \in Others : (~ Seeding(q))'
    BY <2>1, <2>5 DEF LaunchAlone, Seeding
  <2>7. \A g : Writes("launch", st, g) <=> Writes("launch", st2, g)
    BY <2>2, <2>4 DEF Writes
  <2>8. Writes("launch", st, f) /\ \A g \in SeedFiles : g # f => file'[g] = file[g]
    BY <2>1, <2>2 DEF SeedData, Writes, Seeding, Seed
  <2>9. ASSUME NEW k \in 1..10, k < st2.at
        PROVE  Achieved(Program["launch"][k], st2, file', broken', skills', cache')
    <3>1. Achieved(Program["launch"][k], st, file, broken, skills, cache)
      BY <2>1, <2>4, <2>9 DEF LaunchAlone
    <3>2. \A r \in DOMAIN FileOf : FileOf[r] \in SeedFiles
      BY DEF SeedFiles
    <3> QED BY <2>3, <2>4, <2>7, <2>8, <3>1, <3>2 DEF Achieved
  <2>10. Merging(st2, broken')
    <3>1. Merging(st, broken)
      BY <2>1 DEF LaunchAlone
    <3> QED BY <2>2, <2>3, <2>4, <3>1 DEF Merging
  <2> QED BY <2>5, <2>6, <2>9, <2>10 DEF LaunchAlone
<1>7. ASSUME NEW p \in Seeders, Write(p) PROVE LaunchAlone'
  <2> DEFINE f == FileOf[Seed("launch")]
             st2 == Resting(st.at + 1, st.xdg)
             c == st.got
  <2>1. p = "launch" /\ LaunchAlone /\ Seeding("launch") /\ st.at \in 1..10
    BY <1>2, <1>7
  <2>2. /\ f \in SeedFiles /\ Seed("launch") \in DOMAIN FileOf /\ st.phase = "cut" /\ Sound(f, c, own, broken)
        /\ file' = [file EXCEPT ![f] = c] /\ seeder' = [seeder EXCEPT !["launch"] = st2]
    BY <1>7, <2>1, Puts
  <2>3. broken' = broken /\ skills' = skills /\ cache' = cache
    BY <1>7 DEF Write
  <2>4. st2.at = st.at + 1 /\ st2.phase = "idle" /\ st2.xdg = st.xdg
    BY DEF Resting
  <2> HIDE DEF st2
  <2>5. seeder'["launch"] = st2 /\ \A q \in Others : seeder'[q] = seeder[q]
    BY <2>2, LaunchPlaces DEF SeedData
  <2>6. \A q \in Others : (~ Seeding(q))'
    BY <2>1, <2>5 DEF LaunchAlone, Seeding
  <2>7. c \notin Blanks
    BY <2>2, SeedFileAssumption DEF Sound, ContentOf, Blanks
  <2>8. file'[f] = c /\ \A g \in SeedFiles : g # f => file'[g] = file[g]
    BY <2>2 DEF SeedData
  <2>9. \A g : Writes("launch", st, g) => g = f
    BY DEF Writes, Seed
  <2>10. \A k \in 1..st.at : Program["launch"][k] \in DOMAIN FileOf /\ FileOf[Program["launch"][k]] = f =>
           Effect(Program["launch"][k], c, broken)
    BY <2>1, <2>2 DEF LaunchAlone, Merging, Seed
  <2> HIDE DEF c
  <2>11. ASSUME NEW k \in 1..10, k < st2.at
         PROVE  Achieved(Program["launch"][k], st2, file', broken', skills', cache')
    <3> DEFINE r == Program["launch"][k]
    <3>1. k \in 1..st.at /\ (k < st.at \/ k = st.at)
      BY <2>1, <2>4, <2>11
    <3>2. CASE r \in DOMAIN FileOf /\ FileOf[r] = f
      <4>1. Effect(r, file'[f], broken') /\ file'[f] \notin Blanks
        BY <2>3, <2>7, <2>8, <2>10, <3>1, <3>2
      <4>2. r \notin {"home", "skills", "user skills"}
        BY <3>2, FilesSeeded
      <4>3. file'[FileOf[r]] \notin Blanks /\ Effect(r, file'[FileOf[r]], broken')
        BY <3>2, <4>1
      <4> HIDE DEF r
      <4>9. Achieved(r, st2, file', broken', skills', cache')
        BY <4>2, <4>3 DEF Achieved
      <4> QED BY <4>9 DEF r
    <3>3. CASE ~ (r \in DOMAIN FileOf /\ FileOf[r] = f)
      <4>1. k < st.at
        BY <2>2, <3>1, <3>3 DEF Seed
      <4>2. Achieved(r, st, file, broken, skills, cache)
        BY <2>1, <4>1 DEF LaunchAlone
      <4>3. \A q \in DOMAIN FileOf : FileOf[q] \in SeedFiles
        BY DEF SeedFiles
      <4> HIDE DEF r
      <4>4. ASSUME r \in DOMAIN FileOf
            PROVE  file'[FileOf[r]] \notin Blanks /\ Effect(r, file'[FileOf[r]], broken')
        <5>1. FileOf[r] # f /\ FileOf[r] \in SeedFiles
          BY <3>3, <4>3, <4>4
        <5>2. file[FileOf[r]] \notin Blanks /\ Effect(r, file[FileOf[r]], broken)
          BY <2>9, <4>2, <4>4, <5>1 DEF Achieved
        <5> QED BY <2>3, <2>8, <5>1, <5>2
      <4>5. /\ r = "home" => cache' = "ours" \/ st2.xdg
            /\ r = "skills" => skills'[BundledId] = "bundled"
            /\ r = "user skills" => skills'["picked"] = "picked"
        BY <2>3, <2>4, <4>2 DEF Achieved
      <4>9. Achieved(r, st2, file', broken', skills', cache')
        BY <4>4, <4>5 DEF Achieved
      <4> QED BY <4>9 DEF r
    <3> QED BY <3>2, <3>3
  <2>12. Merging(st2, broken')
    BY <2>4 DEF Merging
  <2> QED BY <2>5, <2>6, <2>11, <2>12 DEF LaunchAlone
<1>8. ASSUME NEW kind \in SideKinds, SideSpawn(kind) PROVE LaunchAlone'
  <2>1. LaunchAlone /\ UNCHANGED <<file, broken, skills, cache, seeder>>
    BY <1>8 DEF SideSpawn, CleanLaunch
  <2> QED BY <2>1 DEF LaunchAlone, Seeding
<1>9. \A p \in Seeders : ~ SeedFails(p) /\ ~ SeederKilled(p)
  BY DEF SeedFails, SeederKilled
<1>10. ~ RootWrites /\ ~ WriteKey /\ ~ DeleteMarker /\ ~ SignIn /\ \A i \in Slots : ~ RemoveServer(i)
  BY DEF RootWrites, WriteKey, DeleteMarker, SignIn, RemoveServer, EditFile
<1>11. \A id \in SkillIds : ~ WriteSkill(id)
  BY DEF WriteSkill
<1> QED BY <1>1, <1>3, <1>4, <1>5, <1>6, <1>7, <1>8, <1>9, <1>10, <1>11 DEF SeedNext, SeedStep

-----------------------------------------------------------------------------
(* The rest of the state.                                                  *)

LEMMA SeedTypesKept ==
  ASSUME SeedData, SeedTypes, SeedNext
  PROVE  SeedTypes'
<1> USE DEF SeedTypes
<1>1. ASSUME NEW S \in SUBSET Seeders PROVE Torn(S) \subseteq SeedFiles
  BY StageFacts DEF Torn
<1>2. ASSUME NEW p \in Seeders, Start(p) PROVE SeedTypes'
  <2>1. runs' \in [Seeders -> 0..MaxRuns]
    BY <1>2, SeedAssumption DEF Start
  <2> QED BY <1>2, <2>1 DEF Start
<1>3. ASSUME NEW p \in Seeders, Read(p) PROVE SeedTypes'
  <2>1. hurt' \subseteq SeedFiles
    BY <1>3, Reads
  <2> QED BY <1>3, <2>1 DEF Read, CodexSeeded
<1>4. ASSUME NEW p \in Seeders, Cut(p) \/ Write(p) PROVE SeedTypes'
  BY <1>4 DEF Cut, Write
<1>5. ASSUME NEW p \in Seeders, CopySkills(p) PROVE SeedTypes'
  <2>1. skills' \in [SkillIds -> {"none", "bundled", "picked", "own"}]
    BY <1>5 DEF CopySkills, BundledCopied, PickedWritten
  <2> QED BY <1>5, <2>1 DEF CopySkills
<1>6. ASSUME NEW p \in Seeders, EnsureHome(p) PROVE SeedTypes'
  BY <1>6 DEF EnsureHome, Reclaimed, Redirected
<1>7. ASSUME NEW p \in Seeders, SeedFails(p) \/ SeederKilled(p) PROVE SeedTypes'
  <2>1. mishaps' \in 0..MaxMishaps
    <3>1. mishaps < MaxMishaps /\ mishaps' = mishaps + 1
      BY <1>7, Zenon DEF SeedFails, SeederKilled, Mishap
    <3> QED BY <3>1, SeedAssumption
  <2>2. hurt' \subseteq SeedFiles
    <3>1. {p} \subseteq Seeders /\ KilledWith(p) \subseteq Seeders
      BY DEF KilledWith, Seeders
    <3> QED BY <1>1, <1>7, <3>1 DEF SeedFails, SeederKilled
  <2> QED BY <1>7, <2>1, <2>2 DEF SeedFails, SeederKilled
<1>8. ASSUME NEW kind \in SideKinds, SideSpawn(kind) PROVE SeedTypes'
  <2>1. mishaps' \in 0..MaxMishaps
    <3>1. mishaps' = mishaps \/ (mishaps < MaxMishaps /\ mishaps' = mishaps + 1)
      BY <1>8, Zenon DEF SideSpawn, Mishap
    <3> QED BY <3>1, SeedAssumption
  <2> QED BY <1>8, <2>1 DEF SideSpawn
<1>10. ASSUME RootWrites \/ SignIn PROVE SeedTypes'
  <2>1. mishaps' \in 0..MaxMishaps
    BY <1>10, SeedAssumption DEF RootWrites, SignIn, Mishap
  <2> QED BY <1>10, <2>1 DEF RootWrites, SignIn
<1>11. ASSUME NEW id \in SkillIds, WriteSkill(id) PROVE SeedTypes'
  <2>1. mishaps' \in 0..MaxMishaps
    BY <1>11, SeedAssumption DEF WriteSkill, Mishap
  <2> QED BY <1>11, <2>1 DEF WriteSkill
<1>9. ASSUME WriteKey \/ DeleteMarker \/ (\E i \in Slots : RemoveServer(i)) PROVE SeedTypes'
  <2>1. PICK f : EditFile(f) /\ f \in SeedFiles
    BY <1>9, FilesSeeded DEF WriteKey, DeleteMarker, RemoveServer
  <2>2. mishaps' \in 0..MaxMishaps
    BY <2>1, SeedAssumption DEF EditFile, Mishap
  <2> QED BY <2>1, <2>2 DEF EditFile
<1> QED BY <1>2, <1>3, <1>4, <1>5, <1>6, <1>7, <1>8, <1>9, <1>10, <1>11 DEF SeedNext, SeedStep

LEMMA SeedFlagsKept ==
  ASSUME SeedFlags, SeedNext
  PROVE  SeedFlags'
<1>1. ASSUME NEW p \in Seeders, Start(p) PROVE SeedFlags'
  <2>1. signed' = (signed /\ p # "boot") /\ clean' \in BOOLEAN /\ broken' = broken /\ codex' = codex
    BY <1>1, Zenon DEF Start
  <2>2. sideSeeded' = {kind \in sideSeeded : p # "boot"}
    BY <1>1, Zenon DEF Start
  <2>3. sideSeeded' \subseteq sideSeeded /\ (p # "boot" => sideSeeded' = sideSeeded)
    BY <2>2
  <2> QED BY <2>1, <2>3, Zenon DEF SeedFlags
<1>2. ASSUME NEW p \in Seeders, Cut(p) \/ Write(p) \/ CopySkills(p) \/ EnsureHome(p) PROVE SeedFlags'
  <2>1. UNCHANGED <<codex, sideSeeded, broken, signed, clean>>
    BY <1>2, Zenon DEF Cut, Write, CopySkills, EnsureHome
  <2> QED BY <2>1, Zenon DEF SeedFlags
<1>3. ASSUME NEW p \in Seeders, Read(p) PROVE SeedFlags'
  <2>1. sideSeeded' = sideSeeded /\ broken' = broken /\ clean' = clean
    BY <1>3, Zenon DEF Read
  <2>2. signed' = FALSE \/ (signed' = signed /\ codex' = codex)
    BY <1>3, Zenon DEF Read, CodexSeeded
  <2>3. CASE signed' = FALSE
    BY <2>1, <2>3, Zenon DEF SeedFlags
  <2>4. CASE signed' = signed /\ codex' = codex
    BY <2>1, <2>4, Zenon DEF SeedFlags
  <2> QED BY <2>2, <2>3, <2>4, Zenon
<1>4. ASSUME NEW p \in Seeders, SeedFails(p) \/ SeederKilled(p) PROVE SeedFlags'
  <2>1. sideSeeded' = sideSeeded /\ broken' = broken /\ clean' = FALSE /\ signed' = signed /\ codex' = codex
    BY <1>4, Zenon DEF SeedFails, SeederKilled
  <2> QED BY <2>1, Zenon DEF SeedFlags
<1>5. ASSUME NEW kind \in SideKinds, SideSpawn(kind) PROVE SeedFlags'
  <2>1. kind \notin sideSeeded /\ broken' = broken /\ (clean' = clean \/ clean' = FALSE) /\ signed' = signed
    BY <1>5, Zenon DEF SideSpawn
  <2>2. sideSeeded' = sideSeeded \cup {kind}
    BY <1>5, Zenon DEF SideSpawn
  <2>3. sideSeeded' \subseteq SideKinds /\ sideSeeded \subseteq sideSeeded'
    BY <2>2 DEF SeedFlags
  <2>4. kind # "codex" => codex' = codex
    BY <1>5, Zenon DEF SideSpawn
  <2>5. CASE kind = "codex"
    <3>1. ~ signed
      BY <2>1, <2>5, Zenon DEF SeedFlags
    <3> QED BY <2>1, <2>3, <3>1, Zenon DEF SeedFlags
  <2>6. CASE kind # "codex"
    BY <2>1, <2>3, <2>4, <2>6, Zenon DEF SeedFlags
  <2> QED BY <2>5, <2>6, Zenon
<1>6. ASSUME RootWrites PROVE SeedFlags'
  BY <1>6, Zenon DEF RootWrites, SeedFlags
<1>7. ASSUME SignIn PROVE SeedFlags'
  <2>1. signed' = ("codex" \in sideSeeded) /\ codex' = "own" /\ clean' = FALSE
        /\ sideSeeded' = sideSeeded /\ broken' = broken
    BY <1>7, Zenon DEF SignIn
  <2>2. signed' \in BOOLEAN
    BY <2>1
  <2> QED BY <2>1, <2>2, Zenon DEF SeedFlags
<1>9. ASSUME NEW id \in SkillIds, WriteSkill(id) PROVE SeedFlags'
  BY <1>9, Zenon DEF WriteSkill, SeedFlags
<1>8. ASSUME WriteKey \/ DeleteMarker \/ (\E i \in Slots : RemoveServer(i)) PROVE SeedFlags'
  <2>1. broken' = broken \/ broken' = TRUE
    BY <1>8, Zenon DEF WriteKey, DeleteMarker, RemoveServer
  <2>2. sideSeeded' = sideSeeded /\ clean' = FALSE /\ signed' = signed /\ codex' = codex
    BY <1>8, Zenon DEF WriteKey, DeleteMarker, RemoveServer, EditFile
  <2> QED BY <2>1, <2>2, Zenon DEF SeedFlags
<1> QED BY <1>1, <1>2, <1>3, <1>4, <1>5, <1>6, <1>7, <1>8, <1>9, Zenon DEF SeedNext, SeedStep

-----------------------------------------------------------------------------
(* The theorem.                                                            *)

LEMMA SeedsStart ==
  ASSUME SeedInit
  PROVE  SeedInv
<1>1. DOMAIN file = SeedFiles /\ DOMAIN seeder = Seeders
  BY DEF SeedInit
<1>2. \A p \in Seeders : seeder[p] = Resting(0, FALSE)
  BY DEF SeedInit, Resting
<1>3. \A p \in Seeders : 0 \in 0..Len(Program[p]) + 1
  <2>1. \A p \in Seeders : Len(Program[p]) \in Nat
    <3> TAKE p \in Seeders
    <3>1. Len(Program[p]) \in {1, 2, 10}
      BY ProgramsOf DEF Seeders
    <3> QED BY <3>1
  <2> QED BY <2>1
<1>4. \A p \in Seeders : GoodStage(p, seeder[p], own, broken)
  BY <1>2, <1>3, GoodIdle
<1> DEFINE c == [EmptyConfig EXCEPT !.keys = {"legacy", "own"}]
<1>5. c \in JsonContent /\ "own" \in c.keys /\ c \notin Blanks
  <2>1. c \in JsonContent /\ c.keys = {"legacy", "own"}
    BY DEF EmptyConfig, JsonContent
  <2> HIDE DEF c
  <2> QED BY <2>1, SeedFileAssumption DEF Blanks
<1>6. file["opencode"] = c /\ file["context"] = <<"own">> /\ file["claude"] \in Blanks /\ file["settings"] \in Blanks
  BY FilesSeeded DEF SeedInit, Blanks
<1> DEFINE t == <<"own">>
<1>7. t \in Seq(Pieces) /\ Len(t) = 1 /\ t[1] = "own"
  BY PieceNames
<1>8. own = {"context", "opencode"} /\ hurt = {} /\ broken = FALSE
  BY DEF SeedInit
<1> HIDE DEF c, t
<1>9. Tidy(t) /\ Occurs("own", t) /\ t \notin Blanks
  <2>1. \A i \in 1..Len(t) : t[i] = "own"
    BY <1>7
  <2>2. 1 \in 1..Len(t)
    BY <1>7
  <2> QED BY <1>7, <2>1, <2>2, SeedFileAssumption DEF Tidy, WholeOnce, Occurs, Blanks
<1>10. file["context"] = t
  BY <1>6 DEF t
<1>11. \A f \in SeedFiles : GoodFile(f, file[f], own, broken)
  BY <1>5, <1>6, <1>7, <1>9, <1>10, FilesSeeded DEF GoodFile, Sound, ContentOf
<1>12. SeedData
  BY <1>1, <1>4, <1>11 DEF SeedData
<1>13. OwnHeld
  <2>1. \A p \in Seeders : \A f : ~ Writes(p, seeder[p], f)
    BY <1>2, <1>12, FileWriters
  <2>2. \A f \in own : file[f] \notin Blanks /\ HasOwn(f, file[f], broken)
    BY <1>5, <1>6, <1>8, <1>9, <1>10 DEF HasOwn
  <2> QED BY <1>8, <2>1, <2>2, FilesSeeded DEF OwnHeld, HoldsOwn
<1>14. CleanLaunch
  BY DEF CleanLaunch, SeedInit
<1>15. SeedTypes
  <2>1. runs \in [Seeders -> 0..MaxRuns] /\ mishaps \in 0..MaxMishaps
    BY SeedAssumption DEF SeedInit
  <2>2. skills \in [SkillIds -> {"none", "bundled", "picked", "own"}]
    BY DEF SeedInit
  <2> QED BY <2>1, <2>2 DEF SeedInit, SeedTypes
<1>16. SeedFlags
  <2>1. sideSeeded = {} /\ broken = FALSE /\ signed = FALSE /\ clean = FALSE
    BY Zenon DEF SeedInit
  <2>2. sideSeeded \subseteq SideKinds
    BY <2>1
  <2> QED BY <2>1, <2>2, Zenon DEF SeedFlags
<1> QED BY <1>12, <1>13, <1>14, <1>15, <1>16 DEF SeedInv

LEMMA SeedsStep ==
  SeedInv /\ [SeedNext]_seedVars => SeedInv'
<1> SUFFICES ASSUME SeedInv, [SeedNext]_seedVars PROVE SeedInv'
  OBVIOUS
<1> USE DEF SeedInv
<1>1. CASE SeedNext
  BY <1>1, SeedDataKept, OwnHeldKept, CleanLaunchKept, SeedTypesKept, SeedFlagsKept
<1>2. CASE UNCHANGED seedVars
  <2> USE <1>2 DEF seedVars
  <2>1. SeedData' /\ OwnHeld'
    BY DEF SeedData, OwnHeld
  <2>2. CleanLaunch'
    BY DEF CleanLaunch, LaunchAlone, Seeding
  <2>3. SeedTypes'
    BY DEF SeedTypes
  <2>4. SeedFlags'
    BY Zenon DEF SeedFlags
  <2> QED BY <2>1, <2>2, <2>3, <2>4
<1> QED BY <1>1, <1>2

\* A marker of a whole block that occurs is at one place, and so is its end.
LEMMA OnePlace ==
  ASSUME NEW P, NEW t \in Seq(P), NEW a, NEW b, WholeOnce(t, a, b), Occurs(a, t)
  PROVE  Cardinality(Places(t, a)) = 1 /\ Cardinality(Places(t, b)) = 1
<1>1. Len(t) \in Nat /\ DOMAIN t = 1..Len(t)
  OBVIOUS
<1>2. PICK i \in 1..Len(t) : t[i] = a
  BY DEF Occurs
<1>3. i + 1 \in 1..Len(t) /\ t[i + 1] = b
  BY <1>2 DEF WholeOnce
<1>4. Places(t, a) = {i}
  BY <1>1, <1>2 DEF Places, WholeOnce
<1>5. Places(t, b) = {i + 1}
  <2>1. ASSUME NEW k \in 1..Len(t), t[k] = b PROVE k = i + 1
    <3>1. k - 1 \in 1..Len(t) /\ t[k - 1] = a
      BY <2>1 DEF WholeOnce
    <3>2. k - 1 = i
      BY <1>2, <3>1 DEF WholeOnce
    <3> QED BY <1>1, <3>2
  <2> QED BY <1>1, <1>3, <2>1 DEF Places
<1> QED BY <1>4, <1>5, FS_Singleton

LEMMA SeedsAre ==
  ASSUME SeedInv
  PROVE  SeedsSafe
<1> USE DEF SeedInv
<1>1. SeedTypeOK
  <2>1. \A f \in JsonFiles : Absent(f) \/ file[f] \in JsonContent
    BY FilesSeeded DEF SeedData, GoodFile, Sound, ContentOf, Absent, Blanks
  <2>2. Absent("context") \/ file["context"] \in Seq(Pieces)
    BY FilesSeeded DEF SeedData, GoodFile, Sound, ContentOf, Absent, Blanks
  <2>3. \A p \in Seeders : /\ seeder[p].at \in 0..Len(Program[p]) + 1
                           /\ seeder[p].phase \in {"idle", "merged", "cut"}
                           /\ seeder[p].xdg \in BOOLEAN
    BY StageFacts
  <2>4. own \subseteq SeedFiles
    BY DEF OwnHeld
  <2>5. sideSeeded \subseteq SideKinds /\ {broken, signed, clean} \subseteq BOOLEAN
    BY Zenon DEF SeedFlags
  <2> QED BY <2>1, <2>2, <2>3, <2>4, <2>5 DEF SeedTypeOK, SeedTypes
<1>2. OwnKept
  <2>1. ASSUME NEW f \in own \ hurt
        PROVE  \/ OwnIn(f)
               \/ f = "context" /\ broken
               \/ \E p \in Seeders : seeder[p].phase = "cut" /\ FileOf[Seed(p)] = f
    <3>1. HoldsOwn(f, file, seeder, broken) /\ f \in SeedFiles
      BY DEF OwnHeld
    <3>2. CASE file[f] \notin Blanks /\ HasOwn(f, file[f], broken) /\ ~ (f = "context" /\ broken)
      <4>1. ~ Absent(f)
        BY <3>2 DEF Absent, Blanks
      <4>2. CASE f = "context"
        <5>1. file[f] \in Seq(Pieces) /\ Occurs("own", file[f])
          BY <3>1, <3>2, <4>2 DEF HasOwn, SeedData, GoodFile, Sound, ContentOf
        <5>2. Places(file[f], "own") # {}
          BY <5>1 DEF Occurs, Places
        <5> QED BY <4>1, <4>2, <5>2 DEF OwnIn
      <4>3. CASE f # "context"
        BY <3>2, <4>1, <4>3 DEF HasOwn, OwnIn
      <4> QED BY <4>2, <4>3
    <3>3. CASE \E p \in Seeders : Empties(p, seeder[p], f)
      BY <3>3 DEF Empties, Writes, Seed
    <3> QED BY <3>1, <3>2, <3>3 DEF HoldsOwn
  <2> QED BY <2>1 DEF OwnKept
<1>3. Configured
  <2> SUFFICES ASSUME Done("launch"), clean
               PROVE  Configured
    BY DEF Configured
  <2> DEFINE st == seeder["launch"]
  <2>1. st.at = 11 /\ LaunchAlone
    <3>1. st.at = Len(Program["launch"]) + 1 /\ Len(Program["launch"]) = 10
      BY ProgramsOf DEF Done
    <3>2. LaunchAlone
      BY Zenon DEF CleanLaunch
    <3> QED BY <3>1, <3>2
  <2>2. \A f : ~ Writes("launch", st, f)
    <3>1. st.at \notin 1..Len(Program["launch"])
      <4>1. 11 \notin 1..10
        OBVIOUS
      <4>2. Len(Program["launch"]) = 10
        BY ProgramsOf
      <4> QED BY <2>1, <4>1, <4>2, Zenon
    <3> HIDE DEF st
    <3> QED BY <3>1 DEF Writes
  <2>3. \A k \in 1..10 : Achieved(Program["launch"][k], st, file, broken, skills, cache)
    BY <2>1 DEF LaunchAlone
  <2>4. \A s \in {"home", "auth", "servers", "playwright", "settings", "skills", "user skills",
                  "providers", "context", "guidance"} : Achieved(s, st, file, broken, skills, cache)
    <3>1. \A k \in {1, 2, 3, 4, 5, 6, 7, 8, 9, 10} : Achieved(Program["launch"][k], st, file, broken, skills, cache)
      BY <2>3
    <3> HIDE DEF st
    <3> QED BY <3>1, ProgramsOf
  <2>5. \A s \in DOMAIN FileOf : file[FileOf[s]] \notin Blanks /\ Effect(s, file[FileOf[s]], broken)
    BY <2>2, <2>4, FilesSeeded DEF Achieved
  <2>6. \A s \in DOMAIN FileOf : ~ Absent(FileOf[s])
    BY <2>5 DEF Absent, Blanks
  <2>7. /\ Effect("auth", file["claude"], broken) /\ Effect("servers", file["claude"], broken)
        /\ Effect("playwright", file["claude"], broken) /\ Effect("settings", file["settings"], broken)
        /\ Effect("providers", file["opencode"], broken)
        /\ Effect("context", file["context"], broken) /\ Effect("guidance", file["context"], broken)
    BY <2>5, FilesSeeded
  <2>8. /\ "onboarded" \in file["claude"].keys
        /\ {"http", "stdio"} \subseteq {file["claude"].mcp[i] : i \in Slots}
        /\ {"bypass", "unrestricted"} \subseteq file["settings"].keys
        /\ "provider" \in file["opencode"].keys /\ "legacy" \notin file["opencode"].keys
    BY <2>7 DEF Effect
  <2>9. ASSUME ~ broken
        PROVE  \A b \in DOMAIN Markers : \A i \in 1..2 : Cardinality(Places(file["context"], Markers[b][i])) = 1
    <3> DEFINE t == file["context"]
    <3>1. t \in Seq(Pieces) /\ Tidy(t)
      BY <2>5, <2>9, FilesSeeded DEF SeedData, GoodFile, Sound, ContentOf
    <3>2. Occurs("ctx[", t) /\ Occurs("gd[", t)
      BY <2>7, <2>9 DEF Effect
    <3> HIDE DEF t
    <3>3. /\ Cardinality(Places(t, "ctx[")) = 1 /\ Cardinality(Places(t, "ctx]")) = 1
          /\ Cardinality(Places(t, "gd[")) = 1 /\ Cardinality(Places(t, "gd]")) = 1
      BY <3>1, <3>2, OnePlace DEF Tidy
    <3>4. /\ Markers["context"][1] = "ctx[" /\ Markers["context"][2] = "ctx]"
          /\ Markers["guidance"][1] = "gd[" /\ Markers["guidance"][2] = "gd]"
      BY PieceNames
    <3>5. \A i \in 1..2 : i = 1 \/ i = 2
      OBVIOUS
    <3>6. \A b \in DOMAIN Markers : \A i \in 1..2 : Cardinality(Places(t, Markers[b][i])) = 1
      BY <3>3, <3>4, <3>5, PieceNames
    <3> QED BY <3>6 DEF t
  <2>10. skills[BundledId] = "bundled" /\ skills["picked"] = "picked" /\ (cache = "ours" \/ st.xdg)
    BY <2>4 DEF Achieved
  <2>11. ~ Absent("context") /\ \A s \in {"auth", "servers", "playwright", "settings", "providers"} : ~ Absent(FileOf[s])
    BY <2>6, FilesSeeded
  <2> QED BY <2>8, <2>9, <2>10, <2>11 DEF Configured
<1>4. StdioOnce
  <2> SUFFICES ASSUME ~ Absent("claude"), "claude" \notin own
               PROVE  Cardinality({i \in Slots : file["claude"].mcp[i] = "stdio"}) <= 1
    BY DEF StdioOnce
  <2> DEFINE T == {i \in Slots : file["claude"].mcp[i] = "stdio"}
  <2>1. \A i, j \in T : i = j
    BY FilesSeeded DEF SeedData, GoodFile, Sound, Absent, Blanks, Once
  <2> HIDE DEF T
  <2>2. T = {} \/ \E i : T = {i}
    BY <2>1
  <2>3. Cardinality(T) \in {0, 1}
    BY <2>2, FS_EmptySet, FS_Singleton
  <2>4. Cardinality(T) <= 1
    BY <2>3
  <2> QED BY <2>4 DEF T
<1>5. SignInKept
  BY Zenon DEF SeedFlags, SignInKept
<1> QED BY <1>1, <1>2, <1>3, <1>4, <1>5 DEF SeedsSafe

LEMMA SeedingAlone == [Next]_agentServicesVars => [SeedNext]_seedVars
BY DEF Next, agentServicesVars

(* The seeds of a box (server.js, agent-launch.sh, sideAgentAuth.js) leave an agent
   whose launch ran alone with all of its configuration, whatever came before; the
   user's keys and texts in the files they share, unless two wrote one at once, a
   write broke off or an end marker is gone; one server of the browser's; and, until
   the next launch or runtime, a sign-in made after the side engine's seed: for any
   number of starts, suffixes of a name and mishaps. *)
THEOREM SeedsKeepAll == Spec => []SeedsSafe
<1>1. Init => SeedInv
  BY SeedsStart DEF Init
<1>2. SeedInv /\ [Next]_agentServicesVars => SeedInv'
  BY SeedingAlone, SeedsStep
<1>3. SeedInv => SeedsSafe
  BY SeedsAre
<1> QED BY <1>1, <1>2, <1>3, PTL DEF Spec

-----------------------------------------------------------------------------
(* The callers that follow a message.                                      *)

ChatLines == [of : Messages \cup {NoTurn}, kind : {"echo", "text", "result"}]

\* What the agent owes is what was accepted and is not over, each once.
OwesSent ==
  /\ agent.owes \in Seq(Messages)
  /\ \A i, j \in 1..Len(agent.owes) : agent.owes[i] = agent.owes[j] => i = j
  /\ \A m \in Messages : post[m] = "sent" <=> m \in Range(agent.owes)
  /\ agent.up \in BOOLEAN /\ (Range(agent.owes) # {} => agent.up)

ChatTypes ==
  /\ post \in [Messages -> {"new", "sending", "sent", "over"}]
  /\ reader \in [Messages -> {"none", "following", "ended", "left"}]
  /\ feed \in [Messages -> Seq(ChatLines)] /\ said \in [Messages -> Seq(ChatLines)]
  /\ overlapped \subseteq Messages /\ died \subseteq Messages /\ silent \in BOOLEAN

\* Whoever was in flight or listening when another was in flight is overlapped; so a
\* reader that is not has been sent what was said to its message alone.
Alone(m) ==
  /\ post[m] = "new" => reader[m] = "none" /\ feed[m] = <<>>
  /\ post[m] \in {"new", "sending"} => said[m] = <<>>
  /\ reader[m] = "following" => m \in Followed
  /\ m \notin overlapped =>
       /\ \A k \in InFlight : k # m => m \notin InFlight \cup Following
       /\ reader[m] \in {"following", "ended"} => feed[m] = said[m]
       /\ reader[m] = "ended" => m \notin InFlight
       /\ reader[m] = "following" /\ post[m] = "over" => ~ agent.up

\* The slot holds what was said to its message.
Tracks ==
  /\ track.id \in Tracked \cup {NoTurn} /\ track.done \in BOOLEAN /\ track.lines \in Seq(ChatLines)
  /\ track.id = NoTurn => track.lines = <<>> /\ ~ track.done
  /\ track.id # NoTurn =>
       /\ post[track.id] \in {"sent", "over"}
       /\ track.id \notin overlapped \cup died =>
            track.lines = said[track.id] /\ (post[track.id] = "over" <=> track.done)

FollowInv == ChatTypes /\ OwesSent /\ (\A m \in Messages : Alone(m)) /\ Tracks

\* The first n of a sequence, and the others.
LEMMA FirstAndRest ==
  ASSUME NEW P, NEW t \in Seq(P), NEW n \in 1..Len(t)
  PROVE  /\ Len(t) \in Nat /\ DOMAIN t = 1..Len(t) /\ n \in Nat /\ n <= Len(t) /\ Len(t) - n \in Nat
         /\ DOMAIN SubSeq(t, 1, n) = 1..n /\ \A i \in 1..n : SubSeq(t, 1, n)[i] = t[i]
         /\ SubSeq(t, n + 1, Len(t)) \in Seq(P) /\ Len(SubSeq(t, n + 1, Len(t))) = Len(t) - n
         /\ DOMAIN SubSeq(t, n + 1, Len(t)) = 1..(Len(t) - n)
         /\ \A i \in 1..(Len(t) - n) : SubSeq(t, n + 1, Len(t))[i] = t[n + i]
<1> DEFINE r == SubSeq(t, n + 1, Len(t))
           l == Len(t)
<1>1. l \in Nat /\ n \in Nat /\ n <= l /\ n >= 1 /\ DOMAIN t = 1..l /\ l - n \in Nat
  OBVIOUS
<1>2. SubSeq(t, 1, n) \in Seq(P) /\ Len(SubSeq(t, 1, n)) = n /\ \A i \in 1..n : SubSeq(t, 1, n)[i] = t[i]
  BY <1>1
<1>3. r \in Seq(P)
  BY <1>1
<1>4. Len(r) = l - n
  <2>1. CASE n + 1 <= l
    <3>1. Len(r) = l - (n + 1) + 1
      BY <1>1, <2>1
    <3> HIDE DEF r, l
    <3> QED BY <1>1, <3>1
  <2>2. CASE ~ (n + 1 <= l)
    <3>1. Len(r) = 0
      BY <1>1, <2>2
    <3> HIDE DEF r, l
    <3> QED BY <1>1, <2>2, <3>1
  <2> QED BY <2>1, <2>2
<1>5. \A i \in 1..(l - n) : r[i] = t[n + i]
  <2> TAKE i \in 1..(l - n)
  <2>1. r[i] = t[(n + 1) + i - 1]
    BY <1>1
  <2>2. (n + 1) + i - 1 = n + i
    BY <1>1
  <2> QED BY <2>1, <2>2
<1>6. DOMAIN r = 1..(l - n)
  <2> HIDE DEF r, l
  <2> QED BY <1>3, <1>4
<1>7. DOMAIN SubSeq(t, 1, n) = 1..n
  <2> DEFINE f == SubSeq(t, 1, n)
  <2>1. f \in Seq(P) /\ Len(f) = n
    BY <1>2
  <2> HIDE DEF f
  <2>2. DOMAIN f = 1..n
    BY <2>1
  <2> QED BY <2>2 DEF f
<1> QED BY <1>1, <1>2, <1>3, <1>4, <1>5, <1>6, <1>7

\* What is answered, and what is still owed, when the first n of a sequence are.
LEMMA FirstAnswered ==
  ASSUME NEW P, NEW t \in Seq(P), NEW n \in 1..Len(t),
         \A i, j \in 1..Len(t) : t[i] = t[j] => i = j
  PROVE  LET a == Range(SubSeq(t, 1, n))
             r == SubSeq(t, n + 1, Len(t))
         IN /\ r \in Seq(P) /\ \A i, j \in 1..Len(r) : r[i] = r[j] => i = j
            /\ Head(t) \in a /\ a \subseteq P
            /\ \A m : m \in Range(t) <=> m \in a \/ m \in Range(r)
            /\ \A m : ~ (m \in a /\ m \in Range(r))
<1> DEFINE f == SubSeq(t, 1, n)
           a == Range(f)
           r == SubSeq(t, n + 1, Len(t))
           l == Len(t)
<1>1. l \in Nat /\ n \in Nat /\ n <= l /\ n >= 1 /\ DOMAIN t = 1..l
  BY FirstAndRest
<1>2. DOMAIN f = 1..n /\ \A i \in 1..n : f[i] = t[i]
  BY FirstAndRest
<1>3. r \in Seq(P) /\ Len(r) = l - n /\ DOMAIN r = 1..(l - n) /\ \A i \in 1..(l - n) : r[i] = t[n + i]
  BY FirstAndRest
<1>4. Head(t) = t[1] /\ \A i \in 1..l : t[i] \in P
  BY <1>1
<1>5. \A i, j \in 1..l : t[i] = t[j] => i = j
  OBVIOUS
<1> HIDE DEF f, r, l
<1>9. \A i \in 1..(l - n) : n + i \in 1..l /\ n + i > n
  BY <1>1
<1>10. 1 \in 1..n /\ \A i \in 1..n : i \in 1..l /\ i <= n
  BY <1>1
<1>11. \A i \in 1..l : i \in 1..n \/ (i - n \in 1..(l - n) /\ n + (i - n) = i)
  BY <1>1
<1>6. \A m : m \in a <=> \E i \in 1..n : m = t[i]
  BY <1>2 DEF Range
<1>7. \A m : m \in Range(r) <=> \E i \in 1..(l - n) : m = t[n + i]
  <2>1. \A m : m \in Range(r) <=> \E i \in 1..(l - n) : m = r[i]
    BY <1>3 DEF Range
  <2> QED BY <1>3, <2>1
<1>8. \A m : m \in Range(t) <=> \E i \in 1..l : m = t[i]
  BY <1>1 DEF Range
<1> HIDE DEF a
<1>12. \A i, j \in 1..Len(r) : r[i] = r[j] => i = j
  <2> SUFFICES ASSUME NEW i \in 1..(l - n), NEW j \in 1..(l - n), t[n + i] = t[n + j] PROVE i = j
    BY <1>3
  <2>1. n + i = n + j
    BY <1>5, <1>9
  <2> QED BY <1>1, <2>1
<1>13. Head(t) \in a
  BY <1>4, <1>6, <1>10
<1>14. a \subseteq P
  BY <1>4, <1>6, <1>10
<1>15. \A m : m \in Range(t) <=> m \in a \/ m \in Range(r)
  <2> TAKE m
  <2>1. m \in a => m \in Range(t)
    BY <1>6, <1>8, <1>10
  <2>2. m \in Range(r) => m \in Range(t)
    BY <1>7, <1>8, <1>9
  <2>3. ASSUME m \in Range(t), m \notin a PROVE m \in Range(r)
    <3>1. PICK i \in 1..l : m = t[i]
      BY <1>8, <2>3
    <3>2. i \notin 1..n
      BY <1>6, <2>3, <3>1
    <3>3. i - n \in 1..(l - n) /\ t[n + (i - n)] = m
      BY <1>11, <3>1, <3>2
    <3> QED BY <1>7, <3>3
  <2> QED BY <2>1, <2>2, <2>3
<1>16. \A m : ~ (m \in a /\ m \in Range(r))
  <2> SUFFICES ASSUME NEW m, m \in a, m \in Range(r) PROVE FALSE
    OBVIOUS
  <2>1. PICK i \in 1..n : m = t[i]
    BY <1>6
  <2>2. PICK j \in 1..(l - n) : m = t[n + j]
    BY <1>7
  <2>3. i = n + j
    BY <1>5, <1>9, <1>10, <2>1, <2>2
  <2> QED BY <1>9, <1>10, <2>3
<1> QED BY <1>3, <1>12, <1>13, <1>14, <1>15, <1>16 DEF f, a, r, l

LEMMA AppendedOne ==
  ASSUME NEW P, NEW t \in Seq(P), NEW m \in P
  PROVE  /\ Append(t, m) \in Seq(P) /\ Range(Append(t, m)) = Range(t) \cup {m}
         /\ m \notin Range(t) /\ (\A i, j \in 1..Len(t) : t[i] = t[j] => i = j) =>
              \A i, j \in 1..Len(Append(t, m)) : Append(t, m)[i] = Append(t, m)[j] => i = j
<1> DEFINE s == Append(t, m)
           n == Len(t)
<1>1. /\ s \in Seq(P) /\ n \in Nat /\ Len(s) = n + 1 /\ DOMAIN s = 1..(n + 1) /\ DOMAIN t = 1..n
      /\ s[n + 1] = m /\ \A i \in 1..n : s[i] = t[i]
  OBVIOUS
<1> HIDE DEF s, n
<1>2. \A i \in 1..(n + 1) : i \in 1..n \/ i = n + 1
  BY <1>1
<1>3. n + 1 \in 1..(n + 1) /\ \A i \in 1..n : i \in 1..(n + 1)
  BY <1>1
<1>4. Range(s) = Range(t) \cup {m}
  BY <1>1, <1>2, <1>3 DEF Range
<1>5. \A i \in 1..n : t[i] \in Range(t)
  BY <1>1 DEF Range
<1>6. m \notin Range(t) /\ (\A i, j \in 1..n : t[i] = t[j] => i = j) =>
        \A i, j \in 1..(n + 1) : s[i] = s[j] => i = j
  BY <1>1, <1>2, <1>5
<1> QED BY <1>1, <1>4, <1>6 DEF s, n

\* What holds of the callers' state in every step.
LEMMA FollowFacts ==
  ASSUME FollowInv
  PROVE  /\ \A m \in Messages : /\ post[m] \in {"new", "sending", "sent", "over"}
                                /\ reader[m] \in {"none", "following", "ended", "left"}
                                /\ feed[m] \in Seq(ChatLines) /\ said[m] \in Seq(ChatLines)
         /\ \A m : m \in InFlight <=> m \in Messages /\ post[m] \in {"sending", "sent"}
         /\ \A m : m \in Following <=> m \in Messages /\ reader[m] = "following"
         /\ agent.owes # <<>> =>
              /\ Head(agent.owes) \in Range(agent.owes) /\ agent.up
              /\ Head(agent.owes) \in Messages /\ post[Head(agent.owes)] = "sent"
         /\ Range(agent.owes) \subseteq Messages
<1>1. \A m \in Messages : /\ post[m] \in {"new", "sending", "sent", "over"}
                          /\ reader[m] \in {"none", "following", "ended", "left"}
                          /\ feed[m] \in Seq(ChatLines) /\ said[m] \in Seq(ChatLines)
  BY DEF FollowInv, ChatTypes
<1>2. agent.owes \in Seq(Messages)
  BY DEF FollowInv, OwesSent
<1>3. Range(agent.owes) \subseteq Messages
  BY <1>2 DEF Range
<1>4. agent.owes # <<>> => Head(agent.owes) \in Range(agent.owes)
  <2>1. agent.owes # <<>> => 1 \in DOMAIN agent.owes /\ Head(agent.owes) = agent.owes[1]
    BY <1>2
  <2> QED BY <2>1 DEF Range
<1>5. agent.owes # <<>> => agent.up
  BY <1>4 DEF FollowInv, OwesSent
<1> QED BY <1>1, <1>3, <1>4, <1>5 DEF InFlight, Following, FollowInv, OwesSent

LEMMA Feeds ==
  ASSUME FollowInv, NEW line \in ChatLines
  PROVE  /\ \A readers : /\ FeedTo(readers, line) \in [Messages -> Seq(ChatLines)]
                         /\ \A m \in Messages : FeedTo(readers, line)[m] = IF m \in readers THEN Append(feed[m], line) ELSE feed[m]
         /\ Heard(line) \in [Messages -> {"none", "following", "ended", "left"}]
         /\ \A m \in Messages : Heard(line)[m] = IF reader[m] = "following" /\ line.kind = "result" THEN "ended" ELSE reader[m]
<1>1. \A m \in Messages : feed[m] \in Seq(ChatLines) /\ reader[m] \in {"none", "following", "ended", "left"}
  BY FollowFacts
<1>2. \A t \in Seq(ChatLines) : Append(t, line) \in Seq(ChatLines)
  OBVIOUS
<1> QED BY <1>1, <1>2, FollowFacts DEF FeedTo, Heard

LEMMA LineKinds ==
  ASSUME NEW m \in Messages \cup {NoTurn}, NEW kind \in {"echo", "text", "result"}
  PROVE  Line(m, kind) \in ChatLines /\ Line(m, kind).kind = kind
BY DEF Line, ChatLines

LEMMA WhoNext ==
  /\ \A m : m \in InFlight' <=> m \in Messages /\ post'[m] \in {"sending", "sent"}
  /\ \A m : m \in Following' <=> m \in Messages /\ reader'[m] = "following"
BY DEF InFlight, Following

LEMMA PostKeeps ==
  ASSUME FollowInv, NEW m \in Messages, Post(m)
  PROVE  FollowInv'
<1> DEFINE echo == Line(m, "echo")
<1>1. /\ post[m] = "new" /\ post' = [post EXCEPT ![m] = "sending"]
      /\ feed' = FeedTo(Following, echo)
      /\ reader' = [reader EXCEPT ![m] = IF m \in Followed THEN "following" ELSE @]
      /\ overlapped' = overlapped \cup InFlight \cup Following \cup (IF InFlight = {} THEN {} ELSE {m})
      /\ UNCHANGED <<agent, track, said, died, silent>>
  BY DEF Post, Step, Crossing
<1>2. echo \in ChatLines
  BY LineKinds
<1> HIDE DEF echo
<1>3. \A k \in Messages : /\ post'[k] = IF k = m THEN "sending" ELSE post[k]
                          /\ reader'[k] = IF k = m /\ m \in Followed THEN "following" ELSE reader[k]
                          /\ feed'[k] = IF k \in Following THEN Append(feed[k], echo) ELSE feed[k]
  BY <1>1, <1>2, Feeds DEF FollowInv, ChatTypes
<1>4. ChatTypes'
  <2>1. feed' \in [Messages -> Seq(ChatLines)]
    BY <1>1, <1>2, Feeds
  <2>2. InFlight \subseteq Messages /\ Following \subseteq Messages
    BY DEF InFlight, Following
  <2> QED BY <1>1, <2>1, <2>2 DEF FollowInv, ChatTypes
<1>5. OwesSent'
  <2>1. \A k \in Messages : post'[k] = "sent" <=> post[k] = "sent"
    BY <1>1, <1>3
  <2> QED BY <1>1, <2>1 DEF FollowInv, OwesSent
<1>6. ASSUME NEW k \in Messages PROVE Alone(k)'
  <2>1. Alone(k)
    BY DEF FollowInv
  <2>2. reader[m] = "none" /\ feed[m] = <<>> /\ said[m] = <<>>
    BY <1>1 DEF FollowInv, Alone
  <2>3. \A j : /\ j \in InFlight' <=> j \in InFlight \/ j = m
               /\ j \in Following' => j \in Following \/ j = m
    BY <1>1, <1>3, FollowFacts, WhoNext
  <2>4. k \notin overlapped' =>
          /\ k \notin overlapped /\ k \notin InFlight /\ k \notin Following
          /\ k = m => InFlight = {}
    BY <1>1
  <2>5. reader[k] # "following" \/ k \in Following
    BY FollowFacts
  <2>6. post'[k] = "new" => reader'[k] = "none" /\ feed'[k] = <<>>
    BY <1>3, <2>1, FollowFacts DEF Alone
  <2>7. post'[k] \in {"new", "sending"} => said'[k] = <<>>
    BY <1>1, <1>3, <2>1, <2>2 DEF Alone
  <2>8. reader'[k] = "following" => k \in Followed
    BY <1>3, <2>1 DEF Alone
  <2>9. ASSUME k \notin overlapped'
        PROVE  /\ \A j \in InFlight' : j # k => k \notin InFlight' \cup Following'
               /\ reader'[k] \in {"following", "ended"} => feed'[k] = said'[k]
               /\ reader'[k] = "ended" => k \notin InFlight'
               /\ reader'[k] = "following" /\ post'[k] = "over" => ~ agent'.up
    <3>1. CASE k = m
      BY <1>1, <1>3, <2>2, <2>3, <2>4, <2>9, <3>1
    <3>2. CASE k # m
      BY <1>1, <1>3, <2>1, <2>3, <2>4, <2>5, <2>9, <3>2 DEF Alone
    <3> QED BY <3>1, <3>2
  <2> QED BY <2>6, <2>7, <2>8, <2>9 DEF Alone
<1>7. Tracks'
  <2>1. \A t \in Messages : post[t] \in {"sent", "over"} => post'[t] = post[t] /\ said'[t] = said[t]
    BY <1>1, <1>3
  <2>2. track.id # NoTurn => track.id \in Messages
    BY FollowAssumption DEF FollowInv, Tracks
  <2>3. overlapped \subseteq overlapped' /\ died' = died /\ track' = track
    BY <1>1
  <2> QED BY <2>1, <2>2, <2>3 DEF FollowInv, Tracks
<1> QED BY <1>4, <1>5, <1>6, <1>7 DEF FollowInv

LEMMA AcceptKeeps ==
  ASSUME FollowInv, NEW m \in Messages, Accept(m)
  PROVE  FollowInv'
<1>1. /\ post[m] = "sending" /\ post' = [post EXCEPT ![m] = "sent"]
      /\ agent' = [up |-> TRUE, owes |-> Append(agent.owes, m)]
      /\ track' = IF m \in Tracked THEN [id |-> m, lines |-> <<>>, done |-> FALSE] ELSE track
      /\ UNCHANGED <<reader, feed, said, overlapped, died, silent>>
  BY DEF Accept, Step
<1>2. \A k \in Messages : post'[k] = IF k = m THEN "sent" ELSE post[k]
  BY <1>1 DEF FollowInv, ChatTypes
<1>3. said[m] = <<>>
  BY <1>1 DEF FollowInv, Alone
<1>4. ChatTypes'
  BY <1>1 DEF FollowInv, ChatTypes
<1>5. OwesSent'
  <2> DEFINE t == agent.owes
  <2>1. t \in Seq(Messages) /\ (\A i, j \in 1..Len(t) : t[i] = t[j] => i = j) /\ m \notin Range(t)
    BY <1>1 DEF FollowInv, OwesSent
  <2> DEFINE s == Append(t, m)
  <2>2. /\ s \in Seq(Messages) /\ Range(s) = Range(t) \cup {m}
        /\ \A i, j \in 1..Len(s) : s[i] = s[j] => i = j
    <3> HIDE DEF t
    <3> QED BY <2>1, AppendedOne
  <2>3. agent'.owes = s /\ agent'.up = TRUE
    BY <1>1
  <2>4. \A k \in Messages : post[k] = "sent" <=> k \in Range(t)
    BY DEF FollowInv, OwesSent
  <2> HIDE DEF s, t
  <2> QED BY <1>2, <2>2, <2>3, <2>4 DEF OwesSent
<1>6. ASSUME NEW k \in Messages PROVE Alone(k)'
  <2>1. Alone(k) /\ Alone(m)
    BY DEF FollowInv
  <2>2. m \in InFlight /\ \A j : /\ j \in InFlight' <=> j \in InFlight
                                 /\ j \in Following' <=> j \in Following
    BY <1>1, <1>2, FollowFacts, WhoNext
  <2>3. reader[k] # "following" \/ k \in Following
    BY FollowFacts
  <2>4. post'[k] = "new" => reader'[k] = "none" /\ feed'[k] = <<>>
    BY <1>1, <1>2, <2>1 DEF Alone
  <2>5. post'[k] \in {"new", "sending"} => said'[k] = <<>>
    BY <1>1, <1>2, <2>1 DEF Alone
  <2>6. reader'[k] = "following" => k \in Followed
    BY <1>1, <2>1 DEF Alone
  <2>7. ASSUME k \notin overlapped'
        PROVE  /\ \A j \in InFlight' : j # k => k \notin InFlight' \cup Following'
               /\ reader'[k] \in {"following", "ended"} => feed'[k] = said'[k]
               /\ reader'[k] = "ended" => k \notin InFlight'
               /\ reader'[k] = "following" /\ post'[k] = "over" => ~ agent'.up
    BY <1>1, <1>2, <2>1, <2>2, <2>3, <2>7 DEF Alone
  <2> QED BY <2>4, <2>5, <2>6, <2>7 DEF Alone
<1>7. Tracks'
  <2>1. CASE m \in Tracked
    <3>1. track'.id = m /\ track'.lines = <<>> /\ track'.done = FALSE
      BY <1>1, <2>1
    <3> QED BY <1>1, <1>2, <1>3, <2>1, <3>1 DEF Tracks, FollowInv
  <2>2. CASE m \notin Tracked
    <3>1. track' = track /\ UNCHANGED <<said, overlapped, died>>
      BY <1>1, <2>2
    <3>2. track.id # NoTurn => track.id \in Messages /\ track.id # m
      BY <1>1, FollowAssumption DEF FollowInv, Tracks
    <3> QED BY <1>2, <3>1, <3>2 DEF FollowInv, Tracks
  <2> QED BY <2>1, <2>2
<1> QED BY <1>4, <1>5, <1>6, <1>7 DEF FollowInv

LEMMA RefuseKeeps ==
  ASSUME FollowInv, NEW m \in Messages, Refuse(m)
  PROVE  FollowInv'
<1> DEFINE line == Line(m, "result")
<1>1. /\ post[m] = "sending" /\ ~ agent.up /\ post' = [post EXCEPT ![m] = "over"]
      /\ said' = [said EXCEPT ![m] = Append(@, line)]
      /\ feed' = FeedTo({m} \cap Following, line)
      /\ reader' = [reader EXCEPT ![m] = IF @ = "following" THEN "ended" ELSE @]
      /\ UNCHANGED <<agent, track, overlapped, died, silent>>
  BY DEF Refuse, Step
<1>2. line \in ChatLines
  BY LineKinds
<1> HIDE DEF line
<1>3. \A k \in Messages : /\ post'[k] = IF k = m THEN "over" ELSE post[k]
                          /\ reader'[k] = IF k = m /\ reader[k] = "following" THEN "ended" ELSE reader[k]
                          /\ feed'[k] = IF k = m /\ reader[k] = "following" THEN Append(feed[k], line) ELSE feed[k]
                          /\ said'[k] = IF k = m THEN Append(said[k], line) ELSE said[k]
  BY <1>1, <1>2, Feeds, FollowFacts DEF FollowInv, ChatTypes
<1>4. ChatTypes'
  <2>1. feed' \in [Messages -> Seq(ChatLines)]
    BY <1>1, <1>2, Feeds
  <2>2. Append(said[m], line) \in Seq(ChatLines)
    BY <1>2, FollowFacts
  <2> QED BY <1>1, <2>1, <2>2 DEF FollowInv, ChatTypes
<1>5. OwesSent'
  <2>1. \A k \in Messages : post'[k] = "sent" <=> post[k] = "sent"
    BY <1>1, <1>3
  <2> QED BY <1>1, <2>1 DEF FollowInv, OwesSent
<1>6. ASSUME NEW k \in Messages PROVE Alone(k)'
  <2>1. Alone(k)
    BY DEF FollowInv
  <2>2. m \in InFlight /\ \A j : /\ j \in InFlight' <=> j \in InFlight /\ j # m
                                 /\ j \in Following' <=> j \in Following /\ j # m
    BY <1>1, <1>3, FollowFacts, WhoNext
  <2>3. reader[k] # "following" \/ k \in Following
    BY FollowFacts
  <2>4. post'[k] = "new" => reader'[k] = "none" /\ feed'[k] = <<>>
    BY <1>3, <2>1 DEF Alone
  <2>5. post'[k] \in {"new", "sending"} => said'[k] = <<>>
    BY <1>3, <2>1 DEF Alone
  <2>6. reader'[k] = "following" => k \in Followed
    BY <1>3, <2>1 DEF Alone
  <2>7. ASSUME k \notin overlapped'
        PROVE  /\ \A j \in InFlight' : j # k => k \notin InFlight' \cup Following'
               /\ reader'[k] \in {"following", "ended"} => feed'[k] = said'[k]
               /\ reader'[k] = "ended" => k \notin InFlight'
               /\ reader'[k] = "following" /\ post'[k] = "over" => ~ agent'.up
    <3>1. /\ \A j \in InFlight : j # k => k \notin InFlight \cup Following
          /\ reader[k] \in {"following", "ended"} => feed[k] = said[k]
          /\ reader[k] = "ended" => k \notin InFlight
      BY <1>1, <2>1, <2>7 DEF Alone
    <3>2. reader'[k] \in {"following", "ended"} => feed'[k] = said'[k]
      <4>1. CASE k = m
        BY <1>3, <2>2, <3>1, <4>1
      <4>2. CASE k # m
        BY <1>3, <3>1, <4>2
      <4> QED BY <4>1, <4>2
    <3>3. \A j \in InFlight' : j # k => k \notin InFlight' \cup Following'
      BY <2>2, <3>1
    <3>4. reader'[k] = "ended" => k \notin InFlight'
      BY <1>3, <2>2, <3>1
    <3> QED BY <1>1, <3>2, <3>3, <3>4
  <2> QED BY <2>4, <2>5, <2>6, <2>7 DEF Alone
<1>7. Tracks'
  <2>1. track.id # NoTurn => track.id \in Messages /\ track.id # m
    BY <1>1, FollowAssumption DEF FollowInv, Tracks
  <2> QED BY <1>1, <1>3, <2>1 DEF FollowInv, Tracks
<1> QED BY <1>4, <1>5, <1>6, <1>7 DEF FollowInv

LEMMA LeaveKeeps ==
  ASSUME FollowInv, NEW m \in Messages, Leave(m)
  PROVE  FollowInv'
<1>1. /\ reader[m] = "following" /\ reader' = [reader EXCEPT ![m] = "left"]
      /\ feed' = [feed EXCEPT ![m] = <<>>]
      /\ UNCHANGED <<post, agent, track, said, overlapped, died, silent>>
  BY DEF Leave
<1>2. \A k \in Messages : /\ reader'[k] = IF k = m THEN "left" ELSE reader[k]
                          /\ feed'[k] = IF k = m THEN <<>> ELSE feed[k]
  BY <1>1 DEF FollowInv, ChatTypes
<1>3. ChatTypes' /\ OwesSent' /\ Tracks'
  BY <1>1 DEF FollowInv, ChatTypes, OwesSent, Tracks
<1>4. ASSUME NEW k \in Messages PROVE Alone(k)'
  <2>1. Alone(k)
    BY DEF FollowInv
  <2>2. \A j : /\ j \in InFlight' <=> j \in InFlight
               /\ j \in Following' => j \in Following
    BY <1>1, <1>2, FollowFacts, WhoNext
  <2> QED BY <1>1, <1>2, <2>1, <2>2 DEF Alone
<1> QED BY <1>3, <1>4 DEF FollowInv

LEMMA SlotFields ==
  ASSUME NEW x, NEW y, NEW z
  PROVE  /\ [id |-> x, lines |-> y, done |-> z].id = x
         /\ [id |-> x, lines |-> y, done |-> z].lines = y
         /\ [id |-> x, lines |-> y, done |-> z].done = z
OBVIOUS

LEMMA RecordedLine ==
  ASSUME FollowInv, NEW line \in ChatLines, track' = Recorded(line)
  PROVE  /\ track.id = NoTurn \/ track.done => track' = track
         /\ track.id # NoTurn /\ ~ track.done =>
              /\ track'.id = track.id /\ track'.lines = Append(track.lines, line)
              /\ track'.done \in BOOLEAN /\ (track'.done <=> line.kind = "result")
              /\ track'.lines \in Seq(ChatLines)
<1>1. track.lines \in Seq(ChatLines)
  BY DEF FollowInv, Tracks
<1>2. Append(track.lines, line) \in Seq(ChatLines)
  BY <1>1
<1>3. ASSUME track.id # NoTurn, ~ track.done
      PROVE  /\ track'.id = track.id /\ track'.lines = Append(track.lines, line)
             /\ track'.done \in BOOLEAN /\ (track'.done <=> line.kind = "result")
  <2> DEFINE isLast == line.kind = "result"
  <2>1. isLast \in BOOLEAN
    OBVIOUS
  <2>2. track' = [id |-> track.id, lines |-> Append(track.lines, line), done |-> isLast]
    BY <1>3, Zenon DEF Recorded
  <2> HIDE DEF isLast
  <2> DEFINE slot == [id |-> track.id, lines |-> Append(track.lines, line), done |-> isLast]
  <2>5. slot.id = track.id /\ slot.lines = Append(track.lines, line) /\ slot.done = isLast
    BY SlotFields
  <2> HIDE DEF slot
  <2>3. track'.id = track.id /\ track'.lines = Append(track.lines, line) /\ track'.done = isLast
    <3>1. track' = slot
      BY <2>2, Zenon DEF slot
    <3> QED BY <2>5, <3>1, Zenon
  <2>4. track'.done \in BOOLEAN /\ (track'.done <=> isLast)
    BY <2>1, <2>3, Zenon
  <2> QED BY <2>3, <2>4 DEF isLast
<1>4. track.id = NoTurn \/ track.done => track' = track
  BY Zenon DEF Recorded
<1> QED BY <1>2, <1>3, <1>4

LEMMA SayKeeps ==
  ASSUME FollowInv, Say
  PROVE  FollowInv'
<1> DEFINE m == Head(agent.owes)
           line == Line(m, "text")
<1>1. /\ agent.owes # <<>> /\ said' = [said EXCEPT ![m] = Append(@, line)]
      /\ feed' = FeedTo(Following, line) /\ reader' = Heard(line) /\ track' = Recorded(line)
      /\ UNCHANGED <<post, agent, overlapped, died, silent>>
  BY DEF Say, Says
<1>2. m \in Messages /\ post[m] = "sent"
  BY <1>1, FollowFacts
<1> HIDE DEF m
<1>3. line \in ChatLines /\ line.kind = "text"
  BY <1>2, LineKinds
<1> HIDE DEF line
<1>4. \A k \in Messages : /\ reader'[k] = reader[k]
                          /\ feed'[k] = IF reader[k] = "following" THEN Append(feed[k], line) ELSE feed[k]
                          /\ said'[k] = IF k = m THEN Append(said[k], line) ELSE said[k]
  BY <1>1, <1>3, Feeds, FollowFacts DEF FollowInv, ChatTypes
<1>5. ChatTypes'
  <2>1. feed' \in [Messages -> Seq(ChatLines)] /\ reader' \in [Messages -> {"none", "following", "ended", "left"}]
    BY <1>1, <1>3, Feeds
  <2>2. Append(said[m], line) \in Seq(ChatLines)
    BY <1>2, <1>3, FollowFacts
  <2> QED BY <1>1, <2>1, <2>2 DEF FollowInv, ChatTypes
<1>6. OwesSent'
  BY <1>1 DEF FollowInv, OwesSent
<1>7. m \in InFlight
  BY <1>2, FollowFacts
<1>8. ASSUME NEW k \in Messages, k \notin overlapped, k # m PROVE k \notin InFlight /\ reader[k] # "following"
  <2>1. k \notin InFlight \cup Following
    BY <1>7, <1>8 DEF FollowInv, Alone
  <2> QED BY <2>1, FollowFacts
<1>9. ASSUME NEW k \in Messages PROVE Alone(k)'
  <2>1. Alone(k)
    BY DEF FollowInv
  <2>2. \A j : /\ j \in InFlight' <=> j \in InFlight
               /\ j \in Following' <=> j \in Following
    BY <1>1, <1>4, FollowFacts, WhoNext
  <2>3. post'[k] = "new" => reader'[k] = "none" /\ feed'[k] = <<>>
    BY <1>1, <1>4, <2>1 DEF Alone
  <2>4. post'[k] \in {"new", "sending"} => said'[k] = <<>>
    BY <1>1, <1>2, <1>4, <2>1 DEF Alone
  <2>5. ASSUME k \notin overlapped', reader'[k] \in {"following", "ended"} PROVE feed'[k] = said'[k]
    <3>1. CASE k = m
      BY <1>1, <1>4, <1>7, <2>1, <2>5, <3>1 DEF Alone
    <3>2. CASE k # m
      BY <1>1, <1>4, <1>8, <2>1, <2>5, <3>2 DEF Alone
    <3> QED BY <3>1, <3>2
  <2> QED BY <1>1, <1>4, <2>1, <2>2, <2>3, <2>4, <2>5 DEF Alone
<1>10. Tracks'
  <2>1. track.id # NoTurn => track.id \in Messages
    BY FollowAssumption DEF FollowInv, Tracks
  <2>2. CASE track.id = NoTurn \/ track.done
    <3>1. track' = track
      BY <1>1, <1>3, <2>2, RecordedLine
    <3>2. track.id # NoTurn /\ track.id \notin overlapped \cup died => said'[track.id] = said[track.id]
      BY <1>2, <1>4, <2>1, <2>2 DEF FollowInv, Tracks
    <3> QED BY <1>1, <3>1, <3>2 DEF FollowInv, Tracks
  <2>3. CASE track.id # NoTurn /\ ~ track.done
    <3> DEFINE t == track.id
    <3>1. /\ track'.id = t /\ track'.lines = Append(track.lines, line) /\ track'.done = FALSE
          /\ track'.lines \in Seq(ChatLines)
      BY <1>1, <1>3, <2>3, RecordedLine
    <3>2. t \in Tracked /\ t \in Messages /\ post[t] \in {"sent", "over"}
      BY <2>1, <2>3 DEF FollowInv, Tracks
    <3>3. ASSUME t \notin overlapped \cup died
          PROVE  track'.lines = said'[t] /\ post[t] = "sent"
      <4>1. track.lines = said[t] /\ post[t] # "over"
        BY <2>3, <3>3 DEF FollowInv, Tracks
      <4>2. t = m
        BY <1>8, <3>2, <3>3, <4>1, FollowFacts
      <4> QED BY <1>4, <3>1, <3>2, <4>1, <4>2
    <3> QED BY <1>1, <2>3, <3>1, <3>2, <3>3 DEF Tracks
  <2> QED BY <2>2, <2>3
<1> QED BY <1>5, <1>6, <1>9, <1>10 DEF FollowInv

LEMMA AnswerKeeps ==
  ASSUME FollowInv, Answer
  PROVE  FollowInv'
<1> DEFINE m == Head(agent.owes)
           line == Line(m, "result")
           t == agent.owes
           a(n) == Range(SubSeq(t, 1, n))
           r(n) == SubSeq(t, n + 1, Len(t))
<1>1. PICK n \in {1, Len(t)} :
        /\ said' = [said EXCEPT ![m] = Append(@, line)]
        /\ agent' = [up |-> agent.up, owes |-> r(n)]
        /\ post' = [k \in Messages |-> IF k \in a(n) THEN "over" ELSE post[k]]
  BY Zenon DEF Answer, Says
<1>2. /\ t # <<>> /\ feed' = FeedTo(Following, line) /\ reader' = Heard(line) /\ track' = Recorded(line)
      /\ UNCHANGED <<overlapped, died, silent>>
  BY DEF Answer, Says
<1>3. m \in Messages /\ post[m] = "sent" /\ agent.up
  BY <1>2, FollowFacts
<1>4. /\ t \in Seq(Messages) /\ \A i, j \in 1..Len(t) : t[i] = t[j] => i = j
      /\ \A k \in Messages : post[k] = "sent" <=> k \in Range(t)
  BY DEF FollowInv, OwesSent
<1>5. n \in 1..Len(t)
  BY <1>1, <1>2, <1>4
<1>6. /\ r(n) \in Seq(Messages) /\ \A i, j \in 1..Len(r(n)) : r(n)[i] = r(n)[j] => i = j
      /\ m \in a(n) /\ a(n) \subseteq Messages
      /\ \A k : k \in Range(t) <=> k \in a(n) \/ k \in Range(r(n))
      /\ \A k : ~ (k \in a(n) /\ k \in Range(r(n)))
  <2> HIDE DEF t
  <2>1. /\ SubSeq(t, n + 1, Len(t)) \in Seq(Messages)
        /\ \A i, j \in 1..Len(SubSeq(t, n + 1, Len(t))) :
             SubSeq(t, n + 1, Len(t))[i] = SubSeq(t, n + 1, Len(t))[j] => i = j
        /\ Head(t) \in Range(SubSeq(t, 1, n)) /\ Range(SubSeq(t, 1, n)) \subseteq Messages
        /\ \A k : k \in Range(t) <=> k \in Range(SubSeq(t, 1, n)) \/ k \in Range(SubSeq(t, n + 1, Len(t)))
        /\ \A k : ~ (k \in Range(SubSeq(t, 1, n)) /\ k \in Range(SubSeq(t, n + 1, Len(t))))
    BY <1>4, <1>5, FirstAnswered
  <2> QED BY <2>1, Zenon DEF t
<1> DEFINE over == a(n)
           rest == r(n)
<1>7. /\ agent' = [up |-> agent.up, owes |-> rest] /\ post' = [k \in Messages |-> IF k \in over THEN "over" ELSE post[k]]
      /\ rest \in Seq(Messages) /\ \A i, j \in 1..Len(rest) : rest[i] = rest[j] => i = j
      /\ m \in over /\ over \subseteq Messages
      /\ \A k : k \in Range(t) <=> k \in over \/ k \in Range(rest)
      /\ \A k : ~ (k \in over /\ k \in Range(rest))
  BY <1>1, <1>6
<1> HIDE DEF over, rest, a, r, m
<1>8. line \in ChatLines /\ line.kind = "result"
  BY <1>3, LineKinds
<1> HIDE DEF line, t
<1>9. \A k \in Messages : /\ reader'[k] = IF reader[k] = "following" THEN "ended" ELSE reader[k]
                          /\ feed'[k] = IF reader[k] = "following" THEN Append(feed[k], line) ELSE feed[k]
                          /\ said'[k] = IF k = m THEN Append(said[k], line) ELSE said[k]
                          /\ post'[k] = IF k \in over THEN "over" ELSE post[k]
                          /\ k \in over => post[k] = "sent"
  <2>1. \A k \in Messages : reader'[k] = IF reader[k] = "following" THEN "ended" ELSE reader[k]
    BY <1>2, <1>8, Feeds
  <2>2. \A k \in Messages : feed'[k] = IF reader[k] = "following" THEN Append(feed[k], line) ELSE feed[k]
    BY <1>2, <1>8, Feeds, FollowFacts
  <2>3. \A k \in Messages : said'[k] = IF k = m THEN Append(said[k], line) ELSE said[k]
    BY <1>1 DEF FollowInv, ChatTypes
  <2>4. \A k \in Messages : post'[k] = IF k \in over THEN "over" ELSE post[k]
    BY <1>7
  <2>5. \A k \in Messages : k \in over => post[k] = "sent"
    BY <1>4, <1>7
  <2> QED BY <2>1, <2>2, <2>3, <2>4, <2>5
<1>10. ChatTypes'
  <2>1. feed' \in [Messages -> Seq(ChatLines)] /\ reader' \in [Messages -> {"none", "following", "ended", "left"}]
    BY <1>2, <1>8, Feeds
  <2>2. said' \in [Messages -> Seq(ChatLines)]
    <3>1. Append(said[m], line) \in Seq(ChatLines)
      BY <1>3, <1>8, FollowFacts
    <3> QED BY <1>1, <3>1 DEF FollowInv, ChatTypes
  <2>3. post' \in [Messages -> {"new", "sending", "sent", "over"}]
    BY <1>7, FollowFacts
  <2> QED BY <1>2, <2>1, <2>2, <2>3 DEF FollowInv, ChatTypes
<1>11. OwesSent'
  <2>1. agent'.owes = rest /\ agent'.up = agent.up
    BY <1>7
  <2>2. \A k \in Messages : post'[k] = "sent" <=> k \in Range(rest)
    BY <1>4, <1>7, <1>9
  <2>3. agent.up = TRUE
    BY <1>3, Zenon DEF FollowInv, OwesSent
  <2> QED BY <1>7, <2>1, <2>2, <2>3 DEF OwesSent
<1>12. m \in InFlight
  BY <1>3, FollowFacts
<1>13. ASSUME NEW k \in Messages, k \notin overlapped, k # m PROVE k \notin InFlight /\ reader[k] # "following"
  <2>1. k \notin InFlight \cup Following
    BY <1>12, <1>13 DEF FollowInv, Alone
  <2> QED BY <2>1, FollowFacts
<1>14. ASSUME NEW k \in Messages PROVE Alone(k)'
  <2>1. Alone(k)
    BY DEF FollowInv
  <2>2. \A j : /\ j \in InFlight' => j \in InFlight /\ j # m
               /\ j \notin Following'
    BY <1>7, <1>9, FollowFacts, WhoNext
  <2>3. post'[k] = "new" => reader'[k] = "none" /\ feed'[k] = <<>>
    BY <1>9, <2>1 DEF Alone
  <2>4. post'[k] \in {"new", "sending"} => said'[k] = <<>>
    BY <1>3, <1>7, <1>9, <2>1 DEF Alone
  <2>5. ASSUME k \notin overlapped', reader'[k] \in {"following", "ended"} PROVE feed'[k] = said'[k]
    <3>1. CASE k = m
      BY <1>2, <1>9, <1>12, <2>1, <2>5, <3>1 DEF Alone
    <3>2. CASE k # m
      BY <1>2, <1>9, <1>13, <2>1, <2>5, <3>2 DEF Alone
    <3> QED BY <3>1, <3>2
  <2>6. reader'[k] # "following"
    BY <1>9
  <2>7. k \notin overlapped' => k \notin InFlight'
    BY <1>2, <1>13, <2>2
  <2> QED BY <2>3, <2>4, <2>5, <2>6, <2>7, <2>2 DEF Alone
<1>15. Tracks'
  <2>1. track.id # NoTurn => track.id \in Messages
    BY FollowAssumption DEF FollowInv, Tracks
  <2>2. CASE track.id = NoTurn \/ track.done
    <3>1. track' = track
      BY <1>2, <1>8, <2>2, RecordedLine
    <3>2. track.id # NoTurn /\ track.id \notin overlapped \cup died =>
            said'[track.id] = said[track.id] /\ post'[track.id] = post[track.id]
      BY <1>3, <1>9, <2>1, <2>2 DEF FollowInv, Tracks
    <3>3. track.id # NoTurn => post'[track.id] \in {"sent", "over"}
      BY <1>9, <2>1 DEF FollowInv, Tracks
    <3> QED BY <1>2, <3>1, <3>2, <3>3 DEF FollowInv, Tracks
  <2>3. CASE track.id # NoTurn /\ ~ track.done
    <3> DEFINE u == track.id
    <3>1. /\ track'.id = u /\ track'.lines = Append(track.lines, line) /\ track'.done = TRUE
          /\ track'.lines \in Seq(ChatLines)
      BY <1>2, <1>8, <2>3, RecordedLine
    <3>2. u \in Tracked /\ u \in Messages /\ post'[u] \in {"sent", "over"} /\ post[u] \in {"sent", "over"}
      BY <1>9, <2>1, <2>3 DEF FollowInv, Tracks
    <3>3. ASSUME u \notin overlapped \cup died
          PROVE  track'.lines = said'[u] /\ post'[u] = "over"
      <4>1. track.lines = said[u] /\ post[u] # "over"
        BY <2>3, <3>3 DEF FollowInv, Tracks
      <4>2. u = m
        BY <1>13, <3>2, <3>3, <4>1, FollowFacts
      <4>3. said'[m] = Append(said[m], line) /\ post'[m] = "over"
        BY <1>7, <1>9, <3>2, <4>2
      <4> HIDE DEF u
      <4> QED BY <3>1, <4>1, <4>2, <4>3
    <3> QED BY <1>2, <2>3, <3>1, <3>2, <3>3 DEF Tracks
  <2> QED BY <2>2, <2>3
<1> QED BY <1>10, <1>11, <1>14, <1>15 DEF FollowInv

LEMMA QueryEndsKeeps ==
  ASSUME FollowInv, NEW threw \in BOOLEAN, QueryEnds(threw)
  PROVE  FollowInv'
<1> DEFINE owed == Range(agent.owes)
           line == Line(NoTurn, "result")
<1>1. /\ agent' = [up |-> FALSE, owes |-> <<>>]
      /\ post' = [m \in Messages |-> IF m \in owed THEN "over" ELSE post[m]]
      /\ died' = died \cup owed
      /\ said' = [m \in Messages |-> IF threw /\ m \in owed THEN Append(said[m], line) ELSE said[m]]
      /\ overlapped' = overlapped \cup {m \in Messages : post[m] = "sending"}
      /\ track' = track
  BY DEF QueryEnds
<1>2. /\ threw => feed' = FeedTo(Following, line) /\ reader' = Heard(line) /\ silent' = silent
      /\ ~ threw => feed' = feed /\ reader' = reader /\ silent' = TRUE
  BY Zenon DEF QueryEnds
<1>3. owed \subseteq Messages /\ \A k \in Messages : post[k] = "sent" <=> k \in owed
  BY FollowFacts DEF FollowInv, OwesSent
<1>4. line \in ChatLines /\ line.kind = "result"
  BY LineKinds
<1> HIDE DEF line, owed
<1>5. \A k \in Messages : post'[k] = IF k \in owed THEN "over" ELSE post[k]
  BY <1>1
<1>6. \A k \in Messages : /\ threw => reader'[k] = IF reader[k] = "following" THEN "ended" ELSE reader[k]
                          /\ ~ threw => reader'[k] = reader[k]
  BY <1>2, <1>4, Feeds
<1>7. \A k \in Messages : /\ threw => feed'[k] = IF reader[k] = "following" THEN Append(feed[k], line) ELSE feed[k]
                          /\ ~ threw => feed'[k] = feed[k]
  BY <1>2, <1>4, Feeds, FollowFacts
<1>8. \A k \in Messages : /\ threw => said'[k] = IF k \in owed THEN Append(said[k], line) ELSE said[k]
                          /\ ~ threw => said'[k] = said[k]
  BY <1>1
<1>9. ChatTypes'
  <2>1. feed' \in [Messages -> Seq(ChatLines)] /\ reader' \in [Messages -> {"none", "following", "ended", "left"}]
    BY <1>2, <1>4, Feeds DEF FollowInv, ChatTypes
  <2>2. said' \in [Messages -> Seq(ChatLines)]
    <3>1. \A k \in Messages : said[k] \in Seq(ChatLines) /\ Append(said[k], line) \in Seq(ChatLines)
      BY <1>4, FollowFacts
    <3> QED BY <1>1, <3>1
  <2>3. post' \in [Messages -> {"new", "sending", "sent", "over"}]
    BY <1>1, FollowFacts
  <2>4. overlapped' \subseteq Messages /\ died' \subseteq Messages
    BY <1>1, <1>3 DEF FollowInv, ChatTypes
  <2>5. silent' \in BOOLEAN
    BY <1>2, Zenon DEF FollowInv, ChatTypes
  <2> QED BY <2>1, <2>2, <2>3, <2>4, <2>5 DEF ChatTypes
<1>10. OwesSent'
  <2>1. agent'.owes = <<>> /\ agent'.up = FALSE
    BY <1>1
  <2>2. Range(<<>>) = {} /\ Len(<<>>) = 0
    BY DEF Range
  <2>3. \A k \in Messages : post'[k] # "sent"
    BY <1>3, <1>5
  <2>4. (agent.owes)' = <<>> /\ (agent.up)' = FALSE /\ <<>> \in Seq(Messages) /\ \A i \in 1..Len(<<>>) : FALSE
    BY <2>1
  <2> QED BY <2>2, <2>3, <2>4 DEF OwesSent
<1>11. ASSUME NEW k \in Messages PROVE Alone(k)'
  <2>1. Alone(k)
    BY DEF FollowInv
  <2>2. \A j : /\ j \in InFlight' => j \in InFlight /\ post[j] = "sending"
               /\ j \in Following' => j \in Following
    BY <1>3, <1>5, <1>6, FollowFacts, WhoNext
  <2>3. post'[k] = "new" => reader'[k] = "none" /\ feed'[k] = <<>>
    <3>1. post'[k] = "new" => post[k] = "new"
      BY <1>5
    <3> QED BY <1>6, <1>7, <2>1, <3>1 DEF Alone
  <2>4. post'[k] \in {"new", "sending"} => said'[k] = <<>>
    <3>1. post'[k] \in {"new", "sending"} => post'[k] = post[k] /\ k \notin owed
      BY <1>3, <1>5
    <3> QED BY <1>8, <2>1, <3>1 DEF Alone
  <2>5. reader'[k] = "following" => k \in Followed
    BY <1>6, <2>1 DEF Alone
  <2>6. ASSUME k \notin overlapped'
        PROVE  /\ \A j \in InFlight' : j # k => k \notin InFlight' \cup Following'
               /\ reader'[k] \in {"following", "ended"} => feed'[k] = said'[k]
               /\ reader'[k] = "ended" => k \notin InFlight'
               /\ reader'[k] = "following" /\ post'[k] = "over" => ~ agent'.up
    <3>1. k \notin overlapped /\ post[k] # "sending"
      BY <1>1, <2>6
    <3>2. k \notin InFlight'
      BY <2>2, <3>1
    <3>3. ~ agent'.up
      BY <1>1
    <3>4. agent.up
      BY Zenon DEF QueryEnds
    <3>5. /\ \A j \in InFlight : j # k => k \notin InFlight \cup Following
          /\ reader[k] \in {"following", "ended"} => feed[k] = said[k]
          /\ reader[k] = "ended" => k \notin InFlight
      BY <2>1, <3>1 DEF Alone
    <3>6. reader[k] = "following" => post[k] = "sent"
      <4>1. reader[k] = "following" => post[k] # "over"
        BY <2>1, <3>1, <3>4, Zenon DEF Alone
      <4>2. reader[k] = "following" => post[k] # "new"
        BY <2>1 DEF Alone
      <4> QED BY <3>1, <4>1, <4>2, FollowFacts
    <3>7. reader[k] = "ended" => k \notin owed
      BY <1>3, <3>5, FollowFacts
    <3>8. reader'[k] \in {"following", "ended"} => feed'[k] = said'[k]
      BY <1>3, <1>6, <1>7, <1>8, <3>5, <3>6, <3>7
    <3>9. \A j \in InFlight' : j # k => k \notin InFlight' \cup Following'
      BY <2>2, <3>5
    <3> QED BY <3>2, <3>3, <3>8, <3>9
  <2> QED BY <2>3, <2>4, <2>5, <2>6 DEF Alone
<1>12. Tracks'
  <2>1. track.id # NoTurn => track.id \in Messages
    BY FollowAssumption DEF FollowInv, Tracks
  <2>2. track.id # NoTurn => post'[track.id] \in {"sent", "over"}
    BY <1>5, <2>1 DEF FollowInv, Tracks
  <2>3. track.id # NoTurn /\ track.id \notin died' =>
          post'[track.id] = post[track.id] /\ said'[track.id] = said[track.id] /\ track.id \notin died
    BY <1>1, <1>5, <1>8, <2>1
  <2>4. overlapped \subseteq overlapped'
    BY <1>1
  <2> QED BY <1>1, <2>2, <2>3, <2>4 DEF FollowInv, Tracks
<1> QED BY <1>9, <1>10, <1>11, <1>12 DEF FollowInv

LEMMA FollowStart == FollowInit => FollowInv
<1> SUFFICES ASSUME FollowInit PROVE FollowInv
  OBVIOUS
<1>1. /\ post = [m \in Messages |-> "new"] /\ reader = [m \in Messages |-> "none"]
      /\ feed = [m \in Messages |-> <<>>] /\ said = [m \in Messages |-> <<>>]
      /\ overlapped = {} /\ died = {} /\ silent = FALSE
  BY DEF FollowInit
<1>2. agent = [up |-> FALSE, owes |-> <<>>] /\ track = [id |-> NoTurn, lines |-> <<>>, done |-> FALSE]
  BY DEF FollowInit, NoTrack
<1>3. <<>> \in Seq(ChatLines) /\ <<>> \in Seq(Messages) /\ Range(<<>>) = {} /\ Len(<<>>) = 0
  BY DEF Range
<1>4. ChatTypes
  BY <1>1, <1>3 DEF ChatTypes
<1>5. OwesSent
  <2>1. agent.owes = <<>> /\ agent.up = FALSE
    BY <1>2
  <2>2. \A i \in 1..Len(<<>>) : FALSE
    OBVIOUS
  <2>3. \A m \in Messages : post[m] # "sent"
    BY <1>1
  <2> QED BY <1>3, <2>1, <2>2, <2>3 DEF OwesSent
<1>6. InFlight = {} /\ Following = {}
  BY <1>1 DEF InFlight, Following
<1>7. \A m \in Messages : Alone(m)
  BY <1>1, <1>6 DEF Alone
<1>8. Tracks
  <2>1. track.id = NoTurn /\ track.lines = <<>> /\ track.done = FALSE
    BY <1>2
  <2> QED BY <1>3, <2>1 DEF Tracks
<1> QED BY <1>4, <1>5, <1>7, <1>8 DEF FollowInv

LEMMA FollowStep == FollowInv /\ [FollowNext]_chatVars => FollowInv'
<1> SUFFICES ASSUME FollowInv, [FollowNext]_chatVars PROVE FollowInv'
  OBVIOUS
<1>1. ASSUME NEW m \in Messages, Post(m) \/ Accept(m) \/ Refuse(m) \/ Leave(m) PROVE FollowInv'
  BY <1>1, PostKeeps, AcceptKeeps, RefuseKeeps, LeaveKeeps
<1>2. ASSUME NEW threw \in BOOLEAN, QueryEnds(threw) PROVE FollowInv'
  BY <1>2, QueryEndsKeeps
<1>3. CASE UNCHANGED chatVars
  BY <1>3 DEF chatVars, FollowInv, ChatTypes, OwesSent, Alone, Tracks, InFlight, Following
<1> QED BY <1>1, <1>2, <1>3, SayKeeps, AnswerKeeps DEF FollowNext

LEMMA OwnPrefixes ==
  ASSUME NEW P, NEW t \in Seq(P)
  PROVE  IsPrefix(t, t) /\ IsPrefix(<<>>, t)
<1>1. Len(t) \in Nat /\ Len(<<>>) = 0
  OBVIOUS
<1>2. SubSeq(<<>>, 1, 0) = SubSeq(t, 1, 0)
  <2>1. SubSeq(<<>>, 1, 0) = <<>>
    OBVIOUS
  <2>2. SubSeq(t, 1, 0) = <<>>
    OBVIOUS
  <2> QED BY <2>1, <2>2
<1> QED BY <1>1, <1>2 DEF IsPrefix

\* What the invariant says to a caller.
LEMMA FollowTold == FollowInv => FollowTypeOK /\ OwnAnswer /\ ReplayHonest
<1> SUFFICES ASSUME FollowInv PROVE FollowTypeOK /\ OwnAnswer /\ ReplayHonest
  OBVIOUS
<1>1. FollowTypeOK
  BY FollowFacts DEF FollowInv, ChatTypes, OwesSent, Tracks, FollowTypeOK
<1>2. OwnAnswer
  BY FollowAssumption DEF FollowInv, Alone, OwnAnswer
<1>3. ASSUME NEW m \in Tracked \ (overlapped \cup died)
      PROVE  /\ IsPrefix(Replay(m), said[m])
             /\ track.id = m /\ track.done => Replay(m) = said[m]
  <2>1. said[m] \in Seq(ChatLines)
    BY FollowAssumption, FollowFacts
  <2>2. CASE track.id = m /\ m # NoTurn
    <3>1. Replay(m) = said[m]
      BY <2>2 DEF FollowInv, Tracks, Replay
    <3>2. IsPrefix(said[m], said[m])
      BY <2>1, OwnPrefixes
    <3> QED BY <3>1, <3>2
  <2>3. CASE track.id # m \/ m = NoTurn
    <3>1. Replay(m) = <<>>
      BY <2>3 DEF FollowInv, Tracks, Replay
    <3>2. IsPrefix(<<>>, said[m])
      BY <2>1, OwnPrefixes
    <3>3. ~ (track.id = m /\ track.done)
      BY <2>3 DEF FollowInv, Tracks
    <3> QED BY <3>1, <3>2, <3>3
  <2> QED BY <2>2, <2>3
<1> QED BY <1>1, <1>2, <1>3 DEF ReplayHonest

LEMMA FollowAlone == [Next]_agentServicesVars => [FollowNext]_chatVars
BY DEF Next, agentServicesVars

(* A caller that follows a message hears the answer to it, all of it and nothing
   else, unless another was in flight; and what a caller that lost its connection
   is given again is that answer as far as it went, the whole of it when the slot
   says done, unless another overlapped it or its query died (agentChat.js,
   agentTurnTrack.js): for any number of messages, of callers that leave, and of
   queries that end, throw or cannot start. *)
THEOREM CallersHearTheirs == Spec => [](FollowTypeOK /\ OwnAnswer /\ ReplayHonest)
<1>1. Init => FollowInv
  BY FollowStart DEF Init
<1>2. FollowInv /\ [Next]_agentServicesVars => FollowInv'
  BY FollowAlone, FollowStep
<1>3. FollowInv => FollowTypeOK /\ OwnAnswer /\ ReplayHonest
  BY FollowTold
<1> QED BY <1>1, <1>2, <1>3, PTL DEF Spec

-----------------------------------------------------------------------------
(* The side chats.                                                         *)

Starts == {"none", "handshake", "loading", "opening", "ready", "failed"}
EngineOf(Flag) == [child : {"none", "up", "killed", "gone"}, start : Starts,
                   busy : Flag, cancelled : Flag, session : Nat, since : Nat]
EngineType == EngineOf(BOOLEAN)
TurnType == [step : {"idle", "starting", "prompted", "done"},
             on : Engines \cup {0}, results : 0..2]

InProgress(t) == turn[t].step \in {"starting", "prompted"}

\* How far an engine's start got says what its child is.
Shaped(e) ==
  /\ eng[e].start = "none" <=> eng[e].child = "none"
  /\ eng[e].start = "none" => eng[e].session = 0
  /\ Starting(e) => eng[e].child \in {"up", "killed"}
  /\ eng[e].start = "failed" => eng[e].child \in {"killed", "gone"}

\* A turn starts while its engine does.
AsFar(step, start) == IF step = "starting" THEN start \in {"handshake", "loading", "opening"} ELSE start = "ready"

\* A turn in progress is the only one of its engine, and goes as far as it.
Engaged ==
  /\ \A t \in SideTurns : InProgress(t) =>
       /\ turn[t].on \in Engines /\ eng[turn[t].on].busy /\ eng[turn[t].on].child # "gone"
       /\ AsFar(turn[t].step, eng[turn[t].on].start)
  /\ \A t, u \in SideTurns : InProgress(t) /\ InProgress(u) /\ turn[t].on = turn[u].on => t = u
  /\ \A e \in Engines : eng[e].busy => \E t \in SideTurns : InProgress(t) /\ turn[t].on = e

\* Unless two engines crossed, at most one has a child.
OneChild ==
  ~ crossed => /\ \A e, f \in Engines : HasChild(e) /\ HasChild(f) => e = f
               /\ \A e \in Engines : eng[e].child = "up" => e = entry

Dated(q, ses, r) ==
  /\ q.session # 0 => ses[q.session].after >= q.since
  /\ q.start = "opening" => q.session # 0 /\ ses[q.session].after = r

\* The sessions in use are of the present reset or of the engine's time, where resets
\* clear the id on disk and none came during a handshake.
InTime ==
  /\ sessions \in Seq([whose : {"main", "side"}, after : 0..MaxResets])
  /\ \A e \in Engines : eng[e].session \in 0..Len(sessions) /\ eng[e].since \in 0..resets
  /\ saved \in 0..Len(sessions) /\ main \in 0..Len(sessions)
  /\ Forgetting =>
       /\ saved # 0 => sessions[saved].after = resets
       /\ main # 0 => sessions[main].after = resets
       /\ \A e \in Engines : Dated(eng[e], sessions, resets)

SideTypes ==
  /\ mainEngine \in {"acp", "sdk"}
  /\ entry \in Engines \cup {0} /\ eng \in [Engines -> EngineType]
  /\ turn \in [SideTurns -> TurnType] /\ main \in Nat
  /\ resets \in 0..MaxResets /\ starts \in 0..MaxStarts
  /\ crossed \in BOOLEAN /\ racing \in BOOLEAN

SideInv ==
  /\ SideTypes /\ OneResult /\ (\A e \in Engines : Shaped(e)) /\ Engaged
  /\ EntryLives /\ OneChild /\ InTime

\* g is f, but for e, which is now as said.
Becomes(g, f, e, child, start, busy, cancelled, session, since) ==
  /\ g[e].child = child /\ g[e].start = start /\ g[e].busy = busy
  /\ g[e].cancelled = cancelled /\ g[e].session = session /\ g[e].since = since
  /\ \A k \in Engines \ {e} : g[k] = f[k]

\* What each update of an engine leaves.
Updates(Flag, no, yes, f, e, n, s) ==
  LET T == [Engines -> EngineOf(Flag)]
      q == f[e]
      started == [f EXCEPT ![e].child = "up", ![e].start = "handshake", ![e].since = n]
      taken == [f EXCEPT ![e].busy = yes]
      freed == [f EXCEPT ![e].busy = no, ![e].cancelled = no]
      killed == [f EXCEPT ![e].child = IF @ = "up" THEN "killed" ELSE @]
      gone == [f EXCEPT ![e].child = "gone", ![e].start = IF @ = "ready" THEN @ ELSE "failed"]
      opened == [f EXCEPT ![e].start = s, ![e].session = n]
      stepped == [f EXCEPT ![e].start = s]
      stopped == [f EXCEPT ![e].cancelled = yes]
  IN  /\ started \in T /\ Becomes(started, f, e, "up", "handshake", q.busy, q.cancelled, q.session, n)
      /\ taken \in T /\ Becomes(taken, f, e, q.child, q.start, yes, q.cancelled, q.session, q.since)
      /\ freed \in T /\ Becomes(freed, f, e, q.child, q.start, no, no, q.session, q.since)
      /\ killed \in T /\ Becomes(killed, f, e, IF q.child = "up" THEN "killed" ELSE q.child, q.start, q.busy, q.cancelled, q.session, q.since)
      /\ gone \in T /\ Becomes(gone, f, e, "gone", IF q.start = "ready" THEN q.start ELSE "failed", q.busy, q.cancelled, q.session, q.since)
      /\ opened \in T /\ Becomes(opened, f, e, q.child, s, q.busy, q.cancelled, n, q.since)
      /\ stepped \in T /\ Becomes(stepped, f, e, q.child, s, q.busy, q.cancelled, q.session, q.since)
      /\ stopped \in T /\ Becomes(stopped, f, e, q.child, q.start, q.busy, yes, q.session, q.since)

LEMMA Updated ==
  ASSUME NEW Flag, NEW no \in Flag, NEW yes \in Flag,
         NEW f \in [Engines -> EngineOf(Flag)], NEW e \in Engines, NEW n \in Nat, NEW s \in Starts
  PROVE  Updates(Flag, no, yes, f, e, n, s)
<1> DEFINE T == EngineOf(Flag)
           q == f[e]
<1>0. q \in T
  OBVIOUS
<1>1. LET g == [f EXCEPT ![e].child = "up", ![e].start = "handshake", ![e].since = n] IN g \in [Engines -> T] /\ Becomes(g, f, e, "up", "handshake", q.busy, q.cancelled, q.session, n)
  <2> DEFINE g == [f EXCEPT ![e].child = "up", ![e].start = "handshake", ![e].since = n]
             r == [q EXCEPT !.child = "up", !.start = "handshake", !.since = n]
  <2>1. r \in T /\ r.child = "up" /\ r.start = "handshake" /\ r.busy = q.busy /\ r.cancelled = q.cancelled /\ r.session = q.session /\ r.since = n
    BY DEF EngineOf, Starts
  <2>2. g[e] = r /\ g \in [Engines -> T] /\ \A k \in Engines \ {e} : g[k] = f[k]
    BY <2>1
  <2> HIDE DEF r, T, q
  <2>3. Becomes(g, f, e, "up", "handshake", q.busy, q.cancelled, q.session, n)
    <3> HIDE DEF g
    <3> QED BY <2>1, <2>2 DEF Becomes
  <2> QED BY <2>2, <2>3
<1>2. LET g == [f EXCEPT ![e].busy = yes] IN g \in [Engines -> T] /\ Becomes(g, f, e, q.child, q.start, yes, q.cancelled, q.session, q.since)
  <2> DEFINE g == [f EXCEPT ![e].busy = yes]
             r == [q EXCEPT !.busy = yes]
  <2>1. r \in T /\ r.child = q.child /\ r.start = q.start /\ r.busy = yes /\ r.cancelled = q.cancelled /\ r.session = q.session /\ r.since = q.since
    BY DEF EngineOf, Starts
  <2>2. g[e] = r /\ g \in [Engines -> T] /\ \A k \in Engines \ {e} : g[k] = f[k]
    BY <2>1
  <2> HIDE DEF r, T, q
  <2>3. Becomes(g, f, e, q.child, q.start, yes, q.cancelled, q.session, q.since)
    <3> HIDE DEF g
    <3> QED BY <2>1, <2>2 DEF Becomes
  <2> QED BY <2>2, <2>3
<1>3. LET g == [f EXCEPT ![e].busy = no, ![e].cancelled = no] IN g \in [Engines -> T] /\ Becomes(g, f, e, q.child, q.start, no, no, q.session, q.since)
  <2> DEFINE g == [f EXCEPT ![e].busy = no, ![e].cancelled = no]
             r == [q EXCEPT !.busy = no, !.cancelled = no]
  <2>1. r \in T /\ r.child = q.child /\ r.start = q.start /\ r.busy = no /\ r.cancelled = no /\ r.session = q.session /\ r.since = q.since
    BY DEF EngineOf, Starts
  <2>2. g[e] = r /\ g \in [Engines -> T] /\ \A k \in Engines \ {e} : g[k] = f[k]
    BY <2>1
  <2> HIDE DEF r, T, q
  <2>3. Becomes(g, f, e, q.child, q.start, no, no, q.session, q.since)
    <3> HIDE DEF g
    <3> QED BY <2>1, <2>2 DEF Becomes
  <2> QED BY <2>2, <2>3
<1>4. LET g == [f EXCEPT ![e].child = IF @ = "up" THEN "killed" ELSE @] IN g \in [Engines -> T] /\ Becomes(g, f, e, IF q.child = "up" THEN "killed" ELSE q.child, q.start, q.busy, q.cancelled, q.session, q.since)
  <2> DEFINE g == [f EXCEPT ![e].child = IF @ = "up" THEN "killed" ELSE @]
             r == [q EXCEPT !.child = IF @ = "up" THEN "killed" ELSE @]
  <2>1. r \in T /\ r.child = (IF q.child = "up" THEN "killed" ELSE q.child) /\ r.start = q.start /\ r.busy = q.busy /\ r.cancelled = q.cancelled /\ r.session = q.session /\ r.since = q.since
    BY DEF EngineOf, Starts
  <2>2. g[e] = r /\ g \in [Engines -> T] /\ \A k \in Engines \ {e} : g[k] = f[k]
    BY <2>1
  <2> HIDE DEF r, T, q
  <2>3. Becomes(g, f, e, IF q.child = "up" THEN "killed" ELSE q.child, q.start, q.busy, q.cancelled, q.session, q.since)
    <3> HIDE DEF g
    <3> QED BY <2>1, <2>2 DEF Becomes
  <2> QED BY <2>2, <2>3
<1>5. LET g == [f EXCEPT ![e].child = "gone", ![e].start = IF @ = "ready" THEN @ ELSE "failed"] IN g \in [Engines -> T] /\ Becomes(g, f, e, "gone", IF q.start = "ready" THEN q.start ELSE "failed", q.busy, q.cancelled, q.session, q.since)
  <2> DEFINE g == [f EXCEPT ![e].child = "gone", ![e].start = IF @ = "ready" THEN @ ELSE "failed"]
             r == [q EXCEPT !.child = "gone", !.start = IF @ = "ready" THEN @ ELSE "failed"]
  <2>1. r \in T /\ r.child = "gone" /\ r.start = (IF q.start = "ready" THEN q.start ELSE "failed") /\ r.busy = q.busy /\ r.cancelled = q.cancelled /\ r.session = q.session /\ r.since = q.since
    BY DEF EngineOf, Starts
  <2>2. g[e] = r /\ g \in [Engines -> T] /\ \A k \in Engines \ {e} : g[k] = f[k]
    BY <2>1
  <2> HIDE DEF r, T, q
  <2>3. Becomes(g, f, e, "gone", IF q.start = "ready" THEN q.start ELSE "failed", q.busy, q.cancelled, q.session, q.since)
    <3> HIDE DEF g
    <3> QED BY <2>1, <2>2 DEF Becomes
  <2> QED BY <2>2, <2>3
<1>6. LET g == [f EXCEPT ![e].start = s, ![e].session = n] IN g \in [Engines -> T] /\ Becomes(g, f, e, q.child, s, q.busy, q.cancelled, n, q.since)
  <2> DEFINE g == [f EXCEPT ![e].start = s, ![e].session = n]
             r == [q EXCEPT !.start = s, !.session = n]
  <2>1. r \in T /\ r.child = q.child /\ r.start = s /\ r.busy = q.busy /\ r.cancelled = q.cancelled /\ r.session = n /\ r.since = q.since
    BY DEF EngineOf, Starts
  <2>2. g[e] = r /\ g \in [Engines -> T] /\ \A k \in Engines \ {e} : g[k] = f[k]
    BY <2>1
  <2> HIDE DEF r, T, q
  <2>3. Becomes(g, f, e, q.child, s, q.busy, q.cancelled, n, q.since)
    <3> HIDE DEF g
    <3> QED BY <2>1, <2>2 DEF Becomes
  <2> QED BY <2>2, <2>3
<1>7. LET g == [f EXCEPT ![e].start = s] IN g \in [Engines -> T] /\ Becomes(g, f, e, q.child, s, q.busy, q.cancelled, q.session, q.since)
  <2> DEFINE g == [f EXCEPT ![e].start = s]
             r == [q EXCEPT !.start = s]
  <2>1. r \in T /\ r.child = q.child /\ r.start = s /\ r.busy = q.busy /\ r.cancelled = q.cancelled /\ r.session = q.session /\ r.since = q.since
    BY DEF EngineOf, Starts
  <2>2. g[e] = r /\ g \in [Engines -> T] /\ \A k \in Engines \ {e} : g[k] = f[k]
    BY <2>1
  <2> HIDE DEF r, T, q
  <2>3. Becomes(g, f, e, q.child, s, q.busy, q.cancelled, q.session, q.since)
    <3> HIDE DEF g
    <3> QED BY <2>1, <2>2 DEF Becomes
  <2> QED BY <2>2, <2>3
<1>8. LET g == [f EXCEPT ![e].cancelled = yes] IN g \in [Engines -> T] /\ Becomes(g, f, e, q.child, q.start, q.busy, yes, q.session, q.since)
  <2> DEFINE g == [f EXCEPT ![e].cancelled = yes]
             r == [q EXCEPT !.cancelled = yes]
  <2>1. r \in T /\ r.child = q.child /\ r.start = q.start /\ r.busy = q.busy /\ r.cancelled = yes /\ r.session = q.session /\ r.since = q.since
    BY DEF EngineOf, Starts
  <2>2. g[e] = r /\ g \in [Engines -> T] /\ \A k \in Engines \ {e} : g[k] = f[k]
    BY <2>1
  <2> HIDE DEF r, T, q
  <2>3. Becomes(g, f, e, q.child, q.start, q.busy, yes, q.session, q.since)
    <3> HIDE DEF g
    <3> QED BY <2>1, <2>2 DEF Becomes
  <2> QED BY <2>2, <2>3
<1> QED BY <1>1, <1>2, <1>3, <1>4, <1>5, <1>6, <1>7, <1>8 DEF Updates

LEMMA EngineSteps ==
  ASSUME NEW f \in [Engines -> EngineType], NEW e \in Engines, NEW n \in Nat, NEW s \in Starts
  PROVE  Updates(BOOLEAN, FALSE, TRUE, f, e, n, s)
<1>1. f \in [Engines -> EngineOf(BOOLEAN)]
  BY DEF EngineType
<1> QED BY <1>1, Updated

\* What holds of an engine, its turns and the sessions in every step.
LEMMA SideFacts ==
  ASSUME SideInv
  PROVE  /\ eng \in [Engines -> EngineType] /\ resets \in Nat /\ MaxResets \in Nat /\ Engines \subseteq Nat \ {0}
         /\ \A e \in Engines : /\ eng[e].child \in {"none", "up", "killed", "gone"}
                               /\ eng[e].start \in Starts
                               /\ eng[e].session \in Nat /\ eng[e].since \in Nat
         /\ \A t \in SideTurns : /\ turn[t].step \in {"idle", "starting", "prompted", "done"}
                                 /\ turn[t].on \in Engines \cup {0}
                                 /\ turn[t].results = IF turn[t].step = "done" THEN 1 ELSE 0
         /\ \A e \in Engines : \A t : t \in On(e) <=> t \in SideTurns /\ turn[t].on = e /\ InProgress(t)
         /\ saved \in Nat /\ main \in Nat
<1>1. eng \in [Engines -> EngineType] /\ resets \in Nat /\ MaxResets \in Nat /\ Engines \subseteq Nat \ {0}
  BY SideAssumption DEF SideInv, SideTypes, Engines
<1>2. \A e \in Engines : /\ eng[e].child \in {"none", "up", "killed", "gone"}
                         /\ eng[e].start \in Starts
                         /\ eng[e].session \in Nat /\ eng[e].since \in Nat
  BY <1>1 DEF EngineType, EngineOf, Starts
<1>3. \A t \in SideTurns : /\ turn[t].step \in {"idle", "starting", "prompted", "done"}
                           /\ turn[t].on \in Engines \cup {0}
  BY DEF SideInv, SideTypes, TurnType
<1>4. saved \in Nat /\ main \in Nat
  BY DEF SideInv, SideTypes, InTime, Forgetting
<1> QED BY <1>1, <1>2, <1>3, <1>4 DEF SideInv, OneResult, On, InProgress

LEMMA ResultsOf ==
  ASSUME SideInv, NEW S, S \subseteq {t \in SideTurns : InProgress(t)}, Results(S)
  PROVE  /\ turn' \in [SideTurns -> TurnType]
         /\ \A t \in SideTurns : /\ t \in S => turn'[t].step = "done" /\ turn'[t].results = 1
                                 /\ t \notin S => turn'[t] = turn[t]
         /\ OneResult'
<1>1. \A t \in SideTurns : turn[t] \in TurnType /\ turn'[t] = IF t \in S THEN [turn[t] EXCEPT !.step = "done", !.results = @ + 1] ELSE turn[t]
  BY DEF Results, SideInv, SideTypes
<1>2. \A t \in S : turn[t].results = 0
  BY SideFacts DEF InProgress
<1>3. \A t \in SideTurns : t \in S => turn'[t] \in TurnType /\ turn'[t].step = "done" /\ turn'[t].results = 1
  <2> TAKE t \in SideTurns
  <2> HAVE t \in S
  <2> DEFINE r == turn[t]
  <2>1. r \in TurnType /\ r.results = 0
    BY <1>1, <1>2
  <2>2. turn'[t] = [r EXCEPT !.step = "done", !.results = r.results + 1]
    BY <1>1
  <2> HIDE DEF r
  <2>3. turn'[t] = [r EXCEPT !.step = "done", !.results = 1]
    BY <2>1, <2>2
  <2>4. [r EXCEPT !.step = "done", !.results = 1] \in TurnType
    <3> DEFINE A == {"idle", "starting", "prompted", "done"}
               B == Engines \cup {0}
               C == 0..2
    <3>1. "done" \in A /\ 1 \in C /\ TurnType = [step : A, on : B, results : C]
      BY DEF TurnType
    <3> HIDE DEF A, B, C
    <3> QED BY <2>1, <3>1
  <2>5. [r EXCEPT !.step = "done", !.results = 1].step = "done" /\ [r EXCEPT !.step = "done", !.results = 1].results = 1
    BY <2>1 DEF TurnType
  <2> QED BY <2>3, <2>4, <2>5
<1>4. turn' \in [SideTurns -> TurnType]
  BY <1>1, <1>3 DEF Results
<1>5. \A t \in SideTurns : t \notin S => turn'[t] = turn[t]
  BY <1>1
<1>6. OneResult'
  BY <1>3, <1>5, SideFacts DEF OneResult
<1> QED BY <1>3, <1>4, <1>5, <1>6

\* A session that is asked for is of the present reset, where resets forget.
LEMMA SessionOpened ==
  ASSUME SideInv, NEW whose \in {"main", "side"}, OpenSession(whose)
  PROVE  /\ sessions' \in Seq([whose : {"main", "side"}, after : 0..MaxResets])
         /\ Len(sessions) \in Nat /\ Len(sessions') \in Nat /\ Len(sessions) <= Len(sessions')
         /\ \A i \in 1..Len(sessions) : sessions'[i] = sessions[i]
         /\ Opened(whose) \in 1..Len(sessions')
         /\ Forgetting => sessions'[Opened(whose)].after = resets
         /\ ~ Resumes(whose) => sessions'[Opened(whose)].after = resets
<1> DEFINE T == [whose : {"main", "side"}, after : 0..MaxResets]
           s == sessions
           o == [whose |-> whose, after |-> resets]
<1>1. s \in Seq(T) /\ saved \in 0..Len(s) /\ (saved # 0 /\ Forgetting => s[saved].after = resets) /\ resets \in 0..MaxResets
  BY DEF SideInv, InTime, Forgetting, SideTypes
<1>2. o \in T /\ o.after = resets
  BY <1>1
<1>4. CASE Resumes(whose)
  <2>1. saved # 0 /\ Opened(whose) = saved /\ sessions' = s
    BY <1>4 DEF Resumes, Opened, OpenSession
  <2> QED BY <1>1, <1>4, <2>1
<1>5. CASE ~ Resumes(whose)
  <2>1. Opened(whose) = Len(s) + 1 /\ sessions' = Append(s, o)
    BY <1>5 DEF Opened, OpenSession
  <2> HIDE DEF o, T
  <2>2. /\ Append(s, o) \in Seq(T) /\ Len(s) \in Nat /\ Len(Append(s, o)) = Len(s) + 1
        /\ Append(s, o)[Len(s) + 1] = o /\ \A i \in 1..Len(s) : Append(s, o)[i] = s[i]
    BY <1>1, <1>2
  <2>3. sessions' \in Seq(T)
    BY <2>1, <2>2
  <2> HIDE DEF s
  <2>4. /\ Len(s) \in Nat /\ Len(sessions') = Len(s) + 1 /\ \A i \in 1..Len(s) : sessions'[i] = s[i]
        /\ sessions'[Len(s) + 1] = o
    BY <2>1, <2>2
  <2> QED BY <1>2, <2>1, <2>3, <2>4 DEF s, T
<1> QED BY <1>4, <1>5

\* An engine that is begun has a child, which is the only one unless two crossed.
LEMMA BegunIs ==
  ASSUME SideInv, NEW e \in Engines, entry # 0 => e = entry, entry = 0 => eng[e].start = "none"
  PROVE  /\ Begun(e) \in [Engines -> EngineType]
         /\ Becomes(Begun(e), eng, e, "up", IF entry = 0 THEN "handshake" ELSE eng[e].start, eng[e].busy,
                    eng[e].cancelled, eng[e].session, IF entry = 0 THEN resets ELSE eng[e].since)
<1>1. eng \in [Engines -> EngineType] /\ resets \in Nat
  BY SideFacts
<1>2. CASE entry = 0
  <2>1. Begun(e) = [eng EXCEPT ![e].child = "up", ![e].start = "handshake", ![e].since = resets]
    BY <1>2 DEF Begun
  <2>2. Updates(BOOLEAN, FALSE, TRUE, eng, e, resets, "failed")
    BY <1>1, EngineSteps DEF Starts
  <2> QED BY <1>2, <2>1, <2>2 DEF Updates, EngineType
<1>3. CASE entry # 0
  <2>1. eng[e].child = "up" /\ eng[e].start # "none"
    BY <1>3 DEF SideInv, EntryLives, Shaped, Starting
  <2> QED BY <1>1, <1>3, <2>1 DEF Begun, Becomes
<1> QED BY <1>2, <1>3

LEMMA SendKeeps ==
  ASSUME SideInv, NEW e \in Engines, NEW t \in SideTurns, Send(t, e)
  PROVE  SideInv'
<1>1. /\ turn[t].step = "idle" /\ entry' = e /\ (entry # 0 => e = entry) /\ (entry = 0 => eng[e].start = "none")
      /\ UNCHANGED <<mainEngine, saved, main, sessions, resets, starts, racing>>
  BY DEF Send, Target, Fresh
<1>2. crossed' = (crossed \/ (entry = 0 /\ \E x \in Engines : HasChild(x)))
  BY DEF Send, Cross
<1>3. e # 0 /\ e \in Nat /\ ~ InProgress(t) /\ eng \in [Engines -> EngineType] /\ resets \in Nat
  BY <1>1, SideFacts DEF InProgress
<1>4. CASE eng[e].busy
  <2>1. /\ eng' = eng /\ turn' = [turn EXCEPT ![t] = [step |-> "done", on |-> e, results |-> 1]]
    BY <1>4 DEF Send, Accepts
  <2>2. \A u \in SideTurns : turn'[u] = IF u = t THEN [step |-> "done", on |-> e, results |-> 1] ELSE turn[u]
    BY <2>1 DEF SideInv, SideTypes
  <2>3. turn' \in [SideTurns -> TurnType]
    BY <2>1 DEF SideInv, SideTypes, TurnType
  <2>4. entry = e
    <3>1. eng[e].start # "none"
      BY <1>3, <1>4 DEF SideInv, Engaged, InProgress, Shaped, Starting, AsFar
    <3> QED BY <1>1, <3>1
  <2>5. SideTypes'
    BY <1>1, <1>2, <2>1, <2>3 DEF SideInv, SideTypes
  <2>6. OneResult'
    BY <2>2 DEF SideInv, OneResult
  <2>7. \A k \in Engines : Shaped(k)'
    BY <2>1 DEF SideInv, Shaped, Starting
  <2>8. Engaged'
    BY <1>3, <2>1, <2>2 DEF SideInv, Engaged, InProgress, Starting
  <2>9. EntryLives' /\ OneChild'
    BY <1>1, <1>2, <2>1, <2>4 DEF SideInv, EntryLives, OneChild, HasChild
  <2>10. InTime'
    BY <1>1, <2>1 DEF SideInv, InTime, Forgetting
  <2> QED BY <2>5, <2>6, <2>7, <2>8, <2>9, <2>10 DEF SideInv
<1>5. CASE ~ eng[e].busy
  <2> DEFINE step == IF eng[e].start = "ready" THEN "prompted" ELSE "starting"
             q == eng[e]
             start == IF entry = 0 THEN "handshake" ELSE q.start
  <2>1. /\ eng' = [Begun(e) EXCEPT ![e].busy = TRUE]
        /\ turn' = [turn EXCEPT ![t] = [step |-> step, on |-> e, results |-> 0]]
    BY <1>5 DEF Send, Accepts
  <2>2. /\ Begun(e) \in [Engines -> EngineType]
        /\ Becomes(Begun(e), eng, e, "up", start, q.busy, q.cancelled, q.session, IF entry = 0 THEN resets ELSE q.since)
    BY <1>1, BegunIs
  <2>3. /\ eng' \in [Engines -> EngineType]
        /\ Becomes(eng', eng, e, "up", start, TRUE, q.cancelled, q.session, IF entry = 0 THEN resets ELSE q.since)
    <3>1. Updates(BOOLEAN, FALSE, TRUE, Begun(e), e, 0, "none")
      BY <2>2, EngineSteps DEF Starts
    <3> HIDE DEF q, start
    <3> QED BY <2>1, <2>2, <3>1 DEF Updates, EngineType, Becomes
  <2>4. \A u \in SideTurns : turn'[u] = IF u = t THEN [step |-> step, on |-> e, results |-> 0] ELSE turn[u]
    BY <2>1 DEF SideInv, SideTypes
  <2>5. turn' \in [SideTurns -> TurnType]
    BY <2>1 DEF SideInv, SideTypes, TurnType
  <2>6. /\ eng'[e].child = "up" /\ eng'[e].start = start /\ eng'[e].session = q.session
        /\ eng'[e].since = IF entry = 0 THEN resets ELSE q.since
        /\ \A k \in Engines : k # e => eng'[k] = eng[k]
    BY <2>3 DEF Becomes
  <2>7. eng'[e].busy = TRUE
    BY <2>3, Zenon DEF Becomes
  <2>8. start \notin {"none", "failed"} /\ AsFar(step, start)
    <3>1. CASE entry = 0
      BY <1>1, <3>1 DEF AsFar
    <3>2. CASE entry # 0
      <4>1. q.child = "up"
        BY <1>1, <3>2 DEF SideInv, EntryLives
      <4>2. q.start \notin {"none", "failed"} /\ q.start \in Starts
        BY <4>1, SideFacts DEF SideInv, Shaped
      <4> QED BY <3>2, <4>2 DEF AsFar, Starts
    <3> QED BY <3>1, <3>2
  <2> HIDE DEF start, step, q
  <2>9. SideTypes'
    BY <1>1, <1>2, <2>3, <2>5 DEF SideInv, SideTypes
  <2>10. OneResult'
    BY <2>4, <2>8 DEF SideInv, OneResult, step
  <2>11. \A k \in Engines : Shaped(k)'
    BY <1>1, <2>6, <2>8 DEF SideInv, Shaped, q, start, Starting
  <2>12. Engaged'
    <3>1. \A u \in SideTurns : InProgress(u)' <=> u = t \/ InProgress(u)
      BY <1>3, <2>4 DEF InProgress, step
    <3>2. \A u \in SideTurns : InProgress(u) => u # t /\ turn'[u] = turn[u] /\ turn[u].on \in Engines /\ turn[u].on # e
      BY <1>3, <1>5, <2>4 DEF SideInv, Engaged, Starting
    <3>3. ASSUME NEW u \in SideTurns, InProgress(u)'
          PROVE  /\ turn'[u].on \in Engines /\ eng'[turn'[u].on].busy /\ eng'[turn'[u].on].child # "gone"
                 /\ AsFar(turn'[u].step, eng'[turn'[u].on].start)
      <4>1. CASE u = t
        BY <2>4, <2>6, <2>7, <2>8, <4>1
      <4>2. CASE u # t
        <5>1. InProgress(u) /\ turn'[u] = turn[u] /\ eng'[turn[u].on] = eng[turn[u].on]
          BY <2>6, <3>1, <3>2, <3>3, <4>2
        <5> QED BY <5>1 DEF SideInv, Engaged, Starting
      <4> QED BY <4>1, <4>2
    <3>4. \A u, v \in SideTurns : InProgress(u)' /\ InProgress(v)' /\ turn'[u].on = turn'[v].on => u = v
      BY <2>4, <3>1, <3>2 DEF SideInv, Engaged, Starting
    <3>5. ASSUME NEW k \in Engines, eng'[k].busy PROVE \E u \in SideTurns : InProgress(u)' /\ turn'[u].on = k
      <4>1. CASE k = e
        BY <2>4, <3>1, <4>1
      <4>2. CASE k # e
        <5>1. eng[k].busy
          BY <2>6, <3>5, <4>2
        <5>2. PICK u \in SideTurns : InProgress(u) /\ turn[u].on = k
          BY <5>1 DEF SideInv, Engaged, Starting
        <5> QED BY <3>1, <3>2, <5>2
      <4> QED BY <4>1, <4>2
    <3> QED BY <3>3, <3>4, <3>5 DEF Engaged, InProgress, Starting
  <2>13. EntryLives' /\ OneChild'
    <3>1. EntryLives'
      BY <1>1, <2>6 DEF EntryLives
    <3>2. ASSUME ~ crossed'
          PROVE  /\ \A k, f \in Engines : HasChild(k)' /\ HasChild(f)' => k = f
                 /\ \A k \in Engines : eng'[k].child = "up" => k = entry'
      <4>1. \A k \in Engines : k # e => (HasChild(k)' <=> HasChild(k)) /\ eng'[k].child = eng[k].child
        BY <2>6 DEF HasChild
      <4>2. ~ crossed /\ (entry = 0 => \A k \in Engines : ~ HasChild(k))
        BY <1>2, <3>2
      <4>3. entry # 0 => HasChild(e) /\ entry = e
        BY <1>1 DEF SideInv, EntryLives, HasChild
      <4>4. \A k \in Engines : k # e => ~ HasChild(k)
        BY <4>2, <4>3 DEF SideInv, OneChild
      <4> QED BY <1>1, <4>1, <4>4 DEF HasChild
    <3> QED BY <3>1, <3>2 DEF OneChild, HasChild
  <2>14. InTime'
    <3>1. entry = 0 => q.session = 0
      BY <1>1 DEF SideInv, Shaped, q, Starting
    <3>2. q.session \in 0..Len(sessions) /\ q.since \in 0..resets /\ (Forgetting => Dated(q, sessions, resets))
      BY DEF SideInv, InTime, Forgetting, q
    <3>3. resets \in 0..resets
      BY <1>3
    <3>4. \A k \in Engines : eng'[k].session \in 0..Len(sessions) /\ eng'[k].since \in 0..resets
      BY <2>6, <3>2, <3>3 DEF SideInv, InTime, Forgetting
    <3>5. Forgetting => \A k \in Engines : Dated(eng'[k], sessions, resets)
      <4>1. Forgetting => Dated(eng'[e], sessions, resets)
        BY <2>6, <3>1, <3>2 DEF Dated, start
      <4> QED BY <2>6, <4>1 DEF SideInv, InTime, Forgetting
    <3> QED BY <1>1, <3>4, <3>5 DEF SideInv, InTime, Forgetting
  <2> QED BY <2>9, <2>10, <2>11, <2>12, <2>13, <2>14 DEF SideInv
<1> QED BY <1>4, <1>5

LEMMA ModelsKeeps ==
  ASSUME SideInv, NEW e \in Engines, Models(e)
  PROVE  SideInv'
<1>1. /\ entry = 0 /\ eng[e].start = "none" /\ entry' = e /\ eng' = Begun(e)
      /\ UNCHANGED <<mainEngine, turn, saved, main, sessions, resets, starts, racing>>
  BY DEF Models, Fresh
<1>2. crossed' = (crossed \/ \E x \in Engines : HasChild(x))
  BY <1>1 DEF Models, Cross
<1>3. e # 0 /\ resets \in Nat
  BY SideFacts
<1>4. /\ eng' \in [Engines -> EngineType]
      /\ Becomes(eng', eng, e, "up", "handshake", eng[e].busy, eng[e].cancelled, eng[e].session, resets)
  <2>1. /\ Begun(e) \in [Engines -> EngineType]
        /\ Becomes(Begun(e), eng, e, "up", IF entry = 0 THEN "handshake" ELSE eng[e].start, eng[e].busy,
                   eng[e].cancelled, eng[e].session, IF entry = 0 THEN resets ELSE eng[e].since)
    BY <1>1, BegunIs
  <2> QED BY <1>1, <2>1
<1>5. /\ eng'[e].child = "up" /\ eng'[e].start = "handshake" /\ eng'[e].session = eng[e].session
      /\ eng'[e].since = resets /\ \A k \in Engines : k # e => eng'[k] = eng[k]
  BY <1>4 DEF Becomes
<1>6. eng'[e].busy = eng[e].busy
  BY <1>4, Zenon DEF Becomes
<1>7. ~ eng[e].busy
  BY <1>1 DEF SideInv, Engaged, InProgress, Shaped, Starting, AsFar
<1>8. \A u \in SideTurns : InProgress(u) => turn[u].on \in Engines /\ turn[u].on # e
  BY <1>7 DEF SideInv, Engaged, Starting
<1>9. SideTypes' /\ OneResult'
  BY <1>1, <1>2, <1>4 DEF SideInv, SideTypes, OneResult
<1>10. \A k \in Engines : Shaped(k)'
  BY <1>1, <1>5 DEF SideInv, Shaped, Starting
<1>11. Engaged'
  <2>1. \A k \in Engines : eng'[k].busy => eng[k].busy /\ k # e
    BY <1>5, <1>6, <1>7
  <2> QED BY <1>1, <1>5, <1>8, <2>1 DEF SideInv, Engaged, InProgress, Starting
<1>12. EntryLives'
  BY <1>1, <1>5 DEF EntryLives
<1>13. OneChild'
  <2>1. \A k \in Engines : k # e => (HasChild(k)' <=> HasChild(k)) /\ eng'[k].child = eng[k].child
    BY <1>5 DEF HasChild
  <2> QED BY <1>1, <1>2, <2>1 DEF OneChild, HasChild
<1>14. InTime'
  <2>1. eng[e].session = 0
    BY <1>1 DEF SideInv, Shaped, Starting
  <2>2. resets \in 0..resets
    BY <1>3
  <2>3. \A k \in Engines : eng'[k].session \in 0..Len(sessions) /\ eng'[k].since \in 0..resets
    BY <1>5, <2>2 DEF SideInv, InTime, Forgetting
  <2>4. Forgetting => \A k \in Engines : Dated(eng'[k], sessions, resets)
    <3>1. Dated(eng'[e], sessions, resets)
      BY <1>5, <2>1 DEF Dated
    <3> QED BY <1>5, <3>1 DEF SideInv, InTime, Forgetting
  <2> QED BY <1>1, <2>3, <2>4 DEF SideInv, InTime, Forgetting
<1> QED BY <1>9, <1>10, <1>11, <1>12, <1>13, <1>14 DEF SideInv

\* When the turns of an engine end, the others are as engaged as before.
LEMMA EndsEngaged ==
  ASSUME SideInv, NEW e \in Engines, Results(On(e)), eng'[e].busy = FALSE,
         \A k \in Engines : k # e => eng'[k] = eng[k]
  PROVE  turn' \in [SideTurns -> TurnType] /\ OneResult' /\ Engaged'
<1>1. On(e) \subseteq {t \in SideTurns : InProgress(t)} /\ \A t : t \in On(e) <=> t \in SideTurns /\ turn[t].on = e /\ InProgress(t)
  BY SideFacts
<1>2. /\ turn' \in [SideTurns -> TurnType] /\ OneResult'
      /\ \A t \in SideTurns : /\ t \in On(e) => turn'[t].step = "done"
                              /\ t \notin On(e) => turn'[t] = turn[t]
  BY <1>1, ResultsOf
<1>3. \A t \in SideTurns : InProgress(t)' => InProgress(t) /\ turn[t].on # e /\ turn'[t] = turn[t]
  BY <1>1, <1>2 DEF InProgress
<1>4. \A t \in SideTurns : InProgress(t) /\ turn[t].on # e => InProgress(t)' /\ turn'[t] = turn[t]
  BY <1>1, <1>2 DEF InProgress
<1>5. ASSUME NEW t \in SideTurns, InProgress(t)'
      PROVE  /\ turn'[t].on \in Engines /\ eng'[turn'[t].on].busy /\ eng'[turn'[t].on].child # "gone"
             /\ AsFar(turn'[t].step, eng'[turn'[t].on].start)
  <2>1. InProgress(t) /\ turn'[t] = turn[t] /\ turn[t].on \in Engines /\ turn[t].on # e
    BY <1>3, <1>5 DEF SideInv, Engaged, Starting
  <2>2. eng'[turn[t].on] = eng[turn[t].on]
    BY <2>1
  <2> QED BY <2>1, <2>2 DEF SideInv, Engaged, Starting
<1>6. \A t, u \in SideTurns : InProgress(t)' /\ InProgress(u)' /\ turn'[t].on = turn'[u].on => t = u
  BY <1>3 DEF SideInv, Engaged, Starting
<1>7. ASSUME NEW k \in Engines, eng'[k].busy PROVE \E t \in SideTurns : InProgress(t)' /\ turn'[t].on = k
  <2>1. k # e /\ eng[k].busy
    BY <1>7
  <2>2. PICK t \in SideTurns : InProgress(t) /\ turn[t].on = k
    BY <2>1 DEF SideInv, Engaged, Starting
  <2> QED BY <1>4, <2>1, <2>2
<1> QED BY <1>2, <1>5, <1>6, <1>7 DEF Engaged, InProgress, Starting

\* An engine whose child goes or is killed leaves no other, unless two crossed.
LEMMA UnmappedSafe ==
  ASSUME SideInv, NEW e \in Engines, HasChild(e), Unmap(e), crossed' = crossed,
         eng'[e].child \in {"killed", "gone"}, \A k \in Engines : k # e => eng'[k] = eng[k]
  PROVE  EntryLives' /\ OneChild'
<1>1. EntryLives'
  BY DEF Unmap, EntryLives
<1>2. \A k \in Engines : HasChild(k)' => HasChild(k)
  BY DEF HasChild
<1>3. \A k \in Engines : eng'[k].child = "up" => k # e /\ HasChild(k)
  BY DEF HasChild
<1> QED BY <1>1, <1>2, <1>3 DEF OneChild, SideInv, HasChild

\* The sessions of the engines stay, and what they are of.
LEMMA SameTimes ==
  ASSUME SideInv, UNCHANGED <<mainEngine, saved, main, sessions, resets, racing>>,
         \A k \in Engines : /\ eng'[k].session = eng[k].session /\ eng'[k].since = eng[k].since
                            /\ eng'[k].start = "opening" => eng[k].start = "opening"
  PROVE  InTime'
BY DEF SideInv, InTime, Forgetting, Dated

LEMMA HandshakeFailsKeeps ==
  ASSUME SideInv, NEW e \in Engines, HandshakeFails(e)
  PROVE  SideInv'
<1> DEFINE f == [eng EXCEPT ![e].start = "failed"]
           g == Killed(f, e)
           q == eng[e]
           kill == IF q.child = "up" THEN "killed" ELSE q.child
<1>1. /\ Starting(e) /\ entry' = 0 /\ eng' = Ended(g, e) /\ Results(On(e))
      /\ UNCHANGED <<mainEngine, saved, main, sessions, resets, starts, crossed, racing>>
  BY DEF HandshakeFails, GivenUp, Starting, Unmap
<1>2. eng \in [Engines -> EngineType]
  BY SideFacts
<1>3. f \in [Engines -> EngineType] /\ Becomes(f, eng, e, q.child, "failed", q.busy, q.cancelled, q.session, q.since)
  BY <1>2, EngineSteps, 0 \in Nat DEF Updates, Starts, EngineType
<1> HIDE DEF f
<1>4. g \in [Engines -> EngineType] /\ Becomes(g, eng, e, kill, "failed", q.busy, q.cancelled, q.session, q.since)
  <2>1. Updates(BOOLEAN, FALSE, TRUE, f, e, 0, "failed")
    BY <1>3, EngineSteps DEF Starts
  <2> HIDE DEF q
  <2> QED BY <1>3, <2>1 DEF Updates, EngineType, Killed, Becomes
<1> HIDE DEF g, kill
<1>5. eng' \in [Engines -> EngineType] /\ Becomes(eng', eng, e, kill, "failed", FALSE, FALSE, q.session, q.since)
  <2>1. Updates(BOOLEAN, FALSE, TRUE, g, e, 0, "failed")
    BY <1>4, EngineSteps DEF Starts
  <2> HIDE DEF q
  <2> QED BY <1>1, <1>4, <2>1 DEF Updates, EngineType, Ended, Becomes
<1>6. /\ eng'[e].child = kill /\ eng'[e].start = "failed" /\ eng'[e].session = q.session /\ eng'[e].since = q.since
      /\ \A k \in Engines : k # e => eng'[k] = eng[k]
  BY <1>5 DEF Becomes
<1>7. eng'[e].busy = FALSE
  BY <1>5, Zenon DEF Becomes
<1>8. HasChild(e) /\ kill = "killed"
  BY <1>1 DEF SideInv, Shaped, HasChild, kill, Starting
<1>9. turn' \in [SideTurns -> TurnType] /\ OneResult' /\ Engaged'
  BY <1>1, <1>6, <1>7, EndsEngaged
<1>10. SideTypes'
  BY <1>1, <1>5, <1>9 DEF SideInv, SideTypes
<1>11. \A k \in Engines : Shaped(k)'
  BY <1>6, <1>8 DEF SideInv, Shaped, Starting
<1>12. EntryLives' /\ OneChild'
  BY <1>1, <1>6, <1>8, UnmappedSafe DEF Unmap
<1>13. InTime'
  BY <1>1, <1>6, SameTimes
<1> QED BY <1>9, <1>10, <1>11, <1>12, <1>13 DEF SideInv

LEMMA ChildExitsKeeps ==
  ASSUME SideInv, NEW e \in Engines, ChildExits(e)
  PROVE  SideInv'
<1> DEFINE f == [eng EXCEPT ![e].child = "gone", ![e].start = IF @ = "ready" THEN @ ELSE "failed"]
           q == eng[e]
           fail == IF q.start = "ready" THEN q.start ELSE "failed"
<1>1. /\ HasChild(e) /\ entry' = 0 /\ eng' = Ended(f, e) /\ Results(On(e))
      /\ UNCHANGED <<mainEngine, saved, main, sessions, resets, starts, crossed, racing>>
  BY DEF ChildExits, Unmap
<1>2. eng \in [Engines -> EngineType]
  BY SideFacts
<1>3. f \in [Engines -> EngineType] /\ Becomes(f, eng, e, "gone", fail, q.busy, q.cancelled, q.session, q.since)
  BY <1>2, EngineSteps, 0 \in Nat DEF Updates, Starts, EngineType
<1> HIDE DEF f, fail
<1>4. eng' \in [Engines -> EngineType] /\ Becomes(eng', eng, e, "gone", fail, FALSE, FALSE, q.session, q.since)
  <2>1. Updates(BOOLEAN, FALSE, TRUE, f, e, 0, "failed")
    BY <1>3, EngineSteps DEF Starts
  <2> HIDE DEF q
  <2> QED BY <1>1, <1>3, <2>1 DEF Updates, EngineType, Ended, Becomes
<1>5. /\ eng'[e].child = "gone" /\ eng'[e].start = fail /\ eng'[e].session = q.session /\ eng'[e].since = q.since
      /\ \A k \in Engines : k # e => eng'[k] = eng[k]
  BY <1>4 DEF Becomes
<1>6. eng'[e].busy = FALSE
  BY <1>4, Zenon DEF Becomes
<1>7. turn' \in [SideTurns -> TurnType] /\ OneResult' /\ Engaged'
  BY <1>1, <1>5, <1>6, EndsEngaged
<1>8. SideTypes'
  BY <1>1, <1>4, <1>7 DEF SideInv, SideTypes
<1>9. \A k \in Engines : Shaped(k)'
  <2>1. fail \in {"ready", "failed"}
    BY DEF fail
  <2> QED BY <1>5, <2>1 DEF SideInv, Shaped, Starting
<1>10. EntryLives' /\ OneChild'
  BY <1>1, <1>5, UnmappedSafe DEF Unmap
<1>11. InTime'
  BY <1>1, <1>5, SameTimes DEF fail
<1> QED BY <1>7, <1>8, <1>9, <1>10, <1>11 DEF SideInv

LEMMA AnsweredKeeps ==
  ASSUME SideInv, NEW e \in Engines, Answered(e)
  PROVE  SideInv'
<1> DEFINE q == eng[e]
<1>1. /\ eng' = Ended(eng, e) /\ Results(On(e))
      /\ UNCHANGED <<mainEngine, entry, saved, main, sessions, resets, starts, crossed, racing>>
  BY DEF Answered
<1>2. eng \in [Engines -> EngineType]
  BY SideFacts
<1>3. eng' \in [Engines -> EngineType] /\ Becomes(eng', eng, e, q.child, q.start, FALSE, FALSE, q.session, q.since)
  BY <1>1, <1>2, EngineSteps, 0 \in Nat DEF Updates, Starts, EngineType, Ended
<1>4. /\ eng'[e].child = q.child /\ eng'[e].start = q.start /\ eng'[e].session = q.session /\ eng'[e].since = q.since
      /\ \A k \in Engines : k # e => eng'[k] = eng[k]
  BY <1>3 DEF Becomes
<1>5. eng'[e].busy = FALSE
  BY <1>3, Zenon DEF Becomes
<1>6. turn' \in [SideTurns -> TurnType] /\ OneResult' /\ Engaged'
  BY <1>1, <1>4, <1>5, EndsEngaged
<1>7. SideTypes'
  BY <1>1, <1>3, <1>6 DEF SideInv, SideTypes
<1>8. \A k \in Engines : eng'[k].child = eng[k].child /\ eng'[k].start = eng[k].start
                         /\ eng'[k].session = eng[k].session /\ eng'[k].since = eng[k].since
  BY <1>4
<1>9. (\A k \in Engines : Shaped(k)') /\ EntryLives' /\ OneChild'
  BY <1>1, <1>8 DEF SideInv, SideTypes, Shaped, EntryLives, OneChild, HasChild, Starting
<1>10. InTime'
  BY <1>1, <1>8, SameTimes
<1> QED BY <1>6, <1>7, <1>9, <1>10 DEF SideInv

LEMMA InterruptKeeps ==
  ASSUME SideInv, Interrupt
  PROVE  SideInv'
<1> DEFINE e == entry
           q == eng[e]
<1>1. /\ e \in Engines /\ eng' = Cancelled(e)
      /\ UNCHANGED <<mainEngine, entry, turn, saved, main, sessions, resets, starts, crossed, racing>>
  BY DEF Interrupt, SideInv, SideTypes
<1>2. eng \in [Engines -> EngineType]
  BY SideFacts
<1> HIDE DEF e
<1>3. eng' \in [Engines -> EngineType] /\ Becomes(eng', eng, e, q.child, q.start, q.busy, TRUE, q.session, q.since)
  BY <1>1, <1>2, EngineSteps, 0 \in Nat DEF Updates, Starts, EngineType, Cancelled
<1>4. /\ eng'[e].child = q.child /\ eng'[e].start = q.start /\ eng'[e].session = q.session /\ eng'[e].since = q.since
      /\ \A k \in Engines : k # e => eng'[k] = eng[k]
  BY <1>3 DEF Becomes
<1>5. eng'[e].busy = q.busy
  BY <1>3, Zenon DEF Becomes
<1>6. \A k \in Engines : /\ eng'[k].child = eng[k].child /\ eng'[k].start = eng[k].start
                         /\ eng'[k].session = eng[k].session /\ eng'[k].since = eng[k].since
  BY <1>4
<1>7. \A k \in Engines : eng'[k].busy <=> eng[k].busy
  BY <1>4, <1>5
<1>8. SideTypes' /\ OneResult'
  BY <1>1, <1>3 DEF SideInv, SideTypes, OneResult
<1>9. (\A k \in Engines : Shaped(k)') /\ EntryLives' /\ OneChild'
  BY <1>1, <1>6 DEF SideInv, SideTypes, Shaped, EntryLives, OneChild, HasChild, Starting
<1>10. Engaged'
  BY <1>1, <1>6, <1>7 DEF SideInv, Engaged, InProgress, Starting
<1>11. InTime'
  BY <1>1, <1>6, SameTimes
<1> QED BY <1>8, <1>9, <1>10, <1>11 DEF SideInv

\* The kind's entry is killed: by the reaper, or by a reset.
LEMMA EntryKilled ==
  ASSUME SideInv, entry # 0, entry' = 0, eng' = Killed(eng, entry), UNCHANGED <<turn, crossed>>
  PROVE  /\ eng' \in [Engines -> EngineType] /\ (\A k \in Engines : Shaped(k)')
         /\ Engaged' /\ EntryLives' /\ OneChild'
         /\ \A k \in Engines : eng'[k].session = eng[k].session /\ eng'[k].since = eng[k].since /\ eng'[k].start = eng[k].start
<1> DEFINE e == entry
           q == eng[e]
<1>1. e \in Engines /\ q.child = "up" /\ eng' = Killed(eng, e)
  BY DEF SideInv, SideTypes, EntryLives
<1>2. eng \in [Engines -> EngineType]
  BY SideFacts
<1> HIDE DEF e
<1>3. eng' \in [Engines -> EngineType] /\ Becomes(eng', eng, e, "killed", q.start, q.busy, q.cancelled, q.session, q.since)
  <2>1. Updates(BOOLEAN, FALSE, TRUE, eng, e, 0, "failed")
    BY <1>1, <1>2, EngineSteps DEF Starts
  <2> QED BY <1>1, <2>1 DEF Updates, EngineType, Killed
<1>4. /\ eng'[e].child = "killed" /\ eng'[e].start = q.start /\ eng'[e].session = q.session /\ eng'[e].since = q.since
      /\ \A k \in Engines : k # e => eng'[k] = eng[k]
  BY <1>3 DEF Becomes
<1>5. eng'[e].busy = q.busy
  BY <1>3, Zenon DEF Becomes
<1>6. \A k \in Engines : /\ eng'[k].start = eng[k].start /\ (eng'[k].child = "gone" <=> eng[k].child = "gone")
                         /\ eng'[k].session = eng[k].session /\ eng'[k].since = eng[k].since
  BY <1>1, <1>4
<1>7. \A k \in Engines : eng'[k].busy <=> eng[k].busy
  BY <1>4, <1>5
<1>8. \A k \in Engines : Shaped(k)'
  BY <1>1, <1>4, <1>6 DEF SideInv, Shaped, Starting
<1>9. Engaged'
  BY <1>6, <1>7 DEF SideInv, Engaged, InProgress, Starting
<1>10. EntryLives' /\ OneChild'
  BY <1>1, <1>4, UnmappedSafe DEF Unmap, HasChild
<1> QED BY <1>3, <1>6, <1>8, <1>9, <1>10

LEMMA ReapKeeps ==
  ASSUME SideInv, Reap
  PROVE  SideInv'
<1>1. /\ entry # 0 /\ entry' = 0 /\ eng' = Killed(eng, entry)
      /\ UNCHANGED <<mainEngine, turn, saved, main, sessions, resets, starts, crossed, racing>>
  BY DEF Reap, Unmap
<1>2. /\ eng' \in [Engines -> EngineType] /\ (\A k \in Engines : Shaped(k)')
      /\ Engaged' /\ EntryLives' /\ OneChild'
      /\ \A k \in Engines : eng'[k].session = eng[k].session /\ eng'[k].since = eng[k].since /\ eng'[k].start = eng[k].start
  BY <1>1, EntryKilled
<1>3. SideTypes' /\ OneResult'
  BY <1>1, <1>2 DEF SideInv, SideTypes, OneResult
<1>4. InTime'
  BY <1>1, <1>2, SameTimes
<1> QED BY <1>2, <1>3, <1>4 DEF SideInv

LEMMA ResetKeeps ==
  ASSUME SideInv, Reset
  PROVE  SideInv'
<1>1. /\ resets < MaxResets /\ resets' = resets + 1 /\ main' = 0
      /\ saved' = IF mainEngine = "acp" THEN 0 ELSE saved
      /\ entry = 0 => entry' = entry /\ eng' = eng
      /\ entry # 0 => entry' = 0 /\ eng' = Killed(eng, entry)
      /\ UNCHANGED <<mainEngine, turn, sessions, starts, crossed>>
  BY DEF Reset, ClearSaved, Unmap
<1>2. racing' \in BOOLEAN
  <2>1. racing' = (racing \/ \E e \in Engines : Starting(e))
    BY DEF Reset
  <2> QED BY <2>1, Zenon
<1>3. /\ eng' \in [Engines -> EngineType] /\ (\A k \in Engines : Shaped(k)')
      /\ Engaged' /\ EntryLives' /\ OneChild'
      /\ \A k \in Engines : eng'[k].session = eng[k].session /\ eng'[k].since = eng[k].since /\ eng'[k].start = eng[k].start
  <2>1. CASE entry # 0
    BY <1>1, <2>1, EntryKilled
  <2>2. CASE entry = 0
    BY <1>1, <2>2 DEF SideInv, SideTypes, Shaped, Engaged, InProgress, EntryLives, OneChild, HasChild, Starting
  <2> QED BY <2>1, <2>2
<1>4. resets' \in 0..MaxResets /\ resets \in Nat
  BY <1>1, SideFacts DEF SideInv, SideTypes
<1>5. SideTypes' /\ OneResult'
  <2>1. main' \in Nat
    BY <1>1
  <2>2. entry' \in Engines \cup {0}
    BY <1>1 DEF SideInv, SideTypes
  <2> QED BY <1>1, <1>2, <1>3, <1>4, <2>1, <2>2 DEF SideInv, SideTypes, OneResult
<1>6. InTime'
  <2>1. main' = 0
    BY <1>1
  <2>2. \A n \in 0..resets : n \in 0..resets'
    BY <1>1, <1>4
  <2>3. Len(sessions) \in Nat
    BY DEF SideInv, InTime, Forgetting
  <2>4. saved' \in 0..Len(sessions) /\ 0 \in 0..Len(sessions)
    BY <1>1, <2>3 DEF SideInv, InTime
  <2>5. ASSUME Forgetting', NEW k \in Engines PROVE saved' = 0 /\ Dated(eng'[k], sessions', resets')
    <3>1. Forgetting /\ eng[k].start # "opening" /\ mainEngine = "acp"
      BY <1>1, <2>5 DEF Forgetting, Reset, Starting
    <3>2. Dated(eng[k], sessions, resets)
      BY <3>1 DEF SideInv, InTime, Forgetting
    <3> QED BY <1>1, <1>3, <3>1, <3>2 DEF Dated
  <2>6. Forgetting' => saved' = 0
    BY <1>1 DEF Forgetting
  <2> QED BY <1>1, <1>3, <2>1, <2>2, <2>4, <2>5, <2>6 DEF SideInv, InTime
<1> QED BY <1>3, <1>5, <1>6 DEF SideInv

\* An engine asks for a session n, the one that is on disk or a new one.
Asked(e, n, s) ==
  /\ eng[e].start \in {"handshake", "loading"} /\ s \in {"loading", "opening"}
  /\ sessions' \in Seq([whose : {"main", "side"}, after : 0..MaxResets])
  /\ Len(sessions) \in Nat /\ Len(sessions') \in Nat /\ Len(sessions) <= Len(sessions')
  /\ \A i \in 1..Len(sessions) : sessions'[i] = sessions[i]
  /\ n \in 1..Len(sessions')
  /\ s = "opening" \/ Forgetting => sessions'[n].after = resets
  /\ eng' = [eng EXCEPT ![e].start = s, ![e].session = n]
  /\ UNCHANGED <<mainEngine, entry, turn, saved, main, resets, starts, crossed, racing>>

LEMMA AskedKeeps ==
  ASSUME SideInv, NEW e \in Engines, NEW n, NEW s, Asked(e, n, s)
  PROVE  SideInv'
<1> DEFINE q == eng[e]
<1>1. /\ q.start \in {"handshake", "loading"}
      /\ eng' = [eng EXCEPT ![e].start = s, ![e].session = n]
      /\ UNCHANGED <<mainEngine, entry, turn, saved, main, resets, starts, crossed, racing>>
  BY DEF Asked
<1>2. /\ sessions' \in Seq([whose : {"main", "side"}, after : 0..MaxResets])
      /\ Len(sessions) \in Nat /\ Len(sessions') \in Nat /\ Len(sessions) <= Len(sessions')
      /\ \A i \in 1..Len(sessions) : sessions'[i] = sessions[i]
      /\ n \in 1..Len(sessions') /\ s \in {"loading", "opening"}
      /\ s = "opening" \/ Forgetting => sessions'[n].after = resets
  BY DEF Asked
<1>3. eng \in [Engines -> EngineType] /\ n \in Nat /\ s \in {"loading", "opening"}
  BY <1>2, SideFacts
<1>4. eng' \in [Engines -> EngineType] /\ Becomes(eng', eng, e, q.child, s, q.busy, q.cancelled, n, q.since)
  <2>1. s \in Starts
    BY <1>3 DEF Starts
  <2>2. Updates(BOOLEAN, FALSE, TRUE, eng, e, n, s)
    BY <1>3, <2>1, EngineSteps
  <2> QED BY <1>1, <2>2 DEF Updates, EngineType
<1>5. /\ eng'[e].child = q.child /\ eng'[e].start = s /\ eng'[e].session = n /\ eng'[e].since = q.since
      /\ \A k \in Engines : k # e => eng'[k] = eng[k]
  BY <1>4 DEF Becomes
<1>6. eng'[e].busy = q.busy
  BY <1>4, Zenon DEF Becomes
<1>7. \A k \in Engines : eng'[k].child = eng[k].child /\ (eng'[k].busy <=> eng[k].busy) /\ eng'[k].since = eng[k].since
  BY <1>5, <1>6
<1>8. SideTypes' /\ OneResult'
  BY <1>1, <1>4 DEF SideInv, SideTypes, OneResult
<1>9. \A k \in Engines : Shaped(k)'
  BY <1>1, <1>3, <1>5 DEF SideInv, Shaped, Starting
<1>10. Engaged'
  <2>1. ASSUME NEW t \in SideTurns, InProgress(t)
        PROVE  /\ turn[t].on \in Engines /\ eng'[turn[t].on].busy /\ eng'[turn[t].on].child # "gone"
               /\ AsFar(turn[t].step, eng'[turn[t].on].start)
    <3> DEFINE k == turn[t].on
    <3>1. k \in Engines /\ eng[k].busy /\ eng[k].child # "gone" /\ AsFar(turn[t].step, eng[k].start)
      BY <2>1 DEF SideInv, Engaged
    <3> HIDE DEF k
    <3>2. AsFar(turn[t].step, eng'[k].start)
      BY <1>1, <1>3, <1>5, <3>1 DEF AsFar
    <3>3. eng'[k].busy /\ eng'[k].child # "gone"
      BY <1>7, <3>1
    <3> QED BY <3>1, <3>2, <3>3 DEF k
  <2>2. \A t, u \in SideTurns : InProgress(t) /\ InProgress(u) /\ turn[t].on = turn[u].on => t = u
    BY DEF SideInv, Engaged
  <2>3. \A k \in Engines : eng'[k].busy => \E t \in SideTurns : InProgress(t) /\ turn[t].on = k
    BY <1>7 DEF SideInv, Engaged
  <2>4. turn' = turn /\ \A t \in SideTurns : InProgress(t)' <=> InProgress(t)
    BY <1>1 DEF InProgress
  <2>5. \A t \in SideTurns : InProgress(t)' =>
          /\ turn'[t].on \in Engines /\ eng'[turn'[t].on].busy /\ eng'[turn'[t].on].child # "gone"
          /\ AsFar(turn'[t].step, eng'[turn'[t].on].start)
    BY <2>1, <2>4
  <2>6. \A t, u \in SideTurns : InProgress(t)' /\ InProgress(u)' /\ turn'[t].on = turn'[u].on => t = u
    BY <2>2, <2>4
  <2>7. \A k \in Engines : eng'[k].busy => \E t \in SideTurns : InProgress(t)' /\ turn'[t].on = k
    BY <2>3, <2>4
  <2> QED BY <2>5, <2>6, <2>7 DEF Engaged, InProgress
<1>11. EntryLives' /\ OneChild'
  BY <1>1, <1>7 DEF SideInv, SideTypes, EntryLives, OneChild, HasChild
<1>12. InTime'
  <2>1. \A i \in 0..Len(sessions) : i \in 0..Len(sessions') /\ (i # 0 => sessions'[i] = sessions[i])
    BY <1>2
  <2>2. q.since \in 0..resets /\ resets >= q.since /\ n \in 0..Len(sessions') /\ n # 0
    BY <1>2, SideFacts DEF SideInv, InTime, Forgetting
  <2>3. \A k \in Engines : eng'[k].session \in 0..Len(sessions') /\ eng'[k].since \in 0..resets
    BY <1>5, <2>1, <2>2 DEF SideInv, InTime, Forgetting
  <2>4. ASSUME Forgetting, NEW k \in Engines PROVE Dated(eng'[k], sessions', resets)
    <3>1. CASE k = e
      BY <1>2, <1>5, <2>2, <2>4, <3>1 DEF Dated
    <3>2. CASE k # e
      <4>1. eng'[k] = eng[k]
        BY <1>5, <3>2
      <4>2. eng[k].session \in 0..Len(sessions) /\ Dated(eng[k], sessions, resets)
        BY <2>4 DEF SideInv, InTime, Forgetting
      <4> QED BY <2>1, <4>1, <4>2 DEF Dated
    <3> QED BY <3>1, <3>2
  <2>5. /\ main \in 0..Len(sessions') /\ saved \in 0..Len(sessions')
        /\ Forgetting => /\ main # 0 => sessions'[main].after = resets
                         /\ saved # 0 => sessions'[saved].after = resets
    BY <2>1 DEF SideInv, InTime, Forgetting
  <2> QED BY <1>1, <1>2, <2>3, <2>4, <2>5 DEF InTime, Forgetting
<1> QED BY <1>8, <1>9, <1>10, <1>11, <1>12 DEF SideInv

LEMMA AsksKeeps ==
  ASSUME SideInv, NEW e \in Engines, Asks(e)
  PROVE  SideInv'
<1> DEFINE n == Opened("side")
           s == IF Resumes("side") THEN "loading" ELSE "opening"
<1>1. /\ eng[e].start = "handshake" /\ OpenSession("side")
      /\ eng' = [eng EXCEPT ![e].start = s, ![e].session = n]
      /\ UNCHANGED <<mainEngine, entry, turn, saved, main, resets, starts, crossed, racing>>
  BY DEF Asks
<1>2. /\ sessions' \in Seq([whose : {"main", "side"}, after : 0..MaxResets])
      /\ Len(sessions) \in Nat /\ Len(sessions') \in Nat /\ Len(sessions) <= Len(sessions')
      /\ \A i \in 1..Len(sessions) : sessions'[i] = sessions[i]
      /\ n \in 1..Len(sessions')
      /\ Forgetting => sessions'[n].after = resets
      /\ ~ Resumes("side") => sessions'[n].after = resets
  BY <1>1, SessionOpened
<1>3. s \in {"loading", "opening"} /\ (s = "opening" => ~ Resumes("side"))
  OBVIOUS
<1> HIDE DEF n, s
<1>4. Asked(e, n, s)
  BY <1>1, <1>2, <1>3 DEF Asked
<1> QED BY <1>4, AskedKeeps

LEMMA LoadFailsKeeps ==
  ASSUME SideInv, NEW e \in Engines, LoadFails(e)
  PROVE  SideInv'
<1> DEFINE T == [whose : {"main", "side"}, after : 0..MaxResets]
           o == [whose |-> "side", after |-> resets]
           n == Len(sessions) + 1
<1>1. /\ eng[e].start = "loading" /\ sessions' = Append(sessions, o)
      /\ eng' = [eng EXCEPT ![e].start = "opening", ![e].session = n]
      /\ UNCHANGED <<mainEngine, entry, turn, saved, main, resets, starts, crossed, racing>>
  BY DEF LoadFails
<1>2. sessions \in Seq(T) /\ o \in T /\ o.after = resets
  BY DEF SideInv, SideTypes, InTime, Forgetting
<1> HIDE DEF o, T
<1>3. /\ sessions' \in Seq(T) /\ Len(sessions) \in Nat /\ Len(sessions') = Len(sessions) + 1
      /\ sessions'[Len(sessions) + 1] = o /\ \A i \in 1..Len(sessions) : sessions'[i] = sessions[i]
  BY <1>1, <1>2
<1>4. /\ Len(sessions') \in Nat /\ Len(sessions) <= Len(sessions')
      /\ n \in 1..Len(sessions') /\ sessions'[n].after = resets
  BY <1>2, <1>3
<1> HIDE DEF n
<1>5. sessions' \in Seq([whose : {"main", "side"}, after : 0..MaxResets])
  BY <1>3 DEF T
<1>6. Asked(e, n, "opening")
  BY <1>1, <1>3, <1>4, <1>5 DEF Asked
<1> QED BY <1>6, AskedKeeps

LEMMA HandshakeDoneKeeps ==
  ASSUME SideInv, NEW e \in Engines, HandshakeDone(e)
  PROVE  SideInv'
<1> DEFINE q == eng[e]
           over == On(e)
<1>1. /\ q.start \in {"loading", "opening"}
      /\ eng' = [eng EXCEPT ![e].start = "ready"] /\ saved' = Written(e)
      /\ turn' = [t \in SideTurns |-> IF t \in over THEN [turn[t] EXCEPT !.step = "prompted"] ELSE turn[t]]
      /\ UNCHANGED <<mainEngine, entry, main, sessions, resets, starts, crossed, racing>>
  BY DEF HandshakeDone
<1>2. eng \in [Engines -> EngineType]
  BY SideFacts
<1>3. eng' \in [Engines -> EngineType] /\ Becomes(eng', eng, e, q.child, "ready", q.busy, q.cancelled, q.session, q.since)
  BY <1>1, <1>2, EngineSteps, 0 \in Nat DEF Updates, EngineType, Starts
<1>4. /\ eng'[e].child = q.child /\ eng'[e].start = "ready" /\ eng'[e].session = q.session /\ eng'[e].since = q.since
      /\ \A k \in Engines : k # e => eng'[k] = eng[k]
  BY <1>3 DEF Becomes
<1>5. eng'[e].busy = q.busy
  BY <1>3, Zenon DEF Becomes
<1>6. \A k \in Engines : /\ eng'[k].child = eng[k].child /\ (eng'[k].busy <=> eng[k].busy)
                         /\ eng'[k].session = eng[k].session /\ eng'[k].since = eng[k].since
                         /\ eng'[k].start = "opening" => eng[k].start = "opening"
  BY <1>4, <1>5
<1>7. \A t : t \in over <=> t \in SideTurns /\ turn[t].on = e /\ InProgress(t)
  BY SideFacts
<1> HIDE DEF over
<1>8. \A t \in SideTurns : /\ turn[t] \in TurnType
                           /\ turn'[t] = IF t \in over THEN [turn[t] EXCEPT !.step = "prompted"] ELSE turn[t]
  BY <1>1 DEF SideInv, SideTypes
<1>9. \A t \in over : /\ turn'[t] \in TurnType /\ turn'[t].step = "prompted"
                      /\ turn'[t].on = turn[t].on /\ turn'[t].results = turn[t].results
  <2> TAKE t \in over
  <2> DEFINE r == turn[t]
             A == {"idle", "starting", "prompted", "done"}
             B == Engines \cup {0}
             C == 0..2
  <2>1. r \in [step : A, on : B, results : C] /\ "prompted" \in A /\ turn'[t] = [r EXCEPT !.step = "prompted"]
    BY <1>7, <1>8 DEF TurnType
  <2>2. TurnType = [step : A, on : B, results : C]
    BY DEF TurnType
  <2> HIDE DEF r, A, B, C
  <2>3. /\ turn'[t] \in TurnType /\ turn'[t].step = "prompted"
        /\ turn'[t].on = r.on /\ turn'[t].results = r.results
    BY <2>1, <2>2
  <2> QED BY <2>3 DEF r
<1>10. \A t \in SideTurns : t \notin over => turn'[t] = turn[t]
  BY <1>8
<1>11. \A t \in SideTurns : (InProgress(t)' <=> InProgress(t)) /\ turn'[t].on = turn[t].on /\ turn'[t].results = turn[t].results
  BY <1>7, <1>9, <1>10 DEF InProgress
<1>12. turn' \in [SideTurns -> TurnType]
  BY <1>1, <1>8, <1>9
<1>13. SideTypes'
  BY <1>1, <1>3, <1>12 DEF SideInv, SideTypes
<1>14. OneResult'
  <2>1. \A t \in SideTurns : turn'[t].step = "done" <=> turn[t].step = "done"
    BY <1>7, <1>9, <1>10 DEF InProgress
  <2> QED BY <1>11, <2>1 DEF SideInv, OneResult
<1>15. \A k \in Engines : Shaped(k)'
  <2>1. q.child \in {"up", "killed"}
    BY <1>1 DEF SideInv, Shaped, Starting
  <2> QED BY <1>4, <2>1 DEF SideInv, Shaped, Starting
<1>16. Engaged'
  <2>1. ASSUME NEW t \in SideTurns, InProgress(t)'
        PROVE  /\ turn'[t].on \in Engines /\ eng'[turn'[t].on].busy /\ eng'[turn'[t].on].child # "gone"
               /\ AsFar(turn'[t].step, eng'[turn'[t].on].start)
    <3>1. /\ turn[t].on \in Engines /\ eng[turn[t].on].busy /\ eng[turn[t].on].child # "gone"
          /\ AsFar(turn[t].step, eng[turn[t].on].start)
      BY <1>11, <2>1 DEF SideInv, Engaged
    <3>2. CASE t \in over
      BY <1>4, <1>6, <1>7, <1>9, <3>1, <3>2 DEF AsFar
    <3>3. CASE t \notin over
      <4>1. turn[t].on # e /\ turn'[t] = turn[t]
        BY <1>7, <1>10, <1>11, <2>1, <3>3
      <4> QED BY <1>4, <3>1, <4>1
    <3> QED BY <3>2, <3>3
  <2>2. \A t, u \in SideTurns : InProgress(t)' /\ InProgress(u)' /\ turn'[t].on = turn'[u].on => t = u
    BY <1>11 DEF SideInv, Engaged
  <2>3. \A k \in Engines : eng'[k].busy => \E t \in SideTurns : InProgress(t)' /\ turn'[t].on = k
    BY <1>6, <1>11 DEF SideInv, Engaged
  <2> QED BY <2>1, <2>2, <2>3 DEF Engaged, InProgress
<1>17. EntryLives' /\ OneChild'
  BY <1>1, <1>6 DEF SideInv, SideTypes, EntryLives, OneChild, HasChild
<1>18. InTime'
  <2>1. saved' = IF q.start = "opening" THEN q.session ELSE saved
    BY <1>1 DEF Written
  <2>2. saved' \in 0..Len(sessions)
    BY <2>1 DEF SideInv, InTime, Forgetting
  <2>3. ASSUME Forgetting, saved' # 0 PROVE sessions[saved'].after = resets
    BY <2>1, <2>3 DEF SideInv, InTime, Forgetting, Dated
  <2>4. ASSUME Forgetting, NEW k \in Engines PROVE Dated(eng'[k], sessions, resets)
    <3>1. Dated(eng[k], sessions, resets)
      BY <2>4 DEF SideInv, InTime, Forgetting
    <3> QED BY <1>6, <3>1 DEF Dated
  <2> QED BY <1>1, <1>6, <2>2, <2>3, <2>4 DEF SideInv, InTime, Forgetting
<1> QED BY <1>13, <1>14, <1>15, <1>16, <1>17, <1>18 DEF SideInv

LEMMA MainKeeps ==
  ASSUME SideInv, MainStarts
  PROVE  SideInv'
<1> DEFINE n == Opened("main")
<1>1. /\ starts < MaxStarts /\ starts' = starts + 1
      /\ OpenSession("main") /\ saved' = n /\ main' = n
      /\ UNCHANGED <<mainEngine, entry, eng, turn, resets, crossed, racing>>
  BY DEF MainStarts
<1>2. /\ sessions' \in Seq([whose : {"main", "side"}, after : 0..MaxResets])
      /\ Len(sessions) \in Nat /\ Len(sessions') \in Nat /\ Len(sessions) <= Len(sessions')
      /\ \A i \in 1..Len(sessions) : sessions'[i] = sessions[i]
      /\ n \in 1..Len(sessions')
      /\ Forgetting => sessions'[n].after = resets
  BY <1>1, SessionOpened
<1> HIDE DEF n
<1>3. main' \in Nat /\ n \in 0..Len(sessions')
  BY <1>1, <1>2
<1>4. starts' \in 0..MaxStarts
  BY <1>1, SideAssumption DEF SideInv, SideTypes
<1>5. SideTypes' /\ OneResult'
  BY <1>1, <1>3, <1>4 DEF SideInv, SideTypes, OneResult
<1>6. (\A k \in Engines : Shaped(k)') /\ Engaged' /\ EntryLives' /\ OneChild'
  BY <1>1 DEF SideInv, Shaped, Engaged, InProgress, EntryLives, OneChild, HasChild, Starting
<1>7. \A i \in 0..Len(sessions) : i \in 0..Len(sessions') /\ (i # 0 => sessions'[i] = sessions[i])
  BY <1>2
<1>8. \A k \in Engines : eng[k].session \in 0..Len(sessions) /\ eng[k].session \in 0..Len(sessions') /\ eng[k].since \in 0..resets
  BY <1>7 DEF SideInv, InTime, Forgetting
<1>9. ASSUME Forgetting, NEW k \in Engines PROVE Dated(eng[k], sessions', resets)
  <2>1. Dated(eng[k], sessions, resets)
    BY <1>9 DEF SideInv, InTime, Forgetting
  <2> QED BY <1>7, <1>8, <2>1 DEF Dated
<1>10. InTime'
  BY <1>1, <1>2, <1>3, <1>8, <1>9 DEF InTime, Forgetting
<1> QED BY <1>5, <1>6, <1>10 DEF SideInv

LEMMA SideStart == SideInit => SideInv
<1> SUFFICES ASSUME SideInit PROVE SideInv
  OBVIOUS
<1>1. /\ entry = 0 /\ saved = 0 /\ sessions = <<>> /\ resets = 0 /\ starts = 0
      /\ main = 0 /\ crossed = FALSE /\ racing = FALSE
  BY DEF SideInit
<1>2. \A e \in Engines : /\ eng[e].child = "none" /\ eng[e].start = "none" /\ ~ eng[e].busy
                         /\ eng[e].session = 0 /\ eng[e].since = 0
  BY DEF SideInit
<1>3. \A t \in SideTurns : turn[t].step = "idle" /\ turn[t].results = 0
  BY DEF SideInit
<1>4. eng \in [Engines -> EngineType]
  BY DEF SideInit, EngineType, EngineOf, Starts
<1>5. turn \in [SideTurns -> TurnType]
  BY DEF SideInit, TurnType
<1>6. SideTypes
  <2>1. mainEngine \in {"acp", "sdk"} /\ main \in Nat /\ resets \in 0..MaxResets /\ starts \in 0..MaxStarts
    BY <1>1, SideAssumption DEF SideInit
  <2> QED BY <1>1, <1>4, <1>5, <2>1 DEF SideTypes
<1>7. OneResult /\ (\A e \in Engines : Shaped(e)) /\ Engaged /\ EntryLives /\ OneChild
  BY <1>1, <1>2, <1>3 DEF OneResult, Shaped, Engaged, InProgress, EntryLives, OneChild, HasChild, Starting
<1>8. InTime
  <2>1. sessions \in Seq([whose : {"main", "side"}, after : 0..MaxResets]) /\ Len(sessions) = 0 /\ main = 0
    BY <1>1
  <2> QED BY <1>1, <1>2, <2>1 DEF InTime, Forgetting, Dated
<1> QED BY <1>6, <1>7, <1>8 DEF SideInv

LEMMA SideStep == SideInv /\ [SideNext]_sideVars => SideInv'
<1> SUFFICES ASSUME SideInv, [SideNext]_sideVars PROVE SideInv'
  OBVIOUS
<1>1. CASE UNCHANGED sideVars
  BY <1>1 DEF sideVars, SideInv, SideTypes, OneResult, Shaped, Engaged, InProgress, EntryLives, OneChild, HasChild, InTime, Forgetting, Starting
<1> QED BY <1>1, ModelsKeeps, SendKeeps, AsksKeeps, LoadFailsKeeps, HandshakeDoneKeeps, HandshakeFailsKeeps, AnsweredKeeps, ChildExitsKeeps,
           InterruptKeeps, ReapKeeps, ResetKeeps, MainKeeps DEF SideNext

LEMMA SideTold ==
  SideInv => SideTypeOK /\ OneResult /\ OneTurnEach /\ EntryLives /\ NoneForgotten /\ ResetForgets
<1> SUFFICES ASSUME SideInv PROVE SideTypeOK /\ OneTurnEach /\ NoneForgotten /\ ResetForgets
  BY DEF SideInv
<1>1. SideTypeOK
  <2>1. eng \in [Engines -> [child : {"none", "up", "killed", "gone"},
                             start : {"none", "handshake", "loading", "opening", "ready", "failed"},
                             busy : BOOLEAN, cancelled : BOOLEAN,
                             session : 0..Len(sessions), since : 0..MaxResets]]
    <3> DEFINE C == {"none", "up", "killed", "gone"}
               S == {"none", "handshake", "loading", "opening", "ready", "failed"}
               N == 0..Len(sessions)
               M == 0..MaxResets
    <3>1. \A n \in 0..resets : n \in M
      BY SideAssumption DEF SideInv, SideTypes
    <3>2. \A e \in Engines : eng[e].session \in N /\ eng[e].since \in M
      BY <3>1 DEF SideInv, InTime, Forgetting
    <3>3. eng \in [Engines -> [child : C, start : S, busy : BOOLEAN, cancelled : BOOLEAN, session : Nat, since : Nat]]
      BY DEF SideInv, SideTypes, EngineType, EngineOf, Starts
    <3> HIDE DEF C, S, N, M
    <3> DEFINE T == [child : C, start : S, busy : BOOLEAN, cancelled : BOOLEAN, session : N, since : M]
    <3>4. \A e \in Engines : eng[e] \in T
      BY <3>2, <3>3
    <3>5. eng \in [Engines -> T]
      BY <3>3, <3>4
    <3> QED BY <3>5 DEF C, S, N, M
  <2>2. turn \in [SideTurns -> [step : {"idle", "starting", "prompted", "done"},
                                on : Engines \cup {0}, results : 0..2]]
    BY DEF SideInv, SideTypes, TurnType
  <2>3. main \in 0..Len(sessions)
    BY DEF SideInv, SideTypes, InTime, Forgetting
  <2> QED BY <2>1, <2>2, <2>3 DEF SideInv, SideTypes, InTime, Forgetting, SideTypeOK
<1>2. OneTurnEach
  <2> SUFFICES ASSUME NEW e \in Engines PROVE Cardinality(On(e)) = IF eng[e].busy THEN 1 ELSE 0
    BY DEF OneTurnEach
  <2>1. \A t : t \in On(e) <=> t \in SideTurns /\ turn[t].on = e /\ InProgress(t)
    BY SideFacts
  <2>2. CASE eng[e].busy
    <3>1. PICK t \in SideTurns : InProgress(t) /\ turn[t].on = e
      BY <2>2 DEF SideInv, Engaged, Starting
    <3>2. On(e) = {t}
      BY <2>1, <3>1 DEF SideInv, Engaged, Starting
    <3> QED BY <2>2, <3>2, FS_Singleton
  <2>3. CASE ~ eng[e].busy
    <3>1. On(e) = {}
      BY <2>1, <2>3 DEF SideInv, Engaged, Starting
    <3> QED BY <2>3, <3>1, FS_EmptySet
  <2> QED BY <2>2, <2>3
<1>3. NoneForgotten
  BY DEF SideInv, OneChild, NoneForgotten
<1>4. ResetForgets
  BY DEF SideInv, InTime, Forgetting, Dated, ResetForgets
<1> QED BY <1>1, <1>2, <1>3, <1>4

LEMMA SideAlone == [Next]_agentServicesVars => [SideNext]_sideVars
BY DEF Next, agentServicesVars

(* A side chat answers no turn twice and none in progress, an engine works on one
   turn at a time, the one a send finds has a living child, none is forgotten
   unless two crossed, and beside an ACP launch agent no session from before a
   reset is resumed after it unless the reset came during a handshake
   (sideEngines.js, sessionStart.js, agentReset.js, acpSession.js): for any number
   of turns, engines, starts and resets, of children that exit at any moment, of
   handshakes that fail and loads refused. *)
THEOREM SideChatsSafe ==
  Spec => [](SideTypeOK /\ OneResult /\ OneTurnEach /\ EntryLives /\ NoneForgotten /\ ResetForgets)
<1>1. Init => SideInv
  BY SideStart DEF Init
<1>2. SideInv /\ [Next]_agentServicesVars => SideInv'
  BY SideAlone, SideStep
<1>3. SideInv => SideTypeOK /\ OneResult /\ OneTurnEach /\ EntryLives /\ NoneForgotten /\ ResetForgets
  BY SideTold
<1> QED BY <1>1, <1>2, <1>3, PTL DEF Spec
===============================================================================
