--------------------------- MODULE AcpEngineProofs ---------------------------
(***************************************************************************)
(* Proofs about the engine of the non-Claude agents, AcpEngine, for any    *)
(* number of turns, children, interrupts and resets.                       *)
(***************************************************************************)
EXTENDS AcpEngine, FiniteSetTheorems, TLAPS

-----------------------------------------------------------------------------
(* The inductive invariant.                                                *)

\* The current child is the one that is up; while it has no session, a start is
\* under way.
Sole ==
  /\ \A c \in Children : proc[c] = "up" => child = c
  /\ child # 0 /\ sessionId = 0 => starting # 0

\* Children are spawned in the order of their numbers; there is one of them, as
\* long as each gives its session's id.
OneChild ==
  /\ \A c \in Children : /\ proc[c] = "none" <=> c > spawned
                         /\ c > spawned => hs[c] = "none"
  /\ child # 0 => proc[child] = "up"
  /\ \A c \in Children : hs[c] = "load" => asked[c] # 0
  /\ Nameless \/ Sole

\* The turns of a queue are at its stage, and no turn awaits two starts.
Lines ==
  /\ \A c \in Children : \A s \in ToSet(line[c]) : pc[s] = "starting"
  /\ \A c, d \in Children : ToSet(line[c]) \cap ToSet(line[d]) # {} => c = d
  /\ \A s \in ToSet(waiting) : pc[s] = "recovering"

\* The open turns of this conversation.
Open == Current({s \in Sends : Unfinished(s)})

\* The counter counts them, but for those that a Stop made it forget.
Counts ==
  /\ busy <=> pending > 0
  /\ pending <= Cardinality(Open)
  /\ MaxInterrupts = 0 => pending = Cardinality(Open)

\* A turn is of this conversation or of an earlier one; it has a result when it
\* is over, and before that none.
Results ==
  /\ \A s \in Sends : sgen[s] <= generation
  /\ \A s \in Sends : pc[s] = "idle" => ended[s] = 0
  /\ OneResult

\* The preamble of one turn at most has been latched.
Latched ==
  /\ \A s \in Sends : pre[s] => fired
  /\ \A s, t \in Sends : pre[s] /\ pre[t] => s = t

IInv == TypeOK /\ OneChild /\ Lines /\ Counts /\ Results /\ Latched

-----------------------------------------------------------------------------
(* What it is extended by: turns one at a time, and sessions.              *)

\* The open turn is the slot's, and the slot is done only when its turn is over.
OneTurn ==
  /\ \A s \in Open : s = tracked
  /\ tdone => tracked # 0 /\ ~ Unfinished(tracked)

TInv == IInv /\ (~ Overlap => OneTurn)

\* At most one start is under way, of the current child or of one that was killed;
\* the current child's session is the engine's, and so is each open turn's; before
\* it is opened no turn is past its start.  A prompt is in its child's session.
InSession ==
  /\ \A c, d \in Handshaking : c = d
  /\ \A c \in Handshaking : child \in {0, c}
  /\ child # 0 =>
       IF child \in Handshaking THEN sessionId = 0 /\ InFlight = {}
       ELSE hs[child] = "done" /\ sessionId = opened[child]
  /\ \A s \in InFlight : pc[s] = "prompted" => child \in {0, on[s]}
  /\ \A s \in Sends :
       pc[s] = "prompted" =>
         on[s] # 0 /\ hs[on[s]] = "done" /\ psess[s] = opened[on[s]]

SInv == IInv /\ (~ overtaken => InSession)

-----------------------------------------------------------------------------
(* Sets of turns and queues of them.                                       *)

LEMMA TurnSets ==
  ASSUME NEW S \in SUBSET Sends
  PROVE  IsFiniteSet(S) /\ Cardinality(S) \in 0..MaxSends
<1>1. IsFiniteSet(Sends) /\ Cardinality(Sends) = MaxSends
  BY FS_Interval, EngineAssumption DEF Sends
<1>2. IsFiniteSet(S) /\ Cardinality(S) <= MaxSends
  BY <1>1, FS_Subset
<1>3. Cardinality(S) \in Nat
  BY <1>2, FS_CardinalityType
<1> QED
  BY <1>2, <1>3, EngineAssumption

LEMMA QueueSets ==
  ASSUME NEW Q \in Seq(Sends)
  PROVE  /\ ToSet(Q) \in SUBSET Sends
         /\ Q # <<>> => Head(Q) \in ToSet(Q)
         /\ Q = <<>> => ToSet(Q) = {}
BY DEF ToSet

LEMMA AppendSets ==
  ASSUME NEW Q \in Seq(Sends), NEW s \in Sends
  PROVE  Append(Q, s) \in Seq(Sends) /\ ToSet(Append(Q, s)) \subseteq ToSet(Q) \cup {s}
BY DEF ToSet

LEMMA JoinSets ==
  ASSUME NEW Q \in Seq(Sends), NEW R \in Seq(Sends)
  PROVE  Q \o R \in Seq(Sends) /\ ToSet(Q \o R) \subseteq ToSet(Q) \cup ToSet(R)
BY DEF ToSet

-----------------------------------------------------------------------------
(* The count of the open turns.                                            *)

\* The turns of S end; another moves at most from one wait to another.
EndsTurns(S) ==
  /\ Settle(S)
  /\ \A s \in S : Unfinished(s) /\ pc'[s] = "done"
  /\ \A s \in Sends \ S : pc'[s] = pc[s] \/ (Unfinished(s) /\ Unfinished(s)')

\* The types of what a turn's end changes.
CountTypes ==
  /\ {busy, tdone} \subseteq BOOLEAN /\ pending \in 0..MaxSends
  /\ ended \in [Sends -> 0..2]

LEMMA MinusFits ==
  ASSUME NEW p \in Nat, NEW n \in Nat, NEW k \in 0..n, p <= n
  PROVE  /\ Minus(p, k) \in 0..p /\ Minus(p, k) <= n - k
         /\ p = n => Minus(p, k) = n - k
         /\ Minus(p, 0) = p
BY DEF Minus

LEMMA EndsCounts ==
  ASSUME TypeOK, Counts, Results, NEW S \in SUBSET Sends, EndsTurns(S),
         UNCHANGED <<sgen, generation>>
  PROVE  Counts' /\ Results' /\ CountTypes'
<1> DEFINE Over == Current(S)
<1>1. Over \subseteq Open
  BY DEF EndsTurns, Open, Current
<1>2. Open' = Open \ Over
  BY DEF EndsTurns, Open, Current, Unfinished
<1>3. /\ Open \in SUBSET Sends /\ Open \cap Over = Over /\ IsFiniteSet(Open)
      /\ Cardinality(Open) \in 0..MaxSends /\ Cardinality(Over) \in 0..MaxSends
      /\ IsFiniteSet(Over)
  BY <1>1, TurnSets DEF Open, Current
<1>4. Cardinality(Open') = Cardinality(Open) - Cardinality(Over)
  <2>1. Cardinality(Open \ Over) = Cardinality(Open) - Cardinality(Open \cap Over)
    BY <1>3, FS_Difference
  <2> QED
    BY <1>2, <1>3, <2>1
<1>5. Cardinality(Over) <= Cardinality(Open)
  BY <1>1, <1>3, FS_Subset
<1>6. pending' = Minus(pending, Cardinality(Over))
  BY DEF EndsTurns, Settle
<1>7. pending \in Nat /\ pending <= MaxSends /\ pending <= Cardinality(Open)
  BY DEF TypeOK, Counts
<1>8. /\ pending' \in 0..pending /\ pending' <= Cardinality(Open')
      /\ pending = Cardinality(Open) => pending' = Cardinality(Open')
      /\ Cardinality(Over) = 0 => pending' = pending
  <2>1. Cardinality(Over) \in 0..Cardinality(Open) /\ Cardinality(Open) \in Nat
    BY <1>3, <1>5
  <2> QED
    BY <1>4, <1>6, <1>7, <2>1, MinusFits
<1>12. busy' <=> pending' > 0
  <2>1. CASE Over = {}
    <3>1. busy' = busy /\ Cardinality(Over) = 0
      BY <2>1, FS_EmptySet DEF EndsTurns, Settle
    <3> QED
      BY <1>8, <3>1 DEF Counts
  <2>2. CASE Over # {}
    BY <2>2 DEF EndsTurns, Settle
  <2> QED
    BY <2>1, <2>2
<1>13. Counts'
  BY <1>8, <1>12 DEF Counts
<1>9. \A s \in Sends : ended'[s] = IF s \in Over THEN 1 ELSE ended[s]
  BY <1>1 DEF EndsTurns, Settle, Results, OneResult, Open, Current, TypeOK
<1>10. Results'
  <2>1. \A s \in Over : pc'[s] = "done"
    BY DEF EndsTurns, Current
  <2>2. \A s \in S : s \notin Over => sgen[s] # generation
    BY DEF Current
  <2> QED
    BY <1>9, <2>1, <2>2 DEF EndsTurns, Results, OneResult, Unfinished
<1>11. CountTypes'
  <2>1. ended' \in [Sends -> 0..2]
    <3>1. ended' = [s \in Sends |-> IF s \in Over THEN ended[s] + 1 ELSE ended[s]]
      BY DEF EndsTurns, Settle
    <3>2. \A s \in Sends : ended'[s] \in 0..2
      BY <1>9 DEF TypeOK
    <3> QED
      BY <3>1, <3>2
  <2>2. busy' \in BOOLEAN
    <3>1. busy' = busy \/ busy' = (pending' > 0)
      BY DEF EndsTurns, Settle
    <3>2. (pending' > 0) \in BOOLEAN /\ busy \in BOOLEAN
      BY DEF TypeOK
    <3> QED
      BY <3>1, <3>2, Zenon
  <2>4. tdone' \in BOOLEAN
    BY DEF EndsTurns, Settle
  <2>3. pending' \in 0..MaxSends
    BY <1>7, <1>8, EngineAssumption
  <2> QED
    BY <2>1, <2>2, <2>3, <2>4 DEF CountTypes
<1> QED
  BY <1>10, <1>11, <1>13

\* Where nothing of the count changes, no turn ends.
LEMMA NoneEnds ==
  ASSUME TypeOK, UNCHANGED countVars,
         \A s \in Sends : pc'[s] = pc[s] \/ (Unfinished(s) /\ Unfinished(s)')
  PROVE  EndsTurns({})
<1>1. Current({}) = {} /\ Cardinality({}) = 0
  BY FS_EmptySet DEF Current
<1>2. pending' = Minus(pending, 0)
  BY EngineAssumption DEF countVars, Minus, TypeOK
<1>3. ended' = [s \in Sends |-> IF s \in {} THEN ended[s] + 1 ELSE ended[s]]
  BY DEF countVars, TypeOK
<1>4. busy' = busy /\ tdone' = (tdone \/ ({} # {} /\ tracked # 0))
  BY DEF countVars, TypeOK
<1> QED
  BY <1>1, <1>2, <1>3, <1>4 DEF EndsTurns, Settle

\* What becomes of the turns of Q once the recovery is decided: some end, the
\* others are prompted.
LEMMA DispatchEnds ==
  ASSUME TypeOK, NEW Q \in Seq(Sends), NEW latches, Dispatch(Q, latches),
         \A s \in ToSet(Q) : Unfinished(s)
  PROVE  \E S \in SUBSET Sends : EndsTurns(S)
<1> DEFINE go == {s \in Current(ToSet(Q)) : child # 0}
<1>1. ToSet(Q) \ go \in SUBSET Sends
  BY QueueSets
<1>2. \A s \in Sends : pc'[s] = IF s \in go THEN "prompted"
                                ELSE IF s \in ToSet(Q) THEN "done" ELSE pc[s]
  BY DEF Dispatch
<1>3. go \subseteq ToSet(Q)
  BY DEF Current
<1>4. Settle(ToSet(Q) \ go)
  BY DEF Dispatch
<1>5. EndsTurns(ToSet(Q) \ go)
  BY <1>1, <1>2, <1>3, <1>4 DEF EndsTurns, Unfinished
<1> QED
  BY <1>1, <1>5

LEMMA RecoverEnds ==
  ASSUME TypeOK, NEW Q \in Seq(Sends), Recover(Q), \A s \in ToSet(Q) : Unfinished(s)
  PROVE  \E S \in SUBSET Sends : EndsTurns(S)
<1>1. CASE fired \/ loaded' \/ meta = "known"
  BY <1>1, DispatchEnds DEF Recover
<1>2. CASE ~(fired \/ loaded' \/ meta = "known")
  <2>1. UNCHANGED countVars
    BY <1>2 DEF Recover
  <2>2. \A s \in Sends : pc'[s] = IF s \in ToSet(Q) THEN "recovering" ELSE pc[s]
    BY <1>2 DEF Recover
  <2>3. EndsTurns({})
    BY <2>1, <2>2, NoneEnds DEF Unfinished
  <2> QED
    BY <2>3
<1> QED
  BY <1>1, <1>2

LEMMA FinishEnds ==
  ASSUME TypeOK, NEW S \in SUBSET Sends, Finish(S), \A s \in S : Unfinished(s)
  PROVE  EndsTurns(S)
BY DEF Finish, EndsTurns, TypeOK

\* A turn is begun: it is one more that is open.
LEMMA BeginsCounts ==
  ASSUME TypeOK, Counts, Results, NEW s \in Sends, pc[s] = "idle",
         pending' = pending + 1, busy' = TRUE, UNCHANGED <<ended, generation>>,
         sgen' = [sgen EXCEPT ![s] = generation], Unfinished(s)',
         \A t \in Sends : t # s => pc'[t] = pc[t]
  PROVE  Counts' /\ Results' /\ pending' \in 0..MaxSends
<1>1. Open' = Open \cup {s} /\ s \notin Open
  BY DEF Open, Current, Unfinished, TypeOK
<1>2. Open \in SUBSET Sends /\ Open' \in SUBSET Sends
  BY <1>1 DEF Open, Current
<1>3. /\ IsFiniteSet(Open) /\ Cardinality(Open) \in 0..MaxSends
      /\ Cardinality(Open') \in 0..MaxSends
  BY <1>2, TurnSets
<1>4. Cardinality(Open \cup {s}) = Cardinality(Open) + 1
  BY <1>1, <1>3, FS_AddElement
<1>5. Cardinality(Open') = Cardinality(Open) + 1
  BY <1>1, <1>4
<1>6. pending \in Nat
  BY DEF TypeOK
<1>7. Counts' /\ pending' \in 0..MaxSends
  BY <1>3, <1>5, <1>6, EngineAssumption DEF Counts
<1>8. Results'
  <2>1. \A t \in Sends : sgen'[t] = IF t = s THEN generation ELSE sgen[t]
    BY DEF TypeOK
  <2> QED
    BY <2>1 DEF Results, OneResult, Unfinished, TypeOK
<1> QED
  BY <1>7, <1>8

\* A turn is sent: it is the slot's, and open.
Begins(s) ==
  /\ pc[s] = "idle" /\ pending' = pending + 1 /\ busy' = TRUE
  /\ sgen' = [sgen EXCEPT ![s] = generation]
  /\ tracked' = s /\ tdone' = FALSE /\ UNCHANGED <<ended, generation>>
  /\ Unfinished(s)' /\ \A t \in Sends : t # s => pc'[t] = pc[t]

\* The turns of a set end, perhaps of none.
SomeEnd ==
  \E S \in SUBSET Sends : EndsTurns(S) /\ UNCHANGED <<sgen, generation, tracked>>

LEMMA SendBegins == ASSUME TypeOK, NEW s \in Sends, Send(s) PROVE Begins(s)
<1>1. /\ pc[s] = "idle" /\ pending' = pending + 1 /\ busy' = TRUE
      /\ sgen' = [sgen EXCEPT ![s] = generation]
      /\ tracked' = s /\ tdone' = FALSE /\ UNCHANGED ended
  BY DEF Send, BeginTurn
<1>2. \/ pc' = [pc EXCEPT ![s] = "starting"]
      \/ pc' = [pc EXCEPT ![s] = "prompted"]
      \/ pc' = [pc EXCEPT ![s] = "recovering"]
  BY DEF Send
<1>3. UNCHANGED generation
  BY DEF Send, StartSession, engineVars
<1>4. Unfinished(s)' /\ \A t \in Sends : t # s => pc'[t] = pc[t]
  BY <1>2 DEF TypeOK, Unfinished
<1> QED
  BY <1>1, <1>3, <1>4 DEF Begins

\* Every action but a Send, a Stop and a reset ends the turns of a set.
LEMMA NextEnds ==
  ASSUME TypeOK, Lines, Next
  PROVE  (\E s \in Sends : Send(s)) \/ Interrupt \/ Reset \/ SomeEnd
<1>0. /\ \A c \in Children : /\ line[c] \in Seq(Sends) /\ ToSet(line[c]) \in SUBSET Sends
                             /\ \A s \in ToSet(line[c]) : Unfinished(s)
      /\ \A c \in Children : \A s \in Prompted(c) : Unfinished(s)
      /\ \A s \in ToSet(waiting) : Unfinished(s)
  BY QueueSets DEF TypeOK, Lines, Prompted, Unfinished
<1>1. ASSUME UNCHANGED <<countVars, turnVars, generation, tracked>>
      PROVE  SomeEnd
  <2>1. UNCHANGED <<pc, sgen>>
    BY <1>1 DEF turnVars
  <2>2. EndsTurns({})
    BY <1>1, <2>1, NoneEnds
  <2> QED
    BY <1>1, <2>1, <2>2 DEF SomeEnd
<1>2. ASSUME NEW c \in Children, InitializeAnswered(c)
      PROVE  SomeEnd
  BY <1>1, <1>2 DEF InitializeAnswered, Asks, engineVars
<1>3. ASSUME NEW c \in Children, NEW id, NEW resumed, Opens(c, id, resumed)
      PROVE  SomeEnd
  <2>1. PICK S \in SUBSET Sends : EndsTurns(S)
    BY <1>0, <1>3, RecoverEnds DEF Opens
  <2> QED
    BY <1>3, <2>1 DEF Opens, SomeEnd
<1>4. ASSUME NEW c \in Children, RequestFails(c)
      PROVE  SomeEnd
  <2>1. CASE Asks(c, "new")
    BY <1>1, <2>1 DEF Asks, engineVars
  <2>2. CASE Finish(Starters(c)) /\ UNCHANGED <<sgen, generation, tracked>>
    BY <1>0, <2>2, FinishEnds DEF Starters, SomeEnd
  <2> QED
    BY <1>4, <2>1, <2>2 DEF RequestFails
<1>5. ASSUME NEW c \in Children, ChildExit(c)
      PROVE  SomeEnd
  <2>1. PICK S \in {Prompted(c) \cup ToSet(line[c]), Prompted(c)} :
          Finish(S) /\ UNCHANGED <<sgen, generation, tracked>>
    <3>1. (Prompted(c) \cup IF hs[c] \in {"init", "new"} THEN Starters(c) ELSE {})
            \in {Prompted(c) \cup ToSet(line[c]), Prompted(c)}
      BY DEF Starters
    <3> QED
      BY <1>5, <3>1 DEF ChildExit
  <2>2. S \in SUBSET Sends /\ \A s \in S : Unfinished(s)
    BY <1>0 DEF Prompted
  <2> QED
    BY <2>1, <2>2, FinishEnds DEF SomeEnd
<1>6. ASSUME MetaArrives
      PROVE  SomeEnd
  <2>1. waiting \in Seq(Sends)
    BY DEF TypeOK
  <2>2. PICK S \in SUBSET Sends : EndsTurns(S)
    BY <1>0, <1>6, <2>1, DispatchEnds DEF MetaArrives
  <2> QED
    BY <1>6, <2>2 DEF MetaArrives, engineVars, SomeEnd
<1>7. ASSUME NEW s \in Sends, PromptAnswered(s) \/ PromptUnauthorized(s)
      PROVE  SomeEnd
  <2>1. Finish({s}) /\ pc[s] = "prompted" /\ UNCHANGED <<sgen, generation, tracked>>
    BY <1>7 DEF PromptAnswered, PromptUnauthorized, engineVars
  <2>2. EndsTurns({s})
    BY <2>1, FinishEnds DEF Unfinished
  <2> QED
    BY <2>1, <2>2 DEF SomeEnd
<1>8. ASSUME ListModels
      PROVE  SomeEnd
  BY <1>1, <1>8 DEF ListModels, StartSession
<1> QED
  BY <1>2, <1>3, <1>4, <1>5, <1>6, <1>7, <1>8
     DEF Next, LoadAnswered, NewAnswered, HandshakeFails

LEMMA NextCounts ==
  ASSUME TypeOK, Lines, Counts, Results, Next
  PROVE  Counts' /\ Results' /\ CountTypes'
<1>1. CASE SomeEnd
  BY <1>1, EndsCounts DEF SomeEnd
<1>2. ASSUME NEW s \in Sends, Send(s)
      PROVE  Counts' /\ Results' /\ CountTypes'
  <2>1. Begins(s)
    BY <1>2, SendBegins
  <2>2. Counts' /\ Results' /\ pending' \in 0..MaxSends
    BY <2>1, BeginsCounts DEF Begins
  <2> QED
    BY <2>1, <2>2 DEF Begins, CountTypes, TypeOK
<1>3. Cardinality(Open) \in 0..MaxSends
  BY TurnSets DEF Open, Current
<1>4. CASE Interrupt
  <2>1. UNCHANGED <<pc, sgen, generation, ended, tdone>> /\ ~busy' /\ pending' = 0
    BY <1>4 DEF Interrupt, turnVars, engineVars
  <2>2. MaxInterrupts # 0
    BY <1>4, EngineAssumption DEF Interrupt, TypeOK
  <2>3. Open' = Open
    BY <2>1 DEF Open, Current, Unfinished
  <2>4. Results'
    BY <2>1 DEF Results, OneResult, Unfinished
  <2>5. busy' \in BOOLEAN
    BY <1>4 DEF Interrupt
  <2>6. 0 \in 0..MaxSends
    BY EngineAssumption
  <2> QED
    BY <1>3, <2>1, <2>2, <2>3, <2>4, <2>5, <2>6 DEF Counts, CountTypes, TypeOK
<1>5. CASE Reset
  <2>1. /\ UNCHANGED <<pc, sgen, ended, tdone>> /\ ~busy' /\ pending' = 0
        /\ generation' = generation + 1
    BY <1>5 DEF Reset, turnVars
  <2>2. \A s \in Sends : sgen[s] < generation'
    BY <2>1 DEF Results, TypeOK
  <2>3. Open' = {} /\ Cardinality({}) = 0
    BY <2>1, <2>2, FS_EmptySet DEF Open, Current
  <2>4. Results'
    BY <2>1, <2>2 DEF Results, OneResult, Unfinished, TypeOK
  <2>5. busy' \in BOOLEAN
    BY <1>5 DEF Reset
  <2>6. 0 \in 0..MaxSends
    BY EngineAssumption
  <2> QED
    BY <2>1, <2>3, <2>4, <2>5, <2>6 DEF Counts, CountTypes, TypeOK
<1> QED
  BY <1>1, <1>2, <1>4, <1>5, NextEnds

-----------------------------------------------------------------------------
(* Types.                                                                  *)

\* The types of the engine's variables and of the children.
EngineTypes ==
  /\ child \in 0..MaxChildren /\ starting \in 0..MaxChildren
  /\ sessionId \in Ids /\ saved \in Ids /\ loaded \in BOOLEAN
  /\ generation \in 0..MaxResets /\ spawned \in 0..MaxChildren /\ overtaken \in BOOLEAN
  /\ proc \in [Children -> {"none", "up", "killed", "gone"}]
  /\ hs \in [Children -> {"none", "init", "load", "new", "done", "failed"}]
  /\ asked \in [Children -> Ids] /\ opened \in [Children -> Ids]

\* The types of the turns and of what the recovery changes.
TurnTypes ==
  /\ pc \in [Sends -> {"idle", "starting", "recovering", "prompted", "done"}]
  /\ on \in [Sends -> 0..MaxChildren] /\ psess \in [Sends -> Ids]
  /\ waiting \in Seq(Sends) /\ meta \in {"unasked", "fetching", "known"}
  /\ fired \in BOOLEAN /\ pre \in [Sends -> BOOLEAN]

LEMMA DispatchTypes ==
  ASSUME TypeOK, NEW Q \in Seq(Sends), NEW latches \in BOOLEAN, Dispatch(Q, latches),
         sessionId' \in Ids, waiting' \in Seq(Sends),
         meta' \in {"unasked", "fetching", "known"}
  PROVE  TurnTypes'
<1>1. pc' \in [Sends -> {"idle", "starting", "recovering", "prompted", "done"}]
  BY DEF Dispatch, TypeOK
<1>2. on' \in [Sends -> 0..MaxChildren] /\ psess' \in [Sends -> Ids]
  BY DEF Dispatch, TypeOK
<1>3. fired' \in BOOLEAN /\ pre' \in [Sends -> BOOLEAN]
  BY DEF Dispatch, TypeOK
<1> QED
  BY <1>1, <1>2, <1>3 DEF TurnTypes

LEMMA RecoverTypes ==
  ASSUME TypeOK, NEW Q \in Seq(Sends), Recover(Q), sessionId' \in Ids, loaded' \in BOOLEAN
  PROVE  TurnTypes'
<1>1. CASE fired \/ loaded' \/ meta = "known"
  <2>1. (Q # <<>> /\ ~ fired /\ ~ loaded' /\ PriorWork) \in BOOLEAN
    BY EngineAssumption
  <2>2. UNCHANGED <<meta, waiting>>
    BY <1>1 DEF Recover
  <2> QED
    BY <1>1, <2>1, <2>2, DispatchTypes DEF Recover, TypeOK
<1>2. CASE ~(fired \/ loaded' \/ meta = "known")
  <2>1. waiting' \in Seq(Sends)
    <3>1. waiting' = waiting \o Q
      BY <1>2 DEF Recover
    <3>2. waiting \in Seq(Sends)
      BY DEF TypeOK
    <3> QED
      BY <3>1, <3>2
  <2>2. pc' \in [Sends -> {"idle", "starting", "recovering", "prompted", "done"}]
    BY <1>2 DEF Recover, TypeOK
  <2>3. meta' \in {"unasked", "fetching", "known"}
    BY <1>2 DEF Recover, TypeOK
  <2> QED
    BY <1>2, <2>1, <2>2, <2>3 DEF Recover, TypeOK, TurnTypes
<1> QED
  BY <1>1, <1>2

LEMMA FinishTypes ==
  ASSUME TypeOK, NEW S, Finish(S), UNCHANGED <<on, psess, bootVars>>
  PROVE  TurnTypes'
<1>1. pc' \in [Sends -> {"idle", "starting", "recovering", "prompted", "done"}]
  BY DEF Finish, TypeOK
<1> QED
  BY <1>1 DEF TypeOK, TurnTypes, bootVars

\* What no step of the engine changes beyond these.
LEMMA RestTypes ==
  ASSUME TypeOK, EngineTypes', TurnTypes', CountTypes',
         line' \in [Children -> Seq(Sends)], sgen' \in [Sends -> 0..MaxResets],
         tracked' \in 0..MaxSends, interrupts' \in 0..MaxInterrupts
  PROVE  TypeOK'
BY DEF TypeOK, EngineTypes, TurnTypes, CountTypes

LEMMA KillChildTypes ==
  ASSUME TypeOK, KillChild
  PROVE  /\ child' \in 0..MaxChildren /\ starting' \in 0..MaxChildren /\ sessionId' \in Ids
         /\ proc' \in [Children -> {"none", "up", "killed", "gone"}]
<1>1. 0 \in 0..MaxChildren /\ 0 \in Ids
  BY EngineAssumption DEF Ids
<1> QED
  BY <1>1 DEF KillChild, TypeOK

LEMMA StartSessionTypes ==
  ASSUME TypeOK, StartSession
  PROVE  EngineTypes' /\ spawned + 1 \in Children /\ starting' = spawned + 1
<1>1. spawned + 1 \in Children /\ spawned + 1 \in 0..MaxChildren
  BY EngineAssumption DEF StartSession, TypeOK, Children
<1>2. proc' \in [Children -> {"none", "up", "killed", "gone"}]
  BY <1>1 DEF StartSession, TypeOK
<1>3. hs' \in [Children -> {"none", "init", "load", "new", "done", "failed"}]
  BY <1>1 DEF StartSession, TypeOK
<1> QED
  BY <1>1, <1>2, <1>3 DEF StartSession, TypeOK, EngineTypes

LEMMA NextTypes ==
  ASSUME TypeOK, Lines, Counts, Results, Next
  PROVE  TypeOK'
<1>0. CountTypes'
  BY NextCounts
<1>1. ASSUME NEW s \in Sends, Send(s)
      PROVE  TypeOK'
  <2>1. EngineTypes'
    <3>1. CASE StartSession
      BY <3>1, StartSessionTypes
    <3>2. CASE UNCHANGED <<engineVars, startVars>>
      BY <3>2 DEF engineVars, startVars, births, TypeOK, EngineTypes
    <3> QED
      BY <1>1, <3>1, <3>2 DEF Send
  <2>2. sgen' \in [Sends -> 0..MaxResets]
    BY <1>1 DEF Send, TypeOK
  <2>3. tracked' \in 0..MaxSends
    BY <1>1 DEF Send, BeginTurn, Sends
  <2>4. interrupts' \in 0..MaxInterrupts
    BY <1>1 DEF Send, TypeOK
  <2>5. TurnTypes' /\ line' \in [Children -> Seq(Sends)]
    <3>1. CASE ~ Started
      <4>1. /\ pc' = [pc EXCEPT ![s] = "starting"]
            /\ line' = [line EXCEPT ![starting'] = Append(@, s)]
            /\ UNCHANGED <<on, psess, bootVars>>
        BY <1>1, <3>1 DEF Send
      <4>2. pc' \in [Sends -> {"idle", "starting", "recovering", "prompted", "done"}]
        BY <4>1 DEF TypeOK
      <4>3. line' \in [Children -> Seq(Sends)]
        BY <4>1, AppendSets DEF TypeOK
      <4> QED
        BY <4>1, <4>2, <4>3 DEF TypeOK, TurnTypes, bootVars
    <3>2. CASE Started /\ (fired \/ loaded \/ meta = "known")
      <4>1. /\ pc' = [pc EXCEPT ![s] = "prompted"] /\ on' = [on EXCEPT ![s] = child]
            /\ psess' = [psess EXCEPT ![s] = sessionId]
            /\ fired' = (fired \/ (~ fired /\ ~ loaded /\ PriorWork))
            /\ pre' = [pre EXCEPT ![s] = (~ fired /\ ~ loaded /\ PriorWork)]
            /\ UNCHANGED <<meta, waiting, line>>
        BY <1>1, <3>2 DEF Send
      <4>2. pc' \in [Sends -> {"idle", "starting", "recovering", "prompted", "done"}]
        BY <4>1 DEF TypeOK
      <4>3. on' \in [Sends -> 0..MaxChildren] /\ psess' \in [Sends -> Ids]
        BY <4>1 DEF TypeOK
      <4>4. fired' \in BOOLEAN /\ pre' \in [Sends -> BOOLEAN]
        BY <4>1 DEF TypeOK
      <4> QED
        BY <4>1, <4>2, <4>3, <4>4 DEF TypeOK, TurnTypes
    <3>3. CASE Started /\ ~(fired \/ loaded \/ meta = "known")
      <4>1. /\ pc' = [pc EXCEPT ![s] = "recovering"] /\ waiting' = Append(waiting, s)
            /\ meta' = "fetching" /\ UNCHANGED <<on, psess, fired, pre, line>>
        BY <1>1, <3>3 DEF Send
      <4>2. pc' \in [Sends -> {"idle", "starting", "recovering", "prompted", "done"}]
        BY <4>1 DEF TypeOK
      <4>3. waiting' \in Seq(Sends)
        <5>1. waiting \in Seq(Sends)
          BY DEF TypeOK
        <5> QED
          BY <4>1, <5>1
      <4> QED
        BY <4>1, <4>2, <4>3 DEF TypeOK, TurnTypes
    <3> QED
      BY <3>1, <3>2, <3>3
  <2> QED
    BY <1>0, <2>1, <2>2, <2>3, <2>4, <2>5, RestTypes
<1>2. ASSUME NEW c \in Children, NEW request \in {"load", "new"}, Asks(c, request),
             asked' \in [Children -> Ids]
      PROVE  TypeOK'
  <2>1. hs' \in [Children -> {"none", "init", "load", "new", "done", "failed"}]
    BY <1>2 DEF Asks, TypeOK
  <2> QED
    BY <1>2, <2>1 DEF Asks, births, TypeOK, engineVars, countVars, bootVars, turnVars
<1>3. ASSUME NEW c \in Children, InitializeAnswered(c)
      PROVE  TypeOK'
  <2>1. asked' \in [Children -> Ids]
    BY <1>3, EngineAssumption DEF InitializeAnswered, TypeOK, Ids
  <2>2. (IF asked'[c] # 0 THEN "load" ELSE "new") \in {"load", "new"}
    OBVIOUS
  <2> QED
    BY <1>2, <1>3, <2>1, <2>2 DEF InitializeAnswered
<1>4. ASSUME NEW c \in Children, NEW id \in Ids, NEW resumed \in BOOLEAN,
             Opens(c, id, resumed), saved' \in Ids
      PROVE  TypeOK'
  <2>1. /\ sessionId' = id /\ starting' = 0 /\ loaded' \in BOOLEAN
        /\ hs' = [hs EXCEPT ![c] = "done"] /\ opened' = [opened EXCEPT ![c] = id]
        /\ UNCHANGED <<child, generation, asked, births, proc, sgen, tracked, interrupts>>
    BY <1>4 DEF Opens
  <2>2. TurnTypes'
    BY <1>4, <2>1, RecoverTypes DEF Opens, TypeOK
  <2>3. line' \in [Children -> Seq(Sends)]
    BY <1>4 DEF Opens, TypeOK
  <2>4. hs' \in [Children -> {"none", "init", "load", "new", "done", "failed"}]
    BY <2>1 DEF TypeOK
  <2>5. opened' \in [Children -> Ids] /\ starting' \in 0..MaxChildren
    BY <2>1, EngineAssumption DEF TypeOK
  <2>6. EngineTypes'
    BY <1>4, <2>1, <2>4, <2>5 DEF EngineTypes, births, TypeOK
  <2> QED
    BY <1>0, <2>1, <2>2, <2>3, <2>6, RestTypes DEF TypeOK
<1>5. ASSUME NEW c \in Children, LoadAnswered(c) \/ NewAnswered(c)
      PROVE  TypeOK'
  <2>1. c \in Ids /\ 0 \in Ids
    BY EngineAssumption DEF Ids, Children
  <2>2. asked[c] \in Ids
    BY DEF TypeOK
  <2> QED
    BY <1>4, <1>5, <2>1, <2>2 DEF LoadAnswered, NewAnswered, TypeOK
<1>6. ASSUME NEW c \in Children, RequestFails(c)
      PROVE  TypeOK'
  <2>1. CASE Asks(c, "new") /\ UNCHANGED asked
    BY <1>2, <2>1 DEF TypeOK
  <2>2. CASE /\ hs' = [hs EXCEPT ![c] = "failed"] /\ KillChild
             /\ Finish(Starters(c)) /\ line' = [line EXCEPT ![c] = <<>>]
             /\ UNCHANGED <<loaded, generation, saved, bootVars, births, asked, opened,
                            on, sgen, psess, tracked, interrupts>>
    <3>1. TurnTypes'
      BY <2>2, FinishTypes
    <3>2. line' \in [Children -> Seq(Sends)]
      BY <2>2 DEF TypeOK
    <3>3. hs' \in [Children -> {"none", "init", "load", "new", "done", "failed"}]
      BY <2>2 DEF TypeOK
    <3>4. EngineTypes'
      BY <2>2, <3>3, KillChildTypes DEF EngineTypes, births, TypeOK
    <3> QED
      BY <1>0, <2>2, <3>1, <3>2, <3>4, RestTypes DEF TypeOK
  <2> QED
    BY <1>6, <2>1, <2>2 DEF RequestFails
<1>7. ASSUME NEW c \in Children, ChildExit(c)
      PROVE  TypeOK'
  <2>1. TurnTypes'
    BY <1>7, FinishTypes DEF ChildExit
  <2>2. line' \in [Children -> Seq(Sends)]
    BY <1>7 DEF ChildExit, TypeOK
  <2>3. hs' \in [Children -> {"none", "init", "load", "new", "done", "failed"}]
    BY <1>7 DEF ChildExit, TypeOK
  <2>4. proc' \in [Children -> {"none", "up", "killed", "gone"}]
    BY <1>7 DEF ChildExit, TypeOK
  <2>5. child' \in 0..MaxChildren /\ starting' \in 0..MaxChildren /\ sessionId' \in Ids
    <3>1. 0 \in 0..MaxChildren /\ 0 \in Ids
      BY EngineAssumption DEF Ids
    <3>2. child' \in {0, child} /\ starting' \in {0, starting} /\ sessionId' \in {0, sessionId}
      BY <1>7 DEF ChildExit
    <3> QED
      BY <3>1, <3>2 DEF TypeOK
  <2>6. UNCHANGED <<loaded, generation, saved, births, asked, opened, sgen, tracked,
                    interrupts>>
    BY <1>7 DEF ChildExit
  <2>7. EngineTypes'
    BY <2>3, <2>4, <2>5, <2>6 DEF EngineTypes, births, TypeOK
  <2> QED
    BY <1>0, <2>1, <2>2, <2>6, <2>7, RestTypes DEF TypeOK
<1>8. ASSUME MetaArrives
      PROVE  TypeOK'
  <2>1. /\ Dispatch(waiting, ~ fired /\ PriorWork) /\ meta' = "known" /\ waiting' = <<>>
        /\ UNCHANGED <<engineVars, startVars, sgen, line, tracked, interrupts>>
    BY <1>8 DEF MetaArrives
  <2>2. (~ fired /\ PriorWork) \in BOOLEAN /\ waiting \in Seq(Sends) /\ waiting' \in Seq(Sends)
    BY <2>1 DEF TypeOK
  <2>3. sessionId' \in Ids
    BY <2>1 DEF engineVars, TypeOK
  <2>4. TurnTypes'
    BY <2>1, <2>2, <2>3, DispatchTypes
  <2>5. EngineTypes'
    BY <2>1 DEF engineVars, startVars, births, EngineTypes, TypeOK
  <2> QED
    BY <1>0, <2>1, <2>4, <2>5, RestTypes DEF TypeOK
<1>9. ASSUME NEW s \in Sends, PromptAnswered(s) \/ PromptUnauthorized(s)
      PROVE  TypeOK'
  <2>1. /\ Finish({s}) /\ UNCHANGED <<on, psess, bootVars, sgen, line, tracked, interrupts>>
        /\ UNCHANGED <<loaded, generation, saved, births, hs, asked, opened>>
    BY <1>9 DEF PromptAnswered, PromptUnauthorized, engineVars, startVars, births
  <2>2. TurnTypes'
    BY <2>1, FinishTypes
  <2>3. KillChild \/ UNCHANGED <<child, starting, sessionId, proc>>
    BY <1>9 DEF PromptAnswered, PromptUnauthorized, engineVars, startVars, births
  <2>4. EngineTypes'
    BY <2>1, <2>3, KillChildTypes DEF EngineTypes, births, TypeOK
  <2> QED
    BY <1>0, <2>1, <2>2, <2>4, RestTypes DEF TypeOK
<1>10. ASSUME ListModels
       PROVE  TypeOK'
  BY <1>0, <1>10, StartSessionTypes, RestTypes
     DEF ListModels, TypeOK, TurnTypes, bootVars, turnVars
<1>11. ASSUME Interrupt
       PROVE  TypeOK'
  <2>1. interrupts' \in 0..MaxInterrupts
    BY <1>11, EngineAssumption DEF Interrupt, TypeOK
  <2> QED
    BY <1>0, <1>11, <2>1, RestTypes
       DEF Interrupt, TypeOK, EngineTypes, TurnTypes, engineVars, bootVars, startVars, births, turnVars
<1>12. ASSUME Reset
       PROVE  TypeOK'
  <2>1. generation' \in 0..MaxResets /\ loaded' \in BOOLEAN /\ saved' \in Ids
    <3>1. 0 \in Ids
      BY EngineAssumption DEF Ids
    <3>2. generation' \in 0..MaxResets
      BY <1>12, EngineAssumption DEF Reset, TypeOK
    <3>3. loaded' = FALSE /\ saved' = 0
      BY <1>12 DEF Reset
    <3> QED
      BY <3>1, <3>2, <3>3
  <2>2. EngineTypes'
    BY <1>12, <2>1, KillChildTypes DEF Reset, births, EngineTypes, TypeOK
  <2> QED
    BY <1>0, <1>12, <2>2, RestTypes DEF Reset, TypeOK, TurnTypes, bootVars, turnVars
<1> QED
  BY <1>1, <1>3, <1>5, <1>6, <1>7, <1>8, <1>9, <1>10, <1>11, <1>12
     DEF Next, HandshakeFails

-----------------------------------------------------------------------------
(* The children.                                                           *)

\* A session that was opened without an id stays so.
LEMMA NamelessStays ==
  ASSUME TypeOK, OneChild, Next
  PROVE  Nameless => Nameless'
<1> SUFFICES ASSUME NEW c \in Children, hs[c] = "done", opened[c] = 0
             PROVE  hs'[c] = "done" /\ opened'[c] = 0
  BY DEF Nameless
<1>1. CASE UNCHANGED <<hs, opened>>
  BY <1>1
<1>2. ASSUME StartSession
      PROVE  hs'[c] = "done" /\ opened'[c] = 0
  <2>1. hs' = [hs EXCEPT ![spawned + 1] = "init"] /\ opened' = opened
    BY <1>2 DEF StartSession
  <2>2. spawned \in Nat /\ hs[c] # "none"
    BY DEF TypeOK
  <2>3. c # spawned + 1
    BY <2>2 DEF OneChild, Children
  <2> QED
    BY <2>1, <2>3 DEF TypeOK
<1>3. ASSUME NEW s \in Sends, Send(s)
      PROVE  hs'[c] = "done" /\ opened'[c] = 0
  BY <1>1, <1>2, <1>3 DEF Send, startVars
<1>4. ASSUME NEW d \in Children, InitializeAnswered(d)
      PROVE  hs'[c] = "done" /\ opened'[c] = 0
  BY <1>4 DEF InitializeAnswered, Asks, TypeOK
<1>5. ASSUME NEW d \in Children, LoadAnswered(d) \/ NewAnswered(d)
      PROVE  hs'[c] = "done" /\ opened'[c] = 0
  BY <1>5 DEF LoadAnswered, NewAnswered, Opens, TypeOK
<1>6. ASSUME NEW d \in Children, RequestFails(d)
      PROVE  hs'[c] = "done" /\ opened'[c] = 0
  BY <1>6 DEF RequestFails, Asks, TypeOK
<1>7. ASSUME NEW d \in Children, ChildExit(d)
      PROVE  hs'[c] = "done" /\ opened'[c] = 0
  <2>1. opened' = opened /\ \A e \in Children : hs'[e] = IF e = d /\ hs[d] \in {"init", "new"} THEN "failed"
                                                 ELSE IF e = d /\ hs[d] = "load" THEN "new" ELSE hs[e]
    BY <1>7 DEF ChildExit, TypeOK
  <2> QED
    BY <2>1
<1>8. ASSUME NEW s \in Sends, PromptAnswered(s) \/ PromptUnauthorized(s)
      PROVE  hs'[c] = "done" /\ opened'[c] = 0
  BY <1>1, <1>8 DEF PromptAnswered, PromptUnauthorized, startVars
<1>9. ASSUME MetaArrives \/ Interrupt \/ Reset
      PROVE  hs'[c] = "done" /\ opened'[c] = 0
  BY <1>1, <1>9 DEF MetaArrives, Interrupt, Reset, startVars
<1>10. ASSUME ListModels
       PROVE  hs'[c] = "done" /\ opened'[c] = 0
  BY <1>2, <1>10 DEF ListModels
<1> QED
  BY <1>3, <1>4, <1>5, <1>6, <1>7, <1>8, <1>9, <1>10 DEF Next, HandshakeFails

LEMMA StartSessionOne ==
  ASSUME TypeOK, OneChild, ~ Started, starting = 0, StartSession, Nameless => Nameless'
  PROVE  OneChild'
<1>1. ~ Nameless => child = 0
  BY DEF OneChild, Sole, Started
<1>2. spawned + 1 \in Children /\ spawned + 1 # 0 /\ spawned \in Nat
  BY EngineAssumption DEF StartSession, TypeOK, Children
<1>3. /\ spawned' = spawned + 1 /\ child' = spawned + 1 /\ starting' = spawned + 1
      /\ \A c \in Children : proc'[c] = IF c = spawned + 1 THEN "up" ELSE proc[c]
      /\ \A c \in Children : hs'[c] = IF c = spawned + 1 THEN "init" ELSE hs[c]
      /\ UNCHANGED <<sessionId, asked>>
  BY <1>2 DEF StartSession, TypeOK
<1>4. \A c \in Children : c > spawned + 1 <=> c > spawned /\ c # spawned + 1
  BY <1>2 DEF Children
<1>5. \A c \in Children : /\ proc'[c] = "none" <=> c > spawned'
                          /\ c > spawned' => hs'[c] = "none"
  BY <1>2, <1>3, <1>4 DEF OneChild
<1>6. Nameless' \/ Sole'
  BY <1>1, <1>2, <1>3 DEF OneChild, Sole, Children
<1>7. \A c \in Children : hs'[c] = "load" => asked'[c] # 0
  BY <1>3 DEF OneChild
<1>8. proc'[child'] = "up" /\ starting' # 0
  BY <1>2, <1>3
<1> QED
  BY <1>5, <1>6, <1>7, <1>8 DEF OneChild

LEMMA KillChildOne ==
  ASSUME TypeOK, OneChild, KillChild, UNCHANGED <<spawned, asked>>, Nameless => Nameless',
         \A c \in Children : hs'[c] = "load" => hs[c] = "load",
         \A c \in Children : hs[c] = "none" => hs'[c] = "none"
  PROVE  OneChild'
<1>1. \A c \in Children : proc'[c] = IF c = child THEN "killed" ELSE proc[c]
  BY DEF KillChild, TypeOK, Children
<1> QED
  BY <1>1 DEF KillChild, OneChild, Sole

LEMMA NextOne ==
  ASSUME TypeOK, OneChild, Next
  PROVE  OneChild'
<1>0. Nameless => Nameless'
  BY NamelessStays
<1>1. CASE UNCHANGED <<child, sessionId, starting, proc, spawned, hs, asked>>
  BY <1>0, <1>1 DEF OneChild, Sole
<1>2. ASSUME NEW s \in Sends, Send(s)
      PROVE  OneChild'
  BY <1>0, <1>1, <1>2, StartSessionOne DEF Send, engineVars, startVars, births
<1>3. ASSUME NEW c \in Children, InitializeAnswered(c)
      PROVE  OneChild'
  <2>1. UNCHANGED <<child, sessionId, starting, proc, spawned>> /\ hs[c] = "init"
    BY <1>3 DEF InitializeAnswered, Asks, engineVars, births
  <2>2. \A d \in Children : d # c => hs'[d] = hs[d] /\ asked'[d] = asked[d]
    BY <1>3 DEF InitializeAnswered, Asks, TypeOK
  <2>3. hs'[c] = "load" => asked'[c] # 0
    BY <1>3 DEF InitializeAnswered, Asks, TypeOK
  <2>4. \A d \in Children : hs[d] = "none" => hs'[d] = "none"
    BY <2>1, <2>2
  <2> QED
    BY <1>0, <2>1, <2>2, <2>3, <2>4 DEF OneChild, Sole
<1>4. ASSUME NEW c \in Children, NEW id \in Ids, NEW resumed, Opens(c, id, resumed), hs[c] \in {"load", "new"}
      PROVE  OneChild'
  <2>1. UNCHANGED <<child, proc, spawned, asked>> /\ sessionId' = id
    BY <1>4 DEF Opens, births
  <2>2. \A d \in Children : hs'[d] = IF d = c THEN "done" ELSE hs[d]
    BY <1>4 DEF Opens, TypeOK
  <2>3. Nameless' \/ sessionId' # 0
    <3>1. opened'[c] = id
      BY <1>4 DEF Opens, TypeOK
    <3> QED
      BY <2>1, <2>2, <3>1 DEF Nameless
  <2>4. Nameless' \/ Sole'
    BY <1>0, <2>1, <2>3 DEF OneChild, Sole
  <2> QED
    BY <1>4, <2>1, <2>2, <2>4 DEF OneChild
<1>5. ASSUME NEW c \in Children, LoadAnswered(c) \/ NewAnswered(c)
      PROVE  OneChild'
  <2>1. c \in Ids /\ 0 \in Ids
    BY EngineAssumption DEF Ids, Children
  <2>2. asked[c] \in Ids
    BY DEF TypeOK
  <2> QED
    BY <1>4, <1>5, <2>1, <2>2 DEF LoadAnswered, NewAnswered
<1>6. ASSUME NEW c \in Children, RequestFails(c)
      PROVE  OneChild'
  <2>0. hs[c] # "none"
    BY <1>6 DEF RequestFails
  <2>1. CASE Asks(c, "new") /\ UNCHANGED asked
    <3>1. \A d \in Children : hs'[d] = IF d = c THEN "new" ELSE hs[d]
      BY <2>1 DEF Asks, TypeOK
    <3>2. UNCHANGED <<child, sessionId, starting, proc, spawned>>
      BY <2>1 DEF Asks, engineVars, births
    <3> QED
      BY <1>0, <2>0, <2>1, <3>1, <3>2 DEF OneChild, Sole
  <2>2. CASE /\ hs' = [hs EXCEPT ![c] = "failed"] /\ KillChild /\ UNCHANGED <<births, asked>>
    <3>1. \A d \in Children : hs'[d] = IF d = c THEN "failed" ELSE hs[d]
      BY <2>2 DEF TypeOK
    <3> QED
      BY <1>0, <2>0, <2>2, <3>1, KillChildOne DEF births
  <2> QED
    BY <1>6, <2>1, <2>2 DEF RequestFails
<1>7. ASSUME NEW c \in Children, ChildExit(c)
      PROVE  OneChild'
  <2>0. /\ \A d \in Children : hs'[d] = "load" => hs[d] = "load"
        /\ \A d \in Children : hs[d] = "none" => hs'[d] = "none"
    BY <1>7 DEF ChildExit, TypeOK
  <2>2. proc[c] \in {"up", "killed"} /\ UNCHANGED <<spawned, asked>>
    BY <1>7 DEF ChildExit, births
  <2>3. CASE hs[c] \in {"init", "new"} \/ child = c
    <3>1. child' = 0
      BY <1>7, <2>3 DEF ChildExit
    <3>2. \A d \in Children : proc'[d] = IF d = c THEN "gone"
                                         ELSE IF d = child THEN "killed" ELSE proc[d]
      BY <1>7, <2>3 DEF ChildExit, OneChild, Children
    <3>3. \A d \in Children : proc'[d] = "none" <=> proc[d] = "none"
      <4>1. proc[c] # "none" /\ (child # 0 => proc[child] # "none")
        BY <2>2 DEF OneChild
      <4>2. \A d \in Children : d # 0
        BY DEF Children
      <4> QED
        BY <3>2, <4>1, <4>2
    <3>4. Nameless' \/ Sole'
      BY <1>0, <3>1, <3>2 DEF OneChild, Sole
    <3> QED
      BY <2>0, <2>2, <3>1, <3>3, <3>4 DEF OneChild
  <2>4. CASE ~(hs[c] \in {"init", "new"} \/ child = c)
    <3>1. UNCHANGED <<child, sessionId, starting>>
      BY <1>7, <2>4 DEF ChildExit
    <3>2. \A d \in Children : proc'[d] = IF d = c THEN "gone" ELSE proc[d]
      BY <1>7, <2>4 DEF ChildExit
    <3>3. \A d \in Children : proc'[d] = "none" <=> proc[d] = "none"
      BY <2>2, <3>2
    <3>4. Nameless' \/ Sole'
      BY <1>0, <3>1, <3>2 DEF OneChild, Sole
    <3>5. child' # 0 => proc'[child'] = "up"
      BY <2>4, <3>1, <3>2 DEF OneChild, TypeOK, Children
    <3> QED
      BY <2>0, <2>2, <3>1, <3>3, <3>4, <3>5 DEF OneChild
  <2> QED
    BY <2>3, <2>4
<1>8. ASSUME MetaArrives \/ Interrupt
      PROVE  OneChild'
  BY <1>1, <1>8 DEF MetaArrives, Interrupt, engineVars, startVars, births
<1>9. ASSUME NEW s \in Sends, PromptAnswered(s) \/ PromptUnauthorized(s)
      PROVE  OneChild'
  BY <1>0, <1>1, <1>9, KillChildOne
  DEF PromptAnswered, PromptUnauthorized, engineVars, startVars, births
<1>10. ASSUME ListModels
       PROVE  OneChild'
  BY <1>0, <1>10, StartSessionOne DEF ListModels
<1>11. ASSUME Reset
       PROVE  OneChild'
  BY <1>0, <1>11, KillChildOne DEF Reset, births
<1> QED
  BY <1>2, <1>3, <1>5, <1>6, <1>7, <1>8, <1>9, <1>10, <1>11 DEF Next, HandshakeFails

-----------------------------------------------------------------------------
(* The queues of turns.                                                    *)

\* A step that moves the turns of one queue, or of none, and empties it.
LEMMA LinesKept ==
  ASSUME TypeOK, Lines, NEW S,
         \A s \in Sends : s \notin S => pc'[s] = pc[s],
         \A c \in Children : \A s \in ToSet(line'[c]) : s \in ToSet(line[c]) /\ s \notin S,
         \A s \in ToSet(waiting') :
           pc'[s] = "recovering" \/ (s \in ToSet(waiting) /\ s \notin S)
  PROVE  Lines'
<1>1. \A c \in Children : ToSet(line[c]) \subseteq Sends
  BY QueueSets DEF TypeOK
<1>2. ToSet(waiting) \subseteq Sends
  BY QueueSets DEF TypeOK
<1>3. \A c \in Children : \A s \in ToSet(line'[c]) : pc'[s] = "starting"
  BY <1>1 DEF Lines
<1>4. \A c, d \in Children : ToSet(line'[c]) \cap ToSet(line'[d]) # {} => c = d
  BY DEF Lines
<1>5. \A s \in ToSet(waiting') : pc'[s] = "recovering"
  BY <1>2 DEF Lines
<1> QED
  BY <1>3, <1>4, <1>5 DEF Lines

LEMMA NextLines ==
  ASSUME TypeOK, Lines, OneChild, Next
  PROVE  Lines'
<1>0. /\ \A c \in Children : line[c] \in Seq(Sends) /\ ToSet(line[c]) \subseteq Sends
      /\ waiting \in Seq(Sends) /\ ToSet(waiting) \subseteq Sends
      /\ ToSet(<<>>) = {}
  BY QueueSets DEF TypeOK, ToSet
<1>1. CASE UNCHANGED <<pc, line, waiting>>
  BY <1>1 DEF Lines
<1>2. ASSUME NEW s \in Sends, Send(s)
      PROVE  Lines'
  <2>0. pc[s] = "idle"
    BY <1>2 DEF Send
  <2>1. s \notin ToSet(waiting) /\ \A c \in Children : s \notin ToSet(line[c])
    BY <2>0 DEF Lines
  <2>2. CASE ~ Started
    <3>1. /\ pc' = [pc EXCEPT ![s] = "starting"] /\ waiting' = waiting
          /\ line' = [line EXCEPT ![starting'] = Append(@, s)]
      BY <1>2, <2>2 DEF Send, bootVars
    <3>2. PICK d : d = starting'
      OBVIOUS
    <3>3. \A c \in Children : ToSet(line'[c]) \subseteq
            IF c = d THEN ToSet(line[c]) \cup {s} ELSE ToSet(line[c])
      <4>1. ASSUME NEW c \in Children
            PROVE  line'[c] = IF c = d THEN Append(line[c], s) ELSE line[c]
        BY <3>1, <3>2 DEF TypeOK
      <4> QED
        BY <1>0, <4>1, AppendSets
    <3>4. \A t \in Sends : pc'[t] = IF t = s THEN "starting" ELSE pc[t]
      BY <3>1 DEF TypeOK
    <3>5. \A c \in Children : \A t \in ToSet(line'[c]) : pc'[t] = "starting"
      BY <1>0, <3>3, <3>4 DEF Lines
    <3>6. \A c, e \in Children : ToSet(line'[c]) \cap ToSet(line'[e]) # {} => c = e
      BY <2>1, <3>3 DEF Lines
    <3> QED
      BY <1>0, <2>1, <3>1, <3>4, <3>5, <3>6 DEF Lines
  <2>3. CASE Started
    <3>1. line' = line
      BY <1>2, <2>3 DEF Send
    <3>2. \/ pc' = [pc EXCEPT ![s] = "prompted"] /\ waiting' = waiting
          \/ pc' = [pc EXCEPT ![s] = "recovering"] /\ waiting' = Append(waiting, s)
      BY <1>2, <2>3 DEF Send
    <3>3. \A t \in Sends : t \notin {s} => pc'[t] = pc[t]
      BY <3>2 DEF TypeOK
    <3>4. \A t \in ToSet(waiting') :
            pc'[t] = "recovering" \/ (t \in ToSet(waiting) /\ t \notin {s})
      <4>1. CASE waiting' = waiting
        BY <2>1, <4>1
      <4>2. CASE pc' = [pc EXCEPT ![s] = "recovering"] /\ waiting' = Append(waiting, s)
        <5>1. pc'[s] = "recovering"
          BY <4>2 DEF TypeOK
        <5>2. ToSet(waiting') \subseteq ToSet(waiting) \cup {s}
          BY <1>0, <4>2, AppendSets
        <5> QED
          BY <2>1, <5>1, <5>2
      <4> QED
        BY <3>2, <4>1, <4>2
    <3> QED
      BY <2>1, <3>1, <3>3, <3>4, LinesKept
  <2> QED
    BY <2>2, <2>3
<1>3. ASSUME NEW c \in Children, NEW id, NEW resumed, Opens(c, id, resumed)
      PROVE  Lines'
  <2>1. \A d \in Children : line'[d] = IF d = c THEN <<>> ELSE line[d]
    BY <1>3 DEF Opens, TypeOK
  <2>2. \A s \in Sends : s \notin ToSet(line[c]) => pc'[s] = pc[s]
    BY <1>3 DEF Opens, Recover, Dispatch, Current
  <2>3. \A d \in Children : \A s \in ToSet(line'[d]) :
          s \in ToSet(line[d]) /\ s \notin ToSet(line[c])
    BY <1>0, <2>1 DEF Lines
  <2>4. \A s \in ToSet(waiting) : s \notin ToSet(line[c])
    BY DEF Lines
  <2>5. \A s \in ToSet(waiting') :
          pc'[s] = "recovering" \/ (s \in ToSet(waiting) /\ s \notin ToSet(line[c]))
    <3>1. CASE waiting' = waiting
      BY <2>4, <3>1
    <3>2. CASE /\ waiting' = waiting \o line[c]
               /\ pc' = [s \in Sends |-> IF s \in ToSet(line[c]) THEN "recovering" ELSE pc[s]]
      BY <1>0, <2>4, <3>2, JoinSets
    <3> QED
      BY <1>3, <3>1, <3>2 DEF Opens, Recover
  <2> QED
    BY <2>2, <2>3, <2>5, LinesKept
<1>4. ASSUME NEW c \in Children, NEW S, Finish(S), waiting' = waiting,
             \A s \in S : pc[s] # "recovering",
             \/ line' = line /\ \A s \in S : pc[s] # "starting"
             \/ /\ line' = [line EXCEPT ![c] = <<>>]
                /\ \A s \in S : pc[s] = "starting" => s \in ToSet(line[c])
      PROVE  Lines'
  <2>1. \A s \in Sends : s \notin S => pc'[s] = pc[s]
    BY <1>4 DEF Finish
  <2>2. \A d \in Children : \A s \in ToSet(line'[d]) : s \in ToSet(line[d]) /\ s \notin S
    <3>1. CASE line' = line /\ \A s \in S : pc[s] # "starting"
      BY <3>1 DEF Lines
    <3>2. CASE /\ line' = [line EXCEPT ![c] = <<>>]
               /\ \A s \in S : pc[s] = "starting" => s \in ToSet(line[c])
      <4>1. \A d \in Children : line'[d] = IF d = c THEN <<>> ELSE line[d]
        BY <3>2 DEF TypeOK
      <4> QED
        BY <1>0, <3>2, <4>1 DEF Lines
    <3> QED
      BY <1>4, <3>1, <3>2
  <2>3. \A s \in ToSet(waiting) : s \notin S
    BY <1>4 DEF Lines
  <2> QED
    BY <1>4, <2>1, <2>2, <2>3, LinesKept
<1>5. ASSUME NEW c \in Children, RequestFails(c)
      PROVE  Lines'
  <2>1. CASE Asks(c, "new")
    BY <1>1, <2>1 DEF Asks, turnVars, bootVars
  <2>2. CASE Finish(ToSet(line[c])) /\ line' = [line EXCEPT ![c] = <<>>] /\ waiting' = waiting
    BY <1>4, <2>2 DEF Lines
  <2> QED
    BY <1>5, <2>1, <2>2 DEF RequestFails, Starters, bootVars
<1>6. ASSUME NEW c \in Children, ChildExit(c)
      PROVE  Lines'
  <2>1. waiting' = waiting
    BY <1>6 DEF ChildExit, bootVars
  <2>2. CASE hs[c] \in {"init", "new"}
    <3>1. Finish(Prompted(c) \cup ToSet(line[c])) /\ line' = [line EXCEPT ![c] = <<>>]
      BY <1>6, <2>2 DEF ChildExit, Starters
    <3>2. \A s \in Prompted(c) \cup ToSet(line[c]) :
            pc[s] # "recovering" /\ (pc[s] = "starting" => s \in ToSet(line[c]))
      BY DEF Lines, Prompted
    <3> QED
      BY <1>4, <2>1, <3>1, <3>2
  <2>3. CASE ~(hs[c] \in {"init", "new"})
    <3>1. Finish(Prompted(c) \cup {}) /\ line' = line
      BY <1>6, <2>3 DEF ChildExit
    <3>2. \A s \in Prompted(c) \cup {} : pc[s] # "recovering" /\ pc[s] # "starting"
      BY DEF Prompted
    <3> QED
      BY <1>4, <2>1, <3>1, <3>2
  <2> QED
    BY <2>2, <2>3
<1>7. ASSUME MetaArrives
      PROVE  Lines'
  <2>1. Dispatch(waiting, ~ fired /\ PriorWork) /\ waiting' = <<>> /\ line' = line
    BY <1>7 DEF MetaArrives
  <2>2. \A s \in Sends : s \notin ToSet(waiting) => pc'[s] = pc[s]
    BY <2>1 DEF Dispatch, Current
  <2>3. \A c \in Children : \A s \in ToSet(line[c]) : s \notin ToSet(waiting)
    BY DEF Lines
  <2> QED
    BY <1>0, <2>1, <2>2, <2>3, LinesKept
<1>8. ASSUME NEW s \in Sends, PromptAnswered(s) \/ PromptUnauthorized(s)
      PROVE  Lines'
  <2>1. Finish({s}) /\ pc[s] = "prompted" /\ line' = line /\ waiting' = waiting
    BY <1>8 DEF PromptAnswered, PromptUnauthorized, bootVars
  <2>2. \A t \in Sends : t \notin {s} => pc'[t] = pc[t]
    BY <2>1 DEF Finish
  <2>3. s \notin ToSet(waiting) /\ \A c \in Children : s \notin ToSet(line[c])
    BY <2>1 DEF Lines
  <2> QED
    BY <2>1, <2>2, <2>3, LinesKept
<1>9. ASSUME \/ ListModels \/ Interrupt \/ Reset
             \/ \E c \in Children : InitializeAnswered(c)
      PROVE  Lines'
  BY <1>1, <1>9 DEF InitializeAnswered, Asks, ListModels, Interrupt, Reset, turnVars, bootVars
<1> QED
  BY <1>2, <1>3, <1>5, <1>6, <1>7, <1>8, <1>9
     DEF Next, HandshakeFails, LoadAnswered, NewAnswered
-----------------------------------------------------------------------------
(* The recovery preamble.                                                  *)

LEMMA DispatchLatched ==
  ASSUME TypeOK, Latched, NEW Q, NEW latches \in BOOLEAN,
         latches => ~ fired, Dispatch(Q, latches)
  PROVE  Latched'
<1> DEFINE go == {s \in Current(ToSet(Q)) : child # 0}
<1>1. /\ fired' = (fired \/ (latches /\ Head(Q) \in go))
      /\ \A s \in Sends : pre'[s] = (pre[s] \/ (latches /\ s = Head(Q) /\ s \in go))
  BY DEF Dispatch
<1>2. \A s \in Sends : pre'[s] => pre[s] \/ (latches /\ s = Head(Q) /\ s \in go)
  BY <1>1
<1> QED
  BY <1>1, <1>2 DEF Latched

LEMMA RecoverLatched ==
  ASSUME TypeOK, Latched, NEW Q, Recover(Q)
  PROVE  Latched'
<1> DEFINE latches == Q # <<>> /\ ~ fired /\ ~ loaded' /\ PriorWork
<1>1. latches \in BOOLEAN /\ (latches => ~ fired)
  BY EngineAssumption
<1>2. CASE Dispatch(Q, latches)
  BY <1>1, <1>2, DispatchLatched
<1>3. CASE UNCHANGED <<fired, pre>>
  BY <1>3 DEF Latched
<1> QED
  BY <1>2, <1>3 DEF Recover

\* An action recovers or dispatches, or leaves the preamble alone.
LEMMA NextLatched ==
  ASSUME TypeOK, Latched, Next
  PROVE  Latched'
<1>1. CASE UNCHANGED <<fired, pre>>
  BY <1>1 DEF Latched
<1>2. ASSUME NEW s \in Sends, Send(s)
      PROVE  Latched'
  <2>1. CASE \E latches \in BOOLEAN :
               /\ latches => ~ fired
               /\ fired' = (fired \/ latches) /\ pre' = [pre EXCEPT ![s] = latches]
    <3>1. PICK latches \in BOOLEAN :
               /\ latches => ~ fired
               /\ fired' = (fired \/ latches) /\ pre' = [pre EXCEPT ![s] = latches]
      BY <2>1
    <3>2. \A t \in Sends : pre'[t] = IF t = s THEN latches ELSE pre[t]
      BY <3>1 DEF TypeOK
    <3> QED
      BY <3>1, <3>2 DEF Latched
  <2>2. (~ fired /\ ~ loaded /\ PriorWork) \in BOOLEAN
    BY EngineAssumption
  <2> QED
    BY <1>1, <1>2, <2>1, <2>2 DEF Send, bootVars
<1>3. ASSUME NEW c \in Children, LoadAnswered(c) \/ NewAnswered(c)
      PROVE  Latched'
  BY <1>3, RecoverLatched DEF LoadAnswered, NewAnswered, Opens
<1>4. ASSUME NEW c \in Children, InitializeAnswered(c) \/ RequestFails(c) \/ ChildExit(c)
      PROVE  Latched'
  BY <1>1, <1>4 DEF InitializeAnswered, RequestFails, ChildExit, Asks, bootVars
<1>5. ASSUME MetaArrives
      PROVE  Latched'
  <2>1. (~ fired /\ PriorWork) \in BOOLEAN
    BY EngineAssumption
  <2> QED
    BY <1>5, <2>1, DispatchLatched DEF MetaArrives
<1>6. ASSUME NEW s \in Sends, PromptAnswered(s) \/ PromptUnauthorized(s)
      PROVE  Latched'
  BY <1>1, <1>6 DEF PromptAnswered, PromptUnauthorized, bootVars
<1>7. ASSUME ListModels \/ Interrupt \/ Reset
      PROVE  Latched'
  BY <1>1, <1>7 DEF ListModels, Interrupt, Reset, bootVars
<1> QED
  BY <1>2, <1>3, <1>4, <1>5, <1>6, <1>7 DEF Next, HandshakeFails

-----------------------------------------------------------------------------
(* The invariant, and what it implies.                                     *)

LEMMA InitInv == Init => IInv
<1> SUFFICES ASSUME Init PROVE IInv
  OBVIOUS
<1>0. /\ 0 \in 0..MaxChildren /\ 0 \in 0..MaxSends /\ 0 \in 0..MaxInterrupts
      /\ 0 \in 0..MaxResets /\ 0 \in Ids /\ BootSession \in Ids /\ 0 \in 0..2
  BY EngineAssumption DEF Ids, BootSession
<1>1. TypeOK
  <2>1. saved \in Ids /\ sessionId \in Ids
    BY <1>0 DEF Init
  <2>2. child \in 0..MaxChildren /\ starting \in 0..MaxChildren /\ spawned \in 0..MaxChildren
    BY <1>0 DEF Init
  <2>3. {loaded, busy, fired, tdone, overtaken} \subseteq BOOLEAN
    BY DEF Init
  <2>9. meta \in {"unasked", "fetching", "known"} /\ waiting \in Seq(Sends)
    BY DEF Init
  <2>4. /\ pending \in 0..MaxSends /\ tracked \in 0..MaxSends
        /\ generation \in 0..MaxResets /\ interrupts \in 0..MaxInterrupts
    BY <1>0 DEF Init
  <2>5. /\ proc \in [Children -> {"none", "up", "killed", "gone"}]
        /\ hs \in [Children -> {"none", "init", "load", "new", "done", "failed"}]
        /\ line \in [Children -> Seq(Sends)]
    BY DEF Init
  <2>6. asked \in [Children -> Ids] /\ opened \in [Children -> Ids]
    BY <1>0 DEF Init
  <2>7. /\ pc \in [Sends -> {"idle", "starting", "recovering", "prompted", "done"}]
        /\ pre \in [Sends -> BOOLEAN]
    BY DEF Init
  <2>8. /\ on \in [Sends -> 0..MaxChildren] /\ psess \in [Sends -> Ids]
        /\ sgen \in [Sends -> 0..MaxResets] /\ ended \in [Sends -> 0..2]
    BY <1>0 DEF Init
  <2> QED
    BY <2>1, <2>2, <2>3, <2>4, <2>5, <2>6, <2>7, <2>8, <2>9 DEF TypeOK
<1>2. OneChild
  BY DEF Init, OneChild, Sole, Children
<1>3. Lines
  BY DEF Init, Lines, ToSet
<1>4. Counts
  <2>1. Open = {}
    BY DEF Init, Open, Current, Unfinished
  <2> QED
    BY <2>1, FS_EmptySet DEF Init, Counts
<1>5. Results
  BY DEF Init, Results, OneResult, Unfinished
<1>6. Latched
  BY DEF Init, Latched
<1> QED
  BY <1>1, <1>2, <1>3, <1>4, <1>5, <1>6 DEF IInv

LEMMA NextInv == IInv /\ [Next]_vars => IInv'
<1> SUFFICES ASSUME IInv, [Next]_vars PROVE IInv'
  OBVIOUS
<1>1. CASE Next
  BY <1>1, NextTypes, NextOne, NextLines, NextCounts, NextLatched DEF IInv
<1>2. CASE UNCHANGED vars
  <2> USE <1>2 DEF IInv, vars, engineVars, countVars, bootVars, startVars, births, turnVars
  <2>1. TypeOK'
    BY DEF TypeOK
  <2>2. OneChild'
    BY DEF OneChild, Sole, Nameless
  <2>3. Lines'
    BY DEF Lines
  <2>4. Counts'
    BY DEF Counts, Open, Current, Unfinished
  <2>5. Results'
    BY DEF Results, OneResult, Unfinished
  <2>6. Latched'
    BY DEF Latched
  <2> QED
    BY <2>1, <2>2, <2>3, <2>4, <2>5, <2>6
<1> QED
  BY <1>1, <1>2

LEMMA Invariance == Spec => []IInv
<1> QED
  BY InitInv, NextInv, PTL DEF Spec

\* No turn but one has the preamble.
LEMMA LatchedOnce == TypeOK /\ Latched => PreambleOnce
<1> SUFFICES ASSUME TypeOK, Latched PROVE PreambleOnce
  OBVIOUS
<1>1. CASE \E s \in Sends : pre[s]
  <2>1. PICK s \in Sends : pre[s]
    BY <1>1
  <2>2. {t \in Sends : pre[t]} = {s}
    BY <2>1 DEF Latched
  <2> QED
    BY <2>2, FS_Singleton DEF PreambleOnce
<1>2. CASE ~\E s \in Sends : pre[s]
  <2>1. {t \in Sends : pre[t]} = {}
    BY <1>2
  <2> QED
    BY <2>1, FS_EmptySet DEF PreambleOnce
<1> QED
  BY <1>1, <1>2

\* Whatever the order of turns, answers, refusals, exits, auth errors, Stops and
\* resets: a turn of the conversation that is over has one result, and an
\* abandoned one never a second (acp/turnFinish.js:20-31); a child that nobody
\* asked to leave is the engine's current one (acpEngine.js:66-70); the preamble
\* is told at most once (agentRecovery.js:46-50); and the engine is busy only
\* while a turn of the conversation is open (acpEngine.js:40).
THEOREM OneAnswerEach ==
  Spec => [](TypeOK /\ Counts /\ OneResult /\ NoOrphan /\ PreambleOnce)
<1>1. IInv => TypeOK /\ Counts /\ OneResult /\ NoOrphan /\ PreambleOnce
  BY LatchedOnce DEF IInv, OneChild, Sole, NoOrphan, Results
<1> QED
  BY <1>1, Invariance, PTL

-----------------------------------------------------------------------------
(* Turns that come one at a time.                                          *)

LEMMA NextOneTurn ==
  ASSUME ~ Overlap, IInv, OneTurn, Next
  PROVE  OneTurn'
<1>0. Open \in SUBSET Sends
  BY DEF Open, Current
<1>1. ASSUME NEW s \in Sends, Send(s)
      PROVE  OneTurn'
  <2>1. Begins(s)
    BY <1>1, SendBegins DEF IInv
  <2>2. Open = {}
    BY <1>1 DEF Send, Open
  <2>3. \A t \in Sends : t # s => pc'[t] = pc[t] /\ sgen'[t] = sgen[t]
    BY <2>1 DEF Begins, IInv, TypeOK
  <2>4. Open' \subseteq {s}
    BY <2>1, <2>2, <2>3 DEF Begins, Open, Current, Unfinished
  <2> QED
    BY <2>1, <2>4 DEF Begins, OneTurn
<1>2. ASSUME Interrupt
      PROVE  OneTurn'
  BY <1>2 DEF Interrupt, OneTurn, Open, Current, Unfinished, turnVars, engineVars
<1>3. ASSUME Reset
      PROVE  OneTurn'
  <2>1. UNCHANGED <<pc, sgen, tracked, tdone>> /\ generation' = generation + 1
    BY <1>3 DEF Reset, turnVars
  <2>2. Open' = {}
    BY <2>1 DEF Open, Current, IInv, Results, TypeOK
  <2> QED
    BY <2>1, <2>2 DEF OneTurn, Unfinished
<1>4. ASSUME NEW S \in SUBSET Sends, EndsTurns(S), UNCHANGED <<sgen, generation, tracked>>
      PROVE  OneTurn'
  <2>1. Open' \subseteq Open
    BY <1>4 DEF EndsTurns, Open, Current, Unfinished
  <2>2. tracked \in 0..MaxSends /\ (tracked # 0 => tracked \in Sends)
    BY DEF IInv, TypeOK, Sends
  <2>3. CASE tdone
    BY <1>4, <2>1, <2>2, <2>3 DEF EndsTurns, OneTurn, Unfinished
  <2>4. CASE Current(S) # {}
    <3>1. PICK s \in Current(S) : pc'[s] = "done" /\ s \in Open
      BY <1>4, <2>4 DEF EndsTurns, Open, Current
    <3>2. s = tracked /\ tracked # 0
      BY <1>0, <3>1 DEF OneTurn, Sends
    <3> QED
      BY <1>4, <2>1, <3>1, <3>2 DEF OneTurn, Unfinished
  <2>5. CASE ~ tdone'
    BY <1>4, <2>1, <2>5 DEF OneTurn
  <2> QED
    BY <1>4, <2>3, <2>4, <2>5 DEF EndsTurns, Settle
<1> QED
  BY <1>1, <1>2, <1>3, <1>4, NextEnds DEF IInv, SomeEnd

LEMMA TurnInvariance == Spec => []TInv
<1>1. Init => TInv
  <2>1. Init => OneTurn
    BY DEF Init, OneTurn, Open, Current, Unfinished
  <2> QED
    BY <2>1, InitInv DEF TInv
<1>2. TInv /\ [Next]_vars => TInv'
  <2> SUFFICES ASSUME TInv, [Next]_vars, ~ Overlap PROVE OneTurn'
    BY NextInv DEF TInv
  <2>1. CASE Next
    BY <2>1, NextOneTurn DEF TInv
  <2>2. CASE UNCHANGED vars
    BY <2>2 DEF vars, countVars, turnVars, engineVars, TInv, OneTurn, Open, Current, Unfinished
  <2> QED
    BY <2>1, <2>2
<1> QED
  BY <1>1, <1>2, PTL DEF Spec

\* When no turn is sent before the one of this conversation is over, the slot says
\* done only when its own turn is, whatever is stopped, reset or dropped meanwhile
\* (agentTurnTrack.js:12-17).
THEOREM DoneIsDone == Spec => []DoneMeansDone
<1>1. TInv => DoneMeansDone
  BY DEF TInv, OneTurn, DoneMeansDone
<1> QED
  BY <1>1, TurnInvariance, PTL

-----------------------------------------------------------------------------
(* Sessions, while no child is spawned in the middle of a start or a turn. *)

\* A step that begins no start and prompts no turn, and keeps the current child,
\* with its session, or drops it.
Eases ==
  /\ \A c \in Children : c \in Handshaking' => c \in Handshaking
  /\ \A c \in Children : hs[c] = "done" => hs'[c] = "done"
  /\ opened' = opened
  /\ \/ child' = 0
     \/ /\ child' = child /\ sessionId' = sessionId /\ generation' = generation
        /\ child \in Handshaking => child \in Handshaking'
  /\ \A s \in Sends : pc'[s] = pc[s] \/ pc'[s] = "done"
  /\ UNCHANGED <<on, psess, sgen>>

LEMMA EasedSession == TypeOK /\ InSession /\ Eases => InSession'
<1> SUFFICES ASSUME TypeOK, InSession, Eases PROVE InSession'
  OBVIOUS
<1>1. Handshaking' \subseteq Handshaking
  BY DEF Eases, Handshaking
<1>2. child' = 0 \/ InFlight' \subseteq InFlight
  BY DEF Eases, InFlight, Current
<1>3. child' = 0 \/ (child' = child /\ sessionId' = sessionId)
  BY DEF Eases
<1>4. \A s \in Sends : pc'[s] = "prompted" => pc[s] = "prompted" /\ on'[s] = on[s] /\ psess'[s] = psess[s]
  BY DEF Eases
<1>5. \A c, d \in Handshaking' : c = d
  BY <1>1 DEF InSession
<1>6. \A c \in Handshaking' : child' \in {0, c}
  BY <1>1, <1>3 DEF InSession
<1>7. child' # 0 => IF child' \in Handshaking' THEN sessionId' = 0 /\ InFlight' = {}
                    ELSE hs'[child'] = "done" /\ sessionId' = opened'[child']
  <2> SUFFICES ASSUME child' # 0
               PROVE IF child' \in Handshaking' THEN sessionId' = 0 /\ InFlight' = {}
                     ELSE hs'[child'] = "done" /\ sessionId' = opened'[child']
    OBVIOUS
  <2>1. child \in Children /\ child' = child /\ child # 0
    BY <1>3 DEF TypeOK, Children
  <2>2. child \in Handshaking' <=> child \in Handshaking
    BY <1>1, <2>1 DEF Eases
  <2> QED
    BY <1>2, <1>3, <2>1, <2>2 DEF InSession, Eases
<1>8. \A s \in InFlight' : pc'[s] = "prompted" => child' \in {0, on'[s]}
  BY <1>2, <1>3, <1>4 DEF InSession, InFlight, Current
<1>9. \A s \in Sends : pc'[s] = "prompted" =>
        on'[s] # 0 /\ hs'[on'[s]] = "done" /\ psess'[s] = opened'[on'[s]]
  <2> SUFFICES ASSUME NEW s \in Sends, pc'[s] = "prompted"
               PROVE  on'[s] # 0 /\ hs'[on'[s]] = "done" /\ psess'[s] = opened'[on'[s]]
    OBVIOUS
  <2>1. on[s] # 0 /\ hs[on[s]] = "done" /\ psess[s] = opened[on[s]]
    BY <1>4 DEF InSession
  <2>2. on[s] \in Children
    BY <2>1 DEF TypeOK, Children
  <2> QED
    BY <1>4, <2>1, <2>2 DEF Eases
<1> QED
  BY <1>5, <1>6, <1>7, <1>8, <1>9 DEF InSession


\* The turns of G are prompted in the current child's session, if there is one.
Prompts(G) ==
  /\ G # {} => child # 0
  /\ \A s \in Sends :
       /\ pc'[s] = "prompted" => pc[s] = "prompted" \/ s \in G
       /\ on'[s] = IF s \in G THEN child ELSE on[s]
       /\ psess'[s] = IF s \in G THEN sessionId' ELSE psess[s]
  /\ \A s \in InFlight' : pc'[s] = "prompted" => s \in InFlight \/ s \in G
  /\ UNCHANGED <<child, generation>>

LEMMA DispatchPrompts ==
  ASSUME TypeOK, NEW Q \in Seq(Sends), NEW latches, Dispatch(Q, latches),
         UNCHANGED <<child, generation, sgen>>
  PROVE  Prompts({s \in Current(ToSet(Q)) : child # 0})
<1> DEFINE go == {s \in Current(ToSet(Q)) : child # 0}
<1>1. /\ pc' = [s \in Sends |-> IF s \in go THEN "prompted"
                                ELSE IF s \in ToSet(Q) THEN "done" ELSE pc[s]]
      /\ on' = [s \in Sends |-> IF s \in go THEN child ELSE on[s]]
      /\ psess' = [s \in Sends |-> IF s \in go THEN sessionId' ELSE psess[s]]
  BY DEF Dispatch
<1>2. go # {} => child # 0
  OBVIOUS
<1> HIDE DEF go
<1>3. \A s \in InFlight' : pc'[s] = "prompted" => s \in InFlight \/ s \in go
  BY <1>1 DEF InFlight, Current
<1>4. Prompts(go)
  BY <1>1, <1>2, <1>3 DEF Prompts
<1> QED
  BY <1>4 DEF go

\* A step that moves turns past their start, where the current child has opened
\* its session.
LEMMA PromptedSession ==
  ASSUME TypeOK, InSession, NEW G, Prompts(G),
         \A c \in Children : c \in Handshaking' => c \in Handshaking,
         \A c \in Children : hs[c] = "done" => hs'[c] = "done" /\ opened'[c] = opened[c],
         child # 0 =>
           IF child \in Handshaking' THEN sessionId' = 0 /\ InFlight' = {} /\ G = {}
           ELSE hs'[child] = "done" /\ sessionId' = opened'[child]
  PROVE  InSession'
<1>1. Handshaking' \subseteq Handshaking /\ child' = child /\ generation' = generation
  BY DEF Handshaking, Prompts
<1>2. \A c, d \in Handshaking' : c = d
  BY <1>1 DEF InSession
<1>3. \A c \in Handshaking' : child' \in {0, c}
  BY <1>1 DEF InSession
<1>4. child' # 0 => IF child' \in Handshaking' THEN sessionId' = 0 /\ InFlight' = {}
                    ELSE hs'[child'] = "done" /\ sessionId' = opened'[child']
  BY <1>1
<1>5. \A s \in Sends : pc'[s] = "prompted" =>
        on'[s] # 0 /\ hs'[on'[s]] = "done" /\ psess'[s] = opened'[on'[s]]
  <2> SUFFICES ASSUME NEW s \in Sends, pc'[s] = "prompted"
               PROVE  on'[s] # 0 /\ hs'[on'[s]] = "done" /\ psess'[s] = opened'[on'[s]]
    OBVIOUS
  <2>1. CASE s \in G
    <3>1. child # 0 /\ on'[s] = child /\ psess'[s] = sessionId'
      BY <2>1 DEF Prompts
    <3> QED
      BY <1>4, <1>1, <2>1, <3>1
  <2>2. CASE s \notin G
    <3>1. pc[s] = "prompted" /\ on'[s] = on[s] /\ psess'[s] = psess[s]
      BY <2>2 DEF Prompts
    <3>2. on[s] # 0 /\ hs[on[s]] = "done" /\ psess[s] = opened[on[s]]
      BY <3>1 DEF InSession
    <3>3. on[s] \in Children
      BY <3>2 DEF TypeOK, Children
    <3> QED
      BY <3>1, <3>2, <3>3
  <2> QED
    BY <2>1, <2>2
<1>6. \A s \in InFlight' : pc'[s] = "prompted" => child' \in {0, on'[s]}
  <2> SUFFICES ASSUME NEW s \in Sends, s \in InFlight', pc'[s] = "prompted"
               PROVE  child' \in {0, on'[s]}
    BY DEF InFlight, Current
  <2>1. CASE s \in G
    BY <1>1, <2>1 DEF Prompts
  <2>2. CASE s \notin G
    <3>1. pc[s] = "prompted" /\ on'[s] = on[s]
      BY <2>2 DEF Prompts
    <3>2. s \in InFlight
      BY <2>2 DEF Prompts, InFlight, Current
    <3> QED
      BY <1>1, <3>1, <3>2 DEF InSession
  <2> QED
    BY <2>1, <2>2
<1> QED
  BY <1>2, <1>3, <1>4, <1>5, <1>6 DEF InSession

LEMMA StartSessionIn ==
  ASSUME IInv, ~ Overtakes, InSession, StartSession,
         \A s \in Sends : pc'[s] = pc[s] \/ pc'[s] = "starting",
         UNCHANGED <<on, psess>>,
         \A s \in Sends : pc'[s] = pc[s] => sgen'[s] = sgen[s]
  PROVE  InSession'
<1> DEFINE n == spawned + 1
<1>1. n \in Children /\ n # 0 /\ spawned \in Nat
  BY StartSessionTypes, EngineAssumption DEF IInv, TypeOK, Children
<1>2. /\ child' = n /\ sessionId' = 0 /\ UNCHANGED <<generation, opened>>
      /\ \A c \in Children : hs'[c] = IF c = n THEN "init" ELSE hs[c]
  BY <1>1 DEF StartSession, IInv, TypeOK, Overtakes
<1>3. hs[n] = "none"
  BY <1>1 DEF IInv, OneChild, Children
<1> HIDE DEF n
<1>4. \A c \in Handshaking' : c = n
  BY <1>2 DEF Overtakes, Handshaking
<1>5. InFlight' = {}
  BY <1>2 DEF Overtakes, InFlight, Current
<1>6. n \in Handshaking'
  BY <1>1, <1>2 DEF Handshaking
<1>7. \A s \in Sends : pc'[s] = "prompted" =>
        on'[s] # 0 /\ hs'[on'[s]] = "done" /\ psess'[s] = opened'[on'[s]]
  <2> SUFFICES ASSUME NEW s \in Sends, pc'[s] = "prompted"
               PROVE  on[s] # 0 /\ hs'[on[s]] = "done" /\ psess[s] = opened'[on[s]]
    OBVIOUS
  <2>1. on[s] # 0 /\ hs[on[s]] = "done" /\ psess[s] = opened[on[s]]
    BY DEF InSession
  <2>2. on[s] \in Children
    BY <2>1 DEF IInv, TypeOK, Children
  <2> QED
    BY <1>2, <1>3, <2>1, <2>2
<1> QED
  BY <1>2, <1>4, <1>5, <1>6, <1>7 DEF InSession

LEMMA OpensSession ==
  ASSUME IInv, InSession, NEW c \in Children, NEW id, NEW resumed,
         hs[c] \in {"load", "new"}, Opens(c, id, resumed)
  PROVE  InSession'
<1>1. /\ child' = child /\ generation' = generation /\ sgen' = sgen /\ sessionId' = id
      /\ \A d \in Children : hs'[d] = IF d = c THEN "done" ELSE hs[d]
      /\ \A d \in Children : opened'[d] = IF d = c THEN id ELSE opened[d]
  BY DEF Opens, IInv, TypeOK
<1>2. c \in Handshaking /\ child \in {0, c} /\ \A d \in Handshaking : d = c
  BY DEF Handshaking, InSession
<1>3. \A d \in Children : d \notin Handshaking'
  BY <1>1, <1>2 DEF Handshaking
<1>4. \A d \in Children : hs[d] = "done" => hs'[d] = "done" /\ opened'[d] = opened[d]
  BY <1>1
<1>5. child # 0 => /\ child \notin Handshaking'
                   /\ hs'[child] = "done" /\ sessionId' = opened'[child]
  BY <1>1, <1>2, <1>3
<1>6. line[c] \in Seq(Sends)
  BY DEF IInv, TypeOK
<1>7. PICK G : Prompts(G)
  <2>1. CASE fired \/ loaded' \/ meta = "known"
    <3>1. PICK latches : Dispatch(line[c], latches)
      BY <2>1 DEF Opens, Recover
    <3> QED
      BY <1>1, <1>6, <3>1, DispatchPrompts DEF IInv
  <2>2. CASE ~(fired \/ loaded' \/ meta = "known")
    <3>1. /\ \A s \in Sends : pc'[s] = IF s \in ToSet(line[c]) THEN "recovering" ELSE pc[s]
          /\ UNCHANGED <<on, psess>>
      BY <2>2 DEF Opens, Recover
    <3>2. Prompts({})
      BY <1>1, <3>1 DEF Prompts, InFlight, Current
    <3> QED
      BY <3>2
  <2> QED
    BY <2>1, <2>2
<1>8. \A d \in Children : d \in Handshaking' => d \in Handshaking
  BY <1>3
<1> QED
  BY <1>4, <1>5, <1>7, <1>8, PromptedSession DEF IInv

LEMMA SendSession ==
  ASSUME IInv, InSession, NEW s \in Sends, Send(s), ~ overtaken'
  PROVE  InSession'
<1>0. pc[s] = "idle" /\ sgen' = [sgen EXCEPT ![s] = generation] /\ generation' = generation
  BY DEF Send, StartSession, engineVars
<1>1. CASE ~ Started
  <2>1. pc' = [pc EXCEPT ![s] = "starting"] /\ UNCHANGED <<on, psess>>
    BY <1>1 DEF Send
  <2>2. \A t \in Sends : IF t = s THEN pc'[t] = "starting"
                         ELSE pc'[t] = pc[t] /\ sgen'[t] = sgen[t]
    BY <1>0, <2>1 DEF IInv, TypeOK
  <2>3. CASE StartSession
    <3>1. ~ Overtakes
      BY <2>3 DEF StartSession
    <3>2. \A t \in Sends : /\ pc'[t] = pc[t] \/ pc'[t] = "starting"
                           /\ pc'[t] = pc[t] => sgen'[t] = sgen[t]
      BY <1>0, <2>2
    <3> QED
      BY <2>1, <2>3, <3>1, <3>2, StartSessionIn
  <2>4. CASE UNCHANGED <<engineVars, startVars>>
    <3>1. InFlight' = InFlight /\ Handshaking' = Handshaking
      BY <1>0, <2>2, <2>4 DEF InFlight, Current, Handshaking, startVars, engineVars
    <3> QED
      BY <1>0, <2>1, <2>2, <2>4, <3>1 DEF InSession, startVars, engineVars, InFlight, Current
  <2> QED
    BY <1>1, <2>3, <2>4 DEF Send
<1>2. CASE Started
  <2>1. UNCHANGED <<engineVars, startVars>>
    BY <1>2 DEF Send
  <2>2. child # 0 /\ sessionId # 0
    BY <1>2 DEF Started
  <2>3. child \notin Handshaking /\ hs[child] = "done" /\ sessionId = opened[child]
    BY <2>2 DEF InSession
  <2>4. Handshaking' = Handshaking
    BY <2>1 DEF Handshaking, startVars
  <2>5. PICK G \in SUBSET {s} :
          /\ \A t \in Sends : on'[t] = IF t \in G THEN child ELSE on[t]
          /\ \A t \in Sends : psess'[t] = IF t \in G THEN sessionId ELSE psess[t]
          /\ \A t \in Sends : pc'[t] = IF t \in G THEN "prompted"
                                       ELSE IF t = s THEN "recovering" ELSE pc[t]
    <3>1. CASE /\ pc' = [pc EXCEPT ![s] = "prompted"] /\ on' = [on EXCEPT ![s] = child]
               /\ psess' = [psess EXCEPT ![s] = sessionId]
      <4>1. \A t \in Sends : /\ on'[t] = IF t \in {s} THEN child ELSE on[t]
                             /\ psess'[t] = IF t \in {s} THEN sessionId ELSE psess[t]
                             /\ pc'[t] = IF t \in {s} THEN "prompted"
                                         ELSE IF t = s THEN "recovering" ELSE pc[t]
        BY <3>1 DEF IInv, TypeOK
      <4> QED
        BY <4>1
    <3>2. CASE pc' = [pc EXCEPT ![s] = "recovering"] /\ UNCHANGED <<on, psess>>
      <4>1. \A t \in Sends : /\ on'[t] = IF t \in {} THEN child ELSE on[t]
                             /\ psess'[t] = IF t \in {} THEN sessionId ELSE psess[t]
                             /\ pc'[t] = IF t \in {} THEN "prompted"
                                         ELSE IF t = s THEN "recovering" ELSE pc[t]
        BY <3>2 DEF IInv, TypeOK
      <4> QED
        BY <4>1, {} \in SUBSET {s}, Zenon
    <3> QED
      BY <1>2, <3>1, <3>2 DEF Send
  <2>6. \A t \in Sends : t # s => sgen'[t] = sgen[t]
    BY <1>0 DEF IInv, TypeOK
  <2>7. Prompts(G)
    BY <1>0, <2>1, <2>2, <2>5, <2>6 DEF Prompts, InFlight, Current, engineVars
  <2> QED
    BY <2>1, <2>3, <2>4, <2>7, PromptedSession DEF IInv, startVars, engineVars
<1> QED
  BY <1>1, <1>2

LEMMA MetaSession ==
  ASSUME IInv, InSession, MetaArrives
  PROVE  InSession'
<1> DEFINE go == {s \in Current(ToSet(waiting)) : child # 0}
<1>1. UNCHANGED <<engineVars, startVars, sgen>> /\ waiting \in Seq(Sends)
  BY DEF MetaArrives, IInv, TypeOK
<1>2. Dispatch(waiting, ~ fired /\ PriorWork)
  BY DEF MetaArrives
<1>3. Prompts(go)
  BY <1>1, <1>2, DispatchPrompts DEF IInv, engineVars
<1>4. go \subseteq InFlight
  BY <1>1, QueueSets DEF IInv, Lines, InFlight, Current
<1>5. \A s \in Sends : pc'[s] = IF s \in go THEN "prompted"
                                ELSE IF s \in ToSet(waiting) THEN "done" ELSE pc[s]
  BY <1>2 DEF Dispatch
<1> HIDE DEF go
<1>6. InFlight' \subseteq InFlight /\ Handshaking' = Handshaking
  BY <1>1, <1>4, <1>5 DEF InFlight, Current, Handshaking, engineVars, startVars
<1>7. child # 0 => IF child \in Handshaking' THEN sessionId' = 0 /\ InFlight' = {} /\ go = {}
                   ELSE hs'[child] = "done" /\ sessionId' = opened'[child]
  BY <1>1, <1>4, <1>6 DEF InSession, engineVars, startVars
<1>8. \A c \in Children : hs[c] = "done" => hs'[c] = "done" /\ opened'[c] = opened[c]
  BY <1>1 DEF startVars
<1> QED
  BY <1>3, <1>6, <1>7, <1>8, PromptedSession DEF IInv

\* Every other action eases what the invariant asks, or is one of these.
LEMMA NextSession ==
  ASSUME IInv, InSession, Next, ~ overtaken'
  PROVE  InSession'
<1>1. CASE Eases
  BY <1>1, EasedSession DEF IInv
<1>2. ASSUME NEW s \in Sends, Send(s)
      PROVE  InSession'
  BY <1>2, SendSession
<1>3. ASSUME NEW c \in Children, InitializeAnswered(c)
      PROVE  InSession'
  <2>1. /\ UNCHANGED <<engineVars, turnVars, opened>> /\ hs[c] = "init"
        /\ hs' = [hs EXCEPT ![c] = IF asked'[c] # 0 THEN "load" ELSE "new"]
    BY <1>3 DEF InitializeAnswered, Asks
  <2>2. \A d \in Children : hs'[d] = IF d = c THEN IF asked'[c] # 0 THEN "load" ELSE "new"
                                     ELSE hs[d]
    BY <2>1 DEF IInv, TypeOK
  <2> QED
    BY <1>1, <2>1, <2>2 DEF Eases, Handshaking, engineVars, turnVars
<1>4. ASSUME NEW c \in Children, LoadAnswered(c) \/ NewAnswered(c)
      PROVE  InSession'
  <2>1. /\ hs[c] \in {"load", "new"}
        /\ Opens(c, asked[c], TRUE) \/ Opens(c, c, FALSE) \/ Opens(c, 0, FALSE)
    BY <1>4 DEF LoadAnswered, NewAnswered
  <2>2. ASSUME NEW id, NEW resumed, Opens(c, id, resumed)
        PROVE  InSession'
    BY <2>1, <2>2, OpensSession
  <2> QED
    BY <2>1, <2>2
<1>5. ASSUME NEW c \in Children, RequestFails(c)
      PROVE  InSession'
  <2>1. CASE hs[c] = "load" /\ Asks(c, "new")
    <3>1. UNCHANGED <<engineVars, turnVars, opened>>
      BY <2>1 DEF Asks
    <3>2. \A d \in Children : hs'[d] = IF d = c THEN "new" ELSE hs[d]
      BY <2>1 DEF Asks, IInv, TypeOK
    <3> QED
      BY <1>1, <2>1, <3>1, <3>2 DEF Eases, Handshaking, engineVars, turnVars
  <2>2. CASE /\ hs[c] \in {"init", "new"} /\ hs' = [hs EXCEPT ![c] = "failed"]
             /\ KillChild /\ Finish(Starters(c)) /\ UNCHANGED <<opened, on, sgen, psess>>
    <3>1. \A d \in Children : hs'[d] = IF d = c THEN "failed" ELSE hs[d]
      BY <2>2 DEF IInv, TypeOK
    <3>2. \A s \in Sends : pc'[s] = pc[s] \/ pc'[s] = "done"
      BY <2>2 DEF Finish
    <3> QED
      BY <1>1, <2>2, <3>1, <3>2 DEF Eases, Handshaking, KillChild
  <2> QED
    BY <1>5, <2>1, <2>2 DEF RequestFails
<1>6. ASSUME NEW c \in Children, ChildExit(c)
      PROVE  InSession'
  <2>1. UNCHANGED <<opened, on, sgen, psess, generation>>
    BY <1>6 DEF ChildExit
  <2>2. \A s \in Sends : pc'[s] = pc[s] \/ pc'[s] = "done"
    BY <1>6 DEF ChildExit, Finish
  <2>3. \A d \in Children : hs'[d] = IF d # c THEN hs[d]
                                     ELSE IF hs[c] \in {"init", "new"} THEN "failed"
                                     ELSE IF hs[c] = "load" THEN "new" ELSE hs[c]
    BY <1>6 DEF ChildExit, IInv, TypeOK
  <2>4. child' = 0 \/ (child' = child /\ child # c /\ sessionId' = sessionId)
    BY <1>6 DEF ChildExit
  <2>5. /\ \A d \in Children : d \in Handshaking' => d \in Handshaking
        /\ child # c => (child \in Handshaking => child \in Handshaking')
        /\ \A d \in Children : hs[d] = "done" => hs'[d] = "done"
    BY <2>3 DEF Handshaking
  <2> QED
    BY <1>1, <2>1, <2>2, <2>4, <2>5 DEF Eases
<1>7. ASSUME NEW s \in Sends, PromptAnswered(s) \/ PromptUnauthorized(s)
      PROVE  InSession'
  <2>1. \A t \in Sends : pc'[t] = pc[t] \/ pc'[t] = "done"
    BY <1>7 DEF PromptAnswered, PromptUnauthorized, Finish
  <2>2. UNCHANGED <<hs, opened, on, sgen, psess, generation>>
    BY <1>7 DEF PromptAnswered, PromptUnauthorized, engineVars, startVars
  <2>3. child' = 0 \/ (child' = child /\ sessionId' = sessionId)
    BY <1>7 DEF PromptAnswered, PromptUnauthorized, engineVars, KillChild
  <2> QED
    BY <1>1, <2>1, <2>2, <2>3 DEF Eases, Handshaking
<1>8. ASSUME ListModels
      PROVE  InSession'
  <2>1. StartSession /\ UNCHANGED turnVars /\ ~ Overtakes
    BY <1>8 DEF ListModels, StartSession
  <2> QED
    BY <2>1, StartSessionIn DEF turnVars
<1>9. ASSUME Interrupt
      PROVE  InSession'
  BY <1>1, <1>9 DEF Interrupt, Eases, Handshaking, engineVars, startVars, turnVars
<1>10. ASSUME Reset
       PROVE  InSession'
  BY <1>1, <1>10 DEF Reset, KillChild, Eases, Handshaking, turnVars
<1> QED
  BY <1>2, <1>3, <1>4, <1>5, <1>6, <1>7, <1>8, <1>9, <1>10, MetaSession
     DEF Next, HandshakeFails

\* That a child was spawned in the middle of a start or a turn stays so.
LEMMA OvertakenStays == TypeOK /\ Next /\ overtaken => overtaken'
<1> SUFFICES ASSUME TypeOK, Next, overtaken PROVE overtaken'
  OBVIOUS
<1>1. CASE overtaken' = overtaken
  BY <1>1
<1>2. CASE StartSession
  BY <1>2 DEF StartSession
<1>3. ASSUME NEW s \in Sends, Send(s) \/ PromptAnswered(s) \/ PromptUnauthorized(s)
      PROVE  overtaken'
  BY <1>1, <1>2, <1>3 DEF Send, PromptAnswered, PromptUnauthorized, startVars, births
<1>4. ASSUME NEW c \in Children,
             \/ InitializeAnswered(c) \/ LoadAnswered(c) \/ NewAnswered(c)
             \/ RequestFails(c) \/ ChildExit(c)
      PROVE  overtaken'
  BY <1>1, <1>4 DEF InitializeAnswered, LoadAnswered, NewAnswered, RequestFails,
                    ChildExit, Asks, Opens, births
<1> QED
  BY <1>1, <1>2, <1>3, <1>4
     DEF Next, HandshakeFails, MetaArrives, ListModels, Interrupt, Reset, startVars, births

LEMMA SessionInvariance == Spec => []SInv
<1>1. Init => SInv
  <2>1. Init => InSession
    BY DEF Init, InSession, Handshaking, InFlight, Current
  <2> QED
    BY <2>1, InitInv DEF SInv
<1>2. SInv /\ [Next]_vars => SInv'
  <2> SUFFICES ASSUME SInv, [Next]_vars, ~ overtaken' PROVE InSession'
    BY NextInv DEF SInv
  <2>1. CASE Next
    BY <2>1, NextSession, OvertakenStays DEF SInv, IInv
  <2>2. CASE UNCHANGED vars
    BY <2>2 DEF vars, engineVars, startVars, births, turnVars, SInv, InSession, Handshaking,
                InFlight, Current
  <2> QED
    BY <2>1, <2>2
<1> QED
  BY <1>1, <1>2, PTL DEF Spec

LEMMA SessionPrompts == SInv => PromptInSession
BY DEF SInv, InSession, PromptInSession

\* Without a Stop, which zeroes the counter while turns are still open, it is the
\* number of the open turns: the engine is busy exactly while a turn of the
\* conversation is not finished (acpEngine.js:40).
THEOREM EachIsAnswered ==
  ASSUME MaxInterrupts = 0 PROVE Spec => []EachAnswered
<1>1. SInv => EachAnswered
  BY LatchedOnce, SessionPrompts
     DEF SInv, IInv, OneChild, Sole, NoOrphan, Results, Counts, EachAnswered, PendingExact, Open
<1> QED
  BY <1>1, SessionInvariance, PTL

\* As long as no child is spawned in the middle of a start or of a turn, a prompt is
\* in the session that its child has opened, whatever is sent, fetched, reset or
\* stopped while the turn waits (acpEngine.js:82-89); and with turns that come one at
\* a time the slot's done is its own turn's.
THEOREM TurnsAreInSession == Spec => []TurnsInSession
<1>1. SInv /\ TInv => TurnsInSession
  BY SessionPrompts DEF SInv, TInv, IInv, OneTurn, DoneMeansDone, TurnsInSession
<1> QED
  BY <1>1, SessionInvariance, TurnInvariance, PTL

\* As long as no child is spawned in the middle of a start or of a turn, a child that
\* works is asked to leave only by a reset, by the failure of its own start or by its
\* own turn's auth error (acpEngine.js:35-36,55,68): what fails late, of a child that
\* was reset or has left, spares the one that came after.
THEOREM SuccessorIsSpared == Spec => SuccessorSpared
<1> DEFINE Asked(c) == \/ generation' # generation
                       \/ hs'[c] = "failed"
                       \/ \E s \in Prompted(c) : pc'[s] = "done"
<1>1. ASSUME SInv, Next, ~ overtaken, NEW c \in Children, proc[c] = "up", proc'[c] = "killed"
      PROVE  Asked(c)
  <2>0. InSession /\ TypeOK
    BY <1>1 DEF SInv, IInv
  <2>1. CASE proc' = proc
    BY <1>1, <2>1
  <2>2. ASSUME KillChild
        PROVE  c = child /\ child # 0
    BY <1>1, <2>0, <2>2 DEF KillChild, TypeOK, Children
  <2>3. ASSUME StartSession
        PROVE  FALSE
    <3>1. \A d \in Children : proc'[d] \in {"up", proc[d]}
      BY <2>0, <2>3 DEF StartSession, TypeOK
    <3> QED
      BY <1>1, <3>1
  <2>4. ASSUME NEW s \in Sends, Send(s)
        PROVE  Asked(c)
    BY <2>1, <2>3, <2>4 DEF Send, startVars
  <2>5. ASSUME NEW d \in Children, InitializeAnswered(d) \/ LoadAnswered(d) \/ NewAnswered(d)
        PROVE  Asked(c)
    BY <2>1, <2>5 DEF InitializeAnswered, LoadAnswered, NewAnswered, Asks, Opens
  <2>6. ASSUME NEW d \in Children, RequestFails(d)
        PROVE  Asked(c)
    <3>1. CASE Asks(d, "new")
      BY <2>1, <3>1 DEF Asks
    <3>2. CASE hs[d] \in {"init", "new"} /\ hs' = [hs EXCEPT ![d] = "failed"] /\ KillChild
      <4>1. d \in Handshaking
        BY <3>2 DEF Handshaking
      <4>2. c = d
        BY <2>0, <2>2, <3>2, <4>1 DEF InSession
      <4> QED
        BY <2>0, <3>2, <4>2 DEF TypeOK
    <3> QED
      BY <2>6, <3>1, <3>2 DEF RequestFails
  <2>7. ASSUME NEW d \in Children, ChildExit(d)
        PROVE  Asked(c)
    <3>1. hs[d] \in {"init", "new"} /\ c # d /\ c = child /\ child # 0
      BY <1>1, <2>7 DEF ChildExit, Children
    <3>2. d \in Handshaking
      BY <3>1 DEF Handshaking
    <3> QED
      BY <2>0, <3>1, <3>2 DEF InSession
  <2>8. ASSUME NEW s \in Sends, PromptAnswered(s)
        PROVE  Asked(c)
    BY <2>1, <2>8 DEF PromptAnswered, startVars
  <2>9. ASSUME NEW s \in Sends, PromptUnauthorized(s)
        PROVE  Asked(c)
    <3>1. pc[s] = "prompted" /\ sgen[s] = generation /\ KillChild /\ Finish({s})
      BY <2>9 DEF PromptUnauthorized
    <3>2. s \in InFlight
      BY <3>1 DEF InFlight, Current
    <3>3. c = on[s]
      BY <2>0, <2>2, <3>1, <3>2 DEF InSession
    <3>4. s \in Prompted(c) /\ pc'[s] = "done"
      BY <3>1, <3>3 DEF Prompted, Finish
    <3> QED
      BY <3>4
  <2>10. ASSUME MetaArrives \/ Interrupt
         PROVE  Asked(c)
    BY <2>1, <2>10 DEF MetaArrives, Interrupt, startVars
  <2>11. ASSUME ListModels
         PROVE  Asked(c)
    BY <2>3, <2>11 DEF ListModels
  <2>12. ASSUME Reset
         PROVE  Asked(c)
    BY <2>0, <2>12 DEF Reset, TypeOK
  <2> HIDE DEF Asked
  <2> QED
    BY <1>1, <2>4, <2>5, <2>6, <2>7, <2>8, <2>9, <2>10, <2>11, <2>12 DEF Next, HandshakeFails
<1>2. SInv /\ [Next]_vars =>
        [~ overtaken => \A c \in Children : proc[c] = "up" /\ proc'[c] = "killed" => Asked(c)]_vars
  BY <1>1
<1> QED
  BY <1>2, SessionInvariance, PTL DEF Spec, SuccessorSpared
=============================================================================
