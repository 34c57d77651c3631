--------------------------- MODULE SdkEngineProofs ---------------------------
(***************************************************************************)
(* Proofs about the Claude engine of SdkEngine, for any number of turns,   *)
(* queries, interrupts and resets.                                         *)
(***************************************************************************)
EXTENDS SdkEngine, FiniteSetTheorems, TLAPS

-----------------------------------------------------------------------------
(* The inductive invariant.                                                *)

\* Queries are started in the order of their numbers, and the engine's is up.
Numbered ==
  /\ \A q \in Queries : qs[q] = "none" <=> q > started
  /\ queryObj # 0 => qs[queryObj] = "up"

\* An epoch begins when a reset is over.
Counted == epoch = Cardinality({r \in Resets : rsts[r] = "over"})

\* The preamble of one turn at most has been latched.
Latched ==
  /\ \A s \in Sends : pre[s] => fired
  /\ \A s, t \in Sends : pre[s] /\ pre[t] => s = t

\* A session's id is the number of a query that has run, or the boot's.
Known(id) ==
  id # 0 => id = BootSession \/ (id \in Queries /\ qs[id] \in {"up", "over"})

\* What is saved, and what the engine's query will save, is of this
\* conversation.
Remembered ==
  /\ Known(saved) /\ NoResurrection
  /\ \A q \in Queries : qs[q] = "up" => sid[q] # 0 /\ Known(sid[q])
  /\ queryObj # 0 => Conversation(sid[queryObj]) = epoch

\* Once the module is loaded a start is over in the step that begins it: one
\* query at most is open, and the engine's reads from the engine's input.
OneOpen ==
  /\ loaded /\ NoOrphan
  /\ \A q \in Queries : qs[q] # "importing"
  /\ queryObj # 0 => input = queryObj

\* If moreover no start fails, there is no input without a query.
FedToQuery == input = queryObj /\ BusyMeansOwed

IInv ==
  /\ TypeOK /\ Numbered /\ Counted /\ Latched /\ Remembered
  /\ Imported => OneOpen
  /\ Imported /\ ~StartMayFail => FedToQuery

(* And the one for turns that come one at a time.                          *)

\* One turn at most is on its way to the engine, and none while it is busy.
Pending(s) == pc[s] \in {"starting", "recovering"}

OneTurn ==
  /\ \A s, t \in Sends : Pending(s) /\ Pending(t) => s = t
  /\ busy => \A s \in Sends : ~Pending(s)

\* A queue holds one turn at most, at the stage the queue is for.
Queues ==
  /\ waiting # <<>> => \E s \in Sends : waiting = <<s>> /\ pc[s] = "recovering"
  /\ \A q \in Queries : line[q] # <<>> =>
       qs[q] = "importing" /\ \E s \in Sends : line[q] = <<s>> /\ pc[s] = "starting"
  /\ \A q \in Queries : owed[q] # <<>> =>
       qs[q] \notin {"none", "importing"} /\ \E s \in Sends : owed[q] = <<s>>

\* The input is the query's or that of a start that failed, an import is the
\* first and the only one, and no reset is awaiting before it is over.
OneInput ==
  /\ input # 0 => \/ queryObj = input
                  \/ queryObj = 0 /\ starting = input /\ qs[input] = "failed"
  /\ \A q \in Queries : qs[q] = "importing" =>
       ~loaded /\ starting = q /\ queryObj = 0 /\ input = 0
  /\ ~loaded => queryObj = 0 /\ \A r \in Resets : rsts[r] # "awaiting"

\* The slot's turn was sent.  In the first conversation the only query that
\* runs is the engine's, and it owes nothing once the slot is done.
Slot ==
  /\ tdone => tracked # 0
  /\ tracked # 0 => pc[tracked] = "sent"
  /\ epoch = 0 => \A q \in Queries : qs[q] = "up" =>
       q = queryObj /\ (tdone => owed[q] = <<>>)

Serial == OneTurn /\ Queues /\ OneInput /\ Slot /\ BusyExact

SInv == TypeOK /\ Numbered /\ Counted /\ Serial

-----------------------------------------------------------------------------
(* Types.                                                                  *)

\* The types of what the pieces of a step change.
TurnTypes ==
  /\ {busy, fired, tdone} \subseteq BOOLEAN /\ tracked \in 0..MaxSends
  /\ meta \in {"unasked", "fetching", "known"} /\ waiting \in Seq(Sends)
  /\ owed \in [Queries -> Seq(Sends)] /\ pre \in [Sends -> BOOLEAN]
  /\ pc \in [Sends -> {"idle", "starting", "recovering", "sent", "refused"}]

QueryTypes ==
  /\ {queryObj, input, starting} \subseteq 0..MaxQueries /\ loaded \in BOOLEAN
  /\ qs \in [Queries -> {"none", "importing", "up", "over", "failed"}]
  /\ sid \in [Queries -> Ids] /\ born \in [Queries -> 0..MaxResets]

LEMMA DispatchTypes ==
  ASSUME TypeOK, input' \in 0..MaxQueries, NEW Q \in Seq(Sends),
         NEW latches \in BOOLEAN, Dispatch(Q, latches),
         meta' \in {"unasked", "fetching", "known"}, waiting' \in Seq(Sends)
  PROVE  TurnTypes'
<1>1. CASE Q = <<>> \/ input' = 0
  BY <1>1 DEF TypeOK, TurnTypes, Dispatch
<1>2. CASE ~(Q = <<>> \/ input' = 0)
  <2>1. Last(Q) \in Sends /\ Head(Q) \in Sends
    BY <1>2 DEF Last
  <2>2. owed' \in [Queries -> Seq(Sends)]
    <3>1. input' \in Queries
      BY <1>2, SdkAssumption DEF Queries
    <3>2. owed[input'] \o Q \in Seq(Sends)
      BY <3>1 DEF TypeOK
    <3> QED
      BY <1>2, <3>1, <3>2 DEF TypeOK, Dispatch
  <2>3. pre' \in [Sends -> BOOLEAN]
    BY <1>2, <2>1 DEF TypeOK, Dispatch
  <2>4. tracked' \in 0..MaxSends
    BY <1>2, <2>1 DEF Dispatch, Sends
  <2> QED
    BY <1>2, <2>2, <2>3, <2>4 DEF TypeOK, TurnTypes, Dispatch
<1> QED
  BY <1>1, <1>2

LEMMA RecoverTypes ==
  ASSUME TypeOK, input' \in 0..MaxQueries, NEW Q \in Seq(Sends), Recover(Q)
  PROVE  TurnTypes'
<1>1. CASE fired \/ saved # 0 \/ meta = "known"
  <2>1. (~fired /\ saved = 0 /\ PriorWork) \in BOOLEAN
    BY SdkAssumption
  <2> QED
    BY <1>1, <2>1, DispatchTypes DEF Recover, TypeOK
<1>2. CASE ~(fired \/ saved # 0 \/ meta = "known")
  <2>1. waiting' \in Seq(Sends)
    <3>1. waiting' = waiting \o Q
      BY <1>2 DEF Recover
    <3>2. waiting \in Seq(Sends)
      BY DEF TypeOK
    <3> QED
      BY <3>1, <3>2
  <2>3. meta' \in {"unasked", "fetching", "known"}
    BY <1>2 DEF Recover, TypeOK
  <2>2. pc' \in [Sends -> {"idle", "starting", "recovering", "sent", "refused"}]
    BY <1>2 DEF Recover, TypeOK
  <2> QED
    BY <1>2, <2>1, <2>2, <2>3 DEF Recover, TypeOK, TurnTypes
<1> QED
  BY <1>1, <1>2

LEMMA StartsTypes ==
  ASSUME TypeOK, NEW q \in Queries, NEW Q \in Seq(Sends), Starts(q, Q)
  PROVE  TurnTypes' /\ QueryTypes'
<1>0. q \in 0..MaxQueries /\ 0 \in 0..MaxQueries /\ q \in Ids
  BY SdkAssumption DEF Queries, Ids
<1>1. CASE StartSucceeds(q, Q)
  <2>1. QueryTypes'
    <3>1. {queryObj', input', starting'} \subseteq 0..MaxQueries
      BY <1>0, <1>1 DEF StartSucceeds
    <3>2. loaded' \in BOOLEAN
      BY <1>1 DEF StartSucceeds
    <3>3. qs' \in [Queries -> {"none", "importing", "up", "over", "failed"}]
      BY <1>1 DEF StartSucceeds, TypeOK
    <3>4. sid' \in [Queries -> Ids]
      BY <1>0, <1>1 DEF StartSucceeds, TypeOK
    <3>5. born' \in [Queries -> 0..MaxResets]
      BY <1>1 DEF StartSucceeds, TypeOK
    <3> QED
      BY <3>1, <3>2, <3>3, <3>4, <3>5 DEF QueryTypes
  <2> QED
    BY <1>1, <2>1, RecoverTypes DEF StartSucceeds, QueryTypes
<1>2. CASE StartFails(q, Q)
  <2>1. TurnTypes'
    <3>1. pc' \in [Sends -> {"idle", "starting", "recovering", "sent", "refused"}]
      BY <1>2 DEF StartFails, Refuse, TypeOK
    <3> QED
      BY <1>2, <3>1 DEF StartFails, Refuse, TypeOK, TurnTypes, bootVars
  <2>2. QueryTypes'
    <3>1. {queryObj', input', starting'} \subseteq 0..MaxQueries
      BY <1>0, <1>2 DEF StartFails, TypeOK
    <3>2. loaded' \in BOOLEAN
      BY <1>0, <1>2 DEF StartFails, TypeOK
    <3>3. qs' \in [Queries -> {"none", "importing", "up", "over", "failed"}]
      BY <1>0, <1>2 DEF StartFails, TypeOK
    <3>4. sid' \in [Queries -> Ids] /\ born' \in [Queries -> 0..MaxResets]
      BY <1>0, <1>2 DEF StartFails, TypeOK
    <3> QED
      BY <3>1, <3>2, <3>3, <3>4 DEF QueryTypes
  <2> QED
    BY <2>1, <2>2
<1> QED
  BY <1>1, <1>2 DEF Starts

\* A turn that is refused, or a start that awaits its import.
LEMMA EnsureStartedTypes ==
  ASSUME TypeOK, NEW Q \in Seq(Sends),
         NEW next \in [Sends -> {"idle", "starting", "recovering", "sent", "refused"}],
         EnsureStarted(Q, next)
  PROVE  /\ TurnTypes' /\ QueryTypes' /\ line' \in [Queries -> Seq(Sends)]
         /\ started' \in 0..MaxQueries /\ closed' \in [Queries -> BOOLEAN]
<1>1. started + 1 \in Queries /\ started' = started + 1
  BY SdkAssumption DEF TypeOK, EnsureStarted, Queries
<1>2. started' \in 0..MaxQueries /\ closed' \in [Queries -> BOOLEAN]
  BY <1>1, SdkAssumption DEF TypeOK, EnsureStarted, Queries
<1>3. CASE loaded
  <2>1. Starts(started + 1, Q) /\ line' = line
    BY <1>3 DEF EnsureStarted
  <2>2. TurnTypes' /\ QueryTypes'
    BY <1>1, <2>1, StartsTypes
  <2> QED
    BY <1>2, <2>1, <2>2 DEF TypeOK
<1>4. CASE ~loaded
  <2>1. TurnTypes'
    BY <1>4 DEF EnsureStarted, TypeOK, TurnTypes, bootVars
  <2>2. {queryObj', input', starting'} \subseteq 0..MaxQueries
    BY <1>1, <1>2, <1>4 DEF EnsureStarted, TypeOK
  <2>3. qs' \in [Queries -> {"none", "importing", "up", "over", "failed"}]
    BY <1>1, <1>4 DEF EnsureStarted, TypeOK
  <2>4. QueryTypes'
    BY <1>4, <2>2, <2>3 DEF EnsureStarted, TypeOK, QueryTypes
  <2>5. line' \in [Queries -> Seq(Sends)]
    BY <1>1, <1>4 DEF EnsureStarted, TypeOK
  <2> QED
    BY <1>2, <2>1, <2>4, <2>5
<1> QED
  BY <1>3, <1>4

\* What a reset does to the engine when it is over.
LEMMA DropTypes ==
  ASSUME TypeOK, Counted, NEW r \in Resets, rsts[r] # "over",
         rsts' = [rsts EXCEPT ![r] = "over"], Drop
  PROVE  TypeOK' /\ Counted'
<1> DEFINE Over == {t \in Resets : rsts[t] = "over"}
<1>1. {t \in Resets : rsts'[t] = "over"} = Over \cup {r}
  BY DEF TypeOK
<1>2. IsFiniteSet(Resets) /\ Cardinality(Resets) = MaxResets
  BY FS_Interval, SdkAssumption DEF Resets
<1>3. IsFiniteSet(Over) /\ r \notin Over
  BY <1>2, FS_Subset
<1>4. Cardinality(Over \cup {r}) = Cardinality(Over) + 1
  BY <1>3, FS_AddElement
<1>5. Cardinality(Over \cup {r}) <= MaxResets
  BY <1>2, FS_Subset
<1>6. Counted'
  BY <1>1, <1>4 DEF Counted, Drop
<1>7. epoch' \in 0..MaxResets
  BY <1>1, <1>4, <1>5, SdkAssumption DEF Counted, Drop, TypeOK
<1>8. rsts' \in [Resets -> {"idle", "awaiting", "over"}]
  BY DEF TypeOK
<1>9. 0 \in 0..MaxQueries /\ 0 \in Ids
  BY SdkAssumption DEF Ids
<1>10. closed' \in [Queries -> BOOLEAN]
  BY DEF Drop, TypeOK
<1> QED
  BY <1>6, <1>7, <1>8, <1>9, <1>10 DEF Drop, TypeOK, bootVars

\* The types survive every step.
LEMMA NextTypes ==
  ASSUME TypeOK, Counted, Next
  PROVE  TypeOK' /\ Counted'
<1>0. 0 \in 0..MaxQueries /\ 0 \in Ids
  BY SdkAssumption DEF Ids
<1>1. ASSUME NEW s \in Sends, Send(s)
      PROVE  TypeOK' /\ Counted'
  <2>1. <<s>> \in Seq(Sends)
    BY <1>1
  <2>2. /\ TurnTypes' /\ QueryTypes' /\ line' \in [Queries -> Seq(Sends)]
        /\ started' \in 0..MaxQueries /\ closed' \in [Queries -> BOOLEAN]
    <3>1. CASE queryObj # 0 /\ UNCHANGED engineVars /\ Recover(<<s>>)
               /\ UNCHANGED <<queryVars, loaded, line>>
      <4>1. TurnTypes'
        BY <3>1, <2>1, RecoverTypes DEF engineVars, TypeOK
      <4> QED
        BY <3>1, <4>1 DEF TypeOK, QueryTypes, engineVars, queryVars
    <3>2. CASE /\ queryObj = 0 /\ starting # 0 /\ qs[starting] = "importing"
               /\ pc' = [pc EXCEPT ![s] = "starting"]
               /\ line' = [line EXCEPT ![starting] = Append(@, s)]
               /\ UNCHANGED <<engineVars, queryVars, loaded, owed, busy, tracked, tdone,
                              bootVars>>
      <4>1. starting \in Queries
        BY <3>2, SdkAssumption DEF TypeOK, Queries
      <4>2. Append(line[starting], s) \in Seq(Sends)
        BY <4>1 DEF TypeOK
      <4>3. line' \in [Queries -> Seq(Sends)]
        BY <3>2, <4>1, <4>2 DEF TypeOK
      <4>4. pc' \in [Sends -> {"idle", "starting", "recovering", "sent", "refused"}]
        BY <3>2 DEF TypeOK
      <4> QED
        BY <3>2, <4>3, <4>4
           DEF TypeOK, TurnTypes, QueryTypes, engineVars, queryVars, bootVars
    <3>3. CASE /\ queryObj = 0 /\ starting # 0 /\ qs[starting] = "failed"
               /\ Refuse({s}) /\ UNCHANGED <<engineVars, queryVars, loaded, line>>
      <4>1. pc' \in [Sends -> {"idle", "starting", "recovering", "sent", "refused"}]
        BY <3>3 DEF TypeOK, Refuse
      <4> QED
        BY <3>3, <4>1
           DEF Refuse, TypeOK, TurnTypes, QueryTypes, engineVars, queryVars, bootVars
    <3>4. CASE EnsureStarted(<<s>>, [pc EXCEPT ![s] = "starting"])
      <4>1. [pc EXCEPT ![s] = "starting"]
              \in [Sends -> {"idle", "starting", "recovering", "sent", "refused"}]
        BY DEF TypeOK
      <4> QED
        BY <2>1, <3>4, <4>1, EnsureStartedTypes
    <3> QED
      BY <1>1, <3>1, <3>2, <3>3, <3>4 DEF Send
  <2> QED
    BY <1>1, <2>2 DEF Send, TypeOK, Counted, TurnTypes, QueryTypes, ctlVars
<1>2. ASSUME NEW q \in Queries, ImportSettles(q)
      PROVE  TypeOK' /\ Counted'
  <2>1. line[q] \in Seq(Sends) /\ line' \in [Queries -> Seq(Sends)]
    BY <1>2 DEF ImportSettles, TypeOK
  <2>2. TurnTypes' /\ QueryTypes'
    BY <1>2, <2>1, StartsTypes DEF ImportSettles
  <2> QED
    BY <1>2, <2>1, <2>2 DEF ImportSettles, TypeOK, Counted, TurnTypes, QueryTypes, ctlVars
<1>3. ASSUME MetaArrives
      PROVE  TypeOK' /\ Counted'
  <2>1. (~fired /\ PriorWork) \in BOOLEAN /\ waiting \in Seq(Sends) /\ waiting' \in Seq(Sends)
    BY <1>3 DEF MetaArrives, TypeOK
  <2>2. TurnTypes'
    BY <1>3, <2>1, DispatchTypes DEF MetaArrives, TypeOK, engineVars
  <2> QED
    BY <1>3, <2>2 DEF MetaArrives, TypeOK, Counted, TurnTypes, ctlVars, engineVars, queryVars
<1>4. ASSUME NEW q \in Queries, Speaks(q)
      PROVE  TypeOK' /\ Counted'
  <2>1. saved' \in Ids
    BY <1>4 DEF Speaks, TypeOK
  <2> QED
    BY <1>4, <2>1
       DEF Speaks, TypeOK, Counted, turnVars, ctlVars, engineVars, queryVars, bootVars
<1>9. ASSUME NEW q \in Queries, Results(q)
      PROVE  TypeOK' /\ Counted'
  <2>1. saved' \in Ids
    BY <1>9 DEF Results, TypeOK
  <2>2. owed' \in [Queries -> Seq(Sends)]
    <3>1. owed[q] # <<>> => Tail(owed[q]) \in Seq(Sends)
      BY DEF TypeOK
    <3>2. [owed EXCEPT ![q] = <<>>] \in [Queries -> Seq(Sends)]
      BY DEF TypeOK
    <3>3. owed[q] # <<>> => [owed EXCEPT ![q] = Tail(@)] \in [Queries -> Seq(Sends)]
      BY <3>1 DEF TypeOK
    <3> QED
      BY <1>9, <3>2, <3>3 DEF Results
  <2>3. busy' \in BOOLEAN /\ tdone' \in BOOLEAN
    BY <1>9 DEF Results, TypeOK
  <2> QED
    BY <1>9, <2>1, <2>2, <2>3
       DEF Results, TypeOK, Counted, ctlVars, engineVars, queryVars, bootVars
<1>5. ASSUME NEW q \in Queries, Ends(q)
      PROVE  TypeOK' /\ Counted'
  <2>1. owed' \in [Queries -> Seq(Sends)]
    BY <1>5 DEF Ends, TypeOK
  <2>2. qs' \in [Queries -> {"none", "importing", "up", "over", "failed"}]
    BY <1>5 DEF Ends, TypeOK
  <2>3. {queryObj', input', starting'} \subseteq 0..MaxQueries /\ busy' \in BOOLEAN
    BY <1>0, <1>5 DEF Ends, TypeOK, engineVars
  <2> QED
    BY <1>5, <2>1, <2>2, <2>3 DEF Ends, TypeOK, Counted, ctlVars, bootVars
<1>6. ASSUME ListModels
      PROVE  TypeOK' /\ Counted'
  <2>1. <<>> \in Seq(Sends)
    OBVIOUS
  <2>2. /\ TurnTypes' /\ QueryTypes' /\ line' \in [Queries -> Seq(Sends)]
        /\ started' \in 0..MaxQueries /\ closed' \in [Queries -> BOOLEAN]
    BY <1>6, <2>1, EnsureStartedTypes DEF ListModels, TypeOK
  <2> QED
    BY <1>6, <2>2 DEF ListModels, TypeOK, Counted, TurnTypes, QueryTypes, ctlVars
<1>7. ASSUME NEW i \in Interrupts, Interrupt(i) \/ InterruptSettles(i)
      PROVE  TypeOK' /\ Counted'
  <2>1. ints' \in [Interrupts -> {"idle", "awaiting", "over"}] /\ busy' \in BOOLEAN
    <3>1. CASE Interrupt(i)
      BY <3>1 DEF Interrupt, TypeOK
    <3>2. CASE InterruptSettles(i)
      BY <3>2 DEF InterruptSettles, TypeOK
    <3> QED
      BY <1>7, <3>1, <3>2
  <2>2. UNCHANGED <<engineVars, saved, loaded, bootVars, queryVars, pc, owed, tracked,
                    tdone, line, rsts, epoch>>
    BY <1>7 DEF Interrupt, InterruptSettles
  <2> QED
    BY <2>1, <2>2 DEF TypeOK, Counted, engineVars, queryVars, bootVars
<1>8. ASSUME NEW r \in Resets, Reset(r) \/ ResetSettles(r)
      PROVE  TypeOK' /\ Counted'
  <2>1. CASE rsts[r] # "over" /\ rsts' = [rsts EXCEPT ![r] = "over"] /\ Drop
    BY <2>1, DropTypes
  <2>2. CASE /\ rsts[r] = "idle" /\ rsts' = [rsts EXCEPT ![r] = "awaiting"]
             /\ UNCHANGED <<engineVars, saved, loaded, bootVars, queryVars, turnVars,
                            line, ints, epoch>>
    <3>1. rsts' \in [Resets -> {"idle", "awaiting", "over"}]
      BY <2>2 DEF TypeOK
    <3>2. {t \in Resets : rsts'[t] = "over"} = {t \in Resets : rsts[t] = "over"}
      BY <2>2 DEF TypeOK
    <3> QED
      BY <2>2, <3>1, <3>2 DEF TypeOK, Counted, turnVars, engineVars, queryVars, bootVars
  <2> QED
    BY <1>8, <2>1, <2>2 DEF Reset, ResetSettles
<1> QED
  BY <1>1, <1>2, <1>3, <1>4, <1>5, <1>6, <1>7, <1>8, <1>9 DEF Next

-----------------------------------------------------------------------------
(* The recovery preamble.                                                  *)

LEMMA DispatchLatched ==
  ASSUME TypeOK, Latched, NEW Q \in Seq(Sends), NEW latches \in BOOLEAN,
         latches => ~fired, Dispatch(Q, latches)
  PROVE  Latched'
<1>1. CASE Q = <<>> \/ input' = 0
  BY <1>1 DEF Dispatch, Latched
<1>2. CASE ~(Q = <<>> \/ input' = 0)
  <2>1. Head(Q) \in Sends
    BY <1>2
  <2>2. fired' = (fired \/ latches) /\ pre' = [pre EXCEPT ![Head(Q)] = latches]
    BY <1>2 DEF Dispatch
  <2> QED
    BY <2>1, <2>2 DEF TypeOK, Latched
<1> QED
  BY <1>1, <1>2

LEMMA RecoverLatched ==
  ASSUME TypeOK, Latched, NEW Q \in Seq(Sends), Recover(Q)
  PROVE  Latched'
<1>1. (~fired /\ saved = 0 /\ PriorWork) \in BOOLEAN
  BY SdkAssumption
<1>2. CASE Dispatch(Q, ~fired /\ saved = 0 /\ PriorWork)
  BY <1>1, <1>2, DispatchLatched
<1>3. CASE UNCHANGED <<fired, pre>>
  BY <1>3 DEF Latched
<1> QED
  BY <1>2, <1>3 DEF Recover

LEMMA StartsLatched ==
  ASSUME TypeOK, Latched, NEW q, NEW Q \in Seq(Sends), Starts(q, Q)
  PROVE  Latched'
<1>1. CASE StartSucceeds(q, Q)
  BY <1>1, RecoverLatched DEF StartSucceeds
<1>2. CASE StartFails(q, Q)
  BY <1>2 DEF StartFails, Refuse, bootVars, Latched
<1> QED
  BY <1>1, <1>2 DEF Starts

\* An action starts, recovers or dispatches, or leaves the preamble alone.
LEMMA NextLatched ==
  ASSUME TypeOK, Latched, Next
  PROVE  Latched'
<1>1. CASE UNCHANGED bootVars
  BY <1>1 DEF Latched, bootVars
<1>2. ASSUME NEW Q \in Seq(Sends), NEW next, EnsureStarted(Q, next)
      PROVE  Latched'
  BY <1>1, <1>2, StartsLatched DEF EnsureStarted
<1>3. ASSUME NEW s \in Sends, Send(s)
      PROVE  Latched'
  <2>1. <<s>> \in Seq(Sends)
    OBVIOUS
  <2> QED
    BY <1>1, <1>2, <1>3, <2>1, RecoverLatched DEF Send, Refuse
<1>4. ASSUME NEW q \in Queries, ImportSettles(q)
      PROVE  Latched'
  BY <1>4, StartsLatched DEF ImportSettles, TypeOK
<1>5. ASSUME MetaArrives
      PROVE  Latched'
  <2>1. (~fired /\ PriorWork) \in BOOLEAN /\ waiting \in Seq(Sends)
    BY DEF TypeOK
  <2> QED
    BY <1>5, <2>1, DispatchLatched DEF MetaArrives
<1>6. ASSUME ListModels
      PROVE  Latched'
  <2>1. <<>> \in Seq(Sends)
    OBVIOUS
  <2> QED
    BY <1>2, <1>6, <2>1 DEF ListModels
<1>7. ASSUME NEW q \in Queries, Speaks(q) \/ Results(q) \/ Ends(q)
      PROVE  Latched'
  BY <1>1, <1>7 DEF Speaks, Results, Ends
<1>8. ASSUME NEW i \in Interrupts, Interrupt(i) \/ InterruptSettles(i)
      PROVE  Latched'
  BY <1>1, <1>8 DEF Interrupt, InterruptSettles
<1>9. ASSUME NEW r \in Resets, Reset(r) \/ ResetSettles(r)
      PROVE  Latched'
  BY <1>1, <1>9 DEF Reset, ResetSettles, Drop
<1> QED
  BY <1>3, <1>4, <1>5, <1>6, <1>7, <1>8, <1>9 DEF Next

-----------------------------------------------------------------------------
(* The queries and the session they leave.                                 *)

LEMMA StartsRemembered ==
  ASSUME TypeOK, Remembered, NEW q \in Queries, NEW Q, Starts(q, Q),
         qs[q] \in {"none", "importing"}, UNCHANGED <<saved, epoch>>
  PROVE  Remembered'
<1>0. q # 0 /\ q # BootSession /\ BootSession # 0
  BY SdkAssumption DEF Queries, BootSession
<1>1. qs'[q] \in {"up", "failed"} /\ \A p \in Queries : p # q => qs'[p] = qs[p]
  BY DEF Starts, StartSucceeds, StartFails, TypeOK
<1>2. \A id : Known(id) => Known(id)' /\ id # q
  BY <1>0, <1>1 DEF Known
<1>3. CASE StartSucceeds(q, Q)
  <2>1. \A id : Known(id) /\ id # 0 => Conversation(id)' = Conversation(id)
    BY <1>2, <1>3 DEF Known, Conversation, StartSucceeds, TypeOK
  <2>2. sid'[q] = (IF saved = 0 THEN q ELSE saved)
    BY <1>3 DEF StartSucceeds, TypeOK
  <2>3. \A p \in Queries : p # q => sid'[p] = sid[p]
    BY <1>3 DEF StartSucceeds, TypeOK
  <2>4. born'[q] = epoch /\ qs'[q] = "up" /\ queryObj' = q
    BY <1>3 DEF StartSucceeds, TypeOK
  <2>5. Known(saved)' /\ NoResurrection'
    BY <1>2, <2>1 DEF Remembered, NoResurrection
  <2>6. sid'[q] # 0 /\ Known(sid[q])' /\ Conversation(sid[q])' = epoch
    BY <1>0, <1>2, <2>1, <2>2, <2>4 DEF Remembered, NoResurrection, Known, Conversation
  <2> QED
    BY <1>1, <1>2, <2>3, <2>4, <2>5, <2>6 DEF Remembered
<1>4. CASE StartFails(q, Q)
  <2>1. UNCHANGED <<sid, born, queryObj>>
    BY <1>4 DEF StartFails
  <2>2. qs'[q] = "failed"
    BY <1>4 DEF StartFails, TypeOK
  <2> QED
    BY <1>1, <1>2, <2>1, <2>2 DEF Remembered, NoResurrection, Conversation
<1> QED
  BY <1>3, <1>4 DEF Starts

LEMMA NextRemembered ==
  ASSUME TypeOK, Numbered, Remembered, Next
  PROVE  Remembered'
<1>1. CASE UNCHANGED <<queryVars, queryObj, saved, epoch>>
  BY <1>1 DEF Remembered, Known, NoResurrection, Conversation, queryVars
<1>2. ASSUME NEW Q, NEW next, EnsureStarted(Q, next), UNCHANGED <<saved, epoch>>
      PROVE  Remembered'
  <2>1. started + 1 \in Queries /\ qs[started + 1] = "none"
    BY <1>2, SdkAssumption DEF EnsureStarted, TypeOK, Queries, Numbered
  <2>2. CASE loaded
    BY <1>2, <2>1, <2>2, StartsRemembered DEF EnsureStarted
  <2>3. CASE ~loaded
    <3>1. UNCHANGED <<queryObj, sid, born>>
      BY <1>2, <2>3 DEF EnsureStarted
    <3>2. qs' = [qs EXCEPT ![started + 1] = "importing"]
      BY <1>2, <2>3 DEF EnsureStarted
    <3>3. \A id : Known(id) => Known(id)'
      BY <2>1, <3>2 DEF Known, TypeOK
    <3>4. \A p \in Queries : qs'[p] = "up" => qs[p] = "up"
      BY <2>1, <3>2 DEF TypeOK
    <3> QED
      BY <1>2, <3>1, <3>3, <3>4 DEF Remembered, NoResurrection, Conversation
  <2> QED
    BY <2>2, <2>3
<1>3. ASSUME NEW s \in Sends, Send(s)
      PROVE  Remembered'
  BY <1>1, <1>2, <1>3 DEF Send, engineVars
<1>4. ASSUME NEW q \in Queries, ImportSettles(q)
      PROVE  Remembered'
  BY <1>4, StartsRemembered DEF ImportSettles
<1>5. ASSUME MetaArrives \/ ListModels
      PROVE  Remembered'
  BY <1>1, <1>2, <1>5 DEF MetaArrives, ListModels, engineVars
<1>6. ASSUME NEW q \in Queries, Speaks(q) \/ Results(q)
      PROVE  Remembered'
  <2>1. UNCHANGED <<qs, sid, born, queryObj, epoch>>
    BY <1>6 DEF Speaks, Results, queryVars, engineVars
  <2>2. q # 0 /\ qs[q] = "up" /\ saved' = (IF queryObj = q THEN sid[q] ELSE saved)
    BY <1>6 DEF Speaks, Results, Queries
  <2> QED
    BY <2>1, <2>2 DEF Remembered, Known, NoResurrection, Conversation
<1>7. ASSUME NEW q \in Queries, Ends(q)
      PROVE  Remembered'
  <2>1. UNCHANGED <<sid, born, saved, epoch>> /\ queryObj' \in {0, queryObj}
    BY <1>7 DEF Ends, engineVars
  <2>2. qs'[q] = "over" /\ \A p \in Queries : p # q => qs'[p] = qs[p]
    BY <1>7 DEF Ends, TypeOK
  <2>3. \A id : Known(id) => Known(id)'
    BY <2>2 DEF Known
  <2> QED
    BY <2>1, <2>2, <2>3 DEF Remembered, NoResurrection, Conversation
<1>8. ASSUME NEW i \in Interrupts, Interrupt(i) \/ InterruptSettles(i)
      PROVE  Remembered'
  BY <1>1, <1>8 DEF Interrupt, InterruptSettles, engineVars
<1>9. ASSUME NEW r \in Resets, Reset(r) \/ ResetSettles(r)
      PROVE  Remembered'
  <2>1. CASE Drop
    BY <2>1 DEF Drop, Remembered, Known, NoResurrection
  <2> QED
    BY <1>1, <1>9, <2>1 DEF Reset, ResetSettles, engineVars
<1> QED
  BY <1>3, <1>4, <1>5, <1>6, <1>7, <1>8, <1>9 DEF Next

LEMMA StartsNumbered ==
  ASSUME TypeOK, NEW q \in Queries, NEW Q, Starts(q, Q),
         queryObj # 0 => qs[queryObj] = "up", qs[q] \in {"none", "importing"}
  PROVE  /\ qs'[q] \in {"up", "failed"} /\ \A p \in Queries : p # q => qs'[p] = qs[p]
         /\ queryObj' # 0 => qs'[queryObj'] = "up"
<1>1. queryObj # 0 => queryObj \in Queries
  BY SdkAssumption DEF TypeOK, Queries
<1> QED
  BY <1>1 DEF Starts, StartSucceeds, StartFails, TypeOK

LEMMA NextNumbered ==
  ASSUME TypeOK, Numbered, Next
  PROVE  Numbered'
<1>0. queryObj # 0 => queryObj \in Queries
  BY SdkAssumption DEF TypeOK, Queries
<1>1. CASE UNCHANGED <<queryObj, qs, started>>
  BY <1>1 DEF Numbered
<1>2. ASSUME NEW Q, NEW next, EnsureStarted(Q, next)
      PROVE  Numbered'
  <2>1. started + 1 \in Queries /\ started' = started + 1 /\ started \in Nat
    BY <1>2, SdkAssumption DEF EnsureStarted, TypeOK, Queries
  <2>2. qs[started + 1] = "none"
    BY <2>1 DEF Numbered
  <2>3. /\ qs'[started + 1] # "none"
        /\ queryObj' # 0 => qs'[queryObj'] = "up"
        /\ \A p \in Queries : p # started + 1 => qs'[p] = qs[p]
    <3>1. CASE loaded
      BY <1>2, <2>1, <2>2, <3>1, StartsNumbered DEF EnsureStarted, Numbered
    <3>2. CASE ~loaded
      BY <1>2, <2>1, <3>2 DEF EnsureStarted, TypeOK
    <3> QED
      BY <3>1, <3>2
  <2>4. \A p \in Queries : (p > started + 1 <=> p > started /\ p # started + 1)
    BY <2>1 DEF Queries
  <2> QED
    BY <2>1, <2>3, <2>4 DEF Numbered
<1>3. ASSUME NEW s \in Sends, Send(s)
      PROVE  Numbered'
  BY <1>1, <1>2, <1>3 DEF Send, engineVars, queryVars
<1>4. ASSUME NEW q \in Queries, ImportSettles(q)
      PROVE  Numbered'
  <2>1. /\ qs'[q] \in {"up", "failed"} /\ \A p \in Queries : p # q => qs'[p] = qs[p]
        /\ queryObj' # 0 => qs'[queryObj'] = "up"
    BY <1>4, StartsNumbered DEF ImportSettles, Numbered
  <2> QED
    BY <1>4, <2>1 DEF ImportSettles, Numbered
<1>5. ASSUME MetaArrives \/ ListModels
      PROVE  Numbered'
  BY <1>1, <1>2, <1>5 DEF MetaArrives, ListModels, engineVars, queryVars
<1>6. ASSUME NEW q \in Queries, Speaks(q) \/ Results(q)
      PROVE  Numbered'
  BY <1>1, <1>6 DEF Speaks, Results, engineVars, queryVars
<1>7. ASSUME NEW q \in Queries, Ends(q)
      PROVE  Numbered'
  <2>1. qs[q] = "up" /\ qs'[q] = "over" /\ \A p \in Queries : p # q => qs'[p] = qs[p]
    BY <1>7 DEF Ends, TypeOK
  <2>2. started' = started /\ queryObj' = IF queryObj = q THEN 0 ELSE queryObj
    BY <1>7 DEF Ends, engineVars
  <2> QED
    BY <1>0, <2>1, <2>2 DEF Numbered
<1>8. ASSUME NEW i \in Interrupts, Interrupt(i) \/ InterruptSettles(i)
      PROVE  Numbered'
  BY <1>1, <1>8 DEF Interrupt, InterruptSettles, engineVars, queryVars
<1>9. ASSUME NEW r \in Resets, Reset(r) \/ ResetSettles(r)
      PROVE  Numbered'
  BY <1>1, <1>9 DEF Reset, ResetSettles, Drop, Numbered, engineVars, queryVars
<1> QED
  BY <1>3, <1>4, <1>5, <1>6, <1>7, <1>8, <1>9 DEF Next

LEMMA NextOneOpen ==
  ASSUME TypeOK, Numbered, OneOpen, Next
  PROVE  OneOpen'
<1>0. queryObj # 0 => queryObj \in Queries
  BY SdkAssumption DEF TypeOK, Queries
<1>1. CASE UNCHANGED <<engineVars, loaded, qs, closed>>
  BY <1>1 DEF OneOpen, NoOrphan, engineVars
<1>2. ASSUME NEW Q, NEW next, EnsureStarted(Q, next)
      PROVE  OneOpen'
  <2>0. started + 1 \in Queries
    BY <1>2, SdkAssumption DEF EnsureStarted, TypeOK, Queries
  <2>1. Starts(started + 1, Q) /\ queryObj = 0 /\ closed' = closed
    BY <1>2 DEF EnsureStarted, OneOpen
  <2>2. CASE StartSucceeds(started + 1, Q)
    <3>1. \A p \in Queries : qs'[p] = IF p = started + 1 THEN "up" ELSE qs[p]
      BY <2>0, <2>2 DEF StartSucceeds, TypeOK
    <3>2. loaded' /\ queryObj' = started + 1 /\ input' = queryObj'
      BY <2>2 DEF StartSucceeds
    <3>3. \A p \in Queries : qs[p] = "up" => closed[p]
      BY <2>1 DEF OneOpen, NoOrphan, Queries
    <3> QED
      BY <2>0, <2>1, <3>1, <3>2, <3>3 DEF OneOpen, NoOrphan
  <2>3. CASE StartFails(started + 1, Q)
    BY <2>0, <2>1, <2>3 DEF StartFails, OneOpen, NoOrphan, TypeOK
  <2> QED
    BY <2>1, <2>2, <2>3 DEF Starts
<1>3. ASSUME NEW s \in Sends, Send(s)
      PROVE  OneOpen'
  <2>1. CASE starting # 0 /\ qs[starting] = "importing"
    <3>1. starting \in Queries
      BY <2>1, SdkAssumption DEF TypeOK, Queries
    <3> QED
      BY <2>1, <3>1 DEF OneOpen
  <2> QED
    BY <1>1, <1>2, <1>3, <2>1 DEF Send, queryVars
<1>4. ASSUME NEW q \in Queries, ImportSettles(q)
      PROVE  OneOpen'
  BY <1>4 DEF ImportSettles, OneOpen
<1>5. ASSUME MetaArrives \/ ListModels
      PROVE  OneOpen'
  BY <1>1, <1>2, <1>5 DEF MetaArrives, ListModels, queryVars
<1>6. ASSUME NEW q \in Queries, Speaks(q) \/ Results(q)
      PROVE  OneOpen'
  BY <1>1, <1>6 DEF Speaks, Results, queryVars
<1>7. ASSUME NEW q \in Queries, Ends(q)
      PROVE  OneOpen'
  <2>1. qs'[q] = "over" /\ \A p \in Queries : p # q => qs'[p] = qs[p]
    BY <1>7 DEF Ends, TypeOK
  <2>2. closed' = closed /\ loaded' = loaded
    BY <1>7 DEF Ends
  <2>3. queryObj = q \/ (queryObj # q /\ queryObj' = queryObj /\ input' = input)
    BY <1>7 DEF Ends, engineVars
  <2>4. queryObj = q => queryObj' = 0
    BY <1>7 DEF Ends
  <2> QED
    BY <2>1, <2>2, <2>3, <2>4 DEF OneOpen, NoOrphan
<1>8. ASSUME NEW i \in Interrupts, Interrupt(i) \/ InterruptSettles(i)
      PROVE  OneOpen'
  BY <1>1, <1>8 DEF Interrupt, InterruptSettles, queryVars
<1>9. ASSUME NEW r \in Resets, Reset(r) \/ ResetSettles(r)
      PROVE  OneOpen'
  <2>1. CASE Drop
    <3>1. \A q \in Queries : closed'[q] = (closed[q] \/ q = input)
      BY <2>1 DEF Drop
    <3> QED
      BY <2>1, <3>1 DEF Drop, OneOpen, NoOrphan
  <2> QED
    BY <1>1, <1>9, <2>1 DEF Reset, ResetSettles, queryVars
<1> QED
  BY <1>3, <1>4, <1>5, <1>6, <1>7, <1>8, <1>9 DEF Next

-----------------------------------------------------------------------------
(* What the engine owes.                                                   *)

LEMMA DispatchOwes ==
  ASSUME TypeOK, input' \in 0..MaxQueries, NEW Q \in Seq(Sends), NEW latches,
         Dispatch(Q, latches)
  PROVE  /\ \A q \in Queries : owed[q] # <<>> => owed'[q] # <<>>
         /\ busy' => busy \/ (input' # 0 /\ owed'[input'] # <<>>)
<1>1. CASE Q = <<>> \/ input' = 0
  BY <1>1 DEF Dispatch
<1>2. CASE ~(Q = <<>> \/ input' = 0)
  <2>1. input' \in Queries
    BY <1>2, SdkAssumption DEF Queries
  <2>2. owed[input'] \in Seq(Sends) /\ owed[input'] \o Q # <<>>
    BY <1>2, <2>1 DEF TypeOK
  <2>3. owed'[input'] = owed[input'] \o Q
    BY <1>2, <2>1 DEF Dispatch, TypeOK
  <2>4. \A q \in Queries : q # input' => owed'[q] = owed[q]
    BY <1>2, <2>1 DEF Dispatch, TypeOK
  <2> QED
    BY <1>2, <2>1, <2>2, <2>3, <2>4
<1> QED
  BY <1>1, <1>2

LEMMA RecoverOwes ==
  ASSUME TypeOK, input' \in 0..MaxQueries, NEW Q \in Seq(Sends), Recover(Q)
  PROVE  /\ \A q \in Queries : owed[q] # <<>> => owed'[q] # <<>>
         /\ busy' => busy \/ (input' # 0 /\ owed'[input'] # <<>>)
<1>1. CASE fired \/ saved # 0 \/ meta = "known"
  BY <1>1, DispatchOwes DEF Recover
<1>2. CASE ~(fired \/ saved # 0 \/ meta = "known")
  BY <1>2 DEF Recover
<1> QED
  BY <1>1, <1>2

LEMMA NextFed ==
  ASSUME TypeOK, Numbered, OneOpen, FedToQuery, ~StartMayFail, Next
  PROVE  FedToQuery'
<1>0. 0 \in 0..MaxQueries /\ (queryObj # 0 => queryObj \in Queries)
  BY SdkAssumption DEF TypeOK, Queries
<1>1. CASE UNCHANGED <<engineVars, qs, owed>> /\ (busy' => busy)
  BY <1>1 DEF FedToQuery, BusyMeansOwed, engineVars
<1>2. ASSUME NEW Q \in Seq(Sends), NEW next, EnsureStarted(Q, next)
      PROVE  FedToQuery'
  <2>1. started + 1 \in Queries /\ started + 1 \in 0..MaxQueries /\ queryObj = 0
    BY <1>2, SdkAssumption DEF EnsureStarted, TypeOK, Queries
  <2>2. StartSucceeds(started + 1, Q)
    BY <1>2 DEF EnsureStarted, OneOpen, Starts, StartFails
  <2>3. busy' => busy \/ owed'[input'] # <<>>
    BY <2>1, <2>2, RecoverOwes DEF StartSucceeds
  <2>4. qs'[queryObj'] = "up" /\ queryObj' # 0 /\ input' = queryObj'
    BY <2>1, <2>2 DEF StartSucceeds, TypeOK, Queries
  <2> QED
    BY <2>1, <2>3, <2>4 DEF FedToQuery, BusyMeansOwed
<1>3. ASSUME NEW Q \in Seq(Sends), NEW latches, UNCHANGED <<engineVars, qs>>,
             Dispatch(Q, latches) \/ Recover(Q)
      PROVE  FedToQuery'
  <2>1. /\ \A q \in Queries : owed[q] # <<>> => owed'[q] # <<>>
        /\ busy' => busy \/ (input' # 0 /\ owed'[input'] # <<>>)
    BY <1>3, DispatchOwes, RecoverOwes DEF engineVars, TypeOK
  <2> QED
    BY <1>0, <1>3, <2>1 DEF FedToQuery, BusyMeansOwed, Numbered, engineVars
<1>4. ASSUME NEW s \in Sends, Send(s)
      PROVE  FedToQuery'
  <2>1. CASE starting # 0 /\ qs[starting] = "importing"
    <3>1. starting \in Queries
      BY <2>1, SdkAssumption DEF TypeOK, Queries
    <3> QED
      BY <2>1, <3>1 DEF OneOpen
  <2>2. <<s>> \in Seq(Sends)
    OBVIOUS
  <2>3. CASE UNCHANGED engineVars /\ Recover(<<s>>) /\ UNCHANGED queryVars
    BY <1>3, <2>2, <2>3 DEF queryVars
  <2>4. CASE Refuse({s}) /\ UNCHANGED <<engineVars, queryVars>>
    BY <1>1, <2>4 DEF Refuse, queryVars
  <2>5. CASE EnsureStarted(<<s>>, [pc EXCEPT ![s] = "starting"])
    BY <1>2, <2>2, <2>5
  <2> QED
    BY <1>4, <2>1, <2>3, <2>4, <2>5 DEF Send
<1>5. ASSUME NEW q \in Queries, ImportSettles(q)
      PROVE  FedToQuery'
  BY <1>5 DEF ImportSettles, OneOpen
<1>6. ASSUME MetaArrives
      PROVE  FedToQuery'
  BY <1>3, <1>6 DEF MetaArrives, queryVars, TypeOK
<1>7. ASSUME ListModels
      PROVE  FedToQuery'
  <2>1. <<>> \in Seq(Sends)
    OBVIOUS
  <2> QED
    BY <1>2, <1>7, <2>1 DEF ListModels
<1>8. ASSUME NEW q \in Queries, Speaks(q)
      PROVE  FedToQuery'
  BY <1>1, <1>8 DEF Speaks, queryVars, turnVars
<1>9. ASSUME NEW q \in Queries, Results(q)
      PROVE  FedToQuery'
  <2>1. UNCHANGED <<engineVars, qs>> /\ busy' = (busy /\ queryObj # q)
    BY <1>9 DEF Results, queryVars
  <2>2. \A p \in Queries : p # q => owed'[p] = owed[p]
    BY <1>9 DEF Results, TypeOK
  <2> QED
    BY <1>0, <2>1, <2>2 DEF FedToQuery, BusyMeansOwed, engineVars
<1>10. ASSUME NEW q \in Queries, Ends(q)
      PROVE  FedToQuery'
  <2>1. CASE queryObj = q
    BY <1>10, <2>1 DEF Ends, FedToQuery, BusyMeansOwed
  <2>2. CASE queryObj # q
    <3>1. UNCHANGED <<engineVars, busy>>
      BY <1>10, <2>2 DEF Ends
    <3>2. \A p \in Queries : p # q => owed'[p] = owed[p] /\ qs'[p] = qs[p]
      BY <1>10 DEF Ends, TypeOK
    <3> QED
      BY <1>0, <2>2, <3>1, <3>2 DEF FedToQuery, BusyMeansOwed, engineVars
  <2> QED
    BY <2>1, <2>2
<1>11. ASSUME NEW i \in Interrupts, Interrupt(i) \/ InterruptSettles(i)
      PROVE  FedToQuery'
  BY <1>1, <1>11 DEF Interrupt, InterruptSettles, queryVars
<1>12. ASSUME NEW r \in Resets, Reset(r) \/ ResetSettles(r)
      PROVE  FedToQuery'
  BY <1>1, <1>12 DEF Reset, ResetSettles, Drop, FedToQuery, BusyMeansOwed, queryVars, turnVars
<1> QED
  BY <1>4, <1>5, <1>6, <1>7, <1>8, <1>9, <1>10, <1>11, <1>12 DEF Next

-----------------------------------------------------------------------------
(* The invariant and what it gives.                                        *)

LEMMA InitInv == Init => IInv
<1> SUFFICES ASSUME Init PROVE IInv
  OBVIOUS
<1>0. /\ 0 \in 0..MaxQueries /\ 0 \in 0..MaxSends /\ 0 \in 0..MaxResets
      /\ 0 \in Ids /\ BootSession \in Ids /\ BootSession # 0
      /\ Imported \in BOOLEAN
  BY SdkAssumption DEF Ids, BootSession
<1>1. TypeOK
  <2>1. saved \in Ids /\ loaded \in BOOLEAN
    BY <1>0 DEF Init
  <2>2. {queryObj, input, starting, started} \subseteq 0..MaxQueries
    BY <1>0 DEF Init
  <2>3. /\ sid \in [Queries -> Ids] /\ closed \in [Queries -> BOOLEAN]
        /\ owed \in [Queries -> Seq(Sends)] /\ line \in [Queries -> Seq(Sends)]
        /\ born \in [Queries -> 0..MaxResets] /\ pre \in [Sends -> BOOLEAN]
    BY <1>0 DEF Init
  <2>4. {busy, loaded, fired, tdone} \subseteq BOOLEAN
    BY <2>1 DEF Init
  <2>5. /\ meta \in {"unasked", "fetching", "known"} /\ waiting \in Seq(Sends)
        /\ qs \in [Queries -> {"none", "importing", "up", "over", "failed"}]
        /\ pc \in [Sends -> {"idle", "starting", "recovering", "sent", "refused"}]
        /\ ints \in [Interrupts -> {"idle", "awaiting", "over"}]
        /\ rsts \in [Resets -> {"idle", "awaiting", "over"}]
    BY DEF Init
  <2>6. tracked \in 0..MaxSends /\ epoch \in 0..MaxResets
    BY <1>0 DEF Init
  <2> QED
    BY <2>1, <2>2, <2>3, <2>4, <2>5, <2>6 DEF TypeOK
<1>2. Numbered
  BY DEF Init, Numbered, Queries
<1>3. Counted
  <2>1. {r \in Resets : rsts[r] = "over"} = {}
    BY DEF Init
  <2> QED
    BY <2>1, FS_EmptySet DEF Init, Counted
<1>4. Latched
  BY DEF Init, Latched
<1>5. Remembered
  BY <1>0 DEF Init, Remembered, Known, NoResurrection, Conversation
<1>6. Imported => OneOpen
  BY DEF Init, OneOpen, NoOrphan
<1>7. FedToQuery
  BY DEF Init, FedToQuery, BusyMeansOwed
<1> QED
  BY <1>1, <1>2, <1>3, <1>4, <1>5, <1>6, <1>7 DEF IInv

LEMMA NextInv == IInv /\ [Next]_vars => IInv'
<1> SUFFICES ASSUME IInv, [Next]_vars PROVE IInv'
  OBVIOUS
<1>1. CASE Next
  BY <1>1, NextTypes, NextNumbered, NextLatched, NextRemembered, NextOneOpen, NextFed
     DEF IInv
<1>2. CASE UNCHANGED vars
  <2> USE <1>2 DEF IInv, vars, engineVars, bootVars, queryVars, turnVars, ctlVars
  <2>1. TypeOK'
    BY DEF TypeOK
  <2>2. Numbered' /\ Counted' /\ Latched'
    BY DEF Numbered, Counted, Latched
  <2>3. Remembered'
    BY DEF Remembered, Known, NoResurrection, Conversation
  <2>4. OneOpen => OneOpen'
    BY DEF OneOpen, NoOrphan
  <2>5. FedToQuery => FedToQuery'
    BY DEF FedToQuery, BusyMeansOwed
  <2> QED
    BY <2>1, <2>2, <2>3, <2>4, <2>5
<1> QED
  BY <1>1, <1>2

LEMMA Invariance == Spec => []IInv
<1> QED
  BY InitInv, NextInv, PTL DEF Spec

\* No turn but one has the preamble.
LEMMA LatchedOnce == TypeOK /\ Latched => PreambleOnce
<1> SUFFICES ASSUME TypeOK, Latched PROVE PreambleOnce
  OBVIOUS
<1>1. CASE \E s \in Sends : pre[s]
  <2>1. PICK s \in Sends : pre[s]
    BY <1>1
  <2>2. {t \in Sends : pre[t]} = {s}
    BY <2>1 DEF Latched
  <2> QED
    BY <2>2, FS_Singleton DEF PreambleOnce
<1>2. CASE ~\E s \in Sends : pre[s]
  <2>1. {t \in Sends : pre[t]} = {}
    BY <1>2
  <2> QED
    BY <2>1, FS_EmptySet DEF PreambleOnce
<1> QED
  BY <1>1, <1>2

\* Whatever the order of turns, imports, Stops, resets, deaths of the query and
\* late messages of a dropped one: the session a restart would resume is one of
\* this conversation (agentEngine.js:38-40), and the preamble is told to one
\* turn at most (agentRecovery.js:46-50).
THEOREM MemoryKept == Spec => [](TypeOK /\ NoResurrection /\ PreambleOnce)
<1>1. IInv => TypeOK /\ NoResurrection /\ PreambleOnce
  BY LatchedOnce DEF IInv, Remembered
<1> QED
  BY <1>1, Invariance, PTL

\* Once the SDK module has been loaded, no query whose input is open outlives
\* its place in the engine (agentEngine.js:1,18), even if starts fail.
THEOREM NoneOrphaned == ASSUME Imported PROVE Spec => []NoOrphan
<1>1. IInv => NoOrphan
  BY DEF IInv, OneOpen
<1> QED
  BY <1>1, Invariance, PTL

\* If moreover the starts succeed, the conversation is one in every respect: the
\* engine is busy only with what its own running query owes
\* (agentEngine.js:19,57-59).
THEOREM ConversationIsOne ==
  ASSUME Imported, ~StartMayFail PROVE Spec => []OneConversation
<1>1. IInv => OneConversation
  BY LatchedOnce DEF IInv, OneOpen, Remembered, FedToQuery, OneConversation
<1> QED
  BY <1>1, Invariance, PTL

-----------------------------------------------------------------------------
(* Turns that come one at a time.                                          *)

LEMMA SetOfOne == ASSUME NEW S, NEW s \in S PROVE ToSet(<<s>>) = {s}
BY DEF ToSet

LEMMA SetOfNone == ToSet(<<>>) = {}
BY DEF ToSet

\* What becomes of the turn s: refused, recovering, or sent to the input.
Moves(s) ==
  \/ /\ pc' = [pc EXCEPT ![s] = "refused"] /\ waiting' = <<>>
     /\ UNCHANGED <<owed, busy, tracked, tdone>>
  \/ /\ pc' = [pc EXCEPT ![s] = "recovering"] /\ waiting' = <<s>>
     /\ UNCHANGED <<owed, busy, tracked, tdone>>
  \/ /\ pc' = [pc EXCEPT ![s] = "sent"] /\ waiting' = <<>>
     /\ input' # 0 /\ owed' = [owed EXCEPT ![input'] = @ \o <<s>>]
     /\ busy' /\ tracked' = s /\ ~tdone'

\* The engine as a step leaves it, before the turn of that step moves.
Ready ==
  /\ ~busy
  /\ \A q \in Queries : owed[q] # <<>> => qs'[q] \notin {"none", "importing"}
  /\ input' # 0 => owed[input'] = <<>> /\ qs'[input'] \notin {"none", "importing"}
  /\ epoch' = 0 => \A q \in Queries : qs'[q] = "up" =>
       q = queryObj' /\ (tdone => owed[q] = <<>>)

LEMMA DispatchMoves ==
  ASSUME TypeOK, NEW s \in Sends, NEW latches, waiting' = <<>>, Dispatch(<<s>>, latches)
  PROVE  Moves(s)
<1>1. <<s>> # <<>> /\ Last(<<s>>) = s
  BY DEF Last
<1>2. ToSet(<<s>>) = {s}
  BY SetOfOne
<1>3. CASE input' = 0
  <2>1. pc' = [pc EXCEPT ![s] = "refused"]
    BY <1>2, <1>3 DEF Dispatch, TypeOK
  <2> QED
    BY <1>3, <2>1 DEF Dispatch, Moves
<1>4. CASE input' # 0
  <2>1. pc' = [pc EXCEPT ![s] = "sent"]
    BY <1>2, <1>4 DEF Dispatch, TypeOK
  <2> QED
    BY <1>1, <1>4, <2>1 DEF Dispatch, Moves
<1> QED
  BY <1>3, <1>4

LEMMA RecoverMoves ==
  ASSUME TypeOK, NEW s \in Sends, waiting = <<>>, Recover(<<s>>)
  PROVE  Moves(s)
<1>1. CASE fired \/ saved # 0 \/ meta = "known"
  BY <1>1, DispatchMoves DEF Recover
<1>2. CASE ~(fired \/ saved # 0 \/ meta = "known")
  <2>1. pc' = [pc EXCEPT ![s] = "recovering"]
    BY <1>2, SetOfOne DEF Recover, TypeOK
  <2>2. waiting' = <<>> \o <<s>> /\ UNCHANGED <<owed, busy, tracked, tdone>>
    BY <1>2 DEF Recover
  <2> QED
    BY <2>1, <2>2 DEF Moves
<1> QED
  BY <1>1, <1>2

LEMMA RefuseMoves ==
  ASSUME TypeOK, NEW s \in Sends, waiting = <<>>, Refuse({s})
  PROVE  Moves(s)
BY DEF TypeOK, Refuse, Moves, bootVars

\* With no turn to move there is nothing to change.
LEMMA NoneMoves ==
  ASSUME TypeOK, Recover(<<>>) \/ Refuse({}) \/ \E l : Dispatch(<<>>, l) /\ UNCHANGED waiting
  PROVE  UNCHANGED <<pc, owed, busy, tracked, tdone, waiting>>
<1>1. ASSUME NEW l, Dispatch(<<>>, l)
      PROVE  UNCHANGED <<pc, owed, busy, tracked, tdone>>
  BY <1>1, SetOfNone DEF Dispatch, TypeOK
<1>2. waiting \o <<>> = waiting
  BY DEF TypeOK
<1>3. CASE Recover(<<>>)
  BY <1>1, <1>2, <1>3, SetOfNone DEF Recover, TypeOK
<1>4. CASE Refuse({})
  BY <1>4 DEF Refuse, TypeOK, bootVars
<1> QED
  BY <1>1, <1>3, <1>4

\* One turn moves while no other is on its way.
LEMMA MovesSerial ==
  ASSUME TypeOK, TypeOK', Queues, Slot, Ready, NEW s \in Sends, Moves(s), pc[s] # "sent",
         \A t \in Sends : Pending(t) => t = s, \A q \in Queries : line'[q] = <<>>,
         epoch' = epoch
  PROVE  OneTurn' /\ Queues' /\ Slot' /\ BusyExact'
<1>0. /\ s # 0 /\ (input' # 0 => input' \in Queries)
      /\ tracked # 0 => tracked \in Sends /\ tracked # s
  <2>1. s # 0 /\ (tracked # 0 => tracked \in Sends)
    BY SdkAssumption DEF TypeOK, Sends
  <2>2. input' # 0 => input' \in Queries
    BY SdkAssumption DEF TypeOK, Queries
  <2> QED
    BY <2>1, <2>2 DEF Slot
<1>1. CASE pc' = [pc EXCEPT ![s] = "refused"] /\ waiting' = <<>>
           /\ UNCHANGED <<owed, busy, tracked, tdone>>
  <2>1. OneTurn'
    BY <1>1 DEF OneTurn, Pending, TypeOK, Ready
  <2>2. Queues'
    BY <1>1 DEF Queues, Ready
  <2>3. Slot'
    BY <1>0, <1>1 DEF Slot, Ready, TypeOK
  <2>4. BusyExact'
    BY <1>1 DEF BusyExact, Ready, Queries
  <2> QED
    BY <2>1, <2>2, <2>3, <2>4
<1>2. CASE pc' = [pc EXCEPT ![s] = "recovering"] /\ waiting' = <<s>>
           /\ UNCHANGED <<owed, busy, tracked, tdone>>
  <2>1. OneTurn'
    BY <1>2 DEF OneTurn, Pending, TypeOK, Ready
  <2>2. Queues'
    BY <1>2 DEF Queues, Ready, TypeOK
  <2>3. Slot'
    BY <1>0, <1>2 DEF Slot, Ready, TypeOK
  <2>4. BusyExact'
    BY <1>2 DEF BusyExact, Ready, Queries
  <2> QED
    BY <2>1, <2>2, <2>3, <2>4
<1>3. CASE /\ pc' = [pc EXCEPT ![s] = "sent"] /\ waiting' = <<>>
           /\ input' # 0 /\ owed' = [owed EXCEPT ![input'] = @ \o <<s>>]
           /\ busy' /\ tracked' = s /\ ~tdone'
  <2>1. \A t \in Sends : ~Pending(t)'
    BY <1>3 DEF Pending, TypeOK
  <2>2. owed'[input'] = <<s>> /\ \A q \in Queries : q # input' => owed'[q] = owed[q]
    BY <1>0, <1>3 DEF TypeOK, Ready
  <2>3. Queues'
    BY <1>0, <1>3, <2>2 DEF Queues, Ready
  <2>4. Slot'
    BY <1>0, <1>3 DEF Slot, Ready, TypeOK
  <2>5. BusyExact'
    BY <1>0, <1>3, <2>2 DEF BusyExact
  <2> QED
    BY <2>1, <2>3, <2>4, <2>5 DEF OneTurn
<1> QED
  BY <1>1, <1>2, <1>3 DEF Moves

LEMMA NoneSerial ==
  ASSUME TypeOK, OneTurn, Queues, Slot, Ready, epoch' = epoch,
         UNCHANGED <<pc, owed, busy, tracked, tdone, waiting>>,
         \A q \in Queries : line'[q] # <<>> => line'[q] = line[q] /\ qs'[q] = "importing"
  PROVE  OneTurn' /\ Queues' /\ Slot' /\ BusyExact'
<1>1. OneTurn'
  BY DEF OneTurn, Pending
<1>2. Queues'
  BY DEF Queues, Ready
<1>3. Slot'
  BY DEF Slot, Ready
<1>4. BusyExact'
  BY DEF BusyExact, Ready, Queries
<1> QED
  BY <1>1, <1>2, <1>3, <1>4

\* A turn comes to await the import of q.
LEMMA AwaitsSerial ==
  ASSUME TypeOK, Queues, Slot, Ready, epoch' = epoch,
         \A t \in Sends : ~Pending(t), NEW s \in Sends, pc[s] = "idle",
         pc' = [pc EXCEPT ![s] = "starting"],
         UNCHANGED <<owed, busy, tracked, tdone, waiting>>,
         NEW q \in Queries, qs'[q] = "importing", line' = [line EXCEPT ![q] = <<s>>]
  PROVE  OneTurn' /\ Queues' /\ Slot' /\ BusyExact'
<1>1. \A p \in Queries : line[p] = <<>>
  BY DEF Queues, Pending
<1>2. waiting = <<>>
  BY DEF Queues, Pending
<1>3. OneTurn'
  BY DEF OneTurn, Pending, TypeOK, Ready
<1>4. Queues'
  BY <1>1, <1>2 DEF Queues, Ready, TypeOK
<1>5. Slot'
  <2>1. tracked # 0 => tracked \in Sends /\ tracked # s
    <3>1. tracked # 0 => tracked \in Sends
      BY SdkAssumption DEF TypeOK, Sends
    <3> QED
      BY <3>1 DEF Slot
  <2> QED
    BY <2>1 DEF Slot, Ready, TypeOK
<1>6. BusyExact'
  BY DEF BusyExact, Ready, Queries
<1> QED
  BY <1>3, <1>4, <1>5, <1>6

\* A start readies the engine for the turns that await it.
LEMMA StartsReady ==
  ASSUME TypeOK, Queues, OneInput, Slot, BusyExact,
         NEW q \in Queries, qs[q] \in {"none", "importing"}, NEW Q, Starts(q, Q),
         queryObj = 0, input = 0, \A p \in Queries : qs[p] = "importing" => p = q,
         qs[q] = "importing" => starting = q, UNCHANGED <<epoch, rsts>>
  PROVE  Ready /\ OneInput'
<1>0. ~busy /\ \A p \in Queries : p # 0
  BY DEF BusyExact, Queries
<1>1. owed[q] = <<>>
  BY DEF Queues
<1>2. /\ qs'[q] \in {"up", "failed"}
      /\ \A p \in Queries : p # q => qs'[p] = qs[p]
  BY DEF Starts, StartSucceeds, StartFails, TypeOK
<1>3. \A p \in Queries : qs'[p] # "importing"
  BY <1>2
<1>4. CASE StartSucceeds(q, Q)
  <2>1. queryObj' = q /\ input' = q /\ loaded'
    BY <1>4 DEF StartSucceeds
  <2>2. Ready
    BY <1>0, <1>1, <1>2, <2>1 DEF Ready, Queues, Slot
  <2>3. OneInput'
    BY <1>3, <2>1 DEF OneInput
  <2> QED
    BY <2>2, <2>3
<1>5. CASE StartFails(q, Q)
  <2>1. /\ queryObj' = 0 /\ input' \in {0, q} /\ starting' = q
        /\ ~loaded' => ~loaded
    <3>1. (input' = q /\ loaded') \/ UNCHANGED <<input, loaded>>
      BY <1>5 DEF StartFails
    <3>2. queryObj' = 0 /\ starting' = q
      BY <1>5 DEF StartFails
    <3> QED
      BY <3>1, <3>2
  <2>2. qs'[q] = "failed"
    BY <1>5 DEF StartFails, TypeOK
  <2>3. Ready
    BY <1>0, <1>1, <1>2, <2>1, <2>2 DEF Ready, Queues, Slot
  <2>4. OneInput'
    BY <1>3, <2>1, <2>2 DEF OneInput
  <2> QED
    BY <2>3, <2>4
<1> QED
  BY <1>4, <1>5 DEF Starts

\* A turn's start, or a start for no turn, when there is neither a query nor a
\* start.
LEMMA EnsureStartedReady ==
  ASSUME TypeOK, Numbered, Queues, OneInput, Slot, BusyExact, NEW Q, NEW next,
         EnsureStarted(Q, next), UNCHANGED <<epoch, rsts>>
  PROVE  Ready /\ OneInput' /\ started + 1 \in Queries
<1>1. started + 1 \in Queries /\ started + 1 # 0 /\ queryObj = 0 /\ starting = 0
  BY SdkAssumption DEF EnsureStarted, TypeOK, Queries
<1>2. qs[started + 1] = "none"
  BY <1>1 DEF Numbered, TypeOK, Queries
<1>3. input = 0 /\ \A p \in Queries : qs[p] # "importing"
  BY <1>1 DEF OneInput, Queries
<1>4. CASE loaded
  <2>1. Starts(started + 1, Q)
    BY <1>4 DEF EnsureStarted
  <2> QED
    BY <1>1, <1>2, <1>3, <2>1, StartsReady
<1>5. CASE ~loaded
  <2>1. /\ starting' = started + 1 /\ queryObj' = 0 /\ input' = 0 /\ loaded' = loaded
        /\ \A p \in Queries : qs'[p] = IF p = started + 1 THEN "importing" ELSE qs[p]
    BY <1>1, <1>3, <1>5 DEF EnsureStarted, TypeOK
  <2>2. Ready
    BY <1>1, <1>2, <1>3, <2>1 DEF Ready, Queues, Slot, BusyExact, Queries
  <2>3. OneInput'
    BY <1>1, <1>3, <1>5, <2>1 DEF OneInput
  <2> QED
    BY <1>1, <2>2, <2>3
<1> QED
  BY <1>4, <1>5

\* A start, once Ready, moves the one turn that awaits it, or none.
LEMMA StartsSerial ==
  ASSUME TypeOK, TypeOK', Serial, Ready, NEW q, NEW Q, Starts(q, Q), epoch' = epoch,
         \/ Q = <<>> /\ \A p \in Queries : line'[p] = <<>>
         \/ \E s \in Sends : /\ Q = <<s>> /\ pc[s] # "sent"
                             /\ \A t \in Sends : Pending(t) => t = s
                             /\ waiting = <<>> /\ \A p \in Queries : line'[p] = <<>>
  PROVE  OneTurn' /\ Queues' /\ Slot' /\ BusyExact'
<1>1. Recover(Q) \/ Refuse(ToSet(Q))
  BY DEF Starts, StartSucceeds, StartFails
<1>2. CASE Q = <<>> /\ \A p \in Queries : line'[p] = <<>>
  <2>1. UNCHANGED <<pc, owed, busy, tracked, tdone, waiting>>
    BY <1>1, <1>2, SetOfNone, NoneMoves
  <2> QED
    BY <1>2, <2>1, NoneSerial DEF Serial
<1>3. ASSUME NEW s \in Sends, Q = <<s>>, pc[s] # "sent", waiting = <<>>,
             \A t \in Sends : Pending(t) => t = s, \A p \in Queries : line'[p] = <<>>
      PROVE  OneTurn' /\ Queues' /\ Slot' /\ BusyExact'
  <2>1. ToSet(<<s>>) = {s}
    BY SetOfOne
  <2>2. Moves(s)
    BY <1>1, <1>3, <2>1, RecoverMoves, RefuseMoves
  <2> QED
    BY <1>3, <2>2, MovesSerial DEF Serial
<1> QED
  BY <1>2, <1>3

LEMMA SendSerial ==
  ASSUME TypeOK, TypeOK', Numbered, Serial, ~Overlap, NEW s \in Sends, Send(s)
  PROVE  Serial'
<1>1. /\ ~busy /\ \A t \in Sends : ~Pending(t)
      /\ pc[s] = "idle" /\ UNCHANGED <<saved, ctlVars, epoch>>
  BY DEF Send, Pending
<1>2. waiting = <<>> /\ \A q \in Queries : line[q] = <<>>
  BY <1>1 DEF Serial, Queues, Pending
<1>3. queryObj # 0 => queryObj \in Queries
  BY SdkAssumption DEF TypeOK, Queries
<1>4. CASE /\ UNCHANGED <<engineVars, queryVars, loaded>>
           /\ ~EnsureStarted(<<s>>, [pc EXCEPT ![s] = "starting"])
  <2>1. Ready
    <3>1. \A q \in Queries : q = input => owed[q] = <<>>
      BY <1>1 DEF Serial, BusyExact
    <3>2. input # 0 => input \in Queries /\ qs[input] \notin {"none", "importing"}
      <4>1. input # 0 => input \in Queries
        BY SdkAssumption DEF TypeOK, Queries
      <4> QED
        BY <4>1 DEF Serial, OneInput, Numbered
    <3> QED
      BY <1>1, <1>4, <3>1, <3>2 DEF Ready, Serial, Queues, Slot, engineVars, queryVars
  <2>2. OneInput'
    BY <1>1, <1>4 DEF Serial, OneInput, engineVars, queryVars, ctlVars
  <2>3. CASE (Recover(<<s>>) \/ Refuse({s})) /\ UNCHANGED line
    <3>1. Moves(s)
      BY <1>2, <2>3, RecoverMoves, RefuseMoves
    <3> QED
      BY <1>1, <1>2, <2>1, <2>2, <2>3, <3>1, MovesSerial DEF Serial
  <2>4. CASE /\ queryObj = 0 /\ starting # 0 /\ qs[starting] = "importing"
             /\ pc' = [pc EXCEPT ![s] = "starting"]
             /\ line' = [line EXCEPT ![starting] = Append(@, s)]
             /\ UNCHANGED <<engineVars, queryVars, loaded, owed, busy, tracked, tdone,
                            bootVars>>
    <3>1. starting \in Queries
      BY <2>4, SdkAssumption DEF TypeOK, Queries
    <3>2. line' = [line EXCEPT ![starting] = <<s>>]
      <4>1. line[starting] = <<>> /\ Append(<<>>, s) = <<s>>
        BY <1>2, <3>1
      <4> QED
        BY <2>4, <4>1
    <3>3. qs'[starting] = "importing" /\ UNCHANGED <<owed, busy, tracked, tdone, waiting>>
      BY <2>4 DEF queryVars, bootVars
    <3> QED
      BY <1>1, <2>1, <2>2, <2>4, <3>1, <3>2, <3>3, AwaitsSerial DEF Serial
  <2> QED
    BY <1>4, <2>3, <2>4 DEF Send
<1>5. CASE EnsureStarted(<<s>>, [pc EXCEPT ![s] = "starting"])
  <2>1. Ready /\ OneInput' /\ started + 1 \in Queries
    BY <1>1, <1>5, EnsureStartedReady DEF Serial, ctlVars
  <2>2. CASE loaded
    <3>1. Starts(started + 1, <<s>>) /\ line' = line
      BY <1>5, <2>2 DEF EnsureStarted
    <3> QED
      BY <1>1, <1>2, <2>1, <3>1, StartsSerial DEF Serial
  <2>3. CASE ~loaded
    <3>1. /\ qs' = [qs EXCEPT ![started + 1] = "importing"]
          /\ pc' = [pc EXCEPT ![s] = "starting"]
          /\ line' = [line EXCEPT ![started + 1] = <<s>>]
          /\ UNCHANGED <<owed, busy, tracked, tdone, waiting>>
      BY <1>5, <2>3 DEF EnsureStarted, bootVars
    <3>2. qs'[started + 1] = "importing"
      BY <2>1, <3>1 DEF TypeOK
    <3> QED
      BY <1>1, <2>1, <3>1, <3>2, AwaitsSerial DEF Serial
  <2> QED
    BY <2>2, <2>3
<1> QED
  BY <1>4, <1>5 DEF Send

LEMMA NextSerial ==
  ASSUME TypeOK, TypeOK', Numbered, Serial, ~Overlap, MaxInterrupts = 0, Next
  PROVE  Serial'
<1>0. /\ 0 \notin Queries /\ (input # 0 => input \in Queries)
      /\ queryObj # 0 => queryObj \in Queries
  BY SdkAssumption DEF TypeOK, Queries
<1>1. ASSUME NEW s \in Sends, Send(s)
      PROVE  Serial'
  BY <1>1, SendSerial
<1>2. ASSUME NEW q \in Queries, ImportSettles(q)
      PROVE  Serial'
  <2>1. /\ qs[q] = "importing" /\ starting = q /\ queryObj = 0 /\ input = 0
        /\ \A p \in Queries : qs[p] = "importing" => p = q
    BY <1>2 DEF ImportSettles, Serial, OneInput
  <2>2. Starts(q, line[q]) /\ UNCHANGED <<epoch, rsts>>
    BY <1>2 DEF ImportSettles, ctlVars
  <2>3. Ready /\ OneInput'
    BY <2>1, <2>2, StartsReady DEF Serial
  <2>4. \A p \in Queries : line'[p] = <<>>
    BY <1>2, <2>1 DEF ImportSettles, Serial, Queues, TypeOK
  <2>5. \/ line[q] = <<>>
        \/ \E s \in Sends : /\ line[q] = <<s>> /\ pc[s] # "sent"
                            /\ \A t \in Sends : Pending(t) => t = s
                            /\ waiting = <<>>
    BY DEF Serial, Queues, OneTurn, Pending
  <2> QED
    BY <2>2, <2>3, <2>4, <2>5, StartsSerial DEF Serial
<1>3. ASSUME MetaArrives
      PROVE  Serial'
  <2>0. UNCHANGED <<engineVars, queryVars, loaded, line, ctlVars, epoch>>
    BY <1>3 DEF MetaArrives
  <2>1. OneInput'
    BY <2>0 DEF Serial, OneInput, engineVars, queryVars, ctlVars
  <2>2. CASE waiting = <<>>
    <3>1. UNCHANGED <<pc, owed, busy, tracked, tdone, waiting>>
      BY <1>3, <2>2, NoneMoves DEF MetaArrives
    <3> QED
      BY <2>0, <2>1, <3>1 DEF Serial, OneTurn, Pending, Queues, Slot, BusyExact,
                              engineVars, queryVars
  <2>3. CASE waiting # <<>>
    <3>1. PICK s \in Sends : waiting = <<s>> /\ pc[s] = "recovering"
      BY <2>3 DEF Serial, Queues
    <3>2. Moves(s)
      BY <1>3, <3>1, DispatchMoves DEF MetaArrives
    <3>3. ~busy /\ \A t \in Sends : Pending(t) => t = s
      BY <3>1 DEF Serial, OneTurn, Pending
    <3>4. \A q \in Queries : line'[q] = <<>>
      BY <2>0, <3>1, <3>3 DEF Serial, Queues, Pending
    <3>5. input # 0 => qs[input] \notin {"none", "importing"}
      BY DEF Serial, OneInput, Numbered
    <3>6. Ready
      BY <1>0, <2>0, <3>3, <3>5
         DEF Ready, Serial, Queues, Slot, BusyExact, engineVars, queryVars
    <3> QED
      BY <2>0, <2>1, <3>1, <3>2, <3>3, <3>4, <3>6, MovesSerial DEF Serial
  <2> QED
    BY <2>2, <2>3
<1>4. ASSUME ListModels
      PROVE  Serial'
  <2>1. EnsureStarted(<<>>, pc) /\ UNCHANGED <<epoch, rsts>>
    BY <1>4 DEF ListModels, ctlVars
  <2>2. Ready /\ OneInput' /\ started + 1 \in Queries
    BY <2>1, EnsureStartedReady DEF Serial
  <2>3. UNCHANGED <<pc, owed, busy, tracked, tdone, waiting>>
    <3>1. CASE loaded
      <4>1. Recover(<<>>) \/ Refuse({})
        BY <2>1, <3>1, SetOfNone DEF EnsureStarted, Starts, StartSucceeds, StartFails
      <4> QED
        BY <4>1, NoneMoves
    <3>2. CASE ~loaded
      BY <2>1, <3>2 DEF EnsureStarted, bootVars
    <3> QED
      BY <3>1, <3>2
  <2>4. \A q \in Queries : line[q] = <<>>
    <3>1. queryObj = 0 /\ starting = 0
      BY <2>1 DEF EnsureStarted
    <3> QED
      BY <1>0, <3>1 DEF Serial, Queues, OneInput
  <2>5. \A q \in Queries : line'[q] = <<>>
    <3>1. line' = line \/ line' = [line EXCEPT ![started + 1] = <<>>]
      BY <2>1 DEF EnsureStarted
    <3> QED
      BY <2>2, <2>4, <3>1 DEF TypeOK
  <2> QED
    BY <2>1, <2>2, <2>3, <2>5, NoneSerial DEF Serial
<1>5. ASSUME NEW q \in Queries, Speaks(q)
      PROVE  Serial'
  <2>1. UNCHANGED <<engineVars, loaded, bootVars, queryVars, turnVars, line, ctlVars, epoch>>
    BY <1>5 DEF Speaks
  <2>2. OneTurn' /\ Queues' /\ OneInput'
    BY <2>1 DEF Serial, OneTurn, Pending, Queues, OneInput, engineVars, bootVars,
                queryVars, turnVars, ctlVars
  <2>3. Slot' /\ BusyExact'
    BY <2>1 DEF Serial, Slot, BusyExact, engineVars, queryVars, turnVars
  <2> QED
    BY <2>2, <2>3 DEF Serial
<1>6. ASSUME NEW q \in Queries, Results(q) \/ Ends(q)
      PROVE  Serial'
  <2>1. owed'[q] = <<>> /\ \A p \in Queries : p # q => owed'[p] = owed[p]
    <3>1. ASSUME Results(q)
          PROVE  Tail(owed[q]) = <<>>
      <4>1. PICK s \in Sends : owed[q] = <<s>>
        BY <3>1 DEF Results, Serial, Queues
      <4> QED
        BY <4>1
    <3>2. owed' = [owed EXCEPT ![q] = <<>>]
      <4>1. CASE Results(q)
        BY <3>1, <4>1 DEF Results
      <4>2. CASE Ends(q)
        BY <4>2 DEF Ends
      <4> QED
        BY <1>6, <4>1, <4>2
    <3> QED
      BY <3>2 DEF TypeOK
  <2>2. /\ qs[q] = "up" /\ qs'[q] \in {"up", "over"}
        /\ \A p \in Queries : p # q => qs'[p] = qs[p]
    BY <1>6 DEF Results, Ends, TypeOK, queryVars
  <2>3. UNCHANGED <<pc, waiting, tracked, line, rsts, epoch, loaded>>
    BY <1>6 DEF Results, Ends, bootVars, ctlVars
  <2>4. input = q => queryObj = q
    BY <1>0, <2>2 DEF Serial, OneInput
  <2>5. CASE Results(q)
    <3>1. UNCHANGED <<engineVars, qs>> /\ busy' = (busy /\ queryObj # q)
          /\ tdone' = (tdone \/ tracked # 0)
      BY <2>5 DEF Results, queryVars
    <3>2. OneTurn' /\ Queues' /\ OneInput'
      BY <2>1, <2>3, <3>1 DEF Serial, OneTurn, Pending, Queues, OneInput, engineVars
    <3>3. Slot'
      BY <2>1, <2>2, <2>3, <3>1 DEF Serial, Slot, engineVars
    <3>4. BusyExact'
      BY <1>0, <2>1, <2>4, <3>1 DEF Serial, OneInput, BusyExact, engineVars
    <3> QED
      BY <3>2, <3>3, <3>4 DEF Serial
  <2>6. CASE Ends(q) /\ queryObj = q
    <3>1. /\ ~busy' /\ queryObj' = 0 /\ input' = 0 /\ starting' = 0 /\ tdone' = tdone
          /\ qs'[q] = "over"
      BY <2>6 DEF Ends, TypeOK
    <3>2. OneTurn' /\ Queues' /\ Slot' /\ BusyExact'
      BY <1>0, <2>1, <2>2, <2>3, <3>1
         DEF Serial, OneTurn, Pending, Queues, Slot, BusyExact
    <3>3. OneInput'
      BY <1>0, <2>2, <2>3, <2>6, <3>1 DEF Serial, OneInput
    <3> QED
      BY <3>2, <3>3 DEF Serial
  <2>7. CASE Ends(q) /\ queryObj # q
    <3>1. UNCHANGED <<engineVars, busy, tdone>> /\ qs'[q] = "over"
      BY <2>7 DEF Ends, TypeOK
    <3>2. OneTurn' /\ Queues' /\ Slot'
      BY <2>1, <2>2, <2>3, <3>1 DEF Serial, OneTurn, Pending, Queues, Slot, engineVars
    <3>3. OneInput'
      BY <1>0, <2>2, <2>3, <3>1 DEF Serial, OneInput, engineVars
    <3>4. BusyExact'
      BY <2>1, <2>4, <2>7, <3>1 DEF Serial, BusyExact, engineVars
    <3> QED
      BY <3>2, <3>3, <3>4 DEF Serial
  <2> QED
    BY <1>6, <2>5, <2>6, <2>7
<1>7. Interrupts = {}
  BY DEF Interrupts
<1>8. ASSUME NEW r \in Resets, Reset(r) \/ ResetSettles(r)
      PROVE  Serial'
  <2>1. CASE Drop /\ \A q \in Queries : qs[q] # "importing"
    <3>1. UNCHANGED <<loaded, qs, pc, owed, waiting, tracked, tdone, line>>
      BY <2>1 DEF Drop, bootVars
    <3>2. ~busy' /\ queryObj' = 0 /\ input' = 0 /\ starting' = 0 /\ epoch' # 0
      BY <2>1 DEF Drop, TypeOK
    <3>3. OneTurn' /\ Queues' /\ Slot' /\ BusyExact'
      BY <1>0, <3>1, <3>2 DEF Serial, OneTurn, Pending, Queues, Slot, BusyExact
    <3>4. \A t \in Resets : rsts'[t] = "awaiting" => rsts[t] = "awaiting"
      <4>1. rsts' \in {[rsts EXCEPT ![r] = "over"], [rsts EXCEPT ![r] = "awaiting"]}
        BY <1>8 DEF Reset, ResetSettles
      <4>2. rsts' = [rsts EXCEPT ![r] = "over"] \/ epoch' = epoch
        BY <1>8 DEF Reset, ResetSettles
      <4>3. epoch' # epoch
        BY <2>1 DEF Drop, TypeOK
      <4> QED
        BY <4>2, <4>3 DEF TypeOK
    <3>5. OneInput'
      BY <2>1, <3>1, <3>2, <3>4 DEF Serial, OneInput
    <3> QED
      BY <3>3, <3>5 DEF Serial
  <2>2. CASE Reset(r) /\ queryObj # 0
    <3>1. UNCHANGED <<engineVars, loaded, bootVars, queryVars, turnVars, line, epoch>>
      BY <2>2 DEF Reset
    <3>2. loaded
      BY <2>2 DEF Serial, OneInput
    <3>3. OneInput'
      BY <3>1, <3>2 DEF Serial, OneInput, engineVars, queryVars
    <3> QED
      BY <3>1, <3>3 DEF Serial, OneTurn, Pending, Queues, Slot, BusyExact,
                        engineVars, bootVars, queryVars, turnVars
  <2>3. CASE Reset(r) /\ queryObj = 0
    BY <2>1, <2>3 DEF Reset
  <2>4. CASE ResetSettles(r)
    BY <2>1, <2>4 DEF ResetSettles, Serial, OneInput
  <2> QED
    BY <1>8, <2>2, <2>3, <2>4
<1> QED
  BY <1>1, <1>2, <1>3, <1>4, <1>5, <1>6, <1>7, <1>8 DEF Next

LEMMA SerialInvariance ==
  ASSUME ~Overlap, MaxInterrupts = 0
  PROVE  Spec => []SInv
<1>1. Init => SInv
  <2>1. Init => OneTurn /\ Queues /\ OneInput /\ Slot /\ BusyExact
    BY SdkAssumption
       DEF Init, OneTurn, Pending, Queues, OneInput, Slot, BusyExact, Queries
  <2> QED
    BY <2>1, InitInv DEF IInv, SInv, Serial
<1>2. SInv /\ [Next]_vars => SInv'
  <2> SUFFICES ASSUME SInv, [Next]_vars PROVE SInv'
    OBVIOUS
  <2>1. CASE Next
    BY <2>1, NextTypes, NextNumbered, NextSerial DEF SInv
  <2>2. CASE UNCHANGED vars
    <3> USE <2>2 DEF SInv, vars, engineVars, bootVars, queryVars, turnVars, ctlVars
    <3>1. TypeOK'
      BY DEF TypeOK
    <3>2. Numbered' /\ Counted'
      BY DEF Numbered, Counted
    <3>3. OneTurn' /\ Queues' /\ OneInput'
      BY DEF Serial, OneTurn, Pending, Queues, OneInput
    <3>4. Slot' /\ BusyExact'
      BY DEF Serial, Slot, BusyExact
    <3> QED
      BY <3>1, <3>2, <3>3, <3>4 DEF Serial
  <2> QED
    BY <2>1, <2>2
<1> QED
  BY <1>1, <1>2, PTL DEF Spec

\* With turns one at a time and no Stop, the engine is busy exactly while its
\* input holds an unanswered turn, whatever starts fail and queries die, and
\* until a reset the loop's slot says `done` only when its own turn is over
\* (agentEngine.js:19,91-97, agentTurnTrack.js:12-17).
THEOREM SlotIsExact ==
  ASSUME ~Overlap, MaxInterrupts = 0 PROVE Spec => []SlotExact
<1>1. ASSUME SInv, epoch = 0, tdone
      PROVE  ~Unfinished(tracked)
  <2>1. tracked # 0 /\ pc[tracked] = "sent"
    BY <1>1 DEF SInv, Serial, Slot
  <2>2. \A q \in Queries : qs[q] = "up" => ToSet(owed[q]) = {}
    BY <1>1, SetOfNone DEF SInv, Serial, Slot
  <2> QED
    BY <2>1, <2>2 DEF Unfinished, Running
<1>2. SInv => SlotExact
  BY <1>1 DEF SInv, Serial, SlotExact, FirstDoneMeansDone, DoneMeansDone
<1> QED
  BY <1>2, SerialInvariance, PTL
=============================================================================
