------------------------------ MODULE SdkEngine ------------------------------
(***************************************************************************)
(* The chat engine of the Claude agent (sandbox-runtime/src agentEngine.js *)
(* with sdkInput.js, agentTurnTrack.js, agentRecovery.js): one Agent SDK   *)
(* query, started by the first turn, that reads turns from an input stream *)
(* and whose messages a pump records until it ends or a reset drops it.    *)
(*                                                                         *)
(* As in AcpEngine an action is one event with every continuation that     *)
(* runs before the next: the awaits that take an event of their own are    *)
(* the SDK's first import, the meta fetch, and Query.interrupt().  Queries *)
(* are numbered in the order their starts begin; a query's number is also  *)
(* the id of the session it creates when it resumes none.                  *)
(***************************************************************************)
EXTENDS Naturals, FiniteSets, SequencesExt

CONSTANTS
  MaxSends, MaxQueries, MaxInterrupts, MaxResets, \* bounds
  Overlap,      \* may a turn be sent while the engine is busy with another,
                \* and a reset come during the first import?
  Imported,     \* has the SDK module been loaded before?
  StartMayFail, \* may the import or the call of query() fail?
  PriorWork,    \* does the stored meta prove prior work?
  SavedAtBoot   \* is there a session id on disk at boot?

ASSUME SdkAssumption ==
  /\ {MaxSends, MaxQueries, MaxInterrupts, MaxResets} \subseteq Nat
  /\ {Overlap, Imported, StartMayFail, PriorWork, SavedAtBoot} \subseteq BOOLEAN

Sends == 1..MaxSends
Queries == 1..MaxQueries
BootSession == MaxQueries + 1
Ids == 0..(MaxQueries + 1)
Interrupts == 1..MaxInterrupts
Resets == 1..MaxResets

VARIABLES
  queryObj, input, starting, \* the engine's: a query's number, 0 for null
  busy,
  saved,       \* the session id on disk
  loaded,      \* is the SDK module loaded?
  fired, meta, waiting, \* recovery: the latch, the fetch, the turns awaiting it
  tracked, tdone,       \* the loop-compat slot: its turn and `done`
  started, qs, closed,  \* starts so far; each query; is its input closed?
  sid,         \* the session it resumes or creates
  owed,        \* the turns pushed to it and not answered
  pc, line,    \* each turn; the turns that await each start, in order
  pre,         \* has its prompt the preamble?
  ints, rsts,  \* each interrupt and reset: is it awaiting Query.interrupt()?
  epoch, born  \* history: conversations so far; each query's

engineVars == <<queryObj, input, starting>>
bootVars   == <<fired, meta, waiting, pre>>
queryVars  == <<started, qs, closed, sid, born>>
turnVars   == <<pc, owed, busy, tracked, tdone>>
ctlVars    == <<ints, rsts>>
vars == <<engineVars, saved, loaded, bootVars, queryVars, turnVars, line,
          ctlVars, epoch>>

TypeOK ==
  /\ {queryObj, input, starting, started} \subseteq 0..MaxQueries
  /\ {busy, loaded, fired, tdone} \subseteq BOOLEAN
  /\ saved \in Ids /\ sid \in [Queries -> Ids]
  /\ meta \in {"unasked", "fetching", "known"} /\ waiting \in Seq(Sends)
  /\ qs \in [Queries -> {"none", "importing", "up", "over", "failed"}]
  /\ closed \in [Queries -> BOOLEAN] /\ owed \in [Queries -> Seq(Sends)]
  /\ pc \in [Sends -> {"idle", "starting", "recovering", "sent", "refused"}]
  /\ line \in [Queries -> Seq(Sends)] /\ pre \in [Sends -> BOOLEAN]
  /\ tracked \in 0..MaxSends
  /\ ints \in [Interrupts -> {"idle", "awaiting", "over"}]
  /\ rsts \in [Resets -> {"idle", "awaiting", "over"}]
  /\ epoch \in 0..MaxResets /\ born \in [Queries -> 0..MaxResets]

Init ==
  /\ queryObj = 0 /\ input = 0 /\ starting = 0 /\ busy = FALSE
  /\ saved = (IF SavedAtBoot THEN BootSession ELSE 0) /\ loaded = Imported
  /\ fired = FALSE /\ meta = "unasked" /\ waiting = <<>>
  /\ pre = [s \in Sends |-> FALSE]
  /\ tracked = 0 /\ tdone = FALSE
  /\ started = 0 /\ qs = [q \in Queries |-> "none"]
  /\ closed = [q \in Queries |-> FALSE] /\ sid = [q \in Queries |-> 0]
  /\ owed = [q \in Queries |-> <<>>]
  /\ pc = [s \in Sends |-> "idle"] /\ line = [q \in Queries |-> <<>>]
  /\ ints = [i \in Interrupts |-> "idle"] /\ rsts = [r \in Resets |-> "idle"]
  /\ epoch = 0 /\ born = [q \in Queries |-> 0]

Running(s) == \E q \in Queries : qs[q] = "up" /\ s \in ToSet(owed[q])
Unfinished(s) == pc[s] \in {"starting", "recovering"} \/ Running(s)

-----------------------------------------------------------------------------
(* The pieces of a step.                                                   *)

\* send() after maybeRecover, for the turns of Q in order: each is pushed to
\* whatever `input` is now, or refused if there is none.  The first of them
\* carries the preamble if it latches; a refused one un-latches.
Dispatch(Q, latches) ==
  /\ pc' = [s \in Sends |-> IF s \notin ToSet(Q) THEN pc[s]
                            ELSE IF input' = 0 THEN "refused" ELSE "sent"]
  /\ IF Q = <<>> \/ input' = 0
     THEN UNCHANGED <<owed, busy, tracked, tdone, fired, pre>>
     ELSE /\ owed' = [owed EXCEPT ![input'] = @ \o Q]
          /\ busy' = TRUE /\ tracked' = Last(Q) /\ tdone' = FALSE
          /\ fired' = (fired \/ latches)
          /\ pre' = [pre EXCEPT ![Head(Q)] = latches]

\* maybeRecover for the turns of Q: at once if latched, if a session id is
\* saved, or if the meta is known; else after the fetch.
Recover(Q) ==
  IF fired \/ saved # 0 \/ meta = "known"
  THEN /\ Dispatch(Q, ~fired /\ saved = 0 /\ PriorWork)
       /\ UNCHANGED <<meta, waiting>>
  ELSE /\ waiting' = waiting \o Q
       /\ meta' = IF Q = <<>> THEN meta ELSE "fetching"
       /\ pc' = [s \in Sends |-> IF s \in ToSet(Q) THEN "recovering" ELSE pc[s]]
       /\ UNCHANGED <<owed, busy, tracked, tdone, fired, pre>>

Refuse(S) ==
  /\ pc' = [s \in Sends |-> IF s \in S THEN "refused" ELSE pc[s]]
  /\ UNCHANGED <<owed, busy, tracked, tdone, bootVars>>

\* The start of q after the import, for the turns of Q: query() is called and
\* the turns that awaited it go on.
StartSucceeds(q, Q) ==
  /\ queryObj' = q /\ input' = q /\ starting' = 0
  /\ qs' = [qs EXCEPT ![q] = "up"] /\ loaded' = TRUE
  /\ sid' = [sid EXCEPT ![q] = IF saved = 0 THEN q ELSE saved]
  /\ born' = [born EXCEPT ![q] = epoch]
  /\ Recover(Q)

\* Variant: a start that fails does not tell the turns that await it.
StartFailsQuietly(q, Q) ==
  /\ StartMayFail
  /\ qs' = [qs EXCEPT ![q] = "failed"]
  /\ starting' = 0
  /\ Refuse({})
  /\ UNCHANGED <<queryObj, input, loaded, sid, born>>

\* Or the import or query() fails, and they are refused.  `starting` is cleared
\* only if there is a query by then.
StartFails(q, Q) ==
  /\ StartMayFail
  /\ qs' = [qs EXCEPT ![q] = "failed"]
  /\ \/ input' = q /\ loaded' = TRUE
     \/ ~loaded /\ UNCHANGED <<input, loaded>>
  /\ starting' = (IF queryObj # 0 THEN 0
                 ELSE IF qs[q] = "importing" THEN starting ELSE q)
  /\ Refuse(ToSet(Q))
  /\ UNCHANGED <<queryObj, sid, born>>

Starts(q, Q) == StartSucceeds(q, Q) \/ StartFails(q, Q)

\* ensureStarted() when there is neither a query nor a start: the import is
\* awaited the first time only.
EnsureStarted(Q, next) ==
  LET q == started + 1 IN
  /\ queryObj = 0 /\ starting = 0 /\ started < MaxQueries
  /\ started' = q
  /\ IF loaded
     THEN Starts(q, Q) /\ UNCHANGED line
     ELSE /\ starting' = q /\ qs' = [qs EXCEPT ![q] = "importing"]
          /\ pc' = next /\ line' = [line EXCEPT ![q] = Q]
          /\ UNCHANGED <<queryObj, input, loaded, sid, born, owed, busy, tracked,
                         tdone, bootVars>>
  /\ UNCHANGED closed

-----------------------------------------------------------------------------
(* Turns.                                                                  *)

\* POST /agent/message: send().
Send(s) ==
  /\ pc[s] = "idle" /\ \A r \in 1..(s - 1) : pc[r] # "idle"
  /\ Overlap \/ (~busy /\ \A r \in Sends : pc[r] \notin {"starting", "recovering"})
  /\ \/ /\ queryObj # 0 /\ UNCHANGED engineVars
        /\ Recover(<<s>>)
        /\ UNCHANGED <<queryVars, loaded, line>>
     \/ /\ queryObj = 0 /\ starting # 0 /\ qs[starting] = "importing"
        /\ pc' = [pc EXCEPT ![s] = "starting"] /\ line' = [line EXCEPT ![starting] = Append(@, s)]
        /\ UNCHANGED <<engineVars, queryVars, loaded, owed, busy, tracked, tdone, bootVars>>
     \/ \* the promise of a start that has failed
        /\ queryObj = 0 /\ starting # 0 /\ qs[starting] = "failed"
        /\ Refuse({s}) /\ UNCHANGED <<engineVars, queryVars, loaded, line>>
     \/ EnsureStarted(<<s>>, [pc EXCEPT ![s] = "starting"])
  /\ UNCHANGED <<saved, ctlVars, epoch>>

\* The import of q's start settles.
ImportSettles(q) ==
  /\ qs[q] = "importing"
  /\ Starts(q, line[q]) /\ line' = [line EXCEPT ![q] = <<>>]
  /\ UNCHANGED <<started, closed, saved, ctlVars, epoch>>

\* The meta fetch answers or times out: the turns that awaited it go on.
MetaArrives ==
  /\ meta = "fetching" /\ meta' = "known" /\ waiting' = <<>>
  /\ UNCHANGED engineVars
  /\ Dispatch(waiting, ~fired /\ PriorWork)
  /\ UNCHANGED <<queryVars, loaded, line, saved, ctlVars, epoch>>

\* Variant: the pump does not ask whether q is still the engine's query.
SpeaksAlways(q) ==
  /\ qs[q] = "up" /\ owed[q] # <<>>
  /\ saved' = sid[q]
  /\ UNCHANGED <<engineVars, loaded, bootVars, queryVars, turnVars, line,
                 ctlVars, epoch>>

\* The pump reads a message that names the session.
Speaks(q) ==
  /\ qs[q] = "up" /\ owed[q] # <<>>
  /\ saved' = (IF queryObj = q THEN sid[q] ELSE saved)
  /\ UNCHANGED <<engineVars, loaded, bootVars, queryVars, turnVars, line,
                 ctlVars, epoch>>

\* Variant: a result ends `busy` whoever's it is.
ResultsClobbering(q) ==
  /\ qs[q] = "up" /\ owed[q] # <<>>
  /\ saved' = (IF queryObj = q THEN sid[q] ELSE saved)
  /\ busy' = FALSE
  /\ owed' \in {[owed EXCEPT ![q] = Tail(@)], [owed EXCEPT ![q] = <<>>]}
  /\ tdone' = (tdone \/ tracked # 0)
  /\ UNCHANGED <<engineVars, loaded, bootVars, queryVars, pc, tracked, line,
                 ctlVars, epoch>>

\* It reads a result, which answers the oldest turn or, when the later ones
\* steered it, all of them.  The slot is closed whoever's result it is.
Results(q) ==
  /\ qs[q] = "up" /\ owed[q] # <<>>
  /\ saved' = (IF queryObj = q THEN sid[q] ELSE saved)
  /\ busy' = (busy /\ queryObj # q)
  /\ owed' \in {[owed EXCEPT ![q] = Tail(@)], [owed EXCEPT ![q] = <<>>]}
  /\ tdone' = (tdone \/ tracked # 0)
  /\ UNCHANGED <<engineVars, loaded, bootVars, queryVars, pc, tracked, line,
                 ctlVars, epoch>>

\* q's stream ends or throws.  What it owed is never answered; the error
\* result of a throw is recorded for the readers and not for the slot.
Ends(q) ==
  /\ qs[q] = "up" /\ qs' = [qs EXCEPT ![q] = "over"]
  /\ owed' = [owed EXCEPT ![q] = <<>>]
  /\ IF queryObj = q
     THEN busy' = FALSE /\ queryObj' = 0 /\ input' = 0 /\ starting' = 0
     ELSE UNCHANGED <<engineVars, busy>>
  /\ UNCHANGED <<saved, loaded, bootVars, started, closed, sid, born, pc, tracked,
                 tdone, line, ctlVars, epoch>>

-----------------------------------------------------------------------------
(* Control.                                                                *)

\* GET /agent/models and POST /agent/model start a session too.
ListModels ==
  /\ EnsureStarted(<<>>, pc)
  /\ UNCHANGED <<saved, ctlVars, epoch>>

\* interrupt(): at once when there is no query, else after Query.interrupt().
Interrupt(i) ==
  /\ ints[i] = "idle" /\ \A j \in 1..(i - 1) : ints[j] # "idle"
  /\ IF queryObj = 0
     THEN ints' = [ints EXCEPT ![i] = "over"] /\ busy' = FALSE
     ELSE ints' = [ints EXCEPT ![i] = "awaiting"] /\ UNCHANGED busy
  /\ UNCHANGED <<engineVars, saved, loaded, bootVars, queryVars, pc, owed, tracked,
                 tdone, line, rsts, epoch>>

\* It resolves, or rejects and leaves `busy` alone.
InterruptSettles(i) ==
  /\ ints[i] = "awaiting" /\ ints' = [ints EXCEPT ![i] = "over"]
  /\ busy' \in {busy, FALSE}
  /\ UNCHANGED <<engineVars, saved, loaded, bootVars, queryVars, pc, owed, tracked,
                 tdone, line, rsts, epoch>>

\* reset() after its await: it drops the query of that moment.
Drop ==
  /\ closed' = [q \in Queries |-> closed[q] \/ q = input]
  /\ busy' = FALSE /\ queryObj' = 0 /\ input' = 0 /\ starting' = 0
  /\ saved' = 0 /\ epoch' = epoch + 1
  /\ UNCHANGED <<loaded, bootVars, started, qs, sid, born, pc, owed, tracked,
                 tdone, line, ints>>

Reset(r) ==
  /\ rsts[r] = "idle" /\ \A j \in 1..(r - 1) : rsts[j] # "idle"
  /\ Overlap \/ \A q \in Queries : qs[q] # "importing"
  /\ IF queryObj = 0
     THEN rsts' = [rsts EXCEPT ![r] = "over"] /\ Drop
     ELSE /\ rsts' = [rsts EXCEPT ![r] = "awaiting"]
          /\ UNCHANGED <<engineVars, saved, loaded, bootVars, queryVars, turnVars,
                         line, ints, epoch>>

ResetSettles(r) ==
  /\ rsts[r] = "awaiting" /\ rsts' = [rsts EXCEPT ![r] = "over"]
  /\ Drop

-----------------------------------------------------------------------------
Next ==
  \/ \E s \in Sends : Send(s)
  \/ \E q \in Queries : ImportSettles(q) \/ Speaks(q) \/ Results(q) \/ Ends(q)
  \/ MetaArrives \/ ListModels
  \/ \E i \in Interrupts : Interrupt(i) \/ InterruptSettles(i)
  \/ \E r \in Resets : Reset(r) \/ ResetSettles(r)

Spec == Init /\ [][Next]_vars

\* An import settles, and the meta fetch has a timer of 8 s.
FairSpec ==
  Spec /\ WF_vars(MetaArrives) /\ \A q \in Queries : WF_vars(ImportSettles(q))

-----------------------------------------------------------------------------
(* Properties.                                                             *)

\* There is one session: a query whose input is open is the engine's
\* (agentEngine.js:1,18), whatever resets and crashes it outlives.
NoOrphan == \A q \in Queries : qs[q] = "up" /\ ~closed[q] => queryObj = q

\* The engine is busy only while its own query, still running, owes a result
\* that will end it (agentEngine.js:19,57-59).
BusyMeansOwed == busy => queryObj # 0 /\ qs[queryObj] = "up" /\ owed[queryObj] # <<>>

\* Without a Stop, and one turn at a time, it is busy exactly while its input
\* stream holds an unanswered turn (agentEngine.js:19,91-97).
BusyExact == busy <=> \E q \in Queries : q = input /\ owed[q] # <<>>

Conversation(id) == IF id = BootSession THEN 0 ELSE born[id]

\* What is saved to be resumed is a session of this conversation: a pump that
\* drains after a reset brings no earlier one back (agentEngine.js:38-40).
NoResurrection == saved # 0 => Conversation(saved) = epoch

\* The recovery preamble is dispatched at most once per boot
\* (agentRecovery.js:46-50).
PreambleOnce == Cardinality({s \in Sends : pre[s]}) <= 1

\* The loop's slot says `done` only when its turn is over
\* (agentTurnTrack.js:12-17).
DoneMeansDone == tdone => ~Unfinished(tracked)

\* So it is in the first conversation: only a query that a reset dropped can
\* close the slot of a turn that is not its own.
FirstDoneMeansDone == epoch = 0 => DoneMeansDone

\* No turn waits for ever on a start or on the meta fetch.
WaitsEnd ==
  \A s \in Sends : pc[s] \in {"starting", "recovering"} ~> pc[s] \in {"sent", "refused"}

(* One conversation at a time: no query with an open input outlives its place,
   nothing an earlier conversation saved comes back, the engine is busy only with
   what its own query owes, and the recovery preamble is told once. *)
OneConversation == TypeOK /\ NoOrphan /\ NoResurrection /\ BusyMeansOwed /\ PreambleOnce

(* With turns one at a time, what the loop reads of the engine is exact: busy
   while its query owes an answer, done when its own turn is over. *)
SlotExact == BusyExact /\ FirstDoneMeansDone
=============================================================================
