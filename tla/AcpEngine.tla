------------------------------ MODULE AcpEngine ------------------------------
(***************************************************************************)
(* The chat engine of the non-Claude agents (sandbox-runtime/src           *)
(* acpEngine.js, acp/*.js): one agent child, spawned by the first turn,    *)
(* handshaken (initialize, then session/load or session/new), given one    *)
(* session/prompt per turn, killed by an auth error or a reset and spawned *)
(* again by the next turn.                                                 *)
(*                                                                         *)
(* Node runs one event at a time with the microtasks it releases, so each  *)
(* action is an event (an HTTP call, a line or the exit of a child, a      *)
(* timer) with every continuation that runs before the next event.  The    *)
(* awaits of send() are the states a turn waits in.  Children are numbered *)
(* in spawn order and name their start and the session they create.        *)
(***************************************************************************)
EXTENDS Naturals, FiniteSets, SequencesExt

CONSTANTS
  MaxSends,      \* bound: turns sent
  MaxChildren,   \* bound: children spawned
  MaxInterrupts, \* bound: interrupts
  MaxResets,     \* bound: conversation resets
  Overlap,       \* may a turn be sent while another is not finished?
  CanLoad,       \* does the agent advertise loadSession?
  PriorWork,     \* does the stored meta prove prior work?
  Orchestrator,  \* is there an orchestrator to fetch the meta from?
  SavedAtBoot    \* is there a session id on disk at boot?

ASSUME EngineAssumption ==
  /\ {MaxSends, MaxChildren, MaxInterrupts, MaxResets} \subseteq Nat
  /\ {Overlap, CanLoad, PriorWork, Orchestrator, SavedAtBoot} \subseteq BOOLEAN

Sends == 1..MaxSends
Children == 1..MaxChildren
BootSession == MaxChildren + 1   \* the session an earlier boot left on disk
Ids == 0..(MaxChildren + 1)      \* session ids; 0 is null

VARIABLES
  child,      \* child and rpc: the current child, 0 if none
  sessionId, starting, loaded, busy, pending, generation,
  saved,      \* the session id on disk
  fired, meta,\* the recovery latch; the once-per-boot meta fetch
  tracked, tdone, \* the loop-compat turn slot: its turn and `done`
  overtaken,  \* history: a child was spawned in the middle of a start or a turn
  spawned, interrupts, \* children and interrupts so far
  proc,       \* each child process
  hs, asked,  \* its handshake: the request under way, the id it loads
  opened,     \* the session it opened
  pc, on, sgen, \* each turn: where send() is, the child prompted, its `gen`
  line,         \* the turns that await each child's start, in order
  psess, pre, \* the session id its prompt carries; has it the preamble?
  ended,      \* result lines recorded for it
  waiting     \* turns awaiting the meta fetch, in order

engineVars == <<child, sessionId, starting, loaded, generation, saved>>
countVars  == <<busy, pending, ended, tdone>>
bootVars   == <<fired, meta, waiting, pre>>
births     == <<spawned, overtaken>>
startVars  == <<births, proc, hs, asked, opened>>
turnVars   == <<pc, on, sgen, psess, line>>
vars == <<engineVars, countVars, bootVars, startVars, turnVars, tracked, interrupts>>

TypeOK ==
  /\ child \in 0..MaxChildren /\ starting \in 0..MaxChildren
  /\ sessionId \in Ids /\ saved \in Ids
  /\ {loaded, busy, fired, tdone, overtaken} \subseteq BOOLEAN
  /\ pending \in 0..MaxSends
  /\ generation \in 0..MaxResets
  /\ meta \in {"unasked", "fetching", "known"}
  /\ tracked \in 0..MaxSends
  /\ spawned \in 0..MaxChildren /\ interrupts \in 0..MaxInterrupts
  /\ proc \in [Children -> {"none", "up", "killed", "gone"}]
  /\ hs \in [Children -> {"none", "init", "load", "new", "done", "failed"}]
  /\ asked \in [Children -> Ids] /\ opened \in [Children -> Ids]
  /\ pc \in [Sends -> {"idle", "starting", "recovering", "prompted", "done"}]
  /\ on \in [Sends -> 0..MaxChildren] /\ psess \in [Sends -> Ids]
  /\ sgen \in [Sends -> 0..MaxResets] /\ line \in [Children -> Seq(Sends)]
  /\ pre \in [Sends -> BOOLEAN]
  /\ ended \in [Sends -> 0..2]
  /\ waiting \in Seq(Sends)

Init ==
  /\ child = 0 /\ sessionId = 0 /\ starting = 0 /\ loaded = FALSE
  /\ busy = FALSE /\ pending = 0 /\ generation = 0
  /\ saved = IF SavedAtBoot THEN BootSession ELSE 0
  /\ fired = FALSE /\ waiting = <<>>
  /\ meta = IF Orchestrator THEN "unasked" ELSE "known"
  /\ tracked = 0 /\ tdone = FALSE /\ spawned = 0 /\ overtaken = FALSE
  /\ interrupts = 0
  /\ proc = [c \in Children |-> "none"] /\ hs = [c \in Children |-> "none"]
  /\ asked = [c \in Children |-> 0] /\ opened = [c \in Children |-> 0]
  /\ pc = [s \in Sends |-> "idle"] /\ on = [s \in Sends |-> 0]
  /\ line = [c \in Children |-> <<>>]
  /\ sgen = [s \in Sends |-> 0] /\ psess = [s \in Sends |-> 0]
  /\ pre = [s \in Sends |-> FALSE] /\ ended = [s \in Sends |-> 0]

-----------------------------------------------------------------------------
(* The pieces of a step.                                                   *)

Current(S) == {s \in S : sgen[s] = generation}
Starters(c) == ToSet(line[c])
Prompted(c) == {s \in Sends : pc[s] = "prompted" /\ on[s] = c}

Minus(n, k) == IF n > k THEN n - k ELSE 0

\* Variant: the finishers do not look at the generation.
SettleAlways(S) ==
  /\ pending' = Minus(pending, Cardinality(S))
  /\ busy' = IF S = {} THEN busy ELSE pending' > 0
  /\ ended' = [s \in Sends |-> IF s \in S THEN ended[s] + 1 ELSE ended[s]]
  /\ tdone' = (tdone \/ (S # {} /\ tracked # 0))

\* finishTurn/finishError for each turn of S: the stale ones are dropped; the
\* others settle the counter and record a result, which closes the slot.
Settle(S) ==
  /\ pending' = Minus(pending, Cardinality(Current(S)))
  /\ busy' = IF Current(S) = {} THEN busy ELSE pending' > 0
  /\ ended' = [s \in Sends |-> IF s \in Current(S) THEN ended[s] + 1 ELSE ended[s]]
  /\ tdone' = (tdone \/ (Current(S) # {} /\ tracked # 0))

Finish(S) ==
  /\ Settle(S)
  /\ pc' = [s \in Sends |-> IF s \in S THEN "done" ELSE pc[s]]

\* killChild(): forget the current child, whoever it is, and SIGTERM it.
KillChild ==
  /\ child' = 0 /\ sessionId' = 0 /\ starting' = 0
  /\ proc' = IF child = 0 THEN proc ELSE [proc EXCEPT ![child] = "killed"]

\* After maybeRecover, for the turns of Q in order: dispatch the prompt, or
\* end the turn if there is no child or the turn is stale.  The first of them
\* carries the preamble if it latches; a dropped one un-latches.
Dispatch(Q, latches) ==
  LET go == {s \in Current(ToSet(Q)) : child # 0} IN
  /\ pc' = [s \in Sends |-> IF s \in go THEN "prompted"
                            ELSE IF s \in ToSet(Q) THEN "done" ELSE pc[s]]
  /\ on' = [s \in Sends |-> IF s \in go THEN child ELSE on[s]]
  /\ psess' = [s \in Sends |-> IF s \in go THEN sessionId' ELSE psess[s]]
  /\ Settle(ToSet(Q) \ go)
  /\ fired' = (fired \/ (latches /\ Head(Q) \in go))
  /\ pre' = [s \in Sends |-> pre[s] \/ (latches /\ s = Head(Q) /\ s \in go)]

\* maybeRecover for the turns of Q: at once if latched, resumed or fetched,
\* else after the fetch.
Recover(Q) ==
  IF fired \/ loaded' \/ meta = "known"
  THEN /\ Dispatch(Q, Q # <<>> /\ ~ fired /\ ~ loaded' /\ PriorWork)
       /\ UNCHANGED <<meta, waiting>>
  ELSE /\ waiting' = waiting \o Q
       /\ meta' = IF Q = <<>> THEN meta ELSE "fetching"
       /\ pc' = [s \in Sends |-> IF s \in ToSet(Q) THEN "recovering" ELSE pc[s]]
       /\ UNCHANGED <<on, psess, countVars, fired, pre>>

-----------------------------------------------------------------------------
(* The session's start.                                                    *)

\* What a spawn can come in the middle of: another start that goes on without
\* its child, the session one has left, a turn that has passed its start.
Handshaking == {c \in Children : hs[c] \in {"init", "load", "new"}}
InFlight == Current({s \in Sends : pc[s] \in {"recovering", "prompted"}})
Overtakes == Handshaking # {} \/ sessionId # 0 \/ InFlight # {}

\* startSession() up to its first await.
StartSession ==
  LET c == spawned + 1 IN
  /\ spawned < MaxChildren
  /\ spawned' = c /\ overtaken' = (overtaken \/ Overtakes)
  /\ child' = c /\ starting' = c
  /\ proc' = [proc EXCEPT ![c] = "up"]
  /\ hs' = [hs EXCEPT ![c] = "init"]
  /\ UNCHANGED <<sessionId, loaded, generation, saved, asked, opened>>

\* Variant: a spawned child counts as a started session.
StartedEarly == child # 0

Started == child # 0 /\ sessionId # 0

\* The next request of the handshake, answered by nobody if c is gone.
Asks(c, request) ==
  /\ hs' = [hs EXCEPT ![c] = request]
  /\ UNCHANGED <<engineVars, countVars, bootVars, turnVars, tracked, interrupts,
                 births, proc, opened>>

InitializeAnswered(c) ==
  /\ hs[c] = "init" /\ proc[c] \in {"up", "killed"}
  /\ asked' = [asked EXCEPT ![c] = IF CanLoad THEN saved ELSE 0]
  /\ Asks(c, IF asked'[c] # 0 THEN "load" ELSE "new")

\* The session is open: the engine's variables are set, `starting` cleared,
\* and the turns that awaited the start go on.
Opens(c, id, resumed) ==
  /\ hs' = [hs EXCEPT ![c] = "done"]
  /\ opened' = [opened EXCEPT ![c] = id]
  /\ sessionId' = id /\ starting' = 0
  /\ loaded' = resumed
  /\ Recover(line[c]) /\ line' = [line EXCEPT ![c] = <<>>]
  /\ UNCHANGED <<child, generation, asked, births, proc, sgen, tracked, interrupts>>

LoadAnswered(c) ==
  /\ hs[c] = "load" /\ proc[c] \in {"up", "killed"}
  /\ Opens(c, asked[c], TRUE)
  /\ UNCHANGED saved

\* An answer without a session id is no error: the id stays null.
NewAnswered(c) ==
  /\ hs[c] = "new" /\ proc[c] \in {"up", "killed"}
  /\ \/ Opens(c, c, FALSE) /\ saved' = c
     \/ Opens(c, 0, FALSE) /\ UNCHANGED saved

\* An error answer to, or the 30 s timeout of, the request under way: a failed
\* load falls back to session/new; else the start fails, which kills the
\* current child, clears `starting` and ends the turns that awaited it.
RequestFails(c) ==
  \/ /\ hs[c] = "load"
     /\ Asks(c, "new")
     /\ UNCHANGED asked
  \/ /\ hs[c] \in {"init", "new"}
     /\ hs' = [hs EXCEPT ![c] = "failed"]
     /\ KillChild
     /\ Finish(Starters(c)) /\ line' = [line EXCEPT ![c] = <<>>]
     /\ UNCHANGED <<loaded, generation, saved, bootVars, births, asked, opened,
                    on, sgen, psess, tracked, interrupts>>

\* Variant: the requests of a child that is gone are never timed out.
RequestFailsIfUp(c) == proc[c] # "gone" /\ RequestFails(c)

HandshakeFails(c) == RequestFails(c)

\* Variant: the exit hook is killChild.
ChildExitKillsAny(c) ==
  LET fails == hs[c] \in {"init", "new"} IN
  /\ proc[c] \in {"up", "killed"}
  /\ child' = 0 /\ sessionId' = 0 /\ starting' = 0
  /\ proc' = [d \in Children |->
                IF d = c THEN "gone" ELSE IF d = child THEN "killed" ELSE proc[d]]
  /\ hs' = [hs EXCEPT ![c] = CASE fails -> "failed" [] @ = "load" -> "new" [] OTHER -> @]
  /\ Finish(Prompted(c) \cup IF fails THEN Starters(c) ELSE {})
  /\ line' = IF fails THEN [line EXCEPT ![c] = <<>>] ELSE line
  /\ UNCHANGED <<loaded, generation, saved, bootVars, births, asked, opened,
                 on, sgen, psess, tracked, interrupts>>

\* c exits: the session is dropped if c is current, and every request pending
\* on c is rejected.  A rejected load is followed by a session/new to nobody.
ChildExit(c) ==
  LET fails == hs[c] \in {"init", "new"}
      left  == IF child = c THEN 0 ELSE child
  IN
  /\ proc[c] \in {"up", "killed"}
  /\ child' = IF fails THEN 0 ELSE left
  /\ proc' = [d \in Children |->
                IF d = c THEN "gone"
                ELSE IF fails /\ d = left THEN "killed" ELSE proc[d]]
  /\ IF child = c \/ fails
     THEN sessionId' = 0 /\ starting' = 0
     ELSE UNCHANGED <<sessionId, starting>>
  /\ hs' = [hs EXCEPT ![c] = CASE fails -> "failed" [] @ = "load" -> "new" [] OTHER -> @]
  /\ Finish(Prompted(c) \cup IF fails THEN Starters(c) ELSE {})
  /\ line' = IF fails THEN [line EXCEPT ![c] = <<>>] ELSE line
  /\ UNCHANGED <<loaded, generation, saved, bootVars, births, asked, opened,
                 on, sgen, psess, tracked, interrupts>>

-----------------------------------------------------------------------------
(* Turns.                                                                  *)

Unfinished(s) == pc[s] \in {"starting", "recovering", "prompted"}

\* beginTurn(): the slot is this turn's, and not done.
BeginTurn(s) == tracked' = s /\ tdone' = FALSE

\* POST /agent/message: send() up to its first await that takes an event.
Send(s) ==
  /\ pc[s] = "idle" /\ \A r \in 1..(s - 1) : pc[r] # "idle"
  /\ Overlap \/ Current({r \in Sends : Unfinished(r)}) = {}
  /\ UNCHANGED interrupts
  /\ \/ \* the session has to be started, or is being started
        /\ ~ Started
        /\ IF starting = 0 THEN StartSession ELSE UNCHANGED <<engineVars, startVars>>
        /\ pc' = [pc EXCEPT ![s] = "starting"]
        /\ line' = [line EXCEPT ![starting'] = Append(@, s)]
        /\ sgen' = [sgen EXCEPT ![s] = generation]
        /\ pending' = pending + 1 /\ busy' = TRUE
        /\ BeginTurn(s)
        /\ UNCHANGED <<ended, on, psess, bootVars>>
     \/ \* straight to the recovery decision
        /\ Started
        /\ pending' = pending + 1 /\ busy' = TRUE
        /\ sgen' = [sgen EXCEPT ![s] = generation]
        /\ BeginTurn(s)
        /\ IF fired \/ loaded \/ meta = "known"
           THEN LET latches == ~ fired /\ ~ loaded /\ PriorWork IN
                /\ pc' = [pc EXCEPT ![s] = "prompted"]
                /\ on' = [on EXCEPT ![s] = child]
                /\ psess' = [psess EXCEPT ![s] = sessionId]
                /\ fired' = (fired \/ latches)
                /\ pre' = [pre EXCEPT ![s] = latches]
                /\ UNCHANGED <<meta, waiting>>
           ELSE /\ pc' = [pc EXCEPT ![s] = "recovering"]
                /\ waiting' = Append(waiting, s)
                /\ meta' = "fetching"
                /\ UNCHANGED <<on, psess, fired, pre>>
        /\ UNCHANGED <<engineVars, startVars, ended, line>>

\* The meta fetch answers or times out: the turns that awaited it go on.
MetaArrives ==
  /\ meta = "fetching" /\ meta' = "known"
  /\ waiting' = <<>>
  /\ UNCHANGED <<engineVars, startVars, sgen, line, tracked, interrupts>>
  /\ Dispatch(waiting, ~ fired /\ PriorWork)

\* The prompt resolves or is refused by the agent.
PromptAnswered(s) ==
  /\ pc[s] = "prompted" /\ proc[on[s]] \in {"up", "killed"}
  /\ Finish({s})
  /\ UNCHANGED <<engineVars, bootVars, startVars, on, sgen, psess, line, tracked,
                 interrupts>>

\* It fails with an auth error: the child is killed, the next turn retries.
PromptUnauthorized(s) ==
  /\ pc[s] = "prompted" /\ proc[on[s]] \in {"up", "killed"}
  /\ sgen[s] = generation
  /\ Finish({s})
  /\ KillChild
  /\ UNCHANGED <<loaded, generation, saved, bootVars, births, hs, asked, opened,
                 on, sgen, psess, line, tracked, interrupts>>

-----------------------------------------------------------------------------
(* Control.                                                                *)

\* GET /agent/models starts a session too.
ListModels ==
  /\ ~ Started /\ starting = 0
  /\ StartSession
  /\ UNCHANGED <<countVars, bootVars, turnVars, tracked, interrupts>>

Interrupt ==
  /\ interrupts < MaxInterrupts /\ interrupts' = interrupts + 1
  /\ busy' = FALSE /\ pending' = 0
  /\ UNCHANGED <<engineVars, ended, tdone, bootVars, startVars, turnVars, tracked>>

Reset ==
  /\ generation < MaxResets /\ generation' = generation + 1
  /\ KillChild
  /\ busy' = FALSE /\ pending' = 0 /\ loaded' = FALSE
  /\ saved' = 0
  /\ UNCHANGED <<ended, tdone, bootVars, births, hs, asked, opened, turnVars,
                 tracked, interrupts>>

-----------------------------------------------------------------------------
Next ==
  \/ \E s \in Sends : Send(s) \/ PromptAnswered(s) \/ PromptUnauthorized(s)
  \/ \E c \in Children :
       \/ InitializeAnswered(c) \/ LoadAnswered(c) \/ NewAnswered(c)
       \/ HandshakeFails(c) \/ ChildExit(c)
  \/ MetaArrives \/ ListModels \/ Interrupt \/ Reset

\* Both waits are bounded by timers: 30 s a request, 8 s the fetch.
Fairness == WF_vars(MetaArrives) /\ \A c \in Children : WF_vars(HandshakeFails(c))

Spec == Init /\ [][Next]_vars
FairSpec == Spec /\ Fairness

-----------------------------------------------------------------------------
(* Properties.                                                             *)

\* The counter is exact: it is the number of turns of this conversation that
\* are not finished, and the engine is busy exactly while there is one
\* (acpEngine.js:40, acp/turnFinish.js:17-41).
PendingExact ==
  /\ pending = Cardinality(Current({s \in Sends : Unfinished(s)}))
  /\ busy <=> pending > 0

\* A turn of this conversation that is over has one result line, however it
\* ended; an abandoned conversation's turn never gets a second one
\* (acp/turnFinish.js:20-31).
OneResult ==
  \A s \in Sends :
    /\ ended[s] <= 1
    /\ pc[s] = "done" /\ sgen[s] = generation => ended[s] = 1
    /\ Unfinished(s) => ended[s] = 0

\* A prompt carries the session that its child has opened (null if the agent
\* gave none), unless a child was spawned in the middle of a start or a turn:
\* send() reads both again after its two awaits (acpEngine.js:82-89).
PromptInSession ==
  ~ overtaken => \A s \in Sends :
    pc[s] = "prompted" => hs[on[s]] = "done" /\ psess[s] = opened[on[s]]

\* Has an agent opened a session without giving its id?
Nameless == \E c \in Children : hs[c] = "done" /\ opened[c] = 0

\* A child that nobody asked to leave is the engine's current one: starts do
\* not run side by side and none forgets another's child (acpEngine.js:66-70);
\* but a start without a session id does not count as one (67), and the next
\* turn spawns another.
NoOrphan == Nameless \/ \A c \in Children : proc[c] = "up" => child = c

\* Only a reset, an auth error, or the failure of its own start ends a child
\* that works (acpEngine.js:35-36,55,68), unless it was spawned, or one since, in
\* the middle of a start or a turn: what fails then kills the one that came after.
SuccessorSpared ==
  [][~ overtaken => \A c \in Children :
       (proc[c] = "up" /\ proc'[c] = "killed")
         => \/ generation' # generation
            \/ hs'[c] = "failed"
            \/ \E s \in Prompted(c) : pc'[s] = "done"]_vars

\* The recovery preamble is dispatched at most once per boot
\* (agentRecovery.js:46-50).
PreambleOnce == Cardinality({s \in Sends : pre[s]}) <= 1

\* The loop's slot says `done` only when its own turn is over, if turns come one
\* at a time (agentTurnTrack.js:12-17).
DoneMeansDone == ~ Overlap /\ tdone => ~ Unfinished(tracked)

\* No turn waits for ever on a start or on the meta fetch
\* (acp/sessionStart.js:13-15, acp/jsonrpc.js:18-20).
WaitsEnd == \A s \in Sends : pc[s] \in {"starting", "recovering"} ~> pc[s] \in {"prompted", "done"}

(* Each turn is answered, by one agent and in its session: the count of open turns
   is exact and each that ends has one result, whatever children came and went
   meanwhile; no child runs beside the engine's, each is prompted in the session it
   opened, and the recovery preamble is told once. *)
EachAnswered == PendingExact /\ OneResult /\ NoOrphan /\ PromptInSession /\ PreambleOnce

(* A turn is prompted in a session that its child has opened, and the loop's slot
   is done only when the turn in it is. *)
TurnsInSession == TypeOK /\ PromptInSession /\ DoneMeansDone
=============================================================================
