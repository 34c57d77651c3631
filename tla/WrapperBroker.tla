---------------------------- MODULE WrapperBroker ----------------------------
(***************************************************************************)
(* The claude-wrapper broker (sandbox-runtime/src/claudeWrapper*.js): one  *)
(* claude child per wrapper connection.  While the wrapper's socket lives  *)
(* the child's session is "active" and counts against the cap; when the    *)
(* socket goes, the child is not killed but drained: its turn may finish,  *)
(* then its stdin is closed, then SIGTERM, then SIGKILL.  A `--resume` of  *)
(* a session a draining child owns is held back until that child exits.    *)
(*                                                                         *)
(* A wrapper stands for one relay process, its one connection and the one  *)
(* child the broker may spawn for it.  The environment (relay, claude) is  *)
(* free here; WrapperSystem puts the relay and the socket around it.       *)
(***************************************************************************)
EXTENDS Naturals, FiniteSets

CONSTANTS
  Wrappers,     \* wrapper processes, one connection each
  Sessions,     \* claude session ids
  Session,      \* the session each wrapper's child runs
  Resumers,     \* the wrappers whose argv carries --resume Session[w]
  Cap,          \* OYREN_CLAUDE_WRAPPER_MAX
  MaxTurns,     \* bound: turns queued in one child
  Pipelined,    \* may the panel send a turn before the last one's result?
  SpawnMayFail, \* may spawn() fail with ENOENT?
  MaxRestarts,  \* bound: broker restarts
  None

ASSUME BrokerAssumption ==
  /\ Session \in [Wrappers -> Sessions]
  /\ Resumers \subseteq Wrappers
  /\ Cap \in Nat \ {0}
  /\ MaxTurns \in Nat
  /\ Pipelined \in BOOLEAN
  /\ SpawnMayFail \in BOOLEAN
  /\ MaxRestarts \in Nat
  /\ None \notin Wrappers \cup Sessions

VARIABLES
  conn,      \* the socket handler: where its hello got to
  gone,      \* the handler's `gone` flag
  blocker,   \* the draining child a held claim waits for
  child,     \* the child process
  stdin,     \* is the child's stdin still open?
  queued,    \* turns written to the child and not answered by a result
  busy,      \* turnState.isBusy()
  sid,       \* turnState.getSessionId()
  active,    \* the registry's `active` set
  draining,  \* the registry's `draining` set
  drain,     \* the next thing a draining child's timers wait for
  restarts   \* broker restarts so far

connVars  == <<conn, gone, blocker>>
childVars == <<child, stdin, queued, busy, sid>>
regVars   == <<active, draining, drain>>
vars      == <<connVars, childVars, regVars, restarts>>

TypeOK ==
  /\ conn \in [Wrappers -> {"none", "holding", "refused", "session"}]
  /\ gone \in [Wrappers -> BOOLEAN]
  /\ blocker \in [Wrappers -> Wrappers \cup {None}]
  /\ child \in [Wrappers -> {"none", "run", "exited", "orphan"}]
  /\ stdin \in [Wrappers -> BOOLEAN]
  /\ queued \in [Wrappers -> 0..MaxTurns]
  /\ busy \in [Wrappers -> BOOLEAN]
  /\ sid \in [Wrappers -> Sessions \cup {None}]
  /\ active \subseteq Wrappers
  /\ draining \subseteq Wrappers
  /\ drain \in [Wrappers -> {"off", "turn", "eof", "term", "kill"}]
  /\ restarts \in 0..MaxRestarts

Init ==
  /\ conn = [w \in Wrappers |-> "none"]
  /\ gone = [w \in Wrappers |-> FALSE]
  /\ blocker = [w \in Wrappers |-> None]
  /\ child = [w \in Wrappers |-> "none"]
  /\ stdin = [w \in Wrappers |-> FALSE]
  /\ queued = [w \in Wrappers |-> 0]
  /\ busy = [w \in Wrappers |-> FALSE]
  /\ sid = [w \in Wrappers |-> None]
  /\ active = {}
  /\ draining = {}
  /\ drain = [w \in Wrappers |-> "off"]
  /\ restarts = 0

-----------------------------------------------------------------------------
(* Claiming a session.                                                     *)

\* Variant: a draining child that answered is taken to have flushed.
DrainingForBusyOnly(w) ==
  IF w \in Resumers
  THEN {d \in draining : busy[d] /\ sid[d] = Session[w]}
  ELSE {}

\* drainingFor(sid): the draining children that own the session w resumes.
DrainingFor(w) ==
  IF w \in Resumers
  THEN {d \in draining : child[d] = "run" /\ sid[d] = Session[w]}
  ELSE {}

\* A held claim whose blocking child has exited: its promise is resolved and
\* its continuation is a microtask, which runs before any other event.
Released(w) == conn[w] = "holding" /\ child[blocker[w]] # "run"
NoMicrotask == \A w \in Wrappers : ~ Released(w)

MayClaim(w) == conn[w] = "none" /\ ~ gone[w] /\ Cardinality(active) < Cap

\* The cap is reached: {ok:false} and hang up.
HelloRefused(w) ==
  /\ NoMicrotask
  /\ conn[w] = "none" /\ ~ gone[w]
  /\ Cardinality(active) >= Cap
  /\ conn' = [conn EXCEPT ![w] = "refused"]
  /\ UNCHANGED <<gone, blocker, childVars, regVars, restarts>>

\* The claim passed the cap and now awaits one draining child's exit.
HelloHeld(w) ==
  /\ NoMicrotask
  /\ MayClaim(w)
  /\ \E d \in DrainingFor(w) : blocker' = [blocker EXCEPT ![w] = d]
  /\ conn' = [conn EXCEPT ![w] = "holding"]
  /\ UNCHANGED <<gone, childVars, regVars, restarts>>

\* Variant: forgets that the socket may have died while the claim was held.
SpawnIgnoringGone(w) ==
  /\ conn' = [conn EXCEPT ![w] = "session"]
  /\ blocker' = [blocker EXCEPT ![w] = None]
  /\ child' = [child EXCEPT ![w] = "run"]
  /\ stdin' = [stdin EXCEPT ![w] = TRUE]
  /\ active' = active \cup {w}
  /\ UNCHANGED <<gone, queued, busy, sid, restarts, draining, drain>>

\* spawn + active.add + attachSink + ack, in one synchronous stretch.
Spawn(w) ==
  /\ conn' = [conn EXCEPT ![w] = "session"]
  /\ blocker' = [blocker EXCEPT ![w] = None]
  /\ child' = [child EXCEPT ![w] = "run"]
  /\ UNCHANGED <<gone, queued, busy, sid, restarts>>
  /\ IF gone[w]
     THEN \* the socket died while claiming: drain at once (never busy yet)
       /\ stdin' = stdin
       /\ draining' = draining \cup {w}
       /\ drain' = [drain EXCEPT ![w] = "eof"]
       /\ UNCHANGED active
     ELSE
       /\ stdin' = [stdin EXCEPT ![w] = TRUE]
       /\ active' = active \cup {w}
       /\ UNCHANGED <<draining, drain>>

\* spawn() reports ENOENT on the next tick: the child counts as exited.
SpawnFails(w) ==
  /\ SpawnMayFail
  /\ conn' = [conn EXCEPT ![w] = "session"]
  /\ blocker' = [blocker EXCEPT ![w] = None]
  /\ child' = [child EXCEPT ![w] = "exited"]
  /\ UNCHANGED <<stdin, queued, busy, sid, regVars, restarts>>

HelloSpawned(w) ==
  /\ NoMicrotask
  /\ MayClaim(w)
  /\ DrainingFor(w) = {}
  /\ Spawn(w)

\* The error is settled before the awaiting handler attaches its sink, so
\* nobody is told of the exit: `gone` stays FALSE and no 'x' frame goes out.
HelloSpawnFailed(w) ==
  /\ NoMicrotask
  /\ MayClaim(w)
  /\ DrainingFor(w) = {}
  /\ SpawnFails(w)
  /\ UNCHANGED gone

\* The hold ends because the blocking child exited ...
HoldReleased(w) == Released(w) /\ Spawn(w)

\* ... or because RESUME_WAIT_MS ran out.
HoldTimeout(w) ==
  /\ NoMicrotask
  /\ conn[w] = "holding"
  /\ Spawn(w)

\* After a hold the sink is attached before the error is settled.
HoldSpawnFailed(w) ==
  /\ conn[w] = "holding"
  /\ Released(w) \/ NoMicrotask
  /\ SpawnFails(w)
  /\ gone' = [gone EXCEPT ![w] = TRUE]

-----------------------------------------------------------------------------
(* The connection.                                                         *)

\* An 'i' frame carrying a user message; the relay sends none after it left.
StdinFrame(w) ==
  /\ NoMicrotask
  /\ conn[w] = "session" /\ ~ gone[w] /\ child[w] = "run"
  /\ queued[w] < MaxTurns
  /\ Pipelined \/ queued[w] = 0
  /\ busy' = [busy EXCEPT ![w] = TRUE]
  /\ queued' = [queued EXCEPT ![w] = @ + 1]
  /\ UNCHANGED <<connVars, child, stdin, sid, regVars, restarts>>

\* Variant: the drain closes stdin without asking whether a turn is open.
StartDrainAtOnce(w) ==
  /\ active' = active \ {w}
  /\ draining' = draining \cup {w}
  /\ drain' = [drain EXCEPT ![w] = "eof"]
  /\ stdin' = [stdin EXCEPT ![w] = FALSE]

\* Variant: the slot is freed when the child has exited.
StartDrainInSlot(w) ==
  /\ active' = active
  /\ draining' = draining \cup {w}
  /\ drain' = [drain EXCEPT ![w] = IF busy[w] THEN "turn" ELSE "eof"]
  /\ stdin' = [stdin EXCEPT ![w] = busy[w]]

\* session.disconnect(): free the slot, then startDrain.
StartDrain(w) ==
  /\ active' = active \ {w}
  /\ draining' = draining \cup {w}
  /\ drain' = [drain EXCEPT ![w] = IF busy[w] THEN "turn" ELSE "eof"]
  /\ stdin' = [stdin EXCEPT ![w] = busy[w]]

\* An 's' frame or the socket's close, whichever comes first.
Disconnect(w) ==
  /\ NoMicrotask
  /\ ~ gone[w]
  /\ gone' = [gone EXCEPT ![w] = TRUE]
  /\ IF w \in active
     THEN StartDrain(w)
     ELSE UNCHANGED <<active, draining, drain, stdin>>
  /\ UNCHANGED <<conn, blocker, child, queued, busy, sid, restarts>>

-----------------------------------------------------------------------------
(* The child's output, its exit, and the drain's timers.                   *)

\* stdout: {"type":"system","subtype":"init","session_id":...}
ChildInit(w) ==
  /\ NoMicrotask
  /\ child[w] = "run" /\ sid[w] = None
  /\ sid' = [sid EXCEPT ![w] = Session[w]]
  /\ UNCHANGED <<connVars, child, stdin, queued, busy, regVars, restarts>>

\* Variant: every result closes stdin, drained or not.
ChildResultCloses(w) ==
  /\ NoMicrotask
  /\ child[w] = "run" /\ queued[w] > 0
  /\ queued' = [queued EXCEPT ![w] = @ - 1]
  /\ busy' = [busy EXCEPT ![w] = FALSE]
  /\ stdin' = [stdin EXCEPT ![w] = FALSE]
  /\ drain' = [drain EXCEPT ![w] = IF @ = "turn" THEN "eof" ELSE @]
  /\ UNCHANGED <<connVars, child, sid, active, draining, restarts>>

\* stdout: {"type":"result"}: idle, and a waiting drain closes stdin.
ChildResult(w) ==
  /\ NoMicrotask
  /\ child[w] = "run" /\ queued[w] > 0
  /\ queued' = [queued EXCEPT ![w] = @ - 1]
  /\ busy' = [busy EXCEPT ![w] = FALSE]
  /\ IF drain[w] = "turn"
     THEN /\ stdin' = [stdin EXCEPT ![w] = FALSE]
          /\ drain' = [drain EXCEPT ![w] = "eof"]
     ELSE UNCHANGED <<stdin, drain>>
  /\ UNCHANGED <<connVars, child, sid, active, draining, restarts>>

\* The child's exit, for whatever reason: settle() tells the sink (release,
\* 'x' frame, hang up), the registry and the drain.
ChildExit(w) ==
  /\ NoMicrotask
  /\ child[w] = "run"
  /\ child' = [child EXCEPT ![w] = "exited"]
  /\ stdin' = [stdin EXCEPT ![w] = FALSE]
  /\ active' = active \ {w}
  /\ gone' = [gone EXCEPT ![w] = TRUE]
  /\ draining' = draining \ {w}
  /\ drain' = [drain EXCEPT ![w] = "off"]
  /\ UNCHANGED <<conn, blocker, queued, busy, sid, restarts>>

\* drainMs ran out before a result came.
DrainDeadline(w) ==
  /\ NoMicrotask
  /\ drain[w] = "turn"
  /\ drain' = [drain EXCEPT ![w] = "eof"]
  /\ stdin' = [stdin EXCEPT ![w] = FALSE]
  /\ UNCHANGED <<connVars, child, queued, busy, sid, active, draining, restarts>>

\* Variant: no SIGKILL after the SIGTERM.
DrainSignalTermOnly(w) ==
  /\ NoMicrotask
  /\ drain[w] = "eof" /\ drain' = [drain EXCEPT ![w] = "term"]
  /\ UNCHANGED <<connVars, childVars, active, draining, restarts>>

\* STDIN_TO_TERM_MS after EOF: SIGTERM; TERM_TO_KILL_MS later: SIGKILL.
DrainSignal(w) ==
  /\ NoMicrotask
  /\ \/ drain[w] = "eof" /\ drain' = [drain EXCEPT ![w] = "term"]
     \/ drain[w] = "term" /\ drain' = [drain EXCEPT ![w] = "kill"]
  /\ UNCHANGED <<connVars, childVars, active, draining, restarts>>

\* The broker process dies and is started again: the registry is empty, every
\* socket is dead, and every child is left with closed pipes.
Restart ==
  /\ restarts < MaxRestarts
  /\ restarts' = restarts + 1
  /\ active' = {} /\ draining' = {}
  /\ drain' = [w \in Wrappers |-> "off"]
  /\ blocker' = [w \in Wrappers |-> None]
  /\ conn' = [w \in Wrappers |-> IF conn[w] = "holding" THEN "none" ELSE conn[w]]
  /\ gone' = [w \in Wrappers |-> gone[w] \/ conn[w] # "none"]
  /\ child' = [w \in Wrappers |-> IF child[w] = "run" THEN "orphan" ELSE child[w]]
  /\ stdin' = [w \in Wrappers |-> FALSE]
  /\ UNCHANGED <<queued, busy, sid>>

OrphanExit(w) ==
  /\ child[w] = "orphan"
  /\ child' = [child EXCEPT ![w] = "exited"]
  /\ UNCHANGED <<connVars, stdin, queued, busy, sid, regVars, restarts>>

-----------------------------------------------------------------------------
Claim(w) ==
  \/ HelloRefused(w) \/ HelloHeld(w) \/ HelloSpawned(w) \/ HelloSpawnFailed(w)
  \/ HoldReleased(w) \/ HoldTimeout(w) \/ HoldSpawnFailed(w)

ChildStep(w) ==
  ChildInit(w) \/ ChildResult(w) \/ ChildExit(w) \/ OrphanExit(w)

DrainStep(w) == DrainDeadline(w) \/ DrainSignal(w)

Next ==
  \/ \E w \in Wrappers :
       Claim(w) \/ StdinFrame(w) \/ Disconnect(w) \/ ChildStep(w) \/ DrainStep(w)
  \/ Restart

\* Only what the code schedules is fair: its timers, its microtasks, and the
\* kernel's delivery of SIGKILL.  A turn, a panel or a user owes nothing.
Killed(w) == drain[w] = "kill" /\ ChildExit(w)

Fairness ==
  \A w \in Wrappers :
    /\ WF_vars(DrainStep(w))
    /\ WF_vars(Killed(w))
    /\ WF_vars(HoldReleased(w) \/ HoldTimeout(w))

Spec == Init /\ [][Next]_vars
FairSpec == Spec /\ Fairness

-----------------------------------------------------------------------------
(* Properties.                                                             *)

\* Every running child is accounted for exactly once: it belongs to a live
\* connection (and counts against the cap) or it is being drained, and no
\* dead connection keeps a slot (claudeWrapperRegistry.js:51-64).
Accounted ==
  \A w \in Wrappers :
    /\ child[w] = "run" <=> w \in active \cup draining
    /\ w \in active => conn[w] = "session" /\ ~ gone[w]
    /\ w \in draining <=> drain[w] # "off"
    /\ w \in draining => gone[w]

\* The broker closes a child's stdin only when no turn is in flight, unless
\* drainMs ran out: a panel close lets the turn finish and its transcript be
\* written (claudeWrapperDrain.js:1-4,45-56).
FinishTurn ==
  [][\A w \in Wrappers :
       (stdin[w] /\ ~ stdin'[w] /\ child'[w] = "run")
         => queued'[w] = 0 \/ DrainDeadline(w)]_vars

\* A child whose wrapper has gone exits in the end, however it behaves: the
\* drain's timers reach SIGKILL (claudeWrapperDrain.js:13-16).
DrainEnds ==
  \A w \in Wrappers : (gone[w] /\ child[w] = "run") ~> (child[w] # "run")

\* A window is refused only for Cap windows that are open and have their child: a
\* reopened panel's never because its predecessor is still flushing or has left,
\* nor because of a claim that failed or died (claudeWrapperRegistry.js:36-38,54-56).
\* (Held resumes may take more than Cap slots: their check came before the wait.)
Open == {w \in Wrappers : conn[w] = "session" /\ ~ gone[w] /\ child[w] = "run"}

RefusedOnlyWhenFull ==
  [][\A w \in Wrappers :
       (conn[w] # "refused" /\ conn'[w] = "refused") => Cardinality(Open) >= Cap]_vars

\* A resume does not start beside a draining child that owns its session: it
\* waits until one such child, the only one as a rule, has exited or the cap of
\* ten seconds on the wait fires (claudeWrapperRegistry.js:26-31).
ResumeAfterFlush ==
  [][\A w \in Resumers :
       (child[w] = "none" /\ child'[w] = "run")
         => \/ ~ \E d \in draining : child[d] = "run" /\ sid[d] = Session[w]
            \/ HoldTimeout(w)
            \/ conn[w] = "holding" /\ child[blocker[w]] = "exited"]_vars

\* The promise this broker keeps when the panel waits for each answer, as an
\* abstract specification of its children (TurnSurvival).
Life(w) ==
  IF child[w] = "none" THEN "unborn"
  ELSE IF child[w] = "exited" THEN "dead"
  ELSE IF child[w] = "orphan" THEN "lost"
  ELSE IF w \in active THEN "attached" ELSE "leaving"

Lives == [w \in Wrappers |-> Life(w)]

Promise == INSTANCE TurnSurvival
  WITH Child <- Wrappers, MaxOwed <- MaxTurns, life <- Lives, owed <- queued, open <- stdin

\* The broker implements TurnSurvival (claudeWrapperRegistry.js:1-5).
KeepsPromise == Promise!Spec

(* No child is forgotten and no slot leaks: ChildrenHeld is Accounted, with the
   types of the variables. *)
ChildrenHeld == TypeOK /\ Accounted
=============================================================================
