------------------------------ MODULE SideEngines ------------------------------
(***************************************************************************)
(* Side chat engines (sideEngines.js, sideEngineHttp.js): agents of one    *)
(* kind that run beside the launch agent, started on demand, one turn at a *)
(* time, dropped when idle or on a reset (agentReset.js).  The map from    *)
(* kinds to engines is modelled at one kind; an engine that is no longer   *)
(* its entry may still have a child and a turn.                            *)
(*                                                                         *)
(* A handshake (sessionStart.js) asks for the session whose id is on disk, *)
(* if this agent knows it, or for a new one, whose id it records when it   *)
(* is answered.  Where the launch agent speaks ACP (engineSelect.js) its   *)
(* handshakes use the same file, and its reset clears it; Claude Code has  *)
(* a file of its own (agentSession.js), and its reset clears that one.     *)
(***************************************************************************)
EXTENDS Naturals, Sequences, FiniteSets

CONSTANTS
  SideTurns,  \* requests to /agent/message?agent=<kind>
  MaxEngines, \* bound: engines ever created
  MaxStarts,  \* bound: starts of the launch agent
  MaxResets   \* bound: POST /agent/reset

ASSUME SideAssumption == MaxEngines \in Nat /\ MaxStarts \in Nat /\ MaxResets \in Nat

Engines == 1..MaxEngines

VARIABLES
  mainEngine, \* the launch agent's: "acp" or "sdk"
  entry,    \* the map's engine for the kind, 0 for none
  eng,      \* each engine: child, start, busy, the session it asked for, ...
  turn,     \* each request: its step, its engine, the result lines it got
  saved,    \* the session id on disk, 0 for none
  main,     \* the launch agent's session, 0 for none
  sessions, \* history: whose each session is, and after how many resets it was opened
  resets, starts,
  crossed,  \* history: an engine was created before the last one's child had gone
  racing    \* history: a reset came during a handshake

sideVars == <<mainEngine, entry, eng, turn, saved, main, sessions, resets, starts, crossed, racing>>

SideTypeOK ==
  /\ mainEngine \in {"acp", "sdk"}
  /\ entry \in Engines \cup {0} /\ saved \in 0..Len(sessions) /\ main \in 0..Len(sessions)
  /\ eng \in [Engines -> [child : {"none", "up", "killed", "gone"},
                          start : {"none", "handshake", "loading", "opening", "ready", "failed"},
                          busy : BOOLEAN, cancelled : BOOLEAN,
                          session : 0..Len(sessions), since : 0..MaxResets]]
  /\ turn \in [SideTurns -> [step : {"idle", "starting", "prompted", "done"},
                             on : Engines \cup {0}, results : 0..2]]
  /\ sessions \in Seq([whose : {"main", "side"}, after : 0..MaxResets])
  /\ resets \in 0..MaxResets /\ starts \in 0..MaxStarts
  /\ crossed \in BOOLEAN /\ racing \in BOOLEAN

SideInit ==
  /\ mainEngine \in {"acp", "sdk"}
  /\ entry = 0 /\ saved = 0 /\ main = 0 /\ sessions = <<>> /\ resets = 0 /\ starts = 0
  /\ eng = [e \in Engines |-> [child |-> "none", start |-> "none", busy |-> FALSE,
                               cancelled |-> FALSE, session |-> 0, since |-> 0]]
  /\ turn = [t \in SideTurns |-> [step |-> "idle", on |-> 0, results |-> 0]]
  /\ crossed = FALSE /\ racing = FALSE

HasChild(e) == eng[e].child \in {"up", "killed"}
On(e) == {t \in SideTurns : turn[t].on = e /\ turn[t].step \in {"starting", "prompted"}}
Starting(e) == eng[e].start \in {"handshake", "loading", "opening"}
Fresh(e) == eng[e].start = "none" /\ \A x \in 1..(e - 1) : eng[x].start # "none"

-----------------------------------------------------------------------------
\* engineFor() and ensureStarted(): the entry, or a new engine whose child is
\* spawned at once.
Target(e) == IF entry # 0 THEN e = entry ELSE Fresh(e)
Begun(e) == IF eng[e].start # "none" THEN eng
            ELSE [eng EXCEPT ![e].child = "up", ![e].start = "handshake", ![e].since = resets]
Cross == crossed' = (crossed \/ (entry = 0 /\ \E e \in Engines : HasChild(e)))

Accepts(e) == ~eng[e].busy

\* send(): a busy engine is answered for at once, with an error result.
Send(t, e) ==
  /\ turn[t].step = "idle" /\ Target(e) /\ entry' = e
  /\ IF Accepts(e)
     THEN /\ eng' = [Begun(e) EXCEPT ![e].busy = TRUE]
          /\ turn' = [turn EXCEPT ![t] = [step |-> IF eng[e].start = "ready" THEN "prompted" ELSE "starting",
                                          on |-> e, results |-> 0]]
     ELSE /\ turn' = [turn EXCEPT ![t] = [step |-> "done", on |-> e, results |-> 1]]
          /\ UNCHANGED eng
  /\ Cross
  /\ UNCHANGED <<mainEngine, saved, main, sessions, resets, starts, racing>>

\* listModels, setModel: start the engine, if there is none.
Models(e) ==
  /\ entry = 0 /\ Fresh(e) /\ entry' = e /\ eng' = Begun(e) /\ Cross
  /\ UNCHANGED <<mainEngine, turn, saved, main, sessions, resets, starts, racing>>

-----------------------------------------------------------------------------
\* drop(): the kind's entry goes, whichever engine it is; this one's child is killed.
Killed(f, e) == [f EXCEPT ![e].child = IF @ = "up" THEN "killed" ELSE @]
Unmap(e) == entry' = 0

\* The turn's request or its start fails or is answered: its result line, and
\* the engine is free.
Ended(f, e) == [f EXCEPT ![e].busy = FALSE, ![e].cancelled = FALSE]
Results(S) == turn' = [t \in SideTurns |-> IF t \in S
                         THEN [turn[t] EXCEPT !.step = "done", !.results = @ + 1] ELSE turn[t]]

\* openSession(): session/load of the id on disk if it is this agent's, else session/new.
Resumes(whose) == saved # 0 /\ sessions[saved].whose = whose
Opened(whose) == IF Resumes(whose) THEN saved ELSE Len(sessions) + 1
OpenSession(whose) ==
  sessions' = IF Resumes(whose) THEN sessions
              ELSE Append(sessions, [whose |-> whose, after |-> resets])

\* The id is read, and the request sent.
Asks(e) ==
  /\ eng[e].start = "handshake" /\ OpenSession("side")
  /\ eng' = [eng EXCEPT ![e].start = IF Resumes("side") THEN "loading" ELSE "opening",
                        ![e].session = Opened("side")]
  /\ UNCHANGED <<mainEngine, entry, turn, saved, main, resets, starts, crossed, racing>>

\* session/load is refused, or not answered within 30 s: session/new after all.
LoadFails(e) ==
  /\ eng[e].start = "loading"
  /\ sessions' = Append(sessions, [whose |-> "side", after |-> resets])
  /\ eng' = [eng EXCEPT ![e].start = "opening", ![e].session = Len(sessions) + 1]
  /\ UNCHANGED <<mainEngine, entry, turn, saved, main, resets, starts, crossed, racing>>

\* The answer, which a killed child may have sent before it goes; a new id is
\* written, whatever was done meanwhile.
Written(e) == IF eng[e].start = "opening" THEN eng[e].session ELSE saved

HandshakeDone(e) ==
  /\ eng[e].start \in {"loading", "opening"}
  /\ saved' = Written(e) /\ eng' = [eng EXCEPT ![e].start = "ready"]
  /\ turn' = [t \in SideTurns |-> IF t \in On(e) THEN [turn[t] EXCEPT !.step = "prompted"] ELSE turn[t]]
  /\ UNCHANGED <<mainEngine, entry, main, sessions, resets, starts, crossed, racing>>

\* Variant: a request has no timer, and fails with its child only.
GivenUpWhenGone(e) == eng[e].start \in {"handshake", "opening"} /\ ~HasChild(e)

\* request() with a timeout: an error, or no answer within 30 s.
GivenUp(e) == eng[e].start \in {"handshake", "opening"}

HandshakeFails(e) ==
  /\ GivenUp(e)
  /\ Unmap(e) /\ eng' = Ended(Killed([eng EXCEPT ![e].start = "failed"], e), e)
  /\ Results(On(e))
  /\ UNCHANGED <<mainEngine, saved, main, sessions, resets, starts, crossed, racing>>

Answered(e) ==
  /\ eng[e].start = "ready" /\ HasChild(e) /\ On(e) # {}
  /\ eng' = Ended(eng, e) /\ Results(On(e))
  /\ UNCHANGED <<mainEngine, entry, saved, main, sessions, resets, starts, crossed, racing>>

\* The child exits: onExit drops its engine, every request pending is rejected.
ChildExits(e) ==
  /\ HasChild(e)
  /\ Unmap(e)
  /\ eng' = Ended([eng EXCEPT ![e].child = "gone",
                              ![e].start = IF @ = "ready" THEN @ ELSE "failed"], e)
  /\ Results(On(e))
  /\ UNCHANGED <<mainEngine, saved, main, sessions, resets, starts, crossed, racing>>

-----------------------------------------------------------------------------
\* session/cancel, once there is a session.
Cancelled(e) == [eng EXCEPT ![e].cancelled = TRUE]

Interrupt ==
  /\ entry # 0 /\ eng[entry].start = "ready" /\ On(entry) # {} /\ ~eng[entry].cancelled
  /\ eng' = Cancelled(entry)
  /\ UNCHANGED <<mainEngine, entry, turn, saved, main, sessions, resets, starts, crossed, racing>>

\* The reaper: idle for 10 min, which no handshake lasts.
Reap ==
  /\ entry # 0 /\ ~eng[entry].busy /\ eng[entry].start = "ready"
  /\ Unmap(entry) /\ eng' = Killed(eng, entry)
  /\ UNCHANGED <<mainEngine, turn, saved, main, sessions, resets, starts, crossed, racing>>

\* The launch agent's own reset forgets its session: the id in the file it uses.
ClearSaved == main' = 0 /\ saved' = IF mainEngine = "acp" THEN 0 ELSE saved

\* POST /agent/reset: the launch agent's engine, then every engine of the map.
Reset ==
  /\ resets < MaxResets /\ resets' = resets + 1
  /\ ClearSaved
  /\ IF entry = 0 THEN UNCHANGED <<entry, eng>> ELSE Unmap(entry) /\ eng' = Killed(eng, entry)
  /\ racing' = (racing \/ \E e \in Engines : Starting(e))
  /\ UNCHANGED <<mainEngine, turn, sessions, starts, crossed>>

\* The ACP launch agent, its last process gone, up to its session (AcpEngine has the rest).
MainStarts ==
  /\ mainEngine = "acp" /\ starts < MaxStarts /\ starts' = starts + 1
  /\ OpenSession("main") /\ saved' = Opened("main") /\ main' = Opened("main")
  /\ UNCHANGED <<mainEngine, entry, eng, turn, resets, crossed, racing>>

SideNext ==
  \/ \E e \in Engines : \/ Models(e) \/ Asks(e) \/ LoadFails(e) \/ HandshakeDone(e) \/ HandshakeFails(e)
                        \/ Answered(e) \/ ChildExits(e) \/ \E t \in SideTurns : Send(t, e)
  \/ Interrupt \/ Reap \/ Reset \/ MainStarts

\* A handshake that is not answered times out, a cancelled prompt is answered, a
\* killed child goes.
CancelAnswered(e) == eng[e].cancelled /\ Answered(e)
KilledChildGoes(e) == eng[e].child = "killed" /\ ChildExits(e)

-----------------------------------------------------------------------------
(* Every turn is answered with exactly one result line, the busy, the failed
   and the dropped ones too: the caller closes on it. *)
OneResult == \A t \in SideTurns : turn[t].results = IF turn[t].step = "done" THEN 1 ELSE 0

(* An engine works on one turn at a time, so its lines reach that turn's caller;
   its busy flag stands exactly while one is in progress. *)
OneTurnEach == \A e \in Engines : Cardinality(On(e)) = IF eng[e].busy THEN 1 ELSE 0

(* The engine a send finds in the map has a child that was not killed: no turn
   is given to an engine that was dropped. *)
EntryLives == entry # 0 => eng[entry].child = "up"

(* As long as no engine is created before the last one's child has gone, every
   running agent is in the map, where the reaper and a reset find it. *)
NoneForgotten == ~crossed => \A e \in Engines : eng[e].child = "up" => e = entry

(* Where the launch agent speaks ACP, a session from before a reset is not resumed
   after it, by the launch agent or by a side engine, unless a handshake was in
   progress at the reset.  Beside Claude Code it is: the next side engine loads
   the session whose id is still on disk. *)
Forgetting == mainEngine = "acp" /\ ~racing
ResetForgets ==
  Forgetting => /\ main # 0 => sessions[main].after = resets
             /\ \A e \in Engines : eng[e].session # 0 => sessions[eng[e].session].after >= eng[e].since

(* A turn ends when its start fails, when it is cancelled and when its engine is
   dropped, whatever comes in between (a turn comes once, so in the end none is left
   in such a state). *)
Ending(t) ==
  \/ turn[t].step = "starting"
  \/ turn[t].step = "prompted" /\ (eng[turn[t].on].cancelled \/ eng[turn[t].on].child # "up")
SideTurnsEnd == <>[](\A t \in SideTurns : ~Ending(t))

(* A side chat answers each turn with one result of its own, in the end; its
   engines are those in the map, with a living child, and the reset of an ACP
   launch agent makes them forget. *)
SideChatsKept ==
  /\ [](SideTypeOK /\ OneResult) /\ []OneTurnEach /\ []EntryLives
  /\ []NoneForgotten /\ []ResetForgets /\ SideTurnsEnd
===============================================================================
