------------------------------ MODULE Supervisor ------------------------------
(***************************************************************************)
(* The application supervisor (supervisor.js): one managed child, an       *)
(* exposed port, a state.  start() awaits the resolution of the command    *)
(* and, after the spawn, a probe of the port; other control requests and   *)
(* exits of children arrive in between.                                    *)
(*                                                                         *)
(* A successor is spawned without waiting for the child that was signalled *)
(* to be gone, so a late exit meets the successor, and starts that overlap *)
(* meet each other.  What is amiss then is on record: `forgotten`, the     *)
(* children whose hold was lost, and `lapsed`, a state that need not be    *)
(* true, until the next request that stops what runs.                      *)
(***************************************************************************)
EXTENDS Naturals, FiniteSets

CONSTANTS
  Calls,   \* control requests that can be in progress at once
  Ports,
  NoPort,  \* no port exposed
  MaxProcs \* bound: children ever spawned

ASSUME SupervisorAssumption == NoPort \notin Ports /\ MaxProcs \in Nat

Procs == 1..MaxProcs
AppStates == {"idle", "starting", "running", "crashed"}

VARIABLES
  sup,   \* the Supervisor object: state, exposedPort, managed, child (0: null)
  call,  \* what each start() awaits
  proc,  \* each child: up, signalled, exited, its exit handled
  forgotten, lapsed \* history: see above

supVars == <<sup, call, proc, forgotten, lapsed>>

SupTypeOK ==
  /\ sup \in [state : AppStates, exposedPort : Ports \cup {NoPort},
              managed : BOOLEAN, child : Procs \cup {0}]
  /\ call \in [Calls -> {"free", "resolve", "probe"}]
  /\ proc \in [Procs -> {"unborn", "up", "signalled", "exited", "reaped"}]
  /\ forgotten \subseteq Procs /\ lapsed \in BOOLEAN

SupInit ==
  /\ sup = [state |-> "idle", exposedPort |-> NoPort, managed |-> FALSE, child |-> 0]
  /\ call = [k \in Calls |-> "free"]
  /\ proc = [p \in Procs |-> "unborn"]
  /\ forgotten = {} /\ lapsed = FALSE

InProgress == {k \in Calls : call[k] # "free"}
Up == {p \in Procs : proc[p] = "up"}

\* A request that stops what runs makes the state true, unless a start is still
\* in progress and will go on.
Arrives == lapsed' = (InProgress # {}) /\ UNCHANGED forgotten

\* Variant: stop() forgets the child without a signal.
NoSignal == UNCHANGED proc

\* SIGTERM to the current child; one that has exited takes no notice.
SignalChild ==
  proc' = [p \in Procs |-> IF p = sup.child /\ proc[p] = "up" THEN "signalled" ELSE proc[p]]

-----------------------------------------------------------------------------
\* POST expose: manual mode, the port is recorded.
Expose(port) ==
  /\ sup' = [sup EXCEPT !.exposedPort = port]
  /\ UNCHANGED <<call, proc, forgotten, lapsed>>

Stop ==
  /\ Arrives /\ SignalChild
  /\ sup' = [sup EXCEPT !.child = 0, !.state = "idle"]
  /\ UNCHANGED call

\* start(port), up to the resolution of the command; without any port exposed
\* it only reports the error.
Start(k, port) ==
  LET p == IF port = NoPort THEN sup.exposedPort ELSE port IN
  /\ call[k] = "free" /\ p # NoPort
  /\ Arrives /\ SignalChild
  /\ sup' = [sup EXCEPT !.exposedPort = p, !.child = 0, !.state = "idle"]
  /\ call' = [call EXCEPT ![k] = "resolve"]

Restart(k) == sup.managed /\ Start(k, NoPort)

NoCommand(k) ==
  /\ call[k] = "resolve"
  /\ sup' = [sup EXCEPT !.state = "crashed"]
  /\ call' = [call EXCEPT ![k] = "free"]
  /\ UNCHANGED <<proc, forgotten, lapsed>>

\* The command is known: spawn, and probe the port.  The child of a start that
\* was overlapped is forgotten.
Spawn(k) ==
  /\ call[k] = "resolve"
  /\ \E p \in Procs :
       /\ proc[p] = "unborn" /\ \A q \in 1..(p - 1) : proc[q] # "unborn"
       /\ proc' = [proc EXCEPT ![p] = "up"]
       /\ sup' = [sup EXCEPT !.managed = TRUE, !.state = "starting", !.child = p]
  /\ call' = [call EXCEPT ![k] = "probe"]
  /\ forgotten' = forgotten \cup ({sup.child} \ {0})
  /\ UNCHANGED lapsed

\* The probe's answer is the state, whatever it has become meanwhile.
Probed(k) ==
  /\ call[k] = "probe"
  /\ \E s \in {"running", "starting"} : sup' = [sup EXCEPT !.state = s]
  /\ call' = [call EXCEPT ![k] = "free"]
  /\ UNCHANGED <<proc, forgotten, lapsed>>

Exit(p) ==
  /\ proc[p] \in {"up", "signalled"}
  /\ proc' = [proc EXCEPT ![p] = "exited"]
  /\ UNCHANGED <<sup, call, forgotten, lapsed>>

\* The "exit" handler: whoever it was, the child is null.
HandleExit(p) ==
  sup' = [sup EXCEPT !.child = 0,
                     !.state = IF sup.state = "idle" THEN "idle" ELSE "crashed"]

Reap(p) ==
  /\ proc[p] = "exited" /\ HandleExit(p)
  /\ proc' = [proc EXCEPT ![p] = "reaped"]
  /\ forgotten' = forgotten \cup ({sup.child} \ {0, p})
  /\ lapsed' = (lapsed \/ sup.child \notin {0, p} \/ \E k \in Calls : call[k] = "probe")
  /\ UNCHANGED call

\* The requests, and what happens by itself.
SupRequest ==
  \/ \E port \in Ports : Expose(port)
  \/ Stop
  \/ \E k \in Calls : Restart(k) \/ \E port \in Ports \cup {NoPort} : Start(k, port)

SupEvent ==
  \/ \E k \in Calls : NoCommand(k) \/ Spawn(k) \/ Probed(k)
  \/ \E p \in Procs : Exit(p) \/ Reap(p)

-----------------------------------------------------------------------------
(* Every child that runs is the one held or has been sent its SIGTERM, in any order
   of starts, stops, exits and probes, but for those forgotten: by a start that was
   overlapped, or at the late exit of a predecessor (supervisor.js:58).  Nobody ever
   stops those; a child that was signalled may still share the port. *)
RunningIsHeld == Up \subseteq {sup.child} \cup forgotten

(* The state tells the truth: starting or running exactly when there is a child
   whose exit has not been seen.  A start that is overlapped, a late exit or an exit
   during a probe may make it false (62), but no longer than to the next stop or
   start that comes when none is in progress. *)
StatusHonest ==
  ~lapsed => (sup.state \in {"starting", "running"} <=> sup.child # 0)

(* In any order of requests and exits, the supervisor never holds a child
   whose exit it has handled: a stop signals a process that may still be. *)
HoldsNoDead == sup.child # 0 => proc[sup.child] \in {"up", "signalled", "exited"}

(* The supervisor and its children agree: it holds no child whose end it has seen
   and every child that runs unsignalled, those forgotten aside, and it says so, and
   says so again after the next request if something lapsed. *)
AppHeld == SupTypeOK /\ HoldsNoDead /\ RunningIsHeld /\ StatusHonest
===============================================================================
