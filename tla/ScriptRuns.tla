------------------------------ MODULE ScriptRuns ------------------------------
(***************************************************************************)
(* Script runs: detached jobs in a registry that callers poll (runJobs.js, *)
(* runScript.js) and runs streamed to a client and to a log file           *)
(* (runStream.js).  Both spawn bash, and are told of its end by "close",   *)
(* which waits for the pipes too: a descendant of bash may hold them.      *)
(*                                                                         *)
(* Output is counted in chunks.  A chunk may reach the runtime after bash  *)
(* has gone, from the pipe's buffer or from a descendant.                  *)
(***************************************************************************)
EXTENDS Naturals, FiniteSets

CONSTANTS
  Detached, Streamed,  \* the runs that are started, by kind
  MaxConcurrent,
  MaxChunks            \* bound: chunks each run writes

ASSUME RunsAssumption ==
  /\ Detached \cap Streamed = {}
  /\ MaxConcurrent \in Nat \ {0} /\ MaxChunks \in [Detached \cup Streamed -> Nat]

Runs == Detached \cup Streamed

VARIABLES
  alive,    \* the runtime has not been ended by an uncaught error
  bash,     \* each run's bash
  held,     \* does a descendant hold its pipes?
  closed,   \* has "close" been delivered?
  chunks,   \* chunks written so far
  timedOut, settled,
  job,      \* detached: the registry's entry
  old,      \* detached: finished more than 30 min ago
  client,   \* streamed: the client's connection, and what it was told last
  log, disk \* streamed: what was written to the log, what the disk has

procVars == <<bash, held, closed, chunks>>
jobVars == <<job, old>>
logVars == <<client, log, disk>>
runsVars == <<alive, procVars, timedOut, settled, jobVars, logVars>>

NoJob == [status |-> "unknown", code |-> "none", timedOut |-> FALSE, out |-> 0]
NewJob == [NoJob EXCEPT !.status = "running"]
EmptyLog == [out |-> 0, end |-> {}, state |-> "open"]

RunsTypeOK ==
  /\ alive \in BOOLEAN
  /\ bash \in [Runs -> {"none", "up", "killed", "exited", "failed"}]
  /\ held \in [Runs -> BOOLEAN] /\ closed \in [Runs -> BOOLEAN]
  /\ \A r \in Runs : chunks[r] \in 0..MaxChunks[r]
  /\ timedOut \in [Runs -> BOOLEAN] /\ settled \in [Runs -> BOOLEAN]
  /\ job \in [Detached -> [status : {"unknown", "running", "done"}, code : {"none", "exit"},
                           timedOut : BOOLEAN, out : Nat]]
  /\ old \in [Detached -> BOOLEAN]
  /\ client \in [Streamed -> {"none", "on", "done", "gone"}]
  /\ \A l \in {log, disk} : l \in [Streamed ->
       [out : Nat, end : SUBSET {"footer", "disconnected"}, state : {"open", "ended", "closed"}]]

RunsInit ==
  /\ alive = TRUE
  /\ bash = [r \in Runs |-> "none"] /\ held = [r \in Runs |-> FALSE]
  /\ closed = [r \in Runs |-> FALSE] /\ chunks = [r \in Runs |-> 0]
  /\ timedOut = [r \in Runs |-> FALSE] /\ settled = [r \in Runs |-> FALSE]
  /\ job = [r \in Detached |-> NoJob] /\ old = [r \in Detached |-> FALSE]
  /\ client = [r \in Streamed |-> "none"]
  /\ log = [r \in Streamed |-> EmptyLog] /\ disk = [r \in Streamed |-> EmptyLog]

Running == {r \in Detached : job[r].status = "running"}
Live(r) == bash[r] \in {"up", "killed"}

-----------------------------------------------------------------------------
\* prune(), part of every call on the registry.
Pruned == [r \in Detached |-> IF old[r] THEN NoJob ELSE job[r]]

\* start(): refused at the cap (429); else the entry, and bash in the same event.
StartJob(r) ==
  /\ alive /\ bash[r] = "none"
  /\ Cardinality(Running) < MaxConcurrent
  /\ job' = [Pruned EXCEPT ![r] = NewJob]
  /\ bash' = [bash EXCEPT ![r] = "up"]
  /\ UNCHANGED <<alive, held, closed, chunks, timedOut, settled, old, logVars>>

\* run_result, the runs panel: a read, but for the pruning.
Poll ==
  /\ alive /\ Pruned # job /\ job' = Pruned
  /\ UNCHANGED <<alive, procVars, timedOut, settled, old, logVars>>

Age(r) ==
  /\ job[r].status = "done" /\ ~old[r]
  /\ old' = [old EXCEPT ![r] = TRUE]
  /\ UNCHANGED <<alive, procVars, timedOut, settled, job, logVars>>

\* runStreaming(): header, start event, bash.
StartStream(r) ==
  /\ alive /\ bash[r] = "none"
  /\ bash' = [bash EXCEPT ![r] = "up"]
  /\ client' = [client EXCEPT ![r] = "on"]
  /\ UNCHANGED <<alive, held, closed, chunks, timedOut, settled, jobVars, log, disk>>

-----------------------------------------------------------------------------
\* Variant: finish() without its guard.
FinishJobAgain(r, code) ==
  /\ settled' = [settled EXCEPT ![r] = TRUE]
  /\ job' = [job EXCEPT ![r] = [status |-> "done", code |-> code,
                                timedOut |-> timedOut[r], out |-> chunks[r]]]
  /\ UNCHANGED <<old, logVars>>

\* finish() of runCaptured: once, and the registry's entry is settled with it.
FinishJob(r, code) ==
  /\ settled' = [settled EXCEPT ![r] = TRUE]
  /\ job' = IF settled[r] THEN job
            ELSE [job EXCEPT ![r] = [status |-> "done", code |-> code,
                                     timedOut |-> timedOut[r], out |-> chunks[r]]]
  /\ UNCHANGED <<old, logVars>>

\* finish() of runStreaming: the footer, and the log's end.
FinishStream(r) ==
  /\ settled' = [settled EXCEPT ![r] = TRUE]
  /\ log' = IF settled[r] THEN log
            ELSE [log EXCEPT ![r] = [@ EXCEPT !.end = @ \cup {"footer"}, !.state = "ended"]]
  /\ UNCHANGED <<jobVars, client, disk>>

Finish(r, code) ==
  \/ r \in Detached /\ FinishJob(r, code)
  \/ r \in Streamed /\ FinishStream(r)

\* A chunk that arrives once the log has been ended is an error nobody listens
\* for, which ends the runtime, until the file is closed; then it is dropped.
Output(r) ==
  /\ alive /\ bash[r] \notin {"none", "failed"} /\ ~closed[r] /\ chunks[r] < MaxChunks[r]
  /\ chunks' = [chunks EXCEPT ![r] = @ + 1]
  /\ \/ r \in Detached /\ UNCHANGED <<alive, log>>
     \/ /\ r \in Streamed
        /\ alive' = (log[r].state # "ended")
        /\ log' = IF log[r].state = "open" THEN [log EXCEPT ![r].out = chunks[r] + 1] ELSE log
  /\ UNCHANGED <<bash, held, closed, timedOut, settled, jobVars, client, disk>>

\* The timer, until the run is settled: SIGKILL to bash, and to it alone.
TimeoutKills(r) ==
  /\ bash' = [bash EXCEPT ![r] = IF @ = "up" THEN "killed" ELSE @]
  /\ UNCHANGED <<settled, jobVars, logVars>>

Timeout(r) ==
  /\ alive /\ bash[r] \notin {"none", "failed"} /\ ~settled[r] /\ ~timedOut[r]
  /\ timedOut' = [timedOut EXCEPT ![r] = TRUE]
  /\ TimeoutKills(r)
  /\ UNCHANGED <<alive, held, closed, chunks>>

\* The spawn fails: "error", and a "close" later on.
SpawnFails(r) ==
  /\ alive /\ bash[r] = "up" /\ chunks[r] = 0
  /\ bash' = [bash EXCEPT ![r] = "failed"]
  /\ Finish(r, "none")
  /\ UNCHANGED <<alive, held, closed, chunks, timedOut>>

BashExits(r) ==
  /\ Live(r)
  /\ bash' = [bash EXCEPT ![r] = "exited"]
  /\ \E h \in BOOLEAN : held' = [held EXCEPT ![r] = h]
  /\ UNCHANGED <<alive, closed, chunks, timedOut, settled, jobVars, logVars>>

PipesReleased(r) ==
  /\ held[r] /\ held' = [held EXCEPT ![r] = FALSE]
  /\ UNCHANGED <<alive, bash, closed, chunks, timedOut, settled, jobVars, logVars>>

Close(r) ==
  /\ alive /\ bash[r] \in {"exited", "failed"} /\ ~held[r] /\ ~closed[r]
  /\ closed' = [closed EXCEPT ![r] = TRUE]
  /\ Finish(r, "exit")
  /\ UNCHANGED <<alive, bash, held, chunks, timedOut>>

-----------------------------------------------------------------------------
\* The disk takes what was written; an ended log is then closed, and a run that
\* finished tells its client so.
Flush(r) ==
  /\ alive /\ log[r] # disk[r] /\ log[r].state # "closed"
  /\ LET then == [log[r] EXCEPT !.state = IF @ = "ended" THEN "closed" ELSE @] IN
       /\ disk' = [disk EXCEPT ![r] = then]
       /\ log' = [log EXCEPT ![r] = then]
       /\ client' = [client EXCEPT ![r] = IF then.state = "closed" /\ "footer" \in then.end /\ @ = "on"
                                          THEN "done" ELSE @]
  /\ UNCHANGED <<alive, procVars, timedOut, settled, jobVars>>

\* The response's "close": of an unsettled run it is a disconnect.
Disconnect(r) ==
  IF settled[r] THEN UNCHANGED <<settled, bash, log>>
  ELSE /\ settled' = [settled EXCEPT ![r] = TRUE]
       /\ bash' = [bash EXCEPT ![r] = IF @ = "up" THEN "killed" ELSE @]
       /\ log' = [log EXCEPT ![r] = [@ EXCEPT !.end = @ \cup {"disconnected"}, !.state = "ended"]]

ResponseCloses(r) ==
  /\ alive /\ client[r] \in {"on", "done"}
  /\ client' = [client EXCEPT ![r] = "gone"]
  /\ Disconnect(r)
  /\ UNCHANGED <<alive, held, closed, chunks, timedOut, jobVars, disk>>

RunsNext ==
  \/ Poll
  \/ \E r \in Detached : StartJob(r) \/ Age(r)
  \/ \E r \in Streamed : StartStream(r) \/ Flush(r) \/ ResponseCloses(r)
  \/ \E r \in Runs : Output(r) \/ Timeout(r) \/ SpawnFails(r) \/ BashExits(r)
                     \/ PipesReleased(r) \/ Close(r)

\* The timer goes off, a killed bash goes, "close" is delivered, the disk writes.
KilledGoes(r) == bash[r] = "killed" /\ BashExits(r)

-----------------------------------------------------------------------------
(* The cap is on processes and not only on entries: the bash of every detached
   run that still executes belongs to an entry that is counted as running. *)
SlotsCoverProcesses ==
  /\ Cardinality(Running) <= MaxConcurrent
  /\ \A r \in Detached : Live(r) => r \in Running

(* What a poll answered as done stays as it was, until the entry is pruned,
   though "error" and "close" both report the end of a run. *)
ResultFrozen ==
  [][\A r \in Detached : job[r].status = "done" => job'[r] \in {job[r], NoJob}]_runsVars

(* A client that was told "done" can read the log at once: the footer and
   every chunk it was sent are on disk. *)
DoneMeansLogged ==
  \A r \in Streamed : client[r] = "done" =>
    disk[r].state = "closed" /\ "footer" \in disk[r].end /\ disk[r].out = chunks[r]

(* A log ends once: finished or disconnected, in whatever order the end of the
   process and that of the response come. *)
OneEnding == \A r \in Streamed : Cardinality(log[r].end) <= 1

(* Every run ends, by itself or by the timer, unless a descendant keeps its
   pipes open. *)
RunsEnd == <>[](\A r \in Runs : bash[r] # "none" => settled[r] \/ held[r] \/ ~alive)

(* A run ends, once, and its caller is told when its end is there to be read: the
   slot is held as long as the process, the log is closed once and before "done",
   and an answer that was given stands. *)
RunsConclude ==
  /\ [](RunsTypeOK /\ SlotsCoverProcesses) /\ []DoneMeansLogged /\ []OneEnding
  /\ ResultFrozen /\ RunsEnd
===============================================================================
