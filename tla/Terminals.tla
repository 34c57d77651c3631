------------------------------ MODULE Terminals ------------------------------
(***************************************************************************)
(* Two ways into a tmux pane: terminals over a WebSocket, each a PTY with  *)
(* a tmux client on it (terminal.js), and the bridge's requests, which     *)
(* look at the pane and type into it with one tmux command each            *)
(* (tmuxBridge.js).  The program in the pane changes meanwhile.            *)
(***************************************************************************)
EXTENDS Naturals, Sequences

CONSTANTS
  Conns,    \* terminal connections
  Requests, \* POST .../input requests to the bridge
  Programs, \* what a pane runs, as command, title and directory show it
  Gone,     \* the pane does not exist
  MaxMoves, \* bound: changes of the pane
  MaxKeys   \* bound: pieces of text typed by terminals

ASSUME TermAssumption == Gone \notin Programs /\ Conns \cap Requests = {}

VARIABLES
  pane, moves,    \* the program in the pane, and how often that has changed
  line, keys,     \* what has been typed and not entered, by whom
  sock, pty,      \* each connection: its socket, its PTY
  isAlive, owes,  \* the keepalive's mark; history: a ping is unanswered
  req, expected,  \* each request: its step, the program its caller has seen
  got,            \* history: the programs its text and its Enter went to
  entered,        \* history: the line its Enter submitted
  mixed, paneMoved    \* history: since its check, someone typed; the pane changed

paneVars == <<pane, moves, line, keys>>
connVars == <<sock, pty, isAlive, owes>>
reqVars == <<req, expected, got, entered, mixed, paneMoved>>
termVars == <<paneVars, connVars, reqVars>>

Authors == Conns \cup Requests
NotEntered == <<Gone>>

TermTypeOK ==
  /\ pane \in Programs \cup {Gone} /\ moves \in 0..MaxMoves /\ keys \in 0..MaxKeys
  /\ line \in Seq(Authors)
  /\ sock \in [Conns -> {"none", "open", "silent", "closing", "closed"}]
  /\ pty \in [Conns -> {"none", "running", "exited", "killed"}]
  /\ isAlive \in [Conns -> BOOLEAN] /\ owes \in [Conns -> BOOLEAN]
  /\ req \in [Requests -> {"idle", "looked", "listing", "text", "enter", "bare", "done", "refused", "failed"}]
  /\ expected \in [Requests -> Programs \cup {Gone}]
  /\ got \in [Requests -> SUBSET Programs] /\ entered \in [Requests -> Seq(Authors) \cup {NotEntered}]
  /\ mixed \in [Requests -> BOOLEAN] /\ paneMoved \in [Requests -> BOOLEAN]

TermInit ==
  /\ pane \in Programs /\ moves = 0 /\ line = <<>> /\ keys = 0
  /\ sock = [c \in Conns |-> "none"] /\ pty = [c \in Conns |-> "none"]
  /\ isAlive = [c \in Conns |-> FALSE] /\ owes = [c \in Conns |-> FALSE]
  /\ req = [q \in Requests |-> "idle"] /\ expected = [q \in Requests |-> Gone]
  /\ got = [q \in Requests |-> {}] /\ entered = [q \in Requests |-> NotEntered]
  /\ mixed = [q \in Requests |-> FALSE] /\ paneMoved = [q \in Requests |-> FALSE]

\* Requests whose check has passed and whose keys are not all sent.
Sending == {q \in Requests : req[q] \in {"text", "enter", "bare"}}
Flag(f, S) == [q \in Requests |-> f[q] \/ q \in S]

-----------------------------------------------------------------------------
\* The program exits, another starts, the pane is killed: what was typed is gone.
PaneChanges ==
  /\ moves < MaxMoves /\ pane # Gone /\ moves' = moves + 1
  /\ \E p \in (Programs \cup {Gone}) \ {pane} : pane' = p
  /\ line' = <<>> /\ paneMoved' = Flag(paneMoved, Sending)
  /\ UNCHANGED <<keys, connVars, req, expected, got, entered, mixed>>

\* GET panes or panes/:id: the caller sees what runs there.
Look(q) ==
  /\ req[q] = "idle" /\ pane # Gone
  /\ req' = [req EXCEPT ![q] = "looked"] /\ expected' = [expected EXCEPT ![q] = pane]
  /\ UNCHANGED <<paneVars, connVars, got, entered, mixed, paneMoved>>

\* POST panes/:id/input with what the caller expects; list-panes is asked.
PostInput(q) ==
  /\ req[q] = "looked" /\ req' = [req EXCEPT ![q] = "listing"]
  /\ UNCHANGED <<paneVars, connVars, expected, got, entered, mixed, paneMoved>>

\* 404 without the pane, 409 when it is not what the caller has seen.
PaneMatches(q) == pane # Gone /\ pane = expected[q]

Listed(q) ==
  /\ req[q] = "listing"
  /\ \E next \in {"failed"} \cup (IF PaneMatches(q) THEN {"text", "bare"} ELSE {"refused"}) :
       req' = [req EXCEPT ![q] = next]
  /\ UNCHANGED <<paneVars, connVars, expected, got, entered, mixed, paneMoved>>

\* After the text: Enter if it was asked for.  tmux may have typed what
\* execFile, at its timeout, reports as failed.
AfterText == {"enter", "done", "failed"}

\* send-keys -l: the text.
SendText(q) ==
  /\ req[q] = "text"
  /\ IF pane = Gone THEN req' = [req EXCEPT ![q] = "failed"] /\ UNCHANGED <<line, got, mixed>>
     ELSE /\ \E then \in AfterText : req' = [req EXCEPT ![q] = then]
          /\ line' = Append(line, q)
          /\ got' = [got EXCEPT ![q] = @ \cup {pane}]
          /\ mixed' = [r \in Requests |-> IF r = q THEN mixed[q] \/ \E i \in DOMAIN line : line[i] # q
                                          ELSE mixed[r] \/ r \in Sending]
  /\ UNCHANGED <<pane, moves, keys, connVars, expected, entered, paneMoved>>

SendEnter(q) ==
  /\ req[q] \in {"enter", "bare"}
  /\ IF pane = Gone THEN req' = [req EXCEPT ![q] = "failed"] /\ UNCHANGED <<line, got, entered, mixed>>
     ELSE /\ \E then \in {"done", "failed"} : req' = [req EXCEPT ![q] = then]
          /\ line' = <<>>
          /\ got' = [got EXCEPT ![q] = @ \cup {pane}]
          /\ entered' = [entered EXCEPT ![q] = IF req[q] = "enter" THEN line ELSE @]
          /\ mixed' = Flag(mixed, Sending \ {q})
  /\ UNCHANGED <<pane, moves, keys, connVars, expected, paneMoved>>

-----------------------------------------------------------------------------

\* The upgrade is accepted: a PTY for the connection, marked alive.
MarkAlive(c) == isAlive' = [isAlive EXCEPT ![c] = TRUE]

Connect(c) ==
  /\ sock[c] = "none"
  /\ sock' = [sock EXCEPT ![c] = "open"] /\ pty' = [pty EXCEPT ![c] = "running"]
  /\ MarkAlive(c)
  /\ UNCHANGED <<paneVars, owes, reqVars>>

\* A key or a pasted image's path reaches the pane through the tmux client.
Type(c) ==
  /\ sock[c] = "open" /\ pty[c] = "running" /\ pane # Gone /\ keys < MaxKeys
  /\ keys' = keys + 1 /\ line' = Append(line, c)
  /\ mixed' = Flag(mixed, Sending)
  /\ UNCHANGED <<pane, moves, connVars, req, expected, got, entered, paneMoved>>

\* onExit closes the socket (a handshake with the peer).
ExitClosesSocket(c) == sock' = [sock EXCEPT ![c] = IF @ = "open" THEN "closing" ELSE @]

PtyExits(c) ==
  /\ pty[c] = "running"
  /\ pty' = [pty EXCEPT ![c] = "exited"]
  /\ ExitClosesSocket(c)
  /\ UNCHANGED <<paneVars, isAlive, owes, reqVars>>

\* Variant: the PTY of a socket that closes is left running.
LeavePty(S) == UNCHANGED pty

\* The "close" handler of each socket in S: the PTY is killed, the session stays.
KillPty(S) == pty' = [c \in Conns |-> IF c \in S /\ pty[c] = "running" THEN "killed" ELSE pty[c]]

\* The peer closes, or finishes the closing handshake, or the socket
\* fails.
SocketCloses(c) ==
  /\ sock[c] \in {"open", "closing"}
  /\ sock' = [sock EXCEPT ![c] = "closed"] /\ KillPty({c})
  /\ UNCHANGED <<paneVars, isAlive, owes, reqVars>>

PeerVanishes(c) ==
  /\ sock[c] = "open" /\ sock' = [sock EXCEPT ![c] = "silent"]
  /\ UNCHANGED <<paneVars, pty, isAlive, owes, reqVars>>

\* The keepalive, every 20 s: terminate what has not answered, ping the rest
\* (a socket that is closing is not pinged any more, but still terminated).
Tick ==
  LET clients == {c \in Conns : sock[c] \in {"open", "silent", "closing"}}
      dead == {c \in clients : ~isAlive[c]}
  IN  /\ clients # {}
      /\ sock' = [c \in Conns |-> IF c \in dead THEN "closed" ELSE sock[c]]
      /\ KillPty(dead)
      /\ isAlive' = [c \in Conns |-> isAlive[c] /\ c \notin clients]
      /\ owes' = [c \in Conns |-> owes[c] \/ (c \in clients \ dead /\ sock[c] # "closing")]
      /\ UNCHANGED <<paneVars, reqVars>>

Pong(c) ==
  /\ sock[c] \in {"open", "closing"} /\ owes[c]
  /\ owes' = [owes EXCEPT ![c] = FALSE] /\ isAlive' = [isAlive EXCEPT ![c] = TRUE]
  /\ UNCHANGED <<paneVars, sock, pty, reqVars>>

TermNext ==
  \/ PaneChanges \/ Tick
  \/ \E q \in Requests : Look(q) \/ PostInput(q) \/ Listed(q) \/ SendText(q) \/ SendEnter(q)
  \/ \E c \in Conns : \/ Connect(c) \/ Type(c) \/ PtyExits(c) \/ SocketCloses(c)
                      \/ PeerVanishes(c) \/ Pong(c)


-----------------------------------------------------------------------------
(* What the stale-pane guard is for: keys reach only the program the caller
   has seen, unless the pane changes between the check and the keys. *)
GuardHolds == \A q \in Requests : ~paneMoved[q] => got[q] \subseteq {expected[q]}

(* Text and Enter are two commands: the line that is entered is the caller's
   own as long as nobody else types or enters in between. *)
LineWhole ==
  \A q \in Requests : ~mixed[q] /\ ~paneMoved[q] => entered[q] \in {NotEntered, <<q>>}

(* The keepalive never ends a connection that has answered every ping. *)
LiveSpared ==
  [][Tick => \A c \in Conns : sock[c] = "open" /\ sock'[c] = "closed" => owes[c]]_termVars

(* A connection that is over on either side is over on both: no PTY outlives
   its socket, no socket its PTY, though the peer may vanish silently. *)
BothEnd ==
  <>[](\A c \in Conns : /\ sock[c] # "silent"
                         /\ (pty[c] = "exited" \/ sock[c] = "closed") => sock[c] = "closed" /\ pty[c] # "running")

(* Keys reach the program and the line they were meant for, a connection that
   answers stays, and one that is over on one side is over on both. *)
TerminalsKept == [](TermTypeOK /\ GuardHolds) /\ []LineWhole /\ LiveSpared /\ BothEnd
===============================================================================
