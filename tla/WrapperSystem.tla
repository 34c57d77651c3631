---------------------------- MODULE WrapperSystem ----------------------------
(***************************************************************************)
(* The broker of WrapperBroker with the process on the other end of each   *)
(* socket: the relay (sandbox-runtime/claude-wrapper), which the panel     *)
(* starts, types into and closes, and which runs claude itself (the        *)
(* "direct" child, passthrough.js) when the broker does not answer.        *)
(* A socket is two FIFO channels of frames, each ending in "fin".          *)
(***************************************************************************)
EXTENDS WrapperBroker, Sequences

CONSTANT MaxTyped    \* bound: turns the panel types into one wrapper

ASSUME SystemAssumption == MaxTyped \in Nat /\ MaxTyped <= MaxTurns

VARIABLES
  relay,   \* relay.js's phase; "fellback" once onFallback ran
  saw,     \* sawOutput
  pend,    \* turns in pendingStdin, replayable into a direct child
  typed,   \* turns the relay has read off its stdin
  up,      \* frames on their way to the broker
  down,    \* frames on their way to the relay
  direct,  \* the fallback's child
  bgot,    \* turns the broker wrote to its child
  dgot     \* turns the direct child was given

relayVars  == <<relay, saw, pend, typed>>
directVars == <<direct, dgot>>
sysVars    == <<vars, relayVars, directVars, up, down, bgot>>

SysTypeOK ==
  /\ TypeOK
  /\ relay \in [Wrappers -> {"idle", "awaiting", "relaying", "fellback", "exited"}]
  /\ saw \in [Wrappers -> BOOLEAN]
  /\ pend \in [Wrappers -> 0..MaxTyped]
  /\ typed \in [Wrappers -> 0..MaxTyped]
  /\ up \in [Wrappers -> Seq({"hello", "i", "s", "fin"})]
  /\ down \in [Wrappers -> Seq({"ack", "nak", "o", "x", "fin"})]
  /\ direct \in [Wrappers -> {"none", "run", "exited"}]
  /\ bgot \in [Wrappers -> 0..MaxTyped]
  /\ dgot \in [Wrappers -> 0..MaxTyped]

SysInit ==
  /\ Init
  /\ relay = [w \in Wrappers |-> "idle"]
  /\ saw = [w \in Wrappers |-> FALSE]
  /\ pend = [w \in Wrappers |-> 0]
  /\ typed = [w \in Wrappers |-> 0]
  /\ up = [w \in Wrappers |-> <<>>]
  /\ down = [w \in Wrappers |-> <<>>]
  /\ direct = [w \in Wrappers |-> "none"]
  /\ bgot = [w \in Wrappers |-> 0]
  /\ dgot = [w \in Wrappers |-> 0]

Connected(w) == relay[w] \in {"awaiting", "relaying"}

\* What the broker writes reaches a relay that still reads; else it is lost.
Reply(w, frames) ==
  down' = [down EXCEPT ![w] = IF Connected(w) THEN @ \o frames ELSE <<>>]

-----------------------------------------------------------------------------
(* The relay.                                                              *)

\* The relay leaves its socket: what it wrote before still arrives.
Hangup(w, frames) ==
  /\ up' = [up EXCEPT ![w] = @ \o frames]
  /\ down' = [down EXCEPT ![w] = <<>>]

RelayExits(w) == relay' = [relay EXCEPT ![w] = "exited"]

RelayStart(w) ==
  /\ relay[w] = "idle"
  /\ relay' = [relay EXCEPT ![w] = "awaiting"]
  /\ up' = [up EXCEPT ![w] = <<"hello">>]
  /\ UNCHANGED <<vars, saw, pend, typed, directVars, down, bgot>>

\* Variant: the fallback forgets the stdin it has already consumed.
FallbackDropsStdin(w) ==
  /\ relay' = [relay EXCEPT ![w] = "fellback"]
  /\ direct' = [direct EXCEPT ![w] = "run"]
  /\ Hangup(w, <<"fin">>)
  /\ UNCHANGED <<vars, saw, pend, typed, dgot, bgot>>

\* fallback(): destroy the socket and spawn directly, replaying pendingStdin.
Fallback(w) ==
  /\ relay' = [relay EXCEPT ![w] = "fellback"]
  /\ direct' = [direct EXCEPT ![w] = "run"]
  /\ dgot' = [dgot EXCEPT ![w] = pend[w]]
  /\ Hangup(w, <<"fin">>)
  /\ UNCHANGED <<vars, saw, pend, typed, bgot>>

\* No broker listens on the socket: 'error' before any ack.
RelayUnreachable(w) ==
  /\ relay[w] = "awaiting" /\ up[w] = <<"hello">>
  /\ relay' = [relay EXCEPT ![w] = "fellback"]
  /\ direct' = [direct EXCEPT ![w] = "run"]
  /\ up' = [up EXCEPT ![w] = <<>>]
  /\ UNCHANGED <<vars, saw, pend, typed, dgot, down, bgot>>

\* ACK_TIMEOUT_MS without an ack.
AckTimeout(w) == relay[w] = "awaiting" /\ Fallback(w)

Arrives(w, frame) == down[w] # <<>> /\ Head(down[w]) = frame
Consume(w) == down' = [down EXCEPT ![w] = Tail(@)]

RelayAck(w) ==
  /\ relay[w] = "awaiting" /\ Arrives(w, "ack")
  /\ relay' = [relay EXCEPT ![w] = "relaying"]
  /\ Consume(w)
  /\ UNCHANGED <<vars, saw, pend, typed, directVars, up, bgot>>

RelayRefused(w) ==
  /\ relay[w] = "awaiting"
  /\ Arrives(w, "nak") \/ Arrives(w, "fin")
  /\ Fallback(w)

\* 'o' or 'e': the broker has proven itself.
RelayOutput(w) ==
  /\ relay[w] = "relaying" /\ Arrives(w, "o")
  /\ saw' = [saw EXCEPT ![w] = TRUE]
  /\ pend' = [pend EXCEPT ![w] = 0]
  /\ Consume(w)
  /\ UNCHANGED <<vars, relay, typed, directVars, up, bgot>>

\* 'x': exit like the child did.
RelayExitFrame(w) ==
  /\ relay[w] = "relaying" /\ Arrives(w, "x")
  /\ RelayExits(w)
  /\ Hangup(w, <<"fin">>)
  /\ UNCHANGED <<vars, saw, pend, typed, directVars, bgot>>

\* The broker's end closed: degrade before any output, exit 1 after it.
RelayLost(w) ==
  /\ relay[w] = "relaying" /\ Arrives(w, "fin")
  /\ IF saw[w]
     THEN /\ RelayExits(w)
          /\ Hangup(w, <<"fin">>)
          /\ UNCHANGED <<vars, saw, pend, typed, directVars, bgot>>
     ELSE Fallback(w)

\* The panel types a turn.
PanelTypes(w) ==
  /\ typed[w] < MaxTyped
  /\ typed' = [typed EXCEPT ![w] = @ + 1]
  /\ \/ /\ relay[w] = "relaying"
        /\ pend' = [pend EXCEPT ![w] = IF saw[w] THEN @ ELSE @ + 1]
        /\ up' = [up EXCEPT ![w] = Append(@, "i")]
        /\ UNCHANGED dgot
     \/ /\ relay[w] = "fellback"
        /\ dgot' = [dgot EXCEPT ![w] = @ + 1]
        /\ UNCHANGED <<pend, up>>
  /\ UNCHANGED <<vars, relay, saw, down, direct, bgot>>

\* The panel closes: SIGTERM.  relay.js's handler stays installed after a
\* fallback and ends the process within 50 ms, the direct child notwithstanding.
PanelTerm(w) ==
  /\ relay[w] \in {"awaiting", "relaying", "fellback"}
  /\ RelayExits(w)
  /\ CASE relay[w] = "awaiting" -> Hangup(w, <<"fin">>)
       [] relay[w] = "relaying" -> Hangup(w, <<"s", "fin">>)
       [] relay[w] = "fellback" -> UNCHANGED <<up, down>>
  /\ UNCHANGED <<vars, saw, pend, typed, directVars, bgot>>

\* The panel kills the wrapper outright: no goodbye, just a dead socket.
PanelKill(w) ==
  /\ Connected(w)
  /\ RelayExits(w)
  /\ Hangup(w, <<"fin">>)
  /\ UNCHANGED <<vars, saw, pend, typed, directVars, bgot>>

\* The direct child exits and its wrapper mirrors it.
DirectExit(w) ==
  /\ direct[w] = "run"
  /\ direct' = [direct EXCEPT ![w] = "exited"]
  /\ RelayExits(w)
  /\ UNCHANGED <<vars, saw, pend, typed, dgot, up, down, bgot>>

-----------------------------------------------------------------------------
(* The broker, answering on the socket.                                    *)

Reads(w, frame) ==
  /\ up[w] # <<>> /\ Head(up[w]) = frame
  /\ up' = [up EXCEPT ![w] = Tail(@)]

BrokerHello(w) ==
  /\ Reads(w, "hello")
  /\ \/ HelloRefused(w) /\ Reply(w, <<"nak", "fin">>)
     \/ HelloHeld(w) /\ UNCHANGED down
     \/ HelloSpawned(w) /\ Reply(w, <<"ack">>)
     \/ HelloSpawnFailed(w) /\ Reply(w, <<"ack">>)
  /\ UNCHANGED <<relayVars, directVars, bgot>>

HoldOver(w) ==
  /\ \/ HoldReleased(w) \/ HoldTimeout(w)
     \/ HoldSpawnFailed(w)
  /\ IF gone[w] THEN UNCHANGED down
     ELSE Reply(w, IF child'[w] = "run" THEN <<"ack">> ELSE <<"ack", "x", "fin">>)
  /\ UNCHANGED <<relayVars, directVars, up, bgot>>

BrokerStdin(w) ==
  /\ Reads(w, "i")
  /\ StdinFrame(w)
  /\ bgot' = [bgot EXCEPT ![w] = @ + 1]
  /\ UNCHANGED <<relayVars, directVars, down>>

\* 's' or the close: disconnect(), which also ends the broker's side.
BrokerDisconnect(w) ==
  /\ Reads(w, "s") \/ Reads(w, "fin")
  /\ Disconnect(w)
  /\ Reply(w, <<"fin">>)
  /\ UNCHANGED <<relayVars, directVars, bgot>>

\* Frames that find the session, or its child, already gone.
BrokerIgnores(w) ==
  /\ NoMicrotask
  /\ \/ Reads(w, "i") /\ child[w] # "run"
     \/ (Reads(w, "s") \/ Reads(w, "fin")) /\ gone[w]
  /\ UNCHANGED <<vars, relayVars, directVars, down, bgot>>

BrokerReads(w) ==
  BrokerHello(w) \/ BrokerStdin(w) \/ BrokerDisconnect(w) \/ BrokerIgnores(w)

\* The child's stdout goes to the sink, which an active session has.
BrokerOutput(w) ==
  /\ ChildInit(w) \/ ChildResult(w)
  /\ IF w \in active THEN Reply(w, <<"o">>) ELSE UNCHANGED down
  /\ UNCHANGED <<relayVars, directVars, up, bgot>>

\* Variant: the sink is not told of the exit.
BrokerExitUntold(w) == ChildExit(w) /\ UNCHANGED <<relayVars, directVars, up, down, bgot>>

BrokerExit(w) ==
  /\ ChildExit(w)
  /\ IF w \in active THEN Reply(w, <<"x", "fin">>) ELSE UNCHANGED down
  /\ UNCHANGED <<relayVars, directVars, up, bgot>>

Quiet(w) ==
  /\ DrainStep(w) \/ OrphanExit(w)
  /\ UNCHANGED <<relayVars, directVars, up, down, bgot>>

\* Every socket dies with the broker, the ones in its backlog included.
SysRestart ==
  /\ Restart
  /\ up' = [w \in Wrappers |-> <<>>]
  /\ down' = [w \in Wrappers |->
                IF Connected(w) THEN Append(down[w], "fin") ELSE <<>>]
  /\ UNCHANGED <<relayVars, directVars, bgot>>

-----------------------------------------------------------------------------
RelayReads(w) ==
  RelayAck(w) \/ RelayRefused(w) \/ RelayOutput(w) \/ RelayExitFrame(w) \/ RelayLost(w)

SysNext ==
  \/ \E w \in Wrappers :
       \/ RelayStart(w) \/ RelayUnreachable(w) \/ AckTimeout(w) \/ RelayReads(w)
       \/ PanelTypes(w) \/ PanelTerm(w) \/ PanelKill(w) \/ DirectExit(w)
       \/ BrokerReads(w) \/ HoldOver(w) \/ BrokerOutput(w) \/ BrokerExit(w) \/ Quiet(w)
  \/ SysRestart

\* Event loops run: sockets are read, timers fire.  Panels and claude are free.
SysFairness ==
  \A w \in Wrappers :
    /\ WF_sysVars(RelayReads(w) \/ AckTimeout(w))
    /\ WF_sysVars(BrokerReads(w))
    /\ WF_sysVars(HoldOver(w))
    /\ WF_sysVars(Quiet(w))

SysSpec == SysInit /\ [][SysNext]_sysVars
SysFairSpec == SysSpec /\ SysFairness

-----------------------------------------------------------------------------
(* Properties.                                                             *)

\* No turn runs twice: while the broker lives, a turn given to the broker's
\* child is never replayed into a direct child, whatever the timeouts, closes
\* and exits do (relay.js:21-30,78-86).
TurnRunsOnce == \A w \in Wrappers : restarts > 0 \/ bgot[w] = 0 \/ dgot[w] = 0

\* No turn is lost by falling back: the direct child was given everything the
\* panel typed, the bytes consumed before the fallback included
\* (passthrough.js:14-15, relay.js:68-72).
FallbackKeepsTurns ==
  \A w \in Wrappers : relay[w] = "fellback" => dgot[w] = typed[w]

\* A relay whose child the broker has seen out does not linger: the panel
\* learns of it (relay.js:31-47, claudeWrapperSocket.js:53-58).  (A spawn that
\* fails at once is settled before anyone listens, and is not told.)
RelayFollowsChild ==
  \A w \in Wrappers :
    (relay[w] = "relaying" /\ child[w] = "exited" /\ gone[w]) ~> (relay[w] # "relaying")

(* A turn the panel typed runs once, through the broker or directly: never in
   both children while the broker lives, and never in neither after a fallback. *)
TurnsKept == SysTypeOK /\ TurnRunsOnce /\ FallbackKeepsTurns
=============================================================================
