------------------------------ MODULE FollowChat ------------------------------
(***************************************************************************)
(* POST /agent/message (agentChat.js): a message is echoed to whoever      *)
(* follows, then given to the launch agent; a caller that asked to follow  *)
(* it hears what the agent says until a result.  A message with a turn id  *)
(* is tracked (agentTurnTrack.js), so that a caller that lost its          *)
(* connection can ask for its lines again.                                 *)
(*                                                                         *)
(* The engine is that of agentEngine.js, reduced to the turns it owes an   *)
(* answer: SdkEngine is the whole of it.                                   *)
(***************************************************************************)
EXTENDS Naturals, SequencesExt

CONSTANTS
  Messages,
  Followed, \* those sent with ?follow=1
  Tracked,  \* those that carry a turn id
  NoTurn    \* nothing is tracked

ASSUME FollowAssumption == Followed \subseteq Messages /\ Tracked \subseteq Messages

NoTrack == [id |-> NoTurn, lines |-> <<>>, done |-> FALSE]
Line(m, kind) == [of |-> m, kind |-> kind]

VARIABLES
  post,    \* each message: "new", "sending", "sent", "over"
  reader,  \* its caller: "none", "following", "ended" or "left"
  feed,    \* what the caller was sent (nothing, once it left)
  agent,   \* is the query up, and the messages it owes an answer
  track,   \* the loop-compat slot of agentTurnTrack.js
  said,    \* history: what was said in answer to each message
  overlapped, \* history: messages in flight with another, or sent during a crash
  died,    \* history: messages whose query crashed
  silent   \* history: did a query end without a word?

chatVars == <<post, reader, feed, agent, track, said, overlapped, died, silent>>

FollowTypeOK ==
  /\ post \in [Messages -> {"new", "sending", "sent", "over"}]
  /\ reader \in [Messages -> {"none", "following", "ended", "left"}]
  /\ agent.up \in BOOLEAN /\ Range(agent.owes) \subseteq Messages
  /\ track.id \in Tracked \cup {NoTurn} /\ track.done \in BOOLEAN
  /\ overlapped \subseteq Messages /\ died \subseteq Messages /\ silent \in BOOLEAN

FollowInit ==
  /\ post = [m \in Messages |-> "new"] /\ reader = [m \in Messages |-> "none"]
  /\ feed = [m \in Messages |-> <<>>] /\ said = feed
  /\ agent = [up |-> FALSE, owes |-> <<>>] /\ track = NoTrack
  /\ overlapped = {} /\ died = {} /\ silent = FALSE

InFlight == {m \in Messages : post[m] \in {"sending", "sent"}}
Step(m, to) == post' = [post EXCEPT ![m] = to]

-----------------------------------------------------------------------------
\* broadcast.record(): every reader of the set is sent the line.
FeedTo(readers, line) ==
  [m \in Messages |-> IF m \in readers THEN Append(feed[m], line) ELSE feed[m]]

Following == {m \in Messages : reader[m] = "following"}

\* A result line ends every reader there is.
Heard(line) ==
  [m \in Messages |-> IF m \in Following /\ line.kind = "result" THEN "ended" ELSE reader[m]]

Recorded(line) ==
  IF track.id = NoTurn \/ track.done THEN track
  ELSE [id |-> track.id, lines |-> Append(track.lines, line), done |-> line.kind = "result"]

\* Who is no longer alone once m is sent; a reader whose message is over still
\* listens if the query ended without a word.
Crossing(m) ==
  overlapped \cup InFlight \cup Following \cup (IF InFlight = {} THEN {} ELSE {m})

Says(m, line) ==
  /\ said' = [said EXCEPT ![m] = Append(@, line)]
  /\ feed' = FeedTo(Following, line) /\ reader' = Heard(line)

\* handleAgentMessage: the echo first, then follow() subscribes and sends.
Post(m) ==
  /\ post[m] = "new" /\ Step(m, "sending")
  /\ feed' = FeedTo(Following, Line(m, "echo"))
  /\ reader' = [reader EXCEPT ![m] = IF m \in Followed THEN "following" ELSE @]
  /\ overlapped' = Crossing(m)
  /\ UNCHANGED <<agent, track, said, died, silent>>

\* send() past its awaits: a new turn id takes the slot.
Accept(m) ==
  /\ post[m] = "sending" /\ Step(m, "sent")
  /\ agent' = [up |-> TRUE, owes |-> Append(agent.owes, m)]
  /\ track' = IF m \in Tracked THEN [id |-> m, lines |-> <<>>, done |-> FALSE] ELSE track
  /\ UNCHANGED <<reader, feed, said, overlapped, died, silent>>

\* Variant: the error goes to the caller, who stays subscribed.
RefuseOpen(m) ==
  /\ post[m] = "sending" /\ ~agent.up /\ Step(m, "over")
  /\ said' = [said EXCEPT ![m] = Append(@, Line(m, "result"))]
  /\ feed' = FeedTo({m} \cap Following, Line(m, "result"))
  /\ UNCHANGED <<reader, agent, track, overlapped, died, silent>>

\* send() throws (the query cannot start, or died meanwhile): the caller alone
\* is given a result, or a 500.
Refuse(m) ==
  /\ post[m] = "sending" /\ ~agent.up /\ Step(m, "over")
  /\ said' = [said EXCEPT ![m] = Append(@, Line(m, "result"))]
  /\ feed' = FeedTo({m} \cap Following, Line(m, "result"))
  /\ reader' = [reader EXCEPT ![m] = IF @ = "following" THEN "ended" ELSE @]
  /\ UNCHANGED <<agent, track, overlapped, died, silent>>

\* The agent says something, once for a message.
Say ==
  /\ agent.owes # <<>>
  /\ LET m == Head(agent.owes) IN
       /\ said[m] = <<>>
       /\ Says(m, Line(m, "text")) /\ track' = Recorded(Line(m, "text"))
  /\ UNCHANGED <<post, agent, overlapped, died, silent>>

\* A result answers one message, or it and those that steered it.
Answer ==
  /\ agent.owes # <<>>
  /\ \E n \in {1, Len(agent.owes)} :
       LET m == Head(agent.owes) answered == Range(SubSeq(agent.owes, 1, n)) IN
         /\ Says(m, Line(m, "result")) /\ track' = Recorded(Line(m, "result"))
         /\ agent' = [up |-> agent.up, owes |-> SubSeq(agent.owes, n + 1, Len(agent.owes))]
         /\ post' = [k \in Messages |-> IF k \in answered THEN "over" ELSE post[k]]
  /\ UNCHANGED <<overlapped, died, silent>>

\* The query is gone, and what it owed with it; pump() tells the readers if it
\* threw, and nobody if the SDK's stream just ended.  Neither is tracked.
QueryEnds(threw) ==
  /\ agent.up /\ agent' = [up |-> FALSE, owes |-> <<>>]
  /\ LET owed == Range(agent.owes) IN
       /\ post' = [m \in Messages |-> IF m \in owed THEN "over" ELSE post[m]]
       /\ died' = died \cup owed
       /\ said' = [m \in Messages |->
            IF threw /\ m \in owed THEN Append(said[m], Line(NoTurn, "result")) ELSE said[m]]
  /\ overlapped' = overlapped \cup {m \in Messages : post[m] = "sending"}
  /\ IF threw THEN /\ feed' = FeedTo(Following, Line(NoTurn, "result"))
                   /\ reader' = Heard(Line(NoTurn, "result")) /\ silent' = silent
              ELSE UNCHANGED <<feed, reader>> /\ silent' = TRUE
  /\ UNCHANGED track

\* The connection is closed; the turn goes on.
Leave(m) ==
  /\ reader[m] = "following" /\ reader' = [reader EXCEPT ![m] = "left"]
  /\ feed' = [feed EXCEPT ![m] = <<>>]
  /\ UNCHANGED <<post, agent, track, said, overlapped, died, silent>>

\* A message without text and with a turn id: its lines, or a 409.
Replay(m) == IF track.id = m THEN track.lines ELSE <<>>

FollowNext ==
  \/ \E m \in Messages : Post(m) \/ Accept(m) \/ Refuse(m) \/ Leave(m)
  \/ Say \/ Answer \/ \E threw \in BOOLEAN : QueryEnds(threw)

-----------------------------------------------------------------------------
(* A caller that follows a message is sent the answer to it, all of it and
   nothing else, if no other message was in flight (then it is not: the first
   result ends every reader, whosever it is), nor sent to a reader left over. *)
OwnAnswer ==
  \A m \in Followed : reader[m] = "ended" /\ m \notin overlapped => feed[m] = said[m]

(* What a reconcile is given is the answer to that message as far as it went,
   and the whole of it when the slot says done, whatever was sent since; unless
   it overlapped another, or its query died and left the slot open. *)
ReplayHonest ==
  \A m \in Tracked \ (overlapped \cup died) :
    /\ IsPrefix(Replay(m), said[m])
    /\ track.id = m /\ track.done => Replay(m) = said[m]

(* A caller does not follow for ever, whatever becomes of its message, unless
   the agent's stream ends without a word (a message is followed once). *)
FollowersEnd == <>[](silent \/ \A m \in Followed : reader[m] # "following")

(* A caller hears the answer to its message, at once or when it asks again, and
   is let go. *)
CallersAnswered == [](FollowTypeOK /\ OwnAnswer) /\ []ReplayHonest /\ FollowersEnd
===============================================================================
