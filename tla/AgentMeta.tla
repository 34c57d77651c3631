------------------------------- MODULE AgentMeta -------------------------------
(***************************************************************************)
(* What the orchestrator remembers of an agent over restarts of its        *)
(* container: the number of turns, the pull request, the verdict on its    *)
(* credentials.  A boot reads the stored blob once (agentMeta.js), adds    *)
(* its own turns to it and posts what has changed, from the checkpoint's   *)
(* tick and at the end of a turn (agentMetaReport.js, agentAuthProbe.js).  *)
(* A post whose sender gave up or died may still be stored later.          *)
(***************************************************************************)
EXTENDS Naturals, FiniteSets

CONSTANTS
  Reports,     \* callers of reportMeta, each one report at a time
  MaxTurns,
  MaxMetaFailures  \* bound: restarts, and fetches, posts and gh calls that fail

ASSUME MetaAssumption == MaxTurns \in Nat \ {0} /\ MaxMetaFailures \in Nat

Unread == MaxTurns + 1 \* the blob has not been fetched
NoBlob == [turns |-> 0, pr |-> FALSE, reason |-> "unknown"]

VARIABLES
  store,       \* the orchestrator's blob
  env,         \* AGENT_META_B64: the turns of the blob at the container's creation
  local,       \* turns of this boot
  base,        \* the stored turns this boot has read, or Unread
  reason,      \* this boot's cached verdict, or "none"
  prCached,    \* is the pull request's URL in prUrls?
  lastSent,    \* the blob posted last, or NoBlob
  report,      \* each report: its step and what it has collected
  late,        \* posts whose sender waits no more, which may still arrive
  pr, cred,    \* the world: is there a pull request; the credentials
  turns, metaFailures,
  bad,         \* history: the credentials have been bad in this boot
  overlaid,    \* history: a post was late or not alone, and none alone was answered since
  missed       \* history: this boot went by an older blob than the stored one

bootVars == <<local, base, reason, prCached, lastSent, report>>
worldVars == <<pr, cred, turns, bad>>
metaVars == <<store, env, bootVars, late, worldVars, metaFailures, overlaid, missed>>

Verdicts == {"ok", "auth_failed", "unknown"}
\* Bad: missing, or seen to be rejected; unlisted: the probe has no opinion on this agent.
Credentials == {"bad", "good", "unlisted"}
Blobs == [turns : 0..MaxTurns, pr : BOOLEAN, reason : Verdicts]

MetaTypeOK ==
  /\ store \in Blobs /\ lastSent \in Blobs /\ env \in 0..MaxTurns
  /\ local \in 0..MaxTurns /\ base \in 0..Unread /\ reason \in Verdicts \cup {"none"}
  /\ report \in [Reports -> [step : {"idle", "hung", "posting", "posted"}, blob : Blobs]]
  /\ prCached \in BOOLEAN /\ pr \in BOOLEAN /\ cred \in Credentials
  /\ turns \in 0..MaxTurns /\ metaFailures \in 0..MaxMetaFailures
  /\ late \in SUBSET Blobs /\ bad \in BOOLEAN
  /\ overlaid \in BOOLEAN /\ missed \in BOOLEAN

Rested == [r \in Reports |-> [step |-> "idle", blob |-> NoBlob]]

\* probeAgentAuth(): a probe that fails, but not for the credentials, is no failure.
ProbeVerdict ==
  CASE cred = "bad" -> "auth_failed" [] cred = "good" -> "ok" [] cred = "unlisted" -> "unknown"

\* The first boot, or one after a boot that stored a turn, in its container or another.
MetaInit ==
  /\ cred \in {"bad", "unlisted"} /\ bad = (cred = "bad")
  /\ store \in {NoBlob, [turns |-> 1, pr |-> FALSE, reason |-> ProbeVerdict]}
  /\ env \in {0, store.turns} /\ turns = store.turns
  /\ local = 0 /\ base = Unread /\ reason = "none"
  /\ prCached = FALSE /\ lastSent = NoBlob /\ report = Rested
  /\ late = {} /\ pr = FALSE /\ metaFailures = 0 /\ overlaid = FALSE /\ missed = FALSE

At(r, s) == report[r].step = s
Fails == metaFailures < MaxMetaFailures /\ metaFailures' = metaFailures + 1

-----------------------------------------------------------------------------
\* An engine dispatches a turn; the agent opens a pull request; the user signs in.
BumpTurnCount ==
  /\ turns < MaxTurns /\ turns' = turns + 1 /\ local' = local + 1
  /\ UNCHANGED <<store, env, base, reason, prCached, lastSent, report, late, pr, cred, bad,
                 metaFailures, overlaid, missed>>
PrOpened ==
  /\ ~pr /\ turns > 0 /\ pr' = TRUE
  /\ UNCHANGED <<store, env, bootVars, late, cred, bad, turns, metaFailures, overlaid, missed>>
SignsIn ==
  /\ cred = "bad" /\ cred' = "good"
  /\ UNCHANGED <<store, env, bootVars, late, pr, bad, turns, metaFailures, overlaid, missed>>

\* loadStoredMeta(): one fetch for the whole boot.
ReadOnce == base = Unread

\* The fetch, or the environment's copy when it fails.
FetchMeta ==
  /\ ReadOnce
  /\ \/ base' = store.turns /\ missed' = FALSE /\ UNCHANGED metaFailures
     \/ Fails /\ base' = env /\ missed' = (env # store.turns)
  /\ UNCHANGED <<store, env, local, reason, prCached, lastSent, report, late, worldVars, overlaid>>

\* Variant: only this boot's turns are reported.
LocalTotal == local

\* The stored baseline and this boot's turns (capped at the bound).
Total == IF base + local > MaxTurns THEN MaxTurns ELSE base + local

\* The pull request as git and gh, which nothing kills, say: a hit is final, a miss
\* or a failure is asked again next time.
PrUrlFor(hit) ==
  \/ hit = (prCached \/ pr) /\ UNCHANGED metaFailures
  \/ ~hit /\ ~prCached /\ Fails

\* reportMeta(): waits for the blob, then collects the pull request, the turns and
\* the verdict, which is asked for once per boot.  Nothing known or nothing new is
\* not posted.
Unsaid(blob) == blob = NoBlob \/ blob = lastSent
Collect(r) ==
  /\ At(r, "idle") /\ base # Unread
  /\ \E hit \in BOOLEAN :
       /\ PrUrlFor(hit) /\ prCached' = (prCached \/ hit)
       /\ reason' = IF reason = "none" THEN ProbeVerdict ELSE reason
       /\ LET blob == [turns |-> Total, pr |-> hit, reason |-> reason'] IN
            IF Unsaid(blob) THEN UNCHANGED report
            ELSE report' = [report EXCEPT ![r] = [step |-> "posting", blob |-> blob]]
  /\ UNCHANGED <<store, env, local, base, lastSent, late, worldVars, overlaid, missed>>
GhHangs(r) ==
  /\ At(r, "idle") /\ base # Unread /\ Fails
  /\ report' = [report EXCEPT ![r].step = "hung"]
  /\ UNCHANGED <<store, env, local, base, reason, prCached, lastSent, late, worldVars, overlaid, missed>>

\* history: another post is under way.
OtherPosts(r) == \E q \in Reports \ {r} : At(q, "posting") \/ At(q, "posted")

\* The orchestrator stores the blob and its answer arrives, or is lost, or the
\* post itself is, or it is stored when nobody waits for it any more.
Arrive(r) ==
  /\ At(r, "posting") /\ store' = report[r].blob
  /\ report' = [report EXCEPT ![r].step = "posted"]
  /\ overlaid' = (overlaid \/ OtherPosts(r))
  /\ UNCHANGED <<env, local, base, reason, prCached, lastSent, late, worldVars, metaFailures, missed>>
Straggles ==
  /\ \E blob \in late : store' = blob /\ late' = late \ {blob}
  /\ overlaid' = TRUE
  /\ UNCHANGED <<env, bootVars, worldVars, metaFailures, missed>>

KeepSent(r) == UNCHANGED lastSent

Sent(r) ==
  /\ At(r, "posted") /\ lastSent' = report[r].blob
  /\ overlaid' = (OtherPosts(r) \/ store # report[r].blob)
  /\ report' = [report EXCEPT ![r] = [step |-> "idle", blob |-> NoBlob]]
  /\ UNCHANGED <<store, env, local, base, reason, prCached, late, worldVars, metaFailures, missed>>

\* The posts of S that are under way when their senders stop waiting.
Abandoned(S) == {report[r].blob : r \in {q \in S : At(q, "posting")}}

PostFails(r) ==
  /\ At(r, "posting") \/ At(r, "posted")
  /\ Fails /\ KeepSent(r) /\ late' \in {late, late \cup Abandoned({r})}
  /\ report' = [report EXCEPT ![r] = [step |-> "idle", blob |-> NoBlob]]
  /\ UNCHANGED <<store, env, local, base, reason, prCached, worldVars, overlaid, missed>>

\* The runtime restarts, in the same container or in a new one; what it had posted
\* may still arrive.
BootEnds ==
  /\ Fails
  /\ env' \in {env, store.turns}
  /\ local' = 0 /\ base' = Unread /\ reason' = "none" /\ prCached' = FALSE
  /\ lastSent' = NoBlob /\ report' = Rested /\ late' = late \cup Abandoned(Reports)
  /\ bad' = (cred = "bad")
  /\ UNCHANGED <<store, pr, cred, turns, overlaid, missed>>

MetaNext ==
  \/ BumpTurnCount \/ PrOpened \/ SignsIn \/ FetchMeta \/ Straggles \/ BootEnds
  \/ \E r \in Reports : \/ Collect(r) \/ GhHangs(r)
                        \/ Arrive(r) \/ Sent(r) \/ PostFails(r)

-----------------------------------------------------------------------------
(* No turn is counted twice, in however many boots and reports, late posts
   included: the stored count, which decides whether a restarted agent is told to
   recover, never exceeds the turns there were. *)
NeverOvercounts == store.turns <= turns /\ (base # Unread => base + local <= turns)

(* A post that is alone takes back no turns that were already stored.  One that
   arrives late or beside another does, and so does a boot whose fetch failed and
   which goes by an older copy (its container's AGENT_META_B64), and the first
   post after a late one, of a boot that did not count it. *)
CountGrows ==
  [][~missed /\ ~overlaid /\ ~overlaid' => store'.turns >= store.turns]_metaVars

(* No cry of wolf: a boot's verdict is "failed" only if in this boot the
   credentials have been missing or rejected.  It is asked for once (the code
   takes it that "the answer can't change without a relaunch"), so it outlives a
   sign-in until the next boot. *)
NoFalseAlarm == reason = "auth_failed" => bad

(* Whatever fails or crashes on the way, unless the gh of a report hangs, in the end
   the orchestrator holds this boot's count, pull request and verdict, unless the
   last post it stored was late or not alone: a boot that has had its answer does
   not post the same again. *)
ToReport == [turns |-> Total, pr |-> pr, reason |-> reason]
StoredInTheEnd ==
  <>[](base = Unread \/ overlaid \/ ToReport = NoBlob \/ store = ToReport \/ \E r \in Reports : At(r, "hung"))

(* What the orchestrator knows of the agent is true, falls back only as said and is
   complete in the end: the turns, the pull request, the credentials. *)
MetaTrue == [](MetaTypeOK /\ NeverOvercounts) /\ []NoFalseAlarm /\ CountGrows /\ StoredInTheEnd
===============================================================================
