---------------------------- MODULE AgentServices ----------------------------
(***************************************************************************)
(* The services around an agent that share no state: the checkpoints of    *)
(* its repository, what is reported of it to the orchestrator, the side    *)
(* chats, the callers that follow a message, the translation of what an    *)
(* ACP agent says, and the seeding of its configuration.  A behaviour is a *)
(* behaviour of one of them, the others rest; so a state space is the sum  *)
(* of theirs, not their product.                                           *)
(***************************************************************************)
EXTENDS Checkpoint, AgentMeta, SideEngines, FollowChat, Translate, Seeding

VARIABLE part  \* the service whose behaviour this is

agentServicesVars == <<part, checkVars, metaVars, sideVars, chatVars, translateVars, seedVars>>

Services == {"checkpoints", "meta", "side chats", "followers", "translation", "seeding"}

\* A service that rests starts in one of its initial states; which of the
\* contents the code has at first makes no difference.
Init ==
  /\ part \in Services
  /\ CheckInit /\ MetaInit /\ SideInit /\ FollowInit /\ TranslateInit /\ SeedInit
  /\ work.code = CHOOSE code \in Codes : TRUE
  /\ part = "checkpoints" \/ commits[1].file = NoFile
  /\ part = "side chats" \/ mainEngine = "acp"
  /\ part = "meta" \/ (cred = "bad" /\ store = NoBlob)

Next ==
  /\ UNCHANGED part
  /\ \/ part = "checkpoints" /\ CheckNext /\ UNCHANGED <<metaVars, sideVars, chatVars, translateVars, seedVars>>
     \/ part = "meta" /\ MetaNext /\ UNCHANGED <<checkVars, sideVars, chatVars, translateVars, seedVars>>
     \/ part = "side chats" /\ SideNext /\ UNCHANGED <<checkVars, metaVars, chatVars, translateVars, seedVars>>
     \/ part = "followers" /\ FollowNext /\ UNCHANGED <<checkVars, metaVars, sideVars, translateVars, seedVars>>
     \/ part = "translation" /\ TranslateNext /\ UNCHANGED <<checkVars, metaVars, sideVars, chatVars, seedVars>>
     \/ part = "seeding" /\ SeedNext /\ UNCHANGED <<checkVars, metaVars, sideVars, chatVars, translateVars>>

\* The fairness of each service, owed when the behaviour is that service's.
Of(service) == part = service
CheckFair ==
  /\ WF_checkVars(Of("checkpoints") /\ \E p \in Ticks : BeginPass(p))
  /\ \A p \in Passes : WF_checkVars(Of("checkpoints") /\ GitStep(p))
  /\ \A p \in Ticks : WF_checkVars(Of("checkpoints") /\ ReportEnds(p))
MetaFair ==
  /\ WF_metaVars(Of("meta") /\ FetchMeta)
  /\ \A r \in Reports :
       /\ WF_metaVars(Of("meta") /\ Collect(r)) /\ WF_metaVars(Of("meta") /\ Arrive(r))
       /\ WF_metaVars(Of("meta") /\ Sent(r))
SideFair ==
  \A e \in Engines :
    /\ WF_sideVars(Of("side chats") /\ LoadFails(e))
    /\ WF_sideVars(Of("side chats") /\ HandshakeFails(e))
    /\ WF_sideVars(Of("side chats") /\ CancelAnswered(e))
    /\ WF_sideVars(Of("side chats") /\ KilledChildGoes(e))
FollowFair ==
  /\ \A m \in Messages : WF_chatVars(Of("followers") /\ (Accept(m) \/ Refuse(m)))
  /\ WF_chatVars(Of("followers") /\ Answer)

Spec ==
  /\ Init /\ [][Next]_agentServicesVars
  /\ CheckFair /\ MetaFair /\ SideFair /\ FollowFair
==============================================================================
