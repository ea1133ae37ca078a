----------------------------- MODULE MCServices -----------------------------
(***************************************************************************)
(* Small instances for TLC of the components that share no state with one  *)
(* another.  One run checks them all: "serving" is the component that      *)
(* moves in a behaviour, the others keep one of their initial states, so   *)
(* that the states of the run are those of each component on its own.      *)
(***************************************************************************)
EXTENDS MCEventEnvelope, Presence, MCMessageChanges, RefreshTokens, Negotiation,
        CallClient, CallMedia, ConnectionPool, MCGroups, MCChatView, Moderation

VARIABLE serving

-----------------------------------------------------------------------------
Service == {"log", "presence", "changes", "tokens", "negotiation",
            "client", "media", "pool", "group", "view", "moderation"}

\* A component that does not move need not start in each of its states.
Settled ==
    /\ serving # "changes" => \A u \in Member : shown[u][1].id = m1
    /\ serving # "tokens" => LiveToken = {CHOOSE t \in Token : TRUE}
    /\ serving # "client" => ~blocked
    /\ serving # "view" => inTable = {} /\ cached = [c \in Dialog |-> {}]

ServicesInit ==
    /\ serving \in Service
    /\ ServerInit /\ PresenceInit /\ ChangeInit /\ TokenInit /\ NegotiationInit
    /\ ClientInit /\ MediaInit /\ PoolInit /\ GroupInit /\ ViewInit
    /\ ModerationInit
    /\ Settled

\* Every component but the one that moves.
OthersRest(service) ==
    /\ UNCHANGED serving
    /\ IF service = "log" THEN TRUE ELSE UNCHANGED serverVars
    /\ IF service = "presence" THEN TRUE ELSE UNCHANGED presenceVars
    /\ IF service = "changes" THEN TRUE ELSE UNCHANGED changeVars
    /\ IF service = "tokens" THEN TRUE ELSE UNCHANGED tokenVars
    /\ IF service = "negotiation" THEN TRUE ELSE UNCHANGED negotiationVars
    /\ IF service = "client" THEN TRUE ELSE UNCHANGED clientVars
    /\ IF service = "media" THEN TRUE ELSE UNCHANGED mediaVars
    /\ IF service = "pool" THEN TRUE ELSE UNCHANGED poolVars
    /\ IF service = "group" THEN TRUE ELSE UNCHANGED groupVars
    /\ IF service = "view" THEN TRUE ELSE UNCHANGED viewVars
    /\ IF service = "moderation" THEN TRUE ELSE UNCHANGED moderationVars

ServicesNext ==
    \/ serving = "log" /\ ServerNext /\ OthersRest("log")
    \/ serving = "presence" /\ PresenceNext /\ OthersRest("presence")
    \/ serving = "changes" /\ ChangeNext /\ OthersRest("changes")
    \/ serving = "tokens" /\ TokenNext /\ OthersRest("tokens")
    \/ serving = "negotiation" /\ NegotiationNext /\ OthersRest("negotiation")
    \/ serving = "client" /\ ClientNext /\ OthersRest("client")
    \/ serving = "media" /\ MediaNext /\ OthersRest("media")
    \/ serving = "pool" /\ PoolNext /\ OthersRest("pool")
    \/ serving = "group" /\ GroupNext /\ OthersRest("group")
    \/ serving = "view" /\ ViewNext /\ OthersRest("view")
    \/ serving = "moderation" /\ ModerationNext /\ OthersRest("moderation")

servicesVars ==
    <<serving, serverVars, presenceVars, changeVars, tokenVars,
      negotiationVars, clientVars, mediaVars, poolVars, groupVars, viewVars,
      moderationVars>>

ServicesSpec == ServicesInit /\ [][ServicesNext]_servicesVars

-----------------------------------------------------------------------------
ServicesTypeOK ==
    /\ serving = "log" => ServerTypeOK
    /\ serving = "presence" => PresenceTypeOK
    /\ serving = "changes" => ChangeTypeOK
    /\ serving = "tokens" => TokenTypeOK
    /\ serving = "negotiation" => NegotiationTypeOK
    /\ serving = "client" => ClientTypeOK
    /\ serving = "media" => MediaTypeOK
    /\ serving = "pool" => PoolTypeOK
    /\ serving = "group" => GroupTypeOK
    /\ serving = "view" => ViewTypeOK
    /\ serving = "moderation" => ModerationTypeOK
=============================================================================
