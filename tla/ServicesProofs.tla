--------------------------- MODULE ServicesProofs ---------------------------
(***************************************************************************)
(* The components that share no state, side by side: in MCServices one of  *)
(* them moves and the others rest, so each keeps to its own specification, *)
(* and what was proved of it alone holds there, for any constants.         *)
(***************************************************************************)
EXTENDS MCServices, EventEnvelopeProofs, ServerProofs, BrowserProofs, NegotiationProofs

-----------------------------------------------------------------------------
(* A step of one component is a stutter of every other one.                *)
LEMMA ServicesStep ==
    [ServicesNext]_servicesVars =>
        /\ [ServerNext]_serverVars /\ [PresenceNext]_presenceVars /\ [ChangeNext]_changeVars
        /\ [TokenNext]_tokenVars /\ [NegotiationNext]_negotiationVars
        /\ [ClientNext]_clientVars /\ [MediaNext]_mediaVars /\ [PoolNext]_poolVars
        /\ [GroupNext]_groupVars /\ [ViewNext]_viewVars /\ [ModerationNext]_moderationVars
BY DEF ServicesNext, OthersRest, servicesVars

(* Whatever component moves, each of them behaves as its own specification *)
(* allows.                                                                 *)
THEOREM ServicesKeepToSpecs ==
    ServicesSpec => /\ ServerSpec /\ PresenceSpec /\ ChangeSpec /\ TokenSpec
                    /\ NegotiationSpec /\ ClientSpec /\ MediaSpec /\ PoolSpec
                    /\ GroupSpec /\ ViewSpec /\ ModerationSpec
<1>1. ServicesInit => /\ ServerInit /\ PresenceInit /\ ChangeInit /\ TokenInit /\ NegotiationInit
                      /\ ClientInit /\ MediaInit /\ PoolInit /\ GroupInit /\ ViewInit
                      /\ ModerationInit
    BY DEF ServicesInit
<1> QED
    BY <1>1, ServicesStep, PTL
    DEF ServicesSpec, ServerSpec, PresenceSpec, ChangeSpec, TokenSpec, NegotiationSpec, ClientSpec,
        MediaSpec, PoolSpec, GroupSpec, ViewSpec, ModerationSpec

(* Every variable of every component holds what it should, whichever of    *)
(* them moves: tokens, tabs, the pool's threads and counters, rows and     *)
(* lists of messages, the members and links of a group, jobs and attempts, *)
(* signals and offers, calls and media.                                    *)
THEOREM ServicesTypeCorrect == ServicesSpec => []ServicesTypeOK
<1>1. TokenInv => TokenTypeOK
    BY DEF TokenInv
<1>2. PoolInv => PoolTypeOK
    BY DEF PoolInv
<1>3. MediaInv => MediaTypeOK
    BY DEF MediaInv
<1>4. /\ ServerTypeOK /\ PresenceTypeOK /\ ChangeTypeOK /\ TokenTypeOK /\ NegotiationTypeOK
      /\ ClientTypeOK /\ MediaTypeOK /\ PoolTypeOK /\ GroupTypeOK /\ ViewTypeOK
      /\ ModerationTypeOK
      => ServicesTypeOK
    BY DEF ServicesTypeOK
<1> QED
    BY <1>1, <1>2, <1>3, <1>4, ServicesKeepToSpecs, ServerTypeCorrect, PresenceTypeCorrect,
       ChangeTypeCorrect, TokenInvariant, NegotiationTypeCorrect, ClientTypeCorrect, MediaInvariant,
       PoolInvariant, GroupTypeCorrect, ViewTypeCorrect, ModerationTypeCorrect, PTL

(* What was proved of the components one by one holds of all of them       *)
(* together, if the digests of one side of a call end in order: numbers    *)
(* without gaps that readers can trust, a cap on tabs, one live token,     *)
(* sides that agree, calls that talk only when answered, media that is     *)
(* held, slots and wake-ups that are counted, links that pay, chats that   *)
(* load, and histories that are not rewritten.                             *)
THEOREM ServicesAreCorrect ==
    ASSUME DigestsInOrder
    PROVE  ServicesSpec =>
            /\ [](/\ LogGapFree /\ StampedIsLogged /\ TabCap /\ VisibleIsConnected
                  /\ OneLiveToken /\ SameExchange /\ TalksWhenAnswered /\ WaitIsTimed
                  /\ CaptureIsHeld /\ PoolCount /\ PoolWakes /\ LinkPays /\ OpenDialogLoads)
            /\ LogAppendOnly /\ DeletedStays /\ OneCase /\ Exchanged
<1>1. NegotiationSpec => []SameExchange
    BY SidesAgree
<1>2. /\ ServerSpec => []LogGapFree /\ []StampedIsLogged
      /\ PresenceSpec => []TabCap /\ []VisibleIsConnected
      /\ TokenSpec => []OneLiveToken
      /\ ClientSpec => []TalksWhenAnswered /\ []WaitIsTimed
      /\ MediaSpec => []CaptureIsHeld
      /\ PoolSpec => []PoolCount /\ []PoolWakes
      /\ GroupSpec => []LinkPays
      /\ ViewSpec => []OpenDialogLoads
    BY LogHasNoGap, NumbersCanBeTrusted, TabsAreCapped, VisibleTabsAreConnected, OneTokenLive, TalksOnlyAnswered,
       WaitsAreTimed, CapturedIsHeld, SlotsAreCounted, NoWakeUpIsLost, LinksPay, OpenDialogsLoad
<1>3. /\ ServerSpec => LogAppendOnly
      /\ ChangeSpec => DeletedStays
      /\ ModerationSpec => OneCase
      /\ TokenSpec => Exchanged
    BY LogNeverRewritten, DeletedRowsStayDeleted, ReportsBecomeOneCase, TokensAreExchanged
<1> QED
    BY <1>1, <1>2, <1>3, ServicesKeepToSpecs, PTL
=============================================================================
