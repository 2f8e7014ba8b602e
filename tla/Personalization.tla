--------------------------- MODULE Personalization ---------------------------
(***************************************************************************)
(* The personalization of the Smart-eID: PersonalizationController with    *)
(* CompositeStatePrepareApplet, the commands its states give to the        *)
(* SmartManager in the ReaderManager's thread, and the chip they change.   *)
(* The applet is prepared, the user authenticates with the ID card (the    *)
(* module Authentication), a session of the chip is begun, filled with the *)
(* server's commands and finalized, and the Smart-eID gets its PIN.        *)
(*                                                                         *)
(* Scope: the application, not the SDK; the vendor's library is external,  *)
(* of its answers only success or failure and the state of the chip are    *)
(* modelled; the user enters the new PIN once and on the device.           *)
(***************************************************************************)
EXTENDS Authentication

-----------------------------------------------------------------------------
(* Commands of the SmartManager. *)

SmartCommand(st) ==
    /\ Runs(st)
    /\ m' = SendCommand(st)
    /\ UNCHANGED <<ctx, Outside>>
RunCheckApplet               == SmartCommand("CheckApplet")
RunInstallApplet             == SmartCommand("InstallApplet")
RunDeletePersonalization     == SmartCommand("DeletePersonalization")
RunDeleteApplet              == SmartCommand("DeleteApplet")
RunUpdateSupportInfo         == SmartCommand("UpdateSupportInfo")
RunGetServiceInformation     == SmartCommand("GetServiceInformation")
RunInitializePersonalization == SmartCommand("InitializePersonalization")
RunTransmitPersonalization   == SmartCommand("TransmitPersonalization")

(* Variant: after an error there is nothing to finalize.                   *)
RunFinalizeUnlessFailed ==
    /\ Runs("FinalizePersonalization")
    /\ IF ctx.status = "ok"
       THEN m' = SendCommand("FinalizePersonalization") /\ UNCHANGED ctx
       ELSE Emit(Rest, ctx, "FinalizePersonalization", "propagateAbort")
    /\ UNCHANGED Outside
RunFinalizePersonalization == SmartCommand("FinalizePersonalization")

(* What becomes of a command: its answer, the type of the Smart-eID and    *)
(* the chip it leaves behind.  A failed installation may leave an unusable *)
(* applet, a failed finalization ends the session as well.                 *)
Outcome(code, chip) == [code |-> code, chip |-> chip, type |-> smart.type]
Outcomes(st) ==
    {Outcome("abort", smart.chip)} \cup
    CASE st = "CheckApplet" ->
             {Outcome(CASE smart.chip = "absent"       -> "install"
                        [] smart.chip = "blank"        -> "continue"
                        [] smart.chip = "personalized" -> "clean"
                        [] OTHER                       -> "remove", smart.chip)}
      [] st = "InstallApplet"          -> {Outcome("continue", "blank"), Outcome("abort", "unusable")}
      [] st = "DeletePersonalization"  -> {Outcome("continue", "blank")}
      [] st = "DeleteApplet"           -> {Outcome("continue", "absent")}
      [] st = "UpdateSupportInfo"      -> {Outcome(code, smart.chip) : code \in {"continue", "remove"}}
      [] st = "GetServiceInformation"  ->
             {[Outcome("continue", smart.chip) EXCEPT !.type = type] : type \in {"applet", "nonApplet"}}
      [] st = "InitializePersonalization" -> {Outcome("continue", "begun")}
      [] st = "TransmitPersonalization"   -> {Outcome("continue", smart.chip)}
OutcomesOfFinalize ==
    {Outcome("continue", "personalized"), Outcome("abort", "blank"), Outcome("abort", "unusable")}

ExecuteSmart ==
    /\ m.cmds # <<>> /\ Head(m.cmds).st \in SmartStates
    /\ LET cmd == Head(m.cmds)
       IN  \E outcome \in IF cmd.st = "FinalizePersonalization" THEN OutcomesOfFinalize
                                                                ELSE Outcomes(cmd.st) :
           /\ smart' = [smart EXCEPT !.chip = outcome.chip, !.type = outcome.type]
           /\ m' = [m EXCEPT !.cmds = Tail(@),
                             !.events = IF cmd.wired
                                        THEN Append(@, Done(cmd.st, outcome.code)) ELSE @]
    /\ UNCHANGED <<setup, ctx, net, card, faults>>

(* onCommandDone.  A state that may not be interrupted gives way to a      *)
(* cancellation now.                                                       *)
SmartDone(st) ==
    /\ Completes(st)
    /\ IF st \in Uninterruptible /\ ctx.inState THEN Emit(Rest, OnAbort(ctx), st, "abort")
       ELSE IF Event.code = "abort"             THEN Emit(Rest, Failed(ctx), st, "abort")
       ELSE Emit(Rest, ctx, st, Event.code)
    /\ UNCHANGED Outside
CheckAppletDone               == SmartDone("CheckApplet")
InstallAppletDone             == SmartDone("InstallApplet")
DeletePersonalizationDone     == SmartDone("DeletePersonalization")
DeleteAppletDone              == SmartDone("DeleteApplet")
UpdateSupportInfoDone         == SmartDone("UpdateSupportInfo")
InitializePersonalizationDone == SmartDone("InitializePersonalization")
TransmitPersonalizationDone   == SmartDone("TransmitPersonalization")
GetServiceInformationDone     == SmartDone("GetServiceInformation")

(* The PIN the session was finalized with opens the channel to the         *)
(* Smart-eID.                                                              *)
FinalizePersonalizationDone ==
    /\ Completes("FinalizePersonalization")
    /\ LET Signals(c, sig) == Emit(Rest, c, "FinalizePersonalization", sig)
       IN  CASE ctx.status # "ok"     -> Signals(ctx, "propagateAbort")
             [] ctx.status = "ok" /\ Event.code = "abort" -> Signals(Failed(ctx), "abort")
             [] OTHER                 -> Signals([ctx EXCEPT !.passwords = TRUE], "continue")
    /\ UNCHANGED Outside

-----------------------------------------------------------------------------
(* States without a command. *)

RunCheckStatus                == Checks("CheckStatus")
RunLoadSmartTcTokenUrl        == Continues("LoadSmartTcTokenUrl")
RunEnterNewPin                == Continues("EnterNewPin")
RunStartPaosPersonalization   == Continues("StartPaosPersonalization")
RunStartPaosPersonalizationResponse == LooksAtResponse("StartPaosPersonalizationResponse")
RunClearNewPin                == Clears("ClearNewPin")
RunClearAll                   == Clears("ClearAll")
RunCleanUpSmart               == CleansUp("CleanUpSmart")

(* The provider: the session identifier, the challenge, and the answer to  *)
(* the data of the initialization.                                         *)
RunGetSessionId           == Gets("GetSessionId")
RunGetChallenge           == Gets("GetChallenge")
RunPreparePersonalization == Gets("PreparePersonalization")
ReplyProvider ==
    \E st \in {"GetSessionId", "GetChallenge", "PreparePersonalization"} :
        \/ /\ st \in m.open /\ Running
           /\ Emit(Replied(st), ctx, st, "continue")
           /\ UNCHANGED Outside
        \/ ReplyFails(st)

-----------------------------------------------------------------------------
(* The Smart-eID as a card, and its new PIN. *)

(* There is one Smart reader, or the state gives up.                       *)
RunInsertCard ==
    /\ Runs("InsertCard")
    /\ \/ m' = Request("InsertCard") /\ UNCHANGED ctx
       \/ Emit(Rest, Failed(ctx), "InsertCard", "abort")
    /\ UNCHANGED Outside

(* onCardInfoChanged, onStatusChanged. *)
SmartReaderScanned ==
    /\ "InsertCard" \in m.open /\ Running
    /\ \/ \E sig \in {"continue", "skipPinChange"} : Emit(Replied("InsertCard"), ctx, "InsertCard", sig)
       \/ Emit(Replied("InsertCard"), Failed(ctx), "InsertCard", "abort")
    /\ UNCHANGED Outside

CallSetEidPin(mm) ==
    IF card.conn THEN [mm EXCEPT !.cmds = Append(@, [st |-> "ChangeSmartPin", wired |-> TRUE])]
                 ELSE [mm EXCEPT !.cur = "crashed"]

(* Without a new PIN the state waits for fireNewPinChanged.                *)
RunChangeSmartPin ==
    /\ Runs("ChangeSmartPin")
    /\ m' = IF smart.newPin THEN CallSetEidPin(Rest) ELSE Request("ChangeSmartPin")
    /\ UNCHANGED <<ctx, Outside>>
ChangeSmartPinDone == CommandDone("ChangeSmartPin")

RunDestroySmartPace  == FinalCommand("DestroySmartPace")
DestroySmartPaceDone == PaceDestroyed("DestroySmartPace")

(* The view of the new PIN, of an applet also while the workflow goes on.  *)
PinView ==
    {"EnterNewPin", "GetChallenge", "InitializePersonalization", "PreparePersonalization",
     "StartPaosPersonalization", "SendStartPaosPersonalization", "TransmitPersonalization",
     "SendTransmitPersonalization", "StartPaosPersonalizationResponse",
     "FinalizePersonalization", "InsertCard", "SmartPace", "ChangeSmartPin"}

(* commitNewPin: it approves EnterNewPin, or a state that waits is told.   *)
EnterSmartPin ==
    /\ ~smart.newPin
    /\ \/ smart.type = "nonApplet" /\ m.cur = "EnterNewPin" /\ ~m.approved /\ m' = Approved(m)
       \/ /\ smart.type = "applet" /\ m.cur \in PinView
          /\ m' = IF "ChangeSmartPin" \in m.open THEN CallSetEidPin(Replied("ChangeSmartPin"))
                                                ELSE m
    /\ smart' = [smart EXCEPT !.newPin = TRUE]
    /\ UNCHANGED <<setup, ctx, net, card, faults>>

SmartMainThread ==
    \/ RunCheckApplet \/ RunInstallApplet \/ RunDeletePersonalization \/ RunDeleteApplet
    \/ RunUpdateSupportInfo \/ RunGetServiceInformation \/ RunInitializePersonalization
    \/ RunTransmitPersonalization \/ RunFinalizePersonalization
    \/ CheckAppletDone \/ InstallAppletDone \/ DeletePersonalizationDone \/ DeleteAppletDone
    \/ UpdateSupportInfoDone \/ GetServiceInformationDone \/ InitializePersonalizationDone
    \/ TransmitPersonalizationDone \/ FinalizePersonalizationDone
    \/ RunCheckStatus \/ RunLoadSmartTcTokenUrl \/ RunEnterNewPin \/ RunStartPaosPersonalization
    \/ RunStartPaosPersonalizationResponse \/ RunClearNewPin \/ RunClearAll \/ RunCleanUpSmart
    \/ RunGetSessionId \/ RunGetChallenge \/ RunPreparePersonalization
    \/ RunInsertCard \/ RunChangeSmartPin \/ ChangeSmartPinDone
    \/ RunDestroySmartPace \/ DestroySmartPaceDone

WorkflowNext ==
    \/ Next \/ SmartMainThread \/ ExecuteSmart \/ ReplyProvider \/ SmartReaderScanned \/ EnterSmartPin

WorkflowSpec == Init /\ [][WorkflowNext]_vars

(* Both event loops run, and every request gets an answer or its transfer  *)
(* timeout (NetworkManager::setTransferTimeout).  Nothing is assumed of    *)
(* the user, of the Smart reader, nor of PACE before it is cancelled.      *)
WorkflowFairness ==
    /\ WF_vars(Start \/ MainThread \/ SmartMainThread)
    /\ WF_vars(Execute \/ ExecuteSmart)
    /\ WF_vars(Replies \/ ReplyProvider)
    /\ WF_vars(PaceFails /\ ctx.status # "ok")
WorkflowFairSpec == WorkflowSpec /\ WorkflowFairness

-----------------------------------------------------------------------------
(* The functions that install, delete and update the applet run in the     *)
(* other thread and use the state that gave them away: none is left to run *)
(* when the workflow is over, however it was cancelled.                    *)
SmartCommandsAreAwaited ==
    m.cur = "stopped" => \A i \in DOMAIN m.cmds : m.cmds[i].st \notin Uninterruptible

(* eid_applet_interface.h asks that a session that was begun is finalized  *)
(* "in the event of an error, e.g. if personalization flow has been        *)
(* interrupted": it is, from the moment the workflow knows that it began.  *)
InterruptedIsFinalized == m.cur = "PreparePersonalization" ~> smart.chip # "begun"
=============================================================================
