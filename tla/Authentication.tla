--------------------------- MODULE Authentication ---------------------------
(***************************************************************************)
(* The authentication and the self-authentication: the state machines of   *)
(* AuthController and SelfAuthController with CompositeStateTrustedChannel *)
(* and CompositeStateProcessCvcsAndSetRights, the AuthContext they share,  *)
(* and the three parties they talk to: the eID server (PAOS messages), the *)
(* provider (TC token and refresh address) and the card.  The transitions  *)
(* of PersonalizationController, which authenticates as well, are here,    *)
(* its own states in the module Personalization.                           *)
(*                                                                         *)
(* A state whose reply is outstanding is in m.open.  A reply belongs to    *)
(* its state, which drops it on exit; the run() of a state that was left   *)
(* before it ran still executes and sends, as in ChangePin.                *)
(*                                                                         *)
(* Scope: CompositeStatePace, which ChangePin models, is one state here    *)
(* that succeeds or fails; the developer mode, which ignores some checks,  *)
(* is off; of a certificate check only its verdict is modelled.            *)
(***************************************************************************)
EXTENDS Integers, Sequences, FiniteSets

CONSTANTS
    Setups,        \* instances: the workflow, its UI, who may end it, the kind of server,
                   \* and the bounds: faults, TRANSMIT messages, redirects of the refresh address
    OwnUrls,       \* URLs that match the subject URL of the provider
    ForeignUrls    \* other URLs the provider redirects to

Urls == OwnUrls \cup ForeignUrls

ASSUME AuthenticationAssumption ==
    /\ Setups \subseteq [action : {"auth", "selfAuth", "personalization"}, ui : {"json", "qml"},
                         ends : SUBSET {"cancel", "kill"}, honest : BOOLEAN,
                         maxFaults : Nat, maxTransmits : Nat, maxRedirects : Nat]
    /\ OwnUrls \cap ForeignUrls = {} /\ {"none", "errorAddress"} \cap Urls = {}

VARIABLES
    setup,         \* the chosen instance
    m,             \* state machine: current state, approval, posted events, card commands, requests
    ctx,           \* AuthContext
    net,           \* the server and the provider: what they were told, the URL in question
    card,          \* connection, PACE data and the card itself
    smart,         \* Smart-eID: its type, whether its PIN was chosen, the state of the chip
    faults         \* card removals and failed commands so far

vars == <<setup, m, ctx, net, card, smart, faults>>

(* A signal of a state and where it leads.  "leave", "denied", "granted",  *)
(* "prepared" and "unprepared" are signals of the composite states, see    *)
(* Target.                                                                 *)
Either(to) == [continue |-> to, abort |-> to]

ChannelEdges ==
    [GetTcToken |-> [continue |-> "StartPaos", abort |-> "leave"],
     StartPaos |-> [continue |-> "SendStartPaos", abort |-> "leave"],
     SendStartPaos |-> [continue |-> "InitializeFramework", abort |-> "leave",
                        extractCvcs |-> "ExtractCvcs", response |-> "StartPaosResponse"],
     InitializeFramework |-> Either("SendInitializeFrameworkResponse"),
     SendInitializeFrameworkResponse |-> [continue |-> "ExtractCvcs", abort |-> "leave",
                                          response |-> "StartPaosResponse"],
     Pace |-> [continue |-> "Eac1", abort |-> "SendEac1"],
     Eac1 |-> Either("SendEac1"),
     SendEac1 |-> [continue |-> "EacAdditional", abort |-> "DestroyPace", response |-> "DestroyPace"],
     EacAdditional |-> [continue |-> "ProcessCertificates", abort |-> "SendEacAdditional",
                        sendResponse |-> "SendEacAdditional"],
     SendEacAdditional |-> [continue |-> "ProcessCertificates", abort |-> "DestroyPace",
                            response |-> "DestroyPace"],
     ProcessCertificates |-> [continue |-> "Eac2", abort |-> "SendEac2"],
     Eac2 |-> Either("SendEac2"),
     SendEac2 |-> [continue |-> "Transmit", abort |-> "DestroyPace", response |-> "DestroyPace"],
     Transmit |-> Either("SendTransmit"),
     SendTransmit |-> [continue |-> "Transmit", abort |-> "DestroyPace", response |-> "DestroyPace"],
     DestroyPace |-> Either("Clear"),
     Clear |-> Either("UpdateFinal"),
     UpdateFinal |-> Either("CleanUp"),
     CleanUp |-> Either("StartPaosResponse"),
     StartPaosResponse |-> Either("leave")]

CvcEdges ==
    [ExtractCvcs |-> [continue |-> "PreVerification", abort |-> "denied"],
     PreVerification |-> [continue |-> "CertificateDescriptionCheck", abort |-> "denied"],
     CertificateDescriptionCheck |-> [continue |-> "CheckCertificates", abort |-> "denied"],
     CheckCertificates |-> [continue |-> "EditAccessRights", abort |-> "denied"],
     EditAccessRights |-> [continue |-> "granted", abort |-> "denied"]]

AuthEdges ==
    [ParseTcTokenUrl |-> [continue |-> "GetTcToken", abort |-> "CheckRefreshAddress"],
     CheckRefreshAddress |-> [continue |-> "CheckError", abort |-> "RedirectBrowser"],
     CheckError |-> [continue |-> "StoreFeedback", abort |-> "RedirectBrowser",
                     propagateAbort |-> "RedirectBrowser"],
     StoreFeedback |-> [continue |-> "Survey", abort |-> "RedirectBrowser"],
     Survey |-> Either("RedirectBrowser"),
     RedirectBrowser |-> Either("Final"),
     Final |-> [continue |-> "stopped"]]

SelfAuthEdges ==
    [LoadTcTokenUrl |-> [continue |-> "GetTcToken", abort |-> "CheckRefreshAddress"],
     CheckError |-> [continue |-> "CheckRefreshAddress", propagateAbort |-> "Final"],
     CheckRefreshAddress |-> [continue |-> "StoreFeedback", abort |-> "Final"],
     StoreFeedback |-> Either("GetData"),
     GetData |-> [continue |-> "ShowResult", abort |-> "Final"],
     ShowResult |-> [continue |-> "Survey", abort |-> "Final"],
     Survey |-> Either("Final"),
     Final |-> [continue |-> "stopped"]]

AppletEdges ==
    [CheckApplet |-> [continue |-> "UpdateSupportInfo", install |-> "InstallApplet",
                      clean |-> "DeletePersonalization", remove |-> "DeleteApplet",
                      abort |-> "unprepared"],
     InstallApplet |-> [continue |-> "prepared", abort |-> "unprepared"],
     DeletePersonalization |-> [continue |-> "CheckApplet", abort |-> "unprepared"],
     DeleteApplet |-> [continue |-> "InstallApplet", abort |-> "unprepared"],
     UpdateSupportInfo |-> [continue |-> "prepared", remove |-> "DeleteApplet",
                            abort |-> "unprepared"]]

PersonalizationEdges ==
    [CheckStatus |-> [continue |-> "CheckApplet", abort |-> "Final"],
     LoadSmartTcTokenUrl |-> Either("GetTcToken"),
     CheckError |-> [continue |-> "CheckRefreshAddress", abort |-> "Final", propagateAbort |-> "Final"],
     CheckRefreshAddress |-> [continue |-> "GetSessionId", abort |-> "Final"],
     GetSessionId |-> [continue |-> "GetServiceInformation", abort |-> "Final"],
     GetServiceInformation |-> [continue |-> "EnterNewPin", abort |-> "Final"],
     EnterNewPin |-> [continue |-> "GetChallenge", abort |-> "Final"],
     GetChallenge |-> [continue |-> "InitializePersonalization", abort |-> "ClearNewPin"],
     InitializePersonalization |-> [continue |-> "PreparePersonalization", abort |-> "ClearNewPin"],
     PreparePersonalization |-> [continue |-> "StartPaosPersonalization",
                                 abort |-> "FinalizePersonalization"],
     StartPaosPersonalization |-> [continue |-> "SendStartPaosPersonalization",
                                   abort |-> "FinalizePersonalization"],
     SendStartPaosPersonalization |-> [continue |-> "TransmitPersonalization",
                                       abort |-> "FinalizePersonalization",
                                       response |-> "StartPaosPersonalizationResponse"],
     TransmitPersonalization |-> Either("SendTransmitPersonalization"),
     SendTransmitPersonalization |-> [continue |-> "TransmitPersonalization",
                                      abort |-> "FinalizePersonalization",
                                      response |-> "StartPaosPersonalizationResponse"],
     StartPaosPersonalizationResponse |-> Either("FinalizePersonalization"),
     FinalizePersonalization |-> [continue |-> "InsertCard", abort |-> "ClearNewPin",
                                  propagateAbort |-> "ClearNewPin"],
     ClearNewPin |-> Either("Final"),
     InsertCard |-> [continue |-> "SmartPace", abort |-> "ClearAll", skipPinChange |-> "ClearAll"],
     SmartPace |-> [continue |-> "ChangeSmartPin", abort |-> "ClearAll"],
     ChangeSmartPin |-> Either("DestroySmartPace"),
     DestroySmartPace |-> Either("ClearAll"),
     ClearAll |-> Either("CleanUpSmart"),
     CleanUpSmart |-> Either("StoreFeedback"),
     StoreFeedback |-> Either("ShowResult"),
     ShowResult |-> [continue |-> "Survey", abort |-> "Final"],
     Survey |-> Either("Final"),
     Final |-> [continue |-> "stopped"]]

ProcessCvcs    == DOMAIN CvcEdges
TrustedChannel == DOMAIN ChannelEdges \cup ProcessCvcs
PrepareApplet  == DOMAIN AppletEdges
States         == TrustedChannel \cup PrepareApplet \cup DOMAIN AuthEdges
                  \cup DOMAIN SelfAuthEdges \cup DOMAIN PersonalizationEdges

Edges(st) ==
    IF st \in ProcessCvcs               THEN CvcEdges[st]
    ELSE IF st \in DOMAIN ChannelEdges  THEN ChannelEdges[st]
    ELSE IF st \in PrepareApplet        THEN AppletEdges[st]
    ELSE IF setup.action = "auth"       THEN AuthEdges[st]
    ELSE IF setup.action = "selfAuth"   THEN SelfAuthEdges[st]
    ELSE PersonalizationEdges[st]
First == CASE setup.action = "auth"     -> "ParseTcTokenUrl"
           [] setup.action = "selfAuth" -> "LoadTcTokenUrl"
           [] OTHER                     -> "CheckStatus"
AfterChannel == IF setup.action = "auth" THEN "CheckRefreshAddress" ELSE "CheckError"

(* Variant: a signal of an inner state ends no composite state.            *)
TargetUnconnected(cur, st, sig) ==
    IF cur = st /\ sig \in DOMAIN Edges(st) THEN Edges(st)[sig] ELSE "ignored"

(* A composite state leaves with its own signal, which a signal of an      *)
(* inner state is connected to: it counts whichever inner state is current.*)
Target(cur, st, sig) ==
    LET to == IF sig \in DOMAIN Edges(st) THEN Edges(st)[sig] ELSE "ignored"
    IN  IF to = "leave"           THEN IF cur \in TrustedChannel THEN AfterChannel ELSE "ignored"
        ELSE IF to = "denied"     THEN IF cur \in ProcessCvcs THEN "SendEac1" ELSE "ignored"
        ELSE IF to = "granted"    THEN IF cur \in ProcessCvcs THEN "Pace" ELSE "ignored"
        ELSE IF to = "prepared"   THEN IF cur \in PrepareApplet THEN "LoadSmartTcTokenUrl" ELSE "ignored"
        ELSE IF to = "unprepared" THEN IF cur \in PrepareApplet THEN "Final" ELSE "ignored"
        ELSE IF cur = st          THEN to
        ELSE "ignored"

(* The states a UI may show something in before it approves them. *)
Waiting ==
    IF setup.ui = "json" THEN {"EditAccessRights"}
    ELSE IF setup.action = "personalization"
    THEN {"CheckStatus", "PreVerification", "EditAccessRights", "ShowResult", "Survey", "Final"}
         \cup (IF smart.type = "nonApplet" THEN {"EnterNewPin"} ELSE {})
    ELSE {"GetTcToken", "PreVerification", "CertificateDescriptionCheck",
          "EditAccessRights", "SendEac1", "RedirectBrowser", "Final"}
(* setAbortOnCardRemoved *)
AbortOnCardRemoved ==
    {"Eac1", "SendEac1", "EacAdditional", "SendEacAdditional", "ProcessCertificates", "Eac2",
     "SendEac2", "Transmit", "SendTransmit"}
Senders == {"SendStartPaos", "SendInitializeFrameworkResponse", "SendEac1", "SendEacAdditional",
            "SendEac2", "SendTransmit", "SendStartPaosPersonalization", "SendTransmitPersonalization"}
TransmitExpected == {"SendEac2", "SendTransmit", "SendStartPaosPersonalization",
                     "SendTransmitPersonalization"}
Requesters == Senders \cup {"GetTcToken", "CheckRefreshAddress", "GetData", "GetSessionId",
                            "GetChallenge", "PreparePersonalization", "InsertCard", "ChangeSmartPin"}
Paces == {"Pace", "SmartPace"}
DestroyPaces == {"DestroyPace", "DestroySmartPace"}
CardStates == {"Eac1", "Eac2", "Transmit", "UpdateFinal", "ChangeSmartPin"} \cup DestroyPaces
SmartStates == PrepareApplet \cup {"GetServiceInformation", "InitializePersonalization",
                                   "TransmitPersonalization", "FinalizePersonalization"}
(* States that are only left when their command is done: it captures them. *)
Uninterruptible == PrepareApplet \ {"CheckApplet"}

-----------------------------------------------------------------------------
Run(s)    == [type |-> "run", st |-> s]
Cancel(s) == [type |-> "cancel", st |-> s]
Removed   == [type |-> "removed"]
Done(s, code) == [type |-> "done", st |-> s, code |-> code]
Events ==
    [type : {"run", "cancel"}, st : States] \cup {Removed}
    \cup [type : {"done"}, st : CardStates, code : {"ok", "unexpected", "failed"}]
    \cup [type : {"done"}, st : SmartStates,
          code : {"continue", "abort", "install", "clean", "remove"}]

TypeOK ==
    /\ setup \in Setups
    /\ m \in [cur : States \cup {"none", "stopped", "crashed"}, approved : BOOLEAN,
              events : Seq(Events), open : SUBSET Requesters,
              cmds : Seq([st : CardStates \cup SmartStates, wired : BOOLEAN])]
    /\ ctx \in [killed : BOOLEAN, cancelled : BOOLEAN, inState : BOOLEAN,
                status : {"ok", "cancelled", "error"}, failure : BOOLEAN, reported : BOOLEAN,
                passwords : BOOLEAN, token : {"none", "plain", "errorAddress"},
                paos : {"none", "ok", "error"}, paosResult : {"ok", "error"},
                refresh : Urls \cup {"none", "errorAddress"}, result : {"none", "ok", "error"},
                data : BOOLEAN]
    /\ net \in [transmits : 0..setup.maxTransmits, redirects : 0..setup.maxRedirects,
                url : Urls \cup {"none"}, head : BOOLEAN, verified : SUBSET Urls,
                browser : {"none", "ok", "error"}]
    /\ card \in [conn : BOOLEAN, paceData : BOOLEAN, present : BOOLEAN]
    /\ smart \in [type : {"unknown", "applet", "nonApplet"}, newPin : BOOLEAN,
                  chip : {"absent", "blank", "unusable", "begun", "personalized"}]
    /\ faults \in 0..setup.maxFaults

Init ==
    /\ setup \in Setups
    /\ m = [cur |-> "none", approved |-> FALSE, events |-> <<>>, open |-> {}, cmds |-> <<>>]
    /\ ctx = [killed |-> FALSE, cancelled |-> FALSE, inState |-> FALSE, status |-> "ok",
              failure |-> FALSE, reported |-> FALSE, passwords |-> FALSE, token |-> "none",
              paos |-> "none", paosResult |-> "ok", refresh |-> "none", result |-> "none",
              data |-> FALSE]
    /\ net = [transmits |-> 0, redirects |-> 0, url |-> "none", head |-> FALSE, verified |-> {},
              browser |-> "none"]
    /\ card = [conn |-> FALSE, paceData |-> FALSE, present |-> FALSE]
    /\ \E chip \in {"absent", "blank", "unusable", "personalized"} :
           /\ smart = [type |-> "unknown", newPin |-> FALSE, chip |-> chip]
           /\ setup.action # "personalization" => chip = "absent"
    /\ faults = 0

-----------------------------------------------------------------------------
(* The state machine and AbstractState. *)

(* clearConnections: nobody hears of the results of the state's commands.  *)
Disconnected(cmds, st) ==
    [i \in DOMAIN cmds |-> [cmds[i] EXCEPT !.wired = @ /\ cmds[i].st # st]]

(* onExit: the connections are cut and the reply is dropped. *)
Exit(mm) ==
    [mm EXCEPT !.approved = FALSE,
               !.open = @ \ {mm.cur},
               !.cmds = Disconnected(@, mm.cur)]

Enter(mm, c, st) ==
    LET approved == mm.approved \/ st \notin Waiting \/ c.killed
        runs     == IF approved /\ ~mm.approved /\ st \notin Paces THEN <<Run(st)>> ELSE <<>>
        cancels  == IF c.cancelled /\ ~c.inState THEN <<Cancel(st)>> ELSE <<>>
    IN  [mm EXCEPT !.cur = st, !.approved = approved, !.events = @ \o runs \o cancels]

(* Variant: the result of the server alone is passed on. *)
WithPaosResult(c) ==
    IF c.refresh = "none" THEN c ELSE [c EXCEPT !.result = c.paosResult]

(* StateRedirectBrowser::onEntry: the result of the refresh URL.           *)
WithResult(c) ==
    CASE c.refresh # "none" ->
             [c EXCEPT !.result = IF c.status = "cancelled" \/ c.paosResult = "ok"
                                  THEN IF c.status = "ok" THEN "ok" ELSE "error"
                                  ELSE c.paosResult]
      [] c.refresh = "none" /\ c.token = "errorAddress" ->
             [c EXCEPT !.refresh = "errorAddress", !.result = "error"]
      [] OTHER -> c

(* State st emits signal sig; c is the context at that moment. *)
Emit(mm, c, st, sig) ==
    LET to == Target(mm.cur, st, sig)
    IN  /\ m' = CASE to = "ignored" -> mm
                  [] to = "stopped" -> [Exit(mm) EXCEPT !.cur = "stopped"]
                  [] OTHER          -> Enter(Exit(mm), c, to)
        /\ ctx' = IF to = "RedirectBrowser" THEN WithResult(c) ELSE c

UpdateStatus(c, status) == [c EXCEPT !.status = IF @ = "ok" THEN status ELSE @]
OnAbort(c) == [c EXCEPT !.failure = TRUE]
(* A state reports an error and aborts. *)
Failed(c) == OnAbort(UpdateStatus(c, "error"))
(* Variant: a cancellation is an error without a failure code. *)
OnUserCancelledSilently(c) == UpdateStatus([c EXCEPT !.inState = TRUE], "cancelled")
OnUserCancelled(c) == OnAbort(UpdateStatus([c EXCEPT !.inState = TRUE], "cancelled"))

Start ==
    /\ m.cur = "none"
    /\ m' = Enter(m, ctx, First)
    /\ UNCHANGED <<setup, ctx, net, card, smart, faults>>

Event == Head(m.events)
Rest  == [m EXCEPT !.events = Tail(@)]
Running       == m.cur \notin {"none", "stopped", "crashed"}
Handles(type) == m.events # <<>> /\ Running /\ Event.type = type
Runs(st)      == Handles("run") /\ Event.st = st
Completes(st) == Handles("done") /\ Event.st = st
Outside       == <<setup, net, card, smart, faults>>
Crash         == m' = [m EXCEPT !.cur = "crashed"] /\ UNCHANGED ctx

(* A run() that sends a request. *)
Request(st) == [Rest EXCEPT !.open = @ \cup {st}]
SendCommand(st) == [Rest EXCEPT !.cmds = Append(@, [st |-> st, wired |-> TRUE])]

-----------------------------------------------------------------------------
(* run() of the states without a reply or a command. *)

(* States with nothing to decide here ... *)
Continues(st) ==
    /\ Runs(st)
    /\ Emit(Rest, ctx, st, "continue")
    /\ UNCHANGED Outside
RunLoadTcTokenUrl      == Continues("LoadTcTokenUrl")
RunStartPaos           == Continues("StartPaos")
RunInitializeFramework == Continues("InitializeFramework")
RunEditAccessRights    == Continues("EditAccessRights")
RunStoreFeedback       == Continues("StoreFeedback")
RunSurvey              == Continues("Survey")
RunShowResult          == Continues("ShowResult")
RunFinal               == Continues("Final")

(* ... and states that check what they were given: the URL of the request, *)
(* the certificates of EAC1, the certificate chain of EAC2.                *)
Checks(st) ==
    \/ Continues(st)
    \/ Runs(st) /\ Emit(Rest, Failed(ctx), st, "abort") /\ UNCHANGED Outside
RunParseTcTokenUrl             == Checks("ParseTcTokenUrl")
RunExtractCvcs                 == Checks("ExtractCvcs")
RunPreVerification             == Checks("PreVerification")
RunCertificateDescriptionCheck == Checks("CertificateDescriptionCheck")
RunCheckCertificates           == Checks("CheckCertificates")

(* The chain is looked up by the data of PACE. *)
RunProcessCertificates ==
    \/ card.paceData /\ Checks("ProcessCertificates")
    \/ ~card.paceData /\ Runs("ProcessCertificates") /\ Crash /\ UNCHANGED Outside

(* EAC2 comes with the signature or it is asked for. *)
RunEacAdditional ==
    /\ Runs("EacAdditional")
    /\ \E sig \in {"continue", "sendResponse"} : Emit(Rest, ctx, "EacAdditional", sig)
    /\ UNCHANGED Outside

(* Variant: the passwords stay until the workflow is over. *)
RunClearAtEnd ==
    /\ Runs("Clear")
    /\ Emit(Rest, [ctx EXCEPT !.passwords = @ /\ ctx.status = "ok"], "Clear", "continue")
    /\ UNCHANGED Outside

Clears(st) ==
    /\ Runs(st)
    /\ Emit(Rest, [ctx EXCEPT !.passwords = FALSE], st, "continue")
    /\ UNCHANGED Outside
RunClear == Clears("Clear")

(* resetCardConnection of StateCleanUpReaderManager. *)
CleansUp(st) ==
    /\ Runs(st)
    /\ card' = [card EXCEPT !.conn = FALSE]
    /\ Emit(Rest, ctx, st, "continue")
    /\ UNCHANGED <<setup, net, smart, faults>>

RunCleanUp == CleansUp("CleanUp")

LooksAtResponse(st) ==
    /\ Runs(st)
    /\ CASE ctx.paos = "none"  -> Emit(Rest, Failed(ctx), st, "abort")
         [] ctx.paos = "ok"    -> Emit(Rest, ctx, st, "continue")
         [] ctx.paos = "error" -> Emit(Rest, Failed([ctx EXCEPT !.paosResult = "error"]), st, "abort")
    /\ UNCHANGED Outside
RunStartPaosResponse == LooksAtResponse("StartPaosResponse")

RunCheckError ==
    /\ Runs("CheckError")
    /\ Emit(Rest, ctx, "CheckError", IF ctx.status = "ok" THEN "continue" ELSE "propagateAbort")
    /\ UNCHANGED Outside

(* The handler of the activation sends the refresh URL to the browser.     *)
RunRedirectBrowser ==
    /\ Runs("RedirectBrowser")
    /\ \/ /\ net' = [net EXCEPT !.browser = ctx.result]
          /\ Emit(Rest, ctx, "RedirectBrowser", "continue")
       \/ /\ net' = net
          /\ Emit(Rest, Failed(ctx), "RedirectBrowser", "abort")
    /\ UNCHANGED <<setup, card, smart, faults>>

(* Variant: no signal of onUserCancelled is blocked.                       *)
CancelledAtOnce(mm, c, st) ==
    IF st \in Paces THEN m' = mm /\ ctx' = OnUserCancelled(c)
    ELSE Emit(mm, OnUserCancelled(c), st, "abort")

(* The posted onUserCancelled; CompositeStatePace has states of its own    *)
(* that abort, and some states block their signals meanwhile.              *)
Cancelled(mm, c, st) ==
    CASE st \in Paces -> m' = mm /\ ctx' = OnUserCancelled(c)
      [] st \in Uninterruptible ->
             m' = mm /\ ctx' = UpdateStatus([c EXCEPT !.inState = TRUE], "cancelled")
      [] OTHER -> Emit(mm, OnUserCancelled(c), st, "abort")
HandleCancel ==
    /\ Handles("cancel")
    /\ Cancelled(Rest, ctx, Event.st)
    /\ UNCHANGED Outside

-----------------------------------------------------------------------------
(* PAOS messages. *)

(* Variant: the server is not told of the error. *)
RunSendSilently ==
    /\ \E st \in Senders : Runs(st) /\ m' = Request(st)
    /\ UNCHANGED <<ctx, Outside>>

(* StateGenericSendReceive::run: the first response after an error of the  *)
(* client reports it; StartPaos is no response.                            *)
RunSend ==
    /\ \E st \in Senders :
           /\ Runs(st)
           /\ LET reports == /\ st \notin {"SendStartPaos", "SendStartPaosPersonalization"}
                             /\ ~ctx.reported
                             /\ ctx.status # "ok" /\ ctx.paosResult = "ok"
              IN  ctx' = [ctx EXCEPT !.reported = @ \/ reports]
           /\ m' = Request(st)
    /\ UNCHANGED Outside

(* An honest server ends the dialogue when it was told of an error.        *)
Ends == setup.honest /\ ctx.reported
Replied(st) == [m EXCEPT !.open = @ \ {st}]

(* onReplyFinished: the expected message or, of SendStartPaos, EAC1.       *)
ReplyExpected ==
    /\ \E st \in m.open \cap Senders :
           /\ ~Ends
           /\ IF st \in TransmitExpected
              THEN /\ net.transmits < setup.maxTransmits
                   /\ net' = [net EXCEPT !.transmits = @ + 1]
              ELSE net' = net
           /\ \/ Emit(Replied(st), ctx, st, "continue")
              \/ st = "SendStartPaos" /\ Emit(Replied(st), ctx, st, "extractCvcs")
    /\ Running
    /\ UNCHANGED <<setup, card, smart, faults>>

(* A StartPAOSResponse is always accepted. *)
ReplyResponse ==
    /\ \E st \in m.open \cap Senders, result \in {"ok", "error"} :
           /\ Ends => result = "error"
           /\ Emit(Replied(st), [ctx EXCEPT !.paos = result], st, "response")
    /\ Running
    /\ UNCHANGED Outside

(* A network or TLS error, a timeout, an unknown or unexpected message, or *)
(* an answer of the provider that is no answer.                            *)
ReplyFails(st) ==
    /\ st \in m.open /\ Running
    /\ Emit(Replied(st), Failed(ctx), st, "abort")
    /\ UNCHANGED Outside
ReplyFailure == \E st \in Senders : ReplyFails(st)

-----------------------------------------------------------------------------
(* The TC token, the refresh address and the data of self-authentication.  *)

Gets(st) ==
    /\ Runs(st)
    /\ m' = Request(st)
    /\ UNCHANGED <<ctx, Outside>>
RunGetTcToken == Gets("GetTcToken")
RunGetData    == Gets("GetData")

(* onNetworkReply of StateGetTcToken: a token, valid or not.  A redirect   *)
(* only repeats the request: no step.                                      *)
ReplyToken ==
    /\ "GetTcToken" \in m.open /\ Running
    /\ \E token \in {"plain", "errorAddress"} :
       LET c == [ctx EXCEPT !.token = token]
       IN  \/ Emit(Replied("GetTcToken"), c, "GetTcToken", "continue")
           \/ Emit(Replied("GetTcToken"), Failed(c), "GetTcToken", "abort")
    /\ UNCHANGED Outside

TokenFailure == ReplyFails("GetTcToken")

ReplyData ==
    /\ "GetData" \in m.open /\ Running
    /\ Emit(Replied("GetData"), [ctx EXCEPT !.data = TRUE], "GetData", "continue")
    /\ UNCHANGED Outside

DataFailure == ReplyFails("GetData")

(* Variant: the certificate of the last redirect is not looked at. *)
FetchCertificateTrusting(mm, url, verified) ==
    IF verified # {}
    THEN /\ net' = [net EXCEPT !.url = url, !.verified = verified]
         /\ Emit(mm, [ctx EXCEPT !.refresh = url], "CheckRefreshAddress", "continue")
    ELSE /\ net' = [net EXCEPT !.url = url, !.verified = verified, !.head = TRUE]
         /\ m' = [mm EXCEPT !.open = @ \cup {"CheckRefreshAddress"}]
         /\ ctx' = ctx

(* fetchServerCertificate, doneSuccess: a host is connected to once more   *)
(* unless it was verified while the redirects were followed.               *)
FetchCertificate(mm, url, verified) ==
    IF url \in verified
    THEN /\ net' = [net EXCEPT !.url = url, !.verified = verified]
         /\ Emit(mm, [ctx EXCEPT !.refresh = url], "CheckRefreshAddress", "continue")
    ELSE /\ net' = [net EXCEPT !.url = url, !.verified = verified, !.head = TRUE]
         /\ m' = [mm EXCEPT !.open = @ \cup {"CheckRefreshAddress"}]
         /\ ctx' = ctx
SendGet(mm, url, verified, redirects) ==
    /\ net' = [net EXCEPT !.url = url, !.verified = verified, !.redirects = redirects]
    /\ m' = [mm EXCEPT !.open = @ \cup {"CheckRefreshAddress"}]
    /\ ctx' = ctx

RunCheckRefreshAddress ==
    /\ Runs("CheckRefreshAddress")
    /\ \/ (* no token, or its refresh address is invalid *)
          Emit(Rest, ctx, "CheckRefreshAddress", "continue") /\ net' = net
       \/ /\ ctx.token # "none"
          /\ \/ \E url \in OwnUrls : FetchCertificate(Rest, url, {})
             \/ \E url \in ForeignUrls : SendGet(Rest, url, {}, 0)
    /\ UNCHANGED <<setup, card, smart, faults>>

(* A redirect.  The host that redirects was verified if this was the first *)
(* connection to it; if it is the provider's, the search is over.          *)
ReplyRedirect ==
    /\ "CheckRefreshAddress" \in m.open /\ Running /\ ~net.head
    /\ \E url \in Urls, verified \in {net.verified, net.verified \cup {net.url}} :
       LET mm == Replied("CheckRefreshAddress")
       IN  IF net.url \in OwnUrls THEN FetchCertificate(mm, url, verified)
           ELSE /\ net.redirects < setup.maxRedirects
                /\ SendGet(mm, url, verified, net.redirects + 1)
    /\ UNCHANGED <<setup, card, smart, faults>>

(* onSslHandshakeDoneFetchingServerCertificate *)
ReplyCertificate ==
    /\ "CheckRefreshAddress" \in m.open /\ Running /\ net.head
    /\ net' = [net EXCEPT !.verified = @ \cup {net.url}]
    /\ Emit(Replied("CheckRefreshAddress"), [ctx EXCEPT !.refresh = net.url],
            "CheckRefreshAddress", "continue")
    /\ UNCHANGED <<setup, card, smart, faults>>

(* reportCommunicationError *)
RefreshFailure == ReplyFails("CheckRefreshAddress")

-----------------------------------------------------------------------------
(* The card. *)

(* CompositeStatePace.  What it did to the card before it fails is open;   *)
(* the passwords are cleared on the way out.  A PACE that was under way    *)
(* when the user cancelled may still succeed.                              *)
PaceSucceeds ==
    /\ m.cur \in Paces
    /\ card' = [conn |-> TRUE, paceData |-> TRUE, present |-> TRUE]
    /\ Emit(m, [ctx EXCEPT !.passwords = TRUE], m.cur, "continue")
    /\ UNCHANGED <<setup, net, smart, faults>>

(* Variant: a cancelled PACE goes on waiting for the card. *)
PaceFailsUncancelled ==
    /\ m.cur \in Paces /\ ~ctx.cancelled
    /\ Emit(m, Failed([ctx EXCEPT !.passwords = FALSE]), m.cur, "abort")
    /\ UNCHANGED Outside

PaceFails ==
    /\ m.cur \in Paces
    /\ \E conn \in BOOLEAN : card' = [card EXCEPT !.conn = conn]
    /\ Emit(m, Failed([ctx EXCEPT !.passwords = FALSE]), m.cur, "abort")
    /\ UNCHANGED <<setup, net, smart, faults>>

(* The commands of the authentication need the connection. *)
CardCommand(st) ==
    /\ Runs(st)
    /\ IF card.conn /\ card.paceData THEN m' = SendCommand(st) /\ UNCHANGED ctx ELSE Crash
    /\ UNCHANGED Outside
RunEac1     == CardCommand("Eac1")
RunTransmit == CardCommand("Transmit")

(* EAC2 also needs a valid certificate chain. *)
RunEac2 ==
    \/ CardCommand("Eac2")
    \/ /\ Runs("Eac2") /\ card.conn /\ card.paceData
       /\ Emit(Rest, Failed(ctx), "Eac2", "abort")
       /\ UNCHANGED Outside

(* The commands of the end are left out without a connection. *)
FinalCommand(st) ==
    /\ Runs(st)
    /\ IF card.conn THEN m' = SendCommand(st) /\ UNCHANGED ctx
                    ELSE Emit(Rest, ctx, st, "continue")
    /\ UNCHANGED Outside
RunDestroyPace == FinalCommand("DestroyPace")
RunUpdateFinal == FinalCommand("UpdateFinal")

Fault == faults < setup.maxFaults /\ faults' = faults + 1

(* The worker thread: what becomes of a command, posted if anyone listens. *)
Execute ==
    /\ m.cmds # <<>> /\ Head(m.cmds).st \in CardStates
    /\ LET cmd == Head(m.cmds)
           Answer(code) == m' = [m EXCEPT !.cmds = Tail(@),
                                          !.events = IF cmd.wired THEN Append(@, Done(cmd.st, code))
                                                     ELSE @]
       IN  \/ /\ card.present \/ cmd.st \in DestroyPaces
              /\ \/ Answer("ok")
                 \/ cmd.st = "Transmit" /\ Answer("unexpected")
              /\ UNCHANGED faults
           \/ /\ IF card.present THEN Fault ELSE UNCHANGED faults
              /\ cmd.st \notin DestroyPaces /\ Answer("failed")
    /\ UNCHANGED <<setup, ctx, net, card, smart>>

(* The slots of the card commands. *)
CommandDone(st) ==
    /\ Completes(st)
    /\ CASE Event.code = "ok"     -> Emit(Rest, ctx, st, "continue")
         [] Event.code = "failed" -> Emit(Rest, Failed(ctx), st, "abort")
         [] OTHER                 -> FALSE
    /\ UNCHANGED Outside
Eac1Done == CommandDone("Eac1")
Eac2Done == CommandDone("Eac2")

(* An unexpected status of the card is an error the server is told of, but *)
(* no reason to abort.                                                     *)
TransmitDone ==
    \/ CommandDone("Transmit")
    \/ /\ Completes("Transmit") /\ Event.code = "unexpected"
       /\ Emit(Rest, UpdateStatus(ctx, "error"), "Transmit", "continue")
       /\ UNCHANGED Outside

PaceDestroyed(st) ==
    /\ Completes(st)
    /\ Emit(Rest, ctx, st, "continue")
    /\ UNCHANGED Outside
DestroyPaceDone == PaceDestroyed("DestroyPace")
UpdateFinalDone ==
    /\ Completes("UpdateFinal")
    /\ card' = [card EXCEPT !.conn = @ /\ Event.code # "failed"]
    /\ Emit(Rest, ctx, "UpdateFinal", "continue")
    /\ UNCHANGED <<setup, net, smart, faults>>

RemoveCard ==
    /\ card.present /\ Running /\ Fault
    /\ card' = [card EXCEPT !.present = FALSE]
    /\ m' = [m EXCEPT !.events = Append(@, Removed)]
    /\ UNCHANGED <<setup, ctx, net, smart>>

CardRemoved ==
    /\ Handles("removed")
    /\ IF m.cur \in AbortOnCardRemoved THEN Emit(Rest, Failed(ctx), m.cur, "abort")
                                       ELSE m' = Rest /\ UNCHANGED ctx
    /\ UNCHANGED Outside

-----------------------------------------------------------------------------
(* The user and the UIs. *)

Approved(mm) ==
    [mm EXCEPT !.approved = TRUE, !.events = Append(@, Run(mm.cur))]

Confirm ==
    /\ m.cur \in Waiting \ {"EnterNewPin"} /\ ~m.approved
    /\ m' = Approved(m)
    /\ UNCHANGED <<setup, ctx, net, card, smart, faults>>

CancelIn(mm, c) ==
    LET cc == [c EXCEPT !.cancelled = TRUE]
    IN  IF Running THEN Cancelled(mm, cc, m.cur) ELSE m' = mm /\ ctx' = cc

(* fireCancelWorkflow of the graphical UI. *)
CancelWorkflow ==
    /\ "cancel" \in setup.ends /\ Running /\ ~ctx.cancelled
    /\ CancelIn(m, ctx)
    /\ UNCHANGED Outside

(* killWorkflow, by CANCEL of the SDK or as the application shuts down:    *)
(* approve the state, then cancel.                                         *)
KillWorkflow ==
    /\ "kill" \in setup.ends
    /\ m.cur \notin {"stopped", "crashed"} /\ ~ctx.killed
    /\ CancelIn(IF m.approved           THEN m
                ELSE IF m.cur = "none" THEN [m EXCEPT !.approved = TRUE]
                ELSE Approved(m),
                [ctx EXCEPT !.killed = TRUE, !.status = "cancelled"])
    /\ UNCHANGED Outside

Terminated == ~Running /\ m.cur # "none" /\ UNCHANGED vars

MainThread ==
    \/ RunLoadTcTokenUrl \/ RunStartPaos \/ RunInitializeFramework \/ RunEditAccessRights
    \/ RunStoreFeedback \/ RunSurvey \/ RunShowResult \/ RunFinal \/ RunParseTcTokenUrl
    \/ RunExtractCvcs \/ RunPreVerification \/ RunCertificateDescriptionCheck
    \/ RunCheckCertificates \/ RunProcessCertificates \/ RunEacAdditional \/ RunClear \/ RunCleanUp
    \/ RunStartPaosResponse \/ RunCheckError \/ RunRedirectBrowser \/ HandleCancel
    \/ RunSend \/ RunGetTcToken \/ RunGetData \/ RunCheckRefreshAddress
    \/ RunEac1 \/ RunEac2 \/ RunTransmit \/ RunDestroyPace \/ RunUpdateFinal
    \/ Eac1Done \/ Eac2Done \/ TransmitDone \/ DestroyPaceDone \/ UpdateFinalDone \/ CardRemoved
Replies ==
    \/ ReplyExpected \/ ReplyResponse \/ ReplyFailure \/ ReplyToken \/ TokenFailure
    \/ ReplyData \/ DataFailure \/ ReplyRedirect \/ ReplyCertificate \/ RefreshFailure
Users   == Confirm \/ CancelWorkflow \/ KillWorkflow

Next == \/ Start \/ MainThread \/ Replies \/ Execute \/ PaceSucceeds \/ PaceFails \/ RemoveCard
        \/ Users \/ Terminated

Spec == Init /\ [][Next]_vars

-----------------------------------------------------------------------------
(* StateStartPaosResponse and ~WorkflowContext assert "PACE passwords must *)
(* be cleared as soon as possible": none is left when the answer of the    *)
(* server is looked at, on whichever way and however cancelled the         *)
(* workflow got there.                                                     *)
PasswordsCleared ==
    (m.events # <<>> /\ Event = Run("StartPaosResponse")) \/ m.cur \in {"Final", "stopped"} =>
        ~ctx.passwords

(* The result the user, the application and the provider are told: success *)
(* only if the server confirmed it, a self-authentication also its data, a *)
(* personalization also the chip.                                          *)
ResultIsTruthful ==
    /\ m.cur \in {"Final", "stopped"} /\ ctx.status = "ok" =>
           /\ ctx.paos = "ok"
           /\ setup.action = "selfAuth" => ctx.data
           /\ setup.action = "personalization" => smart.chip = "personalized"
    /\ net.browser = "ok" => ctx.paos = "ok"

(* The browser is only sent to an address whose certificate was checked    *)
(* against the certificate description, however many redirects led to it.  *)
RefreshIsVerified == ctx.refresh \in Urls => ctx.refresh \in net.verified

(* EAC1, EAC2 and TRANSMIT assert a card connection and the data of PACE,  *)
(* and the certificate chain is chosen by the latter: they are there as    *)
(* long as the server ends the dialogue when it is told of an error.       *)
PaceDataPresent == setup.honest => m.cur # "crashed"

(* StateCheckError and StateFinalizePersonalization assert that an error   *)
(* has a failure code, which the UIs report as its reason.                 *)
ErrorHasFailureCode ==
    /\ setup.honest /\ ctx.status # "ok" /\ m.events # <<>>
    /\ Event = Run("CheckError") \/ Completes("FinalizePersonalization")
    => ctx.failure

(* What the states assert, of the passwords, the card and the error.       *)
AssertionsHold == PasswordsCleared /\ PaceDataPresent /\ ErrorHasFailureCode

(* A workflow the SDK cancels ends without anyone's help.                  *)
CancelledEnds ==
    setup.honest /\ setup.ui = "json" /\ ctx.cancelled ~> m.cur = "stopped"
=============================================================================
