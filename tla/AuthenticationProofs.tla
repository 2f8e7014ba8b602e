------------------------ MODULE AuthenticationProofs ------------------------
(***************************************************************************)
(* Proofs about Authentication and Personalization: TypeOK, that the       *)
(* browser is only sent to a verified address (RefreshIsVerified), that    *)
(* success is only reported when the server confirmed it                   *)
(* (ResultIsTruthful), and that no command of the applet outlives the      *)
(* workflow (SmartCommandsAreAwaited).                                     *)
(***************************************************************************)
EXTENDS Personalization, SequenceTheorems, TLAPS

(* The states of the chosen workflow ... *)
Own ==
    TrustedChannel \cup
    (IF setup.action = "auth"          THEN DOMAIN AuthEdges
     ELSE IF setup.action = "selfAuth" THEN DOMAIN SelfAuthEdges
     ELSE PrepareApplet \cup DOMAIN PersonalizationEdges)

(* ... and of these the ones that follow the check of the refresh address. *)
After ==
    IF setup.action = "auth"
    THEN DOMAIN AuthEdges \ {"ParseTcTokenUrl", "CheckRefreshAddress"}
    ELSE IF setup.action = "selfAuth"
    THEN DOMAIN SelfAuthEdges \ {"LoadTcTokenUrl", "CheckError", "CheckRefreshAddress"}
    ELSE DOMAIN PersonalizationEdges
             \ {"CheckStatus", "LoadSmartTcTokenUrl", "CheckError", "CheckRefreshAddress"}

Over == {"stopped", "crashed"}

(* What keeps a state of S busy: its run(), its command, its request, or   *)
(* the result of the command.  None is under way, or at most one.          *)
Busy(e, S)   == e.type \in {"run", "done"} /\ e.st \in S
NoEvent(q, S)   == \A i \in 1..Len(q) : ~Busy(q[i], S)
NoCommand(q, S) == \A i \in 1..Len(q) : q[i].st \notin S
OneEvent(q, S)   == \A i, j \in 1..Len(q) : Busy(q[i], S) /\ Busy(q[j], S) => i = j
OneCommand(q, S) == \A i, j \in 1..Len(q) : q[i].st \in S /\ q[j].st \in S => i = j

Idle(mm, S) == NoEvent(mm.events, S) /\ NoCommand(mm.cmds, S) /\ mm.open \cap S = {}
Single(mm, S) ==
    /\ OneEvent(mm.events, S) /\ OneCommand(mm.cmds, S)
    /\ \A s, t \in mm.open \cap S : s = t
    /\ NoEvent(mm.events, S) \/ NoCommand(mm.cmds, S)
    /\ NoEvent(mm.events, S) \/ mm.open \cap S = {}
    /\ NoCommand(mm.cmds, S) \/ mm.open \cap S = {}

(* Everything under way is of the chosen workflow, a posted cancellation   *)
(* of its first state.                                                     *)
OfWorkflow(mm) ==
    /\ mm.cur \in Own \cup Over \cup {"none"}
    /\ \A i \in 1..Len(mm.events) :
           /\ mm.events[i].type \in {"run", "done"} => mm.events[i].st \in Own
           /\ mm.events[i].type = "cancel" => mm.events[i].st = First
    /\ \A i \in 1..Len(mm.cmds) : mm.cmds[i].st \in Own
    /\ mm.open \subseteq Own

(* Only a workflow that was killed before it started learns of it from a   *)
(* posted cancellation; nothing else is under way then.                    *)
Unnoticed(mm, c) == mm.cur = "none" \/ (c.cancelled /\ ~c.inState)
QuietStart(mm, c) ==
    Unnoticed(mm, c) =>
        /\ mm.cur \in {"none", First}
        /\ mm.open = {} /\ mm.cmds = <<>>
        /\ mm.events = (IF mm.cur = "none" THEN <<>> ELSE <<Cancel(First)>>)
        /\ c.cancelled => c.killed /\ mm.approved

(* No user is waited for in these states. *)
Prompt(mm) ==
    mm.cur \in PrepareApplet \cup {"CheckRefreshAddress"} \cup Paces => mm.approved

(* The refresh address is looked for once.                                 *)
Before(mm) == mm.cur \notin After \cup Over \cup {"CheckRefreshAddress"}
CheckedOnce(mm, c) ==
    /\ Single(mm, {"CheckRefreshAddress"})
    /\ c.refresh \in Urls \/ Before(mm) => Idle(mm, {"CheckRefreshAddress"})
    /\ Before(mm) => c.refresh \notin Urls

(* The applet is prepared once, one command after the other, and only the  *)
(* one of CheckApplet can be left behind.                                  *)
OneApplet(mm) ==
    /\ Single(mm, PrepareApplet)
    /\ mm.cur # "crashed" => Idle(mm, Uninterruptible \ {mm.cur})
    /\ mm.cur \in PrepareApplet \cup {"none", "CheckStatus"} =>
           Idle(mm, PrepareApplet \ {mm.cur})

(* As long as nothing went wrong, only the current state is busy ...       *)
InStep(mm) ==
    /\ Single(mm, Own)
    /\ Idle(mm, Own \ {mm.cur})
    /\ ~mm.approved \/ mm.cur \in Paces => Idle(mm, Own)

(* ... and what was to be confirmed before it was.                         *)
Confirmed ==
    {"stopped"} \cup
    (IF setup.action = "auth"          THEN DOMAIN AuthEdges \ {"ParseTcTokenUrl"}
     ELSE IF setup.action = "selfAuth" THEN DOMAIN SelfAuthEdges \ {"LoadTcTokenUrl"}
     ELSE DOMAIN PersonalizationEdges
              \ {"CheckStatus", "LoadSmartTcTokenUrl", "StartPaosPersonalizationResponse"})
WithData == {"ShowResult", "Survey", "Final", "stopped"}
Personalized ==
    {"InsertCard", "SmartPace", "ChangeSmartPin", "DestroySmartPace", "ClearAll", "CleanUpSmart",
     "StoreFeedback", "ShowResult", "Survey", "Final", "stopped"}
Finalized(e) == e.type = "done" /\ e.st = "FinalizePersonalization" /\ e.code # "abort"
Proven(mm, c, chip) ==
    /\ mm.cur \in Confirmed => c.paos = "ok"
    /\ setup.action = "selfAuth" /\ mm.cur \in WithData => c.data
    /\ setup.action = "personalization" =>
           /\ mm.cur \in Personalized => chip = "personalized"
           /\ mm.cur # "ClearNewPin"
           /\ \A i \in 1..Len(mm.events) : Finalized(mm.events[i]) => chip = "personalized"

AllWell(mm, c, chip) ==
    c.status = "ok" /\ mm.cur # "crashed" =>
        ~c.cancelled /\ InStep(mm) /\ Proven(mm, c, chip)

(* Success was decided at the entry of RedirectBrowser. *)
Decided(mm, c) ==
    c.result = "ok" =>
        /\ c.paos = "ok" /\ setup.action = "auth"
        /\ mm.cur \in {"RedirectBrowser", "Final", "stopped"}
        /\ Idle(mm, Own \ {"RedirectBrowser", "Final"})
(* A request for the refresh address went to a URL of the provider.        *)
Addressed(mm, url) == "CheckRefreshAddress" \in mm.open => url \in Urls
Told == net.browser = "ok" => ctx.result = "ok"

IInv ==
    /\ TypeOK
    /\ OfWorkflow(m)
    /\ ctx.killed => ctx.cancelled
    /\ ctx.inState => ctx.status # "ok"
    /\ QuietStart(m, ctx)
    /\ Unnoticed(m, ctx) => ~card.present
    /\ Prompt(m)
    /\ CheckedOnce(m, ctx)
    /\ OneApplet(m)
    /\ AllWell(m, ctx, smart.chip)
    /\ Decided(m, ctx)
    /\ Addressed(m, net.url)
    /\ Told
    /\ RefreshIsVerified

Commands == [st : CardStates \cup SmartStates, wired : BOOLEAN]
Machines ==
    [cur : States \cup {"none", "stopped", "crashed"}, approved : BOOLEAN,
     events : Seq(Events), open : SUBSET Requesters, cmds : Seq(Commands)]
Contexts ==
    [killed : BOOLEAN, cancelled : BOOLEAN, inState : BOOLEAN,
     status : {"ok", "cancelled", "error"}, failure : BOOLEAN, reported : BOOLEAN,
     passwords : BOOLEAN, token : {"none", "plain", "errorAddress"},
     paos : {"none", "ok", "error"}, paosResult : {"ok", "error"},
     refresh : Urls \cup {"none", "errorAddress"}, result : {"none", "ok", "error"},
     data : BOOLEAN]
Nets ==
    [transmits : 0..setup.maxTransmits, redirects : 0..setup.maxRedirects,
     url : Urls \cup {"none"}, head : BOOLEAN, verified : SUBSET Urls,
     browser : {"none", "ok", "error"}]
Cards == [conn : BOOLEAN, paceData : BOOLEAN, present : BOOLEAN]
Smarts ==
    [type : {"unknown", "applet", "nonApplet"}, newPin : BOOLEAN,
     chip : {"absent", "blank", "unusable", "begun", "personalized"}]

LEMMA TypeParts ==
    TypeOK <=> /\ setup \in Setups /\ m \in Machines /\ ctx \in Contexts /\ net \in Nets
               /\ card \in Cards /\ smart \in Smarts /\ faults \in 0..setup.maxFaults
  BY DEF TypeOK, Machines, Commands, Contexts, Nets, Cards, Smarts

-----------------------------------------------------------------------------
(* The state graph, table by table. *)

LEMMA Tables ==
    /\ DOMAIN ChannelEdges =
           {"GetTcToken", "StartPaos", "SendStartPaos", "InitializeFramework",
            "SendInitializeFrameworkResponse", "Pace", "Eac1", "SendEac1", "EacAdditional",
            "SendEacAdditional", "ProcessCertificates", "Eac2", "SendEac2", "Transmit",
            "SendTransmit", "DestroyPace", "Clear", "UpdateFinal", "CleanUp", "StartPaosResponse"}
    /\ ProcessCvcs =
           {"ExtractCvcs", "PreVerification", "CertificateDescriptionCheck", "CheckCertificates",
            "EditAccessRights"}
    /\ PrepareApplet =
           {"CheckApplet", "InstallApplet", "DeletePersonalization", "DeleteApplet",
            "UpdateSupportInfo"}
    /\ DOMAIN AuthEdges =
           {"ParseTcTokenUrl", "CheckRefreshAddress", "CheckError", "StoreFeedback", "Survey",
            "RedirectBrowser", "Final"}
    /\ DOMAIN SelfAuthEdges =
           {"LoadTcTokenUrl", "CheckError", "CheckRefreshAddress", "StoreFeedback", "GetData",
            "ShowResult", "Survey", "Final"}
    /\ DOMAIN PersonalizationEdges =
           {"CheckStatus", "LoadSmartTcTokenUrl", "CheckError", "CheckRefreshAddress",
            "GetSessionId", "GetServiceInformation", "EnterNewPin", "GetChallenge",
            "InitializePersonalization", "PreparePersonalization", "StartPaosPersonalization",
            "SendStartPaosPersonalization", "TransmitPersonalization",
            "SendTransmitPersonalization", "StartPaosPersonalizationResponse",
            "FinalizePersonalization", "ClearNewPin", "InsertCard", "SmartPace",
            "ChangeSmartPin", "DestroySmartPace", "ClearAll", "CleanUpSmart", "StoreFeedback",
            "ShowResult", "Survey", "Final"}
  <1>1. DOMAIN ChannelEdges =
           {"GetTcToken", "StartPaos", "SendStartPaos", "InitializeFramework",
            "SendInitializeFrameworkResponse", "Pace", "Eac1", "SendEac1", "EacAdditional",
            "SendEacAdditional", "ProcessCertificates", "Eac2", "SendEac2", "Transmit",
            "SendTransmit", "DestroyPace", "Clear", "UpdateFinal", "CleanUp", "StartPaosResponse"}
    BY DEF ChannelEdges
  <1>2. DOMAIN PersonalizationEdges =
           {"CheckStatus", "LoadSmartTcTokenUrl", "CheckError", "CheckRefreshAddress",
            "GetSessionId", "GetServiceInformation", "EnterNewPin", "GetChallenge",
            "InitializePersonalization", "PreparePersonalization", "StartPaosPersonalization",
            "SendStartPaosPersonalization", "TransmitPersonalization",
            "SendTransmitPersonalization", "StartPaosPersonalizationResponse",
            "FinalizePersonalization", "ClearNewPin", "InsertCard", "SmartPace",
            "ChangeSmartPin", "DestroySmartPace", "ClearAll", "CleanUpSmart", "StoreFeedback",
            "ShowResult", "Survey", "Final"}
    BY DEF PersonalizationEdges
  <1> QED BY <1>1, <1>2 DEF ProcessCvcs, CvcEdges, PrepareApplet, AppletEdges, AuthEdges, SelfAuthEdges

LEMMA ChannelGraph ==
    \A s \in DOMAIN ChannelEdges : \A g \in DOMAIN ChannelEdges[s] :
        \A t : t = ChannelEdges[s][g] =>
            /\ t \in DOMAIN ChannelEdges \cup {"ExtractCvcs", "leave"}
            /\ t = "leave" => g = "abort" \/ s = "StartPaosResponse"
            /\ g = "response" => t \in {"DestroyPace", "StartPaosResponse"}
  BY Tables DEF ChannelEdges, Either

LEMMA CvcGraph ==
    \A s \in ProcessCvcs : \A g \in DOMAIN CvcEdges[s] :
        CvcEdges[s][g] \in ProcessCvcs \cup {"denied", "granted"}
  BY Tables DEF CvcEdges

LEMMA AppletGraph ==
    \A s \in PrepareApplet : \A g \in DOMAIN AppletEdges[s] :
        \A t : t = AppletEdges[s][g] =>
            /\ t \in PrepareApplet \cup {"prepared", "unprepared"}
            /\ t = "unprepared" <=> g = "abort"
  BY Tables DEF AppletEdges

LEMMA AuthGraph ==
    \A s \in DOMAIN AuthEdges : \A g \in DOMAIN AuthEdges[s] :
        \A t : t = AuthEdges[s][g] =>
            /\ t \in (DOMAIN AuthEdges \ {"ParseTcTokenUrl"}) \cup {"GetTcToken", "stopped"}
            /\ t \in {"CheckRefreshAddress", "GetTcToken"} <=> s = "ParseTcTokenUrl"
            /\ s = "ParseTcTokenUrl" /\ t # "GetTcToken" => g = "abort"
            /\ s \in {"RedirectBrowser", "Final"} => t \in {"Final", "stopped"}
  BY Tables DEF AuthEdges, Either

LEMMA SelfAuthGraph ==
    \A s \in DOMAIN SelfAuthEdges : \A g \in DOMAIN SelfAuthEdges[s] :
        \A t : t = SelfAuthEdges[s][g] =>
            /\ t \in (DOMAIN SelfAuthEdges \ {"LoadTcTokenUrl"}) \cup {"GetTcToken", "stopped"}
            /\ t = "CheckRefreshAddress" => s \in {"LoadTcTokenUrl", "CheckError"}
            /\ t = "GetTcToken" => s = "LoadTcTokenUrl"
            /\ t # "CheckError"
            /\ s = "LoadTcTokenUrl" /\ t # "GetTcToken" => g = "abort"
            /\ t \in WithData => \/ s \in WithData \/ g \in {"abort", "propagateAbort"}
                                 \/ s = "GetData" /\ g = "continue"
  BY Tables DEF SelfAuthEdges, Either, WithData

LEMMA PersonalizationGraph ==
    \A s \in DOMAIN PersonalizationEdges : \A g \in DOMAIN PersonalizationEdges[s] :
        \A t : t = PersonalizationEdges[s][g] =>
            /\ t \in (DOMAIN PersonalizationEdges
                          \ {"CheckStatus", "LoadSmartTcTokenUrl", "CheckError"})
                     \cup {"CheckApplet", "GetTcToken", "stopped"}
            /\ t = "CheckRefreshAddress" => s = "CheckError"
            /\ t = "CheckApplet" => s = "CheckStatus"
            /\ t = "GetTcToken" => s = "LoadSmartTcTokenUrl"
            /\ s = "CheckStatus" => (t # "CheckApplet" <=> g = "abort")
            /\ s = "LoadSmartTcTokenUrl" => t = "GetTcToken"
            /\ g = "response" => t = "StartPaosPersonalizationResponse"
            /\ t \in Personalized => \/ s \in Personalized \cup {"ClearNewPin"}
                                     \/ g \in {"abort", "propagateAbort"}
                                     \/ s = "FinalizePersonalization" /\ g = "continue"
            /\ t = "ClearNewPin" => g \in {"abort", "propagateAbort"}
  <1>1. \A s \in DOMAIN PersonalizationEdges : \A g \in DOMAIN PersonalizationEdges[s] :
            \A t : t = PersonalizationEdges[s][g] =>
                /\ t \in (DOMAIN PersonalizationEdges
                              \ {"CheckStatus", "LoadSmartTcTokenUrl", "CheckError"})
                         \cup {"CheckApplet", "GetTcToken", "stopped"}
                /\ t = "CheckRefreshAddress" => s = "CheckError"
                /\ t = "CheckApplet" => s = "CheckStatus"
                /\ t = "GetTcToken" => s = "LoadSmartTcTokenUrl"
                /\ s = "CheckStatus" => (t # "CheckApplet" <=> g = "abort")
                /\ s = "LoadSmartTcTokenUrl" => t = "GetTcToken"
    BY Tables DEF PersonalizationEdges, Either
  <1>2. \A s \in DOMAIN PersonalizationEdges : \A g \in DOMAIN PersonalizationEdges[s] :
            \A t : t = PersonalizationEdges[s][g] =>
                /\ g = "response" => t = "StartPaosPersonalizationResponse"
                /\ t \in Personalized => \/ s \in Personalized \cup {"ClearNewPin"}
                                         \/ g \in {"abort", "propagateAbort"}
                                         \/ s = "FinalizePersonalization" /\ g = "continue"
                /\ t = "ClearNewPin" => g \in {"abort", "propagateAbort"}
    BY Tables DEF PersonalizationEdges, Either, Personalized
  <1> QED BY <1>1, <1>2

(* Where a signal leads. *)
Aborts == {"abort", "propagateAbort"}
Inner  == {"leave", "denied", "granted", "prepared", "unprepared"}
Raw(st, sig) == IF sig \in DOMAIN Edges(st) THEN Edges(st)[sig] ELSE "ignored"

LEMMA TargetCases ==
    ASSUME NEW cur, NEW st, NEW sig,
           NEW to, to = Target(cur, st, sig), to # "ignored"
    PROVE  /\ sig \in DOMAIN Edges(st)
           /\ \/ Raw(st, sig) = "leave" /\ cur \in TrustedChannel /\ to = AfterChannel
              \/ Raw(st, sig) = "denied" /\ cur \in ProcessCvcs /\ to = "SendEac1"
              \/ Raw(st, sig) = "granted" /\ cur \in ProcessCvcs /\ to = "Pace"
              \/ Raw(st, sig) = "prepared" /\ cur \in PrepareApplet /\ to = "LoadSmartTcTokenUrl"
              \/ Raw(st, sig) = "unprepared" /\ cur \in PrepareApplet /\ to = "Final"
              \/ Raw(st, sig) \notin Inner /\ cur = st /\ to = Raw(st, sig)
  BY DEF Target, Raw, Inner

LEMMA ActionKinds ==
    setup \in Setups => setup.action \in {"auth", "selfAuth", "personalization"}
  BY AuthenticationAssumption

(* The edges of a state of the workflow are those of one table. *)
LEMMA EdgeCases ==
    ASSUME setup \in Setups, NEW st \in Own
    PROVE  \/ st \in ProcessCvcs /\ Edges(st) = CvcEdges[st]
           \/ st \in DOMAIN ChannelEdges /\ Edges(st) = ChannelEdges[st]
           \/ /\ setup.action = "personalization"
              /\ st \in PrepareApplet /\ Edges(st) = AppletEdges[st]
           \/ setup.action = "auth" /\ st \in DOMAIN AuthEdges /\ Edges(st) = AuthEdges[st]
           \/ setup.action = "selfAuth" /\ st \in DOMAIN SelfAuthEdges /\ Edges(st) = SelfAuthEdges[st]
           \/ /\ setup.action = "personalization"
              /\ st \in DOMAIN PersonalizationEdges /\ Edges(st) = PersonalizationEdges[st]
  BY Tables, ActionKinds DEF Own, TrustedChannel, Edges

LEMMA Regions ==
    ASSUME setup \in Setups
    PROVE  /\ Own \subseteq States /\ First \in Own /\ TrustedChannel \subseteq Own
           /\ AfterChannel \in Own \cap Confirmed
           /\ After \subseteq Own
           /\ First \notin After \cup TrustedChannel \cup PrepareApplet \cup Paces \cup Confirmed
           /\ First # "CheckRefreshAddress"
           /\ TrustedChannel \cap (After \cup PrepareApplet \cup Confirmed) = {}
           /\ PrepareApplet \cap (After \cup Confirmed) = {}
           /\ "CheckRefreshAddress" \in Own \cap Confirmed
           /\ "Final" \in After \cap Confirmed
           /\ (Own \cup After) \cap (Over \cup {"none", "ignored"}) = {}
           /\ setup.action = "personalization" <=> PrepareApplet \subseteq Own
           /\ setup.action # "personalization" => PrepareApplet \cap Own = {}
           /\ setup.action = "personalization" <=> First = "CheckStatus"
  <1>1. /\ Own \subseteq States /\ First \in Own /\ TrustedChannel \subseteq Own
        /\ AfterChannel \in Own \cap Confirmed
        /\ After \subseteq Own
    BY Tables, ActionKinds
    DEF Own, States, First, TrustedChannel, AfterChannel, Confirmed, After
  <1>2. /\ First \notin After \cup TrustedChannel \cup PrepareApplet \cup Paces \cup Confirmed
        /\ First # "CheckRefreshAddress"
        /\ setup.action = "personalization" <=> First = "CheckStatus"
    BY Tables, ActionKinds DEF First, After, TrustedChannel, Paces, Confirmed
  <1>3. /\ TrustedChannel \cap (After \cup PrepareApplet \cup Confirmed) = {}
        /\ PrepareApplet \cap (After \cup Confirmed) = {}
    BY Tables, ActionKinds DEF After, TrustedChannel, Confirmed
  <1>4. /\ "CheckRefreshAddress" \in Own \cap Confirmed
        /\ "Final" \in After \cap Confirmed
    BY Tables, ActionKinds DEF Own, After, Confirmed
  <1>5. Own \cap (Over \cup {"none", "ignored"}) = {}
    BY Tables, ActionKinds DEF Own, Over, TrustedChannel
  <1>6. /\ setup.action = "personalization" <=> PrepareApplet \subseteq Own
        /\ setup.action # "personalization" => PrepareApplet \cap Own = {}
    BY Tables, ActionKinds DEF Own, TrustedChannel
  <1> QED BY <1>1, <1>2, <1>3, <1>4, <1>5, <1>6

(* The signals of a state lead on: into the trusted channel and out of it  *)
(* once, to the refresh address once, to the applet only from the status   *)
(* or one command after the other.                                         *)
Leads(cur, st, sig, to) ==
    /\ to \in Own \cup {"stopped"} /\ cur \in Own /\ to # First /\ to # "CheckStatus"
    /\ to = "CheckRefreshAddress" => cur \notin After \cup {"CheckRefreshAddress"}
    /\ cur \in After \cup {"CheckRefreshAddress"} => to \in After \cup {"stopped"}
    /\ to \in PrepareApplet =>
           cur = st /\ cur \in PrepareApplet \cup {"CheckStatus"} /\ sig # "abort"
    /\ cur \in PrepareApplet => st \in PrepareApplet
    /\ to = "RedirectBrowser" => setup.action = "auth"
    /\ setup.action = "auth" /\ cur \in {"RedirectBrowser", "Final"} => to \in {"Final", "stopped"}

(* A signal that does not abort leads past a confirmation only from the    *)
(* state that gets it.                                                     *)
LeadsWell(cur, sig, to) ==
    /\ to \in Confirmed => cur \in Confirmed \cup {"StartPaosResponse", "StartPaosPersonalizationResponse"}
    /\ cur \in {"StartPaosResponse", "StartPaosPersonalizationResponse"} => sig = "continue"
    /\ sig = "response" => to \notin Confirmed
    /\ setup.action = "selfAuth" /\ to \in WithData =>
           cur \in WithData \/ (cur = "GetData" /\ sig = "continue")
    /\ setup.action = "personalization" =>
           /\ to # "ClearNewPin"
           /\ to \in Personalized =>
                  \/ cur \in Personalized \cup {"ClearNewPin"}
                  \/ cur = "FinalizePersonalization" /\ sig = "continue"

LEMMA TargetFacts ==
    ASSUME setup \in Setups, NEW cur \in Own \cup Over \cup {"none"}, NEW st \in Own, NEW sig,
           NEW to, to = Target(cur, st, sig), to # "ignored"
    PROVE  /\ Leads(cur, st, sig, to)
           /\ cur = st /\ sig \notin Aborts => LeadsWell(cur, sig, to)
  <1>0. sig \in DOMAIN Edges(st) /\ Raw(st, sig) = Edges(st)[sig]
    BY TargetCases DEF Raw
  <1>1. CASE st \in ProcessCvcs /\ Edges(st) = CvcEdges[st]
    <2>1. Raw(st, sig) \in ProcessCvcs \cup {"denied", "granted"}
      BY <1>0, <1>1, CvcGraph
    <2>2. cur \in ProcessCvcs /\ to \in ProcessCvcs \cup {"SendEac1", "Pace"}
      BY <2>1, <1>1, TargetCases, Tables DEF Inner
    <2> HIDE DEF Raw
    <2>3. cur \in TrustedChannel /\ to \in TrustedChannel
      BY <2>2, Tables DEF TrustedChannel
    <2>4. Leads(cur, st, sig, to)
      BY <2>2, <2>3, Regions, Tables DEF Leads
    <2>5. LeadsWell(cur, sig, to)
      BY <2>2, <2>3, Regions, Tables DEF LeadsWell, WithData, Personalized
    <2> QED BY <2>4, <2>5
  <1>2. CASE st \in DOMAIN ChannelEdges /\ Edges(st) = ChannelEdges[st]
    <2>1. /\ Raw(st, sig) \in DOMAIN ChannelEdges \cup {"ExtractCvcs", "leave"}
          /\ Raw(st, sig) = "leave" => sig = "abort" \/ st = "StartPaosResponse"
          /\ sig = "response" => Raw(st, sig) \in {"DestroyPace", "StartPaosResponse"}
          /\ st = "StartPaosResponse" => sig \in {"continue", "abort"}
      <3>1. /\ Raw(st, sig) \in DOMAIN ChannelEdges \cup {"ExtractCvcs", "leave"}
            /\ Raw(st, sig) = "leave" => sig = "abort" \/ st = "StartPaosResponse"
            /\ sig = "response" => Raw(st, sig) \in {"DestroyPace", "StartPaosResponse"}
        BY <1>0, <1>2, ChannelGraph
      <3>2. st = "StartPaosResponse" => sig \in {"continue", "abort"}
        BY <1>0, <1>2 DEF ChannelEdges, Either
      <3> QED BY <3>1, <3>2
    <2>2. \/ /\ cur \in TrustedChannel /\ to = AfterChannel /\ Raw(st, sig) = "leave"
          \/ /\ cur = st /\ to \in DOMAIN ChannelEdges \cup {"ExtractCvcs"}
             /\ Raw(st, sig) # "leave" /\ to = Raw(st, sig)
      BY <2>1, <1>2, TargetCases, Tables DEF Inner
    <2>3. cur \in TrustedChannel /\ to \in TrustedChannel \cup {AfterChannel}
      BY <2>2, <1>2, Tables DEF TrustedChannel
    <2>4. AfterChannel \in {"CheckRefreshAddress", "CheckError"}
      BY DEF AfterChannel
    <2>5. Leads(cur, st, sig, to)
      <3>1. /\ cur \in Own /\ cur \notin After /\ to \in Own /\ to # First
            /\ cur \notin {"CheckRefreshAddress", "RedirectBrowser", "Final"}
            /\ cur \notin PrepareApplet
        BY <2>3, Regions, Tables DEF TrustedChannel
      <3>2. to \notin PrepareApplet /\ to # "RedirectBrowser" /\ to # "CheckStatus"
        BY <2>3, <2>4, Tables DEF TrustedChannel
      <3> QED BY <3>1, <3>2 DEF Leads
    <2>6. cur = st /\ sig \notin Aborts => LeadsWell(cur, sig, to)
      <3> SUFFICES ASSUME cur = st, sig \notin Aborts PROVE LeadsWell(cur, sig, to)
        OBVIOUS
      <3>1. to \in Confirmed => cur = "StartPaosResponse"
        BY <2>1, <2>2, <2>3, Regions, Tables DEF Aborts, TrustedChannel
      <3>2. cur = "StartPaosResponse" => sig = "continue"
        BY <2>1 DEF Aborts
      <3>3. cur # "StartPaosPersonalizationResponse"
        BY <1>2, Tables
      <3>4. sig = "response" => to \notin Confirmed
        BY <2>1, <2>2, Regions, Tables DEF TrustedChannel
      <3>5. to \notin WithData \cup Personalized /\ to # "ClearNewPin"
        BY <2>3, <2>4, Tables DEF WithData, Personalized, TrustedChannel
      <3> QED BY <3>1, <3>2, <3>3, <3>4, <3>5 DEF LeadsWell
    <2> QED BY <2>5, <2>6
  <1>3. CASE /\ setup.action = "personalization"
             /\ st \in PrepareApplet /\ Edges(st) = AppletEdges[st]
    <2>1. /\ Raw(st, sig) \in PrepareApplet \cup {"prepared", "unprepared"}
          /\ Raw(st, sig) = "unprepared" <=> sig = "abort"
      BY <1>0, <1>3, AppletGraph
    <2>2. /\ cur \in PrepareApplet
          /\ to \in PrepareApplet => cur = st
          /\ to \in PrepareApplet \cup {"LoadSmartTcTokenUrl", "Final"}
          /\ to = "Final" <=> sig = "abort"
      BY <2>1, <1>3, TargetCases, Tables DEF Inner
    <2>3. to # First /\ First = "CheckStatus"
      BY <2>2, <1>3, Regions, Tables
    <2>4. to \in Own /\ cur \in Own
      BY <2>2, <1>3, Tables DEF Own
    <2>5. Leads(cur, st, sig, to)
      BY <2>2, <2>3, <2>4, <1>3, Regions, Tables DEF Leads
    <2>6. sig \notin Aborts => LeadsWell(cur, sig, to)
      BY <2>2, <1>3, Tables DEF LeadsWell, Aborts, Confirmed, Personalized
    <2> QED BY <2>5, <2>6
  <1>4. CASE setup.action = "auth" /\ st \in DOMAIN AuthEdges /\ Edges(st) = AuthEdges[st]
    <2>1. /\ Raw(st, sig) \in (DOMAIN AuthEdges \ {"ParseTcTokenUrl"}) \cup {"GetTcToken", "stopped"}
          /\ Raw(st, sig) \in {"CheckRefreshAddress", "GetTcToken"} <=> st = "ParseTcTokenUrl"
          /\ st = "ParseTcTokenUrl" /\ Raw(st, sig) # "GetTcToken" => sig = "abort"
          /\ st \in {"RedirectBrowser", "Final"} => Raw(st, sig) \in {"Final", "stopped"}
      BY <1>0, <1>4, AuthGraph
    <2>2. cur = st /\ to = Raw(st, sig)
      BY <2>1, TargetCases, Tables DEF Inner
    <2>3. sig # "response"
      BY <1>0, <1>4, Tables DEF AuthEdges, Either
    <2>4. Leads(cur, st, sig, to)
      BY <1>4, <2>1, <2>2, Tables DEF Leads, Own, TrustedChannel, After, First
    <2>5. sig \notin Aborts => LeadsWell(cur, sig, to)
      BY <1>4, <2>1, <2>2, <2>3, Tables DEF LeadsWell, Confirmed, Aborts
    <2> QED BY <2>4, <2>5
  <1>5. CASE setup.action = "selfAuth" /\ st \in DOMAIN SelfAuthEdges /\ Edges(st) = SelfAuthEdges[st]
    <2>1. /\ Raw(st, sig) \in (DOMAIN SelfAuthEdges \ {"LoadTcTokenUrl"}) \cup {"GetTcToken", "stopped"}
          /\ Raw(st, sig) = "CheckRefreshAddress" => st \in {"LoadTcTokenUrl", "CheckError"}
          /\ Raw(st, sig) = "GetTcToken" => st = "LoadTcTokenUrl"
          /\ Raw(st, sig) # "CheckError"
          /\ st = "LoadTcTokenUrl" /\ Raw(st, sig) # "GetTcToken" => sig = "abort"
          /\ Raw(st, sig) \in WithData => \/ st \in WithData \/ sig \in {"abort", "propagateAbort"}
                                          \/ st = "GetData" /\ sig = "continue"
      BY <1>0, <1>5, SelfAuthGraph
    <2>2. cur = st /\ to = Raw(st, sig)
      BY <2>1, TargetCases, Tables DEF Inner
    <2>3. sig # "response"
      BY <1>0, <1>5, Tables DEF SelfAuthEdges, Either
    <2>4. Leads(cur, st, sig, to)
      BY <1>5, <2>1, <2>2, Tables DEF Leads, Own, TrustedChannel, After, First
    <2>5. sig \notin Aborts => LeadsWell(cur, sig, to)
      BY <1>5, <2>1, <2>2, <2>3, Tables DEF LeadsWell, Confirmed, Aborts
    <2> QED BY <2>4, <2>5
  <1>6. CASE /\ setup.action = "personalization"
             /\ st \in DOMAIN PersonalizationEdges /\ Edges(st) = PersonalizationEdges[st]
    <2>1. /\ Raw(st, sig) \in (DOMAIN PersonalizationEdges
                                  \ {"CheckStatus", "LoadSmartTcTokenUrl", "CheckError"})
                              \cup {"CheckApplet", "GetTcToken", "stopped"}
          /\ Raw(st, sig) = "CheckRefreshAddress" => st = "CheckError"
          /\ Raw(st, sig) = "CheckApplet" => st = "CheckStatus"
          /\ Raw(st, sig) = "GetTcToken" => st = "LoadSmartTcTokenUrl"
          /\ st = "CheckStatus" => (Raw(st, sig) # "CheckApplet" <=> sig = "abort")
          /\ st = "LoadSmartTcTokenUrl" => Raw(st, sig) = "GetTcToken"
          /\ sig = "response" => Raw(st, sig) = "StartPaosPersonalizationResponse"
          /\ Raw(st, sig) \in Personalized => \/ st \in Personalized \cup {"ClearNewPin"}
                                              \/ sig \in {"abort", "propagateAbort"}
                                              \/ st = "FinalizePersonalization" /\ sig = "continue"
          /\ Raw(st, sig) = "ClearNewPin" => sig \in {"abort", "propagateAbort"}
      BY <1>0, <1>6, PersonalizationGraph
    <2>2. cur = st /\ to = Raw(st, sig)
      BY <2>1, TargetCases, Tables DEF Inner
    <2>3. st = "StartPaosPersonalizationResponse" => sig \in {"continue", "abort"}
      BY <1>0, <1>6 DEF PersonalizationEdges, Either
    <2>4. Leads(cur, st, sig, to)
      BY <1>6, <2>1, <2>2, Tables DEF Leads, Own, TrustedChannel, After, First
    <2>5. sig \notin Aborts => LeadsWell(cur, sig, to)
      BY <1>6, <2>1, <2>2, <2>3, Tables DEF LeadsWell, Confirmed, Aborts
    <2> QED BY <2>4, <2>5
  <1> QED BY EdgeCases, <1>1, <1>2, <1>3, <1>4, <1>5, <1>6

(* A StartPAOSResponse is never ignored by the state that waits for it.    *)
LEMMA ResponseLeads ==
    ASSUME setup \in Setups, NEW st \in Senders \cap Own
    PROVE  Target(st, st, "response") # "ignored"
  <1>1. CASE st \in DOMAIN ChannelEdges
    <2>1. Edges(st) = ChannelEdges[st]
      BY <1>1, Tables DEF Edges
    <2>2. "response" \in DOMAIN ChannelEdges[st] /\ ChannelEdges[st]["response"] \in {"DestroyPace", "StartPaosResponse"}
      BY <1>1, Tables DEF Senders, ChannelEdges, Either
    <2> QED BY <2>1, <2>2 DEF Target
  <1>2. CASE st \notin DOMAIN ChannelEdges
    <2>1. st \in {"SendStartPaosPersonalization", "SendTransmitPersonalization"}
      BY <1>2, Tables DEF Senders
    <2>2. Edges(st) = PersonalizationEdges[st]
      BY <2>1, EdgeCases, Tables
    <2>3. /\ "response" \in DOMAIN PersonalizationEdges[st]
          /\ PersonalizationEdges[st]["response"] = "StartPaosPersonalizationResponse"
      BY <2>1 DEF PersonalizationEdges, Either
    <2> QED BY <2>2, <2>3 DEF Target
  <1> QED BY <1>1, <1>2

-----------------------------------------------------------------------------
(* Queues. *)

LEMMA TailFacts ==
    ASSUME NEW T, NEW q \in Seq(T), q # <<>>
    PROVE  /\ Tail(q) \in Seq(T) /\ Head(q) \in T /\ Len(q) \in Nat /\ Len(q) >= 1
           /\ Len(Tail(q)) = Len(q) - 1 /\ Head(q) = q[1]
           /\ \A j \in 1..Len(Tail(q)) : j + 1 \in 1..Len(q) /\ Tail(q)[j] = q[j + 1]
  <1>1. Tail(q) \in Seq(T) /\ Head(q) \in T /\ Len(q) \in Nat /\ Len(q) >= 1
    OBVIOUS
  <1>2. Len(Tail(q)) = Len(q) - 1 /\ Head(q) = q[1]
    OBVIOUS
  <1>3. \A j \in 1..Len(Tail(q)) : j + 1 \in 1..Len(q) /\ Tail(q)[j] = q[j + 1]
    OBVIOUS
  <1> QED BY <1>1, <1>2, <1>3

LEMMA AppendFacts ==
    ASSUME NEW T, NEW q \in Seq(T), NEW e \in T
    PROVE  /\ Append(q, e) \in Seq(T) /\ Len(Append(q, e)) = Len(q) + 1 /\ Len(q) \in Nat
           /\ Append(q, e)[Len(q) + 1] = e
           /\ \A j \in 1..Len(q) : Append(q, e)[j] = q[j]
           /\ 1..Len(Append(q, e)) = 1..Len(q) \cup {Len(q) + 1}
  <1>1. /\ Append(q, e) \in Seq(T) /\ Len(Append(q, e)) = Len(q) + 1 /\ Len(q) \in Nat
        /\ Append(q, e)[Len(q) + 1] = e
        /\ \A j \in 1..Len(q) : Append(q, e)[j] = q[j]
    OBVIOUS
  <1> QED BY <1>1

LEMMA TailQuiet ==
    ASSUME NEW T, NEW q \in Seq(T), q # <<>>, NEW S
    PROVE  /\ NoEvent(q, S) => NoEvent(Tail(q), S) /\ ~Busy(Head(q), S)
           /\ OneEvent(q, S) => OneEvent(Tail(q), S)
           /\ OneEvent(q, S) /\ Busy(Head(q), S) => NoEvent(Tail(q), S)
           /\ NoCommand(q, S) => NoCommand(Tail(q), S) /\ Head(q).st \notin S
           /\ OneCommand(q, S) => OneCommand(Tail(q), S)
           /\ OneCommand(q, S) /\ Head(q).st \in S => NoCommand(Tail(q), S)
  <1>0. /\ Len(q) \in Nat /\ Len(q) >= 1 /\ Len(Tail(q)) = Len(q) - 1 /\ Head(q) = q[1]
        /\ \A j \in 1..Len(Tail(q)) : j + 1 \in 1..Len(q) /\ Tail(q)[j] = q[j + 1]
    BY TailFacts
  <1>1. \A i, j \in 1..Len(Tail(q)) : (i + 1 = j + 1 => i = j) /\ i + 1 # 1
    BY <1>0
  <1>2. 1 \in 1..Len(q)
    BY <1>0
  <1>3. /\ NoEvent(q, S) => NoEvent(Tail(q), S) /\ ~Busy(Head(q), S)
        /\ NoCommand(q, S) => NoCommand(Tail(q), S) /\ Head(q).st \notin S
    BY <1>0, <1>2 DEF NoEvent, NoCommand
  <1>4. /\ OneEvent(q, S) => OneEvent(Tail(q), S)
        /\ OneCommand(q, S) => OneCommand(Tail(q), S)
    BY <1>0, <1>1 DEF OneEvent, OneCommand
  <1>5. /\ OneEvent(q, S) /\ Busy(Head(q), S) => NoEvent(Tail(q), S)
        /\ OneCommand(q, S) /\ Head(q).st \in S => NoCommand(Tail(q), S)
    BY <1>0, <1>1, <1>2 DEF OneEvent, OneCommand, NoEvent, NoCommand
  <1> QED BY <1>3, <1>4, <1>5

LEMMA AppendQuiet ==
    ASSUME NEW T, NEW q \in Seq(T), NEW e \in T, NEW S
    PROVE  /\ NoEvent(q, S) /\ ~Busy(e, S) => NoEvent(Append(q, e), S)
           /\ OneEvent(q, S) /\ ~Busy(e, S) => OneEvent(Append(q, e), S)
           /\ NoEvent(q, S) => OneEvent(Append(q, e), S)
           /\ NoCommand(q, S) /\ e.st \notin S => NoCommand(Append(q, e), S)
           /\ OneCommand(q, S) /\ e.st \notin S => OneCommand(Append(q, e), S)
           /\ NoCommand(q, S) => OneCommand(Append(q, e), S)
  <1> DEFINE r == Append(q, e)
  <1>0. /\ r[Len(q) + 1] = e /\ \A j \in 1..Len(q) : r[j] = q[j]
        /\ 1..Len(r) = 1..Len(q) \cup {Len(q) + 1}
    BY AppendFacts
  <1> HIDE DEF r
  <1>1. /\ NoEvent(q, S) /\ ~Busy(e, S) => NoEvent(r, S)
        /\ OneEvent(q, S) /\ ~Busy(e, S) => OneEvent(r, S)
        /\ NoEvent(q, S) => OneEvent(r, S)
    BY <1>0 DEF NoEvent, OneEvent
  <1>2. /\ NoCommand(q, S) /\ e.st \notin S => NoCommand(r, S)
        /\ OneCommand(q, S) /\ e.st \notin S => OneCommand(r, S)
        /\ NoCommand(q, S) => OneCommand(r, S)
    BY <1>0 DEF NoCommand, OneCommand
  <1> QED BY <1>1, <1>2 DEF r

-----------------------------------------------------------------------------
(* What the machine is busy with, through the operators on it.             *)

(* The machine n is no busier than mm; it is busy with at most st besides. *)
Calmer(n, mm) ==
    /\ \A S : Idle(mm, S) => Idle(n, S)
    /\ \A S : Single(mm, S) => Single(n, S)
Gives(n, mm, st) ==
    /\ \A S : st \notin S /\ Idle(mm, S) => Idle(n, S)
    /\ \A S : st \notin S /\ Single(mm, S) => Single(n, S)
    /\ \A S : Idle(mm, S) => Single(n, S)
(* The machine n is mm without what st was busy with. *)
Takes(n, mm, st) ==
    /\ Calmer(n, mm)
    /\ \A S : st \in S /\ Single(mm, S) => Idle(n, S)
    /\ \A S : st \in S => ~Idle(mm, S)

LEMMA GivesNothing ==
    ASSUME NEW n, NEW mm, NEW st, Calmer(n, mm)
    PROVE  Gives(n, mm, st)
  <1>1. \A S : Idle(mm, S) => Single(mm, S)
    BY DEF Idle, Single, NoEvent, NoCommand, OneEvent, OneCommand
  <1> QED BY <1>1 DEF Gives, Calmer

LEMMA CalmerStep ==
    ASSUME NEW n, NEW k, NEW mm, NEW st, Gives(n, k, st), Calmer(k, mm)
    PROVE  Gives(n, mm, st)
  BY DEF Gives, Calmer

Sound(mm) == mm \in Machines /\ OfWorkflow(mm)
NoFinalized(q) == \A i \in 1..Len(q) : ~Finalized(q[i])

LEMMA EventKinds ==
    /\ \A s \in States : /\ Run(s) \in Events /\ Run(s).type = "run" /\ Run(s).st = s
                         /\ Cancel(s) \in Events /\ Cancel(s).type = "cancel" /\ Cancel(s).st = s
    /\ \A s \in States : ~Finalized(Run(s)) /\ ~Finalized(Cancel(s))
    /\ \A s, S : /\ Busy(Run(s), S) => s \in S
                 /\ ~Busy(Cancel(s), S)
    /\ \A S : ~Busy(Removed, S)
    /\ Removed \in Events /\ Removed.type = "removed" /\ ~Finalized(Removed)
  BY DEF Events, Run, Cancel, Removed, Busy, Finalized

LEMMA TakeEvent ==
    ASSUME Sound(m), m.events # <<>>
    PROVE  /\ Sound(Rest) /\ Rest.cur = m.cur /\ Rest.approved = m.approved
           /\ Rest.open = m.open /\ Rest.cmds = m.cmds /\ Rest.events = Tail(m.events)
           /\ Event \in Events
           /\ Calmer(Rest, m)
           /\ Event.type \in {"run", "done"} => Event.st \in Own /\ Takes(Rest, m, Event.st)
           /\ Event.type = "cancel" => Event.st = First
           /\ NoFinalized(m.events) => NoFinalized(Rest.events) /\ ~Finalized(Event)
  <1>1. m \in Machines /\ m.events \in Seq(Events)
    BY DEF Sound, Machines
  <1>2. /\ Tail(m.events) \in Seq(Events) /\ Event \in Events
        /\ Len(m.events) \in Nat /\ Len(m.events) >= 1 /\ Event = m.events[1]
        /\ \A j \in 1..Len(Tail(m.events)) :
               j + 1 \in 1..Len(m.events) /\ Tail(m.events)[j] = m.events[j + 1]
    BY <1>1, TailFacts DEF Event
  <1>3. /\ Rest \in Machines /\ Rest.cur = m.cur /\ Rest.approved = m.approved
        /\ Rest.open = m.open /\ Rest.cmds = m.cmds /\ Rest.events = Tail(m.events)
    BY <1>1, <1>2 DEF Rest, Machines
  <1>4. OfWorkflow(Rest)
    BY <1>2, <1>3 DEF Sound, OfWorkflow
  <1>5. 1 \in 1..Len(m.events)
    BY <1>2
  <1>6. /\ Event.type \in {"run", "done"} => Event.st \in Own
        /\ Event.type = "cancel" => Event.st = First
    BY <1>2, <1>5 DEF Sound, OfWorkflow
  <1>7. NoFinalized(m.events) => NoFinalized(Rest.events) /\ ~Finalized(Event)
    BY <1>2, <1>3, <1>5 DEF NoFinalized
  <1>8. ASSUME NEW S
        PROVE  /\ NoEvent(m.events, S) => NoEvent(Rest.events, S) /\ ~Busy(Event, S)
               /\ OneEvent(m.events, S) => OneEvent(Rest.events, S)
               /\ OneEvent(m.events, S) /\ Busy(Event, S) => NoEvent(Rest.events, S)
    BY <1>1, <1>3, TailQuiet DEF Event
  <1>9. Calmer(Rest, m)
    BY <1>3, <1>8 DEF Calmer, Idle, Single
  <1>10. Event.type \in {"run", "done"} => Takes(Rest, m, Event.st)
    BY <1>3, <1>8, <1>9 DEF Takes, Idle, Single, Busy
  <1> QED BY <1>2, <1>3, <1>4, <1>6, <1>7, <1>9, <1>10 DEF Sound

LEMMA TakeReply ==
    ASSUME Sound(m), NEW st \in m.open
    PROVE  /\ Sound(Replied(st)) /\ Replied(st).cur = m.cur /\ Replied(st).approved = m.approved
           /\ Replied(st).events = m.events /\ Replied(st).cmds = m.cmds
           /\ Replied(st).open = m.open \ {st}
           /\ st \in Own /\ st \in Requesters
           /\ Takes(Replied(st), m, st)
  <1>1. /\ Replied(st) \in Machines /\ Replied(st).cur = m.cur /\ Replied(st).approved = m.approved
        /\ Replied(st).events = m.events /\ Replied(st).cmds = m.cmds
        /\ Replied(st).open = m.open \ {st} /\ st \in Requesters
    BY DEF Sound, Machines, Replied
  <1>2. OfWorkflow(Replied(st)) /\ st \in Own
    BY <1>1 DEF Sound, OfWorkflow
  <1>3. Takes(Replied(st), m, st)
    BY <1>1 DEF Takes, Calmer, Idle, Single
  <1> QED BY <1>1, <1>2, <1>3 DEF Sound

LEMMA TakeCommand ==
    ASSUME Sound(m), m.cmds # <<>>,
           NEW mm, mm = [m EXCEPT !.cmds = Tail(@)]
    PROVE  /\ Sound(mm) /\ mm.cur = m.cur /\ mm.approved = m.approved
           /\ mm.events = m.events /\ mm.cmds = Tail(m.cmds) /\ mm.open = m.open
           /\ Head(m.cmds) \in Commands /\ Head(m.cmds).st \in Own
           /\ Takes(mm, m, Head(m.cmds).st)
  <1>1. m \in Machines /\ m.cmds \in Seq(Commands)
    BY DEF Sound, Machines
  <1>2. /\ Tail(m.cmds) \in Seq(Commands) /\ Head(m.cmds) \in Commands
        /\ Len(m.cmds) \in Nat /\ Len(m.cmds) >= 1 /\ Head(m.cmds) = m.cmds[1]
        /\ \A j \in 1..Len(Tail(m.cmds)) : j + 1 \in 1..Len(m.cmds) /\ Tail(m.cmds)[j] = m.cmds[j + 1]
    BY <1>1, TailFacts
  <1>3. /\ mm \in Machines /\ mm.cur = m.cur /\ mm.approved = m.approved
        /\ mm.events = m.events /\ mm.cmds = Tail(m.cmds) /\ mm.open = m.open
    BY <1>1, <1>2 DEF Machines
  <1>4. 1 \in 1..Len(m.cmds)
    BY <1>2
  <1>5. OfWorkflow(mm) /\ Head(m.cmds).st \in Own
    BY <1>2, <1>3, <1>4 DEF Sound, OfWorkflow
  <1>6. ASSUME NEW S
        PROVE  /\ NoCommand(m.cmds, S) => NoCommand(mm.cmds, S) /\ Head(m.cmds).st \notin S
               /\ OneCommand(m.cmds, S) => OneCommand(mm.cmds, S)
               /\ OneCommand(m.cmds, S) /\ Head(m.cmds).st \in S => NoCommand(mm.cmds, S)
    BY <1>1, <1>3, TailQuiet
  <1>7. Takes(mm, m, Head(m.cmds).st)
    BY <1>3, <1>6 DEF Takes, Calmer, Idle, Single
  <1> QED BY <1>2, <1>3, <1>5, <1>7 DEF Sound

LEMMA GiveRequest ==
    ASSUME NEW mm, Sound(mm), NEW st \in Requesters \cap Own,
           NEW n, n = [mm EXCEPT !.open = @ \cup {st}]
    PROVE  /\ Sound(n) /\ n.cur = mm.cur /\ n.approved = mm.approved
           /\ n.events = mm.events /\ n.cmds = mm.cmds /\ n.open = mm.open \cup {st}
           /\ Gives(n, mm, st)
  <1>1. /\ n \in Machines /\ n.cur = mm.cur /\ n.approved = mm.approved
        /\ n.events = mm.events /\ n.cmds = mm.cmds /\ n.open = mm.open \cup {st}
    BY DEF Sound, Machines
  <1>2. OfWorkflow(n)
    BY <1>1 DEF Sound, OfWorkflow
  <1>3. \A S : Idle(mm, S) => Single(mm, S)
    BY DEF Idle, Single, NoEvent, NoCommand, OneEvent, OneCommand
  <1>4. Gives(n, mm, st)
    BY <1>1, <1>3 DEF Gives, Idle, Single
  <1> QED BY <1>1, <1>2, <1>4 DEF Sound

LEMMA GiveCommand ==
    ASSUME NEW mm, Sound(mm), NEW cmd \in Commands, cmd.st \in Own,
           NEW n, n = [mm EXCEPT !.cmds = Append(@, cmd)]
    PROVE  /\ Sound(n) /\ n.cur = mm.cur /\ n.approved = mm.approved
           /\ n.events = mm.events /\ n.cmds = Append(mm.cmds, cmd) /\ n.open = mm.open
           /\ Gives(n, mm, cmd.st)
  <1>1. mm \in Machines /\ mm.cmds \in Seq(Commands)
    BY DEF Sound, Machines
  <1>2. /\ Append(mm.cmds, cmd) \in Seq(Commands)
        /\ Append(mm.cmds, cmd)[Len(mm.cmds) + 1] = cmd
        /\ \A j \in 1..Len(mm.cmds) : Append(mm.cmds, cmd)[j] = mm.cmds[j]
        /\ 1..Len(Append(mm.cmds, cmd)) = 1..Len(mm.cmds) \cup {Len(mm.cmds) + 1}
    BY <1>1, AppendFacts
  <1>3. /\ n \in Machines /\ n.cur = mm.cur /\ n.approved = mm.approved
        /\ n.events = mm.events /\ n.cmds = Append(mm.cmds, cmd) /\ n.open = mm.open
    BY <1>1, <1>2 DEF Machines
  <1>4. OfWorkflow(n)
    BY <1>2, <1>3 DEF Sound, OfWorkflow
  <1>5. ASSUME NEW S
        PROVE  /\ NoCommand(mm.cmds, S) /\ cmd.st \notin S => NoCommand(n.cmds, S)
               /\ OneCommand(mm.cmds, S) /\ cmd.st \notin S => OneCommand(n.cmds, S)
               /\ NoCommand(mm.cmds, S) => OneCommand(n.cmds, S)
    BY <1>1, <1>3, AppendQuiet
  <1>6. \A S : Idle(mm, S) => Single(mm, S)
    BY DEF Idle, Single, NoEvent, NoCommand, OneEvent, OneCommand
  <1>7. Gives(n, mm, cmd.st)
    BY <1>3, <1>5, <1>6 DEF Gives, Idle, Single
  <1> QED BY <1>3, <1>4, <1>7 DEF Sound

LEMMA GiveEvent ==
    ASSUME NEW mm, Sound(mm), NEW e \in Events,
           e.type \in {"run", "done"} => e.st \in Own,
           e.type = "cancel" => e.st = First,
           NEW n, n = [mm EXCEPT !.events = Append(@, e)]
    PROVE  /\ Sound(n) /\ n.cur = mm.cur /\ n.approved = mm.approved
           /\ n.events = Append(mm.events, e) /\ n.cmds = mm.cmds /\ n.open = mm.open
           /\ NoFinalized(mm.events) /\ ~Finalized(e) => NoFinalized(n.events)
           /\ e.type \notin {"run", "done"} => Calmer(n, mm)
           /\ Gives(n, mm, e.st)
  <1>1. mm \in Machines /\ mm.events \in Seq(Events)
    BY DEF Sound, Machines
  <1>2. /\ Append(mm.events, e) \in Seq(Events)
        /\ Append(mm.events, e)[Len(mm.events) + 1] = e
        /\ \A j \in 1..Len(mm.events) : Append(mm.events, e)[j] = mm.events[j]
        /\ 1..Len(Append(mm.events, e)) = 1..Len(mm.events) \cup {Len(mm.events) + 1}
    BY <1>1, AppendFacts
  <1>3. /\ n \in Machines /\ n.cur = mm.cur /\ n.approved = mm.approved
        /\ n.events = Append(mm.events, e) /\ n.cmds = mm.cmds /\ n.open = mm.open
    BY <1>1, <1>2 DEF Machines
  <1>4. OfWorkflow(n)
    BY <1>2, <1>3 DEF Sound, OfWorkflow
  <1>5. NoFinalized(mm.events) /\ ~Finalized(e) => NoFinalized(n.events)
    BY <1>2, <1>3 DEF NoFinalized
  <1>6. ASSUME NEW S
        PROVE  /\ NoEvent(mm.events, S) /\ ~Busy(e, S) => NoEvent(n.events, S)
               /\ OneEvent(mm.events, S) /\ ~Busy(e, S) => OneEvent(n.events, S)
               /\ NoEvent(mm.events, S) => OneEvent(n.events, S)
    BY <1>1, <1>3, AppendQuiet
  <1>7. \A S : Idle(mm, S) => Single(mm, S)
    BY DEF Idle, Single, NoEvent, NoCommand, OneEvent, OneCommand
  <1>8. Gives(n, mm, e.st)
    BY <1>3, <1>6, <1>7 DEF Gives, Idle, Single, Busy
  <1>9. e.type \notin {"run", "done"} => Calmer(n, mm)
    BY <1>3, <1>6 DEF Calmer, Idle, Single, Busy
  <1> QED BY <1>3, <1>4, <1>5, <1>8, <1>9 DEF Sound

LEMMA ExitFacts ==
    ASSUME NEW mm, Sound(mm)
    PROVE  /\ Sound(Exit(mm)) /\ Exit(mm).cur = mm.cur /\ ~Exit(mm).approved
           /\ Exit(mm).events = mm.events /\ Exit(mm).open \subseteq mm.open
           /\ Calmer(Exit(mm), mm)
  <1> DEFINE cut(j) == [mm.cmds[j] EXCEPT !.wired = @ /\ mm.cmds[j].st # mm.cur]
             q == Disconnected(mm.cmds, mm.cur)
  <1>1. /\ mm \in Machines /\ mm.cmds \in Seq(Commands) /\ DOMAIN mm.cmds = 1..Len(mm.cmds)
        /\ Len(mm.cmds) \in Nat
    BY DEF Sound, Machines
  <1>2. \A j \in 1..Len(mm.cmds) : cut(j) \in Commands /\ cut(j).st = mm.cmds[j].st
    <2> SUFFICES ASSUME NEW j \in 1..Len(mm.cmds)
                 PROVE  cut(j) \in Commands /\ cut(j).st = mm.cmds[j].st
      OBVIOUS
    <2>1. mm.cmds[j] \in Commands
      BY <1>1
    <2> QED BY <2>1 DEF Commands
  <1>0. q = [j \in DOMAIN mm.cmds |-> cut(j)]
    BY DEF Disconnected
  <1> HIDE DEF cut, q
  <1>3. q \in Seq(Commands) /\ Len(q) = Len(mm.cmds)
    <2>1. q \in [1..Len(mm.cmds) -> Commands]
      BY <1>0, <1>1, <1>2
    <2>2. q \in Seq(Commands)
      BY <2>1, <1>1
    <2> QED BY <2>1, <2>2, <1>1
  <1>4. \A j \in 1..Len(mm.cmds) : q[j].st = mm.cmds[j].st
    BY <1>0, <1>1, <1>2
  <1>5. Exit(mm) = [mm EXCEPT !.approved = FALSE, !.open = @ \ {mm.cur}, !.cmds = q]
    BY DEF Exit, q
  <1>6. /\ Exit(mm) \in Machines /\ Exit(mm).cur = mm.cur /\ ~Exit(mm).approved
        /\ Exit(mm).events = mm.events /\ Exit(mm).cmds = q
        /\ Exit(mm).open = mm.open \ {mm.cur}
    BY <1>1, <1>3, <1>5 DEF Machines
  <1>7. OfWorkflow(Exit(mm))
    BY <1>3, <1>4, <1>6 DEF Sound, OfWorkflow
  <1>8. \A S : /\ NoCommand(mm.cmds, S) => NoCommand(q, S)
               /\ OneCommand(mm.cmds, S) => OneCommand(q, S)
    BY <1>3, <1>4 DEF NoCommand, OneCommand
  <1>9. Calmer(Exit(mm), mm)
    BY <1>6, <1>8 DEF Calmer, Idle, Single
  <1> QED BY <1>6, <1>7, <1>9 DEF Sound

LEMMA EnterFacts ==
    ASSUME setup \in Setups, NEW mm, Sound(mm), NEW c \in Contexts, NEW st \in Own,
           c.cancelled /\ ~c.inState => st = First,
           NEW n, n = Enter(mm, c, st)
    PROVE  /\ Sound(n) /\ n.cur = st /\ n.cmds = mm.cmds /\ n.open = mm.open
           /\ n.approved = (mm.approved \/ st \notin Waiting \/ c.killed)
           /\ NoFinalized(mm.events) => NoFinalized(n.events)
           /\ Gives(n, mm, st)
           /\ ~n.approved \/ mm.approved \/ st \in Paces => Calmer(n, mm)
           /\ mm.approved => n.events = (IF c.cancelled /\ ~c.inState
                                         THEN Append(mm.events, Cancel(st)) ELSE mm.events)
  <1> DEFINE approved == mm.approved \/ st \notin Waiting \/ c.killed
             starts   == approved /\ ~mm.approved /\ st \notin Paces
             runs     == IF starts THEN <<Run(st)>> ELSE <<>>
             learns   == c.cancelled /\ ~c.inState
             cancels  == IF learns THEN <<Cancel(st)>> ELSE <<>>
             e        == [mm EXCEPT !.cur = st, !.approved = approved]
             k        == IF starts THEN [e EXCEPT !.events = Append(@, Run(st))] ELSE e
  <1>1. /\ st \in States /\ Run(st) \in Events /\ Cancel(st) \in Events
        /\ mm \in Machines /\ mm.events \in Seq(Events)
    BY Regions, EventKinds DEF Sound, Machines
  <1>2. approved \in BOOLEAN
    BY <1>1 DEF Machines, Contexts
  <1>3. /\ Sound(e) /\ e.cur = st /\ e.approved = approved /\ e.events = mm.events
        /\ e.cmds = mm.cmds /\ e.open = mm.open
    <2>1. /\ e \in Machines /\ e.cur = st /\ e.approved = approved /\ e.events = mm.events
          /\ e.cmds = mm.cmds /\ e.open = mm.open
      BY <1>1, <1>2 DEF Machines
    <2> QED BY <2>1 DEF Sound, OfWorkflow
  <1>4. Calmer(e, mm)
    BY <1>3 DEF Calmer, Idle, Single
  <1> HIDE DEF e
  <1>5. /\ Sound(k) /\ k.cur = st /\ k.approved = approved
        /\ k.cmds = mm.cmds /\ k.open = mm.open
        /\ NoFinalized(mm.events) => NoFinalized(k.events)
        /\ Gives(k, mm, st)
        /\ ~starts => k = e
        /\ k.events = mm.events \o runs
    <2>1. CASE starts
      <3>1. k = [e EXCEPT !.events = Append(@, Run(st))] /\ runs = <<Run(st)>>
        BY <2>1
      <3>2. /\ Sound(k) /\ k.cur = e.cur /\ k.approved = e.approved
            /\ k.events = Append(e.events, Run(st)) /\ k.cmds = e.cmds /\ k.open = e.open
            /\ NoFinalized(e.events) => NoFinalized(k.events)
            /\ Gives(k, e, st)
        <4>1. Run(st).type = "run" /\ Run(st).st = st /\ ~Finalized(Run(st))
          BY <1>1, EventKinds
        <4>2. Sound(e) /\ Run(st) \in Events /\ st \in Own /\ k = [e EXCEPT !.events = Append(@, Run(st))]
          BY <3>1, <1>1, <1>3
        <4> HIDE DEF k, starts, approved, runs, learns, cancels
        <4> QED BY <4>1, <4>2, GiveEvent
      <3>3. mm.events \o runs = Append(mm.events, Run(st))
        BY <3>1, <1>1, AppendIsConcat
      <3> QED BY <3>2, <3>3, <1>3, <1>4, CalmerStep, <2>1
    <2>2. CASE ~starts
      <3>1. k = e /\ runs = <<>>
        BY <2>2
      <3>2. mm.events \o runs = mm.events
        BY <3>1, <1>1, ConcatEmptySeq
      <3>3. Gives(e, mm, st)
        BY <1>4, GivesNothing
      <3> QED BY <3>1, <3>2, <3>3, <1>3
    <2> QED BY <2>1, <2>2
  <1>6. k.events \in Seq(Events)
    BY <1>5 DEF Sound, Machines
  <1>7. n = [mm EXCEPT !.cur = st, !.approved = approved,
                       !.events = (mm.events \o runs) \o cancels]
    BY DEF Enter
  <1>8. n = [k EXCEPT !.events = @ \o cancels]
    <2>1. CASE starts
      <3>1. k = [mm EXCEPT !.cur = st, !.approved = approved, !.events = Append(@, Run(st))]
        BY <2>1, <1>1 DEF e, Machines
      <3>2. mm.events \o runs = Append(mm.events, Run(st))
        BY <2>1, <1>1, AppendIsConcat
      <3> HIDE DEF k, cancels, approved, runs
      <3> QED BY <3>1, <3>2, <1>1, <1>7 DEF Machines
    <2>2. CASE ~starts
      <3>1. k = [mm EXCEPT !.cur = st, !.approved = approved]
        BY <2>2 DEF e
      <3>2. mm.events \o runs = mm.events
        BY <2>2, <1>1, ConcatEmptySeq
      <3> HIDE DEF k, cancels, approved, runs
      <3> QED BY <3>1, <3>2, <1>1, <1>7 DEF Machines
    <2> QED BY <2>1, <2>2
  <1> HIDE DEF k, runs
  <1>9. /\ Sound(n) /\ n.cur = st /\ n.approved = approved
        /\ n.cmds = mm.cmds /\ n.open = mm.open
        /\ NoFinalized(k.events) => NoFinalized(n.events)
        /\ Calmer(n, k)
        /\ n.events = IF learns THEN Append(k.events, Cancel(st)) ELSE k.events
    <2>1. CASE learns
      <3>1. n = [k EXCEPT !.events = Append(@, Cancel(st))]
        <4>1. cancels = <<Cancel(st)>>
          BY <2>1
        <4>2. k.events \o cancels = Append(k.events, Cancel(st))
          BY <4>1, <1>1, <1>6, AppendIsConcat
        <4>3. k \in Machines
          BY <1>5 DEF Sound
        <4> HIDE DEF cancels, learns
        <4> QED BY <1>8, <4>2, <4>3 DEF Machines
      <3>2. st = First
        BY <2>1
      <3>3. /\ Sound(n) /\ n.cur = k.cur /\ n.approved = k.approved
            /\ n.events = Append(k.events, Cancel(st)) /\ n.cmds = k.cmds /\ n.open = k.open
            /\ NoFinalized(k.events) => NoFinalized(n.events)
            /\ Calmer(n, k)
        <4>1. Cancel(st).type = "cancel" /\ Cancel(st).st = First /\ ~Finalized(Cancel(st))
          BY <1>1, <3>2, EventKinds
        <4>2. Sound(k) /\ Cancel(st) \in Events
          BY <1>1, <1>5
        <4> HIDE DEF learns
        <4> QED BY <3>1, <4>1, <4>2, GiveEvent
      <3> QED BY <2>1, <3>3, <1>5
    <2>2. CASE ~learns
      <3>1. cancels = <<>>
        BY <2>2
      <3>2. k.events \o cancels = k.events
        BY <3>1, <1>6, ConcatEmptySeq
      <3>3. k \in Machines
        BY <1>5 DEF Sound
      <3>4. n = k
        <4> HIDE DEF cancels, learns
        <4> QED BY <1>8, <3>2, <3>3 DEF Machines
      <3> QED BY <2>2, <3>4, <1>5 DEF Calmer
    <2> QED BY <2>1, <2>2
  <1>10. Gives(n, mm, st)
    BY <1>5, <1>9 DEF Gives, Calmer
  <1>11. ~n.approved \/ mm.approved \/ st \in Paces => Calmer(n, mm)
    <2> SUFFICES ASSUME ~n.approved \/ mm.approved \/ st \in Paces PROVE Calmer(n, mm)
      OBVIOUS
    <2>1. k = e
      BY <1>5, <1>9
    <2> QED BY <2>1, <1>4, <1>9 DEF Calmer
  <1>12. mm.approved => k.events = mm.events
    BY <1>5, <1>3
  <1> QED BY <1>5, <1>9, <1>10, <1>11, <1>12

-----------------------------------------------------------------------------
(* A state emits a signal. *)

LEMMA WaitingFacts ==
    /\ Waiting \cap (PrepareApplet \cup {"CheckRefreshAddress"}) = {}
    /\ Waiting \cap Paces = {}
  BY Tables DEF Waiting, Paces

LEMMA WithResultFacts ==
    ASSUME NEW c \in Contexts
    PROVE  LET d == WithResult(c)
           IN  /\ d \in Contexts
               /\ d.killed = c.killed /\ d.cancelled = c.cancelled /\ d.inState = c.inState
               /\ d.status = c.status /\ d.paos = c.paos /\ d.data = c.data
               /\ d.refresh \in Urls => d.refresh = c.refresh
               /\ d.result = "ok" => c.status = "ok" \/ c.result = "ok"
  <1> DEFINE r == IF c.status = "cancelled" \/ c.paosResult = "ok"
                  THEN IF c.status = "ok" THEN "ok" ELSE "error"
                  ELSE c.paosResult
  <1>1. CASE c.refresh # "none"
    <2>1. WithResult(c) = [c EXCEPT !.result = r]
      BY <1>1 DEF WithResult
    <2>2. r \in {"ok", "error"} /\ (r = "ok" => c.status = "ok")
      BY DEF Contexts
    <2> HIDE DEF r
    <2> QED BY <2>1, <2>2 DEF Contexts
  <1>2. CASE c.refresh = "none" /\ c.token = "errorAddress"
    <2>1. WithResult(c) = [c EXCEPT !.refresh = "errorAddress", !.result = "error"]
      BY <1>2 DEF WithResult
    <2>2. "errorAddress" \notin Urls
      BY AuthenticationAssumption
    <2> QED BY <2>1, <2>2 DEF Contexts
  <1>3. CASE c.refresh = "none" /\ c.token # "errorAddress"
    <2>1. WithResult(c) = c
      BY <1>3 DEF WithResult
    <2> QED BY <2>1
  <1> QED BY <1>1, <1>2, <1>3

LEMMA IdleParts ==
    ASSUME NEW mm, NEW S, NEW T, S \subseteq T
    PROVE  /\ Idle(mm, T) => Idle(mm, S)
           /\ Idle(mm, S) => Single(mm, S)
           /\ Idle(mm, T) /\ "FinalizePersonalization" \in T => NoFinalized(mm.events)
  <1>1. Idle(mm, T) => Idle(mm, S)
    BY DEF Idle, NoEvent, NoCommand, Busy
  <1>2. Idle(mm, S) => Single(mm, S)
    BY DEF Idle, Single, NoEvent, NoCommand, OneEvent, OneCommand
  <1>3. Idle(mm, T) /\ "FinalizePersonalization" \in T => NoFinalized(mm.events)
    BY DEF Idle, NoEvent, NoFinalized, Finalized, Busy
  <1> QED BY <1>1, <1>2, <1>3

LEMMA EmitFacts ==
    ASSUME setup \in Setups, NEW mm, Sound(mm), NEW c \in Contexts, c.cancelled => c.inState,
           NEW st \in Own, NEW sig, Emit(mm, c, st, sig),
           NEW to, to = Target(mm.cur, st, sig)
    PROVE  /\ ctx' = (IF to = "RedirectBrowser" THEN WithResult(c) ELSE c)
           /\ to = "ignored" => m' = mm
           /\ to # "ignored" =>
                  /\ Leads(mm.cur, st, sig, to)
                  /\ mm.cur = st /\ sig \notin Aborts => LeadsWell(mm.cur, sig, to)
                  /\ Sound(m') /\ m'.cur = to /\ m'.open \subseteq mm.open
                  /\ to \in PrepareApplet \cup {"CheckRefreshAddress"} \cup Paces => m'.approved
                  /\ NoFinalized(mm.events) => NoFinalized(m'.events)
                  /\ Gives(m', mm, to)
                  /\ ~m'.approved \/ to \in Paces => Calmer(m', mm)
  <1>0. ctx' = (IF to = "RedirectBrowser" THEN WithResult(c) ELSE c) /\ (to = "ignored" => m' = mm)
    BY DEF Emit
  <1>1. ASSUME to # "ignored"
        PROVE  Leads(mm.cur, st, sig, to) /\ (mm.cur = st /\ sig \notin Aborts => LeadsWell(mm.cur, sig, to))
    <2>1. mm.cur \in Own \cup Over \cup {"none"}
      BY DEF Sound, OfWorkflow
    <2> QED BY <1>1, <2>1, TargetFacts
  <1> DEFINE e == Exit(mm)
  <1>2. /\ Sound(e) /\ e.cur = mm.cur /\ ~e.approved /\ e.events = mm.events
        /\ e.open \subseteq mm.open /\ Calmer(e, mm)
    BY ExitFacts
  <1> HIDE DEF e
  <1>3. CASE to = "stopped"
    <2>1. m' = [e EXCEPT !.cur = "stopped"]
      BY <1>3 DEF Emit, e
    <2>2. /\ m' \in Machines /\ m'.cur = "stopped" /\ ~m'.approved /\ m'.events = e.events
          /\ m'.cmds = e.cmds /\ m'.open = e.open
      BY <1>2, <2>1 DEF Sound, Machines
    <2>3. Sound(m') /\ Calmer(m', e)
      BY <1>2, <2>2 DEF Sound, OfWorkflow, Calmer, Idle, Single, Over
    <2>4. Calmer(m', mm)
      BY <1>2, <2>3 DEF Calmer
    <2>5. Gives(m', mm, to)
      BY <2>4, GivesNothing
    <2>6. "stopped" \notin PrepareApplet \cup Paces
      BY Tables DEF Paces
    <2> QED BY <1>0, <1>1, <1>2, <1>3, <2>2, <2>3, <2>4, <2>5, <2>6
  <1>4. CASE to \notin {"ignored", "stopped"}
    <2>1. m' = Enter(e, c, to)
      BY <1>4 DEF Emit, e
    <2>2. to \in Own
      BY <1>1, <1>4 DEF Leads
    <2>3. /\ Sound(m') /\ m'.cur = to
          /\ m'.approved = (e.approved \/ to \notin Waiting \/ c.killed)
          /\ m'.open = e.open
          /\ NoFinalized(e.events) => NoFinalized(m'.events)
          /\ Gives(m', e, to)
          /\ ~m'.approved \/ e.approved \/ to \in Paces => Calmer(m', e)
      <3> HIDE DEF Waiting
      <3> QED BY <1>2, <2>1, <2>2, EnterFacts
    <2>4. Gives(m', mm, to)
      BY <1>2, <2>3, CalmerStep
    <2>5. ~m'.approved \/ to \in Paces => Calmer(m', mm)
      BY <1>2, <2>3 DEF Calmer
    <2>6. to \in PrepareApplet \cup {"CheckRefreshAddress"} \cup Paces => m'.approved
      BY <2>3, WaitingFacts
    <2> QED BY <1>0, <1>1, <1>2, <1>4, <2>3, <2>4, <2>5, <2>6
  <1> QED BY <1>0, <1>3, <1>4

Good(mm, c, chip) ==
    /\ Sound(mm) /\ c \in Contexts
    /\ c.killed => c.cancelled
    /\ c.inState => c.status # "ok"
    /\ QuietStart(mm, c) /\ Prompt(mm) /\ CheckedOnce(mm, c) /\ OneApplet(mm)
    /\ AllWell(mm, c, chip) /\ Decided(mm, c)

(* The machine, while a handler runs: what state st was busy with is done. *)
Ready(mm, c, st, sig) ==
    /\ Sound(mm) /\ c \in Contexts /\ mm.cur # "none"
    /\ c.killed => c.cancelled
    /\ c.cancelled => c.inState
    /\ c.inState => c.status # "ok"
    /\ Prompt(mm) /\ CheckedOnce(mm, c) /\ Decided(mm, c)
    /\ Single(mm, PrepareApplet)
    /\ mm.cur # "crashed" => Idle(mm, Uninterruptible \ {mm.cur})
    /\ mm.cur \in PrepareApplet \cup {"none", "CheckStatus"} => Idle(mm, PrepareApplet \ {mm.cur})
    /\ st \in PrepareApplet => \/ Idle(mm, PrepareApplet)
                               \/ mm.cur = st /\ st \notin Uninterruptible /\ sig = "abort"

(* If nothing went wrong so far, nothing goes wrong now. *)
Forward(mm, c, st, sig, chip) ==
    c.status = "ok" =>
        /\ mm.cur = st /\ sig \notin Aborts /\ ~c.cancelled /\ Idle(mm, Own)
        /\ sig = "response" => st \in Senders
        /\ sig # "response" /\ st \in Confirmed => c.paos = "ok"
        /\ st \in {"StartPaosResponse", "StartPaosPersonalizationResponse"} => c.paos = "ok"
        /\ setup.action = "selfAuth" /\ (st \in WithData \/ (st = "GetData" /\ sig = "continue")) =>
               c.data
        /\ setup.action = "personalization" =>
               /\ st # "ClearNewPin"
               /\ st \in Personalized \/ (st = "FinalizePersonalization" /\ sig = "continue") =>
                      chip = "personalized"

LEMMA EmitGood ==
    ASSUME setup \in Setups, NEW mm, NEW c, NEW st \in Own, NEW sig, NEW chip,
           Ready(mm, c, st, sig), Forward(mm, c, st, sig, chip),
           Emit(mm, c, st, sig)
    PROVE  Good(m', ctx', chip)
  <1> DEFINE to == Target(mm.cur, st, sig)
             d  == ctx'
  <1>0. Sound(mm) /\ c \in Contexts /\ (c.cancelled => c.inState)
    BY DEF Ready
  <1>1. /\ d = (IF to = "RedirectBrowser" THEN WithResult(c) ELSE c)
        /\ to = "ignored" => m' = mm
        /\ to # "ignored" =>
               /\ Leads(mm.cur, st, sig, to)
               /\ mm.cur = st /\ sig \notin Aborts => LeadsWell(mm.cur, sig, to)
               /\ Sound(m') /\ m'.cur = to
               /\ to \in PrepareApplet \cup {"CheckRefreshAddress"} \cup Paces => m'.approved
               /\ NoFinalized(mm.events) => NoFinalized(m'.events)
               /\ Gives(m', mm, to)
               /\ ~m'.approved \/ to \in Paces => Calmer(m', mm)
    BY <1>0, EmitFacts
  <1>2. /\ d \in Contexts
        /\ d.killed = c.killed /\ d.cancelled = c.cancelled /\ d.inState = c.inState
        /\ d.status = c.status /\ d.paos = c.paos /\ d.data = c.data
        /\ d.refresh \in Urls => d.refresh = c.refresh
        /\ d.result = "ok" => c.status = "ok" \/ c.result = "ok"
        /\ to # "RedirectBrowser" => d = c
    BY <1>0, <1>1, WithResultFacts
  <1>3. mm.cur \in Own \cup Over
    BY <1>0 DEF Ready, Sound, OfWorkflow
  <1>4. /\ (Own \cup After) \cap (Over \cup {"none", "ignored"}) = {}
        /\ setup.action = "personalization" => "FinalizePersonalization" \in Own
    BY Regions, Tables DEF Own
  <1>5. c.status = "ok" => Idle(mm, Own) /\ (setup.action = "personalization" => NoFinalized(mm.events))
    BY <1>4, IdleParts DEF Forward
  <1> HIDE DEF to, d
  <1>6. CASE to = "ignored"
    <2>1. m' = mm /\ d = c
      BY <1>6, <1>1, <1>2
    <2>2. QuietStart(mm, c)
      BY DEF Ready, QuietStart, Unnoticed
    <2>3. c.status = "ok" => ~c.cancelled /\ InStep(mm)
      <3> SUFFICES ASSUME c.status = "ok" PROVE ~c.cancelled /\ InStep(mm)
        OBVIOUS
      <3>1. Idle(mm, Own) /\ Idle(mm, Own \ {mm.cur}) /\ Single(mm, Own)
        BY <1>5, IdleParts
      <3> QED BY <3>1 DEF InStep, Forward
    <2>4. c.status = "ok" => Proven(mm, c, chip)
      <3> SUFFICES ASSUME c.status = "ok" PROVE Proven(mm, c, chip)
        OBVIOUS
      <3>1. mm.cur = st /\ (sig = "response" => st \in Senders)
        BY DEF Forward
      <3>2. sig # "response"
        BY <3>1, <1>6, ResponseLeads DEF to
      <3>3. /\ mm.cur \in Confirmed => c.paos = "ok"
            /\ setup.action = "selfAuth" /\ mm.cur \in WithData => c.data
            /\ setup.action = "personalization" =>
                   /\ mm.cur \in Personalized => chip = "personalized"
                   /\ mm.cur # "ClearNewPin"
        BY <3>1, <3>2 DEF Forward
      <3>4. setup.action = "personalization" => NoFinalized(mm.events)
        BY <1>5
      <3> QED BY <3>3, <3>4 DEF Proven, NoFinalized
    <2>5. AllWell(mm, c, chip) /\ OneApplet(mm)
      BY <2>3, <2>4 DEF AllWell, OneApplet, Ready
    <2> QED BY <2>1, <2>2, <2>5 DEF Ready, Good, d
  <1>7. CASE to # "ignored"
    <2>1. /\ Leads(mm.cur, st, sig, to)
          /\ mm.cur = st /\ sig \notin Aborts => LeadsWell(mm.cur, sig, to)
          /\ Sound(m') /\ m'.cur = to
          /\ to \in PrepareApplet \cup {"CheckRefreshAddress"} \cup Paces => m'.approved
          /\ NoFinalized(mm.events) => NoFinalized(m'.events)
          /\ Gives(m', mm, to)
          /\ ~m'.approved \/ to \in Paces => Calmer(m', mm)
      BY <1>1, <1>7
    <2>2. mm.cur \in Own /\ to \in Own \cup {"stopped"}
      BY <2>1 DEF Leads
    <2>3. to # "none" /\ to # "crashed" /\ to # "CheckStatus" /\ mm.cur \notin Over \cup {"none"}
      BY <2>1, <2>2, <1>4 DEF Over, Leads
    <2>4. QuietStart(m', d) /\ Prompt(m')
      BY <1>2, <2>1, <2>3 DEF Ready, QuietStart, Unnoticed, Prompt
    <2>5. CheckedOnce(m', d)
      <3> DEFINE S == {"CheckRefreshAddress"}
      <3>0. CheckedOnce(mm, c)
        BY DEF Ready
      <3>1. CASE to = "CheckRefreshAddress"
        <4>1. Before(mm)
          BY <2>1, <2>3, <3>1 DEF Leads, Before
        <4>2. Idle(mm, S) /\ c.refresh \notin Urls
          BY <4>1, <3>0 DEF CheckedOnce
        <4>3. Single(m', S)
          BY <4>2, <2>1 DEF Gives
        <4>4. d.refresh \notin Urls /\ ~Before(m')
          BY <4>2, <1>2, <2>1, <3>1 DEF Before
        <4> QED BY <4>3, <4>4 DEF CheckedOnce
      <3>2. CASE to # "CheckRefreshAddress"
        <4>1. Before(m') => Before(mm)
          BY <2>1, <2>3 DEF Leads, Before, Over
        <4>2. /\ Single(mm, S) => Single(m', S)
              /\ Idle(mm, S) => Idle(m', S)
          BY <2>1, <3>2 DEF Gives
        <4> QED BY <4>1, <4>2, <3>0, <1>2 DEF CheckedOnce
      <3> QED BY <3>1, <3>2
    <2>6. OneApplet(m')
      <3>1. CASE to \in PrepareApplet
        <4>1. st \in PrepareApplet => Idle(mm, PrepareApplet)
          BY <2>1, <3>1 DEF Leads, Ready
        <4>2. Idle(mm, PrepareApplet)
          <5>1. mm.cur = st /\ (st \in PrepareApplet \/ st = "CheckStatus")
            BY <2>1, <3>1 DEF Leads
          <5>2. st = "CheckStatus" => PrepareApplet \ {mm.cur} = PrepareApplet
            BY <5>1, Tables
          <5> QED BY <4>1, <5>1, <5>2 DEF Ready
        <4>3. Single(m', PrepareApplet)
          BY <2>1, <4>2 DEF Gives
        <4>4. /\ Idle(mm, PrepareApplet \ {to}) /\ Idle(mm, Uninterruptible \ {to})
          BY <4>2, IdleParts DEF Uninterruptible
        <4>5. /\ Idle(m', PrepareApplet \ {to}) /\ Idle(m', Uninterruptible \ {to})
          BY <2>1, <4>4 DEF Gives
        <4> QED BY <2>1, <4>3, <4>5 DEF OneApplet
      <3>2. CASE to \notin PrepareApplet
        <4>1. Single(m', PrepareApplet)
          BY <2>1, <3>2 DEF Gives, Ready
        <4>2. Idle(mm, Uninterruptible)
          <5>1. CASE mm.cur \notin Uninterruptible
            <6>1. Uninterruptible \ {mm.cur} = Uninterruptible
              BY <5>1
            <6> QED BY <6>1, <2>3 DEF Ready, Over
          <5>2. CASE mm.cur \in Uninterruptible
            <6>1. st \in PrepareApplet /\ ~(mm.cur = st /\ st \notin Uninterruptible)
              BY <5>2, <2>1 DEF Leads, Uninterruptible
            <6>2. Idle(mm, PrepareApplet)
              BY <6>1 DEF Ready
            <6> QED BY <6>2, IdleParts DEF Uninterruptible
          <5> QED BY <5>1, <5>2
        <4>3. Idle(m', Uninterruptible)
          BY <2>1, <3>2, <4>2 DEF Gives, Uninterruptible
        <4>4. Uninterruptible \ {to} = Uninterruptible
          BY <3>2 DEF Uninterruptible
        <4> QED BY <2>1, <2>3, <3>2, <4>1, <4>3, <4>4 DEF OneApplet
      <3> QED BY <3>1, <3>2
    <2>7. c.status = "ok" => InStep(m') /\ (to \in Confirmed => c.paos = "ok")
      <3> SUFFICES ASSUME c.status = "ok"
                   PROVE  InStep(m') /\ (to \in Confirmed => c.paos = "ok")
        OBVIOUS
      <3>1. Idle(mm, Own) /\ Idle(mm, Own \ {to})
        BY <1>5, IdleParts
      <3>2. Single(m', Own) /\ Idle(m', Own \ {to})
        BY <2>1, <3>1 DEF Gives
      <3>3. ~m'.approved \/ to \in Paces => Idle(m', Own)
        BY <2>1, <3>1 DEF Calmer
      <3>4. to \in Confirmed => c.paos = "ok"
        BY <2>1 DEF Forward, LeadsWell
      <3> QED BY <2>1, <3>2, <3>3, <3>4 DEF InStep
    <2>8. AllWell(m', d, chip)
      <3> SUFFICES ASSUME c.status = "ok"
                   PROVE  ~d.cancelled /\ InStep(m') /\ Proven(m', d, chip)
        BY <1>2 DEF AllWell
      <3>1. mm.cur = st /\ LeadsWell(mm.cur, sig, to)
        BY <2>1 DEF Forward
      <3>2. setup.action = "selfAuth" /\ to \in WithData => c.data
        BY <3>1 DEF Forward, LeadsWell
      <3>3. setup.action = "personalization" =>
                /\ to \in Personalized => chip = "personalized"
                /\ to # "ClearNewPin"
        BY <3>1 DEF Forward, LeadsWell
      <3>4. setup.action = "personalization" => NoFinalized(m'.events)
        BY <1>5, <2>1
      <3>5. Proven(m', d, chip)
        BY <3>2, <3>3, <3>4, <2>1, <2>7, <1>2 DEF Proven, NoFinalized
      <3> QED BY <2>7, <3>5, <1>2 DEF Forward
    <2>9. Decided(m', d)
      <3> SUFFICES ASSUME d.result = "ok"
                   PROVE  /\ d.paos = "ok" /\ setup.action = "auth"
                          /\ to \in {"RedirectBrowser", "Final", "stopped"}
                          /\ Idle(m', Own \ {"RedirectBrowser", "Final"})
        BY <2>1 DEF Decided
      <3>1. CASE c.result = "ok"
        <4>1. /\ c.paos = "ok" /\ setup.action = "auth"
              /\ mm.cur \in {"RedirectBrowser", "Final", "stopped"}
              /\ Idle(mm, Own \ {"RedirectBrowser", "Final"})
          BY <3>1 DEF Ready, Decided
        <4>2. to \in {"Final", "stopped"}
          BY <4>1, <2>1, <2>3 DEF Leads, Over
        <4>3. to \notin Own \ {"RedirectBrowser", "Final"}
          BY <4>2, <1>4 DEF Over
        <4>4. Idle(m', Own \ {"RedirectBrowser", "Final"})
          BY <4>1, <4>3, <2>1 DEF Gives
        <4> QED BY <4>1, <4>2, <4>4, <1>2
      <3>2. CASE c.result # "ok"
        <4>1. c.status = "ok" /\ to = "RedirectBrowser"
          BY <3>2, <1>2
        <4>2. setup.action = "auth" /\ "RedirectBrowser" \in Confirmed
          BY <4>1, <2>1, Tables DEF Leads, Confirmed
        <4>3. c.paos = "ok" /\ Idle(m', Own \ {to})
          BY <4>1, <4>2, <2>1, <2>7 DEF InStep
        <4>4. Idle(m', Own \ {"RedirectBrowser", "Final"})
          BY <4>1, <4>3, IdleParts
        <4> QED BY <4>1, <4>2, <4>3, <4>4, <1>2
      <3> QED BY <3>1, <3>2
    <2> QED BY <1>2, <2>1, <2>4, <2>5, <2>6, <2>8, <2>9 DEF Good, Ready, d
  <1> QED BY <1>6, <1>7

(* An emission leaves the machine one that learnt of its cancellation, the *)
(* result and the refresh address as they were.                            *)
LEMMA EmitRest ==
    ASSUME setup \in Setups, NEW mm, NEW c, NEW st \in Own, NEW sig,
           Ready(mm, c, st, sig), Emit(mm, c, st, sig)
    PROVE  /\ ~Unnoticed(m', ctx')
           /\ m'.open \subseteq mm.open
           /\ c.result = "ok" => ctx'.result = "ok"
           /\ ctx'.refresh \in Urls => ctx'.refresh = c.refresh
  <1> DEFINE to == Target(mm.cur, st, sig)
             d  == ctx'
  <1>0. Sound(mm) /\ c \in Contexts /\ (c.cancelled => c.inState)
    BY DEF Ready
  <1>1. /\ d = (IF to = "RedirectBrowser" THEN WithResult(c) ELSE c)
        /\ to = "ignored" => m' = mm
        /\ to # "ignored" => /\ Leads(mm.cur, st, sig, to)
                             /\ m'.cur = to /\ m'.open \subseteq mm.open
    BY <1>0, EmitFacts
  <1>2. /\ d.cancelled = c.cancelled /\ d.inState = c.inState
        /\ d.refresh \in Urls => d.refresh = c.refresh
        /\ to # "RedirectBrowser" => d = c
    BY <1>0, <1>1, WithResultFacts
  <1>3. "none" \notin Own
    BY Regions
  <1> HIDE DEF to, d
  <1>4. m'.cur # "none" /\ m'.open \subseteq mm.open
    <2>1. CASE to = "ignored"
      BY <1>1, <2>1 DEF Ready
    <2>2. CASE to # "ignored"
      BY <1>1, <1>3, <2>2 DEF Leads
    <2> QED BY <2>1, <2>2
  <1>5. ~Unnoticed(m', d)
    BY <1>0, <1>2, <1>4 DEF Unnoticed
  <1>6. ASSUME c.result = "ok" PROVE d.result = "ok"
    <2>1. mm.cur \in {"RedirectBrowser", "Final", "stopped"} /\ setup.action = "auth"
      BY <1>6 DEF Ready, Decided
    <2>2. to # "RedirectBrowser"
      <3> SUFFICES ASSUME to = "RedirectBrowser" PROVE FALSE
        OBVIOUS
      <3>1. (mm.cur \in Own /\ to \in {"Final", "stopped"}) \/ mm.cur \notin {"RedirectBrowser", "Final"}
        BY <1>1, <2>1 DEF Leads
      <3>2. mm.cur \in Own /\ "stopped" \notin Own
        BY <1>1, Regions DEF Leads, Over
      <3> QED BY <2>1, <3>1, <3>2
    <2> QED BY <1>2, <1>6, <2>2
  <1> QED BY <1>2, <1>4, <1>5, <1>6 DEF d

-----------------------------------------------------------------------------
(* The parts of the invariant that hold of any machine no busier than one  *)
(* that has them.                                                          *)

Core(mm, c) ==
    /\ Sound(mm) /\ c \in Contexts
    /\ c.killed => c.cancelled
    /\ c.inState => c.status # "ok"
    /\ Prompt(mm) /\ CheckedOnce(mm, c) /\ OneApplet(mm) /\ Decided(mm, c)

(* A handler changes the context to c: what is decided stays, and once     *)
(* something went wrong nothing makes up for it.                           *)
Like(c, d) ==
    /\ c \in Contexts
    /\ c.killed = d.killed /\ c.cancelled = d.cancelled /\ c.inState = d.inState
    /\ c.refresh = d.refresh /\ c.result = d.result /\ c.paos = d.paos
    /\ c.status = "ok" => d.status = "ok"
    /\ d.data => c.data

LEMMA CoreReady ==
    ASSUME NEW mm, NEW c, NEW st, NEW sig,
           Core(mm, c), mm.cur # "none", c.cancelled => c.inState,
           st \in PrepareApplet => \/ Idle(mm, PrepareApplet)
                                   \/ mm.cur = st /\ st \notin Uninterruptible /\ sig = "abort"
    PROVE  Ready(mm, c, st, sig)
  BY DEF Core, Ready, OneApplet

LEMMA CoreCalm ==
    ASSUME NEW mm, NEW d, NEW n, NEW c, Core(mm, d),
           Sound(n), n.cur = mm.cur, n.approved = mm.approved, Calmer(n, mm),
           c \in Contexts, c.killed => c.cancelled, c.inState => c.status # "ok",
           c.refresh = d.refresh, c.result = d.result, c.paos = d.paos
    PROVE  Core(n, c)
  <1>1. Prompt(n)
    BY DEF Core, Prompt
  <1>2. CheckedOnce(n, c)
    BY DEF Core, CheckedOnce, Before, Calmer
  <1>3. OneApplet(n)
    BY DEF Core, OneApplet, Calmer
  <1>4. Decided(n, c)
    BY DEF Core, Decided, Calmer
  <1> QED BY <1>1, <1>2, <1>3, <1>4 DEF Core

LEMMA CalmGood ==
    ASSUME NEW mm, NEW d, NEW n, NEW c, NEW chip, NEW other,
           Good(mm, d, chip), ~Unnoticed(mm, d),
           Sound(n), n.cur = mm.cur, n.approved = mm.approved, Calmer(n, mm),
           Like(c, d),
           c.status = "ok" /\ mm.cur # "crashed" /\ setup.action = "personalization" =>
               /\ mm.cur \in Personalized => other = "personalized"
               /\ \A i \in 1..Len(n.events) : Finalized(n.events[i]) => other = "personalized"
    PROVE  Good(n, c, other) /\ ~Unnoticed(n, c)
  <1>1. Core(n, c)
    <2>1. Core(mm, d)
      BY DEF Good, Core
    <2>2. /\ c \in Contexts /\ (c.killed => c.cancelled) /\ (c.inState => c.status # "ok")
          /\ c.refresh = d.refresh /\ c.result = d.result /\ c.paos = d.paos
      BY DEF Good, Like
    <2> QED BY <2>1, <2>2, CoreCalm
  <1>2. ~Unnoticed(n, c)
    BY DEF Unnoticed, Like
  <1>3. AllWell(n, c, other)
    <2> SUFFICES ASSUME c.status = "ok", n.cur # "crashed"
                 PROVE  ~c.cancelled /\ InStep(n) /\ Proven(n, c, other)
      BY DEF AllWell
    <2>1. ~d.cancelled /\ InStep(mm) /\ Proven(mm, d, chip)
      BY DEF Good, AllWell, Like
    <2>2. InStep(n)
      BY <2>1 DEF InStep, Calmer
    <2>3. Proven(n, c, other)
      BY <2>1 DEF Proven, Like
    <2> QED BY <2>1, <2>2, <2>3 DEF Like
  <1> QED BY <1>1, <1>2, <1>3 DEF Core, Good, QuietStart

(* The process ends in a crash. *)
LEMMA CrashGood ==
    ASSUME setup \in Setups, NEW mm, NEW c, NEW chip, NEW n, NEW other,
           Good(mm, c, chip), ~Unnoticed(mm, c), c.result # "ok",
           Sound(n), n.cur = "crashed", Calmer(n, mm)
    PROVE  Good(n, c, other) /\ ~Unnoticed(n, c)
  <1>0. "crashed" \notin PrepareApplet \cup Paces
    BY Tables DEF Paces
  <1>1. ~Unnoticed(n, c)
    BY DEF Unnoticed
  <1>2. CheckedOnce(n, c)
    BY DEF Good, CheckedOnce, Before, Over, Calmer
  <1>3. OneApplet(n) /\ Prompt(n)
    BY <1>0 DEF Good, OneApplet, Prompt, Calmer
  <1>4. AllWell(n, c, other) /\ Decided(n, c)
    BY DEF AllWell, Decided
  <1> QED BY <1>1, <1>2, <1>3, <1>4 DEF Good, QuietStart

(* A cancelled workflow that stays where it is. *)
LEMMA StayGood ==
    ASSUME NEW mm, NEW c, NEW chip, Core(mm, c), mm.cur # "none", c.cancelled => c.inState,
           c.status # "ok"
    PROVE  Good(mm, c, chip) /\ ~Unnoticed(mm, c)
  BY DEF Core, Good, QuietStart, Unnoticed, AllWell

-----------------------------------------------------------------------------
(* The invariant after a step. *)

LEMMA Parts ==
    IInv <=> /\ setup \in Setups /\ net \in Nets /\ card \in Cards /\ smart \in Smarts
             /\ faults \in 0..setup.maxFaults
             /\ Good(m, ctx, smart.chip)
             /\ Unnoticed(m, ctx) => ~card.present
             /\ Addressed(m, net.url) /\ Told /\ RefreshIsVerified
  BY TypeParts DEF IInv, Good, Sound

LEMMA SameSetup ==
    ASSUME setup' = setup
    PROVE  /\ Own' = Own /\ After' = After /\ Confirmed' = Confirmed /\ First' = First
           /\ Nets' = Nets /\ Contexts' = Contexts
  BY DEF Own, After, Confirmed, First, Nets, Contexts

LEMMA Primed ==
    ASSUME setup' = setup, setup \in Setups, net' \in Nets, card' \in Cards, smart' \in Smarts,
           faults' \in 0..setup.maxFaults,
           Good(m', ctx', smart'.chip),
           Unnoticed(m', ctx') => ~card'.present,
           Addressed(m', net'.url),
           net'.browser = "ok" => ctx'.result = "ok",
           ctx'.refresh \in Urls => ctx'.refresh \in net'.verified
    PROVE  IInv'
  <1>1. /\ Sound(m)' <=> Sound(m')
        /\ QuietStart(m, ctx)' <=> QuietStart(m', ctx')
        /\ CheckedOnce(m, ctx)' <=> CheckedOnce(m', ctx')
        /\ AllWell(m, ctx, smart.chip)' <=> AllWell(m', ctx', smart'.chip)
        /\ Decided(m, ctx)' <=> Decided(m', ctx')
    BY SameSetup DEF Sound, OfWorkflow, QuietStart, Unnoticed, CheckedOnce, Before, AllWell, InStep,
                     Proven, Decided
  <1>2. Good(m, ctx, smart.chip)'
    BY <1>1, SameSetup DEF Good, Prompt, OneApplet
  <1>3. TypeOK'
    BY DEF TypeOK, Good, Sound, Machines, Commands, Contexts, Nets, Cards, Smarts
  <1>4. /\ OfWorkflow(m)' /\ (ctx.killed => ctx.cancelled)' /\ (ctx.inState => ctx.status # "ok")'
        /\ QuietStart(m, ctx)' /\ Prompt(m)' /\ CheckedOnce(m, ctx)' /\ OneApplet(m)'
        /\ AllWell(m, ctx, smart.chip)' /\ Decided(m, ctx)'
    BY <1>2 DEF Good, Sound
  <1>5. /\ (Unnoticed(m, ctx) => ~card.present)' /\ Addressed(m, net.url)'
        /\ Told' /\ RefreshIsVerified'
    BY DEF Unnoticed, Addressed, Told, RefreshIsVerified
  <1> QED BY <1>3, <1>4, <1>5 DEF IInv

(* A step that leaves the server, the provider, the card and the chip as   *)
(* they are, or changes them where nothing depends on it.                  *)
Moved ==
    /\ Good(m', ctx', smart.chip) /\ ~Unnoticed(m', ctx')
    /\ "CheckRefreshAddress" \in m'.open => "CheckRefreshAddress" \in m.open
    /\ ctx.result = "ok" => ctx'.result = "ok"
    /\ ctx'.refresh \in Urls => ctx'.refresh = ctx.refresh
Aside ==
    /\ setup' = setup
    /\ net' \in Nets /\ net'.url = net.url /\ net'.verified = net.verified
    /\ net'.browser = "ok" => net.browser = "ok" \/ ctx.result = "ok"
    /\ card' \in Cards
    /\ smart' \in Smarts /\ smart'.chip = smart.chip
    /\ faults' \in 0..setup.maxFaults

LEMMA Closing ==
    ASSUME IInv, Moved, Aside
    PROVE  IInv'
  <1>1. Addressed(m', net'.url)
    BY Parts DEF Moved, Aside, Addressed
  <1>2. ctx'.refresh \in Urls => ctx'.refresh \in net'.verified
    BY Parts DEF Moved, Aside, RefreshIsVerified
  <1>3. net'.browser = "ok" => ctx'.result = "ok"
    BY Parts DEF Moved, Aside, Told
  <1> QED BY <1>1, <1>2, <1>3, Parts, Primed DEF Moved, Aside

LEMMA Outsiders ==
    ASSUME IInv, UNCHANGED Outside
    PROVE  Aside
  BY Parts DEF Outside, Aside

LEMMA EmitMoves ==
    ASSUME setup \in Setups, NEW mm, NEW c, NEW st \in Own, NEW sig,
           Ready(mm, c, st, sig), Forward(mm, c, st, sig, smart.chip), Emit(mm, c, st, sig),
           mm.open \subseteq m.open, c.result = ctx.result, c.refresh = ctx.refresh
    PROVE  Moved
  <1>1. Good(m', ctx', smart.chip)
    BY EmitGood
  <1>2. /\ ~Unnoticed(m', ctx') /\ m'.open \subseteq mm.open
        /\ c.result = "ok" => ctx'.result = "ok"
        /\ ctx'.refresh \in Urls => ctx'.refresh = c.refresh
    BY EmitRest
  <1> QED BY <1>1, <1>2 DEF Moved

(* What st was busy with is taken up: by then the workflow knows of its    *)
(* cancellation, and unless something went wrong st is the current state.  *)
LEMMA Taken ==
    ASSUME setup \in Setups, NEW mm, NEW st \in Own, NEW chip,
           Good(m, ctx, chip), Takes(mm, m, st)
    PROVE  /\ ~Unnoticed(m, ctx) /\ Calmer(mm, m)
           /\ st \in PrepareApplet => Idle(mm, PrepareApplet)
           /\ ctx.status = "ok" /\ m.cur # "crashed" =>
                  st = m.cur /\ Idle(mm, Own) /\ (m.approved /\ m.cur \notin Paces)
           /\ ctx.result = "ok" => st \in {"RedirectBrowser", "Final"}
           /\ st = "CheckRefreshAddress" => ctx.refresh \notin Urls /\ ~Before(m)
  <1>0. Calmer(mm, m) /\ \A S : st \in S => ~Idle(m, S) /\ (Single(m, S) => Idle(mm, S))
    BY DEF Takes
  <1>1. ~Unnoticed(m, ctx)
    <2> SUFFICES ASSUME Unnoticed(m, ctx) PROVE FALSE
      OBVIOUS
    <2>1. /\ m.open = {} /\ m.cmds = <<>>
          /\ m.events = <<>> \/ m.events = <<Cancel(First)>>
      BY DEF Good, QuietStart
    <2>2. \A i \in 1..Len(m.events) : m.events[i] = Cancel(First)
      BY <2>1
    <2>3. NoEvent(m.events, Own)
      BY <2>2 DEF NoEvent, Busy, Cancel
    <2>4. Idle(m, Own)
      BY <2>1, <2>3 DEF Idle, NoCommand
    <2> QED BY <2>4, <1>0
  <1>2. st \in PrepareApplet => Idle(mm, PrepareApplet)
    BY <1>0 DEF Good, OneApplet
  <1>3. ASSUME ctx.status = "ok", m.cur # "crashed"
        PROVE  st = m.cur /\ Idle(mm, Own) /\ (m.approved /\ m.cur \notin Paces)
    <2>1. InStep(m)
      BY <1>3 DEF Good, AllWell
    <2>2. st = m.cur
      BY <1>0, <2>1 DEF InStep
    <2> QED BY <1>0, <2>1, <2>2 DEF InStep
  <1>4. ctx.result = "ok" => st \in {"RedirectBrowser", "Final"}
    BY <1>0 DEF Good, Decided
  <1>5. st = "CheckRefreshAddress" => ctx.refresh \notin Urls /\ ~Before(m)
    <2>1. st \in {"CheckRefreshAddress"} => ~Idle(m, {"CheckRefreshAddress"})
      BY <1>0
    <2> QED BY <2>1 DEF Good, CheckedOnce
  <1> QED BY <1>0, <1>1, <1>2, <1>3, <1>4, <1>5

(* A handler of st means well if its signal aborts only after an error and *)
(* what it confirms is so.                                                 *)
WellMeant(st, sig, c) ==
    c.status = "ok" =>
        /\ sig \notin Aborts \cup {"response"}
        /\ st \in {"StartPaosResponse", "StartPaosPersonalizationResponse"} => c.paos = "ok"
        /\ setup.action = "selfAuth" /\ st = "GetData" => c.data
        /\ setup.action = "personalization" /\ st = "FinalizePersonalization" =>
               smart.chip = "personalized"

LEMMA HandlerMoves ==
    ASSUME IInv, m.cur # "crashed", ~Unnoticed(m, ctx),
           NEW mm, Sound(mm), mm.cur = m.cur, mm.approved = m.approved, mm.open \subseteq m.open,
           Calmer(mm, m),
           NEW st \in Own, st \in PrepareApplet => Idle(mm, PrepareApplet),
           ctx.status = "ok" => st = m.cur /\ Idle(mm, Own),
           NEW c, Like(c, ctx), NEW sig, WellMeant(st, sig, c), Emit(mm, c, st, sig)
    PROVE  Moved
  <1>0. setup \in Setups /\ Good(m, ctx, smart.chip)
    BY Parts
  <1>1. Core(mm, c)
    <2>1. Core(m, ctx)
      BY <1>0 DEF Good, Core
    <2>2. /\ c \in Contexts /\ (c.killed => c.cancelled) /\ (c.inState => c.status # "ok")
          /\ c.refresh = ctx.refresh /\ c.result = ctx.result /\ c.paos = ctx.paos
      BY <1>0 DEF Good, Like
    <2> QED BY <2>1, <2>2, CoreCalm
  <1>2. m.cur # "none" /\ (c.cancelled => c.inState)
    BY DEF Unnoticed, Like
  <1>3. Ready(mm, c, st, sig)
    BY <1>1, <1>2, CoreReady
  <1>4. Forward(mm, c, st, sig, smart.chip)
    <2> SUFFICES ASSUME c.status = "ok" PROVE Forward(mm, c, st, sig, smart.chip)
      BY DEF Forward
    <2>1. ctx.status = "ok" /\ mm.cur = st /\ Idle(mm, Own)
      BY DEF Like
    <2>2. ~ctx.cancelled /\ Proven(m, ctx, smart.chip)
      BY <1>0, <2>1 DEF Good, AllWell
    <2>3. /\ st \in Confirmed => c.paos = "ok"
          /\ setup.action = "selfAuth" /\ st \in WithData => c.data
          /\ setup.action = "personalization" =>
                 st # "ClearNewPin" /\ (st \in Personalized => smart.chip = "personalized")
      BY <2>1, <2>2 DEF Proven, Like
    <2> QED BY <2>1, <2>2, <2>3 DEF Forward, WellMeant, Like
  <1> QED BY <1>0, <1>3, <1>4, EmitMoves DEF Like

-----------------------------------------------------------------------------
(* The steps of the handlers, by their form. *)

LEMMA Likes ==
    ASSUME NEW d \in Contexts
    PROVE  /\ Like(d, d)
           /\ \A c : Like(c, d) => Like(Failed(c), d) /\ Failed(c).status # "ok"
           /\ Like(UpdateStatus(d, "error"), d) /\ UpdateStatus(d, "error").status # "ok"
           /\ Like(OnAbort(d), d) /\ OnAbort(d).status = d.status
           /\ \A p \in BOOLEAN : Like([d EXCEPT !.passwords = p], d)
           /\ \A p \in BOOLEAN : Like([d EXCEPT !.reported = p], d)
           /\ \A t \in {"plain", "errorAddress"} : Like([d EXCEPT !.token = t], d)
           /\ Like([d EXCEPT !.paosResult = "error"], d)
           /\ Like([d EXCEPT !.data = TRUE], d) /\ [d EXCEPT !.data = TRUE].data
  <1>1. Like(d, d) /\ Like(OnAbort(d), d) /\ OnAbort(d).status = d.status
    BY DEF Like, OnAbort, Contexts
  <1>2. \A c : Like(c, d) => Like(Failed(c), d) /\ Failed(c).status # "ok"
    <2> SUFFICES ASSUME NEW c, Like(c, d) PROVE Like(Failed(c), d) /\ Failed(c).status # "ok"
      OBVIOUS
    <2> DEFINE u == UpdateStatus(c, "error")
    <2>1. Like(u, d) /\ u.status # "ok"
      BY DEF Like, UpdateStatus, Contexts
    <2>2. Failed(c) = OnAbort(u)
      BY DEF Failed
    <2> HIDE DEF u
    <2>3. u \in Contexts
      BY <2>1 DEF Like
    <2>4. /\ OnAbort(u) \in Contexts /\ OnAbort(u).killed = u.killed
          /\ OnAbort(u).cancelled = u.cancelled /\ OnAbort(u).inState = u.inState
          /\ OnAbort(u).status = u.status /\ OnAbort(u).refresh = u.refresh
          /\ OnAbort(u).result = u.result /\ OnAbort(u).paos = u.paos
          /\ OnAbort(u).data = u.data
      BY <2>3 DEF OnAbort, Contexts
    <2> HIDE DEF OnAbort
    <2> QED BY <2>1, <2>2, <2>4 DEF Like
  <1>3. Like(UpdateStatus(d, "error"), d) /\ UpdateStatus(d, "error").status # "ok"
    BY DEF Like, UpdateStatus, Contexts
  <1>4. /\ \A p \in BOOLEAN : Like([d EXCEPT !.passwords = p], d)
        /\ \A p \in BOOLEAN : Like([d EXCEPT !.reported = p], d)
        /\ \A t \in {"plain", "errorAddress"} : Like([d EXCEPT !.token = t], d)
    BY DEF Like, Contexts
  <1>5. /\ Like([d EXCEPT !.paosResult = "error"], d)
        /\ Like([d EXCEPT !.data = TRUE], d) /\ [d EXCEPT !.data = TRUE].data
    BY DEF Like, Contexts
  <1> QED BY <1>1, <1>2, <1>3, <1>4, <1>5

LEMMA EventTaken ==
    ASSUME IInv, NEW st, Runs(st) \/ Completes(st)
    PROVE  /\ setup \in Setups /\ Good(m, ctx, smart.chip) /\ ctx \in Contexts
           /\ m.cur # "crashed" /\ ~Unnoticed(m, ctx)
           /\ st \in Own /\ Event \in Events /\ Event.st = st
           /\ Sound(Rest) /\ Rest.cur = m.cur /\ Rest.approved = m.approved
           /\ Rest.open = m.open /\ Rest.cmds = m.cmds
           /\ Takes(Rest, m, st) /\ Calmer(Rest, m)
           /\ NoFinalized(m.events) => NoFinalized(Rest.events)
           /\ st \in PrepareApplet => Idle(Rest, PrepareApplet)
           /\ ctx.status = "ok" => st = m.cur /\ Idle(Rest, Own)
           /\ ctx.result = "ok" => st \in {"RedirectBrowser", "Final"}
           /\ st = "CheckRefreshAddress" => ctx.refresh \notin Urls /\ ~Before(m)
           /\ ctx.status = "ok" /\ setup.action = "personalization" /\ Finalized(Event) =>
                  smart.chip = "personalized"
  <1>1. /\ m.events # <<>> /\ m.cur \notin {"none", "crashed"}
        /\ Event.type \in {"run", "done"} /\ Event.st = st
    BY DEF Runs, Completes, Handles, Running
  <1>2. setup \in Setups /\ Good(m, ctx, smart.chip) /\ Sound(m) /\ ctx \in Contexts
    BY Parts DEF Good
  <1>3. /\ Sound(Rest) /\ Rest.cur = m.cur /\ Rest.approved = m.approved
        /\ Rest.open = m.open /\ Rest.cmds = m.cmds
        /\ Event \in Events /\ st \in Own /\ Takes(Rest, m, st)
        /\ NoFinalized(m.events) => NoFinalized(Rest.events) /\ ~Finalized(Event)
    BY <1>1, <1>2, TakeEvent
  <1>4. /\ ~Unnoticed(m, ctx) /\ Calmer(Rest, m)
        /\ st \in PrepareApplet => Idle(Rest, PrepareApplet)
        /\ ctx.status = "ok" => st = m.cur /\ Idle(Rest, Own)
        /\ ctx.result = "ok" => st \in {"RedirectBrowser", "Final"}
        /\ st = "CheckRefreshAddress" => ctx.refresh \notin Urls /\ ~Before(m)
    BY <1>1, <1>2, <1>3, Taken
  <1>5. ctx.status = "ok" /\ setup.action = "personalization" /\ Finalized(Event) =>
            smart.chip = "personalized"
    BY <1>1, <1>2, <1>3 DEF Good, AllWell, Proven, NoFinalized
  <1> QED BY <1>1, <1>2, <1>3, <1>4, <1>5

LEMMA EventMoves ==
    ASSUME IInv, NEW st, Runs(st) \/ Completes(st),
           NEW c, Like(c, ctx), NEW sig, WellMeant(st, sig, c), Emit(Rest, c, st, sig)
    PROVE  Moved
  <1> HIDE DEF Rest
  <1> QED BY EventTaken, HandlerMoves

LEMMA ReplyTaken ==
    ASSUME IInv, NEW st \in m.open, Running
    PROVE  /\ setup \in Setups /\ Good(m, ctx, smart.chip) /\ ctx \in Contexts
           /\ m.cur # "crashed" /\ ~Unnoticed(m, ctx)
           /\ st \in Own /\ st \in Requesters
           /\ Sound(Replied(st)) /\ Replied(st).cur = m.cur /\ Replied(st).approved = m.approved
           /\ Replied(st).events = m.events /\ Replied(st).cmds = m.cmds
           /\ Replied(st).open = m.open \ {st}
           /\ Calmer(Replied(st), m)
           /\ st \in PrepareApplet => Idle(Replied(st), PrepareApplet)
           /\ ctx.status = "ok" => st = m.cur /\ Idle(Replied(st), Own)
           /\ ctx.result = "ok" => st \in {"RedirectBrowser", "Final"}
           /\ st = "CheckRefreshAddress" => /\ ctx.refresh \notin Urls /\ ~Before(m)
                                            /\ Idle(Replied(st), {"CheckRefreshAddress"})
  <1>1. setup \in Setups /\ Good(m, ctx, smart.chip) /\ Sound(m) /\ ctx \in Contexts
    BY Parts DEF Good
  <1>2. /\ Sound(Replied(st)) /\ Replied(st).cur = m.cur /\ Replied(st).approved = m.approved
        /\ Replied(st).events = m.events /\ Replied(st).cmds = m.cmds
        /\ Replied(st).open = m.open \ {st}
        /\ st \in Own /\ st \in Requesters /\ Takes(Replied(st), m, st)
    BY <1>1, TakeReply
  <1>3. m.cur # "crashed"
    BY DEF Running
  <1> HIDE DEF Replied
  <1>4. /\ ~Unnoticed(m, ctx) /\ Calmer(Replied(st), m)
        /\ st \in PrepareApplet => Idle(Replied(st), PrepareApplet)
        /\ ctx.status = "ok" => st = m.cur /\ Idle(Replied(st), Own)
        /\ ctx.result = "ok" => st \in {"RedirectBrowser", "Final"}
        /\ st = "CheckRefreshAddress" => ctx.refresh \notin Urls /\ ~Before(m)
    BY <1>1, <1>2, <1>3, Taken
  <1>5. st = "CheckRefreshAddress" => Idle(Replied(st), {"CheckRefreshAddress"})
    BY <1>1, <1>2 DEF Takes, Good, CheckedOnce
  <1> QED BY <1>1, <1>2, <1>3, <1>4, <1>5

LEMMA ReplyMoves ==
    ASSUME IInv, NEW st \in m.open, Running,
           NEW c, Like(c, ctx), NEW sig, WellMeant(st, sig, c), Emit(Replied(st), c, st, sig)
    PROVE  Moved
  <1> HIDE DEF Replied
  <1>1. Replied(st).open \subseteq m.open
    BY ReplyTaken
  <1> QED BY <1>1, ReplyTaken, HandlerMoves

(* No signal: the machine stays where it is, no busier than before. *)
LEMMA StayMoves ==
    ASSUME IInv, ~Unnoticed(m, ctx), NEW n, NEW c, m' = n, ctx' = c,
           Sound(n), n.cur = m.cur, n.approved = m.approved, Calmer(n, m),
           NoFinalized(m.events) => NoFinalized(n.events),
           "CheckRefreshAddress" \in n.open => "CheckRefreshAddress" \in m.open,
           Like(c, ctx)
    PROVE  Moved
  <1>1. Good(m, ctx, smart.chip)
    BY Parts
  <1>2. c.status = "ok" /\ m.cur # "crashed" /\ setup.action = "personalization" =>
            /\ m.cur \in Personalized => smart.chip = "personalized"
            /\ \A i \in 1..Len(n.events) : Finalized(n.events[i]) => smart.chip = "personalized"
    BY <1>1 DEF Good, AllWell, Proven, NoFinalized, Like
  <1>3. Good(n, c, smart.chip) /\ ~Unnoticed(n, c)
    BY <1>1, <1>2, CalmGood
  <1> QED BY <1>3 DEF Moved, Like

LEMMA CrashMoves ==
    ASSUME IInv, ~Unnoticed(m, ctx), ctx.result # "ok", UNCHANGED ctx,
           NEW n, m' = n, Sound(n), n.cur = "crashed", n.open \subseteq m.open, Calmer(n, m)
    PROVE  Moved
  <1>1. setup \in Setups /\ Good(m, ctx, smart.chip)
    BY Parts
  <1>2. Good(n, ctx, smart.chip) /\ ~Unnoticed(n, ctx)
    BY <1>1, CrashGood
  <1> QED BY <1>2 DEF Moved

LEMMA TakeAndGive ==
    ASSUME NEW n, NEW k, NEW mm, NEW st, Takes(k, mm, st), Gives(n, k, st)
    PROVE  Calmer(n, mm)
  BY DEF Takes, Gives, Calmer

LEMMA RequestMoves ==
    ASSUME IInv, NEW st \in Requesters, st # "CheckRefreshAddress", Runs(st),
           m' = Request(st), Like(ctx', ctx)
    PROVE  Moved
  <1> DEFINE mm == Rest
             n  == Request(st)
  <1>1. /\ ~Unnoticed(m, ctx) /\ st \in Own
        /\ Sound(mm) /\ mm.cur = m.cur /\ mm.approved = m.approved /\ mm.open = m.open
        /\ Takes(mm, m, st) /\ (NoFinalized(m.events) => NoFinalized(mm.events))
    <2> HIDE DEF Rest
    <2> QED BY EventTaken
  <1>2. n = [mm EXCEPT !.open = @ \cup {st}]
    BY DEF Request
  <1> HIDE DEF mm, n
  <1>3. /\ Sound(n) /\ n.cur = mm.cur /\ n.approved = mm.approved
        /\ n.events = mm.events /\ n.open = mm.open \cup {st}
        /\ Gives(n, mm, st)
    BY <1>1, <1>2, GiveRequest
  <1>4. Calmer(n, m)
    BY <1>1, <1>3, TakeAndGive
  <1>5. m' = n
    BY DEF n
  <1> QED BY <1>1, <1>3, <1>4, <1>5, StayMoves

LEMMA CommandMoves ==
    ASSUME IInv, NEW st \in CardStates \cup SmartStates, Runs(st),
           m' = SendCommand(st), UNCHANGED ctx
    PROVE  Moved
  <1> DEFINE mm  == Rest
             n   == SendCommand(st)
             cmd == [st |-> st, wired |-> TRUE]
  <1>1. /\ ~Unnoticed(m, ctx) /\ st \in Own /\ ctx \in Contexts
        /\ Sound(mm) /\ mm.cur = m.cur /\ mm.approved = m.approved /\ mm.open = m.open
        /\ Takes(mm, m, st) /\ (NoFinalized(m.events) => NoFinalized(mm.events))
    <2> HIDE DEF Rest
    <2> QED BY EventTaken
  <1>2. n = [mm EXCEPT !.cmds = Append(@, cmd)] /\ cmd \in Commands /\ cmd.st = st
    BY DEF SendCommand, Commands
  <1> HIDE DEF mm, n, cmd
  <1>3. /\ Sound(n) /\ n.cur = mm.cur /\ n.approved = mm.approved
        /\ n.events = mm.events /\ n.open = mm.open
        /\ Gives(n, mm, st)
    BY <1>1, <1>2, GiveCommand
  <1>4. Calmer(n, m)
    BY <1>1, <1>3, TakeAndGive
  <1>5. m' = n /\ ctx' = ctx /\ Like(ctx, ctx)
    BY <1>1, Likes DEF n
  <1> QED BY <1>1, <1>3, <1>4, <1>5, StayMoves

LEMMA CrashedFacts ==
    ASSUME NEW mm, Sound(mm), NEW n, n = [mm EXCEPT !.cur = "crashed"]
    PROVE  /\ Sound(n) /\ n.cur = "crashed" /\ n.open = mm.open /\ n.events = mm.events
           /\ Calmer(n, mm)
  <1>1. /\ n \in Machines /\ n.cur = "crashed" /\ n.approved = mm.approved /\ n.open = mm.open
        /\ n.events = mm.events /\ n.cmds = mm.cmds
    BY DEF Sound, Machines
  <1> QED BY <1>1 DEF Sound, OfWorkflow, Over, Calmer, Idle, Single

LEMMA CrashStep ==
    ASSUME IInv, NEW st, st \notin {"RedirectBrowser", "Final"}, Runs(st), Crash
    PROVE  Moved
  <1> DEFINE n == [m EXCEPT !.cur = "crashed"]
  <1>1. ~Unnoticed(m, ctx) /\ Sound(m) /\ ctx.result # "ok"
    BY EventTaken DEF Good
  <1>2. m' = n /\ ctx' = ctx
    BY DEF Crash
  <1> HIDE DEF n
  <1>3. Sound(n) /\ n.cur = "crashed" /\ n.open = m.open /\ Calmer(n, m)
    BY <1>1, CrashedFacts DEF n
  <1> QED BY <1>1, <1>2, <1>3, CrashMoves

(* Handlers of these states confirm something. *)
Careful == {"StartPaosResponse", "StartPaosPersonalizationResponse", "GetData",
            "FinalizePersonalization"}

LEMMA Meant ==
    ASSUME NEW st, NEW c
    PROVE  /\ c.status # "ok" => \A sig : WellMeant(st, sig, c)
           /\ st \notin Careful =>
                  \A sig : sig \notin {"abort", "propagateAbort", "response"} => WellMeant(st, sig, c)
           /\ c.paos = "ok" /\ st \notin Careful \ {"StartPaosResponse", "StartPaosPersonalizationResponse"} =>
                  WellMeant(st, "continue", c)
  BY DEF WellMeant, Careful, Aborts

LEMMA ContinuesStep ==
    ASSUME IInv, NEW st, st \notin Careful, Continues(st)
    PROVE  IInv'
  <1>1. Runs(st) /\ Emit(Rest, ctx, st, "continue") /\ UNCHANGED Outside
    BY DEF Continues
  <1>2. ctx \in Contexts
    BY Parts DEF Good
  <1>3. Moved
    BY <1>1, <1>2, Likes, Meant, EventMoves
  <1> QED BY <1>1, <1>3, Outsiders, Closing

LEMMA AbortsMoves ==
    ASSUME IInv, NEW st, Runs(st) \/ Completes(st), NEW c, Like(c, ctx),
           Emit(Rest, Failed(c), st, "abort")
    PROVE  Moved
  <1>1. ctx \in Contexts
    BY Parts DEF Good
  <1>2. Like(Failed(c), ctx) /\ WellMeant(st, "abort", Failed(c))
    BY <1>1, Likes, Meant
  <1> QED BY <1>2, EventMoves

LEMMA ChecksStep ==
    ASSUME IInv, NEW st, st \notin Careful, Checks(st)
    PROVE  IInv'
  <1>1. ctx \in Contexts
    BY Parts DEF Good
  <1>2. CASE Continues(st)
    BY <1>2, ContinuesStep
  <1>3. CASE Runs(st) /\ Emit(Rest, Failed(ctx), st, "abort") /\ UNCHANGED Outside
    <2>1. Moved
      BY <1>1, <1>3, Likes, AbortsMoves
    <2> QED BY <1>3, <2>1, Outsiders, Closing
  <1> QED BY <1>2, <1>3 DEF Checks

LEMMA ClearsStep ==
    ASSUME IInv, NEW st, st \notin Careful, Clears(st)
    PROVE  IInv'
  <1>1. ctx \in Contexts
    BY Parts DEF Good
  <1> DEFINE c == [ctx EXCEPT !.passwords = FALSE]
  <1>2. Runs(st) /\ Emit(Rest, c, st, "continue") /\ UNCHANGED Outside
    BY DEF Clears
  <1>3. Like(c, ctx)
    BY <1>1, Likes
  <1> HIDE DEF c
  <1>4. Moved
    BY <1>2, <1>3, Meant, EventMoves
  <1> QED BY <1>2, <1>4, Outsiders, Closing

LEMMA CleansUpStep ==
    ASSUME IInv, NEW st, st \notin Careful, CleansUp(st)
    PROVE  IInv'
  <1>1. ctx \in Contexts
    BY Parts DEF Good
  <1>2. Runs(st) /\ Emit(Rest, ctx, st, "continue")
    BY DEF CleansUp
  <1>3. Moved
    BY <1>1, <1>2, Likes, Meant, EventMoves
  <1>4. Aside
    BY Parts DEF CleansUp, Aside, Cards
  <1> QED BY <1>3, <1>4, Closing

LEMMA LooksAtResponseStep ==
    ASSUME IInv, NEW st \in {"StartPaosResponse", "StartPaosPersonalizationResponse"},
           LooksAtResponse(st)
    PROVE  IInv'
  <1>1. ctx \in Contexts /\ ctx.paos \in {"none", "ok", "error"}
    BY Parts DEF Good, Contexts
  <1>2. Runs(st) /\ UNCHANGED Outside
    BY DEF LooksAtResponse
  <1>3. Moved
    <2>1. CASE ctx.paos = "none"
      <3>1. Emit(Rest, Failed(ctx), st, "abort")
        BY <2>1 DEF LooksAtResponse
      <3> QED BY <1>1, <1>2, <3>1, Likes, AbortsMoves
    <2>2. CASE ctx.paos = "ok"
      <3>1. Emit(Rest, ctx, st, "continue")
        BY <2>2 DEF LooksAtResponse
      <3>2. WellMeant(st, "continue", ctx)
        BY <2>2, Meant
      <3> QED BY <1>1, <1>2, <3>1, <3>2, Likes, EventMoves
    <2>3. CASE ctx.paos = "error"
      <3> DEFINE c == [ctx EXCEPT !.paosResult = "error"]
      <3>1. Emit(Rest, Failed(c), st, "abort")
        BY <2>3 DEF LooksAtResponse
      <3>2. Like(c, ctx)
        BY <1>1, Likes
      <3> HIDE DEF c
      <3> QED BY <1>2, <3>1, <3>2, AbortsMoves
    <2> QED BY <1>1, <2>1, <2>2, <2>3
  <1> QED BY <1>2, <1>3, Outsiders, Closing

LEMMA GetsStep ==
    ASSUME IInv, NEW st \in Requesters, st # "CheckRefreshAddress", Gets(st)
    PROVE  IInv'
  <1>1. ctx \in Contexts
    BY Parts DEF Good
  <1>2. Runs(st) /\ m' = Request(st) /\ ctx' = ctx /\ UNCHANGED Outside
    BY DEF Gets, Outside
  <1>3. Moved
    BY <1>1, <1>2, Likes, RequestMoves
  <1> QED BY <1>2, <1>3, Outsiders, Closing

LEMMA CommandStates ==
    /\ CardStates = {"Eac1", "Eac2", "Transmit", "UpdateFinal", "ChangeSmartPin", "DestroyPace",
                     "DestroySmartPace"}
    /\ SmartStates = {"CheckApplet", "InstallApplet", "DeletePersonalization", "DeleteApplet",
                      "UpdateSupportInfo", "GetServiceInformation", "InitializePersonalization",
                      "TransmitPersonalization", "FinalizePersonalization"}
    /\ CardStates \cap SmartStates = {}
    /\ CardStates \cap Careful = {}
  BY Tables DEF CardStates, DestroyPaces, SmartStates, Careful

LEMMA CardCommandStep ==
    ASSUME IInv, NEW st \in CardStates, CardCommand(st)
    PROVE  IInv'
  <1>1. Runs(st) /\ UNCHANGED Outside
    BY DEF CardCommand
  <1>2. CASE card.conn /\ card.paceData
    <2>1. m' = SendCommand(st) /\ UNCHANGED ctx
      BY <1>2 DEF CardCommand
    <2> QED BY <1>1, <2>1, CommandMoves, Outsiders, Closing
  <1>3. CASE ~(card.conn /\ card.paceData)
    <2>1. Crash
      BY <1>3 DEF CardCommand
    <2>2. st \notin {"RedirectBrowser", "Final"}
      BY CommandStates
    <2> QED BY <1>1, <2>1, <2>2, CrashStep, Outsiders, Closing
  <1> QED BY <1>2, <1>3

LEMMA FinalCommandStep ==
    ASSUME IInv, NEW st \in CardStates, FinalCommand(st)
    PROVE  IInv'
  <1>1. Runs(st) /\ UNCHANGED Outside
    BY DEF FinalCommand
  <1>2. CASE card.conn
    <2>1. m' = SendCommand(st) /\ UNCHANGED ctx
      BY <1>2 DEF FinalCommand
    <2> QED BY <1>1, <2>1, CommandMoves, Outsiders, Closing
  <1>3. CASE ~card.conn
    <2>1. Continues(st)
      BY <1>1, <1>3 DEF FinalCommand, Continues
    <2> QED BY <2>1, CommandStates, ContinuesStep
  <1> QED BY <1>2, <1>3

LEMMA CommandDoneStep ==
    ASSUME IInv, NEW st \in CardStates, CommandDone(st)
    PROVE  IInv'
  <1>1. Completes(st) /\ UNCHANGED Outside /\ st \notin Careful
    BY CommandStates DEF CommandDone
  <1>2. ctx \in Contexts
    BY Parts DEF Good
  <1>3. CASE Event.code = "ok"
    <2>1. Emit(Rest, ctx, st, "continue")
      BY <1>3 DEF CommandDone
    <2> QED BY <1>1, <1>2, <2>1, Likes, Meant, EventMoves, Outsiders, Closing
  <1>4. CASE Event.code # "ok"
    <2>1. Emit(Rest, Failed(ctx), st, "abort")
      BY <1>4 DEF CommandDone
    <2> QED BY <1>1, <1>2, <2>1, Likes, AbortsMoves, Outsiders, Closing
  <1> QED BY <1>3, <1>4

LEMMA PaceDestroyedStep ==
    ASSUME IInv, NEW st \in CardStates, PaceDestroyed(st)
    PROVE  IInv'
  <1>1. Completes(st) /\ Emit(Rest, ctx, st, "continue") /\ UNCHANGED Outside /\ st \notin Careful
    BY CommandStates DEF PaceDestroyed
  <1>2. ctx \in Contexts
    BY Parts DEF Good
  <1> QED BY <1>1, <1>2, Likes, Meant, EventMoves, Outsiders, Closing

LEMMA SmartCommandStep ==
    ASSUME IInv, NEW st \in SmartStates, SmartCommand(st)
    PROVE  IInv'
  <1>1. Runs(st) /\ m' = SendCommand(st) /\ UNCHANGED ctx /\ UNCHANGED Outside
    BY DEF SmartCommand, Outside
  <1> QED BY <1>1, CommandMoves, Outsiders, Closing

LEMMA SmartDoneStep ==
    ASSUME IInv, NEW st \in SmartStates, st \notin Careful, SmartDone(st)
    PROVE  IInv'
  <1>1. Completes(st) /\ UNCHANGED Outside /\ Event.type = "done"
    BY DEF SmartDone, Completes, Handles
  <1>2. ctx \in Contexts /\ (ctx.inState => ctx.status # "ok") /\ Event \in Events /\ Event.st = st
    BY <1>1, Parts, EventTaken DEF Good
  <1>3. CASE st \in Uninterruptible /\ ctx.inState
    <2>1. Emit(Rest, OnAbort(ctx), st, "abort")
      BY <1>3 DEF SmartDone
    <2>2. Like(OnAbort(ctx), ctx) /\ WellMeant(st, "abort", OnAbort(ctx))
      BY <1>2, <1>3, Likes, Meant
    <2> QED BY <1>1, <2>1, <2>2, EventMoves, Outsiders, Closing
  <1>4. CASE ~(st \in Uninterruptible /\ ctx.inState) /\ Event.code = "abort"
    <2>1. Emit(Rest, Failed(ctx), st, "abort")
      BY <1>4 DEF SmartDone
    <2> QED BY <1>1, <1>2, <2>1, Likes, AbortsMoves, Outsiders, Closing
  <1>5. CASE ~(st \in Uninterruptible /\ ctx.inState) /\ Event.code # "abort"
    <2>1. Emit(Rest, ctx, st, Event.code)
      BY <1>5 DEF SmartDone
    <2>2. Event.code \notin {"abort", "propagateAbort", "response"}
      BY <1>1, <1>2, <1>5 DEF Events, Removed
    <2>3. WellMeant(st, Event.code, ctx)
      BY <2>2, Meant
    <2> QED BY <1>1, <1>2, <2>1, <2>3, Likes, EventMoves, Outsiders, Closing
  <1> QED BY <1>3, <1>4, <1>5

-----------------------------------------------------------------------------
(* The handlers that are none of these forms. *)

LEMMA ProcessCertificatesStep == IInv /\ RunProcessCertificates => IInv'
  <1> SUFFICES ASSUME IInv, RunProcessCertificates PROVE IInv'
    OBVIOUS
  <1>1. CASE Checks("ProcessCertificates")
    <2>1. "ProcessCertificates" \notin Careful
      BY DEF Careful
    <2> QED BY <1>1, <2>1, ChecksStep
  <1>2. CASE Runs("ProcessCertificates") /\ Crash /\ UNCHANGED Outside
    <2>1. "ProcessCertificates" \notin {"RedirectBrowser", "Final"}
      OBVIOUS
    <2> QED BY <1>2, <2>1, CrashStep, Outsiders, Closing
  <1> QED BY <1>1, <1>2 DEF RunProcessCertificates

LEMMA EacAdditionalStep == IInv /\ RunEacAdditional => IInv'
  <1> SUFFICES ASSUME IInv, RunEacAdditional PROVE IInv'
    OBVIOUS
  <1>1. PICK sig \in {"continue", "sendResponse"} : Emit(Rest, ctx, "EacAdditional", sig)
    BY DEF RunEacAdditional
  <1>2. Runs("EacAdditional") /\ UNCHANGED Outside /\ Like(ctx, ctx)
    BY Parts, Likes DEF RunEacAdditional, Good
  <1>3. "EacAdditional" \notin Careful /\ sig \notin {"abort", "propagateAbort", "response"}
    BY <1>1 DEF Careful
  <1>4. WellMeant("EacAdditional", sig, ctx)
    BY <1>3, Meant
  <1> QED BY <1>1, <1>2, <1>4, EventMoves, Outsiders, Closing

LEMMA CheckErrorStep == IInv /\ RunCheckError => IInv'
  <1> SUFFICES ASSUME IInv, RunCheckError PROVE IInv'
    OBVIOUS
  <1>1. Runs("CheckError") /\ UNCHANGED Outside /\ Like(ctx, ctx)
    BY Parts, Likes DEF RunCheckError, Good
  <1>2. CASE ctx.status = "ok"
    <2>1. Continues("CheckError") /\ "CheckError" \notin Careful
      BY <1>2 DEF RunCheckError, Continues, Careful
    <2> QED BY <2>1, ContinuesStep
  <1>3. CASE ctx.status # "ok"
    <2>1. Emit(Rest, ctx, "CheckError", "propagateAbort")
      BY <1>3 DEF RunCheckError
    <2>2. WellMeant("CheckError", "propagateAbort", ctx)
      BY <1>3, Meant
    <2> QED BY <1>1, <2>1, <2>2, EventMoves, Outsiders, Closing
  <1> QED BY <1>2, <1>3

LEMMA RedirectBrowserStep == IInv /\ RunRedirectBrowser => IInv'
  <1> SUFFICES ASSUME IInv, RunRedirectBrowser PROVE IInv'
    OBVIOUS
  <1>1. Runs("RedirectBrowser") /\ Like(ctx, ctx) /\ ctx \in Contexts
    BY Parts, Likes DEF RunRedirectBrowser, Good
  <1>2. CASE /\ net' = [net EXCEPT !.browser = ctx.result]
             /\ Emit(Rest, ctx, "RedirectBrowser", "continue")
    <2>1. "RedirectBrowser" \notin Careful
      BY DEF Careful
    <2>2. Moved
      BY <1>1, <1>2, <2>1, Meant, EventMoves
    <2>3. Aside
      BY <1>1, <1>2, Parts DEF RunRedirectBrowser, Aside, Nets, Contexts
    <2> QED BY <2>2, <2>3, Closing
  <1>3. CASE net' = net /\ Emit(Rest, Failed(ctx), "RedirectBrowser", "abort")
    <2>1. Moved
      BY <1>1, <1>3, AbortsMoves
    <2>2. Aside
      BY <1>3, Parts DEF RunRedirectBrowser, Aside
    <2> QED BY <2>1, <2>2, Closing
  <1> QED BY <1>2, <1>3 DEF RunRedirectBrowser

LEMMA SendStep == IInv /\ RunSend => IInv'
  <1> SUFFICES ASSUME IInv, RunSend PROVE IInv'
    OBVIOUS
  <1>1. PICK st \in Senders :
            /\ Runs(st) /\ m' = Request(st)
            /\ \E reports \in BOOLEAN : ctx' = [ctx EXCEPT !.reported = @ \/ reports]
    BY DEF RunSend
  <1>2. PICK reports \in BOOLEAN : ctx' = [ctx EXCEPT !.reported = @ \/ reports]
    BY <1>1
  <1>3. ctx \in Contexts /\ (ctx.reported \/ reports) \in BOOLEAN
    BY Parts DEF Good, Contexts
  <1>4. ctx' = [ctx EXCEPT !.reported = ctx.reported \/ reports]
    BY <1>2
  <1>5. Like(ctx', ctx)
    BY <1>3, <1>4, Likes
  <1>6. st \in Requesters /\ st # "CheckRefreshAddress"
    BY DEF Requesters, Senders
  <1> QED BY <1>1, <1>5, <1>6, RequestMoves, Outsiders, Closing DEF RunSend

LEMMA Eac2Step == IInv /\ RunEac2 => IInv'
  <1> SUFFICES ASSUME IInv, RunEac2 PROVE IInv'
    OBVIOUS
  <1>1. CASE CardCommand("Eac2")
    BY <1>1, CommandStates, CardCommandStep
  <1>2. CASE Runs("Eac2") /\ Emit(Rest, Failed(ctx), "Eac2", "abort") /\ UNCHANGED Outside
    <2>1. Like(ctx, ctx)
      BY Parts, Likes DEF Good
    <2> QED BY <1>2, <2>1, AbortsMoves, Outsiders, Closing
  <1> QED BY <1>1, <1>2 DEF RunEac2

LEMMA TransmitDoneStep == IInv /\ TransmitDone => IInv'
  <1> SUFFICES ASSUME IInv, TransmitDone PROVE IInv'
    OBVIOUS
  <1>1. CASE CommandDone("Transmit")
    BY <1>1, CommandStates, CommandDoneStep
  <1>2. CASE /\ Completes("Transmit")
             /\ Emit(Rest, UpdateStatus(ctx, "error"), "Transmit", "continue")
             /\ UNCHANGED Outside
    <2>1. ctx \in Contexts
      BY Parts DEF Good
    <2>2. /\ Like(UpdateStatus(ctx, "error"), ctx)
          /\ WellMeant("Transmit", "continue", UpdateStatus(ctx, "error"))
      BY <2>1, Likes, Meant
    <2> QED BY <1>2, <2>2, EventMoves, Outsiders, Closing
  <1> QED BY <1>1, <1>2 DEF TransmitDone

LEMMA UpdateFinalDoneStep == IInv /\ UpdateFinalDone => IInv'
  <1> SUFFICES ASSUME IInv, UpdateFinalDone PROVE IInv'
    OBVIOUS
  <1>1. Completes("UpdateFinal") /\ Emit(Rest, ctx, "UpdateFinal", "continue") /\ Like(ctx, ctx)
    BY Parts, Likes DEF UpdateFinalDone, Good
  <1>2. "UpdateFinal" \notin Careful
    BY DEF Careful
  <1>3. Moved
    BY <1>1, <1>2, Meant, EventMoves
  <1>4. Aside
    <2>1. card' = [card EXCEPT !.conn = @ /\ Event.code # "failed"] /\ card \in Cards
      BY Parts DEF UpdateFinalDone
    <2>2. card' \in Cards
      BY <2>1 DEF Cards
    <2> QED BY <2>2, Parts DEF UpdateFinalDone, Aside
  <1> QED BY <1>3, <1>4, Closing

LEMMA FinalizeDoneStep == IInv /\ FinalizePersonalizationDone => IInv'
  <1> SUFFICES ASSUME IInv, FinalizePersonalizationDone PROVE IInv'
    OBVIOUS
  <1> DEFINE st == "FinalizePersonalization"
  <1>1. Completes(st) /\ UNCHANGED Outside /\ Event.type = "done" /\ Event.st = st
    BY DEF FinalizePersonalizationDone, Completes, Handles
  <1>2. ctx \in Contexts
    BY Parts DEF Good
  <1>3. CASE ctx.status # "ok"
    <2>1. Emit(Rest, ctx, st, "propagateAbort")
      BY <1>3 DEF FinalizePersonalizationDone
    <2> QED BY <1>1, <1>2, <1>3, <2>1, Likes, Meant, EventMoves, Outsiders, Closing
  <1>4. CASE ctx.status = "ok" /\ Event.code = "abort"
    <2>1. Emit(Rest, Failed(ctx), st, "abort")
      BY <1>4 DEF FinalizePersonalizationDone
    <2> QED BY <1>1, <1>2, <2>1, Likes, AbortsMoves, Outsiders, Closing
  <1>5. CASE ctx.status = "ok" /\ Event.code # "abort"
    <2> DEFINE c == [ctx EXCEPT !.passwords = TRUE]
    <2>1. Emit(Rest, c, st, "continue")
      BY <1>5 DEF FinalizePersonalizationDone
    <2>2. Like(c, ctx)
      BY <1>2, Likes
    <2>3. setup.action = "personalization" => smart.chip = "personalized"
      BY <1>1, <1>5, EventTaken DEF Finalized
    <2>4. WellMeant(st, "continue", c)
      BY <2>3 DEF WellMeant, Aborts
    <2> HIDE DEF c
    <2> QED BY <1>1, <2>1, <2>2, <2>4, EventMoves, Outsiders, Closing
  <1> QED BY <1>3, <1>4, <1>5

LEMMA ExpectedStep == IInv /\ ReplyExpected => IInv'
  <1> SUFFICES ASSUME IInv, ReplyExpected PROVE IInv'
    OBVIOUS
  <1>1. PICK st \in m.open \cap Senders :
            /\ IF st \in TransmitExpected
               THEN /\ net.transmits < setup.maxTransmits
                    /\ net' = [net EXCEPT !.transmits = @ + 1]
               ELSE net' = net
            /\ \/ Emit(Replied(st), ctx, st, "continue")
               \/ st = "SendStartPaos" /\ Emit(Replied(st), ctx, st, "extractCvcs")
    BY DEF ReplyExpected
  <1>2. Running /\ Like(ctx, ctx) /\ st \notin Careful
    BY Parts, Likes DEF ReplyExpected, Good, Senders, Careful
  <1>3. Moved
    <2>1. \A sig \in {"continue", "extractCvcs"} : WellMeant(st, sig, ctx)
      BY <1>2, Meant
    <2>2. PICK sig \in {"continue", "extractCvcs"} : Emit(Replied(st), ctx, st, sig)
      BY <1>1
    <2> QED BY <1>2, <2>1, <2>2, ReplyMoves
  <1>4. Aside
    <2>1. setup.maxTransmits \in Nat /\ net \in Nets
      BY Parts, AuthenticationAssumption
    <2>2. net' \in Nets /\ net'.url = net.url /\ net'.verified = net.verified /\ net'.browser = net.browser
      <3>1. CASE net' = net
        BY <2>1, <3>1
      <3>2. CASE net.transmits < setup.maxTransmits /\ net' = [net EXCEPT !.transmits = @ + 1]
        <4>1. net.transmits \in Nat /\ net.transmits + 1 \in 0..setup.maxTransmits
          BY <2>1, <3>2 DEF Nets
        <4>2. net' = [net EXCEPT !.transmits = net.transmits + 1]
          BY <3>2
        <4> QED BY <2>1, <4>1, <4>2 DEF Nets
      <3> QED BY <1>1, <3>1, <3>2
    <2> QED BY <2>2, Parts DEF ReplyExpected, Aside
  <1> QED BY <1>3, <1>4, Closing

(* A StartPAOSResponse is the one message that says what is confirmed.     *)
LEMMA ResponseStep == IInv /\ ReplyResponse => IInv'
  <1> SUFFICES ASSUME IInv, ReplyResponse PROVE IInv'
    OBVIOUS
  <1>1. PICK st \in m.open \cap Senders, result \in {"ok", "error"} :
            Emit(Replied(st), [ctx EXCEPT !.paos = result], st, "response")
    BY DEF ReplyResponse
  <1> DEFINE c  == [ctx EXCEPT !.paos = result]
             mm == Replied(st)
  <1>2. Running /\ UNCHANGED Outside
    BY DEF ReplyResponse
  <1>3. /\ setup \in Setups /\ Good(m, ctx, smart.chip) /\ ctx \in Contexts
        /\ m.cur # "crashed" /\ ~Unnoticed(m, ctx)
        /\ st \in Own /\ Sound(mm) /\ mm.cur = m.cur /\ mm.approved = m.approved
        /\ mm.open \subseteq m.open /\ Calmer(mm, m)
        /\ st \in PrepareApplet => Idle(mm, PrepareApplet)
        /\ ctx.status = "ok" => st = m.cur /\ Idle(mm, Own)
        /\ ctx.result = "ok" => st \in {"RedirectBrowser", "Final"}
    BY <1>2, ReplyTaken
  <1>4. /\ c \in Contexts /\ c.killed = ctx.killed /\ c.cancelled = ctx.cancelled
        /\ c.inState = ctx.inState /\ c.status = ctx.status /\ c.refresh = ctx.refresh
        /\ c.result = ctx.result /\ c.data = ctx.data
    BY <1>1, <1>3 DEF Contexts
  <1>5. Emit(mm, c, st, "response")
    BY <1>1
  <1>6. /\ st \notin {"RedirectBrowser", "Final", "ClearNewPin", "GetData", "FinalizePersonalization"}
        /\ st \notin {"StartPaosResponse", "StartPaosPersonalizationResponse"}
        /\ st \notin WithData \cup Personalized
    BY <1>1 DEF Senders, WithData, Personalized
  <1> HIDE DEF c, mm
  <1>7. Core(mm, ctx)
    <2>1. Core(m, ctx) /\ (ctx.killed => ctx.cancelled) /\ (ctx.inState => ctx.status # "ok")
      BY <1>3 DEF Good, Core
    <2> QED BY <1>3, <2>1, CoreCalm
  <1>8. Core(mm, c)
    BY <1>3, <1>4, <1>6, <1>7 DEF Core, CheckedOnce, Decided
  <1>9. Ready(mm, c, st, "response")
    <2>1. mm.cur # "none" /\ (c.cancelled => c.inState)
      BY <1>3, <1>4 DEF Unnoticed
    <2> QED BY <1>3, <1>8, <2>1, CoreReady
  <1>10. Forward(mm, c, st, "response", smart.chip)
    <2> SUFFICES ASSUME c.status = "ok" PROVE Forward(mm, c, st, "response", smart.chip)
      BY DEF Forward
    <2>1. ~c.cancelled /\ mm.cur = st /\ Idle(mm, Own)
      BY <1>3, <1>4 DEF Good, AllWell
    <2> QED BY <1>1, <1>6, <2>1 DEF Forward, Aborts
  <1>11. Moved
    BY <1>3, <1>4, <1>5, <1>9, <1>10, EmitMoves
  <1> QED BY <1>2, <1>11, Outsiders, Closing

LEMMA FailsStep ==
    ASSUME IInv, NEW st, ReplyFails(st)
    PROVE  IInv'
  <1>1. st \in m.open /\ Running /\ Emit(Replied(st), Failed(ctx), st, "abort") /\ UNCHANGED Outside
    BY DEF ReplyFails
  <1>2. Like(Failed(ctx), ctx) /\ WellMeant(st, "abort", Failed(ctx))
    BY Parts, Likes, Meant DEF Good
  <1> QED BY <1>1, <1>2, ReplyMoves, Outsiders, Closing

LEMMA TokenStep == IInv /\ ReplyToken => IInv'
  <1> SUFFICES ASSUME IInv, ReplyToken PROVE IInv'
    OBVIOUS
  <1>1. "GetTcToken" \in m.open /\ Running /\ UNCHANGED Outside /\ ctx \in Contexts
    BY Parts DEF ReplyToken, Good
  <1>2. PICK c : /\ Like(c, ctx)
                 /\ \/ Emit(Replied("GetTcToken"), c, "GetTcToken", "continue")
                    \/ Emit(Replied("GetTcToken"), Failed(c), "GetTcToken", "abort")
    BY <1>1, Likes DEF ReplyToken
  <1>3. /\ WellMeant("GetTcToken", "continue", c)
        /\ Like(Failed(c), ctx) /\ WellMeant("GetTcToken", "abort", Failed(c))
    BY <1>1, <1>2, Likes, Meant DEF Careful
  <1>4. Moved
    BY <1>1, <1>2, <1>3, ReplyMoves
  <1> QED BY <1>1, <1>4, Outsiders, Closing

LEMMA DataStep == IInv /\ ReplyData => IInv'
  <1> SUFFICES ASSUME IInv, ReplyData PROVE IInv'
    OBVIOUS
  <1> DEFINE c == [ctx EXCEPT !.data = TRUE]
  <1>1. /\ "GetData" \in m.open /\ Running /\ UNCHANGED Outside
        /\ Emit(Replied("GetData"), c, "GetData", "continue")
    BY DEF ReplyData
  <1>2. Like(c, ctx) /\ c.data
    BY Parts, Likes DEF Good
  <1> HIDE DEF c
  <1>3. WellMeant("GetData", "continue", c)
    BY <1>2 DEF WellMeant, Aborts
  <1> QED BY <1>1, <1>2, <1>3, ReplyMoves, Outsiders, Closing

LEMMA ProviderStep == IInv /\ ReplyProvider => IInv'
  <1> SUFFICES ASSUME IInv, ReplyProvider PROVE IInv'
    OBVIOUS
  <1>1. PICK st \in {"GetSessionId", "GetChallenge", "PreparePersonalization"} :
            \/ /\ st \in m.open /\ Running
               /\ Emit(Replied(st), ctx, st, "continue")
               /\ UNCHANGED Outside
            \/ ReplyFails(st)
    BY DEF ReplyProvider
  <1>2. CASE ReplyFails(st)
    BY <1>2, FailsStep
  <1>3. CASE /\ st \in m.open /\ Running
             /\ Emit(Replied(st), ctx, st, "continue")
             /\ UNCHANGED Outside
    <2>1. Like(ctx, ctx) /\ WellMeant(st, "continue", ctx)
      BY Parts, Likes, Meant DEF Good, Careful
    <2> QED BY <1>3, <2>1, ReplyMoves, Outsiders, Closing
  <1> QED BY <1>1, <1>2, <1>3

LEMMA ScannedStep == IInv /\ SmartReaderScanned => IInv'
  <1> SUFFICES ASSUME IInv, SmartReaderScanned PROVE IInv'
    OBVIOUS
  <1> DEFINE st == "InsertCard"
  <1>1. st \in m.open /\ Running /\ UNCHANGED Outside
    BY DEF SmartReaderScanned
  <1>2. Like(ctx, ctx) /\ Like(Failed(ctx), ctx) /\ WellMeant(st, "abort", Failed(ctx))
    BY Parts, Likes, Meant DEF Good
  <1>3. \A sig \in {"continue", "skipPinChange"} : WellMeant(st, sig, ctx)
    BY Meant DEF Careful
  <1>4. \/ \E sig \in {"continue", "skipPinChange"} : Emit(Replied(st), ctx, st, sig)
        \/ Emit(Replied(st), Failed(ctx), st, "abort")
    BY DEF SmartReaderScanned
  <1>5. Moved
    BY <1>1, <1>2, <1>3, <1>4, ReplyMoves
  <1> QED BY <1>1, <1>5, Outsiders, Closing

LEMMA InsertCardStep == IInv /\ RunInsertCard => IInv'
  <1> SUFFICES ASSUME IInv, RunInsertCard PROVE IInv'
    OBVIOUS
  <1>1. Runs("InsertCard") /\ UNCHANGED Outside /\ Like(ctx, ctx)
    BY Parts, Likes DEF RunInsertCard, Good
  <1>2. CASE m' = Request("InsertCard") /\ UNCHANGED ctx
    <2>1. "InsertCard" \in Requesters
      BY DEF Requesters
    <2>2. Like(ctx', ctx)
      BY <1>1, <1>2
    <2> QED BY <1>1, <1>2, <2>1, <2>2, RequestMoves, Outsiders, Closing
  <1>3. CASE Emit(Rest, Failed(ctx), "InsertCard", "abort")
    BY <1>1, <1>3, AbortsMoves, Outsiders, Closing
  <1> QED BY <1>2, <1>3 DEF RunInsertCard

-----------------------------------------------------------------------------
(* The refresh address. *)

(* The search is on: this is the only time it can be. *)
Looking(mm) ==
    /\ Sound(mm) /\ mm.cur = m.cur /\ mm.approved = m.approved /\ mm.open \subseteq m.open
    /\ NoFinalized(m.events) => NoFinalized(mm.events)
    /\ Takes(mm, m, "CheckRefreshAddress")

LEMMA LookingFacts ==
    ASSUME IInv, NEW mm, Looking(mm), m.cur # "crashed"
    PROVE  /\ "CheckRefreshAddress" \in Own /\ "CheckRefreshAddress" \notin PrepareApplet
           /\ ~Unnoticed(m, ctx) /\ Calmer(mm, m) /\ Idle(mm, {"CheckRefreshAddress"})
           /\ ctx.status = "ok" => m.cur = "CheckRefreshAddress" /\ Idle(mm, Own)
           /\ ctx.result # "ok" /\ ctx.refresh \notin Urls /\ ~Before(m)
  <1>1. setup \in Setups /\ Good(m, ctx, smart.chip)
    BY Parts
  <1>2. "CheckRefreshAddress" \in Own /\ "CheckRefreshAddress" \notin PrepareApplet
    BY <1>1, Regions, Tables
  <1>3. Idle(mm, {"CheckRefreshAddress"})
    BY <1>1 DEF Looking, Takes, Good, CheckedOnce
  <1>4. /\ ~Unnoticed(m, ctx) /\ Calmer(mm, m)
        /\ ctx.status = "ok" => m.cur = "CheckRefreshAddress" /\ Idle(mm, Own)
        /\ ctx.result # "ok" /\ ctx.refresh \notin Urls /\ ~Before(m)
    BY <1>1, <1>2, Taken DEF Looking
  <1> QED BY <1>2, <1>3, <1>4

(* It goes on with a request ... *)
LEMMA AskStep ==
    ASSUME IInv, NEW mm, Looking(mm), m.cur # "crashed",
           m' = [mm EXCEPT !.open = @ \cup {"CheckRefreshAddress"}], ctx' = ctx,
           UNCHANGED <<setup, card, smart, faults>>,
           net' \in Nets, net'.url \in Urls, net'.browser = net.browser
    PROVE  IInv'
  <1> DEFINE n == [mm EXCEPT !.open = @ \cup {"CheckRefreshAddress"}]
  <1>1. /\ "CheckRefreshAddress" \in Own /\ ~Unnoticed(m, ctx)
        /\ ctx.refresh \notin Urls
    BY LookingFacts
  <1>2. "CheckRefreshAddress" \in Requesters
    BY DEF Requesters
  <1>3. m' = n /\ n = [mm EXCEPT !.open = @ \cup {"CheckRefreshAddress"}]
    OBVIOUS
  <1> HIDE DEF n
  <1>4. /\ Sound(n) /\ n.cur = mm.cur /\ n.approved = mm.approved /\ n.events = mm.events
        /\ Gives(n, mm, "CheckRefreshAddress")
    BY <1>1, <1>2, <1>3, GiveRequest DEF Looking
  <1>5. Calmer(n, m)
    BY <1>4, TakeAndGive DEF Looking
  <1>6. Good(m, ctx, smart.chip) /\ Like(ctx, ctx)
    BY Parts, Likes DEF Good
  <1>7. ctx.status = "ok" /\ m.cur # "crashed" /\ setup.action = "personalization" =>
            /\ m.cur \in Personalized => smart.chip = "personalized"
            /\ \A i \in 1..Len(n.events) : Finalized(n.events[i]) => smart.chip = "personalized"
    BY <1>4, <1>6 DEF Good, AllWell, Proven, NoFinalized, Looking
  <1>8. Good(n, ctx, smart.chip) /\ ~Unnoticed(n, ctx)
    BY <1>1, <1>4, <1>5, <1>6, <1>7, CalmGood DEF Looking
  <1>9. Addressed(n, net'.url)
    BY DEF Addressed
  <1> QED BY <1>1, <1>3, <1>8, <1>9, Parts, Primed DEF Told

(* ... or ends with a verified address. *)
LEMMA FoundStep ==
    ASSUME IInv, NEW mm, Looking(mm), m.cur # "crashed", NEW url \in Urls,
           Emit(mm, [ctx EXCEPT !.refresh = url], "CheckRefreshAddress", "continue"),
           UNCHANGED <<setup, card, smart, faults>>,
           net' \in Nets, net'.url \in Urls, net'.browser = net.browser, url \in net'.verified
    PROVE  IInv'
  <1> DEFINE st == "CheckRefreshAddress"
             c  == [ctx EXCEPT !.refresh = url]
  <1>1. /\ st \in Own /\ st \notin PrepareApplet /\ ~Unnoticed(m, ctx)
        /\ Calmer(mm, m) /\ Idle(mm, {st})
        /\ ctx.status = "ok" => m.cur = st /\ Idle(mm, Own)
        /\ ctx.result # "ok" /\ ~Before(m)
    BY LookingFacts
  <1>2. setup \in Setups /\ Good(m, ctx, smart.chip) /\ ctx \in Contexts
    BY Parts DEF Good
  <1>3. /\ c \in Contexts /\ c.killed = ctx.killed /\ c.cancelled = ctx.cancelled
        /\ c.inState = ctx.inState /\ c.status = ctx.status /\ c.refresh = url
        /\ c.result = ctx.result /\ c.paos = ctx.paos /\ c.data = ctx.data
    BY <1>2 DEF Contexts
  <1> HIDE DEF c
  <1>4. Core(mm, ctx)
    <2>1. Core(m, ctx) /\ (ctx.killed => ctx.cancelled) /\ (ctx.inState => ctx.status # "ok")
      BY <1>2 DEF Good, Core
    <2> QED BY <1>1, <1>2, <2>1, CoreCalm DEF Looking
  <1>5. Core(mm, c)
    BY <1>1, <1>3, <1>4 DEF Core, CheckedOnce, Decided, Before, Looking
  <1>6. Ready(mm, c, st, "continue")
    <2>1. mm.cur # "none" /\ (c.cancelled => c.inState)
      BY <1>1, <1>3 DEF Unnoticed, Looking
    <2> QED BY <1>1, <1>5, <2>1, CoreReady
  <1>7. Forward(mm, c, st, "continue", smart.chip)
    <2> SUFFICES ASSUME c.status = "ok" PROVE Forward(mm, c, st, "continue", smart.chip)
      BY DEF Forward
    <2>1. /\ ~ctx.cancelled /\ Proven(m, ctx, smart.chip)
          /\ m.cur = st /\ mm.cur = st /\ Idle(mm, Own)
      BY <1>1, <1>2, <1>3 DEF Good, AllWell, Looking
    <2>2. st \in Confirmed => c.paos = "ok"
      BY <2>1, <1>3 DEF Proven
    <2>3. st \notin WithData \cup Personalized
      BY DEF WithData, Personalized
    <2> QED BY <1>3, <2>1, <2>2, <2>3 DEF Forward, Aborts
  <1>8. Emit(mm, c, st, "continue")
    BY DEF c
  <1>9. Good(m', ctx', smart.chip)
    BY <1>1, <1>2, <1>6, <1>7, <1>8, EmitGood
  <1>10. /\ ~Unnoticed(m', ctx') /\ (ctx'.refresh \in Urls => ctx'.refresh = url)
    BY <1>1, <1>2, <1>3, <1>6, <1>8, EmitRest
  <1>11. net'.browser = "ok" => ctx'.result = "ok"
    BY <1>1, Parts DEF Told
  <1> QED BY <1>2, <1>9, <1>10, <1>11, Parts, Primed DEF Addressed

LEMMA FetchStep ==
    ASSUME IInv, NEW mm, Looking(mm), m.cur # "crashed", NEW url \in Urls, NEW verified \in SUBSET Urls,
           FetchCertificate(mm, url, verified), UNCHANGED <<setup, card, smart, faults>>
    PROVE  IInv'
  <1>1. net \in Nets
    BY Parts
  <1>2. CASE url \in verified
    <2>1. /\ net' = [net EXCEPT !.url = url, !.verified = verified]
          /\ Emit(mm, [ctx EXCEPT !.refresh = url], "CheckRefreshAddress", "continue")
      BY <1>2 DEF FetchCertificate
    <2>2. net' \in Nets /\ net'.url = url /\ net'.verified = verified /\ net'.browser = net.browser
      BY <1>1, <2>1 DEF Nets
    <2> QED BY <1>2, <2>1, <2>2, FoundStep
  <1>3. CASE url \notin verified
    <2>1. /\ net' = [net EXCEPT !.url = url, !.verified = verified, !.head = TRUE]
          /\ m' = [mm EXCEPT !.open = @ \cup {"CheckRefreshAddress"}] /\ ctx' = ctx
      BY <1>3 DEF FetchCertificate
    <2>2. net' \in Nets /\ net'.url = url /\ net'.browser = net.browser
      BY <1>1, <2>1 DEF Nets
    <2> QED BY <2>1, <2>2, AskStep
  <1> QED BY <1>2, <1>3

LEMMA GetStep ==
    ASSUME IInv, NEW mm, Looking(mm), m.cur # "crashed", NEW url \in Urls, NEW verified \in SUBSET Urls,
           NEW redirects \in 0..setup.maxRedirects,
           SendGet(mm, url, verified, redirects), UNCHANGED <<setup, card, smart, faults>>
    PROVE  IInv'
  <1>1. /\ net' = [net EXCEPT !.url = url, !.verified = verified, !.redirects = redirects]
        /\ m' = [mm EXCEPT !.open = @ \cup {"CheckRefreshAddress"}] /\ ctx' = ctx
    BY DEF SendGet
  <1>2. net' \in Nets /\ net'.url = url /\ net'.browser = net.browser
    BY <1>1, Parts DEF Nets
  <1> QED BY <1>1, <1>2, AskStep

LEMMA CheckRefreshAddressStep == IInv /\ RunCheckRefreshAddress => IInv'
  <1> SUFFICES ASSUME IInv, RunCheckRefreshAddress PROVE IInv'
    OBVIOUS
  <1>1. Runs("CheckRefreshAddress") /\ UNCHANGED <<setup, card, smart, faults>>
    BY DEF RunCheckRefreshAddress
  <1>2. Looking(Rest) /\ m.cur # "crashed"
    <2> HIDE DEF Rest
    <2> QED BY <1>1, EventTaken DEF Looking
  <1>3. /\ {} \in SUBSET Urls /\ OwnUrls \subseteq Urls /\ ForeignUrls \subseteq Urls
        /\ 0 \in 0..setup.maxRedirects
    BY Parts, AuthenticationAssumption DEF Urls
  <1> HIDE DEF Rest, Urls
  <1>4. CASE Emit(Rest, ctx, "CheckRefreshAddress", "continue") /\ net' = net
    <2>1. Continues("CheckRefreshAddress") /\ "CheckRefreshAddress" \notin Careful
      BY <1>1, <1>4 DEF Continues, Outside, Careful
    <2> QED BY <2>1, ContinuesStep
  <1>5. CASE \E url \in OwnUrls : FetchCertificate(Rest, url, {})
    BY <1>1, <1>2, <1>3, <1>5, FetchStep
  <1>6. CASE \E url \in ForeignUrls : SendGet(Rest, url, {}, 0)
    BY <1>1, <1>2, <1>3, <1>6, GetStep
  <1> QED BY <1>4, <1>5, <1>6 DEF RunCheckRefreshAddress

LEMMA LookingAtReply ==
    ASSUME IInv, "CheckRefreshAddress" \in m.open, Running
    PROVE  Looking(Replied("CheckRefreshAddress")) /\ m.cur # "crashed" /\ net.url \in Urls
  <1>1. Sound(m) /\ Addressed(m, net.url)
    BY Parts DEF Good
  <1> HIDE DEF Replied
  <1>2. Looking(Replied("CheckRefreshAddress"))
    BY <1>1, TakeReply DEF Looking
  <1> QED BY <1>1, <1>2 DEF Addressed, Running

LEMMA RedirectStep == IInv /\ ReplyRedirect => IInv'
  <1> SUFFICES ASSUME IInv, ReplyRedirect PROVE IInv'
    OBVIOUS
  <1> DEFINE mm == Replied("CheckRefreshAddress")
  <1>1. Looking(mm) /\ m.cur # "crashed" /\ net.url \in Urls
    BY LookingAtReply DEF ReplyRedirect
  <1>2. PICK url \in Urls, verified \in {net.verified, net.verified \cup {net.url}} :
            IF net.url \in OwnUrls THEN FetchCertificate(mm, url, verified)
            ELSE /\ net.redirects < setup.maxRedirects
                 /\ SendGet(mm, url, verified, net.redirects + 1)
    BY DEF ReplyRedirect
  <1>3. UNCHANGED <<setup, card, smart, faults>>
    BY DEF ReplyRedirect
  <1> HIDE DEF mm
  <1>4. verified \in SUBSET Urls
    BY <1>1, <1>2, Parts DEF Nets
  <1>5. CASE FetchCertificate(mm, url, verified)
    BY <1>1, <1>2, <1>3, <1>4, <1>5, FetchStep
  <1>6. CASE /\ net.redirects < setup.maxRedirects
             /\ SendGet(mm, url, verified, net.redirects + 1)
    <2>1. setup.maxRedirects \in Nat /\ net.redirects \in Nat
      BY Parts, AuthenticationAssumption DEF Nets
    <2>2. net.redirects + 1 \in 0..setup.maxRedirects
      BY <1>6, <2>1
    <2> QED BY <1>1, <1>2, <1>3, <1>4, <1>6, <2>2, GetStep
  <1> QED BY <1>2, <1>5, <1>6

LEMMA CertificateStep == IInv /\ ReplyCertificate => IInv'
  <1> SUFFICES ASSUME IInv, ReplyCertificate PROVE IInv'
    OBVIOUS
  <1> DEFINE mm == Replied("CheckRefreshAddress")
  <1>1. Looking(mm) /\ m.cur # "crashed" /\ net.url \in Urls
    BY LookingAtReply DEF ReplyCertificate
  <1>2. /\ net' = [net EXCEPT !.verified = @ \cup {net.url}]
        /\ Emit(mm, [ctx EXCEPT !.refresh = net.url], "CheckRefreshAddress", "continue")
        /\ UNCHANGED <<setup, card, smart, faults>>
    BY DEF ReplyCertificate
  <1> HIDE DEF mm
  <1>3. /\ net' \in Nets /\ net'.url = net.url /\ net'.browser = net.browser
        /\ net.url \in net'.verified
    BY <1>1, <1>2, Parts DEF Nets
  <1> QED BY <1>1, <1>2, <1>3, FoundStep

-----------------------------------------------------------------------------
(* Cancellations. *)

LEMMA CancelledStep ==
    ASSUME IInv, NEW mm, NEW c \in Contexts, NEW st \in Own,
           Core(mm, ctx), mm.cur # "none", mm.open \subseteq m.open,
           c.killed => c.cancelled, c.refresh = ctx.refresh, c.result = ctx.result, c.paos = ctx.paos,
           st \in PrepareApplet => st = mm.cur,
           Cancelled(mm, c, st), UNCHANGED Outside
    PROVE  IInv'
  <1> DEFINE u == UpdateStatus([c EXCEPT !.inState = TRUE], "cancelled")
             d == OnUserCancelled(c)
  <1>0. setup \in Setups
    BY Parts
  <1>1. /\ u \in Contexts /\ (u.killed => u.cancelled) /\ u.inState /\ u.status # "ok"
        /\ u.refresh = ctx.refresh /\ u.result = ctx.result /\ u.paos = ctx.paos
    <2> DEFINE e == [c EXCEPT !.inState = TRUE]
    <2>1. /\ e \in Contexts /\ (e.killed => e.cancelled) /\ e.inState
          /\ e.refresh = c.refresh /\ e.result = c.result /\ e.paos = c.paos
      BY DEF Contexts
    <2> HIDE DEF e
    <2>2. /\ UpdateStatus(e, "cancelled") \in Contexts
          /\ UpdateStatus(e, "cancelled").killed => UpdateStatus(e, "cancelled").cancelled
          /\ UpdateStatus(e, "cancelled").inState
          /\ UpdateStatus(e, "cancelled").status # "ok"
          /\ UpdateStatus(e, "cancelled").refresh = e.refresh
          /\ UpdateStatus(e, "cancelled").result = e.result
          /\ UpdateStatus(e, "cancelled").paos = e.paos
      BY <2>1 DEF UpdateStatus, Contexts
    <2> QED BY <2>1, <2>2 DEF e
  <1> HIDE DEF u
  <1>2. /\ d \in Contexts /\ (d.killed => d.cancelled) /\ d.inState /\ d.status # "ok"
        /\ d.refresh = ctx.refresh /\ d.result = ctx.result /\ d.paos = ctx.paos
    <2>1. d = [u EXCEPT !.failure = TRUE]
      BY DEF OnUserCancelled, OnAbort, u
    <2> HIDE DEF d
    <2> QED BY <1>1, <2>1 DEF Contexts
  <1> HIDE DEF d
  <1>3. Core(mm, u) /\ Core(mm, d)
    BY <1>1, <1>2 DEF Core, CheckedOnce, Decided
  <1>4. Paces \cap PrepareApplet = {} /\ Uninterruptible \subseteq PrepareApplet
    BY Tables DEF Paces, Uninterruptible
  <1>5. CASE st \in Paces
    <2>1. m' = mm /\ ctx' = d
      BY <1>4, <1>5 DEF Cancelled, d
    <2>2. Good(mm, d, smart.chip) /\ ~Unnoticed(mm, d)
      BY <1>2, <1>3, StayGood
    <2> QED BY <1>2, <2>1, <2>2, Outsiders, Closing DEF Moved
  <1>6. CASE st \in Uninterruptible
    <2>1. m' = mm /\ ctx' = u
      BY <1>4, <1>6 DEF Cancelled, u
    <2>2. Good(mm, u, smart.chip) /\ ~Unnoticed(mm, u)
      BY <1>1, <1>3, StayGood
    <2> QED BY <1>1, <2>1, <2>2, Outsiders, Closing DEF Moved
  <1>7. CASE st \notin Paces \cup Uninterruptible
    <2>1. Emit(mm, d, st, "abort")
      BY <1>7 DEF Cancelled, d
    <2>2. Ready(mm, d, st, "abort")
      BY <1>2, <1>3, <1>7, CoreReady
    <2>3. Forward(mm, d, st, "abort", smart.chip)
      BY <1>2 DEF Forward
    <2> QED BY <1>0, <1>2, <2>1, <2>2, <2>3, EmitMoves, Outsiders, Closing
  <1> QED BY <1>5, <1>6, <1>7

LEMMA HandleCancelStep == IInv /\ HandleCancel => IInv'
  <1> SUFFICES ASSUME IInv, HandleCancel PROVE IInv'
    OBVIOUS
  <1> DEFINE mm == Rest
  <1>1. /\ m.events # <<>> /\ m.cur # "none" /\ Event.type = "cancel"
        /\ Cancelled(mm, ctx, Event.st) /\ UNCHANGED Outside
    BY DEF HandleCancel, Handles, Running
  <1>2. setup \in Setups /\ Core(m, ctx) /\ Sound(m) /\ ctx \in Contexts
    BY Parts DEF Good, Core
  <1>3. /\ Sound(mm) /\ mm.cur = m.cur /\ mm.approved = m.approved
        /\ mm.open = m.open /\ Calmer(mm, m) /\ Event.st = First
    BY <1>1, <1>2, TakeEvent
  <1> HIDE DEF mm
  <1>4. Core(mm, ctx)
    BY <1>2, <1>3, CoreCalm DEF Core
  <1>5. First \in Own /\ First \notin PrepareApplet
    BY <1>2, Regions
  <1> QED BY <1>1, <1>2, <1>3, <1>4, <1>5, CancelledStep DEF Core

-----------------------------------------------------------------------------
(* The user. *)

LEMMA ApproveGood ==
    ASSUME IInv, m.cur \in Own, ~m.approved
    PROVE  /\ Good(Approved(m), ctx, smart.chip) /\ ~Unnoticed(m, ctx)
           /\ Approved(m).cur = m.cur /\ Approved(m).open = m.open
  <1> DEFINE n == Approved(m)
             e == Run(m.cur)
             k == [m EXCEPT !.approved = TRUE]
  <1>0. setup \in Setups /\ Good(m, ctx, smart.chip) /\ Sound(m)
    BY Parts DEF Good
  <1>1. m.cur \in States /\ m.cur \notin Over \cup {"none"}
    BY <1>0, Regions
  <1>2. /\ e \in Events /\ e.type = "run" /\ e.st = m.cur /\ ~Finalized(e)
    BY <1>1, EventKinds
  <1> HIDE DEF e
  <1>3. /\ Sound(k) /\ k.cur = m.cur /\ k.approved /\ k.events = m.events
        /\ k.cmds = m.cmds /\ k.open = m.open /\ Calmer(k, m)
    <2>1. /\ k \in Machines /\ k.cur = m.cur /\ k.approved /\ k.events = m.events
          /\ k.cmds = m.cmds /\ k.open = m.open
      BY <1>0 DEF Sound, Machines
    <2> QED BY <1>0, <2>1 DEF Sound, OfWorkflow, Calmer, Idle, Single
  <1>4. n = [k EXCEPT !.events = Append(@, e)]
    BY <1>0 DEF Approved, e, Sound, Machines
  <1> HIDE DEF n, k
  <1>5. /\ Sound(n) /\ n.cur = k.cur /\ n.approved = k.approved /\ n.open = k.open
        /\ NoFinalized(k.events) => NoFinalized(n.events)
        /\ Gives(n, k, m.cur)
    <2>1. /\ Sound(k) /\ e \in Events /\ (e.type \in {"run", "done"} => e.st \in Own)
          /\ e.type = "cancel" => e.st = First
      BY <1>2, <1>3
    <2>2. /\ Sound(n) /\ n.cur = k.cur /\ n.approved = k.approved /\ n.open = k.open
          /\ NoFinalized(k.events) /\ ~Finalized(e) => NoFinalized(n.events)
          /\ Gives(n, k, e.st)
      BY <1>4, <2>1, GiveEvent
    <2> QED BY <1>2, <2>2
  <1>6. Gives(n, m, m.cur)
    BY <1>3, <1>5, CalmerStep
  <1>7. ~Unnoticed(m, ctx)
    BY <1>0, <1>1 DEF Good, QuietStart, Unnoticed
  <1>8. m.cur \notin PrepareApplet \cup {"CheckRefreshAddress"} \cup Paces
    BY <1>0 DEF Good, Prompt
  <1>9. CheckedOnce(n, ctx) /\ Prompt(n)
    BY <1>0, <1>3, <1>5, <1>6, <1>8 DEF Good, CheckedOnce, Prompt, Before, Gives
  <1>10. OneApplet(n)
    <2>1. Single(n, PrepareApplet)
      BY <1>0, <1>6, <1>8 DEF Good, OneApplet, Gives
    <2>2. Idle(n, Uninterruptible \ {n.cur})
      BY <1>0, <1>1, <1>3, <1>5, <1>6 DEF Good, OneApplet, Gives, Over
    <2>3. n.cur \in PrepareApplet \cup {"none", "CheckStatus"} => Idle(n, PrepareApplet \ {n.cur})
      BY <1>0, <1>3, <1>5, <1>6 DEF Good, OneApplet, Gives
    <2> QED BY <2>1, <2>2, <2>3 DEF OneApplet
  <1>11. AllWell(n, ctx, smart.chip)
    <2> SUFFICES ASSUME ctx.status = "ok"
                 PROVE  ~ctx.cancelled /\ InStep(n) /\ Proven(n, ctx, smart.chip)
      BY DEF AllWell
    <2>1. ~ctx.cancelled /\ InStep(m) /\ Proven(m, ctx, smart.chip)
      BY <1>0, <1>1 DEF Good, AllWell, Over
    <2>2. Idle(m, Own)
      BY <2>1 DEF InStep
    <2>3. Single(n, Own) /\ Idle(n, Own \ {n.cur})
      BY <1>3, <1>5, <1>6, <2>1, <2>2 DEF Gives, InStep
    <2>4. InStep(n)
      BY <1>3, <1>5, <1>8, <2>3 DEF InStep
    <2>5. Proven(n, ctx, smart.chip)
      <3>1. ~NoFinalized(n.events) => ~NoFinalized(m.events)
        BY <1>3, <1>5
      <3> QED BY <1>3, <1>5, <2>1, <3>1 DEF Proven, NoFinalized
    <2> QED BY <2>1, <2>4, <2>5
  <1>12. Decided(n, ctx)
    <2> SUFFICES ASSUME ctx.result = "ok" PROVE Decided(n, ctx)
      BY DEF Decided
    <2>1. /\ ctx.paos = "ok" /\ setup.action = "auth"
          /\ m.cur \in {"RedirectBrowser", "Final", "stopped"}
          /\ Idle(m, Own \ {"RedirectBrowser", "Final"})
      BY <1>0 DEF Good, Decided
    <2>2. m.cur \notin Own \ {"RedirectBrowser", "Final"}
      BY <1>1, <2>1 DEF Over
    <2>3. Idle(n, Own \ {"RedirectBrowser", "Final"})
      BY <1>6, <2>1, <2>2 DEF Gives
    <2> QED BY <1>3, <1>5, <2>1, <2>3 DEF Decided
  <1>13. QuietStart(n, ctx)
    BY <1>1, <1>3, <1>5, <1>7 DEF QuietStart, Unnoticed
  <1> QED BY <1>0, <1>3, <1>5, <1>7, <1>9, <1>10, <1>11, <1>12, <1>13 DEF Good, n

LEMMA ApproveMoves ==
    ASSUME IInv, m.cur \in Own, ~m.approved, m' = Approved(m), UNCHANGED ctx
    PROVE  Moved
  <1> DEFINE n == Approved(m)
  <1>1. /\ Good(n, ctx, smart.chip) /\ ~Unnoticed(m, ctx)
        /\ n.cur = m.cur /\ n.open = m.open
    BY ApproveGood
  <1>2. m' = n /\ ctx' = ctx
    OBVIOUS
  <1> HIDE DEF n
  <1> QED BY <1>1, <1>2 DEF Moved, Unnoticed

LEMMA ConfirmStep == IInv /\ Confirm => IInv'
  <1> SUFFICES ASSUME IInv, Confirm PROVE IInv'
    OBVIOUS
  <1>1. m.cur \in Waiting /\ ~m.approved /\ m' = Approved(m) /\ UNCHANGED ctx /\ UNCHANGED Outside
    BY DEF Confirm, Outside
  <1>2. m.cur \notin Over \cup {"none"}
    BY <1>1 DEF Waiting, Over
  <1>3. m.cur \in Own
    BY <1>2, Parts DEF Good, Sound, OfWorkflow
  <1> QED BY <1>1, <1>3, ApproveMoves, Outsiders, Closing

LEMMA CancelWorkflowStep == IInv /\ CancelWorkflow => IInv'
  <1> SUFFICES ASSUME IInv, CancelWorkflow PROVE IInv'
    OBVIOUS
  <1> DEFINE c == [ctx EXCEPT !.cancelled = TRUE]
  <1>1. Cancelled(m, c, m.cur) /\ UNCHANGED Outside
    BY DEF CancelWorkflow, CancelIn
  <1>2. m.cur \in Own
    BY Parts DEF Good, Sound, OfWorkflow, Over, CancelWorkflow, Running
  <1>3. Core(m, ctx) /\ ctx \in Contexts /\ setup \in Setups
    BY Parts DEF Good, Core
  <1>4. /\ c \in Contexts /\ (c.killed => c.cancelled) /\ c.refresh = ctx.refresh
        /\ c.result = ctx.result /\ c.paos = ctx.paos
    BY <1>3 DEF Contexts
  <1>5. m.cur # "none"
    BY DEF CancelWorkflow, Running
  <1> HIDE DEF c
  <1> QED BY <1>1, <1>2, <1>3, <1>4, <1>5, CancelledStep

LEMMA KillWorkflowStep == IInv /\ KillWorkflow => IInv'
  <1> SUFFICES ASSUME IInv, KillWorkflow PROVE IInv'
    OBVIOUS
  <1> DEFINE c == [[ctx EXCEPT !.killed = TRUE, !.status = "cancelled"] EXCEPT !.cancelled = TRUE]
             k == [m EXCEPT !.approved = TRUE]
  <1>1. /\ m.cur \notin {"stopped", "crashed"} /\ UNCHANGED Outside
        /\ CancelIn(IF m.approved THEN m ELSE IF m.cur = "none" THEN k ELSE Approved(m),
                    [ctx EXCEPT !.killed = TRUE, !.status = "cancelled"])
    BY DEF KillWorkflow
  <1>2. /\ setup \in Setups /\ Good(m, ctx, smart.chip) /\ Core(m, ctx) /\ ctx \in Contexts
        /\ m.cur \in Own \cup {"none"}
    BY <1>1, Parts DEF Good, Core, Sound, OfWorkflow, Over
  <1>3. /\ c \in Contexts /\ c.killed /\ c.cancelled /\ c.refresh = ctx.refresh
        /\ c.result = ctx.result /\ c.paos = ctx.paos /\ c.status = "cancelled"
        /\ c.inState = ctx.inState
    BY <1>2 DEF Contexts
  <1>4. CASE m.cur = "none"
    <2> DEFINE n == IF m.approved THEN m ELSE k
    <2>1. m' = n /\ ctx' = c
      BY <1>1, <1>4 DEF CancelIn, Running
    <2>2. /\ Sound(k) /\ k.cur = m.cur /\ k.approved /\ k.events = m.events
          /\ k.cmds = m.cmds /\ k.open = m.open
      <3>1. /\ k \in Machines /\ k.cur = m.cur /\ k.approved /\ k.events = m.events
            /\ k.cmds = m.cmds /\ k.open = m.open
        BY <1>2 DEF Good, Sound, Machines
      <3> QED BY <1>2, <3>1 DEF Good, Sound, OfWorkflow
    <2>3. /\ Sound(n) /\ n.cur = "none" /\ n.approved /\ n.events = m.events
          /\ n.cmds = m.cmds /\ n.open = m.open
      BY <1>2, <1>4, <2>2 DEF Good
    <2> HIDE DEF n, k, c
    <2>4. CheckedOnce(n, c) /\ OneApplet(n)
      BY <1>2, <1>3, <1>4, <2>3 DEF Good, CheckedOnce, OneApplet, Idle, Single, Before
    <2>5. Prompt(n) /\ QuietStart(n, c) /\ Decided(n, c) /\ AllWell(n, c, smart.chip)
      BY <1>2, <1>3, <1>4, <2>3 DEF Good, Prompt, QuietStart, Unnoticed, Decided, AllWell
    <2>6. Good(n, c, smart.chip)
      BY <1>3, <2>3, <2>4, <2>5 DEF Good
    <2>7. ~card.present
      BY <1>4, Parts DEF Unnoticed
    <2> QED BY <1>1, <1>2, <1>3, <2>1, <2>3, <2>6, <2>7, Parts, Primed
            DEF Outside, Addressed, Told, RefreshIsVerified
  <1>5. CASE m.cur # "none"
    <2> DEFINE mm == IF m.approved THEN m ELSE Approved(m)
    <2>1. Cancelled(mm, c, mm.cur) /\ mm.cur = m.cur
      <3>1. Running
        BY <1>1, <1>5 DEF Running
      <3>2. Cancelled(mm, c, m.cur)
        BY <1>1, <1>5, <3>1 DEF CancelIn
      <3>3. mm.cur = m.cur
        BY <1>2, <1>5, ApproveGood
      <3> QED BY <3>2, <3>3
    <2>2. mm.open = m.open /\ Core(mm, ctx)
      <3>1. CASE m.approved
        BY <1>2, <3>1
      <3>2. CASE ~m.approved
        BY <1>2, <1>5, <3>2, ApproveGood DEF Good, Core
      <3> QED BY <3>1, <3>2
    <2> HIDE DEF mm, c
    <2> QED BY <1>1, <1>2, <1>3, <1>5, <2>1, <2>2, CancelledStep
  <1> QED BY <1>4, <1>5

-----------------------------------------------------------------------------
(* The card. *)

LEMMA ErrorMoves ==
    ASSUME IInv, ~Unnoticed(m, ctx), NEW mm, Core(mm, ctx), mm.cur = m.cur, mm.open \subseteq m.open,
           NEW st \in Own, st \notin PrepareApplet,
           NEW c, Like(c, ctx), c.status # "ok", NEW sig, Emit(mm, c, st, sig)
    PROVE  Moved
  <1>1. setup \in Setups /\ Core(mm, c)
    BY Parts DEF Core, CheckedOnce, Decided, Like
  <1>2. mm.cur # "none" /\ (c.cancelled => c.inState)
    BY DEF Unnoticed, Like
  <1>3. Ready(mm, c, st, sig)
    BY <1>1, <1>2, CoreReady
  <1>4. Forward(mm, c, st, sig, smart.chip)
    BY DEF Forward
  <1> QED BY <1>1, <1>3, <1>4, EmitMoves DEF Like

LEMMA CardRemovedStep == IInv /\ CardRemoved => IInv'
  <1> SUFFICES ASSUME IInv, CardRemoved PROVE IInv'
    OBVIOUS
  <1> DEFINE mm == Rest
  <1>1. /\ m.events # <<>> /\ Running /\ Event.type = "removed" /\ UNCHANGED Outside
        /\ IF m.cur \in AbortOnCardRemoved THEN Emit(mm, Failed(ctx), m.cur, "abort")
                                           ELSE m' = mm /\ UNCHANGED ctx
    BY DEF CardRemoved, Handles
  <1>2. /\ setup \in Setups /\ Good(m, ctx, smart.chip) /\ Core(m, ctx) /\ Sound(m)
        /\ ctx \in Contexts
    BY Parts DEF Good, Core
  <1>3. /\ Sound(mm) /\ mm.cur = m.cur /\ mm.approved = m.approved /\ mm.open = m.open
        /\ Calmer(mm, m) /\ Event \in Events
        /\ NoFinalized(m.events) => NoFinalized(mm.events)
    BY <1>1, <1>2, TakeEvent
  <1>4. ~Unnoticed(m, ctx)
    <2> SUFFICES ASSUME Unnoticed(m, ctx) PROVE FALSE
      OBVIOUS
    <2>1. m.events = <<Cancel(First)>>
      BY <1>1, <1>2 DEF Good, QuietStart
    <2> QED BY <1>1, <2>1 DEF Event, Cancel
  <1> HIDE DEF mm
  <1>5. /\ Like(ctx, ctx) /\ Like(Failed(ctx), ctx) /\ Failed(ctx).status # "ok"
    BY <1>2, Likes
  <1>6. CASE m.cur \in AbortOnCardRemoved
    <2>1. Core(mm, ctx)
      BY <1>2, <1>3, CoreCalm DEF Core
    <2>2. m.cur \in Own /\ m.cur \notin PrepareApplet
      BY <1>2, <1>6, Regions, Tables DEF AbortOnCardRemoved, TrustedChannel
    <2>3. Moved
      BY <1>1, <1>3, <1>4, <1>5, <1>6, <2>1, <2>2, ErrorMoves
    <2> QED BY <1>1, <2>3, Outsiders, Closing
  <1>7. CASE m.cur \notin AbortOnCardRemoved
    <2>1. m' = mm /\ ctx' = ctx
      BY <1>1, <1>7
    <2>2. Moved
      BY <1>3, <1>4, <1>5, <2>1, StayMoves
    <2> QED BY <1>1, <2>2, Outsiders, Closing
  <1> QED BY <1>6, <1>7

LEMMA RemoveCardStep == IInv /\ RemoveCard => IInv'
  <1> SUFFICES ASSUME IInv, RemoveCard PROVE IInv'
    OBVIOUS
  <1> DEFINE n == [m EXCEPT !.events = Append(@, Removed)]
  <1>1. /\ card.present /\ m' = n /\ ctx' = ctx
        /\ faults < setup.maxFaults /\ faults' = faults + 1
        /\ card' = [card EXCEPT !.present = FALSE]
        /\ UNCHANGED <<setup, net, smart>>
    BY DEF RemoveCard, Fault
  <1>2. ~Unnoticed(m, ctx) /\ Sound(m) /\ ctx \in Contexts /\ Like(ctx, ctx)
    BY <1>1, Parts, Likes DEF Good
  <1>3. n = [m EXCEPT !.events = Append(@, Removed)]
    OBVIOUS
  <1> HIDE DEF n
  <1>4. /\ Sound(n) /\ n.cur = m.cur /\ n.approved = m.approved /\ n.open = m.open
        /\ NoFinalized(m.events) => NoFinalized(n.events)
        /\ Calmer(n, m)
    <2>1. /\ Sound(m) /\ Removed \in Events /\ Removed.type = "removed" /\ ~Finalized(Removed)
          /\ Removed.type \in {"run", "done"} => Removed.st \in Own
          /\ Removed.type = "cancel" => Removed.st = First
      BY <1>2, EventKinds
    <2> QED BY <1>3, <2>1, GiveEvent
  <1>5. Moved
    BY <1>1, <1>2, <1>4, StayMoves
  <1>6. Aside
    <2>1. faults \in Nat /\ setup.maxFaults \in Nat /\ faults + 1 \in 0..setup.maxFaults
      BY <1>1, Parts, AuthenticationAssumption
    <2> QED BY <1>1, <2>1, Parts DEF Aside, Cards
  <1> QED BY <1>5, <1>6, Closing

LEMMA AtPace ==
    ASSUME IInv, m.cur \in Paces
    PROVE  /\ setup \in Setups /\ Good(m, ctx, smart.chip) /\ Core(m, ctx) /\ Sound(m)
           /\ ctx \in Contexts /\ ~Unnoticed(m, ctx)
           /\ m.cur \in Own /\ m.cur \notin PrepareApplet \cup Careful \cup Over
           /\ ctx.status = "ok" => Idle(m, Own)
           /\ Calmer(m, m)
  <1>1. setup \in Setups /\ Good(m, ctx, smart.chip) /\ Core(m, ctx) /\ Sound(m) /\ ctx \in Contexts
    BY Parts DEF Good, Core
  <1>2. m.cur \notin PrepareApplet \cup Careful \cup Over \cup {"none"} /\ m.cur # First
    BY <1>1, Regions, Tables DEF Paces, Careful, Over
  <1>3. m.cur \in Own /\ ~Unnoticed(m, ctx)
    BY <1>1, <1>2 DEF Sound, OfWorkflow, Good, QuietStart
  <1>4. ctx.status = "ok" => Idle(m, Own)
    BY <1>1, <1>2 DEF Good, AllWell, InStep, Over
  <1> QED BY <1>1, <1>2, <1>3, <1>4 DEF Calmer

LEMMA PaceSucceedsStep == IInv /\ PaceSucceeds => IInv'
  <1> SUFFICES ASSUME IInv, PaceSucceeds PROVE IInv'
    OBVIOUS
  <1> DEFINE c == [ctx EXCEPT !.passwords = TRUE]
  <1>1. /\ m.cur \in Paces /\ Emit(m, c, m.cur, "continue")
        /\ card' = [conn |-> TRUE, paceData |-> TRUE, present |-> TRUE]
        /\ UNCHANGED <<setup, net, smart, faults>>
    BY DEF PaceSucceeds
  <1>2. Like(c, ctx)
    BY <1>1, AtPace, Likes
  <1> HIDE DEF c
  <1>3. WellMeant(m.cur, "continue", c) /\ m.cur # "crashed"
    BY <1>1, AtPace, Meant DEF Over
  <1>4. Moved
    BY <1>1, <1>2, <1>3, AtPace, HandlerMoves
  <1>5. Aside
    BY <1>1, Parts DEF Aside, Cards
  <1> QED BY <1>4, <1>5, Closing

LEMMA PaceFailsStep == IInv /\ PaceFails => IInv'
  <1> SUFFICES ASSUME IInv, PaceFails PROVE IInv'
    OBVIOUS
  <1> DEFINE c == [ctx EXCEPT !.passwords = FALSE]
  <1>1. /\ m.cur \in Paces /\ Emit(m, Failed(c), m.cur, "abort")
        /\ UNCHANGED <<setup, net, smart, faults>>
    BY DEF PaceFails
  <1>2. PICK conn \in BOOLEAN : card' = [card EXCEPT !.conn = conn]
    BY DEF PaceFails
  <1>3. Like(c, ctx)
    BY <1>1, AtPace, Likes
  <1>4. Like(Failed(c), ctx) /\ Failed(c).status # "ok"
    BY <1>1, <1>3, AtPace, Likes
  <1> HIDE DEF c
  <1>5. Moved
    BY <1>1, <1>4, AtPace, ErrorMoves
  <1>6. Aside
    BY <1>1, <1>2, Parts DEF Aside, Cards
  <1> QED BY <1>5, <1>6, Closing

LEMMA StartStep == IInv /\ Start => IInv'
  <1> SUFFICES ASSUME IInv, Start PROVE IInv'
    OBVIOUS
  <1> DEFINE n == Enter(m, ctx, First)
  <1>1. /\ m.cur = "none" /\ m' = n /\ ctx' = ctx
        /\ UNCHANGED <<setup, net, card, smart, faults>>
    BY DEF Start
  <1>2. setup \in Setups /\ Good(m, ctx, smart.chip) /\ Sound(m) /\ ctx \in Contexts
    BY Parts DEF Good
  <1>3. /\ First \in Own
        /\ First \notin After \cup TrustedChannel \cup PrepareApplet \cup Paces \cup Confirmed
        /\ First # "CheckRefreshAddress"
        /\ First \notin WithData \cup Personalized /\ First # "ClearNewPin"
    BY <1>2, Regions, ActionKinds DEF First, WithData, Personalized
  <1>4. n = Enter(m, ctx, First)
    OBVIOUS
  <1> HIDE DEF n
  <1>5. /\ Sound(n) /\ n.cur = First /\ n.cmds = m.cmds /\ n.open = m.open
        /\ NoFinalized(m.events) => NoFinalized(n.events)
        /\ Gives(n, m, First)
        /\ ~n.approved \/ m.approved \/ First \in Paces => Calmer(n, m)
        /\ n.approved = (m.approved \/ First \notin Waiting \/ ctx.killed)
        /\ m.approved => n.events = (IF ctx.cancelled /\ ~ctx.inState
                                     THEN Append(m.events, Cancel(First)) ELSE m.events)
    BY <1>2, <1>3, <1>4, EnterFacts
  <1>6. m.open = {} /\ m.cmds = <<>> /\ m.events = <<>> /\ (ctx.cancelled => ctx.killed /\ m.approved)
    BY <1>1, <1>2 DEF Good, QuietStart, Unnoticed
  <1>7. \A S : Idle(m, S)
    BY <1>6 DEF Idle, NoEvent, NoCommand
  <1>8. (\A S : First \notin S => Idle(n, S)) /\ \A S : Single(n, S)
    BY <1>5, <1>7 DEF Gives
  <1>9. QuietStart(n, ctx)
    <2> SUFFICES ASSUME Unnoticed(n, ctx)
                 PROVE  /\ n.events = <<Cancel(First)>> /\ n.approved /\ ctx.killed
                        /\ n.cur # "none"
      BY <1>5, <1>6 DEF QuietStart
    <2>1. First # "none"
      BY <1>2, Regions
    <2>2. ctx.cancelled /\ ~ctx.inState
      BY <1>5, <2>1 DEF Unnoticed
    <2>3. ctx.killed /\ m.approved
      BY <1>6, <2>2
    <2>4. n.events = Append(<<>>, Cancel(First))
      BY <1>5, <1>6, <2>2, <2>3
    <2>5. Append(<<>>, Cancel(First)) = <<Cancel(First)>>
      OBVIOUS
    <2>6. n.approved
      BY <1>5, <2>3, Zenon
    <2> QED BY <1>5, <2>1, <2>3, <2>4, <2>5, <2>6
  <1>10. Prompt(n) /\ CheckedOnce(n, ctx) /\ OneApplet(n)
    <2>1. Prompt(n)
      BY <1>3, <1>5 DEF Prompt
    <2>2. CheckedOnce(n, ctx)
      BY <1>1, <1>2, <1>3, <1>8, Regions, Tables DEF CheckedOnce, Before, Good, Over
    <2>3. OneApplet(n)
      BY <1>3, <1>5, <1>8 DEF OneApplet, Uninterruptible
    <2> QED BY <2>1, <2>2, <2>3
  <1>11. AllWell(n, ctx, smart.chip)
    <2> SUFFICES ASSUME ctx.status = "ok"
                 PROVE  ~ctx.cancelled /\ InStep(n) /\ Proven(n, ctx, smart.chip)
      BY DEF AllWell
    <2>1. ~ctx.cancelled
      BY <1>1, <1>2 DEF Good, AllWell
    <2>2. InStep(n)
      BY <1>3, <1>5, <1>7, <1>8 DEF InStep, Calmer
    <2>3. NoFinalized(n.events)
      BY <1>5, <1>6 DEF NoFinalized
    <2> QED BY <1>3, <1>5, <2>1, <2>2, <2>3 DEF Proven, NoFinalized
  <1>12. Decided(n, ctx)
    BY <1>1, <1>2 DEF Good, Decided
  <1>13. Good(n, ctx, smart.chip)
    BY <1>2, <1>5, <1>9, <1>10, <1>11, <1>12 DEF Good
  <1>14. ~card.present
    BY <1>1, Parts DEF Unnoticed
  <1> QED BY <1>1, <1>5, <1>13, <1>14, Parts, Primed DEF Addressed, Told, RefreshIsVerified

-----------------------------------------------------------------------------
(* The commands in the other thread. *)

(* The answer to a command is posted if anyone listens, and the chip may   *)
(* be another one afterwards.                                              *)
Answered(n, st, code) ==
    /\ m.cmds # <<>> /\ st = Head(m.cmds).st /\ Done(st, code) \in Events
    /\ n = [m EXCEPT !.cmds = Tail(@),
                     !.events = IF Head(m.cmds).wired THEN Append(@, Done(st, code)) ELSE @]
Leaves(st, code, other) ==
    /\ other # smart.chip => st \in SmartStates
    /\ st = "FinalizePersonalization" /\ code # "abort" => other = "personalized"

LEMMA AnswerFacts ==
    ASSUME IInv, NEW st, NEW code, NEW n, Answered(n, st, code),
           NEW other, Leaves(st, code, other)
    PROVE  /\ Good(n, ctx, other) /\ ~Unnoticed(n, ctx)
           /\ n.open = m.open
  <1> DEFINE mm == [m EXCEPT !.cmds = Tail(@)]
             e  == Done(st, code)
  <1>1. setup \in Setups /\ Good(m, ctx, smart.chip) /\ Sound(m) /\ Like(ctx, ctx)
    BY Parts, Likes DEF Good
  <1>2. /\ Sound(mm) /\ mm.cur = m.cur /\ mm.approved = m.approved
        /\ mm.events = m.events /\ mm.open = m.open
        /\ Head(m.cmds) \in Commands /\ st \in Own
        /\ Takes(mm, m, st)
    BY <1>1, TakeCommand DEF Answered
  <1>3. /\ e \in Events /\ e.type = "done" /\ e.st = st /\ e.code = code
        /\ e.type \in {"run", "done"} => e.st \in Own
        /\ e.type = "cancel" => e.st = First
    BY <1>2 DEF Done, Answered
  <1>4. IF Head(m.cmds).wired THEN n = [mm EXCEPT !.events = Append(@, e)] ELSE n = mm
    <2>1. CASE Head(m.cmds).wired
      BY <2>1 DEF Answered
    <2>2. CASE ~Head(m.cmds).wired
      BY <1>1, <2>2 DEF Sound, Machines, Answered
    <2> QED BY <2>1, <2>2
  <1> HIDE DEF mm, e
  <1>6. /\ Sound(n) /\ n.cur = m.cur /\ n.approved = m.approved /\ n.open = m.open
        /\ Gives(n, mm, st)
        /\ NoFinalized(mm.events) /\ ~Finalized(e) => NoFinalized(n.events)
    <2>1. CASE Head(m.cmds).wired
      <3>1. n = [mm EXCEPT !.events = Append(@, e)]
        BY <1>4, <2>1
      <3>2. /\ Sound(mm) /\ e \in Events /\ (e.type \in {"run", "done"} => e.st \in Own)
            /\ e.type = "cancel" => e.st = First
        BY <1>2, <1>3
      <3>3. /\ Sound(n) /\ n.cur = mm.cur /\ n.approved = mm.approved
            /\ NoFinalized(mm.events) /\ ~Finalized(e) => NoFinalized(n.events)
            /\ n.open = mm.open /\ Gives(n, mm, e.st)
        BY <3>1, <3>2, GiveEvent
      <3> QED BY <1>2, <1>3, <3>3
    <2>2. CASE ~Head(m.cmds).wired
      <3>1. n = mm
        BY <1>4, <2>2
      <3>2. Calmer(mm, mm)
        BY DEF Calmer
      <3> QED BY <1>2, <3>1, <3>2, GivesNothing
    <2> QED BY <2>1, <2>2
  <1>7. Calmer(n, m)
    BY <1>2, <1>6, TakeAndGive
  <1>8. /\ ~Unnoticed(m, ctx)
        /\ ctx.status = "ok" /\ m.cur # "crashed" => st = m.cur /\ Idle(mm, Own)
    BY <1>1, <1>2, Taken
  <1>9. ASSUME ctx.status = "ok", m.cur # "crashed", setup.action = "personalization"
        PROVE  /\ m.cur \in Personalized => other = "personalized"
               /\ \A i \in 1..Len(n.events) : Finalized(n.events[i]) => other = "personalized"
    <2>1. m.cur \in Personalized => smart.chip = "personalized" /\ m.cur \notin SmartStates
      BY <1>1, <1>9, CommandStates DEF Good, AllWell, Proven, Personalized
    <2>2. "FinalizePersonalization" \in Own
      BY <1>9, Tables DEF Own
    <2>3. NoFinalized(mm.events)
      BY <1>8, <1>9, <2>2, IdleParts
    <2>4. Finalized(e) => other = "personalized"
      BY <1>3 DEF Finalized, Leaves
    <2>5. m.cur \in Personalized => other = "personalized"
      BY <1>8, <1>9, <2>1 DEF Leaves
    <2>6. ~Finalized(e) => NoFinalized(n.events)
      BY <1>6, <2>3
    <2> QED BY <2>4, <2>5, <2>6 DEF NoFinalized
  <1>10. /\ Good(m, ctx, smart.chip) /\ ~Unnoticed(m, ctx)
         /\ Sound(n) /\ n.cur = m.cur /\ n.approved = m.approved /\ Calmer(n, m)
         /\ Like(ctx, ctx)
         /\ ctx.status = "ok" /\ m.cur # "crashed" /\ setup.action = "personalization" =>
                /\ m.cur \in Personalized => other = "personalized"
                /\ \A i \in 1..Len(n.events) : Finalized(n.events[i]) => other = "personalized"
    BY <1>1, <1>6, <1>7, <1>8, <1>9
  <1>11. Good(n, ctx, other) /\ ~Unnoticed(n, ctx)
    BY <1>10, CalmGood
  <1> QED BY <1>6, <1>11

LEMMA ExecuteStep == IInv /\ Execute => IInv'
  <1> SUFFICES ASSUME IInv, Execute PROVE IInv'
    OBVIOUS
  <1> DEFINE st == Head(m.cmds).st
             n(code) == [m EXCEPT !.cmds = Tail(@),
                                  !.events = IF Head(m.cmds).wired THEN Append(@, Done(st, code))
                                             ELSE @]
  <1>1. /\ m.cmds # <<>> /\ st \in CardStates /\ UNCHANGED <<setup, ctx, net, card, smart>>
        /\ faults' = faults \/ Fault
    BY DEF Execute
  <1>2. PICK code \in {"ok", "unexpected", "failed"} : m' = n(code)
    BY DEF Execute
  <1>3. faults' \in 0..setup.maxFaults
    <2>1. faults \in 0..setup.maxFaults /\ setup.maxFaults \in Nat
      BY Parts, AuthenticationAssumption
    <2> QED BY <1>1, <2>1 DEF Fault
  <1>4. Done(st, code) \in Events
    BY <1>1 DEF Done, Events
  <1>5. st # "FinalizePersonalization"
    BY <1>1, CommandStates
  <1>6. st = Head(m.cmds).st /\ n(code) = [m EXCEPT !.cmds = Tail(@),
                                  !.events = IF Head(m.cmds).wired THEN Append(@, Done(st, code))
                                             ELSE @]
    OBVIOUS
  <1> HIDE DEF st, n
  <1>7. Good(n(code), ctx, smart.chip) /\ ~Unnoticed(n(code), ctx) /\ n(code).open = m.open
    <2> DEFINE k == n(code)
               chip == smart.chip
    <2>1. Answered(k, st, code) /\ Leaves(st, code, chip)
      BY <1>1, <1>4, <1>5, <1>6 DEF Answered, Leaves
    <2> HIDE DEF k, chip
    <2>2. Good(k, ctx, chip) /\ ~Unnoticed(k, ctx) /\ k.open = m.open
      BY <2>1, AnswerFacts
    <2> QED BY <2>2 DEF k, chip
  <1>8. Moved
    BY <1>1, <1>2, <1>7 DEF Moved
  <1>9. Aside
    BY <1>1, <1>3, Parts DEF Aside
  <1> QED BY <1>8, <1>9, Closing

LEMMA OutcomesFacts ==
    ASSUME smart \in Smarts, NEW st \in SmartStates,
           NEW o, o \in IF st = "FinalizePersonalization" THEN OutcomesOfFinalize ELSE Outcomes(st)
    PROVE  /\ o.code \in {"continue", "abort", "install", "clean", "remove"}
           /\ o.type \in {"unknown", "applet", "nonApplet"}
           /\ o.chip \in {"absent", "blank", "unusable", "begun", "personalized"}
           /\ st = "FinalizePersonalization" /\ o.code # "abort" => o.chip = "personalized"
  <1> DEFINE Fine(x) == /\ x.code \in {"continue", "abort", "install", "clean", "remove"}
                        /\ x.type \in {"unknown", "applet", "nonApplet"}
                        /\ x.chip \in {"absent", "blank", "unusable", "begun", "personalized"}
  <1>1. \A code \in {"continue", "abort", "install", "clean", "remove"} :
        \A chip \in {"absent", "blank", "unusable", "begun", "personalized"} :
            Fine(Outcome(code, chip))
    BY DEF Smarts, Outcome
  <1>2. smart.chip \in {"absent", "blank", "unusable", "begun", "personalized"}
    BY DEF Smarts
  <1>3. \A type \in {"applet", "nonApplet"} :
            Fine([Outcome("continue", smart.chip) EXCEPT !.type = type])
    BY <1>2 DEF Outcome
  <1> HIDE DEF Fine
  <1>4. CASE st = "FinalizePersonalization"
    <2>1. Fine(o)
      BY <1>1, <1>4 DEF OutcomesOfFinalize
    <2>2. o.code # "abort" => o.chip = "personalized"
      BY <1>4 DEF OutcomesOfFinalize, Outcome
    <2> QED BY <2>1, <2>2 DEF Fine
  <1>5. CASE st # "FinalizePersonalization"
    <2>1. o \in Outcomes(st)
      BY <1>5
    <2>2. o = Outcome("abort", smart.chip) => Fine(o)
      BY <1>1, <1>2
    <2>3. ASSUME o # Outcome("abort", smart.chip) PROVE Fine(o)
      <3>1. CASE st = "CheckApplet"
        BY <1>1, <1>2, <2>1, <2>3, <3>1 DEF Outcomes
      <3>2. CASE st = "InstallApplet"
        BY <1>1, <1>2, <2>1, <2>3, <3>2 DEF Outcomes
      <3>3. CASE st \in {"DeletePersonalization", "DeleteApplet", "InitializePersonalization",
                         "TransmitPersonalization"}
        BY <1>1, <1>2, <2>1, <2>3, <3>3 DEF Outcomes
      <3>4. CASE st = "UpdateSupportInfo"
        BY <1>1, <1>2, <2>1, <2>3, <3>4 DEF Outcomes
      <3>5. CASE st = "GetServiceInformation"
        BY <1>3, <2>1, <2>3, <3>5 DEF Outcomes
      <3> QED BY <1>5, <3>1, <3>2, <3>3, <3>4, <3>5, CommandStates
    <2> QED BY <1>5, <2>2, <2>3 DEF Fine
  <1> QED BY <1>4, <1>5

LEMMA ExecuteSmartStep == IInv /\ ExecuteSmart => IInv'
  <1> SUFFICES ASSUME IInv, ExecuteSmart PROVE IInv'
    OBVIOUS
  <1> DEFINE st == Head(m.cmds).st
             n(code) == [m EXCEPT !.cmds = Tail(@),
                                  !.events = IF Head(m.cmds).wired THEN Append(@, Done(st, code))
                                             ELSE @]
  <1>1. m.cmds # <<>> /\ st \in SmartStates /\ UNCHANGED <<setup, ctx, net, card, faults>>
    BY DEF ExecuteSmart
  <1>2. PICK o \in IF st = "FinalizePersonalization" THEN OutcomesOfFinalize ELSE Outcomes(st) :
            /\ smart' = [smart EXCEPT !.chip = o.chip, !.type = o.type]
            /\ m' = n(o.code)
    BY DEF ExecuteSmart
  <1>3. smart \in Smarts
    BY Parts
  <1>4. /\ o.code \in {"continue", "abort", "install", "clean", "remove"}
        /\ o.type \in {"unknown", "applet", "nonApplet"}
        /\ o.chip \in {"absent", "blank", "unusable", "begun", "personalized"}
        /\ st = "FinalizePersonalization" /\ o.code # "abort" => o.chip = "personalized"
    BY <1>1, <1>2, <1>3, OutcomesFacts
  <1>5. smart' \in Smarts /\ smart'.chip = o.chip
    BY <1>2, <1>3, <1>4 DEF Smarts
  <1>6. Done(st, o.code) \in Events
    BY <1>1, <1>4 DEF Done, Events
  <1>7. st = Head(m.cmds).st /\ n(o.code) = [m EXCEPT !.cmds = Tail(@),
                                  !.events = IF Head(m.cmds).wired THEN Append(@, Done(st, o.code))
                                             ELSE @]
    OBVIOUS
  <1> HIDE DEF st, n
  <1>8. Good(n(o.code), ctx, o.chip) /\ ~Unnoticed(n(o.code), ctx) /\ n(o.code).open = m.open
    <2> DEFINE k == n(o.code)
               code == o.code
               chip == o.chip
    <2>1. Answered(k, st, code) /\ Leaves(st, code, chip)
      BY <1>1, <1>4, <1>6, <1>7 DEF Answered, Leaves
    <2> HIDE DEF k, code, chip
    <2>2. Good(k, ctx, chip) /\ ~Unnoticed(k, ctx) /\ k.open = m.open
      BY <2>1, AnswerFacts
    <2> QED BY <2>2 DEF k, chip
  <1>9. Good(m', ctx', smart'.chip) /\ ~Unnoticed(m', ctx') /\ m'.open = m.open
    BY <1>1, <1>2, <1>5, <1>8
  <1>10. Addressed(m', net'.url)
    BY <1>1, <1>9, Parts DEF Addressed
  <1>11. /\ net'.browser = "ok" => ctx'.result = "ok"
         /\ ctx'.refresh \in Urls => ctx'.refresh \in net'.verified
    BY <1>1, Parts DEF Told, RefreshIsVerified
  <1> QED BY <1>1, <1>5, <1>9, <1>10, <1>11, Parts, Primed

-----------------------------------------------------------------------------
(* The new PIN of the Smart-eID. *)

LEMMA SetPinMoves ==
    ASSUME IInv, NEW mm, Sound(mm), mm.cur = m.cur, mm.approved = m.approved,
           mm.open \subseteq m.open, Takes(mm, m, "ChangeSmartPin"), "ChangeSmartPin" \in Own,
           NoFinalized(m.events) => NoFinalized(mm.events),
           m' = CallSetEidPin(mm), UNCHANGED ctx
    PROVE  Moved
  <1> DEFINE cmd == [st |-> "ChangeSmartPin", wired |-> TRUE]
  <1>1. setup \in Setups /\ Good(m, ctx, smart.chip) /\ Like(ctx, ctx)
    BY Parts, Likes DEF Good
  <1>2. ~Unnoticed(m, ctx) /\ ctx.result # "ok" /\ Calmer(mm, m)
    BY <1>1, Taken
  <1>3. CASE card.conn
    <2> DEFINE n == [mm EXCEPT !.cmds = Append(@, cmd)]
    <2>1. m' = n
      BY <1>3 DEF CallSetEidPin
    <2>2. cmd \in Commands /\ cmd.st = "ChangeSmartPin"
      BY CommandStates DEF Commands
    <2>3. n = [mm EXCEPT !.cmds = Append(@, cmd)]
      OBVIOUS
    <2> HIDE DEF n, cmd
    <2>4. /\ Sound(n) /\ n.cur = mm.cur /\ n.approved = mm.approved
          /\ n.events = mm.events /\ n.open = mm.open
          /\ Gives(n, mm, "ChangeSmartPin")
      BY <2>2, <2>3, GiveCommand
    <2>5. Calmer(n, m)
      BY <2>4, TakeAndGive
    <2>6. "CheckRefreshAddress" \in n.open => "CheckRefreshAddress" \in m.open
      BY <2>4
    <2> QED BY <1>1, <1>2, <2>1, <2>4, <2>5, <2>6, StayMoves
  <1>4. CASE ~card.conn
    <2> DEFINE n == [mm EXCEPT !.cur = "crashed"]
    <2>1. m' = n
      BY <1>4 DEF CallSetEidPin
    <2>2. Sound(n) /\ n.cur = "crashed" /\ n.open = mm.open /\ Calmer(n, mm)
      BY CrashedFacts
    <2> HIDE DEF n
    <2>3. Calmer(n, m)
      BY <1>2, <2>2 DEF Calmer
    <2> QED BY <1>2, <2>1, <2>2, <2>3, CrashMoves
  <1> QED BY <1>3, <1>4

LEMMA ChangeSmartPinStep == IInv /\ RunChangeSmartPin => IInv'
  <1> SUFFICES ASSUME IInv, RunChangeSmartPin PROVE IInv'
    OBVIOUS
  <1>1. Runs("ChangeSmartPin") /\ UNCHANGED ctx /\ UNCHANGED Outside
    BY DEF RunChangeSmartPin, Outside
  <1>2. CASE smart.newPin
    <2>1. m' = CallSetEidPin(Rest)
      BY <1>2 DEF RunChangeSmartPin
    <2>2. /\ Sound(Rest) /\ Rest.cur = m.cur /\ Rest.approved = m.approved /\ Rest.open = m.open
          /\ Takes(Rest, m, "ChangeSmartPin") /\ "ChangeSmartPin" \in Own
          /\ NoFinalized(m.events) => NoFinalized(Rest.events)
      <3> HIDE DEF Rest
      <3> QED BY <1>1, EventTaken
    <2> HIDE DEF Rest
    <2>3. Moved
      BY <1>1, <2>1, <2>2, SetPinMoves
    <2> QED BY <1>1, <2>3, Outsiders, Closing
  <1>3. CASE ~smart.newPin
    <2>1. m' = Request("ChangeSmartPin")
      BY <1>3 DEF RunChangeSmartPin
    <2>2. "ChangeSmartPin" \in Requesters /\ Like(ctx', ctx)
      BY <1>1, Parts, Likes DEF Requesters, Good
    <2> QED BY <1>1, <2>1, <2>2, RequestMoves, Outsiders, Closing
  <1> QED BY <1>2, <1>3

LEMMA EnterSmartPinStep == IInv /\ EnterSmartPin => IInv'
  <1> SUFFICES ASSUME IInv, EnterSmartPin PROVE IInv'
    OBVIOUS
  <1>1. UNCHANGED <<setup, ctx, net, card, faults>> /\ smart' = [smart EXCEPT !.newPin = TRUE]
    BY DEF EnterSmartPin
  <1>2. Aside
    BY <1>1, Parts DEF Aside, Smarts
  <1>3. /\ setup \in Setups /\ Good(m, ctx, smart.chip) /\ Sound(m) /\ ctx \in Contexts
        /\ Like(ctx, ctx)
    BY Parts, Likes DEF Good
  <1>4. CASE m.cur = "EnterNewPin" /\ ~m.approved /\ m' = Approved(m)
    <2>1. m.cur \in Own
      BY <1>3, <1>4 DEF Sound, OfWorkflow, Over
    <2> QED BY <1>1, <1>2, <1>4, <2>1, ApproveMoves, Closing
  <1>5. CASE /\ m.cur \in PinView
             /\ m' = IF "ChangeSmartPin" \in m.open
                     THEN CallSetEidPin(Replied("ChangeSmartPin")) ELSE m
    <2>1. m.cur \notin Over \cup {"none"} /\ Running /\ m.cur # First
      BY <1>5 DEF PinView, Over, Running, First
    <2>2. CASE "ChangeSmartPin" \in m.open
      <3> DEFINE mm == Replied("ChangeSmartPin")
      <3>1. /\ Sound(mm) /\ mm.cur = m.cur /\ mm.approved = m.approved /\ mm.events = m.events
            /\ mm.open = m.open \ {"ChangeSmartPin"} /\ "ChangeSmartPin" \in Own
        <4> HIDE DEF Replied
        <4> QED BY <2>1, <2>2, ReplyTaken
      <3>2. Takes(mm, m, "ChangeSmartPin")
        BY <1>3, <2>2, TakeReply DEF Replied
      <3>3. m' = CallSetEidPin(mm) /\ ctx' = ctx
        BY <1>1, <1>5, <2>2
      <3> HIDE DEF mm
      <3>4. Moved
        BY <3>1, <3>2, <3>3, SetPinMoves
      <3> QED BY <1>2, <3>4, Closing
    <2>3. CASE "ChangeSmartPin" \notin m.open
      <3>1. m' = m /\ ctx' = ctx
        BY <1>1, <1>5, <2>3
      <3>2. ~Unnoticed(m, ctx)
        BY <1>3, <2>1 DEF Good, QuietStart
      <3>3. Moved
        BY <1>3, <3>1, <3>2 DEF Moved
      <3> QED BY <1>2, <3>3, Closing
    <2> QED BY <2>2, <2>3
  <1> QED BY <1>4, <1>5 DEF EnterSmartPin

-----------------------------------------------------------------------------
(* The invariant. *)

LEMMA InitOK == Init => IInv
  <1> SUFFICES ASSUME Init PROVE IInv
    OBVIOUS
  <1>1. /\ setup \in Setups /\ m.cur = "none" /\ m.approved = FALSE
        /\ m.events = <<>> /\ m.open = {} /\ m.cmds = <<>>
        /\ ctx.killed = FALSE /\ ctx.cancelled = FALSE /\ ctx.inState = FALSE
        /\ ctx.status = "ok" /\ ctx.refresh = "none" /\ ctx.result = "none"
        /\ net.browser = "none" /\ card.present = FALSE /\ faults = 0
    BY DEF Init
  <1>2. ctx \in Contexts /\ net \in Nets /\ card \in Cards /\ smart \in Smarts
    <2>1. setup.maxTransmits \in Nat /\ setup.maxRedirects \in Nat
      BY <1>1, AuthenticationAssumption
    <2>2. ctx \in Contexts /\ card \in Cards /\ smart \in Smarts
      BY DEF Init, Contexts, Cards, Smarts
    <2>3. 0 \in 0..setup.maxTransmits /\ 0 \in 0..setup.maxRedirects
      BY <2>1
    <2>4. net \in Nets
      BY <2>3 DEF Init, Nets
    <2> QED BY <2>2, <2>4
  <1>3. m \in Machines
    BY DEF Init, Machines
  <1>4. Sound(m)
    BY <1>1, <1>3 DEF Sound, OfWorkflow
  <1>5. \A S : Idle(m, S) /\ Single(m, S)
    BY <1>1 DEF Idle, Single, NoEvent, NoCommand, OneEvent, OneCommand
  <1>6. "none" \notin Urls /\ "none" \notin Own \cup Over
    BY <1>1, Regions, AuthenticationAssumption DEF Over
  <1>7. QuietStart(m, ctx) /\ Prompt(m) /\ CheckedOnce(m, ctx) /\ OneApplet(m) /\ Decided(m, ctx)
    <2>1. QuietStart(m, ctx) /\ Decided(m, ctx)
      BY <1>1 DEF QuietStart, Decided
    <2>2. Prompt(m)
      BY <1>1, Tables DEF Prompt, Paces
    <2>3. CheckedOnce(m, ctx) /\ OneApplet(m)
      BY <1>1, <1>5, <1>6 DEF CheckedOnce, OneApplet
    <2> QED BY <2>1, <2>2, <2>3
  <1>8. AllWell(m, ctx, smart.chip)
    <2>1. m.cur \notin Confirmed \cup WithData \cup Personalized \cup {"ClearNewPin"}
      BY <1>1, Tables DEF Confirmed, WithData, Personalized
    <2> QED BY <1>1, <1>5, <2>1 DEF AllWell, InStep, Proven
  <1>9. Good(m, ctx, smart.chip)
    BY <1>1, <1>2, <1>4, <1>7, <1>8 DEF Good
  <1>10. faults \in 0..setup.maxFaults
    BY <1>1, AuthenticationAssumption
  <1> QED BY <1>1, <1>2, <1>6, <1>9, <1>10, Parts DEF Addressed, Told, RefreshIsVerified

LEMMA StutterStep == IInv /\ UNCHANGED vars => IInv'
  <1> SUFFICES ASSUME IInv, UNCHANGED vars PROVE IInv'
    OBVIOUS
  <1>1. UNCHANGED <<setup, m, ctx, net, card, smart, faults>>
    BY DEF vars
  <1> QED BY <1>1, Parts, Primed DEF Unnoticed, Told, RefreshIsVerified

LEMMA MainThreadStep == IInv /\ MainThread => IInv'
  <1> SUFFICES ASSUME IInv, MainThread PROVE IInv'
    OBVIOUS
  <1>1. CASE \/ RunLoadTcTokenUrl \/ RunStartPaos \/ RunInitializeFramework \/ RunEditAccessRights
             \/ RunStoreFeedback \/ RunSurvey \/ RunShowResult \/ RunFinal
    BY <1>1, ContinuesStep DEF Careful, RunLoadTcTokenUrl, RunStartPaos, RunInitializeFramework,
       RunEditAccessRights, RunStoreFeedback, RunSurvey, RunShowResult, RunFinal
  <1>2. CASE \/ RunParseTcTokenUrl \/ RunExtractCvcs \/ RunPreVerification
             \/ RunCertificateDescriptionCheck \/ RunCheckCertificates
    BY <1>2, ChecksStep DEF Careful, RunParseTcTokenUrl, RunExtractCvcs, RunPreVerification,
       RunCertificateDescriptionCheck, RunCheckCertificates
  <1>3. CASE RunProcessCertificates \/ RunEacAdditional \/ RunCheckError \/ RunRedirectBrowser
    BY <1>3, ProcessCertificatesStep, EacAdditionalStep, CheckErrorStep, RedirectBrowserStep
  <1>4. CASE RunClear
    BY <1>4, ClearsStep DEF Careful, RunClear
  <1>5. CASE RunCleanUp
    BY <1>5, CleansUpStep DEF Careful, RunCleanUp
  <1>6. CASE RunStartPaosResponse
    BY <1>6, LooksAtResponseStep DEF RunStartPaosResponse
  <1>7. CASE HandleCancel \/ RunSend \/ RunCheckRefreshAddress \/ CardRemoved
    BY <1>7, HandleCancelStep, SendStep, CheckRefreshAddressStep, CardRemovedStep
  <1>8. CASE RunGetTcToken \/ RunGetData
    BY <1>8, GetsStep DEF Requesters, RunGetTcToken, RunGetData
  <1>9. CASE RunEac1 \/ RunTransmit
    BY <1>9, CardCommandStep, CommandStates DEF RunEac1, RunTransmit
  <1>10. CASE RunDestroyPace \/ RunUpdateFinal
    BY <1>10, FinalCommandStep, CommandStates DEF RunDestroyPace, RunUpdateFinal
  <1>11. CASE Eac1Done \/ Eac2Done
    BY <1>11, CommandDoneStep, CommandStates DEF Eac1Done, Eac2Done
  <1>12. CASE RunEac2 \/ TransmitDone \/ UpdateFinalDone
    BY <1>12, Eac2Step, TransmitDoneStep, UpdateFinalDoneStep
  <1>13. CASE DestroyPaceDone
    BY <1>13, PaceDestroyedStep, CommandStates DEF DestroyPaceDone
  <1> QED BY <1>1, <1>2, <1>3, <1>4, <1>5, <1>6, <1>7, <1>8, <1>9, <1>10, <1>11, <1>12, <1>13
          DEF MainThread

LEMMA RepliesStep == IInv /\ Replies => IInv'
  <1> SUFFICES ASSUME IInv, Replies PROVE IInv'
    OBVIOUS
  <1>1. CASE ReplyFailure \/ TokenFailure \/ DataFailure \/ RefreshFailure
    BY <1>1, FailsStep DEF ReplyFailure, TokenFailure, DataFailure, RefreshFailure
  <1>2. CASE ReplyExpected \/ ReplyResponse \/ ReplyToken \/ ReplyData
    BY <1>2, ExpectedStep, ResponseStep, TokenStep, DataStep
  <1>3. CASE ReplyRedirect \/ ReplyCertificate
    BY <1>3, RedirectStep, CertificateStep
  <1> QED BY <1>1, <1>2, <1>3 DEF Replies

LEMMA SmartMainThreadStep == IInv /\ SmartMainThread => IInv'
  <1> SUFFICES ASSUME IInv, SmartMainThread PROVE IInv'
    OBVIOUS
  <1>1. CASE \/ RunCheckApplet \/ RunInstallApplet \/ RunDeletePersonalization \/ RunDeleteApplet
             \/ RunUpdateSupportInfo \/ RunGetServiceInformation \/ RunInitializePersonalization
             \/ RunTransmitPersonalization \/ RunFinalizePersonalization
    BY <1>1, SmartCommandStep, CommandStates DEF RunCheckApplet, RunInstallApplet,
       RunDeletePersonalization, RunDeleteApplet, RunUpdateSupportInfo, RunGetServiceInformation,
       RunInitializePersonalization, RunTransmitPersonalization, RunFinalizePersonalization
  <1>2. CASE \/ CheckAppletDone \/ InstallAppletDone \/ DeletePersonalizationDone \/ DeleteAppletDone
             \/ UpdateSupportInfoDone \/ GetServiceInformationDone \/ InitializePersonalizationDone
             \/ TransmitPersonalizationDone
    BY <1>2, SmartDoneStep, CommandStates DEF Careful, CheckAppletDone, InstallAppletDone,
       DeletePersonalizationDone, DeleteAppletDone, UpdateSupportInfoDone,
       GetServiceInformationDone, InitializePersonalizationDone, TransmitPersonalizationDone
  <1>3. CASE FinalizePersonalizationDone \/ RunInsertCard \/ RunChangeSmartPin
    BY <1>3, FinalizeDoneStep, InsertCardStep, ChangeSmartPinStep
  <1>4. CASE RunCheckStatus
    BY <1>4, ChecksStep DEF Careful, RunCheckStatus
  <1>5. CASE RunLoadSmartTcTokenUrl \/ RunEnterNewPin \/ RunStartPaosPersonalization
    BY <1>5, ContinuesStep DEF Careful, RunLoadSmartTcTokenUrl, RunEnterNewPin,
       RunStartPaosPersonalization
  <1>6. CASE RunStartPaosPersonalizationResponse
    BY <1>6, LooksAtResponseStep DEF RunStartPaosPersonalizationResponse
  <1>7. CASE RunClearNewPin \/ RunClearAll
    BY <1>7, ClearsStep DEF Careful, RunClearNewPin, RunClearAll
  <1>8. CASE RunCleanUpSmart
    BY <1>8, CleansUpStep DEF Careful, RunCleanUpSmart
  <1>9. CASE RunGetSessionId \/ RunGetChallenge \/ RunPreparePersonalization
    BY <1>9, GetsStep DEF Requesters, RunGetSessionId, RunGetChallenge, RunPreparePersonalization
  <1>10. CASE ChangeSmartPinDone
    BY <1>10, CommandDoneStep, CommandStates DEF ChangeSmartPinDone
  <1>11. CASE RunDestroySmartPace
    BY <1>11, FinalCommandStep, CommandStates DEF RunDestroySmartPace
  <1>12. CASE DestroySmartPaceDone
    BY <1>12, PaceDestroyedStep, CommandStates DEF DestroySmartPaceDone
  <1> QED BY <1>1, <1>2, <1>3, <1>4, <1>5, <1>6, <1>7, <1>8, <1>9, <1>10, <1>11, <1>12
          DEF SmartMainThread

LEMMA StepOK == IInv /\ [WorkflowNext]_vars => IInv'
  <1> SUFFICES ASSUME IInv, [WorkflowNext]_vars PROVE IInv'
    OBVIOUS
  <1>1. CASE Start \/ Execute \/ PaceSucceeds \/ PaceFails \/ RemoveCard
    BY <1>1, StartStep, ExecuteStep, PaceSucceedsStep, PaceFailsStep, RemoveCardStep
  <1>2. CASE MainThread \/ Replies \/ SmartMainThread
    BY <1>2, MainThreadStep, RepliesStep, SmartMainThreadStep
  <1>3. CASE Users
    BY <1>3, ConfirmStep, CancelWorkflowStep, KillWorkflowStep DEF Users
  <1>4. CASE ExecuteSmart \/ ReplyProvider \/ SmartReaderScanned \/ EnterSmartPin
    BY <1>4, ExecuteSmartStep, ProviderStep, ScannedStep, EnterSmartPinStep
  <1>5. CASE Terminated \/ UNCHANGED vars
    BY <1>5, StutterStep DEF Terminated
  <1> QED BY <1>1, <1>2, <1>3, <1>4, <1>5 DEF WorkflowNext, Next

(* As long as nothing went wrong, only the current state is busy: this is  *)
(* an invariant of every workflow, with what each region of the state      *)
(* graph has confirmed.                                                    *)
THEOREM Invariance == WorkflowSpec => []IInv
  BY InitOK, StepOK, PTL DEF WorkflowSpec

(* Every variable keeps its type, whatever the servers, the card and the   *)
(* user do.                                                                *)
THEOREM TypeCorrect == WorkflowSpec => []TypeOK
  <1>1. IInv => TypeOK
    BY DEF IInv
  <1> QED BY <1>1, Invariance, PTL

(* StateCheckRefreshAddress: a refresh address the browser may be sent to  *)
(* is one whose certificate was checked, however many redirects led there. *)
THEOREM AddressesAreVerified == WorkflowSpec => []RefreshIsVerified
  <1>1. IInv => RefreshIsVerified
    BY DEF IInv
  <1> QED BY <1>1, Invariance, PTL

(* What the user and the provider are told: a workflow that ends without   *)
(* an error was confirmed by the server, a self-authentication with its    *)
(* data, a personalization by the chip, and the browser only hears of      *)
(* success that was.                                                       *)
THEOREM ResultsAreTruthful == WorkflowSpec => []ResultIsTruthful
  <1>1. ASSUME IInv PROVE ResultIsTruthful
    <2>1. ASSUME m.cur \in {"Final", "stopped"}, ctx.status = "ok"
          PROVE  /\ ctx.paos = "ok"
                 /\ setup.action = "selfAuth" => ctx.data
                 /\ setup.action = "personalization" => smart.chip = "personalized"
      <3>1. Proven(m, ctx, smart.chip)
        BY <1>1, <2>1 DEF IInv, AllWell
      <3>2. m.cur \in Confirmed /\ m.cur \in WithData /\ m.cur \in Personalized
        BY <2>1, Tables DEF Confirmed, WithData, Personalized
      <3> QED BY <3>1, <3>2 DEF Proven
    <2>2. net.browser = "ok" => ctx.paos = "ok"
      BY <1>1 DEF IInv, Told, Decided
    <2> QED BY <2>1, <2>2 DEF ResultIsTruthful
  <1> QED BY <1>1, Invariance, PTL

(* The functions of the applet run in the other thread on behalf of their  *)
(* state: none is left to run when the workflow is over.                   *)
THEOREM CommandsAreAwaited == WorkflowSpec => []SmartCommandsAreAwaited
  <1>1. ASSUME IInv PROVE SmartCommandsAreAwaited
    <2> SUFFICES ASSUME m.cur = "stopped",
                        NEW i \in DOMAIN m.cmds
                 PROVE  m.cmds[i].st \notin Uninterruptible
      BY DEF SmartCommandsAreAwaited
    <2>1. "stopped" \notin Uninterruptible
      BY Tables DEF Uninterruptible
    <2>2. Idle(m, Uninterruptible \ {m.cur})
      BY <1>1 DEF IInv, OneApplet
    <2>3. i \in 1..Len(m.cmds)
      <3>1. m.cmds \in Seq(Commands)
        BY <1>1, TypeParts DEF IInv, Machines
      <3> QED BY <3>1
    <2> QED BY <2>1, <2>2, <2>3 DEF Idle, NoCommand
  <1> QED BY <1>1, Invariance, PTL
=============================================================================
