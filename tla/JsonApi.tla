------------------------------ MODULE JsonApi ------------------------------
(***************************************************************************)
(* The JSON API a program drives the application with: the web socket      *)
(* plugin (ui/websocket), the JSON plugin and its MessageDispatcher with   *)
(* the message handlers (ui/json), between one client after the other, the *)
(* queue of the AppController, the states of the active workflow and the   *)
(* card readers.                                                           *)
(*                                                                         *)
(* All of it runs on the main thread; commands and disconnects of clients, *)
(* posted events, state changes and reader events interleave.  A workflow  *)
(* is the sequence of its states, of which the API tells apart those that  *)
(* wait for a command; AppController, ChangePin and Authentication model   *)
(* what is inside.  A command that is answered with BAD_STATE or with an   *)
(* error changes nothing and is no action.                                 *)
(***************************************************************************)
EXTENDS Naturals, Sequences

CONSTANTS
    Readers,        \* card readers
    Levels,         \* API levels a client may ask for (1..3 in the code)
    MaxRequests,    \* workflows requested in one behaviour
    MaxClients      \* clients accepted in one behaviour

ASSUME BoundsAssumption == MaxRequests \in Nat /\ MaxClients \in Nat /\ Levels \subseteq 1..3

VARIABLES
    conn,           \* the web socket plugin: mRequest, mConnection and mUiDomination
    enabled,        \* UiPluginJson::mEnabled
    ctx,            \* the dispatcher's MsgContext has a workflow (mContext)
    last,           \* the last of its mStateMessages
    level,          \* its mApiLevel
    developerMode,  \* VolatileSettings::mDeveloperMode
    inbox,          \* posted to the controller: requests, and the end of the workflow
    waiting,        \* what kind of workflow AppController::mWaitingRequest is
    wf,             \* the active workflow
    cards,          \* what the ReaderManager knows of each reader
    told,           \* what the connected client was last told of its workflow
    requests,       \* workflows requested so far
    clients         \* clients accepted so far

json    == <<enabled, ctx, last, developerMode>>
counted == <<requests, clients>>
vars    == <<conn, json, level, inbox, waiting, wf, cards, told, counted>>

(* The states the API knows; all that it approves unseen are "Other". *)
Dialogs     == {"EnterPin", "EnterCan", "EnterPuk", "EnterNewPin", "EditAccessRights",
                "UnfortunateCardPosition"}
States      == Dialogs \cup {"SelectReader", "Other", "Final"}
Kinds       == {"AUTH", "CHANGE_PIN", "REMOTE_SERVICE"}
SdkKinds    == {"AUTH", "CHANGE_PIN"}
StatesOf(k) ==
    CASE k = "AUTH"       -> States \ {"EnterNewPin"}
      [] k = "CHANGE_PIN" -> States \ {"EditAccessRights"}
      [] OTHER            -> {"Other", "Final"}

(* A reader has no card, one that is no ID card, an ID card it is too      *)
(* small for (insufficientApduLength), or an ID card it can be used with.  *)
CardStates     == {"none", "other", "small", "eid"}
HasEid(cs)     == \E r \in Readers : cs[r] \in {"small", "eid"}
Selectable(cs) == \E r \in Readers : cs[r] = "eid"

(* getStateMsgType *)
StateMsgType(s) ==
    CASE s = "EnterPin"                -> "ENTER_PIN"
      [] s = "EnterCan"                -> "ENTER_CAN"
      [] s = "EnterPuk"                -> "ENTER_PUK"
      [] s = "EnterNewPin"             -> "ENTER_NEW_PIN"
      [] s = "EditAccessRights"        -> "ACCESS_RIGHTS"
      [] s = "SelectReader"            -> "INSERT_CARD"
      [] s = "UnfortunateCardPosition" -> "PAUSE"
      [] OTHER                         -> "VOID"

StateMsgs == {StateMsgType(s) : s \in States}
NoMsg     == [type |-> "VOID", sent |-> FALSE]

NoWorkflow == [kind |-> "none", state |-> "none", approved |-> FALSE, cancelled |-> FALSE,
               claimed |-> "nobody", heard |-> FALSE]
Active     == wf.kind # "none"

Request(k, from) == [kind |-> k, from |-> from]
Finished         == Request("finished", "controller")

Events    == [kind : Kinds, from : {"client", "other"}] \cup {Finished}
Workflows == [kind : Kinds, state : States \cup {"Start", "Stopped"}, approved : BOOLEAN,
              cancelled : BOOLEAN, claimed : {"qml", "websocket"}, heard : BOOLEAN]

TypeOK ==
    /\ conn \in {"none", "handshake", "open"}
    /\ enabled \in BOOLEAN /\ ctx \in BOOLEAN /\ developerMode \in BOOLEAN
    /\ last \in [type : StateMsgs, sent : BOOLEAN]
    /\ level \in 1..3
    /\ inbox \in Seq(Events)
    /\ waiting \in Kinds \cup {"none"}
    /\ wf \in Workflows \cup {NoWorkflow}
    /\ cards \in [Readers -> CardStates]
    /\ told \in StateMsgs \cup {"nothing", "started"}
    /\ requests \in 0..MaxRequests /\ clients \in 0..MaxClients

Init ==
    /\ conn = "none" /\ enabled = FALSE
    /\ ctx = FALSE /\ last = NoMsg
    /\ level = 3 /\ developerMode = FALSE
    /\ inbox = <<>> /\ waiting = "none" /\ wf = NoWorkflow
    /\ cards \in [Readers -> CardStates]
    /\ told = "nothing"
    /\ requests = 0 /\ clients = 0

Post(e) == inbox' = Append(inbox, e)

(* A state message is kept; one that is not void goes to the client. *)
Tell(msg) ==
    /\ last' = msg
    /\ told' = IF msg.sent /\ conn = "open" THEN msg.type ELSE told

-----------------------------------------------------------------------------
(* Variant: domination is granted while a workflow is active. *)
NewWebSocketRequestBusy ==
    /\ conn = "none"
    /\ clients < MaxClients /\ clients' = clients + 1
    /\ conn' = "handshake"
    /\ UNCHANGED <<json, level, inbox, waiting, wf, cards, told, requests>>

(* Clients.  A second one is refused while one is connected, and one that  *)
(* comes while a workflow is active is refused the UI domination.  How a   *)
(* handshake fails is not modelled.                                        *)
NewWebSocketRequest ==
    /\ conn = "none" /\ ~Active
    /\ clients < MaxClients /\ clients' = clients + 1
    /\ conn' = "handshake"
    /\ UNCHANGED <<json, level, inbox, waiting, wf, cards, told, requests>>

NewConnection ==
    /\ conn = "handshake"
    /\ conn' = "open"
    /\ enabled' = TRUE
    /\ told' = "nothing"
    /\ UNCHANGED <<ctx, last, developerMode, level, inbox, waiting, wf, cards, counted>>

(* killWorkflow approves the state the workflow is in. *)
Killed(w) == [w EXCEPT !.cancelled = TRUE, !.approved = TRUE]

(* onClientDisconnected with the release of the domination, in one go. *)
ClientDisconnected ==
    /\ conn = "open"
    /\ wf' = IF wf.claimed = "websocket" THEN Killed(wf) ELSE wf
    /\ conn' = "none"
    /\ enabled' = FALSE
    /\ told' = "nothing"
    /\ UNCHANGED <<ctx, last, developerMode, level, inbox, waiting, cards, counted>>

-----------------------------------------------------------------------------
(* Commands. *)

(* RUN_AUTH and RUN_CHANGE_PIN: the properties are applied (absent: left   *)
(* as they are) and the request is posted; the dispatcher has no workflow  *)
(* until it is started, so that a second command may be accepted meanwhile.*)
RunWorkflow(k, dev) ==
    /\ conn = "open" /\ ~ctx
    /\ requests < MaxRequests /\ requests' = requests + 1
    /\ developerMode' = IF dev = "absent" THEN developerMode ELSE dev = "on"
    /\ Post(Request(k, "client"))
    /\ UNCHANGED <<conn, enabled, ctx, last, level, waiting, wf, cards, told, clients>>

SetApiLevel(l) ==
    /\ conn = "open"
    /\ level' = l
    /\ UNCHANGED <<conn, json, inbox, waiting, wf, cards, told, counted>>

(* Variant: CANCEL does not look for an active workflow. *)
CancelAnything ==
    /\ conn = "open"
    /\ wf' = Killed(wf)
    /\ UNCHANGED <<conn, json, level, inbox, waiting, cards, told, counted>>

Cancel ==
    /\ conn = "open" /\ ctx
    /\ wf' = Killed(wf)
    /\ UNCHANGED <<conn, json, level, inbox, waiting, cards, told, counted>>

(* SET_PIN, SET_CAN, SET_PUK and SET_NEW_PIN with a good value, ACCEPT and *)
(* CONTINUE: valid while the message they answer is the last one.          *)
Answer(msg) ==
    /\ conn = "open"
    /\ last.type = msg
    /\ wf' = [wf EXCEPT !.approved = TRUE]
    /\ UNCHANGED <<conn, json, level, inbox, waiting, cards, told, counted>>

Command ==
    \/ \E k \in SdkKinds, dev \in {"absent", "on", "off"} : RunWorkflow(k, dev)
    \/ \E l \in Levels : SetApiLevel(l)
    \/ Cancel
    \/ \E msg \in StateMsgs \ {"VOID", "INSERT_CARD"} : Answer(msg)

-----------------------------------------------------------------------------
(* Requests of other UIs: a browser at any time, the user unless the       *)
(* application belongs to the client.                                      *)
OtherRequest(k) ==
    /\ k = "AUTH" \/ conn = "none"
    /\ requests < MaxRequests /\ requests' = requests + 1
    /\ Post(Request(k, "other"))
    /\ UNCHANGED <<conn, json, level, waiting, wf, cards, told, clients>>

(* startNewWorkflow: the web socket plugin claims for the client it has,   *)
(* also for one that is not connected yet; the JSON plugin takes part only *)
(* if it is enabled, and hears of the states of the workflows it knows.    *)
Started(k) ==
    [kind |-> k, state |-> "Start", approved |-> FALSE, cancelled |-> FALSE,
     claimed |-> IF conn = "none" THEN "qml" ELSE "websocket",
     heard |-> enabled /\ k \in SdkKinds]

(* MessageDispatcher::init *)
ToldAtStart(k, before) == IF enabled /\ k \in SdkKinds THEN "started" ELSE before

StartRequested ==
    /\ inbox # <<>> /\ Head(inbox) # Finished /\ ~Active
    /\ inbox' = Tail(inbox)
    /\ LET k == Head(inbox).kind
       IN  wf' = Started(k) /\ told' = ToldAtStart(k, told)
    /\ ctx' = (ctx \/ enabled)
    /\ last' = IF enabled THEN NoMsg ELSE last
    /\ UNCHANGED <<conn, enabled, developerMode, level, waiting, cards, counted>>

(* The busy handlers; a request that cannot wait is dropped and the client *)
(* is not told (UiPluginJson does not override onWorkflowUnhandled).       *)
MayWait(k) ==
    /\ waiting = "none"
    /\ \/ k = "CHANGE_PIN"
       \/ k = "AUTH" /\ wf.kind \in SdkKinds /\ wf.state \in {"Final", "Stopped"}

RequestWhileBusy ==
    /\ inbox # <<>> /\ Head(inbox) # Finished /\ Active
    /\ inbox' = Tail(inbox)
    /\ LET k == Head(inbox).kind
       IN  /\ waiting' = IF MayWait(k) THEN k ELSE waiting
           /\ wf' = IF MayWait(k) /\ k = "AUTH" THEN [wf EXCEPT !.approved = TRUE] ELSE wf
    /\ UNCHANGED <<conn, json, level, cards, told, counted>>

(* Variant: a plugin that is not enabled does not reset the dispatcher. *)
WorkflowFinishedUnreset ==
    /\ inbox # <<>> /\ Head(inbox) = Finished
    /\ inbox' = Tail(inbox)
    /\ developerMode' = IF enabled THEN FALSE ELSE developerMode
    /\ last' = IF enabled THEN NoMsg ELSE last
    /\ waiting' = "none"
    /\ IF waiting = "none"
       THEN wf' = NoWorkflow /\ ctx' = (ctx /\ ~enabled) /\ told' = "nothing"
       ELSE wf' = Started(waiting) /\ ctx' = (ctx \/ enabled)
            /\ told' = ToldAtStart(waiting, "nothing")
    /\ UNCHANGED <<conn, enabled, level, cards, counted>>

(* UiPluginJson::onWorkflowFinished: the result, and reset in either case; *)
(* the request that waits is started in the same call.                     *)
WorkflowFinished ==
    /\ inbox # <<>> /\ Head(inbox) = Finished
    /\ inbox' = Tail(inbox)
    /\ developerMode' = FALSE
    /\ last' = NoMsg
    /\ waiting' = "none"
    /\ IF waiting = "none"
       THEN wf' = NoWorkflow /\ ctx' = FALSE /\ told' = "nothing"
       ELSE wf' = Started(waiting) /\ ctx' = enabled /\ told' = ToldAtStart(waiting, "nothing")
    /\ UNCHANGED <<conn, enabled, level, cards, counted>>

-----------------------------------------------------------------------------
(* The states of the workflow. *)

(* createForStateChange: what is said of a state, and whether it is        *)
(* approved without asking.  MsgHandlerInsertCard is void if any reader    *)
(* has an ID card.                                                         *)
InsertCard(cs) == [type |-> "INSERT_CARD", sent |-> ~HasEid(cs)]

HasMsg(s) ==
    /\ ~wf.cancelled
    /\ s \in Dialogs \cup {"SelectReader"}
    /\ s = "UnfortunateCardPosition" => level > 2

MsgOf(s) ==
    IF ~HasMsg(s) THEN NoMsg
    ELSE IF s = "SelectReader" THEN InsertCard(cards)
    ELSE [type |-> StateMsgType(s), sent |-> TRUE]

IsApproved(s) == ~MsgOf(s).sent \/ s = "SelectReader"

(* A state is left when its run is through, which StateSelectReader's is   *)
(* only with a card it can use; or because the card has been removed.      *)
MayGoTo(s) ==
    \/ wf.state = "Start" /\ s = "Other"
    \/ /\ wf.approved /\ wf.state \in States \ {"Final"}
       /\ wf.state = "SelectReader" => Selectable(cards) \/ wf.cancelled
    \/ wf.state \in Dialogs /\ ~Selectable(cards) /\ s \in {"Other", "SelectReader", "Final"}

(* AbstractState::onExit, onEntry and setCurrentState: approval does not   *)
(* outlive a state, and states of a cancelled workflow approve themselves. *)
EnterState(s) ==
    /\ Active /\ s \in StatesOf(wf.kind) /\ MayGoTo(s)
    /\ wf' = [wf EXCEPT !.state = s, !.approved = wf.cancelled \/ (wf.heard /\ IsApproved(s))]
    /\ IF wf.heard THEN Tell(MsgOf(s)) ELSE UNCHANGED <<last, told>>
    /\ UNCHANGED <<conn, enabled, ctx, developerMode, level, inbox, waiting, cards, counted>>

(* What the user of the GUI does with a workflow of the GUI. *)
GuiApproves ==
    /\ wf.claimed = "qml" /\ wf.state \in States /\ ~wf.approved
    /\ wf' = [wf EXCEPT !.approved = TRUE]
    /\ UNCHANGED <<conn, json, level, inbox, waiting, cards, told, counted>>

(* FinalState::run: fireComplete is posted. *)
RunFinal ==
    /\ wf.state = "Final" /\ wf.approved
    /\ wf' = [wf EXCEPT !.state = "Stopped"]
    /\ Post(Finished)
    /\ UNCHANGED <<conn, json, level, waiting, cards, told, counted>>

-----------------------------------------------------------------------------
(* Variant: INSERT_CARD is not sent a second time. *)
CardChangeOnce(r, c) ==
    /\ (cards[r] = "none") # (c = "none")
    /\ cards' = [cards EXCEPT ![r] = c]
    /\ UNCHANGED <<conn, json, level, inbox, waiting, wf, told, counted>>

(* A card is inserted or removed, also with its reader, or by SET_CARD.    *)
(* The JSON plugin hears of it, except of cards without an eID below API   *)
(* level 3 (onCardInserted); processReaderChange asks for a card if it has *)
(* not asked before because there was one.                                 *)
Heard(c) == enabled /\ (c = "other" => level > 2)

CardChange(r, c) ==
    /\ (cards[r] = "none") # (c = "none")
    /\ cards' = [cards EXCEPT ![r] = c]
    /\ IF Heard(c) /\ last = [type |-> "INSERT_CARD", sent |-> FALSE]
       THEN Tell(InsertCard(cards'))
       ELSE UNCHANGED <<last, told>>
    /\ UNCHANGED <<conn, enabled, ctx, developerMode, level, inbox, waiting, wf, counted>>

Next ==
    \/ NewWebSocketRequest \/ NewConnection \/ ClientDisconnected
    \/ Command
    \/ \E k \in Kinds : OtherRequest(k)
    \/ StartRequested \/ RequestWhileBusy \/ WorkflowFinished
    \/ \E s \in States : EnterState(s)
    \/ GuiApproves \/ RunFinal
    \/ \E r \in Readers, c \in CardStates : CardChange(r, c)

Spec == Init /\ [][Next]_vars

-----------------------------------------------------------------------------
(* Whatever the workflow waits for, the client has been asked for it, and  *)
(* the command that answers is accepted in that state and in no other: no  *)
(* workflow waits for somebody who was not told, and none is approved by a *)
(* command for the state before (createForStateChange, handleCurrentState, *)
(* processReaderChange; INSERT_CARD in docs/sdk/messages.rst:701).  It is  *)
(* about workflows the plugin hears of, not about one that started while   *)
(* the client was in its handshake, and about the absence of any ID card:  *)
(* one that is there, but not selectable, spares the question.             *)
ClientIsAsked ==
    wf.heard /\ conn = "open" /\ wf.state \in States =>
        /\ ~wf.approved => /\ wf.state \in Dialogs
                           /\ last = [type |-> StateMsgType(wf.state), sent |-> TRUE]
                           /\ told = last.type
        /\ wf.state = "SelectReader" /\ ~wf.cancelled /\ ~HasEid(cards) => told = "INSERT_CARD"
        /\ last.type \in {"VOID", StateMsgType(wf.state)}

(* A client is told of a workflow from its start to its result, if the     *)
(* dispatcher has that workflow, and of nothing else: nothing is left of   *)
(* the workflow of a client that went away when the next one connects      *)
(* (init asserts that there is no workflow; onClientDisconnected, reset).  *)
SessionMatchesWorkflow ==
    /\ ctx => Active
    /\ conn = "open" => (told # "nothing" <=> ctx /\ wf.heard)
    /\ conn # "open" => ~enabled
    /\ Active /\ wf.claimed = "websocket" => conn # "none" \/ wf.cancelled

(* Developer mode, which switches checks of the provider off, does not     *)
(* outlive the workflow it was asked for, even if that one was refused or  *)
(* its client has gone (handleWorkflowProperties, reset).                  *)
DeveloperModeEnds ==
    developerMode =>
        Active \/ \E i \in DOMAIN inbox : inbox[i].from = "client"
=============================================================================
