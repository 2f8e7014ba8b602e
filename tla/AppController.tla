--------------------------- MODULE AppController ---------------------------
(***************************************************************************)
(* The main-thread controller of the application                           *)
(* (core/controller/AppController.cpp): it runs at most one workflow at a  *)
(* time, lets at most one request wait behind it, hands the user           *)
(* interface to one UI plugin at a time ("UI domination") and takes the    *)
(* application down.                                                       *)
(*                                                                         *)
(* All slots run on the main thread.  Workflow requests, restart requests, *)
(* WorkflowController::fireComplete and UiLoader::fireRemovedAllPlugins    *)
(* reach the controller through queued connections, i.e. through the FIFO  *)
(* of posted events (inbox); the quit request and the domination signals   *)
(* are direct calls.  A workflow itself is abstracted to the four stages   *)
(* the controller can tell apart; its inside is the module ChangePin.      *)
(***************************************************************************)
EXTENDS Naturals, Sequences

CONSTANTS
    Requests,      \* workflow requests the UIs may ask for, each at most once
    Action,        \* [Requests -> Actions]: WorkflowRequest::getAction
    NoRequest,     \* a null QSharedPointer<WorkflowRequest>
    NoUi,          \* no UI plugin
    MaxTicks       \* invocations of the network timer before it gives up (60 in the code)

(* CHANGE_PIN and AUTH requests carry a busy handler, the others do not. *)
Actions == {"CHANGE_PIN", "AUTH", "SELF_AUTH", "OTHER"}

ASSUME RequestsAssumption ==
    /\ NoRequest \notin Requests
    /\ Action \in [Requests -> Actions]
    /\ NoUi \notin {"qml", "websocket", "proxy"}
    /\ MaxTicks \in Nat \ {0}

VARIABLES
    inbox,         \* posted events of the main thread the controller will handle
    active,        \* mActiveWorkflow
    waiting,       \* mWaitingRequest
    fate,          \* what became of each request
    stage,         \* progress of the active workflow
    claimedBy,     \* WorkflowContext::mClaimedBy of the active workflow
    killed,        \* WorkflowContext::mWorkflowKilled of the active workflow
    dominator,     \* mUiDomination
    shutdown,      \* mShutdownRunning
    restart,       \* mRestartApplication
    connOpen,      \* NetworkManager has open connections
    timers,        \* timers of waitForNetworkConnections that run
    ticks,         \* its static counter timesInvoked
    plugins,       \* UiLoader::mLoadedPlugins
    exited         \* QCoreApplication::exit was called

workflowVars == <<active, fate, stage, claimedBy, killed>>
exitVars     == <<timers, ticks, plugins, exited>>
vars == <<inbox, workflowVars, waiting, dominator, shutdown, restart, connOpen, exitVars>>

Uis      == {"qml", "websocket", "proxy"}
Stages   == {"none", "running", "final", "approved", "complete"}
Fates    == {"new", "posted", "waiting", "active", "finished", "unhandled", "dropped"}

Request(r) == [type |-> "request", req |-> r]
Finished   == [type |-> "finished", req |-> NoRequest]
Restart    == [type |-> "restart", req |-> NoRequest]
Exit       == [type |-> "exit", req |-> NoRequest]
Events     == {Request(r) : r \in Requests} \cup {Finished, Restart, Exit}

TypeOK ==
    /\ inbox \in Seq(Events)
    /\ active \in Requests \cup {NoRequest}
    /\ waiting \in Requests \cup {NoRequest}
    /\ fate \in [Requests -> Fates]
    /\ stage \in Stages
    /\ claimedBy \in Uis \cup {NoUi}
    /\ killed \in BOOLEAN
    /\ dominator \in Uis \cup {NoUi}
    /\ shutdown \in BOOLEAN
    /\ restart \in BOOLEAN
    /\ connOpen \in BOOLEAN
    /\ timers \in Nat
    /\ ticks \in Nat
    /\ plugins \in {"loaded", "deleting", "gone"}
    /\ exited \in BOOLEAN

Init ==
    /\ inbox = <<>>
    /\ active = NoRequest /\ waiting = NoRequest
    /\ fate = [r \in Requests |-> "new"]
    /\ stage = "none" /\ claimedBy = NoUi /\ killed = FALSE
    /\ dominator = NoUi
    /\ shutdown = FALSE /\ restart = FALSE
    /\ connOpen = FALSE
    /\ timers = 0 /\ ticks = 0
    /\ plugins = "loaded"
    /\ exited = FALSE

-----------------------------------------------------------------------------
(* The queue of the event loop. *)

Post(e)      == inbox' = Append(inbox, e)
IsNext(type) == ~exited /\ inbox # <<>> /\ Head(inbox).type = type
Take         == inbox' = Tail(inbox)

(* A running workflow that is approved for good once it reaches its final  *)
(* state: every later state entry approves itself (setCurrentState).       *)
Kill(s) == IF s = "final" THEN "approved" ELSE s

CanStartNewWorkflow == active = NoRequest

(* UIs claim a workflow while fireWorkflowStarted is emitted: the greedy   *)
(* UI unless another plugin dominates, the web socket plugin only if it    *)
(* dominates; the proxy plugin never claims.                               *)
Claimant ==
    CASE plugins = "gone"          -> NoUi
      [] dominator = NoUi          -> "qml"
      [] dominator = "websocket"   -> "websocket"
      [] OTHER                     -> NoUi

(* startNewWorkflow: nobody claimed means killed on the spot. *)
StartNewWorkflow(r, fates) ==
    /\ active' = r
    /\ fate' = [fates EXCEPT ![r] = "active"]
    /\ stage' = "running"
    /\ claimedBy' = Claimant
    /\ killed' = (Claimant = NoUi)

ResetActive(fates) ==
    /\ active' = NoRequest
    /\ fate' = fates
    /\ stage' = "none"
    /\ claimedBy' = NoUi
    /\ killed' = FALSE

(* The lambda uiShutdown of completeShutdown: deleteLater on every plugin, *)
(* or leave the event loop at once if none is loaded.                      *)
UiShutdown ==
    IF plugins = "gone"
    THEN exited' = TRUE /\ UNCHANGED plugins
    ELSE plugins' = "deleting" /\ UNCHANGED exited

CompleteShutdown ==
    IF connOpen
    THEN timers' = timers + 1 /\ UNCHANGED <<ticks, plugins, exited>>
    ELSE UiShutdown /\ UNCHANGED <<timers, ticks>>

(* doShutdown, from the quit request or from a restart request. *)
DoShutdown ==
    IF shutdown
    THEN UNCHANGED <<workflowVars, waiting, shutdown, exitVars>>
    ELSE /\ shutdown' = TRUE
         /\ IF active # NoRequest
            THEN /\ waiting' = NoRequest
                 /\ fate' = [r \in Requests |-> IF r = waiting THEN "dropped" ELSE fate[r]]
                 /\ killed' = TRUE
                 /\ stage' = Kill(stage)
                 /\ UNCHANGED <<active, claimedBy, exitVars>>
            ELSE /\ CompleteShutdown
                 /\ UNCHANGED <<workflowVars, waiting>>

-----------------------------------------------------------------------------
(* A UI emits fireWorkflowRequested (queued). *)
RequestWorkflow(r) ==
    /\ ~exited /\ plugins # "gone"
    /\ fate[r] = "new"
    /\ fate' = [fate EXCEPT ![r] = "posted"]
    /\ Post(Request(r))
    /\ UNCHANGED <<active, stage, claimedBy, killed, waiting, dominator, shutdown, restart,
                   connOpen, exitVars>>

(* Variants with a bug, for the sensitivity of the properties: the handler *)
(* of CHANGE_PIN does not look at the waiting request, ... *)
MayEnqueueOverWaiting(r) ==
    \/ Action[r] = "CHANGE_PIN"
    \/ /\ waiting = NoRequest
       /\ Action[r] = "AUTH"
       /\ Action[active] \in {"AUTH", "SELF_AUTH", "CHANGE_PIN"}
       /\ stage \in {"final", "approved", "complete"}

(* ... and the one of AUTH does not look at isWorkflowFinished. *)
MayEnqueueUnfinished(r) ==
    /\ waiting = NoRequest
    /\ \/ Action[r] = "CHANGE_PIN"
       \/ /\ Action[r] = "AUTH"
          /\ Action[active] \in {"AUTH", "SELF_AUTH", "CHANGE_PIN"}

(* The busy handlers, in the state the active workflow is in. *)
MayEnqueue(r) ==
    /\ waiting = NoRequest
    /\ \/ Action[r] = "CHANGE_PIN"
       \/ /\ Action[r] = "AUTH"
          /\ Action[active] \in {"AUTH", "SELF_AUTH", "CHANGE_PIN"}
          /\ stage \in {"final", "approved", "complete"}

StartRequested ==
    /\ IsNext("request") /\ CanStartNewWorkflow
    /\ Take
    /\ StartNewWorkflow(Head(inbox).req, fate)
    /\ UNCHANGED <<waiting, dominator, shutdown, restart, connOpen, exitVars>>

(* Variant: the enqueued authentication does not approve the final state. *)
EnqueueUnapproved ==
    /\ IsNext("request") /\ ~CanStartNewWorkflow
    /\ Take
    /\ LET r == Head(inbox).req
       IN  /\ MayEnqueue(r)
           /\ waiting' = r
           /\ fate' = [fate EXCEPT ![r] = "waiting"]
    /\ UNCHANGED <<active, stage, claimedBy, killed, dominator, shutdown, restart, connOpen,
                   exitVars>>

(* An AUTH request that is enqueued approves the final state it waits for. *)
Enqueue ==
    /\ IsNext("request") /\ ~CanStartNewWorkflow
    /\ Take
    /\ LET r == Head(inbox).req
       IN  /\ MayEnqueue(r)
           /\ waiting' = r
           /\ fate' = [fate EXCEPT ![r] = "waiting"]
           /\ stage' = IF Action[r] = "AUTH" THEN Kill(stage) ELSE stage
    /\ UNCHANGED <<active, claimedBy, killed, dominator, shutdown, restart, connOpen, exitVars>>

(* WorkflowControl::SKIP and UNHANDLED: fireWorkflowUnhandled. *)
Refuse ==
    /\ IsNext("request") /\ ~CanStartNewWorkflow
    /\ Take
    /\ LET r == Head(inbox).req
       IN  /\ ~MayEnqueue(r)
           /\ fate' = [fate EXCEPT ![r] = "unhandled"]
    /\ UNCHANGED <<active, stage, claimedBy, killed, waiting, dominator, shutdown, restart,
                   connOpen, exitVars>>

(* onWorkflowFinished: the waiting request starts inside the same call. *)
WorkflowFinished ==
    /\ IsNext("finished")
    /\ Take
    /\ LET fates == [r \in Requests |-> IF r = active THEN "finished" ELSE fate[r]]
       IN  IF waiting # NoRequest THEN StartNewWorkflow(waiting, fates) ELSE ResetActive(fates)
    /\ waiting' = NoRequest
    /\ IF shutdown THEN CompleteShutdown ELSE UNCHANGED exitVars
    /\ UNCHANGED <<dominator, shutdown, restart, connOpen>>

-----------------------------------------------------------------------------
(* The active workflow, as the controller sees it. *)

(* FinalState::onEntry: setWorkflowFinished; a killed workflow approves it. *)
ReachFinalState ==
    /\ ~exited /\ stage = "running"
    /\ stage' = IF killed THEN "approved" ELSE "final"
    /\ UNCHANGED <<inbox, active, fate, claimedBy, killed, waiting, dominator, shutdown, restart,
                   connOpen, exitVars>>

(* Variant: the result view can be closed a second time. *)
ApproveFinalStateAgain ==
    /\ ~exited /\ stage \in {"final", "complete"}
    /\ plugins # "gone"
    /\ stage' = "approved"
    /\ UNCHANGED <<inbox, active, fate, claimedBy, killed, waiting, dominator, shutdown, restart,
                   connOpen, exitVars>>

(* The user closes the result view. *)
ApproveFinalState ==
    /\ ~exited /\ stage = "final"
    /\ plugins # "gone"
    /\ stage' = "approved"
    /\ UNCHANGED <<inbox, active, fate, claimedBy, killed, waiting, dominator, shutdown, restart,
                   connOpen, exitVars>>

(* FinalState::run: the state machine stops, fireComplete is queued. *)
CompleteWorkflow ==
    /\ ~exited /\ stage = "approved"
    /\ stage' = "complete"
    /\ Post(Finished)
    /\ UNCHANGED <<active, fate, claimedBy, killed, waiting, dominator, shutdown, restart,
                   connOpen, exitVars>>

-----------------------------------------------------------------------------
(* Variant: domination is granted while a workflow runs. *)
RequestDominationBusy(ui) ==
    /\ ~exited /\ plugins # "gone"
    /\ dominator # ui
    /\ dominator' = IF dominator = NoUi THEN ui ELSE dominator
    /\ UNCHANGED <<inbox, workflowVars, waiting, shutdown, restart, connOpen, exitVars>>

(* UI domination.  A plugin asks at most once while it dominates: the web  *)
(* socket plugin refuses a second client, the proxy asks when it starts.   *)
RequestDomination(ui) ==
    /\ ~exited /\ plugins # "gone"
    /\ dominator # ui
    /\ dominator' = IF dominator = NoUi /\ CanStartNewWorkflow THEN ui ELSE dominator
    /\ UNCHANGED <<inbox, workflowVars, waiting, shutdown, restart, connOpen, exitVars>>

(* UiPluginWebSocket::onClientDisconnected: kill the workflow it claimed,  *)
(* then release the domination.                                            *)
ClientDisconnected ==
    /\ ~exited /\ plugins # "gone"
    /\ dominator = "websocket"
    /\ dominator' = NoUi
    /\ IF claimedBy = "websocket"
       THEN killed' = TRUE /\ stage' = Kill(stage)
       ELSE UNCHANGED <<killed, stage>>
    /\ UNCHANGED <<inbox, active, fate, claimedBy, waiting, shutdown, restart, connOpen, exitVars>>

-----------------------------------------------------------------------------
(* Shutdown. *)

(* UiPlugin::fireQuitApplicationRequest is connected directly. *)
Quit ==
    /\ ~exited /\ plugins # "gone"
    /\ DoShutdown
    /\ UNCHANGED <<inbox, dominator, restart, connOpen>>

(* A UI emits fireRestartApplicationRequested (queued).  Bound: only one   *)
(* is queued at a time and none after the first took effect, since the     *)
(* second finds the application shutting down and changes nothing.         *)
RequestRestart ==
    /\ ~exited /\ plugins # "gone"
    /\ ~restart /\ \A i \in DOMAIN inbox : inbox[i] # Restart
    /\ Post(Restart)
    /\ UNCHANGED <<workflowVars, waiting, dominator, shutdown, restart, connOpen, exitVars>>

RestartApplication ==
    /\ IsNext("restart")
    /\ Take
    /\ restart' = TRUE
    /\ DoShutdown
    /\ UNCHANGED <<dominator, connOpen>>

(* Variants: the timer waits for the connections without a limit, ... *)
NetworkTimerUnlimited ==
    /\ ~exited /\ timers > 0 /\ ~connOpen
    /\ timers' = timers - 1 /\ UiShutdown
    /\ UNCHANGED <<inbox, workflowVars, waiting, dominator, shutdown, restart, connOpen, ticks>>

(* ... and the timer is not deleted when it is through. *)
NetworkTimerUndeleted ==
    /\ ~exited
    /\ ticks' = IF connOpen THEN ticks + 1 ELSE ticks
    /\ IF connOpen /\ ticks + 1 < MaxTicks
       THEN UNCHANGED <<timers, plugins, exited>>
       ELSE timers' = timers - 1 /\ UiShutdown
    /\ UNCHANGED <<inbox, workflowVars, waiting, dominator, shutdown, restart, connOpen>>

(* The timer of waitForNetworkConnections; past the limit it gives up. *)
NetworkTimer ==
    /\ ~exited /\ timers > 0
    /\ ticks' = IF connOpen THEN ticks + 1 ELSE ticks
    /\ IF connOpen /\ ticks + 1 < MaxTicks
       THEN UNCHANGED <<timers, plugins, exited>>
       ELSE timers' = timers - 1 /\ UiShutdown
    /\ UNCHANGED <<inbox, workflowVars, waiting, dominator, shutdown, restart, connOpen>>

(* The last plugin is destroyed: UiLoader::fireRemovedAllPlugins. *)
RemovePlugins ==
    /\ ~exited /\ plugins = "deleting"
    /\ plugins' = "gone"
    /\ Post(Exit)
    /\ UNCHANGED <<workflowVars, waiting, dominator, shutdown, restart, connOpen, timers, ticks,
                   exited>>

ExitApplication ==
    /\ IsNext("exit")
    /\ Take
    /\ exited' = TRUE
    /\ UNCHANGED <<workflowVars, waiting, dominator, shutdown, restart, connOpen, timers, ticks,
                   plugins>>

(* Requests of workflows and of the updater come and go.  The network      *)
(* manager refuses new ones when the queued fireShutdown reaches it; here  *)
(* that is taken to be at the latest when the plugins are shut down.       *)
OpenConnection ==
    /\ ~exited /\ plugins = "loaded" /\ ~connOpen
    /\ connOpen' = TRUE
    /\ UNCHANGED <<inbox, workflowVars, waiting, dominator, shutdown, restart, exitVars>>

CloseConnection ==
    /\ ~exited /\ connOpen
    /\ connOpen' = FALSE
    /\ UNCHANGED <<inbox, workflowVars, waiting, dominator, shutdown, restart, exitVars>>

(* main() returned from the event loop. *)
Terminated == exited /\ UNCHANGED vars

EventLoop ==
    \/ StartRequested \/ Enqueue \/ Refuse
    \/ WorkflowFinished
    \/ RestartApplication
    \/ ExitApplication

Next ==
    \/ EventLoop
    \/ \E r \in Requests : RequestWorkflow(r)
    \/ ReachFinalState \/ ApproveFinalState \/ CompleteWorkflow
    \/ \E ui \in {"websocket", "proxy"} : RequestDomination(ui)
    \/ ClientDisconnected
    \/ Quit \/ RequestRestart
    \/ NetworkTimer \/ RemovePlugins
    \/ OpenConnection \/ CloseConnection
    \/ Terminated

Spec == Init /\ [][Next]_vars

(* The event loop handles what is posted, timers fire, deferred deletes    *)
(* happen and an approved final state runs.  Nothing is assumed of users,  *)
(* UIs, network peers, or of a workflow that has not reached its end.      *)
Fairness ==
    /\ WF_vars(EventLoop)
    /\ WF_vars(CompleteWorkflow)
    /\ WF_vars(NetworkTimer)
    /\ WF_vars(RemovePlugins)

FairSpec == Spec /\ Fairness

-----------------------------------------------------------------------------
(* A request only waits behind a running workflow: onWorkflowFinished is   *)
(* the only place that starts a waiting request, so one that waited with   *)
(* nothing active would wait for ever.                                     *)
WaitingBehindActive == waiting # NoRequest => active # NoRequest

(* onWorkflowFinished asserts mActiveWorkflow: the queued fireComplete is  *)
(* posted once per workflow, and no other workflow has become active by    *)
(* the time it is delivered.                                               *)
FinishedEvents == {i \in DOMAIN inbox : inbox[i] = Finished}
CompletionIsForActive ==
    /\ stage = "complete" <=> FinishedEvents # {}
    /\ stage = "none" <=> active = NoRequest
    /\ \A i, j \in FinishedEvents : i = j

(* A plugin that dominates never shares the application with a workflow    *)
(* another UI claimed, a workflow the web socket claimed runs on after its *)
(* client left only if it was killed, and a workflow without a claimant    *)
(* was killed (onUiDominationRequested, startNewWorkflow).                 *)
ClaimMatchesDomination ==
    active # NoRequest =>
        /\ claimedBy = NoUi => killed
        /\ claimedBy = "websocket" => dominator = "websocket" \/ killed
        /\ claimedBy = "qml" => dominator = NoUi

(* The busy handler of an authentication only queues it behind a workflow  *)
(* that has nothing left to do, so it never waits for a user to finish     *)
(* another authentication or PIN change (AuthController.cpp:59-82).        *)
AuthWaitsForCompletion ==
    waiting # NoRequest /\ Action[waiting] = "AUTH" => stage \in {"approved", "complete"}

(* The request in the queue is never overtaken or replaced: it stays until *)
(* it becomes the active workflow, unless doShutdown drops it.             *)
WaitingRunsNext ==
    [][waiting # NoRequest /\ waiting' # waiting =>
           /\ waiting' = NoRequest
           /\ active' = waiting \/ (shutdown' /\ ~shutdown)]_vars

(* An enqueued authentication is started (or dropped by a shutdown)        *)
(* without anyone closing the result of the workflow before it.            *)
EnqueuedAuthenticationRuns ==
    \A r \in Requests :
        (fate[r] = "waiting" /\ Action[r] = "AUTH") ~> (fate[r] # "waiting" \/ exited)

(* If killed workflows reach their final state, a shutdown ends in         *)
(* QCoreApplication::exit, however many connections stay open and whatever *)
(* is requested meanwhile.                                                 *)
KilledWorkflowsEnd == (killed /\ stage = "running") ~> (stage # "running" \/ exited)
ShutdownCompletes  == KilledWorkflowsEnd => (shutdown ~> exited)

(* Whatever the order of requests, completions, kills and shutdowns, the   *)
(* controller keeps the promise of one running and one waiting request,    *)
(* each answered once (canStartNewWorkflow, handleBusyWorkflow).           *)
Slots == INSTANCE WorkflowSlots WITH Requests <- Requests, fate <- fate
ImplementsSlots == Slots!Spec
=============================================================================
