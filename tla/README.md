# AusweisApp: a TLA+ verification development

AusweisApp (this repository calls itself `ausweis`) lets a German ID card be
used online. It is a Qt application: one main thread with an event loop, a
worker thread for the card readers, a thread for the connections to remote
readers, workflows written as `QStateMachine`s, and several user interfaces that
may drive the same workflow (the QML window, a JSON API for other programs, a
web socket).

This directory holds TLA+ models of the parts whose correctness depends on the
order of events, the TLC runs that check them on small instances, and proofs
that hold for every instance. Paths below are relative to `src/` of the
repository, e.g. `core/controller/AppController.cpp`.

## 1. Inventory

| Component | State | Operations | What makes it correct |
|---|---|---|---|
| AppController (`core/controller`) | active workflow, waiting request, dominating UI, shutdown and restart flags | request, enqueue, refuse, finish, dominate, quit, restart, wait for the network | one workflow at a time, no request lost or overtaken, a UI for every workflow, shutdown ends |
| UI plugins, UiLoader (`ui/base`, `ui/qml`, `ui/websocket`, ...) | loaded plugins, domination, client | claim a workflow, approve states, cancel, kill | a state is approved by exactly the UI that claimed the workflow |
| Workflow state machine (`workflows/base/states/AbstractState`, `workflows/base/context/WorkflowContext`) | current state, approval, cancel and kill flags, connections of a state | enter, approve, run, cancel, kill, abort, exit | nothing of a state that was left may decide about the workflow; a cancelled workflow ends |
| PIN change (`ChangePinController`, `CompositeStatePace`, `State*`) | PACE type, passwords, last PACE result, remembered reader and counter, status, failure code | 21 states and their result slots | the PIN is not spent without the user, passwords are wiped, the result is true |
| Authentication, self-authentication (`AuthController`, `SelfAuthController`, `CompositeStateTrustedChannel`, `CompositeStateProcessCvcsAndSetRights`) | TC token, PAOS messages, result of the server, refresh URL, outstanding replies | the PAOS exchange, EAC, transmit, redirects, fetching the data | the result is the one the server confirmed, the browser goes to a checked address, passwords are wiped, a cancelled workflow ends |
| Personalization (`workflows/personalization`, `card/smart`) | state of the Smart-eID chip and its type, new PIN, commands in the reader thread | prepare the applet, exchange with the server, begin and finalize a session of the chip, set the PIN | a session that was begun is finalized, no command outlives the workflow whose state it uses, success only with a personalized chip |
| Remote reader service (`workflows/ifd`, `ifd/base` server side) | slots with their connections, handles, passwords, pending message | connect, PACE, PIN change, transmit, disconnect, client closes | a password belongs to one client, an answer to the request, a card is released |
| Remote reader client (`ifd/base` client side, `ifd/remote`) | readers, dispatchers, pending attempts, list of devices, blocked request | scan, attempt, pair, request and answer, time out, close | an answer belongs to its request, attempts end, closed readers vanish |
| Card layer (`card/base`, `card/pcsc`) | card, connection, worker, cached reader info | create and release a connection, commands, reader polling | a result belongs to its command; what the main thread knows of the card is not used when stale |
| Updates (`services`, `file_provider`) | queue of the downloader, kind of download, cached files, daily timer | check, download, verify, abort, look up a file | a download per requester, an update that is verified, the next check is due |
| NetworkManager (`network`) | count of open connections | track, abort, time out | shutdown does not hang on it, every reply ends |
| JSON API (`ui/json`, `ui/websocket`) | connected client, workflow of the dispatcher, last message of a state, API level, developer mode | commands, messages of states and card events, result, connect and disconnect | the client is asked for what the workflow waits for; an answer only for that state; nothing outlives the workflow; results as documented |
| ReaderManager (`card/base`) | reader cache, scan state, command queue | scan, update, create connection | cache follows the worker |
| PACE and secure messaging (`card/base/pace`) | session keys | cryptographic protocol | data, not order |
| Other readers (NFC, simulator, drivers), QML models, other UIs, settings, secure storage, diagnosis, start-up, logging | | adapters, presentation, storage, I/O | |

How they interact: a UI emits `fireWorkflowRequested`; the AppController gets it
through the event queue, creates the controller of the workflow and emits
`fireWorkflowStarted`, during which one UI claims the workflow. Each state the
machine enters is shown to the UIs; one of them approves it, and the approval
runs the state through the event queue. States send card commands to the
ReaderManager's thread, or requests to a server, and go on when the result is
delivered. The final state stops the machine, and its completion goes back to
the AppController through the queue. A card may sit in a remote device: then the
ReaderManager's thread blocks in a request to that device, whose service runs
the same kind of workflow for its own user.

The hard parts are therefore: everything that is posted and delivered later,
after the situation it was posted for is over (requests, approvals, results,
completions, cancellations, answers of a device); card removals and lost
responses between any two steps; cancelling and killing at any moment; several
UIs and several clients; resources shared by requesters that recognise their
answers only by type or URL (the downloader, the blocking request of a remote
reader); shutdown. `PROJECT.json` lists each hazard at its line with the property
that watches it.

## 2. Modules

| Module | Models |
|---|---|
| `WorkflowSlots` | abstract: what a requester is promised. One slot for the workflow that runs, one for the request that waits |
| `AppController` | the controller, its event queue, the UIs and the workflow as far as it sees them |
| `AppControllerProofs` | theorems about `AppController` |
| `ChangePin` | workflow state machine, PIN change, card worker, card, user |
| `Authentication` | authentication and self-authentication with the eID server, the provider and the card |
| `Personalization` | extends `Authentication`: the states of the personalization, the commands they give to the Smart-eID, its chip and its new PIN |
| `IfdService` | the remote reader service: message handler, workflow, card connections, worker thread |
| `IfdClient` | the client of a remote reader: plugin, client and connector on three threads |
| `Updates` | service, updater, updatable files and the downloader they share |
| `JsonApi` | the JSON API of the SDK and the web socket plugin, between clients, workflow and card readers |
| `JsonApiProofs`, `UpdatesProofs`, `IfdClientProofs`, `IfdServiceProofs`, `ChangePinProofs` | theorems about the module they are named after |
| `AuthenticationProofs` | theorems about `Personalization`, and with it `Authentication` |
| `QueueLemmas` | lemmas on queues that `IfdClientProofs` and `IfdServiceProofs` share: what taking and posting do to the elements, and how many of them are in a set (`Many`) |
| `MC...` | the instances TLC checks, one module per run |

Each module begins with its scope. What they have in common: a thread is a FIFO
queue of posted events (`inbox`, `m.events`, `m.cmds`, ...) and one action per
handler, which contains everything the handler does before it returns to its
event loop; what the code posts is appended, what it calls is part of the
action. A state machine is a record `m` with the current state and a table of
`Edges` (signal to next state) taken from the controller and the composites;
an abort edge, a retry or a hint of the source is one signal each. Passwords,
messages and certificates are members of small sets that tell apart what the
properties need: whose they are, whether they are valid.

### AppController

`inbox` is the queue of posted events the controller handles: workflow requests
(connected queued, line 447), restart requests (450), `fireComplete` (472) and
`fireRemovedAllPlugins` (348). Quit and domination signals are direct calls and
act at once. `active`, `waiting`, `dominator`, `shutdown`, `restart` are the
members of the class; `fate` records what became of each request and is what
the abstract specification talks about. A workflow has four stages: `running`,
`final` (final state entered, result shown), `approved` (final state may run)
and `complete` (`fireComplete` posted). `WorkflowFinished` is the whole of
`onWorkflowFinished`: it ends the workflow, starts the waiting request and
continues a shutdown in one step. `Kill`/`killed` is
`WorkflowContext::killWorkflow`. Two queued hops of a completion
(`QStateMachine::finished` to `fireComplete` to the controller) are one post,
which `CompleteWorkflow` may do arbitrarily late.

`AppController` implements `WorkflowSlots`: the instance `Slots` maps the slots of the
abstract module to the fates (`INSTANCE WorkflowSlots WITH ...`), and every step is an
abstract one or leaves them alone.

### ChangePin

`m.cur` is the current state; `PaceEdges` and `ChangeEdges` are the transitions of
`CompositeStatePace` and `ChangePinController`. `m.events` is the queue of the main
thread and `m.cmds` that of the worker. A state is entered by `Enter` (approved by
a UI, by a kill, or waiting for the user), its `run()` is posted, and every
`Run...` action is one `run()`; every `...Done` action is the slot of a command;
`Execute...` actions are the worker's. The following are the code's own and
matter:

* `run()`, command results and a cancellation noticed at entry are posted and
  are delivered even if their state has been left. What such a late `run()`
  emits is normally ignored, but it still changes the context and sends
  commands.
* `Exit` cuts the connections of a state, so the result of a command still in the
  worker is not posted. `m.stray` are states that were left and have connections
  again, made by a late `run()`; `m.listening` are those that listen to the
  reader manager.
* The composite forwards `fireContinue` of the PACE state and the abort of the error
  check whichever inner state is current (`Target`; CompositeStatePace.cpp:91-116).
* `resetCardConnection` blocks the main thread until the worker has polled the
  reader (`ReaderManager::updateReaderInfo` is a blocking queued call): the guard
  in `ResetConnection` that the worker's queue is empty.

`conn` and `seen` are what the main thread knows (the connection's reader info, the
cached reader info), `card` is what the worker finds. `spent` is a history variable:
wrong attempts on the card since the user last entered a PIN.

Abstractions: one basic PC/SC reader (the PIN is typed on the computer) with one
card; passwords are `old`/`new` or `good`/`bad`; return codes with the same treatment in
`StateMaintainCardConnection` are represented by one; the removal of a card and
its detection are one step; a card connection is created in one step of the
worker; an old connection is released by a command in the worker's queue, as the
deferred delete does. A lost PACE or PIN-change response may have been executed
by the card or not.

### Authentication

The three controllers differ in `AuthEdges`, `SelfAuthEdges` and
`PersonalizationEdges` and share `ChannelEdges` and `CvcEdges` of the two composites;
`setup` says which of them an instance runs, with which UI, and its bounds. A state whose request is
outstanding is in `m.open`; `Exit` drops the reply, and a late `run()` sends a
request of its own, as in `ChangePin`. `net` is the outside: an action of the
replies chooses what the server sends at each message of the exchange (go on,
end the dialogue with OK or with an error, fail, nonsense), and how the provider
redirects. `honest` restricts the server to one that ends the dialogue when it
is told of an error. `ctx.refresh` is the refresh URL and
`net.verified` the URLs whose certificate was checked. The PACE composite is one
state that succeeds or fails at any time, as `ChangePin` is its model.
`m.cur = "crashed"` stands for an assertion or a null pointer that is reached.

### Personalization

The module adds to `Authentication` what only the personalization does and gives the
whole its next-state relation, `WorkflowNext`. The `Run...` action of a state with a
command appends it to `m.cmds`; `ExecuteSmart` is the function the state handed to the
ReaderManager's thread (`callExecuteCommand`), with its effect on `smart.chip`: `absent`,
`blank`, `unusable` (an installation or a session that failed), `begun` (a session is
open) or `personalized`. The answer is posted if the state is still there to listen.

* `Uninterruptible`: the states that install, delete and update the applet
  capture themselves in that function, so `onUserCancelled` blocks their signals
  (`Cancelled`), and they abort when the command is done (`SmartDone`).
* `smart.type` is known from `StateGetServiceInformation` on. Without an applet the
  new PIN is entered before the workflow goes on; with one, the view of the PIN
  stays open while the workflow goes on (`PinView`), and `StateChangeSmartPin` waits
  for the PIN if it is not there yet (`EnterSmartPin`).
* The second PACE (`SmartPace`), with the PIN of the chip, is one state, like the first.

### IfdService

`h` is the `ServerMessageHandlerImpl` of the connected client with its slot handles,
`create` are the pending `CreateCardConnectionCommand`s, `dev.workers` the
`CardConnectionWorker`s, which live on the worker thread until the last
reference is dropped and whose destructor releases the card. Messages of the
client are handled in the main thread between the steps of the workflow; a
client may close, and another may connect, at any point. Two commands that wait
for a connection both receive the signal of the first worker that is created, as
in `CreateCardConnectionCommand.cpp:42`. `due` counts the requests of the present
client that have not been answered; it is negative when an answer is sent that
nobody asked for.

### IfdClient

Three queues: `client.events` (main thread), `plugin.events` (ReaderManager's
thread), `connector.events` (the connector's own). `call` is the request the
ReaderManager's thread is blocked in: while it waits nothing else of that thread
happens, and an answer, the end of the channel or the timeout of five seconds
wakes it; the wake-up may come before the wait. `device` is the remote service
reduced to its answers, `device.toDevice` and `device.toClient` the web socket.
Dispatchers are numbered by their connection; `ids` numbers requests, which the
code does not: the property `AnswerIsOwn` compares what the code cannot.

### Updates

Everything runs on the main thread with direct calls, so one action is a whole
chain: a finished reply, the handler of the requester, what that requests in turn
(`Starting`, `Following`, `Scheduled`), and the next download (`Finished`). An
answer is broadcast, and a requester recognises it by its URL (`Recognised`).
`Aborted` removes the pending requests of a URL after it has ended the running
reply, whose listeners run inside. A reply that is `dead` belongs to a network
that is shutting down and can only fail.

The one call that is posted is that of `doAppUpdate` when a check is due (`PostedUpdate`,
Service.cpp:138). Qt delivers it before anything that happens after it was posted, so
every other action waits for it (`NothingPosted`). A reply already queued when it
is posted would be handled before it; as the handlers of replies and what posts (the
window, the timer) have no state in common, that is the same as the reply being
handled first, which the module has.

### JsonApi

Everything runs on the main thread; what interleaves are the commands and the
departure of a client, posted requests and completions (`inbox`), the workflow's states
and the readers. `conn` is the web socket plugin (`mRequest`, `mConnection`,
`mUiDomination`): a client that was accepted is in its `handshake` until the connection
is `open`. `enabled` is `UiPluginJson::mEnabled`, `ctx` whether the dispatcher has a
workflow, `last` its last state message, and whether that was sent or is void.
`wf` is the active workflow, a sequence of the states the API tells apart: `claimed`
says whose it is, `heard` whether the JSON plugin is connected to it. `EnterState` is the
entry of a state with all that hangs on it (`processStateChange`, the message, the approval
without asking); `CardChange` a reader event with `processReaderChange`;
`WorkflowFinished` is `onWorkflowFinished` of the plugin and of the controller, with the
start of the request that waits. `told` is a history variable: what the connected
client was last told of its workflow.

A command is one action per group that changes the same state; what a command carries
is in `ChangePin` and `Authentication`. A workflow of the user or the browser
is told apart by who requested it only where the plugin does so.

## 3. Runs

| Run | Question | Instance | Expected |
|---|---|---|---|
| `app_controller` | safety and liveness of the controller, refinement of `WorkflowSlots` | an authentication, a PIN change, a self-authentication; two timer ticks | pass, 140 710 states |
| `change_pin` | safety of the PIN change, and that a cancelled one ends | six: QML change with tries 0, 1, 3 (one fault, three entries), QML check with tries 0, 1 (one fault, two entries), SDK with three tries (three faults, one entry) | pass, 604 131 states |
| `change_pin_success` | SDK `success` as documented | SDK, one fault, one entry | violation |
| `change_pin_killed` | a killed workflow ends | the same | violation |
| `authentication` | safety of the three workflows with a server, that a cancelled one ends, and that a session of the chip is finalized | five: SDK authentication with an honest server, killed (one fault, transmit and redirect); QML authentication with any server, cancelled (one fault, one transmit); QML self-authentication with any server, killed (one each); QML personalization, cancelled (one fault, one transmit) and killed (two transmits) | pass, 285 222 states |
| `ifd_service` | passwords, answers and connections of the service | three: one client with three messages; two clients with two messages; a card that is removed | pass, 390 154 states |
| `ifd_service_pace` | PACE has a password | the same | violation |
| `ifd_service_answers` | an answer goes to the client that asked | the same | violation |
| `ifd_client` | requests, attempts and readers of the client | four: three attempts; an attempt and a pairing; a scan that stops; a card that is used and removed | pass, 217 832 states |
| `updates` | downloads, verification and checks | four: checks off (files absent, files there and one day), checks on with one day and a shutdown, no checks in this build | pass, 43 690 states |
| `updates_cancel` | "Cancel" cancels the download | the same | violation |
| `json_api` | what a client of the SDK is asked and told, and what it leaves behind | two clients, three requests, two readers, API levels 2 and 3 | pass, 1 287 486 states |

Bounds and why they are enough.

* `AppController`: three requests are one more than the controller can hold: one is
  active, one waits, a third is refused or starts after them, and the three actions
  are the three kinds of busy handling. The network timer gives up after
  `MaxTicks` = 2 calls instead of 60: only "before" and "at the limit" differ.
* `ChangePin`: tries 0, 1 and 3 are the three ways a card can ask for a password
  (PUK, CAN, PIN; 2 is reached from 3 and behaves as 3). Three entries are PUK
  then PIN, or CAN then PIN, with one wrong answer; three faults are the first
  number that leads to the hint about the card's position (more than two losses). Faults and entries are bounded in the
  guards and nothing else is.
* `Authentication`, `Personalization`: a second TRANSMIT, redirect or fault repeats
  the loop of one state (the second TRANSMIT of the last instance is one in each of
  the two exchanges of a personalization); the chip starts in each of its states;
  `OwnUrls` and `ForeignUrls` of one URL each distinguish the address of the
  provider from one that has to be redirected back.
* `IfdService`: three messages are connect, a request with a password and one
  more; two clients are the one that left and the one that follows; a message
  queues behind at most one or two events of the main thread.
* `IfdClient`: `RefusalLimit` is 2 instead of 7 (below and at the limit), one
  list request under way at a time, three attempts (one beyond the limit).
* `Updates`: one new version (`Newest` = 1) and the installed one, days up to two
  (the second expiry shows whether the timer was started again; one expiry
  with automatic checks on is a check that is due during a download).
* `JsonApi`: the second client is the one that could find what the first left; three requests
  are one that runs, one that waits and one that is refused; two readers, because
  INSERT_CARD depends on all of them, are interchangeable (symmetry; there is no
  liveness property); levels 2 and 3 are the two sides of the only differences left
  in the model (PAUSE, cards without an eID).

Deadlock is checked except in `ifd_service` and `ifd_client`, where what comes from
outside (messages, attempts) is bounded and a program with nothing to do stops.
Elsewhere the only terminal states are the declared `Terminated` ones, and states
in which the program waits for the user always leave an action of the user
enabled.

### What the properties say

AppController: `CompletionIsForActive`
(the assertions of `onWorkflowFinished`), `ClaimMatchesDomination`, `AuthWaitsForCompletion`,
`ImplementsSlots`, `EnqueuedAuthenticationRuns`, `ShutdownCompletes`.

ChangePin: `PasswordsCleared` (the assertions of the contexts' destructors, even when
the clearing states are left by a cancellation before they run),
`OneAttemptPerEntry` (a PIN entered once costs at most one attempt, whatever is lost),
`SuspendedPinNeedsCan`, `ResultIsTruthful` (an error comes with its reason), `EnteredClean` (no state is
entered with connections of an earlier stay), `CancelledEnds`.

Authentication and Personalization: `ResultIsTruthful` (success only if the server
confirmed it, with the data of a self-authentication, with the chip of a
personalization), `RefreshIsVerified`, `AssertionsHold` (the assertions of the states:
`PasswordsCleared`, no password is left when the server's answer is looked at nor at
the end; `PaceDataPresent` and `ErrorHasFailureCode`, these two for an honest server),
`SmartCommandsAreAwaited` (no workflow ends while the reader thread may still run a
function that uses one of its states), `CancelledEnds` (of the SDK: the graphical
UI waits for its user), `InterruptedIsFinalized` (the request of
`eid_applet_interface.h`: a session of the chip is finalized however the
personalization is interrupted).

IfdService: `PasswordsOfThisClient` (what was entered for one client is never there
for the next, nor at the end), `CardAnswersWereAsked`, `CardsAreReleased` (no card
stays connected for a client that has gone, however its connections were being
created).

IfdClient: `PendingHasAnswer` (the assertions of `onDispatcherCreated` and
`onDispatcherError`, as a balance over three threads), `AnswerIsOwn`,
`ConnectionsAgree` (client and device agree which card connection is open once
nothing is on its way), `AttemptsEnd`, `ClosedReadersVanish`.

Updates: `RequestsAreOwned` (each requester that waits has exactly one request in the
downloader and no request is without one), `PackageIsVerified`, `NextCheckIsDue`,
`DownloadsEnd`.

JsonApi: `ClientIsAsked` (a workflow that waits has asked its client, also when the card
that spared the question is gone, and an answer is taken for that state only),
`SessionMatchesWorkflow` (a client hears of one workflow from its start to its
result, and the next client of nothing that was before), `DeveloperModeEnds` (what
switches checks off ends with the workflow it was asked for, even if that one was
refused or its client left).

### Where the code does not do what it says

* `SuccessMeansChanged`: the SDK's `success` is computed from the last PACE result,
  which is OK before any PACE; a failed connect reports success.
* `KilledWorkflowEnds`: a PACE answer that was posted before the kill carries the
  workflow from the clean-up back to the PIN change, with an empty new PIN; if
  that response is lost the workflow re-enters the composite and never ends.
* `PaceHasPassword`: a PIN change of the remote client that the user cancelled leaves
  its message in the context, so the password for the next PACE is stored as a new PIN
  and PACE starts without one.
* `WorkflowAnswersWereAsked`: the states that answer look at the message and at the
  client when they run; if the client closed meanwhile and another connected, that
  one is answered, or a null pointer is used.
* `CancelStopsDownload`: with automatic checks on, the daily timer expires while an update
  is downloaded; the check that is due makes the updater forget what it downloads, which
  can neither be cancelled nor end.

`ResultIsTruthful` of ChangePin is about the workflow's status, which the QML UI shows;
it holds. The difference to `SuccessMeansChanged` is exactly the SDK's own
computation. `CancelledEnds` excludes, by `NotOvertaken`, the behaviours of the third
item; `RequestsAreOwned` and `DownloadsEnd` exclude, by `Forgotten`, those of the last.

Seen while modelling, and visible in the modules, but not claims of their own:

* `doShutdown` says "Make sure that any request for a new workflow is removed from the
  queue" (`AppController.cpp:308`) and empties the waiting slot; a request that is
  already posted to the main thread is still handled and starts a workflow during
  the shutdown (`StartRequested`), which `ShutdownCompletes` covers.
* A second RUN_AUTH or RUN_CHANGE_PIN that comes before the request of the first was
  handled is accepted, as the dispatcher has no workflow yet, then dropped without
  an answer; its `developerMode` holds for the first workflow (`RunWorkflow`,
  `RequestWhileBusy`; `docs/sdk/commands.rst:209` promises BAD_STATE).
* A workflow a browser requests while a client is in its handshake is claimed
  for that client (`Started`), but the JSON plugin is not enabled yet and never hears
  of it: nobody can operate it until the client leaves.
* `MsgHandlerInsertCard` is silent while any ID card is there, also one its reader is too
  small for, with which `StateSelectReader` does not go on: `ClientIsAsked` asks for
  INSERT_CARD only without any ID card (`HasEid`, not `Selectable`).
* `MsgContext::clear` keeps the API level and `mProgressStatus`, so the `status`
  option of one command holds for the next one that does not give it.
* The retry counter `StatePreparePace` reads may have become unknown by a removal
  since `StateVerifyRetryCounter` checked it.
* A dispatcher that is closed before the plugin listens to it stays in the plugin
  until the scan is stopped (`IfdReaderManagerPlugin.cpp:250`).
* The answer that comes after a request has timed out is taken for the next one of
  the same type; `AnswerIsOwn` has it as its premise.
* Two connect requests for one slot in a row get a handle each.
* `StateTransmit` sets the status of the workflow without a failure code; a
  server that answers OK then breaks the assertion of `StateCheckError`.
* `InterruptedIsFinalized` begins where the workflow knows that the session began. A
  cancellation while `StateInitializePersonalization` waits for its command, or its
  `run()` that comes after a cancellation, leaves a chip with a session that
  nobody finalizes and keeps the `SmartManager` (`cStrongInstance`), although
  `eid_applet_interface.h:180` asks for it "if personalization flow has been interrupted".
* `StateClearPacePasswords` clears the passwords of PACE; the new PIN of a
  `PersonalizationContext` stays until the context is deleted.

## 4. Fairness

`AppController!FairSpec`: weak fairness of the event loop (what is posted is
handled), of an approved final state's `run()`, of the network timer, and of the
deferred delete of the plugins. Nothing is assumed of users, UIs, peers; that a
killed workflow reaches its final state is a hypothesis inside
`ShutdownCompletes`, since it is a statement about the workflow and not the controller.

`ChangePin`, `Personalization!WorkflowFairness` (for `Authentication` too),
`IfdService`: weak fairness of the start of the machine,
of the main thread's loop and of the worker's loop. These are event loops that run
for the life of the process, and each has at most one next event, so weak
fairness of their disjunctions is what the scheduler gives. The workflows with a
server add that every request gets an answer or its transfer timeout
(`NetworkManager::setTransferTimeout`), and that PACE, whose model `ChangePin` is, ends
when the workflow was cancelled (`ChangePin!CancelledEnds`). The user, the card, the
Smart-eID's reader, the server's choice, the client and faults are not fair.

`IfdClient`: the three event loops, the end of a closed channel, and an outcome of
every connection attempt (the socket's own timeout). The device's answers are not
fair: the code's timeout is what ends a request.

`Updates`: every transfer ends (its transfer timeout at the latest) and the posted
check is handled. The timer, the user and the window are not fair.

## 5. Proofs

TLC checks small instances. The seven `...Proofs` modules prove with TLAPS, for every value
of the constants their modules' assumptions allow (any number of requests, clients,
readers, faults, versions, URLs, instances), what the runs check there. In each of
them the theorems follow from `Invariance` (`Spec => []IInv`), whose inductive invariant
`IInv` TLC has checked on the module's instances first; a lemma per action proves that the
action preserves it, and lemmas on the module's operators come before. Stated is the
whole property, under no hypothesis but the module's assumptions on its constants.

| Theorem | States |
|---|---|
| `AppControllerProofs`: `TypeCorrect`, `WaitingIsBehindActive`, `AuthenticationWaitsForCompletion`, `ClaimsMatchDomination`, `CompletionsMatch` | `TypeOK`, `WaitingBehindActive`, `AuthWaitsForCompletion`, `ClaimMatchesDomination`, `CompletionIsForActive` |
| `AppControllerProofs`: `WaitingIsNext`, `Refinement` | the action property `WaitingRunsNext`; `AppController` implements `WorkflowSlots` |
| `JsonApiProofs`: `TypeCorrect`, `ClientsAreAsked`, `SessionsMatch`, `DeveloperModeIsOver` | `TypeOK`, `ClientIsAsked`, `SessionMatchesWorkflow`, `DeveloperModeEnds` |
| `UpdatesProofs`: `TypeCorrect`, `RequestsHaveOwners`, `PackagesAreVerified`, `ChecksGoOn` | `TypeOK`, `RequestsAreOwned`, `PackageIsVerified`, `NextCheckIsDue` |
| `IfdClientProofs`: `TypeCorrect`, `AttemptsAreAnswered`, `AnswersAreOwn`, `ClientAndDeviceAgree` | `TypeOK`, `PendingHasAnswer`, `AnswerIsOwn`, `ConnectionsAgree` |
| `IfdServiceProofs`: `TypeCorrect`, `PasswordsStay`, `AnswersWereAsked` | `TypeOK`, `PasswordsOfThisClient`, `CardAnswersWereAsked` |
| `ChangePinProofs`: `TypeCorrect`, `NoPasswordIsLeft`, `ResultsAreTruthful`, `OneAttempt`, `SuspendedNeedsCan` | `TypeOK`, `PasswordsCleared`, `ResultIsTruthful`, `OneAttemptPerEntry`, `SuspendedPinNeedsCan` |
| `AuthenticationProofs`: `TypeCorrect`, `AddressesAreVerified`, `ResultsAreTruthful`, `CommandsAreAwaited` | `TypeOK`, `RefreshIsVerified`, `ResultIsTruthful`, `SmartCommandsAreAwaited` |

### AppController

None of the invariants but the type is inductive as it stands. `IInv` adds:

* `InboxInv`: a request event in the queue belongs to a request whose fate is still
  `posted`, and neither a request nor a completion is in the queue twice. Without
  it a request could be started a second time while it waits.
* `FateInv`: the fates `active` and `waiting` are exactly the two slots. This is what
  makes the refinement mapping work.
* `StageInv`: a workflow is complete exactly while its completion is queued, and has
  no stage exactly when there is none. Without it a completion could meet the next
  workflow.
* `SlotInv`: the three invariants on the slots, which are preserved only together.

Lemmas on appending to and taking from the queue (`AppendFacts`, `TailFacts`,
`PostKeepsInbox`, `TakeKeepsInbox`) are stated once. The refinement maps each action to the
abstract one it performs (`SlotsStep`). `WaitingIsNext` and `WaitingIsBehindActive` say for the
controller what `ImplementsSlots` says through the fates.

### JsonApi

The three invariants are preserved only together and with

* `ConnInv`: the plugin is enabled while a client is connected, and a workflow it hears
  of was claimed for that client and is known to the dispatcher. Without it the next
  client could inherit a workflow.
* `LastInv`: the message the dispatcher remembers is about the current state, and is
  there whenever a card is missing. Without it a card that comes back could find no
  message to repeat, and `ClientIsAsked` would break two steps later.

### Updates

* `InOrder`: the downloader's queue has no URL twice, nor the one under way, and is
  empty when it is idle. Without it a finished download leaves a second request
  of an owner that no longer waits.
* `FilesAreOwned`, `UpdaterIsOwned`: a URL is requested exactly while its file, or the stage
  of the updater, waits for it; an updater that has forgotten what it downloads
  (`Forgotten`) does not wait for the list of versions either.
* `DataInv`: nothing is announced as ready while it is downloaded, data without a version
  is no data. `PackageIsVerified` is not preserved without it.

That a queue loses exactly one URL (`WithoutQueue`) is an induction over its length. The
library's induction theorems cannot be used (they take an operator as a parameter), so
`LeastElement` takes the least counterexample of a set of natural numbers, and
`KeptExists` gives the recursive function of `Without` its equations.

### IfdClient

* `ReadersAreThere`, `LinkIsOpen`: the blocked thread asks a reader that exists, and the
  device is linked to the one dispatcher whose channel is open.
* `OneInFlight`, `FlightIsOwn`: as long as no request has timed out, the messages under way
  between the connector's queue, the socket, the device and back (`Flight`) are at most
  one, and none of another request. They are sums of cardinalities over four queues
  (`Many`); a step moves a message from one to the next. This is why an answer that is
  recognised by its type alone is the right one.

`PendingHasAnswer` is a balance of the same kind over three threads: the attempts that
are pending are those in the connector's queues, being connected, or answered.

`ConnectionsAgree` speaks only of the moments when nothing is on its way, so it needs
what holds at all others: `AgreedInvariance` is `Spec => [](IInv /\ Agreed)`.

* `Paths` follows a connection from the connector to the plugin. Connections are made one
  after the other, so the one the device has is the newest, and once its
  announcement is taken no older one can arrive (`NewestIsLast`); what the plugin still
  hears of the device's connection is its own dispatcher (`DispatcherIsHeard`); no
  status arrives or is handled before the context handle is known (`ContextIsKnown`). Without
  it the plugin could replace its dispatcher by a stale one, or a reader could
  appear for a connection that is gone.
* `Handles` follows the handle of the card. A reader is named after its dispatcher
  (`ReadersAreNamed`); what is on its way to the device is exactly what the blocked call has
  sent, with the handle the reader has (`RequestIsAsSent`); an answer that grants
  something belongs to the call that asked for it (`RepliesFit`). What the
  device did is then either known to the reader or about to be: by an answer that is under
  way or taken and not used yet (`Granted`), or by the news that the card is gone
  (`Absence`), which only a removed or moved card causes (`StatusIsTrue`). `HandlesAgree` and
  `HandleIsHeld` say so for a reader that is connected and for a device that is.

Queues change at both ends in a single action, which is why the lemmas on them speak of
what is left of a queue (`Fewer`: an unbroken rest, events of other types aside). Steps
that post nothing `Agreed` speaks of go through `CalmStep`, those that begin or end a
request through `CallStep`. All of it holds only until a request times out (`late`);
from then on an answer may be taken for another request's, and the code makes no promise.

### IfdService

`Invariance` is `Spec => [](IInv /\ Idle)`; the parts of `IInv` are operators of the machine, the
context, the handler, the pending creations and the devices, so that a lemma can
speak of an intermediate machine of an action.

* `Alive`: what refers to a worker (the context's connection, a slot, a pending creation, a
  command, an event) refers to one that exists and has no command to delete it, and no
  worker is to be deleted twice. Without it a handle could be that of a deleted worker.
  `Reap` keeps it because it deletes exactly the workers nobody mentions
  (`ReapFacts`, `ReapKeepsAlive`); on the worker thread a command that is taken leaves its
  reference in the event it posts (`CommandFacts`).
* `Ordered` is about the passwords. The context's belong to the present client or to nobody,
  and while one remains the `run()` of `ClearStop` comes first (`ClearComesFirst`), nothing of the
  last states is posted before they are entered (`NothingLate`), and a workflow that was
  cancelled before it started learns of it before a password can be entered
  (`EarlyCancel`). `OrderedFire` says once where a signal may lead (`MayGo`).
* `AnswersAreDue`: the requests of the present client that are in the queue of messages, on the
  worker thread or among its results are no more than it has asked (`UnderWay`, a sum
  over three queues). A step moves a request from one queue to the next.
* `EndIsLast`, `ClientsAreNew`: nothing of a client's messages follows its end, and a client's
  number is new. Without them the commands of one that has gone could be counted for the next.
* `Idle`: nothing is sent to the worker thread before the workflow starts. `Going` says that no
  operation on a machine takes it back to where it was before.

### ChangePin

`PasswordsCleared` speaks of the final state, but a cancellation or the end of a killed
workflow can skip states before their `run()` came. The invariant is about the order of the queue:

* `ClearComesFirst`: while a password remains, the `run()` of `Clear` is in the queue ahead
  of everything else that leads on. Past `Clear` leads only the cancellation, past
  `UpdateFinal` only the end of a killed workflow, and there is no third step.
* `NothingLate`: before the last states are entered nothing of theirs is under way, neither
  posted nor with the worker, although late commands and results of other states are.

`ResultIsTruthful` is proved from a second invariant (`RInv`, `Spec => []RInv`) on top of `IInv`:

* `Sound`: a state of the change is only entered, its `run()` only posted and a PIN only sent
  (`Fit`, `FitCmd`) if the PIN is not just to be checked; the answer OK comes from a card that
  has the new PIN; a state at the end (`Ending`) has an error or the PIN changed. `MayEmit`
  says what each signal needs for that, and `FireSound` that it is enough for every state
  that may emit it, current or left.
* `Told`, `Unheard`: a workflow has an error without a failure code only if it was killed before
  its first state was entered. Then nothing is sent or listened to, and all that is posted
  is that cancellation and what the reader reports (`Fresh`), so no `run()` can look at it.

`OneAttemptPerEntry` and `SuspendedPinNeedsCan` need to know that what the main thread
decided by is still true when the worker thread executes the command, several steps later.
They are proved together from a third invariant (`AttemptInvariance`, `Spec => []OInv`):

* `Attempts` holds always, whatever went wrong: while a PIN is queued for the card, no attempt was
  spent on it yet, the card will take it (`MayTry`), and only the release of a connection, or
  the creation of one nobody waits for, is ahead of it (`Ahead`, `Harmless`). It implies both
  properties; that a PIN is only queued under these conditions needs the other two parts.
* `InStep`: as long as the status is OK only the current state is busy, with one thing: a posted
  `run()`, a command of its own, or the posted answer. The states that wait for a card
  listen instead, and what comes of an earlier card is handled before a state that relies
  on the counter runs (`Passing`).
* `Knows`: what holds in each state (`At`) and what a posted event says is still true of the card
  (`Says`). The counter the main thread has is the card's (`Current`), the CAN that was
  accepted is still the session (`CanKept`), and a PIN that has cost an attempt (`Wasted`)
  meets a counter one lower than expected (`Lower`) in every state from which it
  could be sent again: this is what `StateVerifyRetryCounter` finds. Asking for a
  password, and sending it, needs all of that (`Ready`).

Once a workflow is cancelled or has an error, `InStep` and `Knows` are lost, but the states
that send passwords only pass on. `MoveStep` (a signal of the current state) and `AnswerOnce`
(a command's answer) say once what an action must show; each action has one lemma.

### Authentication and Personalization

The state graph has more than fifty states in three workflows, a late `run()` still
executes, and signals of composite states count whichever inner state is current. The
proof rests on four ideas.

* What keeps a set of states *busy* (`Idle`, `Single`): a posted `run()`, an outstanding request,
  a command or its posted answer. `Calmer`, `Gives` and `Takes` say how an operation on the
  machine changes that for *every* set at once, so that each of the operators (take an
  event, a reply or a command; post, request, command; enter, exit) has one lemma.
* `InStep`: as long as the status is OK only the current state is busy, with one thing, and
  `Proven`: what a region of the graph requires was confirmed before it is entered
  (`Confirmed` by the server, `WithData`, `Personalized`). Once something went wrong the
  status says so for ever (`Like`), and nothing is claimed any more. This is
  `ResultIsTruthful`; `Decided` and `Told` carry it to the browser, for which the result
  was computed when `RedirectBrowser` was entered.
* `CheckedOnce`: the search for the refresh address begins once and nothing of it is
  under way when its result is there, also when the workflow is cancelled; `Addressed`: a
  certificate that is fetched is that of a URL of the provider. This is
  `RefreshIsVerified`.
* `OneApplet`: only the command of `CheckApplet`, which can be interrupted, is ever left
  behind; `Prompt` (no user is waited for in the applet's states, nor in PACE) and
  `QuietStart` (only a workflow that was killed before it started learns of it from a
  posted cancellation, and nothing else is under way then) exclude the ways around it. This is
  `SmartCommandsAreAwaited`.

Where a signal leads is read off the tables (`Tables`, `ChannelGraph`, ..., `TargetFacts`). The
step lemmas use `EmitGood` (a signal preserves the invariant), `CalmGood` (a machine that is no
busier does) and `CrashGood`, and one lemma per kind of handler.

### What the proofs found

* Overlapping `CASE` guards. TLC takes the first arm that holds; TLA+ leaves the choice
  open, so nothing can be proved of such a value. `JsonApi` (the message of a card event),
  `ChangePin` (the maintenance of the connection, PACE and its codes, the edges),
  `Authentication` and `Personalization` (edges, `Waiting`, the end of a command) and
  `IfdService` now have `IF` chains or disjoint guards, in the order of the source.
* `Authentication` did not say that `"errorAddress"`, the result for a refresh address of an
  error, is no URL; it does now (`AuthenticationAssumption`).
* The count of redirects belongs to a search: a request that starts one resets it, so
  `SendGet` takes it as a parameter. The type of `net.redirects` was not inductive before.
* `SelectSeq` cannot be expanded by the prover; `Updates` (`Without`) and `IfdService` (`Only`)
  have recursive functions of their own instead.

### Only model-checked, and why

* Liveness (`EnqueuedAuthenticationRuns`, `ShutdownCompletes`, `CancelledEnds`, `InterruptedIsFinalized`,
  `CardsAreReleased`, `AttemptsEnd`, `ClosedReadersVanish`, `DownloadsEnd`): the prover has no
  ENABLED and no fairness.
* The runs that expect a violation: a counterexample is TLC's.
* `ChangePin`: `EnteredClean` is about the states a stale `run()` connected (`stray`), also
  after a cancellation, where `InStep` says nothing any more.
* `Authentication`: `AssertionsHold` needs what `ChangePinProofs` has, the order of the queue
  up to the state that clears the passwords, and when the data of PACE are there.

## 6. Not modelled, and the plan

`PROJECT.json` gives the reason for each component. The program's own code is far
larger than these models: half of it is presentation (QML models and messages),
settings, parsing, ASN.1, cryptography, platform adapters and diagnosis, which
compute or show data without an order of events that could go wrong. What
could still be modelled:

* The composition of `IfdClient` with `IfdService` over the web socket: each is checked
  with the other reduced to what it may send.
* Several remote devices and slots; comfort readers, transport PIN, CAN-allowed
  mode in `ChangePin`; mobile builds of `Updates`.
* `ReaderManager`'s cache over several plugins.

Theorems worth proving next:

1. `Authentication`: `AssertionsHold`, by the order of the queue as in `ChangePinProofs`.
2. `ChangePin`: `EnteredClean`, from which states can still have a `run()` posted when they
   are left by a cancellation.
