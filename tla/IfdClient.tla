------------------------------ MODULE IfdClient ------------------------------
(***************************************************************************)
(* The client of a remote reader: RemoteIfdReaderManagerPlugin with its    *)
(* readers and IfdCards on the thread of the ReaderManager, the            *)
(* RemoteIfdClient on the main thread, and the IfdConnector with the       *)
(* dispatchers and web sockets on a thread of its own.  Each thread has a  *)
(* queue of posted calls; a request of an IfdCard blocks its thread until  *)
(* an answer, the end of the channel or a timeout wakes it.                *)
(*                                                                         *)
(* Scope: one remote device with one slot.  The device is the service that *)
(* IfdService models in detail; here it is reduced to its answers.  A      *)
(* transmit stands for all requests that use a slot handle.                *)
(***************************************************************************)
EXTENDS Integers, Sequences, FiniteSets

CONSTANTS
    Bounds,        \* instances: how often each thing happens
    RefusalLimit,  \* refused connections until the certificate is removed
    MaxQueries     \* bound: requests for the list of devices under way

ASSUME IfdClientAssumption ==
    /\ Bounds \subseteq [attempts : Nat, pairs : Nat, vanish : Nat, drops : Nat, stops : Nat,
                         removals : Nat, uses : Nat, card : BOOLEAN, moved : {FALSE}]
    /\ RefusalLimit \in Nat \ {0} /\ MaxQueries \in Nat \ {0}

VARIABLES
    bounds,     \* what may still happen of the chosen instance
    client,     \* RemoteIfdClient on the main thread
    plugin,     \* RemoteIfdReaderManagerPlugin on the thread of the ReaderManager
    readers,    \* the readers of the plugin by context handle
    call,       \* the request that thread is blocked in
    connector,  \* IfdConnector, its requests and its dispatchers
    device,     \* the remote device and what is on its way to and from it
    ids,        \* requests so far
    late        \* a request timed out

vars == <<bounds, client, plugin, readers, call, connector, device, ids, late>>

(* A dispatcher is named by the number of its connection, as is the        *)
(* context handle it receives; 0 is none.                                  *)
Dispatchers == 1..Len(connector.channels)
Numbers     == {0} \cup Dispatchers

Message(type, id, handle, ok) == [type |-> type, id |-> id, handle |-> handle, ok |-> ok]
NoMessage == Message("none", 0, 0, FALSE)
NoCall    == [type |-> "none", id |-> 0, n |-> 0, key |-> 0, fetch |-> FALSE, blocked |-> FALSE,
              woken |-> FALSE, answer |-> "none", got |-> NoMessage]
Requests  == {"connect", "transmit", "destroyPace", "disconnect"}
Messages  == [type : Requests \cup {"none", "context", "getStatus", "status"}, id : Nat,
              handle : Nat, ok : BOOLEAN]
Set(f, k, v) == [j \in DOMAIN f \cup {k} |-> IF j = k THEN v ELSE f[j]]

(* The types of the records; D are the dispatchers so far. *)
ClientEvents(D) ==
    [type : {"startDetection", "stopDetection", "requestDevices", "establish", "refused", "failed"},
     n : {0}] \cup [type : {"created", "closed"}, n : D]
ClientType(D) ==
    [list : {"none", "plain", "pairing"}, detecting : BOOLEAN, pending : Nat,
     errors : 0..(RefusalLimit - 1), connected : BOOLEAN, trusted : BOOLEAN, hears : SUBSET D,
     events : Seq(ClientEvents(D))]
PluginEvents(D) ==
    [type : {"appeared", "devices", "vanished", "attemptDone"}, n : {0},
     arg : {"none", "plain", "pairing"}]
    \cup [type : {"dispatcher", "context", "status", "closed"}, n : D, arg : {"none", "card"}]
PluginType(D) ==
    [scanning : BOOLEAN, listening : BOOLEAN, wired : BOOLEAN, attempt : BOOLEAN,
     dispatcher : {0} \cup D, hears : SUBSET D, session : BOOLEAN, key : {0} \cup D,
     events : Seq(PluginEvents(D))]
ReaderType(D) == [disp : D, card : BOOLEAN, connected : BOOLEAN, handle : Nat]
CallType(D) ==
    [type : Requests \cup {"none"}, id : Nat, n : {0} \cup D, key : {0} \cup D,
     fetch : BOOLEAN, blocked : BOOLEAN, woken : BOOLEAN, answer : {"none", "message", "closed"},
     got : Messages]
ConnectorEvents(D) ==
    [type : {"connect", "pair"}, n : {0}, msg : Messages]
    \cup [type : {"context", "getStatus", "send", "close"}, n : D, msg : Messages]
Channels == [state : {"open", "dead", "closed"}, pairing : BOOLEAN, context : BOOLEAN]
ConnectorType(D) ==
    [events : Seq(ConnectorEvents(D)), requests : Seq({"connect", "pair"}),
     channels : Seq(Channels)]
DeviceType(D) ==
    [card : BOOLEAN, conn : {0} \cup D, handle : Nat, jobs : Seq(Messages),
     toDevice : Seq(Messages), toClient : Seq(Messages)]
Limits == [attempts : Nat, pairs : Nat, vanish : Nat, drops : Nat, stops : Nat, removals : Nat,
           uses : Nat, card : BOOLEAN, moved : BOOLEAN]

TypeOK ==
    /\ bounds \in Limits
    /\ client \in ClientType(Dispatchers)
    /\ plugin \in PluginType(Dispatchers)
    /\ DOMAIN readers \subseteq Numbers
    /\ \A k \in DOMAIN readers : readers[k] \in ReaderType(Dispatchers)
    /\ call \in CallType(Dispatchers)
    /\ connector \in ConnectorType(Dispatchers)
    /\ device \in DeviceType(Dispatchers)
    /\ ids \in Nat /\ late \in BOOLEAN

Init ==
    /\ bounds \in Bounds
    /\ client = [list |-> "none", detecting |-> TRUE, pending |-> 0, errors |-> 0,
                 connected |-> FALSE, trusted |-> TRUE, hears |-> {}, events |-> <<>>]
    /\ plugin = [scanning |-> TRUE, listening |-> FALSE, wired |-> FALSE, attempt |-> FALSE,
                 dispatcher |-> 0, hears |-> {}, session |-> FALSE, key |-> 0, events |-> <<>>]
    /\ readers = <<>>
    /\ call = NoCall
    /\ connector = [events |-> <<>>, requests |-> <<>>, channels |-> <<>>]
    /\ device = [card |-> bounds.card, conn |-> 0, handle |-> 0, jobs |-> <<>>,
                 toDevice |-> <<>>, toClient |-> <<>>]
    /\ ids = 0 /\ late = FALSE

-----------------------------------------------------------------------------
(* Queues of posted calls. *)
PostPlugin(p, type, n, arg) ==
    [p EXCEPT !.events = Append(@, [type |-> type, n |-> n, arg |-> arg])]
PostClient(c, type, n)    == [c EXCEPT !.events = Append(@, [type |-> type, n |-> n])]
PostConnector(c, type, n, msg) ==
    [c EXCEPT !.events = Append(@, [type |-> type, n |-> n, msg |-> msg])]

ClientHandles(type) == client.events # <<>> /\ Head(client.events).type = type
ClientRest          == [client EXCEPT !.events = Tail(@)]
ClientArg           == Head(client.events).n
Idle                == call.type = "none"
PluginHandles(type) == Idle /\ plugin.events # <<>> /\ Head(plugin.events).type = type
PluginRest          == [plugin EXCEPT !.events = Tail(@)]
PluginArg           == Head(plugin.events)
ConnectorHandles(type) == connector.events # <<>> /\ Head(connector.events).type = type
ConnectorRest       == [connector EXCEPT !.events = Tail(@)]
ConnectorArg        == Head(connector.events)
May(what)  == bounds[what] > 0
Uses(what) == bounds' = [bounds EXCEPT ![what] = @ - 1]
Ghosts     == <<ids, late>>

-----------------------------------------------------------------------------
(* The main thread: RemoteIfdClient. *)

(* onNewMessage: a datagram of the device that announces itself.           *)
Announce ==
    /\ client.detecting
    /\ \E kind \in {"plain", "pairing"} \ {client.list} :
           /\ kind = "pairing" => May("pairs")
           /\ client' = [client EXCEPT !.list = kind]
    /\ plugin' = IF client.list = "none" /\ plugin.scanning
                 THEN PostPlugin(plugin, "appeared", 0, "none") ELSE plugin
    /\ UNCHANGED <<bounds, readers, call, connector, device, Ghosts>>

(* onProcessUnresponsiveRemoteReaders *)
Vanished(p) == IF p.wired THEN PostPlugin(p, "vanished", 0, "none") ELSE p
Vanish ==
    /\ client.list # "none" /\ May("vanish") /\ Uses("vanish")
    /\ client' = [client EXCEPT !.list = "none"]
    /\ plugin' = Vanished(plugin)
    /\ UNCHANGED <<readers, call, connector, device, Ghosts>>

StartDetection ==
    /\ ClientHandles("startDetection")
    /\ client' = [ClientRest EXCEPT !.detecting = TRUE]
    /\ UNCHANGED <<bounds, plugin, readers, call, connector, device, Ghosts>>

StopDetection ==
    /\ ClientHandles("stopDetection")
    /\ client' = [ClientRest EXCEPT !.detecting = FALSE, !.list = "none"]
    /\ plugin' = IF client.list = "none" THEN plugin ELSE Vanished(plugin)
    /\ UNCHANGED <<bounds, readers, call, connector, device, Ghosts>>

RequestRemoteDevices ==
    /\ ClientHandles("requestDevices")
    /\ client' = ClientRest
    /\ plugin' = IF plugin.listening THEN PostPlugin(plugin, "devices", 0, client.list) ELSE plugin
    /\ UNCHANGED <<bounds, readers, call, connector, device, Ghosts>>

Establish(c, kind) ==
    /\ client' = [c EXCEPT !.pending = @ + 1]
    /\ connector' = PostConnector(connector, kind, 0, NoMessage)
    /\ UNCHANGED <<plugin, readers, call, device, Ghosts>>
EstablishConnection ==
    /\ ClientHandles("establish")
    /\ Establish(ClientRest, "connect")
    /\ UNCHANGED bounds

(* connectToRememberedServer of the graphical UI: the user pairs. *)
Pair ==
    /\ client.list = "pairing" /\ May("pairs") /\ Uses("pairs")
    /\ Establish(client, "pair")

AttemptDone(p) == IF p.wired THEN PostPlugin(p, "attemptDone", 0, "none") ELSE p

OnDispatcherCreated ==
    /\ ClientHandles("created")
    /\ client' = [ClientRest EXCEPT !.errors = 0, !.pending = @ - 1, !.connected = TRUE,
                                    !.hears = @ \cup {ClientArg}]
    /\ plugin' = PostPlugin(AttemptDone(plugin), "dispatcher", ClientArg, "none")
    /\ UNCHANGED <<bounds, readers, call, connector, device, Ghosts>>

(* At the limit of refusals in a row the certificate is removed.           *)
Counted(limit) ==
    \/ ClientHandles("failed") /\ client' = [ClientRest EXCEPT !.pending = @ - 1, !.errors = 0]
    \/ /\ ClientHandles("refused")
       /\ client' = LET removes == client.errors + 1 >= limit
                    IN  [ClientRest EXCEPT !.pending = @ - 1,
                                           !.errors = IF removes THEN 0 ELSE @ + 1,
                                           !.trusted = @ /\ ~removes]

(* Variants: the counter passes its limit; the plugin is not told. *)
OnDispatcherErrorLater ==
    /\ Counted(RefusalLimit + 1)
    /\ plugin' = AttemptDone(plugin)
    /\ UNCHANGED <<bounds, readers, call, connector, device, Ghosts>>
OnDispatcherErrorSilently ==
    /\ Counted(RefusalLimit)
    /\ UNCHANGED <<bounds, plugin, readers, call, connector, device, Ghosts>>

OnDispatcherError ==
    /\ Counted(RefusalLimit)
    /\ plugin' = AttemptDone(plugin)
    /\ UNCHANGED <<bounds, readers, call, connector, device, Ghosts>>

OnDispatcherDestroyed ==
    /\ ClientHandles("closed")
    /\ client' = [ClientRest EXCEPT !.connected = FALSE]
    /\ UNCHANGED <<bounds, plugin, readers, call, connector, device, Ghosts>>

-----------------------------------------------------------------------------
(* The thread of the ReaderManager: scanning and connecting. *)

(* connectToPairedReaders: by the timer of the scan or a new device.       *)
ConnectToPairedReaders(p) ==
    /\ plugin' = [p EXCEPT !.listening = TRUE, !.wired = TRUE]
    /\ client' = PostClient(client, "requestDevices", 0)
    /\ UNCHANGED <<bounds, readers, call, connector, device, Ghosts>>
Queries == Cardinality({i \in DOMAIN client.events : client.events[i].type = "requestDevices"})
               + Cardinality({i \in DOMAIN plugin.events : plugin.events[i].type = "devices"})
ScanTimer ==
    /\ Idle /\ plugin.scanning /\ Queries < MaxQueries /\ May("attempts")
    /\ ConnectToPairedReaders(plugin)
DeviceAppeared ==
    /\ PluginHandles("appeared")
    /\ ConnectToPairedReaders(PluginRest)

(* continueConnectToPairedReaders *)
ContinueConnect ==
    /\ PluginHandles("devices")
    /\ LET list    == PluginArg.arg
           p       == [PluginRest EXCEPT !.listening = FALSE]
           starts  == /\ list = "plain" /\ plugin.dispatcher = 0 /\ client.trusted
                      /\ ~plugin.attempt /\ May("attempts")
       IN     IF starts THEN /\ plugin' = [p EXCEPT !.attempt = TRUE]
                             /\ client' = PostClient(client, "establish", 0)
                             /\ Uses("attempts")
              ELSE /\ plugin' = [p EXCEPT !.attempt =
                                    @ /\ ~(list = "plain" /\ plugin.dispatcher # 0)]
                   /\ UNCHANGED <<client, bounds>>
    /\ UNCHANGED <<readers, call, connector, device, Ghosts>>

(* onDeviceVanished, onEstablishConnectionDone *)
ForgetAttempt ==
    /\ PluginHandles("vanished") \/ PluginHandles("attemptDone")
    /\ plugin' = [PluginRest EXCEPT !.attempt = FALSE]
    /\ UNCHANGED <<bounds, client, readers, call, connector, device, Ghosts>>

StopScan ==
    /\ Idle /\ plugin.scanning /\ May("stops") /\ Uses("stops")
    /\ plugin' = [plugin EXCEPT !.scanning = FALSE]
    /\ client' = PostClient(client, "stopDetection", 0)
    /\ connector' = IF plugin.dispatcher = 0 THEN connector
                    ELSE PostConnector(connector, "close", plugin.dispatcher, NoMessage)
    /\ UNCHANGED <<readers, call, device, Ghosts>>
StartScan ==
    /\ Idle /\ ~plugin.scanning
    /\ plugin' = [plugin EXCEPT !.scanning = TRUE]
    /\ client' = PostClient(client, "startDetection", 0)
    /\ UNCHANGED <<bounds, readers, call, connector, device, Ghosts>>

AddDispatcher ==
    /\ PluginHandles("dispatcher")
    /\ plugin' = [PluginRest EXCEPT !.dispatcher = PluginArg.n, !.hears = @ \cup {PluginArg.n}]
    /\ connector' = PostConnector(connector, "context", PluginArg.n, NoMessage)
    /\ UNCHANGED <<bounds, client, readers, call, device, Ghosts>>

(* onContextEstablished: a pairing connection is closed again.             *)
ContextEstablished ==
    /\ PluginHandles("context")
    /\ plugin' = PluginRest
    /\ LET d == plugin.dispatcher
       IN  connector' = CASE d = 0 -> connector
                          [] d # 0 /\ connector.channels[d].pairing ->
                                 PostConnector(connector, "close", d, NoMessage)
                          [] OTHER -> PostConnector(connector, "getStatus", d, NoMessage)
    /\ UNCHANGED <<bounds, client, readers, call, device, Ghosts>>

(* Variant: the readers of a dispatcher survive it. *)
DispatcherClosedKeeping ==
    /\ PluginHandles("closed")
    /\ plugin' = [PluginRest EXCEPT !.dispatcher = 0, !.hears = @ \ {plugin.dispatcher}]
    /\ UNCHANGED <<bounds, client, readers, call, connector, device, Ghosts>>

(* removeDispatcher, by the id of the device.                              *)
DispatcherClosed ==
    /\ PluginHandles("closed")
    /\ plugin' = [PluginRest EXCEPT !.dispatcher = 0, !.hears = @ \ {plugin.dispatcher},
                                    !.session = FALSE]
    /\ readers' = <<>>
    /\ UNCHANGED <<bounds, client, call, connector, device, Ghosts>>

-----------------------------------------------------------------------------
(* The same thread: a request of the card blocks it. *)

(* IfdCard::sendMessage up to the wait. *)
SendMessage(type, key, reader, fetch) ==
    /\ ids' = ids + 1
    /\ call' = [NoCall EXCEPT !.type = type, !.id = ids', !.n = reader.disp, !.key = key,
                              !.fetch = fetch]
    /\ connector' = PostConnector(connector, "send", reader.disp,
                                  Message(type, ids', reader.handle, TRUE))

Wait ==
    /\ ~Idle /\ ~call.blocked
    /\ call' = [call EXCEPT !.blocked = TRUE]
    /\ UNCHANGED <<bounds, client, plugin, readers, connector, device, Ghosts>>

(* handleIFDStatus with processConnectedReader and updateStatus: the name  *)
(* of the reader is that of the dispatcher the plugin has now.  A new card *)
(* is connected, read and disconnected at once.                            *)
HandleStatus ==
    /\ PluginHandles("status")
    /\ plugin' = PluginRest
    /\ LET d    == plugin.dispatcher
           key  == IF connector.channels[d].context THEN d ELSE 0
           card == PluginArg.arg = "card"
           old  == IF key \in DOMAIN readers THEN readers[key]
                   ELSE [disp |-> d, card |-> FALSE, connected |-> FALSE, handle |-> 0]
           new  == IF old.card THEN [old EXCEPT !.card = card,
                                                !.connected = @ /\ card,
                                                !.handle = IF card THEN @ ELSE 0]
                               ELSE [old EXCEPT !.card = card]
       IN  IF d = 0 THEN UNCHANGED <<readers, call, connector, ids>>
           ELSE /\ readers' = Set(readers, key, new)
                /\ IF card /\ ~old.card THEN SendMessage("connect", key, new, TRUE)
                                        ELSE UNCHANGED <<call, connector, ids>>
    /\ UNCHANGED <<bounds, client, device, late>>

(* A workflow creates a connection to the card, uses it and drops it.      *)
CreateConnection ==
    /\ Idle /\ ~plugin.session /\ May("uses") /\ Uses("uses")
    /\ \E key \in DOMAIN readers :
           /\ readers[key].card /\ ~readers[key].connected
           /\ SendMessage("connect", key, readers[key], FALSE)
    /\ UNCHANGED <<client, plugin, readers, device, late>>
UseConnection ==
    /\ Idle /\ plugin.session /\ May("uses") /\ Uses("uses")
    /\ readers[plugin.key].card
    /\ \E type \in {"transmit", "destroyPace"} :
           SendMessage(type, plugin.key, readers[plugin.key], FALSE)
    /\ UNCHANGED <<client, plugin, readers, device, late>>
(* ~CardConnectionWorker *)
DropConnection ==
    /\ Idle /\ plugin.session
    /\ plugin' = [plugin EXCEPT !.session = FALSE]
    /\ IF readers[plugin.key].card /\ readers[plugin.key].connected
       THEN SendMessage("disconnect", plugin.key, readers[plugin.key], FALSE)
       ELSE UNCHANGED <<call, connector, ids>>
    /\ UNCHANGED <<bounds, client, readers, device, late>>

(* What the caller of sendMessage does with the answer.                    *)
Finish(ok) ==
    LET reader == readers[call.key]
        new == CASE ok /\ call.type = "connect" ->
                        [reader EXCEPT !.connected = TRUE, !.handle = call.got.handle]
                 [] ok /\ call.type = "disconnect" -> [reader EXCEPT !.connected = FALSE]
                 [] OTHER -> reader
    IN  /\ readers' = Set(readers, call.key, new)
        /\ CASE call.fetch /\ call.type = "connect" /\ ok ->
                    SendMessage("transmit", call.key, new, TRUE) /\ UNCHANGED plugin
             [] call.fetch /\ call.type = "transmit" ->
                    SendMessage("disconnect", call.key, new, TRUE) /\ UNCHANGED plugin
             [] OTHER -> /\ call' = NoCall
                         /\ plugin' = IF ok /\ call.type = "connect" /\ ~call.fetch
                                      THEN [plugin EXCEPT !.session = TRUE, !.key = call.key]
                                      ELSE plugin
                         /\ UNCHANGED <<connector, ids>>

(* Variant: the result of the wait decides, not the answer. *)
WakeByWait ==
    /\ ~Idle /\ call.blocked
    /\ late' = (late \/ call.answer = "none")
    /\ Finish(call.woken /\ call.answer = "message" /\ call.got.ok)
    /\ UNCHANGED <<bounds, client, device>>

(* The wait ends: woken, or by the timeout.  The answer counts even if     *)
(* nobody was waiting yet when it came.                                    *)
Wake ==
    /\ ~Idle /\ call.blocked
    /\ late' = (late \/ call.answer = "none")
    /\ Finish(call.answer = "message" /\ call.got.ok)
    /\ UNCHANGED <<bounds, client, device>>

-----------------------------------------------------------------------------
(* The thread of the connector: connection requests and dispatchers. *)

OnConnectRequest ==
    /\ ConnectorHandles("connect") \/ ConnectorHandles("pair")
    /\ connector' = [ConnectorRest EXCEPT !.requests = Append(@, ConnectorArg.type)]
    /\ UNCHANGED <<bounds, client, plugin, readers, call, device, Ghosts>>

Without(q, i) == SubSeq(q, 1, i - 1) \o SubSeq(q, i + 1, Len(q))

(* onConnected; the device takes one connection at a time.                 *)
ConnectionCreated ==
    /\ device.conn = 0
    /\ \E i \in DOMAIN connector.requests :
       LET kind == connector.requests[i]
           n    == Len(connector.channels) + 1
       IN  /\ connector' = [connector EXCEPT
                  !.requests = Without(@, i),
                  !.channels = Append(@, [state |-> "open", pairing |-> kind = "pair",
                                          context |-> FALSE])]
           /\ device' = [device EXCEPT !.conn = n]
           /\ client' = [PostClient(client, "created", n) EXCEPT !.trusted = @ \/ kind = "pair"]
    /\ UNCHANGED <<bounds, plugin, readers, call, Ghosts>>

(* Variant: the request is kept, as if it could still succeed. *)
ConnectionErrorKeeping ==
    /\ connector.requests # <<>> /\ client.pending > 0
    /\ \E code \in {"refused", "failed"} : client' = PostClient(client, code, 0)
    /\ UNCHANGED <<bounds, plugin, readers, call, connector, device, Ghosts>>

(* onError, onTimeout: refused, or not reached in time. *)
ConnectionError ==
    /\ \E i \in DOMAIN connector.requests, code \in {"refused", "failed"} :
           /\ connector' = [connector EXCEPT !.requests = Without(@, i)]
           /\ client' = PostClient(client, code, 0)
    /\ UNCHANGED <<bounds, plugin, readers, call, device, Ghosts>>

(* IfdDispatcher::send: a channel that is gone sends nothing.              *)
Sends(n, msg) ==
    device' = IF connector.channels[n].state = "open"
              THEN [device EXCEPT !.toDevice = Append(@, msg)] ELSE device
DispatcherSends ==
    /\ \/ ConnectorHandles("context")   /\ Sends(ConnectorArg.n, Message("context", 0, 0, TRUE))
       \/ ConnectorHandles("getStatus") /\ Sends(ConnectorArg.n, Message("getStatus", 0, 0, TRUE))
       \/ ConnectorHandles("send")      /\ Sends(ConnectorArg.n, ConnectorArg.msg)
    /\ connector' = ConnectorRest
    /\ UNCHANGED <<bounds, client, plugin, readers, call, Ghosts>>

(* The device and what was on its way are cut off. *)
Unlinked == [device EXCEPT !.conn = 0, !.handle = 0, !.jobs = <<>>, !.toDevice = <<>>,
                           !.toClient = <<>>]
Dies(c, n) == [c EXCEPT !.channels[n].state = IF @ = "open" THEN "dead" ELSE @]

(* IfdDispatcher::close *)
CloseDispatcher ==
    /\ ConnectorHandles("close")
    /\ connector' = Dies(ConnectorRest, ConnectorArg.n)
    /\ device' = IF device.conn = ConnectorArg.n THEN Unlinked ELSE device
    /\ UNCHANGED <<bounds, client, plugin, readers, call, Ghosts>>

(* onDisconnected, by the peer, after close() or for want of a pong.       *)
Disconnected ==
    /\ \E n \in Dispatchers :
           /\ connector.channels[n].state = "dead"
           /\ connector' = [connector EXCEPT !.channels[n].state = "closed"]
           /\ client' = IF n \in client.hears THEN PostClient(client, "closed", n) ELSE client
           /\ plugin' = IF n \in plugin.hears THEN PostPlugin(plugin, "closed", n, "none") ELSE plugin
           /\ call' = IF call.n = n /\ call.answer = "none"
                      THEN [call EXCEPT !.answer = "closed", !.woken = call.blocked] ELSE call
    /\ UNCHANGED <<bounds, readers, device, Ghosts>>

(* The last reference to a dispatcher is gone: it closes without a signal. *)
Referenced(n) ==
    \/ n = plugin.dispatcher \/ n = call.n \/ \E k \in DOMAIN readers : readers[k].disp = n
    \/ \E i \in DOMAIN plugin.events : plugin.events[i].type = "dispatcher" /\ plugin.events[i].n = n
    \/ \E i \in DOMAIN client.events : client.events[i].type = "created" /\ client.events[i].n = n
    \/ \E i \in DOMAIN connector.events : connector.events[i].n = n
DispatcherDeleted ==
    /\ \E n \in Dispatchers :
           /\ connector.channels[n].state # "closed" /\ ~Referenced(n)
           /\ connector' = [connector EXCEPT !.channels[n].state = "closed"]
           /\ device' = IF device.conn = n THEN Unlinked ELSE device
    /\ UNCHANGED <<bounds, client, plugin, readers, call, Ghosts>>

(* Variant: any message is taken for the answer. *)
AnsweredByAny(msg) ==
    IF ~Idle /\ call.n = device.conn /\ call.answer = "none"
    THEN [call EXCEPT !.answer = "message", !.got = msg, !.woken = call.blocked] ELSE call

(* IfdCard::onMessageReceived, called directly from the connector's        *)
(* thread: a wake-up before the wait has begun is lost.                    *)
Answered(msg) ==
    IF ~Idle /\ call.n = device.conn /\ call.answer = "none" /\ call.type = msg.type
    THEN [call EXCEPT !.answer = "message", !.got = msg, !.woken = call.blocked] ELSE call

(* IfdDispatcher::onReceived. *)
Received ==
    /\ device.toClient # <<>>
    /\ LET msg  == Head(device.toClient)
           n    == device.conn
           hear == n \in plugin.hears
       IN  /\ device' = [device EXCEPT !.toClient = Tail(@)]
           /\ CASE msg.type = "context" ->
                       /\ connector' = [connector EXCEPT !.channels[n].context = TRUE]
                       /\ plugin' = IF hear THEN PostPlugin(plugin, "context", n, "none") ELSE plugin
                       /\ UNCHANGED call
                [] msg.type = "status" ->
                       /\ plugin' = IF hear THEN PostPlugin(plugin, "status", n,
                                                            IF msg.ok THEN "card" ELSE "none")
                                    ELSE plugin
                       /\ call' = Answered(msg)
                       /\ UNCHANGED connector
                [] OTHER -> call' = Answered(msg) /\ UNCHANGED <<plugin, connector>>
    /\ UNCHANGED <<bounds, client, readers, Ghosts>>

-----------------------------------------------------------------------------
(* The device. *)

Reply(d, msg) == [d EXCEPT !.toClient = Append(@, msg)]

(* ServerMessageHandlerImpl::onMessage: what is refused at once is         *)
(* answered at once, DestroyPACE by the response to another request; the   *)
(* rest is left to the commands of the card.                               *)
DeviceReceives ==
    /\ device.toDevice # <<>>
    /\ LET msg == Head(device.toDevice)
           d   == [device EXCEPT !.toDevice = Tail(@)]
           Refuse(type) == Reply(d, Message(type, msg.id, 0, FALSE))
       IN  device' =
             CASE msg.type = "context"   -> Reply(d, Message("context", 0, 0, TRUE))
               [] msg.type = "getStatus" -> Reply(d, Message("status", 0, 0, device.card))
               [] msg.type = "connect" /\ (~device.card \/ device.handle # 0) -> Refuse("connect")
               [] msg.type = "destroyPace" /\ msg.handle # device.handle -> Refuse("transmit")
               [] msg.type \in {"transmit", "disconnect"} /\ msg.handle # device.handle ->
                      Refuse(msg.type)
               [] OTHER -> [d EXCEPT !.jobs = Append(@, msg)]
    /\ UNCHANGED <<bounds, client, plugin, readers, call, connector, Ghosts>>

(* The result of a command; the handle is the number of its request.       *)
DeviceAnswers ==
    /\ device.jobs # <<>>
    /\ LET msg == Head(device.jobs)
           d   == [device EXCEPT !.jobs = Tail(@)]
       IN  device' =
             CASE msg.type = "connect" /\ device.card ->
                      Reply([d EXCEPT !.handle = msg.id], Message("connect", msg.id, msg.id, TRUE))
               [] msg.type = "connect" /\ ~device.card ->
                      Reply(d, Message("connect", msg.id, 0, FALSE))
               [] msg.type = "disconnect" ->
                      Reply([d EXCEPT !.handle = IF @ = msg.handle THEN 0 ELSE @],
                            Message("disconnect", msg.id, 0, TRUE))
               [] OTHER -> Reply(d, Message(msg.type, msg.id, 0, device.card))
    /\ UNCHANGED <<bounds, client, plugin, readers, call, connector, Ghosts>>

(* onReaderChanged: the card is removed or put back. *)
CardChanges ==
    /\ May("removals") /\ device.conn # 0
    /\ bounds' = [bounds EXCEPT !.removals = @ - 1, !.moved = TRUE]
    /\ LET d == [device EXCEPT !.card = ~@, !.handle = IF device.card THEN 0 ELSE @]
       IN  device' = IF connector.channels[device.conn].context
                     THEN Reply(d, Message("status", 0, 0, d.card)) ELSE d
    /\ UNCHANGED <<client, plugin, readers, call, connector, Ghosts>>

(* The service is stopped or the network is gone. *)
Disconnect ==
    /\ device.conn # 0 /\ May("drops") /\ Uses("drops")
    /\ connector' = Dies(connector, device.conn)
    /\ device' = Unlinked
    /\ UNCHANGED <<client, plugin, readers, call, Ghosts>>

-----------------------------------------------------------------------------
MainThread ==
    \/ StartDetection \/ StopDetection \/ RequestRemoteDevices \/ EstablishConnection
    \/ OnDispatcherCreated \/ OnDispatcherError \/ OnDispatcherDestroyed
PluginThread ==
    \/ DeviceAppeared \/ ContinueConnect \/ ForgetAttempt \/ AddDispatcher \/ ContextEstablished
    \/ DispatcherClosed \/ HandleStatus \/ Wait \/ Wake
ConnectorThread ==
    \/ OnConnectRequest \/ ConnectionCreated \/ ConnectionError \/ DispatcherSends
    \/ CloseDispatcher \/ Disconnected \/ DispatcherDeleted \/ Received
Device == DeviceReceives \/ DeviceAnswers \/ CardChanges \/ Disconnect
Users  == Pair \/ StopScan \/ StartScan \/ CreateConnection \/ UseConnection \/ DropConnection

Next == MainThread \/ PluginThread \/ ConnectorThread \/ Device \/ Users
        \/ Announce \/ Vanish \/ ScanTimer

Spec == Init /\ [][Next]_vars

(* The three event loops run; a connection request has a timer, as has     *)
(* every wait for an answer.  Nothing is assumed of the device.            *)
Fairness ==
    /\ WF_vars(MainThread) /\ WF_vars(PluginThread) /\ WF_vars(Disconnected)
    /\ WF_vars(OnConnectRequest \/ DispatcherSends \/ CloseDispatcher)
    /\ WF_vars(ConnectionError \/ ConnectionCreated)
FairSpec == Spec /\ Fairness

-----------------------------------------------------------------------------
(* onDispatcherCreated and onDispatcherError assert that the answer of the *)
(* connector finds the device it was asked for: across the three threads   *)
(* every pending entry is a request under way or an answer posted.         *)
Count(q, types) == Cardinality({i \in DOMAIN q : q[i].type \in types})
PendingHasAnswer ==
    client.pending = Count(connector.events, {"connect", "pair"}) + Len(connector.requests)
                         + Count(client.events, {"created", "refused", "failed"})

(* Requests are answered by the type of the response alone.  As long as no *)
(* request timed out, the answer a request takes is its own, whatever      *)
(* statuses and refusals arrive meanwhile.                                 *)
AnswerIsOwn == call.answer = "message" /\ ~late => call.got.id = call.id

(* Client and device agree which connection is open when nothing is on its *)
(* way and no request timed out; a wake-up that came before the wait loses *)
(* no answer.                                                              *)
Quiet ==
    /\ Idle /\ ~late /\ plugin.dispatcher = device.conn /\ device.conn # 0
    /\ device.toDevice = <<>> /\ device.toClient = <<>> /\ device.jobs = <<>>
    /\ Count(plugin.events, {"status"}) = 0
ConnectionsAgree ==
    LET own       == {k \in DOMAIN readers : readers[k].disp = device.conn}
        connected == {k \in own : readers[k].connected}
    IN  Quiet => /\ \A k \in connected : readers[k].handle = device.handle
                 /\ ~bounds.moved /\ device.handle # 0 => connected # {}

(* A connection attempt ends: until then the device is not tried again.    *)
AttemptsEnd == plugin.attempt ~> ~plugin.attempt

(* The readers of a connection that is closed are removed.                 *)
Orphans == \E k \in DOMAIN readers : connector.channels[readers[k].disp].state = "closed"
ClosedReadersVanish == Orphans ~> ~Orphans
=============================================================================
