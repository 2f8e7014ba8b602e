-------------------------- MODULE IfdClientProofs --------------------------
(***************************************************************************)
(* Proofs about IfdClient, for any number of connections and requests, and *)
(* any instance.                                                           *)
(***************************************************************************)
EXTENDS IfdClient, QueueLemmas, FiniteSetTheorems, TLAPS

-----------------------------------------------------------------------------
(* The inductive invariant. *)

(* What the thread of the ReaderManager holds on to exists: the reader it  *)
(* asks for and the reader of the session.                                 *)
ReadersAreThere ==
    /\ ~Idle => call.key \in DOMAIN readers /\ call.n # 0
    /\ plugin.session => plugin.key \in DOMAIN readers

(* The device is linked with the one dispatcher whose channel is open;     *)
(* nothing is on its way without a connection.                             *)
LinkIsOpen ==
    /\ \A n \in Dispatchers : connector.channels[n].state = "open" <=> device.conn = n
    /\ device.conn = 0 => device.toDevice = <<>> /\ device.jobs = <<>> /\ device.toClient = <<>>

(* Requests on their way over the connection the device has and the        *)
(* answers to them, and those of them that are not about the request id.   *)
OnTheWay            == {m \in Messages : m.type \in Requests}
ForeignTo(id)       == {m \in OnTheWay : m.id # id}
LiveSends(n)        == [type : {"send"}, n : {n}, msg : Messages]
ForeignSends(n, id) == {e \in LiveSends(n) : e.msg.id # id}
Flight(k, d) ==
    Many(k.events, LiveSends(d.conn)) + Many(d.toDevice, OnTheWay)
        + Many(d.jobs, OnTheWay) + Many(d.toClient, OnTheWay)
ForeignFlight(k, d, id) ==
    Many(k.events, ForeignSends(d.conn, id)) + Many(d.toDevice, ForeignTo(id))
        + Many(d.jobs, ForeignTo(id)) + Many(d.toClient, ForeignTo(id))

(* As long as no request timed out: nothing is on its way unless the       *)
(* blocked call waits for it, it is one message, and it is the call's.     *)
Asking      == ~Idle /\ call.answer = "none" /\ call.n = device.conn
OneInFlight == ~late => Flight(connector, device) <= (IF Asking THEN 1 ELSE 0)
FlightIsOwn == ~late => ForeignFlight(connector, device, call.id) = 0

IInv ==
    /\ TypeOK /\ ReadersAreThere /\ LinkIsOpen /\ PendingHasAnswer
    /\ OneInFlight /\ FlightIsOwn /\ AnswerIsOwn

-----------------------------------------------------------------------------
(* Counting by the type of a message. *)
LEMMA CountIsMany ==
    ASSUME NEW T, NEW q \in Seq(T), NEW types
    PROVE  Count(q, types) = Many(q, {e \in T : e.type \in types})
  <1>1. \A i \in DOMAIN q : q[i] \in T
    OBVIOUS
  <1>2. {i \in DOMAIN q : q[i].type \in types} = {i \in DOMAIN q : q[i] \in {e \in T : e.type \in types}}
    BY <1>1
  <1> QED BY <1>2 DEF Count, Many

LEMMA CountFacts ==
    ASSUME NEW T, NEW q \in Seq(T), NEW types
    PROVE  /\ Count(q, types) \in Nat
           /\ \A x \in T : Count(Append(q, x), types) =
                               Count(q, types) + (IF x.type \in types THEN 1 ELSE 0)
           /\ q # <<>> => Count(q, types) =
                              Count(Tail(q), types) + (IF Head(q).type \in types THEN 1 ELSE 0)
  <1> DEFINE S == {e \in T : e.type \in types}
  <1>1. Count(q, types) = Many(q, S)
    BY CountIsMany
  <1>2. ASSUME NEW x \in T
        PROVE  Count(Append(q, x), types) = Many(q, S) + (IF x.type \in types THEN 1 ELSE 0)
    <2>1. Append(q, x) \in Seq(T)
      OBVIOUS
    <2>2. Count(Append(q, x), types) = Many(Append(q, x), S)
      BY <2>1, CountIsMany
    <2>3. Many(Append(q, x), S) = Many(q, S) + (IF x \in S THEN 1 ELSE 0)
      BY ManyInAppend
    <2> QED BY <2>2, <2>3
  <1>3. ASSUME q # <<>>
        PROVE  Many(q, S) = Count(Tail(q), types) + (IF Head(q).type \in types THEN 1 ELSE 0)
    <2>1. Tail(q) \in Seq(T) /\ Head(q) \in T
      BY <1>3
    <2>2. Count(Tail(q), types) = Many(Tail(q), S)
      BY <2>1, CountIsMany
    <2>3. Many(q, S) = Many(Tail(q), S) + (IF Head(q) \in S THEN 1 ELSE 0)
      BY <1>3, ManyInTail
    <2> QED BY <2>1, <2>2, <2>3
  <1> QED BY <1>1, <1>2, <1>3, ManyIsFinite

LEMMA WithoutIsShorter ==
    ASSUME NEW T, NEW q \in Seq(T), NEW i \in DOMAIN q
    PROVE  Without(q, i) \in Seq(T) /\ Len(Without(q, i)) = Len(q) - 1
  <1> DEFINE front == SubSeq(q, 1, i - 1)
             back  == SubSeq(q, i + 1, Len(q))
  <1>1. Len(q) \in Nat /\ i \in 1..Len(q)
    OBVIOUS
  <1>2. front \in Seq(T) /\ Len(front) = i - 1
    BY <1>1
  <1>3. back \in Seq(T) /\ Len(back) = Len(q) - i
    BY <1>1
  <1>4. Without(q, i) = front \o back
    BY DEF Without
  <1> HIDE DEF front, back
  <1>5. front \o back \in Seq(T) /\ Len(front \o back) = Len(front) + Len(back)
    BY <1>2, <1>3, SMTT(30)
  <1> QED BY <1>1, <1>2, <1>3, <1>4, <1>5

-----------------------------------------------------------------------------
(* The records: posting to a queue and taking from it.                     *)
Answers  == {"created", "refused", "failed"}
Attempts == {"connect", "pair"}

LEMMA ClientPosts ==
    ASSUME NEW D, NEW c \in ClientType(D), NEW type, NEW n,
           [type |-> type, n |-> n] \in ClientEvents(D)
    PROVE  /\ PostClient(c, type, n) \in ClientType(D)
           /\ PostClient(c, type, n).pending = c.pending
           /\ Count(PostClient(c, type, n).events, Answers) =
                  Count(c.events, Answers) + (IF type \in Answers THEN 1 ELSE 0)
  <1> DEFINE e == [type |-> type, n |-> n]
             q == Append(c.events, e)
  <1>1. c.events \in Seq(ClientEvents(D))
    BY DEF ClientType
  <1>2. q \in Seq(ClientEvents(D)) /\ Count(q, Answers) = Count(c.events, Answers)
                                                 + (IF type \in Answers THEN 1 ELSE 0)
    <2>1. e.type = type
      OBVIOUS
    <2> HIDE DEF e
    <2> QED BY <1>1, <2>1, CountFacts DEF e
  <1>3. PostClient(c, type, n) = [c EXCEPT !.events = q]
    BY DEF PostClient
  <1> HIDE DEF q
  <1> QED BY <1>2, <1>3 DEF ClientType

LEMMA ClientTakes ==
    ASSUME TypeOK, client.events # <<>>
    PROVE  /\ ClientRest \in ClientType(Dispatchers)
           /\ Head(client.events) \in ClientEvents(Dispatchers)
           /\ Count(client.events, Answers) =
                  Count(ClientRest.events, Answers) + (IF Head(client.events).type \in Answers THEN 1 ELSE 0)
           /\ Count(ClientRest.events, Answers) \in Nat
           /\ ClientRest.pending = client.pending
  <1> DEFINE D == Dispatchers
             t == Tail(client.events)
  <1>1. client \in ClientType(D) /\ client.events \in Seq(ClientEvents(D))
    BY DEF TypeOK, ClientType
  <1>2. /\ t \in Seq(ClientEvents(D)) /\ Head(client.events) \in ClientEvents(D)
        /\ Count(t, Answers) \in Nat
        /\ Count(client.events, Answers) =
               Count(t, Answers) + (IF Head(client.events).type \in Answers THEN 1 ELSE 0)
    <2> HIDE DEF D
    <2>1. t \in Seq(ClientEvents(D)) /\ Head(client.events) \in ClientEvents(D)
      BY <1>1
    <2>2. Count(t, Answers) \in Nat
      BY <2>1, CountFacts
    <2>3. Count(client.events, Answers) =
              Count(Tail(client.events), Answers)
                  + (IF Head(client.events).type \in Answers THEN 1 ELSE 0)
      BY <1>1, CountFacts
    <2> QED BY <2>1, <2>2, <2>3
  <1>3. ClientRest = [client EXCEPT !.events = t]
    BY DEF ClientRest
  <1>4. /\ [client EXCEPT !.events = t] \in ClientType(D) /\ [client EXCEPT !.events = t].events = t
        /\ [client EXCEPT !.events = t].pending = client.pending
    <2> HIDE DEF t, D
    <2> QED BY <1>1, <1>2 DEF ClientType
  <1> QED BY <1>2, <1>3, <1>4

LEMMA PluginPosts ==
    ASSUME NEW D, NEW p \in PluginType(D), NEW type, NEW n, NEW arg,
           [type |-> type, n |-> n, arg |-> arg] \in PluginEvents(D)
    PROVE  /\ PostPlugin(p, type, n, arg) \in PluginType(D)
           /\ PostPlugin(p, type, n, arg).session = p.session
           /\ PostPlugin(p, type, n, arg).key = p.key
  <1> DEFINE q == Append(p.events, [type |-> type, n |-> n, arg |-> arg])
  <1>1. q \in Seq(PluginEvents(D))
    BY DEF PluginType
  <1>2. PostPlugin(p, type, n, arg) = [p EXCEPT !.events = q]
    BY DEF PostPlugin
  <1> HIDE DEF q
  <1> QED BY <1>1, <1>2 DEF PluginType

LEMMA PluginTakes ==
    ASSUME TypeOK, plugin.events # <<>>
    PROVE  /\ PluginRest \in PluginType(Dispatchers)
           /\ PluginArg \in PluginEvents(Dispatchers)
           /\ PluginRest.session = plugin.session /\ PluginRest.key = plugin.key
           /\ PluginRest.dispatcher = plugin.dispatcher /\ PluginRest.hears = plugin.hears
  <1>1. plugin \in PluginType(Dispatchers) /\ plugin.events \in Seq(PluginEvents(Dispatchers))
    BY DEF TypeOK, PluginType
  <1>2. Tail(plugin.events) \in Seq(PluginEvents(Dispatchers)) /\ PluginArg \in PluginEvents(Dispatchers)
    BY <1>1 DEF PluginArg
  <1> QED BY <1>1, <1>2 DEF PluginType, PluginRest

LEMMA ConnectorPosts ==
    ASSUME NEW D, NEW k \in ConnectorType(D), NEW type, NEW n, NEW msg,
           [type |-> type, n |-> n, msg |-> msg] \in ConnectorEvents(D)
    PROVE  /\ PostConnector(k, type, n, msg) \in ConnectorType(D)
           /\ PostConnector(k, type, n, msg).channels = k.channels
           /\ PostConnector(k, type, n, msg).requests = k.requests
           /\ Count(PostConnector(k, type, n, msg).events, Attempts) =
                  Count(k.events, Attempts) + (IF type \in Attempts THEN 1 ELSE 0)
           /\ \A S : Many(PostConnector(k, type, n, msg).events, S) =
                         Many(k.events, S)
                             + (IF [type |-> type, n |-> n, msg |-> msg] \in S THEN 1 ELSE 0)
  <1> DEFINE e == [type |-> type, n |-> n, msg |-> msg]
             q == Append(k.events, e)
  <1>1. k.events \in Seq(ConnectorEvents(D))
    BY DEF ConnectorType
  <1>2. /\ q \in Seq(ConnectorEvents(D))
        /\ Count(q, Attempts) = Count(k.events, Attempts) + (IF type \in Attempts THEN 1 ELSE 0)
        /\ \A S : Many(q, S) = Many(k.events, S) + (IF e \in S THEN 1 ELSE 0)
    <2>1. e.type = type
      OBVIOUS
    <2> HIDE DEF e
    <2> QED BY <1>1, <2>1, CountFacts, ManyInAppend DEF e
  <1>3. PostConnector(k, type, n, msg) = [k EXCEPT !.events = q]
    BY DEF PostConnector
  <1> HIDE DEF q
  <1> QED BY <1>2, <1>3 DEF ConnectorType

LEMMA ConnectorTakes ==
    ASSUME TypeOK, connector.events # <<>>
    PROVE  /\ ConnectorRest \in ConnectorType(Dispatchers)
           /\ ConnectorArg \in ConnectorEvents(Dispatchers)
           /\ ConnectorRest.channels = connector.channels
           /\ ConnectorRest.requests = connector.requests
           /\ Count(ConnectorRest.events, Attempts) \in Nat
           /\ Count(connector.events, Attempts) =
                  Count(ConnectorRest.events, Attempts) + (IF ConnectorArg.type \in Attempts THEN 1 ELSE 0)
           /\ \A S : /\ Many(ConnectorRest.events, S) \in Nat
                     /\ Many(connector.events, S) =
                            Many(ConnectorRest.events, S) + (IF ConnectorArg \in S THEN 1 ELSE 0)
  <1> DEFINE D == Dispatchers
             t == Tail(connector.events)
  <1>1. connector \in ConnectorType(D) /\ connector.events \in Seq(ConnectorEvents(D))
    BY DEF TypeOK, ConnectorType
  <1>2. /\ t \in Seq(ConnectorEvents(D)) /\ ConnectorArg \in ConnectorEvents(D)
        /\ Count(t, Attempts) \in Nat
        /\ Count(connector.events, Attempts) =
               Count(t, Attempts) + (IF ConnectorArg.type \in Attempts THEN 1 ELSE 0)
        /\ \A S : /\ Many(t, S) \in Nat
                  /\ Many(connector.events, S) = Many(t, S) + (IF ConnectorArg \in S THEN 1 ELSE 0)
    <2> HIDE DEF D
    <2>1. t \in Seq(ConnectorEvents(D)) /\ Head(connector.events) \in ConnectorEvents(D)
      BY <1>1
    <2>2. Count(t, Attempts) \in Nat /\ \A S : Many(t, S) \in Nat
      BY <2>1, CountFacts, ManyIsFinite
    <2>3. Count(connector.events, Attempts) =
              Count(Tail(connector.events), Attempts)
                  + (IF Head(connector.events).type \in Attempts THEN 1 ELSE 0)
      BY <1>1, CountFacts
    <2>4. \A S : Many(connector.events, S) =
                     Many(Tail(connector.events), S) + (IF Head(connector.events) \in S THEN 1 ELSE 0)
      BY <1>1, ManyInTail
    <2> QED BY <2>1, <2>2, <2>3, <2>4 DEF ConnectorArg
  <1>3. ConnectorRest = [connector EXCEPT !.events = t]
    BY DEF ConnectorRest
  <1>4. /\ [connector EXCEPT !.events = t] \in ConnectorType(D)
        /\ [connector EXCEPT !.events = t].events = t
        /\ [connector EXCEPT !.events = t].channels = connector.channels
        /\ [connector EXCEPT !.events = t].requests = connector.requests
    <2> HIDE DEF t, D
    <2> QED BY <1>1, <1>2 DEF ConnectorType
  <1> QED BY <1>2, <1>3, <1>4

-----------------------------------------------------------------------------
(* Steps that touch neither the connector nor the device nor the call.     *)
LEMMA CountsAreNumbers ==
    ASSUME TypeOK
    PROVE  /\ client.pending \in Nat /\ Len(connector.requests) \in Nat
           /\ Count(client.events, Answers) \in Nat /\ Count(connector.events, Attempts) \in Nat
  <1>1. /\ client.events \in Seq(ClientEvents(Dispatchers)) /\ client.pending \in Nat
        /\ connector.events \in Seq(ConnectorEvents(Dispatchers)) /\ Len(connector.requests) \in Nat
    BY DEF TypeOK, ClientType, ConnectorType
  <1> QED BY <1>1, CountFacts

LEMMA PendingKept ==
    ASSUME IInv, connector' = connector, client'.pending = client.pending,
           Count(client'.events, Answers) = Count(client.events, Answers)
    PROVE  PendingHasAnswer'
  BY DEF IInv, PendingHasAnswer, Answers, Attempts

LEMMA LocalStep ==
    ASSUME IInv, UNCHANGED <<readers, call, connector, device, ids, late>>,
           bounds' \in Limits,
           client' \in ClientType(Dispatchers), plugin' \in PluginType(Dispatchers),
           plugin'.session => plugin.session /\ plugin'.key = plugin.key,
           PendingHasAnswer'
    PROVE  IInv'
  <1>1. Dispatchers' = Dispatchers /\ Numbers' = Numbers
    BY DEF Dispatchers, Numbers
  <1>2. TypeOK'
    BY <1>1 DEF IInv, TypeOK
  <1>3. ReadersAreThere'
    BY DEF IInv, ReadersAreThere, Idle
  <1>4. LinkIsOpen'
    BY <1>1 DEF IInv, LinkIsOpen
  <1>5. OneInFlight' /\ FlightIsOwn' /\ AnswerIsOwn'
    BY DEF IInv, OneInFlight, FlightIsOwn, AnswerIsOwn, Asking, Idle
  <1> QED BY <1>2, <1>3, <1>4, <1>5 DEF IInv

(* The step of a client that handles no answer and asks for no connection. *)
LEMMA ClientStep ==
    ASSUME IInv, UNCHANGED <<bounds, plugin, readers, call, connector, device, ids, late>>,
           client' \in ClientType(Dispatchers), client'.pending = client.pending,
           Count(client'.events, Answers) = Count(client.events, Answers)
    PROVE  IInv'
  <1>1. bounds' \in Limits /\ plugin' \in PluginType(Dispatchers)
    BY DEF IInv, TypeOK
  <1> QED BY <1>1, PendingKept, LocalStep

LEMMA PluginStep ==
    ASSUME IInv, UNCHANGED <<readers, call, connector, device, ids, late>>,
           bounds' \in Limits,
           plugin' \in PluginType(Dispatchers), plugin'.session = plugin.session,
           plugin'.key = plugin.key,
           \/ client' = client
           \/ \E type \in {"startDetection", "stopDetection", "requestDevices", "establish"} :
                  client' = PostClient(client, type, 0)
    PROVE  IInv'
  <1>1. client \in ClientType(Dispatchers) /\ TypeOK
    BY DEF IInv, TypeOK
  <1>2. /\ client' \in ClientType(Dispatchers) /\ client'.pending = client.pending
        /\ Count(client'.events, Answers) = Count(client.events, Answers)
    <2>1. CASE client' = client
      BY <1>1, <2>1
    <2>2. CASE client' # client
      <3>1. PICK type \in {"startDetection", "stopDetection", "requestDevices", "establish"} :
                client' = PostClient(client, type, 0)
        BY <2>2
      <3>2. [type |-> type, n |-> 0] \in ClientEvents(Dispatchers) /\ type \notin Answers
        BY <3>1 DEF ClientEvents, Answers
      <3> QED BY <1>1, <3>1, <3>2, ClientPosts, CountsAreNumbers
    <2> QED BY <2>1, <2>2
  <1> QED BY <1>1, <1>2, PendingKept, LocalStep

LEMMA ClientRestCounts ==
    ASSUME TypeOK, client.events # <<>>, Head(client.events).type \notin Answers
    PROVE  Count(ClientRest.events, Answers) = Count(client.events, Answers)
  <1>1. Count(ClientRest.events, Answers) \in Nat
    BY ClientTakes
  <1> QED BY <1>1, ClientTakes

LEMMA AnnounceStep ==
    ASSUME IInv, Announce
    PROVE  IInv'
  <1>1. TypeOK /\ client \in ClientType(Dispatchers) /\ plugin \in PluginType(Dispatchers)
    BY DEF IInv, TypeOK
  <1>2. PICK kind \in {"plain", "pairing"} : client' = [client EXCEPT !.list = kind]
    BY DEF Announce
  <1>3. /\ client' \in ClientType(Dispatchers) /\ client'.pending = client.pending
        /\ client'.events = client.events
    BY <1>1, <1>2 DEF ClientType
  <1>4. /\ plugin' \in PluginType(Dispatchers)
        /\ plugin'.session = plugin.session /\ plugin'.key = plugin.key
    <2>1. [type |-> "appeared", n |-> 0, arg |-> "none"] \in PluginEvents(Dispatchers)
      BY DEF PluginEvents
    <2>2. plugin' = plugin \/ plugin' = PostPlugin(plugin, "appeared", 0, "none")
      BY DEF Announce
    <2> QED BY <1>1, <2>1, <2>2, PluginPosts
  <1>5. UNCHANGED <<bounds, readers, call, connector, device, ids, late>> /\ bounds \in Limits
    BY DEF Announce, Ghosts, IInv, TypeOK
  <1> QED BY <1>3, <1>4, <1>5, PendingKept, LocalStep

(* Announcements to the plugin. *)
LEMMA VanishedTyped ==
    ASSUME NEW D, NEW p \in PluginType(D)
    PROVE  /\ Vanished(p) \in PluginType(D) /\ AttemptDone(p) \in PluginType(D)
           /\ Vanished(p).session = p.session /\ Vanished(p).key = p.key
           /\ AttemptDone(p).session = p.session /\ AttemptDone(p).key = p.key
  <1>1. /\ [type |-> "vanished", n |-> 0, arg |-> "none"] \in PluginEvents(D)
        /\ [type |-> "attemptDone", n |-> 0, arg |-> "none"] \in PluginEvents(D)
    BY DEF PluginEvents
  <1>2. \A type \in {"vanished", "attemptDone"} :
            /\ PostPlugin(p, type, 0, "none") \in PluginType(D)
            /\ PostPlugin(p, type, 0, "none").session = p.session
            /\ PostPlugin(p, type, 0, "none").key = p.key
    BY <1>1, PluginPosts
  <1> QED BY <1>2 DEF Vanished, AttemptDone

LEMMA VanishStep ==
    ASSUME IInv, Vanish
    PROVE  IInv'
  <1>1. TypeOK /\ client \in ClientType(Dispatchers) /\ plugin \in PluginType(Dispatchers)
    BY DEF IInv, TypeOK
  <1>2. /\ client' \in ClientType(Dispatchers) /\ client'.pending = client.pending
        /\ client'.events = client.events
    BY <1>1 DEF ClientType, Vanish
  <1>3. bounds' \in Limits
    BY <1>1 DEF Vanish, Uses, May, TypeOK, Limits
  <1> QED BY <1>1, <1>2, <1>3, VanishedTyped, PendingKept, LocalStep DEF Vanish, Ghosts

LEMMA DetectionStep ==
    ASSUME IInv, StartDetection \/ StopDetection
    PROVE  IInv'
  <1>1. TypeOK /\ plugin \in PluginType(Dispatchers)
    BY DEF IInv, TypeOK
  <1>2. client.events # <<>> /\ Head(client.events).type \in {"startDetection", "stopDetection"}
    BY DEF StartDetection, StopDetection, ClientHandles
  <1>3. /\ ClientRest \in ClientType(Dispatchers) /\ ClientRest.pending = client.pending
        /\ Count(ClientRest.events, Answers) = Count(client.events, Answers)
    BY <1>1, <1>2, ClientTakes, ClientRestCounts DEF Answers
  <1>4. /\ client' \in ClientType(Dispatchers) /\ client'.pending = ClientRest.pending
        /\ client'.events = ClientRest.events
    BY <1>3 DEF StartDetection, StopDetection, ClientType
  <1>5. /\ plugin' \in PluginType(Dispatchers)
        /\ plugin'.session = plugin.session /\ plugin'.key = plugin.key
    BY <1>1, VanishedTyped DEF StartDetection, StopDetection
  <1>6. UNCHANGED <<bounds, readers, call, connector, device, ids, late>> /\ bounds \in Limits
    BY <1>1 DEF StartDetection, StopDetection, Ghosts, TypeOK
  <1> QED BY <1>3, <1>4, <1>5, <1>6, PendingKept, LocalStep

LEMMA RequestRemoteDevicesStep ==
    ASSUME IInv, RequestRemoteDevices
    PROVE  IInv'
  <1>1. /\ TypeOK /\ plugin \in PluginType(Dispatchers)
        /\ client.list \in {"none", "plain", "pairing"}
    BY DEF IInv, TypeOK, ClientType
  <1>2. client.events # <<>> /\ Head(client.events).type = "requestDevices"
    BY DEF RequestRemoteDevices, ClientHandles
  <1>3. /\ client' \in ClientType(Dispatchers) /\ client'.pending = client.pending
        /\ Count(client'.events, Answers) = Count(client.events, Answers)
    BY <1>1, <1>2, ClientTakes, ClientRestCounts DEF Answers, RequestRemoteDevices
  <1>4. /\ plugin' \in PluginType(Dispatchers)
        /\ plugin'.session = plugin.session /\ plugin'.key = plugin.key
    <2>1. [type |-> "devices", n |-> 0, arg |-> client.list] \in PluginEvents(Dispatchers)
      BY <1>1 DEF PluginEvents
    <2>2. plugin' = plugin \/ plugin' = PostPlugin(plugin, "devices", 0, client.list)
      BY DEF RequestRemoteDevices
    <2> QED BY <1>1, <2>1, <2>2, PluginPosts
  <1>5. UNCHANGED <<bounds, readers, call, connector, device, ids, late>> /\ bounds \in Limits
    BY <1>1 DEF RequestRemoteDevices, Ghosts, TypeOK
  <1> QED BY <1>3, <1>4, <1>5, PendingKept, LocalStep

(* An answer is handled: one less is pending. *)
LEMMA AnswerTaken ==
    ASSUME IInv, client.events # <<>>, Head(client.events).type \in Answers
    PROVE  /\ client.pending - 1 \in Nat
           /\ client.pending - 1 = Count(connector.events, Attempts) + Len(connector.requests)
                                       + Count(ClientRest.events, Answers)
  <1>1. TypeOK
    BY DEF IInv
  <1>2. client.pending = Count(connector.events, Attempts) + Len(connector.requests)
                             + Count(client.events, Answers)
    BY DEF IInv, PendingHasAnswer, Answers, Attempts
  <1>3. Count(client.events, Answers) = Count(ClientRest.events, Answers) + 1
    BY <1>1, ClientTakes
  <1>4. /\ Len(connector.requests) \in Nat /\ Count(connector.events, Attempts) \in Nat
        /\ Count(ClientRest.events, Answers) \in Nat
    BY <1>1, CountsAreNumbers, ClientTakes
  <1> QED BY <1>2, <1>3, <1>4

LEMMA OnDispatcherCreatedStep ==
    ASSUME IInv, OnDispatcherCreated
    PROVE  IInv'
  <1> DEFINE D == Dispatchers
  <1>1. TypeOK /\ plugin \in PluginType(D) /\ bounds \in Limits
    BY DEF IInv, TypeOK
  <1>2. client.events # <<>> /\ Head(client.events).type = "created"
    BY DEF OnDispatcherCreated, ClientHandles
  <1>3. ClientRest \in ClientType(D) /\ Head(client.events) \in ClientEvents(D)
    BY <1>1, <1>2, ClientTakes
  <1>4. ClientArg \in D
    BY <1>2, <1>3 DEF ClientEvents, ClientArg
  <1>5. ClientRest.pending - 1 \in Nat /\ ClientRest.pending = client.pending
    BY <1>1, <1>2, ClientTakes, AnswerTaken DEF Answers
  <1>6. /\ client' = [ClientRest EXCEPT !.errors = 0, !.pending = @ - 1, !.connected = TRUE,
                                        !.hears = @ \cup {ClientArg}]
        /\ plugin' = PostPlugin(AttemptDone(plugin), "dispatcher", ClientArg, "none")
        /\ UNCHANGED <<bounds, readers, call, connector, device, ids, late>>
    BY DEF OnDispatcherCreated, Ghosts
  <1>7. 0 \in 0..(RefusalLimit - 1)
    BY IfdClientAssumption
  <1>8. /\ client' \in ClientType(D) /\ client'.pending = ClientRest.pending - 1
        /\ client'.events = ClientRest.events
    <2> HIDE DEF D
    <2> QED BY <1>3, <1>4, <1>5, <1>6, <1>7 DEF ClientType
  <1>9. /\ plugin' \in PluginType(D)
        /\ plugin'.session = plugin.session /\ plugin'.key = plugin.key
    <2> HIDE DEF D
    <2>1. [type |-> "dispatcher", n |-> ClientArg, arg |-> "none"] \in PluginEvents(D)
      BY <1>4 DEF PluginEvents
    <2>2. /\ AttemptDone(plugin) \in PluginType(D)
          /\ AttemptDone(plugin).session = plugin.session /\ AttemptDone(plugin).key = plugin.key
      BY <1>1, VanishedTyped
    <2> QED BY <1>6, <2>1, <2>2, PluginPosts
  <1>10. PendingHasAnswer'
    <2>1. client'.pending = Count(connector.events, Attempts) + Len(connector.requests)
                                + Count(client'.events, Answers)
      BY <1>2, <1>5, <1>8, AnswerTaken DEF Answers
    <2> QED BY <1>6, <2>1 DEF PendingHasAnswer, Answers, Attempts
  <1> QED BY <1>1, <1>6, <1>8, <1>9, <1>10, LocalStep

LEMMA OnDispatcherErrorStep ==
    ASSUME IInv, OnDispatcherError
    PROVE  IInv'
  <1> DEFINE D == Dispatchers
  <1>1. TypeOK /\ plugin \in PluginType(D) /\ bounds \in Limits
    BY DEF IInv, TypeOK
  <1>2. client.events # <<>> /\ Head(client.events).type \in Answers
    BY DEF OnDispatcherError, Counted, ClientHandles, Answers
  <1>3. /\ ClientRest \in ClientType(D) /\ ClientRest.pending = client.pending
        /\ client.pending - 1 \in Nat
    BY <1>1, <1>2, ClientTakes, AnswerTaken
  <1>4. client.errors \in 0..(RefusalLimit - 1) /\ RefusalLimit \in Nat \ {0}
    BY <1>1, IfdClientAssumption DEF TypeOK, ClientType
  <1>5. /\ client' \in ClientType(D) /\ client'.pending = client.pending - 1
        /\ client'.events = ClientRest.events
    <2> HIDE DEF D
    <2>1. ClientRest.errors = client.errors
      BY DEF ClientRest, ClientType, IInv, TypeOK
    <2>2. CASE client' = [ClientRest EXCEPT !.pending = @ - 1, !.errors = 0]
      <3>1. ClientRest.pending - 1 \in Nat /\ 0 \in 0..(RefusalLimit - 1)
        BY <1>3, <1>4
      <3> QED BY <1>3, <2>2, <3>1 DEF ClientType
    <2>3. CASE ClientHandles("refused")
      <3> DEFINE removes == client.errors + 1 >= RefusalLimit
                 errors  == IF removes THEN 0 ELSE client.errors + 1
                 trusted == ClientRest.trusted /\ ~removes
      <3>1. client' = [ClientRest EXCEPT !.pending = @ - 1, !.errors = errors, !.trusted = trusted]
        BY <2>1, <2>3 DEF OnDispatcherError, Counted, ClientHandles
      <3>2. errors \in 0..(RefusalLimit - 1)
        BY <1>4
      <3>3. trusted \in BOOLEAN
        OBVIOUS
      <3> HIDE DEF errors, trusted
      <3> QED BY <1>3, <3>1, <3>2, <3>3 DEF ClientType
    <2> QED BY <2>2, <2>3 DEF OnDispatcherError, Counted
  <1>6. PendingHasAnswer'
    <2>1. client'.pending = Count(connector.events, Attempts) + Len(connector.requests)
                                + Count(client'.events, Answers)
      BY <1>2, <1>5, AnswerTaken
    <2> QED BY <2>1 DEF PendingHasAnswer, Answers, Attempts, OnDispatcherError
  <1>7. /\ plugin' \in PluginType(D)
        /\ plugin'.session = plugin.session /\ plugin'.key = plugin.key
    BY <1>1, VanishedTyped DEF OnDispatcherError
  <1> QED BY <1>1, <1>5, <1>6, <1>7, LocalStep DEF OnDispatcherError, Ghosts

LEMMA OnDispatcherDestroyedStep ==
    ASSUME IInv, OnDispatcherDestroyed
    PROVE  IInv'
  <1>1. TypeOK
    BY DEF IInv
  <1>2. client.events # <<>> /\ Head(client.events).type = "closed"
    BY DEF OnDispatcherDestroyed, ClientHandles
  <1>3. /\ ClientRest \in ClientType(Dispatchers) /\ ClientRest.pending = client.pending
        /\ Count(ClientRest.events, Answers) = Count(client.events, Answers)
    BY <1>1, <1>2, ClientTakes, ClientRestCounts DEF Answers
  <1>4. /\ client' \in ClientType(Dispatchers) /\ client'.pending = ClientRest.pending
        /\ client'.events = ClientRest.events
    BY <1>3 DEF OnDispatcherDestroyed, ClientType
  <1> QED BY <1>3, <1>4, ClientStep DEF OnDispatcherDestroyed, Ghosts

LEMMA ConnectToPairedReadersStep ==
    ASSUME IInv, NEW p \in PluginType(Dispatchers), p.session = plugin.session, p.key = plugin.key,
           ConnectToPairedReaders(p)
    PROVE  IInv'
  <1>1. /\ plugin' \in PluginType(Dispatchers) /\ plugin'.session = plugin.session
        /\ plugin'.key = plugin.key
    BY DEF ConnectToPairedReaders, PluginType
  <1>2. bounds \in Limits
    BY DEF IInv, TypeOK
  <1> QED BY <1>1, <1>2, PluginStep DEF ConnectToPairedReaders, Ghosts

LEMMA ScanStep ==
    ASSUME IInv, ScanTimer \/ DeviceAppeared
    PROVE  IInv'
  <1>1. TypeOK /\ plugin \in PluginType(Dispatchers)
    BY DEF IInv, TypeOK
  <1>2. CASE ScanTimer
    BY <1>1, <1>2, ConnectToPairedReadersStep DEF ScanTimer
  <1>3. CASE DeviceAppeared
    <2>1. plugin.events # <<>>
      BY <1>3 DEF DeviceAppeared, PluginHandles
    <2> QED BY <1>1, <1>3, <2>1, PluginTakes, ConnectToPairedReadersStep DEF DeviceAppeared
  <1> QED BY <1>2, <1>3

LEMMA ContinueConnectStep ==
    ASSUME IInv, ContinueConnect
    PROVE  IInv'
  <1> DEFINE p == [PluginRest EXCEPT !.listening = FALSE]
  <1>1. TypeOK /\ bounds \in Limits
    BY DEF IInv, TypeOK
  <1>2. plugin.events # <<>>
    BY DEF ContinueConnect, PluginHandles
  <1>3. /\ p \in PluginType(Dispatchers)
        /\ p.session = plugin.session /\ p.key = plugin.key
    <2>1. /\ PluginRest \in PluginType(Dispatchers)
          /\ PluginRest.session = plugin.session /\ PluginRest.key = plugin.key
      BY <1>1, <1>2, PluginTakes
    <2> QED BY <2>1 DEF PluginType
  <1>4. UNCHANGED <<readers, call, connector, device, ids, late>>
    BY DEF ContinueConnect, Ghosts
  <1>5. \/ /\ plugin' = [p EXCEPT !.attempt = TRUE]
           /\ client' = PostClient(client, "establish", 0)
           /\ May("attempts") /\ Uses("attempts")
        \/ /\ \E b \in BOOLEAN : plugin' = [p EXCEPT !.attempt = b]
           /\ client' = client /\ bounds' = bounds
    <2> HIDE DEF p
    <2> QED BY DEF ContinueConnect, p
  <1> HIDE DEF p
  <1>6. CASE /\ plugin' = [p EXCEPT !.attempt = TRUE]
             /\ client' = PostClient(client, "establish", 0)
             /\ May("attempts") /\ Uses("attempts")
    <2>1. bounds' \in Limits
      BY <1>1, <1>6 DEF Uses, May, Limits
    <2>2. /\ plugin' \in PluginType(Dispatchers)
          /\ plugin'.session = plugin.session /\ plugin'.key = plugin.key
      BY <1>3, <1>6 DEF PluginType
    <2> QED BY <1>4, <1>6, <2>1, <2>2, PluginStep
  <1>7. ASSUME NEW b \in BOOLEAN, plugin' = [p EXCEPT !.attempt = b], client' = client, bounds' = bounds
        PROVE  IInv'
    <2>1. /\ plugin' \in PluginType(Dispatchers)
          /\ plugin'.session = plugin.session /\ plugin'.key = plugin.key
      BY <1>3, <1>7 DEF PluginType
    <2> QED BY <1>1, <1>4, <1>7, <2>1, PluginStep
  <1> QED BY <1>5, <1>6, <1>7

LEMMA ForgetAttemptStep ==
    ASSUME IInv, ForgetAttempt
    PROVE  IInv'
  <1>1. TypeOK /\ bounds \in Limits
    BY DEF IInv, TypeOK
  <1>2. plugin.events # <<>>
    BY DEF ForgetAttempt, PluginHandles
  <1>3. /\ plugin' \in PluginType(Dispatchers)
        /\ plugin'.session = plugin.session /\ plugin'.key = plugin.key
    BY <1>1, <1>2, PluginTakes DEF ForgetAttempt, PluginType
  <1> QED BY <1>1, <1>3, PluginStep DEF ForgetAttempt, Ghosts

LEMMA StartScanStep ==
    ASSUME IInv, StartScan
    PROVE  IInv'
  <1>1. plugin \in PluginType(Dispatchers) /\ bounds \in Limits
    BY DEF IInv, TypeOK
  <1>2. /\ plugin' \in PluginType(Dispatchers)
        /\ plugin'.session = plugin.session /\ plugin'.key = plugin.key
    BY <1>1 DEF StartScan, PluginType
  <1> QED BY <1>1, <1>2, PluginStep DEF StartScan, Ghosts

-----------------------------------------------------------------------------
(* What is on its way over the connection. *)
LEMMA FlightTypes ==
    ASSUME NEW D, NEW k \in ConnectorType(D), NEW d \in DeviceType(D)
    PROVE  /\ Flight(k, d) \in Nat
           /\ \A id : /\ ForeignFlight(k, d, id) \in Nat
                      /\ Flight(k, d) = 0 => ForeignFlight(k, d, id) = 0
  <1>1. /\ k.events \in Seq(ConnectorEvents(D)) /\ d.toDevice \in Seq(Messages)
        /\ d.jobs \in Seq(Messages) /\ d.toClient \in Seq(Messages)
    BY DEF ConnectorType, DeviceType
  <1>2. \A S : /\ Many(k.events, S) \in Nat /\ Many(d.toDevice, S) \in Nat
               /\ Many(d.jobs, S) \in Nat /\ Many(d.toClient, S) \in Nat
    BY <1>1, ManyIsFinite
  <1>3. Flight(k, d) \in Nat
    BY <1>2 DEF Flight
  <1>4. ASSUME NEW id
        PROVE  /\ ForeignFlight(k, d, id) \in Nat
               /\ Flight(k, d) = 0 => ForeignFlight(k, d, id) = 0
    <2>1. ForeignFlight(k, d, id) \in Nat
      BY <1>2 DEF ForeignFlight
    <2>2. ASSUME Flight(k, d) = 0
          PROVE  ForeignFlight(k, d, id) = 0
      <3>1. /\ Many(k.events, LiveSends(d.conn)) = 0 /\ Many(d.toDevice, OnTheWay) = 0
            /\ Many(d.jobs, OnTheWay) = 0 /\ Many(d.toClient, OnTheWay) = 0
        BY <1>2, <2>2 DEF Flight
      <3>2. ForeignSends(d.conn, id) \in SUBSET LiveSends(d.conn) /\ ForeignTo(id) \in SUBSET OnTheWay
        BY DEF ForeignSends, ForeignTo
      <3>3. /\ Many(k.events, ForeignSends(d.conn, id)) = 0 /\ Many(d.toDevice, ForeignTo(id)) = 0
            /\ Many(d.jobs, ForeignTo(id)) = 0 /\ Many(d.toClient, ForeignTo(id)) = 0
        BY <1>1, <3>1, <3>2, NoneOfFewer
      <3> QED BY <3>3 DEF ForeignFlight
    <2> QED BY <2>1, <2>2
  <1> QED BY <1>3, <1>4

LEMMA FlightKept ==
    ASSUME IInv, UNCHANGED <<call, late>>,
           NEW D, connector' \in ConnectorType(D), device' \in DeviceType(D),
           \/ /\ device'.conn = device.conn
              /\ Flight(connector', device') <= Flight(connector, device)
              /\ ForeignFlight(connector', device', call.id) <= ForeignFlight(connector, device, call.id)
           \/ Flight(connector', device') = 0
    PROVE  OneInFlight' /\ FlightIsOwn' /\ AnswerIsOwn'
  <1> DEFINE F1 == Flight(connector', device')
             F0 == Flight(connector, device)
             G1 == ForeignFlight(connector', device', call.id)
             G0 == ForeignFlight(connector, device, call.id)
  <1>1. F1 \in Nat /\ G1 \in Nat /\ (F1 = 0 => G1 = 0)
    BY FlightTypes
  <1>2. F0 \in Nat /\ G0 \in Nat
    BY FlightTypes DEF IInv, TypeOK
  <1>3. (~late => F0 <= (IF Asking THEN 1 ELSE 0)) /\ (~late => G0 = 0)
    BY DEF IInv, OneInFlight, FlightIsOwn
  <1>4. \/ device'.conn = device.conn /\ F1 <= F0 /\ G1 <= G0
        \/ F1 = 0
    OBVIOUS
  <1>5. device'.conn = device.conn => Asking' = Asking
    BY DEF Asking, Idle
  <1> HIDE DEF F1, F0, G1, G0
  <1>6. ~late => F1 <= (IF Asking' THEN 1 ELSE 0)
    BY <1>1, <1>2, <1>3, <1>4, <1>5
  <1>7. ~late => G1 = 0
    BY <1>1, <1>2, <1>3, <1>4
  <1>8. OneInFlight' /\ FlightIsOwn'
    BY <1>6, <1>7 DEF OneInFlight, FlightIsOwn, F1, G1
  <1>9. AnswerIsOwn'
    BY DEF IInv, AnswerIsOwn
  <1> QED BY <1>8, <1>9

(* Something else than a request of the card is posted to the connector.   *)
LEMMA PostStep ==
    ASSUME IInv, UNCHANGED <<readers, call, device, ids, late>>,
           bounds' \in Limits,
           client' \in ClientType(Dispatchers), plugin' \in PluginType(Dispatchers),
           plugin'.session => plugin.session /\ plugin'.key = plugin.key,
           NEW type \in {"connect", "pair", "context", "getStatus", "close"}, NEW n,
           [type |-> type, n |-> n, msg |-> NoMessage] \in ConnectorEvents(Dispatchers),
           connector' = PostConnector(connector, type, n, NoMessage),
           PendingHasAnswer'
    PROVE  IInv'
  <1> DEFINE e == [type |-> type, n |-> n, msg |-> NoMessage]
  <1>1. connector \in ConnectorType(Dispatchers) /\ device \in DeviceType(Dispatchers)
    BY DEF IInv, TypeOK
  <1>2. /\ connector' \in ConnectorType(Dispatchers) /\ connector'.channels = connector.channels
        /\ \A S : Many(connector'.events, S) = Many(connector.events, S) + (IF e \in S THEN 1 ELSE 0)
    BY <1>1, ConnectorPosts
  <1>3. Dispatchers' = Dispatchers /\ Numbers' = Numbers
    BY <1>2 DEF Dispatchers, Numbers
  <1>4. TypeOK'
    BY <1>2, <1>3 DEF IInv, TypeOK
  <1>5. ReadersAreThere' /\ LinkIsOpen'
    BY <1>2, <1>3 DEF IInv, ReadersAreThere, LinkIsOpen, Idle
  <1>6. OneInFlight' /\ FlightIsOwn' /\ AnswerIsOwn'
    <2>1. e \notin LiveSends(device.conn) /\ e \notin ForeignSends(device.conn, call.id)
      BY DEF LiveSends, ForeignSends
    <2>2. /\ Many(connector.events, LiveSends(device.conn)) \in Nat
          /\ Many(connector.events, ForeignSends(device.conn, call.id)) \in Nat
      BY <1>1, ManyIsFinite DEF ConnectorType
    <2>3. /\ Many(connector'.events, LiveSends(device.conn)) = Many(connector.events, LiveSends(device.conn))
          /\ Many(connector'.events, ForeignSends(device.conn, call.id)) =
                 Many(connector.events, ForeignSends(device.conn, call.id))
      <3> HIDE DEF e
      <3> QED BY <1>2, <2>1, <2>2
    <2>4. /\ Flight(connector', device') = Flight(connector, device)
          /\ ForeignFlight(connector', device', call.id) = ForeignFlight(connector, device, call.id)
      BY <2>3 DEF Flight, ForeignFlight
    <2>5. Flight(connector, device) \in Nat /\ ForeignFlight(connector, device, call.id) \in Nat
      BY <1>1, FlightTypes
    <2>6. connector' \in ConnectorType(Dispatchers) /\ device' \in DeviceType(Dispatchers)
      BY <1>1, <1>2
    <2>7. /\ device'.conn = device.conn
          /\ Flight(connector', device') <= Flight(connector, device)
          /\ ForeignFlight(connector', device', call.id) <= ForeignFlight(connector, device, call.id)
      BY <2>4, <2>5
    <2> QED BY <2>6, <2>7, FlightKept
  <1> QED BY <1>4, <1>5, <1>6 DEF IInv

LEMMA NoMessageTyped == NoMessage \in Messages
  BY DEF NoMessage, Message, Messages

LEMMA EstablishStep ==
    ASSUME IInv, EstablishConnection \/ Pair
    PROVE  IInv'
  <1>1. TypeOK /\ plugin \in PluginType(Dispatchers) /\ client \in ClientType(Dispatchers)
    BY DEF IInv, TypeOK
  <1>2. PICK c \in ClientType(Dispatchers), kind \in Attempts :
            /\ client' = [c EXCEPT !.pending = @ + 1]
            /\ connector' = PostConnector(connector, kind, 0, NoMessage)
            /\ c.pending = client.pending
            /\ Count(c.events, Answers) = Count(client.events, Answers) /\ bounds' \in Limits
    <2>1. CASE EstablishConnection
      <3>1. client.events # <<>> /\ Head(client.events).type \notin Answers
        BY <2>1 DEF EstablishConnection, ClientHandles, Answers
      <3>2. /\ ClientRest \in ClientType(Dispatchers) /\ ClientRest.pending = client.pending
            /\ Count(ClientRest.events, Answers) = Count(client.events, Answers)
        BY <1>1, <3>1, ClientTakes, ClientRestCounts
      <3>3. /\ client' = [ClientRest EXCEPT !.pending = @ + 1]
            /\ connector' = PostConnector(connector, "connect", 0, NoMessage)
            /\ bounds' \in Limits /\ "connect" \in Attempts
        BY <1>1, <2>1 DEF EstablishConnection, Establish, TypeOK, Attempts
      <3> QED BY <3>2, <3>3
    <2>2. CASE Pair
      <3>1. bounds' \in Limits
        BY <1>1, <2>2 DEF Pair, Uses, May, TypeOK, Limits
      <3>2. /\ client' = [client EXCEPT !.pending = @ + 1]
            /\ connector' = PostConnector(connector, "pair", 0, NoMessage)
            /\ "pair" \in Attempts
        BY <2>2 DEF Pair, Establish, Attempts
      <3> QED BY <1>1, <3>1, <3>2
    <2> QED BY <2>1, <2>2
  <1>3. [type |-> kind, n |-> 0, msg |-> NoMessage] \in ConnectorEvents(Dispatchers)
    BY NoMessageTyped DEF ConnectorEvents, Attempts
  <1>4. /\ client' \in ClientType(Dispatchers) /\ client'.pending = client.pending + 1
        /\ client'.events = c.events
    <2>1. client.pending + 1 \in Nat
      BY <1>1, CountsAreNumbers
    <2> QED BY <1>2, <2>1 DEF ClientType
  <1>5. UNCHANGED <<plugin, readers, call, device, ids, late>>
    BY DEF EstablishConnection, Pair, Establish, Ghosts
  <1>6. PendingHasAnswer'
    <2>1. /\ connector'.requests = connector.requests
          /\ Count(connector'.events, Attempts) = Count(connector.events, Attempts) + 1
      BY <1>1, <1>2, <1>3, ConnectorPosts DEF TypeOK
    <2>2. client.pending = Count(connector.events, Attempts) + Len(connector.requests)
                               + Count(client.events, Answers)
      BY DEF IInv, PendingHasAnswer, Answers, Attempts
    <2>3. client'.pending = Count(connector'.events, Attempts) + Len(connector'.requests)
                                + Count(client'.events, Answers)
      BY <1>1, <1>2, <1>4, <2>1, <2>2, CountsAreNumbers
    <2> QED BY <2>3 DEF PendingHasAnswer, Answers, Attempts
  <1>7. kind \in {"connect", "pair", "context", "getStatus", "close"}
    BY DEF Attempts
  <1> QED BY <1>1, <1>2, <1>3, <1>4, <1>5, <1>6, <1>7, PostStep

(* What the plugin posts to a dispatcher is no request for a connection.   *)
LEMMA DispatcherStep ==
    ASSUME IInv, UNCHANGED <<readers, call, device, ids, late>>,
           bounds' \in Limits, plugin' \in PluginType(Dispatchers),
           plugin'.session => plugin.session /\ plugin'.key = plugin.key,
           NEW type \in {"context", "getStatus", "close"}, NEW n \in Dispatchers,
           connector' = PostConnector(connector, type, n, NoMessage),
           client' \in ClientType(Dispatchers), client'.pending = client.pending,
           Count(client'.events, Answers) = Count(client.events, Answers)
    PROVE  IInv'
  <1>1. [type |-> type, n |-> n, msg |-> NoMessage] \in ConnectorEvents(Dispatchers)
    BY NoMessageTyped DEF ConnectorEvents
  <1>2. PendingHasAnswer'
    <2>1. Count(connector.events, Attempts) \in Nat /\ connector \in ConnectorType(Dispatchers)
      BY CountsAreNumbers DEF IInv, TypeOK
    <2>2. type \notin Attempts
      BY DEF Attempts
    <2>3. /\ connector'.requests = connector.requests
          /\ Count(connector'.events, Attempts) = Count(connector.events, Attempts)
      BY <1>1, <2>1, <2>2, ConnectorPosts
    <2> QED BY <2>3 DEF IInv, PendingHasAnswer, Answers, Attempts
  <1>3. type \in {"connect", "pair", "context", "getStatus", "close"}
    OBVIOUS
  <1> QED BY <1>1, <1>2, <1>3, PostStep

LEMMA StopScanStep ==
    ASSUME IInv, StopScan
    PROVE  IInv'
  <1>1. /\ TypeOK /\ plugin \in PluginType(Dispatchers) /\ client \in ClientType(Dispatchers)
        /\ plugin.dispatcher \in {0} \cup Dispatchers
    BY DEF IInv, TypeOK, PluginType
  <1>2. bounds' \in Limits
    BY <1>1 DEF StopScan, Uses, May, TypeOK, Limits
  <1>3. /\ plugin' \in PluginType(Dispatchers)
        /\ plugin'.session = plugin.session /\ plugin'.key = plugin.key
    BY <1>1 DEF StopScan, PluginType
  <1>4. client' = PostClient(client, "stopDetection", 0)
        /\ UNCHANGED <<readers, call, device, ids, late>>
    BY DEF StopScan, Ghosts
  <1>5. CASE plugin.dispatcher = 0
    <2>1. connector' = connector
      BY <1>5 DEF StopScan
    <2> QED BY <1>2, <1>3, <1>4, <2>1, PluginStep
  <1>6. CASE plugin.dispatcher # 0
    <2>1. connector' = PostConnector(connector, "close", plugin.dispatcher, NoMessage)
      BY <1>6 DEF StopScan
    <2>2. [type |-> "stopDetection", n |-> 0] \in ClientEvents(Dispatchers)
          /\ "stopDetection" \notin Answers
      BY DEF ClientEvents, Answers
    <2>3. /\ client' \in ClientType(Dispatchers) /\ client'.pending = client.pending
          /\ Count(client'.events, Answers) = Count(client.events, Answers)
      BY <1>1, <1>4, <2>2, ClientPosts, CountsAreNumbers
    <2>4. plugin.dispatcher \in Dispatchers
      BY <1>1, <1>6
    <2> QED BY <1>2, <1>3, <1>4, <2>1, <2>3, <2>4, DispatcherStep
  <1> QED BY <1>5, <1>6

LEMMA AddDispatcherStep ==
    ASSUME IInv, AddDispatcher
    PROVE  IInv'
  <1>1. TypeOK /\ client \in ClientType(Dispatchers) /\ bounds \in Limits
    BY DEF IInv, TypeOK
  <1>2. plugin.events # <<>> /\ PluginArg.type = "dispatcher"
    BY DEF AddDispatcher, PluginHandles, PluginArg
  <1>3. /\ PluginRest \in PluginType(Dispatchers) /\ PluginArg \in PluginEvents(Dispatchers)
        /\ PluginRest.session = plugin.session /\ PluginRest.key = plugin.key
    BY <1>1, <1>2, PluginTakes
  <1>4. PluginArg.n \in Dispatchers
    BY <1>2, <1>3 DEF PluginEvents
  <1>5. /\ plugin' \in PluginType(Dispatchers)
        /\ plugin'.session = plugin.session /\ plugin'.key = plugin.key
    BY <1>3, <1>4 DEF AddDispatcher, PluginType
  <1>6. connector' = PostConnector(connector, "context", PluginArg.n, NoMessage)
    BY DEF AddDispatcher
  <1>7. UNCHANGED <<bounds, client, readers, call, device, ids, late>>
    BY DEF AddDispatcher, Ghosts
  <1> QED BY <1>1, <1>4, <1>5, <1>6, <1>7, DispatcherStep

LEMMA ContextEstablishedStep ==
    ASSUME IInv, ContextEstablished
    PROVE  IInv'
  <1>1. /\ TypeOK /\ client \in ClientType(Dispatchers) /\ bounds \in Limits
        /\ plugin.dispatcher \in {0} \cup Dispatchers
    BY DEF IInv, TypeOK, PluginType
  <1>2. plugin.events # <<>>
    BY DEF ContextEstablished, PluginHandles
  <1>3. /\ plugin' \in PluginType(Dispatchers)
        /\ plugin'.session = plugin.session /\ plugin'.key = plugin.key
    BY <1>1, <1>2, PluginTakes DEF ContextEstablished
  <1>4. UNCHANGED <<bounds, client, readers, call, device, ids, late>>
    BY DEF ContextEstablished, Ghosts
  <1>5. CASE plugin.dispatcher = 0
    <2>1. connector' = connector
      BY <1>5 DEF ContextEstablished
    <2> QED BY <1>1, <1>3, <1>4, <2>1, PluginStep
  <1>6. CASE plugin.dispatcher # 0
    <2>1. \/ connector' = PostConnector(connector, "close", plugin.dispatcher, NoMessage)
          \/ connector' = PostConnector(connector, "getStatus", plugin.dispatcher, NoMessage)
      BY <1>6 DEF ContextEstablished
    <2>2. plugin.dispatcher \in Dispatchers
      BY <1>1, <1>6
    <2> QED BY <1>1, <1>3, <1>4, <2>1, <2>2, DispatcherStep
  <1> QED BY <1>5, <1>6

LEMMA DispatcherClosedStep ==
    ASSUME IInv, DispatcherClosed
    PROVE  IInv'
  <1>1. TypeOK /\ plugin \in PluginType(Dispatchers)
    BY DEF IInv, TypeOK
  <1>2. plugin.events # <<>> /\ Idle
    BY DEF DispatcherClosed, PluginHandles
  <1>3. PluginRest \in PluginType(Dispatchers)
    BY <1>1, <1>2, PluginTakes
  <1>4. plugin' \in PluginType(Dispatchers) /\ plugin'.session = FALSE
    BY <1>3 DEF DispatcherClosed, PluginType
  <1>5. /\ UNCHANGED <<bounds, client, call, connector, device, ids, late>>
        /\ readers' = <<>>
    BY DEF DispatcherClosed, Ghosts
  <1>6. Dispatchers' = Dispatchers /\ Numbers' = Numbers
    BY <1>5 DEF Dispatchers, Numbers
  <1>7. TypeOK'
    <2>1. DOMAIN readers' = {}
      BY <1>5
    <2> QED BY <1>1, <1>4, <1>5, <1>6, <2>1 DEF TypeOK
  <1>8. ReadersAreThere'
    BY <1>2, <1>4, <1>5 DEF ReadersAreThere, Idle
  <1>9. LinkIsOpen' /\ PendingHasAnswer' /\ OneInFlight' /\ FlightIsOwn' /\ AnswerIsOwn'
    BY <1>5, <1>6 DEF IInv, LinkIsOpen, PendingHasAnswer, OneInFlight, FlightIsOwn, AnswerIsOwn, Asking, Idle
  <1> QED BY <1>7, <1>8, <1>9 DEF IInv

-----------------------------------------------------------------------------
(* Requests of the card. *)
LEMMA ReadersTyped ==
    ASSUME TypeOK, NEW key \in Numbers, NEW new \in ReaderType(Dispatchers), readers' = Set(readers, key, new)
    PROVE  /\ DOMAIN readers' \subseteq Numbers /\ DOMAIN readers \subseteq DOMAIN readers'
           /\ key \in DOMAIN readers'
           /\ \A k \in DOMAIN readers' : readers'[k] \in ReaderType(Dispatchers)
  <1>1. /\ DOMAIN readers' = DOMAIN readers \cup {key} /\ readers'[key] = new
        /\ \A j \in DOMAIN readers \ {key} : readers'[j] = readers[j]
    BY DEF Set
  <1> QED BY <1>1 DEF TypeOK

(* A request is sent when no answer to another is outstanding.             *)
LEMMA SendStep ==
    ASSUME IInv, UNCHANGED <<client, device>>,
           NEW type \in Requests, NEW key \in DOMAIN readers', NEW reader \in ReaderType(Dispatchers),
           NEW fetch \in BOOLEAN,
           SendMessage(type, key, reader, fetch),
           late' \in BOOLEAN, late => late', ~late' => ~Asking,
           bounds' \in Limits, plugin' \in PluginType(Dispatchers),
           DOMAIN readers' \subseteq Numbers,
           \A k \in DOMAIN readers' : readers'[k] \in ReaderType(Dispatchers),
           plugin'.session => plugin'.key \in DOMAIN readers'
    PROVE  IInv'
  <1> DEFINE D == Dispatchers
             m == Message(type, ids', reader.handle, TRUE)
             e == [type |-> "send", n |-> reader.disp, msg |-> m]
  <1>1. /\ connector \in ConnectorType(D) /\ device \in DeviceType(D) /\ client \in ClientType(D)
        /\ ids \in Nat
    BY DEF IInv, TypeOK
  <1>2. reader.disp \in D /\ reader.handle \in Nat /\ reader.disp # 0
    BY DEF ReaderType, Dispatchers
  <1>3. /\ ids' = ids + 1 /\ ids' \in Nat
        /\ call' = [NoCall EXCEPT !.type = type, !.id = ids', !.n = reader.disp, !.key = key,
                                  !.fetch = fetch]
        /\ connector' = PostConnector(connector, "send", reader.disp, m)
    BY <1>1 DEF SendMessage
  <1>4. m \in Messages /\ m.id = ids' /\ m.type = type
    BY <1>2, <1>3 DEF Message, Messages
  <1> HIDE DEF m
  <1>5. e \in ConnectorEvents(D) /\ "send" \notin Attempts
    BY <1>2, <1>4 DEF ConnectorEvents, Attempts
  <1>6. /\ connector' \in ConnectorType(D) /\ connector'.channels = connector.channels
        /\ connector'.requests = connector.requests
        /\ Count(connector'.events, Attempts) = Count(connector.events, Attempts) + 0
        /\ \A S : Many(connector'.events, S) = Many(connector.events, S) + (IF e \in S THEN 1 ELSE 0)
    BY <1>1, <1>3, <1>5, ConnectorPosts
  <1> HIDE DEF e
  <1>7. /\ call'.type = type /\ call'.id = ids' /\ call'.n = reader.disp /\ call'.key = key
        /\ call'.answer = "none" /\ call' \in CallType(D)
    <2>1. key \in Numbers
      OBVIOUS
    <2> QED BY <1>2, <1>3, <2>1, NoMessageTyped DEF NoCall, CallType, Numbers
  <1>8. Dispatchers' = Dispatchers /\ Numbers' = Numbers
    BY <1>6 DEF Dispatchers, Numbers
  <1>9. TypeOK'
    BY <1>1, <1>3, <1>6, <1>7, <1>8 DEF TypeOK
  <1>10. ReadersAreThere' /\ LinkIsOpen'
    <2>1. ReadersAreThere'
      BY <1>2, <1>7 DEF ReadersAreThere
    <2>2. LinkIsOpen'
      BY <1>6, <1>8 DEF IInv, LinkIsOpen
    <2> QED BY <2>1, <2>2
  <1>11. PendingHasAnswer'
    <2>1. Count(connector'.events, Attempts) = Count(connector.events, Attempts)
      <3>1. Count(connector.events, Attempts) \in Nat
        BY CountsAreNumbers DEF IInv
      <3> QED BY <1>6, <3>1
    <2> QED BY <1>6, <2>1 DEF IInv, PendingHasAnswer, Attempts
  <1>12. ASSUME ~late'
         PROVE  /\ Flight(connector', device') <= (IF Asking' THEN 1 ELSE 0)
                /\ ForeignFlight(connector', device', call'.id) = 0
    <2>1. /\ Flight(connector, device) \in Nat
          /\ ForeignFlight(connector, device, ids') \in Nat
          /\ Flight(connector, device) = 0 => ForeignFlight(connector, device, ids') = 0
      BY <1>1, FlightTypes
    <2>2. Flight(connector, device) = 0
      <3>1. Flight(connector, device) <= 0
        BY <1>12 DEF IInv, OneInFlight
      <3> QED BY <2>1, <3>1
    <2>3. Asking' <=> reader.disp = device.conn
      BY <1>7 DEF Asking, Idle, Requests
    <2>4. e \in LiveSends(device.conn) <=> reader.disp = device.conn
      BY <1>4 DEF e, LiveSends
    <2>5. e \notin ForeignSends(device.conn, ids')
      BY <1>4 DEF e, ForeignSends
    <2>6. /\ Many(connector'.events, LiveSends(device.conn)) =
                 Many(connector.events, LiveSends(device.conn)) + (IF Asking' THEN 1 ELSE 0)
          /\ Many(connector'.events, ForeignSends(device.conn, ids')) =
                 Many(connector.events, ForeignSends(device.conn, ids')) + 0
      BY <1>6, <2>3, <2>4, <2>5
    <2>7. /\ Many(connector.events, LiveSends(device.conn)) \in Nat
          /\ Many(connector.events, ForeignSends(device.conn, ids')) \in Nat
          /\ \A S : /\ Many(device.toDevice, S) \in Nat /\ Many(device.jobs, S) \in Nat
                    /\ Many(device.toClient, S) \in Nat
      BY <1>1, ManyIsFinite DEF ConnectorType, DeviceType
    <2>8. Flight(connector', device') = Flight(connector, device) + (IF Asking' THEN 1 ELSE 0)
      BY <2>6, <2>7 DEF Flight
    <2>9. ForeignFlight(connector', device', ids') = ForeignFlight(connector, device, ids')
      BY <2>6, <2>7 DEF ForeignFlight
    <2> QED BY <1>7, <2>1, <2>2, <2>8, <2>9
  <1>13. OneInFlight' /\ FlightIsOwn' /\ AnswerIsOwn'
    BY <1>7, <1>12 DEF OneInFlight, FlightIsOwn, AnswerIsOwn
  <1> QED BY <1>9, <1>10, <1>11, <1>13 DEF IInv

(* Nothing is sent; the call remains or, with its answer, is over.         *)
LEMMA NothingSent ==
    ASSUME IInv, UNCHANGED <<client, device, connector, ids>>,
           \/ call' = call /\ late' = late
           \/ call' = NoCall /\ late' \in BOOLEAN /\ (late => late') /\ (~late' => ~Asking),
           bounds' \in Limits, plugin' \in PluginType(Dispatchers),
           DOMAIN readers' \subseteq Numbers, DOMAIN readers \subseteq DOMAIN readers',
           \A k \in DOMAIN readers' : readers'[k] \in ReaderType(Dispatchers),
           plugin'.session => plugin'.key \in DOMAIN readers'
    PROVE  IInv'
  <1>1. Dispatchers' = Dispatchers /\ Numbers' = Numbers
    BY DEF Dispatchers, Numbers
  <1>2. NoCall \in CallType(Dispatchers)
    BY NoMessageTyped DEF NoCall, CallType
  <1>3. TypeOK'
    BY <1>1, <1>2 DEF IInv, TypeOK
  <1>4. ReadersAreThere'
    BY DEF IInv, ReadersAreThere, Idle, NoCall
  <1>5. LinkIsOpen' /\ PendingHasAnswer'
    BY <1>1 DEF IInv, LinkIsOpen, PendingHasAnswer
  <1>6. CASE call' = call /\ late' = late
    <2>1. OneInFlight' /\ FlightIsOwn' /\ AnswerIsOwn'
      BY <1>6 DEF IInv, OneInFlight, FlightIsOwn, AnswerIsOwn, Asking, Idle
    <2> QED BY <1>3, <1>4, <1>5, <2>1 DEF IInv
  <1>7. CASE call' = NoCall /\ late' \in BOOLEAN /\ (late => late') /\ (~late' => ~Asking)
    <2>1. ASSUME ~late'
          PROVE  /\ Flight(connector, device) <= 0
                 /\ ForeignFlight(connector, device, NoCall.id) = 0
      <3>1. Flight(connector, device) <= 0
        BY <1>7, <2>1 DEF IInv, OneInFlight
      <3>2. /\ Flight(connector, device) \in Nat
            /\ Flight(connector, device) = 0 => ForeignFlight(connector, device, NoCall.id) = 0
        BY FlightTypes DEF IInv, TypeOK
      <3> QED BY <3>1, <3>2
    <2>2. ~Asking' /\ call'.answer = "none"
      BY <1>7 DEF Asking, Idle, NoCall
    <2>3. OneInFlight' /\ FlightIsOwn' /\ AnswerIsOwn'
      BY <1>7, <2>1, <2>2 DEF OneInFlight, FlightIsOwn, AnswerIsOwn
    <2> QED BY <1>3, <1>4, <1>5, <2>3 DEF IInv
  <1> QED BY <1>6, <1>7

LEMMA WaitStep ==
    ASSUME IInv, Wait
    PROVE  IInv'
  <1>1. call \in CallType(Dispatchers)
    BY DEF IInv, TypeOK
  <1>2. /\ call' \in CallType(Dispatchers) /\ call'.type = call.type /\ call'.id = call.id
        /\ call'.n = call.n /\ call'.key = call.key /\ call'.answer = call.answer
        /\ call'.got = call.got
    BY <1>1 DEF Wait, CallType
  <1>3. UNCHANGED <<bounds, client, plugin, readers, connector, device, ids, late>>
    BY DEF Wait, Ghosts
  <1>4. Dispatchers' = Dispatchers /\ Numbers' = Numbers
    BY <1>3 DEF Dispatchers, Numbers
  <1>5. TypeOK'
    BY <1>2, <1>3, <1>4 DEF IInv, TypeOK
  <1>6. ReadersAreThere' /\ LinkIsOpen' /\ PendingHasAnswer'
    BY <1>2, <1>3, <1>4 DEF IInv, ReadersAreThere, LinkIsOpen, PendingHasAnswer, Idle
  <1>7. OneInFlight' /\ FlightIsOwn' /\ AnswerIsOwn'
    BY <1>2, <1>3 DEF IInv, OneInFlight, FlightIsOwn, AnswerIsOwn, Asking, Idle
  <1> QED BY <1>5, <1>6, <1>7 DEF IInv

LEMMA HandleStatusStep ==
    ASSUME IInv, HandleStatus
    PROVE  IInv'
  <1> DEFINE d    == plugin.dispatcher
             key  == IF connector.channels[d].context THEN d ELSE 0
             card == PluginArg.arg = "card"
             old  == IF key \in DOMAIN readers THEN readers[key]
                     ELSE [disp |-> d, card |-> FALSE, connected |-> FALSE, handle |-> 0]
             new  == IF old.card THEN [old EXCEPT !.card = card,
                                                  !.connected = @ /\ card,
                                                  !.handle = IF card THEN @ ELSE 0]
                                 ELSE [old EXCEPT !.card = card]
  <1>1. TypeOK /\ d \in {0} \cup Dispatchers /\ bounds \in Limits /\ late \in BOOLEAN
    BY DEF IInv, TypeOK, PluginType
  <1>2. plugin.events # <<>> /\ Idle
    BY DEF HandleStatus, PluginHandles
  <1>3. /\ plugin' \in PluginType(Dispatchers)
        /\ plugin'.session = plugin.session /\ plugin'.key = plugin.key
    BY <1>1, <1>2, PluginTakes DEF HandleStatus
  <1>4. UNCHANGED <<bounds, client, device, late>>
    BY DEF HandleStatus
  <1>5. plugin.session => plugin.key \in DOMAIN readers
    BY DEF IInv, ReadersAreThere
  <1>6. CASE d = 0
    <2>1. UNCHANGED <<readers, call, connector, ids>>
      BY <1>6 DEF HandleStatus
    <2>2. /\ DOMAIN readers' \subseteq Numbers /\ DOMAIN readers \subseteq DOMAIN readers'
          /\ \A k \in DOMAIN readers' : readers'[k] \in ReaderType(Dispatchers)
      BY <1>1, <2>1 DEF TypeOK
    <2> QED BY <1>1, <1>3, <1>4, <1>5, <2>1, <2>2, NothingSent
  <1>7. CASE d # 0
    <2>1. /\ readers' = Set(readers, key, new)
          /\ IF card /\ ~old.card THEN SendMessage("connect", key, new, TRUE)
                                  ELSE UNCHANGED <<call, connector, ids>>
      BY <1>7 DEF HandleStatus
    <2>2. d \in Dispatchers /\ key \in Numbers /\ card \in BOOLEAN
      BY <1>1, <1>7 DEF Numbers
    <2>3. old \in ReaderType(Dispatchers)
      BY <1>1, <2>2 DEF TypeOK, ReaderType
    <2> HIDE DEF d, key, card, old
    <2>4. new \in ReaderType(Dispatchers)
      <3>1. (old.connected /\ card) \in BOOLEAN /\ (IF card THEN old.handle ELSE 0) \in Nat
        BY <2>3 DEF ReaderType
      <3> QED BY <2>2, <2>3, <3>1 DEF ReaderType
    <2> HIDE DEF new
    <2>5. /\ DOMAIN readers' \subseteq Numbers /\ DOMAIN readers \subseteq DOMAIN readers'
          /\ key \in DOMAIN readers'
          /\ \A k \in DOMAIN readers' : readers'[k] \in ReaderType(Dispatchers)
      BY <1>1, <2>1, <2>2, <2>4, ReadersTyped
    <2>6. plugin'.session => plugin'.key \in DOMAIN readers'
      BY <1>3, <1>5, <2>5
    <2>7. CASE card /\ ~old.card
      <3>1. SendMessage("connect", key, new, TRUE) /\ "connect" \in Requests
        BY <2>1, <2>7 DEF Requests
      <3>2. late' \in BOOLEAN /\ (late => late') /\ (~late' => ~Asking) /\ TRUE \in BOOLEAN
        BY <1>1, <1>2, <1>4 DEF Asking
      <3> QED BY <1>1, <1>3, <1>4, <2>4, <2>5, <2>6, <3>1, <3>2, SendStep
    <2>8. CASE ~(card /\ ~old.card)
      <3>1. UNCHANGED <<call, connector, ids>>
        BY <2>1, <2>8
      <3> QED BY <1>1, <1>3, <1>4, <2>5, <2>6, <3>1, NothingSent
    <2> QED BY <2>7, <2>8
  <1> QED BY <1>6, <1>7

(* A workflow asks for something: no request is outstanding. *)
LEMMA AskStep ==
    ASSUME IInv, UNCHANGED <<client, readers, device, late>>, Idle,
           NEW type \in Requests, NEW key \in DOMAIN readers,
           SendMessage(type, key, readers[key], FALSE),
           bounds' \in Limits, plugin' \in PluginType(Dispatchers),
           plugin'.session => plugin'.key \in DOMAIN readers
    PROVE  IInv'
  <1>1. /\ DOMAIN readers' \subseteq Numbers /\ key \in DOMAIN readers'
        /\ \A k \in DOMAIN readers' : readers'[k] \in ReaderType(Dispatchers)
        /\ readers[key] \in ReaderType(Dispatchers)
    BY DEF IInv, TypeOK
  <1>2. late' \in BOOLEAN /\ (late => late') /\ (~late' => ~Asking) /\ FALSE \in BOOLEAN
    BY DEF IInv, TypeOK, Asking
  <1> QED BY <1>1, <1>2, SendStep

LEMMA ConnectionStep ==
    ASSUME IInv, CreateConnection \/ UseConnection \/ DropConnection
    PROVE  IInv'
  <1>1. /\ TypeOK /\ plugin \in PluginType(Dispatchers) /\ bounds \in Limits
        /\ plugin.session => plugin.key \in DOMAIN readers
    BY DEF IInv, TypeOK, ReadersAreThere
  <1>2. CASE CreateConnection
    <2>1. PICK key \in DOMAIN readers : SendMessage("connect", key, readers[key], FALSE)
      BY <1>2 DEF CreateConnection
    <2>2. bounds' \in Limits
      BY <1>1, <1>2 DEF CreateConnection, Uses, May, Limits
    <2>3. UNCHANGED <<client, plugin, readers, device, late>> /\ Idle /\ "connect" \in Requests
      BY <1>2 DEF CreateConnection, Requests
    <2> QED BY <1>1, <2>1, <2>2, <2>3, AskStep
  <1>3. CASE UseConnection
    <2>1. PICK type \in {"transmit", "destroyPace"} :
              SendMessage(type, plugin.key, readers[plugin.key], FALSE)
      BY <1>3 DEF UseConnection
    <2>2. bounds' \in Limits
      BY <1>1, <1>3 DEF UseConnection, Uses, May, Limits
    <2>3. /\ UNCHANGED <<client, plugin, readers, device, late>> /\ Idle /\ type \in Requests
          /\ plugin.session
      BY <1>3 DEF UseConnection, Requests
    <2> QED BY <1>1, <2>1, <2>2, <2>3, AskStep
  <1>4. CASE DropConnection
    <2>1. plugin' \in PluginType(Dispatchers) /\ plugin'.session = FALSE
      BY <1>1, <1>4 DEF DropConnection, PluginType
    <2>2. /\ UNCHANGED <<bounds, client, readers, device, late>> /\ Idle
          /\ "disconnect" \in Requests /\ plugin.key \in DOMAIN readers
      BY <1>1, <1>4 DEF DropConnection, Requests
    <2>3. CASE readers[plugin.key].card /\ readers[plugin.key].connected
      <3>1. SendMessage("disconnect", plugin.key, readers[plugin.key], FALSE)
        BY <1>4, <2>3 DEF DropConnection
      <3> QED BY <1>1, <2>1, <2>2, <3>1, AskStep
    <2>4. CASE ~(readers[plugin.key].card /\ readers[plugin.key].connected)
      <3>1. UNCHANGED <<call, connector, ids>>
        BY <1>4, <2>4 DEF DropConnection
      <3>2. /\ DOMAIN readers' \subseteq Numbers /\ DOMAIN readers \subseteq DOMAIN readers'
            /\ \A k \in DOMAIN readers' : readers'[k] \in ReaderType(Dispatchers)
        BY <1>1, <2>2 DEF TypeOK
      <3> QED BY <1>1, <2>1, <2>2, <3>1, <3>2, NothingSent
    <2> QED BY <2>3, <2>4
  <1> QED BY <1>2, <1>3, <1>4

LEMMA WakeStep ==
    ASSUME IInv, Wake
    PROVE  IInv'
  <1> DEFINE ok     == call.answer = "message" /\ call.got.ok
             reader == readers[call.key]
             new    == CASE ok /\ call.type = "connect" ->
                               [reader EXCEPT !.connected = TRUE, !.handle = call.got.handle]
                        [] ok /\ call.type = "disconnect" -> [reader EXCEPT !.connected = FALSE]
                        [] OTHER -> reader
  <1>1. /\ TypeOK /\ plugin \in PluginType(Dispatchers) /\ bounds \in Limits
        /\ late \in BOOLEAN /\ call.got.handle \in Nat /\ call.fetch \in BOOLEAN
    BY DEF IInv, TypeOK, CallType, Messages
  <1>2. /\ ~Idle /\ late' = (late \/ call.answer = "none")
        /\ UNCHANGED <<bounds, client, device>> /\ Finish(ok)
    BY DEF Wake
  <1>3. /\ call.key \in DOMAIN readers /\ call.key \in Numbers /\ reader \in ReaderType(Dispatchers)
        /\ plugin.session => plugin.key \in DOMAIN readers
    BY <1>1, <1>2 DEF IInv, ReadersAreThere, TypeOK
  <1>4. new \in ReaderType(Dispatchers)
    <2> HIDE DEF ok, reader
    <2>1. CASE ok /\ call.type = "connect"
      <3>1. new = [reader EXCEPT !.connected = TRUE, !.handle = call.got.handle]
        BY <2>1
      <3> HIDE DEF new
      <3> QED BY <1>1, <1>3, <3>1 DEF ReaderType
    <2>2. CASE ok /\ call.type = "disconnect"
      <3>1. new = [reader EXCEPT !.connected = FALSE]
        BY <2>2
      <3> HIDE DEF new
      <3> QED BY <1>3, <3>1 DEF ReaderType
    <2>3. CASE ~(ok /\ call.type \in {"connect", "disconnect"})
      <3>1. new = reader
        BY <2>3
      <3> QED BY <1>3, <3>1
    <2> QED BY <2>1, <2>2, <2>3
  <1>5. readers' = Set(readers, call.key, new)
    BY <1>2 DEF Finish
  <1>6. \/ SendMessage("transmit", call.key, new, TRUE) /\ UNCHANGED plugin
        \/ SendMessage("disconnect", call.key, new, TRUE) /\ UNCHANGED plugin
        \/ /\ call' = NoCall /\ UNCHANGED <<connector, ids>>
           /\ plugin' = plugin \/ plugin' = [plugin EXCEPT !.session = TRUE, !.key = call.key]
    <2> HIDE DEF ok, reader
    <2> QED BY <1>2 DEF Finish, reader
  <1> HIDE DEF ok, reader, new
  <1>7. /\ DOMAIN readers' \subseteq Numbers /\ DOMAIN readers \subseteq DOMAIN readers'
        /\ call.key \in DOMAIN readers'
        /\ \A k \in DOMAIN readers' : readers'[k] \in ReaderType(Dispatchers)
    BY <1>1, <1>3, <1>4, <1>5, ReadersTyped
  <1>8. late' \in BOOLEAN /\ (late => late') /\ (~late' => ~Asking) /\ TRUE \in BOOLEAN
    BY <1>1, <1>2 DEF Asking
  <1>9. ASSUME NEW type \in {"transmit", "disconnect"},
               SendMessage(type, call.key, new, TRUE), UNCHANGED plugin
        PROVE  IInv'
    <2>1. type \in Requests /\ (plugin'.session => plugin'.key \in DOMAIN readers')
      BY <1>3, <1>7, <1>9 DEF Requests
    <2> QED BY <1>1, <1>2, <1>4, <1>7, <1>8, <1>9, <2>1, SendStep
  <1>10. CASE /\ call' = NoCall /\ UNCHANGED <<connector, ids>>
              /\ plugin' = plugin \/ plugin' = [plugin EXCEPT !.session = TRUE, !.key = call.key]
    <2>1. plugin' \in PluginType(Dispatchers) /\ (plugin'.session => plugin'.key \in DOMAIN readers')
      BY <1>1, <1>3, <1>7, <1>10 DEF PluginType, Numbers
    <2> QED BY <1>1, <1>2, <1>7, <1>8, <1>10, <2>1, NothingSent
  <1> QED BY <1>6, <1>9, <1>10

-----------------------------------------------------------------------------
(* The connector: requests for connections. *)
LEMMA OnConnectRequestStep ==
    ASSUME IInv, OnConnectRequest
    PROVE  IInv'
  <1> DEFINE D == Dispatchers
             r == Append(connector.requests, ConnectorArg.type)
  <1>1. /\ TypeOK /\ connector \in ConnectorType(D) /\ device \in DeviceType(D)
        /\ connector.requests \in Seq(Attempts)
    BY DEF IInv, TypeOK, ConnectorType, Attempts
  <1>2. connector.events # <<>> /\ ConnectorArg.type \in Attempts
    BY DEF OnConnectRequest, ConnectorHandles, ConnectorArg, Attempts
  <1>3. /\ ConnectorRest \in ConnectorType(D)
        /\ ConnectorRest.channels = connector.channels /\ ConnectorRest.requests = connector.requests
        /\ Count(ConnectorRest.events, Attempts) \in Nat
        /\ Count(connector.events, Attempts) = Count(ConnectorRest.events, Attempts) + 1
        /\ \A S : /\ Many(ConnectorRest.events, S) \in Nat
                  /\ Many(connector.events, S) =
                         Many(ConnectorRest.events, S) + (IF ConnectorArg \in S THEN 1 ELSE 0)
    BY <1>1, <1>2, ConnectorTakes
  <1>4. r \in Seq(Attempts) /\ Len(r) = Len(connector.requests) + 1 /\ Len(connector.requests) \in Nat
    BY <1>1, <1>2
  <1>5. /\ connector' = [ConnectorRest EXCEPT !.requests = r]
        /\ UNCHANGED <<bounds, client, plugin, readers, call, device, ids, late>>
    BY <1>3 DEF OnConnectRequest, Ghosts
  <1> HIDE DEF r
  <1>6. /\ connector' \in ConnectorType(D) /\ connector'.channels = connector.channels
        /\ connector'.requests = r /\ connector'.events = ConnectorRest.events
    <2> HIDE DEF D
    <2> QED BY <1>3, <1>4, <1>5 DEF ConnectorType, Attempts
  <1>7. Dispatchers' = Dispatchers /\ Numbers' = Numbers
    BY <1>6 DEF Dispatchers, Numbers
  <1>8. TypeOK'
    BY <1>5, <1>6, <1>7 DEF IInv, TypeOK
  <1>9. ReadersAreThere' /\ LinkIsOpen'
    BY <1>5, <1>6, <1>7 DEF IInv, ReadersAreThere, LinkIsOpen, Idle
  <1>10. PendingHasAnswer'
    <2>1. client.pending = Count(connector.events, Attempts) + Len(connector.requests)
                               + Count(client.events, Answers)
      BY DEF IInv, PendingHasAnswer, Answers, Attempts
    <2>2. client.pending = Count(connector'.events, Attempts) + Len(r) + Count(client.events, Answers)
      <3>1. /\ client.pending \in Nat /\ Count(client.events, Answers) \in Nat
            /\ Count(connector.events, Attempts) \in Nat /\ Len(connector.requests) \in Nat
        BY <1>1, CountsAreNumbers
      <3> QED BY <1>3, <1>4, <1>6, <2>1, <3>1
    <2> QED BY <1>5, <1>6, <2>2 DEF PendingHasAnswer, Answers, Attempts
  <1>11. OneInFlight' /\ FlightIsOwn' /\ AnswerIsOwn'
    <2>1. ConnectorArg \notin LiveSends(device.conn) /\ ConnectorArg \notin ForeignSends(device.conn, call.id)
      BY <1>2 DEF LiveSends, ForeignSends, Attempts
    <2>2. /\ Many(connector.events, LiveSends(device.conn)) = Many(ConnectorRest.events, LiveSends(device.conn)) + 0
          /\ Many(connector.events, ForeignSends(device.conn, call.id)) =
                 Many(ConnectorRest.events, ForeignSends(device.conn, call.id)) + 0
      BY <1>3, <2>1
    <2>3. /\ Many(connector.events, LiveSends(device.conn)) = Many(ConnectorRest.events, LiveSends(device.conn))
          /\ Many(connector.events, ForeignSends(device.conn, call.id)) =
                 Many(ConnectorRest.events, ForeignSends(device.conn, call.id))
      BY <1>3, <2>2
    <2>4. /\ Flight(connector', device') = Flight(connector, device)
          /\ ForeignFlight(connector', device', call.id) = ForeignFlight(connector, device, call.id)
      BY <1>5, <1>6, <2>3 DEF Flight, ForeignFlight
    <2>5. Flight(connector, device) \in Nat /\ ForeignFlight(connector, device, call.id) \in Nat
      BY <1>1, FlightTypes
    <2>6. /\ device'.conn = device.conn
          /\ Flight(connector', device') <= Flight(connector, device)
          /\ ForeignFlight(connector', device', call.id) <= ForeignFlight(connector, device, call.id)
      BY <1>5, <2>4, <2>5
    <2> QED BY <1>1, <1>5, <1>6, <2>6, FlightKept
  <1> QED BY <1>8, <1>9, <1>10, <1>11 DEF IInv

LEMMA SeqGrows ==
    ASSUME NEW S, NEW T, S \subseteq T, NEW q \in Seq(S)
    PROVE  q \in Seq(T)
  OBVIOUS

LEMMA TypesGrow ==
    ASSUME NEW D, NEW E, D \subseteq E
    PROVE  /\ \A c \in ClientType(D) : c \in ClientType(E)
           /\ \A p \in PluginType(D) : p \in PluginType(E)
           /\ \A r \in ReaderType(D) : r \in ReaderType(E)
           /\ \A c \in CallType(D) : c \in CallType(E)
           /\ \A k \in ConnectorType(D) : k \in ConnectorType(E)
           /\ \A d \in DeviceType(D) : d \in DeviceType(E)
  <1>1. /\ ClientEvents(D) \subseteq ClientEvents(E)
        /\ PluginEvents(D) \subseteq PluginEvents(E)
        /\ ConnectorEvents(D) \subseteq ConnectorEvents(E)
    BY DEF ClientEvents, PluginEvents, ConnectorEvents
  <1>2. ASSUME NEW c \in ClientType(D)
        PROVE  c \in ClientType(E)
    <2>1. c.events \in Seq(ClientEvents(E))
      BY <1>1, SeqGrows DEF ClientType
    <2> QED BY <2>1 DEF ClientType
  <1>3. ASSUME NEW p \in PluginType(D)
        PROVE  p \in PluginType(E)
    <2>1. p.events \in Seq(PluginEvents(E))
      BY <1>1, SeqGrows DEF PluginType
    <2> QED BY <2>1 DEF PluginType
  <1>4. ASSUME NEW k \in ConnectorType(D)
        PROVE  k \in ConnectorType(E)
    <2>1. k.events \in Seq(ConnectorEvents(E))
      BY <1>1, SeqGrows DEF ConnectorType
    <2> QED BY <2>1 DEF ConnectorType
  <1>5. \A r \in ReaderType(D) : r \in ReaderType(E)
    BY DEF ReaderType
  <1>6. \A c \in CallType(D) : c \in CallType(E)
    BY DEF CallType
  <1>7. \A d \in DeviceType(D) : d \in DeviceType(E)
    BY DEF DeviceType
  <1> QED BY <1>2, <1>3, <1>4, <1>5, <1>6, <1>7

LEMMA ConnectionCreatedStep ==
    ASSUME IInv, ConnectionCreated
    PROVE  IInv'
  <1> DEFINE n == Len(connector.channels) + 1
             D == Dispatchers
             E == 1..n
  <1>1. /\ TypeOK /\ bounds \in Limits /\ client \in ClientType(D) /\ plugin \in PluginType(D)
        /\ call \in CallType(D) /\ connector \in ConnectorType(D) /\ device \in DeviceType(D)
        /\ ids \in Nat /\ late \in BOOLEAN
        /\ device.conn = 0 /\ Len(connector.channels) \in Nat
    BY DEF IInv, TypeOK, ConnectionCreated, ConnectorType
  <1>2. PICK i \in DOMAIN connector.requests :
            /\ connector' = [connector EXCEPT
                   !.requests = Without(@, i),
                   !.channels = Append(@, [state |-> "open", pairing |-> connector.requests[i] = "pair",
                                           context |-> FALSE])]
            /\ device' = [device EXCEPT !.conn = n]
            /\ client' = [PostClient(client, "created", n) EXCEPT
                              !.trusted = @ \/ connector.requests[i] = "pair"]
    BY DEF ConnectionCreated
  <1>3. UNCHANGED <<bounds, plugin, readers, call, ids, late>>
    BY DEF ConnectionCreated, Ghosts
  <1> DEFINE ch == [state |-> "open", pairing |-> connector.requests[i] = "pair", context |-> FALSE]
             chs == Append(connector.channels, ch)
             rs  == Without(connector.requests, i)
  <1>4. /\ chs \in Seq(Channels) /\ Len(chs) = n
        /\ \A j \in D : chs[j] = connector.channels[j]
        /\ chs[n].state = "open"
    <2>1. ch \in Channels /\ connector.channels \in Seq(Channels) /\ ch.state = "open"
      BY <1>1 DEF Channels, ConnectorType
    <2> HIDE DEF ch
    <2> QED BY <2>1 DEF Dispatchers
  <1>5. rs \in Seq(Attempts) /\ Len(rs) = Len(connector.requests) - 1 /\ Len(connector.requests) \in Nat
    <2>1. connector.requests \in Seq(Attempts)
      BY <1>1 DEF ConnectorType, Attempts
    <2>2. Len(connector.requests) \in Nat
      BY <2>1
    <2> HIDE DEF n, D, E, ch, chs
    <2> QED BY <2>1, <2>2, WithoutIsShorter DEF rs
  <1> HIDE DEF chs, rs
  <1>6. D \subseteq E /\ n \in E /\ n \notin {0} \cup D /\ \A j \in E : j \in D \/ j = n
    BY <1>1 DEF Dispatchers
  <1>7. /\ connector' \in ConnectorType(E) /\ connector'.channels = chs /\ connector'.requests = rs
        /\ connector'.events = connector.events
    <2>1. connector \in ConnectorType(E)
      <3> HIDE DEF D, E
      <3> QED BY <1>1, <1>6, TypesGrow
    <2>2. connector' = [connector EXCEPT !.requests = rs, !.channels = chs]
      BY <1>2 DEF rs, chs
    <2> HIDE DEF E
    <2> QED BY <1>4, <1>5, <2>1, <2>2 DEF ConnectorType, Attempts
  <1>8. Dispatchers' = E /\ Numbers' = {0} \cup E
    BY <1>4, <1>7 DEF Dispatchers, Numbers
  <1>9. device' \in DeviceType(E) /\ device'.conn = n /\ device'.toDevice = device.toDevice
        /\ device'.jobs = device.jobs /\ device'.toClient = device.toClient
    <2>1. device \in DeviceType(E)
      <3> HIDE DEF D, E
      <3> QED BY <1>1, <1>6, TypesGrow
    <2> HIDE DEF n, E
    <2> QED BY <1>2, <1>6, <2>1 DEF DeviceType
  <1>10. /\ client' \in ClientType(E) /\ client'.pending = client.pending
         /\ Count(client'.events, Answers) = Count(client.events, Answers) + 1
    <2> HIDE DEF n, E, D
    <2>1. client \in ClientType(E)
      BY <1>1, <1>6, TypesGrow
    <2>2. [type |-> "created", n |-> n] \in ClientEvents(E) /\ "created" \in Answers
      BY <1>6 DEF ClientEvents, Answers
    <2>3. /\ PostClient(client, "created", n) \in ClientType(E)
          /\ PostClient(client, "created", n).pending = client.pending
          /\ Count(PostClient(client, "created", n).events, Answers) = Count(client.events, Answers) + 1
      BY <2>1, <2>2, ClientPosts
    <2> QED BY <1>2, <2>3 DEF ClientType
  <1>11. TypeOK'
    <2> HIDE DEF n, E, D
    <2>1. plugin' \in PluginType(E) /\ call' \in CallType(E)
      BY <1>1, <1>3, <1>6, TypesGrow
    <2>2. DOMAIN readers' \subseteq {0} \cup E
      BY <1>1, <1>3, <1>6 DEF TypeOK, D, Numbers
    <2>3. \A k \in DOMAIN readers' : readers'[k] \in ReaderType(E)
      BY <1>1, <1>3, <1>6, TypesGrow DEF TypeOK, D
    <2> QED BY <1>1, <1>3, <1>7, <1>8, <1>9, <1>10, <2>1, <2>2, <2>3 DEF TypeOK
  <1>12. ReadersAreThere'
    BY <1>3 DEF IInv, ReadersAreThere, Idle
  <1>13. LinkIsOpen'
    <2>1. \A j \in D : connector.channels[j].state # "open"
      BY <1>1, <1>6 DEF IInv, LinkIsOpen
    <2>2. \A j \in E : chs[j].state = "open" <=> n = j
      <3> HIDE DEF n, E, D
      <3> QED BY <1>4, <1>6, <2>1
    <2>3. n # 0
      BY <1>6
    <2> HIDE DEF n, E
    <2> QED BY <1>7, <1>8, <1>9, <2>2, <2>3 DEF LinkIsOpen
  <1>14. PendingHasAnswer'
    <2>1. client.pending = Count(connector.events, Attempts) + Len(connector.requests)
                               + Count(client.events, Answers)
      BY DEF IInv, PendingHasAnswer, Answers, Attempts
    <2>2. client'.pending = Count(connector.events, Attempts) + Len(rs) + Count(client'.events, Answers)
      <3>1. /\ client.pending \in Nat /\ Count(client.events, Answers) \in Nat
            /\ Count(connector.events, Attempts) \in Nat /\ Len(connector.requests) \in Nat
        BY <1>1, CountsAreNumbers
      <3>2. Len(rs) + 1 = Len(connector.requests) /\ Len(rs) \in Int
        BY <1>5
      <3>3. client'.pending = client.pending /\ Count(client'.events, Answers) = Count(client.events, Answers) + 1
        BY <1>10
      <3> QED BY ONLY <2>1, <3>1, <3>2, <3>3
    <2> QED BY <1>7, <2>2 DEF PendingHasAnswer, Answers, Attempts
  <1>15. OneInFlight' /\ FlightIsOwn' /\ AnswerIsOwn'
    <2>1. Many(connector'.events, LiveSends(n)) = 0
      <3> HIDE DEF n, E
      <3>1. connector.events \in Seq(ConnectorEvents(D)) /\ n \notin {0} \cup D
        BY <1>1, <1>6 DEF ConnectorType
      <3>2. \A e \in ConnectorEvents(D) : e \notin LiveSends(n)
        BY <3>1 DEF ConnectorEvents, LiveSends
      <3>3. \A j \in DOMAIN connector.events : connector.events[j] \notin LiveSends(n)
        BY <3>1, <3>2
      <3> QED BY <1>7, <3>1, <3>3, NoneOfNone
    <2>2. device.toDevice = <<>> /\ device.jobs = <<>> /\ device.toClient = <<>>
      BY <1>1 DEF IInv, LinkIsOpen
    <2>3. Flight(connector', device') = 0
      <3>1. Many(<<>>, OnTheWay) = 0
        BY ManyInEmpty
      <3> HIDE DEF n
      <3> QED BY <1>9, <2>1, <2>2, <3>1 DEF Flight
    <2> QED BY <1>3, <1>7, <1>9, <2>3, FlightKept
  <1> QED BY <1>11, <1>12, <1>13, <1>14, <1>15 DEF IInv

LEMMA ConnectionErrorStep ==
    ASSUME IInv, ConnectionError
    PROVE  IInv'
  <1> DEFINE D == Dispatchers
  <1>1. /\ TypeOK /\ client \in ClientType(D) /\ connector \in ConnectorType(D)
        /\ device \in DeviceType(D)
    BY DEF IInv, TypeOK
  <1>2. PICK i \in DOMAIN connector.requests, code \in {"refused", "failed"} :
            /\ connector' = [connector EXCEPT !.requests = Without(@, i)]
            /\ client' = PostClient(client, code, 0)
    BY DEF ConnectionError
  <1>3. UNCHANGED <<bounds, plugin, readers, call, device, ids, late>>
    BY DEF ConnectionError, Ghosts
  <1> DEFINE rs == Without(connector.requests, i)
  <1>4. rs \in Seq(Attempts) /\ Len(rs) = Len(connector.requests) - 1 /\ Len(connector.requests) \in Nat
    <2>1. connector.requests \in Seq(Attempts)
      BY <1>1 DEF ConnectorType, Attempts
    <2> QED BY <2>1, WithoutIsShorter
  <1> HIDE DEF rs
  <1>5. /\ connector' \in ConnectorType(D) /\ connector'.channels = connector.channels
        /\ connector'.requests = rs /\ connector'.events = connector.events
    <2>1. connector' = [connector EXCEPT !.requests = rs]
      BY <1>2 DEF rs
    <2> HIDE DEF D
    <2> QED BY <1>1, <1>4, <2>1 DEF ConnectorType, Attempts
  <1>6. /\ client' \in ClientType(D) /\ client'.pending = client.pending
        /\ Count(client'.events, Answers) = Count(client.events, Answers) + 1
    <2>1. [type |-> code, n |-> 0] \in ClientEvents(D) /\ code \in Answers
      BY DEF ClientEvents, Answers
    <2> QED BY <1>1, <1>2, <2>1, ClientPosts
  <1>7. Dispatchers' = Dispatchers /\ Numbers' = Numbers
    BY <1>5 DEF Dispatchers, Numbers
  <1>8. TypeOK'
    BY <1>1, <1>3, <1>5, <1>6, <1>7 DEF TypeOK
  <1>9. ReadersAreThere' /\ LinkIsOpen'
    BY <1>3, <1>5, <1>7 DEF IInv, ReadersAreThere, LinkIsOpen, Idle
  <1>10. PendingHasAnswer'
    <2>1. client.pending = Count(connector.events, Attempts) + Len(connector.requests)
                               + Count(client.events, Answers)
      BY DEF IInv, PendingHasAnswer, Answers, Attempts
    <2>2. client'.pending = Count(connector.events, Attempts) + Len(rs) + Count(client'.events, Answers)
      <3>1. /\ client.pending \in Nat /\ Count(client.events, Answers) \in Nat
            /\ Count(connector.events, Attempts) \in Nat /\ Len(connector.requests) \in Nat
        BY <1>1, CountsAreNumbers
      <3>2. Len(rs) + 1 = Len(connector.requests) /\ Len(rs) \in Int
        BY <1>4
      <3>3. client'.pending = client.pending /\ Count(client'.events, Answers) = Count(client.events, Answers) + 1
        BY <1>6
      <3> QED BY ONLY <2>1, <3>1, <3>2, <3>3
    <2> QED BY <1>5, <2>2 DEF PendingHasAnswer, Answers, Attempts
  <1>11. OneInFlight' /\ FlightIsOwn' /\ AnswerIsOwn'
    <2>1. /\ Flight(connector', device') = Flight(connector, device)
          /\ ForeignFlight(connector', device', call.id) = ForeignFlight(connector, device, call.id)
      BY <1>3, <1>5 DEF Flight, ForeignFlight
    <2>2. Flight(connector, device) \in Nat /\ ForeignFlight(connector, device, call.id) \in Nat
      BY <1>1, FlightTypes
    <2>3. /\ device'.conn = device.conn
          /\ Flight(connector', device') <= Flight(connector, device)
          /\ ForeignFlight(connector', device', call.id) <= ForeignFlight(connector, device, call.id)
      BY <1>3, <2>1, <2>2
    <2> QED BY <1>1, <1>3, <1>5, <2>3, FlightKept
  <1> QED BY <1>8, <1>9, <1>10, <1>11 DEF IInv

-----------------------------------------------------------------------------
(* The channels and the device. *)
LEMMA UnlinkedIsQuiet ==
    ASSUME NEW D, 0 \notin D, device \in DeviceType(D), NEW k \in ConnectorType(D)
    PROVE  /\ Unlinked \in DeviceType(D) /\ Unlinked.conn = 0
           /\ Unlinked.toDevice = <<>> /\ Unlinked.jobs = <<>> /\ Unlinked.toClient = <<>>
           /\ Flight(k, Unlinked) = 0
  <1>1. /\ Unlinked \in DeviceType(D) /\ Unlinked.conn = 0
        /\ Unlinked.toDevice = <<>> /\ Unlinked.jobs = <<>> /\ Unlinked.toClient = <<>>
    <2>1. <<>> \in Seq(Messages) /\ 0 \in Nat
      OBVIOUS
    <2> QED BY <2>1 DEF Unlinked, DeviceType
  <1>2. k.events \in Seq(ConnectorEvents(D))
    BY DEF ConnectorType
  <1>3. \A e \in ConnectorEvents(D) : e \notin LiveSends(0)
    BY DEF ConnectorEvents, LiveSends
  <1>4. \A i \in DOMAIN k.events : k.events[i] \notin LiveSends(0)
    BY <1>2, <1>3
  <1>5. Many(k.events, LiveSends(0)) = 0 /\ Many(<<>>, OnTheWay) = 0
    BY <1>2, <1>4, NoneOfNone, ManyInEmpty
  <1> QED BY <1>1, <1>5 DEF Flight

(* The state of one channel changes. *)
WithState(k, n, state) == [k EXCEPT !.channels[n].state = state]

LEMMA ChannelChanges ==
    ASSUME NEW D, NEW k \in ConnectorType(D), NEW n \in 1..Len(k.channels),
           NEW state \in {"open", "dead", "closed"}
    PROVE  LET l == WithState(k, n, state) IN
           /\ l \in ConnectorType(D) /\ l.events = k.events /\ l.requests = k.requests
           /\ Len(l.channels) = Len(k.channels)
           /\ \A j \in 1..Len(k.channels) :
                  l.channels[j].state = IF j = n THEN state ELSE k.channels[j].state
  <1> DEFINE l   == WithState(k, n, state)
             ch  == [k.channels[n] EXCEPT !.state = state]
             chs == [k.channels EXCEPT ![n] = ch]
  <1>1. k.channels \in Seq(Channels) /\ k.channels[n] \in Channels
    BY DEF ConnectorType
  <1>2. ch \in Channels /\ ch.state = state
    BY <1>1 DEF Channels
  <1>3. l = [k EXCEPT !.channels = chs]
    BY DEF WithState
  <1> HIDE DEF ch, l
  <1>4. /\ chs \in Seq(Channels) /\ Len(chs) = Len(k.channels)
        /\ \A j \in 1..Len(k.channels) : chs[j] = IF j = n THEN ch ELSE k.channels[j]
    BY <1>1, <1>2
  <1> HIDE DEF chs
  <1>5. /\ l \in ConnectorType(D) /\ l.events = k.events /\ l.requests = k.requests
        /\ l.channels = chs
    BY <1>3, <1>4 DEF ConnectorType
  <1> QED BY <1>2, <1>4, <1>5 DEF l

(* A channel is open no longer; if it was the device's, nothing is left of *)
(* what was on its way.                                                    *)
LEMMA CutStep ==
    ASSUME IInv, UNCHANGED <<client, plugin, readers, call, ids, late>>, bounds' \in Limits,
           NEW k \in ConnectorType(Dispatchers), k.channels = connector.channels,
           k.requests = connector.requests, Count(k.events, Attempts) = Count(connector.events, Attempts),
           \A S : Many(k.events, S) <= Many(connector.events, S),
           NEW n \in Dispatchers, NEW state \in {"dead", "closed"},
           connector' = WithState(k, n, state),
           device' = IF device.conn = n THEN Unlinked ELSE device
    PROVE  IInv'
  <1> DEFINE D == Dispatchers
  <1>1. /\ TypeOK /\ connector \in ConnectorType(D) /\ device \in DeviceType(D)
        /\ 0 \notin D
    BY DEF IInv, TypeOK, Dispatchers
  <1>2. /\ connector' \in ConnectorType(D) /\ connector'.events = k.events
        /\ connector'.requests = connector.requests
        /\ Len(connector'.channels) = Len(connector.channels)
        /\ connector'.channels[n].state # "open"
        /\ \A j \in D \ {n} : connector'.channels[j].state = connector.channels[j].state
    <2>1. n \in 1..Len(k.channels) /\ state \in {"open", "dead", "closed"} /\ D = 1..Len(k.channels)
      BY DEF Dispatchers
    <2>2. LET l == WithState(k, n, state) IN
          /\ l \in ConnectorType(D) /\ l.events = k.events /\ l.requests = k.requests
          /\ Len(l.channels) = Len(k.channels)
          /\ \A j \in 1..Len(k.channels) :
                 l.channels[j].state = IF j = n THEN state ELSE k.channels[j].state
      BY <2>1, ChannelChanges
    <2>3. /\ connector' \in ConnectorType(D) /\ connector'.events = k.events
          /\ connector'.requests = k.requests /\ Len(connector'.channels) = Len(k.channels)
          /\ \A j \in D : connector'.channels[j].state = IF j = n THEN state ELSE k.channels[j].state
      BY <2>1, <2>2
    <2> QED BY <2>3
  <1>3. /\ device' \in DeviceType(D)
        /\ device'.conn = (IF device.conn = n THEN 0 ELSE device.conn)
        /\ device.conn = n => /\ device'.toDevice = <<>> /\ device'.jobs = <<>>
                              /\ device'.toClient = <<>> /\ Flight(connector', device') = 0
        /\ device.conn # n => device' = device
    BY <1>1, <1>2, UnlinkedIsQuiet
  <1>4. Dispatchers' = Dispatchers /\ Numbers' = Numbers
    BY <1>2 DEF Dispatchers, Numbers
  <1>5. TypeOK'
    BY <1>1, <1>2, <1>3, <1>4 DEF TypeOK
  <1>6. ReadersAreThere'
    BY DEF IInv, ReadersAreThere, Idle
  <1>7. LinkIsOpen'
    <2>1. ASSUME NEW j \in D
          PROVE  connector'.channels[j].state = "open" <=> device'.conn = j
      <3>1. CASE j = n
        BY <1>1, <1>2, <1>3, <3>1
      <3>2. CASE j # n
        <4>1. connector.channels[j].state = "open" <=> device.conn = j
          BY DEF IInv, LinkIsOpen
        <4> QED BY <1>1, <1>2, <1>3, <3>2, <4>1
      <3> QED BY <3>1, <3>2
    <2>2. device'.conn = 0 => device'.toDevice = <<>> /\ device'.jobs = <<>> /\ device'.toClient = <<>>
      BY <1>3 DEF IInv, LinkIsOpen
    <2> QED BY <1>4, <2>1, <2>2 DEF LinkIsOpen
  <1>8. PendingHasAnswer'
    BY <1>2 DEF IInv, PendingHasAnswer, Attempts
  <1>9. OneInFlight' /\ FlightIsOwn' /\ AnswerIsOwn'
    <2>1. CASE device.conn = n
      <3>1. Flight(connector', device') = 0
        BY <1>3, <2>1
      <3> QED BY <1>2, <1>3, <3>1, FlightKept
    <2>2. CASE device.conn # n
      <3>1. /\ Many(connector'.events, LiveSends(device.conn)) <= Many(connector.events, LiveSends(device.conn))
            /\ Many(connector'.events, ForeignSends(device.conn, call.id)) <=
                   Many(connector.events, ForeignSends(device.conn, call.id))
        BY <1>2
      <3>2. /\ \A S : /\ Many(connector'.events, S) \in Nat /\ Many(connector.events, S) \in Nat
                      /\ Many(device.toDevice, S) \in Nat /\ Many(device.jobs, S) \in Nat
                      /\ Many(device.toClient, S) \in Nat
        BY <1>1, <1>2, ManyIsFinite DEF ConnectorType, DeviceType
      <3>3. device' = device
        BY <1>3, <2>2
      <3>4. Flight(connector', device') <= Flight(connector, device)
        BY <3>1, <3>2, <3>3 DEF Flight
      <3>5. ForeignFlight(connector', device', call.id) <= ForeignFlight(connector, device, call.id)
        BY <3>1, <3>2, <3>3 DEF ForeignFlight
      <3> QED BY <1>1, <1>2, <3>3, <3>4, <3>5, FlightKept
    <2> QED BY <2>1, <2>2
  <1> QED BY <1>5, <1>6, <1>7, <1>8, <1>9 DEF IInv

LEMMA DiesFacts ==
    ASSUME NEW k, NEW n, k.channels[n].state \in {"open", "dead", "closed"}
    PROVE  \E state \in {"dead", "closed"} : Dies(k, n) = WithState(k, n, state)
  <1>1. k.channels[n].state = "open" => Dies(k, n) = WithState(k, n, "dead")
    BY DEF Dies, WithState
  <1>2. k.channels[n].state = "closed" => Dies(k, n) = WithState(k, n, "closed")
    BY DEF Dies, WithState
  <1>3. k.channels[n].state = "dead" => Dies(k, n) = WithState(k, n, "dead")
    BY DEF Dies, WithState
  <1> QED BY <1>1, <1>2, <1>3

LEMMA CloseStep ==
    ASSUME IInv, CloseDispatcher \/ DispatcherDeleted \/ Disconnect
    PROVE  IInv'
  <1> DEFINE D == Dispatchers
  <1>1. /\ TypeOK /\ bounds \in Limits /\ connector \in ConnectorType(D) /\ device \in DeviceType(D)
        /\ \A n \in D : connector.channels[n].state \in {"open", "dead", "closed"}
    <2>1. /\ TypeOK /\ bounds \in Limits /\ connector \in ConnectorType(D) /\ device \in DeviceType(D)
          /\ connector.channels \in Seq(Channels)
      BY DEF IInv, TypeOK, ConnectorType
    <2>2. \A n \in D : connector.channels[n] \in Channels
      BY <2>1 DEF Dispatchers
    <2> QED BY <2>1, <2>2 DEF Channels
  <1>2. \A S : Many(connector.events, S) \in Nat
    BY <1>1, ManyIsFinite DEF ConnectorType
  <1>3. CASE CloseDispatcher
    <2>1. connector.events # <<>> /\ ConnectorArg.type = "close"
      BY <1>3 DEF CloseDispatcher, ConnectorHandles, ConnectorArg
    <2>2. /\ ConnectorRest \in ConnectorType(D) /\ ConnectorArg \in ConnectorEvents(D)
          /\ ConnectorRest.channels = connector.channels /\ ConnectorRest.requests = connector.requests
          /\ Count(ConnectorRest.events, Attempts) \in Nat
          /\ Count(connector.events, Attempts) = Count(ConnectorRest.events, Attempts) + 0
          /\ \A S : /\ Many(ConnectorRest.events, S) \in Nat
                    /\ Many(connector.events, S) =
                           Many(ConnectorRest.events, S) + (IF ConnectorArg \in S THEN 1 ELSE 0)
      BY <1>1, <2>1, ConnectorTakes DEF Attempts
    <2>3. /\ Count(ConnectorRest.events, Attempts) = Count(connector.events, Attempts)
          /\ \A S : Many(ConnectorRest.events, S) <= Many(connector.events, S)
      BY <2>2
    <2>4. ConnectorArg.n \in D
      BY <2>1, <2>2 DEF ConnectorEvents
    <2>5. PICK state \in {"dead", "closed"} : connector' = WithState(ConnectorRest, ConnectorArg.n, state)
      BY <1>1, <1>3, <2>2, <2>4, DiesFacts DEF CloseDispatcher
    <2>6. /\ UNCHANGED <<bounds, client, plugin, readers, call, ids, late>>
          /\ device' = IF device.conn = ConnectorArg.n THEN Unlinked ELSE device
      BY <1>3 DEF CloseDispatcher, Ghosts
    <2> QED BY <1>1, <2>2, <2>3, <2>4, <2>5, <2>6, CutStep
  <1>4. CASE DispatcherDeleted
    <2>1. PICK n \in D : /\ connector' = WithState(connector, n, "closed")
                         /\ device' = IF device.conn = n THEN Unlinked ELSE device
      BY <1>4 DEF DispatcherDeleted, WithState
    <2>2. UNCHANGED <<bounds, client, plugin, readers, call, ids, late>>
      BY <1>4 DEF DispatcherDeleted, Ghosts
    <2>3. \A S : Many(connector.events, S) <= Many(connector.events, S)
      BY <1>2
    <2> QED BY <1>1, <2>1, <2>2, <2>3, CutStep
  <1>5. CASE Disconnect
    <2>1. device.conn \in D
      BY <1>1, <1>5 DEF Disconnect, DeviceType
    <2>2. PICK state \in {"dead", "closed"} : connector' = WithState(connector, device.conn, state)
      BY <1>1, <1>5, <2>1, DiesFacts DEF Disconnect
    <2>3. /\ UNCHANGED <<client, plugin, readers, call, ids, late>>
          /\ device' = IF device.conn = device.conn THEN Unlinked ELSE device
      BY <1>5 DEF Disconnect, Ghosts
    <2>4. bounds' \in Limits
      BY <1>1, <1>5 DEF Disconnect, Uses, May, Limits
    <2>5. \A S : Many(connector.events, S) <= Many(connector.events, S)
      BY <1>2
    <2> QED BY <1>1, <2>1, <2>2, <2>3, <2>4, <2>5, CutStep
  <1> QED BY <1>3, <1>4, <1>5

LEMMA DisconnectedStep ==
    ASSUME IInv, Disconnected
    PROVE  IInv'
  <1> DEFINE D == Dispatchers
  <1>1. /\ TypeOK /\ bounds \in Limits /\ connector \in ConnectorType(D) /\ device \in DeviceType(D)
        /\ client \in ClientType(D) /\ plugin \in PluginType(D) /\ call \in CallType(D)
    BY DEF IInv, TypeOK
  <1>2. PICK n \in D :
            /\ connector.channels[n].state = "dead"
            /\ connector' = WithState(connector, n, "closed")
            /\ client' = IF n \in client.hears THEN PostClient(client, "closed", n) ELSE client
            /\ plugin' = IF n \in plugin.hears THEN PostPlugin(plugin, "closed", n, "none") ELSE plugin
            /\ call' = IF call.n = n /\ call.answer = "none"
                       THEN [call EXCEPT !.answer = "closed", !.woken = call.blocked] ELSE call
    BY DEF Disconnected, WithState
  <1>3. UNCHANGED <<bounds, readers, device, ids, late>>
    BY DEF Disconnected, Ghosts
  <1>4. /\ connector' \in ConnectorType(D) /\ connector'.events = connector.events
        /\ connector'.requests = connector.requests
        /\ Len(connector'.channels) = Len(connector.channels)
        /\ \A j \in D : connector'.channels[j].state =
                            IF j = n THEN "closed" ELSE connector.channels[j].state
    <2>1. n \in 1..Len(connector.channels) /\ D = 1..Len(connector.channels)
      BY DEF Dispatchers
    <2>2. LET l == WithState(connector, n, "closed") IN
          /\ l \in ConnectorType(D) /\ l.events = connector.events /\ l.requests = connector.requests
          /\ Len(l.channels) = Len(connector.channels)
          /\ \A j \in 1..Len(connector.channels) :
                 l.channels[j].state = IF j = n THEN "closed" ELSE connector.channels[j].state
      BY <1>1, <2>1, ChannelChanges
    <2> QED BY <1>2, <2>1, <2>2
  <1>5. Dispatchers' = Dispatchers /\ Numbers' = Numbers
    BY <1>4 DEF Dispatchers, Numbers
  <1>6. /\ client' \in ClientType(D) /\ client'.pending = client.pending
        /\ Count(client'.events, Answers) = Count(client.events, Answers)
    <2> HIDE DEF D
    <2>1. CASE n \in client.hears
      <3>1. [type |-> "closed", n |-> n] \in ClientEvents(D) /\ "closed" \notin Answers
        BY DEF ClientEvents, Answers
      <3>2. /\ client' \in ClientType(D) /\ client'.pending = client.pending
            /\ Count(client'.events, Answers) = Count(client.events, Answers) + 0
        BY <1>1, <1>2, <2>1, <3>1, ClientPosts
      <3>3. Count(client.events, Answers) \in Nat
        BY <1>1, CountsAreNumbers
      <3> QED BY <3>2, <3>3
    <2>2. CASE n \notin client.hears
      BY <1>1, <1>2, <2>2
    <2> QED BY <2>1, <2>2
  <1>7. /\ plugin' \in PluginType(D)
        /\ plugin'.session = plugin.session /\ plugin'.key = plugin.key
    <2> HIDE DEF D
    <2>1. CASE n \in plugin.hears
      <3>1. [type |-> "closed", n |-> n, arg |-> "none"] \in PluginEvents(D)
        BY DEF PluginEvents
      <3> QED BY <1>1, <1>2, <2>1, <3>1, PluginPosts
    <2>2. CASE n \notin plugin.hears
      BY <1>1, <1>2, <2>2
    <2> QED BY <2>1, <2>2
  <1>8. /\ call' \in CallType(D) /\ call'.type = call.type /\ call'.id = call.id
        /\ call'.n = call.n /\ call'.key = call.key /\ call'.got = call.got
        /\ call'.answer = "message" <=> call.answer = "message"
        /\ call'.answer # call.answer => call.n = n /\ call'.answer = "closed"
    <2> HIDE DEF D
    <2>1. CASE call.n = n /\ call.answer = "none"
      <3>1. call' = [call EXCEPT !.answer = "closed", !.woken = call.blocked]
        BY <1>2, <2>1
      <3>2. call.blocked \in BOOLEAN
        BY <1>1 DEF CallType
      <3> QED BY <1>1, <2>1, <3>1, <3>2 DEF CallType
    <2>2. CASE ~(call.n = n /\ call.answer = "none")
      BY <1>1, <1>2, <2>2
    <2> QED BY <2>1, <2>2
  <1>9. device.conn # n /\ \A j \in D : connector'.channels[j].state = "open" <=> device.conn = j
    <2>1. \A j \in D : connector.channels[j].state = "open" <=> device.conn = j
      BY DEF IInv, LinkIsOpen
    <2> HIDE DEF D
    <2> QED BY <1>2, <1>4, <2>1
  <1>10. TypeOK'
    BY <1>1, <1>3, <1>4, <1>5, <1>6, <1>7, <1>8 DEF TypeOK
  <1>11. ReadersAreThere'
    BY <1>3, <1>7, <1>8 DEF IInv, ReadersAreThere, Idle
  <1>12. LinkIsOpen'
    BY <1>3, <1>5, <1>9 DEF IInv, LinkIsOpen
  <1>13. PendingHasAnswer'
    BY <1>4, <1>6 DEF IInv, PendingHasAnswer, Answers, Attempts
  <1>14. OneInFlight' /\ FlightIsOwn' /\ AnswerIsOwn'
    <2>1. Asking' = Asking
      BY <1>3, <1>8, <1>9 DEF Asking, Idle
    <2>2. /\ Flight(connector', device') = Flight(connector, device)
          /\ ForeignFlight(connector', device', call'.id) = ForeignFlight(connector, device, call.id)
      BY <1>3, <1>4, <1>8 DEF Flight, ForeignFlight
    <2> QED BY <1>3, <1>8, <2>1, <2>2 DEF IInv, OneInFlight, FlightIsOwn, AnswerIsOwn
  <1> QED BY <1>10, <1>11, <1>12, <1>13, <1>14 DEF IInv

(* Messages move between the connector and the device. *)
LEMMA TransferStep ==
    ASSUME IInv, UNCHANGED <<client, plugin, readers, call, ids, late>>, bounds' \in Limits,
           connector' \in ConnectorType(Dispatchers), connector'.channels = connector.channels,
           connector'.requests = connector.requests,
           Count(connector'.events, Attempts) = Count(connector.events, Attempts),
           device' \in DeviceType(Dispatchers), device'.conn = device.conn,
           device.conn # 0 \/ device' = device,
           Flight(connector', device') <= Flight(connector, device),
           ForeignFlight(connector', device', call.id) <= ForeignFlight(connector, device, call.id)
    PROVE  IInv'
  <1>1. Dispatchers' = Dispatchers /\ Numbers' = Numbers
    BY DEF Dispatchers, Numbers
  <1>2. TypeOK'
    BY <1>1 DEF IInv, TypeOK
  <1>3. ReadersAreThere'
    BY DEF IInv, ReadersAreThere, Idle
  <1>4. LinkIsOpen'
    BY <1>1 DEF IInv, LinkIsOpen
  <1>5. PendingHasAnswer'
    BY DEF IInv, PendingHasAnswer, Attempts
  <1>6. OneInFlight' /\ FlightIsOwn' /\ AnswerIsOwn'
    BY FlightKept
  <1> QED BY <1>2, <1>3, <1>4, <1>5, <1>6 DEF IInv

LEMMA MessageFacts ==
    ASSUME NEW type \in Requests \cup {"none", "context", "getStatus", "status"}, NEW id \in Nat,
           NEW handle \in Nat, NEW ok \in BOOLEAN
    PROVE  /\ Message(type, id, handle, ok) \in Messages
           /\ Message(type, id, handle, ok).type = type /\ Message(type, id, handle, ok).id = id
  BY DEF Message, Messages

(* The connector gives the next request to the channel.                    *)
LEMMA DispatcherSendsStep ==
    ASSUME IInv, DispatcherSends
    PROVE  IInv'
  <1> DEFINE D == Dispatchers
  <1>1. /\ TypeOK /\ connector \in ConnectorType(D) /\ device \in DeviceType(D)
    BY DEF IInv, TypeOK
  <1>2. connector.events # <<>> /\ ConnectorArg.type \in {"context", "getStatus", "send"}
    BY DEF DispatcherSends, ConnectorHandles, ConnectorArg
  <1>3. /\ ConnectorRest \in ConnectorType(D) /\ ConnectorArg \in ConnectorEvents(D)
        /\ ConnectorRest.channels = connector.channels /\ ConnectorRest.requests = connector.requests
        /\ Count(ConnectorRest.events, Attempts) \in Nat
        /\ Count(connector.events, Attempts) =
               Count(ConnectorRest.events, Attempts) + (IF ConnectorArg.type \in Attempts THEN 1 ELSE 0)
        /\ \A S : /\ Many(ConnectorRest.events, S) \in Nat
                  /\ Many(connector.events, S) =
                         Many(ConnectorRest.events, S) + (IF ConnectorArg \in S THEN 1 ELSE 0)
    BY <1>1, <1>2, ConnectorTakes
  <1>4. ConnectorArg.n \in D /\ ConnectorArg.msg \in Messages /\ ConnectorArg.type \notin Attempts
    BY <1>2, <1>3 DEF ConnectorEvents, Attempts
  <1> DEFINE n == ConnectorArg.n
             m == IF ConnectorArg.type = "send" THEN ConnectorArg.msg
                  ELSE Message(ConnectorArg.type, 0, 0, TRUE)
  <1>5. m \in Messages /\ (ConnectorArg.type # "send" => m \notin OnTheWay)
    <2>1. ASSUME ConnectorArg.type # "send"
          PROVE  /\ Message(ConnectorArg.type, 0, 0, TRUE) \in Messages
                 /\ Message(ConnectorArg.type, 0, 0, TRUE).type \notin Requests
      BY <1>2, <2>1, MessageFacts DEF Requests
    <2> QED BY <1>4, <2>1 DEF OnTheWay
  <1>6. Sends(n, m)
    BY DEF DispatcherSends, ConnectorHandles, ConnectorArg
  <1>7. connector' = ConnectorRest /\ UNCHANGED <<bounds, client, plugin, readers, call, ids, late>>
    BY DEF DispatcherSends, Ghosts
  <1> HIDE DEF m
  <1>8. /\ connector' \in ConnectorType(D) /\ connector'.channels = connector.channels
        /\ connector'.requests = connector.requests /\ bounds' \in Limits
        /\ Count(connector'.events, Attempts) = Count(connector.events, Attempts)
    BY <1>1, <1>3, <1>4, <1>7 DEF TypeOK
  <1>9. CASE connector.channels[n].state = "open"
    <2>1. device' = [device EXCEPT !.toDevice = Append(@, m)] /\ device.conn = n /\ device.conn # 0
      BY <1>1, <1>4, <1>6, <1>9 DEF Sends, IInv, LinkIsOpen, Dispatchers
    <2>2. /\ device.toDevice \in Seq(Messages) /\ Append(device.toDevice, m) \in Seq(Messages)
          /\ device.jobs \in Seq(Messages) /\ device.toClient \in Seq(Messages)
      BY <1>1, <1>5 DEF DeviceType
    <2>3. /\ device' \in DeviceType(D) /\ device'.conn = device.conn
          /\ device'.toDevice = Append(device.toDevice, m)
          /\ device'.jobs = device.jobs /\ device'.toClient = device.toClient
      <3> HIDE DEF D
      <3> QED BY <1>1, <2>1, <2>2 DEF DeviceType
    <2>4. /\ m \in OnTheWay => ConnectorArg \in LiveSends(device.conn)
          /\ m \in ForeignTo(call.id) => ConnectorArg \in ForeignSends(device.conn, call.id)
      <3>1. CASE ConnectorArg.type = "send"
        <4>1. m = ConnectorArg.msg
          BY <3>1 DEF m
        <4>2. ConnectorArg \in LiveSends(device.conn)
          BY <1>3, <1>4, <2>1, <3>1 DEF ConnectorEvents, LiveSends
        <4> QED BY <4>1, <4>2 DEF ForeignTo, ForeignSends
      <3>2. CASE ConnectorArg.type # "send"
        BY <1>5, <3>2 DEF ForeignTo
      <3> QED BY <3>1, <3>2
    <2>5. \A S : /\ Many(Append(device.toDevice, m), S) = Many(device.toDevice, S) + (IF m \in S THEN 1 ELSE 0)
                 /\ Many(device.toDevice, S) \in Nat
                 /\ Many(device.jobs, S) \in Nat /\ Many(device.toClient, S) \in Nat
      BY <1>5, <2>2, ManyInAppend, ManyIsFinite
    <2>6. Flight(connector', device') <= Flight(connector, device)
      <3> DEFINE S == LiveSends(device.conn)
      <3>1. /\ Many(connector.events, S) = Many(ConnectorRest.events, S) + (IF ConnectorArg \in S THEN 1 ELSE 0)
            /\ Many(ConnectorRest.events, S) \in Nat
        BY <1>3
      <3>2. /\ Many(Append(device.toDevice, m), OnTheWay) =
                   Many(device.toDevice, OnTheWay) + (IF m \in OnTheWay THEN 1 ELSE 0)
            /\ Many(device.toDevice, OnTheWay) \in Nat
            /\ Many(device.jobs, OnTheWay) \in Nat /\ Many(device.toClient, OnTheWay) \in Nat
        BY <2>5
      <3>3. Flight(connector', device') = Many(ConnectorRest.events, S) + Many(Append(device.toDevice, m), OnTheWay)
                + Many(device.jobs, OnTheWay) + Many(device.toClient, OnTheWay)
        BY <1>7, <2>3 DEF Flight
      <3>4. Flight(connector, device) = Many(connector.events, S) + Many(device.toDevice, OnTheWay)
                + Many(device.jobs, OnTheWay) + Many(device.toClient, OnTheWay)
        BY DEF Flight
      <3>5. m \in OnTheWay => ConnectorArg \in S
        BY <2>4
      <3> HIDE DEF S
      <3> QED BY ONLY <3>1, <3>2, <3>3, <3>4, <3>5
    <2>7. ForeignFlight(connector', device', call.id) <= ForeignFlight(connector, device, call.id)
      <3> DEFINE S == ForeignSends(device.conn, call.id)
                 R == ForeignTo(call.id)
      <3>1. /\ Many(connector.events, S) = Many(ConnectorRest.events, S) + (IF ConnectorArg \in S THEN 1 ELSE 0)
            /\ Many(ConnectorRest.events, S) \in Nat
        BY <1>3
      <3>2. /\ Many(Append(device.toDevice, m), R) = Many(device.toDevice, R) + (IF m \in R THEN 1 ELSE 0)
            /\ Many(device.toDevice, R) \in Nat
            /\ Many(device.jobs, R) \in Nat /\ Many(device.toClient, R) \in Nat
        BY <2>5
      <3>3. ForeignFlight(connector', device', call.id) =
                Many(ConnectorRest.events, S) + Many(Append(device.toDevice, m), R)
                + Many(device.jobs, R) + Many(device.toClient, R)
        BY <1>7, <2>3 DEF ForeignFlight
      <3>4. ForeignFlight(connector, device, call.id) = Many(connector.events, S) + Many(device.toDevice, R)
                + Many(device.jobs, R) + Many(device.toClient, R)
        BY DEF ForeignFlight
      <3>5. m \in R => ConnectorArg \in S
        BY <2>4
      <3> HIDE DEF S, R
      <3> QED BY ONLY <3>1, <3>2, <3>3, <3>4, <3>5
    <2> QED BY <1>7, <1>8, <2>1, <2>3, <2>6, <2>7, TransferStep
  <1>10. CASE connector.channels[n].state # "open"
    <2>1. device' = device
      BY <1>6, <1>10 DEF Sends
    <2>2. \A S : Many(ConnectorRest.events, S) <= Many(connector.events, S)
      BY <1>3
    <2>3. \A S : /\ Many(ConnectorRest.events, S) \in Nat /\ Many(connector.events, S) \in Nat
                 /\ Many(device.toDevice, S) \in Nat /\ Many(device.jobs, S) \in Nat
                 /\ Many(device.toClient, S) \in Nat
      <3>1. /\ connector.events \in Seq(ConnectorEvents(D)) /\ device.toDevice \in Seq(Messages)
            /\ device.jobs \in Seq(Messages) /\ device.toClient \in Seq(Messages)
        BY <1>1 DEF ConnectorType, DeviceType
      <3>2. \A S : Many(connector.events, S) \in Nat
        BY <3>1, ManyIsFinite
      <3>3. \A S : /\ Many(device.toDevice, S) \in Nat /\ Many(device.jobs, S) \in Nat
                   /\ Many(device.toClient, S) \in Nat
        BY <3>1, ManyIsFinite
      <3> QED BY <1>3, <3>2, <3>3
    <2>4. /\ Many(ConnectorRest.events, LiveSends(device.conn)) <= Many(connector.events, LiveSends(device.conn))
          /\ Many(ConnectorRest.events, ForeignSends(device.conn, call.id)) <=
                 Many(connector.events, ForeignSends(device.conn, call.id))
      BY <2>2
    <2>5. Flight(connector', device') <= Flight(connector, device)
      BY <1>7, <2>1, <2>3, <2>4 DEF Flight
    <2>6. ForeignFlight(connector', device', call.id) <= ForeignFlight(connector, device, call.id)
      BY <1>7, <2>1, <2>3, <2>4 DEF ForeignFlight
    <2> QED BY <1>1, <1>7, <1>8, <2>1, <2>5, <2>6, TransferStep
  <1> QED BY <1>9, <1>10

-----------------------------------------------------------------------------
(* The device: how many messages of a set are in its queues.               *)
InDevice(d, S) == Many(d.toDevice, S) + Many(d.jobs, S) + Many(d.toClient, S)

LEMMA DeviceCounts ==
    ASSUME NEW D, NEW d \in DeviceType(D), NEW S
    PROVE  /\ d.toDevice \in Seq(Messages) /\ d.jobs \in Seq(Messages) /\ d.toClient \in Seq(Messages)
           /\ Many(d.toDevice, S) \in Nat /\ Many(d.jobs, S) \in Nat /\ Many(d.toClient, S) \in Nat
  <1>1. d.toDevice \in Seq(Messages) /\ d.jobs \in Seq(Messages) /\ d.toClient \in Seq(Messages)
    BY DEF DeviceType
  <1> QED BY <1>1, ManyIsFinite

(* The head of a queue is taken, what is made of it is put in another.     *)
LEMMA TakenAndPut ==
    ASSUME NEW p \in Seq(Messages), p # <<>>, NEW q \in Seq(Messages), NEW w \in Messages, NEW S,
           w \in S => Head(p) \in S
    PROVE  /\ Many(Tail(p), S) \in Nat /\ Many(Append(q, w), S) \in Nat
           /\ Many(Tail(p), S) + Many(Append(q, w), S) <= Many(p, S) + Many(q, S)
  <1>1. Tail(p) \in Seq(Messages) /\ Append(q, w) \in Seq(Messages)
    OBVIOUS
  <1>2. /\ Many(Tail(p), S) \in Nat /\ Many(Append(q, w), S) \in Nat
        /\ Many(p, S) \in Nat /\ Many(q, S) \in Nat
    BY <1>1, ManyIsFinite
  <1>3. Many(p, S) = Many(Tail(p), S) + (IF Head(p) \in S THEN 1 ELSE 0)
    BY ManyInTail
  <1>4. Many(Append(q, w), S) = Many(q, S) + (IF w \in S THEN 1 ELSE 0)
    BY ManyInAppend
  <1>5. w \in S => Head(p) \in S
    OBVIOUS
  <1> QED BY ONLY <1>2, <1>3, <1>4, <1>5

(* The device takes a message from one of its queues; what it makes of it  *)
(* is a request or an answer only if the message was, and has its number.  *)
Makes(m, w) == w \in OnTheWay => m \in OnTheWay /\ w.id = m.id
Receives(d, e, w) ==
    /\ d.toDevice # <<>> /\ Makes(Head(d.toDevice), w) /\ e.toDevice = Tail(d.toDevice)
    /\ \/ e.jobs = Append(d.jobs, w) /\ e.toClient = d.toClient
       \/ e.jobs = d.jobs /\ e.toClient = Append(d.toClient, w)
Works(d, e, w) ==
    /\ d.jobs # <<>> /\ Makes(Head(d.jobs), w) /\ e.jobs = Tail(d.jobs)
    /\ e.toDevice = d.toDevice /\ e.toClient = Append(d.toClient, w)

LEMMA MoveCounts ==
    ASSUME NEW D, NEW d \in DeviceType(D), NEW e \in DeviceType(D), NEW w \in Messages,
           Receives(d, e, w) \/ Works(d, e, w), NEW S,
           \A m \in Messages : Makes(m, w) => (w \in S => m \in S)
    PROVE  InDevice(e, S) \in Nat /\ InDevice(e, S) <= InDevice(d, S)
  <1>1. /\ d.toDevice \in Seq(Messages) /\ d.jobs \in Seq(Messages) /\ d.toClient \in Seq(Messages)
        /\ Many(d.toDevice, S) \in Nat /\ Many(d.jobs, S) \in Nat /\ Many(d.toClient, S) \in Nat
        /\ Many(e.toDevice, S) \in Nat /\ Many(e.jobs, S) \in Nat /\ Many(e.toClient, S) \in Nat
    BY DeviceCounts
  <1>2. CASE Receives(d, e, w)
    <2>1. /\ d.toDevice # <<>> /\ e.toDevice = Tail(d.toDevice)
          /\ w \in S => Head(d.toDevice) \in S
      <3>1. Head(d.toDevice) \in Messages
        BY <1>1, <1>2 DEF Receives
      <3> QED BY <1>2, <3>1 DEF Receives
    <2>2. CASE e.jobs = Append(d.jobs, w) /\ e.toClient = d.toClient
      <3>1. Many(e.toDevice, S) + Many(e.jobs, S) <= Many(d.toDevice, S) + Many(d.jobs, S)
        BY <1>1, <2>1, <2>2, TakenAndPut
      <3> QED BY <1>1, <2>2, <3>1 DEF InDevice
    <2>3. CASE e.jobs = d.jobs /\ e.toClient = Append(d.toClient, w)
      <3>1. Many(e.toDevice, S) + Many(e.toClient, S) <= Many(d.toDevice, S) + Many(d.toClient, S)
        BY <1>1, <2>1, <2>3, TakenAndPut
      <3> QED BY <1>1, <2>3, <3>1 DEF InDevice
    <2> QED BY <1>2, <2>2, <2>3 DEF Receives
  <1>3. CASE Works(d, e, w)
    <2>1. /\ d.jobs # <<>> /\ e.jobs = Tail(d.jobs)
          /\ e.toDevice = d.toDevice /\ e.toClient = Append(d.toClient, w)
          /\ w \in S => Head(d.jobs) \in S
      <3>1. Head(d.jobs) \in Messages
        BY <1>1, <1>3 DEF Works
      <3> QED BY <1>3, <3>1 DEF Works
    <2>2. Many(e.jobs, S) + Many(e.toClient, S) <= Many(d.jobs, S) + Many(d.toClient, S)
      BY <1>1, <2>1, TakenAndPut
    <2> QED BY <1>1, <2>1, <2>2 DEF InDevice
  <1> QED BY <1>2, <1>3

(* The device does not make more of what it has. *)
LEMMA DeviceStep ==
    ASSUME IInv, UNCHANGED <<client, plugin, readers, call, connector, ids, late>>,
           bounds' \in Limits, device' \in DeviceType(Dispatchers), device'.conn = device.conn,
           device.conn # 0, NEW T, T = ForeignTo(call.id),
           InDevice(device', OnTheWay) <= InDevice(device, OnTheWay),
           InDevice(device', T) <= InDevice(device, T)
    PROVE  IInv'
  <1> DEFINE S == LiveSends(device.conn)
             R == ForeignSends(device.conn, call.id)
  <1>1. TypeOK /\ connector \in ConnectorType(Dispatchers) /\ device \in DeviceType(Dispatchers)
    BY DEF IInv, TypeOK
  <1>2. Many(connector.events, S) \in Nat /\ Many(connector.events, R) \in Nat
    <2>1. connector.events \in Seq(ConnectorEvents(Dispatchers))
      BY <1>1 DEF ConnectorType
    <2> QED BY <2>1, ManyIsFinite
  <1>3. /\ Many(device.toDevice, OnTheWay) \in Nat /\ Many(device.jobs, OnTheWay) \in Nat
        /\ Many(device.toClient, OnTheWay) \in Nat
        /\ Many(device'.toDevice, OnTheWay) \in Nat /\ Many(device'.jobs, OnTheWay) \in Nat
        /\ Many(device'.toClient, OnTheWay) \in Nat
        /\ Many(device.toDevice, T) \in Nat /\ Many(device.jobs, T) \in Nat
        /\ Many(device.toClient, T) \in Nat
        /\ Many(device'.toDevice, T) \in Nat /\ Many(device'.jobs, T) \in Nat
        /\ Many(device'.toClient, T) \in Nat
    BY <1>1, DeviceCounts
  <1>4. Flight(connector', device') <= Flight(connector, device)
    <2>1. /\ Flight(connector', device') = Many(connector.events, S) + Many(device'.toDevice, OnTheWay)
                 + Many(device'.jobs, OnTheWay) + Many(device'.toClient, OnTheWay)
          /\ Flight(connector, device) = Many(connector.events, S) + Many(device.toDevice, OnTheWay)
                 + Many(device.jobs, OnTheWay) + Many(device.toClient, OnTheWay)
      BY DEF Flight
    <2>2. Many(device'.toDevice, OnTheWay) + Many(device'.jobs, OnTheWay) + Many(device'.toClient, OnTheWay)
              <= Many(device.toDevice, OnTheWay) + Many(device.jobs, OnTheWay) + Many(device.toClient, OnTheWay)
      BY DEF InDevice
    <2> HIDE DEF S
    <2> QED BY ONLY <1>2, <1>3, <2>1, <2>2
  <1>5. ForeignFlight(connector', device', call.id) <= ForeignFlight(connector, device, call.id)
    <2>1. /\ ForeignFlight(connector', device', call.id) =
                 Many(connector.events, R) + Many(device'.toDevice, T)
                 + Many(device'.jobs, T) + Many(device'.toClient, T)
          /\ ForeignFlight(connector, device, call.id) =
                 Many(connector.events, R) + Many(device.toDevice, T)
                 + Many(device.jobs, T) + Many(device.toClient, T)
      BY DEF ForeignFlight
    <2>2. Many(device'.toDevice, T) + Many(device'.jobs, T) + Many(device'.toClient, T)
              <= Many(device.toDevice, T) + Many(device.jobs, T) + Many(device.toClient, T)
      BY DEF InDevice
    <2> HIDE DEF R
    <2> QED BY ONLY <1>2, <1>3, <2>1, <2>2
  <1> QED BY <1>1, <1>4, <1>5, TransferStep

LEMMA DeviceMoves ==
    ASSUME IInv, UNCHANGED <<bounds, client, plugin, readers, call, connector, ids, late>>,
           NEW w \in Messages, device' \in DeviceType(Dispatchers), device'.conn = device.conn,
           Receives(device, device', w) \/ Works(device, device', w)
    PROVE  IInv'
  <1> DEFINE T == ForeignTo(call.id)
  <1>1. device \in DeviceType(Dispatchers) /\ bounds' \in Limits
    BY DEF IInv, TypeOK
  <1>2. device.conn # 0
    BY DEF IInv, LinkIsOpen, Receives, Works
  <1>3. /\ \A m \in Messages : Makes(m, w) => (w \in OnTheWay => m \in OnTheWay)
        /\ \A m \in Messages : Makes(m, w) => (w \in T => m \in T)
    BY DEF Makes, ForeignTo
  <1> HIDE DEF T
  <1>4. InDevice(device', OnTheWay) <= InDevice(device, OnTheWay)
    BY <1>1, <1>3, MoveCounts
  <1>5. InDevice(device', T) <= InDevice(device, T)
    BY <1>1, <1>3, MoveCounts
  <1> QED BY <1>1, <1>2, <1>4, <1>5, DeviceStep DEF T

LEMMA Replied ==
    ASSUME NEW D, NEW d \in DeviceType(D), NEW w \in Messages
    PROVE  /\ Reply(d, w) \in DeviceType(D) /\ Reply(d, w).conn = d.conn
           /\ Reply(d, w).toDevice = d.toDevice /\ Reply(d, w).jobs = d.jobs
           /\ Reply(d, w).toClient = Append(d.toClient, w)
  <1> DEFINE q == Append(d.toClient, w)
  <1>1. q \in Seq(Messages)
    BY DEF DeviceType
  <1>2. Reply(d, w) = [d EXCEPT !.toClient = q]
    BY DEF Reply
  <1> HIDE DEF q
  <1>3. /\ Reply(d, w) \in DeviceType(D) /\ Reply(d, w).conn = d.conn
        /\ Reply(d, w).toDevice = d.toDevice /\ Reply(d, w).jobs = d.jobs
        /\ Reply(d, w).toClient = q
    BY <1>1, <1>2 DEF DeviceType
  <1> QED BY <1>3 DEF q

(* ServerMessageHandlerImpl::onMessage: answered at once, or a command.    *)
LEMMA DeviceReceivesStep ==
    ASSUME IInv, DeviceReceives
    PROVE  IInv'
  <1> DEFINE D   == Dispatchers
             msg == Head(device.toDevice)
             t   == Tail(device.toDevice)
             d   == [device EXCEPT !.toDevice = t]
             j   == Append(device.jobs, msg)
  <1>1. /\ device \in DeviceType(D) /\ device.toDevice \in Seq(Messages) /\ device.jobs \in Seq(Messages)
        /\ device.card \in BOOLEAN
    BY DEF IInv, TypeOK, DeviceType
  <1>2. device.toDevice # <<>> /\ UNCHANGED <<bounds, client, plugin, readers, call, connector, ids, late>>
    BY DEF DeviceReceives, Ghosts
  <1>3. msg \in Messages /\ t \in Seq(Messages) /\ j \in Seq(Messages)
    BY <1>1, <1>2
  <1>4. msg.id \in Nat /\ msg.type \in Requests \cup {"none", "context", "getStatus", "status"}
    BY <1>3 DEF Messages
  <1>5. \/ \E w \in Messages : Makes(msg, w) /\ device' = Reply(d, w)
        \/ device' = [d EXCEPT !.jobs = j]
    <2> DEFINE context == Message("context", 0, 0, TRUE)
               status  == Message("status", 0, 0, device.card)
               refused(type) == Message(type, msg.id, 0, FALSE)
    <2>1. /\ context \in Messages /\ context \notin OnTheWay
          /\ status \in Messages /\ status \notin OnTheWay
      <3>1. {"context", "status"} \cap Requests = {} /\ 0 \in Nat /\ TRUE \in BOOLEAN
        BY DEF Requests
      <3>2. context \in Messages /\ context.type = "context"
        BY MessageFacts
      <3>3. status \in Messages /\ status.type = "status"
        BY <1>1 DEF Message, Messages
      <3> HIDE DEF context, status
      <3> QED BY <3>1, <3>2, <3>3 DEF OnTheWay
    <2>2. \A type \in Requests : refused(type) \in Messages /\ refused(type).id = msg.id
      <3> TAKE type \in Requests
      <3> QED BY <1>4 DEF Message, Messages
    <2>3. \/ device' = Reply(d, context) \/ device' = Reply(d, status)
          \/ \E type \in Requests : msg.type \in Requests /\ device' = Reply(d, refused(type))
          \/ device' = [d EXCEPT !.jobs = j]
      <3>1. DeviceReceives
        OBVIOUS
      <3> HIDE DEF d, j, t
      <3> USE DEF t, j, d
      <3> QED BY <3>1 DEF DeviceReceives, Requests
    <2>4. msg.type \in Requests => msg \in OnTheWay
      BY <1>3 DEF OnTheWay
    <2> HIDE DEF d, context, status, refused
    <2> QED BY <2>1, <2>2, <2>3, <2>4 DEF Makes
  <1>6. d \in DeviceType(D) /\ d.conn = device.conn /\ d.toDevice = t /\ d.jobs = device.jobs
        /\ d.toClient = device.toClient
    <2> HIDE DEF t, D
    <2> QED BY <1>1, <1>3 DEF DeviceType
  <1> HIDE DEF d
  <1>7. CASE \E w \in Messages : Makes(msg, w) /\ device' = Reply(d, w)
    <2>1. PICK w \in Messages : Makes(msg, w) /\ device' = Reply(d, w)
      BY <1>7
    <2>2. /\ device' \in DeviceType(D) /\ device'.conn = device.conn /\ device'.toDevice = t
          /\ device'.jobs = device.jobs /\ device'.toClient = Append(device.toClient, w)
      BY <1>6, <2>1, Replied
    <2>3. Receives(device, device', w)
      BY <1>2, <2>1, <2>2 DEF Receives
    <2> QED BY <1>2, <2>2, <2>3, DeviceMoves
  <1>8. CASE device' = [d EXCEPT !.jobs = j]
    <2>1. /\ device' \in DeviceType(D) /\ device'.conn = device.conn /\ device'.toDevice = t
          /\ device'.jobs = j /\ device'.toClient = device.toClient
      <3> HIDE DEF t, j, D
      <3> QED BY <1>3, <1>6, <1>8 DEF DeviceType
    <2>2. Receives(device, device', msg)
      BY <1>2, <2>1 DEF Receives, Makes
    <2> QED BY <1>2, <1>3, <2>1, <2>2, DeviceMoves
  <1> QED BY <1>5, <1>7, <1>8

(* The commands of the card. *)
LEMMA DeviceAnswersStep ==
    ASSUME IInv, DeviceAnswers
    PROVE  IInv'
  <1> DEFINE D   == Dispatchers
             msg == Head(device.jobs)
             t   == Tail(device.jobs)
             d   == [device EXCEPT !.jobs = t]
  <1>1. /\ device \in DeviceType(D) /\ device.jobs \in Seq(Messages)
        /\ device.card \in BOOLEAN /\ device.handle \in Nat
    BY DEF IInv, TypeOK, DeviceType
  <1>2. device.jobs # <<>> /\ UNCHANGED <<bounds, client, plugin, readers, call, connector, ids, late>>
    BY DEF DeviceAnswers, Ghosts
  <1>3. msg \in Messages /\ t \in Seq(Messages)
    BY <1>1, <1>2
  <1>4. /\ msg.id \in Nat /\ msg.handle \in Nat
        /\ msg.type \in Requests \cup {"none", "context", "getStatus", "status"}
    BY <1>3 DEF Messages
  <1>5. d \in DeviceType(D) /\ d.conn = device.conn /\ d.toDevice = device.toDevice /\ d.jobs = t
        /\ d.toClient = device.toClient /\ d.handle = device.handle
    <2> HIDE DEF t, D
    <2> QED BY <1>1, <1>3 DEF DeviceType
  <1>6. ASSUME NEW h \in Nat
        PROVE  LET e == [d EXCEPT !.handle = h] IN
               /\ e \in DeviceType(D) /\ e.conn = device.conn /\ e.toDevice = device.toDevice
               /\ e.jobs = t /\ e.toClient = device.toClient
    <2> HIDE DEF t, D, d
    <2> QED BY <1>5 DEF DeviceType
  <1>7. \E w \in Messages, h \in Nat :
            Makes(msg, w) /\ (device' = Reply(d, w) \/ device' = Reply([d EXCEPT !.handle = h], w))
    <2> DEFINE done    == Message("connect", msg.id, msg.id, TRUE)
               failed  == Message("connect", msg.id, 0, FALSE)
               dropped == Message("disconnect", msg.id, 0, TRUE)
               other   == Message(msg.type, msg.id, 0, device.card)
               h       == IF d.handle = msg.handle THEN 0 ELSE d.handle
    <2>1. /\ done \in Messages /\ failed \in Messages /\ dropped \in Messages /\ other \in Messages
          /\ done.id = msg.id /\ failed.id = msg.id /\ dropped.id = msg.id /\ other.id = msg.id
          /\ other.type = msg.type
      <3>1. "connect" \in Requests /\ "disconnect" \in Requests
        BY DEF Requests
      <3>2. done \in Messages /\ done.id = msg.id
        BY <1>4, <3>1 DEF Message, Messages
      <3>3. failed \in Messages /\ failed.id = msg.id
        BY <1>4, <3>1 DEF Message, Messages
      <3>4. dropped \in Messages /\ dropped.id = msg.id
        BY <1>4, <3>1 DEF Message, Messages
      <3>5. other \in Messages /\ other.id = msg.id /\ other.type = msg.type
        BY <1>1, <1>4 DEF Message, Messages
      <3> QED BY <3>2, <3>3, <3>4, <3>5
    <2>2. h \in Nat
      BY <1>1, <1>5
    <2>3. \/ msg.type = "connect" /\ device' = Reply([d EXCEPT !.handle = msg.id], done)
          \/ msg.type = "connect" /\ device' = Reply(d, failed)
          \/ msg.type = "disconnect" /\ device' = Reply([d EXCEPT !.handle = h], dropped)
          \/ device' = Reply(d, other)
      BY DEF DeviceAnswers
    <2>4. msg.type \in Requests => msg \in OnTheWay
      BY <1>3 DEF OnTheWay
    <2>5. other \in OnTheWay => msg.type \in Requests
      BY <2>1 DEF OnTheWay
    <2> HIDE DEF done, failed, dropped, other, h, d
    <2> QED BY <1>4, <2>1, <2>2, <2>3, <2>4, <2>5 DEF Makes, Requests
  <1>8. PICK w \in Messages, h \in Nat :
            Makes(msg, w) /\ (device' = Reply(d, w) \/ device' = Reply([d EXCEPT !.handle = h], w))
    BY <1>7
  <1>9. PICK e \in {d, [d EXCEPT !.handle = h]} : device' = Reply(e, w)
    BY <1>8
  <1>10. e \in DeviceType(D) /\ e.conn = device.conn /\ e.toDevice = device.toDevice
         /\ e.jobs = t /\ e.toClient = device.toClient
    BY <1>5, <1>6
  <1>11. /\ device' \in DeviceType(D) /\ device'.conn = device.conn
         /\ device'.toDevice = device.toDevice /\ device'.jobs = t
         /\ device'.toClient = Append(device.toClient, w)
    BY <1>9, <1>10, Replied
  <1>12. Works(device, device', w)
    BY <1>2, <1>8, <1>11 DEF Works
  <1> QED BY <1>2, <1>11, <1>12, DeviceMoves

(* The card is removed or put back: the client is told. *)
LEMMA CardChangesStep ==
    ASSUME IInv, CardChanges
    PROVE  IInv'
  <1> DEFINE D == Dispatchers
             T == ForeignTo(call.id)
             d == [device EXCEPT !.card = ~@, !.handle = IF device.card THEN 0 ELSE @]
             w == Message("status", 0, 0, d.card)
  <1>1. /\ device \in DeviceType(D) /\ device.card \in BOOLEAN /\ device.handle \in Nat
        /\ bounds \in Limits /\ bounds.removals \in Nat
    BY DEF IInv, TypeOK, DeviceType, Limits
  <1>2. /\ bounds.removals > 0 /\ device.conn # 0
        /\ bounds' = [bounds EXCEPT !.removals = @ - 1, !.moved = TRUE]
        /\ UNCHANGED <<client, plugin, readers, call, connector, ids, late>>
        /\ device' = Reply(d, w) \/ device' = d
    BY DEF CardChanges, May, Ghosts
  <1>3. bounds' \in Limits
    <2>1. bounds.removals - 1 \in Nat
      BY <1>1, <1>2
    <2> QED BY <1>1, <1>2, <2>1 DEF Limits
  <1>4. /\ d \in DeviceType(D) /\ d.conn = device.conn /\ d.toDevice = device.toDevice
        /\ d.jobs = device.jobs /\ d.toClient = device.toClient /\ d.card \in BOOLEAN
    <2>1. (~device.card) \in BOOLEAN /\ (IF device.card THEN 0 ELSE device.handle) \in Nat
      BY <1>1
    <2> HIDE DEF D
    <2> QED BY <1>1, <2>1 DEF DeviceType
  <1> HIDE DEF d
  <1>5. w \in Messages /\ w \notin OnTheWay /\ w \notin T
    BY <1>4, MessageFacts DEF OnTheWay, ForeignTo, Requests
  <1> HIDE DEF w, T
  <1>6. CASE device' = d
    <2>1. InDevice(device', OnTheWay) = InDevice(device, OnTheWay) /\ InDevice(device', T) = InDevice(device, T)
      BY <1>4, <1>6 DEF InDevice
    <2>2. InDevice(device, OnTheWay) \in Nat /\ InDevice(device, T) \in Nat
      <3>1. /\ Many(device.toDevice, OnTheWay) \in Nat /\ Many(device.jobs, OnTheWay) \in Nat
            /\ Many(device.toClient, OnTheWay) \in Nat
            /\ Many(device.toDevice, T) \in Nat /\ Many(device.jobs, T) \in Nat
            /\ Many(device.toClient, T) \in Nat
        BY <1>1, DeviceCounts
      <3> QED BY <3>1 DEF InDevice
    <2> QED BY <1>2, <1>3, <1>4, <1>6, <2>1, <2>2, DeviceStep DEF T
  <1>7. CASE device' = Reply(d, w)
    <2>1. /\ device' \in DeviceType(D) /\ device'.conn = device.conn
          /\ device'.toDevice = device.toDevice /\ device'.jobs = device.jobs
          /\ device'.toClient = Append(device.toClient, w)
      BY <1>4, <1>5, <1>7, Replied
    <2>2. ASSUME NEW S, w \notin S
          PROVE  InDevice(device', S) <= InDevice(device, S)
      <3>1. /\ device.toClient \in Seq(Messages)
            /\ Many(device.toDevice, S) \in Nat /\ Many(device.jobs, S) \in Nat /\ Many(device.toClient, S) \in Nat
        BY <1>1, DeviceCounts
      <3>2. Many(Append(device.toClient, w), S) = Many(device.toClient, S)
        BY <1>5, <2>2, <3>1, ManyInAppend
      <3> QED BY <2>1, <3>1, <3>2 DEF InDevice
    <2> QED BY <1>2, <1>3, <1>5, <2>1, <2>2, DeviceStep DEF T
  <1> QED BY <1>2, <1>6, <1>7

(* IfdDispatcher::onReceived: the context is known, the plugin is told of a *)
(* status, a blocked request takes its answer.                             *)
ContextKnown(k, n) == [k EXCEPT !.channels[n].context = TRUE]

LEMMA ContextChanges ==
    ASSUME NEW D, NEW k \in ConnectorType(D), NEW n \in 1..Len(k.channels)
    PROVE  LET l == ContextKnown(k, n) IN
           /\ l \in ConnectorType(D) /\ l.events = k.events /\ l.requests = k.requests
           /\ Len(l.channels) = Len(k.channels)
           /\ \A j \in 1..Len(k.channels) : l.channels[j].state = k.channels[j].state
  <1> DEFINE l   == ContextKnown(k, n)
             ch  == [k.channels[n] EXCEPT !.context = TRUE]
             chs == [k.channels EXCEPT ![n] = ch]
  <1>1. k.channels \in Seq(Channels) /\ k.channels[n] \in Channels
    BY DEF ConnectorType
  <1>2. ch \in Channels /\ ch.state = k.channels[n].state
    BY <1>1 DEF Channels
  <1>3. l = [k EXCEPT !.channels = chs]
    BY DEF ContextKnown
  <1> HIDE DEF ch, l
  <1>4. /\ chs \in Seq(Channels) /\ Len(chs) = Len(k.channels)
        /\ \A j \in 1..Len(k.channels) : chs[j] = IF j = n THEN ch ELSE k.channels[j]
    BY <1>1, <1>2
  <1> HIDE DEF chs
  <1>5. /\ l \in ConnectorType(D) /\ l.events = k.events /\ l.requests = k.requests
        /\ l.channels = chs
    BY <1>3, <1>4 DEF ConnectorType
  <1> QED BY <1>2, <1>4, <1>5 DEF l

WithAnswer(c, m) == [c EXCEPT !.answer = "message", !.got = m, !.woken = c.blocked]

LEMMA ReceivedStep ==
    ASSUME IInv, Received
    PROVE  IInv'
  <1> DEFINE D   == Dispatchers
             msg == Head(device.toClient)
             t   == Tail(device.toClient)
             n   == device.conn
             S   == LiveSends(n)
             R   == ForeignSends(n, call.id)
             T   == ForeignTo(call.id)
  <1>1. /\ TypeOK /\ connector \in ConnectorType(D) /\ device \in DeviceType(D)
        /\ plugin \in PluginType(D) /\ call \in CallType(D)
        /\ device.toClient \in Seq(Messages)
    BY DEF IInv, TypeOK, DeviceType
  <1>2. /\ device.toClient # <<>> /\ UNCHANGED <<bounds, client, readers, ids, late>>
        /\ device' = [device EXCEPT !.toClient = t]
    BY DEF Received, Ghosts
  <1>3. msg \in Messages /\ t \in Seq(Messages)
    BY <1>1, <1>2
  <1>4. n \in D /\ n # 0
    BY <1>1, <1>2 DEF IInv, LinkIsOpen, DeviceType
  <1>5. /\ device' \in DeviceType(D) /\ device'.conn = n /\ device'.toDevice = device.toDevice
        /\ device'.jobs = device.jobs /\ device'.toClient = t
    <2> HIDE DEF D, t
    <2> QED BY <1>1, <1>2, <1>3 DEF DeviceType
  <1>6. /\ connector' \in ConnectorType(D) /\ connector'.events = connector.events
        /\ connector'.requests = connector.requests
        /\ Len(connector'.channels) = Len(connector.channels)
        /\ \A j \in D : connector'.channels[j].state = connector.channels[j].state
    <2>1. connector' = connector \/ connector' = ContextKnown(connector, n)
      BY DEF Received, ContextKnown
    <2>2. LET l == ContextKnown(connector, n) IN
          /\ l \in ConnectorType(D) /\ l.events = connector.events /\ l.requests = connector.requests
          /\ Len(l.channels) = Len(connector.channels)
          /\ \A j \in 1..Len(connector.channels) : l.channels[j].state = connector.channels[j].state
      BY <1>1, <1>4, ContextChanges DEF Dispatchers
    <2> QED BY <1>1, <2>1, <2>2 DEF Dispatchers
  <1>7. plugin' \in PluginType(D) /\ plugin'.session = plugin.session /\ plugin'.key = plugin.key
    <2>1. /\ [type |-> "context", n |-> n, arg |-> "none"] \in PluginEvents(D)
          /\ [type |-> "status", n |-> n, arg |-> "none"] \in PluginEvents(D)
          /\ [type |-> "status", n |-> n, arg |-> "card"] \in PluginEvents(D)
      BY <1>4 DEF PluginEvents
    <2>2. \/ plugin' = plugin
          \/ plugin' = PostPlugin(plugin, "context", n, "none")
          \/ plugin' = PostPlugin(plugin, "status", n, "none")
          \/ plugin' = PostPlugin(plugin, "status", n, "card")
      BY DEF Received
    <2> QED BY <1>1, <2>1, <2>2, PluginPosts
  <1>8. \/ call' = call
        \/ /\ call' = WithAnswer(call, msg) /\ ~Idle /\ call.n = n /\ call.answer = "none"
           /\ call.type = msg.type
    BY DEF Received, Answered, WithAnswer
  <1>9. /\ call' \in CallType(D) /\ call'.id = call.id /\ call'.type = call.type
        /\ call'.n = call.n /\ call'.key = call.key
        /\ call' # call => call'.answer = "message" /\ call'.got = msg
    <2>1. /\ WithAnswer(call, msg) \in CallType(D) /\ WithAnswer(call, msg).id = call.id
          /\ WithAnswer(call, msg).type = call.type /\ WithAnswer(call, msg).n = call.n
          /\ WithAnswer(call, msg).key = call.key
          /\ WithAnswer(call, msg).answer = "message" /\ WithAnswer(call, msg).got = msg
      <3>1. call.blocked \in BOOLEAN
        BY <1>1 DEF CallType
      <3> HIDE DEF D, msg
      <3> QED BY <1>1, <1>3, <3>1 DEF CallType, WithAnswer
    <2> QED BY <1>1, <1>8, <2>1
  <1>10. Dispatchers' = Dispatchers /\ Numbers' = Numbers
    BY <1>6 DEF Dispatchers, Numbers
  <1>11. TypeOK'
    BY <1>1, <1>2, <1>5, <1>6, <1>7, <1>9, <1>10 DEF TypeOK
  <1>12. ReadersAreThere'
    BY <1>2, <1>7, <1>9 DEF IInv, ReadersAreThere, Idle
  <1>13. LinkIsOpen'
    BY <1>4, <1>5, <1>6, <1>10 DEF IInv, LinkIsOpen
  <1>14. PendingHasAnswer'
    BY <1>2, <1>6 DEF IInv, PendingHasAnswer, Attempts
  <1>15. /\ Many(connector.events, S) \in Nat /\ Many(connector.events, R) \in Nat
         /\ Many(device.toDevice, OnTheWay) \in Nat /\ Many(device.jobs, OnTheWay) \in Nat
         /\ Many(t, OnTheWay) \in Nat
         /\ Many(device.toDevice, T) \in Nat /\ Many(device.jobs, T) \in Nat /\ Many(t, T) \in Nat
    <2>1. connector.events \in Seq(ConnectorEvents(D))
      BY <1>1 DEF ConnectorType
    <2>2. Many(connector.events, S) \in Nat /\ Many(connector.events, R) \in Nat
      BY <2>1, ManyIsFinite
    <2>3. /\ Many(device.toDevice, OnTheWay) \in Nat /\ Many(device.jobs, OnTheWay) \in Nat
          /\ Many(device.toDevice, T) \in Nat /\ Many(device.jobs, T) \in Nat
      BY <1>1, DeviceCounts
    <2>4. Many(t, OnTheWay) \in Nat /\ Many(t, T) \in Nat
      BY <1>3, ManyIsFinite
    <2> QED BY <2>2, <2>3, <2>4
  <1> DEFINE F1 == Flight(connector', device')
             F0 == Flight(connector, device)
             G1 == ForeignFlight(connector', device', call.id)
             G0 == ForeignFlight(connector, device, call.id)
  <1>16. /\ F1 \in Nat /\ F0 \in Nat /\ F0 = F1 + (IF msg \in OnTheWay THEN 1 ELSE 0)
    <2>1. F1 = Many(connector.events, S) + Many(device.toDevice, OnTheWay)
                   + Many(device.jobs, OnTheWay) + Many(t, OnTheWay)
      BY <1>5, <1>6 DEF Flight
    <2>2. F0 = Many(connector.events, S) + Many(device.toDevice, OnTheWay)
                   + Many(device.jobs, OnTheWay) + Many(device.toClient, OnTheWay)
      BY DEF Flight
    <2>3. Many(device.toClient, OnTheWay) = Many(t, OnTheWay) + (IF msg \in OnTheWay THEN 1 ELSE 0)
      BY <1>1, <1>2, ManyInTail
    <2> HIDE DEF F1, F0, S, t, msg
    <2> QED BY ONLY <1>15, <2>1, <2>2, <2>3
  <1>17. G1 \in Nat /\ G0 \in Nat /\ G0 = G1 + (IF msg \in T THEN 1 ELSE 0)
    <2>1. G1 = Many(connector.events, R) + Many(device.toDevice, T) + Many(device.jobs, T) + Many(t, T)
      BY <1>5, <1>6 DEF ForeignFlight
    <2>2. G0 = Many(connector.events, R) + Many(device.toDevice, T)
                   + Many(device.jobs, T) + Many(device.toClient, T)
      BY DEF ForeignFlight
    <2>3. Many(device.toClient, T) = Many(t, T) + (IF msg \in T THEN 1 ELSE 0)
      BY <1>1, <1>2, ManyInTail
    <2> HIDE DEF G1, G0, R, T, t, msg
    <2> QED BY ONLY <1>15, <2>1, <2>2, <2>3
  <1>18. OneInFlight' /\ FlightIsOwn' /\ AnswerIsOwn'
    <2>1. CASE call' = call
      <3>1. F1 <= F0 /\ G1 <= G0
        <4> HIDE DEF F1, F0, G1, G0, T, msg
        <4> QED BY ONLY <1>16, <1>17
      <3> QED BY <1>2, <1>5, <1>6, <2>1, <3>1, FlightKept
    <2>2. CASE call' # call
      <3>1. /\ Asking /\ msg \in OnTheWay /\ call'.answer = "message" /\ call'.got = msg
        BY <1>1, <1>3, <1>8, <1>9, <2>2 DEF Asking, OnTheWay, CallType, Idle, IInv
      <3>2. ~late => F0 <= 1 /\ G0 = 0
        BY <3>1 DEF IInv, OneInFlight, FlightIsOwn
      <3> HIDE DEF F1, F0, G1, G0
      <3>3. ~late => F1 = 0 /\ G1 = 0 /\ msg \notin T
        <4> HIDE DEF T, msg
        <4> QED BY <1>16, <1>17, <3>1, <3>2
      <3>4. ~late => msg.id = call.id
        BY <3>1, <3>3 DEF ForeignTo
      <3>5. OneInFlight'
        <4>1. (IF Asking' THEN 1 ELSE 0) >= 0
          OBVIOUS
        <4>2. F1 = Flight(connector', device')
          BY DEF F1
        <4> QED BY <1>2, <3>3, <4>1, <4>2 DEF OneInFlight
      <3>6. FlightIsOwn'
        <4>1. G1 = ForeignFlight(connector', device', call'.id)
          BY <1>9 DEF G1
        <4> QED BY <1>2, <3>3, <4>1 DEF FlightIsOwn
      <3>7. AnswerIsOwn'
        BY <1>2, <1>9, <3>1, <3>4 DEF AnswerIsOwn
      <3> QED BY <3>5, <3>6, <3>7
    <2> QED BY <2>1, <2>2
  <1> QED BY <1>11, <1>12, <1>13, <1>14, <1>18 DEF IInv

-----------------------------------------------------------------------------
(* The initial states and the steps. *)
LEMMA InitIInv ==
    ASSUME Init
    PROVE  IInv
  <1>1. connector.channels = <<>> /\ Dispatchers = {} /\ Numbers = {0}
    BY DEF Init, Dispatchers, Numbers
  <1>2. TypeOK
    <2>1. bounds \in Limits
      BY IfdClientAssumption DEF Init, Limits
    <2>2. client \in ClientType({})
      BY IfdClientAssumption DEF Init, ClientType
    <2>3. plugin \in PluginType({})
      BY DEF Init, PluginType
    <2>4. call \in CallType({})
      BY DEF Init, NoCall, NoMessage, Message, Messages, CallType
    <2>5. connector \in ConnectorType({})
      BY DEF Init, ConnectorType
    <2>6. device \in DeviceType({})
      BY <2>1 DEF Init, DeviceType, Limits
    <2>7. DOMAIN readers = {}
      BY DEF Init
    <2> QED BY <1>1, <2>1, <2>2, <2>3, <2>4, <2>5, <2>6, <2>7 DEF TypeOK, Init
  <1>3. ReadersAreThere /\ LinkIsOpen
    BY <1>1 DEF Init, ReadersAreThere, LinkIsOpen, Idle, NoCall
  <1>4. \A S : Many(<<>>, S) = 0
    BY ManyInEmpty
  <1>5. PendingHasAnswer
    <2>1. Count(<<>>, Attempts) = 0 /\ Count(<<>>, Answers) = 0
      <3>1. \A types : {i \in DOMAIN <<>> : <<>>[i].type \in types} = {}
        OBVIOUS
      <3> QED BY <3>1, FS_EmptySet DEF Count
    <2>2. Len(connector.requests) = 0
      BY DEF Init
    <2> QED BY <2>1, <2>2 DEF Init, PendingHasAnswer, Attempts, Answers
  <1>6. OneInFlight /\ FlightIsOwn /\ AnswerIsOwn
    <2>1. Flight(connector, device) = 0 /\ \A id : ForeignFlight(connector, device, id) = 0
      BY <1>4 DEF Init, Flight, ForeignFlight
    <2> QED BY <2>1 DEF Init, NoCall, OneInFlight, FlightIsOwn, AnswerIsOwn
  <1> QED BY <1>2, <1>3, <1>5, <1>6 DEF IInv

LEMMA Stutter ==
    ASSUME IInv, UNCHANGED vars
    PROVE  IInv'
  BY DEF vars, IInv, TypeOK, ReadersAreThere, LinkIsOpen, PendingHasAnswer, OneInFlight,
         FlightIsOwn, AnswerIsOwn, Idle, Asking, Dispatchers, Numbers

LEMMA StepKeepsIInv ==
    ASSUME IInv, [Next]_vars
    PROVE  IInv'
  <1>1. CASE MainThread
    BY <1>1, DetectionStep, RequestRemoteDevicesStep, EstablishStep, OnDispatcherCreatedStep,
       OnDispatcherErrorStep, OnDispatcherDestroyedStep DEF MainThread
  <1>2. CASE PluginThread
    BY <1>2, ScanStep, ContinueConnectStep, ForgetAttemptStep, AddDispatcherStep,
       ContextEstablishedStep, DispatcherClosedStep, HandleStatusStep, WaitStep, WakeStep
       DEF PluginThread
  <1>3. CASE ConnectorThread
    BY <1>3, OnConnectRequestStep, ConnectionCreatedStep, ConnectionErrorStep, DispatcherSendsStep,
       CloseStep, DisconnectedStep, ReceivedStep DEF ConnectorThread
  <1>4. CASE Device
    BY <1>4, DeviceReceivesStep, DeviceAnswersStep, CardChangesStep, CloseStep DEF Device
  <1>5. CASE Users
    BY <1>5, EstablishStep, StopScanStep, StartScanStep, ConnectionStep DEF Users
  <1>6. CASE Announce \/ Vanish \/ ScanTimer
    BY <1>6, AnnounceStep, VanishStep, ScanStep
  <1>7. CASE UNCHANGED vars
    BY <1>7, Stutter
  <1> QED BY <1>1, <1>2, <1>3, <1>4, <1>5, <1>6, <1>7 DEF Next

(* The invariant is inductive: whatever the interleaving of the three      *)
(* threads, the device and the user, and for any number of connections,    *)
(* requests and removals of the card.                                      *)
THEOREM Invariance == Spec => []IInv
  <1>1. Init => IInv
    BY InitIInv
  <1>2. IInv /\ [Next]_vars => IInv'
    BY StepKeepsIInv
  <1> QED BY <1>1, <1>2, PTL DEF Spec

(* Every record keeps its type; in particular the counter of refusals in a *)
(* row stays below its limit and the number of pending attempts is never   *)
(* negative (RemoteIfdClient::onDispatcherError).                          *)
THEOREM TypeCorrect == Spec => []TypeOK
  <1>1. IInv => TypeOK
    BY DEF IInv
  <1> QED BY <1>1, Invariance, PTL

(* The answer of the connector always finds the attempt it belongs to, as  *)
(* RemoteIfdClient::onDispatcherCreated and onDispatcherError assert.      *)
THEOREM AttemptsAreAnswered == Spec => []PendingHasAnswer
  <1>1. IInv => PendingHasAnswer
    BY DEF IInv
  <1> QED BY <1>1, Invariance, PTL

(* Until a request times out, an answer taken by its type alone            *)
(* (IfdCard::onMessageReceived) is the answer to that very request.        *)
THEOREM AnswersAreOwn == Spec => []AnswerIsOwn
  <1>1. IInv => AnswerIsOwn
    BY DEF IInv
  <1> QED BY <1>1, Invariance, PTL

-----------------------------------------------------------------------------
(* The second invariant: what client and device know of each other.        *)

(* Queues: no event of these types; the event about n is the last of its   *)
(* type; events of one type come after all of others.                      *)
None(q, types) == \A i \in DOMAIN q : q[i].type \notin types
OnlyLast(q, type, n) ==
    \A i, j \in DOMAIN q : q[i].type = type /\ q[i].n = n /\ q[j].type = type => j <= i
Before(q, types, type) ==
    \A i, j \in DOMAIN q : q[i].type \in types /\ q[j].type = type => i < j

(* Connections are made one after the other: the one the device has is the *)
(* newest, and when it is announced no older one is announced any more.    *)
Newest       == Len(connector.channels)
Known(n)     == connector.channels[n].context
NothingComes == None(client.events, {"created"}) /\ None(plugin.events, {"dispatcher"})
NewestIsLast ==
    /\ device.conn # 0 => device.conn = Newest
    /\ OnlyLast(client.events, "created", Newest) /\ OnlyLast(plugin.events, "dispatcher", Newest)
    /\ \A i \in DOMAIN plugin.events :
           plugin.events[i].type = "dispatcher" /\ plugin.events[i].n = Newest =>
               None(client.events, {"created"})
    /\ Newest \in plugin.hears => NothingComes

(* The plugin hears its dispatcher; of a connection it has given up it     *)
(* hears no more, as long as the device has that connection.               *)
DispatcherIsHeard ==
    /\ plugin.dispatcher # 0 => plugin.dispatcher \in plugin.hears
    /\ device.conn \in plugin.hears => plugin.dispatcher = device.conn

(* No status comes before the context handle, and none is handled for      *)
(* another connection than the one it came from.                           *)
Fits(e) ==
    /\ e.type = "getStatus" => Known(e.n)
    /\ e.type = "send" => e.msg.type \in Requests
NoStatus ==
    /\ None(device.toDevice, {"getStatus", "status"}) /\ None(device.jobs, {"status"})
    /\ None(device.toClient, {"status"})
ContextIsKnown ==
    /\ Before(plugin.events, {"context", "status"}, "dispatcher")
    /\ plugin.dispatcher # 0 /\ ~Known(plugin.dispatcher) => None(plugin.events, {"context", "status"})
    /\ \A i \in DOMAIN connector.events : Fits(connector.events[i])
    /\ device.conn # 0 /\ ~Known(device.conn) => NoStatus

Paths == NewestIsLast /\ DispatcherIsHeard /\ ContextIsKnown

(* A reader is named after its dispatcher; a card is asked to connect only *)
(* if there is one that is not connected.                                  *)
ReadersAreNamed ==
    /\ \A k \in DOMAIN readers : /\ k # 0 /\ readers[k].disp = k /\ Known(k)
                                 /\ readers[k].connected => readers[k].card
    /\ device.conn \in DOMAIN readers => plugin.dispatcher = device.conn
    /\ ~Idle => call.n = call.key
    /\ call.answer = "message" => call.got.type = call.type
    /\ call.type = "connect" => readers[call.key].card /\ ~readers[call.key].connected

(* The device has a handle only on a connection, for a card, and only of a *)
(* connection that is announced.                                           *)
HandleIsKnown ==
    /\ device.conn = 0 \/ ~device.card => device.handle = 0
    /\ ~late /\ device.handle # 0 => NothingComes

(* What is on its way to the device is what the blocked call has sent.     *)
Request == Message(call.type, call.id, readers[call.key].handle, TRUE)
Elements(q) == {q[i] : i \in DOMAIN q}
RequestIsAsSent ==
    ~late =>
        /\ \A e \in Elements(connector.events) : e \in LiveSends(device.conn) => e.msg = Request
        /\ \A m \in Elements(device.toDevice) : m \in OnTheWay => m = Request
        /\ \A m \in Elements(device.jobs) :
               /\ m \in OnTheWay => m = Request
               /\ m.type = "disconnect" => device.handle \in {0, m.handle}

(* The answers on their way or not used yet, and the news that the card is *)
(* gone.  What the device has done is known to the plugin or becomes known *)
(* to it by one of them.                                                   *)
Replies ==
    Elements(device.toClient)
        \cup (IF ~Idle /\ call.n = device.conn /\ call.answer = "message" THEN {call.got} ELSE {})
Granted(type) == \E m \in Replies : m.type = type /\ m.ok
Gone(q)       == \E i \in DOMAIN q : q[i].type = "status" /\ q[i].arg = "none"
Gives(q)      == \E m \in Elements(q) : m.type = "status" /\ ~m.ok
Absence       == Gives(device.toClient) \/ Gone(plugin.events)
RepliesFit ==
    ~late =>
        /\ \A m \in Replies : m.type = "connect" /\ m.ok =>
               call.type = "connect" /\ (m.handle = device.handle \/ Absence)
        /\ Granted("disconnect") => call.type = "disconnect" /\ device.handle = 0
StatusIsTrue == Absence => bounds.moved \/ ~device.card
HandlesAgree ==
    ~late /\ device.conn \in DOMAIN readers /\ readers[device.conn].connected =>
        readers[device.conn].handle = device.handle \/ Absence \/ Granted("disconnect")
HandleIsHeld ==
    ~late /\ ~bounds.moved /\ device.handle # 0 /\ plugin.dispatcher = device.conn =>
        \/ device.conn \in DOMAIN readers /\ readers[device.conn].connected
        \/ Granted("connect")

Handles ==
    /\ ReadersAreNamed /\ HandleIsKnown /\ RequestIsAsSent /\ RepliesFit
    /\ StatusIsTrue /\ HandlesAgree /\ HandleIsHeld

Agreed == Paths /\ Handles

(* What is left of a queue, events of other types aside. *)
Fewer(q, r, types) ==
    \E s \in Nat : \A j \in DOMAIN r : r[j].type \in types => j + s \in DOMAIN q /\ q[j + s] = r[j]

LEMMA FewerSame ==
    ASSUME NEW T, NEW q \in Seq(T), NEW types
    PROVE  Fewer(q, q, types)
  <1>1. \A j \in DOMAIN q : j + 0 = j /\ 0 \in Nat
    OBVIOUS
  <1> QED BY <1>1 DEF Fewer

LEMMA ElementsFacts ==
    ASSUME NEW T, NEW q \in Seq(T)
    PROVE  /\ Elements(q) \subseteq T
           /\ \A x \in T : Elements(Append(q, x)) = Elements(q) \cup {x}
           /\ q # <<>> => /\ Elements(q) = Elements(Tail(q)) \cup {Head(q)}
                          /\ Head(q) \in T /\ Tail(q) \in Seq(T)
  <1>1. Elements(q) \subseteq T
    BY DEF Elements
  <1>2. ASSUME NEW x \in T
        PROVE  Elements(Append(q, x)) = Elements(q) \cup {x}
    <2> DEFINE a == Append(q, x)
    <2>1. /\ \A i \in DOMAIN q : i \in DOMAIN a /\ a[i] = q[i]
          /\ Len(q) + 1 \in DOMAIN a /\ a[Len(q) + 1] = x
          /\ \A i \in DOMAIN a : i \in DOMAIN q \/ i = Len(q) + 1
      BY AppendFacts
    <2> HIDE DEF a
    <2>2. Elements(a) = Elements(q) \cup {x}
      BY <2>1 DEF Elements
    <2> QED BY <2>2 DEF a
  <1>3. ASSUME q # <<>>
        PROVE  /\ Elements(q) = Elements(Tail(q)) \cup {Head(q)}
               /\ Head(q) \in T /\ Tail(q) \in Seq(T)
    <2> DEFINE t == Tail(q)
    <2>1. /\ Head(q) = q[1] /\ 1 \in DOMAIN q /\ t \in Seq(T) /\ q[1] \in T
      BY <1>3, TailFacts
    <2>2. /\ \A i \in DOMAIN t : i + 1 \in DOMAIN q /\ t[i] = q[i + 1]
          /\ \A i \in DOMAIN q : i # 1 => i - 1 \in DOMAIN t /\ t[i - 1] = q[i]
      BY <1>3, TailFacts
    <2> HIDE DEF t
    <2>3. Elements(q) = Elements(t) \cup {q[1]}
      <3>1. ASSUME NEW i \in DOMAIN q PROVE q[i] \in Elements(t) \cup {q[1]}
        BY <2>2 DEF Elements
      <3>2. ASSUME NEW i \in DOMAIN t PROVE t[i] \in Elements(q)
        BY <2>2 DEF Elements
      <3>3. q[1] \in Elements(q)
        BY <2>1 DEF Elements
      <3> QED BY <3>1, <3>2, <3>3 DEF Elements
    <2> QED BY <2>1, <2>3 DEF t
  <1> QED BY <1>1, <1>2, <1>3

LEMMA FewerTail ==
    ASSUME NEW T, NEW q \in Seq(T), q # <<>>, NEW types
    PROVE  Fewer(q, Tail(q), types)
  <1>1. \A j \in DOMAIN Tail(q) : j + 1 \in DOMAIN q /\ Tail(q)[j] = q[j + 1]
    BY TailFacts
  <1> HIDE DEF Fewer
  <1>2. 1 \in Nat
    OBVIOUS
  <1> QED BY <1>1, <1>2 DEF Fewer

LEMMA FewerAppend ==
    ASSUME NEW T, NEW q \in Seq(T), NEW r \in Seq(T), NEW x \in T, NEW types, Fewer(q, r, types),
           x.type \notin types
    PROVE  Fewer(q, Append(r, x), types)
  <1> DEFINE a == Append(r, x)
  <1>1. /\ \A i \in DOMAIN r : a[i] = r[i]
        /\ \A i \in DOMAIN a : i \in DOMAIN r \/ a[i] = x
    BY AppendFacts
  <1>2. PICK s \in Nat : \A j \in DOMAIN r : r[j].type \in types => j + s \in DOMAIN q /\ q[j + s] = r[j]
    BY DEF Fewer
  <1> HIDE DEF a
  <1>3. \A j \in DOMAIN a : a[j].type \in types => j + s \in DOMAIN q /\ q[j + s] = a[j]
    BY <1>1, <1>2
  <1> QED BY <1>3 DEF Fewer, a

LEMMA FewerFacts ==
    ASSUME NEW T, NEW q \in Seq(T), NEW r \in Seq(T), NEW types, Fewer(q, r, types)
    PROVE  /\ \A S \in SUBSET types : None(q, S) => None(r, S)
           /\ \A t \in types : \A n : OnlyLast(q, t, n) => OnlyLast(r, t, n)
           /\ \A S \in SUBSET types : \A t \in types : Before(q, S, t) => Before(r, S, t)
           /\ \A j \in DOMAIN r : r[j].type \in types => \E i \in DOMAIN q : q[i] = r[j]
  <1>1. PICK s \in Nat : \A j \in DOMAIN r : r[j].type \in types => j + s \in DOMAIN q /\ q[j + s] = r[j]
    BY DEF Fewer
  <1>2. DOMAIN r = 1..Len(r) /\ Len(r) \in Nat
    OBVIOUS
  <1>3. ASSUME NEW S \in SUBSET types, None(q, S) PROVE None(r, S)
    BY <1>1, <1>3 DEF None
  <1>4. ASSUME NEW t \in types, NEW n, OnlyLast(q, t, n) PROVE OnlyLast(r, t, n)
    <2> SUFFICES ASSUME NEW i \in DOMAIN r, NEW j \in DOMAIN r,
                        r[i].type = t, r[i].n = n, r[j].type = t
                 PROVE  j <= i
      BY DEF OnlyLast
    <2>1. i + s \in DOMAIN q /\ q[i + s] = r[i] /\ j + s \in DOMAIN q /\ q[j + s] = r[j]
      BY <1>1
    <2>2. j + s <= i + s
      BY <1>4, <2>1 DEF OnlyLast
    <2> QED BY <1>2, <2>2
  <1>5. ASSUME NEW S \in SUBSET types, NEW t \in types, Before(q, S, t) PROVE Before(r, S, t)
    <2> SUFFICES ASSUME NEW i \in DOMAIN r, NEW j \in DOMAIN r, r[i].type \in S, r[j].type = t
                 PROVE  i < j
      BY DEF Before
    <2>1. i + s \in DOMAIN q /\ q[i + s] = r[i] /\ j + s \in DOMAIN q /\ q[j + s] = r[j]
      BY <1>1
    <2>2. i + s < j + s
      BY <1>5, <2>1 DEF Before
    <2> QED BY <1>2, <2>2
  <1>6. ASSUME NEW j \in DOMAIN r, r[j].type \in types PROVE \E i \in DOMAIN q : q[i] = r[j]
    BY <1>1, <1>6
  <1> QED BY <1>3, <1>4, <1>5, <1>6

(* One more event. *)
LEMMA OneMore ==
    ASSUME NEW T, NEW q \in Seq(T), NEW x \in T
    PROVE  /\ \A S : None(Append(q, x), S) <=> None(q, S) /\ x.type \notin S
           /\ \A t, n : /\ OnlyLast(q, t, n)
                        /\ x.type = t => \A i \in DOMAIN q : ~(q[i].type = t /\ q[i].n = n)
                        => OnlyLast(Append(q, x), t, n)
           /\ \A S, t : t \notin S /\ Before(q, S, t) /\ (x.type \in S => None(q, {t}))
                            => Before(Append(q, x), S, t)
  <1> DEFINE a == Append(q, x)
  <1>1. /\ DOMAIN q = 1..Len(q) /\ Len(q) \in Nat /\ DOMAIN a = 1..(Len(q) + 1)
        /\ \A i \in DOMAIN q : i \in DOMAIN a /\ a[i] = q[i]
        /\ Len(q) + 1 \in DOMAIN a /\ a[Len(q) + 1] = x
        /\ \A i \in DOMAIN a : i \in DOMAIN q \/ i = Len(q) + 1
    BY AppendFacts
  <1> HIDE DEF a
  <1>2. ASSUME NEW S PROVE None(a, S) <=> None(q, S) /\ x.type \notin S
    BY <1>1 DEF None
  <1>3. ASSUME NEW t, NEW n, OnlyLast(q, t, n),
               x.type = t => \A i \in DOMAIN q : ~(q[i].type = t /\ q[i].n = n)
        PROVE  OnlyLast(a, t, n)
    <2> SUFFICES ASSUME NEW i \in DOMAIN a, NEW j \in DOMAIN a,
                        a[i].type = t, a[i].n = n, a[j].type = t
                 PROVE  j <= i
      BY DEF OnlyLast
    <2>1. CASE i = Len(q) + 1
      BY <1>1, <2>1
    <2>2. CASE i # Len(q) + 1
      <3>1. i \in DOMAIN q /\ q[i].type = t /\ q[i].n = n
        BY <1>1, <2>2
      <3>2. j \in DOMAIN q /\ q[j].type = t
        BY <1>1, <1>3, <3>1
      <3> QED BY <1>3, <3>1, <3>2 DEF OnlyLast
    <2> QED BY <2>1, <2>2
  <1>4. ASSUME NEW S, NEW t, t \notin S, Before(q, S, t),
               x.type \in S => None(q, {t})
        PROVE  Before(a, S, t)
    <2> SUFFICES ASSUME NEW i \in DOMAIN a, NEW j \in DOMAIN a, a[i].type \in S, a[j].type = t
                 PROVE  i < j
      BY DEF Before
    <2>1. t \notin S
      BY <1>4
    <2>2. CASE i = Len(q) + 1
      <3>1. None(q, {t}) /\ x.type # t
        BY <1>1, <1>4, <2>1, <2>2
      <3> QED BY <1>1, <3>1 DEF None
    <2>3. CASE i # Len(q) + 1
      <3>1. i \in DOMAIN q /\ q[i].type \in S
        BY <1>1, <2>3
      <3>2. CASE j = Len(q) + 1
        BY <1>1, <3>1, <3>2
      <3>3. CASE j # Len(q) + 1
        BY <1>1, <1>4, <3>1, <3>3 DEF Before
      <3> QED BY <3>2, <3>3
    <2> QED BY <2>2, <2>3
  <1> QED BY <1>2, <1>3, <1>4 DEF a

LEMMA OneLess ==
    ASSUME NEW T, NEW q \in Seq(T), q # <<>>
    PROVE  /\ \A S : None(q, S) <=> None(Tail(q), S) /\ Head(q).type \notin S
           /\ \A n : OnlyLast(q, Head(q).type, n) /\ Head(q).n = n => None(Tail(q), {Head(q).type})
           /\ \A S : Before(q, S, Head(q).type) => None(q, S)
  <1> DEFINE t == Tail(q)
  <1>1. /\ Head(q) = q[1] /\ 1 \in DOMAIN q /\ DOMAIN q = 1..Len(q) /\ Len(q) \in Nat
        /\ DOMAIN t = 1..(Len(q) - 1)
        /\ \A i \in DOMAIN t : i + 1 \in DOMAIN q /\ t[i] = q[i + 1]
        /\ \A i \in DOMAIN q : i # 1 => i - 1 \in DOMAIN t /\ t[i - 1] = q[i]
    BY TailFacts
  <1> HIDE DEF t
  <1>2. ASSUME NEW S PROVE None(q, S) <=> None(t, S) /\ Head(q).type \notin S
    <2>1. ASSUME None(q, S) PROVE None(t, S) /\ Head(q).type \notin S
      BY <1>1, <2>1 DEF None
    <2>2. ASSUME None(t, S), Head(q).type \notin S PROVE None(q, S)
      BY <1>1, <2>2 DEF None
    <2> QED BY <2>1, <2>2
  <1>3. ASSUME NEW n, OnlyLast(q, Head(q).type, n), Head(q).n = n
        PROVE  None(t, {Head(q).type})
    <2> SUFFICES ASSUME NEW i \in DOMAIN t, t[i].type = Head(q).type
                 PROVE  FALSE
      BY DEF None
    <2>1. i + 1 \in DOMAIN q /\ q[i + 1].type = Head(q).type
      BY <1>1
    <2>2. i + 1 <= 1
      BY <1>1, <1>3, <2>1 DEF OnlyLast
    <2> QED BY <1>1, <2>2
  <1>4. ASSUME NEW S, Before(q, S, Head(q).type) PROVE None(q, S)
    <2> SUFFICES ASSUME NEW i \in DOMAIN q, q[i].type \in S
                 PROVE  FALSE
      BY DEF None
    <2>1. i < 1
      BY <1>1, <1>4 DEF Before
    <2> QED BY <1>1, <2>1
  <1> QED BY <1>2, <1>3, <1>4 DEF t

LEMMA TailLoses ==
    ASSUME NEW T, NEW q \in Seq(T), q # <<>>
    PROVE  /\ \A S : None(q, S) => None(Tail(q), S)
           /\ \A t, n : OnlyLast(q, t, n) => OnlyLast(Tail(q), t, n)
           /\ \A S, t : Before(q, S, t) => Before(Tail(q), S, t)
           /\ \A j \in DOMAIN Tail(q) : \E i \in DOMAIN q : q[i] = Tail(q)[j]
  <1> DEFINE r == Tail(q)
  <1>1. DOMAIN r = 1..(Len(q) - 1) /\ Len(q) \in Nat
        /\ \A i \in DOMAIN r : i + 1 \in DOMAIN q /\ r[i] = q[i + 1]
    BY TailFacts
  <1> HIDE DEF r
  <1>2. \A S : None(q, S) => None(r, S)
    BY <1>1 DEF None
  <1>3. ASSUME NEW t, NEW n, OnlyLast(q, t, n) PROVE OnlyLast(r, t, n)
    <2> SUFFICES ASSUME NEW i \in DOMAIN r, NEW j \in DOMAIN r, r[i].type = t, r[i].n = n, r[j].type = t
                 PROVE  j <= i
      BY DEF OnlyLast
    <2>1. j + 1 <= i + 1
      BY <1>1, <1>3 DEF OnlyLast
    <2> QED BY <1>1, <2>1
  <1>4. ASSUME NEW S, NEW t, Before(q, S, t) PROVE Before(r, S, t)
    <2> SUFFICES ASSUME NEW i \in DOMAIN r, NEW j \in DOMAIN r, r[i].type \in S, r[j].type = t
                 PROVE  i < j
      BY DEF Before
    <2>1. i + 1 < j + 1
      BY <1>1, <1>4 DEF Before
    <2> QED BY <1>1, <2>1
  <1>5. \A j \in DOMAIN r : \E i \in DOMAIN q : q[i] = r[j]
    BY <1>1
  <1> QED BY <1>2, <1>3, <1>4, <1>5 DEF r

-----------------------------------------------------------------------------
(* What the types say of the queues. *)
LEMMA Shapes ==
    ASSUME IInv
    PROVE  /\ Newest \in Nat /\ Dispatchers = 1..Newest /\ 0 \notin Dispatchers
           /\ client \in ClientType(Dispatchers) /\ client.events \in Seq(ClientEvents(Dispatchers))
           /\ plugin \in PluginType(Dispatchers) /\ plugin.events \in Seq(PluginEvents(Dispatchers))
           /\ plugin.dispatcher \in {0} \cup Dispatchers /\ plugin.hears \subseteq Dispatchers
           /\ connector \in ConnectorType(Dispatchers) /\ connector.channels \in Seq(Channels)
           /\ connector.events \in Seq(ConnectorEvents(Dispatchers))
           /\ device \in DeviceType(Dispatchers) /\ device.conn \in {0} \cup Dispatchers
           /\ device.toDevice \in Seq(Messages) /\ device.jobs \in Seq(Messages)
           /\ device.toClient \in Seq(Messages) /\ device.card \in BOOLEAN /\ device.handle \in Nat
           /\ call \in CallType(Dispatchers) /\ call.got \in Messages
           /\ late \in BOOLEAN /\ bounds \in Limits /\ DOMAIN readers \subseteq Numbers
           /\ \A k \in DOMAIN readers : readers[k] \in ReaderType(Dispatchers)
  <1>1. TypeOK
    BY DEF IInv
  <1>2. connector.channels \in Seq(Channels) /\ connector \in ConnectorType(Dispatchers)
    BY <1>1 DEF TypeOK, ConnectorType
  <1>3. Newest \in Nat /\ Dispatchers = 1..Newest /\ 0 \notin Dispatchers
    BY <1>2 DEF Newest, Dispatchers
  <1> QED BY <1>1, <1>2, <1>3 DEF TypeOK, ClientType, PluginType, ConnectorType, DeviceType, CallType

LEMMA ShapesNext ==
    ASSUME IInv'
    PROVE  /\ Newest' \in Nat /\ Dispatchers' = 1..Newest' /\ 0 \notin Dispatchers'
           /\ client'.events \in Seq(ClientEvents(Dispatchers'))
           /\ plugin'.events \in Seq(PluginEvents(Dispatchers'))
           /\ plugin'.dispatcher \in {0} \cup Dispatchers' /\ plugin'.hears \subseteq Dispatchers'
           /\ connector'.events \in Seq(ConnectorEvents(Dispatchers'))
           /\ device'.conn \in {0} \cup Dispatchers'
           /\ device'.toDevice \in Seq(Messages) /\ device'.jobs \in Seq(Messages)
           /\ device'.toClient \in Seq(Messages)
           /\ DOMAIN readers' \subseteq Numbers'
           /\ \A k \in DOMAIN readers' : readers'[k] \in ReaderType(Dispatchers')
  <1>1. TypeOK'
    BY DEF IInv
  <1>2. connector'.channels \in Seq(Channels)
    BY <1>1 DEF TypeOK, ConnectorType
  <1>3. Newest' \in Nat /\ Dispatchers' = 1..Newest' /\ 0 \notin Dispatchers'
    BY <1>2 DEF Newest, Dispatchers
  <1> QED BY <1>1, <1>3 DEF TypeOK, ClientType, PluginType, ConnectorType, DeviceType

-----------------------------------------------------------------------------
(* Steps that leave the connections as they are. *)
LEMMA PathsKept ==
    ASSUME IInv, IInv', Paths,
           Fewer(client.events, client'.events, {"created"}),
           Fewer(plugin.events, plugin'.events, {"dispatcher", "context", "status"}),
           plugin'.dispatcher = plugin.dispatcher, plugin'.hears = plugin.hears,
           Newest' = Newest, \A n \in Dispatchers : Known(n) => Known(n)',
           device'.conn \in {0, device.conn},
           \A i \in DOMAIN connector'.events : Fits(connector.events[i])',
           device'.conn # 0 /\ ~Known(device.conn) => NoStatus'
    PROVE  Paths'
  <1> DEFINE One == {"created"}
             All == {"dispatcher", "context", "status"}
  <1>1. /\ client.events \in Seq(ClientEvents(Dispatchers)) /\ client'.events \in Seq(ClientEvents(Dispatchers))
        /\ plugin.events \in Seq(PluginEvents(Dispatchers)) /\ plugin'.events \in Seq(PluginEvents(Dispatchers))
        /\ 0 \notin Dispatchers /\ plugin.hears \subseteq Dispatchers
        /\ device.conn \in {0} \cup Dispatchers /\ plugin.dispatcher \in {0} \cup Dispatchers
    <2>1. Dispatchers' = Dispatchers
      BY DEF Newest, Dispatchers
    <2> QED BY <2>1, Shapes, ShapesNext
  <1>2. /\ None(client.events, {"created"}) => None(client'.events, {"created"})
        /\ \A n : OnlyLast(client.events, "created", n) => OnlyLast(client'.events, "created", n)
    <2>1. Fewer(client.events, client'.events, One) /\ One \in SUBSET One /\ "created" \in One
      OBVIOUS
    <2> HIDE DEF One
    <2>2. /\ \A S \in SUBSET One : None(client.events, S) => None(client'.events, S)
          /\ \A t \in One : \A n : OnlyLast(client.events, t, n) => OnlyLast(client'.events, t, n)
      BY <1>1, <2>1, FewerFacts
    <2> QED BY <2>1, <2>2 DEF One
  <1>3. /\ None(plugin.events, {"dispatcher"}) => None(plugin'.events, {"dispatcher"})
        /\ None(plugin.events, {"context", "status"}) => None(plugin'.events, {"context", "status"})
        /\ \A n : OnlyLast(plugin.events, "dispatcher", n) => OnlyLast(plugin'.events, "dispatcher", n)
        /\ Before(plugin.events, {"context", "status"}, "dispatcher") =>
               Before(plugin'.events, {"context", "status"}, "dispatcher")
        /\ \A j \in DOMAIN plugin'.events : plugin'.events[j].type = "dispatcher" =>
               \E i \in DOMAIN plugin.events : plugin.events[i] = plugin'.events[j]
    <2>1. /\ Fewer(plugin.events, plugin'.events, All) /\ {"dispatcher"} \in SUBSET All
          /\ {"context", "status"} \in SUBSET All /\ "dispatcher" \in All
      OBVIOUS
    <2> HIDE DEF All
    <2>2. /\ \A S \in SUBSET All : None(plugin.events, S) => None(plugin'.events, S)
          /\ \A t \in All : \A n : OnlyLast(plugin.events, t, n) => OnlyLast(plugin'.events, t, n)
          /\ \A S \in SUBSET All : \A t \in All :
                 Before(plugin.events, S, t) => Before(plugin'.events, S, t)
          /\ \A j \in DOMAIN plugin'.events : plugin'.events[j].type \in All =>
                 \E i \in DOMAIN plugin.events : plugin.events[i] = plugin'.events[j]
      BY <1>1, <2>1, FewerFacts
    <2> QED BY <2>1, <2>2
  <1>4. NewestIsLast'
    <2>1. NewestIsLast
      BY DEF Paths
    <2> QED BY <1>2, <1>3, <2>1 DEF NewestIsLast, NothingComes
  <1>5. DispatcherIsHeard'
    BY <1>1 DEF Paths, DispatcherIsHeard
  <1>6. ContextIsKnown'
    BY <1>1, <1>3 DEF Paths, ContextIsKnown
  <1> QED BY <1>4, <1>5, <1>6 DEF Paths

LEMMA SameReplies ==
    ASSUME device'.toClient = device.toClient, device'.conn = device.conn,
           call'.type = call.type, call'.n = call.n, call'.got = call.got,
           call'.answer = "message" <=> call.answer = "message"
    PROVE  Replies' = Replies /\ \A type : Granted(type)' <=> Granted(type)
  <1>1. Replies' = Replies
    BY DEF Replies, Idle
  <1> QED BY <1>1 DEF Granted

LEMMA HandlesKept ==
    ASSUME IInv, IInv', Handles,
           readers' = readers, device' = device, late' = late, bounds'.moved = bounds.moved,
           call'.type = call.type, call'.id = call.id, call'.n = call.n, call'.key = call.key,
           call'.got = call.got, call'.answer = "message" <=> call.answer = "message",
           Newest' = Newest, \A n \in Dispatchers : Known(n) => Known(n)',
           device.conn \in DOMAIN readers => plugin'.dispatcher = device.conn,
           ~late /\ device.handle # 0 /\ plugin'.dispatcher = device.conn =>
               plugin.dispatcher = device.conn,
           Fewer(connector.events, connector'.events, {"send"}),
           NothingComes => NothingComes',
           Gone(plugin'.events) <=> Gone(plugin.events)
    PROVE  Handles'
  <1>1. /\ connector.events \in Seq(ConnectorEvents(Dispatchers))
        /\ connector'.events \in Seq(ConnectorEvents(Dispatchers))
        /\ DOMAIN readers \subseteq {0} \cup Dispatchers
    <2>1. Dispatchers' = Dispatchers
      BY DEF Newest, Dispatchers
    <2> QED BY <2>1, Shapes, ShapesNext DEF Numbers
  <1>2. Replies' = Replies /\ (\A type : Granted(type)' <=> Granted(type)) /\ Request' = Request
        /\ (Absence' <=> Absence) /\ Idle' = Idle
    BY SameReplies DEF Request, Absence, Idle
  <1>3. ReadersAreNamed'
    BY <1>1, <1>2 DEF Handles, ReadersAreNamed
  <1>4. HandleIsKnown'
    BY DEF Handles, HandleIsKnown
  <1>5. RequestIsAsSent'
    <2>1. \A j \in DOMAIN connector'.events : connector'.events[j].type = "send" =>
              \E i \in DOMAIN connector.events : connector.events[i] = connector'.events[j]
      <3>1. "send" \in {"send"}
        OBVIOUS
      <3> QED BY <1>1, <3>1, FewerFacts
    <2>2. \A e \in LiveSends(device.conn) : e.type = "send"
      BY DEF LiveSends
    <2> QED BY <1>2, <2>1, <2>2 DEF Handles, RequestIsAsSent, Elements
  <1>6. RepliesFit'
    BY <1>2 DEF Handles, RepliesFit
  <1>7. StatusIsTrue' /\ HandlesAgree' /\ HandleIsHeld'
    BY <1>2 DEF Handles, StatusIsTrue, HandlesAgree, HandleIsHeld
  <1> QED BY <1>3, <1>4, <1>5, <1>6, <1>7 DEF Handles

-----------------------------------------------------------------------------
(* Steps in which nothing is posted that this invariant is about.          *)
ClientCalm(c, d) == Fewer(c.events, d.events, {"created"})
PluginCalm(p, q) ==
    /\ Fewer(p.events, q.events, {"dispatcher", "context", "status"})
    /\ Gone(q.events) <=> Gone(p.events)
    /\ q.dispatcher = p.dispatcher /\ q.hears = p.hears
ConnectorCalm(k, l) ==
    /\ Fewer(k.events, l.events, {"getStatus", "send"}) /\ Len(l.channels) = Len(k.channels)
    /\ \A n \in 1..Len(k.channels) : l.channels[n].context = k.channels[n].context

LEMMA NothingNew ==
    ASSUME IInv, IInv', Newest' = Newest, ClientCalm(client, client'), PluginCalm(plugin, plugin'),
           NothingComes
    PROVE  NothingComes'
  <1> DEFINE One == {"created"}
             All == {"dispatcher", "context", "status"}
  <1>1. /\ client.events \in Seq(ClientEvents(Dispatchers)) /\ client'.events \in Seq(ClientEvents(Dispatchers))
        /\ plugin.events \in Seq(PluginEvents(Dispatchers)) /\ plugin'.events \in Seq(PluginEvents(Dispatchers))
    <2>1. Dispatchers' = Dispatchers
      BY DEF Newest, Dispatchers
    <2> QED BY <2>1, Shapes, ShapesNext
  <1>2. None(client'.events, {"created"})
    <2>1. Fewer(client.events, client'.events, One) /\ One \in SUBSET One /\ None(client.events, One)
      BY DEF ClientCalm, NothingComes
    <2> HIDE DEF One
    <2>2. \A S \in SUBSET One : None(client.events, S) => None(client'.events, S)
      BY <1>1, <2>1, FewerFacts
    <2> QED BY <2>1, <2>2 DEF One
  <1>3. None(plugin'.events, {"dispatcher"})
    <2>1. /\ Fewer(plugin.events, plugin'.events, All) /\ {"dispatcher"} \in SUBSET All
          /\ None(plugin.events, {"dispatcher"})
      BY DEF PluginCalm, NothingComes
    <2> HIDE DEF All
    <2>2. \A S \in SUBSET All : None(plugin.events, S) => None(plugin'.events, S)
      BY <1>1, <2>1, FewerFacts
    <2> QED BY <2>1, <2>2
  <1> QED BY <1>2, <1>3 DEF NothingComes

LEMMA ConnectorCalmFacts ==
    ASSUME IInv, IInv', ConnectorCalm(connector, connector'), ContextIsKnown
    PROVE  /\ Newest' = Newest /\ \A n \in Dispatchers : Known(n) => Known(n)'
           /\ Fewer(connector.events, connector'.events, {"send"})
           /\ \A i \in DOMAIN connector'.events : Fits(connector.events[i])'
  <1>1. /\ Newest' = Newest
        /\ \A n \in Dispatchers : connector'.channels[n].context = connector.channels[n].context
    BY DEF ConnectorCalm, Newest, Dispatchers
  <1>2. PICK s \in Nat : \A j \in DOMAIN connector'.events :
            connector'.events[j].type \in {"getStatus", "send"} =>
                j + s \in DOMAIN connector.events /\ connector.events[j + s] = connector'.events[j]
    BY DEF ConnectorCalm, Fewer
  <1>3. Fewer(connector.events, connector'.events, {"send"})
    BY <1>2 DEF Fewer
  <1>4. ASSUME NEW i \in DOMAIN connector'.events
        PROVE  Fits(connector.events[i])'
    <2> DEFINE e == connector'.events[i]
    <2>1. e.type \in {"getStatus", "send"} => Fits(e) /\ e \in ConnectorEvents(Dispatchers)
      BY <1>2, Shapes DEF ContextIsKnown
    <2>2. e.type = "getStatus" => e.n \in Dispatchers
      BY <2>1 DEF ConnectorEvents
    <2> HIDE DEF e
    <2>3. e.type = "getStatus" => connector'.channels[e.n].context
      BY <1>1, <2>1, <2>2 DEF Fits, Known
    <2>4. e.type = "send" => e.msg.type \in Requests
      BY <2>1 DEF Fits
    <2> QED BY <2>3, <2>4 DEF Fits, Known, e
  <1> QED BY <1>1, <1>3, <1>4 DEF Known

LEMMA CalmStep ==
    ASSUME IInv, IInv', Agreed,
           readers' = readers, device' = device, late' = late, bounds'.moved = bounds.moved,
           call'.type = call.type, call'.id = call.id, call'.n = call.n, call'.key = call.key,
           call'.got = call.got, call'.answer = "message" <=> call.answer = "message",
           ClientCalm(client, client'), PluginCalm(plugin, plugin'),
           ConnectorCalm(connector, connector')
    PROVE  Agreed'
  <1>1. Paths /\ Handles /\ ContextIsKnown
    BY DEF Agreed, Paths
  <1>2. /\ Newest' = Newest /\ (\A n \in Dispatchers : Known(n) => Known(n)')
        /\ Fewer(connector.events, connector'.events, {"send"})
        /\ \A i \in DOMAIN connector'.events : Fits(connector.events[i])'
    BY <1>1, ConnectorCalmFacts
  <1>3. Paths'
    <2>1. /\ Fewer(client.events, client'.events, {"created"})
          /\ Fewer(plugin.events, plugin'.events, {"dispatcher", "context", "status"})
          /\ plugin'.dispatcher = plugin.dispatcher /\ plugin'.hears = plugin.hears
          /\ device'.conn \in {0, device.conn}
      BY DEF ClientCalm, PluginCalm
    <2>2. device'.conn # 0 /\ ~Known(device.conn) => NoStatus'
      BY <1>1 DEF ContextIsKnown, NoStatus
    <2> QED BY <1>1, <1>2, <2>1, <2>2, PathsKept
  <1>4. Handles'
    <2>1. NothingComes => NothingComes'
      BY <1>2, NothingNew
    <2>2. plugin'.dispatcher = plugin.dispatcher /\ (Gone(plugin'.events) <=> Gone(plugin.events))
      BY DEF PluginCalm
    <2>3. device.conn \in DOMAIN readers => plugin.dispatcher = device.conn
      BY <1>1 DEF Handles, ReadersAreNamed
    <2> QED BY <1>1, <1>2, <2>1, <2>2, <2>3, HandlesKept
  <1> QED BY <1>3, <1>4 DEF Agreed

(* Posting and taking an event. *)
LEMMA ClientCalmPosts ==
    ASSUME NEW D, NEW b \in ClientType(D), NEW c \in ClientType(D), ClientCalm(b, c),
           NEW type, NEW n, [type |-> type, n |-> n] \in ClientEvents(D), type # "created"
    PROVE  ClientCalm(b, PostClient(c, type, n)) /\ PostClient(c, type, n) \in ClientType(D)
  <1> DEFINE e == [type |-> type, n |-> n]
  <1>1. b.events \in Seq(ClientEvents(D)) /\ c.events \in Seq(ClientEvents(D))
        /\ e.type \notin {"created"}
    BY DEF ClientType
  <1>2. PostClient(c, type, n).events = Append(c.events, e) /\ PostClient(c, type, n) \in ClientType(D)
    <2> DEFINE q == Append(c.events, e)
    <2>1. q \in Seq(ClientEvents(D)) /\ PostClient(c, type, n) = [c EXCEPT !.events = q]
      BY <1>1 DEF PostClient
    <2> HIDE DEF q
    <2>2. [c EXCEPT !.events = q].events = q /\ [c EXCEPT !.events = q] \in ClientType(D)
      BY <2>1 DEF ClientType
    <2> QED BY <2>1, <2>2 DEF q
  <1> HIDE DEF e
  <1>3. Fewer(b.events, Append(c.events, e), {"created"})
    <2> DEFINE S == {"created"}
    <2>1. Fewer(b.events, c.events, S) /\ e.type \notin S
      BY <1>1 DEF ClientCalm
    <2>2. e \in ClientEvents(D)
      BY DEF e
    <2> HIDE DEF S
    <2>3. Fewer(b.events, Append(c.events, e), S)
      BY <1>1, <2>1, <2>2, FewerAppend
    <2> QED BY <2>3 DEF S
  <1> QED BY <1>2, <1>3 DEF ClientCalm

LEMMA ClientCalmTakes ==
    ASSUME IInv
    PROVE  /\ ClientCalm(client, client)
           /\ client.events # <<>> => ClientCalm(client, ClientRest) /\ ClientRest \in ClientType(Dispatchers)
                                      /\ ClientRest.events = Tail(client.events)
  <1>1. client.events \in Seq(ClientEvents(Dispatchers)) /\ client \in ClientType(Dispatchers) /\ TypeOK
    BY Shapes DEF IInv
  <1>2. client.events # <<>> => ClientRest.events = Tail(client.events)
    BY <1>1 DEF ClientRest, ClientType
  <1> DEFINE S == {"created"}
  <1> HIDE DEF S
  <1>3. Fewer(client.events, client.events, S)
    BY <1>1, FewerSame
  <1>4. client.events # <<>> => Fewer(client.events, Tail(client.events), S)
    BY <1>1, FewerTail
  <1> QED BY <1>1, <1>2, <1>3, <1>4, ClientTakes DEF ClientCalm, S

LEMMA GoneFacts ==
    ASSUME NEW T, NEW q \in Seq(T)
    PROVE  /\ \A x \in T : Gone(Append(q, x)) <=> Gone(q) \/ (x.type = "status" /\ x.arg = "none")
           /\ q # <<>> => (Gone(q) <=> Gone(Tail(q)) \/ (Head(q).type = "status" /\ Head(q).arg = "none"))
  <1>1. ASSUME NEW x \in T
        PROVE  Gone(Append(q, x)) <=> Gone(q) \/ (x.type = "status" /\ x.arg = "none")
    <2> DEFINE a == Append(q, x)
    <2>1. /\ \A i \in DOMAIN q : i \in DOMAIN a /\ a[i] = q[i]
          /\ Len(q) + 1 \in DOMAIN a /\ a[Len(q) + 1] = x
          /\ \A i \in DOMAIN a : i \in DOMAIN q \/ i = Len(q) + 1
      BY AppendFacts
    <2> HIDE DEF a
    <2>2. Gone(a) <=> Gone(q) \/ (x.type = "status" /\ x.arg = "none")
      BY <2>1 DEF Gone
    <2> QED BY <2>2 DEF a
  <1>2. ASSUME q # <<>>
        PROVE  Gone(q) <=> Gone(Tail(q)) \/ (Head(q).type = "status" /\ Head(q).arg = "none")
    <2> DEFINE t == Tail(q)
    <2>1. /\ Head(q) = q[1] /\ 1 \in DOMAIN q
          /\ \A i \in DOMAIN t : i + 1 \in DOMAIN q /\ t[i] = q[i + 1]
          /\ \A i \in DOMAIN q : i # 1 => i - 1 \in DOMAIN t /\ t[i - 1] = q[i]
      BY <1>2, TailFacts
    <2> HIDE DEF t
    <2>2. Gone(q) => Gone(t) \/ (q[1].type = "status" /\ q[1].arg = "none")
      BY <2>1 DEF Gone
    <2>3. Gone(t) \/ (q[1].type = "status" /\ q[1].arg = "none") => Gone(q)
      BY <2>1 DEF Gone
    <2> QED BY <2>1, <2>2, <2>3 DEF t
  <1> QED BY <1>1, <1>2

LEMMA PluginCalmPosts ==
    ASSUME NEW D, NEW b \in PluginType(D), NEW p \in PluginType(D), PluginCalm(b, p),
           NEW type, NEW n, NEW arg, [type |-> type, n |-> n, arg |-> arg] \in PluginEvents(D),
           type \notin {"dispatcher", "context", "status"}
    PROVE  PluginCalm(b, PostPlugin(p, type, n, arg)) /\ PostPlugin(p, type, n, arg) \in PluginType(D)
  <1> DEFINE e == [type |-> type, n |-> n, arg |-> arg]
             q == Append(p.events, e)
             S == {"dispatcher", "context", "status"}
  <1>1. /\ b.events \in Seq(PluginEvents(D)) /\ p.events \in Seq(PluginEvents(D))
        /\ e \in PluginEvents(D) /\ e.type \notin S /\ e.type # "status"
    BY DEF PluginType
  <1>2. /\ PostPlugin(p, type, n, arg).events = q /\ PostPlugin(p, type, n, arg) \in PluginType(D)
        /\ PostPlugin(p, type, n, arg).dispatcher = p.dispatcher
        /\ PostPlugin(p, type, n, arg).hears = p.hears
    <2>1. q \in Seq(PluginEvents(D)) /\ PostPlugin(p, type, n, arg) = [p EXCEPT !.events = q]
      BY <1>1 DEF PostPlugin
    <2> HIDE DEF q
    <2>2. /\ [p EXCEPT !.events = q].events = q /\ [p EXCEPT !.events = q] \in PluginType(D)
          /\ [p EXCEPT !.events = q].dispatcher = p.dispatcher
          /\ [p EXCEPT !.events = q].hears = p.hears
      BY <2>1 DEF PluginType
    <2> QED BY <2>1, <2>2
  <1> HIDE DEF e, S
  <1>3. Fewer(b.events, q, S)
    <2>1. Fewer(b.events, p.events, S)
      BY DEF PluginCalm, S
    <2> QED BY <1>1, <2>1, FewerAppend
  <1>4. Gone(q) <=> Gone(p.events)
    BY <1>1, GoneFacts
  <1> HIDE DEF q
  <1> QED BY <1>2, <1>3, <1>4 DEF PluginCalm, S

LEMMA PluginCalmTakes ==
    ASSUME IInv
    PROVE  /\ PluginCalm(plugin, plugin)
           /\ plugin.events # <<>> =>
                  /\ PluginRest.events = Tail(plugin.events) /\ PluginRest \in PluginType(Dispatchers)
                  /\ PluginArg.type # "status" => PluginCalm(plugin, PluginRest)
  <1>1. plugin.events \in Seq(PluginEvents(Dispatchers)) /\ plugin \in PluginType(Dispatchers) /\ TypeOK
    BY Shapes DEF IInv
  <1>2. plugin.events # <<>> =>
            /\ PluginRest.events = Tail(plugin.events) /\ PluginRest.dispatcher = plugin.dispatcher
            /\ PluginRest.hears = plugin.hears
    BY <1>1 DEF PluginRest, PluginType
  <1> DEFINE S == {"dispatcher", "context", "status"}
  <1> HIDE DEF S
  <1>3. Fewer(plugin.events, plugin.events, S)
    BY <1>1, FewerSame
  <1>4. plugin.events # <<>> => Fewer(plugin.events, Tail(plugin.events), S)
    BY <1>1, FewerTail
  <1>5. plugin.events # <<>> /\ PluginArg.type # "status" =>
            (Gone(Tail(plugin.events)) <=> Gone(plugin.events))
    BY <1>1, GoneFacts DEF PluginArg
  <1> QED BY <1>1, <1>2, <1>3, <1>4, <1>5, PluginTakes DEF PluginCalm, S

LEMMA ConnectorCalmPosts ==
    ASSUME NEW D, NEW k \in ConnectorType(D), NEW l \in ConnectorType(D), ConnectorCalm(k, l),
           NEW type, NEW n, NEW msg, [type |-> type, n |-> n, msg |-> msg] \in ConnectorEvents(D),
           type \notin {"getStatus", "send"}
    PROVE  ConnectorCalm(k, PostConnector(l, type, n, msg))
  <1> DEFINE e == [type |-> type, n |-> n, msg |-> msg]
             q == Append(l.events, e)
             S == {"getStatus", "send"}
  <1>1. /\ k.events \in Seq(ConnectorEvents(D)) /\ l.events \in Seq(ConnectorEvents(D))
        /\ e \in ConnectorEvents(D) /\ e.type \notin S
    BY DEF ConnectorType
  <1>2. /\ PostConnector(l, type, n, msg).events = q
        /\ PostConnector(l, type, n, msg).channels = l.channels
    <2>1. q \in Seq(ConnectorEvents(D)) /\ PostConnector(l, type, n, msg) = [l EXCEPT !.events = q]
      BY <1>1 DEF PostConnector
    <2> HIDE DEF q
    <2>2. [l EXCEPT !.events = q].events = q /\ [l EXCEPT !.events = q].channels = l.channels
      BY <2>1 DEF ConnectorType
    <2> QED BY <2>1, <2>2
  <1> HIDE DEF e, S
  <1>3. Fewer(k.events, q, S)
    <2>1. Fewer(k.events, l.events, S)
      BY DEF ConnectorCalm, S
    <2> QED BY <1>1, <2>1, FewerAppend
  <1> HIDE DEF q
  <1> QED BY <1>2, <1>3 DEF ConnectorCalm, S

LEMMA ConnectorCalmTakes ==
    ASSUME IInv
    PROVE  /\ ConnectorCalm(connector, connector)
           /\ connector.events # <<>> =>
                  ConnectorCalm(connector, ConnectorRest) /\ ConnectorRest.events = Tail(connector.events)
  <1>1. /\ connector.events \in Seq(ConnectorEvents(Dispatchers))
        /\ connector \in ConnectorType(Dispatchers) /\ TypeOK
    BY Shapes DEF IInv
  <1>2. connector.events # <<>> =>
            ConnectorRest.events = Tail(connector.events) /\ ConnectorRest.channels = connector.channels
    BY <1>1 DEF ConnectorRest, ConnectorType
  <1> DEFINE S == {"getStatus", "send"}
  <1> HIDE DEF S
  <1>3. Fewer(connector.events, connector.events, S)
    BY <1>1, FewerSame
  <1>4. connector.events # <<>> => Fewer(connector.events, Tail(connector.events), S)
    BY <1>1, FewerTail
  <1> QED BY <1>2, <1>3, <1>4 DEF ConnectorCalm, S

LEMMA UsesNoCard ==
    ASSUME IInv, NEW what \in {"attempts", "pairs", "vanish", "drops", "stops", "uses"}, Uses(what)
    PROVE  bounds'.moved = bounds.moved
  <1>1. bounds \in Limits
    BY Shapes
  <1> QED BY <1>1 DEF Uses, Limits

LEMMA QuietPosts ==
    ASSUME IInv
    PROVE  /\ \A type \in {"startDetection", "stopDetection", "requestDevices", "establish", "refused", "failed"} :
                  /\ ClientCalm(client, PostClient(client, type, 0))
                  /\ client.events # <<>> => ClientCalm(client, PostClient(ClientRest, type, 0))
           /\ PluginCalm(plugin, PostPlugin(plugin, "appeared", 0, "none"))
           /\ PluginCalm(plugin, PostPlugin(plugin, "devices", 0, client.list))
           /\ PluginCalm(plugin, Vanished(plugin)) /\ PluginCalm(plugin, AttemptDone(plugin))
           /\ AttemptDone(plugin) \in PluginType(Dispatchers)
  <1> DEFINE D == Dispatchers
  <1>1. /\ client \in ClientType(D) /\ plugin \in PluginType(D)
        /\ ClientCalm(client, client) /\ PluginCalm(plugin, plugin)
        /\ client.events # <<>> => ClientCalm(client, ClientRest) /\ ClientRest \in ClientType(D)
    BY Shapes, ClientCalmTakes, PluginCalmTakes
  <1> HIDE DEF D
  <1>2. ASSUME NEW type \in {"startDetection", "stopDetection", "requestDevices", "establish", "refused", "failed"}
        PROVE  /\ ClientCalm(client, PostClient(client, type, 0))
               /\ client.events # <<>> => ClientCalm(client, PostClient(ClientRest, type, 0))
    <2>1. [type |-> type, n |-> 0] \in ClientEvents(D) /\ type # "created"
      BY DEF ClientEvents
    <2>2. ClientCalm(client, PostClient(client, type, 0))
      BY <1>1, <2>1, ClientCalmPosts
    <2>3. client.events # <<>> => ClientCalm(client, PostClient(ClientRest, type, 0))
      BY <1>1, <2>1, ClientCalmPosts
    <2> QED BY <2>2, <2>3
  <1>3. ASSUME NEW type \in {"appeared", "devices", "vanished", "attemptDone"},
               NEW arg \in {"none", "plain", "pairing"}
        PROVE  PluginCalm(plugin, PostPlugin(plugin, type, 0, arg)) /\ PostPlugin(plugin, type, 0, arg) \in PluginType(D)
    <2>1. /\ [type |-> type, n |-> 0, arg |-> arg] \in PluginEvents(D)
          /\ type \notin {"dispatcher", "context", "status"}
      BY DEF PluginEvents
    <2> QED BY <1>1, <2>1, PluginCalmPosts
  <1>4. client.list \in {"none", "plain", "pairing"}
    BY <1>1 DEF ClientType
  <1> QED BY <1>1, <1>2, <1>3, <1>4 DEF Vanished, AttemptDone, D

(* The main thread. *)
LEMMA AnnounceAgrees ==
    ASSUME IInv, IInv', Agreed, Announce \/ Vanish
    PROVE  Agreed'
  <1>1. client \in ClientType(Dispatchers)
    BY Shapes
  <1>2. client'.events = client.events
    BY <1>1 DEF Announce, Vanish, ClientType
  <1>3. ClientCalm(client, client')
    BY <1>2, ClientCalmTakes DEF ClientCalm
  <1>4. PluginCalm(plugin, plugin')
    BY QuietPosts, PluginCalmTakes DEF Announce, Vanish
  <1>5. bounds'.moved = bounds.moved
    BY UsesNoCard DEF Announce, Vanish
  <1>6. UNCHANGED <<readers, call, connector, device, late>>
    BY DEF Announce, Vanish, Ghosts
  <1> QED BY <1>3, <1>4, <1>5, <1>6, ConnectorCalmTakes, CalmStep

LEMMA DetectionAgrees ==
    ASSUME IInv, IInv', Agreed,
           StartDetection \/ StopDetection \/ RequestRemoteDevices \/ OnDispatcherError \/ OnDispatcherDestroyed
    PROVE  Agreed'
  <1>1. client.events # <<>>
    BY DEF StartDetection, StopDetection, RequestRemoteDevices, OnDispatcherError, OnDispatcherDestroyed,
           Counted, ClientHandles
  <1>2. ClientRest \in ClientType(Dispatchers) /\ ClientCalm(client, ClientRest)
    BY <1>1, ClientCalmTakes
  <1>3. client'.events = ClientRest.events
    <2>1. CASE OnDispatcherError
      <3>1. \/ client' = [ClientRest EXCEPT !.pending = @ - 1, !.errors = 0]
            \/ \E errors, trusted : client' = [ClientRest EXCEPT !.pending = @ - 1, !.errors = errors,
                                                                 !.trusted = trusted]
        BY <2>1 DEF OnDispatcherError, Counted
      <3> QED BY <1>2, <3>1 DEF ClientType
    <2>2. CASE ~OnDispatcherError
      BY <1>2, <2>2 DEF StartDetection, StopDetection, RequestRemoteDevices, OnDispatcherDestroyed, ClientType
    <2> QED BY <2>1, <2>2
  <1>4. ClientCalm(client, client')
    BY <1>2, <1>3 DEF ClientCalm
  <1>5. PluginCalm(plugin, plugin')
    BY QuietPosts, PluginCalmTakes DEF StartDetection, StopDetection, RequestRemoteDevices,
                                       OnDispatcherError, OnDispatcherDestroyed
  <1>6. UNCHANGED <<bounds, readers, call, connector, device, late>>
    BY DEF StartDetection, StopDetection, RequestRemoteDevices, OnDispatcherError, OnDispatcherDestroyed, Ghosts
  <1> QED BY <1>4, <1>5, <1>6, ConnectorCalmTakes, CalmStep

LEMMA EstablishAgrees ==
    ASSUME IInv, IInv', Agreed, EstablishConnection \/ Pair
    PROVE  Agreed'
  <1>1. PICK c \in {client, ClientRest}, kind \in {"connect", "pair"} :
            /\ c = client \/ client.events # <<>>
            /\ client' = [c EXCEPT !.pending = @ + 1]
            /\ connector' = PostConnector(connector, kind, 0, NoMessage)
    BY DEF EstablishConnection, Pair, Establish, ClientHandles
  <1>2. c \in ClientType(Dispatchers) /\ ClientCalm(client, c)
    BY <1>1, Shapes, ClientCalmTakes
  <1>3. client'.events = c.events
    BY <1>1, <1>2 DEF ClientType
  <1>4. ClientCalm(client, client')
    BY <1>2, <1>3 DEF ClientCalm
  <1>5. ConnectorCalm(connector, connector')
    <2>1. /\ [type |-> kind, n |-> 0, msg |-> NoMessage] \in ConnectorEvents(Dispatchers)
          /\ kind \notin {"getStatus", "send"}
      BY NoMessageTyped DEF ConnectorEvents
    <2>2. connector \in ConnectorType(Dispatchers) /\ ConnectorCalm(connector, connector)
      BY Shapes, ConnectorCalmTakes
    <2> QED BY <1>1, <2>1, <2>2, ConnectorCalmPosts
  <1>6. bounds'.moved = bounds.moved
    BY UsesNoCard DEF EstablishConnection, Pair
  <1>7. UNCHANGED <<plugin, readers, call, device, late>>
    BY DEF EstablishConnection, Pair, Establish, Ghosts
  <1> QED BY <1>4, <1>5, <1>6, <1>7, PluginCalmTakes, CalmStep

(* The plugin scans, asks for a connection and learns how that went.       *)
LEMMA ScanAgrees ==
    ASSUME IInv, IInv', Agreed,
           ScanTimer \/ DeviceAppeared \/ ContinueConnect \/ ForgetAttempt \/ StartScan \/ StopScan
    PROVE  Agreed'
  <1>1. plugin \in PluginType(Dispatchers)
    BY Shapes
  <1>2. PICK p \in PluginType(Dispatchers) :
            PluginCalm(plugin, p) /\ plugin'.events = p.events
                /\ plugin'.dispatcher = p.dispatcher /\ plugin'.hears = p.hears
    <2>1. CASE ScanTimer \/ StartScan \/ StopScan
      <3>1. /\ plugin'.events = plugin.events /\ plugin'.dispatcher = plugin.dispatcher
            /\ plugin'.hears = plugin.hears
        BY <1>1, <2>1 DEF ScanTimer, StartScan, StopScan, ConnectToPairedReaders, PluginType
      <3> QED BY <1>1, <3>1, PluginCalmTakes
    <2>2. CASE DeviceAppeared \/ ContinueConnect \/ ForgetAttempt
      <3>1. plugin.events # <<>> /\ PluginArg.type # "status"
        BY <2>2 DEF DeviceAppeared, ContinueConnect, ForgetAttempt, PluginHandles, PluginArg
      <3>2. PluginRest \in PluginType(Dispatchers) /\ PluginCalm(plugin, PluginRest)
        BY <3>1, PluginCalmTakes
      <3>3. /\ plugin'.events = PluginRest.events /\ plugin'.dispatcher = PluginRest.dispatcher
            /\ plugin'.hears = PluginRest.hears
        <4>1. CASE ContinueConnect
          <5>1. \E attempt : plugin' = [[PluginRest EXCEPT !.listening = FALSE] EXCEPT !.attempt = attempt]
            BY <4>1 DEF ContinueConnect
          <5> QED BY <3>2, <5>1 DEF PluginType
        <4>2. CASE DeviceAppeared \/ ForgetAttempt
          BY <3>2, <4>2 DEF DeviceAppeared, ForgetAttempt, ConnectToPairedReaders, PluginType
        <4> QED BY <2>2, <4>1, <4>2
      <3> QED BY <3>2, <3>3
    <2> QED BY <2>1, <2>2
  <1>3. PluginCalm(plugin, plugin')
    BY <1>2 DEF PluginCalm
  <1>4. ClientCalm(client, client')
    BY QuietPosts, ClientCalmTakes DEF ScanTimer, DeviceAppeared, ContinueConnect, ForgetAttempt,
                                       StartScan, StopScan, ConnectToPairedReaders
  <1>5. ConnectorCalm(connector, connector')
    <2>1. connector \in ConnectorType(Dispatchers) /\ ConnectorCalm(connector, connector)
      BY Shapes, ConnectorCalmTakes
    <2>2. CASE connector' = connector
      BY <2>1, <2>2
    <2>3. CASE connector' # connector
      <3>1. /\ plugin.dispatcher # 0
            /\ connector' = PostConnector(connector, "close", plugin.dispatcher, NoMessage)
        BY <2>3 DEF ScanTimer, DeviceAppeared, ContinueConnect, ForgetAttempt, StartScan, StopScan,
                    ConnectToPairedReaders
      <3>2. /\ [type |-> "close", n |-> plugin.dispatcher, msg |-> NoMessage] \in ConnectorEvents(Dispatchers)
            /\ "close" \notin {"getStatus", "send"}
        BY <3>1, Shapes, NoMessageTyped DEF ConnectorEvents
      <3> QED BY <2>1, <3>1, <3>2, ConnectorCalmPosts
    <2> QED BY <2>2, <2>3
  <1>6. bounds'.moved = bounds.moved
    BY UsesNoCard DEF ScanTimer, DeviceAppeared, ContinueConnect, ForgetAttempt, StartScan, StopScan,
                      ConnectToPairedReaders
  <1>7. UNCHANGED <<readers, call, device, late>>
    BY DEF ScanTimer, DeviceAppeared, ContinueConnect, ForgetAttempt, StartScan, StopScan,
           ConnectToPairedReaders, Ghosts
  <1> QED BY <1>3, <1>4, <1>5, <1>6, <1>7, CalmStep

LEMMA WaitAgrees ==
    ASSUME IInv, IInv', Agreed, Wait
    PROVE  Agreed'
  <1>1. call \in CallType(Dispatchers)
    BY Shapes
  <1>2. /\ call'.type = call.type /\ call'.id = call.id /\ call'.n = call.n /\ call'.key = call.key
        /\ call'.answer = call.answer /\ call'.got = call.got
    BY <1>1 DEF Wait, CallType
  <1>3. UNCHANGED <<bounds, client, plugin, readers, connector, device, late>>
    BY DEF Wait, Ghosts
  <1> QED BY <1>2, <1>3, ClientCalmTakes, PluginCalmTakes, ConnectorCalmTakes, CalmStep

(* The connector takes a request for a connection, or gives one up.        *)
LEMMA RequestsAgree ==
    ASSUME IInv, IInv', Agreed, OnConnectRequest \/ ConnectionError
    PROVE  Agreed'
  <1>1. connector \in ConnectorType(Dispatchers) /\ connector.events \in Seq(ConnectorEvents(Dispatchers))
    BY Shapes
  <1>2. ConnectorCalm(connector, connector')
    <2>1. CASE OnConnectRequest
      <3>1. connector.events # <<>>
        BY <2>1 DEF OnConnectRequest, ConnectorHandles
      <3>2. ConnectorRest \in ConnectorType(Dispatchers) /\ ConnectorCalm(connector, ConnectorRest)
        BY <3>1, ConnectorTakes, ConnectorCalmTakes DEF IInv
      <3>3. \E q : connector' = [ConnectorRest EXCEPT !.requests = q]
        BY <2>1 DEF OnConnectRequest
      <3>4. connector'.events = ConnectorRest.events /\ connector'.channels = ConnectorRest.channels
        BY <3>2, <3>3 DEF ConnectorType
      <3> QED BY <3>2, <3>4 DEF ConnectorCalm
    <2>2. CASE ConnectionError
      <3>1. \E q : connector' = [connector EXCEPT !.requests = q]
        BY <2>2 DEF ConnectionError
      <3>2. connector'.events = connector.events /\ connector'.channels = connector.channels
        BY <1>1, <3>1 DEF ConnectorType
      <3> QED BY <3>2, ConnectorCalmTakes DEF ConnectorCalm
    <2> QED BY <2>1, <2>2
  <1>3. ClientCalm(client, client')
    BY QuietPosts, ClientCalmTakes DEF OnConnectRequest, ConnectionError
  <1>4. UNCHANGED <<bounds, plugin, readers, call, device, late>>
    BY DEF OnConnectRequest, ConnectionError, Ghosts
  <1> QED BY <1>2, <1>3, <1>4, PluginCalmTakes, CalmStep

LEMMA StutterAgrees ==
    ASSUME IInv, IInv', Agreed, UNCHANGED vars
    PROVE  Agreed'
  <1>1. UNCHANGED <<bounds, client, plugin, readers, call, connector, device, late>>
    BY DEF vars
  <1> QED BY <1>1, ClientCalmTakes, PluginCalmTakes, ConnectorCalmTakes, CalmStep

-----------------------------------------------------------------------------
(* The dispatcher on its way to the plugin, and its end.                   *)
LEMMA OnDispatcherCreatedAgrees ==
    ASSUME IInv, IInv', Agreed, OnDispatcherCreated
    PROVE  Agreed'
  <1> DEFINE D == Dispatchers
             S == {"dispatcher", "context", "status"}
             q == client.events
             m == Head(client.events).n
             p == AttemptDone(plugin)
             e == [type |-> "dispatcher", n |-> m, arg |-> "none"]
  <1>1. /\ q \in Seq(ClientEvents(D)) /\ q # <<>> /\ Head(q).type = "created" /\ m \in D
        /\ 0 \notin D /\ p \in PluginType(D) /\ PluginCalm(plugin, p)
        /\ p.events \in Seq(PluginEvents(D)) /\ plugin.events \in Seq(PluginEvents(D))
    <2>1. q \in Seq(ClientEvents(D)) /\ q # <<>> /\ Head(q).type = "created"
      BY Shapes DEF OnDispatcherCreated, ClientHandles
    <2>2. Head(q) \in ClientEvents(D)
      BY <2>1
    <2>3. m \in D
      BY <2>1, <2>2 DEF ClientEvents
    <2>4. 0 \notin D /\ p \in PluginType(D) /\ PluginCalm(plugin, p) /\ plugin.events \in Seq(PluginEvents(D))
      BY Shapes, QuietPosts
    <2>5. p.events \in Seq(PluginEvents(D))
      BY <2>4 DEF PluginType
    <2> QED BY <2>1, <2>3, <2>4, <2>5
  <1>2. client'.events = Tail(q) /\ ClientCalm(client, client')
    <2>1. /\ ClientRest \in ClientType(D) /\ ClientRest.events = Tail(q) /\ ClientCalm(client, ClientRest)
      BY <1>1, ClientCalmTakes
    <2>2. client'.events = ClientRest.events
      BY <2>1 DEF OnDispatcherCreated, ClientType
    <2> QED BY <2>1, <2>2 DEF ClientCalm
  <1>3. /\ e \in PluginEvents(D) /\ e.type = "dispatcher" /\ e.n = m
    BY <1>1 DEF PluginEvents
  <1>4. /\ plugin'.events = Append(p.events, e) /\ plugin'.dispatcher = plugin.dispatcher
        /\ plugin'.hears = plugin.hears
    <2> DEFINE r == Append(p.events, e)
    <2>1. r \in Seq(PluginEvents(D)) /\ plugin' = [p EXCEPT !.events = r]
      BY <1>1, <1>3 DEF OnDispatcherCreated, PostPlugin, ClientArg
    <2> HIDE DEF r, p
    <2>2. /\ [p EXCEPT !.events = r].events = r /\ [p EXCEPT !.events = r].dispatcher = p.dispatcher
          /\ [p EXCEPT !.events = r].hears = p.hears
      BY <1>1 DEF PluginType
    <2> QED BY <1>1, <2>1, <2>2 DEF PluginCalm, r
  <1>5. UNCHANGED <<bounds, readers, call, connector, device, late>> /\ Newest' = Newest
    BY DEF OnDispatcherCreated, Ghosts, Newest
  <1>6. /\ NewestIsLast /\ DispatcherIsHeard /\ ContextIsKnown /\ Handles
        /\ ~None(client.events, {"created"})
    <2>1. ~None(q, {"created"})
      BY <1>1, OneLess
    <2> QED BY <2>1 DEF Agreed, Paths
  <1> HIDE DEF e, p, m
  <1>7. NewestIsLast'
    <2>1. \A i \in DOMAIN p.events :
              ~(p.events[i].type = "dispatcher" /\ p.events[i].n = Newest)
      <3>1. Fewer(plugin.events, p.events, S) /\ "dispatcher" \in S
        BY <1>1 DEF PluginCalm
      <3> HIDE DEF S
      <3>2. \A j \in DOMAIN p.events : p.events[j].type \in S =>
                \E i \in DOMAIN plugin.events : plugin.events[i] = p.events[j]
        BY <1>1, <3>1, FewerFacts
      <3> QED BY <1>6, <3>1, <3>2 DEF NewestIsLast
    <2>2. OnlyLast(client'.events, "created", Newest)
      <3>1. OnlyLast(client.events, "created", Newest)
        BY <1>6 DEF NewestIsLast
      <3> DEFINE One == {"created"}
      <3>2. Fewer(client.events, client'.events, One) /\ "created" \in One
        BY <1>2 DEF ClientCalm
      <3>3. client'.events \in Seq(ClientEvents(D))
        BY <1>1, <1>2
      <3> HIDE DEF One
      <3>4. \A t \in One : \A n : OnlyLast(client.events, t, n) => OnlyLast(client'.events, t, n)
        BY <1>1, <3>2, <3>3, FewerFacts
      <3> QED BY <3>1, <3>2, <3>4
    <2>3. OnlyLast(plugin'.events, "dispatcher", Newest)
      <3>1. OnlyLast(p.events, "dispatcher", Newest)
        BY <2>1 DEF OnlyLast
      <3> QED BY <1>1, <1>3, <1>4, <2>1, <3>1, OneMore
    <2>4. ASSUME NEW i \in DOMAIN plugin'.events,
                 plugin'.events[i].type = "dispatcher", plugin'.events[i].n = Newest
          PROVE  None(client'.events, {"created"})
      <3>1. (i \in DOMAIN p.events /\ plugin'.events[i] = p.events[i]) \/ plugin'.events[i] = e
        BY <1>1, <1>3, <1>4, AppendFacts
      <3>2. m = Newest
        BY <1>3, <2>1, <2>4, <3>1
      <3>3. OnlyLast(q, Head(q).type, m) /\ Head(q).n = m
        BY <1>1, <1>6, <3>2 DEF NewestIsLast, m
      <3>4. None(Tail(q), {Head(q).type})
        BY <1>1, <3>3, OneLess
      <3> QED BY <1>1, <1>2, <3>4
    <2>5. Newest \notin plugin.hears
      BY <1>6 DEF NewestIsLast, NothingComes
    <2> QED BY <1>4, <1>5, <1>6, <2>2, <2>3, <2>4, <2>5 DEF NewestIsLast
  <1>8. DispatcherIsHeard'
    BY <1>4, <1>5, <1>6 DEF DispatcherIsHeard
  <1>9. ContextIsKnown'
    <2> DEFINE C == {"context", "status"}
    <2>1. /\ Before(plugin.events, C, "dispatcher") => Before(p.events, C, "dispatcher")
          /\ None(plugin.events, C) => None(p.events, C)
      <3>1. Fewer(plugin.events, p.events, S) /\ C \in SUBSET S /\ "dispatcher" \in S
        BY <1>1 DEF PluginCalm
      <3> HIDE DEF S, C
      <3>2. /\ \A X \in SUBSET S : None(plugin.events, X) => None(p.events, X)
            /\ \A X \in SUBSET S : \A t \in S : Before(plugin.events, X, t) => Before(p.events, X, t)
        BY <1>1, <3>1, FewerFacts
      <3> QED BY <3>1, <3>2
    <2>2. e.type \notin C /\ "dispatcher" \notin C
      BY <1>3
    <2> HIDE DEF C
    <2>3. /\ Before(plugin.events, C, "dispatcher") => Before(plugin'.events, C, "dispatcher")
          /\ None(plugin.events, C) => None(plugin'.events, C)
      <3>1. /\ \A X : None(Append(p.events, e), X) <=> None(p.events, X) /\ e.type \notin X
            /\ \A X, t : t \notin X /\ Before(p.events, X, t) /\ (e.type \in X => None(p.events, {t}))
                             => Before(Append(p.events, e), X, t)
        BY <1>1, <1>3, OneMore
      <3>2. None(p.events, C) => None(Append(p.events, e), C)
        BY <2>2, <3>1
      <3>3. Before(p.events, C, "dispatcher") => Before(Append(p.events, e), C, "dispatcher")
        BY <2>2, <3>1
      <3> QED BY <1>4, <2>1, <3>2, <3>3
    <2>4. /\ Before(plugin'.events, C, "dispatcher")
          /\ plugin.dispatcher # 0 /\ ~Known(plugin.dispatcher) => None(plugin'.events, C)
      BY <1>6, <2>3 DEF ContextIsKnown, C
    <2> QED BY <1>4, <1>5, <1>6, <2>4 DEF ContextIsKnown, NoStatus, C, Known, Fits
  <1>10. Handles'
    <2>1. ~NothingComes
      BY <1>6 DEF NothingComes
    <2>2. Gone(plugin'.events) <=> Gone(plugin.events)
      <3>1. Gone(plugin'.events) <=> Gone(p.events)
        BY <1>1, <1>3, <1>4, GoneFacts
      <3> QED BY <1>1, <3>1 DEF PluginCalm
    <2>3. Fewer(connector.events, connector'.events, {"send"})
      <3> DEFINE X == {"send"}
      <3> HIDE DEF X
      <3>1. Fewer(connector.events, connector.events, X)
        BY Shapes, FewerSame
      <3> QED BY <1>5, <3>1 DEF X
    <2>4. /\ device.conn \in DOMAIN readers => plugin.dispatcher = device.conn
          /\ \A n \in Dispatchers : Known(n) => Known(n)'
      BY <1>5, <1>6 DEF Handles, ReadersAreNamed, Known
    <2> QED BY <1>4, <1>5, <1>6, <2>1, <2>2, <2>3, <2>4, HandlesKept
  <1> QED BY <1>7, <1>8, <1>9, <1>10 DEF Agreed, Paths

(* An event of another type is posted to the connector. *)
LEMMA PostsFit ==
    ASSUME IInv, ContextIsKnown, NEW type, NEW n, NEW msg,
           [type |-> type, n |-> n, msg |-> msg] \in ConnectorEvents(Dispatchers),
           Fits([type |-> type, n |-> n, msg |-> msg]),
           connector' = PostConnector(connector, type, n, msg)
    PROVE  /\ connector'.events = Append(connector.events, [type |-> type, n |-> n, msg |-> msg])
           /\ Newest' = Newest /\ connector'.channels = connector.channels
           /\ \A j \in Dispatchers : Known(j) => Known(j)'
           /\ \A i \in DOMAIN connector'.events : Fits(connector.events[i])'
           /\ type # "send" => Fewer(connector.events, connector'.events, {"send"})
  <1> DEFINE e == [type |-> type, n |-> n, msg |-> msg]
             r == Append(connector.events, e)
  <1>1. connector \in ConnectorType(Dispatchers) /\ connector.events \in Seq(ConnectorEvents(Dispatchers))
    BY Shapes
  <1>2. connector'.events = r /\ connector'.channels = connector.channels
    <2>1. r \in Seq(ConnectorEvents(Dispatchers)) /\ connector' = [connector EXCEPT !.events = r]
      BY <1>1 DEF PostConnector
    <2> HIDE DEF r
    <2> QED BY <1>1, <2>1 DEF ConnectorType
  <1>3. \A i \in DOMAIN r : r[i] = e \/ (i \in DOMAIN connector.events /\ r[i] = connector.events[i])
    BY <1>1, AppendFacts
  <1>4. e.type = type /\ Fits(e) /\ e \in ConnectorEvents(Dispatchers)
    OBVIOUS
  <1> HIDE DEF e, r
  <1>5. ASSUME NEW i \in DOMAIN connector'.events
        PROVE  Fits(connector.events[i])'
    <2>1. Fits(r[i])
      BY <1>2, <1>3, <1>4 DEF ContextIsKnown
    <2> QED BY <1>2, <2>1 DEF Fits, Known
  <1>6. ASSUME type # "send" PROVE Fewer(connector.events, connector'.events, {"send"})
    <2> DEFINE X == {"send"}
    <2>1. e.type \notin X
      BY <1>4, <1>6
    <2> HIDE DEF X
    <2>2. Fewer(connector.events, connector.events, X)
      BY <1>1, FewerSame
    <2>3. Fewer(connector.events, r, X)
      BY <1>1, <1>4, <2>1, <2>2, FewerAppend DEF r
    <2> QED BY <1>2, <2>3 DEF X
  <1> QED BY <1>2, <1>5, <1>6 DEF Newest, Known, r, e

LEMMA AddDispatcherAgrees ==
    ASSUME IInv, IInv', Agreed, AddDispatcher
    PROVE  Agreed'
  <1> DEFINE D == Dispatchers
             q == plugin.events
             m == PluginArg.n
  <1>1. /\ q \in Seq(PluginEvents(D)) /\ q # <<>> /\ Head(q).type = "dispatcher" /\ Head(q).n = m
        /\ m \in D /\ 0 \notin D /\ D = 1..Newest /\ Newest \in Nat /\ plugin \in PluginType(D)
        /\ device.conn \in {0} \cup D
    <2>1. q \in Seq(PluginEvents(D)) /\ q # <<>> /\ Head(q).type = "dispatcher" /\ Head(q).n = m
      BY Shapes DEF AddDispatcher, PluginHandles, PluginArg
    <2>2. Head(q) \in PluginEvents(D)
      BY <2>1
    <2>3. m \in D
      BY <2>1, <2>2 DEF PluginEvents
    <2> QED BY <2>1, <2>3, Shapes
  <1>2. /\ plugin'.events = Tail(q) /\ plugin'.dispatcher = m /\ plugin'.hears = plugin.hears \cup {m}
    <2>1. /\ PluginRest \in PluginType(D) /\ PluginRest.events = Tail(q)
          /\ PluginRest.hears = plugin.hears
      BY <1>1, PluginCalmTakes, PluginTakes DEF IInv
    <2> QED BY <2>1 DEF AddDispatcher, PluginType
  <1>3. /\ UNCHANGED <<bounds, client, readers, call, device, late>>
        /\ connector' = PostConnector(connector, "context", m, NoMessage)
    BY DEF AddDispatcher, Ghosts
  <1>4. /\ NewestIsLast /\ DispatcherIsHeard /\ ContextIsKnown /\ Handles
        /\ ~None(plugin.events, {"dispatcher"})
    <2>1. ~None(q, {"dispatcher"})
      BY <1>1, OneLess
    <2> QED BY <2>1 DEF Agreed, Paths
  <1>5. Newest \notin plugin.hears /\ device.conn \notin plugin.hears
    BY <1>1, <1>4, Shapes DEF NewestIsLast, NothingComes
  <1>6. /\ Newest' = Newest /\ connector'.channels = connector.channels
        /\ \A j \in Dispatchers : Known(j) => Known(j)'
        /\ \A i \in DOMAIN connector'.events : Fits(connector.events[i])'
        /\ Fewer(connector.events, connector'.events, {"send"})
    <2>1. /\ [type |-> "context", n |-> m, msg |-> NoMessage] \in ConnectorEvents(D)
          /\ Fits([type |-> "context", n |-> m, msg |-> NoMessage]) /\ "context" # "send"
      BY <1>1, NoMessageTyped DEF ConnectorEvents, Fits
    <2> QED BY <1>3, <1>4, <2>1, PostsFit
  <1> HIDE DEF m
  <1>8. /\ \A X : None(q, X) => None(Tail(q), X)
        /\ \A t, n : OnlyLast(q, t, n) => OnlyLast(Tail(q), t, n)
        /\ \A X, t : Before(q, X, t) => Before(Tail(q), X, t)
        /\ \A j \in DOMAIN Tail(q) : \E i \in DOMAIN q : q[i] = Tail(q)[j]
    BY <1>1, TailLoses
  <1>9. NewestIsLast'
    <2>1. OnlyLast(Tail(q), "dispatcher", Newest)
      BY <1>4, <1>8 DEF NewestIsLast
    <2>2. ASSUME NEW i \in DOMAIN Tail(q), Tail(q)[i].type = "dispatcher", Tail(q)[i].n = Newest
          PROVE  None(client.events, {"created"})
      BY <1>4, <1>8, <2>2 DEF NewestIsLast
    <2>3. ASSUME Newest \in plugin'.hears PROVE NothingComes'
      <3>1. m = Newest
        BY <1>2, <1>5, <2>3
      <3>2. None(Tail(q), {"dispatcher"})
        <4>1. OnlyLast(q, Head(q).type, m) /\ Head(q).n = m
          BY <1>1, <1>4, <3>1 DEF NewestIsLast
        <4> QED BY <1>1, <4>1, OneLess
      <3>3. None(client.events, {"created"})
        <4>1. 1 \in DOMAIN q /\ q[1] = Head(q)
          BY <1>1, TailFacts
        <4> QED BY <1>1, <1>4, <3>1, <4>1 DEF NewestIsLast
      <3> QED BY <1>2, <1>3, <3>2, <3>3 DEF NothingComes
    <2> QED BY <1>2, <1>3, <1>4, <1>6, <2>1, <2>2, <2>3 DEF NewestIsLast
  <1>10. DispatcherIsHeard'
    BY <1>1, <1>2, <1>3, <1>5 DEF DispatcherIsHeard
  <1>11. ContextIsKnown'
    <2>1. None(q, {"context", "status"})
      <3>1. Before(q, {"context", "status"}, Head(q).type)
        BY <1>1, <1>4 DEF ContextIsKnown
      <3> QED BY <1>1, <3>1, OneLess
    <2>2. None(Tail(q), {"context", "status"}) /\ Before(Tail(q), {"context", "status"}, "dispatcher")
      BY <1>4, <1>8, <2>1 DEF ContextIsKnown
    <2> QED BY <1>2, <1>3, <1>4, <1>6, <2>2 DEF ContextIsKnown, NoStatus, Known
  <1>12. Handles'
    <2>1. ~NothingComes
      BY <1>4 DEF NothingComes
    <2>2. Gone(plugin'.events) <=> Gone(plugin.events)
      BY <1>1, <1>2, GoneFacts
    <2>3. device.conn \notin DOMAIN readers
      <3>1. ASSUME device.conn \in DOMAIN readers PROVE FALSE
        <4>1. plugin.dispatcher = device.conn /\ device.conn # 0
          BY <1>4, <3>1 DEF Handles, ReadersAreNamed
        <4> QED BY <1>4, <1>5, <4>1 DEF DispatcherIsHeard
      <3> QED BY <3>1
    <2>4. ~late => device.handle = 0
      BY <1>4, <2>1 DEF Handles, HandleIsKnown
    <2> QED BY <1>3, <1>4, <1>6, <2>1, <2>2, <2>3, <2>4, HandlesKept
  <1> QED BY <1>9, <1>10, <1>11, <1>12 DEF Agreed, Paths

LEMMA ContextEstablishedAgrees ==
    ASSUME IInv, IInv', Agreed, ContextEstablished
    PROVE  Agreed'
  <1> DEFINE d == plugin.dispatcher
  <1>1. /\ plugin.events # <<>> /\ PluginArg.type = "context" /\ plugin' = PluginRest
        /\ UNCHANGED <<bounds, client, readers, call, device, late>>
        /\ \/ connector' = connector
           \/ d # 0 /\ connector' = PostConnector(connector, "close", d, NoMessage)
           \/ d # 0 /\ connector' = PostConnector(connector, "getStatus", d, NoMessage)
    BY DEF ContextEstablished, PluginHandles, PluginArg, Ghosts
  <1>2. PluginCalm(plugin, plugin') /\ ClientCalm(client, client')
    BY <1>1, PluginCalmTakes, ClientCalmTakes
  <1>3. CASE \/ connector' = connector
             \/ d # 0 /\ connector' = PostConnector(connector, "close", d, NoMessage)
    <2>1. ConnectorCalm(connector, connector')
      <3>1. connector \in ConnectorType(Dispatchers) /\ ConnectorCalm(connector, connector)
        BY Shapes, ConnectorCalmTakes
      <3>2. /\ d # 0 => [type |-> "close", n |-> d, msg |-> NoMessage] \in ConnectorEvents(Dispatchers)
            /\ "close" \notin {"getStatus", "send"}
        BY Shapes, NoMessageTyped DEF ConnectorEvents
      <3> QED BY <1>3, <3>1, <3>2, ConnectorCalmPosts
    <2> QED BY <1>1, <1>2, <2>1, CalmStep
  <1>4. CASE d # 0 /\ connector' = PostConnector(connector, "getStatus", d, NoMessage)
    <2>1. Paths /\ Handles /\ ContextIsKnown
      BY DEF Agreed, Paths
    <2>2. Known(d)
      <3> DEFINE C == {"context", "status"}
      <3>0. Head(plugin.events).type \in C /\ plugin.events \in Seq(PluginEvents(Dispatchers))
        BY <1>1, Shapes DEF PluginArg
      <3> HIDE DEF C
      <3>9. \A X : None(plugin.events, X) => Head(plugin.events).type \notin X
        BY <1>1, <3>0, OneLess
      <3>1. ~None(plugin.events, {"context", "status"})
        BY <3>0, <3>9 DEF C
      <3> QED BY <1>4, <2>1, <3>1 DEF ContextIsKnown
    <2>3. /\ Newest' = Newest /\ (\A j \in Dispatchers : Known(j) => Known(j)')
          /\ \A i \in DOMAIN connector'.events : Fits(connector.events[i])'
          /\ Fewer(connector.events, connector'.events, {"send"})
      <3>1. /\ [type |-> "getStatus", n |-> d, msg |-> NoMessage] \in ConnectorEvents(Dispatchers)
            /\ Fits([type |-> "getStatus", n |-> d, msg |-> NoMessage]) /\ "getStatus" # "send"
        BY <1>4, <2>2, Shapes, NoMessageTyped DEF ConnectorEvents, Fits
      <3> QED BY <1>4, <2>1, <3>1, PostsFit
    <2>4. /\ Fewer(client.events, client'.events, {"created"})
          /\ Fewer(plugin.events, plugin'.events, {"dispatcher", "context", "status"})
          /\ plugin'.dispatcher = plugin.dispatcher /\ plugin'.hears = plugin.hears
          /\ Gone(plugin'.events) <=> Gone(plugin.events)
      BY <1>2 DEF ClientCalm, PluginCalm
    <2>5. /\ device'.conn \in {0, device.conn}
          /\ device'.conn # 0 /\ ~Known(device.conn) => NoStatus'
      BY <1>1, <2>1 DEF ContextIsKnown, NoStatus
    <2>6. Paths'
      BY <2>1, <2>3, <2>4, <2>5, PathsKept
    <2>7. (NothingComes => NothingComes') /\ (device.conn \in DOMAIN readers => plugin.dispatcher = device.conn)
      BY <1>2, <2>1, <2>3, NothingNew DEF Handles, ReadersAreNamed
    <2>8. Handles'
      BY <1>1, <2>1, <2>3, <2>4, <2>7, HandlesKept
    <2> QED BY <2>6, <2>8 DEF Agreed
  <1> QED BY <1>1, <1>3, <1>4

-----------------------------------------------------------------------------
(* Steps that begin or end a request: then nothing is on its way.          *)
LEMMA NoneAround ==
    ASSUME IInv, ~late, ~Asking
    PROVE  /\ \A i \in DOMAIN connector.events : connector.events[i] \notin LiveSends(device.conn)
           /\ \A i \in DOMAIN device.toDevice : device.toDevice[i] \notin OnTheWay
           /\ \A i \in DOMAIN device.jobs : device.jobs[i] \notin OnTheWay
           /\ \A i \in DOMAIN device.toClient : device.toClient[i] \notin OnTheWay
  <1>1. /\ connector.events \in Seq(ConnectorEvents(Dispatchers)) /\ device.toDevice \in Seq(Messages)
        /\ device.jobs \in Seq(Messages) /\ device.toClient \in Seq(Messages)
    BY Shapes
  <1>2. /\ Many(connector.events, LiveSends(device.conn)) \in Nat
        /\ Many(device.toDevice, OnTheWay) \in Nat /\ Many(device.jobs, OnTheWay) \in Nat
        /\ Many(device.toClient, OnTheWay) \in Nat
    BY <1>1, ManyIsFinite
  <1>3. Flight(connector, device) <= 0
    BY DEF IInv, OneInFlight
  <1>4. /\ Many(connector.events, LiveSends(device.conn)) = 0
        /\ Many(device.toDevice, OnTheWay) = 0 /\ Many(device.jobs, OnTheWay) = 0
        /\ Many(device.toClient, OnTheWay) = 0
    BY <1>2, <1>3 DEF Flight
  <1> QED BY <1>1, <1>4, NoneOfNone

(* The answer of the request that is about to end. *)
Taken(type) ==
    ~Idle /\ call.n = device.conn /\ call.answer = "message" /\ call.got.ok /\ call.type = type

LEMMA GrantedIsTaken ==
    ASSUME IInv, Handles, ~late, ~Asking, NEW type \in Requests
    PROVE  /\ Granted(type) <=> Taken(type)
           /\ Taken("connect") => call.got.handle = device.handle \/ Absence
           /\ Taken("disconnect") => device.handle = 0
  <1>1. \A i \in DOMAIN device.toClient :
            device.toClient[i] \notin OnTheWay /\ device.toClient[i] \in Messages
    BY NoneAround, Shapes
  <1>2. call.answer = "message" => call.got.type = call.type
    BY DEF Handles, ReadersAreNamed
  <1>3. \A t \in Requests : Granted(t) <=> Taken(t)
    BY <1>1, <1>2 DEF Granted, Taken, Replies, Elements, OnTheWay
  <1>4. ASSUME Taken("connect") PROVE call.got.handle = device.handle \/ Absence
    <2>1. call.got \in Replies /\ call.got.type = "connect" /\ call.got.ok
      BY <1>2, <1>4 DEF Taken, Replies
    <2> QED BY <2>1 DEF Handles, RepliesFit
  <1>5. ASSUME Taken("disconnect") PROVE device.handle = 0
    <2>1. Granted("disconnect")
      BY <1>3, <1>5 DEF Requests
    <2> QED BY <2>1 DEF Handles, RepliesFit
  <1> QED BY <1>3, <1>4, <1>5

LEMMA CallChanges ==
    ASSUME IInv, IInv', Handles, device' = device, bounds'.moved = bounds.moved,
           late => late', ~late' => ~Asking,
           call'.answer = "none" \/ (call' = call /\ Idle),
           ~Idle' => call'.n = call'.key,
           call'.type = "connect" => readers'[call'.key].card /\ ~readers'[call'.key].connected,
           \A i \in DOMAIN connector'.events :
               \/ \E j \in DOMAIN connector.events : connector'.events[i] = connector.events[j]
               \/ connector'.events[i].msg = Request',
           \A k \in DOMAIN readers' : /\ k # 0 /\ readers'[k].disp = k /\ Known(k)'
                                      /\ readers'[k].connected => readers'[k].card,
           device.conn \in DOMAIN readers' => plugin'.dispatcher = device.conn,
           NothingComes => NothingComes', Absence' => Absence,
           ~late' /\ device.conn \in DOMAIN readers' /\ readers'[device.conn].connected =>
               readers'[device.conn].handle = device.handle \/ Absence',
           ~late' /\ ~bounds.moved /\ device.handle # 0 /\ plugin'.dispatcher = device.conn =>
               device.conn \in DOMAIN readers' /\ readers'[device.conn].connected
    PROVE  Handles'
  <1>1. ASSUME ~late'
        PROVE  /\ \A i \in DOMAIN connector.events : connector.events[i] \notin LiveSends(device.conn)
               /\ \A i \in DOMAIN device.toDevice : device.toDevice[i] \notin OnTheWay
               /\ \A i \in DOMAIN device.jobs : device.jobs[i] \notin OnTheWay
               /\ \A i \in DOMAIN device.toClient : device.toClient[i] \notin OnTheWay
    BY <1>1, NoneAround
  <1>2. /\ \A i \in DOMAIN device.toClient : device.toClient[i] \in Messages
        /\ \A i \in DOMAIN device.jobs : device.jobs[i] \in Messages
    BY Shapes
  <1>3. Replies' = Elements(device.toClient)
    BY DEF Replies, Idle
  <1>4. ASSUME ~late', NEW type \in Requests PROVE ~Granted(type)'
    BY <1>1, <1>2, <1>3, <1>4 DEF Granted, Elements, OnTheWay
  <1>5. ReadersAreNamed'
    BY DEF Handles, ReadersAreNamed, Idle
  <1>6. HandleIsKnown'
    BY DEF Handles, HandleIsKnown
  <1>7. RequestIsAsSent'
    <2>1. ASSUME ~late', NEW i \in DOMAIN device.jobs PROVE device.jobs[i].type # "disconnect"
      BY <1>1, <1>2, <2>1 DEF OnTheWay, Requests
    <2> QED BY <1>1, <2>1 DEF RequestIsAsSent, Elements
  <1>8. RepliesFit'
    <2>1. ASSUME ~late' PROVE ~Granted("connect")' /\ ~Granted("disconnect")'
      BY <1>4, <2>1 DEF Requests
    <2> QED BY <2>1 DEF RepliesFit, Granted
  <1>9. StatusIsTrue'
    BY DEF Handles, StatusIsTrue
  <1>10. HandlesAgree' /\ HandleIsHeld'
    BY DEF HandlesAgree, HandleIsHeld
  <1> QED BY <1>5, <1>6, <1>7, <1>8, <1>9, <1>10 DEF Handles

LEMMA SentFacts ==
    ASSUME IInv, ContextIsKnown, NEW type \in Requests, NEW key \in DOMAIN readers', NEW fetch,
           readers'[key] \in ReaderType(Dispatchers),
           SendMessage(type, key, readers'[key], fetch)
    PROVE  /\ call'.answer = "none" /\ call'.type = type /\ call'.n = readers'[key].disp /\ call'.key = key
           /\ Newest' = Newest /\ connector'.channels = connector.channels
           /\ \A i \in DOMAIN connector'.events : Fits(connector.events[i])'
           /\ \A i \in DOMAIN connector'.events :
                  \/ \E j \in DOMAIN connector.events : connector'.events[i] = connector.events[j]
                  \/ connector'.events[i].msg = Request'
  <1> DEFINE reader == readers'[key]
             m == Message(type, ids', reader.handle, TRUE)
             e == [type |-> "send", n |-> reader.disp, msg |-> m]
  <1>1. /\ ids \in Nat /\ ids' = ids + 1
        /\ call' = [NoCall EXCEPT !.type = type, !.id = ids', !.n = reader.disp, !.key = key,
                                  !.fetch = fetch]
        /\ connector' = PostConnector(connector, "send", reader.disp, m)
    BY DEF IInv, TypeOK, SendMessage
  <1>2. reader.disp \in Dispatchers /\ reader.handle \in Nat
    BY DEF ReaderType
  <1>3. /\ call'.type = type /\ call'.id = ids' /\ call'.n = reader.disp /\ call'.key = key
        /\ call'.answer = "none"
    BY <1>1 DEF NoCall
  <1>4. m = Request' /\ m \in Messages /\ m.type = type
    <2>1. m = Request'
      BY <1>3 DEF Request
    <2>2. m \in Messages /\ m.type = type
      BY <1>1, <1>2 DEF Message, Messages
    <2> QED BY <2>1, <2>2
  <1> HIDE DEF m
  <1>5. e \in ConnectorEvents(Dispatchers) /\ Fits(e) /\ e.msg = m
    BY <1>2, <1>4 DEF ConnectorEvents, Fits
  <1>6. /\ connector'.events = Append(connector.events, e)
        /\ Newest' = Newest /\ connector'.channels = connector.channels
        /\ \A i \in DOMAIN connector'.events : Fits(connector.events[i])'
    BY <1>1, <1>5, PostsFit
  <1> HIDE DEF e
  <1>7. \A i \in DOMAIN Append(connector.events, e) :
            \/ \E j \in DOMAIN connector.events : Append(connector.events, e)[i] = connector.events[j]
            \/ Append(connector.events, e)[i] = e
    <2>1. connector.events \in Seq(ConnectorEvents(Dispatchers))
      BY Shapes
    <2> QED BY ONLY <1>5, <2>1, AppendFacts
  <1> QED BY <1>3, <1>4, <1>5, <1>6, <1>7

LEMMA CallStep ==
    ASSUME IInv, IInv', Agreed, device' = device, client' = client, bounds'.moved = bounds.moved,
           late => late', ~late' => ~Asking,
           \/ UNCHANGED <<call, connector>> /\ Idle
           \/ call' = NoCall /\ connector' = connector
           \/ \E type \in Requests, key \in DOMAIN readers', fetch \in BOOLEAN :
                  /\ SendMessage(type, key, readers'[key], fetch)
                  /\ type = "connect" => readers'[key].card /\ ~readers'[key].connected,
           Fewer(plugin.events, plugin'.events, {"dispatcher", "context", "status"}),
           plugin'.dispatcher = plugin.dispatcher, plugin'.hears = plugin.hears,
           Gone(plugin'.events) => Gone(plugin.events),
           \A k \in DOMAIN readers' : /\ k # 0 /\ readers'[k].disp = k /\ Known(k)
                                      /\ readers'[k].connected => readers'[k].card,
           device.conn \in DOMAIN readers' => plugin.dispatcher = device.conn,
           ~late' /\ device.conn \in DOMAIN readers' /\ readers'[device.conn].connected =>
               readers'[device.conn].handle = device.handle \/ Absence',
           ~late' /\ ~bounds.moved /\ device.handle # 0 /\ plugin.dispatcher = device.conn =>
               device.conn \in DOMAIN readers' /\ readers'[device.conn].connected
    PROVE  Agreed'
  <1>1. Paths /\ Handles /\ ContextIsKnown
    BY DEF Agreed, Paths
  <1>2. /\ call'.answer = "none" \/ (call' = call /\ Idle)
        /\ ~Idle' => call'.n = call'.key
        /\ call'.type = "connect" => readers'[call'.key].card /\ ~readers'[call'.key].connected
        /\ Newest' = Newest /\ connector'.channels = connector.channels
        /\ \A i \in DOMAIN connector'.events : Fits(connector.events[i])'
        /\ \A i \in DOMAIN connector'.events :
               \/ \E j \in DOMAIN connector.events : connector'.events[i] = connector.events[j]
               \/ connector'.events[i].msg = Request'
    <2>1. CASE \/ UNCHANGED <<call, connector>> /\ Idle
               \/ call' = NoCall /\ connector' = connector
      <3>1. Newest' = Newest /\ \A i \in DOMAIN connector.events : Fits(connector.events[i])'
        BY <1>1, <2>1 DEF ContextIsKnown, Fits, Known, Newest
      <3> QED BY <2>1, <3>1 DEF Idle, NoCall
    <2>2. CASE \E type \in Requests, key \in DOMAIN readers', fetch \in BOOLEAN :
                   /\ SendMessage(type, key, readers'[key], fetch)
                   /\ type = "connect" => readers'[key].card /\ ~readers'[key].connected
      <3>1. PICK type \in Requests, key \in DOMAIN readers', fetch \in BOOLEAN :
                /\ SendMessage(type, key, readers'[key], fetch)
                /\ type = "connect" => readers'[key].card /\ ~readers'[key].connected
        BY <2>2
      <3>2. connector' = PostConnector(connector, "send", readers'[key].disp,
                                       Message(type, ids', readers'[key].handle, TRUE))
        BY <3>1 DEF SendMessage
      <3>3. connector'.channels = connector.channels
        BY <3>2, Shapes DEF PostConnector, ConnectorType
      <3>4. readers'[key] \in ReaderType(Dispatchers) /\ readers'[key].disp = key
        <4>1. Dispatchers' = Dispatchers
          BY <3>3 DEF Dispatchers
        <4> QED BY <4>1, ShapesNext
      <3> QED BY <1>1, <3>1, <3>4, SentFacts
    <2> QED BY <2>1, <2>2
  <1>3. Paths'
    <2>1. Fewer(client.events, client'.events, {"created"})
      <3>1. ClientCalm(client, client')
        BY ClientCalmTakes
      <3> QED BY <3>1 DEF ClientCalm
    <2>2. \A n \in Dispatchers : Known(n) => Known(n)'
      BY <1>2 DEF Known
    <2>3. device'.conn # 0 /\ ~Known(device.conn) => NoStatus'
      BY <1>1 DEF ContextIsKnown, NoStatus
    <2> QED BY <1>1, <1>2, <2>1, <2>2, <2>3, PathsKept
  <1>4. Handles'
    <2>1. NothingComes => NothingComes'
      <3> DEFINE S == {"dispatcher", "context", "status"}
      <3>1. plugin.events \in Seq(PluginEvents(Dispatchers)) /\ plugin'.events \in Seq(PluginEvents(Dispatchers))
        <4>1. Dispatchers' = Dispatchers
          BY <1>2 DEF Dispatchers
        <4> QED BY <4>1, Shapes, ShapesNext
      <3>2. Fewer(plugin.events, plugin'.events, S) /\ {"dispatcher"} \in SUBSET S
        OBVIOUS
      <3> HIDE DEF S
      <3>3. \A X \in SUBSET S : None(plugin.events, X) => None(plugin'.events, X)
        BY <3>1, <3>2, FewerFacts
      <3> QED BY <3>2, <3>3 DEF NothingComes
    <2>2. Absence' => Absence
      BY DEF Absence
    <2>3. \A k \in DOMAIN readers' : /\ k # 0 /\ readers'[k].disp = k /\ Known(k)'
                                     /\ readers'[k].connected => readers'[k].card
      BY <1>2 DEF Known
    <2> QED BY <1>1, <1>2, <2>1, <2>2, <2>3, CallChanges
  <1> QED BY <1>3, <1>4 DEF Agreed

LEMMA StatusTaken ==
    ASSUME IInv, plugin.events # <<>>, plugin' = PluginRest
    PROVE  /\ Fewer(plugin.events, plugin'.events, {"dispatcher", "context", "status"})
           /\ plugin'.dispatcher = plugin.dispatcher /\ plugin'.hears = plugin.hears
           /\ Gone(plugin'.events) => Gone(plugin.events)
           /\ PluginArg.type = "status" /\ PluginArg.arg = "card" => (Gone(plugin'.events) <=> Gone(plugin.events))
           /\ PluginArg.type = "status" /\ PluginArg.arg = "none" => Gone(plugin.events)
  <1> DEFINE S == {"dispatcher", "context", "status"}
  <1>1. /\ plugin.events \in Seq(PluginEvents(Dispatchers)) /\ PluginRest.events = Tail(plugin.events)
        /\ PluginRest.dispatcher = plugin.dispatcher /\ PluginRest.hears = plugin.hears
    BY Shapes, PluginCalmTakes, PluginTakes DEF IInv
  <1>2. Fewer(plugin.events, Tail(plugin.events), S)
    <2> HIDE DEF S
    <2> QED BY <1>1, FewerTail
  <1>3. Gone(plugin.events) <=>
            Gone(Tail(plugin.events)) \/ (PluginArg.type = "status" /\ PluginArg.arg = "none")
    BY <1>1, GoneFacts DEF PluginArg
  <1> QED BY <1>1, <1>2, <1>3

LEMMA HandleStatusAgrees ==
    ASSUME IInv, IInv', Agreed, HandleStatus
    PROVE  Agreed'
  <1> DEFINE d    == plugin.dispatcher
             key  == IF connector.channels[d].context THEN d ELSE 0
             card == PluginArg.arg = "card"
             old  == IF key \in DOMAIN readers THEN readers[key]
                     ELSE [disp |-> d, card |-> FALSE, connected |-> FALSE, handle |-> 0]
             new  == IF old.card THEN [old EXCEPT !.card = card,
                                                  !.connected = @ /\ card,
                                                  !.handle = IF card THEN @ ELSE 0]
                                 ELSE [old EXCEPT !.card = card]
  <1>1. /\ plugin.events # <<>> /\ Idle /\ PluginArg.type = "status" /\ plugin' = PluginRest
        /\ UNCHANGED <<bounds, client, device, late>>
    BY DEF HandleStatus, PluginHandles, PluginArg
  <1>2. /\ Fewer(plugin.events, plugin'.events, {"dispatcher", "context", "status"})
        /\ plugin'.dispatcher = d /\ plugin'.hears = plugin.hears
        /\ Gone(plugin'.events) => Gone(plugin.events)
        /\ card => (Gone(plugin'.events) <=> Gone(plugin.events))
        /\ ~card => Gone(plugin.events)
    <2>1. PluginArg.arg \in {"card", "none"}
      <3>1. PluginArg \in PluginEvents(Dispatchers)
        BY <1>1, PluginTakes DEF IInv
      <3> QED BY <1>1, <3>1 DEF PluginEvents
    <2> QED BY <1>1, <2>1, StatusTaken
  <1>3. /\ Paths /\ Handles /\ ContextIsKnown /\ ReadersAreNamed /\ HandleIsKnown
        /\ StatusIsTrue /\ HandlesAgree /\ HandleIsHeld
    BY DEF Agreed, Paths, Handles
  <1>4. (~late' => ~Asking) /\ (late => late')
    BY <1>1 DEF Asking
  <1>5. ~late => ~Granted("connect") /\ ~Granted("disconnect")
    <2>1. "connect" \in Requests /\ "disconnect" \in Requests
      BY DEF Requests
    <2> QED BY <1>1, <1>3, <1>4, <2>1, GrantedIsTaken DEF Taken
  <1>6. CASE d = 0
    <2>1. UNCHANGED <<readers, call, connector>>
      BY <1>6 DEF HandleStatus
    <2>2. /\ device.conn \notin DOMAIN readers
          /\ device.handle # 0 => d # device.conn
      BY <1>3, <1>6 DEF ReadersAreNamed, HandleIsKnown
    <2>3. \A k \in DOMAIN readers' : /\ k # 0 /\ readers'[k].disp = k /\ Known(k)
                                     /\ readers'[k].connected => readers'[k].card
      BY <1>3, <2>1 DEF ReadersAreNamed
    <2> HIDE DEF card
    <2> QED BY <1>1, <1>2, <1>4, <2>1, <2>2, <2>3, CallStep
  <1>7. CASE d # 0
    <2>1. d \in Dispatchers /\ Known(d) /\ key = d
      <3> DEFINE C == {"context", "status"}
      <3>1. plugin.events \in Seq(PluginEvents(Dispatchers)) /\ Head(plugin.events).type \in C
        BY <1>1, Shapes DEF PluginArg
      <3>2. ~None(plugin.events, C)
        <4> HIDE DEF C
        <4> QED BY <1>1, <3>1, OneLess
      <3>3. Known(d)
        BY <1>3, <1>7, <3>2 DEF ContextIsKnown
      <3> QED BY <1>7, <3>3, Shapes DEF Known
    <2>2. /\ readers' = Set(readers, d, new)
          /\ IF card /\ ~old.card THEN SendMessage("connect", d, new, TRUE)
                                  ELSE UNCHANGED <<call, connector, ids>>
      BY <1>7, <2>1 DEF HandleStatus
    <2>3. /\ old \in ReaderType(Dispatchers) /\ old.disp = d /\ (old.connected => old.card)
          /\ d \in DOMAIN readers => old = readers[d]
          /\ d \notin DOMAIN readers => ~old.connected
      <3>1. CASE d \in DOMAIN readers
        BY <1>3, <2>1, <3>1, Shapes DEF ReadersAreNamed
      <3>2. CASE d \notin DOMAIN readers
        BY <2>1, <3>2 DEF ReaderType
      <3> QED BY <3>1, <3>2
    <2> HIDE DEF old
    <2>4. /\ new.disp = d /\ (new.card <=> card)
          /\ old.card => (new.connected <=> old.connected /\ card)
          /\ ~old.card => ~new.connected
          /\ old.card /\ card => new.handle = old.handle
      <3> DEFINE co == old.connected /\ card
                 ha == IF card THEN old.handle ELSE 0
      <3> HIDE DEF card
      <3>1. CASE old.card
        <4>1. new = [old EXCEPT !.card = card, !.connected = co, !.handle = ha]
          BY <3>1
        <4> HIDE DEF new, co, ha
        <4>2. /\ new.disp = old.disp /\ new.card = card /\ new.connected = co /\ new.handle = ha
          BY <2>3, <4>1 DEF ReaderType
        <4> QED BY <2>3, <3>1, <4>2 DEF co, ha
      <3>2. CASE ~old.card
        <4>1. new = [old EXCEPT !.card = card]
          BY <3>2
        <4> HIDE DEF new
        <4>2. new.disp = old.disp /\ new.card = card /\ new.connected = old.connected
          BY <2>3, <4>1 DEF ReaderType
        <4> QED BY <2>3, <3>2, <4>2
      <3> QED BY <3>1, <3>2
    <2> HIDE DEF new
    <2>5. /\ DOMAIN readers' = DOMAIN readers \cup {d} /\ readers'[d] = new
          /\ \A k \in DOMAIN readers \ {d} : readers'[k] = readers[k]
      BY <2>2 DEF Set
    <2>6. \A k \in DOMAIN readers' : /\ k # 0 /\ readers'[k].disp = k /\ Known(k)
                                     /\ readers'[k].connected => readers'[k].card
      BY <1>3, <1>7, <2>1, <2>3, <2>4, <2>5 DEF ReadersAreNamed
    <2>7. device.conn \in DOMAIN readers' => d = device.conn
      BY <1>3, <2>5 DEF ReadersAreNamed
    <2>8. ASSUME ~late', device.conn \in DOMAIN readers', readers'[device.conn].connected
          PROVE  readers'[device.conn].handle = device.handle \/ Absence'
      <3>1. d = device.conn /\ new.connected /\ old.card /\ old.connected /\ card
        BY <2>4, <2>5, <2>7, <2>8
      <3>2. device.conn \in DOMAIN readers /\ readers[device.conn] = old
        BY <2>3, <3>1
      <3>3. old.handle = device.handle \/ Absence
        BY <1>1, <1>3, <1>5, <2>8, <3>1, <3>2 DEF HandlesAgree
      <3>4. Absence => Absence'
        BY <1>1, <1>2, <3>1 DEF Absence
      <3> QED BY <2>4, <2>5, <3>1, <3>3, <3>4
    <2>9. ASSUME ~late', ~bounds.moved, device.handle # 0, d = device.conn
          PROVE  device.conn \in DOMAIN readers' /\ readers'[device.conn].connected
      <3>1. device.conn \in DOMAIN readers /\ readers[device.conn].connected
        BY <1>1, <1>3, <1>5, <2>9 DEF HandleIsHeld
      <3>2. card
        <4>1. ~Absence
          BY <1>3, <2>9 DEF StatusIsTrue, HandleIsKnown
        <4> QED BY <1>2, <4>1 DEF Absence
      <3> QED BY <2>3, <2>4, <2>5, <2>9, <3>1, <3>2
    <2>10. \/ UNCHANGED <<call, connector>> /\ Idle
           \/ \E type \in Requests, k \in DOMAIN readers', fetch \in BOOLEAN :
                  /\ SendMessage(type, k, readers'[k], fetch)
                  /\ type = "connect" => readers'[k].card /\ ~readers'[k].connected
      <3>1. CASE card /\ ~old.card
        <4>1. SendMessage("connect", d, readers'[d], TRUE) /\ d \in DOMAIN readers'
          BY <2>2, <2>5, <3>1
        <4>2. readers'[d].card /\ ~readers'[d].connected /\ "connect" \in Requests
          BY <2>4, <2>5, <3>1 DEF Requests
        <4> QED BY <4>1, <4>2
      <3>2. CASE ~(card /\ ~old.card)
        BY <1>1, <2>2, <3>2
      <3> QED BY <3>1, <3>2
    <2> HIDE DEF d, key, card
    <2> QED BY <1>1, <1>2, <1>4, <2>6, <2>7, <2>8, <2>9, <2>10, CallStep DEF d
  <1> QED BY <1>6, <1>7

(* A workflow asks for something. *)
LEMMA AskAgrees ==
    ASSUME IInv, IInv', Agreed, CreateConnection \/ UseConnection \/ DropConnection
    PROVE  Agreed'
  <1>1. /\ UNCHANGED <<client, readers, device, late>> /\ Idle
        /\ bounds'.moved = bounds.moved
    BY UsesNoCard DEF CreateConnection, UseConnection, DropConnection
  <1>2. /\ Paths /\ Handles /\ ReadersAreNamed /\ HandlesAgree /\ HandleIsHeld
    BY DEF Agreed, Handles
  <1>3. plugin'.events = plugin.events /\ plugin'.dispatcher = plugin.dispatcher /\ plugin'.hears = plugin.hears
    BY Shapes DEF CreateConnection, UseConnection, DropConnection, PluginType
  <1>4. (~late' => ~Asking) /\ (late => late')
    BY <1>1 DEF Asking
  <1>5. ~late => ~Granted("connect") /\ ~Granted("disconnect")
    <2>1. "connect" \in Requests /\ "disconnect" \in Requests
      BY DEF Requests
    <2> QED BY <1>1, <1>2, <1>4, <2>1, GrantedIsTaken DEF Taken
  <1>6. \/ UNCHANGED <<call, connector>> /\ Idle
        \/ \E type \in Requests, k \in DOMAIN readers', fetch \in BOOLEAN :
               /\ SendMessage(type, k, readers'[k], fetch)
               /\ type = "connect" => readers'[k].card /\ ~readers'[k].connected
    <2>1. plugin.session => plugin.key \in DOMAIN readers
      BY DEF IInv, ReadersAreThere
    <2>2. CASE CreateConnection
      <3>1. PICK key \in DOMAIN readers :
                /\ readers[key].card /\ ~readers[key].connected
                /\ SendMessage("connect", key, readers[key], FALSE)
        BY <2>2 DEF CreateConnection
      <3>2. "connect" \in Requests /\ FALSE \in BOOLEAN
        BY DEF Requests
      <3> QED BY <1>1, <3>1, <3>2
    <2>3. CASE UseConnection
      <3>1. PICK type \in {"transmit", "destroyPace"} :
                SendMessage(type, plugin.key, readers[plugin.key], FALSE)
        BY <2>3 DEF UseConnection
      <3>2. type \in Requests /\ type # "connect" /\ FALSE \in BOOLEAN /\ plugin.key \in DOMAIN readers
        BY <2>1, <2>3 DEF Requests, UseConnection
      <3> QED BY <1>1, <3>1, <3>2
    <2>4. CASE DropConnection
      <3>1. /\ plugin.key \in DOMAIN readers
            /\ \/ SendMessage("disconnect", plugin.key, readers[plugin.key], FALSE)
               \/ UNCHANGED <<call, connector, ids>>
        BY <2>1, <2>4 DEF DropConnection
      <3>2. "disconnect" \in Requests /\ "disconnect" # "connect" /\ FALSE \in BOOLEAN
        BY DEF Requests
      <3> QED BY <1>1, <3>1, <3>2
    <2> QED BY <2>2, <2>3, <2>4
  <1>7. /\ Fewer(plugin.events, plugin'.events, {"dispatcher", "context", "status"})
        /\ Gone(plugin'.events) => Gone(plugin.events)
        /\ Absence' <=> Absence
    <2>1. PluginCalm(plugin, plugin)
      BY PluginCalmTakes
    <2> QED BY <1>1, <1>3, <2>1 DEF PluginCalm, Absence
  <1>8. /\ \A k \in DOMAIN readers' : /\ k # 0 /\ readers'[k].disp = k /\ Known(k)
                                      /\ readers'[k].connected => readers'[k].card
        /\ device.conn \in DOMAIN readers' => plugin.dispatcher = device.conn
    BY <1>1, <1>2 DEF ReadersAreNamed
  <1>9. /\ ~late' /\ device.conn \in DOMAIN readers' /\ readers'[device.conn].connected =>
               readers'[device.conn].handle = device.handle \/ Absence'
        /\ ~late' /\ ~bounds.moved /\ device.handle # 0 /\ plugin.dispatcher = device.conn =>
               device.conn \in DOMAIN readers' /\ readers'[device.conn].connected
    BY <1>1, <1>2, <1>5, <1>7 DEF HandlesAgree, HandleIsHeld
  <1> QED BY <1>1, <1>3, <1>4, <1>6, <1>7, <1>8, <1>9, CallStep

(* The end of a request. *)
LEMMA WakeAgrees ==
    ASSUME IInv, IInv', Agreed, Wake
    PROVE  Agreed'
  <1> DEFINE ok     == call.answer = "message" /\ call.got.ok
             key    == call.key
             reader == readers[key]
             new    == CASE ok /\ call.type = "connect" ->
                               [reader EXCEPT !.connected = TRUE, !.handle = call.got.handle]
                        [] ok /\ call.type = "disconnect" -> [reader EXCEPT !.connected = FALSE]
                        [] OTHER -> reader
  <1>1. /\ ~Idle /\ late' = (late \/ call.answer = "none") /\ late \in BOOLEAN
        /\ UNCHANGED <<bounds, client, device>> /\ Finish(ok)
    BY DEF Wake, IInv, TypeOK
  <1>2. /\ Paths /\ Handles /\ ReadersAreNamed /\ HandlesAgree /\ HandleIsHeld
    BY DEF Agreed, Handles
  <1>3. /\ key \in DOMAIN readers /\ reader \in ReaderType(Dispatchers) /\ call.n = key
    BY <1>1, <1>2, Shapes DEF IInv, ReadersAreThere, ReadersAreNamed
  <1>4. /\ readers' = Set(readers, key, new)
        /\ \/ SendMessage("transmit", key, new, TRUE) /\ UNCHANGED plugin
           \/ SendMessage("disconnect", key, new, TRUE) /\ UNCHANGED plugin
           \/ /\ call' = NoCall /\ UNCHANGED <<connector, ids>>
              /\ plugin' = plugin \/ plugin' = [plugin EXCEPT !.session = TRUE, !.key = call.key]
    <2>1. readers' = Set(readers, key, new)
      BY <1>1 DEF Finish
    <2> HIDE DEF ok, reader
    <2> QED BY <1>1, <2>1 DEF Finish, reader
  <1>5. /\ ok /\ call.type = "connect" =>
               new.disp = reader.disp /\ new.card = reader.card /\ new.connected /\ new.handle = call.got.handle
        /\ ok /\ call.type = "disconnect" =>
               new.disp = reader.disp /\ new.card = reader.card /\ ~new.connected
        /\ ~(ok /\ call.type \in {"connect", "disconnect"}) => new = reader
    <2> HIDE DEF ok, reader
    <2>1. ASSUME ok, call.type = "connect"
          PROVE  new.disp = reader.disp /\ new.card = reader.card /\ new.connected /\ new.handle = call.got.handle
      <3>1. new = [reader EXCEPT !.connected = TRUE, !.handle = call.got.handle]
        BY <2>1
      <3> HIDE DEF new
      <3> QED BY <1>3, <3>1 DEF ReaderType
    <2>2. ASSUME ok, call.type = "disconnect"
          PROVE  new.disp = reader.disp /\ new.card = reader.card /\ ~new.connected
      <3>1. new = [reader EXCEPT !.connected = FALSE]
        BY <2>2
      <3> HIDE DEF new
      <3> QED BY <1>3, <3>1 DEF ReaderType
    <2>3. ASSUME ~(ok /\ call.type \in {"connect", "disconnect"}) PROVE new = reader
      BY <2>3
    <2> HIDE DEF new
    <2> QED BY <2>1, <2>2, <2>3
  <1> HIDE DEF new
  <1>6. /\ DOMAIN readers' = DOMAIN readers /\ readers'[key] = new
        /\ \A k \in DOMAIN readers \ {key} : readers'[k] = readers[k]
    BY <1>3, <1>4 DEF Set
  <1>7. \A k \in DOMAIN readers' : /\ k # 0 /\ readers'[k].disp = k /\ Known(k)
                                   /\ readers'[k].connected => readers'[k].card
    <2>1. /\ key # 0 /\ reader.disp = key /\ Known(key) /\ (reader.connected => reader.card)
          /\ call.type = "connect" => reader.card
      BY <1>2, <1>3 DEF ReadersAreNamed
    <2>2. new.disp = key /\ (new.connected => new.card)
      <3> HIDE DEF ok, reader
      <3> QED BY <1>5, <2>1
    <2> QED BY <1>2, <1>6, <2>1, <2>2 DEF ReadersAreNamed
  <1>8. device.conn \in DOMAIN readers' => plugin.dispatcher = device.conn
    BY <1>2, <1>6 DEF ReadersAreNamed
  <1>9. (~late' => ~Asking /\ ~late) /\ (late => late')
    BY <1>1 DEF Asking
  <1>10. ASSUME ~late'
         PROVE  /\ Granted("connect") <=> Taken("connect")
                /\ Granted("disconnect") <=> Taken("disconnect")
                /\ Taken("connect") => call.got.handle = device.handle \/ Absence
                /\ Taken("disconnect") => device.handle = 0
    <2>1. "connect" \in Requests /\ "disconnect" \in Requests
      BY DEF Requests
    <2> QED BY <1>2, <1>9, <1>10, <2>1, GrantedIsTaken
  <1>11. /\ Taken("connect") <=> ok /\ call.type = "connect" /\ key = device.conn
         /\ Taken("disconnect") <=> ok /\ call.type = "disconnect" /\ key = device.conn
    BY <1>1, <1>3 DEF Taken
  <1>12. /\ plugin'.events = plugin.events /\ plugin'.dispatcher = plugin.dispatcher
         /\ plugin'.hears = plugin.hears
    BY <1>4, Shapes DEF PluginType
  <1>13. /\ Fewer(plugin.events, plugin'.events, {"dispatcher", "context", "status"})
         /\ Gone(plugin'.events) => Gone(plugin.events)
         /\ Absence' <=> Absence
    <2>1. PluginCalm(plugin, plugin)
      BY PluginCalmTakes
    <2> QED BY <1>1, <1>12, <2>1 DEF PluginCalm, Absence
  <1> HIDE DEF ok
  <1>14. ASSUME ~late', device.conn \in DOMAIN readers', readers'[device.conn].connected
         PROVE  readers'[device.conn].handle = device.handle \/ Absence'
    <2>1. CASE key = device.conn
      <3>1. CASE ok /\ call.type = "connect"
        BY <1>5, <1>6, <1>10, <1>11, <1>13, <1>14, <2>1, <3>1
      <3>2. CASE ok /\ call.type = "disconnect"
        BY <1>5, <1>6, <1>14, <2>1, <3>2
      <3>3. CASE ~(ok /\ call.type \in {"connect", "disconnect"})
        <4>1. ~Taken("disconnect") /\ readers'[device.conn] = readers[device.conn]
          BY <1>5, <1>6, <1>11, <2>1, <3>3
        <4> QED BY <1>2, <1>6, <1>9, <1>10, <1>13, <1>14, <4>1 DEF HandlesAgree
      <3> QED BY <3>1, <3>2, <3>3
    <2>2. CASE key # device.conn
      <3>1. ~Taken("disconnect") /\ readers'[device.conn] = readers[device.conn]
        BY <1>6, <1>11, <1>14, <2>2
      <3> QED BY <1>2, <1>6, <1>9, <1>10, <1>13, <1>14, <3>1 DEF HandlesAgree
    <2> QED BY <2>1, <2>2
  <1>15. ASSUME ~late', ~bounds.moved, device.handle # 0, plugin.dispatcher = device.conn
         PROVE  device.conn \in DOMAIN readers' /\ readers'[device.conn].connected
    <2>1. (device.conn \in DOMAIN readers /\ readers[device.conn].connected) \/ Taken("connect")
      BY <1>2, <1>9, <1>10, <1>15 DEF HandleIsHeld
    <2>2. CASE Taken("connect")
      BY <1>3, <1>5, <1>6, <1>11, <2>2
    <2>3. CASE ~Taken("connect")
      <3>1. ~Taken("disconnect")
        BY <1>10, <1>15
      <3>2. readers'[device.conn] = readers[device.conn]
        BY <1>5, <1>6, <1>11, <2>1, <2>3, <3>1
      <3> QED BY <1>6, <2>1, <2>3, <3>2
    <2> QED BY <2>2, <2>3
  <1>16. \/ call' = NoCall /\ connector' = connector
         \/ \E type \in Requests, k \in DOMAIN readers', fetch \in BOOLEAN :
                /\ SendMessage(type, k, readers'[k], fetch)
                /\ type = "connect" => readers'[k].card /\ ~readers'[k].connected
    <2>1. ASSUME NEW type \in {"transmit", "disconnect"}, SendMessage(type, key, new, TRUE)
          PROVE  \E t \in Requests, k \in DOMAIN readers', fetch \in BOOLEAN :
                     /\ SendMessage(t, k, readers'[k], fetch)
                     /\ t = "connect" => readers'[k].card /\ ~readers'[k].connected
      <3>1. type \in Requests /\ type # "connect" /\ TRUE \in BOOLEAN /\ key \in DOMAIN readers'
        BY <1>3, <1>6 DEF Requests
      <3> QED BY <1>6, <2>1, <3>1
    <2> QED BY <1>4, <2>1
  <1> QED BY <1>1, <1>7, <1>8, <1>9, <1>12, <1>13, <1>14, <1>15, <1>16, CallStep

LEMMA DispatcherClosedAgrees ==
    ASSUME IInv, IInv', Agreed, DispatcherClosed
    PROVE  Agreed'
  <1> DEFINE q == plugin.events
  <1>1. /\ q # <<>> /\ Idle /\ PluginArg.type = "closed" /\ readers' = <<>>
        /\ UNCHANGED <<bounds, client, call, connector, device, late>>
    BY DEF DispatcherClosed, PluginHandles, PluginArg, Ghosts
  <1>2. /\ q \in Seq(PluginEvents(Dispatchers)) /\ PluginRest \in PluginType(Dispatchers)
        /\ PluginRest.events = Tail(q) /\ PluginRest.hears = plugin.hears
    BY <1>1, Shapes, PluginCalmTakes, PluginTakes DEF IInv
  <1>3. /\ plugin'.events = Tail(q) /\ plugin'.dispatcher = 0
        /\ plugin'.hears = plugin.hears \ {plugin.dispatcher}
    BY <1>2 DEF DispatcherClosed, PluginType
  <1>4. /\ NewestIsLast /\ DispatcherIsHeard /\ ContextIsKnown /\ Handles /\ Newest' = Newest
    BY <1>1 DEF Agreed, Paths, Newest
  <1>5. /\ \A X : None(q, X) => None(Tail(q), X)
        /\ \A t, n : OnlyLast(q, t, n) => OnlyLast(Tail(q), t, n)
        /\ \A X, t : Before(q, X, t) => Before(Tail(q), X, t)
        /\ \A j \in DOMAIN Tail(q) : \E i \in DOMAIN q : q[i] = Tail(q)[j]
    BY <1>1, <1>2, TailLoses
  <1> HIDE DEF q
  <1>6. NewestIsLast'
    <2>1. OnlyLast(Tail(q), "dispatcher", Newest) /\ (NothingComes => NothingComes')
      BY <1>1, <1>3, <1>4, <1>5 DEF NewestIsLast, NothingComes, q
    <2>2. ASSUME NEW i \in DOMAIN Tail(q), Tail(q)[i].type = "dispatcher", Tail(q)[i].n = Newest
          PROVE  None(client.events, {"created"})
      BY <1>4, <1>5, <2>2 DEF NewestIsLast, q
    <2> QED BY <1>1, <1>3, <1>4, <2>1, <2>2 DEF NewestIsLast
  <1>7. DispatcherIsHeard'
    BY <1>1, <1>3, <1>4 DEF DispatcherIsHeard
  <1>8. ContextIsKnown'
    <2>1. Before(Tail(q), {"context", "status"}, "dispatcher")
      BY <1>4, <1>5 DEF ContextIsKnown, q
    <2> QED BY <1>1, <1>3, <1>4, <2>1 DEF ContextIsKnown, Fits, Known, NoStatus
  <1>9. Handles'
    <2>1. NothingComes => NothingComes'
      BY <1>1, <1>3, <1>5 DEF NothingComes, q
    <2>2. Absence' => Absence
      <3>1. Gone(Tail(q)) => Gone(q)
        BY <1>1, <1>2, GoneFacts DEF q
      <3> QED BY <1>1, <1>3, <3>1 DEF Absence, q
    <2>3. DOMAIN readers' = {}
      BY <1>1
    <2>4. ~late' => ~Asking
      BY <1>1 DEF Asking
    <2>5. call.type = "none" /\ ~(call.type = "connect") /\ Idle'
      BY <1>1 DEF Idle
    <2>6. device.handle # 0 => device.conn # 0
      BY <1>4 DEF Handles, HandleIsKnown
    <2>7. \A i \in DOMAIN connector'.events :
              \E j \in DOMAIN connector.events : connector'.events[i] = connector.events[j]
      BY <1>1
    <2> QED BY <1>1, <1>3, <1>4, <2>1, <2>2, <2>3, <2>4, <2>5, <2>6, <2>7, CallChanges
  <1> QED BY <1>6, <1>7, <1>8, <1>9 DEF Agreed, Paths

-----------------------------------------------------------------------------
(* The messages between connector and device.                              *)
LEMMA OneAtATime ==
    ASSUME IInv, ~late
    PROVE  /\ ~Asking => /\ \A m \in Elements(device.toClient) : m \notin OnTheWay
                         /\ \A m \in Elements(device.jobs) : m \notin OnTheWay
           /\ device.jobs # <<>> /\ Head(device.jobs) \in OnTheWay =>
                  /\ Asking
                  /\ \A m \in Elements(Tail(device.jobs)) : m \notin OnTheWay
                  /\ \A m \in Elements(device.toClient) : m \notin OnTheWay
  <1>1. /\ connector.events \in Seq(ConnectorEvents(Dispatchers)) /\ device.toDevice \in Seq(Messages)
        /\ device.jobs \in Seq(Messages) /\ device.toClient \in Seq(Messages)
    BY Shapes
  <1>2. ASSUME ~Asking
        PROVE  /\ \A m \in Elements(device.toClient) : m \notin OnTheWay
               /\ \A m \in Elements(device.jobs) : m \notin OnTheWay
    BY <1>2, NoneAround DEF Elements
  <1>3. ASSUME device.jobs # <<>>, Head(device.jobs) \in OnTheWay
        PROVE  /\ Asking
               /\ \A m \in Elements(Tail(device.jobs)) : m \notin OnTheWay
               /\ \A m \in Elements(device.toClient) : m \notin OnTheWay
    <2> DEFINE t == Tail(device.jobs)
    <2>1. t \in Seq(Messages) /\ Many(device.jobs, OnTheWay) = Many(t, OnTheWay) + 1
      BY <1>1, <1>3, ManyInTail
    <2> HIDE DEF t
    <2>2. /\ Many(connector.events, LiveSends(device.conn)) \in Nat
          /\ Many(device.toDevice, OnTheWay) \in Nat /\ Many(t, OnTheWay) \in Nat
          /\ Many(device.toClient, OnTheWay) \in Nat
      BY <1>1, <2>1, ManyIsFinite
    <2>3. Flight(connector, device) <= (IF Asking THEN 1 ELSE 0)
      BY DEF IInv, OneInFlight
    <2>4. Asking /\ Many(t, OnTheWay) = 0 /\ Many(device.toClient, OnTheWay) = 0
      BY <2>1, <2>2, <2>3 DEF Flight
    <2>5. \A i \in DOMAIN t : t[i] \notin OnTheWay
      BY <2>1, <2>4, NoneOfNone
    <2>6. \A i \in DOMAIN device.toClient : device.toClient[i] \notin OnTheWay
      BY <1>1, <2>4, NoneOfNone
    <2> QED BY <2>4, <2>5, <2>6 DEF Elements, t
  <1> QED BY <1>2, <1>3

(* Who waits for the device, or has its answer, waits for the dispatcher   *)
(* of the plugin, and the context of that is known.                        *)
LEMMA AskerIsKnown ==
    ASSUME IInv, Agreed, ~Idle, call.n = device.conn
    PROVE  /\ device.conn # 0 /\ device.conn \in DOMAIN readers /\ call.key = device.conn
           /\ plugin.dispatcher = device.conn /\ device.conn \in plugin.hears
           /\ Known(device.conn) /\ NothingComes
  <1>1. device.conn # 0 /\ device.conn \in DOMAIN readers /\ call.key = device.conn
    BY DEF IInv, ReadersAreThere, Agreed, Handles, ReadersAreNamed
  <1>2. plugin.dispatcher = device.conn /\ Known(device.conn)
    BY <1>1 DEF Agreed, Handles, ReadersAreNamed
  <1>3. device.conn \in plugin.hears /\ NothingComes
    BY <1>1, <1>2 DEF Agreed, Paths, DispatcherIsHeard, NewestIsLast
  <1> QED BY <1>1, <1>2, <1>3

LEMMA RepliesAreAsked ==
    ASSUME IInv, ~late, NEW m \in Replies
    PROVE  m \in Messages /\ (m \in OnTheWay => ~Idle /\ call.n = device.conn)
  <1>1. device.toClient \in Seq(Messages) /\ call.got \in Messages
    BY Shapes
  <1>2. m \in Elements(device.toClient) \/ (~Idle /\ call.n = device.conn /\ m = call.got)
    BY DEF Replies
  <1>3. m \in Messages
    BY <1>1, <1>2, ElementsFacts
  <1> QED BY <1>2, <1>3, OneAtATime DEF Asking

LEMMA NoneInMessages ==
    ASSUME NEW q \in Seq(Messages), NEW types
    PROVE  /\ \A m \in Messages : None(q, types) /\ m.type \notin types => None(Append(q, m), types)
           /\ q # <<>> /\ None(q, types) => None(Tail(q), types) /\ Head(q).type \notin types
  <1>1. ASSUME NEW m \in Messages, None(q, types), m.type \notin types PROVE None(Append(q, m), types)
    BY <1>1, OneMore
  <1>2. ASSUME q # <<>>, None(q, types) PROVE None(Tail(q), types) /\ Head(q).type \notin types
    BY <1>2, OneLess
  <1> QED BY <1>1, <1>2

LEMMA NoStatusKept ==
    ASSUME IInv, NoStatus, NEW d, NEW w \in Messages, w.type # "status",
           \/ d.toDevice = device.toDevice
           \/ d.toDevice = Append(device.toDevice, w) /\ w.type # "getStatus"
           \/ device.toDevice # <<>> /\ d.toDevice = Tail(device.toDevice),
           \/ d.jobs = device.jobs \/ d.jobs = Append(device.jobs, w)
           \/ device.jobs # <<>> /\ d.jobs = Tail(device.jobs),
           d.toClient = device.toClient \/ d.toClient = Append(device.toClient, w),
           device' = d
    PROVE  NoStatus'
  <1> DEFINE A == {"getStatus", "status"}
             B == {"status"}
  <1>1. device.toDevice \in Seq(Messages) /\ device.jobs \in Seq(Messages) /\ device.toClient \in Seq(Messages)
    BY Shapes
  <1>2. /\ None(device.toDevice, A) /\ None(device.jobs, B) /\ None(device.toClient, B)
        /\ w.type \notin B /\ (w.type # "getStatus" => w.type \notin A)
    BY DEF NoStatus
  <1> HIDE DEF A, B
  <1>3. ASSUME NEW q \in Seq(Messages), NEW S, None(q, S)
        PROVE  /\ w.type \notin S => None(Append(q, w), S)
               /\ q # <<>> => None(Tail(q), S)
    BY <1>3, NoneInMessages
  <1>4. None(d.toDevice, A)
    <2>1. /\ w.type \notin A => None(Append(device.toDevice, w), A)
          /\ device.toDevice # <<>> => None(Tail(device.toDevice), A)
      BY <1>1, <1>2, <1>3
    <2> QED BY <1>2, <2>1
  <1>5. None(d.jobs, B)
    <2>1. None(Append(device.jobs, w), B) /\ (device.jobs # <<>> => None(Tail(device.jobs), B))
      BY <1>1, <1>2, <1>3
    <2> QED BY <1>2, <2>1
  <1>6. None(d.toClient, B)
    <2>1. None(Append(device.toClient, w), B)
      BY <1>1, <1>2, <1>3
    <2> QED BY <1>2, <2>1
  <1> QED BY <1>4, <1>5, <1>6 DEF NoStatus, A, B

(* Steps of the device alone leave the paths of the events as they are.    *)
LEMMA DevicePaths ==
    ASSUME IInv, IInv', Paths, UNCHANGED <<client, plugin, connector>>, device'.conn = device.conn,
           device.conn # 0 /\ ~Known(device.conn) => NoStatus'
    PROVE  Paths'
  <1>1. PluginCalm(plugin, plugin') /\ ClientCalm(client, client')
    BY ClientCalmTakes, PluginCalmTakes
  <1>2. /\ Fewer(client.events, client'.events, {"created"})
        /\ Fewer(plugin.events, plugin'.events, {"dispatcher", "context", "status"})
    BY <1>1 DEF ClientCalm, PluginCalm
  <1>3. Newest' = Newest /\ (\A n \in Dispatchers : Known(n) => Known(n)')
        /\ \A i \in DOMAIN connector'.events : Fits(connector.events[i])'
    BY DEF Newest, Known, Paths, ContextIsKnown, Fits
  <1> QED BY <1>2, <1>3, PathsKept

LEMMA RepliesGrow ==
    ASSUME IInv, UNCHANGED <<plugin, call>>, device'.conn = device.conn, NEW w \in Messages,
           device'.toClient = Append(device.toClient, w)
    PROVE  /\ Replies' = Replies \cup {w} /\ (Absence => Absence')
           /\ Absence' <=> Absence \/ (w.type = "status" /\ ~w.ok)
           /\ \A type : Granted(type)' <=> Granted(type) \/ (w.type = type /\ w.ok)
  <1>1. Elements(device'.toClient) = Elements(device.toClient) \cup {w}
    BY Shapes, ElementsFacts
  <1>2. Replies' = Replies \cup {w}
    BY <1>1 DEF Replies, Idle
  <1>3. Absence' <=> Absence \/ (w.type = "status" /\ ~w.ok)
    BY <1>1 DEF Absence, Gives
  <1> QED BY <1>2, <1>3 DEF Granted

LEMMA DeviceReceivesAgrees ==
    ASSUME IInv, IInv', Agreed, DeviceReceives
    PROVE  Agreed'
  <1> DEFINE D   == Dispatchers
             msg == Head(device.toDevice)
             t   == Tail(device.toDevice)
             d   == [device EXCEPT !.toDevice = t]
             j   == Append(device.jobs, msg)
  <1>1. /\ device \in DeviceType(D) /\ device.toDevice \in Seq(Messages) /\ device.jobs \in Seq(Messages)
        /\ device.toClient \in Seq(Messages) /\ device.card \in BOOLEAN
    BY Shapes
  <1>2. device.toDevice # <<>> /\ UNCHANGED <<bounds, client, plugin, readers, call, connector, late>>
    BY DEF DeviceReceives, Ghosts
  <1>3. msg \in Messages /\ t \in Seq(Messages) /\ j \in Seq(Messages) /\ device.conn # 0
    BY <1>1, <1>2 DEF IInv, LinkIsOpen
  <1>4. msg.id \in Nat
    BY <1>3 DEF Messages
  <1>5. \/ \E w \in Messages :
               /\ device' = Reply(d, w) /\ w.type # "getStatus"
               /\ w.type = "status" => msg.type = "getStatus" /\ w.ok = device.card
               /\ w.type \in {"connect", "disconnect"} => ~w.ok
        \/ /\ device' = [d EXCEPT !.jobs = j] /\ msg.type \notin {"context", "getStatus"}
           /\ msg.type = "disconnect" => msg.handle = device.handle
    <2> DEFINE context == Message("context", 0, 0, TRUE)
               status  == Message("status", 0, 0, device.card)
               refused(type) == Message(type, msg.id, 0, FALSE)
    <2>0. /\ {"context", "status"} \subseteq Requests \cup {"none", "context", "getStatus", "status"}
          /\ Requests \subseteq Requests \cup {"none", "context", "getStatus", "status"}
          /\ 0 \in Nat /\ TRUE \in BOOLEAN /\ FALSE \in BOOLEAN
      OBVIOUS
    <2>1. /\ context \in Messages /\ context.type = "context"
          /\ status \in Messages /\ status.type = "status" /\ status.ok = device.card
      BY <1>1, <2>0 DEF Message, Messages
    <2>2. ASSUME NEW type \in Requests
          PROVE  refused(type) \in Messages /\ refused(type).type = type /\ ~refused(type).ok
      BY <1>4, <2>0 DEF Message, Messages
    <2>3. \/ device' = Reply(d, context)
          \/ device' = Reply(d, status) /\ msg.type = "getStatus"
          \/ \E type \in Requests : device' = Reply(d, refused(type))
          \/ /\ device' = [d EXCEPT !.jobs = j] /\ msg.type \notin {"context", "getStatus"}
             /\ msg.type = "disconnect" => msg.handle = device.handle
      BY DEF DeviceReceives, Requests
    <2>4. \A type \in Requests : type \notin {"getStatus", "status"}
      BY DEF Requests
    <2> HIDE DEF d, j, context, status, refused
    <2> QED BY <2>1, <2>2, <2>3, <2>4
  <1>6. /\ d \in DeviceType(D) /\ d.conn = device.conn /\ d.toDevice = t /\ d.jobs = device.jobs
        /\ d.toClient = device.toClient /\ d.handle = device.handle /\ d.card = device.card
    <2> HIDE DEF t, D
    <2> QED BY <1>1, <1>3 DEF DeviceType
  <1> HIDE DEF d
  <1>7. Paths /\ Handles /\ ContextIsKnown
    BY DEF Agreed, Paths
  <1>8. Elements(device.toDevice) = Elements(t) \cup {msg}
    BY <1>1, <1>2, ElementsFacts
  <1>9. ~Known(device.conn) => NoStatus /\ msg.type \notin {"getStatus", "status"}
    <2> DEFINE A == {"getStatus", "status"}
    <2>1. ~Known(device.conn) => NoStatus /\ None(device.toDevice, A)
      BY <1>3, <1>7 DEF ContextIsKnown, NoStatus
    <2> HIDE DEF A
    <2>2. None(device.toDevice, A) => msg.type \notin A
      BY <1>1, <1>2, NoneInMessages
    <2> QED BY <2>1, <2>2 DEF A
  <1>10. ASSUME NEW w \in Messages, device' = Reply(d, w), w.type # "getStatus",
                w.type = "status" => msg.type = "getStatus" /\ w.ok = device.card,
                w.type \in {"connect", "disconnect"} => ~w.ok
         PROVE  Agreed'
    <2>1. /\ device'.conn = device.conn /\ device'.toDevice = t
          /\ device'.jobs = device.jobs /\ device'.toClient = Append(device.toClient, w)
          /\ device'.handle = device.handle /\ device'.card = device.card
      <3>1. Reply(d, w).handle = d.handle /\ Reply(d, w).card = d.card
        <4> DEFINE q == Append(d.toClient, w)
        <4>1. Reply(d, w) = [d EXCEPT !.toClient = q]
          BY DEF Reply
        <4> HIDE DEF q
        <4> QED BY <1>6, <4>1 DEF DeviceType
      <3> QED BY <1>6, <1>10, <3>1, Replied
    <2>2. /\ Replies' = Replies \cup {w} /\ (Absence => Absence')
          /\ Absence' => Absence \/ ~device.card
          /\ Granted("connect")' <=> Granted("connect")
          /\ Granted("disconnect")' <=> Granted("disconnect")
      BY <1>2, <1>10, <2>1, RepliesGrow
    <2>3. ~Known(device.conn) => NoStatus'
      BY <1>2, <1>9, <1>10, <2>1, NoStatusKept
    <2>4. Paths'
      BY <1>2, <1>7, <2>1, <2>3, DevicePaths
    <2>5. Idle' = Idle /\ Request' = Request /\ NothingComes' = NothingComes
          /\ \A n : Known(n)' = Known(n)
      BY <1>2 DEF Idle, Request, NothingComes, Known
    <2>6. ReadersAreNamed' /\ HandleIsKnown'
      BY <1>2, <1>7, <2>1, <2>5 DEF Handles, ReadersAreNamed, HandleIsKnown
    <2>7. RequestIsAsSent'
      BY <1>2, <1>7, <1>8, <2>1, <2>5 DEF Handles, RequestIsAsSent
    <2>8. RepliesFit' /\ StatusIsTrue'
      BY <1>2, <1>7, <1>10, <2>1, <2>2 DEF Handles, RepliesFit, StatusIsTrue
    <2>9. HandlesAgree' /\ HandleIsHeld'
      BY <1>2, <1>7, <2>1, <2>2 DEF Handles, HandlesAgree, HandleIsHeld
    <2> QED BY <2>4, <2>6, <2>7, <2>8, <2>9 DEF Agreed, Handles
  <1>11. ASSUME device' = [d EXCEPT !.jobs = j], msg.type \notin {"context", "getStatus"},
                msg.type = "disconnect" => msg.handle = device.handle
         PROVE  Agreed'
    <2>1. /\ device'.conn = device.conn /\ device'.toDevice = t
          /\ device'.jobs = j /\ device'.toClient = device.toClient
          /\ device'.handle = device.handle /\ device'.card = device.card
      <3> HIDE DEF t, j, D
      <3> QED BY <1>3, <1>6, <1>11 DEF DeviceType
    <2>2. Elements(j) = Elements(device.jobs) \cup {msg}
      BY <1>1, <1>3, ElementsFacts
    <2>3. /\ Replies' = Replies /\ (Absence <=> Absence')
          /\ (\A type : Granted(type)' <=> Granted(type))
      BY <1>2, <2>1, SameReplies DEF Absence
    <2>4. ~Known(device.conn) => NoStatus'
      <3>1. ASSUME ~Known(device.conn) PROVE NoStatus'
        <4>1. NoStatus /\ msg.type # "status"
          BY <1>9, <3>1
        <4>2. /\ device'.toDevice = Tail(device.toDevice) /\ device'.jobs = Append(device.jobs, msg)
              /\ device'.toClient = device.toClient
          BY <2>1
        <4> QED BY <1>2, <1>3, <4>1, <4>2, NoStatusKept
      <3> QED BY <3>1
    <2>5. Paths'
      BY <1>2, <1>7, <2>1, <2>4, DevicePaths
    <2>6. Idle' = Idle /\ Request' = Request /\ NothingComes' = NothingComes
          /\ \A n : Known(n)' = Known(n)
      BY <1>2 DEF Idle, Request, NothingComes, Known
    <2>7. ReadersAreNamed' /\ HandleIsKnown'
      BY <1>2, <1>7, <2>1, <2>6 DEF Handles, ReadersAreNamed, HandleIsKnown
    <2>8. RequestIsAsSent'
      <3> HIDE DEF msg, j, t
      <3> QED BY <1>2, <1>7, <1>8, <1>11, <2>1, <2>2, <2>6 DEF Handles, RequestIsAsSent
    <2>9. RepliesFit' /\ StatusIsTrue'
      BY <1>2, <1>7, <2>1, <2>3 DEF Handles, RepliesFit, StatusIsTrue
    <2>10. HandlesAgree' /\ HandleIsHeld'
      BY <1>2, <1>7, <2>1, <2>3 DEF Handles, HandlesAgree, HandleIsHeld
    <2> QED BY <2>5, <2>7, <2>8, <2>9, <2>10 DEF Agreed, Handles
  <1> HIDE DEF msg, t, j
  <1> QED BY <1>5, <1>10, <1>11

LEMMA DeviceAnswersAgrees ==
    ASSUME IInv, IInv', Agreed, DeviceAnswers
    PROVE  Agreed'
  <1> DEFINE D   == Dispatchers
             msg == Head(device.jobs)
             t   == Tail(device.jobs)
             d   == [device EXCEPT !.jobs = t]
  <1>1. /\ device \in DeviceType(D) /\ device.jobs \in Seq(Messages) /\ device.toClient \in Seq(Messages)
        /\ device.card \in BOOLEAN /\ device.handle \in Nat
    BY Shapes
  <1>2. device.jobs # <<>> /\ UNCHANGED <<bounds, client, plugin, readers, call, connector, late>>
    BY DEF DeviceAnswers, Ghosts
  <1>3. msg \in Messages /\ t \in Seq(Messages) /\ device.conn # 0
    BY <1>1, <1>2 DEF IInv, LinkIsOpen
  <1>4. /\ msg.id \in Nat /\ msg.handle \in Nat
        /\ msg.type \in Requests \cup {"none", "context", "getStatus", "status"}
    BY <1>3 DEF Messages
  <1>5. /\ d \in DeviceType(D) /\ d.conn = device.conn /\ d.toDevice = device.toDevice /\ d.jobs = t
        /\ d.toClient = device.toClient /\ d.handle = device.handle /\ d.card = device.card
    <2> HIDE DEF t, D
    <2> QED BY <1>1, <1>3 DEF DeviceType
  <1>6. \E w \in Messages, h \in Nat :
            /\ \/ device' = Reply(d, w) /\ h = device.handle
               \/ device' = Reply([d EXCEPT !.handle = h], w)
            /\ w.type = msg.type
            /\ \/ /\ msg.type = "connect" /\ device.card /\ w.ok /\ w.handle = h
               \/ /\ msg.type = "connect" /\ ~w.ok /\ h = device.handle
               \/ /\ msg.type = "disconnect" /\ w.ok
                  /\ h = IF device.handle = msg.handle THEN 0 ELSE device.handle
               \/ /\ msg.type \notin {"connect", "disconnect"} /\ w.ok = device.card /\ h = device.handle
    <2> DEFINE done    == Message("connect", msg.id, msg.id, TRUE)
               failed  == Message("connect", msg.id, 0, FALSE)
               dropped == Message("disconnect", msg.id, 0, TRUE)
               other   == Message(msg.type, msg.id, 0, device.card)
               less    == IF d.handle = msg.handle THEN 0 ELSE d.handle
    <2>1. /\ done \in Messages /\ done.type = "connect" /\ done.handle = msg.id /\ done.ok
          /\ failed \in Messages /\ failed.type = "connect" /\ ~failed.ok
          /\ dropped \in Messages /\ dropped.type = "disconnect" /\ dropped.ok
          /\ other \in Messages /\ other.type = msg.type /\ other.ok = device.card
      <3>1. {"connect", "disconnect"} \subseteq Requests \cup {"none", "context", "getStatus", "status"}
        BY DEF Requests
      <3> QED BY <1>1, <1>4, <3>1 DEF Message, Messages
    <2>2. less \in Nat
      BY <1>1, <1>5
    <2>3. \/ msg.type = "connect" /\ device.card /\ device' = Reply([d EXCEPT !.handle = msg.id], done)
          \/ msg.type = "connect" /\ device' = Reply(d, failed)
          \/ msg.type = "disconnect" /\ device' = Reply([d EXCEPT !.handle = less], dropped)
          \/ msg.type \notin {"connect", "disconnect"} /\ device' = Reply(d, other)
      BY <1>1 DEF DeviceAnswers
    <2> HIDE DEF done, failed, dropped, other, d, msg
    <2>4. CASE msg.type = "connect" /\ device.card /\ device' = Reply([d EXCEPT !.handle = msg.id], done)
      BY <1>4, <2>1, <2>4
    <2>5. CASE msg.type = "connect" /\ device' = Reply(d, failed)
      BY <1>1, <2>1, <2>5
    <2>6. CASE msg.type = "disconnect" /\ device' = Reply([d EXCEPT !.handle = less], dropped)
      <3>1. less = IF device.handle = msg.handle THEN 0 ELSE device.handle
        BY <1>5
      <3> HIDE DEF less
      <3> QED BY <2>1, <2>2, <2>6, <3>1
    <2>7. CASE msg.type \notin {"connect", "disconnect"} /\ device' = Reply(d, other)
      BY <1>1, <2>1, <2>7
    <2> QED BY <2>3, <2>4, <2>5, <2>6, <2>7
  <1>7. PICK w \in Messages, h \in Nat :
            /\ \/ device' = Reply(d, w) /\ h = device.handle
               \/ device' = Reply([d EXCEPT !.handle = h], w)
            /\ w.type = msg.type
            /\ \/ /\ msg.type = "connect" /\ device.card /\ w.ok /\ w.handle = h
               \/ /\ msg.type = "connect" /\ ~w.ok /\ h = device.handle
               \/ /\ msg.type = "disconnect" /\ w.ok
                  /\ h = IF device.handle = msg.handle THEN 0 ELSE device.handle
               \/ /\ msg.type \notin {"connect", "disconnect"} /\ w.ok = device.card /\ h = device.handle
    BY <1>6
  <1>8. /\ device'.conn = device.conn /\ device'.toDevice = device.toDevice
        /\ device'.jobs = t /\ device'.toClient = Append(device.toClient, w)
        /\ device'.handle = h /\ device'.card = device.card
    <2> DEFINE e == [d EXCEPT !.handle = h]
    <2>1. /\ e \in DeviceType(D) /\ e.conn = d.conn /\ e.toDevice = d.toDevice /\ e.jobs = d.jobs
          /\ e.toClient = d.toClient /\ e.card = d.card /\ e.handle = h
      <3> HIDE DEF d, D
      <3> QED BY <1>5 DEF DeviceType
    <2>2. \A x \in DeviceType(D) : Reply(x, w).handle = x.handle /\ Reply(x, w).card = x.card
      <3> TAKE x \in DeviceType(D)
      <3> DEFINE q == Append(x.toClient, w)
      <3>1. Reply(x, w) = [x EXCEPT !.toClient = q]
        BY DEF Reply
      <3> HIDE DEF q
      <3> QED BY <3>1 DEF DeviceType
    <2> HIDE DEF e, d, t
    <2>3. CASE device' = Reply(d, w) /\ h = device.handle
      BY <1>5, <2>2, <2>3, Replied
    <2>4. CASE device' = Reply(e, w)
      BY <1>5, <2>1, <2>2, <2>4, Replied
    <2> QED BY <1>7, <2>3, <2>4 DEF e
  <1> HIDE DEF d
  <1>9. Paths /\ Handles /\ ContextIsKnown
    BY DEF Agreed, Paths
  <1>10. Elements(device.jobs) = Elements(t) \cup {msg} /\ Elements(device.jobs) \subseteq Messages
    BY <1>1, <1>2, ElementsFacts
  <1>11. /\ Replies' = Replies \cup {w} /\ (Absence => Absence')
         /\ Absence' <=> Absence \/ (w.type = "status" /\ ~w.ok)
         /\ \A type : Granted(type)' <=> Granted(type) \/ (w.type = type /\ w.ok)
    BY <1>2, <1>8, RepliesGrow
  <1>12. /\ Idle' = Idle /\ Request' = Request /\ NothingComes' = NothingComes
         /\ \A n : Known(n)' = Known(n)
    BY <1>2 DEF Idle, Request, NothingComes, Known
  <1>13. ~Known(device.conn) => NoStatus'
    <2>1. ASSUME ~Known(device.conn) PROVE NoStatus'
      <3> DEFINE B == {"status"}
      <3>1. NoStatus /\ None(device.jobs, B)
        BY <1>3, <1>9, <2>1 DEF ContextIsKnown, NoStatus
      <3>2. msg.type # "status"
        <4>1. msg.type \notin B
          <5> HIDE DEF B
          <5> QED BY <1>1, <1>2, <3>1, NoneInMessages
        <4> QED BY <4>1
      <3> QED BY <1>2, <1>7, <1>8, <3>1, <3>2, NoStatusKept
    <2> QED BY <2>1
  <1>14. Paths'
    BY <1>2, <1>8, <1>9, <1>13, DevicePaths
  <1>15. ASSUME ~late, msg.type \in {"connect", "disconnect"}
         PROVE  /\ Asking /\ call.type = msg.type /\ call.key = device.conn /\ NothingComes
                /\ \A m \in Elements(t) : m \notin OnTheWay
                /\ ~Granted("connect") /\ ~Granted("disconnect")
    <2>1. msg \in OnTheWay /\ {"connect", "disconnect"} \subseteq Requests
      BY <1>3, <1>15 DEF OnTheWay, Requests
    <2>2. /\ Asking /\ (\A m \in Elements(t) : m \notin OnTheWay)
          /\ \A m \in Elements(device.toClient) : m \notin OnTheWay
      BY <1>2, <1>15, <2>1, OneAtATime
    <2>3. msg = Request
      BY <1>9, <1>10, <1>15, <2>1 DEF Handles, RequestIsAsSent
    <2>4. call.type = msg.type
      BY <2>3 DEF Request, Message
    <2>5. Replies = Elements(device.toClient) /\ Elements(device.toClient) \subseteq Messages
      BY <1>1, <2>2, ElementsFacts DEF Replies, Asking
    <2>6. ~Granted("connect") /\ ~Granted("disconnect")
      BY <2>1, <2>2, <2>5 DEF Granted, OnTheWay
    <2>7. call.key = device.conn /\ NothingComes
      BY <2>2, AskerIsKnown DEF Asking
    <2> QED BY <2>2, <2>4, <2>6, <2>7
  <1>16. ReadersAreNamed'
    BY <1>2, <1>8, <1>9, <1>12 DEF Handles, ReadersAreNamed
  <1>17. HandleIsKnown'
    <2>1. HandleIsKnown
      BY <1>9 DEF Handles
    <2>2. ~device.card => h = 0
      BY <1>1, <1>7, <2>1 DEF HandleIsKnown
    <2>3. ~late /\ h # 0 => NothingComes
      BY <1>7, <1>15, <2>1 DEF HandleIsKnown
    <2> QED BY <1>2, <1>3, <1>8, <1>12, <2>2, <2>3 DEF HandleIsKnown
  <1>18. RequestIsAsSent'
    <2>1. ASSUME ~late, NEW m \in Elements(t), m.type = "disconnect" PROVE h \in {0, m.handle}
      <3>1. m \in OnTheWay
        BY <1>10, <2>1 DEF OnTheWay, Requests
      <3>2. h = device.handle
        BY <1>7, <1>15, <2>1, <3>1
      <3> QED BY <1>9, <1>10, <2>1, <3>2 DEF Handles, RequestIsAsSent
    <2> QED BY <1>2, <1>8, <1>9, <1>10, <1>12, <2>1 DEF Handles, RequestIsAsSent
  <1>19. RepliesFit'
    <2>1. ASSUME ~late, NEW m \in Replies', m.type = "connect", m.ok
          PROVE  call.type = "connect" /\ (m.handle = h \/ Absence')
      <3>1. CASE m = w
        BY <1>7, <1>15, <2>1, <3>1
      <3>2. CASE m # w
        <4>1. m \in Replies /\ Granted("connect")
          BY <1>11, <2>1, <3>2 DEF Granted
        <4>2. msg.type \notin {"connect", "disconnect"}
          BY <1>15, <2>1, <4>1
        <4>3. h = device.handle
          BY <1>7, <4>2
        <4> QED BY <1>9, <1>11, <2>1, <4>1, <4>3 DEF Handles, RepliesFit
      <3> QED BY <3>1, <3>2
    <2>2. ASSUME ~late, Granted("disconnect")' PROVE call.type = "disconnect" /\ h = 0
      <3>1. CASE msg.type = "disconnect"
        <4>1. device.handle \in {0, msg.handle}
          BY <1>9, <1>10, <2>2, <3>1 DEF Handles, RequestIsAsSent
        <4> QED BY <1>7, <1>15, <2>2, <3>1, <4>1
      <3>2. CASE msg.type # "disconnect"
        <4>1. Granted("disconnect")
          BY <1>7, <1>11, <2>2, <3>2
        <4>2. h = device.handle
          BY <1>7, <1>15, <2>2, <3>2, <4>1
        <4> QED BY <1>9, <2>2, <4>1, <4>2 DEF Handles, RepliesFit
      <3> QED BY <3>1, <3>2
    <2> QED BY <1>2, <1>8, <2>1, <2>2 DEF RepliesFit
  <1>20. StatusIsTrue'
    <2>1. w.type = "status" /\ ~w.ok => ~device.card
      BY <1>7
    <2> QED BY <1>2, <1>8, <1>9, <1>11, <2>1 DEF Handles, StatusIsTrue
  <1>21. HandlesAgree'
    <2>1. ASSUME ~late, device.conn \in DOMAIN readers, readers[device.conn].connected
          PROVE  readers[device.conn].handle = h \/ Absence' \/ Granted("disconnect")'
      <3>1. msg.type # "connect"
        BY <1>9, <1>15, <2>1 DEF Handles, ReadersAreNamed
      <3>2. CASE msg.type = "disconnect"
        BY <1>7, <1>11, <3>2
      <3>3. CASE msg.type # "disconnect"
        <4>1. h = device.handle
          BY <1>7, <3>1, <3>3
        <4> QED BY <1>9, <1>11, <2>1, <4>1 DEF Handles, HandlesAgree
      <3> QED BY <3>2, <3>3
    <2> QED BY <1>2, <1>8, <2>1 DEF HandlesAgree
  <1>22. HandleIsHeld'
    <2>1. ASSUME ~late, ~bounds.moved, h # 0, plugin.dispatcher = device.conn
          PROVE  \/ device.conn \in DOMAIN readers /\ readers[device.conn].connected
                 \/ Granted("connect")'
      <3>1. CASE h = device.handle
        BY <1>9, <1>11, <2>1, <3>1 DEF Handles, HandleIsHeld
      <3>2. CASE h # device.handle
        <4>1. CASE msg.type = "disconnect"
          BY <1>7, <2>1, <3>2, <4>1
        <4>2. CASE msg.type # "disconnect"
          BY <1>7, <1>11, <3>2, <4>2
        <4> QED BY <4>1, <4>2
      <3> QED BY <3>1, <3>2
    <2> QED BY <1>2, <1>8, <2>1 DEF HandleIsHeld
  <1> QED BY <1>14, <1>16, <1>17, <1>18, <1>19, <1>20, <1>21, <1>22 DEF Agreed, Handles

(* The connector gives the next request to the channel. *)
LEMMA DispatcherSendsAgrees ==
    ASSUME IInv, IInv', Agreed, DispatcherSends
    PROVE  Agreed'
  <1> DEFINE D == Dispatchers
             e == ConnectorArg
             m == IF e.type = "send" THEN e.msg ELSE Message(e.type, 0, 0, TRUE)
  <1>1. /\ connector.events \in Seq(ConnectorEvents(D)) /\ connector.events # <<>>
        /\ e.type \in {"context", "getStatus", "send"}
        /\ connector \in ConnectorType(D) /\ device \in DeviceType(D) /\ TypeOK
        /\ device.toDevice \in Seq(Messages)
    BY Shapes DEF DispatcherSends, ConnectorHandles, ConnectorArg, IInv
  <1>2. /\ connector' = ConnectorRest /\ UNCHANGED <<bounds, client, plugin, readers, call, late>>
        /\ Sends(e.n, m)
    BY DEF DispatcherSends, ConnectorHandles, ConnectorArg, Ghosts
  <1>3. /\ ConnectorRest.events = Tail(connector.events) /\ ConnectorRest.channels = connector.channels
        /\ e \in ConnectorEvents(D) /\ ConnectorCalm(connector, ConnectorRest)
    BY <1>1, ConnectorTakes, ConnectorCalmTakes
  <1>4. e.n \in D /\ e.msg \in Messages
    BY <1>1, <1>3 DEF ConnectorEvents
  <1>5. Paths /\ Handles /\ ContextIsKnown
    BY DEF Agreed, Paths
  <1>6. Fits(e)
    <2>1. 1 \in DOMAIN connector.events /\ e = connector.events[1]
      BY <1>1, TailFacts DEF ConnectorArg
    <2> QED BY <1>5, <2>1 DEF ContextIsKnown
  <1>7. /\ m \in Messages /\ m.type # "status" /\ (m.type = "getStatus" => Known(e.n))
        /\ m \in OnTheWay => e.type = "send"
    <2>1. CASE e.type = "send"
      <3>1. m = e.msg /\ m.type \in Requests
        BY <1>6, <2>1 DEF Fits
      <3> HIDE DEF e, m
      <3> QED BY <1>4, <2>1, <3>1 DEF Requests
    <2>2. CASE e.type # "send"
      <3>1. /\ e.type \in Requests \cup {"none", "context", "getStatus", "status"} /\ e.type \notin Requests
            /\ e.type # "status" /\ 0 \in Nat /\ TRUE \in BOOLEAN /\ m = Message(e.type, 0, 0, TRUE)
        BY <1>1, <2>2 DEF Requests
      <3> HIDE DEF e, m
      <3>2. m \in Messages /\ m.type = e.type
        BY <3>1 DEF Message, Messages
      <3> QED BY <1>6, <3>1, <3>2 DEF Fits, OnTheWay
    <2> QED BY <2>1, <2>2
  <1> HIDE DEF m
  <1>8. CASE device' = device
    BY <1>2, <1>3, <1>8, ClientCalmTakes, PluginCalmTakes, CalmStep
  <1>9. CASE device' # device
    <2> DEFINE q == Append(device.toDevice, m)
    <2>1. device' = [device EXCEPT !.toDevice = q] /\ device.conn = e.n
      BY <1>1, <1>2, <1>4, <1>9 DEF Sends, IInv, LinkIsOpen
    <2>2. q \in Seq(Messages) /\ Elements(q) = Elements(device.toDevice) \cup {m}
      BY <1>1, <1>7, ElementsFacts
    <2> HIDE DEF q
    <2>3. /\ device'.conn = device.conn /\ device'.toDevice = q
          /\ device'.jobs = device.jobs /\ device'.toClient = device.toClient
          /\ device'.handle = device.handle /\ device'.card = device.card
      BY <1>1, <2>1, <2>2 DEF DeviceType
    <2>4. /\ Newest' = Newest /\ (\A n \in Dispatchers : Known(n) => Known(n)')
          /\ \A i \in DOMAIN connector'.events : Fits(connector.events[i])'
      BY <1>2, <1>3, <1>5, ConnectorCalmFacts
    <2>5. device'.conn # 0 /\ ~Known(device.conn) => NoStatus'
      <3>1. ASSUME device'.conn # 0, ~Known(device.conn) PROVE NoStatus'
        <4>1. NoStatus /\ m.type # "getStatus"
          BY <1>5, <1>7, <2>1, <2>3, <3>1 DEF ContextIsKnown
        <4> QED BY <1>7, <2>3, <4>1, NoStatusKept DEF q
      <3> QED BY <3>1
    <2>6. Paths'
      <3>1. ClientCalm(client, client') /\ PluginCalm(plugin, plugin')
        BY <1>2, ClientCalmTakes, PluginCalmTakes
      <3> QED BY <1>5, <2>3, <2>4, <2>5, <3>1, PathsKept DEF ClientCalm, PluginCalm
    <2>7. /\ Replies' = Replies /\ (\A type : Granted(type)' <=> Granted(type)) /\ Request' = Request
          /\ (Absence' <=> Absence) /\ Idle' = Idle /\ NothingComes' = NothingComes
          /\ \A n : Known(n)' = Known(n)
      BY <1>2, <1>3, <2>3, SameReplies DEF Request, Absence, Idle, NothingComes, Known
    <2>8. ReadersAreNamed' /\ HandleIsKnown'
      BY <1>2, <1>5, <2>3, <2>7 DEF Handles, ReadersAreNamed, HandleIsKnown
    <2>9. RequestIsAsSent'
      <3>1. Elements(connector.events) = Elements(connector'.events) \cup {e}
        BY <1>1, <1>2, <1>3, ElementsFacts DEF ConnectorArg
      <3>2. ~late /\ m \in OnTheWay => m = Request
        <4>1. ASSUME ~late, m \in OnTheWay PROVE m = Request
          <5>1. e.type = "send" /\ m = e.msg
            BY <1>7, <4>1 DEF m
          <5>2. e \in LiveSends(device.conn)
            BY <1>3, <1>4, <2>1, <5>1 DEF ConnectorEvents, LiveSends
          <5> QED BY <1>5, <3>1, <4>1, <5>1, <5>2 DEF Handles, RequestIsAsSent
        <4> QED BY <4>1
      <3> HIDE DEF e
      <3> QED BY <1>2, <1>5, <2>2, <2>3, <2>7, <3>1, <3>2 DEF Handles, RequestIsAsSent
    <2>10. RepliesFit' /\ StatusIsTrue'
      BY <1>2, <1>5, <2>3, <2>7 DEF Handles, RepliesFit, StatusIsTrue
    <2>11. HandlesAgree' /\ HandleIsHeld'
      BY <1>2, <1>5, <2>3, <2>7 DEF Handles, HandlesAgree, HandleIsHeld
    <2> QED BY <2>6, <2>8, <2>9, <2>10, <2>11 DEF Agreed, Handles
  <1> QED BY <1>8, <1>9

(* The card is removed or put back: the handle is gone, and the news of it *)
(* comes first.                                                            *)
LEMMA CardChangesAgrees ==
    ASSUME IInv, IInv', Agreed, CardChanges
    PROVE  Agreed'
  <1> DEFINE D  == Dispatchers
             cd == ~device.card
             h  == IF device.card THEN 0 ELSE device.handle
             d  == [device EXCEPT !.card = cd, !.handle = h]
             w  == Message("status", 0, 0, d.card)
  <1>1. /\ device \in DeviceType(D) /\ device.card \in BOOLEAN /\ device.handle \in Nat
        /\ device.toClient \in Seq(Messages) /\ bounds \in Limits /\ cd \in BOOLEAN /\ h \in Nat
    BY Shapes
  <1>2. /\ device.conn # 0 /\ UNCHANGED <<client, plugin, readers, call, connector, late>>
        /\ bounds' = [bounds EXCEPT !.removals = @ - 1, !.moved = TRUE]
        /\ device' = IF Known(device.conn) THEN Reply(d, w) ELSE d
    BY DEF CardChanges, Ghosts, Known
  <1>3. bounds'.moved = TRUE
    BY <1>1, <1>2 DEF Limits
  <1>4. /\ d \in DeviceType(D) /\ d.conn = device.conn /\ d.toDevice = device.toDevice /\ d.jobs = device.jobs
        /\ d.toClient = device.toClient /\ d.handle = h /\ d.card = cd
    <2> HIDE DEF D, h, cd
    <2> QED BY <1>1 DEF DeviceType
  <1>5. w \in Messages /\ w.type = "status" /\ w.ok = cd
    <2>1. /\ w = Message("status", 0, 0, cd) /\ 0 \in Nat
          /\ "status" \in Requests \cup {"none", "context", "getStatus", "status"}
      BY <1>4
    <2> HIDE DEF w, cd
    <2> QED BY <1>1, <2>1 DEF Message, Messages
  <1> HIDE DEF d, w
  <1>6. /\ device'.conn = device.conn /\ device'.toDevice = device.toDevice
        /\ device'.jobs = device.jobs /\ device'.handle = h /\ device'.card = cd
        /\ device'.toClient = IF Known(device.conn) THEN Append(device.toClient, w) ELSE device.toClient
    <2>1. CASE Known(device.conn)
      <3>1. Reply(d, w).handle = d.handle /\ Reply(d, w).card = d.card
        <4> DEFINE q == Append(d.toClient, w)
        <4>1. Reply(d, w) = [d EXCEPT !.toClient = q]
          BY DEF Reply
        <4> HIDE DEF q
        <4> QED BY <1>4, <4>1 DEF DeviceType
      <3> QED BY <1>2, <1>4, <1>5, <2>1, <3>1, Replied
    <2>2. CASE ~Known(device.conn)
      BY <1>2, <1>4, <2>2
    <2> QED BY <2>1, <2>2
  <1>7. Paths /\ Handles /\ ContextIsKnown
    BY DEF Agreed, Paths
  <1>8. ~Known(device.conn) => NoStatus'
    BY <1>2, <1>6, <1>7 DEF ContextIsKnown, NoStatus
  <1>9. Paths'
    BY <1>2, <1>6, <1>7, <1>8, DevicePaths
  <1>10. /\ Idle' = Idle /\ Request' = Request /\ NothingComes' = NothingComes
         /\ \A n : Known(n)' = Known(n)
    BY <1>2 DEF Idle, Request, NothingComes, Known
  <1>11. /\ \A m \in Replies' : m \in Replies \/ m.type = "status"
         /\ \A type : type # "status" => (Granted(type)' <=> Granted(type))
         /\ Absence => Absence'
         /\ Known(device.conn) /\ device.card => Absence'
    <2>1. CASE Known(device.conn)
      <3>1. /\ Replies' = Replies \cup {w} /\ (Absence => Absence')
            /\ Absence' <=> Absence \/ (w.type = "status" /\ ~w.ok)
            /\ \A type : Granted(type)' <=> Granted(type) \/ (w.type = type /\ w.ok)
        BY <1>2, <1>5, <1>6, <2>1, RepliesGrow
      <3> QED BY <1>5, <3>1
    <2>2. CASE ~Known(device.conn)
      <3>1. /\ Replies' = Replies /\ (\A type : Granted(type)' <=> Granted(type)) /\ (Absence' <=> Absence)
        BY <1>2, <1>6, <2>2, SameReplies DEF Absence
      <3> QED BY <2>2, <3>1
    <2> QED BY <2>1, <2>2
  <1>12. ReadersAreNamed'
    BY <1>2, <1>6, <1>7, <1>10 DEF Handles, ReadersAreNamed
  <1>13. HandleIsKnown'
    BY <1>1, <1>2, <1>6, <1>7, <1>10 DEF Handles, HandleIsKnown
  <1>14. RequestIsAsSent'
    BY <1>2, <1>6, <1>7, <1>10 DEF Handles, RequestIsAsSent
  <1>15. RepliesFit'
    <2>1. ASSUME ~late, NEW m \in Replies', m.type = "connect", m.ok
          PROVE  call.type = "connect" /\ (m.handle = h \/ Absence')
      <3>1. m \in Replies
        BY <1>11, <2>1
      <3>2. call.type = "connect" /\ (m.handle = device.handle \/ Absence)
        BY <1>7, <2>1, <3>1 DEF Handles, RepliesFit
      <3>3. Known(device.conn)
        <4>1. m \in Messages /\ "connect" \in Requests
          BY <2>1, <3>1, RepliesAreAsked DEF Requests
        <4>2. ~Idle /\ call.n = device.conn
          BY <2>1, <3>1, <4>1, RepliesAreAsked DEF OnTheWay
        <4> QED BY <4>2, AskerIsKnown
      <3> QED BY <1>1, <1>11, <3>2, <3>3
    <2>2. ASSUME ~late, Granted("disconnect")' PROVE call.type = "disconnect" /\ h = 0
      <3>1. Granted("disconnect")
        BY <1>11, <2>2
      <3> QED BY <1>7, <2>2, <3>1 DEF Handles, RepliesFit
    <2> QED BY <1>2, <1>6, <2>1, <2>2 DEF RepliesFit
  <1>16. StatusIsTrue'
    BY <1>3 DEF StatusIsTrue
  <1>17. HandlesAgree'
    <2>1. ASSUME ~late, device.conn \in DOMAIN readers, readers[device.conn].connected
          PROVE  readers[device.conn].handle = h \/ Absence' \/ Granted("disconnect")'
      <3>1. readers[device.conn].handle = device.handle \/ Absence \/ Granted("disconnect")
        BY <1>7, <2>1 DEF Handles, HandlesAgree
      <3>2. Known(device.conn)
        BY <1>7, <2>1 DEF Handles, ReadersAreNamed
      <3> QED BY <1>1, <1>11, <3>1, <3>2
    <2> QED BY <1>2, <1>6, <2>1 DEF HandlesAgree
  <1>18. HandleIsHeld'
    BY <1>3 DEF HandleIsHeld
  <1> QED BY <1>9, <1>12, <1>13, <1>14, <1>15, <1>16, <1>17, <1>18 DEF Agreed, Handles

(* A message of the device comes in. *)
LEMMA ContextIsSet ==
    ASSUME NEW D, NEW k \in ConnectorType(D), NEW n \in 1..Len(k.channels)
    PROVE  LET l == ContextKnown(k, n) IN
           /\ Len(l.channels) = Len(k.channels) /\ l.channels[n].context
           /\ \A j \in 1..Len(k.channels) : k.channels[j].context => l.channels[j].context
  <1> DEFINE l   == ContextKnown(k, n)
             ch  == [k.channels[n] EXCEPT !.context = TRUE]
             chs == [k.channels EXCEPT ![n] = ch]
  <1>1. k.channels \in Seq(Channels) /\ k.channels[n] \in Channels
    BY DEF ConnectorType
  <1>2. ch \in Channels /\ ch.context
    BY <1>1 DEF Channels
  <1>3. l = [k EXCEPT !.channels = chs]
    BY DEF ContextKnown
  <1> HIDE DEF ch, l
  <1>4. /\ Len(chs) = Len(k.channels)
        /\ \A j \in 1..Len(k.channels) : chs[j] = IF j = n THEN ch ELSE k.channels[j]
    BY <1>1, <1>2
  <1> HIDE DEF chs
  <1>5. l.channels = chs
    BY <1>3 DEF ConnectorType
  <1> QED BY <1>2, <1>4, <1>5 DEF l

(* What is posted to the plugin is a context or a status of the connection *)
(* of the device, and only if the plugin hears it.                         *)
LEMMA NewsAgree ==
    ASSUME IInv, IInv', Paths, NEW e \in PluginEvents(Dispatchers), e.type \in {"context", "status"},
           device.conn \in plugin.hears, device.conn # 0,
           plugin'.events = Append(plugin.events, e), plugin'.dispatcher = plugin.dispatcher,
           plugin'.hears = plugin.hears, client' = client, Newest' = Newest,
           connector'.events = connector.events, \A n \in Dispatchers : Known(n) => Known(n)',
           device'.conn = device.conn, Known(device.conn)'
    PROVE  Paths' /\ (NothingComes => NothingComes')
  <1> DEFINE q == plugin.events
             C == {"context", "status"}
  <1>1. /\ q \in Seq(PluginEvents(Dispatchers)) /\ device.conn \in Dispatchers /\ 0 \notin Dispatchers
        /\ connector.events \in Seq(ConnectorEvents(Dispatchers))
    BY Shapes
  <1>2. /\ NewestIsLast /\ DispatcherIsHeard /\ ContextIsKnown /\ NothingComes
        /\ device.conn = Newest /\ plugin.dispatcher = device.conn
    BY DEF Paths, NewestIsLast, DispatcherIsHeard
  <1>3. /\ None(Append(q, e), {"dispatcher"})
        /\ OnlyLast(Append(q, e), "dispatcher", Newest)
        /\ Before(Append(q, e), C, "dispatcher")
    <2>1. /\ None(q, {"dispatcher"}) /\ OnlyLast(q, "dispatcher", Newest) /\ Before(q, C, "dispatcher")
          /\ e.type # "dispatcher" /\ "dispatcher" \notin C
      BY <1>2 DEF NothingComes, NewestIsLast, ContextIsKnown
    <2> HIDE DEF C, q
    <2>2. /\ \A S : None(Append(q, e), S) <=> None(q, S) /\ e.type \notin S
          /\ \A t, n : /\ OnlyLast(q, t, n)
                       /\ e.type = t => \A i \in DOMAIN q : ~(q[i].type = t /\ q[i].n = n)
                       => OnlyLast(Append(q, e), t, n)
          /\ \A S, t : t \notin S /\ Before(q, S, t) /\ (e.type \in S => None(q, {t}))
                           => Before(Append(q, e), S, t)
      BY <1>1, OneMore
    <2>3. None(Append(q, e), {"dispatcher"})
      BY <2>1, <2>2
    <2>4. OnlyLast(Append(q, e), "dispatcher", Newest)
      BY <2>1, <2>2
    <2>5. Before(Append(q, e), C, "dispatcher")
      BY <2>1, <2>2
    <2> QED BY <2>3, <2>4, <2>5
  <1>4. NothingComes'
    BY <1>2, <1>3 DEF NothingComes
  <1>5. NewestIsLast'
    BY <1>2, <1>3, <1>4 DEF NewestIsLast, NothingComes
  <1>6. DispatcherIsHeard'
    BY <1>2 DEF DispatcherIsHeard
  <1>7. ContextIsKnown'
    <2>1. ASSUME NEW i \in DOMAIN connector'.events PROVE Fits(connector.events[i])'
      <3>1. Fits(connector.events[i]) /\ connector.events[i] \in ConnectorEvents(Dispatchers)
        BY <1>1, <1>2 DEF ContextIsKnown
      <3>2. connector.events[i].type = "getStatus" => connector.events[i].n \in Dispatchers
        BY <3>1 DEF ConnectorEvents
      <3> QED BY <3>1, <3>2 DEF Fits
    <2> QED BY <1>2, <1>3, <2>1 DEF ContextIsKnown
  <1> QED BY <1>4, <1>5, <1>6, <1>7 DEF Paths

LEMMA ReceivedAgrees ==
    ASSUME IInv, IInv', Agreed, Received
    PROVE  Agreed'
  <1> DEFINE D   == Dispatchers
             msg == Head(device.toClient)
             t   == Tail(device.toClient)
             n   == device.conn
             arg == IF msg.ok THEN "card" ELSE "none"
  <1>1. /\ device \in DeviceType(D) /\ device.toClient \in Seq(Messages) /\ connector \in ConnectorType(D)
        /\ plugin \in PluginType(D) /\ call \in CallType(D) /\ D = 1..Len(connector.channels)
    BY Shapes DEF Dispatchers
  <1>2. /\ device.toClient # <<>> /\ UNCHANGED <<bounds, client, readers, late>>
        /\ device' = [device EXCEPT !.toClient = t]
    BY DEF Received, Ghosts
  <1>3. /\ msg \in Messages /\ t \in Seq(Messages) /\ n \in D /\ n # 0
        /\ Elements(device.toClient) = Elements(t) \cup {msg}
    BY <1>1, <1>2, ElementsFacts, Shapes DEF IInv, LinkIsOpen
  <1>4. /\ device'.conn = n /\ device'.toDevice = device.toDevice /\ device'.jobs = device.jobs
        /\ device'.toClient = t /\ device'.handle = device.handle /\ device'.card = device.card
    <2> HIDE DEF D, t
    <2> QED BY <1>1, <1>2, <1>3 DEF DeviceType
  <1>5. Paths /\ Handles /\ ContextIsKnown
    BY DEF Agreed, Paths
  <1>6. ~Known(n) => NoStatus /\ msg.type # "status" /\ None(t, {"status"})
    <2> DEFINE B == {"status"}
    <2>1. ~Known(n) => NoStatus /\ None(device.toClient, B)
      BY <1>3, <1>5 DEF ContextIsKnown, NoStatus
    <2> HIDE DEF B
    <2>2. None(device.toClient, B) => msg.type \notin B /\ None(t, B)
      BY <1>1, <1>2, NoneInMessages
    <2> QED BY <2>1, <2>2 DEF B
  <1>7. /\ connector'.events = connector.events /\ Newest' = Newest
        /\ \A j \in D : Known(j) => Known(j)'
        /\ msg.type = "context" => Known(n)'
    <2>1. /\ connector' = connector \/ connector' = ContextKnown(connector, n)
          /\ msg.type = "context" => connector' = ContextKnown(connector, n)
      BY DEF Received, ContextKnown
    <2>2. LET l == ContextKnown(connector, n) IN
          /\ Len(l.channels) = Len(connector.channels) /\ l.channels[n].context
          /\ \A j \in D : connector.channels[j].context => l.channels[j].context
      BY <1>1, <1>3, ContextIsSet
    <2>3. LET l == ContextKnown(connector, n) IN l.events = connector.events
      BY <1>1, <1>3, ContextChanges
    <2> DEFINE l == ContextKnown(connector, n)
    <2>4. /\ l.events = connector.events /\ Len(l.channels) = Len(connector.channels)
          /\ l.channels[n].context /\ \A j \in D : connector.channels[j].context => l.channels[j].context
      BY <2>2, <2>3
    <2>5. connector' = connector \/ connector' = l
      BY <2>1
    <2>6. msg.type = "context" => connector' = l
      BY <2>1
    <2> HIDE DEF l, msg, D
    <2>7. CASE connector' = l
      BY <1>4, <2>4, <2>7 DEF Newest, Known
    <2>8. CASE connector' = connector
      BY <1>4, <2>4, <2>6, <2>8 DEF Newest, Known
    <2> QED BY <2>5, <2>7, <2>8
  <1>8. \/ plugin' = plugin /\ (msg.type \in {"context", "status"} => n \notin plugin.hears)
        \/ /\ n \in plugin.hears /\ msg.type = "context"
           /\ plugin' = PostPlugin(plugin, "context", n, "none")
        \/ /\ n \in plugin.hears /\ msg.type = "status"
           /\ plugin' = PostPlugin(plugin, "status", n, arg)
    BY DEF Received
  <1>9. \/ call' = call
        \/ /\ call' = WithAnswer(call, msg) /\ ~Idle /\ call.n = n /\ call.answer = "none"
           /\ call.type = msg.type
    BY DEF Received, Answered, WithAnswer
  <1>10. msg.type \notin {"context", "status"} /\ ~Idle /\ call.n = n /\ call.answer = "none"
             /\ call.type = msg.type => call' = WithAnswer(call, msg)
    BY DEF Received, Answered, WithAnswer
  <1>11. /\ WithAnswer(call, msg).id = call.id /\ WithAnswer(call, msg).type = call.type
         /\ WithAnswer(call, msg).n = call.n /\ WithAnswer(call, msg).key = call.key
         /\ WithAnswer(call, msg).answer = "message" /\ WithAnswer(call, msg).got = msg
    <2> HIDE DEF D, msg
    <2> QED BY <1>1, <1>3 DEF CallType, WithAnswer
  <1>12. /\ call'.id = call.id /\ call'.type = call.type /\ call'.n = call.n /\ call'.key = call.key
         /\ Idle' = Idle /\ Request' = Request
    <2>1. call'.id = call.id /\ call'.type = call.type /\ call'.n = call.n /\ call'.key = call.key
      BY <1>9, <1>11
    <2> QED BY <1>2, <2>1 DEF Idle, Request
  <1> HIDE DEF msg, t, arg
  <1>13. ASSUME NEW type \in {"context", "status"}, NEW a \in {"none", "card"}
         PROVE  LET e == [type |-> type, n |-> n, arg |-> a] IN
                /\ e \in PluginEvents(D)
                /\ PostPlugin(plugin, type, n, a).events = Append(plugin.events, e)
                /\ PostPlugin(plugin, type, n, a).dispatcher = plugin.dispatcher
                /\ PostPlugin(plugin, type, n, a).hears = plugin.hears
    <2> DEFINE e == [type |-> type, n |-> n, arg |-> a]
               q == Append(plugin.events, e)
    <2>1. e \in PluginEvents(D)
      BY <1>3 DEF PluginEvents
    <2>2. q \in Seq(PluginEvents(D)) /\ PostPlugin(plugin, type, n, a) = [plugin EXCEPT !.events = q]
      BY <1>1, <2>1 DEF PostPlugin, PluginType
    <2> HIDE DEF q
    <2>3. /\ PostPlugin(plugin, type, n, a).events = q
          /\ PostPlugin(plugin, type, n, a).dispatcher = plugin.dispatcher
          /\ PostPlugin(plugin, type, n, a).hears = plugin.hears
      BY <1>1, <2>2 DEF PluginType
    <2> QED BY <2>1, <2>3 DEF q
  <1>14. /\ Paths' /\ (NothingComes => NothingComes')
         /\ plugin'.dispatcher = plugin.dispatcher /\ plugin'.hears = plugin.hears
         /\ Gone(plugin'.events) => Gone(plugin.events) \/ (msg.type = "status" /\ ~msg.ok)
         /\ Gone(plugin.events) => Gone(plugin'.events)
         /\ n \in plugin.hears /\ msg.type = "status" /\ ~msg.ok => Gone(plugin'.events)
    <2>1. CASE plugin' = plugin /\ (msg.type \in {"context", "status"} => n \notin plugin.hears)
      <3>1. /\ Fewer(client.events, client'.events, {"created"})
            /\ Fewer(plugin.events, plugin'.events, {"dispatcher", "context", "status"})
        BY <1>2, <2>1, ClientCalmTakes, PluginCalmTakes DEF ClientCalm, PluginCalm
      <3>2. ASSUME NEW i \in DOMAIN connector'.events PROVE Fits(connector.events[i])'
        <4>1. Fits(connector.events[i]) /\ connector.events[i] \in ConnectorEvents(D)
          BY <1>5, <1>7, Shapes DEF ContextIsKnown
        <4>2. connector.events[i].type = "getStatus" => connector.events[i].n \in D
          BY <4>1 DEF ConnectorEvents
        <4> QED BY <1>7, <4>1, <4>2 DEF Fits
      <3>3. ~Known(n) => NoStatus'
        BY <1>4, <1>6 DEF NoStatus
      <3>4. Paths'
        BY <1>4, <1>5, <1>7, <2>1, <3>1, <3>2, <3>3, PathsKept
      <3> QED BY <1>2, <2>1, <3>4 DEF NothingComes
    <2>2. ASSUME n \in plugin.hears, NEW type \in {"context", "status"}, NEW a \in {"none", "card"},
                 plugin' = PostPlugin(plugin, type, n, a), Known(n)',
                 type = "status" /\ a = "none" <=> msg.type = "status" /\ ~msg.ok
          PROVE  /\ Paths' /\ (NothingComes => NothingComes')
                 /\ plugin'.dispatcher = plugin.dispatcher /\ plugin'.hears = plugin.hears
                 /\ Gone(plugin'.events) => Gone(plugin.events) \/ (msg.type = "status" /\ ~msg.ok)
                 /\ Gone(plugin.events) => Gone(plugin'.events)
                 /\ n \in plugin.hears /\ msg.type = "status" /\ ~msg.ok => Gone(plugin'.events)
      <3> DEFINE e == [type |-> type, n |-> n, arg |-> a]
      <3>1. /\ e \in PluginEvents(D) /\ plugin'.events = Append(plugin.events, e)
            /\ plugin'.dispatcher = plugin.dispatcher /\ plugin'.hears = plugin.hears
        BY <1>13, <2>2
      <3>2. e.type = type /\ e.arg = a
        OBVIOUS
      <3> HIDE DEF e
      <3>3. Paths' /\ (NothingComes => NothingComes')
        BY <1>2, <1>3, <1>4, <1>5, <1>7, <2>2, <3>1, <3>2, NewsAgree
      <3>4. Gone(plugin'.events) <=> Gone(plugin.events) \/ (type = "status" /\ a = "none")
        BY <3>1, <3>2, GoneFacts, Shapes
      <3> QED BY <2>2, <3>1, <3>3, <3>4
    <2>3. CASE /\ n \in plugin.hears /\ msg.type = "context"
               /\ plugin' = PostPlugin(plugin, "context", n, "none")
      BY <1>7, <2>2, <2>3
    <2>4. CASE /\ n \in plugin.hears /\ msg.type = "status"
               /\ plugin' = PostPlugin(plugin, "status", n, arg)
      <3>1. Known(n)' /\ arg \in {"none", "card"} /\ (arg = "none" <=> ~msg.ok)
        <4>1. msg.ok \in BOOLEAN
          BY <1>3 DEF Messages
        <4>2. Known(n)'
          BY <1>3, <1>4, <1>6, <1>7, <2>4
        <4> QED BY <4>1, <4>2 DEF arg
      <3> QED BY <2>2, <2>4, <3>1
    <2> QED BY <1>8, <2>1, <2>3, <2>4
  <1>15. Replies' \subseteq Replies /\ Replies \subseteq Replies' \cup {msg}
    <2>1. CASE call' = call
      BY <1>2, <1>3, <1>4, <1>12, <2>1 DEF Replies
    <2>2. CASE call' = WithAnswer(call, msg) /\ ~Idle /\ call.n = n /\ call.answer = "none"
      BY <1>3, <1>4, <1>11, <1>12, <2>2 DEF Replies
    <2> QED BY <1>9, <2>1, <2>2
  <1>16. ASSUME ~late, NEW type \in {"connect", "disconnect"}
         PROVE  Granted(type)' <=> Granted(type)
    <2>1. Granted(type)' => Granted(type)
      BY <1>15 DEF Granted
    <2>2. ASSUME Granted(type) PROVE Granted(type)'
      <3>1. PICK m \in Replies : m.type = type /\ m.ok
        BY <2>2 DEF Granted
      <3>2. CASE m \in Replies'
        BY <3>1, <3>2 DEF Granted
      <3>3. CASE m \notin Replies'
        <4>1. m = msg
          BY <1>15, <3>1, <3>3
        <4>2. msg \in OnTheWay /\ msg \in Elements(device.toClient)
          BY <1>3, <1>16, <3>1, <4>1 DEF OnTheWay, Requests
        <4>3. Asking
          BY <1>16, <4>2, OneAtATime
        <4>4. call.type = type
          BY <1>5, <1>16, <2>2, <3>1 DEF Handles, RepliesFit
        <4>5. call' = WithAnswer(call, msg)
          BY <1>10, <1>16, <3>1, <4>1, <4>3, <4>4 DEF Asking
        <4>6. msg \in Replies'
          BY <1>4, <1>11, <1>12, <4>3, <4>5 DEF Replies, Asking
        <4> QED BY <3>3, <4>1, <4>6
      <3> QED BY <3>2, <3>3
    <2> QED BY <2>1, <2>2
  <1>17. (Absence' => Absence) /\ (n \in plugin.hears /\ Absence => Absence')
    <2>1. /\ Gives(t) => Gives(device.toClient)
          /\ Gives(device.toClient) => Gives(t) \/ (msg.type = "status" /\ ~msg.ok)
          /\ msg.type = "status" /\ ~msg.ok => Gives(device.toClient)
      BY <1>3 DEF Gives
    <2> QED BY <1>4, <1>14, <2>1 DEF Absence
  <1>18. ReadersAreNamed'
    <2>1. call'.answer = "message" => call'.got.type = call'.type
      BY <1>5, <1>9, <1>11, <1>12 DEF Handles, ReadersAreNamed
    <2>2. \A k \in DOMAIN readers : k \in D
      BY <1>5, Shapes DEF Handles, ReadersAreNamed, Numbers
    <2> QED BY <1>2, <1>4, <1>5, <1>7, <1>12, <1>14, <2>1, <2>2 DEF Handles, ReadersAreNamed
  <1>19. HandleIsKnown'
    BY <1>2, <1>4, <1>5, <1>14 DEF Handles, HandleIsKnown
  <1>20. RequestIsAsSent'
    BY <1>2, <1>4, <1>5, <1>7, <1>12 DEF Handles, RequestIsAsSent
  <1>21. RepliesFit'
    <2>1. ASSUME ~late, NEW m \in Replies', m.type = "connect", m.ok
          PROVE  call.type = "connect" /\ (m.handle = device.handle \/ Absence')
      <3>1. m \in Replies
        BY <1>15, <2>1
      <3>2. call.type = "connect" /\ (m.handle = device.handle \/ Absence)
        BY <1>5, <2>1, <3>1 DEF Handles, RepliesFit
      <3>3. n \in plugin.hears
        <4>1. m \in Messages /\ "connect" \in Requests
          BY <2>1, <3>1, RepliesAreAsked DEF Requests
        <4>2. ~Idle /\ call.n = device.conn
          BY <2>1, <3>1, <4>1, RepliesAreAsked DEF OnTheWay
        <4> QED BY <4>2, AskerIsKnown
      <3> QED BY <1>17, <3>2, <3>3
    <2>2. ASSUME ~late, Granted("disconnect")' PROVE call.type = "disconnect" /\ device.handle = 0
      <3>1. Granted("disconnect")
        BY <1>16, <2>2
      <3> QED BY <1>5, <2>2, <3>1 DEF Handles, RepliesFit
    <2> QED BY <1>2, <1>4, <1>12, <2>1, <2>2 DEF RepliesFit
  <1>22. StatusIsTrue'
    BY <1>2, <1>4, <1>5, <1>17 DEF Handles, StatusIsTrue
  <1>23. HandlesAgree'
    <2>1. ASSUME ~late, n \in DOMAIN readers, readers[n].connected
          PROVE  readers[n].handle = device.handle \/ Absence' \/ Granted("disconnect")'
      <3>1. readers[n].handle = device.handle \/ Absence \/ Granted("disconnect")
        BY <1>5, <2>1 DEF Handles, HandlesAgree
      <3>2. n \in plugin.hears
        BY <1>3, <1>5, <2>1 DEF Handles, ReadersAreNamed, Paths, DispatcherIsHeard
      <3> QED BY <1>16, <1>17, <2>1, <3>1, <3>2
    <2> QED BY <1>2, <1>4, <2>1 DEF HandlesAgree
  <1>24. HandleIsHeld'
    <2>1. ~late => (Granted("connect")' <=> Granted("connect"))
      BY <1>16
    <2> QED BY <1>2, <1>4, <1>5, <1>14, <2>1 DEF Handles, HandleIsHeld
  <1> QED BY <1>14, <1>18, <1>19, <1>20, <1>21, <1>22, <1>23, <1>24 DEF Agreed, Handles

-----------------------------------------------------------------------------
(* The end of a connection. *)
LEMMA StateIsCalm ==
    ASSUME NEW D, NEW k \in ConnectorType(D), NEW n \in 1..Len(k.channels),
           NEW state \in {"open", "dead", "closed"}
    PROVE  LET l == WithState(k, n, state) IN
           /\ l.events = k.events /\ Len(l.channels) = Len(k.channels)
           /\ \A j \in 1..Len(k.channels) : l.channels[j].context = k.channels[j].context
  <1> DEFINE l   == WithState(k, n, state)
             ch  == [k.channels[n] EXCEPT !.state = state]
             chs == [k.channels EXCEPT ![n] = ch]
  <1>1. k.channels \in Seq(Channels) /\ k.channels[n] \in Channels
    BY DEF ConnectorType
  <1>2. ch \in Channels /\ ch.context = k.channels[n].context
    BY <1>1 DEF Channels
  <1>3. l = [k EXCEPT !.channels = chs]
    BY DEF WithState
  <1> HIDE DEF ch, l
  <1>4. /\ Len(chs) = Len(k.channels)
        /\ \A j \in 1..Len(k.channels) : chs[j] = IF j = n THEN ch ELSE k.channels[j]
    BY <1>1, <1>2
  <1> HIDE DEF chs
  <1>5. l.channels = chs /\ l.events = k.events
    BY <1>3 DEF ConnectorType
  <1> QED BY <1>2, <1>4, <1>5 DEF l

LEMMA CutAgrees ==
    ASSUME IInv, IInv', Agreed, UNCHANGED <<client, plugin, readers, call, late>>,
           bounds'.moved = bounds.moved, ConnectorCalm(connector, connector'), device' = Unlinked
    PROVE  Agreed'
  <1>1. Paths /\ Handles /\ ContextIsKnown
    BY DEF Agreed, Paths
  <1>2. /\ device'.conn = 0 /\ device'.handle = 0 /\ device'.toDevice = <<>> /\ device'.jobs = <<>>
        /\ device'.toClient = <<>>
    <2>1. device \in DeviceType(Dispatchers)
      BY Shapes
    <2> QED BY <2>1 DEF Unlinked, DeviceType
  <1>3. /\ Newest' = Newest /\ (\A n \in Dispatchers : Known(n) => Known(n)')
        /\ \A i \in DOMAIN connector'.events : Fits(connector.events[i])'
    BY <1>1, ConnectorCalmFacts
  <1>4. ClientCalm(client, client') /\ PluginCalm(plugin, plugin')
    BY ClientCalmTakes, PluginCalmTakes
  <1>5. Paths'
    BY <1>1, <1>2, <1>3, <1>4, PathsKept DEF ClientCalm, PluginCalm
  <1>6. \A k \in DOMAIN readers : k \in Dispatchers /\ k # 0
    BY <1>1, Shapes DEF Handles, ReadersAreNamed, Numbers
  <1>7. Elements(<<>>) = {}
    BY DEF Elements
  <1>8. Replies' = {} /\ (Absence' => Absence) /\ Idle' = Idle
    <2>1. Idle' = Idle /\ (~Idle => call.n # 0)
      BY DEF Idle, IInv, ReadersAreThere
    <2>2. ~Gives(<<>>)
      BY <1>7 DEF Gives
    <2> QED BY <1>2, <1>7, <2>1, <2>2 DEF Replies, Absence
  <1>9. ReadersAreNamed'
    BY <1>1, <1>2, <1>3, <1>6, <1>8 DEF Handles, ReadersAreNamed
  <1>10. HandleIsKnown'
    BY <1>2 DEF HandleIsKnown
  <1>11. RequestIsAsSent'
    <2>1. ASSUME NEW e \in Elements(connector'.events) PROVE e \notin LiveSends(0)
      <3>1. Dispatchers' = Dispatchers
        BY <1>3 DEF Newest, Dispatchers
      <3>2. connector'.events \in Seq(ConnectorEvents(Dispatchers)) /\ 0 \notin Dispatchers
        BY <3>1, Shapes, ShapesNext
      <3>3. e \in ConnectorEvents(Dispatchers)
        BY <3>2, ElementsFacts
      <3> QED BY <3>2, <3>3 DEF ConnectorEvents, LiveSends
    <2> QED BY <1>2, <1>7, <2>1 DEF RequestIsAsSent
  <1>12. RepliesFit'
    BY <1>8 DEF RepliesFit, Granted
  <1>13. StatusIsTrue'
    <2>1. device'.card = device.card
      BY Shapes DEF Unlinked, DeviceType
    <2> QED BY <1>1, <1>8, <2>1 DEF Handles, StatusIsTrue
  <1>14. HandlesAgree' /\ HandleIsHeld'
    BY <1>2, <1>6 DEF HandlesAgree, HandleIsHeld
  <1> QED BY <1>5, <1>9, <1>10, <1>11, <1>12, <1>13, <1>14 DEF Agreed, Handles

LEMMA CloseAgrees ==
    ASSUME IInv, IInv', Agreed, CloseDispatcher \/ DispatcherDeleted \/ Disconnect
    PROVE  Agreed'
  <1> DEFINE D == Dispatchers
  <1>1. /\ TypeOK /\ connector \in ConnectorType(D) /\ device.conn \in {0} \cup D
        /\ \A n \in D : connector.channels[n].state \in {"open", "dead", "closed"}
    <2>1. TypeOK /\ connector \in ConnectorType(D) /\ connector.channels \in Seq(Channels)
          /\ device.conn \in {0} \cup D
      BY Shapes DEF IInv
    <2>2. \A n \in D : connector.channels[n] \in Channels
      BY <2>1 DEF Dispatchers
    <2> QED BY <2>1, <2>2 DEF Channels
  <1>2. ConnectorCalm(connector, connector)
    BY ConnectorCalmTakes
  <1>3. /\ UNCHANGED <<client, plugin, readers, call, late>> /\ bounds'.moved = bounds.moved
    BY UsesNoCard DEF CloseDispatcher, DispatcherDeleted, Disconnect, Ghosts
  <1>4. device' = Unlinked \/ device' = device
    BY DEF CloseDispatcher, DispatcherDeleted, Disconnect
  <1>5. \E k \in ConnectorType(D), n \in D, state \in {"dead", "closed"} :
            ConnectorCalm(connector, k) /\ connector' = WithState(k, n, state)
                /\ k.channels = connector.channels
    <2>1. CASE CloseDispatcher
      <3>1. connector.events # <<>> /\ ConnectorArg.type = "close"
        BY <2>1 DEF CloseDispatcher, ConnectorHandles, ConnectorArg
      <3>2. /\ ConnectorRest \in ConnectorType(D) /\ ConnectorArg \in ConnectorEvents(D)
            /\ ConnectorRest.channels = connector.channels
        BY <1>1, <3>1, ConnectorTakes
      <3>3. ConnectorArg.n \in D
        BY <3>1, <3>2 DEF ConnectorEvents
      <3>4. PICK state \in {"dead", "closed"} : connector' = WithState(ConnectorRest, ConnectorArg.n, state)
        BY <1>1, <2>1, <3>2, <3>3, DiesFacts DEF CloseDispatcher
      <3>5. ConnectorCalm(connector, ConnectorRest)
        BY <3>1, ConnectorCalmTakes
      <3> QED BY <3>2, <3>3, <3>4, <3>5
    <2>2. CASE DispatcherDeleted
      <3>1. PICK n \in D : connector' = WithState(connector, n, "closed")
        BY <2>2 DEF DispatcherDeleted, WithState
      <3> QED BY <1>1, <1>2, <3>1
    <2>3. CASE Disconnect
      <3>1. device.conn \in D
        BY <1>1, <2>3 DEF Disconnect
      <3>2. PICK state \in {"dead", "closed"} : connector' = WithState(connector, device.conn, state)
        BY <1>1, <2>3, <3>1, DiesFacts DEF Disconnect
      <3> QED BY <1>1, <1>2, <3>1, <3>2
    <2> QED BY <2>1, <2>2, <2>3
  <1>6. ConnectorCalm(connector, connector')
    <2>1. PICK k \in ConnectorType(D), n \in D, state \in {"dead", "closed"} :
              ConnectorCalm(connector, k) /\ connector' = WithState(k, n, state)
                  /\ k.channels = connector.channels
      BY <1>5
    <2>2. n \in 1..Len(k.channels) /\ state \in {"open", "dead", "closed"}
      BY <2>1 DEF Dispatchers
    <2>3. LET l == WithState(k, n, state) IN
          /\ l.events = k.events /\ Len(l.channels) = Len(k.channels)
          /\ \A j \in 1..Len(k.channels) : l.channels[j].context = k.channels[j].context
      BY <2>2, StateIsCalm
    <2>4. /\ connector'.events = k.events /\ Len(connector'.channels) = Len(k.channels)
          /\ \A j \in 1..Len(k.channels) : connector'.channels[j].context = k.channels[j].context
      BY <2>1, <2>3
    <2> QED BY <2>1, <2>4 DEF ConnectorCalm
  <1>7. CASE device' = Unlinked
    BY <1>3, <1>6, <1>7, CutAgrees
  <1>8. CASE device' = device
    BY <1>3, <1>6, <1>8, ClientCalmTakes, PluginCalmTakes, CalmStep
  <1> QED BY <1>4, <1>7, <1>8

LEMMA DisconnectedAgrees ==
    ASSUME IInv, IInv', Agreed, Disconnected
    PROVE  Agreed'
  <1> DEFINE D == Dispatchers
  <1>1. /\ connector \in ConnectorType(D) /\ client \in ClientType(D) /\ plugin \in PluginType(D)
        /\ call \in CallType(D)
    BY Shapes
  <1>2. PICK n \in D :
            /\ connector' = WithState(connector, n, "closed")
            /\ client' = IF n \in client.hears THEN PostClient(client, "closed", n) ELSE client
            /\ plugin' = IF n \in plugin.hears THEN PostPlugin(plugin, "closed", n, "none") ELSE plugin
            /\ call' = IF call.n = n /\ call.answer = "none"
                       THEN [call EXCEPT !.answer = "closed", !.woken = call.blocked] ELSE call
    BY DEF Disconnected, WithState
  <1>3. UNCHANGED <<bounds, readers, device, late>>
    BY DEF Disconnected, Ghosts
  <1>4. ClientCalm(client, client')
    <2>1. [type |-> "closed", n |-> n] \in ClientEvents(D) /\ "closed" # "created"
      BY DEF ClientEvents
    <2>2. ClientCalm(client, client)
      BY ClientCalmTakes
    <2>3. ClientCalm(client, PostClient(client, "closed", n))
      BY <1>1, <2>1, <2>2, ClientCalmPosts
    <2> QED BY <1>2, <2>2, <2>3
  <1>5. PluginCalm(plugin, plugin')
    <2>1. /\ [type |-> "closed", n |-> n, arg |-> "none"] \in PluginEvents(D)
          /\ "closed" \notin {"dispatcher", "context", "status"}
      BY DEF PluginEvents
    <2>2. PluginCalm(plugin, plugin)
      BY PluginCalmTakes
    <2>3. PluginCalm(plugin, PostPlugin(plugin, "closed", n, "none"))
      BY <1>1, <2>1, <2>2, PluginCalmPosts
    <2> QED BY <1>2, <2>2, <2>3
  <1>6. ConnectorCalm(connector, connector')
    <2>1. n \in 1..Len(connector.channels) /\ "closed" \in {"open", "dead", "closed"}
      BY DEF Dispatchers
    <2>2. LET l == WithState(connector, n, "closed") IN
          /\ l.events = connector.events /\ Len(l.channels) = Len(connector.channels)
          /\ \A j \in 1..Len(connector.channels) : l.channels[j].context = connector.channels[j].context
      BY <1>1, <2>1, StateIsCalm
    <2>3. ConnectorCalm(connector, connector)
      BY ConnectorCalmTakes
    <2> QED BY <1>2, <2>2, <2>3 DEF ConnectorCalm
  <1>7. /\ call'.type = call.type /\ call'.id = call.id /\ call'.n = call.n /\ call'.key = call.key
        /\ call'.got = call.got /\ (call'.answer = "message" <=> call.answer = "message")
    <2> DEFINE b == call.blocked
               c == [call EXCEPT !.answer = "closed", !.woken = b]
    <2>1. /\ c.type = call.type /\ c.id = call.id /\ c.n = call.n /\ c.key = call.key
          /\ c.got = call.got /\ c.answer = "closed"
      <3> HIDE DEF b, D
      <3> QED BY <1>1 DEF CallType
    <2>2. call' = call \/ (call.answer = "none" /\ call' = c)
      BY <1>2
    <2> HIDE DEF c
    <2> QED BY <2>1, <2>2
  <1> QED BY <1>3, <1>4, <1>5, <1>6, <1>7, CalmStep

(* A new connection: nothing that is there is about it. *)
LEMMA ConnectionCreatedAgrees ==
    ASSUME IInv, IInv', Agreed, ConnectionCreated
    PROVE  Agreed'
  <1> DEFINE D == Dispatchers
             m == Newest + 1
             e == [type |-> "created", n |-> m]
  <1>1. /\ connector \in ConnectorType(D) /\ connector.channels \in Seq(Channels) /\ device \in DeviceType(D)
        /\ client \in ClientType(D) /\ client.events \in Seq(ClientEvents(D))
        /\ plugin.events \in Seq(PluginEvents(D)) /\ connector.events \in Seq(ConnectorEvents(D))
        /\ plugin.hears \subseteq D /\ plugin.dispatcher \in {0} \cup D /\ call.n \in {0} \cup D
        /\ Newest \in Nat /\ D = 1..Newest
    BY Shapes DEF CallType
  <1>2. m \notin D /\ m # 0 /\ m \in Nat /\ 0 \notin D
    BY <1>1
  <1>3. /\ device.conn = 0 /\ device.toDevice = <<>> /\ device.jobs = <<>> /\ device.toClient = <<>>
        /\ UNCHANGED <<bounds, plugin, readers, call, late>>
    BY DEF ConnectionCreated, IInv, LinkIsOpen, Ghosts
  <1>4. PICK i \in DOMAIN connector.requests :
            /\ connector' = [connector EXCEPT
                   !.requests = Without(@, i),
                   !.channels = Append(@, [state |-> "open", pairing |-> connector.requests[i] = "pair",
                                           context |-> FALSE])]
            /\ device' = [device EXCEPT !.conn = m]
            /\ client' = [PostClient(client, "created", m) EXCEPT
                              !.trusted = @ \/ connector.requests[i] = "pair"]
    BY DEF ConnectionCreated, Newest
  <1>5. /\ connector'.events = connector.events /\ Newest' = m
        /\ \A j \in D : Known(j)' <=> Known(j)
    <2> DEFINE ch  == [state |-> "open", pairing |-> connector.requests[i] = "pair", context |-> FALSE]
               chs == Append(connector.channels, ch)
               rs  == Without(connector.requests, i)
    <2>1. ch \in Channels
      BY DEF Channels
    <2> HIDE DEF ch
    <2>2. Len(chs) = m /\ \A j \in D : chs[j] = connector.channels[j]
      BY <1>1, <2>1 DEF Newest
    <2>3. connector' = [connector EXCEPT !.requests = rs, !.channels = chs]
      BY <1>4 DEF ch
    <2> HIDE DEF chs, rs
    <2>4. connector'.events = connector.events /\ connector'.channels = chs
      BY <1>1, <2>3 DEF ConnectorType
    <2> QED BY <2>2, <2>4 DEF Newest, Known
  <1>6. /\ device'.conn = m /\ device'.toDevice = <<>> /\ device'.jobs = <<>> /\ device'.toClient = <<>>
        /\ device'.handle = device.handle /\ device'.card = device.card
    <2> HIDE DEF m, D
    <2> QED BY <1>1, <1>3, <1>4 DEF DeviceType
  <1>7. client'.events = Append(client.events, e)
    <2> DEFINE q == Append(client.events, e)
               c == [client EXCEPT !.events = q]
               b == c.trusted \/ connector.requests[i] = "pair"
    <2>1. client' = [c EXCEPT !.trusted = b] /\ c.events = q
      BY <1>1, <1>4 DEF PostClient, ClientType
    <2>2. DOMAIN c = DOMAIN client /\ "events" \in DOMAIN client /\ "trusted" # "events"
      BY <1>1 DEF ClientType
    <2> HIDE DEF c, b, q
    <2>3. client'.events = c.events
      BY <2>1, <2>2
    <2> QED BY <2>1, <2>3 DEF q
  <1> HIDE DEF m
  <1>8. /\ NewestIsLast /\ DispatcherIsHeard /\ ContextIsKnown /\ Handles
        /\ device.handle = 0
    BY <1>3 DEF Agreed, Paths, Handles, HandleIsKnown
  <1>9. /\ \A j \in DOMAIN client.events : ~(client.events[j].type = "created" /\ client.events[j].n = m)
        /\ \A j \in DOMAIN plugin.events : ~(plugin.events[j].type = "dispatcher" /\ plugin.events[j].n = m)
        /\ \A f \in Elements(connector.events) : f \notin LiveSends(m)
        /\ m \notin plugin.hears
    <2>1. \A f \in ClientEvents(D) : f.n # m
      BY <1>2 DEF ClientEvents
    <2>2. \A f \in PluginEvents(D) : f.n # m
      BY <1>2 DEF PluginEvents
    <2>3. \A f \in ConnectorEvents(D) : f \notin LiveSends(m)
      BY <1>2 DEF ConnectorEvents, LiveSends
    <2> QED BY <1>1, <1>2, <2>1, <2>2, <2>3, ElementsFacts
  <1>10. NewestIsLast'
    <2>1. OnlyLast(client'.events, "created", m)
      <3> DEFINE a == client.events
      <3>1. OnlyLast(a, "created", m) /\ e.type = "created"
        BY <1>9 DEF OnlyLast
      <3>2. PICK T : a \in Seq(T) /\ e \in T
        <4>1. /\ a \in Seq(ClientEvents(D) \cup {e}) /\ e \in ClientEvents(D) \cup {e}
          <5>1. ClientEvents(D) \subseteq ClientEvents(D) \cup {e}
            OBVIOUS
          <5> HIDE DEF e
          <5> QED BY <1>1, <5>1, SeqGrows
        <4> QED BY <4>1
      <3> HIDE DEF e
      <3>3. \A t, n : /\ OnlyLast(a, t, n)
                      /\ e.type = t => \A j \in DOMAIN a : ~(a[j].type = t /\ a[j].n = n)
                      => OnlyLast(Append(a, e), t, n)
        BY <3>2, OneMore
      <3> QED BY <1>7, <1>9, <3>1, <3>3
    <2>2. OnlyLast(plugin.events, "dispatcher", m)
      BY <1>9 DEF OnlyLast
    <2> QED BY <1>3, <1>5, <1>6, <1>9, <2>1, <2>2 DEF NewestIsLast
  <1>11. DispatcherIsHeard'
    BY <1>3, <1>6, <1>8, <1>9 DEF DispatcherIsHeard
  <1>12. ContextIsKnown'
    <2>1. ASSUME NEW j \in DOMAIN connector'.events PROVE Fits(connector.events[j])'
      <3>1. Fits(connector.events[j]) /\ connector.events[j] \in ConnectorEvents(D)
        BY <1>1, <1>5, <1>8, <2>1 DEF ContextIsKnown
      <3>2. connector.events[j].type = "getStatus" => connector.events[j].n \in D
        BY <3>1 DEF ConnectorEvents
      <3> QED BY <1>5, <3>1, <3>2 DEF Fits
    <2>2. NoStatus'
      BY <1>6 DEF NoStatus, None
    <2>3. plugin.dispatcher # 0 => (Known(plugin.dispatcher)' <=> Known(plugin.dispatcher))
      BY <1>1, <1>3, <1>5
    <2> QED BY <1>3, <1>8, <2>1, <2>2, <2>3 DEF ContextIsKnown
  <1>13. \A k \in DOMAIN readers : k \in D
    BY <1>8, Shapes DEF Handles, ReadersAreNamed, Numbers
  <1>14. Elements(<<>>) = {}
    BY DEF Elements
  <1>15. Replies' = {} /\ (Absence' => Absence) /\ Idle' = Idle
    <2>1. Idle' = Idle /\ call'.n # m
      BY <1>1, <1>2, <1>3 DEF Idle
    <2>2. ~Gives(<<>>)
      BY <1>14 DEF Gives
    <2> QED BY <1>3, <1>6, <1>14, <2>1, <2>2 DEF Replies, Absence
  <1>16. ReadersAreNamed'
    BY <1>2, <1>3, <1>5, <1>6, <1>8, <1>13, <1>15 DEF Handles, ReadersAreNamed
  <1>17. HandleIsKnown'
    BY <1>6, <1>8 DEF HandleIsKnown
  <1>18. RequestIsAsSent'
    BY <1>5, <1>6, <1>9, <1>14 DEF RequestIsAsSent
  <1>19. RepliesFit'
    BY <1>15 DEF RepliesFit, Granted
  <1>20. StatusIsTrue'
    BY <1>3, <1>6, <1>8, <1>15 DEF Handles, StatusIsTrue
  <1>21. HandlesAgree' /\ HandleIsHeld'
    BY <1>2, <1>3, <1>6, <1>8, <1>13 DEF HandlesAgree, HandleIsHeld
  <1> QED BY <1>10, <1>11, <1>12, <1>16, <1>17, <1>18, <1>19, <1>20, <1>21 DEF Agreed, Paths, Handles

-----------------------------------------------------------------------------
LEMMA InitAgreed ==
    ASSUME Init
    PROVE  Agreed
  <1>1. /\ client.events = <<>> /\ plugin.events = <<>> /\ connector.events = <<>> /\ connector.channels = <<>>
        /\ plugin.hears = {} /\ plugin.dispatcher = 0 /\ readers = <<>> /\ DOMAIN readers = {}
        /\ device.conn = 0 /\ device.handle = 0 /\ device.toDevice = <<>> /\ device.jobs = <<>>
        /\ device.toClient = <<>> /\ Idle /\ call.answer = "none" /\ call.type = "none"
    BY DEF Init, Idle, NoCall
  <1>2. Paths
    BY <1>1 DEF Paths, NewestIsLast, DispatcherIsHeard, ContextIsKnown, OnlyLast, Before, None
  <1>3. Elements(<<>>) = {} /\ Replies = {} /\ ~Absence
    <2>1. Elements(<<>>) = {}
      BY DEF Elements
    <2> QED BY <1>1, <2>1 DEF Replies, Absence, Gives, Gone
  <1>4. ReadersAreNamed /\ HandleIsKnown
    BY <1>1 DEF ReadersAreNamed, HandleIsKnown
  <1>5. RequestIsAsSent
    BY <1>1, <1>3 DEF RequestIsAsSent
  <1>6. RepliesFit /\ StatusIsTrue /\ HandlesAgree /\ HandleIsHeld
    BY <1>1, <1>3 DEF RepliesFit, Granted, StatusIsTrue, HandlesAgree, HandleIsHeld
  <1> QED BY <1>2, <1>4, <1>5, <1>6 DEF Agreed, Handles

LEMMA StepKeepsAgreed ==
    ASSUME IInv, Agreed, [Next]_vars
    PROVE  IInv' /\ Agreed'
  <1>1. IInv'
    BY StepKeepsIInv
  <1>2. CASE MainThread
    BY <1>1, <1>2, DetectionAgrees, EstablishAgrees, OnDispatcherCreatedAgrees DEF MainThread
  <1>3. CASE PluginThread
    BY <1>1, <1>3, ScanAgrees, AddDispatcherAgrees, ContextEstablishedAgrees, DispatcherClosedAgrees,
       HandleStatusAgrees, WaitAgrees, WakeAgrees DEF PluginThread
  <1>4. CASE ConnectorThread
    BY <1>1, <1>4, RequestsAgree, ConnectionCreatedAgrees, DispatcherSendsAgrees, CloseAgrees,
       DisconnectedAgrees, ReceivedAgrees DEF ConnectorThread
  <1>5. CASE Device
    BY <1>1, <1>5, DeviceReceivesAgrees, DeviceAnswersAgrees, CardChangesAgrees, CloseAgrees DEF Device
  <1>6. CASE Users
    BY <1>1, <1>6, EstablishAgrees, ScanAgrees, AskAgrees DEF Users
  <1>7. CASE Announce \/ Vanish \/ ScanTimer
    BY <1>1, <1>7, AnnounceAgrees, ScanAgrees
  <1>8. CASE UNCHANGED vars
    BY <1>1, <1>8, StutterAgrees
  <1> QED BY <1>1, <1>2, <1>3, <1>4, <1>5, <1>6, <1>7, <1>8 DEF Next

LEMMA AgreedIsEnough ==
    ASSUME IInv, Agreed
    PROVE  ConnectionsAgree
  <1> DEFINE n == device.conn
             own == {k \in DOMAIN readers : readers[k].disp = n}
             connected == {k \in own : readers[k].connected}
  <1>1. Handles
    BY DEF Agreed
  <1>2. \A k \in DOMAIN readers : readers[k].disp = k
    BY <1>1 DEF Handles, ReadersAreNamed
  <1>3. ASSUME Quiet PROVE Replies = {} /\ ~Absence
    <2>1. Elements(<<>>) = {}
      BY DEF Elements
    <2>2. Replies = {} /\ ~Gives(device.toClient)
      BY <1>3, <2>1 DEF Quiet, Replies, Gives
    <2>3. ~Gone(plugin.events)
      <3> DEFINE S == {f \in PluginEvents(Dispatchers) : f.type \in {"status"}}
      <3>1. plugin.events \in Seq(PluginEvents(Dispatchers))
        BY Shapes
      <3>2. Many(plugin.events, S) = 0
        BY <1>3, <3>1, CountIsMany DEF Quiet
      <3>3. \A i \in DOMAIN plugin.events : plugin.events[i] \notin S
        <4> HIDE DEF S
        <4> QED BY <3>1, <3>2, NoneOfNone
      <3> QED BY <3>1, <3>3 DEF Gone
    <2> QED BY <2>2, <2>3 DEF Absence
  <1>4. ASSUME Quiet, NEW k \in connected PROVE readers[k].handle = device.handle
    <2>1. k = n /\ n \in DOMAIN readers /\ readers[n].connected
      BY <1>2, <1>4
    <2>2. ~Granted("disconnect") /\ ~Absence /\ ~late
      BY <1>3, <1>4 DEF Granted, Quiet
    <2> QED BY <1>1, <2>1, <2>2 DEF Handles, HandlesAgree
  <1>5. ASSUME Quiet, ~bounds.moved, device.handle # 0 PROVE connected # {}
    <2>1. ~Granted("connect") /\ ~late /\ plugin.dispatcher = n
      BY <1>3, <1>5 DEF Granted, Quiet
    <2>2. n \in DOMAIN readers /\ readers[n].connected
      BY <1>1, <1>5, <2>1 DEF Handles, HandleIsHeld
    <2>3. n \in connected
      BY <1>2, <2>2
    <2> QED BY <2>3
  <1> QED BY <1>4, <1>5 DEF ConnectionsAgree

(* Both invariants together are inductive.                                 *)
THEOREM AgreedInvariance == Spec => [](IInv /\ Agreed)
  <1>1. Init => IInv /\ Agreed
    BY InitIInv, InitAgreed
  <1>2. IInv /\ Agreed /\ [Next]_vars => (IInv /\ Agreed)'
    BY StepKeepsAgreed
  <1> QED BY <1>1, <1>2, PTL DEF Spec

(* When nothing is on its way and no request timed out, the client and the *)
(* device agree which connection to the card is open: whatever reader says *)
(* it is connected has the handle of the device, and unless the card was   *)
(* moved the device has no handle that no reader knows of.                 *)
THEOREM ClientAndDeviceAgree == Spec => []ConnectionsAgree
  <1>1. IInv /\ Agreed => ConnectionsAgree
    BY AgreedIsEnough
  <1> QED BY <1>1, AgreedInvariance, PTL
=============================================================================
