--------------------------- MODULE JsonApiProofs ---------------------------
(***************************************************************************)
(* Proofs about JsonApi, for any set of readers and any number of clients  *)
(* and requests.                                                           *)
(***************************************************************************)
EXTENDS JsonApi, TLAPS

(* The JSON plugin is enabled while a client is connected; a workflow it   *)
(* hears of was started for that client, is known to the dispatcher, and   *)
(* is cancelled when the client has gone.                                  *)
ConnInv ==
    /\ enabled <=> conn = "open"
    /\ wf.heard => Active /\ ctx /\ wf.claimed = "websocket"
    /\ conn = "handshake" => ~wf.heard

(* The message the dispatcher remembers is about the state of the workflow *)
(* it hears of, and it is there whenever a card is missing.                *)
LastInv ==
    /\ last # NoMsg => wf.heard /\ last.type = StateMsgType(wf.state)
    /\ wf.heard /\ wf.state = "SelectReader" /\ ~wf.cancelled /\ conn = "open" =>
           last.type = "INSERT_CARD" /\ (last.sent => told = "INSERT_CARD")

IInv ==
    /\ TypeOK /\ ConnInv /\ LastInv
    /\ ClientIsAsked /\ SessionMatchesWorkflow /\ DeveloperModeEnds

-----------------------------------------------------------------------------
(* Which state asks for what. *)
LEMMA StateMsgTypes ==
    /\ \A s \in States : StateMsgType(s) \in StateMsgs
    /\ \A s \in States : StateMsgType(s) = "INSERT_CARD" <=> s = "SelectReader"
    /\ \A s \in Dialogs : StateMsgType(s) # "VOID"
    /\ StateMsgType("Start") = "VOID" /\ StateMsgType("Stopped") = "VOID"
    /\ StateMsgType("Final") = "VOID" /\ StateMsgType("Other") = "VOID"
    /\ {"VOID", "INSERT_CARD"} \subseteq StateMsgs
    /\ {"nothing", "started"} \cap StateMsgs = {}
  <1>1. /\ \A s \in States : StateMsgType(s) \in StateMsgs
        /\ \A s \in States : StateMsgType(s) = "INSERT_CARD" <=> s = "SelectReader"
        /\ \A s \in Dialogs : StateMsgType(s) # "VOID"
        /\ \A s \in States : StateMsgType(s) \notin {"nothing", "started"}
        /\ StateMsgType("Start") = "VOID" /\ StateMsgType("Stopped") = "VOID"
        /\ StateMsgType("Final") = "VOID" /\ StateMsgType("Other") = "VOID"
        /\ StateMsgType("SelectReader") = "INSERT_CARD"
    BY DEF StateMsgType, StateMsgs, States, Dialogs
  <1>2. "Other" \in States /\ "SelectReader" \in States
    BY DEF States
  <1> QED BY <1>1, <1>2 DEF StateMsgs

(* A workflow that is there is one of the three kinds. *)
LEMMA ActiveWorkflow ==
    ASSUME TypeOK
    PROVE  /\ Active <=> wf \in Workflows
           /\ ~Active <=> wf = NoWorkflow
           /\ ~Active => ~wf.heard /\ ~wf.cancelled /\ wf.claimed = "nobody" /\ wf.state = "none"
           /\ wf.cancelled \in BOOLEAN /\ wf.heard \in BOOLEAN /\ wf.approved \in BOOLEAN
  <1>1. CASE wf \in Workflows
    <2>1. wf.kind \in Kinds
      BY <1>1 DEF Workflows
    <2>2. wf.cancelled \in BOOLEAN /\ wf.heard \in BOOLEAN /\ wf.approved \in BOOLEAN
      BY <1>1 DEF Workflows
    <2>3. "none" \notin Kinds /\ NoWorkflow.kind = "none"
      BY DEF Kinds, NoWorkflow
    <2> QED BY <1>1, <2>1, <2>2, <2>3 DEF Active
  <1>2. CASE wf = NoWorkflow
    <2>1. NoWorkflow \notin Workflows
      BY DEF NoWorkflow, Workflows, Kinds
    <2> QED BY <1>2, <2>1 DEF NoWorkflow, Active
  <1> QED BY <1>1, <1>2 DEF TypeOK

LEMMA KilledWorkflow ==
    ASSUME NEW w \in Workflows
    PROVE  /\ Killed(w) \in Workflows
           /\ Killed(w).approved /\ Killed(w).cancelled
           /\ Killed(w).kind = w.kind /\ Killed(w).state = w.state
           /\ Killed(w).claimed = w.claimed /\ Killed(w).heard = w.heard
  BY DEF Killed, Workflows

LEMMA StartedWorkflow ==
    ASSUME TypeOK, NEW k \in Kinds
    PROVE  /\ Started(k) \in Workflows
           /\ Started(k).state = "Start" /\ ~Started(k).approved /\ ~Started(k).cancelled
           /\ Started(k).claimed = IF conn = "none" THEN "qml" ELSE "websocket"
           /\ Started(k).heard <=> enabled /\ k \in SdkKinds
           /\ Started(k).kind = k
  BY DEF Started, Workflows, TypeOK

(* Queues, as far as they matter here. *)
LEMMA QueueFacts ==
    ASSUME NEW q \in Seq(Events)
    PROVE  /\ \A e \in Events : /\ Append(q, e) \in Seq(Events)
                                /\ \A i \in DOMAIN q : i \in DOMAIN Append(q, e) /\ Append(q, e)[i] = q[i]
                                /\ \E i \in DOMAIN Append(q, e) : Append(q, e)[i] = e
           /\ q # <<>> => Head(q) \in Events /\ Tail(q) \in Seq(Events)
           /\ q # <<>> /\ Head(q) # Finished => Head(q).kind \in Kinds
  <1>1. ASSUME NEW e \in Events
        PROVE  /\ Append(q, e) \in Seq(Events)
               /\ \A i \in DOMAIN q : i \in DOMAIN Append(q, e) /\ Append(q, e)[i] = q[i]
               /\ Len(q) + 1 \in DOMAIN Append(q, e) /\ Append(q, e)[Len(q) + 1] = e
    OBVIOUS
  <1>2. q # <<>> => Head(q) \in Events /\ Tail(q) \in Seq(Events)
    OBVIOUS
  <1> QED BY <1>1, <1>2 DEF Events

-----------------------------------------------------------------------------
(* Clients. *)
LEMMA ClientSteps ==
    ASSUME IInv, NewWebSocketRequest \/ NewConnection \/ ClientDisconnected
    PROVE  IInv'
  <1> USE ActiveWorkflow, StateMsgTypes DEF IInv
  <1>1. CASE NewWebSocketRequest
    <2> USE <1>1 DEF NewWebSocketRequest, json
    <2>1. TypeOK'
      BY BoundsAssumption DEF TypeOK
    <2>2. ConnInv' /\ LastInv' /\ ClientIsAsked' /\ SessionMatchesWorkflow' /\ DeveloperModeEnds'
      BY DEF ConnInv, LastInv, ClientIsAsked, SessionMatchesWorkflow, DeveloperModeEnds, Active
    <2> QED BY <2>1, <2>2
  <1>2. CASE NewConnection
    <2> USE <1>2 DEF NewConnection, counted
    <2>1. TypeOK'
      BY DEF TypeOK
    <2>2. ConnInv' /\ LastInv' /\ ClientIsAsked' /\ SessionMatchesWorkflow' /\ DeveloperModeEnds'
      BY DEF ConnInv, LastInv, ClientIsAsked, SessionMatchesWorkflow, DeveloperModeEnds, Active, TypeOK
    <2> QED BY <2>1, <2>2
  <1>3. CASE ClientDisconnected
    <2>1. \/ wf' = wf /\ wf.claimed # "websocket"
          \/ wf \in Workflows /\ wf.claimed = "websocket" /\ wf' = Killed(wf)
      BY <1>3 DEF ClientDisconnected
    <2>2. TypeOK'
      BY <1>3, <2>1, KilledWorkflow DEF ClientDisconnected, counted, TypeOK
    <2>3. Active' <=> Active
      BY <2>1, KilledWorkflow DEF Active
    <2>4. ConnInv' /\ LastInv' /\ ClientIsAsked'
      BY <1>3, <2>1, <2>3, KilledWorkflow DEF ClientDisconnected, ConnInv, LastInv, ClientIsAsked
    <2>5. SessionMatchesWorkflow' /\ DeveloperModeEnds'
      BY <1>3, <2>1, <2>3, KilledWorkflow DEF ClientDisconnected, ConnInv, SessionMatchesWorkflow,
         DeveloperModeEnds
    <2> QED BY <2>2, <2>4, <2>5
  <1> QED BY <1>1, <1>2, <1>3

-----------------------------------------------------------------------------
(* Commands. *)
LEMMA RunWorkflowStep ==
    ASSUME IInv, NEW k \in SdkKinds, NEW dev \in {"absent", "on", "off"}, RunWorkflow(k, dev)
    PROVE  IInv'
  <1> USE ActiveWorkflow DEF IInv, RunWorkflow
  <1> DEFINE e == Request(k, "client")
  <1>1. e \in Events /\ e.from = "client"
    BY DEF Request, Events, SdkKinds, Kinds
  <1>2. inbox' = Append(inbox, e)
    BY DEF Post
  <1> HIDE DEF e
  <1>3. /\ inbox' \in Seq(Events)
        /\ \E i \in DOMAIN inbox' : inbox'[i].from = "client"
    BY <1>1, <1>2, QueueFacts DEF TypeOK
  <1>4. developerMode' \in BOOLEAN
    <2>1. (dev = "on") \in BOOLEAN
      OBVIOUS
    <2>2. developerMode' = developerMode \/ developerMode' = (dev = "on")
      OBVIOUS
    <2> QED BY <2>1, <2>2 DEF TypeOK
  <1>5. requests' \in 0..MaxRequests
    BY BoundsAssumption DEF TypeOK
  <1>6. TypeOK'
    BY <1>3, <1>4, <1>5 DEF TypeOK
  <1>7. ConnInv' /\ LastInv' /\ ClientIsAsked' /\ SessionMatchesWorkflow'
    BY DEF ConnInv, LastInv, ClientIsAsked, SessionMatchesWorkflow, Active
  <1>8. DeveloperModeEnds'
    BY <1>3 DEF DeveloperModeEnds
  <1> QED BY <1>6, <1>7, <1>8

(* A command that acts on the workflow finds one: the dispatcher has it, or *)
(* has a message about it.                                                 *)
LEMMA WorkflowIsThere ==
    ASSUME IInv, ctx \/ last.type # "VOID"
    PROVE  wf \in Workflows /\ Active
  <1>1. CASE ctx
    BY <1>1, ActiveWorkflow DEF IInv, SessionMatchesWorkflow
  <1>2. CASE last.type # "VOID"
    BY <1>2, ActiveWorkflow DEF IInv, LastInv, ConnInv, NoMsg
  <1> QED BY <1>1, <1>2

(* Approving the state, or cancelling, keeps everything else.              *)
LEMMA ApprovalStep ==
    ASSUME IInv, wf \in Workflows, Active,
           wf' = Killed(wf) \/ wf' = [wf EXCEPT !.approved = TRUE],
           UNCHANGED <<conn, json, level, cards, told, counted>>,
           waiting' \in Kinds \cup {"none"},
           inbox' \in Seq(Events)
    PROVE  IInv'
  <1> USE DEF IInv, json, counted
  <1>1. /\ wf' \in Workflows
        /\ wf'.approved /\ (wf.cancelled => wf'.cancelled)
        /\ wf'.kind = wf.kind /\ wf'.state = wf.state
        /\ wf'.claimed = wf.claimed /\ wf'.heard = wf.heard
    BY KilledWorkflow, ActiveWorkflow DEF Workflows
  <1>2. TypeOK'
    BY <1>1 DEF TypeOK
  <1>3. Active'
    BY <1>1 DEF Active
  <1>4. wf'.cancelled \in BOOLEAN /\ wf.cancelled \in BOOLEAN
    BY <1>1 DEF Workflows
  <1>5. ConnInv' /\ LastInv' /\ ClientIsAsked'
    BY <1>1, <1>3, <1>4 DEF ConnInv, LastInv, ClientIsAsked
  <1>6. SessionMatchesWorkflow' /\ DeveloperModeEnds'
    BY <1>1, <1>3, <1>4 DEF ConnInv, SessionMatchesWorkflow, DeveloperModeEnds
  <1> QED BY <1>2, <1>5, <1>6

LEMMA CommandStep ==
    ASSUME IInv, Command
    PROVE  IInv'
  <1>1. ASSUME NEW k \in SdkKinds, NEW dev \in {"absent", "on", "off"}, RunWorkflow(k, dev)
        PROVE  IInv'
    BY <1>1, RunWorkflowStep
  <1>2. ASSUME NEW l \in Levels, SetApiLevel(l)
        PROVE  IInv'
    <2> USE <1>2 DEF SetApiLevel, json, counted, IInv
    <2>1. TypeOK'
      BY BoundsAssumption DEF TypeOK
    <2> QED BY <2>1 DEF ConnInv, LastInv, ClientIsAsked, SessionMatchesWorkflow, DeveloperModeEnds, Active
  <1>3. ASSUME Cancel
        PROVE  IInv'
    BY <1>3, WorkflowIsThere, ApprovalStep DEF Cancel, IInv, TypeOK
  <1>4. ASSUME NEW msg \in StateMsgs \ {"VOID", "INSERT_CARD"}, Answer(msg)
        PROVE  IInv'
    BY <1>4, WorkflowIsThere, ApprovalStep DEF Answer, IInv, TypeOK
  <1> QED BY <1>1, <1>2, <1>3, <1>4 DEF Command

-----------------------------------------------------------------------------
(* Requests and the end of a workflow. *)
LEMMA OtherRequestStep ==
    ASSUME IInv, NEW k \in Kinds, OtherRequest(k)
    PROVE  IInv'
  <1> USE DEF IInv, OtherRequest, json
  <1>1. Request(k, "other") \in Events
    BY DEF Request, Events
  <1>2. inbox' = Append(inbox, Request(k, "other"))
    BY DEF Post
  <1>3. /\ inbox' \in Seq(Events)
        /\ \A i \in DOMAIN inbox : i \in DOMAIN inbox' /\ inbox'[i] = inbox[i]
    BY <1>1, <1>2, QueueFacts DEF TypeOK
  <1>4. TypeOK'
    BY <1>3, BoundsAssumption DEF TypeOK
  <1>5. ConnInv' /\ LastInv' /\ ClientIsAsked' /\ SessionMatchesWorkflow'
    BY DEF ConnInv, LastInv, ClientIsAsked, SessionMatchesWorkflow, Active
  <1>6. DeveloperModeEnds'
    BY <1>3 DEF DeveloperModeEnds, Active
  <1> QED BY <1>4, <1>5, <1>6

(* A workflow that has just been started.                                  *)
LEMMA StartedIsInOrder ==
    ASSUME IInv, NEW k \in Kinds, TypeOK', UNCHANGED <<conn, enabled>>,
           wf' = Started(k),
           last' = NoMsg,
           ctx' \in BOOLEAN, enabled => ctx',
           told' = ToldAtStart(k, "nothing") \/ (told' = ToldAtStart(k, told) /\ told = "nothing")
               \/ (told' = ToldAtStart(k, told) /\ conn # "open")
    PROVE  IInv'
  <1> USE DEF IInv
  <1>1. /\ wf' \in Workflows
        /\ wf'.state = "Start" /\ ~wf'.approved /\ ~wf'.cancelled
        /\ wf'.claimed = IF conn = "none" THEN "qml" ELSE "websocket"
        /\ wf'.heard <=> enabled /\ k \in SdkKinds
        /\ wf'.kind = k
    BY StartedWorkflow
  <1>2. Active'
    BY <1>1 DEF Active, Kinds
  <1>3. ConnInv'
    BY <1>1, <1>2 DEF ConnInv
  <1>4. LastInv' /\ ClientIsAsked'
    BY <1>1 DEF LastInv, ClientIsAsked, NoMsg, States, Dialogs
  <1>5. SessionMatchesWorkflow' /\ DeveloperModeEnds'
    BY <1>1, <1>2, <1>3 DEF SessionMatchesWorkflow, DeveloperModeEnds, ToldAtStart, ConnInv
  <1> QED BY <1>3, <1>4, <1>5

LEMMA RequestSteps ==
    ASSUME IInv, StartRequested \/ RequestWhileBusy \/ WorkflowFinished
    PROVE  IInv'
  <1> USE DEF IInv
  <1>1. inbox \in Seq(Events)
    BY DEF TypeOK
  <1>2. CASE StartRequested
    <2> DEFINE k == Head(inbox).kind
    <2>1. k \in Kinds /\ inbox' \in Seq(Events)
      BY <1>1, <1>2, QueueFacts DEF StartRequested
    <2>2. wf' = Started(k) /\ told' = ToldAtStart(k, told)
      BY <1>2 DEF StartRequested
    <2> HIDE DEF k
    <2>3. last = NoMsg /\ (conn = "open" => told = "nothing") /\ ~ctx
      BY <1>2, ActiveWorkflow DEF StartRequested, LastInv, SessionMatchesWorkflow, ConnInv
    <2>4. last' = NoMsg /\ ctx' \in BOOLEAN /\ (enabled => ctx')
      BY <1>2, <2>3 DEF StartRequested, TypeOK
    <2>5. TypeOK'
      BY <1>2, <2>1, <2>2, <2>4, <2>3, StartedWorkflow DEF StartRequested, TypeOK, counted, ToldAtStart
    <2>6. UNCHANGED <<conn, enabled>>
      BY <1>2 DEF StartRequested
    <2> QED BY <2>1, <2>2, <2>3, <2>4, <2>5, <2>6, StartedIsInOrder
  <1>3. CASE RequestWhileBusy
    <2>1. Head(inbox).kind \in Kinds /\ inbox' \in Seq(Events)
      BY <1>1, <1>3, QueueFacts DEF RequestWhileBusy
    <2>2. wf \in Workflows /\ Active /\ waiting' \in Kinds \cup {"none"}
      BY <1>3, <2>1, ActiveWorkflow DEF RequestWhileBusy, TypeOK
    <2>3. CASE wf' = [wf EXCEPT !.approved = TRUE]
      BY <1>3, <2>1, <2>2, <2>3, ApprovalStep DEF RequestWhileBusy
    <2>4. CASE wf' = wf
      <3>1. TypeOK'
        BY <1>3, <2>1, <2>2, <2>4 DEF RequestWhileBusy, TypeOK, json, counted
      <3> QED BY <1>3, <2>2, <2>4, <3>1 DEF RequestWhileBusy, json, ConnInv, LastInv, ClientIsAsked,
              SessionMatchesWorkflow, DeveloperModeEnds, Active
    <2> QED BY <1>3, <2>3, <2>4 DEF RequestWhileBusy
  <1>4. CASE WorkflowFinished
    <2>1. inbox' \in Seq(Events) /\ UNCHANGED <<conn, enabled>> /\ last' = NoMsg /\ ~developerMode'
      BY <1>1, <1>4, QueueFacts DEF WorkflowFinished
    <2>4. last' \in [type : StateMsgs, sent : BOOLEAN]
      <3>1. NoMsg \in [type : StateMsgs, sent : BOOLEAN]
        BY StateMsgTypes DEF NoMsg
      <3> QED BY <2>1, <3>1
    <2>2. CASE waiting = "none"
      <3>1. wf' = NoWorkflow /\ ~ctx' /\ told' = "nothing"
        BY <1>4, <2>2 DEF WorkflowFinished
      <3>2. TypeOK'
        <4>1. last' \in [type : StateMsgs, sent : BOOLEAN] /\ (ctx' \in BOOLEAN)
          BY <2>4, <1>4, <2>2 DEF WorkflowFinished
        <4>2. UNCHANGED <<level, cards, requests, clients>> /\ developerMode' = FALSE /\ waiting' = "none"
          BY <1>4 DEF WorkflowFinished, counted
        <4> QED BY <2>1, <3>1, <4>1, <4>2 DEF TypeOK
      <3>3. ConnInv' /\ LastInv' /\ ClientIsAsked' /\ SessionMatchesWorkflow'
        BY <2>1, <3>1, <3>2 DEF ConnInv, LastInv, ClientIsAsked, SessionMatchesWorkflow, NoWorkflow, NoMsg,
           Active
      <3> QED BY <2>1, <3>2, <3>3 DEF DeveloperModeEnds
    <2>3. CASE waiting # "none"
      <3>1. waiting \in Kinds
        BY <2>3 DEF TypeOK
      <3>2. wf' = Started(waiting) /\ ctx' = enabled /\ told' = ToldAtStart(waiting, "nothing")
        BY <1>4, <2>3 DEF WorkflowFinished
      <3>4. ctx' \in BOOLEAN /\ (enabled => ctx')
        BY <3>2 DEF TypeOK
      <3>3. TypeOK'
        <4>1. UNCHANGED <<level, cards, requests, clients>> /\ developerMode' = FALSE /\ waiting' = "none"
          BY <1>4 DEF WorkflowFinished, counted
        <4>2. wf' \in Workflows /\ told' \in {"nothing", "started"}
          BY <3>1, <3>2, StartedWorkflow DEF ToldAtStart
        <4> QED BY <2>1, <2>4, <3>4, <4>1, <4>2 DEF TypeOK
      <3> QED BY <2>1, <3>1, <3>2, <3>3, <3>4, StartedIsInOrder
    <2> QED BY <2>2, <2>3
  <1> QED BY <1>2, <1>3, <1>4

-----------------------------------------------------------------------------
(* What a state the API knows makes of the workflow and the dispatcher. *)
LEMMA MsgOfState ==
    ASSUME TypeOK, NEW s \in States
    PROVE  /\ MsgOf(s) \in [type : StateMsgs, sent : BOOLEAN]
           /\ MsgOf(s) # NoMsg => MsgOf(s).type = StateMsgType(s)
           /\ MsgOf(s).type \in {"VOID", StateMsgType(s)}
           /\ wf.cancelled => MsgOf(s) = NoMsg
           /\ MsgOf(s).sent /\ s # "SelectReader" =>
                  s \in Dialogs /\ MsgOf(s) = [type |-> StateMsgType(s), sent |-> TRUE]
           /\ s = "SelectReader" /\ ~wf.cancelled => MsgOf(s) = InsertCard(cards)
           /\ IsApproved(s) \in BOOLEAN
  <1>1. HasEid(cards) \in BOOLEAN
    BY DEF HasEid
  <1>2. InsertCard(cards) \in [type : StateMsgs, sent : BOOLEAN]
    BY <1>1, StateMsgTypes DEF InsertCard
  <1>3. NoMsg \in [type : StateMsgs, sent : BOOLEAN]
    BY StateMsgTypes DEF NoMsg
  <1>4. [type |-> StateMsgType(s), sent |-> TRUE] \in [type : StateMsgs, sent : BOOLEAN]
    BY StateMsgTypes
  <1>5. MsgOf(s) \in {NoMsg, InsertCard(cards), [type |-> StateMsgType(s), sent |-> TRUE]}
    BY DEF MsgOf, HasMsg
  <1>6. wf.cancelled => MsgOf(s) = NoMsg
    BY DEF MsgOf, HasMsg
  <1>7. s = "SelectReader" /\ ~wf.cancelled => MsgOf(s) = InsertCard(cards)
    BY DEF MsgOf, HasMsg
  <1>8. s # "SelectReader" =>
            \/ MsgOf(s) = NoMsg
            \/ s \in Dialogs /\ MsgOf(s) = [type |-> StateMsgType(s), sent |-> TRUE]
    <2>1. HasMsg(s) /\ s # "SelectReader" => s \in Dialogs
      BY DEF HasMsg
    <2>2. HasMsg(s) /\ s # "SelectReader" => MsgOf(s) = [type |-> StateMsgType(s), sent |-> TRUE]
      BY DEF MsgOf
    <2>3. ~HasMsg(s) => MsgOf(s) = NoMsg
      BY DEF MsgOf
    <2> QED BY <2>1, <2>2, <2>3
  <1>9. StateMsgType("SelectReader") = "INSERT_CARD"
    BY DEF StateMsgType
  <1>10. MsgOf(s).type \in {"VOID", StateMsgType(s)} /\ (MsgOf(s) # NoMsg => MsgOf(s).type = StateMsgType(s))
    <2>1. CASE s = "SelectReader"
      BY <1>6, <1>7, <1>9, <2>1 DEF InsertCard, NoMsg
    <2>2. CASE s # "SelectReader"
      BY <1>8, <2>2 DEF NoMsg
    <2> QED BY <2>1, <2>2
  <1>11. IsApproved(s) \in BOOLEAN
    BY DEF IsApproved
  <1>12. MsgOf(s).sent /\ s # "SelectReader" =>
            s \in Dialogs /\ MsgOf(s) = [type |-> StateMsgType(s), sent |-> TRUE]
    BY <1>8 DEF NoMsg
  <1> QED BY <1>2, <1>3, <1>4, <1>5, <1>6, <1>7, <1>10, <1>11, <1>12

LEMMA EnterStateStep ==
    ASSUME IInv, NEW s \in States, EnterState(s)
    PROVE  IInv'
  <1> USE DEF IInv
  <1> DEFINE a == wf.cancelled \/ (wf.heard /\ IsApproved(s))
  <1>1. wf \in Workflows /\ Active /\ wf' = [wf EXCEPT !.state = s, !.approved = a]
    BY ActiveWorkflow DEF EnterState
  <1>2. a \in BOOLEAN
    OBVIOUS
  <1> HIDE DEF a
  <1>3. /\ wf' \in Workflows /\ wf'.state = s /\ wf'.approved = a
        /\ wf'.kind = wf.kind /\ wf'.cancelled = wf.cancelled
        /\ wf'.claimed = wf.claimed /\ wf'.heard = wf.heard
    BY <1>1, <1>2 DEF Workflows
  <1>4. UNCHANGED <<conn, enabled, ctx, developerMode, level, inbox, waiting, cards, requests, clients>>
    BY DEF EnterState, counted
  <1>5. Active'
    BY <1>1, <1>3 DEF Active
  <1>6. wf.heard => last' = MsgOf(s) /\ told' = IF MsgOf(s).sent /\ conn = "open" THEN MsgOf(s).type ELSE told
    BY DEF EnterState, Tell
  <1>7. ~wf.heard => last' = last /\ told' = told
    BY DEF EnterState
  <1>8. TypeOK'
    <2>1. last' \in [type : StateMsgs, sent : BOOLEAN]
      BY <1>6, <1>7, MsgOfState DEF TypeOK
    <2>2. MsgOf(s).type \in StateMsgs
      BY MsgOfState
    <2>3. told' \in StateMsgs \cup {"nothing", "started"}
      BY <1>6, <1>7, <2>2 DEF TypeOK
    <2> QED BY <1>3, <1>4, <2>1, <2>3 DEF TypeOK
  <1>9. ConnInv'
    BY <1>1, <1>3, <1>4, <1>5 DEF ConnInv
  <1>10. LastInv'
    <2>1. CASE wf.heard
      <3>1. last' # NoMsg => last'.type = StateMsgType(s)
        BY <1>6, <2>1, MsgOfState
      <3>2. s = "SelectReader" /\ ~wf.cancelled /\ conn = "open" =>
                last'.type = "INSERT_CARD" /\ (last'.sent => told' = "INSERT_CARD")
        BY <1>6, <2>1, MsgOfState DEF InsertCard
      <3> QED BY <1>3, <1>4, <2>1, <3>1, <3>2 DEF LastInv
    <2>2. CASE ~wf.heard
      BY <1>3, <1>7, <2>2 DEF LastInv
    <2> QED BY <2>1, <2>2
  <1>11. ClientIsAsked'
    <2> SUFFICES ASSUME wf.heard, conn = "open"
                 PROVE  /\ ~a => /\ s \in Dialogs
                                 /\ last' = [type |-> StateMsgType(s), sent |-> TRUE]
                                 /\ told' = last'.type
                        /\ s = "SelectReader" /\ ~wf.cancelled /\ ~HasEid(cards) => told' = "INSERT_CARD"
                        /\ last'.type \in {"VOID", StateMsgType(s)}
      BY <1>3, <1>4 DEF ClientIsAsked, HasEid
    <2>1. ~a => MsgOf(s).sent /\ s # "SelectReader"
      BY DEF a, IsApproved
    <2>2. last'.type \in {"VOID", StateMsgType(s)}
      BY <1>6, MsgOfState
    <2>3. s = "SelectReader" /\ ~wf.cancelled /\ ~HasEid(cards) => told' = "INSERT_CARD"
      BY <1>6, MsgOfState DEF InsertCard
    <2> QED BY <1>6, <2>1, <2>2, <2>3, MsgOfState
  <1>12. SessionMatchesWorkflow' /\ DeveloperModeEnds'
    <2>1. wf.heard => ctx
      BY DEF ConnInv
    <2>2. wf.heard /\ conn = "open" => told # "nothing"
      BY <2>1 DEF SessionMatchesWorkflow
    <2>3. MsgOf(s).type # "nothing"
      BY MsgOfState, StateMsgTypes
    <2>4. conn = "open" => (told' # "nothing" <=> told # "nothing")
      BY <1>6, <1>7, <2>2, <2>3
    <2>5. DeveloperModeEnds'
      BY <1>4, <1>5 DEF DeveloperModeEnds
    <2>6. SessionMatchesWorkflow'
      BY <1>1, <1>3, <1>4, <1>5, <2>4 DEF SessionMatchesWorkflow
    <2> QED BY <2>5, <2>6
  <1> QED BY <1>8, <1>9, <1>10, <1>11, <1>12

LEMMA WorkflowSteps ==
    ASSUME IInv, GuiApproves \/ RunFinal
    PROVE  IInv'
  <1> USE DEF IInv
  <1>1. CASE GuiApproves
    <2>1. wf \in Workflows /\ Active
      BY <1>1, ActiveWorkflow DEF GuiApproves
    <2> QED BY <1>1, <2>1, ApprovalStep DEF GuiApproves, TypeOK
  <1>2. CASE RunFinal
    <2>1. wf \in Workflows /\ Active
      BY <1>2, ActiveWorkflow DEF RunFinal
    <2>2. /\ wf' \in Workflows /\ wf'.state = "Stopped"
          /\ wf'.kind = wf.kind /\ wf'.cancelled = wf.cancelled
          /\ wf'.claimed = wf.claimed /\ wf'.heard = wf.heard
      BY <1>2, <2>1 DEF RunFinal, Workflows
    <2>3. inbox' \in Seq(Events)
      <3>1. Finished \in Events
        BY DEF Events
      <3> QED BY <1>2, <3>1, QueueFacts DEF RunFinal, Post, TypeOK
    <2>4. UNCHANGED <<conn, json, level, waiting, cards, told, counted>> /\ wf.state = "Final"
      BY <1>2 DEF RunFinal
    <2>5. TypeOK'
      BY <2>2, <2>3, <2>4 DEF TypeOK, json, counted
    <2>6. Active'
      BY <2>1, <2>2 DEF Active
    <2>7. last # NoMsg => wf.heard /\ last.type = "VOID"
      BY <2>4, StateMsgTypes DEF LastInv
    <2>8. ConnInv' /\ LastInv' /\ ClientIsAsked'
      BY <2>1, <2>2, <2>4, <2>6, <2>7, StateMsgTypes DEF ConnInv, LastInv, ClientIsAsked, json, States, Dialogs
    <2>9. SessionMatchesWorkflow' /\ DeveloperModeEnds'
      BY <2>1, <2>2, <2>4, <2>6 DEF SessionMatchesWorkflow, DeveloperModeEnds, json
    <2> QED BY <2>5, <2>8, <2>9
  <1> QED BY <1>1, <1>2

-----------------------------------------------------------------------------
(* Cards.  Only the last card leaves none; that is heard of. *)
LEMMA CardChangeStep ==
    ASSUME IInv, NEW r \in Readers, NEW c \in CardStates, CardChange(r, c)
    PROVE  IInv'
  <1> USE DEF IInv
  <1> DEFINE asks == Heard(c) /\ last = [type |-> "INSERT_CARD", sent |-> FALSE]
  <1>1. cards' = [cards EXCEPT ![r] = c] /\ cards' \in [Readers -> CardStates]
    BY DEF CardChange, TypeOK
  <1>2. UNCHANGED <<conn, enabled, ctx, developerMode, level, inbox, waiting, wf, requests, clients>>
    BY DEF CardChange, counted
  <1>3. HasEid(cards') \in BOOLEAN /\ HasEid(cards) \in BOOLEAN
    BY DEF HasEid
  <1>4. asks => last' = InsertCard(cards')
                /\ told' = IF ~HasEid(cards') /\ conn = "open" THEN "INSERT_CARD" ELSE told
    BY DEF CardChange, Tell, InsertCard
  <1>5. ~asks => last' = last /\ told' = told
    BY DEF CardChange
  <1>6. asks => last # NoMsg /\ last.type = "INSERT_CARD"
    BY DEF NoMsg
  <1>7. asks => wf.heard /\ wf.state = "SelectReader" /\ wf \in Workflows /\ Active
    <2>1. asks => wf.heard /\ StateMsgType(wf.state) = "INSERT_CARD" /\ wf \in Workflows
      BY <1>6, ActiveWorkflow DEF LastInv, ConnInv
    <2>2. wf \in Workflows => wf.state \in States \cup {"Start", "Stopped"}
      BY DEF Workflows
    <2> QED BY <2>1, <2>2, StateMsgTypes, ActiveWorkflow
  <1>8. HasEid(cards) /\ ~HasEid(cards') => Heard(c) \/ ~enabled
    BY <1>1 DEF HasEid, Heard, CardChange, CardStates, TypeOK
  <1> HIDE DEF asks
  <1>9. Active' <=> Active
    BY <1>2 DEF Active
  <1>10. TypeOK'
    <2>1. InsertCard(cards') \in [type : StateMsgs, sent : BOOLEAN]
      BY <1>3, StateMsgTypes DEF InsertCard
    <2>2. last' \in [type : StateMsgs, sent : BOOLEAN] /\ told' \in StateMsgs \cup {"nothing", "started"}
      BY <1>4, <1>5, <2>1, StateMsgTypes DEF TypeOK
    <2> QED BY <1>1, <1>2, <2>2 DEF TypeOK
  <1>11. ConnInv' /\ DeveloperModeEnds'
    BY <1>2, <1>9 DEF ConnInv, DeveloperModeEnds
  <1>12. SessionMatchesWorkflow'
    <2>1. asks /\ conn = "open" => told # "nothing" /\ "INSERT_CARD" # "nothing"
      BY <1>7 DEF SessionMatchesWorkflow, ConnInv
    <2>2. conn = "open" => (told' # "nothing" <=> told # "nothing")
      BY <1>4, <1>5, <2>1
    <2> QED BY <1>2, <1>9, <2>2 DEF SessionMatchesWorkflow
  <1>13. LastInv'
    <2>1. CASE asks
      <3>1. wf.heard /\ wf.state = "SelectReader" /\ wf' = wf /\ conn' = conn
        BY <1>2, <1>7, <2>1
      <3>2. StateMsgType(wf.state) = "INSERT_CARD"
        BY <3>1, StateMsgTypes DEF States
      <3>3. last'.type = "INSERT_CARD" /\ last'.sent = ~HasEid(cards')
        BY <1>3, <1>4, <2>1 DEF InsertCard
      <3>4. conn = "open" /\ last'.sent => told' = "INSERT_CARD"
        BY <1>4, <2>1, <3>3
      <3> QED BY <3>1, <3>2, <3>3, <3>4 DEF LastInv
    <2>2. CASE ~asks
      BY <1>2, <1>5, <2>2 DEF LastInv
    <2> QED BY <2>1, <2>2
  <1>14. ClientIsAsked'
    <2>1. CASE asks
      <3>1. wf.heard /\ wf.state = "SelectReader" /\ wf.state \notin Dialogs /\ wf.state \in States
        BY <1>7, <2>1 DEF Dialogs, States
      <3>2. last'.type = "INSERT_CARD" /\ StateMsgType(wf.state) = "INSERT_CARD"
        BY <1>4, <2>1, <3>1, StateMsgTypes DEF InsertCard
      <3>3. conn = "open" /\ ~HasEid(cards') => told' = "INSERT_CARD"
        BY <1>4, <2>1
      <3> QED BY <1>2, <3>1, <3>2, <3>3 DEF ClientIsAsked
    <2>2. CASE ~asks
      <3> SUFFICES ASSUME wf.heard, conn = "open", wf.state = "SelectReader", ~wf.cancelled, ~HasEid(cards')
                   PROVE  told' = "INSERT_CARD"
        BY <1>2, <1>5, <2>2 DEF ClientIsAsked
      <3>1. CASE HasEid(cards)
        <4>1. Heard(c)
          BY <1>8, <3>1 DEF ConnInv
        <4>2. last.type = "INSERT_CARD" /\ (last.sent => told = "INSERT_CARD")
          BY DEF LastInv
        <4>3. last.sent
          <5>1. last = [type |-> last.type, sent |-> last.sent] /\ last.sent \in BOOLEAN
            BY DEF TypeOK
          <5> QED BY <2>2, <4>1, <4>2, <5>1 DEF asks
        <4> QED BY <1>5, <2>2, <4>2, <4>3
      <3>2. CASE ~HasEid(cards)
        BY <1>5, <2>2, <3>2 DEF ClientIsAsked, States
      <3> QED BY <3>1, <3>2
    <2> QED BY <2>1, <2>2
  <1> QED BY <1>10, <1>11, <1>12, <1>13, <1>14

-----------------------------------------------------------------------------
LEMMA InitInv == Init => IInv
  <1> SUFFICES ASSUME Init PROVE IInv
    OBVIOUS
  <1>1. TypeOK
    <2>1. NoMsg \in [type : StateMsgs, sent : BOOLEAN]
      BY StateMsgTypes DEF NoMsg
    <2>2. inbox \in Seq(Events) /\ cards \in [Readers -> CardStates]
      BY DEF Init
    <2>3. 0 \in 0..MaxRequests /\ 0 \in 0..MaxClients /\ 3 \in 1..3
      BY BoundsAssumption
    <2>4. enabled \in BOOLEAN /\ ctx \in BOOLEAN /\ developerMode \in BOOLEAN
      BY DEF Init
    <2> QED BY <2>1, <2>2, <2>3, <2>4 DEF Init, TypeOK
  <1>2. ConnInv /\ LastInv /\ ClientIsAsked /\ SessionMatchesWorkflow /\ DeveloperModeEnds
    BY DEF Init, ConnInv, LastInv, ClientIsAsked, SessionMatchesWorkflow, DeveloperModeEnds, NoWorkflow, Active
  <1> QED BY <1>1, <1>2 DEF IInv

LEMMA StepInv == IInv /\ [Next]_vars => IInv'
  <1> SUFFICES ASSUME IInv, [Next]_vars PROVE IInv'
    OBVIOUS
  <1>1. CASE UNCHANGED vars
    BY <1>1 DEF vars, json, counted, IInv, TypeOK, ConnInv, LastInv, ClientIsAsked, SessionMatchesWorkflow,
       DeveloperModeEnds, Active
  <1>2. CASE Next
    BY <1>2, ClientSteps, CommandStep, OtherRequestStep, RequestSteps, EnterStateStep, WorkflowSteps,
       CardChangeStep DEF Next
  <1> QED BY <1>1, <1>2

(* All of it together holds throughout every behaviour.                    *)
THEOREM Invariance == Spec => []IInv
  <1> QED BY InitInv, StepInv, PTL DEF Spec

(* Type correctness: requests are only posted whole, a workflow is one of  *)
(* the kinds, the last message is one the API has.                         *)
THEOREM TypeCorrect == Spec => []TypeOK
  <1>1. IInv => TypeOK
    BY DEF IInv
  <1> QED BY <1>1, Invariance, PTL

(* A workflow that waits for its client has asked that client, and accepts *)
(* the answer to no other state (createForStateChange, handleCurrentState, *)
(* processReaderChange).                                                   *)
THEOREM ClientsAreAsked == Spec => []ClientIsAsked
  <1>1. IInv => ClientIsAsked
    BY DEF IInv
  <1> QED BY <1>1, Invariance, PTL

(* The dispatcher and the web socket plugin agree with the controller on   *)
(* whose workflow it is, over clients that come and go (init, reset,       *)
(* onClientDisconnected).                                                  *)
THEOREM SessionsMatch == Spec => []SessionMatchesWorkflow
  <1>1. IInv => SessionMatchesWorkflow
    BY DEF IInv
  <1> QED BY <1>1, Invariance, PTL

(* Developer mode is over with the workflow it was asked for               *)
(* (handleWorkflowProperties, MessageDispatcher::reset).                   *)
THEOREM DeveloperModeIsOver == Spec => []DeveloperModeEnds
  <1>1. IInv => DeveloperModeEnds
    BY DEF IInv
  <1> QED BY <1>1, Invariance, PTL
=============================================================================
