------------------------- MODULE AppControllerProofs -------------------------
(***************************************************************************)
(* Proofs about AppController for any set of requests and any limit of the *)
(* network timer.                                                          *)
(***************************************************************************)
EXTENDS AppController, Integers, TLAPS

(* A request event belongs to a request nobody has answered yet, and no    *)
(* request or completion is posted twice.                                  *)
InboxInv ==
    /\ \A i \in DOMAIN inbox : inbox[i].type = "request" => fate[inbox[i].req] = "posted"
    /\ \A i, j \in DOMAIN inbox :
           inbox[i] = inbox[j] /\ inbox[i].type \in {"request", "finished"} => i = j

(* The two slots of the controller are the fates of the requests in them. *)
FateInv ==
    \A r \in Requests : /\ fate[r] = "active" <=> r = active
                        /\ fate[r] = "waiting" <=> r = waiting

CompletionPosted == \E i \in DOMAIN inbox : inbox[i] = Finished

StageInv ==
    /\ stage = "complete" <=> CompletionPosted
    /\ stage = "none" <=> active = NoRequest

SlotInv ==
    /\ WaitingBehindActive
    /\ ClaimMatchesDomination
    /\ AuthWaitsForCompletion

IInv == TypeOK /\ InboxInv /\ FateInv /\ StageInv /\ SlotInv

-----------------------------------------------------------------------------
(* Sequences as functions, as far as a queue needs them. *)

LEMMA AppendFacts ==
    ASSUME NEW S, NEW s \in Seq(S), NEW e \in S
    PROVE  /\ Append(s, e) \in Seq(S)
           /\ DOMAIN Append(s, e) = DOMAIN s \cup {Len(s) + 1}
           /\ \A i \in DOMAIN s : Append(s, e)[i] = s[i]
           /\ Append(s, e)[Len(s) + 1] = e
           /\ Len(s) + 1 \notin DOMAIN s
  OBVIOUS

LEMMA TailFacts ==
    ASSUME NEW S, NEW s \in Seq(S), s # <<>>
    PROVE  /\ Tail(s) \in Seq(S)
           /\ Head(s) \in S
           /\ 1 \in DOMAIN s /\ s[1] = Head(s)
           /\ \A i \in DOMAIN Tail(s) : i + 1 \in DOMAIN s /\ i + 1 # 1 /\ Tail(s)[i] = s[i + 1]
           /\ \A i \in DOMAIN s : i # 1 => i - 1 \in DOMAIN Tail(s) /\ Tail(s)[i - 1] = s[i]
           /\ DOMAIN s \subseteq Int /\ DOMAIN Tail(s) \subseteq Int
  OBVIOUS

LEMMA RequestEvents ==
    ASSUME NEW e \in Events, e.type = "request"
    PROVE  e.req \in Requests /\ e = Request(e.req)
  <1>1. e \notin {Finished, Restart, Exit}
    BY DEF Finished, Restart, Exit
  <1>2. PICK r \in Requests : e = Request(r)
    BY <1>1 DEF Events
  <1>3. e.req = r
    BY <1>2 DEF Request
  <1> QED BY <1>2, <1>3

(* Posting an event that is not in the queue keeps the queue in order. *)
LEMMA PostKeepsInbox ==
    ASSUME TypeOK, InboxInv,
           NEW e \in Events, Post(e),
           e.type \in {"request", "finished"} => \A i \in DOMAIN inbox : inbox[i] # e,
           e.type = "request" => fate'[e.req] = "posted",
           \A r \in Requests : fate[r] = "posted" => fate'[r] = "posted"
    PROVE  inbox' \in Seq(Events) /\ InboxInv' /\ (CompletionPosted' <=> CompletionPosted \/ e = Finished)
  <1> DEFINE n == Len(inbox) + 1
  <1>1. /\ inbox' \in Seq(Events)
        /\ DOMAIN inbox' = DOMAIN inbox \cup {n}
        /\ \A i \in DOMAIN inbox : inbox'[i] = inbox[i]
        /\ inbox'[n] = e
        /\ n \notin DOMAIN inbox
    BY AppendFacts DEF Post, TypeOK
  <1>2. \A i \in DOMAIN inbox : inbox[i] \in Events
    BY DEF TypeOK
  <1> HIDE DEF n
  <1>3. ASSUME NEW i \in DOMAIN inbox', inbox'[i].type = "request"
        PROVE  fate'[inbox'[i].req] = "posted"
    <2>1. CASE i = n
      BY <1>1, <1>3, <2>1
    <2>2. CASE i # n
      <3>1. inbox'[i] = inbox[i] /\ fate[inbox[i].req] = "posted"
        BY <1>1, <1>3, <2>2 DEF InboxInv
      <3>2. inbox[i].req \in Requests
        BY <1>1, <1>2, <1>3, <2>2, <3>1, RequestEvents
      <3> QED BY <3>1, <3>2
    <2> QED BY <2>1, <2>2
  <1>4. ASSUME NEW i \in DOMAIN inbox', NEW j \in DOMAIN inbox',
               inbox'[i] = inbox'[j], inbox'[i].type \in {"request", "finished"}
        PROVE  i = j
    BY <1>1, <1>4 DEF InboxInv
  <1>5. CompletionPosted' <=> CompletionPosted \/ e = Finished
    BY <1>1 DEF CompletionPosted, Finished
  <1> QED BY <1>1, <1>3, <1>4, <1>5 DEF InboxInv

(* Taking an event out does, too, and what was taken is not there twice. *)
LEMMA TakeKeepsInbox ==
    ASSUME TypeOK, InboxInv, inbox # <<>>, Take,
           \A r \in Requests : /\ fate[r] = "posted"
                               /\ ~(Head(inbox).type = "request" /\ r = Head(inbox).req)
                               => fate'[r] = "posted"
    PROVE  /\ inbox' \in Seq(Events) /\ InboxInv'
           /\ Head(inbox) \in Events
           /\ Head(inbox) = Finished => ~CompletionPosted'
           /\ Head(inbox) # Finished => (CompletionPosted' <=> CompletionPosted)
           /\ Head(inbox).type = "request" => /\ Head(inbox).req \in Requests
                                              /\ fate[Head(inbox).req] = "posted"
  <1>1. /\ inbox' \in Seq(Events)
        /\ Head(inbox) \in Events
        /\ 1 \in DOMAIN inbox /\ inbox[1] = Head(inbox)
        /\ \A i \in DOMAIN inbox' : i + 1 \in DOMAIN inbox /\ i + 1 # 1 /\ inbox'[i] = inbox[i + 1]
        /\ \A i \in DOMAIN inbox : i # 1 => i - 1 \in DOMAIN inbox' /\ inbox'[i - 1] = inbox[i]
        /\ DOMAIN inbox \subseteq Int /\ DOMAIN inbox' \subseteq Int
    BY TailFacts DEF Take, TypeOK
  <1>2. \A i \in DOMAIN inbox : inbox[i] \in Events
    BY DEF TypeOK
  <1>3. Head(inbox).type = "request" => /\ Head(inbox).req \in Requests
                                        /\ fate[Head(inbox).req] = "posted"
    BY <1>1, RequestEvents DEF InboxInv
  <1>4. ASSUME NEW i \in DOMAIN inbox', inbox'[i].type = "request"
        PROVE  fate'[inbox'[i].req] = "posted"
    <2>1. /\ inbox'[i] \in Events
          /\ inbox'[i] = inbox[i + 1] /\ i + 1 \in DOMAIN inbox /\ i + 1 # 1
      BY <1>1, <1>2
    <2>2. inbox'[i].req \in Requests /\ inbox'[i] = Request(inbox'[i].req)
      BY <1>4, <2>1, RequestEvents
    <2>3. fate[inbox'[i].req] = "posted"
      BY <1>4, <2>1 DEF InboxInv
    <2>4. inbox'[i] # Head(inbox)
      BY <1>1, <1>4, <2>1 DEF InboxInv
    <2>5. ~(Head(inbox).type = "request" /\ inbox'[i].req = Head(inbox).req)
      BY <1>1, <2>2, <2>4, RequestEvents
    <2> QED BY <2>2, <2>3, <2>5
  <1>5. ASSUME NEW i \in DOMAIN inbox', NEW j \in DOMAIN inbox',
               inbox'[i] = inbox'[j], inbox'[i].type \in {"request", "finished"}
        PROVE  i = j
    <2>1. i + 1 = j + 1
      BY <1>1, <1>5 DEF InboxInv
    <2> QED BY <1>1, <2>1
  <1>6. Head(inbox) = Finished => ~CompletionPosted'
    BY <1>1 DEF CompletionPosted, InboxInv, Finished
  <1>7. Head(inbox) # Finished => (CompletionPosted' <=> CompletionPosted)
    BY <1>1 DEF CompletionPosted, Finished
  <1> QED BY <1>1, <1>3, <1>4, <1>5, <1>6, <1>7 DEF InboxInv

LEMMA SameInbox ==
    ASSUME TypeOK, InboxInv, UNCHANGED inbox,
           \A r \in Requests : fate[r] = "posted" => fate'[r] = "posted"
    PROVE  InboxInv' /\ (CompletionPosted' <=> CompletionPosted)
  <1>1. ASSUME NEW i \in DOMAIN inbox, inbox[i].type = "request"
        PROVE  inbox[i].req \in Requests
    BY <1>1, RequestEvents DEF TypeOK
  <1> QED BY <1>1 DEF InboxInv, CompletionPosted

(* A workflow starts out of a queue from which no completion is pending. *)
LEMMA StartingKeepsSlots ==
    ASSUME TypeOK, NEW r \in Requests, NEW fates \in [Requests -> Fates],
           StartNewWorkflow(r, fates), waiting' = NoRequest, UNCHANGED dominator,
           ~CompletionPosted'
    PROVE  /\ active' = r /\ fate' = [fates EXCEPT ![r] = "active"]
           /\ fate' \in [Requests -> Fates]
           /\ stage' \in Stages /\ claimedBy' \in Uis \cup {NoUi} /\ killed' \in BOOLEAN
           /\ StageInv' /\ SlotInv'
  <1>1. /\ active' = r /\ fate' = [fates EXCEPT ![r] = "active"]
        /\ stage' = "running" /\ claimedBy' = Claimant /\ killed' = (Claimant = NoUi)
    BY DEF StartNewWorkflow
  <1>2. /\ Claimant \in Uis \cup {NoUi}
        /\ Claimant = "websocket" => dominator = "websocket"
        /\ Claimant = "qml" => dominator = NoUi
    BY RequestsAssumption DEF Claimant, Uis
  <1>3. StageInv' /\ WaitingBehindActive' /\ AuthWaitsForCompletion'
    BY <1>1, RequestsAssumption DEF StageInv, WaitingBehindActive, AuthWaitsForCompletion
  <1>4. ClaimMatchesDomination'
    BY <1>1, <1>2 DEF ClaimMatchesDomination
  <1>5. /\ fate' \in [Requests -> Fates]
        /\ stage' \in Stages /\ claimedBy' \in Uis \cup {NoUi} /\ killed' \in BOOLEAN
    BY <1>1, <1>2 DEF Fates, Stages
  <1> QED BY <1>1, <1>3, <1>4, <1>5 DEF SlotInv

LEMMA ShutdownTypes ==
    ASSUME TypeOK, CompleteShutdown \/ UNCHANGED exitVars
    PROVE  timers' \in Nat /\ ticks' \in Nat /\ plugins' \in {"loaded", "deleting", "gone"}
           /\ exited' \in BOOLEAN
  <1>1. timers' \in Nat /\ ticks' \in Nat
    BY DEF TypeOK, CompleteShutdown, UiShutdown, exitVars
  <1>2. plugins' \in {"loaded", "deleting", "gone"}
    BY DEF TypeOK, CompleteShutdown, UiShutdown, exitVars
  <1>3. exited' = exited \/ exited' = TRUE
    BY Zenon DEF CompleteShutdown, UiShutdown, exitVars
  <1> QED BY <1>1, <1>2, <1>3 DEF TypeOK

LEMMA InitInv == Init => IInv
  <1> SUFFICES ASSUME Init PROVE IInv
    OBVIOUS
  <1>1. TypeOK
    <2>1. inbox \in Seq(Events)
      BY DEF Init
    <2> QED BY <2>1 DEF Init, TypeOK, Fates, Stages
  <1>2. InboxInv /\ ~CompletionPosted
    BY DEF Init, InboxInv, CompletionPosted
  <1>3. FateInv /\ StageInv /\ SlotInv
    BY <1>2, RequestsAssumption DEF Init, FateInv, StageInv, SlotInv, WaitingBehindActive,
        ClaimMatchesDomination, AuthWaitsForCompletion
  <1> QED BY <1>1, <1>2, <1>3 DEF IInv

(* A shutdown empties the waiting slot and kills, or leaves all as it is.  *)
LEMMA ShutdownKeepsSlots ==
    ASSUME IInv, DoShutdown, UNCHANGED dominator, CompletionPosted' <=> CompletionPosted
    PROVE  /\ active' \in Requests \cup {NoRequest} /\ waiting' \in Requests \cup {NoRequest}
           /\ fate' \in [Requests -> Fates]
           /\ stage' \in Stages /\ claimedBy' \in Uis \cup {NoUi}
           /\ killed' \in BOOLEAN /\ shutdown' \in BOOLEAN
           /\ CompleteShutdown \/ UNCHANGED exitVars
           /\ \A r \in Requests : fate[r] = "posted" => fate'[r] = "posted"
           /\ FateInv' /\ StageInv' /\ SlotInv'
  <1> USE DEF IInv
  <1>1. CASE UNCHANGED <<workflowVars, waiting>>
    <2>1. UNCHANGED <<active, waiting, fate, stage, claimedBy, killed>>
      BY <1>1 DEF workflowVars
    <2>2. FateInv' /\ StageInv' /\ SlotInv'
      BY <2>1 DEF FateInv, StageInv, SlotInv, WaitingBehindActive, ClaimMatchesDomination,
          AuthWaitsForCompletion
    <2>3. (shutdown' = shutdown \/ shutdown' = TRUE) /\ (CompleteShutdown \/ UNCHANGED exitVars)
      BY <1>1, Zenon DEF DoShutdown, workflowVars
    <2> QED BY <2>1, <2>2, <2>3 DEF TypeOK
  <1>2. CASE ~UNCHANGED <<workflowVars, waiting>>
    <2>1. /\ active # NoRequest /\ shutdown' = TRUE /\ waiting' = NoRequest
          /\ fate' = [r \in Requests |-> IF r = waiting THEN "dropped" ELSE fate[r]]
          /\ killed' = TRUE /\ stage' = Kill(stage)
          /\ UNCHANGED <<active, claimedBy, exitVars>>
      BY <1>2, Zenon DEF DoShutdown
    <2>2. FateInv'
      BY <2>1, RequestsAssumption DEF FateInv, TypeOK
    <2>3. stage' \in Stages /\ StageInv'
      BY <2>1 DEF StageInv, TypeOK, Kill, Stages
    <2>4. SlotInv'
      BY <2>1 DEF SlotInv, WaitingBehindActive, ClaimMatchesDomination, AuthWaitsForCompletion
    <2>5. /\ fate' \in [Requests -> Fates]
          /\ \A r \in Requests : fate[r] = "posted" => fate'[r] = "posted"
      BY <2>1 DEF TypeOK, Fates, FateInv
    <2> QED BY <2>1, <2>2, <2>3, <2>4, <2>5 DEF TypeOK
  <1> QED BY <1>1, <1>2

(* What a step that touches neither the queue nor the requests has to show. *)
LEMMA QuietStep ==
    ASSUME IInv, UNCHANGED <<inbox, active, waiting, fate>>
    PROVE  InboxInv' /\ FateInv' /\ WaitingBehindActive' /\ (CompletionPosted' <=> CompletionPosted)
  <1>1. InboxInv' /\ (CompletionPosted' <=> CompletionPosted)
    BY SameInbox DEF IInv
  <1>2. FateInv' /\ WaitingBehindActive'
    BY DEF IInv, FateInv, SlotInv, WaitingBehindActive
  <1> QED BY <1>1, <1>2

LEMMA StepInv == IInv /\ [Next]_vars => IInv'
  <1> SUFFICES ASSUME IInv, [Next]_vars PROVE IInv'
    OBVIOUS
  <1> USE DEF IInv
  <1>1. ASSUME NEW r \in Requests, RequestWorkflow(r) PROVE IInv'
    <2>1. /\ fate[r] = "new" /\ fate' = [fate EXCEPT ![r] = "posted"] /\ Post(Request(r))
          /\ UNCHANGED <<active, stage, claimedBy, killed, waiting, dominator, shutdown, restart,
                         connOpen, timers, ticks, plugins, exited>>
      BY <1>1 DEF RequestWorkflow, exitVars
    <2>2. Request(r) \in Events /\ Request(r).type = "request" /\ Request(r).req = r
          /\ Request(r) # Finished
      BY DEF Events, Request, Finished
    <2>3. /\ \A i \in DOMAIN inbox : inbox[i] # Request(r)
          /\ fate' \in [Requests -> Fates] /\ fate'[r] = "posted"
          /\ \A q \in Requests : fate[q] = "posted" => fate'[q] = "posted"
      BY <2>1, <2>2 DEF InboxInv, TypeOK, Fates
    <2>4. inbox' \in Seq(Events) /\ InboxInv' /\ (CompletionPosted' <=> CompletionPosted)
      BY <2>1, <2>2, <2>3, PostKeepsInbox
    <2>5. TypeOK'
      BY <2>1, <2>3, <2>4 DEF TypeOK
    <2>6. FateInv'
      BY <2>1 DEF FateInv, TypeOK
    <2>7. StageInv' /\ SlotInv'
      BY <2>1, <2>4 DEF StageInv, SlotInv, WaitingBehindActive, ClaimMatchesDomination,
          AuthWaitsForCompletion
    <2> QED BY <2>4, <2>5, <2>6, <2>7
  <1>2. CASE StartRequested
    <2> DEFINE r == Head(inbox).req
    <2>1. /\ inbox # <<>> /\ Head(inbox).type = "request" /\ active = NoRequest /\ Take
          /\ StartNewWorkflow(r, fate) /\ fate' = [fate EXCEPT ![r] = "active"]
          /\ UNCHANGED <<waiting, dominator, shutdown, restart, connOpen, timers, ticks, plugins,
                         exited>>
      BY <1>2 DEF StartRequested, IsNext, CanStartNewWorkflow, StartNewWorkflow, exitVars
    <2>2. Head(inbox) # Finished
      BY <2>1 DEF Finished
    <2>3. \A q \in Requests : fate[q] = "posted" /\ q # r => fate'[q] = "posted"
      BY <2>1 DEF TypeOK
    <2>4. /\ inbox' \in Seq(Events) /\ InboxInv' /\ (CompletionPosted' <=> CompletionPosted)
          /\ r \in Requests /\ fate[r] = "posted"
      BY <2>1, <2>2, <2>3, TakeKeepsInbox
    <2>5. ~CompletionPosted' /\ waiting = NoRequest
      BY <2>1, <2>4 DEF StageInv, SlotInv, WaitingBehindActive
    <2> HIDE DEF r
    <2>6. /\ active' = r /\ fate' \in [Requests -> Fates]
          /\ stage' \in Stages /\ claimedBy' \in Uis \cup {NoUi} /\ killed' \in BOOLEAN
          /\ StageInv' /\ SlotInv'
      BY <2>1, <2>4, <2>5, StartingKeepsSlots DEF TypeOK
    <2>7. TypeOK'
      BY <2>1, <2>4, <2>6 DEF TypeOK
    <2>8. FateInv'
      BY <2>1, <2>4, <2>5, <2>6, RequestsAssumption DEF FateInv, TypeOK
    <2> QED BY <2>4, <2>6, <2>7, <2>8
  <1>3. CASE Enqueue
    <2> DEFINE r == Head(inbox).req
    <2>1. /\ inbox # <<>> /\ Head(inbox).type = "request" /\ active # NoRequest /\ Take
          /\ MayEnqueue(r) /\ waiting' = r /\ fate' = [fate EXCEPT ![r] = "waiting"]
          /\ stage' = IF Action[r] = "AUTH" THEN Kill(stage) ELSE stage
          /\ UNCHANGED <<active, claimedBy, killed, dominator, shutdown, restart, connOpen, timers,
                         ticks, plugins, exited>>
      BY <1>3 DEF Enqueue, IsNext, CanStartNewWorkflow, exitVars
    <2>2. Head(inbox) # Finished
      BY <2>1 DEF Finished
    <2>3. \A q \in Requests : fate[q] = "posted" /\ q # r => fate'[q] = "posted"
      BY <2>1 DEF TypeOK
    <2>4. /\ inbox' \in Seq(Events) /\ InboxInv' /\ (CompletionPosted' <=> CompletionPosted)
          /\ r \in Requests /\ fate[r] = "posted"
      BY <2>1, <2>2, <2>3, TakeKeepsInbox
    <2> HIDE DEF r
    <2>5. waiting = NoRequest
      BY <2>1 DEF MayEnqueue
    <2>6. stage' \in Stages /\ (stage' = "none" <=> stage = "none")
          /\ (stage' = "complete" <=> stage = "complete")
      BY <2>1 DEF Kill, TypeOK, Stages
    <2>7. TypeOK'
      <3>1. fate' \in [Requests -> Fates]
        BY <2>1, <2>4 DEF TypeOK, Fates
      <3> QED BY <2>1, <2>4, <2>6, <3>1 DEF TypeOK
    <2>8. FateInv'
      BY <2>1, <2>4, <2>5, RequestsAssumption DEF FateInv, TypeOK
    <2>9. StageInv'
      BY <2>1, <2>4, <2>6 DEF StageInv
    <2>10. SlotInv'
      <3>1. Action[r] = "AUTH" => stage' \in {"approved", "complete"}
        BY <2>1 DEF MayEnqueue, Kill
      <3> QED BY <2>1, <3>1 DEF SlotInv, WaitingBehindActive, ClaimMatchesDomination,
                AuthWaitsForCompletion
    <2> QED BY <2>4, <2>7, <2>8, <2>9, <2>10
  <1>4. CASE Refuse
    <2> DEFINE r == Head(inbox).req
    <2>1. /\ inbox # <<>> /\ Head(inbox).type = "request" /\ Take
          /\ fate' = [fate EXCEPT ![r] = "unhandled"]
          /\ UNCHANGED <<active, stage, claimedBy, killed, waiting, dominator, shutdown, restart,
                         connOpen, timers, ticks, plugins, exited>>
      BY <1>4 DEF Refuse, IsNext, exitVars
    <2>2. Head(inbox) # Finished
      BY <2>1 DEF Finished
    <2>3. \A q \in Requests : fate[q] = "posted" /\ q # r => fate'[q] = "posted"
      BY <2>1 DEF TypeOK
    <2>4. /\ inbox' \in Seq(Events) /\ InboxInv' /\ (CompletionPosted' <=> CompletionPosted)
          /\ r \in Requests /\ fate[r] = "posted"
      BY <2>1, <2>2, <2>3, TakeKeepsInbox
    <2> HIDE DEF r
    <2>5. TypeOK'
      <3>1. fate' \in [Requests -> Fates]
        BY <2>1, <2>4 DEF TypeOK, Fates
      <3> QED BY <2>1, <2>4, <3>1 DEF TypeOK
    <2>6. FateInv'
      BY <2>1, <2>4 DEF FateInv, TypeOK
    <2>7. StageInv' /\ SlotInv'
      BY <2>1, <2>4 DEF StageInv, SlotInv, WaitingBehindActive, ClaimMatchesDomination,
          AuthWaitsForCompletion
    <2> QED BY <2>4, <2>5, <2>6, <2>7
  <1>5. CASE WorkflowFinished
    <2> DEFINE fates == [r \in Requests |-> IF r = active THEN "finished" ELSE fate[r]]
    <2>1. /\ inbox # <<>> /\ Head(inbox).type = "finished" /\ Take
          /\ IF waiting # NoRequest THEN StartNewWorkflow(waiting, fates) ELSE ResetActive(fates)
          /\ waiting' = NoRequest
          /\ CompleteShutdown \/ UNCHANGED exitVars
          /\ UNCHANGED <<dominator, shutdown, restart, connOpen>>
      BY <1>5, Zenon DEF WorkflowFinished, IsNext
    <2>2. Head(inbox) = Finished /\ active # NoRequest
      <3>1. Head(inbox) \in Events /\ \E i \in DOMAIN inbox : inbox[i] = Head(inbox)
        BY <2>1, TailFacts DEF TypeOK
      <3>2. Head(inbox) = Finished
        BY <2>1, <3>1 DEF Events, Request, Finished, Restart, Exit
      <3> QED BY <3>1, <3>2 DEF StageInv, CompletionPosted
    <2>3. fates \in [Requests -> Fates] /\ \A q \in Requests : fate[q] = "posted" => fates[q] = "posted"
      BY DEF TypeOK, FateInv, Fates
    <2>4. fates[active] = "finished" /\ \A q \in Requests : q # active => fates[q] = fate[q]
      BY <2>2 DEF TypeOK
    <2> HIDE DEF fates
    <2>5. \A q \in Requests : fate[q] = "posted" => fate'[q] = "posted"
      BY <2>1, <2>3 DEF StartNewWorkflow, ResetActive, FateInv, TypeOK
    <2>6. inbox' \in Seq(Events) /\ InboxInv' /\ ~CompletionPosted'
      BY <2>1, <2>2, <2>5, TakeKeepsInbox
    <2>7. /\ timers' \in Nat /\ ticks' \in Nat /\ plugins' \in {"loaded", "deleting", "gone"}
          /\ exited' \in BOOLEAN
      BY <2>1, ShutdownTypes
    <2>8. CASE waiting = NoRequest
      <3>1. /\ active' = NoRequest /\ fate' = fates /\ stage' = "none" /\ claimedBy' = NoUi
            /\ killed' = FALSE
        BY <2>1, <2>8 DEF ResetActive
      <3>2. TypeOK'
        BY <2>1, <2>3, <2>6, <2>7, <3>1 DEF TypeOK, Stages
      <3>3. FateInv'
        BY <2>1, <2>2, <2>3, <2>4, <2>8, <3>1, RequestsAssumption DEF FateInv, TypeOK
      <3>4. StageInv' /\ SlotInv'
        BY <2>1, <2>6, <3>1 DEF StageInv, SlotInv, WaitingBehindActive, ClaimMatchesDomination,
            AuthWaitsForCompletion
      <3> QED BY <2>6, <3>2, <3>3, <3>4
    <2>9. CASE waiting # NoRequest
      <3>1. waiting \in Requests /\ StartNewWorkflow(waiting, fates) /\ waiting # active
        BY <2>1, <2>9 DEF TypeOK, FateInv
      <3>2. /\ active' = waiting /\ fate' = [fates EXCEPT ![waiting] = "active"]
            /\ fate' \in [Requests -> Fates]
            /\ stage' \in Stages /\ claimedBy' \in Uis \cup {NoUi} /\ killed' \in BOOLEAN
            /\ StageInv' /\ SlotInv'
        BY <2>1, <2>3, <2>6, <3>1, StartingKeepsSlots
      <3>3. TypeOK'
        BY <2>1, <2>6, <2>7, <3>1, <3>2 DEF TypeOK
      <3>4. FateInv'
        BY <2>1, <2>2, <2>3, <2>4, <3>1, <3>2, RequestsAssumption DEF FateInv, TypeOK
      <3> QED BY <2>6, <3>2, <3>3, <3>4
    <2> QED BY <2>8, <2>9
  <1>6. CASE ReachFinalState \/ ApproveFinalState
    <2>1. /\ stage \in {"running", "final"} /\ stage' \in {"final", "approved"}
          /\ stage = "final" => stage' = "approved"
          /\ UNCHANGED <<inbox, active, fate, claimedBy, killed, waiting, dominator, shutdown, restart,
                         connOpen, timers, ticks, plugins, exited>>
      BY <1>6 DEF ReachFinalState, ApproveFinalState, exitVars
    <2>2. InboxInv' /\ FateInv' /\ WaitingBehindActive' /\ (CompletionPosted' <=> CompletionPosted)
      BY <2>1, QuietStep
    <2>3. TypeOK'
      BY <2>1 DEF TypeOK, Stages
    <2>4. StageInv' /\ SlotInv'
      BY <2>1, <2>2 DEF StageInv, SlotInv, ClaimMatchesDomination, AuthWaitsForCompletion
    <2> QED BY <2>2, <2>3, <2>4
  <1>7. CASE CompleteWorkflow
    <2>1. /\ stage = "approved" /\ stage' = "complete" /\ Post(Finished)
          /\ UNCHANGED <<active, fate, claimedBy, killed, waiting, dominator, shutdown, restart,
                         connOpen, timers, ticks, plugins, exited>>
      BY <1>7 DEF CompleteWorkflow, exitVars
    <2>2. Finished \in Events /\ Finished.type # "request" /\ \A i \in DOMAIN inbox : inbox[i] # Finished
      BY <2>1 DEF Events, Finished, StageInv, CompletionPosted
    <2>3. inbox' \in Seq(Events) /\ InboxInv' /\ CompletionPosted'
      BY <2>1, <2>2, PostKeepsInbox
    <2>4. TypeOK'
      BY <2>1, <2>3 DEF TypeOK, Stages
    <2>5. FateInv' /\ StageInv' /\ SlotInv'
      BY <2>1, <2>3 DEF FateInv, StageInv, SlotInv, WaitingBehindActive, ClaimMatchesDomination,
          AuthWaitsForCompletion
    <2> QED BY <2>3, <2>4, <2>5
  <1>8. ASSUME NEW ui \in {"websocket", "proxy"}, RequestDomination(ui) PROVE IInv'
    <2>1. /\ dominator' = IF dominator = NoUi /\ active = NoRequest THEN ui ELSE dominator
          /\ UNCHANGED <<inbox, active, fate, stage, claimedBy, killed, waiting, shutdown, restart,
                         connOpen, timers, ticks, plugins, exited>>
      BY <1>8 DEF RequestDomination, CanStartNewWorkflow, workflowVars, exitVars
    <2>2. InboxInv' /\ FateInv' /\ WaitingBehindActive' /\ (CompletionPosted' <=> CompletionPosted)
      BY <2>1, QuietStep
    <2>3. TypeOK'
      BY <2>1 DEF TypeOK, Uis
    <2>4. StageInv' /\ SlotInv'
      BY <2>1, <2>2 DEF StageInv, SlotInv, ClaimMatchesDomination, AuthWaitsForCompletion
    <2> QED BY <2>2, <2>3, <2>4
  <1>9. CASE ClientDisconnected
    <2>1. /\ dominator = "websocket" /\ dominator' = NoUi
          /\ IF claimedBy = "websocket" THEN killed' = TRUE /\ stage' = Kill(stage)
                                        ELSE UNCHANGED <<killed, stage>>
          /\ UNCHANGED <<inbox, active, fate, claimedBy, waiting, shutdown, restart, connOpen, timers,
                         ticks, plugins, exited>>
      BY <1>9 DEF ClientDisconnected, exitVars
    <2>2. InboxInv' /\ FateInv' /\ WaitingBehindActive' /\ (CompletionPosted' <=> CompletionPosted)
      BY <2>1, QuietStep
    <2>3. /\ stage' \in Stages /\ (stage' = "none" <=> stage = "none")
          /\ (stage' = "complete" <=> stage = "complete")
          /\ stage \in {"approved", "complete"} => stage' = stage
          /\ (killed' = killed \/ killed' = TRUE)
      BY <2>1 DEF Kill, TypeOK, Stages
    <2>4. TypeOK'
      BY <2>1, <2>3 DEF TypeOK
    <2>5. ClaimMatchesDomination'
      BY <2>1, RequestsAssumption DEF SlotInv, ClaimMatchesDomination
    <2>6. StageInv' /\ AuthWaitsForCompletion'
      BY <2>1, <2>2, <2>3 DEF StageInv, SlotInv, AuthWaitsForCompletion
    <2> QED BY <2>2, <2>4, <2>5, <2>6 DEF SlotInv
  <1>10. CASE Quit
    <2>1. DoShutdown /\ UNCHANGED <<inbox, dominator, restart, connOpen>>
      BY <1>10 DEF Quit
    <2>2. CompletionPosted' <=> CompletionPosted
      BY <2>1 DEF CompletionPosted
    <2>3. /\ active' \in Requests \cup {NoRequest} /\ waiting' \in Requests \cup {NoRequest}
          /\ fate' \in [Requests -> Fates]
          /\ stage' \in Stages /\ claimedBy' \in Uis \cup {NoUi}
          /\ killed' \in BOOLEAN /\ shutdown' \in BOOLEAN
          /\ CompleteShutdown \/ UNCHANGED exitVars
          /\ \A r \in Requests : fate[r] = "posted" => fate'[r] = "posted"
          /\ FateInv' /\ StageInv' /\ SlotInv'
      BY <2>1, <2>2, ShutdownKeepsSlots
    <2>4. /\ timers' \in Nat /\ ticks' \in Nat /\ plugins' \in {"loaded", "deleting", "gone"}
          /\ exited' \in BOOLEAN
      BY <2>3, ShutdownTypes
    <2>5. InboxInv'
      BY <2>1, <2>3, SameInbox
    <2>6. TypeOK'
      BY <2>1, <2>3, <2>4 DEF TypeOK
    <2> QED BY <2>3, <2>5, <2>6
  <1>11. CASE RestartApplication
    <2>1. /\ inbox # <<>> /\ Head(inbox).type = "restart" /\ Take /\ restart' = TRUE
          /\ DoShutdown /\ UNCHANGED <<dominator, connOpen>>
      BY <1>11 DEF RestartApplication, IsNext
    <2>2. Head(inbox) # Finished /\ Head(inbox).type # "request"
      BY <2>1 DEF Finished
    <2>3. \A r \in Requests : fate[r] = "posted" => fate'[r] = "posted"
      BY <2>1 DEF DoShutdown, workflowVars, FateInv, TypeOK
    <2>4. inbox' \in Seq(Events) /\ InboxInv' /\ (CompletionPosted' <=> CompletionPosted)
      BY <2>1, <2>2, <2>3, TakeKeepsInbox
    <2>5. /\ active' \in Requests \cup {NoRequest} /\ waiting' \in Requests \cup {NoRequest}
          /\ fate' \in [Requests -> Fates]
          /\ stage' \in Stages /\ claimedBy' \in Uis \cup {NoUi}
          /\ killed' \in BOOLEAN /\ shutdown' \in BOOLEAN
          /\ CompleteShutdown \/ UNCHANGED exitVars
          /\ FateInv' /\ StageInv' /\ SlotInv'
      BY <2>1, <2>4, ShutdownKeepsSlots
    <2>6. /\ timers' \in Nat /\ ticks' \in Nat /\ plugins' \in {"loaded", "deleting", "gone"}
          /\ exited' \in BOOLEAN
      BY <2>5, ShutdownTypes
    <2>7. TypeOK'
      BY <2>1, <2>4, <2>5, <2>6 DEF TypeOK
    <2> QED BY <2>4, <2>5, <2>7
  <1>12. CASE RequestRestart \/ RemovePlugins
    <2>1. PICK e \in {Restart, Exit} : Post(e)
      BY <1>12 DEF RequestRestart, RemovePlugins
    <2>2. /\ UNCHANGED <<active, fate, stage, claimedBy, killed, waiting, dominator, shutdown, restart,
                         connOpen, timers, ticks, exited>>
          /\ plugins' \in {plugins, "gone"}
      BY <1>12 DEF RequestRestart, RemovePlugins, workflowVars, exitVars
    <2>3. e \in Events /\ e.type \notin {"request", "finished"} /\ e # Finished
      BY <2>1 DEF Events, Restart, Exit, Finished
    <2>4. inbox' \in Seq(Events) /\ InboxInv' /\ (CompletionPosted' <=> CompletionPosted)
      BY <2>1, <2>2, <2>3, PostKeepsInbox
    <2>5. TypeOK'
      BY <2>2, <2>4 DEF TypeOK
    <2>6. FateInv' /\ StageInv' /\ SlotInv'
      BY <2>2, <2>4 DEF FateInv, StageInv, SlotInv, WaitingBehindActive, ClaimMatchesDomination,
          AuthWaitsForCompletion
    <2> QED BY <2>4, <2>5, <2>6
  <1>13. CASE ExitApplication
    <2>1. /\ inbox # <<>> /\ Head(inbox).type = "exit" /\ Take /\ exited' = TRUE
          /\ UNCHANGED <<active, fate, stage, claimedBy, killed, waiting, dominator, shutdown, restart,
                         connOpen, timers, ticks, plugins>>
      BY <1>13 DEF ExitApplication, IsNext, workflowVars
    <2>2. Head(inbox) # Finished
      BY <2>1 DEF Finished
    <2>3. inbox' \in Seq(Events) /\ InboxInv' /\ (CompletionPosted' <=> CompletionPosted)
      BY <2>1, <2>2, TakeKeepsInbox
    <2>4. TypeOK'
      BY <2>1, <2>3 DEF TypeOK
    <2>5. FateInv' /\ StageInv' /\ SlotInv'
      BY <2>1, <2>3 DEF FateInv, StageInv, SlotInv, WaitingBehindActive, ClaimMatchesDomination,
          AuthWaitsForCompletion
    <2> QED BY <2>3, <2>4, <2>5
  <1>14. CASE NetworkTimer
    <2>1. /\ timers > 0 /\ ticks' \in {ticks, ticks + 1} /\ timers' \in {timers, timers - 1}
          /\ plugins' \in {plugins, "deleting"} /\ (exited' = exited \/ exited' = TRUE)
          /\ UNCHANGED <<inbox, active, fate, stage, claimedBy, killed, waiting, dominator, shutdown,
                         restart, connOpen>>
      BY <1>14, Zenon DEF NetworkTimer, UiShutdown, workflowVars
    <2>2. InboxInv' /\ FateInv' /\ WaitingBehindActive' /\ (CompletionPosted' <=> CompletionPosted)
      BY <2>1, QuietStep
    <2>3. timers' \in Nat /\ ticks' \in Nat
      BY <2>1 DEF TypeOK
    <2>4. TypeOK'
      BY <2>1, <2>3 DEF TypeOK
    <2>5. StageInv' /\ SlotInv'
      BY <2>1, <2>2 DEF StageInv, SlotInv, ClaimMatchesDomination, AuthWaitsForCompletion
    <2> QED BY <2>2, <2>4, <2>5
  <1>15. CASE OpenConnection \/ CloseConnection
    <2>1. /\ connOpen' \in BOOLEAN
          /\ UNCHANGED <<inbox, active, fate, stage, claimedBy, killed, waiting, dominator, shutdown,
                         restart, timers, ticks, plugins, exited>>
      BY <1>15 DEF OpenConnection, CloseConnection, workflowVars, exitVars
    <2>2. InboxInv' /\ FateInv' /\ WaitingBehindActive' /\ (CompletionPosted' <=> CompletionPosted)
      BY <2>1, QuietStep
    <2>3. TypeOK' /\ StageInv' /\ SlotInv'
      BY <2>1, <2>2 DEF TypeOK, StageInv, SlotInv, ClaimMatchesDomination, AuthWaitsForCompletion
    <2> QED BY <2>2, <2>3
  <1>16. CASE UNCHANGED vars
    <2>1. UNCHANGED <<inbox, active, fate, stage, claimedBy, killed, waiting, dominator, shutdown,
                      restart, connOpen, timers, ticks, plugins, exited>>
      BY <1>16 DEF vars, workflowVars, exitVars
    <2> QED BY <2>1 DEF TypeOK, InboxInv, FateInv, StageInv, SlotInv, CompletionPosted,
              WaitingBehindActive, ClaimMatchesDomination, AuthWaitsForCompletion
  <1> QED BY <1>1, <1>2, <1>3, <1>4, <1>5, <1>6, <1>7, <1>8, <1>9, <1>10, <1>11, <1>12, <1>13,
            <1>14, <1>15, <1>16 DEF Next, EventLoop, Terminated

(* The inductive invariant holds in every reachable state. *)
THEOREM Invariance == Spec => []IInv
  BY InitInv, StepInv, PTL DEF Spec

-----------------------------------------------------------------------------
(* Types are kept: no event of another kind gets into the queue and no     *)
(* request into a slot it does not fit.                                    *)
THEOREM TypeCorrect == Spec => []TypeOK
  BY Invariance, PTL DEF IInv

(* No request waits without a workflow whose end starts it.                *)
THEOREM WaitingIsBehindActive == Spec => []WaitingBehindActive
  BY Invariance, PTL DEF IInv, SlotInv

(* A queued authentication waits for a workflow that is approved.          *)
THEOREM AuthenticationWaitsForCompletion == Spec => []AuthWaitsForCompletion
  BY Invariance, PTL DEF IInv, SlotInv

(* Claims follow the domination of the user interface.                     *)
THEOREM ClaimsMatchDomination == Spec => []ClaimMatchesDomination
  BY Invariance, PTL DEF IInv, SlotInv

(* Every fireComplete is delivered once, to the workflow that posted it    *)
(* (the assertion at the head of onWorkflowFinished).                      *)
THEOREM CompletionsMatch == Spec => []CompletionIsForActive
  <1>1. IInv => CompletionIsForActive
    BY DEF IInv, InboxInv, StageInv, CompletionPosted, CompletionIsForActive, FinishedEvents, Finished
  <1> QED BY <1>1, Invariance, PTL

(* What happens to the waiting slot in one step.                           *)
LEMMA WaitingStep ==
    [Next]_vars => [waiting # NoRequest /\ waiting' # waiting =>
                        /\ waiting' = NoRequest
                        /\ active' = waiting \/ (shutdown' /\ ~shutdown)]_vars
  <1> SUFFICES ASSUME [Next]_vars, waiting # NoRequest, waiting' # waiting
               PROVE  waiting' = NoRequest /\ (active' = waiting \/ (shutdown' /\ ~shutdown))
    OBVIOUS
  <1>1. CASE Enqueue
    BY <1>1 DEF Enqueue, MayEnqueue
  <1>2. CASE WorkflowFinished
    BY <1>2 DEF WorkflowFinished, StartNewWorkflow
  <1>3. CASE Quit \/ RestartApplication
    BY <1>3 DEF Quit, RestartApplication, DoShutdown
  <1>4. ~UNCHANGED vars
    BY DEF vars
  <1>5. CASE \E r \in Requests : RequestWorkflow(r)
    BY <1>5 DEF RequestWorkflow
  <1>6. CASE \E ui \in {"websocket", "proxy"} : RequestDomination(ui)
    BY <1>6 DEF RequestDomination
  <1>7. CASE StartRequested \/ Refuse \/ ExitApplication \/ RemovePlugins \/ RequestRestart
    BY <1>7 DEF StartRequested, Refuse, ExitApplication, RemovePlugins, RequestRestart
  <1>8. CASE ReachFinalState \/ ApproveFinalState \/ CompleteWorkflow \/ ClientDisconnected
    BY <1>8 DEF ReachFinalState, ApproveFinalState, CompleteWorkflow, ClientDisconnected
  <1>9. CASE NetworkTimer \/ OpenConnection \/ CloseConnection
    BY <1>9 DEF NetworkTimer, OpenConnection, CloseConnection
  <1> QED BY <1>1, <1>2, <1>3, <1>4, <1>5, <1>6, <1>7, <1>8, <1>9 DEF Next, EventLoop, Terminated

(* The waiting request is never overtaken or replaced.                     *)
THEOREM WaitingIsNext == Spec => WaitingRunsNext
  BY WaitingStep, PTL DEF Spec, WaitingRunsNext

-----------------------------------------------------------------------------
(* Refinement of WorkflowSlots. *)

(* The fates tell which slots are taken. *)
LEMMA SlotsAreTaken ==
    ASSUME IInv
    PROVE  /\ Slots!Running = {} <=> active = NoRequest
           /\ waiting = NoRequest => Slots!Queued = {}
           /\ \A r \in Requests : r \in Slots!Queued <=> r = waiting
  <1>1. \A r \in Requests : /\ r \in Slots!Running <=> r = active
                            /\ r \in Slots!Queued <=> r = waiting
    BY DEF IInv, FateInv, Slots!Running, Slots!Queued
  <1>2. Slots!Running \subseteq Requests /\ Slots!Queued \subseteq Requests
    BY DEF Slots!Running, Slots!Queued
  <1>3. active \in Requests \cup {NoRequest}
    BY DEF IInv, TypeOK
  <1> QED BY <1>1, <1>2, <1>3, RequestsAssumption

(* A request event names a request that has been posted. *)
LEMMA HeadIsPosted ==
    ASSUME IInv, inbox # <<>>, Head(inbox).type = "request"
    PROVE  Head(inbox).req \in Requests /\ fate[Head(inbox).req] = "posted"
  <1>1. Head(inbox) \in Events /\ 1 \in DOMAIN inbox /\ inbox[1] = Head(inbox)
    BY TailFacts DEF IInv, TypeOK
  <1> QED BY <1>1, RequestEvents DEF IInv, InboxInv

LEMMA SlotsStep == IInv /\ [Next]_vars => [Slots!Next]_fate
  <1> SUFFICES ASSUME IInv, [Next]_vars, fate' # fate PROVE Slots!Next
    BY DEF Slots!Next
  <1> USE DEF Slots!Next, Slots!Become
  <1>a. fate \in [Requests -> Fates]
    BY DEF IInv, TypeOK
  <1>1. CASE \E r \in Requests : RequestWorkflow(r)
    BY <1>1 DEF RequestWorkflow, Slots!Ask
  <1>2. CASE StartRequested
    <2> DEFINE r == Head(inbox).req
    <2>1. r \in Requests /\ fate[r] = "posted"
      BY <1>2, HeadIsPosted DEF StartRequested, IsNext
    <2>2. active = NoRequest /\ fate' = [fate EXCEPT ![r] = "active"]
      BY <1>2 DEF StartRequested, CanStartNewWorkflow, StartNewWorkflow
    <2>3. Slots!Start(r)
      BY <2>1, <2>2, SlotsAreTaken DEF Slots!Start
    <2> QED BY <2>1, <2>3
  <1>3. CASE Enqueue
    <2> DEFINE r == Head(inbox).req
    <2>1. r \in Requests /\ fate[r] = "posted"
      BY <1>3, HeadIsPosted DEF Enqueue, IsNext
    <2>2. active # NoRequest /\ waiting = NoRequest /\ fate' = [fate EXCEPT ![r] = "waiting"]
      BY <1>3 DEF Enqueue, CanStartNewWorkflow, MayEnqueue
    <2>3. Slots!Wait(r)
      BY <2>1, <2>2, SlotsAreTaken DEF Slots!Wait
    <2> QED BY <2>1, <2>3
  <1>4. CASE Refuse
    <2> DEFINE r == Head(inbox).req
    <2>1. r \in Requests /\ fate[r] = "posted"
      BY <1>4, HeadIsPosted DEF Refuse, IsNext
    <2>2. active # NoRequest /\ fate' = [fate EXCEPT ![r] = "unhandled"]
      BY <1>4 DEF Refuse, CanStartNewWorkflow
    <2>3. Slots!Reject(r)
      BY <2>1, <2>2, SlotsAreTaken DEF Slots!Reject
    <2> QED BY <2>1, <2>3
  <1>5. CASE WorkflowFinished
    <2> DEFINE fates == [r \in Requests |-> IF r = active THEN "finished" ELSE fate[r]]
    <2>1. IF waiting # NoRequest THEN fate' = [fates EXCEPT ![waiting] = "active"] ELSE fate' = fates
      BY <1>5 DEF WorkflowFinished, StartNewWorkflow, ResetActive
    <2>2. active \in Requests
      <3>1. waiting = NoRequest \/ active # NoRequest
        BY DEF IInv, SlotInv, WaitingBehindActive
      <3>2. active = NoRequest => fates = fate
        BY <1>a, RequestsAssumption
      <3> QED BY <2>1, <3>1, <3>2 DEF IInv, TypeOK
    <2>3. fate[active] = "active" /\ waiting # active
      BY <2>2 DEF IInv, FateInv
    <2>4. fate' = [q \in Requests |-> CASE q = active          -> "finished"
                                         [] q \in Slots!Queued -> "active"
                                         [] OTHER               -> fate[q]]
      BY <1>a, <2>1, <2>2, <2>3, SlotsAreTaken
    <2>5. Slots!Finish(active)
      BY <2>3, <2>4 DEF Slots!Finish
    <2> QED BY <2>2, <2>5
  <1>6. CASE Quit \/ RestartApplication
    <2>1. fate' = [r \in Requests |-> IF r = waiting THEN "dropped" ELSE fate[r]]
      BY <1>6 DEF Quit, RestartApplication, DoShutdown, workflowVars
    <2>2. waiting \in Requests
      BY <1>a, <2>1, RequestsAssumption DEF IInv, TypeOK
    <2>3. fate[waiting] = "waiting" /\ fate' = [fate EXCEPT ![waiting] = "dropped"]
      BY <1>a, <2>1, <2>2 DEF IInv, FateInv
    <2>4. Slots!Drop(waiting)
      BY <2>3 DEF Slots!Drop
    <2> QED BY <2>2, <2>4
  <1>7. ~UNCHANGED vars
    BY DEF vars, workflowVars
  <1>8. ~(ReachFinalState \/ ApproveFinalState \/ CompleteWorkflow \/ ClientDisconnected)
    BY DEF ReachFinalState, ApproveFinalState, CompleteWorkflow, ClientDisconnected
  <1>9. ~(RequestRestart \/ ExitApplication \/ RemovePlugins \/ NetworkTimer)
    BY DEF RequestRestart, ExitApplication, RemovePlugins, NetworkTimer, workflowVars
  <1>10. ~(OpenConnection \/ CloseConnection \/ \E ui \in {"websocket", "proxy"} : RequestDomination(ui))
    BY DEF OpenConnection, CloseConnection, RequestDomination, workflowVars
  <1> QED BY <1>1, <1>2, <1>3, <1>4, <1>5, <1>6, <1>7, <1>8, <1>9, <1>10 DEF Next, EventLoop, Terminated

(* The controller implements the two slots: each request is answered once, *)
(* one workflow runs, one request waits, and the end of the workflow is    *)
(* the start of the one that waits.                                        *)
THEOREM Refinement == Spec => ImplementsSlots
  <1>1. Init => Slots!Init
    BY DEF Init, Slots!Init
  <1>2. QED BY <1>1, SlotsStep, Invariance, PTL DEF Spec, ImplementsSlots, Slots!Spec
=============================================================================
