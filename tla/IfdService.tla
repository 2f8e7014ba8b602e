----------------------------- MODULE IfdService -----------------------------
(***************************************************************************)
(* The remote reader service: this device lends its card readers to a      *)
(* client over a web socket.  Modelled are the message handler of the      *)
(* client, the workflow that asks the user for passwords, the life of the  *)
(* card connections, and the thread of the ReaderManager.                  *)
(*                                                                         *)
(* The main thread handles what is posted to it in order (m.events): runs  *)
(* of states, messages of the client, results of the worker thread.  The   *)
(* worker thread handles card commands in order (m.cmds).  A card          *)
(* connection is a CardConnectionWorker that lives on the worker thread    *)
(* and dies when the last reference to it is gone: its destructor releases *)
(* the card that is in the reader by then.                                 *)
(*                                                                         *)
(* Scope: basic readers, pin pad mode, a client that has established its   *)
(* context; status messages, display texts and pairing are left out; one   *)
(* kind of PACE password stands for PIN, CAN and PUK.                      *)
(***************************************************************************)
EXTENDS Integers, Sequences, FiniteSets, SequencesExt

CONSTANTS
    Readers,      \* names of the readers
    CardOps,      \* card commands of a client: "transmit", "destroy" or both
    Bounds        \* bounds of the runs: messages the clients send, clients that connect one
                  \* after the other, events of the main thread that a message queues behind,
                  \* removals of a card, passwords the user enters

ASSUME IfdServiceAssumption ==
    /\ CardOps \subseteq {"transmit", "destroy"}
    /\ Bounds \subseteq [messages : Nat, clients : Nat, queue : Nat, swaps : Nat, entries : Nat]

VARIABLES
    m,       \* main thread: current state and its approval, both queues
    ctx,     \* IfdServiceContext
    h,       \* ServerMessageHandlerImpl of the connected client
    create,  \* CreateCardConnectionCommands that exist
    dev,     \* worker thread: card of each reader, CardConnectionWorkers
    due,     \* history: requests of this client not answered yet, per type
    left     \* what is left of the bounds

vars == <<m, ctx, h, create, dev, due, left>>

(* Signals of the states and the states they lead to (IfdServiceController). *)
Edges ==
    [Start         |-> [continue |-> "Process", abort |-> "Stop"],
     Process       |-> [continue |-> "ClearStop", abort |-> "ClearStop", pace |-> "UpdateRetry",
                        modify |-> "PrepareChange", smStopped |-> "Clear"],
     UpdateRetry   |-> [continue |-> "Verify", abort |-> "PaceResponse", noCard |-> "PaceResponse"],
     Verify        |-> [continue |-> "PreparePace", abort |-> "PaceResponse",
                        noCard |-> "PaceResponse", changed |-> "ClearNew"],
     ClearNew      |-> [continue |-> "PreparePace", abort |-> "PreparePace"],
     PreparePace   |-> [continue |-> "Establish", abort |-> "PaceResponse",
                        enter |-> "EnterPassword"],
     EnterPassword |-> [continue |-> "Establish", abort |-> "PaceResponse"],
     Establish     |-> [continue |-> "PaceResponse", abort |-> "PaceResponse"],
     PaceResponse  |-> [continue |-> "Process", abort |-> "Process", wrong |-> "Clear"],
     PrepareChange |-> [continue |-> "ChangePin", abort |-> "ChangePin", enter |-> "EnterNewPin"],
     EnterNewPin   |-> [continue |-> "ChangePin", abort |-> "ChangeResponse"],
     ChangePin     |-> [continue |-> "ChangeResponse", abort |-> "ChangeResponse"],
     ChangeResponse |-> [continue |-> "Process", abort |-> "Process", modified |-> "Clear"],
     Clear         |-> [continue |-> "Process", abort |-> "Process"],
     ClearStop     |-> [continue |-> "Stop", abort |-> "Stop"],
     Stop          |-> [continue |-> "Final", abort |-> "Final"],
     Final         |-> [continue |-> "stopped"]]

States  == DOMAIN Edges
Waiting == {"EnterPassword", "EnterNewPin"}
Target(cur, st, sig) == IF cur = st /\ sig \in DOMAIN Edges[st] THEN Edges[st][sig] ELSE "ignored"

-----------------------------------------------------------------------------
(* Values.  Clients, handles, workers and commands are numbered; 0 is none. *)

None     == 0
Nobody   == -1      \* who a password is for that is entered while no client is connected
NoReader == "none"
Numbers  == Nat \ {None}
Outputs == {"unset", "OK", "wrong", "lost", "cancelled"}
Results == {"OK", "wrong", "lost"}
Requests == CardOps \cup {"disconnect", "pace", "modify"}

Run(st)    == [type |-> "run", st |-> st]
Cancel(st) == [type |-> "cancel", st |-> st]
Message(what, arg) == [type |-> "message", what |-> what, arg |-> arg]
NoHandler == [client |-> None, slots |-> <<>>, handles |-> 0]
NoneDue   == [q \in Requests |-> 0]
(* What the worker thread is given; the result is for a state or a client. *)
Command(op, w, to, arg) ==
    [op |-> op, worker |-> w, to |-> to, client |-> h.client, arg |-> arg, wired |-> TRUE]
Sync       == Command("sync", None, "none", None)
Delete(w)  == Command("delete", w, "none", None)
Make(r)    == Command("make", None, "none", r)

TypeOK ==
    /\ m.cur \in States \cup {"none", "stopped", "crashed"}
    /\ m.approved \in BOOLEAN /\ m.blocked \in BOOLEAN /\ m.watching \in BOOLEAN
    /\ m.listening \in Nat /\ m.resetOnDisconnect \in BOOLEAN
    /\ m.asker \in Nat /\ m.hasEid \in [Readers -> BOOLEAN]
    /\ \A i \in DOMAIN m.events : m.events[i].type \in
           {"run", "cancel", "message", "closed", "client", "execute", "made", "drop", "done", "reader"}
    /\ \A i \in DOMAIN m.cmds : m.cmds[i].op \in
           CardOps \cup {"make", "update", "pace", "set", "sync", "delete"}
    /\ ctx \in [pin : {Nobody} \cup Nat, newPin : {Nobody} \cup Nat, slot : Nat,
                change : Nat, conn : Nat, pace : Outputs,
                changed : Outputs, named : {NoReader} \cup Readers, cancelled : BOOLEAN,
                inState : BOOLEAN, killed : BOOLEAN]
    /\ h.client \in Nat /\ h.handles \in Nat
    /\ DOMAIN h.slots \subseteq Numbers /\ \A s \in DOMAIN h.slots : h.slots[s] \in Numbers
    /\ \A c \in create : c \in [id : Numbers, reader : Readers, to : Numbers,
                                worker : Nat, listening : BOOLEAN]
    /\ \A r \in Readers : dev.card[r] \in [present : BOOLEAN, linked : BOOLEAN]
    /\ DOMAIN dev.workers \subseteq Numbers /\ Range(dev.workers) \subseteq Readers
    /\ DOMAIN due = Requests /\ \A q \in Requests : due[q] \in Int

Init ==
    /\ m = [cur |-> "none", approved |-> FALSE, blocked |-> FALSE, events |-> <<>>, cmds |-> <<>>,
            listening |-> None, watching |-> FALSE, resetOnDisconnect |-> FALSE, asker |-> None,
            hasEid |-> [r \in Readers |-> TRUE]]
    /\ ctx = [pin |-> None, newPin |-> None, slot |-> None, change |-> None, conn |-> None,
              pace |-> "unset", changed |-> "unset", named |-> NoReader, cancelled |-> FALSE,
              inState |-> FALSE, killed |-> FALSE]
    /\ h = NoHandler
    /\ create = {}
    /\ dev = [card |-> [r \in Readers |-> [present |-> TRUE, linked |-> FALSE]],
              workers |-> <<>>]
    /\ due = NoneDue
    /\ left \in Bounds

-----------------------------------------------------------------------------
(* References to card connections. *)

Held(w, mm, c, hh, cs) ==
    \/ c.conn = w
    \/ \E s \in DOMAIN hh.slots : hh.slots[s] = w
    \/ \E x \in cs : x.worker = w
    \/ \E i \in DOMAIN mm.cmds : mm.cmds[i].worker = w
    \/ \E i \in DOMAIN mm.events : mm.events[i].type \in {"made", "done"} /\ mm.events[i].worker = w

(* A worker without references is deleted by the event loop of its thread. *)
Reap(mm, c, hh, cs) ==
    LET lost == {w \in DOMAIN dev.workers : ~Held(w, mm, c, hh, cs)}
    IN  [mm EXCEPT !.cmds = @ \o SetToSeq({Delete(w) : w \in lost})]

(* The end of a step of the main thread. *)
Become(mm, c, hh, cs) ==
    m' = Reap(mm, c, hh, cs) /\ ctx' = c /\ h' = hh /\ create' = cs
BecomeM(mm, c) == Become(mm, c, h, create)

(* The elements of a queue that are in a set. *)
Only(q, T) ==
    LET kept[n \in 0..Len(q)] ==
            IF n = 0          THEN <<>>
            ELSE IF q[n] \in T THEN Append(kept[n - 1], q[n])
            ELSE kept[n - 1]
    IN  kept[Len(q)]

(* A function with one more value. *)
With(f, x, v) == [y \in DOMAIN f \cup {x} |-> IF y = x THEN v ELSE f[y]]

Post(mm, e) == [mm EXCEPT !.events = Append(@, e)]
Send(mm, cmd) == [mm EXCEPT !.cmds = Append(@, cmd)]
(* A blocking call: the main thread waits for the worker thread to reach it. *)
Block(mm) == [Send(mm, Sync) EXCEPT !.blocked = TRUE]

-----------------------------------------------------------------------------
(* AbstractState and the state machine. *)

(* onExit cuts the connections of the state, also those for command results. *)
Disconnected(cmds, st) ==
    [i \in DOMAIN cmds |-> [cmds[i] EXCEPT !.wired = @ /\ cmds[i].to # st]]

Exit(mm) ==
    [mm EXCEPT !.approved = FALSE, !.asker = None,
               !.listening = IF mm.cur = "Process" THEN None ELSE @,
               !.watching = @ /\ mm.cur # "Process",
               !.cmds = Disconnected(@, mm.cur)]

(* onEntry: the UI approves every state it does not wait in; one that      *)
(* waits for the user also waits for the end of its client.                *)
Enter(mm, c, st) ==
    LET approved == st \notin Waiting \/ c.killed
        runs     == IF approved THEN <<Run(st)>> ELSE <<>>
        cancels  == IF c.cancelled /\ ~c.inState THEN <<Cancel(st)>> ELSE <<>>
    IN  [mm EXCEPT !.cur = st, !.approved = approved, !.events = @ \o runs \o cancels,
                   !.asker = IF st \in Waiting THEN h.client ELSE None]

Fire(mm, c, st, sig) ==
    LET to == Target(mm.cur, st, sig)
    IN  CASE to = "ignored" -> mm
          [] to = "stopped" -> [Exit(mm) EXCEPT !.cur = "stopped"]
          [] OTHER          -> Enter(Exit(mm), c, to)

Event == Head(m.events)
Rest  == [m EXCEPT !.events = Tail(@)]
MainThread == ~m.blocked /\ m.cur \notin {"stopped", "crashed"}
Handles(type) == MainThread /\ m.events # <<>> /\ Event.type = type
Runs(st)      == Handles("run") /\ Event.st = st
Gets(what)    == Handles("message") /\ Event.what = what
(* A command is done; its result is for a state or for the client. *)
Done(op) == Handles("done") /\ Event.op = op
Frame    == UNCHANGED <<dev, left>>

ClearPasswords(c) == [c EXCEPT !.pin = None, !.newPin = None]

(* Variant with a bug: the passwords survive the client. *)
ResetKeepingPasswords(c) ==
    [c EXCEPT !.conn = None, !.slot = None, !.pace = "unset", !.change = None]
(* IfdServiceContext::reset ... *)
Reset(c) ==
    [ClearPasswords(c) EXCEPT !.conn = None, !.slot = None, !.pace = "unset", !.change = None]
(* ... which waits for the worker thread if a reader was ever used. *)
AfterReset(mm, c) == IF c.named = NoReader THEN mm ELSE Block(mm)
(* Variant: the connection is set to no number of one. *)
DropToNobody(c) == [c EXCEPT !.conn = Nobody]
DropConnection(c) == [c EXCEPT !.conn = None]

-----------------------------------------------------------------------------
(* run() of the states of the workflow. *)

(* StateStartIfdService, StateStopIfdService and FinalState. *)
RunStart ==
    /\ Runs("Start")
    /\ \E sig \in {"continue", "abort"} : BecomeM(Fire(Rest, ctx, "Start", sig), ctx)
    /\ Frame /\ UNCHANGED due

(* onExit of StateStopIfdService closes the server; its handler is gone    *)
(* and hears nothing any more.                                             *)
StopServer(mm, c) ==
    IF mm.cur # "Final" THEN Become(mm, c, h, create)
    ELSE LET cc    == IF mm.listening # None THEN Reset(c) ELSE c
             Unheard(e) == e.type \in {"message", "closed", "client"}
         IN  Become([mm EXCEPT !.listening = None,
                               !.events = Only(@, {e \in Range(@) : ~Unheard(e)})],
                    cc, NoHandler, create)

RunStop ==
    /\ Runs("Stop")
    /\ StopServer(Fire(Rest, ctx, "Stop", "continue"), ctx)
    /\ Frame /\ UNCHANGED due

RunFinal ==
    /\ Runs("Final")
    /\ BecomeM(Fire(Rest, ctx, "Final", "continue"), ctx)
    /\ Frame /\ UNCHANGED due

(* StateProcessIfdMessages connects to the handler there is and to the     *)
(* server, for those to come; without a handler the context is reset.      *)
RunProcess ==
    /\ Runs("Process")
    /\ LET mm == [Rest EXCEPT !.watching = TRUE, !.listening = h.client]
       IN  IF h.client # None THEN BecomeM(mm, ctx) ELSE BecomeM(AfterReset(mm, ctx), Reset(ctx))
    /\ Frame /\ UNCHANGED due

RunUpdateRetry ==
    /\ Runs("UpdateRetry")
    /\ BecomeM(IF ctx.conn = None THEN Fire(Rest, ctx, "UpdateRetry", "noCard")
               ELSE Send(Rest, Command("update", ctx.conn, "UpdateRetry", None)), ctx)
    /\ Frame /\ UNCHANGED due

(* The reader and the retry counter are the remembered ones or not. *)
RunVerify ==
    /\ Runs("Verify")
    /\ \E sig \in IF ctx.conn = None THEN {"noCard"} ELSE {"continue", "changed"} :
           BecomeM(Fire(Rest, ctx, "Verify", sig), ctx)
    /\ Frame /\ UNCHANGED due

(* StateClearPacePasswords in its three places. *)
RunClear ==
    /\ \E st \in {"ClearNew", "Clear", "ClearStop"} :
           /\ Runs(st)
           /\ BecomeM(Fire(Rest, ctx, st, "continue"), ClearPasswords(ctx))
    /\ Frame /\ UNCHANGED due

(* The type of the password is unknown after a reset. *)
RunPreparePace ==
    /\ Runs("PreparePace")
    /\ BecomeM(Fire(Rest, ctx, "PreparePace", IF ctx.slot = None     THEN "abort"
                                             ELSE IF ctx.pin = None THEN "enter"
                                             ELSE "continue"), ctx)
    /\ Frame /\ UNCHANGED due

RunPrepareChange ==
    /\ Runs("PrepareChange")
    /\ BecomeM(Fire(Rest, ctx, "PrepareChange", IF ctx.newPin = None THEN "enter" ELSE "continue"),
               ctx)
    /\ Frame /\ UNCHANGED due

RunEnter ==
    /\ \E st \in Waiting : Runs(st) /\ BecomeM(Fire(Rest, ctx, st, "continue"), ctx)
    /\ Frame /\ UNCHANGED due

RunEstablish ==
    /\ Runs("Establish")
    /\ IF ctx.conn = None
       THEN LET c == [ctx EXCEPT !.pace = "lost"]
            IN  BecomeM(Fire(Rest, c, "Establish", "continue"), c)
       ELSE BecomeM(Send(Rest, Command("pace", ctx.conn, "Establish", None)), ctx)
    /\ Frame /\ UNCHANGED due

RunChangePin ==
    /\ Runs("ChangePin")
    /\ IF ctx.conn = None
       THEN LET c == [ctx EXCEPT !.changed = "lost"]
            IN  BecomeM(Fire(Rest, c, "ChangePin", "continue"), c)
       ELSE BecomeM(Send(Rest, Command("set", ctx.conn, "ChangePin", None)), ctx)
    /\ Frame /\ UNCHANGED due

(* An answer goes to the client there is. *)
Answer(q) == due' = [due EXCEPT ![q] = IF h.client = None THEN @ ELSE @ - 1]

RunPaceResponse ==
    /\ Runs("PaceResponse")
    /\ LET c == [ctx EXCEPT !.slot = None, !.pace = "unset"]
       IN  BecomeM(Fire(Rest, c, "PaceResponse", IF ctx.pace = "wrong" THEN "wrong" ELSE "continue"),
                   c)
    /\ Answer("pace") /\ Frame

(* The message is dereferenced if there is a client to answer to. *)
RunChangeResponse ==
    /\ Runs("ChangeResponse")
    /\ IF h.client # None /\ ctx.change = None
       THEN m' = [Rest EXCEPT !.cur = "crashed"] /\ UNCHANGED <<ctx, h, create, due>>
       ELSE /\ BecomeM(Fire(Rest, ctx, "ChangeResponse",
                            IF ctx.changed = "OK" THEN "modified" ELSE "continue"), ctx)
            /\ Answer("modify")
    /\ Frame

(* onUserCancelled of the current state. *)
OnUserCancelled(mm, c, st) ==
    LET cc == [c EXCEPT !.inState = TRUE] IN StopServer(Fire(mm, cc, st, "abort"), cc)

RunCancelled ==
    /\ Handles("cancel")
    /\ OnUserCancelled(Rest, ctx, Event.st)
    /\ Frame /\ UNCHANGED due

-----------------------------------------------------------------------------
(* ServerMessageHandlerImpl: messages of the client. *)

Connected(r) == \E s \in DOMAIN h.slots : dev.workers[h.slots[s]] = r
Fresh(used)  == CHOOSE i \in 1..(Cardinality(used) + 1) : i \notin used

HandleConnect ==
    /\ Gets("connect")
    /\ LET r  == Event.arg
           id == Fresh({c.id : c \in create})
       IN  IF ~m.hasEid[r] \/ Connected(r) THEN BecomeM(Rest, ctx)
           ELSE Become(Post(Rest, [type |-> "execute", id |-> id]), ctx, h,
                       create \cup {[id |-> id, reader |-> r, to |-> h.client, worker |-> None,
                                     listening |-> FALSE]})
    /\ Frame /\ UNCHANGED due

(* Disconnect, Transmit and DestroyPaceChannel are commands of the card. *)
HandleCardRequest ==
    /\ \E q \in CardOps \cup {"disconnect"} :
        /\ Gets(q)
        /\ LET s  == Event.arg
               op == IF q = "disconnect" THEN "update" ELSE q
           IN  IF s \notin DOMAIN h.slots THEN BecomeM(Rest, ctx) /\ Answer(q)
               ELSE BecomeM(Send(Rest, Command(op, h.slots[s], "client", s)), ctx) /\ UNCHANGED due
    /\ Frame

(* EstablishPaceChannel and ModifyPin are emitted to the workflow, which   *)
(* hears them while it listens.                                            *)
HandleWorkflowRequest ==
    /\ \E q \in {"pace", "modify"} :
        /\ Gets(q)
        /\ LET s == Event.arg
               w == h.slots[s]
               c == [ctx EXCEPT !.conn = w, !.named = dev.workers[w]]
               cc == IF q = "pace" THEN [c EXCEPT !.slot = s, !.pace = "unset"]
                     ELSE [c EXCEPT !.change = s, !.changed = "unset"]
               mm == [Rest EXCEPT !.resetOnDisconnect = @ \/ q = "pace"]
           IN  CASE s \notin DOMAIN h.slots -> BecomeM(Rest, ctx) /\ Answer(q)
                 [] s \in DOMAIN h.slots /\ m.listening # h.client ->
                        BecomeM(Rest, ctx) /\ UNCHANGED due
                 [] OTHER -> BecomeM(Fire(mm, cc, "Process", q), cc) /\ UNCHANGED due
    /\ Frame

-----------------------------------------------------------------------------
(* CreateCardConnectionCommand. *)

(* execute(): it listens to all the workers that are created from now on. *)
ExecuteCreate ==
    /\ Handles("execute")
    /\ \E c \in create :
        /\ c.id = Event.id
        /\ Become(Send(Rest, Make(c.reader)), ctx, h,
                  (create \ {c}) \cup {[c EXCEPT !.listening = TRUE]})
    /\ Frame /\ UNCHANGED due

Without(events, c) ==
    Only(events, {e \in Range(events) : ~(e.type \in {"made", "drop"} /\ e.id = c.id)})

(* onCardConnectionWorkerCreated.  A new CardConnection asks the worker    *)
(* for its reader info.  The command deletes itself later; a worker        *)
(* announced before that is taken, too.  onCreateCardConnectionCommandDone *)
(* gives the connection a handle.                                          *)
WorkerCreated ==
    /\ Handles("made")
    /\ \E c \in create :
        /\ c.id = Event.id
        /\ LET w  == IF Event.worker = None THEN c.worker ELSE Event.worker
               cs == (create \ {c}) \cup {[c EXCEPT !.worker = w]}
               m1 == IF Event.worker = None THEN Rest ELSE Block(Rest)
               m2 == IF \E i \in DOMAIN m1.events : m1.events[i] = [type |-> "drop", id |-> c.id]
                     THEN m1 ELSE Post(m1, [type |-> "drop", id |-> c.id])
               n  == h.handles + 1
           IN  IF w = None \/ c.to # h.client THEN Become(m2, ctx, h, cs)
               ELSE Become([m2 EXCEPT !.resetOnDisconnect = @ /\ m.listening # h.client], ctx,
                           [h EXCEPT !.handles = n, !.slots = With(@, n, w)], cs)
    /\ Frame /\ UNCHANGED due

CommandDeleted ==
    /\ Handles("drop")
    /\ \E c \in create : c.id = Event.id
                         /\ Become([Rest EXCEPT !.events = Without(@, c)], ctx, h, create \ {c})
    /\ Frame /\ UNCHANGED due

-----------------------------------------------------------------------------
(* Results of card commands. *)

RemoveSlot(hh, s) == [hh EXCEPT !.slots = [x \in DOMAIN @ \ {s} |-> @[x]]]

(* onUpdateRetryCounterDone of the handler: the card is disconnected. *)
DisconnectDone ==
    /\ Done("update") /\ Event.to = "client"
    /\ IF Event.client # h.client THEN BecomeM(Rest, ctx) /\ UNCHANGED due
       ELSE LET hh == RemoveSlot(h, Event.arg)
            IN  /\ IF m.listening = h.client /\ m.resetOnDisconnect
                   THEN Become(AfterReset(Rest, ctx), Reset(ctx), hh, create)
                   ELSE Become(Rest, ctx, hh, create)
                /\ Answer("disconnect")
    /\ Frame

(* Variant: a result is sent to whichever client is connected. *)
CardCommandDoneToAnyone ==
    /\ \E op \in CardOps :
        /\ Done(op)
        /\ BecomeM(Rest, ctx) /\ Answer(op)
    /\ Frame

CardCommandDone ==
    /\ \E op \in CardOps :
        /\ Done(op)
        /\ IF Event.client # h.client THEN BecomeM(Rest, ctx) /\ UNCHANGED due
           ELSE /\ \E stopped \in BOOLEAN :
                      BecomeM(IF stopped /\ Event.result = "OK" /\ m.listening = h.client
                              THEN Fire(Rest, ctx, "Process", "smStopped") ELSE Rest, ctx)
                /\ Answer(op)
    /\ Frame

UpdateRetryDone ==
    /\ Done("update") /\ Event.to = "UpdateRetry"
    /\ IF Event.result = "OK" THEN BecomeM(Fire(Rest, ctx, "UpdateRetry", "continue"), ctx)
       ELSE LET c == DropConnection(ctx)
            IN  BecomeM(AfterReset(Fire(Rest, c, "UpdateRetry", "noCard"), c), c)
    /\ Frame /\ UNCHANGED due

EstablishDone ==
    /\ Done("pace")
    /\ LET c == [ctx EXCEPT !.pace = Event.result]
       IN  BecomeM(Fire(Rest, c, "Establish", "continue"), c)
    /\ Frame /\ UNCHANGED due

ChangePinDone ==
    /\ Done("set")
    /\ LET c == [ctx EXCEPT !.changed = Event.result]
       IN  BecomeM(Fire(Rest, c, "ChangePin", "continue"), c)
    /\ Frame /\ UNCHANGED due

-----------------------------------------------------------------------------
(* Readers, clients and the user. *)

(* ReaderManager updates its cache; the handler forgets one connection to  *)
(* a reader without card; a state that waits for a password drops its own. *)
ReaderChanged ==
    /\ Handles("reader")
    /\ LET r    == Event.reader
           mine == {s \in DOMAIN h.slots : dev.workers[h.slots[s]] = r}
           mm   == [Rest EXCEPT !.hasEid[r] = Event.hasEid]
           gone == ~Event.hasEid /\ m.cur \in Waiting /\ ctx.named = r
       IN  \E hh \in IF Event.hasEid \/ mine = {} THEN {h} ELSE {RemoveSlot(h, s) : s \in mine} :
               IF gone THEN Become(AfterReset(mm, ctx), DropConnection(ctx), hh, create)
               ELSE Become(mm, ctx, hh, create)
    /\ Frame /\ UNCHANGED due

(* WebSocketServerImpl::onWebsocketConnection: one client at a time. *)
ClientConnected ==
    /\ Handles("client")
    /\ IF h.client # None THEN BecomeM(Rest, ctx) /\ UNCHANGED due
       ELSE LET mm == [Rest EXCEPT !.listening = IF m.watching THEN Event.no ELSE @]
            IN  /\ Become(AfterReset(mm, ctx), Reset(ctx),
                          [client |-> Event.no, slots |-> <<>>, handles |-> 0], create)
                /\ due' = NoneDue
    /\ Frame

(* Variant: the connections of the client are kept. *)
ClosedKeepingConnections ==
    /\ Handles("closed")
    /\ LET m1 == [Rest EXCEPT !.listening = None]
           m2 == IF m.cur \in Waiting /\ m.asker = h.client THEN Fire(m1, ctx, m.cur, "abort") ELSE m1
       IN  Become(AfterReset(m2, ctx), Reset(ctx), [h EXCEPT !.client = None], create)
    /\ due' = NoneDue /\ Frame

(* onClosed of the handler and of the server: the retry counters are read  *)
(* once more, the handler is deleted, a state that waits for a password on *)
(* its behalf is left, the context is reset.                               *)
Closed ==
    /\ Handles("closed")
    /\ LET updates == {Command("update", h.slots[s], "client", None) : s \in DOMAIN h.slots}
           m1 == [Rest EXCEPT !.cmds = @ \o SetToSeq(updates), !.listening = None]
           m2 == IF m.cur \in Waiting /\ m.asker = h.client THEN Fire(m1, ctx, m.cur, "abort") ELSE m1
       IN  Become(AfterReset(m2, ctx), Reset(ctx), NoHandler, create)
    /\ due' = NoneDue /\ Frame

Pending(type) == \E i \in DOMAIN m.events : m.events[i].type = type

(* What a client does: it connects, sends any request with any handle it   *)
(* was given, also before an earlier one is answered, and goes.            *)
Connect ==
    /\ m.cur \notin {"none", "Start", "Final", "stopped", "crashed"}
    /\ left.clients > 0 /\ ~Pending("client")
    /\ left' = [left EXCEPT !.clients = @ - 1]
    /\ m' = Post(m, [type |-> "client", no |-> left.clients])
    /\ UNCHANGED <<ctx, h, create, dev, due>>

Request ==
    /\ m.cur \notin {"stopped", "crashed"} /\ h.client # None /\ ~Pending("closed")
    /\ left.messages > 0 /\ Len(m.events) < left.queue
    /\ left' = [left EXCEPT !.messages = @ - 1]
    /\ \/ \E r \in Readers : m' = Post(m, Message("connect", r)) /\ UNCHANGED due
       \/ \E q \in Requests, s \in 1..h.handles :
              m' = Post(m, Message(q, s)) /\ due' = [due EXCEPT ![q] = @ + 1]
    /\ UNCHANGED <<ctx, h, create, dev>>

Disconnect ==
    /\ m.cur \notin {"stopped", "crashed"} /\ h.client # None /\ ~Pending("closed")
    /\ m' = Post(m, [type |-> "closed"])
    /\ UNCHANGED <<ctx, h, create, dev, due, left>>

Asked(st) == ~m.blocked /\ m.cur = st /\ ~m.approved
Owner     == IF h.client = None THEN Nobody ELSE h.client

(* NumberModel asks for a new PIN as long as there is a message to change  *)
(* the PIN, and else for the password of the PACE message, or the PIN.     *)
EnterPassword ==
    /\ left.entries > 0 /\ left' = [left EXCEPT !.entries = @ - 1]
    /\ \E st \in Waiting :
        /\ Asked(st)
        /\ ctx' = IF ctx.change # None THEN [ctx EXCEPT !.newPin = Owner]
                  ELSE [ctx EXCEPT !.pin = Owner]
        /\ m' = [Post(m, Run(st)) EXCEPT !.approved = TRUE]
    /\ UNCHANGED <<h, create, dev, due>>

(* onUserError: the user closes the dialog. *)
CancelPasswordRequest ==
    /\ \E st \in Waiting :
        /\ Asked(st)
        /\ LET c == IF h.client = None            THEN ctx
                    ELSE IF st = "EnterPassword" THEN [ctx EXCEPT !.pace = "cancelled"]
                    ELSE [ctx EXCEPT !.changed = "cancelled"]
           IN  BecomeM(Fire(m, c, st, "abort"), c)
    /\ UNCHANGED <<dev, due, left>>

CancelWorkflow(c) ==
    IF m.cur = "none" THEN ctx' = [c EXCEPT !.cancelled = TRUE] /\ UNCHANGED <<m, h, create>>
    ELSE OnUserCancelled(IF c.killed /\ ~m.approved
                         THEN [Post(m, Run(m.cur)) EXCEPT !.approved = TRUE] ELSE m,
                         [c EXCEPT !.cancelled = TRUE], m.cur)

(* The user switches the service off ... *)
SwitchOff ==
    /\ MainThread /\ ~ctx.cancelled
    /\ CancelWorkflow(ctx)
    /\ UNCHANGED <<dev, due, left>>

(* ... or the application shuts down. *)
Kill ==
    /\ MainThread /\ ~ctx.killed
    /\ CancelWorkflow([ctx EXCEPT !.killed = TRUE])
    /\ UNCHANGED <<dev, due, left>>

StartMachine ==
    /\ m.cur = "none"
    /\ m' = Enter(m, ctx, "Start")
    /\ UNCHANGED <<ctx, h, create, dev, due, left>>

-----------------------------------------------------------------------------
(* The worker thread. *)

Cmd      == Head(m.cmds)
Works(op) == m.cmds # <<>> /\ Cmd.op = op /\ m.cur # "crashed"
(* The event loop of the worker deletes what nothing refers to any more. *)
Worked(mm) == m' = Reap(mm, ctx, h, create)
Taken    == [m EXCEPT !.cmds = Tail(@)]
Unlink(d, r) == [d EXCEPT !.card[r].linked = FALSE]

(* createCardConnectionWorker: the new worker, or none, is announced to    *)
(* all commands that listen; without one it is deleted at once.            *)
ExecuteMake ==
    /\ Works("make")
    /\ LET r     == Cmd.arg
           card  == dev.card[r]
           ready == card.present /\ ~card.linked
           w     == Fresh(DOMAIN dev.workers)
           heard == {c \in create : c.listening}
           made(v) == SetToSeq({[type |-> "made", id |-> c.id, worker |-> v] : c \in heard})
           to(v) == Worked([Taken EXCEPT !.events = @ \o made(v)])
       IN  \/ (~ready \/ heard = {}) /\ to(None) /\ UNCHANGED dev
           \/ /\ ready /\ heard # {}
              /\ to(w)
              /\ dev' = [dev EXCEPT !.card[r].linked = TRUE,
                                    !.workers = With(@, w, r)]
    /\ UNCHANGED <<ctx, h, create, due, left>>

(* A command works on the card that is in the reader now. *)
ExecuteCommand ==
    /\ \E op \in CardOps \cup {"update", "pace", "set"} :
        /\ Works(op)
        /\ LET card == dev.card[dev.workers[Cmd.worker]]
           IN  \E result \in IF ~card.present \/ ~card.linked THEN {"lost"}
                             ELSE IF op = "pace"            THEN {"OK", "wrong"}
                             ELSE {"OK"} :
                   Worked(IF Cmd.wired
                          THEN Post(Taken, [type |-> "done", op |-> op, worker |-> Cmd.worker,
                                            to |-> Cmd.to, client |-> Cmd.client,
                                            arg |-> Cmd.arg, result |-> result])
                          ELSE Taken)
    /\ UNCHANGED <<ctx, h, create, dev, due, left>>

ExecuteSync ==
    /\ Works("sync")
    /\ Worked([Taken EXCEPT !.blocked = FALSE])
    /\ UNCHANGED <<ctx, h, create, dev, due, left>>

(* The destructor releases the card of the reader, if one is connected. *)
ExecuteDelete ==
    /\ Works("delete")
    /\ LET w == Cmd.worker
       IN  /\ dev' = [Unlink(dev, dev.workers[w]) EXCEPT
                          !.workers = [x \in DOMAIN @ \ {w} |-> @[x]]]
           /\ m' = Taken
    /\ UNCHANGED <<ctx, h, create, due, left>>

RemoveCard ==
    /\ m.cur \notin {"stopped", "crashed"}
    /\ left.swaps > 0 /\ left' = [left EXCEPT !.swaps = @ - 1]
    /\ \E r \in Readers :
        /\ dev.card[r].present
        /\ dev' = [Unlink(dev, r) EXCEPT !.card[r].present = FALSE]
        /\ m' = Post(m, [type |-> "reader", reader |-> r, hasEid |-> FALSE])
    /\ UNCHANGED <<ctx, h, create, due>>

InsertCard ==
    /\ \E r \in Readers :
        /\ ~dev.card[r].present
        /\ dev' = [dev EXCEPT !.card[r] = [present |-> TRUE, linked |-> FALSE]]
        /\ m' = Post(m, [type |-> "reader", reader |-> r, hasEid |-> TRUE])
    /\ UNCHANGED <<ctx, h, create, due, left>>

-----------------------------------------------------------------------------
MainLoop ==
    \/ RunStart \/ RunStop \/ RunFinal \/ RunProcess \/ RunUpdateRetry \/ RunVerify \/ RunClear
    \/ RunPreparePace \/ RunPrepareChange \/ RunEnter \/ RunEstablish \/ RunChangePin
    \/ RunPaceResponse \/ RunChangeResponse \/ RunCancelled
    \/ HandleConnect \/ HandleCardRequest \/ HandleWorkflowRequest
    \/ ExecuteCreate \/ WorkerCreated \/ CommandDeleted
    \/ DisconnectDone \/ CardCommandDone \/ UpdateRetryDone \/ EstablishDone \/ ChangePinDone
    \/ ReaderChanged \/ ClientConnected \/ Closed
WorkerLoop == ExecuteMake \/ ExecuteCommand \/ ExecuteSync \/ ExecuteDelete
User       == EnterPassword \/ CancelPasswordRequest \/ SwitchOff \/ Kill
Outside    == Connect \/ Request \/ Disconnect \/ RemoveCard \/ InsertCard
Terminated == m.cur \in {"stopped", "crashed"} /\ UNCHANGED vars

Next == StartMachine \/ MainLoop \/ WorkerLoop \/ User \/ Outside \/ Terminated

Spec == Init /\ [][Next]_vars
(* Both threads run event loops. *)
FairSpec == Spec /\ WF_vars(StartMachine) /\ WF_vars(MainLoop) /\ WF_vars(WorkerLoop)

-----------------------------------------------------------------------------
(* Properties. *)

(* A password is used for the client it was entered for, and no other: it  *)
(* does not outlive the connection, whatever is still being worked on when *)
(* it closes (onClosed and fireConnectedChanged reset the context); and    *)
(* none is left when the workflow is over (the assertions of the contexts' *)
(* destructors).                                                           *)
PasswordsOfThisClient ==
    /\ \A p \in {ctx.pin, ctx.newPin} : p \in {None, Owner}
    /\ m.cur = "stopped" => ctx.pin = None /\ ctx.newPin = None

(* PACE is never started without a password (the assertion of              *)
(* StateEstablishPaceChannelIfd), unless the workflow is being killed.     *)
PaceHasPassword ==
    Runs("Establish") /\ m.cur = "Establish" /\ ctx.conn # None /\ ~ctx.killed => ctx.pin # None

(* A client gets at most one answer to each command of its card, and none  *)
(* to a command of a client before it.                                     *)
CardAnswersWereAsked == \A q \in CardOps \cup {"disconnect"} : due[q] >= 0

(* The answers of the workflow go to the client that asked (the assertions *)
(* on the slot handle in the two response states).                         *)
WorkflowAnswersWereAsked == due["pace"] >= 0 /\ due["modify"] >= 0 /\ m.cur # "crashed"

(* No card stays connected for a client that has gone. *)
CardsAreReleased ==
    h.client = None ~> (DOMAIN dev.workers = {} \/ h.client # None \/ m.cur \in {"stopped", "crashed"})
=============================================================================
