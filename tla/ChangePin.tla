----------------------------- MODULE ChangePin -----------------------------
(***************************************************************************)
(* The PIN-change workflow: the state machine of ChangePinController with  *)
(* CompositeStatePace, the AbstractState protocol its states follow, the   *)
(* WorkflowContext they share, and the card commands they send to the      *)
(* thread of the ReaderManager.                                            *)
(*                                                                         *)
(* Two threads: the main thread runs the state machine and delivers posted *)
(* events in order (m.events), the worker thread executes card commands in *)
(* order (m.cmds) and posts their results.  A result is posted only if its *)
(* receiver is still connected when the command is done, but what has been *)
(* posted is delivered even if the receiver left its state meanwhile: the  *)
(* run() of a state, or the slot of a command, may execute in a state that *)
(* has been exited.                                                        *)
(*                                                                         *)
(* Scope: one basic PC/SC reader with one ID card, six-digit PIN, reader   *)
(* types that do not change while the workflow runs.  Creating a card      *)
(* connection is one step of the worker.                                   *)
(***************************************************************************)
EXTENDS Integers, Sequences

CONSTANTS
    Setups         \* instances: the UI that runs the workflow, "json" (SDK) or
                   \* "qml"; whether the PIN is only checked; the retry counter of
                   \* the card; bounds of the faults (card removals, lost
                   \* responses, failed connects) and of the passwords entered

ASSUME ChangePinAssumption ==
    Setups \subseteq [ui : {"json", "qml"}, onlyCheck : BOOLEAN, tries : 0..3, faults : Nat,
                      entries : Nat]

VARIABLES
    m,             \* state machine: current state, its approval, connections, both queues
    ctx,           \* WorkflowContext
    conn,          \* mCardConnection: what the main thread knows of the card
    seen,          \* the cached ReaderInfo of the main thread has an eID card
    card,          \* card and reader, as the worker thread finds them
    spent,         \* wrong PIN attempts on the card since the PIN was last entered
    faults,        \* faults that may still happen
    entries        \* passwords that may still be entered

vars == <<m, ctx, conn, seen, card, spent, faults, entries>>

(* A signal of a state and the state it leads to: the transitions of       *)
(* CompositeStatePace ...                                                  *)
PaceEdges ==
    [Maintain    |-> [continue |-> "Verify", abort |-> "PaceClear", noCard |-> "SelectReader",
                      forceUpdate |-> "UpdateRetry"],
     SelectReader |-> [continue |-> "ConnectCard", abort |-> "PaceClear"],
     ConnectCard |-> [continue |-> "UpdateRetry", abort |-> "PaceClear", retry |-> "SelectReader"],
     UpdateRetry |-> [continue |-> "Verify", abort |-> "PaceClear", noCard |-> "Maintain"],
     Verify      |-> [continue |-> "PreparePace", abort |-> "PaceClear", noCard |-> "Maintain",
                      changed |-> "PaceClear"],
     PreparePace |-> [continue |-> "Establish", abort |-> "PaceClear", noCard |-> "Maintain",
                      enter |-> "EnterPassword"],
     EnterPassword |-> [continue |-> "Establish", abort |-> "PaceClear"],
     Establish   |-> [can |-> "Maintain", puk |-> "ResetRetry", abort |-> "PaceClear",
                      noCard |-> "Maintain", failed |-> "Maintain", wrong |-> "PaceClear",
                      third |-> "PaceDestroy", unfortunate |-> "Unfortunate"],
     Unfortunate |-> [continue |-> "Maintain", abort |-> "PaceClear"],
     ResetRetry  |-> [continue |-> "PaceDestroy", abort |-> "PaceDestroy", noCard |-> "Maintain"],
     PaceDestroy |-> [continue |-> "PaceClear", abort |-> "PaceClear"],
     PaceClear   |-> [continue |-> "CheckError", abort |-> "CheckError"],
     CheckError  |-> [continue |-> "Maintain"]]

(* ... and those of ChangePinController. *)
ChangeEdges ==
    [PrepareChange |-> [continue |-> "ChangePin", abort |-> "Destroy", enter |-> "EnterNewPin",
                        skip |-> "Destroy"],
     EnterNewPin |-> [continue |-> "ChangePin", abort |-> "Destroy"],
     ChangePin   |-> [continue |-> "Destroy", abort |-> "Destroy", noCard |-> "Maintain"],
     Destroy     |-> [continue |-> "Clear", abort |-> "Clear"],
     Clear       |-> [continue |-> "UpdateFinal", abort |-> "UpdateFinal"],
     UpdateFinal |-> [continue |-> "CleanUp", abort |-> "CleanUp", noCard |-> "CleanUp"],
     CleanUp     |-> [continue |-> "Final", abort |-> "Final"],
     Final       |-> [continue |-> "stopped"]]

Composite == DOMAIN PaceEdges
States    == Composite \cup DOMAIN ChangeEdges
Edges     == [s \in States |-> IF s \in Composite THEN PaceEdges[s] ELSE ChangeEdges[s]]

(* States a UI approves only after the user did something; the graphical   *)
(* UI shows the result until the user closes it.                           *)
Waiting ==
    {"EnterPassword", "EnterNewPin", "Unfortunate"} \cup (IF ctx.ui = "qml" THEN {"Final"} ELSE {})

(* Two transitions of the composite state listen to its own signals, which *)
(* are connected to the signals of Establish and CheckError: they fire     *)
(* whichever state of the composite is current.                            *)
Target(cur, st, sig) ==
    IF st = "Establish" /\ sig = "continue"
    THEN IF cur \in Composite THEN "PrepareChange" ELSE "ignored"
    ELSE IF st = "CheckError" /\ sig = "abort"
    THEN IF cur \in Composite THEN "Clear" ELSE "ignored"
    ELSE IF cur = st /\ sig \in DOMAIN Edges[st] THEN Edges[st][sig] ELSE "ignored"

-----------------------------------------------------------------------------
(* Values. *)

NoConn   == [counter |-> -2, can |-> FALSE, pin |-> FALSE]
NoReader == -2          \* no reader is remembered; -1 is an unknown retry counter
Nothing  == "none"      \* an empty password
PaceTypes == {"PIN", "CAN", "PUK"}
Pins     == {"old", "new"}
Secrets  == {"good", "bad"}

WrongCodes  == {"INVALID_PIN", "INVALID_PIN_2", "INVALID_PIN_3", "INVALID_CAN", "INVALID_PUK",
                "PIN_NOT_BLOCKED"}
LostCodes   == {"RESPONSE_EMPTY", "CARD_NOT_FOUND"}
FatalCodes  == {"CANCELLATION_BY_USER", "PROTOCOL_ERROR", "PUK_INOPERATIVE", "COMMAND_FAILED"}
Codes       == {"OK", "OK_CAN", "OK_PUK"} \cup WrongCodes \cup LostCodes \cup FatalCodes

Run(s)    == [type |-> "run", st |-> s]
Cancel(s) == [type |-> "cancel", st |-> s]
Removed   == [type |-> "removed"]
Inserted(n) == [type |-> "inserted", counter |-> n]
Done(c, code, n) ==
    [type |-> "done", st |-> c.owner, op |-> c.op, arg |-> c.arg, code |-> code, counter |-> n]
Events ==
    [type : {"run", "cancel"}, st : States] \cup {Removed} \cup [type : {"inserted"}, counter : 0..3]
    \cup [type : {"done"}, st : States, op : {"create", "update", "pace", "reset", "set", "destroy"},
          arg : PaceTypes \cup {Nothing}, code : Codes, counter : -2..3]

Commands ==
    [op : {"create", "update", "pace", "reset", "set", "destroy", "release"}, owner : States,
     arg : PaceTypes \cup {Nothing}, pw : Pins \cup Secrets \cup {Nothing}, wired : BOOLEAN]
Command(op, st, arg, pw) ==
    [op |-> op, owner |-> st, arg |-> arg, pw |-> pw, wired |-> TRUE]

TypeOK ==
    /\ m \in [cur : States \cup {"none", "stopped"}, approved : BOOLEAN, stray : SUBSET States,
              listening : SUBSET {"SelectReader", "ConnectCard"},
              events : Seq(Events), cmds : Seq(Commands)]
    /\ ctx \in [ui : {"json", "qml"}, onlyCheck : BOOLEAN, killed : BOOLEAN, cancelled : BOOLEAN, inState : BOOLEAN,
                status : {"ok", "cancelled", "error"}, failure : BOOLEAN, lastPace : Codes,
                expected : -2..3, paceType : PaceTypes \cup {Nothing}, reader : BOOLEAN,
                pin : Pins \cup {Nothing}, can : Secrets \cup {Nothing},
                puk : Secrets \cup {Nothing}, newPin : Pins \cup {Nothing}, vanished : Nat]
    /\ conn \in [counter : -2..3, can : BOOLEAN, pin : BOOLEAN]
    /\ seen \in BOOLEAN
    /\ card \in [present : BOOLEAN, linked : BOOLEAN, tries : 0..3, known : -1..3, pin : Pins,
                 session : PaceTypes \cup {Nothing}]
    /\ spent \in Nat /\ faults \in Nat /\ entries \in Nat

Init ==
    \E setup \in Setups, present \in BOOLEAN :
        /\ m = [cur |-> "none", approved |-> FALSE, stray |-> {}, listening |-> {},
                events |-> <<>>, cmds |-> <<>>]
        /\ ctx = [ui |-> setup.ui, onlyCheck |-> setup.onlyCheck, killed |-> FALSE,
                  cancelled |-> FALSE, inState |-> FALSE, status |-> "ok", failure |-> FALSE,
                  lastPace |-> "OK", expected |-> NoReader, paceType |-> Nothing,
                  reader |-> FALSE, pin |-> Nothing, can |-> Nothing, puk |-> Nothing,
                  newPin |-> Nothing, vanished |-> 0]
        /\ conn = NoConn
        /\ card = [present |-> present, linked |-> FALSE, tries |-> setup.tries,
                   known |-> IF present THEN setup.tries ELSE -1, pin |-> "old",
                   session |-> Nothing]
        /\ seen = present
        /\ spent = 0 /\ faults = setup.faults /\ entries = setup.entries

-----------------------------------------------------------------------------
(* The state machine and AbstractState. *)

Post(mm, e) == [mm EXCEPT !.events = Append(@, e)]
Send(mm, st, c) ==
    [mm EXCEPT !.cmds = Append(@, c), !.stray = IF mm.cur = st THEN @ ELSE @ \cup {st}]

(* Variant with a bug, for the sensitivity of the properties: onExit does  *)
(* not clear the connections.                                              *)
ExitConnected(mm) == [mm EXCEPT !.approved = FALSE, !.stray = @ \cup {mm.cur}]

(* The receiver st of the results of commands is disconnected. *)
Disconnected(cmds, st) ==
    [i \in DOMAIN cmds |-> [cmds[i] EXCEPT !.wired = @ /\ cmds[i].owner # st]]

(* onExit: connections of the state are cut; what is posted stays posted.  *)
Exit(mm) ==
    [mm EXCEPT !.approved = FALSE,
               !.stray = @ \ {mm.cur},
               !.listening = @ \ {mm.cur},
               !.cmds = Disconnected(@, mm.cur)]

(* Variant: a cancellation is not passed on to the next state. *)
EnterUncancelled(mm, c, st) ==
    LET approved == mm.approved \/ st \notin Waiting \/ c.killed
        runs     == IF approved /\ ~mm.approved THEN <<Run(st)>> ELSE <<>>
    IN  [mm EXCEPT !.cur = st, !.approved = approved, !.events = @ \o runs]

(* onEntry: the UIs are told and approve a state they do not wait in, a    *)
(* killed workflow approves every state, and a change of the approval      *)
(* posts run(); a cancellation no state has seen is posted to this one.    *)
Enter(mm, c, st) ==
    LET approved == mm.approved \/ st \notin Waiting \/ c.killed
        runs     == IF approved /\ ~mm.approved THEN <<Run(st)>> ELSE <<>>
        cancels  == IF c.cancelled /\ ~c.inState THEN <<Cancel(st)>> ELSE <<>>
    IN  [mm EXCEPT !.cur = st, !.approved = approved, !.events = @ \o runs \o cancels]

(* State st emits signal sig. *)
Fire(mm, c, st, sig) ==
    LET to == Target(mm.cur, st, sig)
    IN  CASE to = "ignored" -> mm
          [] to = "stopped" -> [Exit(mm) EXCEPT !.cur = "stopped"]
          [] OTHER          -> Enter(Exit(mm), c, to)

UpdateStatus(c, status) == [c EXCEPT !.status = IF @ = "ok" THEN status ELSE @]
(* onAbort sets the failure code, also for a state that was left. *)
OnAbort(c) == [c EXCEPT !.failure = TRUE]

(* onUserCancelled of the state st. *)
OnUserCancelled(c, st) ==
    LET cc == IF st = "Establish" THEN [c EXCEPT !.lastPace = "CANCELLATION_BY_USER"] ELSE c
    IN  OnAbort(UpdateStatus([cc EXCEPT !.inState = TRUE], "cancelled"))

Start ==
    /\ m.cur = "none"
    /\ m' = Enter(m, ctx, "Maintain")
    /\ UNCHANGED <<ctx, conn, seen, card, spent, faults, entries>>

(* The handled event is Head(m.events). *)
Event == Head(m.events)
Rest  == [m EXCEPT !.events = Tail(@)]
Handles(type)  == m.events # <<>> /\ m.cur # "stopped" /\ Event.type = type
Runs(st)       == Handles("run") /\ Event.st = st
Completes(op)  == Handles("done") /\ Event.op = op
Emit(st, sig)  == m' = Fire(Rest, ctx', st, sig)
Environment    == <<seen, card, spent, faults, entries>>

(* The last reference to a connection is dropped: it is released on the    *)
(* worker thread, by the deferred delete of the CardConnectionWorker.      *)
Release(mm) ==
    IF conn = NoConn THEN mm
    ELSE [mm EXCEPT !.cmds = Append(@, [Command("release", "Maintain", Nothing, Nothing)
                                        EXCEPT !.wired = FALSE])]

(* resetCardConnection, with Release: unless no reader is selected the     *)
(* main thread waits until the worker thread has polled the reader, which  *)
(* is after everything it was given before (updateReaderInfo is a blocking *)
(* call).                                                                  *)
ResetConnection ==
    /\ ctx.reader => m.cmds = <<>>
    /\ conn' = NoConn

(* A state that needs the card leaves with fireNoCardConnection if there   *)
(* is none.                                                                *)
NeedsCard(st, c) ==
    IF conn = NoConn THEN Fire(Rest, ctx, st, IF st \in {"Destroy", "PaceDestroy"}
                                              THEN "continue" ELSE "noCard")
    ELSE Send(Rest, st, c)

-----------------------------------------------------------------------------
(* run() of the states of CompositeStatePace. *)

RunMaintain ==
    /\ Runs("Maintain")
    /\ \/ /\ ctx.lastPace \in FatalCodes
          /\ ctx' = OnAbort(UpdateStatus(ctx, "error"))
          /\ Emit("Maintain", "abort") /\ UNCHANGED conn
       \/ /\ ctx.lastPace \in WrongCodes
          /\ ctx' = ctx
          /\ Emit("Maintain", IF conn # NoConn THEN "forceUpdate" ELSE "noCard")
          /\ UNCHANGED conn
       \/ /\ ctx.lastPace \in LostCodes
          /\ ctx' = [ctx EXCEPT !.lastPace = "OK"]
          /\ ResetConnection
          /\ m' = Fire(Release(Rest), ctx', "Maintain", "noCard")
       \/ /\ ctx.lastPace \in {"OK", "OK_CAN", "OK_PUK"}
          /\ ctx' = ctx
          /\ Emit("Maintain", IF conn = NoConn THEN "noCard"
                              ELSE IF ctx.lastPace = "OK_PUK" THEN "forceUpdate" ELSE "continue")
          /\ UNCHANGED conn
    /\ UNCHANGED Environment

(* The state st listens to the ReaderManager from now on. *)
Listen(mm, st) ==
    [mm EXCEPT !.listening = @ \cup {st}, !.stray = IF mm.cur = st THEN @ ELSE @ \cup {st}]

RunSelectReader ==
    /\ Runs("SelectReader")
    /\ ctx' = [ctx EXCEPT !.reader = @ \/ seen]
    /\ LET mm == Listen(Rest, "SelectReader")
       IN  m' = IF seen THEN Fire(mm, ctx', "SelectReader", "continue") ELSE mm
    /\ UNCHANGED <<conn, Environment>>

(* onCardInserted of StateConnectCard. *)
CreateConnection(mm) ==
    IF ctx.reader /\ seen' THEN Send(mm, "ConnectCard", Command("create", "ConnectCard", Nothing, Nothing))
    ELSE mm

RunConnectCard ==
    /\ Runs("ConnectCard")
    /\ UNCHANGED <<ctx, conn, Environment>>
    /\ m' = CreateConnection(Listen(Rest, "ConnectCard"))

RunUpdateRetry ==
    /\ \E st \in {"UpdateRetry", "UpdateFinal"} :
           Runs(st) /\ m' = NeedsCard(st, Command("update", st, Nothing, Nothing))
    /\ UNCHANGED <<ctx, conn, Environment>>

(* Variant: only the reader is compared. *)
RunVerifyReader ==
    /\ Runs("Verify")
    /\ ctx' = IF conn = NoConn \/ ctx.expected # NoReader THEN ctx
              ELSE [ctx EXCEPT !.expected = conn.counter]
    /\ Emit("Verify", IF conn = NoConn THEN "noCard" ELSE "continue")
    /\ UNCHANGED <<conn, Environment>>

(* The reader and its counter must be the remembered ones; a card whose    *)
(* counter changed is another card, for which nothing entered is used.     *)
RunVerify ==
    /\ Runs("Verify")
    /\ LET known   == ctx.expected # NoReader
           matches == known /\ ctx.reader /\ ctx.expected = conn.counter
       IN  /\ ctx' = IF conn = NoConn \/ matches THEN ctx
                     ELSE [ctx EXCEPT !.expected = conn.counter]
           /\ Emit("Verify", IF conn = NoConn THEN "noCard"
                             ELSE IF ~known \/ matches THEN "continue" ELSE "changed")
    /\ UNCHANGED <<conn, Environment>>

(* Variant: a suspended PIN is tried without the CAN. *)
NextPasswordNoCan == IF conn.counter = 0 THEN "PUK" ELSE "PIN"

(* The password the card needs next (handleRetryCounter). *)
NextPassword ==
    CASE conn.counter = 0               -> "PUK"
      [] conn.counter = 1 /\ ~conn.can  -> "CAN"
      [] OTHER                          -> "PIN"
Password(c, type) ==
    CASE type = "PUK" -> c.puk [] type = "CAN" -> c.can [] type = "PIN" -> c.pin [] OTHER -> Nothing

RunPreparePace ==
    /\ Runs("PreparePace")
    /\ ctx' = [ctx EXCEPT !.paceType = IF conn = NoConn THEN Nothing ELSE NextPassword]
    /\ Emit("PreparePace",
            IF conn = NoConn THEN "noCard"
            ELSE IF NextPassword = "PIN" /\ conn.pin THEN "continue"
            ELSE IF Password(ctx, NextPassword) = Nothing THEN "enter" ELSE "continue")
    /\ UNCHANGED <<conn, Environment>>

RunEstablish ==
    /\ Runs("Establish")
    /\ LET pw == Password(ctx, ctx.paceType)
       IN  \/ /\ ctx.status # "ok"
              /\ ctx' = ctx /\ Emit("Establish", "failed")
           \/ /\ ctx.status = "ok" /\ conn = NoConn
              /\ ctx' = [ctx EXCEPT !.lastPace = "CARD_NOT_FOUND"]
              /\ Emit("Establish", "noCard")
           \/ /\ ctx.status = "ok" /\ conn # NoConn
              /\ IF pw = Nothing
                 THEN ctx' = OnAbort(UpdateStatus(ctx, "error")) /\ Emit("Establish", "abort")
                 ELSE /\ ctx' = ctx
                      /\ m' = Send(Rest, "Establish", Command("pace", "Establish", ctx.paceType, pw))
    /\ UNCHANGED <<conn, Environment>>

RunUnfortunate ==
    /\ Runs("Unfortunate")
    /\ ctx' = [ctx EXCEPT !.vanished = 0]
    /\ Emit("Unfortunate", "continue")
    /\ UNCHANGED <<conn, Environment>>

RunResetRetry ==
    /\ Runs("ResetRetry")
    /\ m' = NeedsCard("ResetRetry", Command("reset", "ResetRetry", Nothing, Nothing))
    /\ UNCHANGED <<ctx, conn, Environment>>

RunDestroy ==
    /\ \E st \in {"PaceDestroy", "Destroy"} :
           Runs(st) /\ m' = NeedsCard(st, Command("destroy", st, Nothing, Nothing))
    /\ UNCHANGED <<ctx, conn, Environment>>

(* ChangePinContext::resetPacePasswords. *)
Cleared(c) ==
    [c EXCEPT !.pin = Nothing, !.can = Nothing, !.puk = Nothing, !.newPin = Nothing]

(* Variant: a state that was left does not run. *)
RunClearCurrent ==
    /\ \E st \in {"PaceClear", "Clear"} :
           /\ Runs(st)
           /\ ctx' = IF m.cur = st THEN Cleared(ctx) ELSE ctx
           /\ Emit(st, "continue")
    /\ UNCHANGED <<conn, Environment>>

RunClear ==
    /\ \E st \in {"PaceClear", "Clear"} :
           Runs(st) /\ ctx' = Cleared(ctx) /\ Emit(st, "continue")
    /\ UNCHANGED <<conn, Environment>>

RunCheckError ==
    /\ Runs("CheckError")
    /\ ctx' = ctx
    /\ Emit("CheckError", IF ctx.status = "ok" THEN "continue" ELSE "abort")
    /\ UNCHANGED <<conn, Environment>>

-----------------------------------------------------------------------------
(* run() of the states of ChangePinController. *)

RunPrepareChange ==
    /\ Runs("PrepareChange")
    /\ ctx' = ctx
    /\ Emit("PrepareChange", IF ctx.onlyCheck THEN "skip"
                             ELSE IF ctx.newPin = Nothing THEN "enter" ELSE "continue")
    /\ UNCHANGED <<conn, Environment>>

RunChangePin ==
    /\ Runs("ChangePin")
    /\ m' = NeedsCard("ChangePin", Command("set", "ChangePin", Nothing, ctx.newPin))
    /\ UNCHANGED <<ctx, conn, Environment>>

RunCleanUp ==
    /\ Runs("CleanUp")
    /\ ctx' = [ctx EXCEPT !.expected = NoReader]
    /\ IF conn = NoConn THEN UNCHANGED conn ELSE ResetConnection
    /\ m' = Fire(Release(Rest), ctx', "CleanUp", "continue")
    /\ UNCHANGED Environment

(* The states that only continue: the password states and the final state. *)
RunContinue ==
    /\ \E st \in {"EnterPassword", "EnterNewPin", "Final"} :
           Runs(st) /\ ctx' = ctx /\ Emit(st, "continue")
    /\ UNCHANGED <<conn, Environment>>

(* The posted onUserCancelled of AbstractState::onEntry. *)
HandleCancel ==
    /\ Handles("cancel")
    /\ ctx' = OnUserCancelled(ctx, Event.st)
    /\ Emit(Event.st, "abort")
    /\ UNCHANGED <<conn, Environment>>

-----------------------------------------------------------------------------
(* The worker thread: card commands, executed in order. *)

Cmd == Head(m.cmds)
Executes(op) == m.cmds # <<>> /\ Cmd.op = op
(* The command is done; its slot is called later if it is still connected. *)
Answer(code, n) ==
    m' = [m EXCEPT !.cmds = Tail(@),
                   !.events = IF Cmd.wired THEN Append(@, Done(Cmd, code, n)) ELSE @]
(* A response is lost: the card may have executed the command or not. *)
Fault == faults > 0 /\ faults' = faults - 1
NoFault == faults' = faults
Unreachable == IF card.present THEN "RESPONSE_EMPTY" ELSE "CARD_NOT_FOUND"

(* Reader::createCardConnectionWorker: one connection at a time.  Nobody   *)
(* holds a connection whose receiver was disconnected.                     *)
ExecuteCreate ==
    /\ Executes("create")
    /\ \/ /\ card.present /\ ~card.linked
          /\ card' = [card EXCEPT !.linked = Cmd.wired, !.session = Nothing]
          /\ Answer("OK", card.known)
          /\ NoFault
       \/ /\ card' = card
          /\ Answer("COMMAND_FAILED", 0)
          /\ IF card.present /\ ~card.linked THEN Fault ELSE NoFault
    /\ UNCHANGED <<ctx, conn, seen, spent, entries>>

ExecuteRelease ==
    /\ Executes("release")
    /\ card' = [card EXCEPT !.linked = FALSE, !.session = Nothing]
    /\ m' = [m EXCEPT !.cmds = Tail(@)]
    /\ UNCHANGED <<ctx, conn, seen, spent, faults, entries>>

ExecuteUpdate ==
    /\ Executes("update")
    /\ \/ /\ card.linked
          /\ card' = [card EXCEPT !.known = card.tries]
          /\ Answer("OK", card.tries)
          /\ NoFault
       \/ /\ card' = card
          /\ Answer("COMMAND_FAILED", 0)
          /\ IF card.linked THEN Fault ELSE NoFault
    /\ UNCHANGED <<ctx, conn, seen, spent, entries>>

(* What PACE with password pw does to a card that is connected, and the    *)
(* return code the worker makes of it (the counter is the one before).     *)
PaceCode(type, pw) ==
    IF type = "CAN" THEN IF pw = "good" THEN "OK" ELSE "INVALID_CAN"
    ELSE IF type = "PUK" THEN IF pw = "good" THEN "OK" ELSE "INVALID_PUK"
    ELSE IF card.tries = 0 \/ (card.tries = 1 /\ card.session # "CAN") THEN "PROTOCOL_ERROR"
    ELSE IF pw = card.pin THEN "OK"
    ELSE CASE card.tries = 3 -> "INVALID_PIN" [] card.tries = 2 -> "INVALID_PIN_2"
           [] OTHER -> "INVALID_PIN_3"
PaceCard(type, code) ==
    [card EXCEPT !.session = IF code = "OK" THEN type ELSE Nothing,
                 !.tries = IF type # "PIN" \/ code = "PROTOCOL_ERROR" THEN @
                           ELSE IF code = "OK" THEN 3 ELSE @ - 1]

ExecutePace ==
    /\ Executes("pace")
    /\ LET type == Cmd.arg
           code == PaceCode(type, Cmd.pw)
           wrong == IF code \in {"INVALID_PIN", "INVALID_PIN_2", "INVALID_PIN_3"} THEN 1 ELSE 0
           notBlocked == card.present /\ type = "PUK" /\ card.known > 0
       IN  \/ /\ notBlocked
              /\ Answer("PIN_NOT_BLOCKED", 0) /\ NoFault /\ UNCHANGED <<card, spent>>
           \/ /\ ~notBlocked /\ ~card.linked
              /\ Answer(Unreachable, 0) /\ NoFault /\ UNCHANGED <<card, spent>>
           \/ /\ ~notBlocked /\ card.linked
              /\ \/ /\ NoFault /\ Answer(code, 0)
                    /\ card' = PaceCard(type, code) /\ spent' = spent + wrong
                 \/ /\ Fault /\ Answer("RESPONSE_EMPTY", 0)
                    /\ \/ card' = PaceCard(type, code) /\ spent' = spent + wrong
                       \/ UNCHANGED <<card, spent>>
    /\ UNCHANGED <<ctx, conn, seen, entries>>

(* RESET RETRY COUNTER to unblock; a PUK that was used up is inoperative.  *)
ExecuteReset ==
    /\ Executes("reset")
    /\ \/ /\ card.linked /\ card.session = "PUK" /\ NoFault
          /\ card' = [card EXCEPT !.tries = 3]
          /\ Answer("OK", 0)
       \/ /\ card.linked /\ Fault
          /\ card' = card
          /\ \E code \in {"PUK_INOPERATIVE", "COMMAND_FAILED"} : Answer(code, 0)
       \/ /\ ~card.linked /\ NoFault
          /\ card' = card
          /\ Answer("COMMAND_FAILED", 0)
    /\ UNCHANGED <<ctx, conn, seen, spent, entries>>

(* The card takes a new PIN in a session established with the PIN.         *)
ExecuteSet ==
    /\ Executes("set")
    /\ LET changed == [card EXCEPT !.pin = IF Cmd.pw = Nothing THEN @ ELSE Cmd.pw]
       IN  \/ /\ card.linked /\ card.session = "PIN" /\ Cmd.pw # Nothing /\ NoFault
              /\ card' = changed
              /\ Answer("OK", 0)
           \/ /\ card.linked /\ (card.session # "PIN" \/ Cmd.pw = Nothing) /\ NoFault
              /\ card' = card
              /\ Answer("COMMAND_FAILED", 0)
           \/ /\ card.linked /\ card.session = "PIN" /\ Fault
              /\ card' \in {card, changed}
              /\ Answer("RESPONSE_EMPTY", 0)
           \/ /\ ~card.linked /\ NoFault
              /\ card' = card
              /\ Answer("RESPONSE_EMPTY", 0)
    /\ UNCHANGED <<ctx, conn, seen, spent, entries>>

ExecuteDestroy ==
    /\ Executes("destroy")
    /\ card' = [card EXCEPT !.session = Nothing]
    /\ Answer("OK", 0)
    /\ UNCHANGED <<ctx, conn, seen, spent, faults, entries>>

-----------------------------------------------------------------------------
(* The slots for the results, on the main thread. *)

(* StateConnectCard::onCommandDone. *)
CreateDone ==
    /\ Completes("create")
    /\ IF Event.code = "OK"
       THEN /\ conn' = [counter |-> Event.counter, can |-> FALSE, pin |-> FALSE]
            /\ ctx' = ctx
            /\ m' = Fire(Release(Rest), ctx', "ConnectCard", "continue")
       ELSE /\ ctx' = OnAbort(UpdateStatus(ctx, "error"))
            /\ Emit("ConnectCard", "abort")
            /\ UNCHANGED conn
    /\ UNCHANGED Environment

UpdateDone ==
    /\ Completes("update")
    /\ ctx' = ctx
    /\ IF Event.code = "OK"
       THEN /\ conn' = IF conn = NoConn THEN conn ELSE [conn EXCEPT !.counter = Event.counter]
            /\ Emit(Event.st, "continue")
       ELSE /\ ResetConnection
            /\ m' = Fire(Release(Rest), ctx', Event.st, "noCard")
    /\ UNCHANGED Environment

(* CardConnection remembers which PACE succeeded (its own slots come       *)
(* first), then StateEstablishPaceChannel::onEstablishConnectionDone.      *)
PaceFlags(c, type, ok) ==
    IF c = NoConn THEN c
    ELSE CASE type = "CAN" -> [c EXCEPT !.can = ok]
           [] type = "PIN" -> [c EXCEPT !.pin = ok, !.can = @ /\ ok]
           [] OTHER        -> c
PaceSignal(type, code) ==
    CASE code = "OK"            -> CASE type = "PIN" -> "continue" [] type = "CAN" -> "can"
                                     [] OTHER -> "puk"
      [] code = "INVALID_PIN_3" -> "third"
      [] code \in WrongCodes \ {"PIN_NOT_BLOCKED", "INVALID_PIN_3"} -> "wrong"
      [] OTHER                  -> "failed"

PaceDone ==
    /\ Completes("pace")
    /\ LET type == Event.arg
           code == Event.code
           lost == code \in LostCodes
       IN  /\ ctx' = [ctx EXCEPT
                         !.lastPace = CASE code = "OK" /\ type = "CAN" -> "OK_CAN"
                                        [] code = "OK" /\ type = "PUK" -> "OK_PUK"
                                        [] OTHER                       -> code,
                         !.expected = IF code = "OK" /\ type = "PIN" /\ @ # NoReader THEN 3 ELSE @,
                         !.vanished = IF lost THEN @ + 1 ELSE 0]
           /\ IF lost THEN ResetConnection ELSE conn' = PaceFlags(conn, type, code = "OK")
           /\ LET mm == IF lost THEN Release(Rest) ELSE Rest
              IN  \/ m' = Fire(mm, ctx', "Establish", PaceSignal(type, code))
                  \/ (* isNpaRepositioningRequired: the timer of the second loss ran out *)
                     /\ lost /\ ctx'.vanished > 2
                     /\ m' = Fire(mm, ctx', "Establish", "unfortunate")
    /\ UNCHANGED Environment

ResetDone ==
    /\ Completes("reset")
    /\ \/ /\ Event.code = "OK"
          /\ ctx' = [ctx EXCEPT !.expected = IF @ = NoReader THEN @ ELSE -1]
          /\ Emit("ResetRetry", "continue") /\ UNCHANGED conn
       \/ /\ Event.code = "PUK_INOPERATIVE"
          /\ ctx' = OnAbort(UpdateStatus(ctx, "error"))
          /\ Emit("ResetRetry", "abort") /\ UNCHANGED conn
       \/ /\ Event.code = "COMMAND_FAILED"
          /\ ctx' = ctx
          /\ ResetConnection
          /\ m' = Fire(Release(Rest), ctx', "ResetRetry", "noCard")
    /\ UNCHANGED Environment

(* Variant: an answer that got lost is taken for success. *)
SetDoneHopeful ==
    /\ Completes("set")
    /\ \/ /\ Event.code \in {"OK", "RESPONSE_EMPTY"}
          /\ ctx' = ctx
          /\ Emit("ChangePin", "continue") /\ UNCHANGED conn
       \/ /\ Event.code = "COMMAND_FAILED"
          /\ ctx' = OnAbort(UpdateStatus(ctx, "error"))
          /\ Emit("ChangePin", "abort") /\ UNCHANGED conn
    /\ UNCHANGED Environment

SetDone ==
    /\ Completes("set")
    /\ \/ /\ Event.code = "OK"
          /\ ctx' = ctx
          /\ Emit("ChangePin", "continue") /\ UNCHANGED conn
       \/ /\ Event.code = "RESPONSE_EMPTY"
          /\ ctx' = ctx
          /\ ResetConnection
          /\ m' = Fire(Release(Rest), ctx', "ChangePin", "noCard")
       \/ /\ Event.code = "COMMAND_FAILED"
          /\ ctx' = OnAbort(UpdateStatus(ctx, "error"))
          /\ Emit("ChangePin", "abort") /\ UNCHANGED conn
    /\ UNCHANGED Environment

DestroyDone ==
    /\ Completes("destroy")
    /\ ctx' = ctx
    /\ Emit(Event.st, "continue")
    /\ UNCHANGED <<conn, Environment>>

(* ReaderManager::fireCardRemoved; the CardConnection updates its reader   *)
(* info first.  Only ConnectCard reacts (onUnusableCardConnectionLost).    *)
CardRemoved ==
    /\ Handles("removed")
    /\ seen' = FALSE
    /\ IF "ConnectCard" \in m.listening /\ ctx.reader
       THEN /\ ctx' = [ctx EXCEPT !.reader = FALSE]
            /\ conn' = NoConn
            /\ m' = Fire(Release(Rest), ctx', "ConnectCard", "retry")
       ELSE /\ conn' = IF conn = NoConn THEN conn ELSE [conn EXCEPT !.counter = -1]
            /\ m' = Rest /\ UNCHANGED ctx
    /\ UNCHANGED <<card, spent, faults, entries>>

CardInserted ==
    /\ Handles("inserted")
    /\ seen' = TRUE
    /\ conn' = IF conn = NoConn THEN conn ELSE [conn EXCEPT !.counter = Event.counter]
    /\ ctx' = [ctx EXCEPT !.reader = @ \/ "SelectReader" \in m.listening]
    /\ LET mm == IF "ConnectCard" \in m.listening THEN CreateConnection(Rest) ELSE Rest
       IN  m' = IF "SelectReader" \in m.listening
                THEN Fire(mm, ctx', "SelectReader", "continue")
                ELSE mm
    /\ UNCHANGED <<card, spent, faults, entries>>

-----------------------------------------------------------------------------
(* The user, the UIs and the card. *)

Running == m.cur \notin {"none", "stopped"}
Approved(mm) == Post([mm EXCEPT !.approved = TRUE], Run(mm.cur))

(* The UI sets the password the state asks for and approves it. *)
EnterPassword ==
    /\ m.cur = "EnterPassword" /\ ~m.approved
    /\ entries > 0 /\ entries' = entries - 1
    /\ \/ /\ ctx.paceType = "PIN"
          /\ \E pin \in Pins : ctx' = [ctx EXCEPT !.pin = pin]
          /\ spent' = 0
       \/ /\ ctx.paceType = "CAN"
          /\ \E can \in Secrets : ctx' = [ctx EXCEPT !.can = can]
          /\ UNCHANGED spent
       \/ /\ ctx.paceType = "PUK"
          /\ \E puk \in Secrets : ctx' = [ctx EXCEPT !.puk = puk]
          /\ UNCHANGED spent
    /\ m' = Approved(m)
    /\ UNCHANGED <<conn, seen, card, faults>>

EnterNewPin ==
    /\ m.cur = "EnterNewPin" /\ ~m.approved
    /\ ctx' = [ctx EXCEPT !.newPin = "new"]
    /\ m' = Approved(m)
    /\ UNCHANGED <<conn, seen, card, spent, faults, entries>>

(* The user confirms the hint that the card lies badly, or the result.     *)
Confirm ==
    /\ m.cur \in {"Unfortunate", "Final"} /\ ~m.approved
    /\ m' = Approved(m)
    /\ UNCHANGED <<ctx, conn, seen, card, spent, faults, entries>>

(* fireCancelWorkflow: the context notes it, then the state that is        *)
(* connected to it aborts, inside the same call.                           *)
CancelIn(mm, c) ==
    LET cc == [c EXCEPT !.cancelled = TRUE]
    IN  IF Running
        THEN /\ ctx' = OnUserCancelled(cc, mm.cur)
             /\ m' = Fire(mm, ctx', mm.cur, "abort")
        ELSE ctx' = cc /\ m' = mm

(* The graphical UI cancels; CANCEL of the SDK kills the workflow.         *)
CancelWorkflow ==
    /\ ctx.ui = "qml" /\ Running /\ ~ctx.cancelled
    /\ CancelIn(m, ctx)
    /\ UNCHANGED <<conn, seen, card, spent, faults, entries>>

(* killWorkflow: approve the state, then cancel. *)
KillWorkflow ==
    /\ m.cur # "stopped" /\ ~ctx.killed
    /\ LET c == [ctx EXCEPT !.killed = TRUE, !.status = "cancelled"]
       IN  CancelIn(IF m.approved THEN m
                    ELSE IF m.cur = "none" THEN [m EXCEPT !.approved = TRUE] ELSE Approved(m), c)
    /\ UNCHANGED <<conn, seen, card, spent, faults, entries>>

RemoveCard ==
    /\ m.cur # "stopped" /\ card.present /\ Fault
    /\ card' = [card EXCEPT !.present = FALSE, !.linked = FALSE, !.known = -1, !.session = Nothing]
    /\ m' = Post(m, Removed)
    /\ UNCHANGED <<ctx, conn, seen, spent, entries>>

(* Variant: the card is reported before its retry counter was read. *)
InsertCardUnread ==
    /\ m.cur # "stopped" /\ ~card.present
    /\ card' = [card EXCEPT !.present = TRUE]
    /\ m' = Post(m, Inserted(card.known))
    /\ UNCHANGED <<ctx, conn, seen, spent, faults, entries>>

(* PcscReader::updateCard fetches the card info and its retry counter.     *)
InsertCard ==
    /\ m.cur # "stopped" /\ ~card.present
    /\ card' = [card EXCEPT !.present = TRUE, !.known = card.tries]
    /\ m' = Post(m, Inserted(card.tries))
    /\ UNCHANGED <<ctx, conn, seen, spent, faults, entries>>

Terminated == m.cur = "stopped" /\ UNCHANGED vars

MainThread ==
    \/ RunMaintain \/ RunSelectReader \/ RunConnectCard \/ RunUpdateRetry \/ RunVerify
    \/ RunPreparePace \/ RunEstablish \/ RunUnfortunate \/ RunResetRetry \/ RunDestroy
    \/ RunClear \/ RunCheckError \/ RunPrepareChange \/ RunChangePin \/ RunCleanUp
    \/ RunContinue \/ HandleCancel
    \/ CreateDone \/ UpdateDone \/ PaceDone \/ ResetDone \/ SetDone \/ DestroyDone
    \/ CardRemoved \/ CardInserted

WorkerThread ==
    \/ ExecuteCreate \/ ExecuteRelease \/ ExecuteUpdate \/ ExecutePace \/ ExecuteReset
    \/ ExecuteSet \/ ExecuteDestroy

Users == EnterPassword \/ EnterNewPin \/ Confirm \/ CancelWorkflow \/ KillWorkflow

Next == Start \/ MainThread \/ WorkerThread \/ Users \/ RemoveCard \/ InsertCard \/ Terminated

Spec == Init /\ [][Next]_vars

(* Both event loops run; nothing is assumed of the user or of the card.    *)
Fairness == WF_vars(Start) /\ WF_vars(MainThread) /\ WF_vars(WorkerThread)
FairSpec == Spec /\ Fairness

-----------------------------------------------------------------------------
(* ~WorkflowContext and ~ChangePinContext assert "PACE passwords must be   *)
(* cleared as soon as possible": once the workflow reaches its final state *)
(* no password is left, even if the states that clear them were left by a  *)
(* cancellation before they ran.                                           *)
PasswordsCleared ==
    m.cur \in {"Final", "stopped"} => Cleared(ctx) = ctx

(* A PIN the user entered once never costs the card more than one wrong    *)
(* attempt, whatever is lost or removed in between: a second use of it is  *)
(* only possible while the counter shows that the first one did not count  *)
(* (StateVerifyRetryCounter).                                              *)
OneAttemptPerEntry == spent <= 1

(* The PIN is never sent to a card whose last attempt needs the CAN first, *)
(* nor when the card has none left (StatePreparePace::handleRetryCounter): *)
(* the counter the decision was based on is still the one of the card.     *)
SuspendedPinNeedsCan ==
    m.cmds # <<>> /\ Cmd.op = "pace" /\ Cmd.arg = "PIN" /\ card.linked =>
        card.tries > 1 \/ (card.tries = 1 /\ card.session = "CAN")

(* A workflow that ends without an error changed the PIN, unless it was    *)
(* only to check it, and then it never changes it.  One that ends with an  *)
(* error has a failure code, which the UIs report as the reason (asserted  *)
(* in StateCheckError and StateEstablishPaceChannel).                      *)
ResultIsTruthful ==
    /\ m.cur = "stopped" =>
           IF ctx.onlyCheck THEN card.pin = "old" ELSE ctx.status = "ok" => card.pin = "new"
    /\ m.cur \in {"CheckError", "Establish", "Final", "stopped"} /\ ctx.status # "ok" =>
           ctx.failure

(* AbstractState::onEntry asserts that the state has no connections left   *)
(* from an earlier stay: what a stale run() connected is never re-entered. *)
EnteredClean == [][m'.cur # m.cur => m'.cur \notin m.stray]_vars

(* A cancelled workflow gets to its result without anyone's help, if the   *)
(* late answer of a PACE command does not carry it on to the PIN change.   *)
NotOvertaken  == ctx.cancelled => m.cur # "PrepareChange"
CancelledEnds == []NotOvertaken => (ctx.cancelled ~> m.cur \in {"Final", "stopped"})

-----------------------------------------------------------------------------
(* Claims of comments, assertions and documents that the code does not     *)
(* keep.                                                                   *)

(* "success: Indicates with true that the PIN was successfully changed,    *)
(* otherwise false" (docs/sdk/messages.rst:384).                           *)
JsonSuccess == ctx.lastPace = "OK" /\ ~ctx.cancelled
SuccessMeansChanged == m.cur = "stopped" /\ JsonSuccess => card.pin = "new"

(* "Make sure the workflow runs to the end without user interaction"       *)
(* (AppController.cpp:315), of a workflow that is killed.                  *)
KilledWorkflowEnds == ctx.killed ~> m.cur = "stopped"
=============================================================================
