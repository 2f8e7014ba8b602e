-------------------------- MODULE ChangePinProofs --------------------------
(***************************************************************************)
(* Proofs about ChangePin: TypeOK, that no password is left once the       *)
(* workflow reaches its final state (PasswordsCleared), that its result is *)
(* the truth about the card (ResultIsTruthful), that a PIN costs at most   *)
(* one attempt for each time it is entered (OneAttemptPerEntry), and that  *)
(* no PIN reaches a suspended or blocked card (SuspendedPinNeedsCan).      *)
(***************************************************************************)
EXTENDS ChangePin, SequenceTheorems, TLAPS

(* The states at the end of the workflow, which are never left for another *)
(* state, and of these the ones a late signal can skip.                    *)
Last     == {"Clear", "UpdateFinal", "CleanUp", "Final"}
Over     == Last \cup {"stopped"}

(* What only a state at the end posts, after its predecessor was left.     *)
Late(e)  == e.type \in {"run", "cancel", "done"} /\ e.st \in Last /\ e # Run("Clear")

Remains(c)   == Cleared(c) # c
NoLate(q)    == \A j \in 1..Len(q) : ~Late(q[j])
NoLateCmd(q) == \A j \in 1..Len(q) : q[j].owner \notin Last
Due(q)       == \E i \in 1..Len(q) : q[i] = Run("Clear")
Safe(q)      == \A j \in 1..Len(q) : Late(q[j]) => \E i \in 1..(j - 1) : q[i] = Run("Clear")

(* Before Clear is entered nothing of the last states is under way ...     *)
NothingLate(mm) == mm.cur \notin Over => NoLate(mm.events) /\ NoLateCmd(mm.cmds)

(* ... and as long as a password remains, the run() of Clear comes before  *)
(* anything else that carries the workflow on: past Clear only the         *)
(* cancellation leads, past UpdateFinal only the end of a killed workflow, *)
(* and there is no third one.                                              *)
ClearComesFirst(mm, c) ==
    Remains(c) =>
        /\ Safe(mm.events) /\ NoLateCmd(mm.cmds)
        /\ mm.cur \in {"Clear", "UpdateFinal", "CleanUp"} => Due(mm.events)
        /\ mm.cur = "UpdateFinal" => c.cancelled
        /\ mm.cur = "CleanUp" => c.killed
        /\ mm.cur \notin {"Final", "stopped"}

SetCmds(q) == \A j \in 1..Len(q) : q[j].op = "set" => q[j].pw \in Pins \cup {Nothing}

IInv ==
    /\ TypeOK
    /\ SetCmds(m.cmds)
    /\ ctx.killed => ctx.cancelled
    /\ NothingLate(m)
    /\ ClearComesFirst(m, ctx)

Machines ==
    [cur : States \cup {"none", "stopped"}, approved : BOOLEAN, stray : SUBSET States,
     listening : SUBSET {"SelectReader", "ConnectCard"},
     events : Seq(Events), cmds : Seq(Commands)]
Contexts ==
    [ui : {"json", "qml"}, onlyCheck : BOOLEAN, killed : BOOLEAN, cancelled : BOOLEAN,
     inState : BOOLEAN, status : {"ok", "cancelled", "error"}, failure : BOOLEAN,
     lastPace : Codes, expected : -2..3, paceType : PaceTypes \cup {Nothing}, reader : BOOLEAN,
     pin : Pins \cup {Nothing}, can : Secrets \cup {Nothing}, puk : Secrets \cup {Nothing},
     newPin : Pins \cup {Nothing}, vanished : Nat]
Connections == [counter : -2..3, can : BOOLEAN, pin : BOOLEAN]
Cards ==
    [present : BOOLEAN, linked : BOOLEAN, tries : 0..3, known : -1..3, pin : Pins,
     session : PaceTypes \cup {Nothing}]

LEMMA TypeParts ==
    TypeOK <=> /\ m \in Machines /\ ctx \in Contexts /\ conn \in Connections
               /\ seen \in BOOLEAN /\ card \in Cards
               /\ spent \in Nat /\ faults \in Nat /\ entries \in Nat
  BY DEF TypeOK, Machines, Contexts, Connections, Cards

-----------------------------------------------------------------------------
(* The state graph. *)

LEMMA PaceStates ==
    Composite = {"Maintain", "SelectReader", "ConnectCard", "UpdateRetry", "Verify",
                 "PreparePace", "EnterPassword", "Establish", "Unfortunate", "ResetRetry",
                 "PaceDestroy", "PaceClear", "CheckError"}
  BY DEF Composite, PaceEdges

LEMMA ChangeStates ==
    DOMAIN ChangeEdges = {"PrepareChange", "EnterNewPin", "ChangePin", "Destroy", "Clear",
                          "UpdateFinal", "CleanUp", "Final"}
  BY DEF ChangeEdges

(* Where a signal leads: the last states are only entered in their order,  *)
(* each by a signal of the one before, and none of them is left again.     *)
LEMMA TargetFacts ==
    ASSUME NEW cur, NEW st \in States, NEW sig,
           NEW to, to = Target(cur, st, sig), to # "ignored"
    PROVE  /\ to \in States \cup {"stopped"}
           /\ cur \in States
           /\ to \notin Over => cur \notin Over
           /\ to = "Clear" => cur \notin Over
           /\ to = "UpdateFinal" => cur = st /\ st = "Clear"
           /\ to = "CleanUp" => cur = st /\ st = "UpdateFinal"
           /\ to = "Final" => cur = st /\ st = "CleanUp"
           /\ to = "stopped" => cur = st /\ st = "Final"
  <1>1. \A s \in Composite : \A g \in DOMAIN PaceEdges[s] : PaceEdges[s][g] \in Composite
    BY PaceStates DEF PaceEdges
  <1>2. \A s \in DOMAIN ChangeEdges : \A g \in DOMAIN ChangeEdges[s] :
            \A t : t = ChangeEdges[s][g] =>
                /\ t \in States \cup {"stopped"}
                /\ t \notin Over => s \notin Over
                /\ t = "Clear" => s \notin Over
                /\ t = "UpdateFinal" => s = "Clear"
                /\ t = "CleanUp" => s = "UpdateFinal"
                /\ t = "Final" => s = "CleanUp"
                /\ t = "stopped" => s = "Final"
    BY PaceStates, ChangeStates DEF States, ChangeEdges, Over, Last
  <1>3. \A s \in Composite : s \in States /\ s \notin Over /\ s # "stopped"
    BY PaceStates DEF States, Over, Last
  <1>4. "PrepareChange" \in States /\ "Clear" \in States /\ "PrepareChange" \notin Over
    BY ChangeStates DEF States, Over, Last
  <1>5. CASE st = "Establish" /\ sig = "continue"
    <2>1. to = "PrepareChange" /\ cur \in Composite
      BY <1>5 DEF Target
    <2> QED BY <2>1, <1>3, <1>4
  <1>6. CASE st = "CheckError" /\ sig = "abort"
    <2>1. to = "Clear" /\ cur \in Composite
      BY <1>6 DEF Target
    <2> QED BY <2>1, <1>3, <1>4
  <1>7. CASE ~(st = "Establish" /\ sig = "continue") /\ ~(st = "CheckError" /\ sig = "abort")
    <2>1. cur = st /\ sig \in DOMAIN Edges[st] /\ to = Edges[st][sig]
      BY <1>7 DEF Target
    <2>2. CASE st \in Composite
      <3>1. sig \in DOMAIN PaceEdges[st] /\ to = PaceEdges[st][sig]
        BY <2>1, <2>2 DEF Edges, States
      <3> QED BY <3>1, <2>1, <2>2, <1>1, <1>3 DEF Over, Last
    <2>3. CASE st \notin Composite
      <3>1. st \in DOMAIN ChangeEdges /\ sig \in DOMAIN ChangeEdges[st] /\ to = ChangeEdges[st][sig]
        BY <2>1, <2>3 DEF Edges, States
      <3>2. cur = st /\ st \in States
        BY <2>1
      <3> QED BY ONLY <3>1, <3>2, <1>2
    <2> QED BY <2>2, <2>3
  <1> QED BY <1>5, <1>6, <1>7

-----------------------------------------------------------------------------
(* Queues. *)

LEMMA TailFacts ==
    ASSUME NEW S, NEW q \in Seq(S), q # <<>>
    PROVE  /\ Tail(q) \in Seq(S) /\ Head(q) \in S /\ Len(q) \in Nat /\ Len(q) >= 1
           /\ Len(Tail(q)) = Len(q) - 1 /\ Head(q) = q[1]
           /\ \A j \in 1..Len(Tail(q)) : j + 1 \in 1..Len(q) /\ Tail(q)[j] = q[j + 1]
  <1>1. Tail(q) \in Seq(S) /\ Head(q) \in S /\ Len(q) \in Nat /\ Len(q) >= 1
    OBVIOUS
  <1>2. Len(Tail(q)) = Len(q) - 1 /\ Head(q) = q[1]
    OBVIOUS
  <1>3. \A j \in 1..Len(Tail(q)) : j + 1 \in 1..Len(q) /\ Tail(q)[j] = q[j + 1]
    OBVIOUS
  <1> QED BY <1>1, <1>2, <1>3

LEMMA AppendFacts ==
    ASSUME NEW S, NEW q \in Seq(S), NEW e \in S
    PROVE  /\ Append(q, e) \in Seq(S) /\ Len(Append(q, e)) = Len(q) + 1 /\ Len(q) \in Nat
           /\ \A j \in 1..(Len(q) + 1) :
                  Append(q, e)[j] = IF j = Len(q) + 1 THEN e ELSE q[j]
  OBVIOUS

(* The first event is handled: unless it is the run() of Clear, what is    *)
(* left is as ordered as before.                                           *)
LEMMA SafeTail ==
    ASSUME NEW S, NEW q \in Seq(S), q # <<>>
    PROVE  /\ NoLate(q) => NoLate(Tail(q)) /\ ~Late(Head(q))
           /\ NoLateCmd(q) => NoLateCmd(Tail(q))
           /\ SetCmds(q) => SetCmds(Tail(q))
           /\ Safe(q) => ~Late(Head(q))
           /\ Head(q) # Run("Clear") => /\ Due(q) => Due(Tail(q))
                                        /\ Safe(q) => Safe(Tail(q))
  <1>0. /\ Len(q) \in Nat /\ Len(q) >= 1 /\ Len(Tail(q)) = Len(q) - 1 /\ Head(q) = q[1]
        /\ \A j \in 1..Len(Tail(q)) : j + 1 \in 1..Len(q) /\ Tail(q)[j] = q[j + 1]
    BY TailFacts
  <1>1. NoLate(q) => NoLate(Tail(q)) /\ ~Late(Head(q))
    BY <1>0 DEF NoLate
  <1>2. NoLateCmd(q) => NoLateCmd(Tail(q))
    BY <1>0 DEF NoLateCmd
  <1>3. SetCmds(q) => SetCmds(Tail(q))
    BY <1>0 DEF SetCmds
  <1>4. Safe(q) => ~Late(Head(q))
    BY <1>0 DEF Safe
  <1>5. ASSUME Head(q) # Run("Clear")
        PROVE  (Due(q) => Due(Tail(q))) /\ (Safe(q) => Safe(Tail(q)))
    <2>1. \A i \in 1..Len(q) : q[i] = Run("Clear") => i - 1 \in 1..Len(Tail(q)) /\ Tail(q)[i - 1] = Run("Clear")
      <3> SUFFICES ASSUME NEW i \in 1..Len(q), q[i] = Run("Clear")
                   PROVE  i - 1 \in 1..Len(Tail(q)) /\ Tail(q)[i - 1] = Run("Clear")
        OBVIOUS
      <3>1. i # 1
        BY <1>0, <1>5
      <3>2. i - 1 \in 1..Len(Tail(q)) /\ (i - 1) + 1 = i
        BY <3>1, <1>0
      <3> QED BY <3>2, <1>0
    <2>2. Due(q) => Due(Tail(q))
      BY <2>1 DEF Due
    <2>3. ASSUME Safe(q), NEW j \in 1..Len(Tail(q)), Late(Tail(q)[j])
          PROVE  \E i \in 1..(j - 1) : Tail(q)[i] = Run("Clear")
      <3>1. j + 1 \in 1..Len(q) /\ Late(q[j + 1])
        BY <1>0, <2>3
      <3>2. PICK i \in 1..((j + 1) - 1) : q[i] = Run("Clear")
        BY <3>1, <2>3 DEF Safe
      <3>3. i \in 1..Len(q) /\ j \in 1..(Len(q) - 1)
        BY <3>1, <1>0
      <3>4. i - 1 \in 1..Len(Tail(q)) /\ Tail(q)[i - 1] = Run("Clear")
        BY <3>2, <3>3, <2>1
      <3>5. i - 1 \in 1..(j - 1)
        BY <3>4, <3>3, <1>0
      <3> QED BY <3>4, <3>5
    <2>4. Safe(q) => Safe(Tail(q))
      BY <2>3 DEF Safe
    <2> QED BY <2>2, <2>4
  <1> QED BY <1>1, <1>2, <1>3, <1>4, <1>5

LEMMA SafeAppend ==
    ASSUME NEW S, NEW q \in Seq(S), NEW e \in S
    PROVE  /\ NoLate(q) /\ ~Late(e) => NoLate(Append(q, e))
           /\ Due(q) \/ e = Run("Clear") => Due(Append(q, e))
           /\ Safe(q) /\ (Due(q) \/ ~Late(e)) => Safe(Append(q, e))
           /\ NoLateCmd(q) /\ e.owner \notin Last => NoLateCmd(Append(q, e))
           /\ SetCmds(q) /\ (e.op = "set" => e.pw \in Pins \cup {Nothing}) => SetCmds(Append(q, e))
  <1> DEFINE r == Append(q, e)
  <1>0. /\ Len(r) = Len(q) + 1 /\ Len(q) \in Nat
        /\ \A j \in 1..(Len(q) + 1) : r[j] = IF j = Len(q) + 1 THEN e ELSE q[j]
    BY AppendFacts
  <1>00. /\ r[Len(q) + 1] = e /\ \A j \in 1..Len(q) : r[j] = q[j]
         /\ 1..Len(r) = 1..Len(q) \cup {Len(q) + 1}
    BY <1>0
  <1> HIDE DEF r
  <1>1. NoLate(q) /\ ~Late(e) => NoLate(r)
    BY <1>00 DEF NoLate
  <1>2. Due(q) \/ e = Run("Clear") => Due(r)
    BY <1>00 DEF Due
  <1>3. ASSUME Safe(q), Due(q) \/ ~Late(e) PROVE Safe(r)
    <2> SUFFICES ASSUME NEW j \in 1..Len(r), Late(r[j])
                 PROVE  \E i \in 1..(j - 1) : r[i] = Run("Clear")
      BY DEF Safe
    <2>1. CASE j = Len(q) + 1
      <3>1. PICK i \in 1..Len(q) : q[i] = Run("Clear")
        BY <2>1, <1>3, <1>00 DEF Due
      <3>2. i \in 1..(j - 1) /\ r[i] = Run("Clear")
        BY <3>1, <2>1, <1>0, <1>00
      <3> QED BY <3>2
    <2>2. CASE j \in 1..Len(q)
      <3>1. PICK i \in 1..(j - 1) : q[i] = Run("Clear")
        BY <2>2, <1>3, <1>00 DEF Safe
      <3>2. i \in 1..Len(q)
        BY <3>1, <2>2, <1>0
      <3> QED BY <3>1, <3>2, <1>00
    <2> QED BY <2>1, <2>2, <1>00
  <1>4. NoLateCmd(q) /\ e.owner \notin Last => NoLateCmd(r)
    BY <1>00 DEF NoLateCmd
  <1>5. SetCmds(q) /\ (e.op = "set" => e.pw \in Pins \cup {Nothing}) => SetCmds(r)
    BY <1>00 DEF SetCmds
  <1> QED BY <1>1, <1>2, <1>3, <1>4, <1>5 DEF r

-----------------------------------------------------------------------------
(* What the operators on the machine do to it. *)

LEMMA EventKinds ==
    /\ \A s \in States : Run(s) \in Events /\ Cancel(s) \in Events
    /\ \A s \in States : Late(Run(s)) => s \in Last \ {"Clear"}
    /\ \A s \in States : Late(Cancel(s)) => s \in Last
    /\ \A s \in States : Run(s) = Run("Clear") => s = "Clear"
    /\ Removed \in Events /\ ~Late(Removed) /\ Removed # Run("Clear")
    /\ \A n \in 0..3 : Inserted(n) \in Events /\ ~Late(Inserted(n)) /\ Inserted(n) # Run("Clear")
  <1>1. \A s \in States : Run(s) \in Events /\ Cancel(s) \in Events
    BY DEF Events, Run, Cancel
  <1>2. \A s \in States : /\ Late(Run(s)) => s \in Last \ {"Clear"}
                          /\ Late(Cancel(s)) => s \in Last
                          /\ Run(s) = Run("Clear") => s = "Clear"
    BY DEF Late, Run, Cancel
  <1>3. /\ Removed \in Events /\ ~Late(Removed) /\ Removed # Run("Clear")
    BY DEF Late, Events, Removed, Run
  <1>4. \A n \in 0..3 : Inserted(n) \in Events /\ ~Late(Inserted(n)) /\ Inserted(n) # Run("Clear")
    BY DEF Late, Events, Inserted, Run
  <1> QED BY <1>1, <1>2, <1>3, <1>4

LEMMA LastStates ==
    /\ \A s \in Last : s \in States
    /\ "Clear" \notin Waiting /\ "UpdateFinal" \notin Waiting /\ "CleanUp" \notin Waiting
  BY ChangeStates DEF Last, States, Waiting

LEMMA PostFacts ==
    ASSUME NEW mm \in Machines, NEW e \in Events
    PROVE  /\ Post(mm, e) \in Machines
           /\ Post(mm, e).cur = mm.cur /\ Post(mm, e).cmds = mm.cmds
           /\ Post(mm, e).events = Append(mm.events, e)
           /\ Post(mm, e).approved = mm.approved
  <1>1. Append(mm.events, e) \in Seq(Events)
    BY AppendFacts DEF Machines
  <1> QED BY <1>1 DEF Post, Machines

LEMMA SendFacts ==
    ASSUME NEW mm \in Machines, NEW c \in Commands, NEW st \in States
    PROVE  /\ Send(mm, st, c) \in Machines
           /\ Send(mm, st, c).cur = mm.cur /\ Send(mm, st, c).events = mm.events
           /\ Send(mm, st, c).cmds = Append(mm.cmds, c)
  <1>1. Append(mm.cmds, c) \in Seq(Commands)
    BY AppendFacts DEF Machines
  <1> QED BY <1>1 DEF Send, Machines

LEMMA ExitFacts ==
    ASSUME NEW mm \in Machines
    PROVE  /\ Exit(mm) \in Machines
           /\ Exit(mm).cur = mm.cur /\ ~Exit(mm).approved /\ Exit(mm).events = mm.events
           /\ Len(Exit(mm).cmds) = Len(mm.cmds)
           /\ \A j \in 1..Len(mm.cmds) :
                  /\ Exit(mm).cmds[j].owner = mm.cmds[j].owner
                  /\ Exit(mm).cmds[j].op = mm.cmds[j].op
                  /\ Exit(mm).cmds[j].pw = mm.cmds[j].pw
  <1> DEFINE cut(j) == [mm.cmds[j] EXCEPT !.wired = @ /\ mm.cmds[j].owner # mm.cur]
             q == Disconnected(mm.cmds, mm.cur)
  <1>1. mm.cmds \in Seq(Commands) /\ DOMAIN mm.cmds = 1..Len(mm.cmds) /\ Len(mm.cmds) \in Nat
    BY DEF Machines
  <1>2. \A j \in 1..Len(mm.cmds) : /\ cut(j) \in Commands
                                   /\ cut(j).owner = mm.cmds[j].owner
                                   /\ cut(j).op = mm.cmds[j].op
                                   /\ cut(j).pw = mm.cmds[j].pw
    <2> SUFFICES ASSUME NEW j \in 1..Len(mm.cmds)
                 PROVE  /\ cut(j) \in Commands
                        /\ cut(j).owner = mm.cmds[j].owner
                        /\ cut(j).op = mm.cmds[j].op
                        /\ cut(j).pw = mm.cmds[j].pw
      OBVIOUS
    <2>1. mm.cmds[j] \in Commands
      BY <1>1
    <2> QED BY <2>1 DEF Commands
  <1>0. q = [j \in DOMAIN mm.cmds |-> cut(j)]
    BY DEF Disconnected
  <1> HIDE DEF cut, q
  <1>3. q \in Seq(Commands) /\ Len(q) = Len(mm.cmds)
    <2>1. q \in [1..Len(mm.cmds) -> Commands]
      BY <1>0, <1>1, <1>2
    <2>2. q \in Seq(Commands)
      BY <2>1, <1>1
    <2> QED BY <2>1, <2>2, <1>1
  <1>4. \A j \in 1..Len(mm.cmds) : q[j] = cut(j)
    BY <1>0, <1>1
  <1>5. Exit(mm) = [mm EXCEPT !.approved = FALSE, !.stray = @ \ {mm.cur},
                              !.listening = @ \ {mm.cur}, !.cmds = q]
    BY DEF Exit, q
  <1>6. Exit(mm).cmds = q
    BY <1>5 DEF Machines
  <1>7. Exit(mm) \in Machines /\ Exit(mm).cur = mm.cur /\ ~Exit(mm).approved /\ Exit(mm).events = mm.events
    <2>1. mm.stray \ {mm.cur} \in SUBSET States /\ mm.listening \ {mm.cur} \in SUBSET {"SelectReader", "ConnectCard"}
      BY DEF Machines
    <2> QED BY <1>5, <1>3, <2>1 DEF Machines
  <1> QED BY <1>2, <1>3, <1>4, <1>6, <1>7

LEMMA EnterFacts ==
    ASSUME NEW mm \in Machines, NEW c \in Contexts, NEW st \in States
    PROVE  LET q == IF ~mm.approved /\ (st \notin Waiting \/ c.killed)
                    THEN Append(mm.events, Run(st)) ELSE mm.events
           IN  /\ Enter(mm, c, st) \in Machines
               /\ Enter(mm, c, st).cur = st /\ Enter(mm, c, st).cmds = mm.cmds
               /\ q \in Seq(Events)
               /\ Enter(mm, c, st).events \in {q, Append(q, Cancel(st))}
  <1> DEFINE q == IF ~mm.approved /\ (st \notin Waiting \/ c.killed)
                  THEN Append(mm.events, Run(st)) ELSE mm.events
             approved == mm.approved \/ st \notin Waiting \/ c.killed
             runs     == IF approved /\ ~mm.approved THEN <<Run(st)>> ELSE <<>>
             cancels  == IF c.cancelled /\ ~c.inState THEN <<Cancel(st)>> ELSE <<>>
  <1>1. mm.events \in Seq(Events) /\ Run(st) \in Events /\ Cancel(st) \in Events
    BY EventKinds DEF Machines
  <1>2. mm.approved \in BOOLEAN /\ c.killed \in BOOLEAN /\ approved \in BOOLEAN
    BY DEF Machines, Contexts
  <1>3. mm.events \o runs = q /\ q \in Seq(Events)
    <2>1. CASE approved /\ ~mm.approved
      <3>1. runs = <<Run(st)>> /\ q = Append(mm.events, Run(st))
        BY <2>1
      <3> QED BY <3>1, <1>1, AppendIsConcat, AppendFacts
    <2>2. CASE ~(approved /\ ~mm.approved)
      <3>1. runs = <<>> /\ q = mm.events
        BY <2>2
      <3> QED BY <3>1, <1>1, ConcatEmptySeq
    <2> QED BY <2>1, <2>2
  <1> HIDE DEF q
  <1>4. q \o cancels \in {q, Append(q, Cancel(st))} /\ q \o cancels \in Seq(Events)
    <2>1. CASE c.cancelled /\ ~c.inState
      <3>1. cancels = <<Cancel(st)>>
        BY <2>1
      <3>2. q \o cancels = Append(q, Cancel(st)) /\ Append(q, Cancel(st)) \in Seq(Events)
        BY <3>1, <1>1, <1>3, AppendIsConcat, AppendFacts
      <3> QED BY <3>2
    <2>2. CASE ~(c.cancelled /\ ~c.inState)
      <3>1. cancels = <<>>
        BY <2>2
      <3> QED BY <3>1, <1>3, ConcatEmptySeq
    <2> QED BY <2>1, <2>2
  <1>5. Enter(mm, c, st) = [mm EXCEPT !.cur = st, !.approved = approved,
                                      !.events = (mm.events \o runs) \o cancels]
    BY DEF Enter
  <1> HIDE DEF runs, cancels, approved
  <1>6. Enter(mm, c, st) \in Machines
    BY <1>5, <1>2, <1>3, <1>4 DEF Machines
  <1>7. /\ Enter(mm, c, st).cur = st /\ Enter(mm, c, st).cmds = mm.cmds
        /\ Enter(mm, c, st).events = q \o cancels
    BY <1>5, <1>3 DEF Machines
  <1> QED BY <1>3, <1>4, <1>6, <1>7 DEF q

-----------------------------------------------------------------------------
(* The order of the events through the operators.                          *)

Good(mm, c) ==
    /\ mm \in Machines /\ SetCmds(mm.cmds)
    /\ NothingLate(mm) /\ ClearComesFirst(mm, c)

(* The signal may be emitted: while a password remains, Clear is only left *)
(* by a cancellation and UpdateFinal only by the end of a killed workflow. *)
MayLeave(mm, c, st) ==
    Remains(c) /\ mm.cur = st =>
        /\ st = "Clear" => c.cancelled
        /\ st = "UpdateFinal" => c.killed
        /\ st # "CleanUp"

LEMMA FireGood ==
    ASSUME NEW mm, NEW c \in Contexts, NEW st \in States, NEW sig,
           Good(mm, c), MayLeave(mm, c, st)
    PROVE  Good(Fire(mm, c, st, sig), c)
  <1> DEFINE to == Target(mm.cur, st, sig)
             e  == Exit(mm)
  <1>0. mm \in Machines
    BY DEF Good
  <1>1. CASE to = "ignored"
    BY <1>1 DEF Fire
  <1>2. /\ e \in Machines /\ e.cur = mm.cur /\ ~e.approved /\ e.events = mm.events
        /\ Len(e.cmds) = Len(mm.cmds)
        /\ \A j \in 1..Len(mm.cmds) : /\ e.cmds[j].owner = mm.cmds[j].owner
                                      /\ e.cmds[j].op = mm.cmds[j].op
                                      /\ e.cmds[j].pw = mm.cmds[j].pw
    BY <1>0, ExitFacts
  <1>3. SetCmds(e.cmds) /\ (NoLateCmd(mm.cmds) => NoLateCmd(e.cmds))
    BY <1>2 DEF SetCmds, NoLateCmd, Good
  <1>4. ASSUME to # "ignored"
        PROVE  /\ to \in States \cup {"stopped"}
               /\ mm.cur \in States
               /\ to \notin Over => mm.cur \notin Over
               /\ to = "Clear" => mm.cur \notin Over
               /\ to = "UpdateFinal" => mm.cur = st /\ st = "Clear"
               /\ to = "CleanUp" => mm.cur = st /\ st = "UpdateFinal"
               /\ to = "Final" => mm.cur = st /\ st = "CleanUp"
               /\ to = "stopped" => mm.cur = st /\ st = "Final"
    BY <1>4, TargetFacts
  <1> HIDE DEF e, to
  <1>5. CASE to = "stopped"
    <2>1. Fire(mm, c, st, sig) = [e EXCEPT !.cur = "stopped"]
      BY <1>5 DEF Fire, to, e
    <2>2. /\ [e EXCEPT !.cur = "stopped"] \in Machines
          /\ [e EXCEPT !.cur = "stopped"].cur = "stopped"
          /\ [e EXCEPT !.cur = "stopped"].cmds = e.cmds
      BY <1>2 DEF Machines
    <2>3. ~Remains(c)
      BY <1>4, <1>5 DEF Good, ClearComesFirst
    <2>4. "stopped" \in Over
      BY DEF Over
    <2> QED BY <2>1, <2>2, <2>3, <2>4, <1>3 DEF Good, NothingLate, ClearComesFirst
  <1>6. CASE to \notin {"ignored", "stopped"}
    <2> DEFINE new == Enter(e, c, to)
               q   == IF ~e.approved /\ (to \notin Waiting \/ c.killed)
                      THEN Append(e.events, Run(to)) ELSE e.events
    <2>0. Fire(mm, c, st, sig) = new /\ to \in States
      BY <1>4, <1>6 DEF Fire, to, e
    <2>1. /\ new \in Machines /\ new.cur = to /\ new.cmds = e.cmds
          /\ q \in Seq(Events) /\ new.events \in {q, Append(q, Cancel(to))}
      BY <1>2, <2>0, EnterFacts
    <2>2. e.events \in Seq(Events) /\ Run(to) \in Events /\ Cancel(to) \in Events
      BY <1>2, <2>0, EventKinds DEF Machines
    <2>3. /\ to \notin Last => ~Late(Run(to)) /\ ~Late(Cancel(to))
          /\ ~Late(Run("Clear"))
      BY <2>0, EventKinds, LastStates DEF Last
    <2>4. to = "Clear" => q = Append(e.events, Run("Clear"))
      BY <1>2, LastStates
    <2>5. q \in {e.events, Append(e.events, Run(to))}
      OBVIOUS
    <2> HIDE DEF q, new
    <2>6. NothingLate(new)
      <3> SUFFICES ASSUME to \notin Over
                   PROVE  NoLate(new.events) /\ NoLateCmd(new.cmds)
        BY <2>1 DEF NothingLate
      <3>1. mm.cur \notin Over /\ NoLate(mm.events) /\ NoLateCmd(mm.cmds) /\ to \notin Last
        BY <1>4, <1>6 DEF Good, NothingLate, Over
      <3>2. NoLate(q)
        BY <2>2, <2>3, <2>5, <3>1, <1>2, SafeAppend
      <3>3. NoLate(new.events)
        BY <2>1, <2>2, <2>3, <3>1, <3>2, SafeAppend
      <3> QED BY <3>1, <3>3, <1>3, <2>1
    <2>7. ASSUME Remains(c)
          PROVE  /\ Safe(new.events) /\ NoLateCmd(new.cmds)
                 /\ to \in {"Clear", "UpdateFinal", "CleanUp"} => Due(new.events)
                 /\ to = "UpdateFinal" => c.cancelled
                 /\ to = "CleanUp" => c.killed
                 /\ to # "Final"
      <3>1. /\ Safe(e.events) /\ NoLateCmd(new.cmds)
            /\ mm.cur \in {"Clear", "UpdateFinal", "CleanUp"} => Due(e.events)
        BY <2>7, <1>2, <1>3, <2>1 DEF Good, ClearComesFirst
      <3>2. to # "Final" /\ (to = "UpdateFinal" => c.cancelled) /\ (to = "CleanUp" => c.killed)
        BY <1>4, <1>6, <2>7 DEF MayLeave
      <3>3. to \in {"UpdateFinal", "CleanUp"} => Due(e.events)
        BY <1>4, <1>6, <3>1
      <3>4. to \in {"Clear", "UpdateFinal", "CleanUp"} => Due(q)
        BY <3>3, <2>2, <2>4, <2>5, SafeAppend
      <3>5. to \in Last => to \in {"Clear", "UpdateFinal", "CleanUp"}
        BY <3>2 DEF Last
      <3>6. Safe(q)
        <4>1. CASE to = "Clear"
          BY <4>1, <2>2, <2>3, <2>4, <3>1, SafeAppend
        <4>2. CASE to # "Clear"
          <5>1. to \in Last => Due(e.events)
            BY <4>2, <3>3, <3>5
          <5> QED BY <5>1, <2>2, <2>3, <2>5, <3>1, SafeAppend
        <4> QED BY <4>1, <4>2
      <3>7. to \in Last => Due(q)
        BY <3>4, <3>5
      <3>8. Safe(new.events)
        BY <3>6, <3>7, <2>1, <2>2, <2>3, SafeAppend
      <3>9. to \in {"Clear", "UpdateFinal", "CleanUp"} => Due(new.events)
        BY <3>4, <2>1, <2>2, SafeAppend
      <3> QED BY <3>1, <3>2, <3>8, <3>9
    <2>8. ClearComesFirst(new, c)
      BY <2>1, <2>7, <1>6 DEF ClearComesFirst
    <2> QED BY <2>0, <2>1, <2>6, <2>8, <1>3 DEF Good
  <1> QED BY <1>1, <1>5, <1>6

LEMMA PostGood ==
    ASSUME NEW mm, NEW c, NEW e \in Events,
           Good(mm, c),
           Late(e) => mm.cur \in Over /\ (Remains(c) => Due(mm.events))
    PROVE  Good(Post(mm, e), c)
  <1>1. /\ mm \in Machines /\ Post(mm, e) \in Machines
        /\ Post(mm, e).cur = mm.cur /\ Post(mm, e).cmds = mm.cmds
        /\ Post(mm, e).events = Append(mm.events, e)
        /\ mm.events \in Seq(Events)
    BY PostFacts DEF Good, Machines
  <1>2. NothingLate(Post(mm, e))
    BY <1>1, SafeAppend DEF Good, NothingLate
  <1>3. ClearComesFirst(Post(mm, e), c)
    BY <1>1, SafeAppend DEF Good, ClearComesFirst
  <1> QED BY <1>1, <1>2, <1>3 DEF Good

LEMMA SendGood ==
    ASSUME NEW mm, NEW c, NEW st \in States, NEW cmd \in Commands,
           Good(mm, c),
           cmd.op = "set" => cmd.pw \in Pins \cup {Nothing},
           cmd.owner \in Last => mm.cur \in Over /\ ~Remains(c)
    PROVE  Good(Send(mm, st, cmd), c)
  <1>1. /\ mm \in Machines /\ Send(mm, st, cmd) \in Machines
        /\ Send(mm, st, cmd).cur = mm.cur /\ Send(mm, st, cmd).events = mm.events
        /\ Send(mm, st, cmd).cmds = Append(mm.cmds, cmd)
        /\ mm.cmds \in Seq(Commands)
    BY SendFacts DEF Good, Machines
  <1>2. NothingLate(Send(mm, st, cmd))
    BY <1>1, SafeAppend DEF Good, NothingLate
  <1>3. ClearComesFirst(Send(mm, st, cmd), c)
    BY <1>1, SafeAppend DEF Good, ClearComesFirst
  <1>4. SetCmds(Append(mm.cmds, cmd))
    BY <1>1, SafeAppend DEF Good
  <1> QED BY <1>1, <1>2, <1>3, <1>4 DEF Good

LEMMA CommandType ==
    ASSUME NEW op \in {"create", "update", "pace", "reset", "set", "destroy", "release"},
           NEW st \in States, NEW arg \in PaceTypes \cup {Nothing},
           NEW pw \in Pins \cup Secrets \cup {Nothing}
    PROVE  /\ Command(op, st, arg, pw) \in Commands
           /\ Command(op, st, arg, pw).op = op /\ Command(op, st, arg, pw).owner = st
           /\ Command(op, st, arg, pw).pw = pw
           /\ [Command(op, st, arg, pw) EXCEPT !.wired = FALSE] \in Commands
           /\ [Command(op, st, arg, pw) EXCEPT !.wired = FALSE].op = op
           /\ [Command(op, st, arg, pw) EXCEPT !.wired = FALSE].owner = st
  BY DEF Command, Commands

LEMMA MaintainState ==
    \A s \in {"Maintain", "SelectReader", "ConnectCard", "UpdateRetry", "Verify", "PreparePace",
              "EnterPassword", "Establish", "Unfortunate", "ResetRetry", "PaceDestroy",
              "PaceClear", "CheckError", "PrepareChange", "EnterNewPin", "ChangePin", "Destroy"} :
        s \in States \ Last
  BY PaceStates, ChangeStates DEF States, Last

LEMMA ReleaseGood ==
    ASSUME NEW mm, NEW c, Good(mm, c)
    PROVE  Good(Release(mm), c) /\ Release(mm).cur = mm.cur
  <1> DEFINE cmd == [Command("release", "Maintain", Nothing, Nothing) EXCEPT !.wired = FALSE]
  <1>1. cmd \in Commands /\ cmd.op = "release" /\ cmd.owner = "Maintain"
    BY MaintainState, CommandType
  <1>2. "Maintain" \notin Last
    BY MaintainState
  <1> HIDE DEF cmd
  <1>3. CASE conn = NoConn
    BY <1>3 DEF Release
  <1>4. CASE conn # NoConn
    <2>1. Release(mm) = [mm EXCEPT !.cmds = Append(@, cmd)]
      BY <1>4 DEF Release, cmd
    <2>2. mm \in Machines /\ mm.cmds \in Seq(Commands)
      BY DEF Good, Machines
    <2>3. Append(mm.cmds, cmd) \in Seq(Commands)
      BY <2>2, <1>1, AppendFacts
    <2>4. /\ Release(mm) \in Machines /\ Release(mm).cur = mm.cur
          /\ Release(mm).events = mm.events /\ Release(mm).cmds = Append(mm.cmds, cmd)
      BY <2>1, <2>2, <2>3 DEF Machines
    <2>5. NothingLate(Release(mm))
      BY <2>2, <2>4, <1>1, <1>2, SafeAppend DEF Good, NothingLate
    <2>6. ClearComesFirst(Release(mm), c)
      BY <2>2, <2>4, <1>1, <1>2, SafeAppend DEF Good, ClearComesFirst
    <2>7. SetCmds(Release(mm).cmds)
      BY <2>2, <2>4, <1>1, SafeAppend DEF Good
    <2> QED BY <2>4, <2>5, <2>6, <2>7 DEF Good
  <1> QED BY <1>3, <1>4

-----------------------------------------------------------------------------
(* One event is handled.                                                   *)

LEMMA RemainsFacts ==
    ASSUME NEW c \in Contexts
    PROVE  /\ Remains(c) <=> \/ c.pin # Nothing \/ c.can # Nothing
                             \/ c.puk # Nothing \/ c.newPin # Nothing
           /\ Cleared(c) \in Contexts /\ ~Remains(Cleared(c))
           /\ Cleared(c).killed = c.killed /\ Cleared(c).cancelled = c.cancelled
  BY DEF Remains, Cleared, Contexts

LEMMA EventFields ==
    ASSUME NEW e \in Events
    PROVE  /\ e.type \in {"run", "cancel"} => e.st \in States
           /\ e.type = "inserted" => e.counter \in 0..3
           /\ e.type = "done" =>
                  /\ e.st \in States /\ e.code \in Codes /\ e.counter \in -2..3
                  /\ e.op \in {"create", "update", "pace", "reset", "set", "destroy"}
                  /\ e.arg \in PaceTypes \cup {Nothing}
           /\ e = Run("Clear") => e.type = "run" /\ e.st = "Clear"
  BY DEF Events, Removed, Run

(* What a handler makes of the context: it enters no password and cancels  *)
(* nothing, and clears the passwords if it is the run() of Clear.          *)
Kept(c) ==
    /\ c \in Contexts
    /\ c.killed = ctx.killed /\ c.cancelled = ctx.cancelled
    /\ Remains(c) => Remains(ctx) /\ Event # Run("Clear")

(* Two contexts with the same passwords and cancellations. *)
Alike(c, d) ==
    /\ c.killed = d.killed /\ c.cancelled = d.cancelled
    /\ c.pin = d.pin /\ c.can = d.can /\ c.puk = d.puk /\ c.newPin = d.newPin

LEMMA SamePasswords ==
    ASSUME ctx \in Contexts, NEW c \in Contexts, Alike(c, ctx), Event # Run("Clear")
    PROVE  Kept(c)
  BY RemainsFacts DEF Kept, Alike

LEMMA UpdateStatusFacts ==
    ASSUME NEW c \in Contexts, NEW status \in {"ok", "cancelled", "error"}
    PROVE  UpdateStatus(c, status) \in Contexts /\ Alike(UpdateStatus(c, status), c)
  BY DEF UpdateStatus, Contexts, Alike

LEMMA OnAbortFacts ==
    ASSUME NEW c \in Contexts
    PROVE  OnAbort(c) \in Contexts /\ Alike(OnAbort(c), c)
  BY DEF OnAbort, Contexts, Alike

LEMMA StatusFacts ==
    ASSUME NEW c \in Contexts, NEW st
    PROVE  /\ OnAbort(UpdateStatus(c, "error")) \in Contexts
           /\ Alike(OnAbort(UpdateStatus(c, "error")), c)
           /\ OnUserCancelled(c, st) \in Contexts
           /\ Alike(OnUserCancelled(c, st), c)
  <1>1. OnAbort(UpdateStatus(c, "error")) \in Contexts /\ Alike(OnAbort(UpdateStatus(c, "error")), c)
    BY UpdateStatusFacts, OnAbortFacts DEF Alike
  <1> DEFINE cc == IF st = "Establish" THEN [c EXCEPT !.lastPace = "CANCELLATION_BY_USER"] ELSE c
             d  == [cc EXCEPT !.inState = TRUE]
  <1>2. "CANCELLATION_BY_USER" \in Codes
    BY DEF Codes, FatalCodes
  <1>3. [c EXCEPT !.lastPace = "CANCELLATION_BY_USER"] \in Contexts
    BY <1>2 DEF Contexts
  <1>4. Alike([c EXCEPT !.lastPace = "CANCELLATION_BY_USER"], c) /\ Alike(c, c)
    BY DEF Contexts, Alike
  <1>5. cc \in Contexts /\ Alike(cc, c)
    BY <1>3, <1>4
  <1> HIDE DEF cc
  <1>6. d \in Contexts /\ Alike(d, cc)
    BY <1>5 DEF Contexts, Alike
  <1>7. OnUserCancelled(c, st) = OnAbort(UpdateStatus(d, "cancelled"))
    BY DEF OnUserCancelled, cc
  <1> HIDE DEF d
  <1>8. OnUserCancelled(c, st) \in Contexts /\ Alike(OnUserCancelled(c, st), c)
    BY <1>5, <1>6, <1>7, UpdateStatusFacts, OnAbortFacts DEF Alike
  <1> QED BY <1>1, <1>8

LEMMA RestGood ==
    ASSUME IInv, m.events # <<>>, NEW c, Kept(c)
    PROVE  /\ Good(Rest, c) /\ Rest.cur = m.cur
           /\ Event \in Events
           /\ Event.type \in {"run", "cancel", "done"} =>
                  /\ Event.st \in States
                  /\ Event.st \in Last => m.cur \in Over \/ Event = Run("Clear")
                  /\ Event.st \in Last => ~Remains(c)
  <1>1. m \in Machines /\ m.events \in Seq(Events) /\ m.cmds \in Seq(Commands)
    BY TypeParts DEF IInv, Machines
  <1>2. Event \in Events /\ Tail(m.events) \in Seq(Events)
    BY <1>1, TailFacts DEF Event
  <1>3. /\ Rest \in Machines /\ Rest.cur = m.cur /\ Rest.cmds = m.cmds
        /\ Rest.events = Tail(m.events)
    BY <1>1, <1>2 DEF Rest, Machines
  <1>4. NothingLate(Rest) /\ (Late(Event) => m.cur \in Over)
    BY <1>1, <1>3, SafeTail DEF NothingLate, IInv, Event
  <1>5. ClearComesFirst(Rest, c) /\ (Remains(c) => ~Late(Event))
    BY <1>1, <1>3, SafeTail DEF ClearComesFirst, IInv, Event, Kept
  <1>6. SetCmds(Rest.cmds)
    BY <1>3 DEF IInv
  <1>7. Event.type \in {"run", "cancel", "done"} =>
                  /\ Event.st \in States
                  /\ Event.st \in Last => m.cur \in Over \/ Event = Run("Clear")
                  /\ Event.st \in Last => ~Remains(c)
    BY <1>2, <1>4, <1>5, EventFields DEF Late, Kept
  <1> QED BY <1>2, <1>3, <1>4, <1>5, <1>6, <1>7 DEF Good

(* A state emits a signal while it handles an event.                       *)
LEMMA EmitGood ==
    ASSUME IInv, m.events # <<>>, NEW c, Kept(c), NEW st \in States, NEW sig,
           st \in Last => ~Remains(c)
    PROVE  /\ Good(Fire(Rest, c, st, sig), c)
           /\ Good(Fire(Release(Rest), c, st, sig), c)
  <1>1. Good(Rest, c) /\ c \in Contexts
    BY RestGood DEF Kept
  <1>2. Good(Release(Rest), c)
    BY <1>1, ReleaseGood
  <1>3. \A mm : MayLeave(mm, c, st)
    BY DEF MayLeave, Last
  <1> QED BY <1>1, <1>2, <1>3, FireGood

LEMMA KeptSelf ==
    ASSUME IInv, Event # Run("Clear")
    PROVE  Kept(ctx)
  BY TypeParts DEF Kept, IInv

(* A state that needs the card sends its command or leaves.                *)
LEMMA NeedsCardGood ==
    ASSUME IInv, m.events # <<>>, Kept(ctx), NEW st \in States,
           st \in Last => ~Remains(ctx) /\ m.cur \in Over,
           NEW c \in Commands, c.owner = st, c.op = "set" => c.pw \in Pins \cup {Nothing}
    PROVE  Good(NeedsCard(st, c), ctx)
  <1>1. CASE conn = NoConn
    <2>1. \A sig : Good(Fire(Rest, ctx, st, sig), ctx)
      BY EmitGood
    <2> QED BY <1>1, <2>1 DEF NeedsCard
  <1>2. CASE conn # NoConn
    <2>1. Good(Rest, ctx) /\ Rest.cur = m.cur
      BY RestGood
    <2>2. Good(Send(Rest, st, c), ctx)
      BY <2>1, SendGood
    <2> QED BY <1>2, <2>2 DEF NeedsCard
  <1> QED BY <1>1, <1>2

LEMMA ListenGood ==
    ASSUME NEW mm, NEW c, Good(mm, c), NEW st \in {"SelectReader", "ConnectCard"}
    PROVE  Good(Listen(mm, st), c)
  <1>1. mm \in Machines /\ st \in States
    BY MaintainState DEF Good
  <1>2. /\ Listen(mm, st) \in Machines /\ Listen(mm, st).cur = mm.cur
        /\ Listen(mm, st).events = mm.events /\ Listen(mm, st).cmds = mm.cmds
    BY <1>1 DEF Listen, Machines
  <1> QED BY <1>2 DEF Good, NothingLate, ClearComesFirst

-----------------------------------------------------------------------------
(* The steps of the main thread. *)

(* What a step has to show. *)
Outcome ==
    /\ Good(m', ctx') /\ ctx' \in Contexts /\ (ctx'.killed => ctx'.cancelled)
    /\ conn' \in Connections /\ seen' \in BOOLEAN /\ card' \in Cards
    /\ spent' \in Nat /\ faults' \in Nat /\ entries' \in Nat

LEMMA OutcomeIsInvariant ==
    ASSUME Outcome PROVE IInv'
  <1>1. TypeOK'
    BY DEF TypeOK, Outcome, Good, Machines, Contexts, Connections, Cards
  <1> QED BY <1>1 DEF IInv, Outcome, Good

LEMMA StateFacts ==
    ASSUME IInv
    PROVE  /\ Good(m, ctx) /\ m \in Machines /\ ctx \in Contexts /\ (ctx.killed => ctx.cancelled)
           /\ conn \in Connections /\ seen \in BOOLEAN /\ card \in Cards
           /\ spent \in Nat /\ faults \in Nat /\ entries \in Nat
  BY TypeParts DEF IInv, Good

LEMMA MainStep ==
    ASSUME IInv, Kept(ctx'), Good(m', ctx'), conn' \in Connections, UNCHANGED Environment
    PROVE  Outcome
  BY StateFacts DEF Kept, Outcome, Environment

LEMMA NoConnType == NoConn \in Connections /\ NoReader \in -2..3
  BY DEF NoConn, Connections, NoReader

LEMMA CodesOK ==
    {"OK", "OK_CAN", "OK_PUK", "CARD_NOT_FOUND", "RESPONSE_EMPTY", "CANCELLATION_BY_USER"} \subseteq Codes
  BY DEF Codes, LostCodes, FatalCodes

(* The run() of a state. *)
LEMMA RunFacts ==
    ASSUME IInv, NEW st, Runs(st)
    PROVE  /\ m.events # <<>> /\ Event \in Events /\ st \in States
           /\ Event.type = "run" /\ Event.st = st
           /\ st # "Clear" =>
                  /\ Event # Run("Clear") /\ Kept(ctx)
                  /\ st \in Last => ~Remains(ctx) /\ m.cur \in Over
           /\ ctx \in Contexts /\ conn \in Connections
  <1>1. m.events # <<>> /\ Event.type = "run" /\ Event.st = st
    BY DEF Runs, Handles
  <1>2. m.events \in Seq(Events) /\ ctx \in Contexts /\ conn \in Connections
    BY StateFacts DEF Machines
  <1>3. Event \in Events
    BY <1>1, <1>2, TailFacts DEF Event
  <1>4. st \in States /\ (st # "Clear" => Event # Run("Clear"))
    BY <1>1, <1>3, EventFields
  <1>5. st # "Clear" => Kept(ctx)
    BY <1>4, KeptSelf
  <1>6. st # "Clear" => (st \in Last => ~Remains(ctx) /\ m.cur \in Over)
    BY <1>1, <1>4, <1>5, RestGood
  <1> QED BY <1>1, <1>2, <1>3, <1>4, <1>5, <1>6

(* A run() that keeps the passwords and leaves its state, which is not one *)
(* of the last.                                                            *)
LEMMA RunLeaves ==
    ASSUME IInv, NEW st \in States \ Last, Runs(st),
           ctx' \in Contexts, Alike(ctx', ctx)
    PROVE  /\ Kept(ctx')
           /\ \A sig : /\ Good(Fire(Rest, ctx', st, sig), ctx')
                       /\ Good(Fire(Release(Rest), ctx', st, sig), ctx')
  <1>1. st # "Clear"
    BY DEF Last
  <1>2. m.events # <<>> /\ Event # Run("Clear") /\ ctx \in Contexts
    BY <1>1, RunFacts
  <1>3. Kept(ctx')
    BY <1>2, SamePasswords
  <1>4. \A sig : /\ Good(Fire(Rest, ctx', st, sig), ctx')
                 /\ Good(Fire(Release(Rest), ctx', st, sig), ctx')
    BY <1>2, <1>3, EmitGood
  <1> QED BY <1>3, <1>4

LEMMA AlikeSelf == \A c : Alike(c, c)
  BY DEF Alike

LEMMA RunMaintainStep ==
    ASSUME IInv, RunMaintain PROVE Outcome
  <1>1. Runs("Maintain") /\ UNCHANGED Environment
    BY DEF RunMaintain
  <1>2. "Maintain" \in States \ Last
    BY MaintainState
  <1>3. ctx \in Contexts /\ conn \in Connections
    BY StateFacts
  <1>4. ctx' \in Contexts /\ Alike(ctx', ctx)
    <2>1. [ctx EXCEPT !.lastPace = "OK"] \in Contexts /\ Alike([ctx EXCEPT !.lastPace = "OK"], ctx)
      BY <1>3, CodesOK DEF Contexts, Alike
    <2> QED BY <1>3, <2>1, StatusFacts, AlikeSelf DEF RunMaintain
  <1>5. conn' \in Connections
    BY <1>3, NoConnType DEF RunMaintain, ResetConnection
  <1>6. Good(m', ctx')
    BY <1>1, <1>2, <1>4, RunLeaves DEF RunMaintain, Emit
  <1>7. Kept(ctx')
    BY <1>1, <1>2, <1>4, RunLeaves
  <1> QED BY <1>1, <1>5, <1>6, <1>7, MainStep

LEMMA RunSelectReaderStep ==
    ASSUME IInv, RunSelectReader PROVE Outcome
  <1>1. Runs("SelectReader") /\ UNCHANGED <<conn, Environment>>
    BY DEF RunSelectReader
  <1>2. "SelectReader" \in States \ Last
    BY MaintainState
  <1>3. ctx \in Contexts /\ conn \in Connections /\ seen \in BOOLEAN
    BY StateFacts
  <1>4. ctx' \in Contexts /\ Alike(ctx', ctx)
    BY <1>3 DEF RunSelectReader, Contexts, Alike
  <1>5. Kept(ctx')
    BY <1>1, <1>2, <1>4, RunLeaves
  <1> DEFINE mm == Listen(Rest, "SelectReader")
  <1>6. Good(Rest, ctx')
    BY <1>1, <1>5, RunFacts, RestGood
  <1>7. Good(mm, ctx')
    BY <1>6, ListenGood
  <1>8. MayLeave(mm, ctx', "SelectReader")
    BY DEF MayLeave
  <1> HIDE DEF mm
  <1>9. \A sig : Good(Fire(mm, ctx', "SelectReader", sig), ctx')
    BY <1>2, <1>4, <1>7, <1>8, FireGood
  <1>10. Good(m', ctx')
    BY <1>7, <1>9 DEF RunSelectReader, mm
  <1> QED BY <1>1, <1>3, <1>5, <1>10, MainStep

LEMMA CreateConnectionGood ==
    ASSUME NEW mm, NEW c, Good(mm, c)
    PROVE  Good(CreateConnection(mm), c)
  <1> DEFINE cmd == Command("create", "ConnectCard", Nothing, Nothing)
  <1>1. "ConnectCard" \in States /\ "ConnectCard" \notin Last
    BY MaintainState
  <1>2. cmd \in Commands /\ cmd.op = "create" /\ cmd.owner = "ConnectCard"
    BY <1>1 DEF Command, Commands
  <1> HIDE DEF cmd
  <1>3. Good(Send(mm, "ConnectCard", cmd), c)
    BY <1>1, <1>2, SendGood
  <1> QED BY <1>3 DEF CreateConnection, cmd

LEMMA RunConnectCardStep ==
    ASSUME IInv, RunConnectCard PROVE Outcome
  <1>1. Runs("ConnectCard") /\ UNCHANGED <<ctx, conn, Environment>>
    BY DEF RunConnectCard
  <1>2. m.events # <<>> /\ Kept(ctx) /\ conn \in Connections
    BY <1>1, RunFacts
  <1>3. Good(Rest, ctx)
    BY <1>2, RestGood
  <1>4. Good(Listen(Rest, "ConnectCard"), ctx)
    BY <1>3, ListenGood
  <1>5. Good(m', ctx)
    BY <1>4, CreateConnectionGood DEF RunConnectCard
  <1>6. ctx' = ctx /\ conn' = conn /\ UNCHANGED Environment
    BY <1>1
  <1>7. Kept(ctx')
    BY <1>2, <1>6 DEF Kept
  <1> QED BY <1>2, <1>5, <1>6, <1>7, MainStep

(* The states that need the card. *)
LEMMA CardStateStep ==
    ASSUME IInv, NEW st \in States \ {"Clear"}, Runs(st), UNCHANGED <<ctx, conn, Environment>>,
           NEW c \in Commands, c.owner = st, c.op = "set" => c.pw \in Pins \cup {Nothing},
           m' = NeedsCard(st, c)
    PROVE  Outcome
  <1>1. /\ m.events # <<>> /\ Kept(ctx) /\ conn \in Connections
        /\ st \in Last => ~Remains(ctx) /\ m.cur \in Over
    BY RunFacts
  <1>2. Good(m', ctx)
    BY <1>1, NeedsCardGood
  <1>3. ctx' = ctx /\ conn' = conn /\ UNCHANGED Environment
    OBVIOUS
  <1>4. Kept(ctx')
    BY <1>1, <1>3 DEF Kept
  <1> QED BY <1>1, <1>2, <1>3, <1>4, MainStep

LEMMA CardStatesStep ==
    ASSUME IInv, RunUpdateRetry \/ RunResetRetry \/ RunDestroy \/ RunChangePin
    PROVE  Outcome
  <1>1. {"UpdateRetry", "UpdateFinal", "ResetRetry", "PaceDestroy", "Destroy", "ChangePin"}
            \subseteq States \ {"Clear"}
    BY MaintainState, LastStates DEF Last
  <1>2. Nothing \in PaceTypes \cup {Nothing} /\ Nothing \in Pins \cup Secrets \cup {Nothing}
    OBVIOUS
  <1>3. CASE RunUpdateRetry
    <2>1. PICK st \in {"UpdateRetry", "UpdateFinal"} :
              Runs(st) /\ m' = NeedsCard(st, Command("update", st, Nothing, Nothing))
      BY <1>3 DEF RunUpdateRetry
    <2>2. /\ Command("update", st, Nothing, Nothing) \in Commands
          /\ Command("update", st, Nothing, Nothing).op = "update"
          /\ Command("update", st, Nothing, Nothing).owner = st
      BY <1>1, <1>2 DEF Command, Commands
    <2>3. UNCHANGED <<ctx, conn, Environment>>
      BY <1>3 DEF RunUpdateRetry
    <2> QED BY <1>1, <2>1, <2>2, <2>3, CardStateStep
  <1>4. CASE RunResetRetry
    <2>1. /\ Runs("ResetRetry") /\ UNCHANGED <<ctx, conn, Environment>>
          /\ m' = NeedsCard("ResetRetry", Command("reset", "ResetRetry", Nothing, Nothing))
      BY <1>4 DEF RunResetRetry
    <2>2. /\ Command("reset", "ResetRetry", Nothing, Nothing) \in Commands
          /\ Command("reset", "ResetRetry", Nothing, Nothing).op = "reset"
          /\ Command("reset", "ResetRetry", Nothing, Nothing).owner = "ResetRetry"
      BY <1>1, <1>2 DEF Command, Commands
    <2> QED BY <1>1, <2>1, <2>2, CardStateStep
  <1>5. CASE RunDestroy
    <2>1. PICK st \in {"PaceDestroy", "Destroy"} :
              Runs(st) /\ m' = NeedsCard(st, Command("destroy", st, Nothing, Nothing))
      BY <1>5 DEF RunDestroy
    <2>2. /\ Command("destroy", st, Nothing, Nothing) \in Commands
          /\ Command("destroy", st, Nothing, Nothing).op = "destroy"
          /\ Command("destroy", st, Nothing, Nothing).owner = st
      BY <1>1, <1>2 DEF Command, Commands
    <2>3. UNCHANGED <<ctx, conn, Environment>>
      BY <1>5 DEF RunDestroy
    <2> QED BY <1>1, <2>1, <2>2, <2>3, CardStateStep
  <1>6. CASE RunChangePin
    <2>1. /\ Runs("ChangePin") /\ UNCHANGED <<ctx, conn, Environment>>
          /\ m' = NeedsCard("ChangePin", Command("set", "ChangePin", Nothing, ctx.newPin))
      BY <1>6 DEF RunChangePin
    <2>2. ctx.newPin \in Pins \cup {Nothing}
      BY StateFacts DEF Contexts
    <2>3. /\ Command("set", "ChangePin", Nothing, ctx.newPin) \in Commands
          /\ Command("set", "ChangePin", Nothing, ctx.newPin).owner = "ChangePin"
          /\ Command("set", "ChangePin", Nothing, ctx.newPin).pw = ctx.newPin
      BY <1>1, <1>2, <2>2 DEF Command, Commands
    <2> QED BY <1>1, <2>1, <2>2, <2>3, CardStateStep
  <1> QED BY <1>3, <1>4, <1>5, <1>6

(* A state that is not one of the last leaves with a signal. *)
LEMMA LeavingStep ==
    ASSUME IInv, NEW st \in States \ Last, Runs(st), ctx' \in Contexts, Alike(ctx', ctx),
           NEW sig, Emit(st, sig), UNCHANGED <<conn, Environment>>
    PROVE  Outcome
  <1>1. Kept(ctx') /\ Good(m', ctx')
    BY RunLeaves DEF Emit
  <1>2. conn' \in Connections /\ UNCHANGED Environment
    BY StateFacts
  <1> QED BY <1>1, <1>2, MainStep

LEMMA NextPasswordType == NextPassword \in PaceTypes
  BY DEF NextPassword, PaceTypes

LEMMA CounterChecksStep ==
    ASSUME IInv, RunVerify \/ RunPreparePace \/ RunUnfortunate \/ RunCheckError \/ RunPrepareChange
    PROVE  Outcome
  <1>1. {"Verify", "PreparePace", "Unfortunate", "CheckError", "PrepareChange"} \subseteq States \ Last
    BY MaintainState
  <1>2. ctx \in Contexts /\ conn \in Connections /\ Alike(ctx, ctx)
    BY StateFacts, AlikeSelf
  <1>3. CASE RunVerify
    <2>1. [ctx EXCEPT !.expected = conn.counter] \in Contexts /\ Alike([ctx EXCEPT !.expected = conn.counter], ctx)
      BY <1>2 DEF Contexts, Connections, Alike
    <2>2. /\ Runs("Verify") /\ ctx' \in Contexts /\ Alike(ctx', ctx)
          /\ \E sig : Emit("Verify", sig)
          /\ UNCHANGED <<conn, Environment>>
      BY <1>2, <1>3, <2>1 DEF RunVerify
    <2> QED BY <1>1, <2>2, LeavingStep
  <1>4. CASE RunPreparePace
    <2>1. /\ Runs("PreparePace") /\ \E sig : Emit("PreparePace", sig)
          /\ UNCHANGED <<conn, Environment>>
          /\ ctx' = [ctx EXCEPT !.paceType = IF conn = NoConn THEN Nothing ELSE NextPassword]
      BY <1>4 DEF RunPreparePace
    <2>2. (IF conn = NoConn THEN Nothing ELSE NextPassword) \in PaceTypes \cup {Nothing}
      BY NextPasswordType
    <2>3. ctx' \in Contexts /\ Alike(ctx', ctx)
      BY <1>2, <2>1, <2>2 DEF Contexts, Alike
    <2> QED BY <1>1, <2>1, <2>3, LeavingStep
  <1>5. CASE RunUnfortunate
    <2>1. /\ Runs("Unfortunate") /\ Emit("Unfortunate", "continue")
          /\ UNCHANGED <<conn, Environment>>
          /\ ctx' = [ctx EXCEPT !.vanished = 0]
      BY <1>5 DEF RunUnfortunate
    <2>2. ctx' \in Contexts /\ Alike(ctx', ctx)
      BY <1>2, <2>1 DEF Contexts, Alike
    <2> QED BY <1>1, <2>1, <2>2, LeavingStep
  <1>6. CASE RunCheckError
    <2>1. /\ Runs("CheckError") /\ ctx' = ctx /\ UNCHANGED <<conn, Environment>>
          /\ \E sig : Emit("CheckError", sig)
      BY <1>6 DEF RunCheckError
    <2> QED BY <1>1, <1>2, <2>1, LeavingStep
  <1>7. CASE RunPrepareChange
    <2>1. /\ Runs("PrepareChange") /\ ctx' = ctx /\ UNCHANGED <<conn, Environment>>
          /\ \E sig : Emit("PrepareChange", sig)
      BY <1>7 DEF RunPrepareChange
    <2> QED BY <1>1, <1>2, <2>1, LeavingStep
  <1> QED BY <1>3, <1>4, <1>5, <1>6, <1>7

LEMMA PasswordType ==
    ASSUME NEW c \in Contexts, NEW type
    PROVE  Password(c, type) \in Pins \cup Secrets \cup {Nothing}
  BY DEF Password, Contexts

LEMMA RunEstablishStep ==
    ASSUME IInv, RunEstablish PROVE Outcome
  <1>1. Runs("Establish") /\ UNCHANGED <<conn, Environment>>
    BY DEF RunEstablish
  <1>2. "Establish" \in States /\ "Establish" \notin Last
    BY MaintainState
  <1>3. ctx \in Contexts /\ conn \in Connections /\ Alike(ctx, ctx)
    BY StateFacts, AlikeSelf
  <1> DEFINE pw  == Password(ctx, ctx.paceType)
             cmd == Command("pace", "Establish", ctx.paceType, pw)
             lost == [ctx EXCEPT !.lastPace = "CARD_NOT_FOUND"]
  <1>4. CASE ctx' = ctx /\ m' = Send(Rest, "Establish", cmd)
    <2>1. pw \in Pins \cup Secrets \cup {Nothing}
      BY <1>3, PasswordType
    <2>2. ctx.paceType \in PaceTypes \cup {Nothing}
      BY <1>3 DEF Contexts
    <2>3. cmd \in Commands /\ cmd.op = "pace" /\ cmd.owner = "Establish"
      BY <1>2, <2>1, <2>2 DEF Command, Commands
    <2>4. Kept(ctx) /\ Good(Rest, ctx)
      BY <1>1, RunFacts, RestGood
    <2> HIDE DEF cmd
    <2>5. Good(m', ctx)
      BY <1>2, <1>4, <2>3, <2>4, SendGood
    <2>6. Kept(ctx')
      BY <1>4, <2>4 DEF Kept
    <2>7. ctx' = ctx /\ conn' \in Connections /\ UNCHANGED Environment
      BY <1>1, <1>3, <1>4
    <2> QED BY <2>5, <2>6, <2>7, MainStep
  <1>5. ~(ctx' = ctx /\ m' = Send(Rest, "Establish", cmd)) =>
            /\ ctx' \in {ctx, lost, OnAbort(UpdateStatus(ctx, "error"))}
            /\ \E sig : Emit("Establish", sig)
    BY DEF RunEstablish
  <1>6. lost \in Contexts /\ Alike(lost, ctx)
    BY <1>3, CodesOK DEF Contexts, Alike
  <1> HIDE DEF cmd, lost
  <1>7. CASE ~(ctx' = ctx /\ m' = Send(Rest, "Establish", cmd))
    <2>1. ctx' \in Contexts /\ Alike(ctx', ctx)
      BY <1>3, <1>5, <1>6, <1>7, StatusFacts
    <2> QED BY <1>1, <1>2, <1>5, <1>7, <2>1, LeavingStep
  <1> QED BY <1>4, <1>7

(* The passwords are cleared, also by a state that was left meanwhile. *)
LEMMA RunClearStep ==
    ASSUME IInv, RunClear PROVE Outcome
  <1>1. PICK st \in {"PaceClear", "Clear"} :
            Runs(st) /\ ctx' = Cleared(ctx) /\ Emit(st, "continue")
    BY DEF RunClear
  <1>2. m.events # <<>> /\ st \in States /\ ctx \in Contexts /\ conn \in Connections
    BY <1>1, RunFacts
  <1>3. Kept(ctx') /\ ~Remains(ctx')
    BY <1>1, <1>2, RemainsFacts DEF Kept
  <1>4. Good(m', ctx')
    BY <1>1, <1>2, <1>3, EmitGood DEF Emit
  <1>5. conn' \in Connections /\ UNCHANGED Environment
    BY <1>2 DEF RunClear
  <1> QED BY <1>3, <1>4, <1>5, MainStep

LEMMA RunLastStep ==
    ASSUME IInv, RunCleanUp \/ RunContinue PROVE Outcome
  <1>1. ctx \in Contexts /\ conn \in Connections /\ Alike(ctx, ctx)
    BY StateFacts, AlikeSelf
  <1>2. CASE RunCleanUp
    <2>1. /\ Runs("CleanUp") /\ ctx' = [ctx EXCEPT !.expected = NoReader]
          /\ m' = Fire(Release(Rest), ctx', "CleanUp", "continue")
          /\ conn' \in {conn, NoConn} /\ UNCHANGED Environment
      BY <1>2 DEF RunCleanUp, ResetConnection
    <2>2. /\ m.events # <<>> /\ Event # Run("Clear")
          /\ "CleanUp" \in States /\ ~Remains(ctx)
      BY <2>1, RunFacts, LastStates DEF Last
    <2>3. ctx' \in Contexts /\ Alike(ctx', ctx)
      BY <1>1, <2>1, NoConnType DEF Contexts, Alike
    <2>4. Kept(ctx')
      BY <1>1, <2>2, <2>3, SamePasswords
    <2>5. ~Remains(ctx')
      BY <2>2, <2>4 DEF Kept
    <2>6. Good(m', ctx')
      BY <2>1, <2>2, <2>4, <2>5, EmitGood
    <2>7. conn' \in Connections
      BY <1>1, <2>1, NoConnType
    <2> QED BY <2>1, <2>4, <2>6, <2>7, MainStep
  <1>3. CASE RunContinue
    <2>1. PICK st \in {"EnterPassword", "EnterNewPin", "Final"} :
              Runs(st) /\ ctx' = ctx /\ Emit(st, "continue")
      BY <1>3 DEF RunContinue
    <2>2. st # "Clear" /\ m.events # <<>> /\ st \in States /\ Kept(ctx) /\ (st \in Last => ~Remains(ctx))
      BY <2>1, RunFacts
    <2>3. Kept(ctx')
      BY <2>1, <2>2 DEF Kept
    <2>4. Good(m', ctx')
      BY <2>1, <2>2, <2>3, EmitGood DEF Emit
    <2>5. conn' \in Connections /\ UNCHANGED Environment
      BY <1>1, <1>3 DEF RunContinue
    <2> QED BY <2>3, <2>4, <2>5, MainStep
  <1> QED BY <1>2, <1>3

LEMMA HandleCancelStep ==
    ASSUME IInv, HandleCancel PROVE Outcome
  <1>1. m.events # <<>> /\ Event.type = "cancel" /\ ctx' = OnUserCancelled(ctx, Event.st)
    BY DEF HandleCancel, Handles
  <1>2. ctx \in Contexts /\ conn \in Connections /\ m.events \in Seq(Events)
    BY StateFacts DEF Machines
  <1>3. Event \in Events
    BY <1>1, <1>2, TailFacts DEF Event
  <1>4. Event # Run("Clear")
    BY <1>1, <1>3, EventFields
  <1>5. ctx' \in Contexts /\ Alike(ctx', ctx)
    BY <1>1, <1>2, StatusFacts
  <1>6. Kept(ctx')
    BY <1>2, <1>4, <1>5, SamePasswords
  <1>7. Event.st \in States /\ (Event.st \in Last => ~Remains(ctx'))
    BY <1>1, <1>6, RestGood
  <1>8. Good(m', ctx')
    BY <1>1, <1>6, <1>7, EmitGood DEF HandleCancel, Emit
  <1>9. conn' \in Connections /\ UNCHANGED Environment
    BY <1>2 DEF HandleCancel
  <1> QED BY <1>6, <1>8, <1>9, MainStep

-----------------------------------------------------------------------------
(* The slots for the results, on the main thread. *)

LEMMA DoneFacts ==
    ASSUME IInv, NEW op, Completes(op)
    PROVE  /\ m.events # <<>> /\ Event \in Events /\ Event.type = "done" /\ Event.op = op
           /\ Event # Run("Clear") /\ Event.st \in States
           /\ Event.code \in Codes /\ Event.counter \in -2..3
           /\ Event.arg \in PaceTypes \cup {Nothing}
           /\ ctx \in Contexts /\ conn \in Connections /\ Kept(ctx)
           /\ Event.st \in Last => ~Remains(ctx)
  <1>1. m.events # <<>> /\ Event.type = "done" /\ Event.op = op
    BY DEF Completes, Handles
  <1>2. m.events \in Seq(Events) /\ ctx \in Contexts /\ conn \in Connections
    BY StateFacts DEF Machines
  <1>3. Event \in Events
    BY <1>1, <1>2, TailFacts DEF Event
  <1>4. /\ Event # Run("Clear") /\ Event.st \in States
        /\ Event.code \in Codes /\ Event.counter \in -2..3 /\ Event.arg \in PaceTypes \cup {Nothing}
    BY <1>1, <1>3, EventFields
  <1>5. Kept(ctx)
    BY <1>4, KeptSelf
  <1>6. Event.st \in Last => ~Remains(ctx)
    BY <1>1, <1>5, RestGood
  <1> QED BY <1>1, <1>2, <1>3, <1>4, <1>5, <1>6

(* A slot that makes its state leave; the connection may be dropped.       *)
LEMMA DoneStep ==
    ASSUME IInv, NEW op, Completes(op), ctx' \in Contexts, Alike(ctx', ctx),
           NEW st \in States, st \in Last => ~Remains(ctx), NEW sig,
           m' = Fire(Rest, ctx', st, sig) \/ m' = Fire(Release(Rest), ctx', st, sig),
           conn' \in Connections, UNCHANGED Environment
    PROVE  Outcome
  <1>1. m.events # <<>> /\ Event # Run("Clear") /\ ctx \in Contexts
    BY DoneFacts
  <1>2. Kept(ctx')
    BY <1>1, SamePasswords
  <1>3. st \in Last => ~Remains(ctx')
    BY <1>2 DEF Kept
  <1>4. Good(m', ctx')
    BY <1>1, <1>2, <1>3, EmitGood
  <1> QED BY <1>2, <1>4, MainStep

LEMMA CreateUpdateDoneStep ==
    ASSUME IInv, CreateDone \/ UpdateDone PROVE Outcome
  <1>1. "ConnectCard" \in States \ Last
    BY MaintainState
  <1>2. CASE CreateDone
    <2>1. Completes("create") /\ UNCHANGED Environment
      BY <1>2 DEF CreateDone
    <2>2. ctx \in Contexts /\ conn \in Connections /\ Event.counter \in -2..3
      BY <2>1, DoneFacts
    <2>3. ctx' \in Contexts /\ Alike(ctx', ctx)
      BY <1>2, <2>2, StatusFacts, AlikeSelf DEF CreateDone
    <2>4. conn' \in Connections
      <3>1. [counter |-> Event.counter, can |-> FALSE, pin |-> FALSE] \in Connections
        BY <2>2 DEF Connections
      <3>2. conn' \in {conn, [counter |-> Event.counter, can |-> FALSE, pin |-> FALSE]}
        BY <1>2 DEF CreateDone
      <3> QED BY <2>2, <3>1, <3>2
    <2>5. \E sig : \/ m' = Fire(Rest, ctx', "ConnectCard", sig)
                   \/ m' = Fire(Release(Rest), ctx', "ConnectCard", sig)
      BY <1>2 DEF CreateDone, Emit
    <2> QED BY <1>1, <2>1, <2>3, <2>4, <2>5, DoneStep
  <1>3. CASE UpdateDone
    <2>1. Completes("update") /\ UNCHANGED Environment /\ ctx' = ctx
      BY <1>3 DEF UpdateDone
    <2>2. /\ ctx \in Contexts /\ conn \in Connections /\ Event.counter \in -2..3
          /\ Event.st \in States /\ (Event.st \in Last => ~Remains(ctx))
      BY <2>1, DoneFacts
    <2>3. ctx' \in Contexts /\ Alike(ctx', ctx)
      BY <2>1, <2>2, AlikeSelf
    <2>4. [conn EXCEPT !.counter = Event.counter] \in Connections
      BY <2>2 DEF Connections
    <2>5. conn' \in Connections
      BY <1>3, <2>2, <2>4, NoConnType DEF UpdateDone, ResetConnection
    <2>6. \E sig : \/ m' = Fire(Rest, ctx', Event.st, sig)
                   \/ m' = Fire(Release(Rest), ctx', Event.st, sig)
      BY <1>3 DEF UpdateDone, Emit
    <2> QED BY <2>1, <2>2, <2>3, <2>5, <2>6, DoneStep
  <1> QED BY <1>2, <1>3

LEMMA PaceFlagsType ==
    ASSUME NEW c \in Connections, NEW type, NEW ok \in BOOLEAN
    PROVE  PaceFlags(c, type, ok) \in Connections
  BY DEF PaceFlags, Connections

LEMMA PaceDoneStep ==
    ASSUME IInv, PaceDone PROVE Outcome
  <1> DEFINE type == Event.arg
             code == Event.code
             lost == code \in LostCodes
             last == CASE code = "OK" /\ type = "CAN" -> "OK_CAN"
                       [] code = "OK" /\ type = "PUK" -> "OK_PUK"
                       [] OTHER                       -> code
             expected == IF code = "OK" /\ type = "PIN" /\ ctx.expected # NoReader THEN 3
                         ELSE ctx.expected
             vanished == IF lost THEN ctx.vanished + 1 ELSE 0
  <1>1. Completes("pace") /\ UNCHANGED Environment
    BY DEF PaceDone
  <1>2. /\ ctx \in Contexts /\ conn \in Connections /\ code \in Codes
        /\ "Establish" \in States \ Last
    BY <1>1, DoneFacts, MaintainState
  <1>3. last \in Codes
    <2>1. last \in {"OK_CAN", "OK_PUK", code}
      OBVIOUS
    <2> QED BY <2>1, <1>2, CodesOK
  <1>4. expected \in -2..3 /\ vanished \in Nat
    BY <1>2 DEF Contexts
  <1>5. ctx' = [ctx EXCEPT !.lastPace = last, !.expected = expected, !.vanished = vanished]
    BY DEF PaceDone
  <1> HIDE DEF last, expected, vanished
  <1>6. ctx' \in Contexts /\ Alike(ctx', ctx)
    BY <1>2, <1>3, <1>4, <1>5 DEF Contexts, Alike
  <1>7. conn' \in Connections
    <2>1. PaceFlags(conn, type, code = "OK") \in Connections
      BY <1>2, PaceFlagsType
    <2> QED BY <2>1, NoConnType DEF PaceDone, ResetConnection
  <1>8. \E sig : \/ m' = Fire(Rest, ctx', "Establish", sig)
                 \/ m' = Fire(Release(Rest), ctx', "Establish", sig)
    BY DEF PaceDone
  <1> QED BY <1>1, <1>2, <1>6, <1>7, <1>8, DoneStep

LEMMA OtherDoneStep ==
    ASSUME IInv, ResetDone \/ SetDone \/ DestroyDone PROVE Outcome
  <1>1. {"ResetRetry", "ChangePin"} \subseteq States \ Last
    BY MaintainState
  <1>2. ctx \in Contexts /\ conn \in Connections
    BY StateFacts
  <1>3. CASE ResetDone
    <2>1. Completes("reset") /\ UNCHANGED Environment
      BY <1>3 DEF ResetDone
    <2> DEFINE c == [ctx EXCEPT !.expected = IF @ = NoReader THEN @ ELSE -1]
    <2>2. c \in Contexts /\ Alike(c, ctx)
      BY <1>2 DEF Contexts, Alike
    <2>3. ctx' \in {c, ctx, OnAbort(UpdateStatus(ctx, "error"))}
      BY <1>3 DEF ResetDone
    <2>4. ctx' \in Contexts /\ Alike(ctx', ctx)
      BY <1>2, <2>2, <2>3, StatusFacts, AlikeSelf
    <2>5. conn' \in Connections
      BY <1>2, <1>3, NoConnType DEF ResetDone, ResetConnection
    <2>6. \E sig : \/ m' = Fire(Rest, ctx', "ResetRetry", sig)
                   \/ m' = Fire(Release(Rest), ctx', "ResetRetry", sig)
      BY <1>3 DEF ResetDone, Emit
    <2> QED BY <1>1, <2>1, <2>4, <2>5, <2>6, DoneStep
  <1>4. CASE SetDone
    <2>1. Completes("set") /\ UNCHANGED Environment
      BY <1>4 DEF SetDone
    <2>2. ctx' \in {ctx, OnAbort(UpdateStatus(ctx, "error"))}
      BY <1>4 DEF SetDone
    <2>3. ctx' \in Contexts /\ Alike(ctx', ctx)
      BY <1>2, <2>2, StatusFacts, AlikeSelf
    <2>4. conn' \in Connections
      BY <1>2, <1>4, NoConnType DEF SetDone, ResetConnection
    <2>5. \E sig : \/ m' = Fire(Rest, ctx', "ChangePin", sig)
                   \/ m' = Fire(Release(Rest), ctx', "ChangePin", sig)
      BY <1>4 DEF SetDone, Emit
    <2> QED BY <1>1, <2>1, <2>3, <2>4, <2>5, DoneStep
  <1>5. CASE DestroyDone
    <2>1. /\ Completes("destroy") /\ UNCHANGED <<conn, Environment>> /\ ctx' = ctx
          /\ m' = Fire(Rest, ctx', Event.st, "continue")
      BY <1>5 DEF DestroyDone, Emit
    <2>2. Event.st \in States /\ (Event.st \in Last => ~Remains(ctx))
      BY <2>1, DoneFacts
    <2>3. ctx' \in Contexts /\ Alike(ctx', ctx) /\ conn' \in Connections /\ UNCHANGED Environment
      BY <1>2, <2>1, AlikeSelf
    <2> QED BY <2>1, <2>2, <2>3, DoneStep
  <1> QED BY <1>3, <1>4, <1>5

(* The reports of the ReaderManager. *)
LEMMA ReportStep ==
    ASSUME IInv, CardRemoved \/ CardInserted PROVE Outcome
  <1>1. {"ConnectCard", "SelectReader"} \subseteq States \ Last
    BY MaintainState
  <1>2. /\ ctx \in Contexts /\ conn \in Connections /\ m.events \in Seq(Events)
        /\ card \in Cards /\ spent \in Nat /\ faults \in Nat /\ entries \in Nat
        /\ (ctx.killed => ctx.cancelled)
    BY StateFacts DEF Machines
  <1>3. m.events # <<>> /\ Event.type \in {"removed", "inserted"}
    BY DEF CardRemoved, CardInserted, Handles
  <1>4. Event \in Events
    BY <1>2, <1>3, TailFacts DEF Event
  <1>5. Event # Run("Clear") /\ (Event.type = "inserted" => Event.counter \in 0..3)
    BY <1>3, <1>4, EventFields
  <1>6. UNCHANGED <<card, spent, faults, entries>> /\ seen' \in BOOLEAN
    BY DEF CardRemoved, CardInserted
  <1>7. ctx' \in Contexts /\ Alike(ctx', ctx)
    <2>1. \A b \in BOOLEAN : [ctx EXCEPT !.reader = b] \in Contexts /\ Alike([ctx EXCEPT !.reader = b], ctx)
      BY <1>2 DEF Contexts, Alike
    <2>2. ctx.reader \in BOOLEAN
      BY <1>2 DEF Contexts
    <2>3. CASE CardRemoved
      BY <1>2, <2>1, <2>3, AlikeSelf DEF CardRemoved
    <2>4. CASE CardInserted
      <3>1. (ctx.reader \/ "SelectReader" \in m.listening) \in BOOLEAN
        BY <2>2
      <3>2. ctx' = [ctx EXCEPT !.reader = ctx.reader \/ "SelectReader" \in m.listening]
        BY <2>4 DEF CardInserted
      <3> QED BY <2>1, <3>1, <3>2
    <2> QED BY <2>3, <2>4
  <1>8. Kept(ctx')
    BY <1>2, <1>5, <1>7, SamePasswords
  <1>9. Good(Rest, ctx')
    BY <1>3, <1>8, RestGood
  <1>10. Good(m', ctx')
    <2>1. \A mm, st, sig : st \in States \ Last /\ Good(mm, ctx') => Good(Fire(mm, ctx', st, sig), ctx')
      <3> SUFFICES ASSUME NEW mm, NEW st \in States \ Last, NEW sig, Good(mm, ctx')
                   PROVE  Good(Fire(mm, ctx', st, sig), ctx')
        OBVIOUS
      <3>1. MayLeave(mm, ctx', st)
        BY DEF MayLeave, Last
      <3> QED BY <3>1, <1>7, FireGood
    <2>2. CASE CardRemoved
      <3>1. Good(Release(Rest), ctx')
        BY <1>9, ReleaseGood
      <3>2. Good(Fire(Release(Rest), ctx', "ConnectCard", "retry"), ctx')
        BY <1>1, <2>1, <3>1
      <3> QED BY <1>9, <2>2, <3>2 DEF CardRemoved
    <2>3. CASE CardInserted
      <3>1. Good(CreateConnection(Rest), ctx')
        BY <1>9, CreateConnectionGood
      <3> DEFINE mm == IF "ConnectCard" \in m.listening THEN CreateConnection(Rest) ELSE Rest
      <3>2. Good(mm, ctx')
        BY <1>9, <3>1
      <3>3. m' = IF "SelectReader" \in m.listening THEN Fire(mm, ctx', "SelectReader", "continue") ELSE mm
        BY <2>3 DEF CardInserted
      <3> HIDE DEF mm
      <3>4. Good(Fire(mm, ctx', "SelectReader", "continue"), ctx')
        BY <1>1, <2>1, <3>2
      <3> QED BY <3>2, <3>3, <3>4
    <2> QED BY <2>2, <2>3
  <1>11. conn' \in Connections
    <2>1. \A n \in -2..3 : [conn EXCEPT !.counter = n] \in Connections
      BY <1>2 DEF Connections
    <2>2. CASE CardRemoved
      BY <1>2, <2>1, <2>2, NoConnType DEF CardRemoved
    <2>3. CASE CardInserted
      <3>1. Event.counter \in -2..3
        BY <1>5, <2>3 DEF CardInserted, Handles
      <3> QED BY <1>2, <2>1, <2>3, <3>1 DEF CardInserted
    <2> QED BY <2>2, <2>3
  <1> QED BY <1>2, <1>6, <1>7, <1>8, <1>10, <1>11 DEF Outcome, Kept

-----------------------------------------------------------------------------
(* The worker thread. *)

LEMMA CmdFacts ==
    ASSUME IInv, NEW op, Executes(op)
    PROVE  /\ m.cmds # <<>> /\ Cmd \in Commands /\ Cmd.op = op
           /\ Cmd.owner \in States /\ Cmd.arg \in PaceTypes \cup {Nothing}
           /\ Cmd.pw \in Pins \cup Secrets \cup {Nothing} /\ Cmd.wired \in BOOLEAN
           /\ Cmd.owner \in Last => m.cur \in Over /\ ~Remains(ctx)
           /\ op = "set" => Cmd.pw \in Pins \cup {Nothing}
  <1>1. m.cmds # <<>> /\ Cmd.op = op
    BY DEF Executes
  <1>2. m.cmds \in Seq(Commands)
    BY StateFacts DEF Machines
  <1>3. Cmd \in Commands /\ Cmd = m.cmds[1] /\ 1 \in 1..Len(m.cmds)
    BY <1>1, <1>2, TailFacts DEF Cmd
  <1>4. Cmd.owner \in Last => m.cur \in Over /\ ~Remains(ctx)
    BY <1>3 DEF IInv, NothingLate, ClearComesFirst, NoLateCmd
  <1>5. op = "set" => Cmd.pw \in Pins \cup {Nothing}
    BY <1>1, <1>3 DEF IInv, SetCmds
  <1> QED BY <1>1, <1>3, <1>4, <1>5 DEF Commands

(* The command is taken from the queue, and its result is posted.          *)
LEMMA AnswerGood ==
    ASSUME IInv, NEW op \in {"create", "update", "pace", "reset", "set", "destroy"}, Executes(op),
           NEW code \in Codes, NEW n \in -2..3, Answer(code, n)
    PROVE  Good(m', ctx)
  <1> DEFINE e    == Done(Cmd, code, n)
             rest == [m EXCEPT !.cmds = Tail(@)]
             q    == IF Cmd.wired THEN Append(m.events, e) ELSE m.events
  <1>1. m \in Machines /\ m.cmds \in Seq(Commands) /\ m.cmds # <<>> /\ m.events \in Seq(Events)
    BY StateFacts, CmdFacts DEF Machines
  <1>2. /\ Cmd.op = op /\ Cmd.owner \in States /\ Cmd.arg \in PaceTypes \cup {Nothing}
        /\ Cmd.owner \in Last => m.cur \in Over /\ ~Remains(ctx)
    BY CmdFacts
  <1>3. e \in Events /\ e.type = "done" /\ e.st = Cmd.owner
    BY <1>2 DEF Done, Events
  <1>4. Late(e) => m.cur \in Over /\ ~Remains(ctx)
    BY <1>2, <1>3 DEF Late
  <1> HIDE DEF e
  <1>5. Tail(m.cmds) \in Seq(Commands) /\ q \in Seq(Events)
    BY <1>1, <1>3, TailFacts, AppendFacts
  <1>6. m' = [m EXCEPT !.cmds = Tail(m.cmds), !.events = q]
    BY DEF Answer, e
  <1>7. q \in {m.events, Append(m.events, e)}
    OBVIOUS
  <1> HIDE DEF q
  <1>8. m' \in Machines /\ m'.cur = m.cur /\ m'.cmds = Tail(m.cmds) /\ m'.events = q
    BY <1>1, <1>5, <1>6 DEF Machines
  <1>9. SetCmds(m'.cmds)
    BY <1>1, <1>8, SafeTail DEF IInv
  <1>10. NothingLate(m')
    BY <1>1, <1>3, <1>4, <1>7, <1>8, SafeTail, SafeAppend DEF NothingLate, IInv
  <1>11. (ClearComesFirst(m, ctx) => ClearComesFirst(m', ctx))
    BY <1>1, <1>3, <1>4, <1>7, <1>8, SafeTail, SafeAppend DEF ClearComesFirst
  <1> QED BY <1>8, <1>9, <1>10, <1>11 DEF Good, IInv

LEMMA WorkerStep ==
    ASSUME IInv, Good(m', ctx), UNCHANGED <<ctx, conn, seen, entries>>,
           card' \in Cards, spent' \in Nat, faults' \in Nat
    PROVE  Outcome
  BY StateFacts DEF Outcome

LEMMA FaultFacts ==
    ASSUME IInv, Fault \/ NoFault \/ UNCHANGED faults
    PROVE  faults' \in Nat
  BY StateFacts DEF Fault, NoFault

LEMMA AnswerCodes ==
    /\ {"OK", "COMMAND_FAILED", "RESPONSE_EMPTY", "CARD_NOT_FOUND", "PIN_NOT_BLOCKED",
        "PUK_INOPERATIVE", "INVALID_CAN", "INVALID_PUK", "INVALID_PIN", "INVALID_PIN_2",
        "INVALID_PIN_3", "PROTOCOL_ERROR"} \subseteq Codes
    /\ 0 \in -2..3
  BY DEF Codes, WrongCodes, LostCodes, FatalCodes

LEMMA ExecuteCardStep ==
    ASSUME IInv, ExecuteCreate \/ ExecuteUpdate \/ ExecuteDestroy PROVE Outcome
  <1>1. card \in Cards /\ spent \in Nat
    BY StateFacts
  <1>2. /\ card.known \in -2..3 /\ card.tries \in -2..3
        /\ [card EXCEPT !.known = card.tries] \in Cards
        /\ [card EXCEPT !.session = Nothing] \in Cards
        /\ \A b \in BOOLEAN : [card EXCEPT !.linked = b, !.session = Nothing] \in Cards
    <2>1. card.known \in -2..3 /\ card.tries \in -2..3 /\ card.tries \in -1..3
      BY <1>1 DEF Cards
    <2>2. [card EXCEPT !.known = card.tries] \in Cards
      BY <1>1, <2>1 DEF Cards
    <2>3. /\ [card EXCEPT !.session = Nothing] \in Cards
          /\ \A b \in BOOLEAN : [card EXCEPT !.linked = b, !.session = Nothing] \in Cards
      BY <1>1 DEF Cards
    <2> QED BY <2>1, <2>2, <2>3
  <1>3. CASE ExecuteCreate
    <2>1. Executes("create") /\ UNCHANGED <<ctx, conn, seen, spent, entries>>
      BY <1>3 DEF ExecuteCreate
    <2>2. Cmd.wired \in BOOLEAN
      BY <2>1, CmdFacts
    <2>3. card' \in Cards
      BY <1>1, <1>2, <1>3, <2>2 DEF ExecuteCreate
    <2>4. faults' \in Nat
      BY <1>3, FaultFacts DEF ExecuteCreate
    <2>5. Answer("OK", card.known) \/ Answer("COMMAND_FAILED", 0)
      BY <1>3 DEF ExecuteCreate
    <2>6. Good(m', ctx)
      BY <1>2, <2>1, <2>5, AnswerCodes, AnswerGood
    <2> QED BY <1>1, <2>1, <2>3, <2>4, <2>6, WorkerStep
  <1>4. CASE ExecuteUpdate
    <2>1. Executes("update") /\ UNCHANGED <<ctx, conn, seen, spent, entries>>
      BY <1>4 DEF ExecuteUpdate
    <2>2. card' \in Cards
      BY <1>1, <1>2, <1>4 DEF ExecuteUpdate
    <2>3. faults' \in Nat
      BY <1>4, FaultFacts DEF ExecuteUpdate
    <2>4. Answer("OK", card.tries) \/ Answer("COMMAND_FAILED", 0)
      BY <1>4 DEF ExecuteUpdate
    <2>5. Good(m', ctx)
      BY <1>2, <2>1, <2>4, AnswerCodes, AnswerGood
    <2> QED BY <1>1, <2>1, <2>2, <2>3, <2>5, WorkerStep
  <1>5. CASE ExecuteDestroy
    <2>1. /\ Executes("destroy") /\ UNCHANGED <<ctx, conn, seen, spent, faults, entries>>
          /\ card' \in Cards /\ Answer("OK", 0)
      BY <1>2, <1>5 DEF ExecuteDestroy
    <2>2. faults' \in Nat
      BY <2>1, FaultFacts
    <2>3. Good(m', ctx)
      BY <2>1, AnswerCodes, AnswerGood
    <2> QED BY <1>1, <2>1, <2>2, <2>3, WorkerStep
  <1> QED BY <1>3, <1>4, <1>5

LEMMA ExecuteReleaseStep ==
    ASSUME IInv, ExecuteRelease PROVE Outcome
  <1>1. /\ Executes("release") /\ m' = [m EXCEPT !.cmds = Tail(@)]
        /\ UNCHANGED <<ctx, conn, seen, spent, faults, entries>>
        /\ card' = [card EXCEPT !.linked = FALSE, !.session = Nothing]
    BY DEF ExecuteRelease
  <1>2. /\ m \in Machines /\ m.cmds \in Seq(Commands) /\ m.cmds # <<>>
        /\ card \in Cards /\ spent \in Nat /\ faults \in Nat
    BY <1>1, StateFacts, CmdFacts DEF Machines
  <1>3. Tail(m.cmds) \in Seq(Commands)
    BY <1>2, TailFacts
  <1>4. m' \in Machines /\ m'.cur = m.cur /\ m'.cmds = Tail(m.cmds) /\ m'.events = m.events
    BY <1>1, <1>2, <1>3 DEF Machines
  <1>5. SetCmds(m'.cmds) /\ NothingLate(m')
    BY <1>2, <1>4, SafeTail DEF IInv, NothingLate
  <1>6. ClearComesFirst(m, ctx) => ClearComesFirst(m', ctx)
    BY <1>2, <1>4, SafeTail DEF ClearComesFirst
  <1>7. Good(m', ctx)
    BY <1>4, <1>5, <1>6 DEF Good, IInv
  <1>8. card' \in Cards
    BY <1>1, <1>2 DEF Cards
  <1> QED BY <1>1, <1>2, <1>7, <1>8, WorkerStep

LEMMA PaceCardType ==
    ASSUME card \in Cards, NEW type \in PaceTypes \cup {Nothing}, NEW pw
    PROVE  /\ PaceCode(type, pw) \in {"OK", "INVALID_CAN", "INVALID_PUK", "INVALID_PIN",
                                      "INVALID_PIN_2", "INVALID_PIN_3", "PROTOCOL_ERROR"}
           /\ PaceCard(type, PaceCode(type, pw)) \in Cards
  <1> DEFINE code == PaceCode(type, pw)
             tries == IF type # "PIN" \/ code = "PROTOCOL_ERROR" THEN card.tries
                      ELSE IF code = "OK" THEN 3 ELSE card.tries - 1
             session == IF code = "OK" THEN type ELSE Nothing
  <1>1. card.tries \in 0..3
    BY DEF Cards
  <1>2. code \in {"OK", "INVALID_CAN", "INVALID_PUK", "INVALID_PIN", "INVALID_PIN_2",
                  "INVALID_PIN_3", "PROTOCOL_ERROR"}
    BY DEF PaceCode
  <1>3. type = "PIN" /\ card.tries = 0 => code = "PROTOCOL_ERROR"
    BY DEF PaceCode
  <1>4. PaceCard(type, code) = [card EXCEPT !.session = session, !.tries = tries]
    BY DEF PaceCard
  <1> HIDE DEF code
  <1>5. tries \in 0..3 /\ session \in PaceTypes \cup {Nothing}
    BY <1>1, <1>3
  <1> HIDE DEF tries, session
  <1>6. [card EXCEPT !.session = session, !.tries = tries] \in Cards
    BY <1>5 DEF Cards
  <1> QED BY <1>2, <1>4, <1>6 DEF code

LEMMA ExecutePaceStep ==
    ASSUME IInv, ExecutePace PROVE Outcome
  <1> DEFINE type == Cmd.arg
             code == PaceCode(type, Cmd.pw)
             wrong == IF code \in {"INVALID_PIN", "INVALID_PIN_2", "INVALID_PIN_3"} THEN 1 ELSE 0
  <1>1. Executes("pace") /\ UNCHANGED <<ctx, conn, seen, entries>>
    BY DEF ExecutePace
  <1>2. card \in Cards /\ spent \in Nat /\ type \in PaceTypes \cup {Nothing}
    BY <1>1, StateFacts, CmdFacts
  <1>3. code \in Codes /\ PaceCard(type, code) \in Cards
    BY <1>2, PaceCardType, AnswerCodes
  <1>4. Unreachable \in Codes
    BY AnswerCodes DEF Unreachable
  <1>5. /\ \E c \in {"PIN_NOT_BLOCKED", Unreachable, code, "RESPONSE_EMPTY"} : Answer(c, 0)
        /\ Fault \/ NoFault
        /\ card' \in {card, PaceCard(type, code)}
        /\ spent' \in {spent, spent + wrong}
    BY DEF ExecutePace
  <1> HIDE DEF code
  <1>6. spent + wrong \in Nat
    BY <1>2
  <1> HIDE DEF wrong
  <1>7. Good(m', ctx)
    BY <1>1, <1>3, <1>4, <1>5, AnswerCodes, AnswerGood
  <1>8. faults' \in Nat
    BY <1>5, FaultFacts
  <1>9. card' \in Cards /\ spent' \in Nat
    BY <1>2, <1>3, <1>5, <1>6
  <1> QED BY <1>1, <1>7, <1>8, <1>9, WorkerStep

LEMMA ExecuteResetSetStep ==
    ASSUME IInv, ExecuteReset \/ ExecuteSet PROVE Outcome
  <1>1. card \in Cards /\ spent \in Nat
    BY StateFacts
  <1>2. CASE ExecuteReset
    <2>1. Executes("reset") /\ UNCHANGED <<ctx, conn, seen, spent, entries>>
      BY <1>2 DEF ExecuteReset
    <2>2. \E code \in {"OK", "PUK_INOPERATIVE", "COMMAND_FAILED"} : Answer(code, 0)
      BY <1>2 DEF ExecuteReset
    <2>3. Good(m', ctx)
      BY <2>1, <2>2, AnswerCodes, AnswerGood
    <2>4. faults' \in Nat
      BY <1>2, FaultFacts DEF ExecuteReset
    <2>5. [card EXCEPT !.tries = 3] \in Cards
      <3>1. 3 \in 0..3
        OBVIOUS
      <3> QED BY <1>1, <3>1 DEF Cards
    <2>6. card' \in Cards
      BY <1>1, <1>2, <2>5 DEF ExecuteReset
    <2> QED BY <1>1, <2>1, <2>3, <2>4, <2>6, WorkerStep
  <1>3. CASE ExecuteSet
    <2> DEFINE changed == [card EXCEPT !.pin = IF Cmd.pw = Nothing THEN @ ELSE Cmd.pw]
    <2>1. Executes("set") /\ UNCHANGED <<ctx, conn, seen, spent, entries>>
      BY <1>3 DEF ExecuteSet
    <2>2. Cmd.pw \in Pins \cup {Nothing}
      BY <2>1, CmdFacts
    <2>3. changed \in Cards
      BY <1>1, <2>2 DEF Cards
    <2>4. /\ card' \in {card, changed}
          /\ \E code \in {"OK", "RESPONSE_EMPTY", "COMMAND_FAILED"} : Answer(code, 0)
      BY <1>3 DEF ExecuteSet
    <2> HIDE DEF changed
    <2>5. Good(m', ctx)
      BY <2>1, <2>4, AnswerCodes, AnswerGood
    <2>6. faults' \in Nat
      BY <1>3, FaultFacts DEF ExecuteSet
    <2>7. card' \in Cards
      BY <1>1, <2>3, <2>4
    <2> QED BY <1>1, <2>1, <2>5, <2>6, <2>7, WorkerStep
  <1> QED BY <1>2, <1>3

-----------------------------------------------------------------------------
(* The user, the UIs and the card. *)

(* Before Clear is entered a password may be set.                          *)
LEMMA EarlyGood ==
    ASSUME IInv, m.cur \notin Over, NEW c
    PROVE  Good(m, c)
  <1>1. m \in Machines /\ m.events \in Seq(Events) /\ SetCmds(m.cmds) /\ NothingLate(m)
    BY StateFacts DEF IInv, Machines
  <1>2. NoLate(m.events) /\ NoLateCmd(m.cmds)
    BY <1>1 DEF NothingLate
  <1>3. Safe(m.events)
    BY <1>2 DEF Safe, NoLate
  <1>4. m.cur \notin {"Clear", "UpdateFinal", "CleanUp", "Final", "stopped"}
    BY DEF Over, Last
  <1> QED BY <1>1, <1>2, <1>3, <1>4 DEF Good, ClearComesFirst

LEMMA ApproveGood ==
    ASSUME NEW c, Good(m, c), m.cur \in States, m.cur = "Final" => ~Remains(c)
    PROVE  Good(Approved(m), c) /\ Approved(m).cur = m.cur
  <1> DEFINE mm == [m EXCEPT !.approved = TRUE]
  <1>1. m \in Machines
    BY DEF Good
  <1>2. mm \in Machines /\ mm.cur = m.cur /\ mm.events = m.events /\ mm.cmds = m.cmds
    BY <1>1 DEF Machines
  <1> HIDE DEF mm
  <1>3. Good(mm, c)
    BY <1>2 DEF Good, NothingLate, ClearComesFirst
  <1>4. Run(m.cur) \in Events /\ (Late(Run(m.cur)) => m.cur \in Last \ {"Clear"})
    BY EventKinds
  <1>5. Late(Run(m.cur)) => mm.cur \in Over /\ (Remains(c) => Due(mm.events))
    BY <1>2, <1>3, <1>4 DEF Good, ClearComesFirst, Over, Last
  <1>6. Good(Post(mm, Run(m.cur)), c) /\ Post(mm, Run(m.cur)).cur = mm.cur
    BY <1>2, <1>3, <1>4, <1>5, PostGood, PostFacts
  <1>7. Approved(m) = Post(mm, Run(m.cur))
    BY <1>2 DEF Approved, mm
  <1> QED BY <1>2, <1>6, <1>7

LEMMA EntryStep ==
    ASSUME IInv, EnterPassword \/ EnterNewPin \/ Confirm PROVE Outcome
  <1>1. /\ Good(m, ctx) /\ ctx \in Contexts /\ (ctx.killed => ctx.cancelled)
        /\ conn \in Connections /\ seen \in BOOLEAN /\ card \in Cards
        /\ spent \in Nat /\ faults \in Nat /\ entries \in Nat
    BY StateFacts
  <1>2. {"EnterPassword", "EnterNewPin", "Unfortunate"} \subseteq States \ Over /\ "Final" \in States
    BY MaintainState, LastStates DEF Over, Last
  <1>3. m' = Approved(m) /\ UNCHANGED <<conn, seen, card, faults>>
    BY DEF EnterPassword, EnterNewPin, Confirm
  <1>4. /\ ctx' \in Contexts /\ ctx'.killed = ctx.killed /\ ctx'.cancelled = ctx.cancelled
        /\ spent' \in Nat /\ entries' \in Nat
    <2>1. \A pin \in Pins : LET c == [ctx EXCEPT !.pin = pin]
                            IN  c \in Contexts /\ c.killed = ctx.killed /\ c.cancelled = ctx.cancelled
      BY <1>1 DEF Contexts
    <2>2. \A s \in Secrets : LET c == [ctx EXCEPT !.can = s]
                             IN  c \in Contexts /\ c.killed = ctx.killed /\ c.cancelled = ctx.cancelled
      BY <1>1 DEF Contexts
    <2>3. \A s \in Secrets : LET c == [ctx EXCEPT !.puk = s]
                             IN  c \in Contexts /\ c.killed = ctx.killed /\ c.cancelled = ctx.cancelled
      BY <1>1 DEF Contexts
    <2>4. "new" \in Pins
      BY DEF Pins
    <2>5. LET c == [ctx EXCEPT !.newPin = "new"]
          IN  c \in Contexts /\ c.killed = ctx.killed /\ c.cancelled = ctx.cancelled
      BY <1>1, <2>4 DEF Contexts
    <2>6. CASE EnterPassword
      <3>1. entries' \in Nat
        BY <1>1, <2>6 DEF EnterPassword
      <3>2. spent' \in Nat
        BY <1>1, <2>6 DEF EnterPassword
      <3> QED BY <2>1, <2>2, <2>3, <2>6, <3>1, <3>2 DEF EnterPassword
    <2>7. CASE EnterNewPin
      BY <1>1, <2>5, <2>7 DEF EnterNewPin
    <2>8. CASE Confirm
      BY <1>1, <2>8 DEF Confirm
    <2> QED BY <2>6, <2>7, <2>8
  <1>5. m.cur \in States /\ Good(m, ctx') /\ (m.cur = "Final" => ~Remains(ctx'))
    <2>1. CASE m.cur \in {"EnterPassword", "EnterNewPin", "Unfortunate"}
      BY <1>2, <2>1, EarlyGood
    <2>2. CASE m.cur = "Final"
      <3>1. ctx' = ctx
        BY <2>2 DEF EnterPassword, EnterNewPin, Confirm
      <3> QED BY <1>1, <1>2, <2>2, <3>1 DEF Good, ClearComesFirst
    <2>3. m.cur \in {"EnterPassword", "EnterNewPin", "Unfortunate", "Final"}
      BY DEF EnterPassword, EnterNewPin, Confirm
    <2> QED BY <2>1, <2>2, <2>3
  <1>6. Good(m', ctx')
    BY <1>3, <1>5, ApproveGood
  <1> QED BY <1>1, <1>3, <1>4, <1>6 DEF Outcome

(* A cancellation: the context notes it and the current state aborts.      *)
LEMMA CancelGood ==
    ASSUME IInv, NEW mm, NEW c \in Contexts, mm.cur = m.cur, CancelIn(mm, c),
           LET cc == [c EXCEPT !.cancelled = TRUE]
           IN  /\ Good(mm, cc)
               /\ Remains(cc) => /\ m.cur = "UpdateFinal" => c.killed
                                 /\ m.cur # "CleanUp"
    PROVE  Good(m', ctx') /\ ctx' \in Contexts /\ (ctx'.killed => ctx'.cancelled)
  <1> DEFINE cc == [c EXCEPT !.cancelled = TRUE]
             d  == OnUserCancelled(cc, mm.cur)
  <1>1. cc \in Contexts /\ cc.cancelled /\ cc.killed = c.killed
    BY DEF Contexts
  <1>2. CASE ~Running
    <2>1. ctx' = cc /\ m' = mm
      BY <1>2 DEF CancelIn
    <2> QED BY <1>1, <2>1
  <1>3. CASE Running
    <2>1. ctx' = d /\ m' = Fire(mm, ctx', mm.cur, "abort")
      BY <1>3 DEF CancelIn
    <2>2. m.cur \in States
      BY <1>3, StateFacts DEF Running, Machines
    <2>3. Good(mm, cc) /\ (Remains(cc) => (m.cur = "UpdateFinal" => cc.killed) /\ m.cur # "CleanUp")
      BY <1>1
    <2> HIDE DEF cc
    <2>4. d \in Contexts /\ Alike(d, cc)
      BY <1>1, StatusFacts
    <2> HIDE DEF d
    <2>5. d.cancelled /\ (Remains(d) <=> Remains(cc)) /\ d.killed = cc.killed
      BY <1>1, <2>4, RemainsFacts DEF Alike
    <2>6. Good(mm, d)
      BY <1>1, <2>3, <2>5 DEF Good, ClearComesFirst
    <2>7. MayLeave(mm, d, m.cur)
      BY <2>3, <2>5 DEF MayLeave
    <2>8. Good(Fire(mm, d, m.cur, "abort"), d)
      BY <2>2, <2>4, <2>6, <2>7, FireGood
    <2> QED BY <2>1, <2>4, <2>5, <2>8
  <1> QED BY <1>2, <1>3

LEMMA CancelWorkflowStep ==
    ASSUME IInv, CancelWorkflow PROVE Outcome
  <1> DEFINE cc == [ctx EXCEPT !.cancelled = TRUE]
  <1>1. /\ Good(m, ctx) /\ ctx \in Contexts /\ (ctx.killed => ctx.cancelled)
        /\ conn \in Connections /\ seen \in BOOLEAN /\ card \in Cards
        /\ spent \in Nat /\ faults \in Nat /\ entries \in Nat
    BY StateFacts
  <1>2. ~ctx.cancelled /\ CancelIn(m, ctx) /\ UNCHANGED <<conn, seen, card, spent, faults, entries>>
    BY DEF CancelWorkflow
  <1>3. cc \in Contexts /\ cc.cancelled /\ cc.killed = ctx.killed /\ (Remains(cc) <=> Remains(ctx))
    <2>1. /\ cc \in Contexts /\ cc.cancelled /\ cc.killed = ctx.killed
          /\ cc.pin = ctx.pin /\ cc.can = ctx.can /\ cc.puk = ctx.puk /\ cc.newPin = ctx.newPin
      BY <1>1 DEF Contexts
    <2> HIDE DEF cc
    <2>2. /\ Remains(cc) <=> \/ cc.pin # Nothing \/ cc.can # Nothing
                              \/ cc.puk # Nothing \/ cc.newPin # Nothing
          /\ Remains(ctx) <=> \/ ctx.pin # Nothing \/ ctx.can # Nothing
                               \/ ctx.puk # Nothing \/ ctx.newPin # Nothing
      BY <1>1, <2>1, RemainsFacts
    <2> QED BY <2>1, <2>2
  <1> HIDE DEF cc
  <1>4. Good(m, cc)
    BY <1>1, <1>3 DEF Good, ClearComesFirst
  <1>5. Remains(cc) => m.cur # "UpdateFinal" /\ m.cur # "CleanUp"
    BY <1>1, <1>2, <1>3 DEF Good, ClearComesFirst
  <1>6. Good(m', ctx') /\ ctx' \in Contexts /\ (ctx'.killed => ctx'.cancelled)
    BY <1>1, <1>2, <1>4, <1>5, CancelGood DEF cc
  <1> QED BY <1>1, <1>2, <1>6 DEF Outcome

LEMMA KillWorkflowStep ==
    ASSUME IInv, KillWorkflow PROVE Outcome
  <1> DEFINE c  == [ctx EXCEPT !.killed = TRUE, !.status = "cancelled"]
             cc == [c EXCEPT !.cancelled = TRUE]
             mm == IF m.approved THEN m
                   ELSE IF m.cur = "none" THEN [m EXCEPT !.approved = TRUE] ELSE Approved(m)
  <1>1. /\ Good(m, ctx) /\ m \in Machines /\ ctx \in Contexts /\ (ctx.killed => ctx.cancelled)
        /\ conn \in Connections /\ seen \in BOOLEAN /\ card \in Cards
        /\ spent \in Nat /\ faults \in Nat /\ entries \in Nat
    BY StateFacts
  <1>2. /\ m.cur # "stopped" /\ ~ctx.killed /\ CancelIn(mm, c)
        /\ UNCHANGED <<conn, seen, card, spent, faults, entries>>
    BY DEF KillWorkflow
  <1>3. c \in Contexts /\ c.killed
    BY <1>1 DEF Contexts
  <1>4. cc \in Contexts /\ cc.cancelled /\ cc.killed /\ (Remains(cc) <=> Remains(ctx))
    <2>1. /\ cc \in Contexts /\ cc.cancelled /\ cc.killed
          /\ cc.pin = ctx.pin /\ cc.can = ctx.can /\ cc.puk = ctx.puk /\ cc.newPin = ctx.newPin
      BY <1>1 DEF Contexts
    <2> HIDE DEF cc
    <2>2. /\ Remains(cc) <=> \/ cc.pin # Nothing \/ cc.can # Nothing
                              \/ cc.puk # Nothing \/ cc.newPin # Nothing
          /\ Remains(ctx) <=> \/ ctx.pin # Nothing \/ ctx.can # Nothing
                               \/ ctx.puk # Nothing \/ ctx.newPin # Nothing
      BY <1>1, <2>1, RemainsFacts
    <2> QED BY <2>1, <2>2
  <1>5. cc = [c EXCEPT !.cancelled = TRUE]
    OBVIOUS
  <1> HIDE DEF cc, c
  <1>6. Good(m, cc)
    BY <1>1, <1>4 DEF Good, ClearComesFirst
  <1>7. Good(mm, cc) /\ mm.cur = m.cur
    <2>1. CASE m.approved
      BY <1>6, <2>1
    <2>2. CASE ~m.approved /\ m.cur = "none"
      <3> DEFINE new == [m EXCEPT !.approved = TRUE]
      <3>1. new \in Machines /\ new.cur = m.cur /\ new.events = m.events /\ new.cmds = m.cmds
        BY <1>1 DEF Machines
      <3>2. mm = new
        BY <2>2
      <3> HIDE DEF new, mm
      <3> QED BY <1>6, <3>1, <3>2 DEF Good, NothingLate, ClearComesFirst
    <2>3. CASE ~m.approved /\ m.cur # "none"
      <3>1. m.cur \in States
        BY <1>1, <1>2, <2>3 DEF Machines
      <3>2. m.cur = "Final" => ~Remains(cc)
        BY <1>6 DEF Good, ClearComesFirst
      <3> QED BY <1>6, <2>3, <3>1, <3>2, ApproveGood
    <2> QED BY <2>1, <2>2, <2>3
  <1>8. Remains(cc) => m.cur # "CleanUp"
    BY <1>1, <1>2, <1>4 DEF Good, ClearComesFirst
  <1> HIDE DEF mm
  <1>9. Good(m', ctx') /\ ctx' \in Contexts /\ (ctx'.killed => ctx'.cancelled)
    BY <1>2, <1>3, <1>5, <1>7, <1>8, CancelGood
  <1> QED BY <1>1, <1>2, <1>9 DEF Outcome

LEMMA StartStep ==
    ASSUME IInv, Start PROVE Outcome
  <1>1. /\ Good(m, ctx) /\ m \in Machines /\ ctx \in Contexts /\ (ctx.killed => ctx.cancelled)
        /\ conn \in Connections /\ seen \in BOOLEAN /\ card \in Cards
        /\ spent \in Nat /\ faults \in Nat /\ entries \in Nat
    BY StateFacts
  <1>2. m.cur = "none" /\ m' = Enter(m, ctx, "Maintain")
        /\ UNCHANGED <<ctx, conn, seen, card, spent, faults, entries>>
    BY DEF Start
  <1>3. "Maintain" \in States /\ "Maintain" \notin Last /\ "Maintain" \notin Over
    BY MaintainState DEF Over, Last
  <1>4. NoLate(m.events) /\ NoLateCmd(m.cmds) /\ m.events \in Seq(Events)
    BY <1>1, <1>2 DEF Good, NothingLate, Over, Last, Machines
  <1> DEFINE q == IF ~m.approved /\ ("Maintain" \notin Waiting \/ ctx.killed)
                  THEN Append(m.events, Run("Maintain")) ELSE m.events
  <1>5. /\ m' \in Machines /\ m'.cur = "Maintain" /\ m'.cmds = m.cmds
        /\ q \in Seq(Events) /\ m'.events \in {q, Append(q, Cancel("Maintain"))}
    BY <1>1, <1>2, <1>3, EnterFacts
  <1>6. q \in {m.events, Append(m.events, Run("Maintain"))}
    OBVIOUS
  <1> HIDE DEF q
  <1>7. /\ Run("Maintain") \in Events /\ Cancel("Maintain") \in Events
        /\ ~Late(Run("Maintain")) /\ ~Late(Cancel("Maintain"))
    BY <1>3, EventKinds
  <1>8. NoLate(q)
    BY <1>4, <1>6, <1>7, SafeAppend
  <1>9. NoLate(m'.events)
    BY <1>5, <1>7, <1>8, SafeAppend
  <1>10. Safe(m'.events)
    BY <1>9 DEF Safe, NoLate
  <1>11. Good(m', ctx)
    BY <1>1, <1>4, <1>5, <1>9, <1>10 DEF Good, NothingLate, ClearComesFirst
  <1> QED BY <1>1, <1>2, <1>11 DEF Outcome

LEMMA CardStep ==
    ASSUME IInv, RemoveCard \/ InsertCard PROVE Outcome
  <1>1. /\ Good(m, ctx) /\ ctx \in Contexts /\ (ctx.killed => ctx.cancelled)
        /\ conn \in Connections /\ seen \in BOOLEAN /\ card \in Cards
        /\ spent \in Nat /\ faults \in Nat /\ entries \in Nat
    BY StateFacts
  <1>2. UNCHANGED <<ctx, conn, seen, spent, entries>> /\ (Fault \/ UNCHANGED faults)
    BY DEF RemoveCard, InsertCard
  <1>3. card.tries \in 0..3
    BY <1>1 DEF Cards
  <1>4. \E e \in {Removed, Inserted(card.tries)} : m' = Post(m, e)
    BY DEF RemoveCard, InsertCard
  <1>5. Good(m', ctx)
    BY <1>1, <1>3, <1>4, EventKinds, PostGood
  <1>6. card' \in Cards
    <2>1. -1 \in -1..3 /\ card.tries \in -1..3
      BY <1>3
    <2>2. [card EXCEPT !.present = FALSE, !.linked = FALSE, !.known = -1, !.session = Nothing] \in Cards
      BY <1>1, <2>1 DEF Cards
    <2>3. [card EXCEPT !.present = TRUE, !.known = card.tries] \in Cards
      BY <1>1, <2>1 DEF Cards
    <2> QED BY <2>2, <2>3 DEF RemoveCard, InsertCard
  <1>7. faults' \in Nat
    BY <1>2, FaultFacts
  <1> QED BY <1>1, <1>2, <1>5, <1>6, <1>7 DEF Outcome

-----------------------------------------------------------------------------

LEMMA InitOK == Init => IInv
  <1> SUFFICES ASSUME Init PROVE IInv
    OBVIOUS
  <1>1. PICK setup \in Setups, present \in BOOLEAN :
        /\ m = [cur |-> "none", approved |-> FALSE, stray |-> {}, listening |-> {},
                events |-> <<>>, cmds |-> <<>>]
        /\ ctx = [ui |-> setup.ui, onlyCheck |-> setup.onlyCheck, killed |-> FALSE,
                  cancelled |-> FALSE, inState |-> FALSE, status |-> "ok", failure |-> FALSE,
                  lastPace |-> "OK", expected |-> NoReader, paceType |-> Nothing,
                  reader |-> FALSE, pin |-> Nothing, can |-> Nothing, puk |-> Nothing,
                  newPin |-> Nothing, vanished |-> 0]
        /\ conn = NoConn
        /\ card = [present |-> present, linked |-> FALSE, tries |-> setup.tries,
                   known |-> IF present THEN setup.tries ELSE -1, pin |-> "old",
                   session |-> Nothing]
        /\ seen = present
        /\ spent = 0 /\ faults = setup.faults /\ entries = setup.entries
    BY DEF Init
  <1>2. /\ setup.ui \in {"json", "qml"} /\ setup.onlyCheck \in BOOLEAN /\ setup.tries \in 0..3
        /\ setup.faults \in Nat /\ setup.entries \in Nat
    BY ChangePinAssumption
  <1>3. <<>> \in Seq(Events) /\ <<>> \in Seq(Commands)
    OBVIOUS
  <1>4. m \in Machines
    BY <1>1, <1>3 DEF Machines
  <1>5. ctx \in Contexts
    BY <1>1, <1>2, CodesOK, NoConnType DEF Contexts
  <1>6. card \in Cards
    <2>1. setup.tries \in -1..3 /\ -1 \in -1..3
      BY <1>2
    <2>2. "old" \in Pins
      BY DEF Pins
    <2> QED BY <1>1, <1>2, <2>1, <2>2 DEF Cards
  <1>7. TypeOK
    BY <1>1, <1>2, <1>4, <1>5, <1>6, NoConnType, TypeParts
  <1>8. ~Remains(ctx) /\ ~ctx.killed
    BY <1>1, <1>5, RemainsFacts
  <1>9. NothingLate(m) /\ SetCmds(m.cmds)
    BY <1>1 DEF NothingLate, NoLate, NoLateCmd, SetCmds
  <1> QED BY <1>7, <1>8, <1>9 DEF IInv, ClearComesFirst

LEMMA StepOK == IInv /\ [Next]_vars => IInv'
  <1> SUFFICES ASSUME IInv, [Next]_vars PROVE IInv'
    OBVIOUS
  <1>1. CASE Start
    BY <1>1, StartStep, OutcomeIsInvariant
  <1>2. CASE MainThread
    <2>1. CASE RunMaintain \/ RunSelectReader \/ RunConnectCard
      BY <2>1, RunMaintainStep, RunSelectReaderStep, RunConnectCardStep, OutcomeIsInvariant
    <2>2. CASE RunUpdateRetry \/ RunResetRetry \/ RunDestroy \/ RunChangePin
      BY <2>2, CardStatesStep, OutcomeIsInvariant
    <2>3. CASE RunVerify \/ RunPreparePace \/ RunUnfortunate \/ RunCheckError \/ RunPrepareChange
      BY <2>3, CounterChecksStep, OutcomeIsInvariant
    <2>4. CASE RunEstablish
      BY <2>4, RunEstablishStep, OutcomeIsInvariant
    <2>5. CASE RunClear \/ RunCleanUp \/ RunContinue \/ HandleCancel
      BY <2>5, RunClearStep, RunLastStep, HandleCancelStep, OutcomeIsInvariant
    <2>6. CASE CreateDone \/ UpdateDone \/ PaceDone
      BY <2>6, CreateUpdateDoneStep, PaceDoneStep, OutcomeIsInvariant
    <2>7. CASE ResetDone \/ SetDone \/ DestroyDone
      BY <2>7, OtherDoneStep, OutcomeIsInvariant
    <2>8. CASE CardRemoved \/ CardInserted
      BY <2>8, ReportStep, OutcomeIsInvariant
    <2> QED BY <1>2, <2>1, <2>2, <2>3, <2>4, <2>5, <2>6, <2>7, <2>8 DEF MainThread
  <1>3. CASE WorkerThread
    BY <1>3, ExecuteCardStep, ExecuteReleaseStep, ExecutePaceStep, ExecuteResetSetStep,
       OutcomeIsInvariant DEF WorkerThread
  <1>4. CASE Users
    BY <1>4, EntryStep, CancelWorkflowStep, KillWorkflowStep, OutcomeIsInvariant DEF Users
  <1>5. CASE RemoveCard \/ InsertCard
    BY <1>5, CardStep, OutcomeIsInvariant
  <1>6. CASE UNCHANGED vars
    <2>1. UNCHANGED <<m, ctx, conn, seen, card, spent, faults, entries>>
      BY <1>6 DEF vars
    <2> QED BY <2>1 DEF IInv, TypeOK, SetCmds, NothingLate, ClearComesFirst
  <1> QED BY <1>1, <1>2, <1>3, <1>4, <1>5, <1>6 DEF Next, Terminated

(* The order of the last states is an invariant of the workflow: while a   *)
(* password remains, run() of Clear is ahead of everything that leads to   *)
(* the final state.                                                        *)
THEOREM Invariance == Spec => []IInv
  BY InitOK, StepOK, PTL DEF Spec

(* Every variable keeps its type, whatever is removed, lost or cancelled.  *)
THEOREM TypeCorrect == Spec => []TypeOK
  <1>1. IInv => TypeOK
    BY DEF IInv
  <1> QED BY <1>1, Invariance, PTL

(* ~WorkflowContext and ~ChangePinContext: no password is left once the    *)
(* workflow reaches its final state, even if a cancellation and the end of *)
(* the workflow skip the states that clear them.                           *)
THEOREM NoPasswordIsLeft == Spec => []PasswordsCleared
  <1>1. IInv => PasswordsCleared
    BY DEF IInv, ClearComesFirst, Remains, PasswordsCleared
  <1> QED BY <1>1, Invariance, PTL

-----------------------------------------------------------------------------
(* The result: the states at the end, which tell it, are only reached with *)
(* the PIN changed, with an error, or when it was only to be checked.      *)

Ending   == {"Destroy", "Clear", "UpdateFinal", "CleanUp", "Final", "stopped"}
Changing == {"EnterNewPin", "ChangePin"}
Aside    == {"UpdateRetry", "UpdateFinal", "PaceDestroy", "Destroy"}
Kinds    == {"removed", "inserted"}
NewPins  == {Nothing, "new"}

(* What is posted and sent: a state of the change only runs, and a PIN is  *)
(* only set, if the PIN is not just to be checked; the answer OK comes     *)
(* from a card that has the new PIN.                                       *)
Fit(e, c, k) ==
    /\ e.type = "run" /\ e.st \in Changing => ~c.onlyCheck
    /\ e.type = "done" /\ e.op = "set" => ~c.onlyCheck /\ (e.code = "OK" => k.pin = "new")
    /\ e.type = "done" /\ e.op \in {"update", "destroy"} => e.st \in Aside
FitCmd(x, c) ==
    /\ x.op = "set" => ~c.onlyCheck /\ x.pw \in NewPins
    /\ x.op \in {"update", "destroy"} => x.owner \in Aside
AllFit(q, c, k)  == \A j \in 1..Len(q) : Fit(q[j], c, k)
AllFitCmd(q, c)  == \A j \in 1..Len(q) : FitCmd(q[j], c)

Sound(mm, c, k) ==
    /\ mm \in Machines
    /\ AllFit(mm.events, c, k) /\ AllFitCmd(mm.cmds, c)
    /\ mm.cur \in Changing => ~c.onlyCheck
    /\ mm.cur \in Ending /\ c.status = "ok" /\ ~c.onlyCheck => k.pin = "new"

Honest(c, k) == c.newPin \in NewPins /\ (c.onlyCheck => k.pin = "old")

(* An error is told: only a workflow killed before its first state has one *)
(* without a failure code, until that state handles its cancellation.      *)
Told(c)     == c.status = "ok" \/ c.failure
Idle(mm)    == mm.cmds = <<>> /\ mm.listening = {}
Fresh(mm) ==
    mm.cur = "none" => Idle(mm) /\ \A j \in 1..Len(mm.events) : mm.events[j].type \in Kinds
Unheard(mm) ==
    /\ Idle(mm) /\ mm.cur \in {"none", "Maintain"} /\ (mm.cur = "none" => mm.approved)
    /\ \A j \in 1..Len(mm.events) : mm.events[j].type \in Kinds \/ mm.events[j] = Cancel("Maintain")

RInv ==
    /\ Sound(m, ctx, card) /\ Honest(ctx, card)
    /\ Fresh(m) /\ (~Told(ctx) => Unheard(m))

LEMMA StatesNotNone == "none" \notin States /\ "stopped" \notin States
  BY PaceStates, ChangeStates DEF States

LEMMA FitAppend ==
    ASSUME NEW S, NEW q \in Seq(S), NEW e \in S, NEW c, NEW k
    PROVE  /\ AllFit(q, c, k) /\ Fit(e, c, k) => AllFit(Append(q, e), c, k)
           /\ AllFitCmd(q, c) /\ FitCmd(e, c) => AllFitCmd(Append(q, e), c)
  <1>1. /\ Len(Append(q, e)) = Len(q) + 1 /\ Len(q) \in Nat
        /\ \A j \in 1..(Len(q) + 1) : Append(q, e)[j] = IF j = Len(q) + 1 THEN e ELSE q[j]
    BY AppendFacts
  <1>2. \A j \in 1..Len(Append(q, e)) :
            Append(q, e)[j] = e \/ (j \in 1..Len(q) /\ Append(q, e)[j] = q[j])
    BY <1>1
  <1> QED BY <1>2 DEF AllFit, AllFitCmd

LEMMA FitTail ==
    ASSUME NEW S, NEW q \in Seq(S), q # <<>>, NEW c, NEW k
    PROVE  /\ AllFit(q, c, k) => AllFit(Tail(q), c, k) /\ Fit(Head(q), c, k)
           /\ AllFitCmd(q, c) => AllFitCmd(Tail(q), c) /\ FitCmd(Head(q), c)
  <1>1. /\ Len(q) \in Nat /\ Len(q) >= 1 /\ Head(q) = q[1]
        /\ \A j \in 1..Len(Tail(q)) : j + 1 \in 1..Len(q) /\ Tail(q)[j] = q[j + 1]
    BY TailFacts
  <1>2. 1 \in 1..Len(q)
    BY <1>1
  <1> QED BY <1>1, <1>2 DEF AllFit, AllFitCmd

LEMMA FitKinds ==
    ASSUME NEW c, NEW k
    PROVE  /\ \A s : (s \in Changing => ~c.onlyCheck) => Fit(Run(s), c, k)
           /\ \A s : Fit(Cancel(s), c, k)
           /\ Fit(Removed, c, k) /\ \A n : Fit(Inserted(n), c, k)
  BY DEF Fit, Run, Cancel, Removed, Inserted

(* Another context, and a card that got the new PIN, fit as well.          *)
LEMMA SoundLater ==
    ASSUME NEW mm, NEW c, NEW k, Sound(mm, c, k), NEW d, NEW l, d.onlyCheck = c.onlyCheck,
           d.status = "ok" => c.status = "ok", k.pin = "new" => l.pin = "new"
    PROVE  Sound(mm, d, l)
  <1>1. AllFit(mm.events, d, l)
    BY DEF Sound, AllFit, Fit
  <1>2. AllFitCmd(mm.cmds, d)
    BY DEF Sound, AllFitCmd, FitCmd
  <1> QED BY <1>1, <1>2 DEF Sound

(* The same machine but for the approval and the connections.              *)
LEMMA SoundSame ==
    ASSUME NEW mm, NEW c, NEW k, Sound(mm, c, k), NEW nn \in Machines,
           nn.cur = mm.cur, nn.events = mm.events, nn.cmds = mm.cmds
    PROVE  Sound(nn, c, k)
  BY DEF Sound

(* A signal may be emitted: an error was noted before a state aborts, the  *)
(* change is skipped if and only if the PIN is just to be checked, and it  *)
(* is done when the card has the new PIN.                                  *)
MayEmit(c, k, st, sig) ==
    /\ sig = "abort" => c.status # "ok"
    /\ st = "PrepareChange" => /\ sig = "skip" => c.onlyCheck
                               /\ sig \in {"continue", "enter"} => ~c.onlyCheck
    /\ st = "EnterNewPin" /\ sig = "continue" => ~c.onlyCheck
    /\ st = "ChangePin" /\ sig = "continue" => k.pin = "new"

LEMMA TargetSound ==
    ASSUME NEW cur, NEW st \in States, NEW sig, NEW c, NEW k, MayEmit(c, k, st, sig),
           NEW to, to = Target(cur, st, sig), to # "ignored"
    PROVE  /\ to \in Changing => ~c.onlyCheck
           /\ to \in Ending /\ c.status = "ok" /\ ~c.onlyCheck => k.pin = "new" \/ cur \in Ending
  <1>1. \A s \in Composite : \A g \in DOMAIN PaceEdges[s] : PaceEdges[s][g] \in Composite
    BY PaceStates DEF PaceEdges
  <1>2. \A s \in DOMAIN ChangeEdges : \A g \in DOMAIN ChangeEdges[s] :
            \A t : t = ChangeEdges[s][g] =>
                /\ t \in Changing => \/ s = "PrepareChange" /\ g \in {"continue", "enter"}
                                     \/ s = "EnterNewPin" /\ g = "continue"
                /\ t \in Ending => \/ s \in Ending \/ g = "abort"
                                   \/ s = "PrepareChange" /\ g = "skip"
                                   \/ s = "ChangePin" /\ g = "continue"
    BY ChangeStates DEF ChangeEdges, Changing, Ending
  <1>3. \A s \in Composite : s \notin Changing /\ s \notin Ending
    BY PaceStates DEF Changing, Ending
  <1>4. CASE st = "Establish" /\ sig = "continue"
    <2>1. to = "PrepareChange"
      BY <1>4 DEF Target
    <2> QED BY <2>1 DEF Changing, Ending
  <1>5. CASE st = "CheckError" /\ sig = "abort"
    <2>1. to = "Clear" /\ c.status # "ok"
      BY <1>5 DEF Target, MayEmit
    <2> QED BY <2>1 DEF Changing
  <1>6. CASE ~(st = "Establish" /\ sig = "continue") /\ ~(st = "CheckError" /\ sig = "abort")
    <2>1. cur = st /\ sig \in DOMAIN Edges[st] /\ to = Edges[st][sig]
      BY <1>6 DEF Target
    <2>2. CASE st \in Composite
      <3>1. sig \in DOMAIN PaceEdges[st] /\ to = PaceEdges[st][sig]
        BY <2>1, <2>2 DEF Edges, States
      <3> QED BY <3>1, <2>2, <1>1, <1>3
    <2>3. CASE st \notin Composite
      <3>1. st \in DOMAIN ChangeEdges /\ sig \in DOMAIN ChangeEdges[st] /\ to = ChangeEdges[st][sig]
        BY <2>1, <2>3 DEF Edges, States
      <3>2. /\ to \in Changing => \/ st = "PrepareChange" /\ sig \in {"continue", "enter"}
                                  \/ st = "EnterNewPin" /\ sig = "continue"
            /\ to \in Ending => \/ st \in Ending \/ sig = "abort"
                                \/ st = "PrepareChange" /\ sig = "skip"
                                \/ st = "ChangePin" /\ sig = "continue"
        BY ONLY <3>1, <1>2
      <3> QED BY <3>2, <2>1 DEF MayEmit
    <2> QED BY <2>2, <2>3
  <1> QED BY <1>4, <1>5, <1>6

LEMMA FireSound ==
    ASSUME NEW mm, NEW c \in Contexts, NEW k, NEW st \in States, NEW sig,
           Sound(mm, c, k), MayEmit(c, k, st, sig)
    PROVE  /\ Sound(Fire(mm, c, st, sig), c, k)
           /\ mm.cur # "none" => Fire(mm, c, st, sig).cur # "none"
  <1> DEFINE to == Target(mm.cur, st, sig)
             e  == Exit(mm)
  <1>0. mm \in Machines
    BY DEF Sound
  <1>1. CASE to = "ignored"
    BY <1>1 DEF Fire
  <1>2. /\ e \in Machines /\ e.cur = mm.cur /\ e.events = mm.events
        /\ Len(e.cmds) = Len(mm.cmds)
        /\ \A j \in 1..Len(mm.cmds) : /\ e.cmds[j].owner = mm.cmds[j].owner
                                      /\ e.cmds[j].op = mm.cmds[j].op
                                      /\ e.cmds[j].pw = mm.cmds[j].pw
    BY <1>0, ExitFacts
  <1>3. AllFitCmd(e.cmds, c) /\ AllFit(e.events, c, k)
    BY <1>2 DEF AllFitCmd, FitCmd, Sound
  <1>4. ASSUME to # "ignored"
        PROVE  /\ to \in States \cup {"stopped"}
               /\ to \in Changing => ~c.onlyCheck
               /\ to \in Ending /\ c.status = "ok" /\ ~c.onlyCheck => k.pin = "new"
    <2>1. to \in States \cup {"stopped"}
      BY <1>4, TargetFacts
    <2>2. /\ to \in Changing => ~c.onlyCheck
          /\ to \in Ending /\ c.status = "ok" /\ ~c.onlyCheck => k.pin = "new" \/ mm.cur \in Ending
      BY <1>4, TargetSound
    <2> QED BY <2>1, <2>2 DEF Sound
  <1> HIDE DEF e, to
  <1>5. CASE to = "stopped"
    <2>1. Fire(mm, c, st, sig) = [e EXCEPT !.cur = "stopped"]
      BY <1>5 DEF Fire, to, e
    <2>2. /\ [e EXCEPT !.cur = "stopped"] \in Machines
          /\ [e EXCEPT !.cur = "stopped"].cur = "stopped"
          /\ [e EXCEPT !.cur = "stopped"].cmds = e.cmds
          /\ [e EXCEPT !.cur = "stopped"].events = e.events
      BY <1>2 DEF Machines
    <2> QED BY <2>1, <2>2, <1>3, <1>4, <1>5 DEF Sound
  <1>6. CASE to \notin {"ignored", "stopped"}
    <2> DEFINE new == Enter(e, c, to)
               q   == IF ~e.approved /\ (to \notin Waiting \/ c.killed)
                      THEN Append(e.events, Run(to)) ELSE e.events
    <2>0. Fire(mm, c, st, sig) = new /\ to \in States
      BY <1>4, <1>6 DEF Fire, to, e
    <2>1. /\ new \in Machines /\ new.cur = to /\ new.cmds = e.cmds
          /\ q \in Seq(Events) /\ new.events \in {q, Append(q, Cancel(to))}
      BY <1>2, <2>0, EnterFacts
    <2>2. e.events \in Seq(Events) /\ Run(to) \in Events /\ Cancel(to) \in Events
      BY <1>2, <2>0, EventKinds DEF Machines
    <2>3. q \in {e.events, Append(e.events, Run(to))}
      OBVIOUS
    <2>4. Fit(Run(to), c, k) /\ Fit(Cancel(to), c, k)
      BY <1>4, <1>6, FitKinds
    <2> HIDE DEF q, new
    <2>5. AllFit(q, c, k)
      BY <2>2, <2>3, <2>4, <1>3, FitAppend
    <2>6. AllFit(new.events, c, k)
      BY <2>1, <2>2, <2>4, <2>5, FitAppend
    <2>7. to # "none"
      BY <2>0, StatesNotNone
    <2> QED BY <2>0, <2>1, <2>6, <2>7, <1>3, <1>4, <1>6 DEF Sound
  <1> QED BY <1>1, <1>5, <1>6

LEMMA SendSound ==
    ASSUME NEW mm, NEW c, NEW k, NEW st \in States, NEW x \in Commands,
           Sound(mm, c, k), FitCmd(x, c)
    PROVE  Sound(Send(mm, st, x), c, k) /\ Send(mm, st, x).cur = mm.cur
  <1>1. /\ mm \in Machines /\ mm.cmds \in Seq(Commands) /\ Send(mm, st, x) \in Machines
        /\ Send(mm, st, x).cur = mm.cur /\ Send(mm, st, x).events = mm.events
        /\ Send(mm, st, x).cmds = Append(mm.cmds, x)
    BY SendFacts DEF Sound, Machines
  <1>2. AllFitCmd(Append(mm.cmds, x), c)
    BY <1>1, FitAppend DEF Sound
  <1> QED BY <1>1, <1>2 DEF Sound

LEMMA PostSound ==
    ASSUME NEW mm, NEW c, NEW k, NEW e \in Events, Sound(mm, c, k), Fit(e, c, k)
    PROVE  Sound(Post(mm, e), c, k)
  <1>1. /\ mm \in Machines /\ mm.events \in Seq(Events) /\ Post(mm, e) \in Machines
        /\ Post(mm, e).cur = mm.cur /\ Post(mm, e).cmds = mm.cmds
        /\ Post(mm, e).events = Append(mm.events, e)
    BY PostFacts DEF Sound, Machines
  <1>2. AllFit(Append(mm.events, e), c, k)
    BY <1>1, FitAppend DEF Sound
  <1> QED BY <1>1, <1>2 DEF Sound

LEMMA ReleaseSound ==
    ASSUME NEW mm, NEW c, NEW k, Sound(mm, c, k)
    PROVE  Sound(Release(mm), c, k) /\ Release(mm).cur = mm.cur
  <1> DEFINE cmd == [Command("release", "Maintain", Nothing, Nothing) EXCEPT !.wired = FALSE]
  <1>1. cmd \in Commands /\ cmd.op = "release"
    <2>1. "Maintain" \in States
      BY MaintainState
    <2> QED BY <2>1 DEF Command, Commands
  <1> HIDE DEF cmd
  <1>2. CASE conn = NoConn
    BY <1>2 DEF Release
  <1>3. CASE conn # NoConn
    <2>1. Release(mm) = [mm EXCEPT !.cmds = Append(@, cmd)]
      BY <1>3 DEF Release, cmd
    <2>2. mm \in Machines /\ mm.cmds \in Seq(Commands)
      BY DEF Sound, Machines
    <2>3. Append(mm.cmds, cmd) \in Seq(Commands)
      BY <2>2, <1>1, AppendFacts
    <2>4. /\ Release(mm) \in Machines /\ Release(mm).cur = mm.cur
          /\ Release(mm).events = mm.events /\ Release(mm).cmds = Append(mm.cmds, cmd)
      BY <2>1, <2>2, <2>3 DEF Machines
    <2>5. FitCmd(cmd, c)
      BY <1>1 DEF FitCmd
    <2>6. AllFitCmd(Append(mm.cmds, cmd), c)
      BY <2>2, <2>5, <1>1, FitAppend DEF Sound
    <2> QED BY <2>4, <2>6 DEF Sound
  <1> QED BY <1>2, <1>3

LEMMA ListenSound ==
    ASSUME NEW mm, NEW c, NEW k, Sound(mm, c, k), NEW st \in {"SelectReader", "ConnectCard"}
    PROVE  Sound(Listen(mm, st), c, k) /\ Listen(mm, st).cur = mm.cur
  <1>1. mm \in Machines /\ st \in States
    BY MaintainState DEF Sound
  <1>2. /\ Listen(mm, st) \in Machines /\ Listen(mm, st).cur = mm.cur
        /\ Listen(mm, st).events = mm.events /\ Listen(mm, st).cmds = mm.cmds
    BY <1>1 DEF Listen, Machines
  <1> QED BY <1>2 DEF Sound

-----------------------------------------------------------------------------
(* The steps keep the result sound. *)

(* What a handler may make of the context.                                 *)
Worsens(c) ==
    /\ c.onlyCheck = ctx.onlyCheck /\ c.newPin \in {Nothing, ctx.newPin}
    /\ c.status = "ok" => ctx.status = "ok"
    /\ Told(ctx) => Told(c)
Failed(d, c) ==
    /\ d.onlyCheck = c.onlyCheck /\ d.newPin = c.newPin
    /\ d.status # "ok" /\ d.failure

LEMMA FailedFacts ==
    ASSUME NEW c \in Contexts, NEW st
    PROVE  /\ Failed(OnAbort(UpdateStatus(c, "error")), c)
           /\ Failed(OnUserCancelled(c, st), c)
  <1> DEFINE cc == IF st = "Establish" THEN [c EXCEPT !.lastPace = "CANCELLATION_BY_USER"] ELSE c
             d  == [cc EXCEPT !.inState = TRUE]
             u  == UpdateStatus(d, "cancelled")
             v  == UpdateStatus(c, "error")
  <1>1. "CANCELLATION_BY_USER" \in Codes
    BY DEF Codes, FatalCodes
  <1>2. cc \in Contexts /\ cc.onlyCheck = c.onlyCheck /\ cc.newPin = c.newPin
    BY <1>1 DEF Contexts
  <1> HIDE DEF cc
  <1>3. d \in Contexts /\ d.onlyCheck = c.onlyCheck /\ d.newPin = c.newPin
    BY <1>2 DEF Contexts
  <1> HIDE DEF d
  <1>4. /\ u \in Contexts /\ u.onlyCheck = c.onlyCheck /\ u.newPin = c.newPin /\ u.status # "ok"
        /\ v \in Contexts /\ v.onlyCheck = c.onlyCheck /\ v.newPin = c.newPin /\ v.status # "ok"
    BY <1>3 DEF UpdateStatus, Contexts
  <1>5. OnUserCancelled(c, st) = OnAbort(u)
    BY DEF OnUserCancelled, u, d, cc
  <1> HIDE DEF u, v
  <1>6. Failed(OnAbort(u), c) /\ Failed(OnAbort(v), c)
    BY <1>4 DEF Failed, OnAbort, Contexts
  <1> QED BY <1>5, <1>6 DEF v

LEMMA FailedWorsens ==
    ASSUME NEW c, Failed(c, ctx)
    PROVE  Worsens(c)
  BY DEF Failed, Worsens, Told

LEMMA NextTypes ==
    ASSUME IInv' PROVE m' \in Machines /\ ctx' \in Contexts /\ card' \in Cards
  BY DEF IInv, TypeOK, Machines, Contexts, Cards

LEMMA SoundNow ==
    ASSUME Sound(m', ctx', card'), Honest(ctx', card'), Told(ctx'), m'.cur # "none"
    PROVE  RInv'
  <1>1. Sound(m, ctx, card)' /\ Honest(ctx, card)' /\ Told(ctx)' /\ m'.cur # "none"
    BY DEF Sound, AllFit, AllFitCmd, Fit, FitCmd, Honest, Told
  <1>2. Fresh(m)'
    BY <1>1 DEF Fresh
  <1> QED BY <1>1, <1>2 DEF RInv

(* Once a state ran or a command is answered, the workflow was started and *)
(* an error has its failure code.                                          *)
LEMMA Heard ==
    ASSUME IInv, RInv, Handles("run") \/ Handles("done")
    PROVE  Told(ctx) /\ m.cur # "none"
  <1>1. m.events # <<>> /\ m.events \in Seq(Events) /\ Event.type \in {"run", "done"}
    BY StateFacts DEF Handles, Machines
  <1>2. Event = m.events[1] /\ 1 \in 1..Len(m.events)
    BY <1>1, TailFacts DEF Event
  <1>3. Event.type \notin Kinds /\ Event # Cancel("Maintain")
    BY <1>1 DEF Kinds, Cancel
  <1> QED BY <1>2, <1>3 DEF RInv, Fresh, Unheard

LEMMA RestSound ==
    ASSUME IInv, RInv, m.events # <<>>, NEW c, Worsens(c)
    PROVE  /\ Sound(Rest, c, card) /\ Rest.cur = m.cur
           /\ Sound(Release(Rest), c, card) /\ Release(Rest).cur = m.cur
           /\ Fit(Event, ctx, card) /\ Event \in Events
  <1>1. m \in Machines /\ m.events \in Seq(Events) /\ Sound(m, ctx, card)
    BY StateFacts DEF Machines, RInv
  <1>2. Tail(m.events) \in Seq(Events) /\ Event \in Events
    BY <1>1, TailFacts DEF Event
  <1>3. /\ Rest \in Machines /\ Rest.cur = m.cur /\ Rest.cmds = m.cmds
        /\ Rest.events = Tail(m.events)
    BY <1>1, <1>2 DEF Rest, Machines
  <1>4. AllFit(Tail(m.events), ctx, card) /\ Fit(Event, ctx, card)
    BY <1>1, FitTail DEF Sound, Event
  <1>5. Sound(Rest, ctx, card)
    BY <1>1, <1>3, <1>4 DEF Sound
  <1>6. Sound(Rest, c, card)
    BY <1>5, SoundLater DEF Worsens
  <1> QED BY <1>2, <1>3, <1>4, <1>6, ReleaseSound

LEMMA HonestLater ==
    ASSUME RInv, NEW c, Worsens(c)
    PROVE  Honest(c, card)
  BY DEF RInv, Honest, Worsens, NewPins

(* A step that handles an event after which the state st emits a signal.   *)
LEMMA EmitSound ==
    ASSUME IInv, RInv, IInv', Handles("run") \/ Handles("done"), Worsens(ctx'), card' = card,
           NEW st \in States, NEW sig, MayEmit(ctx', card, st, sig),
           m' = Fire(Rest, ctx', st, sig) \/ m' = Fire(Release(Rest), ctx', st, sig)
    PROVE  RInv'
  <1>1. Told(ctx) /\ m.cur # "none" /\ m.events # <<>>
    BY Heard DEF Handles
  <1>2. /\ Sound(Rest, ctx', card) /\ Rest.cur = m.cur
        /\ Sound(Release(Rest), ctx', card) /\ Release(Rest).cur = m.cur
    BY <1>1, RestSound
  <1>3. Sound(m', ctx', card) /\ m'.cur # "none"
    BY <1>1, <1>2, NextTypes, FireSound
  <1>4. Honest(ctx', card) /\ Told(ctx')
    BY <1>1, HonestLater DEF Worsens
  <1> QED BY <1>3, <1>4, SoundNow

(* A state that needs the card. *)
LEMMA NeedsCardSound ==
    ASSUME IInv, RInv, IInv', NEW st \in States \ {"PrepareChange", "EnterNewPin"}, Runs(st),
           ctx' = ctx, card' = card,
           NEW x \in Commands, FitCmd(x, ctx), m' = NeedsCard(st, x)
    PROVE  RInv'
  <1>1. Handles("run") /\ m.events # <<>>
    BY DEF Runs, Handles
  <1>2. Worsens(ctx')
    BY DEF Worsens
  <1>3. CASE conn = NoConn
    <2> DEFINE sig == IF st \in {"Destroy", "PaceDestroy"} THEN "continue" ELSE "noCard"
    <2>1. m' = Fire(Rest, ctx', st, sig)
      BY <1>3 DEF NeedsCard
    <2>2. MayEmit(ctx', card, st, sig)
      BY DEF MayEmit
    <2> QED BY <1>1, <1>2, <2>1, <2>2, EmitSound
  <1>4. CASE conn # NoConn
    <2>1. m' = Send(Rest, st, x)
      BY <1>4 DEF NeedsCard
    <2>2. Sound(Rest, ctx, card) /\ Rest.cur = m.cur
      BY <1>1, <1>2, RestSound
    <2>3. Sound(m', ctx, card) /\ m'.cur = m.cur
      BY <2>1, <2>2, SendSound
    <2>4. Told(ctx) /\ m.cur # "none" /\ Honest(ctx, card)
      BY <1>1, Heard DEF RInv
    <2> QED BY <2>3, <2>4, SoundNow
  <1> QED BY <1>3, <1>4

LEMMA WorsensFacts ==
    ASSUME ctx \in Contexts
    PROVE  /\ Worsens(ctx) /\ Worsens(Cleared(ctx))
           /\ \A x : Worsens([ctx EXCEPT !.lastPace = x]) /\ Worsens([ctx EXCEPT !.expected = x])
           /\ \A x : Worsens([ctx EXCEPT !.paceType = x]) /\ Worsens([ctx EXCEPT !.vanished = x])
           /\ \A x : Worsens([ctx EXCEPT !.reader = x])
           /\ Worsens(OnAbort(UpdateStatus(ctx, "error")))
           /\ OnAbort(UpdateStatus(ctx, "error")).status # "ok"
  <1>1. Worsens(ctx) /\ Worsens(Cleared(ctx))
    BY DEF Worsens, Told, Contexts, Cleared
  <1>2. \A x : Worsens([ctx EXCEPT !.lastPace = x]) /\ Worsens([ctx EXCEPT !.expected = x])
    BY DEF Worsens, Told, Contexts
  <1>3. \A x : Worsens([ctx EXCEPT !.paceType = x]) /\ Worsens([ctx EXCEPT !.vanished = x])
    BY DEF Worsens, Told, Contexts
  <1>4. \A x : Worsens([ctx EXCEPT !.reader = x])
    BY DEF Worsens, Told, Contexts
  <1>5. Failed(OnAbort(UpdateStatus(ctx, "error")), ctx)
    BY FailedFacts
  <1> QED BY <1>1, <1>2, <1>3, <1>4, <1>5, FailedWorsens DEF Failed

LEMMA CreateConnectionSound ==
    ASSUME NEW mm, NEW c, NEW k, Sound(mm, c, k)
    PROVE  Sound(CreateConnection(mm), c, k) /\ CreateConnection(mm).cur = mm.cur
  <1> DEFINE x == Command("create", "ConnectCard", Nothing, Nothing)
  <1>1. "ConnectCard" \in States
    BY MaintainState
  <1>2. x \in Commands /\ FitCmd(x, c)
    BY <1>1 DEF Command, Commands, FitCmd
  <1> HIDE DEF x
  <1>3. Sound(Send(mm, "ConnectCard", x), c, k) /\ Send(mm, "ConnectCard", x).cur = mm.cur
    BY <1>1, <1>2, SendSound
  <1> QED BY <1>3 DEF CreateConnection, x

(* The states that leave with a signal and need no care.                   *)
Plain == States \ {"PrepareChange", "EnterNewPin", "ChangePin"}

LEMMA PlainEmit ==
    ASSUME NEW c, NEW k, NEW st \in Plain, NEW sig, sig = "abort" => c.status # "ok"
    PROVE  MayEmit(c, k, st, sig)
  BY DEF Plain, MayEmit

LEMMA PlainStates ==
    /\ {"Maintain", "SelectReader", "ConnectCard", "UpdateRetry", "Verify", "PreparePace",
        "EnterPassword", "Establish", "Unfortunate", "ResetRetry", "PaceDestroy", "PaceClear",
        "CheckError", "Destroy", "Clear", "UpdateFinal", "CleanUp", "Final"} \subseteq Plain
    /\ {"PrepareChange", "EnterNewPin", "ChangePin"} \subseteq States
  BY PaceStates, ChangeStates DEF States, Plain

LEMMA PlainSound ==
    ASSUME IInv, RInv, IInv', Handles("run") \/ Handles("done"), Worsens(ctx'), card' = card,
           NEW st \in Plain, NEW sig, sig = "abort" => ctx'.status # "ok",
           m' = Fire(Rest, ctx', st, sig) \/ m' = Fire(Release(Rest), ctx', st, sig)
    PROVE  RInv'
  <1>1. MayEmit(ctx', card, st, sig) /\ st \in States
    BY PlainEmit DEF Plain
  <1> QED BY <1>1, EmitSound

LEMMA StateEventFacts ==
    ASSUME RInv, IInv, NEW st, Runs(st)
    PROVE  Handles("run") /\ (st \in Changing => ~ctx.onlyCheck) /\ Worsens(ctx)
  <1>1. Handles("run") /\ m.events # <<>> /\ Event.st = st /\ Event.type = "run"
    BY DEF Runs, Handles
  <1>2. Worsens(ctx)
    BY DEF Worsens
  <1>3. Fit(Event, ctx, card)
    BY <1>1, <1>2, RestSound
  <1> QED BY <1>1, <1>2, <1>3 DEF Fit

LEMMA RunFirstSound ==
    ASSUME IInv, RInv, IInv', RunMaintain \/ RunSelectReader \/ RunConnectCard
    PROVE  RInv'
  <1>1. /\ ctx \in Contexts /\ "Maintain" \in Plain /\ "SelectReader" \in Plain
        /\ "ConnectCard" \in States /\ "SelectReader" \in States
    BY StateFacts, PlainStates, MaintainState
  <1>2. CASE RunMaintain
    <2>1. Handles("run") /\ card' = card
      BY <1>2, StateEventFacts DEF RunMaintain, Environment
    <2>2. /\ \/ ctx' = OnAbort(UpdateStatus(ctx, "error"))
             \/ ctx' = ctx \/ ctx' = [ctx EXCEPT !.lastPace = "OK"]
          /\ \E sig : /\ sig = "abort" => ctx' = OnAbort(UpdateStatus(ctx, "error"))
                      /\ \/ m' = Fire(Rest, ctx', "Maintain", sig)
                         \/ m' = Fire(Release(Rest), ctx', "Maintain", sig)
      BY <1>2 DEF RunMaintain, Emit
    <2>3. Worsens(ctx')
      BY <1>1, <2>2, WorsensFacts
    <2>4. PICK sig : /\ sig = "abort" => ctx' = OnAbort(UpdateStatus(ctx, "error"))
                     /\ \/ m' = Fire(Rest, ctx', "Maintain", sig)
                        \/ m' = Fire(Release(Rest), ctx', "Maintain", sig)
      BY <2>2
    <2>5. sig = "abort" => ctx'.status # "ok"
      BY <1>1, <2>4, WorsensFacts
    <2> QED BY <1>1, <2>1, <2>3, <2>4, <2>5, PlainSound
  <1>3. CASE RunSelectReader
    <2> DEFINE mm == Listen(Rest, "SelectReader")
    <2>1. Handles("run") /\ card' = card /\ m.events # <<>>
      BY <1>3, StateEventFacts DEF RunSelectReader, Environment, Handles
    <2>2. Worsens(ctx')
      BY <1>1, <1>3, WorsensFacts DEF RunSelectReader
    <2>3. Sound(mm, ctx', card) /\ mm.cur = m.cur
      BY <2>1, <2>2, RestSound, ListenSound
    <2>4. m' = IF seen THEN Fire(mm, ctx', "SelectReader", "continue") ELSE mm
      BY <1>3 DEF RunSelectReader
    <2> HIDE DEF mm
    <2>5. MayEmit(ctx', card, "SelectReader", "continue")
      BY DEF MayEmit
    <2>6. Told(ctx) /\ m.cur # "none"
      BY <2>1, Heard
    <2>7. Sound(m', ctx', card) /\ m'.cur # "none"
      BY <1>1, <2>3, <2>4, <2>5, <2>6, NextTypes, FireSound
    <2>8. Honest(ctx', card) /\ Told(ctx')
      BY <2>2, <2>6, HonestLater DEF Worsens
    <2> QED BY <2>1, <2>7, <2>8, SoundNow
  <1>4. CASE RunConnectCard
    <2>1. Handles("run") /\ card' = card /\ ctx' = ctx /\ m.events # <<>> /\ Worsens(ctx)
      BY <1>4, StateEventFacts DEF RunConnectCard, Environment, Handles
    <2>2. Sound(Listen(Rest, "ConnectCard"), ctx, card) /\ Listen(Rest, "ConnectCard").cur = m.cur
      BY <2>1, RestSound, ListenSound
    <2>3. Sound(m', ctx, card) /\ m'.cur = m.cur
      BY <1>4, <2>2, CreateConnectionSound DEF RunConnectCard
    <2>4. Told(ctx) /\ m.cur # "none" /\ Honest(ctx, card)
      BY <2>1, Heard DEF RInv
    <2> QED BY <2>1, <2>3, <2>4, SoundNow
  <1> QED BY <1>2, <1>3, <1>4

LEMMA CardStatesSound ==
    ASSUME IInv, RInv, IInv', RunUpdateRetry \/ RunResetRetry \/ RunDestroy \/ RunChangePin
    PROVE  RInv'
  <1>1. {"UpdateRetry", "UpdateFinal", "ResetRetry", "PaceDestroy", "Destroy", "ChangePin"}
            \subseteq States \ {"PrepareChange", "EnterNewPin"}
    BY MaintainState, LastStates DEF Last
  <1>2. UNCHANGED <<ctx, conn, Environment>> /\ ctx' = ctx /\ card' = card
    BY DEF RunUpdateRetry, RunResetRetry, RunDestroy, RunChangePin, Environment
  <1>3. CASE RunUpdateRetry
    <2>1. PICK st \in {"UpdateRetry", "UpdateFinal"} :
              Runs(st) /\ m' = NeedsCard(st, Command("update", st, Nothing, Nothing))
      BY <1>3 DEF RunUpdateRetry
    <2> DEFINE x == Command("update", st, Nothing, Nothing)
    <2>2. x \in Commands /\ FitCmd(x, ctx)
      BY <1>1 DEF Command, Commands, FitCmd, Aside
    <2> HIDE DEF x
    <2>3. m' = NeedsCard(st, x)
      BY <2>1 DEF x
    <2> QED BY <1>1, <1>2, <2>1, <2>2, <2>3, NeedsCardSound
  <1>4. CASE RunResetRetry
    <2> DEFINE x == Command("reset", "ResetRetry", Nothing, Nothing)
    <2>1. Runs("ResetRetry") /\ m' = NeedsCard("ResetRetry", x)
      BY <1>4 DEF RunResetRetry
    <2>2. x \in Commands /\ FitCmd(x, ctx)
      BY <1>1 DEF Command, Commands, FitCmd
    <2> HIDE DEF x
    <2> QED BY <1>1, <1>2, <2>1, <2>2, NeedsCardSound
  <1>5. CASE RunDestroy
    <2>1. PICK st \in {"PaceDestroy", "Destroy"} :
              Runs(st) /\ m' = NeedsCard(st, Command("destroy", st, Nothing, Nothing))
      BY <1>5 DEF RunDestroy
    <2> DEFINE x == Command("destroy", st, Nothing, Nothing)
    <2>2. x \in Commands /\ FitCmd(x, ctx)
      BY <1>1 DEF Command, Commands, FitCmd, Aside
    <2> HIDE DEF x
    <2>3. m' = NeedsCard(st, x)
      BY <2>1 DEF x
    <2> QED BY <1>1, <1>2, <2>1, <2>2, <2>3, NeedsCardSound
  <1>6. CASE RunChangePin
    <2> DEFINE x == Command("set", "ChangePin", Nothing, ctx.newPin)
    <2>1. Runs("ChangePin") /\ m' = NeedsCard("ChangePin", x)
      BY <1>6 DEF RunChangePin
    <2>2. ~ctx.onlyCheck
      BY <2>1, StateEventFacts DEF Changing
    <2>3. ctx.newPin \in NewPins /\ ctx.newPin \in Pins \cup {Nothing}
      BY StateFacts DEF RInv, Honest, Contexts
    <2>4. x \in Commands /\ FitCmd(x, ctx)
      BY <1>1, <2>2, <2>3 DEF Command, Commands, FitCmd
    <2> HIDE DEF x
    <2> QED BY <1>1, <1>2, <2>1, <2>4, NeedsCardSound
  <1> QED BY <1>3, <1>4, <1>5, <1>6

LEMMA CounterChecksSound ==
    ASSUME IInv, RInv, IInv',
           RunVerify \/ RunPreparePace \/ RunUnfortunate \/ RunCheckError \/ RunPrepareChange
    PROVE  RInv'
  <1>1. ctx \in Contexts /\ Worsens(ctx) /\ "PrepareChange" \in States
    BY StateFacts, WorsensFacts, PlainStates
  <1>2. card' = card /\ Handles("run")
    BY DEF RunVerify, RunPreparePace, RunUnfortunate, RunCheckError, RunPrepareChange, Environment,
           Runs, Handles
  <1>3. CASE RunVerify
    <2>1. Worsens(ctx')
      BY <1>1, <1>3, WorsensFacts DEF RunVerify
    <2>2. \E sig : sig # "abort" /\ m' = Fire(Rest, ctx', "Verify", sig)
      BY <1>3 DEF RunVerify, Emit
    <2> QED BY <1>2, <2>1, <2>2, PlainStates, PlainSound
  <1>4. CASE RunPreparePace
    <2>1. Worsens(ctx')
      BY <1>1, <1>4, WorsensFacts DEF RunPreparePace
    <2>2. \E sig : sig # "abort" /\ m' = Fire(Rest, ctx', "PreparePace", sig)
      BY <1>4 DEF RunPreparePace, Emit
    <2> QED BY <1>2, <2>1, <2>2, PlainStates, PlainSound
  <1>5. CASE RunUnfortunate
    <2>1. Worsens(ctx')
      BY <1>1, <1>5, WorsensFacts DEF RunUnfortunate
    <2>2. m' = Fire(Rest, ctx', "Unfortunate", "continue")
      BY <1>5 DEF RunUnfortunate, Emit
    <2> QED BY <1>2, <2>1, <2>2, PlainStates, PlainSound
  <1>6. CASE RunCheckError
    <2>1. ctx' = ctx
      BY <1>6 DEF RunCheckError
    <2>2. \E sig : /\ sig = "abort" => ctx.status # "ok"
                   /\ m' = Fire(Rest, ctx', "CheckError", sig)
      BY <1>6 DEF RunCheckError, Emit
    <2> QED BY <1>1, <1>2, <2>1, <2>2, PlainStates, PlainSound
  <1>7. CASE RunPrepareChange
    <2> DEFINE sig == IF ctx.onlyCheck THEN "skip"
                      ELSE IF ctx.newPin = Nothing THEN "enter" ELSE "continue"
    <2>1. ctx' = ctx /\ m' = Fire(Rest, ctx', "PrepareChange", sig)
      BY <1>7 DEF RunPrepareChange, Emit
    <2>2. MayEmit(ctx', card, "PrepareChange", sig)
      BY <2>1 DEF MayEmit
    <2> HIDE DEF sig
    <2> QED BY <1>1, <1>2, <2>1, <2>2, EmitSound
  <1> QED BY <1>3, <1>4, <1>5, <1>6, <1>7

LEMMA RunEstablishSound ==
    ASSUME IInv, RInv, IInv', RunEstablish PROVE RInv'
  <1>1. ctx \in Contexts /\ Worsens(ctx) /\ "Establish" \in Plain /\ "Establish" \in States
    BY StateFacts, WorsensFacts, PlainStates DEF Plain
  <1>2. card' = card /\ Handles("run") /\ m.events # <<>>
    BY DEF RunEstablish, Environment, Runs, Handles
  <1> DEFINE pw  == Password(ctx, ctx.paceType)
             x   == Command("pace", "Establish", ctx.paceType, pw)
  <1>3. CASE ctx' = ctx /\ m' = Send(Rest, "Establish", x)
    <2>1. pw \in Pins \cup Secrets \cup {Nothing} /\ ctx.paceType \in PaceTypes \cup {Nothing}
      BY <1>1, PasswordType DEF Contexts
    <2>2. x \in Commands /\ FitCmd(x, ctx)
      BY <1>1, <2>1 DEF Command, Commands, FitCmd
    <2> HIDE DEF x
    <2>3. Sound(Rest, ctx, card) /\ Rest.cur = m.cur
      BY <1>1, <1>2, RestSound
    <2>4. Sound(m', ctx, card) /\ m'.cur = m.cur
      BY <1>1, <1>3, <2>2, <2>3, SendSound
    <2>5. Told(ctx) /\ m.cur # "none" /\ Honest(ctx, card)
      BY <1>2, Heard DEF RInv
    <2> QED BY <1>2, <1>3, <2>4, <2>5, SoundNow
  <1>4. CASE ~(ctx' = ctx /\ m' = Send(Rest, "Establish", x))
    <2>1. \/ /\ ctx' = ctx \/ ctx' = [ctx EXCEPT !.lastPace = "CARD_NOT_FOUND"]
             /\ \E sig : sig # "abort" /\ m' = Fire(Rest, ctx', "Establish", sig)
          \/ /\ ctx' = OnAbort(UpdateStatus(ctx, "error"))
             /\ m' = Fire(Rest, ctx', "Establish", "abort")
      BY <1>4 DEF RunEstablish, Emit
    <2>2. Worsens(ctx') /\ (ctx' = OnAbort(UpdateStatus(ctx, "error")) => ctx'.status # "ok")
      BY <1>1, <2>1, WorsensFacts
    <2> QED BY <1>1, <1>2, <2>1, <2>2, PlainSound
  <1> QED BY <1>3, <1>4

LEMMA RunLastSound ==
    ASSUME IInv, RInv, IInv', RunClear \/ RunCleanUp \/ RunContinue
    PROVE  RInv'
  <1>1. ctx \in Contexts /\ Worsens(ctx)
    BY StateFacts, WorsensFacts
  <1>2. card' = card /\ Handles("run")
    BY DEF RunClear, RunCleanUp, RunContinue, Environment, Runs, Handles
  <1>3. CASE RunClear
    <2>1. Worsens(ctx')
      BY <1>1, <1>3, WorsensFacts DEF RunClear
    <2>2. \E st \in {"PaceClear", "Clear"} : m' = Fire(Rest, ctx', st, "continue")
      BY <1>3 DEF RunClear, Emit
    <2> QED BY <1>2, <2>1, <2>2, PlainStates, PlainSound
  <1>4. CASE RunCleanUp
    <2>1. Worsens(ctx')
      BY <1>1, <1>4, WorsensFacts DEF RunCleanUp
    <2>2. m' = Fire(Release(Rest), ctx', "CleanUp", "continue")
      BY <1>4 DEF RunCleanUp
    <2> QED BY <1>2, <2>1, <2>2, PlainStates, PlainSound
  <1>5. CASE RunContinue
    <2>1. PICK st \in {"EnterPassword", "EnterNewPin", "Final"} :
              Runs(st) /\ ctx' = ctx /\ m' = Fire(Rest, ctx', st, "continue")
      BY <1>5 DEF RunContinue, Emit
    <2>2. st \in States
      BY PlainStates DEF Plain
    <2>3. st = "EnterNewPin" => ~ctx.onlyCheck
      BY <2>1, StateEventFacts DEF Changing
    <2>4. MayEmit(ctx', card, st, "continue")
      BY <2>1, <2>3 DEF MayEmit
    <2> QED BY <1>1, <1>2, <2>1, <2>2, <2>4, EmitSound
  <1> QED BY <1>3, <1>4, <1>5

LEMMA HandleCancelSound ==
    ASSUME IInv, RInv, IInv', HandleCancel PROVE RInv'
  <1>1. ctx \in Contexts /\ m.events \in Seq(Events) /\ m.events # <<>> /\ Event.type = "cancel"
    BY StateFacts DEF HandleCancel, Handles, Machines
  <1>2. Event = m.events[1] /\ 1 \in 1..Len(m.events) /\ Event \in Events
    BY <1>1, TailFacts DEF Event
  <1>3. Event.st \in States
    BY <1>1, <1>2, EventFields
  <1>4. m.cur # "none"
    BY <1>1, <1>2 DEF RInv, Fresh, Kinds
  <1>5. Failed(ctx', ctx) /\ card' = card /\ m' = Fire(Rest, ctx', Event.st, "abort")
    BY <1>1, FailedFacts DEF HandleCancel, Emit, Environment
  <1>6. Worsens(ctx')
    BY <1>5, FailedWorsens
  <1>7. Sound(Rest, ctx', card) /\ Rest.cur = m.cur
    BY <1>1, <1>6, RestSound
  <1>8. MayEmit(ctx', card, Event.st, "abort")
    BY <1>5 DEF MayEmit, Failed
  <1>9. Sound(m', ctx', card) /\ m'.cur # "none"
    BY <1>3, <1>4, <1>5, <1>7, <1>8, NextTypes, FireSound
  <1>10. Honest(ctx', card) /\ Told(ctx')
    BY <1>5, <1>6, HonestLater DEF Told, Failed
  <1> QED BY <1>5, <1>9, <1>10, SoundNow

(* The slots for the results. *)
LEMMA DoneEventFacts ==
    ASSUME RInv, IInv, NEW op, Completes(op)
    PROVE  /\ Handles("done") /\ Worsens(ctx) /\ ctx \in Contexts
           /\ op = "set" /\ Event.code = "OK" => card.pin = "new"
           /\ op \in {"update", "destroy"} => Event.st \in Plain
  <1>1. Handles("done") /\ m.events # <<>> /\ Event.op = op /\ Event.type = "done"
    BY DEF Completes, Handles
  <1>2. Worsens(ctx)
    BY DEF Worsens
  <1>3. Fit(Event, ctx, card)
    BY <1>1, <1>2, RestSound
  <1>4. Aside \subseteq Plain
    BY PlainStates DEF Aside
  <1> QED BY <1>1, <1>2, <1>3, <1>4, StateFacts DEF Fit

LEMMA CreateUpdateDoneSound ==
    ASSUME IInv, RInv, IInv', CreateDone \/ UpdateDone \/ DestroyDone
    PROVE  RInv'
  <1>1. CASE CreateDone
    <2>1. Completes("create") /\ card' = card
      BY <1>1 DEF CreateDone, Environment
    <2>2. Handles("done") /\ Worsens(ctx) /\ ctx \in Contexts
      BY <2>1, DoneEventFacts
    <2>3. \/ ctx' = ctx /\ m' = Fire(Release(Rest), ctx', "ConnectCard", "continue")
          \/ ctx' = OnAbort(UpdateStatus(ctx, "error")) /\ m' = Fire(Rest, ctx', "ConnectCard", "abort")
      BY <1>1 DEF CreateDone, Emit
    <2>4. Worsens(ctx') /\ (ctx' = OnAbort(UpdateStatus(ctx, "error")) => ctx'.status # "ok")
      BY <2>2, <2>3, WorsensFacts
    <2> QED BY <2>1, <2>2, <2>3, <2>4, PlainStates, PlainSound
  <1>2. CASE UpdateDone
    <2>1. Completes("update") /\ card' = card /\ ctx' = ctx
      BY <1>2 DEF UpdateDone, Environment
    <2>2. Handles("done") /\ Worsens(ctx) /\ Event.st \in Plain
      BY <2>1, DoneEventFacts
    <2>3. \E sig : sig # "abort" /\ \/ m' = Fire(Rest, ctx', Event.st, sig)
                                    \/ m' = Fire(Release(Rest), ctx', Event.st, sig)
      BY <1>2 DEF UpdateDone, Emit
    <2> QED BY <2>1, <2>2, <2>3, PlainSound
  <1>3. CASE DestroyDone
    <2>1. Completes("destroy") /\ card' = card /\ ctx' = ctx
      BY <1>3 DEF DestroyDone, Environment
    <2>2. Handles("done") /\ Worsens(ctx) /\ Event.st \in Plain
      BY <2>1, DoneEventFacts
    <2>3. m' = Fire(Rest, ctx', Event.st, "continue")
      BY <1>3 DEF DestroyDone, Emit
    <2> QED BY <2>1, <2>2, <2>3, PlainSound
  <1> QED BY <1>1, <1>2, <1>3

LEMMA PaceDoneSound ==
    ASSUME IInv, RInv, IInv', PaceDone PROVE RInv'
  <1>1. Completes("pace") /\ card' = card
    BY DEF PaceDone, Environment
  <1>2. Handles("done") /\ ctx \in Contexts
    BY <1>1, DoneEventFacts
  <1>3. PICK x, y, z : ctx' = [ctx EXCEPT !.lastPace = x, !.expected = y, !.vanished = z]
    BY DEF PaceDone
  <1>4. Worsens(ctx')
    <2>1. Worsens([ctx EXCEPT !.lastPace = x, !.expected = y, !.vanished = z])
      BY <1>2 DEF Worsens, Told, Contexts
    <2> QED BY <2>1, <1>3
  <1>5. PaceSignal(Event.arg, Event.code) # "abort"
    BY DEF PaceSignal
  <1>6. \E sig : sig # "abort" /\ \/ m' = Fire(Rest, ctx', "Establish", sig)
                                  \/ m' = Fire(Release(Rest), ctx', "Establish", sig)
    BY <1>5 DEF PaceDone
  <1> QED BY <1>1, <1>2, <1>4, <1>6, PlainStates, PlainSound

LEMMA ResetSetDoneSound ==
    ASSUME IInv, RInv, IInv', ResetDone \/ SetDone PROVE RInv'
  <1>1. CASE ResetDone
    <2>1. Completes("reset") /\ card' = card
      BY <1>1 DEF ResetDone, Environment
    <2>2. Handles("done") /\ ctx \in Contexts
      BY <2>1, DoneEventFacts
    <2>3. \/ /\ ctx' = ctx \/ \E x : ctx' = [ctx EXCEPT !.expected = x]
             /\ \E sig : sig # "abort" /\ \/ m' = Fire(Rest, ctx', "ResetRetry", sig)
                                          \/ m' = Fire(Release(Rest), ctx', "ResetRetry", sig)
          \/ ctx' = OnAbort(UpdateStatus(ctx, "error")) /\ m' = Fire(Rest, ctx', "ResetRetry", "abort")
      BY <1>1 DEF ResetDone, Emit
    <2>4. Worsens(ctx') /\ (ctx' = OnAbort(UpdateStatus(ctx, "error")) => ctx'.status # "ok")
      BY <2>2, <2>3, WorsensFacts
    <2> QED BY <2>1, <2>2, <2>3, <2>4, PlainStates, PlainSound
  <1>2. CASE SetDone
    <2>1. Completes("set") /\ card' = card /\ "ChangePin" \in States
      BY <1>2, PlainStates DEF SetDone, Environment
    <2>2. Handles("done") /\ ctx \in Contexts /\ (Event.code = "OK" => card.pin = "new")
      BY <2>1, DoneEventFacts
    <2>3. \/ /\ ctx' = ctx /\ Event.code = "OK"
             /\ m' = Fire(Rest, ctx', "ChangePin", "continue")
          \/ /\ ctx' = ctx
             /\ m' = Fire(Release(Rest), ctx', "ChangePin", "noCard")
          \/ /\ ctx' = OnAbort(UpdateStatus(ctx, "error"))
             /\ m' = Fire(Rest, ctx', "ChangePin", "abort")
      BY <1>2 DEF SetDone, Emit
    <2>4. Worsens(ctx') /\ (ctx' = OnAbort(UpdateStatus(ctx, "error")) => ctx'.status # "ok")
      BY <2>2, <2>3, WorsensFacts
    <2>5. \E sig : /\ MayEmit(ctx', card, "ChangePin", sig)
                   /\ \/ m' = Fire(Rest, ctx', "ChangePin", sig)
                      \/ m' = Fire(Release(Rest), ctx', "ChangePin", sig)
      BY <2>2, <2>3, <2>4 DEF MayEmit
    <2> QED BY <2>1, <2>2, <2>4, <2>5, EmitSound
  <1> QED BY <1>1, <1>2

(* What the reader reports, which does not concern a workflow that was not *)
(* started or that has not heard of its end yet.                           *)
LEMMA RestQuiet ==
    ASSUME IInv, RInv, m.events # <<>>, m' = Rest,
           Worsens(ctx'), Told(ctx') => Told(ctx), card' = card
    PROVE  RInv'
  <1>1. m \in Machines /\ m.events \in Seq(Events)
    BY StateFacts DEF Machines
  <1>2. /\ Rest.cur = m.cur /\ Rest.cmds = m.cmds /\ Rest.listening = m.listening
        /\ Rest.approved = m.approved /\ Rest.events = Tail(m.events)
    BY <1>1 DEF Rest, Machines
  <1>3. \A j \in 1..Len(Tail(m.events)) : j + 1 \in 1..Len(m.events) /\ Tail(m.events)[j] = m.events[j + 1]
    BY <1>1, TailFacts
  <1>4. Fresh(m)'
    BY <1>2, <1>3 DEF RInv, Fresh, Idle
  <1>5. ~Told(ctx') => Unheard(m)'
    BY <1>2, <1>3 DEF RInv, Worsens, Unheard, Idle
  <1>6. Sound(Rest, ctx', card) /\ Honest(ctx', card)
    BY RestSound, HonestLater
  <1>7. Sound(m, ctx, card)' /\ Honest(ctx, card)'
    BY <1>6 DEF Sound, AllFit, AllFitCmd, Fit, FitCmd, Honest
  <1> QED BY <1>4, <1>5, <1>7 DEF RInv, Told

LEMMA ReportSound ==
    ASSUME IInv, RInv, IInv', CardRemoved \/ CardInserted PROVE RInv'
  <1>1. ctx \in Contexts /\ m.events # <<>> /\ card' = card /\ "ConnectCard" \in States /\ "SelectReader" \in States
    BY StateFacts, MaintainState DEF CardRemoved, CardInserted, Handles
  <1>2. m.listening # {} => Told(ctx) /\ m.cur # "none"
    BY DEF RInv, Fresh, Unheard, Idle
  <1>3. CASE CardRemoved
    <2>1. CASE "ConnectCard" \in m.listening /\ ctx.reader
      <3>1. ctx' = [ctx EXCEPT !.reader = FALSE] /\ m' = Fire(Release(Rest), ctx', "ConnectCard", "retry")
        BY <1>3, <2>1 DEF CardRemoved
      <3>2. Worsens(ctx')
        BY <1>1, <3>1, WorsensFacts
      <3>3. Sound(Release(Rest), ctx', card) /\ Release(Rest).cur = m.cur
        BY <1>1, <3>2, RestSound
      <3>4. MayEmit(ctx', card, "ConnectCard", "retry")
        BY DEF MayEmit
      <3>5. Sound(m', ctx', card) /\ m'.cur # "none"
        BY <1>1, <1>2, <2>1, <3>1, <3>3, <3>4, NextTypes, FireSound
      <3>6. Honest(ctx', card) /\ Told(ctx')
        BY <1>2, <2>1, <3>2, HonestLater DEF Worsens
      <3> QED BY <1>1, <3>5, <3>6, SoundNow
    <2>2. CASE ~("ConnectCard" \in m.listening /\ ctx.reader)
      <3>1. ctx' = ctx /\ m' = Rest
        BY <1>3, <2>2 DEF CardRemoved
      <3>2. Worsens(ctx')
        BY <3>1 DEF Worsens
      <3> QED BY <1>1, <3>1, <3>2, RestQuiet
    <2> QED BY <2>1, <2>2
  <1>4. CASE CardInserted
    <2> DEFINE mm == IF "ConnectCard" \in m.listening THEN CreateConnection(Rest) ELSE Rest
    <2>1. /\ \E x : ctx' = [ctx EXCEPT !.reader = x]
          /\ m' = IF "SelectReader" \in m.listening THEN Fire(mm, ctx', "SelectReader", "continue") ELSE mm
      BY <1>4 DEF CardInserted
    <2>2. Worsens(ctx') /\ (Told(ctx') => Told(ctx))
      <3>1. PICK x : ctx' = [ctx EXCEPT !.reader = x]
        BY <2>1
      <3>2. Worsens([ctx EXCEPT !.reader = x]) /\ (Told([ctx EXCEPT !.reader = x]) => Told(ctx))
        BY <1>1 DEF Worsens, Told, Contexts
      <3> QED BY <3>1, <3>2
    <2>3. CASE m.listening = {}
      <3>1. m' = Rest
        BY <2>1, <2>3
      <3> QED BY <1>1, <2>2, <3>1, RestQuiet
    <2>4. CASE m.listening # {}
      <3>1. Sound(Rest, ctx', card) /\ Rest.cur = m.cur
        BY <1>1, <2>2, RestSound
      <3>2. Sound(mm, ctx', card) /\ mm.cur = m.cur
        BY <3>1, CreateConnectionSound
      <3> HIDE DEF mm
      <3>3. MayEmit(ctx', card, "SelectReader", "continue")
        BY DEF MayEmit
      <3>4. Sound(m', ctx', card) /\ m'.cur # "none"
        BY <1>1, <1>2, <2>1, <2>4, <3>2, <3>3, NextTypes, FireSound
      <3>5. Honest(ctx', card) /\ Told(ctx')
        BY <1>2, <2>2, <2>4, HonestLater DEF Worsens
      <3> QED BY <1>1, <3>4, <3>5, SoundNow
    <2> QED BY <2>3, <2>4
  <1> QED BY <1>3, <1>4

(* The worker thread takes a command and may post its result.              *)
LEMMA AnswerSound ==
    ASSUME IInv, RInv, IInv', m.cmds # <<>>, ctx' = ctx, Honest(ctx, card'),
           card.pin = "new" => card'.pin = "new", m'.cur = m.cur, m'.cmds = Tail(m.cmds),
           \/ m'.events = m.events
           \/ \E e \in Events : m'.events = Append(m.events, e) /\ Fit(e, ctx, card')
    PROVE  RInv'
  <1>1. m \in Machines /\ m.cmds \in Seq(Commands) /\ m.events \in Seq(Events) /\ Sound(m, ctx, card)
    BY StateFacts DEF Machines, RInv
  <1>2. m' \in Machines
    BY NextTypes
  <1>3. Sound(m, ctx, card')
    BY <1>1, SoundLater
  <1>4. AllFitCmd(m'.cmds, ctx)
    BY <1>1, FitTail DEF Sound
  <1>5. AllFit(m'.events, ctx, card')
    BY <1>1, <1>3, FitAppend DEF Sound
  <1>6. Sound(m', ctx', card')
    BY <1>2, <1>3, <1>4, <1>5 DEF Sound
  <1>7. Told(ctx) /\ m.cur # "none"
    BY DEF RInv, Fresh, Unheard, Idle
  <1> QED BY <1>6, <1>7, SoundNow

LEMMA AnswerParts ==
    ASSUME IInv, NEW op \in {"create", "update", "pace", "reset", "set", "destroy"}, Executes(op),
           NEW code \in Codes, NEW n \in -2..3, Answer(code, n)
    PROVE  /\ m.cmds # <<>> /\ m'.cur = m.cur /\ m'.cmds = Tail(m.cmds)
           /\ Done(Cmd, code, n) \in Events
           /\ m'.events = m.events \/ m'.events = Append(m.events, Done(Cmd, code, n))
  <1>1. m \in Machines /\ m.cmds # <<>>
    BY StateFacts, CmdFacts
  <1>2. Cmd.op = op /\ Cmd.owner \in States /\ Cmd.arg \in PaceTypes \cup {Nothing}
    BY CmdFacts
  <1>3. Done(Cmd, code, n) \in Events
    BY <1>2 DEF Done, Events
  <1> DEFINE q == IF Cmd.wired THEN Append(m.events, Done(Cmd, code, n)) ELSE m.events
  <1>4. m' = [m EXCEPT !.cmds = Tail(m.cmds), !.events = q]
    BY DEF Answer
  <1>5. q = m.events \/ q = Append(m.events, Done(Cmd, code, n))
    OBVIOUS
  <1> HIDE DEF q
  <1>6. m'.cur = m.cur /\ m'.cmds = Tail(m.cmds) /\ m'.events = q
    BY <1>1, <1>4 DEF Machines
  <1> QED BY <1>1, <1>3, <1>5, <1>6

LEMMA FirstCmdFits ==
    ASSUME IInv, RInv, m.cmds # <<>>
    PROVE  FitCmd(Cmd, ctx)
  <1>1. m.cmds \in Seq(Commands)
    BY StateFacts DEF Machines
  <1> QED BY <1>1, FitTail DEF RInv, Sound, Cmd

LEMMA DoneFits ==
    ASSUME NEW x, FitCmd(x, ctx), NEW code, NEW n, NEW k,
           x.op = "set" /\ code = "OK" => k.pin = "new"
    PROVE  Fit(Done(x, code, n), ctx, k)
  BY DEF Fit, FitCmd, Done

(* All commands but the one that sets the PIN leave it alone.              *)
LEMMA ExecuteSound ==
    ASSUME IInv, RInv, IInv',
           NEW op \in {"create", "update", "pace", "reset", "destroy"}, Executes(op),
           NEW code \in Codes, NEW n \in -2..3, Answer(code, n),
           ctx' = ctx, card'.pin = card.pin
    PROVE  RInv'
  <1>1. /\ m.cmds # <<>> /\ m'.cur = m.cur /\ m'.cmds = Tail(m.cmds)
        /\ Done(Cmd, code, n) \in Events
        /\ m'.events = m.events \/ m'.events = Append(m.events, Done(Cmd, code, n))
    BY AnswerParts
  <1>2. Fit(Done(Cmd, code, n), ctx, card')
    BY <1>1, FirstCmdFits, DoneFits, CmdFacts
  <1>3. Honest(ctx, card')
    BY DEF RInv, Honest
  <1> QED BY <1>1, <1>2, <1>3, AnswerSound

LEMMA ExecuteOthersSound ==
    ASSUME IInv, RInv, IInv',
           ExecuteCreate \/ ExecuteUpdate \/ ExecutePace \/ ExecuteReset \/ ExecuteDestroy
    PROVE  RInv'
  <1>1. card \in Cards /\ card.known \in -2..3 /\ card.tries \in -2..3 /\ 0 \in -2..3
    <2>1. card \in Cards
      BY StateFacts
    <2>2. card.known \in -1..3 /\ card.tries \in 0..3
      BY <2>1 DEF Cards
    <2> QED BY <2>1, <2>2
  <1>2. ctx' = ctx
    BY DEF ExecuteCreate, ExecuteUpdate, ExecutePace, ExecuteReset, ExecuteDestroy
  <1>3. CASE ExecuteCreate
    <2>1. Executes("create") /\ \E code \in Codes, n \in -2..3 : Answer(code, n)
      BY <1>1, <1>3, AnswerCodes DEF ExecuteCreate
    <2>2. card'.pin = card.pin
      BY <1>1, <1>3 DEF ExecuteCreate, Cards
    <2> QED BY <1>2, <2>1, <2>2, ExecuteSound
  <1>4. CASE ExecuteUpdate
    <2>1. Executes("update") /\ \E code \in Codes, n \in -2..3 : Answer(code, n)
      BY <1>1, <1>4, AnswerCodes DEF ExecuteUpdate
    <2>2. card'.pin = card.pin
      BY <1>1, <1>4 DEF ExecuteUpdate, Cards
    <2> QED BY <1>2, <2>1, <2>2, ExecuteSound
  <1>5. CASE ExecutePace
    <2>1. /\ Executes("pace") /\ \E code \in Codes, n \in -2..3 : Answer(code, n)
          /\ card' = card \/ \E type, code : card' = PaceCard(type, code)
      <3>1. /\ PaceCode(Cmd.arg, Cmd.pw) \in Codes /\ Unreachable \in Codes
        BY AnswerCodes DEF PaceCode, Unreachable
      <3> QED BY <1>1, <1>5, <3>1, AnswerCodes DEF ExecutePace
    <2>2. \A type, code : PaceCard(type, code).pin = card.pin
      BY <1>1 DEF PaceCard, Cards
    <2> QED BY <1>2, <2>1, <2>2, ExecuteSound
  <1>6. CASE ExecuteReset
    <2>1. Executes("reset") /\ \E code \in Codes, n \in -2..3 : Answer(code, n)
      BY <1>1, <1>6, AnswerCodes DEF ExecuteReset
    <2>2. card'.pin = card.pin
      BY <1>1, <1>6 DEF ExecuteReset, Cards
    <2> QED BY <1>2, <2>1, <2>2, ExecuteSound
  <1>7. CASE ExecuteDestroy
    <2>1. Executes("destroy") /\ \E code \in Codes, n \in -2..3 : Answer(code, n)
      BY <1>1, <1>7, AnswerCodes DEF ExecuteDestroy
    <2>2. card'.pin = card.pin
      BY <1>1, <1>7 DEF ExecuteDestroy, Cards
    <2> QED BY <1>2, <2>1, <2>2, ExecuteSound
  <1> QED BY <1>3, <1>4, <1>5, <1>6, <1>7

LEMMA ExecuteSetSound ==
    ASSUME IInv, RInv, IInv', ExecuteSet \/ ExecuteRelease PROVE RInv'
  <1>1. card \in Cards /\ m \in Machines /\ Honest(ctx, card) /\ ctx' = ctx
    BY StateFacts DEF RInv, ExecuteSet, ExecuteRelease
  <1>2. CASE ExecuteSet
    <2> DEFINE changed == [card EXCEPT !.pin = IF Cmd.pw = Nothing THEN @ ELSE Cmd.pw]
    <2>1. Executes("set") /\ m.cmds # <<>> /\ Cmd.op = "set"
      BY <1>2 DEF ExecuteSet, Executes
    <2>2. ~ctx.onlyCheck /\ Cmd.pw \in NewPins
      BY <2>1, FirstCmdFits DEF FitCmd
    <2>3. /\ card.pin = "new" => changed.pin = "new"
          /\ Cmd.pw # Nothing => changed.pin = "new"
      BY <1>1, <2>2 DEF Cards, NewPins
    <2>4. \E code \in Codes : /\ Answer(code, 0) /\ card' \in {card, changed}
                              /\ code = "OK" => card' = changed /\ Cmd.pw # Nothing
      BY <1>2, AnswerCodes DEF ExecuteSet
    <2> HIDE DEF changed
    <2>5. PICK code \in Codes : /\ Answer(code, 0) /\ card' \in {card, changed}
                                /\ code = "OK" => card' = changed /\ Cmd.pw # Nothing
      BY <2>4
    <2>6. /\ m'.cur = m.cur /\ m'.cmds = Tail(m.cmds)
          /\ Done(Cmd, code, 0) \in Events
          /\ m'.events = m.events \/ m'.events = Append(m.events, Done(Cmd, code, 0))
      BY <2>1, <2>5, AnswerCodes, AnswerParts
    <2>7. card.pin = "new" => card'.pin = "new"
      BY <2>3, <2>5
    <2>8. Fit(Done(Cmd, code, 0), ctx, card')
      BY <2>1, <2>3, <2>5, FirstCmdFits, DoneFits
    <2>9. Honest(ctx, card')
      BY <1>1, <2>2 DEF Honest
    <2> QED BY <1>1, <2>1, <2>6, <2>7, <2>8, <2>9, AnswerSound
  <1>3. CASE ExecuteRelease
    <2>1. m.cmds # <<>> /\ m' = [m EXCEPT !.cmds = Tail(@)]
      BY <1>3 DEF ExecuteRelease, Executes
    <2>2. m'.cur = m.cur /\ m'.cmds = Tail(m.cmds) /\ m'.events = m.events
      BY <1>1, <2>1 DEF Machines
    <2>3. card'.pin = card.pin
      BY <1>1, <1>3 DEF ExecuteRelease, Cards
    <2> QED BY <1>1, <2>1, <2>2, <2>3, AnswerSound DEF Honest
  <1> QED BY <1>2, <1>3

(* The user approves the state. *)
LEMMA ApproveSound ==
    ASSUME NEW c, Sound(m, c, card), m.cur \in States
    PROVE  Sound(Approved(m), c, card) /\ Approved(m).cur = m.cur
  <1> DEFINE mm == [m EXCEPT !.approved = TRUE]
  <1>1. m \in Machines
    BY DEF Sound
  <1>2. mm \in Machines /\ mm.cur = m.cur /\ mm.events = m.events /\ mm.cmds = m.cmds
    BY <1>1 DEF Machines
  <1> HIDE DEF mm
  <1>3. Sound(mm, c, card)
    BY <1>2, SoundSame
  <1>4. Run(m.cur) \in Events /\ Fit(Run(m.cur), c, card)
    BY EventKinds, FitKinds DEF Sound
  <1>5. Sound(Post(mm, Run(m.cur)), c, card) /\ Post(mm, Run(m.cur)).cur = mm.cur
    BY <1>2, <1>3, <1>4, PostSound, PostFacts
  <1>6. Approved(m) = Post(mm, Run(m.cur))
    BY <1>2 DEF Approved, mm
  <1> QED BY <1>2, <1>5, <1>6

LEMMA EntrySound ==
    ASSUME IInv, RInv, IInv', EnterPassword \/ EnterNewPin \/ Confirm PROVE RInv'
  <1>1. ctx \in Contexts /\ Sound(m, ctx, card) /\ Honest(ctx, card)
    BY StateFacts DEF RInv
  <1>2. m.cur \in {"EnterPassword", "EnterNewPin", "Unfortunate", "Final"} /\ m' = Approved(m) /\ card' = card
    BY DEF EnterPassword, EnterNewPin, Confirm
  <1>3. m.cur \in States
    BY <1>2, PlainStates DEF Plain
  <1>4. Told(ctx) /\ m.cur # "none"
    BY <1>2 DEF RInv, Unheard
  <1>5. /\ ctx'.onlyCheck = ctx.onlyCheck /\ ctx'.status = ctx.status /\ ctx'.failure = ctx.failure
        /\ ctx'.newPin \in NewPins
    <2>1. CASE EnterPassword
      BY <1>1, <2>1 DEF EnterPassword, Contexts, Honest
    <2>2. CASE EnterNewPin
      BY <1>1, <2>2 DEF EnterNewPin, Contexts, NewPins
    <2>3. CASE Confirm
      BY <1>1, <2>3 DEF Confirm, Honest
    <2> QED BY <2>1, <2>2, <2>3
  <1>6. Sound(m, ctx', card)
    BY <1>1, <1>5, SoundLater
  <1>7. Sound(m', ctx', card) /\ m'.cur = m.cur
    BY <1>2, <1>3, <1>6, ApproveSound
  <1> QED BY <1>1, <1>2, <1>4, <1>5, <1>7, SoundNow DEF Honest, Told

(* A cancellation of a workflow that runs makes its state abort.           *)
LEMMA CancelSound ==
    ASSUME IInv, RInv, IInv', card' = card, Running, NEW mm, NEW c \in Contexts, CancelIn(mm, c),
           Sound(mm, ctx, card), mm.cur = m.cur, c.onlyCheck = ctx.onlyCheck, c.newPin = ctx.newPin
    PROVE  RInv'
  <1> DEFINE cc == [c EXCEPT !.cancelled = TRUE]
  <1>1. cc \in Contexts /\ cc.onlyCheck = ctx.onlyCheck /\ cc.newPin = ctx.newPin
    BY DEF Contexts
  <1>2. ctx' = OnUserCancelled(cc, mm.cur) /\ m' = Fire(mm, ctx', mm.cur, "abort")
    BY DEF CancelIn
  <1> HIDE DEF cc
  <1>3. Failed(ctx', cc)
    BY <1>1, <1>2, FailedFacts
  <1>4. Failed(ctx', ctx)
    BY <1>1, <1>3 DEF Failed
  <1>5. Sound(mm, ctx', card)
    BY <1>4, SoundLater DEF Failed
  <1>6. mm.cur \in States /\ mm.cur # "none"
    BY StateFacts DEF Running, Machines
  <1>7. MayEmit(ctx', card, mm.cur, "abort")
    BY <1>4 DEF MayEmit, Failed
  <1>8. Sound(m', ctx', card) /\ m'.cur # "none"
    BY <1>2, <1>5, <1>6, <1>7, NextTypes, FireSound
  <1>9. Honest(ctx', card) /\ Told(ctx')
    BY <1>4 DEF RInv, Honest, Told, Failed
  <1> QED BY <1>8, <1>9, SoundNow

LEMMA CancelWorkflowSound ==
    ASSUME IInv, RInv, IInv', CancelWorkflow PROVE RInv'
  <1>1. CancelIn(m, ctx) /\ Running /\ card' = card
    BY DEF CancelWorkflow
  <1> QED BY <1>1, StateFacts, CancelSound DEF RInv

LEMMA KillWorkflowSound ==
    ASSUME IInv, RInv, IInv', KillWorkflow PROVE RInv'
  <1> DEFINE c  == [ctx EXCEPT !.killed = TRUE, !.status = "cancelled"]
             cc == [c EXCEPT !.cancelled = TRUE]
             mm == IF m.approved THEN m
                   ELSE IF m.cur = "none" THEN [m EXCEPT !.approved = TRUE] ELSE Approved(m)
  <1>1. m \in Machines /\ ctx \in Contexts /\ Sound(m, ctx, card) /\ Honest(ctx, card) /\ Fresh(m)
    BY StateFacts DEF RInv
  <1>2. m.cur # "stopped" /\ CancelIn(mm, c) /\ card' = card
    BY DEF KillWorkflow
  <1>3. c \in Contexts /\ c.onlyCheck = ctx.onlyCheck /\ c.newPin = ctx.newPin /\ c.status = "cancelled"
    BY <1>1 DEF Contexts
  <1>4. cc \in Contexts /\ cc.onlyCheck = ctx.onlyCheck /\ cc.newPin = ctx.newPin /\ cc.status = "cancelled"
    BY <1>3 DEF Contexts
  <1>5. CASE m.cur # "none"
    <2>1. Running /\ m.cur \in States
      BY <1>1, <1>2, <1>5 DEF Running, Machines
    <2>2. Sound(Approved(m), ctx, card) /\ Approved(m).cur = m.cur
      BY <1>1, <2>1, ApproveSound
    <2>3. Sound(mm, ctx, card) /\ mm.cur = m.cur
      BY <1>1, <1>5, <2>2
    <2> HIDE DEF mm, c
    <2> QED BY <1>2, <1>3, <2>1, <2>3, CancelSound
  <1>6. CASE m.cur = "none"
    <2> DEFINE new == [m EXCEPT !.approved = TRUE]
    <2>1. /\ new \in Machines /\ new.cur = m.cur /\ new.events = m.events /\ new.cmds = m.cmds
          /\ new.listening = m.listening /\ new.approved
      BY <1>1 DEF Machines
    <2> HIDE DEF new
    <2>2. /\ mm \in Machines /\ mm.cur = m.cur /\ mm.events = m.events /\ mm.cmds = m.cmds
          /\ mm.listening = m.listening /\ mm.approved
      <3>1. CASE m.approved
        BY <1>1, <3>1
      <3>2. CASE ~m.approved
        <4>1. mm = new
          BY <1>6, <3>2 DEF new
        <4> HIDE DEF mm
        <4> QED BY <2>1, <4>1
      <3> QED BY <3>1, <3>2
    <2>3. ~Running
      BY <1>6 DEF Running
    <2>4. ctx' = cc /\ m' = mm
      BY <1>2, <2>3 DEF CancelIn
    <2> HIDE DEF mm, cc, c
    <2>5. Sound(mm, ctx, card)
      BY <1>1, <2>2, SoundSame
    <2>6. Sound(m', ctx', card') /\ Honest(ctx', card')
      BY <1>1, <1>2, <1>4, <2>4, <2>5, SoundLater DEF Honest
    <2>7. Fresh(mm) /\ Unheard(mm)
      BY <1>1, <1>6, <2>2 DEF Fresh, Unheard, Idle
    <2>8. Fresh(m)' /\ Unheard(m)'
      BY <2>4, <2>7 DEF Fresh, Unheard, Idle
    <2>9. Sound(m, ctx, card)' /\ Honest(ctx, card)'
      BY <2>6 DEF Sound, AllFit, AllFitCmd, Fit, FitCmd, Honest
    <2> QED BY <2>8, <2>9 DEF RInv
  <1> QED BY <1>5, <1>6

LEMMA StartSound ==
    ASSUME IInv, RInv, IInv', Start PROVE RInv'
  <1>1. /\ m \in Machines /\ ctx \in Contexts /\ Sound(m, ctx, card) /\ Honest(ctx, card) /\ Fresh(m)
        /\ ~Told(ctx) => Unheard(m)
    BY StateFacts DEF RInv
  <1>2. /\ m.cur = "none" /\ m' = Enter(m, ctx, "Maintain") /\ ctx' = ctx /\ card' = card
        /\ "Maintain" \in States
    BY MaintainState DEF Start
  <1> DEFINE q == IF ~m.approved /\ ("Maintain" \notin Waiting \/ ctx.killed)
                  THEN Append(m.events, Run("Maintain")) ELSE m.events
             cancel == Cancel("Maintain")
  <1>3. /\ m' \in Machines /\ m'.cur = "Maintain" /\ m'.cmds = m.cmds
        /\ q \in Seq(Events) /\ m'.events \in {q, Append(q, cancel)}
    BY <1>1, <1>2, EnterFacts
  <1>4. m'.listening = m.listening
    BY <1>1, <1>2 DEF Enter, Machines
  <1>5. /\ m.events \in Seq(Events) /\ Run("Maintain") \in Events /\ cancel \in Events
        /\ Fit(Run("Maintain"), ctx, card) /\ Fit(cancel, ctx, card)
    BY <1>1, <1>2, EventKinds, FitKinds DEF Machines, Changing
  <1>6. q \in {m.events, Append(m.events, Run("Maintain"))} /\ (m.approved => q = m.events)
    OBVIOUS
  <1> HIDE DEF q
  <1>7. AllFit(q, ctx, card)
    BY <1>1, <1>5, <1>6, FitAppend DEF Sound
  <1>8. AllFit(m'.events, ctx, card)
    BY <1>3, <1>5, <1>7, FitAppend
  <1>9. Sound(m', ctx', card')
    BY <1>1, <1>2, <1>3, <1>8 DEF Sound, Changing, Ending
  <1>10. ASSUME ~Told(ctx) PROVE Unheard(m)'
    <2>1. Unheard(m) /\ q = m.events
      BY <1>1, <1>2, <1>6, <1>10 DEF Unheard
    <2>2. \A j \in 1..Len(m'.events) : m'.events[j] = cancel \/ (j \in 1..Len(q) /\ m'.events[j] = q[j])
      <3>1. /\ Len(Append(q, cancel)) = Len(q) + 1 /\ Len(q) \in Nat
            /\ \A j \in 1..(Len(q) + 1) : Append(q, cancel)[j] = IF j = Len(q) + 1 THEN cancel ELSE q[j]
        BY <1>3, <1>5, AppendFacts
      <3> QED BY <1>3, <3>1
    <2> QED BY <1>3, <1>4, <2>1, <2>2 DEF Unheard, Idle
  <1>11. Fresh(m)'
    BY <1>3 DEF Fresh
  <1>12. Sound(m, ctx, card)' /\ Honest(ctx, card)'
    BY <1>1, <1>2, <1>9 DEF Sound, AllFit, AllFitCmd, Fit, FitCmd, Honest
  <1> QED BY <1>2, <1>10, <1>11, <1>12 DEF RInv, Told

LEMMA CardSound ==
    ASSUME IInv, RInv, IInv', RemoveCard \/ InsertCard PROVE RInv'
  <1>1. /\ m \in Machines /\ card \in Cards /\ Sound(m, ctx, card) /\ Honest(ctx, card) /\ Fresh(m)
        /\ ~Told(ctx) => Unheard(m)
    BY StateFacts DEF RInv
  <1>2. ctx' = ctx /\ card'.pin = card.pin
    BY <1>1 DEF RemoveCard, InsertCard, Cards
  <1>3. card.tries \in 0..3
    BY <1>1 DEF Cards
  <1>4. PICK e \in {Removed, Inserted(card.tries)} : m' = Post(m, e)
    BY DEF RemoveCard, InsertCard
  <1>5. e \in Events /\ Fit(e, ctx, card) /\ e.type \in Kinds
    <2>1. e \in Events
      BY <1>3, EventKinds
    <2>2. Fit(e, ctx, card)
      BY FitKinds
    <2>3. e.type \in Kinds
      BY DEF Removed, Inserted, Kinds
    <2> QED BY <2>1, <2>2, <2>3
  <1>6. Sound(m', ctx, card)
    BY <1>1, <1>4, <1>5, PostSound
  <1>7. Sound(m', ctx', card') /\ Honest(ctx', card')
    BY <1>1, <1>2, <1>6, SoundLater DEF Honest
  <1>8. /\ m'.cur = m.cur /\ m'.cmds = m.cmds /\ m'.approved = m.approved
        /\ m'.events = Append(m.events, e) /\ m.events \in Seq(Events)
    BY <1>1, <1>4, <1>5, PostFacts DEF Machines
  <1>9. m'.listening = m.listening
    BY <1>1, <1>4 DEF Post, Machines
  <1>10. \A j \in 1..Len(m'.events) : m'.events[j] = e \/ (j \in 1..Len(m.events) /\ m'.events[j] = m.events[j])
    <2>1. /\ Len(Append(m.events, e)) = Len(m.events) + 1 /\ Len(m.events) \in Nat
          /\ \A j \in 1..(Len(m.events) + 1) :
                 Append(m.events, e)[j] = IF j = Len(m.events) + 1 THEN e ELSE m.events[j]
      BY <1>5, <1>8, AppendFacts
    <2> QED BY <1>8, <2>1
  <1>11. Fresh(m)'
    BY <1>1, <1>5, <1>8, <1>9, <1>10 DEF Fresh, Idle
  <1>12. (~Told(ctx) => Unheard(m)')
    BY <1>1, <1>5, <1>8, <1>9, <1>10 DEF Unheard, Idle
  <1>13. Sound(m, ctx, card)' /\ Honest(ctx, card)'
    BY <1>7 DEF Sound, AllFit, AllFitCmd, Fit, FitCmd, Honest
  <1> QED BY <1>2, <1>11, <1>12, <1>13 DEF RInv, Told

LEMMA ResultInitOK == Init => RInv
  <1> SUFFICES ASSUME Init PROVE RInv
    OBVIOUS
  <1>1. /\ m.cur = "none" /\ m.events = <<>> /\ m.cmds = <<>> /\ m.listening = {}
        /\ ctx.status = "ok" /\ ctx.newPin = Nothing /\ card.pin = "old"
    BY DEF Init
  <1>2. m \in Machines
    BY InitOK, StateFacts
  <1>3. Sound(m, ctx, card)
    BY <1>1, <1>2 DEF Sound, AllFit, AllFitCmd, Changing, Ending
  <1>4. Honest(ctx, card) /\ Fresh(m) /\ Told(ctx)
    BY <1>1 DEF Honest, NewPins, Fresh, Idle, Told
  <1> QED BY <1>3, <1>4 DEF RInv

LEMMA ResultStepOK == IInv /\ RInv /\ [Next]_vars => RInv'
  <1> SUFFICES ASSUME IInv, RInv, [Next]_vars PROVE RInv'
    OBVIOUS
  <1>0. IInv'
    BY StepOK
  <1>1. CASE Start
    BY <1>0, <1>1, StartSound
  <1>2. CASE MainThread
    <2>1. CASE RunMaintain \/ RunSelectReader \/ RunConnectCard
      BY <1>0, <2>1, RunFirstSound
    <2>2. CASE RunUpdateRetry \/ RunResetRetry \/ RunDestroy \/ RunChangePin
      BY <1>0, <2>2, CardStatesSound
    <2>3. CASE RunVerify \/ RunPreparePace \/ RunUnfortunate \/ RunCheckError \/ RunPrepareChange
      BY <1>0, <2>3, CounterChecksSound
    <2>4. CASE RunEstablish
      BY <1>0, <2>4, RunEstablishSound
    <2>5. CASE RunClear \/ RunCleanUp \/ RunContinue
      BY <1>0, <2>5, RunLastSound
    <2>6. CASE HandleCancel
      BY <1>0, <2>6, HandleCancelSound
    <2>7. CASE CreateDone \/ UpdateDone \/ DestroyDone
      BY <1>0, <2>7, CreateUpdateDoneSound
    <2>8. CASE PaceDone
      BY <1>0, <2>8, PaceDoneSound
    <2>9. CASE ResetDone \/ SetDone
      BY <1>0, <2>9, ResetSetDoneSound
    <2>10. CASE CardRemoved \/ CardInserted
      BY <1>0, <2>10, ReportSound
    <2> QED BY <1>2, <2>1, <2>2, <2>3, <2>4, <2>5, <2>6, <2>7, <2>8, <2>9, <2>10 DEF MainThread
  <1>3. CASE WorkerThread
    BY <1>0, <1>3, ExecuteOthersSound, ExecuteSetSound DEF WorkerThread
  <1>4. CASE Users
    BY <1>0, <1>4, EntrySound, CancelWorkflowSound, KillWorkflowSound DEF Users
  <1>5. CASE RemoveCard \/ InsertCard
    BY <1>0, <1>5, CardSound
  <1>6. CASE UNCHANGED vars
    <2>1. UNCHANGED <<m, ctx, card>>
      BY <1>6 DEF vars
    <2>2. Sound(m, ctx, card)' /\ Honest(ctx, card)'
      BY <2>1 DEF RInv, Sound, AllFit, AllFitCmd, Fit, FitCmd, Honest
    <2>3. Fresh(m)' /\ (~Told(ctx) => Unheard(m))'
      BY <2>1 DEF RInv, Fresh, Told, Unheard, Idle
    <2> QED BY <2>2, <2>3 DEF RInv
  <1> QED BY <1>1, <1>2, <1>3, <1>4, <1>5, <1>6 DEF Next, Terminated

(* At every moment: a state of the change is only reached, and a PIN only  *)
(* sent to the card, if the PIN is not just to be checked; a state at the  *)
(* end is only reached with an error or with the PIN changed; and a        *)
(* workflow has an error without a failure code only while it was killed   *)
(* and has not run any of its states.                                      *)
THEOREM ResultInvariance == Spec => []RInv
  BY InitOK, StepOK, ResultInitOK, ResultStepOK, PTL DEF Spec

(* The result of the workflow is true: without an error the PIN of the     *)
(* card is the new one, the PIN of a check is never changed, and an error  *)
(* has a failure code when it is looked at (asserted in StateCheckError    *)
(* and StateEstablishPaceChannel), whatever is lost, removed or cancelled. *)
THEOREM ResultsAreTruthful == Spec => []ResultIsTruthful
  <1>1. RInv => ResultIsTruthful
    BY DEF RInv, Sound, Honest, Told, Unheard, Ending, ResultIsTruthful
  <1> QED BY <1>1, ResultInvariance, PTL
-----------------------------------------------------------------------------
(* Attempts: what a PIN costs the card, and when it is sent at all.        *)

(* Queues: what is in them; none of these; at most one of these; the run() *)
(* of a state comes after all of these.                                    *)
Elements(q) == {q[i] : i \in 1..Len(q)}
Free(q, S)  == Elements(q) \cap S = {}
Only(q, S)  == \A i, j \in 1..Len(q) : q[i] \in S /\ q[j] \in S => i = j
RunComes(q, S) ==
    \A i \in 1..Len(q) : q[i] \in S => \E j \in 1..Len(q) : j > i /\ q[j].type = "run"

(* A PIN is not tried twice: an attempt that may still cost one is the     *)
(* only one, the card that takes it will not refuse it, and nothing the    *)
(* worker thread does before changes that.                                 *)
PinPaces    == {x \in Commands : x.op = "pace" /\ x.arg \notin {"CAN", "PUK"}}
Harmless(x) == x.op = "release" \/ (x.op = "create" /\ ~x.wired)
Ahead(q)    == \A i, j \in 1..Len(q) : q[j] \in PinPaces /\ i < j => Harmless(q[i])
MayTry(k)   == k.linked => k.tries > 1 \/ (k.tries = 1 /\ k.session = "CAN")
Attempts(q, k, n) ==
    /\ n <= 1 /\ (n = 1 => Free(q, PinPaces))
    /\ Ahead(q) /\ (Free(q, PinPaces) \/ MayTry(k))
    /\ k.linked => k.present

(* As long as nothing went wrong only the current state is busy, with one  *)
(* thing: a posted run(), a command, or its posted answer.  The states that*)
(* wait for a card listen instead; cards are connected while ConnectCard   *)
(* listens.                                                                *)
Owners ==
    [create |-> {"ConnectCard"}, update |-> {"UpdateRetry", "UpdateFinal"}, pace |-> {"Establish"},
     reset |-> {"ResetRetry"}, set |-> {"ChangePin"}, destroy |-> {"PaceDestroy", "Destroy"}]
Tokens  == {e \in Events : e.type = "run" \/ (e.type = "done" /\ e.op # "create")}
Created == {e \in Events : e.type = "done" /\ e.op = "create"}
Moves   == {e \in Events : e.type \in Kinds}
Work    == {x \in Commands : x.op \notin {"create", "release"}}
Busy(mm)    == ~(Free(mm.events, Tokens) /\ Free(mm.cmds, Work))
Linking(mm) == "ConnectCard" \in mm.listening
OwnEvent(e, mm) ==
    /\ e.type = "done" => e.st \in Owners[e.op]
    /\ e \in Tokens => e.st = mm.cur
OwnCmd(x, mm) ==
    /\ x.op # "release" => x.owner \in Owners[x.op]
    /\ x \in Work => x.owner = mm.cur /\ x.wired
    /\ x.op = "create" /\ x.wired => Linking(mm)

(* What comes of an earlier card is handled before the next state runs.    *)
Passing(mm, S) ==
    \/ Linking(mm)
    \/ mm.cur \in {"SelectReader", "UpdateRetry"} /\ RunComes(mm.events, S)
    \/ Free(mm.events, S)
InStep(mm, k) ==
    /\ mm \in Machines
    /\ Only(mm.events, Tokens) /\ Only(mm.cmds, Work)
    /\ Free(mm.events, Tokens) \/ Free(mm.cmds, Work)
    /\ \A e \in Elements(mm.events) : OwnEvent(e, mm)
    /\ \A x \in Elements(mm.cmds) : OwnCmd(x, mm)
    /\ mm.listening \subseteq {mm.cur}
    /\ mm.listening # {} \/ ~mm.approved => ~Busy(mm)
    /\ Passing(mm, Created) /\ (k.linked => Passing(mm, Moves))

(* What the main thread knows of the card: the counter is the card's as    *)
(* long as it is connected; the CAN was accepted, and nothing was done     *)
(* since; the password the card needs; a PIN that has already cost an      *)
(* attempt, and the counter that shows it.                                 *)
Current(n, k) == n # NoConn => n.counter \in {-1, k.tries} /\ (k.linked => n.counter = k.tries)
CanKept(n, k) == k.linked /\ n.can => k.tries = 1 /\ k.session = "CAN"
Asked(n) ==
    CASE n.counter = 0             -> "PUK"
      [] n.counter = 1 /\ ~n.can   -> "CAN"
      [] OTHER                     -> "PIN"
Wasted(c, s) == s = 1 /\ c.pin # Nothing
Lower(c, k)  == c.expected = k.tries + 1
Fine(c)      == c.lastPace \in {"OK", "OK_CAN"}

(* What an event says is still true of the card.                           *)
PaceTold(e, c, n, k, s) ==
    /\ e.arg \in PaceTypes /\ e.code \notin {"OK_CAN", "OK_PUK"}
    /\ e.arg = "CAN" /\ e.code = "OK" =>
           Current(n, k) /\ (k.linked => k.tries = 1 /\ k.session = "CAN")
    /\ e.arg = "PUK" /\ k.linked => ~n.can
    /\ Wasted(c, s) => /\ Lower(c, k) /\ e.arg = "PIN" /\ e.code # "OK"
Says(e, c, n, k, s) ==
    /\ e.type = "inserted" => e.counter = k.tries
    /\ e.type = "done" /\ e.op = "update" /\ e.code = "OK" => e.counter = k.tries
    /\ e.type = "done" /\ e.op = "pace" => PaceTold(e, c, n, k, s)

(* What holds in a state: the card is what the state takes it for; a PIN   *)
(* that has cost an attempt gets no further than the check of the counter. *)
Ready(cur, c, n, k, s) ==
    /\ Current(n, k) /\ CanKept(n, k) /\ ~Wasted(c, s)
    /\ k.linked => /\ c.expected = k.tries
                   /\ cur # "PreparePace" => n # NoConn /\ c.paceType = Asked(n)
Before   == {"Maintain", "Unfortunate", "SelectReader", "ConnectCard", "UpdateRetry", "Verify"}
At(cur, c, n, k, s) ==
    /\ cur = "none" => n = NoConn /\ s = 0
    /\ cur \in {"Maintain", "PaceClear", "CheckError", "Unfortunate"} /\ Fine(c) => Current(n, k)
    /\ cur = "Verify" => Current(n, k)
    /\ cur \in {"Maintain", "Unfortunate", "UpdateRetry", "Verify", "PaceClear", "CheckError"} =>
           CanKept(n, k)
    /\ cur \in {"SelectReader", "ConnectCard"} => ~n.can
    /\ cur \in Before /\ Wasted(c, s) => Lower(c, k)
    /\ cur \in {"PreparePace", "EnterPassword"} => Ready(cur, c, n, k, s)
    /\ cur \in {"CheckError", "ResetRetry", "PrepareChange", "EnterNewPin", "ChangePin"} => ~Wasted(c, s)
    /\ cur \in {"ResetRetry", "PaceDestroy"} =>
           c.lastPace \notin {"OK", "OK_CAN"} /\ (k.linked => ~n.can)
Paced == {e \in Events : e.type = "done" /\ e.op = "pace"}
Knows(mm, c, n, k, s) ==
    /\ \A e \in Elements(mm.events) : Says(e, c, n, k, s)
    /\ At(mm.cur, c, n, k, s)
    /\ mm.cur = "Establish" /\ Free(mm.events, Paced) => Ready(mm.cur, c, n, k, s)
    /\ \A x \in Elements(mm.cmds) : x.op = "pace" => x.arg = c.paceType /\ x.arg # Nothing

OInv ==
    /\ Attempts(m.cmds, card, spent)
    /\ ctx.status = "ok" /\ m.cur # "stopped" => InStep(m, card) /\ Knows(m, ctx, conn, card, spent)

LEMMA ElementsAppend ==
    ASSUME NEW T, NEW q \in Seq(T), NEW x \in T
    PROVE  /\ Elements(Append(q, x)) = Elements(q) \cup {x}
           /\ \A S : Free(Append(q, x), S) <=> Free(q, S) /\ x \notin S
           /\ \A S : Only(q, S) /\ (x \in S => Free(q, S)) => Only(Append(q, x), S)
           /\ \A S : RunComes(q, S) /\ x \notin S => RunComes(Append(q, x), S)
           /\ \A S : x.type = "run" /\ x \notin S => RunComes(Append(q, x), S)
  <1> DEFINE a == Append(q, x)
             n == Len(q)
  <1>1. /\ n \in Nat /\ Len(a) = n + 1 /\ n + 1 \in 1..Len(a) /\ a[n + 1] = x
        /\ \A i \in 1..n : i \in 1..Len(a) /\ a[i] = q[i] /\ i # n + 1 /\ n + 1 > i
        /\ \A i \in 1..Len(a) : i = n + 1 \/ (i \in 1..n /\ a[i] = q[i])
    <2>1. Len(a) = n + 1 /\ n \in Nat /\ \A j \in 1..(n + 1) : a[j] = IF j = n + 1 THEN x ELSE q[j]
      BY AppendFacts
    <2> HIDE DEF a
    <2> QED BY <2>1
  <1> HIDE DEF a, n
  <1>2. Elements(a) = Elements(q) \cup {x}
    <2>1. Elements(q) = {q[i] : i \in 1..n}
      BY DEF Elements, n
    <2>2. Elements(a) = {a[i] : i \in 1..Len(a)}
      BY DEF Elements
    <2> QED BY <1>1, <2>1, <2>2
  <1>3. \A S : Free(a, S) <=> Free(q, S) /\ x \notin S
    BY <1>2 DEF Free
  <1>4. ASSUME NEW S, Only(q, S), x \in S => Free(q, S)
        PROVE  Only(a, S)
    <2> SUFFICES ASSUME NEW i \in 1..Len(a), NEW j \in 1..Len(a), a[i] \in S, a[j] \in S
                 PROVE  i = j
      BY DEF Only
    <2>1. x \in S => \A l \in 1..n : q[l] \notin S
      BY <1>4 DEF Free, Elements, n
    <2>2. CASE i = n + 1 \/ j = n + 1
      BY <1>1, <2>1, <2>2
    <2>3. CASE i # n + 1 /\ j # n + 1
      <3>1. i \in 1..n /\ j \in 1..n /\ q[i] \in S /\ q[j] \in S
        BY <1>1, <2>3
      <3> QED BY <3>1, <1>4 DEF Only, n
    <2> QED BY <2>2, <2>3
  <1>5. ASSUME NEW S, RunComes(q, S), x \notin S
        PROVE  RunComes(a, S)
    <2> SUFFICES ASSUME NEW i \in 1..Len(a), a[i] \in S
                 PROVE  \E j \in 1..Len(a) : j > i /\ a[j].type = "run"
      BY DEF RunComes
    <2>1. i \in 1..n /\ q[i] \in S
      BY <1>1, <1>5
    <2>2. PICK j \in 1..n : j > i /\ q[j].type = "run"
      BY <2>1, <1>5 DEF RunComes, n
    <2> QED BY <2>2, <1>1
  <1>6. ASSUME NEW S, x.type = "run", x \notin S
        PROVE  RunComes(a, S)
    <2> SUFFICES ASSUME NEW i \in 1..Len(a), a[i] \in S
                 PROVE  \E j \in 1..Len(a) : j > i /\ a[j].type = "run"
      BY DEF RunComes
    <2>1. i \in 1..n
      BY <1>1, <1>6
    <2> QED BY <1>1, <1>6, <2>1
  <1> QED BY <1>2, <1>3, <1>4, <1>5, <1>6 DEF a

LEMMA ElementsTail ==
    ASSUME NEW T, NEW q \in Seq(T), q # <<>>
    PROVE  /\ Elements(q) = Elements(Tail(q)) \cup {Head(q)}
           /\ \A S : Free(q, S) <=> Free(Tail(q), S) /\ Head(q) \notin S
           /\ \A S : Only(q, S) => Only(Tail(q), S) /\ (Head(q) \in S => Free(Tail(q), S))
           /\ \A S : RunComes(q, S) => RunComes(Tail(q), S)
  <1> DEFINE t == Tail(q)
             n == Len(q)
  <1>1. /\ n \in Nat /\ n >= 1 /\ Len(t) = n - 1 /\ Head(q) = q[1] /\ 1 \in 1..n
        /\ \A j \in 1..Len(t) : j + 1 \in 1..n /\ t[j] = q[j + 1] /\ j + 1 # 1
        /\ \A i \in 1..n : i # 1 => i - 1 \in 1..Len(t) /\ t[i - 1] = q[i]
    <2>1. /\ n \in Nat /\ n >= 1 /\ Len(t) = n - 1 /\ Head(q) = q[1]
          /\ \A j \in 1..Len(t) : j + 1 \in 1..n /\ t[j] = q[j + 1]
      BY TailFacts
    <2> HIDE DEF t, n
    <2>2. ASSUME NEW i \in 1..n, i # 1 PROVE i - 1 \in 1..Len(t) /\ t[i - 1] = q[i]
      <3>1. i - 1 \in 1..Len(t) /\ (i - 1) + 1 = i
        BY <2>1, <2>2
      <3> QED BY <3>1, <2>1
    <2> QED BY <2>1, <2>2
  <1> HIDE DEF t, n
  <1>2. Elements(q) = Elements(t) \cup {Head(q)}
    <2>1. Elements(q) = {q[i] : i \in 1..n} /\ Elements(t) = {t[i] : i \in 1..Len(t)}
      BY DEF Elements, n
    <2>2. ASSUME NEW i \in 1..n PROVE q[i] \in Elements(t) \cup {Head(q)}
      BY <1>1, <2>1
    <2>3. ASSUME NEW i \in 1..Len(t) PROVE t[i] \in Elements(q)
      BY <1>1, <2>1
    <2>4. Head(q) \in Elements(q)
      BY <1>1, <2>1
    <2> QED BY <2>1, <2>2, <2>3, <2>4
  <1>3. \A S : Free(q, S) <=> Free(t, S) /\ Head(q) \notin S
    BY <1>2 DEF Free
  <1>4. ASSUME NEW S, Only(q, S)
        PROVE  Only(t, S) /\ (Head(q) \in S => Free(t, S))
    <2>1. ASSUME NEW i \in 1..Len(t), NEW j \in 1..Len(t), t[i] \in S, t[j] \in S
          PROVE  i = j
      <3>1. i + 1 \in 1..n /\ j + 1 \in 1..n /\ q[i + 1] \in S /\ q[j + 1] \in S
        BY <1>1, <2>1
      <3>2. i + 1 = j + 1
        BY <3>1, <1>4 DEF Only, n
      <3> QED BY <3>2
    <2>2. ASSUME Head(q) \in S, NEW i \in 1..Len(t), t[i] \in S
          PROVE  FALSE
      <3>1. i + 1 \in 1..n /\ q[i + 1] \in S /\ q[1] \in S /\ 1 \in 1..n /\ i + 1 # 1
        BY <1>1, <2>2
      <3> QED BY <3>1, <1>4 DEF Only, n
    <2> QED BY <2>1, <2>2 DEF Only, Free, Elements
  <1>5. ASSUME NEW S, RunComes(q, S)
        PROVE  RunComes(t, S)
    <2> SUFFICES ASSUME NEW i \in 1..Len(t), t[i] \in S
                 PROVE  \E j \in 1..Len(t) : j > i /\ t[j].type = "run"
      BY DEF RunComes
    <2>1. i + 1 \in 1..n /\ q[i + 1] \in S
      BY <1>1
    <2>2. PICK j \in 1..n : j > i + 1 /\ q[j].type = "run"
      BY <2>1, <1>5 DEF RunComes, n
    <2>3. j # 1 /\ j - 1 > i /\ j - 1 \in 1..Len(t) /\ (j - 1) + 1 = j
      BY <1>1, <2>2
    <2>4. t[j - 1] = q[j]
      BY <1>1, <2>3
    <2> QED BY <2>2, <2>3, <2>4
  <1> QED BY <1>2, <1>3, <1>4, <1>5 DEF t

(* Where no run() comes there is nothing it would come after. *)
LEMMA RunMissing ==
    ASSUME NEW q \in Seq(Events), NEW S, RunComes(q, S), Free(q, Tokens)
    PROVE  Free(q, S)
  <1>1. \A j \in 1..Len(q) : q[j] \in Events /\ q[j] \notin Tokens
    BY DEF Free, Elements
  <1>2. \A j \in 1..Len(q) : q[j].type # "run"
    BY <1>1 DEF Tokens
  <1>3. \A i \in 1..Len(q) : q[i] \notin S
    BY <1>2 DEF RunComes
  <1> QED BY <1>3 DEF Free, Elements

LEMMA EmptyFacts ==
    /\ Elements(<<>>) = {}
    /\ \A S : Free(<<>>, S) /\ Only(<<>>, S) /\ RunComes(<<>>, S)
  BY DEF Elements, Free, Only, RunComes

(* The receiver st of the results is disconnected. *)
LEMMA ElementsCut ==
    ASSUME NEW q \in Seq(Commands), NEW st
    PROVE  /\ Disconnected(q, st) \in Seq(Commands) /\ Len(Disconnected(q, st)) = Len(q)
           /\ \A i \in 1..Len(q) :
                  /\ Disconnected(q, st)[i] \in Commands /\ q[i] \in Commands
                  /\ Disconnected(q, st)[i].op = q[i].op /\ Disconnected(q, st)[i].arg = q[i].arg
                  /\ Disconnected(q, st)[i].owner = q[i].owner
                  /\ Disconnected(q, st)[i].wired <=> q[i].wired /\ q[i].owner # st
           /\ \A y \in Elements(Disconnected(q, st)) : \E x \in Elements(q) :
                  /\ y \in Commands /\ x \in Commands
                  /\ y.op = x.op /\ y.arg = x.arg /\ y.owner = x.owner
                  /\ y.wired <=> x.wired /\ x.owner # st
  <1> DEFINE d == Disconnected(q, st)
  <1>1. d = [i \in 1..Len(q) |-> [q[i] EXCEPT !.wired = q[i].wired /\ q[i].owner # st]]
    BY DEF Disconnected
  <1>2. Len(q) \in Nat /\ \A i \in 1..Len(q) : q[i] \in Commands
    OBVIOUS
  <1>3. ASSUME NEW i \in 1..Len(q)
        PROVE  /\ d[i] \in Commands /\ q[i] \in Commands
               /\ d[i].op = q[i].op /\ d[i].arg = q[i].arg
               /\ d[i].owner = q[i].owner /\ (d[i].wired <=> q[i].wired /\ q[i].owner # st)
    <2> DEFINE x == q[i]
               y == [x EXCEPT !.wired = x.wired /\ x.owner # st]
    <2>1. d[i] = y /\ x \in Commands
      BY <1>1, <1>2
    <2> HIDE DEF x
    <2>2. /\ y \in Commands /\ y.op = x.op /\ y.arg = x.arg
          /\ y.owner = x.owner /\ (y.wired <=> x.wired /\ x.owner # st)
      BY <2>1 DEF Commands
    <2> HIDE DEF y
    <2> QED BY <2>1, <2>2 DEF x
  <1>4. d \in Seq(Commands) /\ Len(d) = Len(q)
    <2>1. \A i \in 1..Len(q) : d[i] \in Commands
      BY <1>3
    <2> QED BY <1>1, <1>2, <2>1
  <1> HIDE DEF d
  <1>5. ASSUME NEW y \in Elements(d)
        PROVE  \E x \in Elements(q) : /\ y \in Commands /\ x \in Commands
                                      /\ y.op = x.op /\ y.arg = x.arg /\ y.owner = x.owner
                                      /\ y.wired <=> x.wired /\ x.owner # st
    <2>1. PICK i \in 1..Len(q) : y = d[i]
      BY <1>4 DEF Elements
    <2>2. q[i] \in Elements(q)
      BY DEF Elements
    <2> QED BY <2>1, <2>2, <1>3
  <1> QED BY <1>3, <1>4, <1>5 DEF d

-----------------------------------------------------------------------------
(* The commands that are queued, cut and taken.                            *)

LEMMA PinPaceFacts ==
    ASSUME NEW x \in Commands
    PROVE  /\ x \in PinPaces <=> x.op = "pace" /\ x.arg \notin {"CAN", "PUK"}
           /\ x \in PinPaces => ~Harmless(x)
           /\ x \in Work <=> x.op \notin {"create", "release"}
  BY DEF PinPaces, Harmless, Work

LEMMA AttemptsAppend ==
    ASSUME NEW q \in Seq(Commands), NEW x \in Commands, NEW k, NEW n, Attempts(q, k, n),
           x \in PinPaces => n = 0 /\ MayTry(k) /\ \A y \in Elements(q) : Harmless(y)
    PROVE  Attempts(Append(q, x), k, n)
  <1> DEFINE a == Append(q, x)
  <1>1. \A S : Free(a, S) <=> Free(q, S) /\ x \notin S
    BY ElementsAppend
  <1>2. Len(a) = Len(q) + 1 /\ Len(q) \in Nat /\ \A j \in 1..(Len(q) + 1) : a[j] = IF j = Len(q) + 1 THEN x ELSE q[j]
    BY AppendFacts
  <1> HIDE DEF a
  <1>3. Ahead(a)
    <2> SUFFICES ASSUME NEW i \in 1..Len(a), NEW j \in 1..Len(a), a[j] \in PinPaces, i < j
                 PROVE  Harmless(a[i])
      BY DEF Ahead
    <2>1. i \in 1..Len(q) /\ a[i] = q[i]
      BY <1>2
    <2>2. CASE j = Len(q) + 1
      <3>1. q[i] \in Elements(q) /\ x \in PinPaces
        BY <1>2, <2>1, <2>2 DEF Elements
      <3> QED BY <2>1, <3>1
    <2>3. CASE j # Len(q) + 1
      <3>1. j \in 1..Len(q) /\ a[j] = q[j]
        BY <1>2, <2>3
      <3> QED BY <2>1, <3>1 DEF Attempts, Ahead
    <2> QED BY <2>2, <2>3
  <1>4. Free(a, PinPaces) \/ MayTry(k)
    BY <1>1 DEF Attempts
  <1>5. n = 1 => Free(a, PinPaces)
    BY <1>1 DEF Attempts
  <1> QED BY <1>3, <1>4, <1>5 DEF Attempts, a

LEMMA AttemptsCut ==
    ASSUME NEW q \in Seq(Commands), NEW st, NEW k, NEW n, Attempts(q, k, n)
    PROVE  Attempts(Disconnected(q, st), k, n)
  <1> DEFINE d == Disconnected(q, st)
  <1>1. Len(d) = Len(q) /\ \A i \in 1..Len(q) :
            /\ d[i] \in Commands /\ q[i] \in Commands
            /\ d[i].op = q[i].op /\ d[i].arg = q[i].arg
            /\ d[i].wired <=> q[i].wired /\ q[i].owner # st
    BY ElementsCut
  <1> HIDE DEF d
  <1>2. \A i \in 1..Len(q) : d[i] \in PinPaces <=> q[i] \in PinPaces
    BY <1>1, PinPaceFacts
  <1>3. \A i \in 1..Len(q) : Harmless(q[i]) => Harmless(d[i])
    BY <1>1 DEF Harmless
  <1>4. Ahead(d)
    BY <1>1, <1>2, <1>3 DEF Attempts, Ahead
  <1>5. Free(q, PinPaces) => Free(d, PinPaces)
    BY <1>1, <1>2 DEF Free, Elements
  <1> QED BY <1>4, <1>5 DEF Attempts, d

(* A command is taken: behind one that is not harmless no PIN waits.       *)
LEMMA AttemptsTail ==
    ASSUME NEW q \in Seq(Commands), q # <<>>, NEW k, NEW n, Attempts(q, k, n)
    PROVE  /\ Ahead(Tail(q)) /\ Tail(q) \in Seq(Commands)
           /\ Free(Tail(q), PinPaces) \/ (MayTry(k) /\ Harmless(Head(q)))
           /\ n = 1 => Free(Tail(q), PinPaces) /\ Head(q) \notin PinPaces
  <1> DEFINE t == Tail(q)
  <1>1. /\ t \in Seq(Commands) /\ Len(q) \in Nat /\ Len(q) >= 1 /\ Head(q) = q[1]
        /\ \A j \in 1..Len(t) : j + 1 \in 1..Len(q) /\ t[j] = q[j + 1]
    BY TailFacts
  <1>2. \A S : Free(q, S) <=> Free(t, S) /\ Head(q) \notin S
    BY ElementsTail
  <1> HIDE DEF t
  <1>3. Ahead(t)
    <2> SUFFICES ASSUME NEW i \in 1..Len(t), NEW j \in 1..Len(t), t[j] \in PinPaces, i < j
                 PROVE  Harmless(t[i])
      BY DEF Ahead
    <2>1. /\ i + 1 \in 1..Len(q) /\ j + 1 \in 1..Len(q) /\ i + 1 < j + 1
          /\ t[i] = q[i + 1] /\ q[j + 1] \in PinPaces
      BY <1>1
    <2> QED BY <2>1 DEF Attempts, Ahead
  <1>4. ~Free(t, PinPaces) => Harmless(Head(q)) /\ MayTry(k)
    <2> SUFFICES ASSUME ~Free(t, PinPaces) PROVE Harmless(Head(q)) /\ MayTry(k)
      OBVIOUS
    <2>1. PICK j \in 1..Len(t) : t[j] \in PinPaces
      BY DEF Free, Elements
    <2>2. 1 \in 1..Len(q) /\ j + 1 \in 1..Len(q) /\ 1 < j + 1 /\ q[j + 1] \in PinPaces
      BY <1>1, <2>1
    <2>3. Harmless(q[1])
      BY <2>2 DEF Attempts, Ahead
    <2>4. MayTry(k)
      BY <1>2 DEF Attempts
    <2> QED BY <1>1, <2>3, <2>4
  <1> QED BY <1>1, <1>2, <1>3, <1>4 DEF Attempts, t

LEMMA OInvNow ==
    ASSUME Attempts(m'.cmds, card', spent'),
           ctx'.status = "ok" /\ m'.cur # "stopped" =>
               InStep(m', card') /\ Knows(m', ctx', conn', card', spent')
    PROVE  OInv'
  <1>1. Attempts(m.cmds, card, spent)'
    BY DEF Attempts, Ahead, Free, Elements, MayTry, Harmless
  <1>2. InStep(m', card') => InStep(m, card)'
    BY DEF InStep, Only, Free, Elements, Busy, OwnEvent, OwnCmd, Linking, Passing, RunComes
  <1>3. Knows(m', ctx', conn', card', spent') => Knows(m, ctx, conn, card, spent)'
    BY DEF Knows, Says, PaceTold, At, Ready, Current, CanKept, Asked, Wasted, Lower, Fine, Elements, Free
  <1> QED BY <1>1, <1>2, <1>3 DEF OInv

-----------------------------------------------------------------------------
(* The operators of the state machine.                                     *)

LEMMA MachineParts ==
    ASSUME NEW mm \in Machines
    PROVE  /\ mm.events \in Seq(Events) /\ mm.cmds \in Seq(Commands)
           /\ mm.cur \in States \cup {"none", "stopped"} /\ mm.approved \in BOOLEAN
           /\ mm.listening \in SUBSET {"SelectReader", "ConnectCard"}
  BY DEF Machines

LEMMA ExitParts ==
    ASSUME NEW mm \in Machines
    PROVE  /\ Exit(mm) \in Machines /\ Exit(mm).cur = mm.cur /\ ~Exit(mm).approved
           /\ Exit(mm).events = mm.events /\ Exit(mm).cmds = Disconnected(mm.cmds, mm.cur)
           /\ Exit(mm).listening = mm.listening \ {mm.cur}
  <1>1. /\ Exit(mm) \in Machines /\ Exit(mm).cur = mm.cur /\ ~Exit(mm).approved
        /\ Exit(mm).events = mm.events
    BY ExitFacts
  <1> DEFINE q == Disconnected(mm.cmds, mm.cur)
  <1>2. Exit(mm) = [mm EXCEPT !.approved = FALSE, !.stray = @ \ {mm.cur},
                              !.listening = @ \ {mm.cur}, !.cmds = q]
    BY DEF Exit
  <1> HIDE DEF q
  <1>3. Exit(mm).cmds = q /\ Exit(mm).listening = mm.listening \ {mm.cur}
    BY <1>2 DEF Machines
  <1> QED BY <1>1, <1>3 DEF q

LEMMA EnterParts ==
    ASSUME NEW mm \in Machines, NEW c \in Contexts, NEW st \in States
    PROVE  LET runs == st \notin Waiting \/ c.killed
               q    == IF ~mm.approved /\ runs THEN Append(mm.events, Run(st)) ELSE mm.events
           IN  /\ Enter(mm, c, st) \in Machines
               /\ Enter(mm, c, st).cur = st /\ Enter(mm, c, st).cmds = mm.cmds
               /\ Enter(mm, c, st).listening = mm.listening
               /\ Enter(mm, c, st).approved <=> mm.approved \/ runs
               /\ q \in Seq(Events)
               /\ Enter(mm, c, st).events \in {q, Append(q, Cancel(st))}
  <1> DEFINE runs == st \notin Waiting \/ c.killed
             q == IF ~mm.approved /\ runs THEN Append(mm.events, Run(st)) ELSE mm.events
             approved == mm.approved \/ st \notin Waiting \/ c.killed
  <1>1. /\ Enter(mm, c, st) \in Machines
        /\ Enter(mm, c, st).cur = st /\ Enter(mm, c, st).cmds = mm.cmds
        /\ q \in Seq(Events)
        /\ Enter(mm, c, st).events \in {q, Append(q, Cancel(st))}
    BY EnterFacts
  <1>2. \E es : Enter(mm, c, st) = [mm EXCEPT !.cur = st, !.approved = approved, !.events = es]
    BY DEF Enter
  <1> HIDE DEF approved, q
  <1>3. Enter(mm, c, st).listening = mm.listening /\ Enter(mm, c, st).approved = approved
    BY <1>2 DEF Machines
  <1> QED BY <1>1, <1>3 DEF approved, q

LEMMA ReleaseParts ==
    ASSUME NEW mm \in Machines
    PROVE  /\ Release(mm) \in Machines /\ Release(mm).cur = mm.cur
           /\ Release(mm).events = mm.events /\ Release(mm).listening = mm.listening
           /\ Release(mm).approved = mm.approved
           /\ \/ Release(mm).cmds = mm.cmds
              \/ \E x \in Commands : x.op = "release" /\ Release(mm).cmds = Append(mm.cmds, x)
  <1> DEFINE x == [Command("release", "Maintain", Nothing, Nothing) EXCEPT !.wired = FALSE]
  <1>1. x \in Commands /\ x.op = "release"
    <2>1. "Maintain" \in States
      BY MaintainState
    <2> QED BY <2>1 DEF Command, Commands
  <1> HIDE DEF x
  <1>2. CASE conn = NoConn
    BY <1>2 DEF Release
  <1>3. CASE conn # NoConn
    <2>1. Release(mm) = [mm EXCEPT !.cmds = Append(@, x)]
      BY <1>3 DEF Release, x
    <2>2. Append(mm.cmds, x) \in Seq(Commands)
      BY <1>1, MachineParts, AppendFacts
    <2>3. /\ Release(mm) \in Machines /\ Release(mm).cur = mm.cur
          /\ Release(mm).events = mm.events /\ Release(mm).listening = mm.listening
          /\ Release(mm).approved = mm.approved /\ Release(mm).cmds = Append(mm.cmds, x)
      BY <2>1, <2>2 DEF Machines
    <2> QED BY <1>1, <2>3
  <1> QED BY <1>2, <1>3

LEMMA SendParts ==
    ASSUME NEW mm \in Machines, NEW x \in Commands, NEW st \in States
    PROVE  /\ Send(mm, st, x) \in Machines /\ Send(mm, st, x).cur = mm.cur
           /\ Send(mm, st, x).events = mm.events /\ Send(mm, st, x).listening = mm.listening
           /\ Send(mm, st, x).approved = mm.approved /\ Send(mm, st, x).cmds = Append(mm.cmds, x)
  <1>1. /\ Send(mm, st, x) \in Machines /\ Send(mm, st, x).cur = mm.cur
        /\ Send(mm, st, x).events = mm.events /\ Send(mm, st, x).cmds = Append(mm.cmds, x)
    BY SendFacts
  <1>2. Send(mm, st, x).listening = mm.listening /\ Send(mm, st, x).approved = mm.approved
    BY DEF Send, Machines
  <1> QED BY <1>1, <1>2

LEMMA PostParts ==
    ASSUME NEW mm \in Machines, NEW e \in Events
    PROVE  /\ Post(mm, e) \in Machines /\ Post(mm, e).cur = mm.cur
           /\ Post(mm, e).events = Append(mm.events, e) /\ Post(mm, e).listening = mm.listening
           /\ Post(mm, e).approved = mm.approved /\ Post(mm, e).cmds = mm.cmds
  <1>1. /\ Post(mm, e) \in Machines /\ Post(mm, e).cur = mm.cur
        /\ Post(mm, e).events = Append(mm.events, e) /\ Post(mm, e).cmds = mm.cmds
        /\ Post(mm, e).approved = mm.approved
    BY PostFacts
  <1>2. Post(mm, e).listening = mm.listening
    BY DEF Post, Machines
  <1> QED BY <1>1, <1>2

LEMMA ListenParts ==
    ASSUME NEW mm \in Machines, NEW st \in {"SelectReader", "ConnectCard"}
    PROVE  /\ Listen(mm, st) \in Machines /\ Listen(mm, st).cur = mm.cur
           /\ Listen(mm, st).events = mm.events /\ Listen(mm, st).approved = mm.approved
           /\ Listen(mm, st).cmds = mm.cmds /\ Listen(mm, st).listening = mm.listening \cup {st}
  <1>1. st \in States
    BY MaintainState
  <1> QED BY <1>1 DEF Listen, Machines

LEMMA RestParts ==
    ASSUME m \in Machines, m.events # <<>>
    PROVE  /\ Rest \in Machines /\ Rest.cur = m.cur /\ Rest.cmds = m.cmds
           /\ Rest.listening = m.listening /\ Rest.approved = m.approved
           /\ Rest.events = Tail(m.events) /\ Event \in Events
  <1>1. Tail(m.events) \in Seq(Events) /\ Event \in Events
    BY MachineParts, TailFacts DEF Event
  <1> QED BY <1>1 DEF Rest, Machines

LEMMA CreateParts ==
    ASSUME NEW mm \in Machines
    PROVE  /\ CreateConnection(mm) \in Machines /\ CreateConnection(mm).cur = mm.cur
           /\ CreateConnection(mm).events = mm.events /\ CreateConnection(mm).approved = mm.approved
           /\ CreateConnection(mm).listening = mm.listening
           /\ \/ CreateConnection(mm).cmds = mm.cmds
              \/ \E x \in Commands : /\ x.op = "create" /\ x.owner = "ConnectCard"
                                     /\ CreateConnection(mm).cmds = Append(mm.cmds, x)
  <1> DEFINE x == Command("create", "ConnectCard", Nothing, Nothing)
  <1>1. x \in Commands /\ x.op = "create" /\ x.owner = "ConnectCard" /\ "ConnectCard" \in States
    <2>1. "ConnectCard" \in States
      BY MaintainState
    <2> QED BY <2>1 DEF Command, Commands
  <1>2. CreateConnection(mm) \in {mm, Send(mm, "ConnectCard", x)}
    BY DEF CreateConnection
  <1> HIDE DEF x
  <1> QED BY <1>1, <1>2, SendParts

(* None of them sends a PIN. *)
LEMMA FireAttempts ==
    ASSUME NEW mm \in Machines, NEW c \in Contexts, NEW st \in States, NEW sig, NEW k, NEW n,
           Attempts(mm.cmds, k, n)
    PROVE  Attempts(Fire(mm, c, st, sig).cmds, k, n)
  <1> DEFINE to == Target(mm.cur, st, sig)
             e  == Exit(mm)
  <1>1. CASE to = "ignored"
    BY <1>1 DEF Fire
  <1>2. e \in Machines /\ e.cmds = Disconnected(mm.cmds, mm.cur)
    BY ExitParts
  <1>3. Attempts(e.cmds, k, n)
    BY <1>2, MachineParts, AttemptsCut
  <1>4. to # "ignored" => to \in States \cup {"stopped"}
    BY TargetFacts
  <1> HIDE DEF to, e
  <1>5. CASE to = "stopped"
    <2>1. Fire(mm, c, st, sig) = [e EXCEPT !.cur = "stopped"]
      BY <1>5 DEF Fire, to, e
    <2>2. Fire(mm, c, st, sig).cmds = e.cmds
      BY <2>1, <1>2 DEF Machines
    <2> QED BY <2>2, <1>3
  <1>6. CASE to \notin {"ignored", "stopped"}
    <2>1. Fire(mm, c, st, sig) = Enter(e, c, to) /\ to \in States
      BY <1>4, <1>6 DEF Fire, to, e
    <2>2. Enter(e, c, to).cmds = e.cmds
      BY <2>1, <1>2, EnterParts
    <2> QED BY <2>1, <2>2, <1>3
  <1> QED BY <1>1, <1>5, <1>6

LEMMA OtherAttempts ==
    ASSUME NEW mm \in Machines, NEW k, NEW n, Attempts(mm.cmds, k, n)
    PROVE  /\ Attempts(Release(mm).cmds, k, n)
           /\ Attempts(CreateConnection(mm).cmds, k, n)
           /\ \A x \in Commands, st \in States : x.op # "pace" => Attempts(Send(mm, st, x).cmds, k, n)
  <1>1. \A x \in Commands : x.op # "pace" => Attempts(Append(mm.cmds, x), k, n)
    BY MachineParts, AttemptsAppend, PinPaceFacts
  <1>2. Attempts(Release(mm).cmds, k, n)
    BY <1>1, ReleaseParts
  <1>3. Attempts(CreateConnection(mm).cmds, k, n)
    BY <1>1, CreateParts
  <1>4. \A x \in Commands, st \in States : x.op # "pace" => Attempts(Send(mm, st, x).cmds, k, n)
    BY <1>1, SendParts
  <1> QED BY <1>2, <1>3, <1>4

-----------------------------------------------------------------------------
(* One thing at a time through the operators.                              *)

(* What the current state was busy with is done; and it has left.          *)
Calm(mm, k) == InStep(mm, k) /\ ~Busy(mm)
Still(mm) ==
    /\ mm \in Machines /\ ~Busy(mm) /\ mm.listening = {}
    /\ \A e \in Elements(mm.events) : e.type = "done" => e.st \in Owners[e.op]
    /\ \A x \in Elements(mm.cmds) :
           /\ x.op # "release" => x.owner \in Owners[x.op]
           /\ x.op = "create" => ~x.wired
Passed(mm, k) == Free(mm.events, Created) /\ (k.linked => Free(mm.events, Moves))

LEMMA TokenKinds ==
    /\ \A s \in States : /\ Run(s) \in Tokens /\ Run(s).type = "run" /\ Run(s).st = s
                         /\ Run(s) \notin Created \cup Moves \cup Paced
                         /\ Cancel(s).type = "cancel"
                         /\ Cancel(s) \notin Tokens \cup Created \cup Moves \cup Paced
    /\ Removed.type = "removed" /\ Removed \notin Tokens \cup Created \cup Paced
    /\ \A n \in 0..3 : /\ Inserted(n).type = "inserted" /\ Inserted(n).counter = n
                       /\ Inserted(n) \notin Tokens \cup Created \cup Paced
    /\ \A e \in Events : /\ e \in Paced => e \in Tokens
                         /\ e.type = "run" => e \in Tokens
                         /\ e \in Tokens => e \notin Created \cup Moves
                         /\ e \in Created => e \notin Moves
                         /\ e.type \in {"removed", "inserted"} <=> e \in Moves
                         /\ e.type = "done" => e \in Tokens \cup Created
                         /\ e.type = "done" /\ e.op = "create" <=> e \in Created
                         /\ e.type = "done" /\ e.op = "pace" <=> e \in Paced
                         /\ e \in Tokens => e.type \in {"run", "done"}
  <1>1. ASSUME NEW s \in States
        PROVE  /\ Run(s) \in Tokens /\ Run(s).type = "run" /\ Run(s).st = s
               /\ Run(s) \notin Created \cup Moves \cup Paced
               /\ Cancel(s).type = "cancel"
               /\ Cancel(s) \notin Tokens \cup Created \cup Moves \cup Paced
    <2>1. Run(s) \in Events /\ Cancel(s) \in Events
      BY EventKinds
    <2>2. Run(s).type = "run" /\ Run(s).st = s /\ Cancel(s).type = "cancel"
      BY DEF Run, Cancel
    <2> QED BY <2>1, <2>2 DEF Tokens, Created, Moves, Paced, Kinds
  <1>2. Removed.type = "removed" /\ Removed \notin Tokens \cup Created \cup Paced
    <2>1. Removed.type = "removed"
      BY DEF Removed
    <2> QED BY <2>1 DEF Tokens, Created, Paced
  <1>3. ASSUME NEW n \in 0..3
        PROVE  /\ Inserted(n).type = "inserted" /\ Inserted(n).counter = n
               /\ Inserted(n) \notin Tokens \cup Created \cup Paced
    <2>1. Inserted(n).type = "inserted" /\ Inserted(n).counter = n
      BY DEF Inserted
    <2> QED BY <2>1 DEF Tokens, Created, Paced
  <1>4. \A e \in Events : /\ e \in Paced => e \in Tokens
                          /\ e.type = "run" => e \in Tokens
                          /\ e \in Tokens => e \notin Created \cup Moves
                          /\ e \in Created => e \notin Moves
                          /\ e.type \in {"removed", "inserted"} <=> e \in Moves
                          /\ e.type = "done" => e \in Tokens \cup Created
                          /\ e.type = "done" /\ e.op = "create" <=> e \in Created
                          /\ e.type = "done" /\ e.op = "pace" <=> e \in Paced
                          /\ e \in Tokens => e.type \in {"run", "done"}
    BY DEF Paced, Tokens, Created, Moves, Kinds
  <1> QED BY <1>1, <1>2, <1>3, <1>4

LEMMA ElementTypes ==
    ASSUME NEW mm \in Machines
    PROVE  /\ \A e \in Elements(mm.events) : e \in Events
           /\ \A x \in Elements(mm.cmds) : x \in Commands
  BY MachineParts DEF Elements

LEMMA OwnersFacts ==
    /\ Owners["create"] = {"ConnectCard"} /\ Owners["update"] = {"UpdateRetry", "UpdateFinal"}
    /\ Owners["pace"] = {"Establish"} /\ Owners["reset"] = {"ResetRetry"}
    /\ Owners["set"] = {"ChangePin"} /\ Owners["destroy"] = {"PaceDestroy", "Destroy"}
  BY DEF Owners

LEMMA ExitStill ==
    ASSUME NEW mm, NEW k, Calm(mm, k)
    PROVE  Still(Exit(mm)) /\ (Passed(mm, k) => Passed(Exit(mm), k)) /\ ~Exit(mm).approved
  <1> DEFINE e == Exit(mm)
  <1>1. mm \in Machines /\ mm.cmds \in Seq(Commands)
    BY MachineParts DEF Calm, InStep
  <1>2. /\ e \in Machines /\ e.cur = mm.cur /\ ~e.approved
        /\ e.events = mm.events /\ e.cmds = Disconnected(mm.cmds, mm.cur)
        /\ e.listening = mm.listening \ {mm.cur}
    BY <1>1, ExitParts
  <1>3. \A y \in Elements(e.cmds) : \E x \in Elements(mm.cmds) :
            /\ y \in Commands /\ x \in Commands
            /\ y.op = x.op /\ y.arg = x.arg /\ y.owner = x.owner
            /\ y.wired <=> x.wired /\ x.owner # mm.cur
    BY <1>1, <1>2, ElementsCut
  <1> HIDE DEF e
  <1>4. e.listening = {}
    BY <1>2 DEF Calm, InStep
  <1>5. Free(mm.events, Tokens) /\ Free(mm.cmds, Work)
    BY DEF Calm, Busy
  <1>6. Free(e.cmds, Work)
    <2> SUFFICES ASSUME NEW y \in Elements(e.cmds) PROVE y \notin Work
      BY DEF Free
    <2>1. PICK x \in Elements(mm.cmds) : y \in Commands /\ x \in Commands /\ y.op = x.op
      BY <1>3
    <2>2. x \notin Work
      BY <1>5 DEF Free
    <2> QED BY <2>1, <2>2, PinPaceFacts
  <1>7. ASSUME NEW y \in Elements(e.cmds)
        PROVE  /\ y.op # "release" => y.owner \in Owners[y.op]
               /\ y.op = "create" => ~y.wired
    <2>1. PICK x \in Elements(mm.cmds) :
              /\ y \in Commands /\ x \in Commands
              /\ y.op = x.op /\ y.arg = x.arg /\ y.owner = x.owner
              /\ y.wired <=> x.wired /\ x.owner # mm.cur
      BY <1>3
    <2>2. /\ x.op # "release" => x.owner \in Owners[x.op]
          /\ x.op = "create" /\ x.wired => Linking(mm)
      BY DEF Calm, InStep, OwnCmd
    <2>3. Linking(mm) => mm.cur = "ConnectCard"
      BY DEF Linking, Calm, InStep
    <2> QED BY <2>1, <2>2, <2>3, OwnersFacts
  <1>8. \A y \in Elements(e.events) : y.type = "done" => y.st \in Owners[y.op]
    BY <1>2 DEF Calm, InStep, OwnEvent
  <1> QED BY <1>2, <1>4, <1>5, <1>6, <1>7, <1>8 DEF Still, Busy, Passed, e

LEMMA EnterInStep ==
    ASSUME NEW mm, Still(mm), NEW k, NEW c \in Contexts, NEW st \in States,
           \/ Passed(mm, k)
           \/ st \in {"SelectReader", "UpdateRetry"} /\ ~mm.approved
    PROVE  /\ InStep(Enter(mm, c, st), k)
           /\ Enter(mm, c, st).cur = st /\ Free(Enter(mm, c, st).cmds, Work)
           /\ \A e \in Elements(Enter(mm, c, st).events) :
                  e \in Elements(mm.events) \/ e = Run(st) \/ e = Cancel(st)
  <1> DEFINE runs == st \notin Waiting \/ c.killed
             q    == IF ~mm.approved /\ runs THEN Append(mm.events, Run(st)) ELSE mm.events
             new  == Enter(mm, c, st)
  <1>1. mm \in Machines /\ mm.events \in Seq(Events) /\ Free(mm.events, Tokens) /\ Free(mm.cmds, Work)
    BY MachineParts DEF Still, Busy
  <1>2. /\ new \in Machines /\ new.cur = st /\ new.cmds = mm.cmds /\ new.listening = mm.listening
        /\ new.approved <=> mm.approved \/ runs
        /\ q \in Seq(Events) /\ new.events \in {q, Append(q, Cancel(st))}
    BY <1>1, EnterParts
  <1>3. /\ Run(st) \in Events /\ Cancel(st) \in Events /\ Run(st) \in Tokens /\ Run(st).type = "run"
        /\ Run(st).st = st /\ Run(st) \notin Created \cup Moves
        /\ Cancel(st).type = "cancel" /\ Cancel(st) \notin Tokens \cup Created \cup Moves
    BY EventKinds, TokenKinds
  <1>4. /\ Elements(q) \subseteq Elements(mm.events) \cup {Run(st)}
        /\ Only(q, Tokens) /\ Only(mm.events, Tokens)
        /\ \A S : Free(mm.events, S) /\ Run(st) \notin S => Free(q, S)
        /\ ~mm.approved /\ runs => \A S : Run(st) \notin S => RunComes(q, S)
    <2>0. Only(mm.events, Tokens)
      BY <1>1 DEF Free, Only, Elements
    <2>1. CASE ~mm.approved /\ runs
      <3>1. q = Append(mm.events, Run(st))
        BY <2>1
      <3> HIDE DEF q
      <3> QED BY <1>1, <1>3, <2>0, <3>1, ElementsAppend
    <2>2. CASE ~(~mm.approved /\ runs)
      <3>1. q = mm.events
        BY <2>2
      <3> HIDE DEF q
      <3> QED BY <1>1, <2>0, <2>2, <3>1
    <2> QED BY <2>1, <2>2
  <1>5. ~(~mm.approved /\ runs) => q = mm.events
    OBVIOUS
  <1> HIDE DEF q, new
  <1>6. /\ Elements(new.events) \subseteq Elements(mm.events) \cup {Run(st), Cancel(st)}
        /\ Only(new.events, Tokens)
        /\ \A S : Free(q, S) /\ Cancel(st) \notin S => Free(new.events, S)
        /\ \A S : RunComes(q, S) /\ Cancel(st) \notin S => RunComes(new.events, S)
    <2>1. CASE new.events = q
      BY <1>4, <2>1
    <2>2. CASE new.events = Append(q, Cancel(st))
      <3>1. /\ Elements(new.events) = Elements(q) \cup {Cancel(st)}
            /\ \A S : Free(new.events, S) <=> Free(q, S) /\ Cancel(st) \notin S
            /\ \A S : Only(q, S) /\ (Cancel(st) \in S => Free(q, S)) => Only(new.events, S)
            /\ \A S : RunComes(q, S) /\ Cancel(st) \notin S => RunComes(new.events, S)
        BY <1>2, <1>3, <2>2, ElementsAppend
      <3> QED BY <1>3, <1>4, <3>1
    <2> QED BY <1>2, <2>1, <2>2
  <1>7. mm.listening = {} /\ ~Linking(new)
    BY <1>2 DEF Still, Linking
  <1>8. \A e \in Elements(new.events) : OwnEvent(e, new)
    <2> SUFFICES ASSUME NEW e \in Elements(new.events) PROVE OwnEvent(e, new)
      OBVIOUS
    <2>1. CASE e \in Elements(mm.events)
      <3>1. e \notin Tokens
        BY <1>1, <2>1 DEF Free
      <3> QED BY <2>1, <3>1 DEF Still, OwnEvent
    <2>2. CASE e = Run(st) \/ e = Cancel(st)
      BY <1>2, <1>3, <2>2 DEF OwnEvent
    <2> QED BY <1>6, <2>1, <2>2
  <1>9. \A x \in Elements(new.cmds) : OwnCmd(x, new)
    BY <1>1, <1>2 DEF Still, OwnCmd, Free
  <1>10. new.listening # {} \/ ~new.approved => ~Busy(new)
    <2> SUFFICES ASSUME ~new.approved PROVE ~Busy(new)
      BY <1>2, <1>7
    <2>1. q = mm.events
      BY <1>2, <1>5
    <2> QED BY <1>1, <1>2, <1>3, <1>6, <2>1 DEF Busy
  <1>11. Passing(new, Created) /\ (k.linked => Passing(new, Moves))
    <2>1. CASE Passed(mm, k)
      BY <1>3, <1>4, <1>6, <2>1 DEF Passing, Passed
    <2>2. CASE st \in {"SelectReader", "UpdateRetry"} /\ ~mm.approved
      <3>1. runs
        BY <2>2 DEF Waiting
      <3> QED BY <1>2, <1>3, <1>4, <1>6, <2>2, <3>1 DEF Passing
    <2> QED BY <2>1, <2>2
  <1>12. Free(new.cmds, Work) /\ Only(new.cmds, Work)
    BY <1>1, <1>2 DEF Free, Only, Elements
  <1> QED BY <1>2, <1>6, <1>7, <1>8, <1>9, <1>10, <1>11, <1>12 DEF InStep, new

LEMMA FireInStep ==
    ASSUME NEW mm, NEW k, Calm(mm, k), NEW c \in Contexts, NEW st \in States, NEW sig,
           NEW to \in States, to = Target(mm.cur, st, sig),
           Passed(mm, k) \/ to \in {"SelectReader", "UpdateRetry"}
    PROVE  LET new == Fire(mm, c, st, sig)
           IN  /\ InStep(new, k) /\ new.cur = to /\ Free(new.cmds, Work)
               /\ \A e \in Elements(new.events) :
                      e \in Elements(mm.events) \/ e = Run(to) \/ e = Cancel(to)
  <1>1. to \notin {"ignored", "stopped"}
    BY PaceStates, ChangeStates DEF States
  <1>2. Fire(mm, c, st, sig) = Enter(Exit(mm), c, to)
    BY <1>1 DEF Fire
  <1>3. mm \in Machines
    BY DEF Calm, InStep
  <1>4. Still(Exit(mm)) /\ (Passed(mm, k) => Passed(Exit(mm), k)) /\ ~Exit(mm).approved
    BY ExitStill
  <1>5. Exit(mm).events = mm.events
    BY <1>3, ExitParts
  <1> DEFINE e == Exit(mm)
  <1>6. Still(e) /\ e.events = mm.events /\ (Passed(e, k) \/ (to \in {"SelectReader", "UpdateRetry"} /\ ~e.approved))
    BY <1>4, <1>5
  <1> HIDE DEF e
  <1>7. /\ InStep(Enter(e, c, to), k)
        /\ Enter(e, c, to).cur = to /\ Free(Enter(e, c, to).cmds, Work)
        /\ \A f \in Elements(Enter(e, c, to).events) :
               f \in Elements(e.events) \/ f = Run(to) \/ f = Cancel(to)
    <2>1. CASE Passed(e, k)
      BY ONLY <1>6, <2>1, EnterInStep, c \in Contexts, to \in States
    <2>2. CASE to \in {"SelectReader", "UpdateRetry"} /\ ~e.approved
      BY ONLY <1>6, <2>2, EnterInStep, c \in Contexts, to \in States
    <2> QED BY <1>6, <2>1, <2>2
  <1>8. Fire(mm, c, st, sig) = Enter(e, c, to)
    BY <1>2 DEF e
  <1> QED BY <1>6, <1>7, <1>8

(* A command that is not the work of a state.                              *)
LEMMA AppendInStep ==
    ASSUME NEW mm, NEW k, InStep(mm, k), NEW x \in Commands,
           x.op = "release" \/ (x.op = "create" /\ x.owner = "ConnectCard" /\ Linking(mm)),
           NEW nn \in Machines, nn.cur = mm.cur, nn.events = mm.events, nn.approved = mm.approved,
           nn.listening = mm.listening, nn.cmds = Append(mm.cmds, x)
    PROVE  InStep(nn, k) /\ (Busy(nn) <=> Busy(mm)) /\ (Passed(mm, k) => Passed(nn, k))
  <1>1. mm \in Machines /\ mm.cmds \in Seq(Commands)
    BY MachineParts DEF InStep
  <1>2. x \notin Work
    BY PinPaceFacts
  <1>3. /\ Elements(nn.cmds) = Elements(mm.cmds) \cup {x}
        /\ \A S : Free(nn.cmds, S) <=> Free(mm.cmds, S) /\ x \notin S
        /\ \A S : Only(mm.cmds, S) /\ (x \in S => Free(mm.cmds, S)) => Only(nn.cmds, S)
    BY <1>1, ElementsAppend
  <1>4. Busy(nn) <=> Busy(mm)
    BY <1>2, <1>3 DEF Busy
  <1>5. \A e \in Elements(nn.events) : OwnEvent(e, nn)
    BY DEF InStep, OwnEvent
  <1>6. \A y \in Elements(nn.cmds) : OwnCmd(y, nn)
    <2>1. OwnCmd(x, nn)
      BY <1>2, OwnersFacts DEF OwnCmd, Linking
    <2>2. \A y \in Elements(mm.cmds) : OwnCmd(y, nn)
      BY DEF InStep, OwnCmd, Linking
    <2> QED BY <1>3, <2>1, <2>2
  <1>7. Only(nn.cmds, Work) /\ (Free(nn.cmds, Work) <=> Free(mm.cmds, Work))
    BY <1>2, <1>3 DEF InStep
  <1>8. \A S : Passing(mm, S) => Passing(nn, S)
    BY DEF Passing, Linking
  <1> QED BY <1>4, <1>5, <1>6, <1>7, <1>8 DEF InStep, Passed

LEMMA ReleaseInStep ==
    ASSUME NEW mm, NEW k, InStep(mm, k)
    PROVE  InStep(Release(mm), k) /\ (Busy(Release(mm)) <=> Busy(mm)) /\ (Passed(mm, k) => Passed(Release(mm), k))
  <1> DEFINE nn == Release(mm)
  <1>1. mm \in Machines
    BY DEF InStep
  <1>2. /\ nn \in Machines /\ nn.cur = mm.cur /\ nn.events = mm.events
        /\ nn.listening = mm.listening /\ nn.approved = mm.approved
        /\ nn.cmds = mm.cmds \/ \E x \in Commands : x.op = "release" /\ nn.cmds = Append(mm.cmds, x)
    BY <1>1, ReleaseParts
  <1> HIDE DEF nn
  <1>3. CASE \E x \in Commands : x.op = "release" /\ nn.cmds = Append(mm.cmds, x)
    BY <1>2, <1>3, AppendInStep DEF nn
  <1>4. CASE nn.cmds = mm.cmds
    <2>1. InStep(nn, k)
      BY <1>2, <1>4 DEF InStep, OwnEvent, OwnCmd, Linking, Busy, Passing
    <2>2. (Busy(nn) <=> Busy(mm)) /\ (Passed(mm, k) => Passed(nn, k))
      BY <1>2, <1>4 DEF Busy, Passed
    <2> QED BY <2>1, <2>2 DEF nn
  <1> QED BY <1>2, <1>3, <1>4

LEMMA CreateInStep ==
    ASSUME NEW mm, NEW k, InStep(mm, k), Linking(mm)
    PROVE  InStep(CreateConnection(mm), k) /\ (Busy(CreateConnection(mm)) <=> Busy(mm))
  <1> DEFINE nn == CreateConnection(mm)
  <1>1. mm \in Machines
    BY DEF InStep
  <1>2. /\ nn \in Machines /\ nn.cur = mm.cur /\ nn.events = mm.events
        /\ nn.listening = mm.listening /\ nn.approved = mm.approved
        /\ \/ nn.cmds = mm.cmds
           \/ \E x \in Commands : /\ x.op = "create" /\ x.owner = "ConnectCard"
                                  /\ nn.cmds = Append(mm.cmds, x)
    BY <1>1, CreateParts
  <1> HIDE DEF nn
  <1>3. CASE \E x \in Commands : x.op = "create" /\ x.owner = "ConnectCard" /\ nn.cmds = Append(mm.cmds, x)
    BY <1>2, <1>3, AppendInStep DEF nn
  <1>4. CASE nn.cmds = mm.cmds
    <2>1. InStep(nn, k)
      BY <1>2, <1>4 DEF InStep, OwnEvent, OwnCmd, Linking, Busy, Passing
    <2>2. Busy(nn) <=> Busy(mm)
      BY <1>2, <1>4 DEF Busy
    <2> QED BY <2>1, <2>2 DEF nn
  <1> QED BY <1>2, <1>3, <1>4

LEMMA ListenCalm ==
    ASSUME NEW mm, NEW k, Calm(mm, k), NEW st \in {"SelectReader", "ConnectCard"}, mm.cur = st
    PROVE  /\ Calm(Listen(mm, st), k) /\ (Passed(mm, k) => Passed(Listen(mm, st), k))
           /\ (st = "ConnectCard" => Linking(Listen(mm, st)))
  <1> DEFINE nn == Listen(mm, st)
  <1>1. mm \in Machines
    BY DEF Calm, InStep
  <1>2. /\ nn \in Machines /\ nn.cur = mm.cur /\ nn.events = mm.events /\ nn.cmds = mm.cmds
        /\ nn.approved = mm.approved /\ nn.listening = mm.listening \cup {st}
    BY <1>1, ListenParts
  <1> HIDE DEF nn
  <1>3. ~Busy(nn) /\ (Passed(mm, k) => Passed(nn, k)) /\ (Linking(mm) => Linking(nn))
    BY <1>2 DEF Calm, Busy, Passed, Linking
  <1>4. nn.listening \subseteq {nn.cur}
    BY <1>2 DEF Calm, InStep
  <1>5. \A e \in Elements(nn.events) : OwnEvent(e, nn)
    BY <1>2 DEF Calm, InStep, OwnEvent
  <1>6. \A x \in Elements(nn.cmds) : OwnCmd(x, nn)
    BY <1>2, <1>3 DEF Calm, InStep, OwnCmd
  <1>7. \A S : Passing(mm, S) => Passing(nn, S)
    BY <1>2, <1>3 DEF Passing
  <1>8. InStep(nn, k)
    BY <1>2, <1>3, <1>4, <1>5, <1>6, <1>7 DEF Calm, InStep
  <1> QED BY <1>2, <1>3, <1>8 DEF Calm, Linking, nn

(* The command of the current state.                                       *)
LEMMA SendInStep ==
    ASSUME NEW mm, NEW k, Calm(mm, k), mm.listening = {}, mm.approved,
           NEW x \in Work, x.owner = mm.cur, x.wired, x.owner \in Owners[x.op], mm.cur \in States
    PROVE  /\ InStep(Send(mm, mm.cur, x), k) /\ Send(mm, mm.cur, x).cur = mm.cur
           /\ Elements(Send(mm, mm.cur, x).cmds) = Elements(mm.cmds) \cup {x}
           /\ Send(mm, mm.cur, x).events = mm.events
           /\ Send(mm, mm.cur, x).cmds = Append(mm.cmds, x)
  <1> DEFINE nn == Send(mm, mm.cur, x)
  <1>1. mm \in Machines /\ mm.cmds \in Seq(Commands) /\ x \in Commands /\ x.op \notin {"create", "release"}
    BY MachineParts DEF Calm, InStep, Work
  <1>2. /\ nn \in Machines /\ nn.cur = mm.cur /\ nn.events = mm.events
        /\ nn.listening = mm.listening /\ nn.approved = mm.approved /\ nn.cmds = Append(mm.cmds, x)
    BY <1>1, SendParts
  <1> HIDE DEF nn
  <1>3. /\ Elements(nn.cmds) = Elements(mm.cmds) \cup {x}
        /\ \A S : Only(mm.cmds, S) /\ (x \in S => Free(mm.cmds, S)) => Only(nn.cmds, S)
    BY <1>1, <1>2, ElementsAppend
  <1>4. Free(mm.events, Tokens) /\ Free(mm.cmds, Work)
    BY DEF Calm, Busy
  <1>5. \A e \in Elements(nn.events) : OwnEvent(e, nn)
    BY <1>2 DEF Calm, InStep, OwnEvent
  <1>6. \A y \in Elements(nn.cmds) : OwnCmd(y, nn)
    <2>1. OwnCmd(x, nn)
      BY <1>1, <1>2 DEF OwnCmd
    <2>2. \A y \in Elements(mm.cmds) : OwnCmd(y, nn)
      BY <1>2 DEF Calm, InStep, OwnCmd, Linking
    <2> QED BY <1>3, <2>1, <2>2
  <1>7. Only(nn.cmds, Work) /\ Only(nn.events, Tokens)
    BY <1>2, <1>3, <1>4 DEF Calm, InStep
  <1>8. \A S : Passing(mm, S) => Passing(nn, S)
    BY <1>2 DEF Passing, Linking
  <1>9. InStep(nn, k)
    BY <1>2, <1>4, <1>5, <1>6, <1>7, <1>8 DEF Calm, InStep
  <1> QED BY <1>2, <1>3, <1>9 DEF nn

(* An event is posted: what the reader reports, or what the current state  *)
(* waited for.                                                             *)
LEMMA PostInStep ==
    ASSUME NEW mm, NEW k, NEW l, InStep(mm, k), NEW e \in Events, OwnEvent(e, mm),
           e \in Tokens => ~Busy(mm) /\ mm.approved /\ mm.listening = {},
           e \in Created => Linking(mm),
           l.linked => (k.linked \/ Linking(mm)) /\ (e \in Moves => Linking(mm)),
           NEW nn \in Machines, nn.cur = mm.cur, nn.events = Append(mm.events, e), nn.cmds = mm.cmds,
           nn.listening = mm.listening, nn.approved = mm.approved
    PROVE  InStep(nn, l)
  <1>1. mm \in Machines /\ mm.events \in Seq(Events)
    BY MachineParts DEF InStep
  <1>2. /\ Elements(nn.events) = Elements(mm.events) \cup {e}
        /\ \A S : Free(nn.events, S) <=> Free(mm.events, S) /\ e \notin S
        /\ \A S : Only(mm.events, S) /\ (e \in S => Free(mm.events, S)) => Only(nn.events, S)
        /\ \A S : RunComes(mm.events, S) /\ e \notin S => RunComes(nn.events, S)
    BY <1>1, ElementsAppend
  <1>3. Only(nn.events, Tokens) /\ (Free(nn.events, Tokens) \/ Free(nn.cmds, Work))
    BY <1>2 DEF InStep, Busy
  <1>4. \A f \in Elements(nn.events) : OwnEvent(f, nn)
    BY <1>2 DEF InStep, OwnEvent
  <1>5. \A x \in Elements(nn.cmds) : OwnCmd(x, nn)
    BY DEF InStep, OwnCmd, Linking
  <1>6. nn.listening # {} \/ ~nn.approved => ~Busy(nn)
    BY <1>2 DEF InStep, Busy
  <1>7. \A S : Passing(mm, S) /\ e \notin S => Passing(nn, S)
    BY <1>2 DEF Passing, Linking
  <1>8. Linking(mm) => \A S : Passing(nn, S)
    BY DEF Passing, Linking
  <1>9. Passing(nn, Created) /\ (l.linked => Passing(nn, Moves))
    BY <1>7, <1>8 DEF InStep
  <1> QED BY <1>3, <1>4, <1>5, <1>6, <1>9 DEF InStep

(* An event is taken.                                                      *)
LEMMA RestInStep ==
    ASSUME IInv, m.events # <<>>, NEW k, InStep(m, k)
    PROVE  /\ InStep(Rest, k) /\ (~Busy(m) => ~Busy(Rest))
           /\ Elements(m.events) = Elements(Rest.events) \cup {Event}
           /\ OwnEvent(Event, m) /\ Event \in Events
           /\ Event \in Tokens => Free(Rest.events, Tokens)
           /\ \A S : Free(m.events, S) <=> Free(Rest.events, S) /\ Event \notin S
           /\ \A S : RunComes(m.events, S) => RunComes(Rest.events, S)
  <1>1. m \in Machines /\ m.events \in Seq(Events)
    BY StateFacts, MachineParts
  <1>2. /\ Rest \in Machines /\ Rest.cur = m.cur /\ Rest.cmds = m.cmds
        /\ Rest.listening = m.listening /\ Rest.approved = m.approved
        /\ Rest.events = Tail(m.events) /\ Event \in Events
    BY <1>1, RestParts
  <1>3. /\ Elements(m.events) = Elements(Rest.events) \cup {Event}
        /\ \A S : Free(m.events, S) <=> Free(Rest.events, S) /\ Event \notin S
        /\ \A S : Only(m.events, S) => Only(Rest.events, S) /\ (Event \in S => Free(Rest.events, S))
        /\ \A S : RunComes(m.events, S) => RunComes(Rest.events, S)
    BY <1>1, <1>2, ElementsTail DEF Event
  <1>4. Busy(Rest) => Busy(m)
    BY <1>2, <1>3 DEF Busy
  <1>5. \A e \in Elements(m.events) : OwnEvent(e, m)
    BY DEF InStep
  <1>6. \A e \in Elements(Rest.events) : OwnEvent(e, Rest)
    BY <1>2, <1>3, <1>5 DEF OwnEvent
  <1>7. \A x \in Elements(Rest.cmds) : OwnCmd(x, Rest)
    BY <1>2 DEF InStep, OwnCmd, Linking
  <1>8. \A S : Passing(m, S) => Passing(Rest, S)
    BY <1>2, <1>3 DEF Passing, Linking
  <1>9. Only(m.events, Tokens)
    BY DEF InStep
  <1>10. InStep(Rest, k)
    BY <1>2, <1>3, <1>4, <1>6, <1>7, <1>8 DEF InStep
  <1> QED BY <1>2, <1>3, <1>4, <1>5, <1>9, <1>10

(* The current state runs, or what it waited for is answered.              *)
LEMMA HeardFacts ==
    ASSUME IInv, m.events # <<>>, InStep(m, card), Event \in Tokens
    PROVE  /\ Event.st = m.cur /\ m.cur \in States /\ (Event.type = "done" => m.cur \in Owners[Event.op])
           /\ Calm(Rest, card) /\ Passed(Rest, card)
           /\ Rest.cur = m.cur /\ Rest.listening = {} /\ Rest.approved /\ m.listening = {}
           /\ Elements(m.events) = Elements(Rest.events) \cup {Event}
           /\ Rest.cmds = m.cmds /\ Free(m.cmds, Work)
  <1>1. m \in Machines /\ m.events \in Seq(Events)
    BY StateFacts, MachineParts
  <1>2. /\ Rest \in Machines /\ Rest.cur = m.cur /\ Rest.cmds = m.cmds
        /\ Rest.listening = m.listening /\ Rest.approved = m.approved
    BY <1>1, RestParts
  <1>3. /\ InStep(Rest, card) /\ Elements(m.events) = Elements(Rest.events) \cup {Event}
        /\ OwnEvent(Event, m) /\ Event \in Events /\ Free(Rest.events, Tokens)
        /\ \A S : Free(m.events, S) <=> Free(Rest.events, S) /\ Event \notin S
    BY RestInStep
  <1>4. ~Free(m.events, Tokens) /\ Free(m.cmds, Work)
    BY <1>3 DEF InStep
  <1>5. m.listening = {} /\ m.approved
    BY <1>4 DEF InStep, Busy
  <1>6. Event.st = m.cur /\ Event.st \in States
    <2>1. Event.st = m.cur
      BY <1>3 DEF OwnEvent
    <2>2. Event.type \in {"run", "done"}
      BY <1>3, TokenKinds
    <2> QED BY <1>3, <2>1, <2>2, EventFields
  <1>7. Event.type = "done" => m.cur \in Owners[Event.op]
    BY <1>3, <1>6 DEF OwnEvent
  <1>8. ~Busy(Rest)
    BY <1>2, <1>3, <1>4 DEF Busy
  <1>9. \A S : Passing(Rest, S) => Free(Rest.events, S)
    <2>1. ~Linking(Rest) /\ Rest.events \in Seq(Events)
      BY <1>2, <1>5, MachineParts DEF Linking
    <2> QED BY <1>3, <2>1, RunMissing DEF Passing
  <1>10. Passed(Rest, card)
    BY <1>3, <1>9 DEF InStep, Passed
  <1> QED BY <1>2, <1>3, <1>4, <1>5, <1>6, <1>7, <1>8, <1>10 DEF Calm

(* The command of the current state is answered.                           *)
LEMMA AnswerInStep ==
    ASSUME IInv, InStep(m, card), m.cmds # <<>>, Cmd \in Work, Cmd.op # "release",
           NEW code \in Codes, NEW n \in -2..3, Answer(code, n),
           NEW l, l.linked => card.linked
    PROVE  /\ InStep(m', l) /\ m'.cur = m.cur /\ m.cur \in Owners[Cmd.op]
           /\ Elements(m'.events) = Elements(m.events) \cup {Done(Cmd, code, n)}
           /\ Free(m.events, Tokens) /\ Free(m'.cmds, Work)
           /\ card.linked => Free(m.events, Moves)
           /\ Done(Cmd, code, n) \in Events
  <1> DEFINE e  == Done(Cmd, code, n)
             mm == [m EXCEPT !.cmds = Tail(@)]
  <1>1. m \in Machines /\ m.cmds \in Seq(Commands) /\ m.events \in Seq(Events)
    BY StateFacts, MachineParts
  <1>2. /\ Tail(m.cmds) \in Seq(Commands) /\ Cmd \in Commands
        /\ Elements(m.cmds) = Elements(Tail(m.cmds)) \cup {Cmd}
        /\ \A S : Free(m.cmds, S) <=> Free(Tail(m.cmds), S) /\ Cmd \notin S
        /\ \A S : Only(m.cmds, S) => Only(Tail(m.cmds), S) /\ (Cmd \in S => Free(Tail(m.cmds), S))
    <2>1. Tail(m.cmds) \in Seq(Commands) /\ Cmd \in Commands
      BY <1>1, TailFacts DEF Cmd
    <2> QED BY <1>1, <2>1, ElementsTail DEF Cmd
  <1>3. Cmd.owner \in Owners[Cmd.op] /\ Cmd.owner = m.cur /\ Cmd.wired /\ Cmd.op # "create"
    BY <1>2, PinPaceFacts DEF InStep, OwnCmd
  <1>4. ~Free(m.cmds, Work) /\ Free(m.events, Tokens)
    BY <1>2 DEF InStep
  <1>5. m.listening = {} /\ m.approved
    BY <1>4 DEF InStep, Busy
  <1>6. Free(Tail(m.cmds), Work) /\ Only(Tail(m.cmds), Work)
    BY <1>2 DEF InStep
  <1>7. /\ Cmd.op \in {"create", "update", "pace", "reset", "set", "destroy"}
        /\ Cmd.owner \in States /\ Cmd.arg \in PaceTypes \cup {Nothing}
    BY <1>2, <1>3 DEF Commands
  <1>8. e \in Events /\ e.type = "done" /\ e.op = Cmd.op /\ e.st = m.cur
    BY <1>3, <1>7 DEF Done, Events
  <1>9. e \in Tokens /\ e \notin Created \cup Moves
    BY <1>3, <1>8, TokenKinds DEF Tokens
  <1> HIDE DEF e
  <1>10. /\ mm \in Machines /\ mm.cur = m.cur /\ mm.events = m.events /\ mm.cmds = Tail(m.cmds)
         /\ mm.listening = m.listening /\ mm.approved = m.approved
    BY <1>1, <1>2 DEF Machines
  <1>11. /\ m' \in Machines /\ m'.cur = m.cur /\ m'.events = Append(m.events, e)
         /\ m'.cmds = Tail(m.cmds) /\ m'.listening = m.listening /\ m'.approved = m.approved
    <2>1. m' = [m EXCEPT !.cmds = Tail(m.cmds), !.events = Append(m.events, e)]
      BY <1>3 DEF Answer, e
    <2>2. Append(m.events, e) \in Seq(Events)
      BY <1>1, <1>8, AppendFacts
    <2> QED BY <1>1, <1>2, <2>1, <2>2 DEF Machines
  <1> HIDE DEF mm
  <1>12. InStep(mm, card) /\ ~Busy(mm)
    <2>1. \A y \in Elements(mm.events) : OwnEvent(y, mm)
      BY <1>10 DEF InStep, OwnEvent
    <2>2. \A x \in Elements(mm.cmds) : OwnCmd(x, mm)
      BY <1>2, <1>10 DEF InStep, OwnCmd, Linking
    <2>3. \A S : Passing(m, S) => Passing(mm, S)
      BY <1>10 DEF Passing, Linking
    <2>4. ~Busy(mm)
      BY <1>4, <1>6, <1>10 DEF Busy
    <2> QED BY <1>4, <1>6, <1>10, <2>1, <2>2, <2>3, <2>4 DEF InStep
  <1>13. OwnEvent(e, mm)
    BY <1>3, <1>8, <1>10 DEF OwnEvent
  <1>14. InStep(m', l)
    BY <1>5, <1>8, <1>9, <1>10, <1>11, <1>12, <1>13, PostInStep
  <1>15. Elements(m'.events) = Elements(m.events) \cup {e}
    BY <1>1, <1>8, <1>11, ElementsAppend
  <1>16. card.linked => Free(m.events, Moves)
    <2>1. ~Linking(m)
      BY <1>5 DEF Linking
    <2> QED BY <1>1, <1>4, <2>1, RunMissing DEF InStep, Passing
  <1> QED BY <1>3, <1>4, <1>6, <1>8, <1>11, <1>14, <1>15, <1>16 DEF e

-----------------------------------------------------------------------------
(* What the main thread knows, after a step.                               *)

(* Where the signals of the states lead that do not end in an error.       *)
LEMMA PaceTargets ==
    /\ Target("Maintain", "Maintain", "continue") = "Verify"
    /\ Target("Maintain", "Maintain", "noCard") = "SelectReader"
    /\ Target("Maintain", "Maintain", "forceUpdate") = "UpdateRetry"
    /\ Target("SelectReader", "SelectReader", "continue") = "ConnectCard"
    /\ Target("ConnectCard", "ConnectCard", "continue") = "UpdateRetry"
    /\ Target("ConnectCard", "ConnectCard", "retry") = "SelectReader"
    /\ Target("UpdateRetry", "UpdateRetry", "continue") = "Verify"
    /\ Target("UpdateRetry", "UpdateRetry", "noCard") = "Maintain"
    /\ Target("Verify", "Verify", "continue") = "PreparePace"
    /\ Target("Verify", "Verify", "noCard") = "Maintain"
    /\ Target("Verify", "Verify", "changed") = "PaceClear"
  BY PaceStates DEF Target, Edges, States, PaceEdges

LEMMA PasswordTargets ==
    /\ Target("PreparePace", "PreparePace", "continue") = "Establish"
    /\ Target("PreparePace", "PreparePace", "noCard") = "Maintain"
    /\ Target("PreparePace", "PreparePace", "enter") = "EnterPassword"
    /\ Target("EnterPassword", "EnterPassword", "continue") = "Establish"
    /\ Target("Unfortunate", "Unfortunate", "continue") = "Maintain"
    /\ Target("ResetRetry", "ResetRetry", "continue") = "PaceDestroy"
    /\ Target("ResetRetry", "ResetRetry", "noCard") = "Maintain"
    /\ Target("PaceDestroy", "PaceDestroy", "continue") = "PaceClear"
    /\ Target("PaceClear", "PaceClear", "continue") = "CheckError"
    /\ Target("CheckError", "CheckError", "continue") = "Maintain"
  BY PaceStates DEF Target, Edges, States, PaceEdges

LEMMA EstablishTargets ==
    /\ Target("Establish", "Establish", "continue") = "PrepareChange"
    /\ Target("Establish", "Establish", "can") = "Maintain"
    /\ Target("Establish", "Establish", "puk") = "ResetRetry"
    /\ Target("Establish", "Establish", "noCard") = "Maintain"
    /\ Target("Establish", "Establish", "failed") = "Maintain"
    /\ Target("Establish", "Establish", "wrong") = "PaceClear"
    /\ Target("Establish", "Establish", "third") = "PaceDestroy"
    /\ Target("Establish", "Establish", "unfortunate") = "Unfortunate"
  BY PaceStates DEF Target, Edges, States, PaceEdges

LEMMA ChangeTargets ==
    /\ Target("PrepareChange", "PrepareChange", "continue") = "ChangePin"
    /\ Target("PrepareChange", "PrepareChange", "enter") = "EnterNewPin"
    /\ Target("PrepareChange", "PrepareChange", "skip") = "Destroy"
    /\ Target("EnterNewPin", "EnterNewPin", "continue") = "ChangePin"
    /\ Target("ChangePin", "ChangePin", "continue") = "Destroy"
    /\ Target("ChangePin", "ChangePin", "noCard") = "Maintain"
    /\ Target("Destroy", "Destroy", "continue") = "Clear"
    /\ Target("Clear", "Clear", "continue") = "UpdateFinal"
    /\ Target("UpdateFinal", "UpdateFinal", "continue") = "CleanUp"
    /\ Target("UpdateFinal", "UpdateFinal", "noCard") = "CleanUp"
    /\ Target("CleanUp", "CleanUp", "continue") = "Final"
    /\ Target("Final", "Final", "continue") = "stopped"
  BY PaceStates, ChangeStates DEF Target, Edges, States, ChangeEdges

LEMMA StateNames ==
    States = {"Maintain", "SelectReader", "ConnectCard", "UpdateRetry", "Verify", "PreparePace",
              "EnterPassword", "Establish", "Unfortunate", "ResetRetry", "PaceDestroy",
              "PaceClear", "CheckError", "PrepareChange", "EnterNewPin", "ChangePin", "Destroy",
              "Clear", "UpdateFinal", "CleanUp", "Final"}
  BY PaceStates, ChangeStates DEF States

(* What is known in the state that is entered.                             *)
Settled(to, c, n, k, s) ==
    At(to, c, n, k, s) /\ (to = "Establish" => Ready(to, c, n, k, s))

LEMMA SaysFacts ==
    ASSUME NEW e \in Events, NEW c, NEW n, NEW k, NEW s, e \in Tokens => e.type = "run",
           e.type = "inserted" => e.counter = k.tries
    PROVE  Says(e, c, n, k, s)
  BY TokenKinds DEF Says

LEMMA KnowsMoved ==
    ASSUME NEW mm \in Machines, NEW c, NEW n, NEW k, NEW s,
           \A e \in Elements(mm.events) : /\ e \in Tokens => e.type = "run"
                                          /\ e.type = "inserted" => e.counter = k.tries,
           Free(mm.cmds, Work), Settled(mm.cur, c, n, k, s)
    PROVE  Knows(mm, c, n, k, s)
  <1>1. \A e \in Elements(mm.events) : e \in Events
    BY ElementTypes
  <1>2. \A e \in Elements(mm.events) : Says(e, c, n, k, s)
    BY <1>1, SaysFacts
  <1>3. \A x \in Elements(mm.cmds) : x.op # "pace"
    <2> SUFFICES ASSUME NEW x \in Elements(mm.cmds), x.op = "pace" PROVE FALSE
      OBVIOUS
    <2>1. x \in Commands
      BY ElementTypes
    <2>2. x \in Work
      BY <2>1, PinPaceFacts
    <2> QED BY <2>2 DEF Free
  <1> QED BY <1>2, <1>3 DEF Knows, Settled

LEMMA KnownNow ==
    ASSUME OInv, ctx.status = "ok", m.cur # "stopped"
    PROVE  InStep(m, card) /\ Knows(m, ctx, conn, card, spent)
  BY DEF OInv

(* The current state runs, or is answered, and nothing went wrong so far.  *)
LEMMA TokenFacts ==
    ASSUME IInv, OInv, ctx.status = "ok", m.cur # "stopped", m.events # <<>>, Event \in Tokens
    PROVE  /\ Event.st = m.cur /\ m.cur \in States /\ (Event.type = "done" => m.cur \in Owners[Event.op])
           /\ Calm(Rest, card) /\ Passed(Rest, card)
           /\ Rest.cur = m.cur /\ Rest.listening = {} /\ Rest.approved
           /\ Rest.cmds = m.cmds /\ Free(m.cmds, Work)
           /\ \A e \in Elements(Rest.events) : /\ e \in Events /\ e \notin Tokens
                                               /\ e.type = "inserted" => e.counter = card.tries
           /\ At(m.cur, ctx, conn, card, spent) /\ Says(Event, ctx, conn, card, spent)
           /\ m.cur = "Establish" /\ Event.type = "run" => Ready(m.cur, ctx, conn, card, spent)
  <1>1. InStep(m, card) /\ Knows(m, ctx, conn, card, spent)
    BY KnownNow
  <1>2. /\ Event.st = m.cur /\ m.cur \in States /\ (Event.type = "done" => m.cur \in Owners[Event.op])
        /\ Calm(Rest, card) /\ Passed(Rest, card)
        /\ Rest.cur = m.cur /\ Rest.listening = {} /\ Rest.approved
        /\ Elements(m.events) = Elements(Rest.events) \cup {Event}
        /\ Rest.cmds = m.cmds /\ Free(m.cmds, Work)
    BY <1>1, HeardFacts
  <1>3. \A e \in Elements(Rest.events) : e \in Events /\ e \notin Tokens
    <2>1. Rest \in Machines /\ Free(Rest.events, Tokens)
      BY <1>2 DEF Calm, InStep, Busy
    <2> QED BY <2>1, ElementTypes DEF Free
  <1>4. \A e \in Elements(m.events) : Says(e, ctx, conn, card, spent)
    BY <1>1 DEF Knows
  <1>5. \A e \in Elements(Rest.events) : e.type = "inserted" => e.counter = card.tries
    BY <1>2, <1>4 DEF Says
  <1>6. Event.type = "run" => Free(m.events, Paced)
    <2>1. Event \in Events
      BY DEF Tokens
    <2>2. Event.type = "run" => Event \notin Paced
      BY DEF Paced
    <2>3. \A e \in Elements(Rest.events) : e \notin Paced
      BY <1>3, TokenKinds
    <2> QED BY <1>2, <2>2, <2>3 DEF Free
  <1> QED BY <1>1, <1>2, <1>3, <1>4, <1>5, <1>6 DEF Knows

LEMMA MoveStep ==
    ASSUME IInv, IInv', OInv, m.events # <<>>, m.cur # "stopped", card' = card, spent' = spent,
           NEW st \in States, NEW sig, NEW to,
           m' = Fire(Rest, ctx', st, sig) \/ m' = Fire(Release(Rest), ctx', st, sig),
           ctx'.status = "ok" =>
               /\ ctx.status = "ok" /\ Event \in Tokens /\ st = m.cur
               /\ to = Target(st, st, sig) /\ to \in States \cup {"stopped"}
               /\ to # "stopped" => Settled(to, ctx', conn', card, spent)
    PROVE  OInv'
  <1>1. m \in Machines /\ Rest \in Machines /\ Rest.cmds = m.cmds /\ Release(Rest) \in Machines
    BY StateFacts, RestParts, ReleaseParts
  <1>2. m' \in Machines /\ ctx' \in Contexts
    BY NextTypes
  <1>3. Attempts(m'.cmds, card', spent')
    <2>1. Attempts(Rest.cmds, card, spent)
      BY <1>1 DEF OInv
    <2>2. Attempts(Release(Rest).cmds, card, spent)
      BY <1>1, <2>1, OtherAttempts
    <2> QED BY <1>1, <1>2, <2>1, <2>2, FireAttempts
  <1>4. ASSUME ctx'.status = "ok", m'.cur # "stopped"
        PROVE  InStep(m', card) /\ Knows(m', ctx', conn', card, spent)
    <2>1. /\ ctx.status = "ok" /\ Event \in Tokens /\ st = m.cur
          /\ to = Target(st, st, sig) /\ to \in States \cup {"stopped"}
          /\ to # "stopped" => Settled(to, ctx', conn', card, spent)
      BY <1>4
    <2>2. /\ Calm(Rest, card) /\ Passed(Rest, card) /\ Rest.cur = m.cur
          /\ \A e \in Elements(Rest.events) : /\ e \in Events /\ e \notin Tokens
                                              /\ e.type = "inserted" => e.counter = card.tries
      BY <2>1, TokenFacts
    <2>3. /\ Calm(Release(Rest), card) /\ Passed(Release(Rest), card)
          /\ Release(Rest).cur = m.cur /\ Release(Rest).events = Rest.events
      BY <1>1, <2>2, ReleaseInStep, ReleaseParts DEF Calm
    <2>4. PICK mm \in Machines : /\ m' = Fire(mm, ctx', st, sig) /\ mm.cur = m.cur /\ mm.events = Rest.events
                                 /\ Calm(mm, card) /\ Passed(mm, card)
      BY <1>1, <2>2, <2>3
    <2>5. to # "stopped"
      <3> SUFFICES ASSUME to = "stopped" PROVE FALSE
        OBVIOUS
      <3>1. m' = [Exit(mm) EXCEPT !.cur = "stopped"]
        BY <2>1, <2>4 DEF Fire
      <3>2. m'.cur = "stopped"
        BY <3>1, ExitParts DEF Machines
      <3> QED BY <3>2, <1>4
    <2>6. /\ InStep(m', card) /\ m'.cur = to /\ Free(m'.cmds, Work)
          /\ \A e \in Elements(m'.events) : e \in Elements(mm.events) \/ e = Run(to) \/ e = Cancel(to)
      <3>1. to \in States /\ to = Target(mm.cur, st, sig)
        BY <2>1, <2>4, <2>5
      <3> QED BY <1>2, <2>4, <3>1, FireInStep
    <2>7. \A e \in Elements(m'.events) : /\ e \in Tokens => e.type = "run"
                                         /\ e.type = "inserted" => e.counter = card.tries
      <3>1. to \in States
        BY <2>1, <2>5
      <3>2. Run(to).type = "run" /\ Cancel(to).type = "cancel" /\ Cancel(to) \notin Tokens
        BY <3>1, TokenKinds
      <3> QED BY <2>2, <2>4, <2>6, <3>2
    <2> QED BY <1>2, <2>1, <2>5, <2>6, <2>7, KnowsMoved
  <1> QED BY <1>3, <1>4, OInvNow

LEMMA AtFacts ==
    ASSUME NEW c, NEW n, NEW k, NEW s
    PROVE  /\ \A to \in {"Maintain", "Unfortunate"} : At(to, c, n, k, s) <=>
                  /\ Fine(c) => Current(n, k)
                  /\ CanKept(n, k) /\ (Wasted(c, s) => Lower(c, k))
           /\ \A to \in {"SelectReader", "ConnectCard"} : At(to, c, n, k, s) <=>
                  ~n.can /\ (Wasted(c, s) => Lower(c, k))
           /\ At("UpdateRetry", c, n, k, s) <=> CanKept(n, k) /\ (Wasted(c, s) => Lower(c, k))
           /\ At("Verify", c, n, k, s) <=>
                  Current(n, k) /\ CanKept(n, k) /\ (Wasted(c, s) => Lower(c, k))
           /\ \A to \in {"PreparePace", "EnterPassword"} :
                  At(to, c, n, k, s) <=> Ready(to, c, n, k, s)
           /\ At("Establish", c, n, k, s)
           /\ At("PaceClear", c, n, k, s) <=> (Fine(c) => Current(n, k)) /\ CanKept(n, k)
           /\ At("CheckError", c, n, k, s) <=>
                  (Fine(c) => Current(n, k)) /\ CanKept(n, k) /\ ~Wasted(c, s)
           /\ At("ResetRetry", c, n, k, s) <=>
                  ~Wasted(c, s) /\ c.lastPace \notin {"OK", "OK_CAN"} /\ (k.linked => ~n.can)
           /\ At("PaceDestroy", c, n, k, s) <=>
                  c.lastPace \notin {"OK", "OK_CAN"} /\ (k.linked => ~n.can)
           /\ \A to \in {"PrepareChange", "EnterNewPin", "ChangePin"} :
                  At(to, c, n, k, s) <=> ~Wasted(c, s)
           /\ \A to \in {"Destroy", "Clear", "UpdateFinal", "CleanUp", "Final"} : At(to, c, n, k, s)
  BY DEF At, Before

LEMMA NoConnFacts ==
    /\ NoConn.can = FALSE /\ NoConn.counter = -2
    /\ \A k : Current(NoConn, k) /\ CanKept(NoConn, k)
  <1>1. NoConn.can = FALSE /\ NoConn.counter = -2
    BY DEF NoConn
  <1> QED BY <1>1 DEF Current, CanKept

LEMMA AbortFacts ==
    ASSUME NEW c \in Contexts, NEW st
    PROVE  /\ OnAbort(UpdateStatus(c, "error")).status # "ok"
           /\ OnUserCancelled(c, st).status # "ok"
  BY FailedFacts DEF Failed

LEMMA RunKnown ==
    ASSUME IInv, OInv, NEW st, Runs(st)
    PROVE  /\ m.events # <<>> /\ m.cur # "stopped" /\ st \in States
           /\ Event \in Tokens /\ Event.type = "run" /\ Event.st = st
           /\ ctx.status = "ok" => /\ st = m.cur /\ At(st, ctx, conn, card, spent)
                                   /\ st = "Establish" => Ready(st, ctx, conn, card, spent)
           /\ ctx \in Contexts /\ conn \in Connections /\ card \in Cards
  <1>1. /\ m.events # <<>> /\ m.cur # "stopped" /\ Event \in Events /\ st \in States
        /\ Event.type = "run" /\ Event.st = st
    BY RunFacts DEF Runs, Handles
  <1>2. Event \in Tokens
    BY <1>1, TokenKinds
  <1> QED BY <1>1, <1>2, TokenFacts, StateFacts

LEMMA DoneKnown ==
    ASSUME IInv, OInv, NEW op, Completes(op), op # "create"
    PROVE  /\ m.events # <<>> /\ m.cur # "stopped" /\ Event.st \in States
           /\ Event \in Tokens /\ Event.type = "done" /\ Event.op = op
           /\ ctx.status = "ok" => /\ Event.st = m.cur /\ m.cur \in Owners[op]
                                   /\ At(m.cur, ctx, conn, card, spent)
                                   /\ Says(Event, ctx, conn, card, spent)
           /\ ctx \in Contexts /\ conn \in Connections /\ card \in Cards
  <1>1. /\ m.events # <<>> /\ m.cur # "stopped" /\ Event \in Events /\ Event.st \in States
        /\ Event.type = "done" /\ Event.op = op
    BY DoneFacts DEF Completes, Handles
  <1>2. Event \in Tokens
    BY <1>1, TokenKinds
  <1> QED BY <1>1, <1>2, TokenFacts, StateFacts

LEMMA RunMaintainOnce ==
    ASSUME IInv, IInv', OInv, RunMaintain PROVE OInv'
  <1>1. /\ Runs("Maintain") /\ card' = card /\ spent' = spent
        /\ m.events # <<>> /\ m.cur # "stopped" /\ "Maintain" \in States
        /\ Event \in Tokens /\ ctx \in Contexts /\ conn \in Connections
        /\ ctx.status = "ok" => "Maintain" = m.cur /\ At("Maintain", ctx, conn, card, spent)
    <2>1. Runs("Maintain") /\ card' = card /\ spent' = spent
      BY DEF RunMaintain, Environment
    <2> QED BY <2>1, RunKnown
  <1>2. CASE ctx.lastPace \in FatalCodes /\ ctx' = OnAbort(UpdateStatus(ctx, "error")) /\ Emit("Maintain", "abort")
    <2>1. ctx'.status # "ok" /\ m' = Fire(Rest, ctx', "Maintain", "abort")
      BY <1>1, <1>2, AbortFacts DEF Emit
    <2> QED BY <1>1, <2>1, MoveStep
  <1>3. CASE conn' = conn /\ ctx' = ctx /\ Emit("Maintain", IF conn # NoConn THEN "forceUpdate" ELSE "noCard")
    <2> DEFINE to == IF conn # NoConn THEN "UpdateRetry" ELSE "SelectReader"
               sig == IF conn # NoConn THEN "forceUpdate" ELSE "noCard"
    <2>1. m' = Fire(Rest, ctx', "Maintain", sig) /\ to = Target("Maintain", "Maintain", sig) /\ to \in States
      BY <1>3, PaceTargets, StateNames DEF Emit
    <2>2. ctx'.status = "ok" => Settled(to, ctx', conn', card, spent)
      BY <1>1, <1>3, AtFacts, NoConnFacts DEF Settled
    <2> HIDE DEF to, sig
    <2> QED BY <1>1, <1>3, <2>1, <2>2, MoveStep
  <1>4. CASE ctx' = [ctx EXCEPT !.lastPace = "OK"] /\ conn' = NoConn /\ m' = Fire(Release(Rest), ctx', "Maintain", "noCard")
    <2>1. "SelectReader" = Target("Maintain", "Maintain", "noCard") /\ "SelectReader" \in States
      BY PaceTargets, StateNames
    <2>2. ctx'.status = ctx.status /\ ctx'.pin = ctx.pin /\ ctx'.expected = ctx.expected
      BY <1>1, <1>4 DEF Contexts
    <2>3. ctx'.status = "ok" => Settled("SelectReader", ctx', conn', card, spent)
      <3> SUFFICES ASSUME ctx'.status = "ok" PROVE Settled("SelectReader", ctx', conn', card, spent)
        OBVIOUS
      <3>1. Wasted(ctx, spent) => Lower(ctx, card)
        BY <1>1, <2>2, AtFacts
      <3>2. Wasted(ctx', spent) => Lower(ctx', card)
        BY <3>1, <2>2 DEF Wasted, Lower
      <3>3. ~conn'.can
        BY <1>4, NoConnFacts
      <3>4. At("SelectReader", ctx', conn', card, spent)
        BY <3>2, <3>3, AtFacts
      <3> QED BY <3>4 DEF Settled
    <2> QED BY <1>1, <1>4, <2>1, <2>2, <2>3, MoveStep
  <1>5. CASE /\ ctx.lastPace \in {"OK", "OK_CAN", "OK_PUK"} /\ ctx' = ctx /\ conn' = conn
             /\ Emit("Maintain", IF conn = NoConn THEN "noCard"
                                 ELSE IF ctx.lastPace = "OK_PUK" THEN "forceUpdate" ELSE "continue")
    <2> DEFINE to == IF conn = NoConn THEN "SelectReader"
                     ELSE IF ctx.lastPace = "OK_PUK" THEN "UpdateRetry" ELSE "Verify"
               sig == IF conn = NoConn THEN "noCard"
                      ELSE IF ctx.lastPace = "OK_PUK" THEN "forceUpdate" ELSE "continue"
    <2>1. m' = Fire(Rest, ctx', "Maintain", sig) /\ to = Target("Maintain", "Maintain", sig) /\ to \in States
      BY <1>5, PaceTargets, StateNames DEF Emit
    <2>2. ctx'.status = "ok" => Settled(to, ctx', conn', card, spent)
      BY <1>1, <1>5, AtFacts, NoConnFacts DEF Settled, Fine
    <2> HIDE DEF to, sig
    <2> QED BY <1>1, <1>5, <2>1, <2>2, MoveStep
  <1> QED BY <1>2, <1>3, <1>4, <1>5 DEF RunMaintain, ResetConnection

(* A command that the current state sends.                                 *)
LEMMA SendStep ==
    ASSUME IInv, IInv', OInv, NEW st, Runs(st), ctx' = ctx, conn' = conn, card' = card, spent' = spent,
           NEW x \in Commands, x.op \in {"update", "reset", "set", "destroy"}, x.owner = st,
           st \in Owners[x.op], x.wired, m' = Send(Rest, st, x)
    PROVE  OInv'
  <1>1. /\ m.events # <<>> /\ m.cur # "stopped" /\ Event \in Tokens /\ st \in States
        /\ ctx.status = "ok" => st = m.cur /\ At(st, ctx, conn, card, spent)
    BY RunKnown
  <1>2. m \in Machines /\ Rest \in Machines /\ Rest.cmds = m.cmds
    BY <1>1, StateFacts, RestParts
  <1>3. Attempts(m'.cmds, card', spent')
    <2>1. Attempts(Rest.cmds, card, spent)
      BY <1>2 DEF OInv
    <2> QED BY <1>1, <1>2, <2>1, OtherAttempts
  <1>4. ASSUME ctx.status = "ok"
        PROVE  InStep(m', card) /\ Knows(m', ctx, conn, card, spent)
    <2>1. /\ Calm(Rest, card) /\ Rest.cur = m.cur /\ Rest.listening = {} /\ Rest.approved
          /\ Rest.cmds = m.cmds /\ Free(m.cmds, Work) /\ st = m.cur /\ m.cur \in States
          /\ \A e \in Elements(Rest.events) : /\ e \in Events /\ e \notin Tokens
                                              /\ e.type = "inserted" => e.counter = card.tries
      BY <1>1, <1>4, TokenFacts
    <2>2. x \in Work
      BY PinPaceFacts
    <2>3. /\ InStep(m', card) /\ m'.cur = m.cur /\ m'.events = Rest.events
          /\ Elements(m'.cmds) = Elements(m.cmds) \cup {x}
      BY <2>1, <2>2, SendInStep
    <2>4. \A e \in Elements(m'.events) : Says(e, ctx, conn, card, spent)
      BY <2>1, <2>3, SaysFacts
    <2>5. \A y \in Elements(m'.cmds) : y.op # "pace"
      <3>1. \A y \in Elements(m.cmds) : y \in Commands /\ y \notin Work
        BY <1>2, <2>1, ElementTypes DEF Free
      <3> QED BY <2>3, <3>1, PinPaceFacts
    <2>6. m'.cur # "Establish"
      BY <2>1, <2>3, OwnersFacts
    <2> QED BY <1>1, <1>4, <2>1, <2>3, <2>4, <2>5, <2>6 DEF Knows
  <1> QED BY <1>3, <1>4, OInvNow

LEMMA NeedsCardStep ==
    ASSUME IInv, IInv', OInv, NEW st, Runs(st), ctx' = ctx, conn' = conn, card' = card, spent' = spent,
           NEW x \in Commands, x.op \in {"update", "reset", "set", "destroy"}, x.owner = st,
           st \in Owners[x.op], x.wired, m' = NeedsCard(st, x),
           NEW to, to \in States,
           to = Target(st, st, IF st \in {"Destroy", "PaceDestroy"} THEN "continue" ELSE "noCard"),
           ctx.status = "ok" /\ At(st, ctx, conn, card, spent) /\ conn = NoConn =>
               Settled(to, ctx, conn, card, spent)
    PROVE  OInv'
  <1>1. /\ m.events # <<>> /\ m.cur # "stopped" /\ Event \in Tokens /\ st \in States
        /\ ctx.status = "ok" => st = m.cur /\ At(st, ctx, conn, card, spent)
    BY RunKnown
  <1>2. CASE conn = NoConn
    <2> DEFINE sig == IF st \in {"Destroy", "PaceDestroy"} THEN "continue" ELSE "noCard"
    <2>1. m' = Fire(Rest, ctx', st, sig) /\ to = Target(st, st, sig)
      BY <1>2 DEF NeedsCard
    <2> HIDE DEF sig
    <2> QED BY <1>1, <1>2, <2>1, MoveStep
  <1>3. CASE conn # NoConn
    <2>1. m' = Send(Rest, st, x)
      BY <1>3 DEF NeedsCard
    <2> QED BY <2>1, SendStep
  <1> QED BY <1>2, <1>3

LEMMA CardStatesOnce ==
    ASSUME IInv, IInv', OInv, RunUpdateRetry \/ RunResetRetry \/ RunDestroy \/ RunChangePin
    PROVE  OInv'
  <1>0. /\ ctx' = ctx /\ conn' = conn /\ card' = card /\ spent' = spent
        /\ ctx.newPin \in Pins \cup {Nothing}
    BY StateFacts DEF RunUpdateRetry, RunResetRetry, RunDestroy, RunChangePin, Environment, Contexts
  <1>1. ASSUME NEW op \in {"update", "reset", "set", "destroy"}, NEW st \in States,
               NEW pw \in Pins \cup {Nothing}
        PROVE  /\ Command(op, st, Nothing, pw) \in Commands /\ Command(op, st, Nothing, pw).op = op
               /\ Command(op, st, Nothing, pw).owner = st /\ Command(op, st, Nothing, pw).wired
    BY DEF Command, Commands
  <1>2. CASE RunUpdateRetry
    <2>1. PICK st \in {"UpdateRetry", "UpdateFinal"} :
              Runs(st) /\ m' = NeedsCard(st, Command("update", st, Nothing, Nothing))
      BY <1>2 DEF RunUpdateRetry
    <2> DEFINE x  == Command("update", st, Nothing, Nothing)
               to == IF st = "UpdateRetry" THEN "Maintain" ELSE "CleanUp"
    <2>2. x \in Commands /\ x.op = "update" /\ x.owner = st /\ x.wired /\ st \in Owners[x.op]
      BY <1>1, StateNames, OwnersFacts
    <2>3. /\ to \in States /\ st \notin {"Destroy", "PaceDestroy"}
          /\ to = Target(st, st, "noCard")
      BY PaceTargets, ChangeTargets, StateNames
    <2>4. At(st, ctx, conn, card, spent) /\ conn = NoConn => Settled(to, ctx, conn, card, spent)
      BY AtFacts, NoConnFacts DEF Settled
    <2> HIDE DEF x, to
    <2>5. m' = NeedsCard(st, x)
      BY <2>1 DEF x
    <2> QED BY <1>0, <2>1, <2>2, <2>3, <2>4, <2>5, NeedsCardStep
  <1>3. CASE RunResetRetry
    <2> DEFINE x == Command("reset", "ResetRetry", Nothing, Nothing)
    <2>1. Runs("ResetRetry") /\ m' = NeedsCard("ResetRetry", x)
      BY <1>3 DEF RunResetRetry
    <2>2. x \in Commands /\ x.op = "reset" /\ x.owner = "ResetRetry" /\ x.wired /\ "ResetRetry" \in Owners[x.op]
      BY <1>1, StateNames, OwnersFacts
    <2>3. "Maintain" \in States /\ "Maintain" = Target("ResetRetry", "ResetRetry", "noCard")
      BY PasswordTargets, StateNames
    <2>4. At("ResetRetry", ctx, conn, card, spent) /\ conn = NoConn => Settled("Maintain", ctx, conn, card, spent)
      BY AtFacts, NoConnFacts DEF Settled
    <2> HIDE DEF x
    <2> QED BY <1>0, <2>1, <2>2, <2>3, <2>4, NeedsCardStep
  <1>4. CASE RunDestroy
    <2>1. PICK st \in {"PaceDestroy", "Destroy"} :
              Runs(st) /\ m' = NeedsCard(st, Command("destroy", st, Nothing, Nothing))
      BY <1>4 DEF RunDestroy
    <2> DEFINE x  == Command("destroy", st, Nothing, Nothing)
               to == IF st = "PaceDestroy" THEN "PaceClear" ELSE "Clear"
    <2>2. x \in Commands /\ x.op = "destroy" /\ x.owner = st /\ x.wired /\ st \in Owners[x.op]
      BY <1>1, StateNames, OwnersFacts
    <2>3. to \in States /\ to = Target(st, st, "continue")
      BY PasswordTargets, ChangeTargets, StateNames
    <2>4. At(st, ctx, conn, card, spent) /\ conn = NoConn => Settled(to, ctx, conn, card, spent)
      BY AtFacts, NoConnFacts DEF Settled
    <2> HIDE DEF x, to
    <2>5. m' = NeedsCard(st, x)
      BY <2>1 DEF x
    <2> QED BY <1>0, <2>1, <2>2, <2>3, <2>4, <2>5, NeedsCardStep
  <1>5. CASE RunChangePin
    <2> DEFINE x == Command("set", "ChangePin", Nothing, ctx.newPin)
    <2>1. Runs("ChangePin") /\ m' = NeedsCard("ChangePin", x)
      BY <1>5 DEF RunChangePin
    <2>2. x \in Commands /\ x.op = "set" /\ x.owner = "ChangePin" /\ x.wired /\ "ChangePin" \in Owners[x.op]
      BY <1>0, <1>1, StateNames, OwnersFacts
    <2>3. "Maintain" \in States /\ "Maintain" = Target("ChangePin", "ChangePin", "noCard")
      BY ChangeTargets, StateNames
    <2>4. At("ChangePin", ctx, conn, card, spent) /\ conn = NoConn => Settled("Maintain", ctx, conn, card, spent)
      BY AtFacts, NoConnFacts DEF Settled
    <2> HIDE DEF x
    <2> QED BY <1>0, <2>1, <2>2, <2>3, <2>4, NeedsCardStep
  <1> QED BY <1>2, <1>3, <1>4, <1>5

(* A machine that is not busy fires a signal, or stays in its state.       *)
LEMMA FireStep ==
    ASSUME IInv', NEW mm \in Machines, Attempts(mm.cmds, card', spent'),
           NEW st \in States, NEW sig, NEW to, m' = Fire(mm, ctx', st, sig),
           ctx'.status = "ok" =>
               /\ Calm(mm, card') /\ (Passed(mm, card') \/ to \in {"SelectReader", "UpdateRetry"})
               /\ to = Target(mm.cur, st, sig) /\ to \in States /\ Settled(to, ctx', conn', card', spent')
               /\ \A e \in Elements(mm.events) : /\ e \notin Tokens
                                                 /\ e.type = "inserted" => e.counter = card'.tries
    PROVE  OInv'
  <1>1. m' \in Machines /\ ctx' \in Contexts
    BY NextTypes
  <1>2. Attempts(m'.cmds, card', spent')
    BY <1>1, FireAttempts
  <1>3. ASSUME ctx'.status = "ok"
        PROVE  InStep(m', card') /\ Knows(m', ctx', conn', card', spent')
    <2> DEFINE k == card'
    <2>1. /\ Calm(mm, k) /\ (Passed(mm, k) \/ to \in {"SelectReader", "UpdateRetry"})
          /\ to = Target(mm.cur, st, sig) /\ to \in States /\ Settled(to, ctx', conn', k, spent')
          /\ \A e \in Elements(mm.events) : /\ e \notin Tokens
                                            /\ e.type = "inserted" => e.counter = k.tries
      BY <1>3
    <2> HIDE DEF k
    <2>2. /\ InStep(m', k) /\ m'.cur = to /\ Free(m'.cmds, Work)
          /\ \A e \in Elements(m'.events) : e \in Elements(mm.events) \/ e = Run(to) \/ e = Cancel(to)
      <3>1. CASE Passed(mm, k)
        BY <1>1, <2>1, <3>1, FireInStep
      <3>2. CASE to \in {"SelectReader", "UpdateRetry"}
        BY <1>1, <2>1, <3>2, FireInStep
      <3> QED BY <2>1, <3>1, <3>2
    <2>3. \A e \in Elements(m'.events) : /\ e \in Tokens => e.type = "run"
                                         /\ e.type = "inserted" => e.counter = k.tries
      <3>1. Run(to).type = "run" /\ Cancel(to).type = "cancel" /\ Cancel(to) \notin Tokens
        BY <2>1, TokenKinds
      <3> QED BY <2>1, <2>2, <3>1
    <2>4. Knows(m', ctx', conn', k, spent')
      BY <1>1, <2>1, <2>2, <2>3, KnowsMoved
    <2> QED BY <2>2, <2>4 DEF k
  <1> QED BY <1>2, <1>3, OInvNow

LEMMA StayStep ==
    ASSUME m' \in Machines, Attempts(m'.cmds, card', spent'),
           ctx'.status = "ok" /\ m'.cur # "stopped" =>
               /\ Calm(m', card') /\ Settled(m'.cur, ctx', conn', card', spent')
               /\ \A e \in Elements(m'.events) : /\ e \notin Tokens
                                                 /\ e.type = "inserted" => e.counter = card'.tries
    PROVE  OInv'
  <1>1. ASSUME ctx'.status = "ok", m'.cur # "stopped"
        PROVE  InStep(m', card') /\ Knows(m', ctx', conn', card', spent')
    <2> DEFINE k == card'
    <2>1. /\ Calm(m', k) /\ Settled(m'.cur, ctx', conn', k, spent')
          /\ \A e \in Elements(m'.events) : /\ e \notin Tokens
                                            /\ e.type = "inserted" => e.counter = k.tries
      BY <1>1
    <2> HIDE DEF k
    <2>2. InStep(m', k) /\ Free(m'.cmds, Work)
      BY <2>1 DEF Calm, Busy
    <2>3. Knows(m', ctx', conn', k, spent')
      BY <2>1, <2>2, KnowsMoved
    <2> QED BY <2>2, <2>3 DEF k
  <1> QED BY <1>1, OInvNow

(* A state that waits for a card starts to listen.                         *)
LEMMA ListenFacts ==
    ASSUME IInv, OInv, NEW st \in {"SelectReader", "ConnectCard"}, Runs(st)
    PROVE  LET mm == Listen(Rest, st)
           IN  /\ mm \in Machines /\ mm.cmds = m.cmds /\ st \in States
               /\ Attempts(mm.cmds, card, spent)
               /\ ctx.status = "ok" =>
                      /\ Calm(mm, card) /\ Passed(mm, card) /\ mm.cur = st
                      /\ st = "ConnectCard" => Linking(mm)
                      /\ At(st, ctx, conn, card, spent)
                      /\ \A e \in Elements(mm.events) :
                             /\ e \notin Tokens
                             /\ e.type = "inserted" => e.counter = card.tries
  <1> DEFINE mm == Listen(Rest, st)
  <1>1. /\ m.events # <<>> /\ m.cur # "stopped" /\ st \in States /\ Event \in Tokens
        /\ ctx.status = "ok" => st = m.cur /\ At(st, ctx, conn, card, spent)
    BY RunKnown
  <1>2. m \in Machines /\ Rest \in Machines /\ Rest.cmds = m.cmds
    BY <1>1, StateFacts, RestParts
  <1>3. /\ mm \in Machines /\ mm.cur = Rest.cur /\ mm.events = Rest.events /\ mm.cmds = m.cmds
    BY <1>2, ListenParts
  <1>4. Attempts(mm.cmds, card, spent)
    BY <1>3 DEF OInv
  <1>5. ASSUME ctx.status = "ok"
        PROVE  /\ Calm(mm, card) /\ Passed(mm, card) /\ mm.cur = st
               /\ st = "ConnectCard" => Linking(mm)
               /\ \A e \in Elements(mm.events) : /\ e \notin Tokens
                                                 /\ e.type = "inserted" => e.counter = card.tries
    <2>1. /\ Calm(Rest, card) /\ Passed(Rest, card) /\ Rest.cur = m.cur
          /\ \A e \in Elements(Rest.events) : /\ e \in Events /\ e \notin Tokens
                                              /\ e.type = "inserted" => e.counter = card.tries
      BY <1>1, <1>5, TokenFacts
    <2>2. Rest.cur = st
      BY <2>1, <1>1, <1>5
    <2>3. Calm(mm, card) /\ Passed(mm, card) /\ (st = "ConnectCard" => Linking(mm))
      BY <2>1, <2>2, ListenCalm
    <2> HIDE DEF mm
    <2> QED BY <1>3, <2>1, <2>2, <2>3
  <1> HIDE DEF mm
  <1>6. /\ mm \in Machines /\ mm.cmds = m.cmds /\ st \in States /\ Attempts(mm.cmds, card, spent)
        /\ ctx.status = "ok" =>
               /\ Calm(mm, card) /\ Passed(mm, card) /\ mm.cur = st
               /\ st = "ConnectCard" => Linking(mm)
               /\ At(st, ctx, conn, card, spent)
               /\ \A e \in Elements(mm.events) : /\ e \notin Tokens
                                                 /\ e.type = "inserted" => e.counter = card.tries
    BY <1>1, <1>3, <1>4, <1>5
  <1> QED BY <1>6 DEF mm

LEMMA RunSelectReaderOnce ==
    ASSUME IInv, IInv', OInv, RunSelectReader PROVE OInv'
  <1> DEFINE mm == Listen(Rest, "SelectReader")
  <1>1. /\ Runs("SelectReader") /\ ctx' = [ctx EXCEPT !.reader = @ \/ seen]
        /\ m' = (IF seen THEN Fire(mm, ctx', "SelectReader", "continue") ELSE mm)
        /\ conn' = conn /\ card' = card /\ spent' = spent
    BY DEF RunSelectReader, Environment
  <1>2. /\ mm \in Machines /\ Attempts(mm.cmds, card, spent) /\ "SelectReader" \in States
        /\ ctx.status = "ok" =>
               /\ Calm(mm, card) /\ Passed(mm, card) /\ mm.cur = "SelectReader"
               /\ At("SelectReader", ctx, conn, card, spent)
               /\ \A e \in Elements(mm.events) : /\ e \notin Tokens
                                                 /\ e.type = "inserted" => e.counter = card.tries
    BY <1>1, ListenFacts
  <1> HIDE DEF mm
  <1>3. ctx'.status = ctx.status /\ ctx'.pin = ctx.pin /\ ctx'.expected = ctx.expected
    <2>1. ctx \in Contexts
      BY StateFacts
    <2> QED BY <1>1, <2>1 DEF Contexts
  <1>4. ctx.status = "ok" => \A to \in {"SelectReader", "ConnectCard"} : Settled(to, ctx', conn, card, spent)
    <2> SUFFICES ASSUME ctx.status = "ok", NEW to \in {"SelectReader", "ConnectCard"}
                 PROVE  Settled(to, ctx', conn, card, spent)
      OBVIOUS
    <2>1. ~conn.can /\ (Wasted(ctx, spent) => Lower(ctx, card))
      BY <1>2, AtFacts
    <2>2. Wasted(ctx', spent) => Lower(ctx', card)
      BY <2>1, <1>3 DEF Wasted, Lower
    <2>3. At(to, ctx', conn, card, spent)
      BY <2>1, <2>2, AtFacts
    <2> QED BY <2>3 DEF Settled
  <1>5. CASE seen
    <2>1. Target("SelectReader", "SelectReader", "continue") = "ConnectCard" /\ "ConnectCard" \in States
      BY PaceTargets, StateNames
    <2> DEFINE to == "ConnectCard"
    <2>2. m' = Fire(mm, ctx', "SelectReader", "continue")
      BY <1>1, <1>5
    <2>3. ctx'.status = "ok" =>
               /\ Calm(mm, card') /\ (Passed(mm, card') \/ to \in {"SelectReader", "UpdateRetry"})
               /\ to = Target(mm.cur, "SelectReader", "continue") /\ to \in States
               /\ Settled(to, ctx', conn', card', spent')
               /\ \A e \in Elements(mm.events) : /\ e \notin Tokens
                                                 /\ e.type = "inserted" => e.counter = card'.tries
      BY <1>1, <1>2, <1>3, <1>4, <2>1
    <2>4. Attempts(mm.cmds, card', spent')
      BY <1>1, <1>2
    <2> QED BY <1>2, <2>2, <2>3, <2>4, FireStep
  <1>6. CASE ~seen
    <2>1. m' = mm
      BY <1>1, <1>6
    <2> QED BY <1>1, <1>2, <1>3, <1>4, <2>1, StayStep
  <1> QED BY <1>5, <1>6

LEMMA RunConnectCardOnce ==
    ASSUME IInv, IInv', OInv, RunConnectCard PROVE OInv'
  <1> DEFINE mm == Listen(Rest, "ConnectCard")
             nn == CreateConnection(mm)
  <1>1. /\ Runs("ConnectCard") /\ ctx' = ctx /\ m' = nn
        /\ conn' = conn /\ card' = card /\ spent' = spent
    BY DEF RunConnectCard, Environment
  <1>2. /\ mm \in Machines /\ Attempts(mm.cmds, card, spent) /\ "ConnectCard" \in States
        /\ ctx.status = "ok" =>
               /\ Calm(mm, card) /\ Passed(mm, card) /\ mm.cur = "ConnectCard" /\ Linking(mm)
               /\ At("ConnectCard", ctx, conn, card, spent)
               /\ \A e \in Elements(mm.events) : /\ e \notin Tokens
                                                 /\ e.type = "inserted" => e.counter = card.tries
    BY <1>1, ListenFacts
  <1> HIDE DEF mm
  <1>3. nn \in Machines /\ nn.cur = mm.cur /\ nn.events = mm.events /\ Attempts(nn.cmds, card, spent)
    BY <1>2, CreateParts, OtherAttempts
  <1>4. ctx.status = "ok" => Calm(nn, card)
    BY <1>2, CreateInStep DEF Calm
  <1> HIDE DEF nn
  <1>5. ctx.status = "ok" => Settled(nn.cur, ctx, conn, card, spent)
    BY <1>2, <1>3 DEF Settled
  <1> QED BY <1>1, <1>2, <1>3, <1>4, <1>5, StayStep

-----------------------------------------------------------------------------
(* run() of the other states.                                              *)

LEMMA RunMove ==
    ASSUME IInv, IInv', OInv, NEW st, Runs(st), card' = card, spent' = spent,
           ctx'.status = "ok" => ctx.status = "ok", NEW sig, NEW to,
           m' = Fire(Rest, ctx', st, sig) \/ m' = Fire(Release(Rest), ctx', st, sig),
           ctx'.status = "ok" /\ At(st, ctx, conn, card, spent) =>
               /\ to = Target(st, st, sig) /\ to \in States \cup {"stopped"}
               /\ to # "stopped" => Settled(to, ctx', conn', card, spent)
    PROVE  OInv'
  <1>1. /\ m.events # <<>> /\ m.cur # "stopped" /\ Event \in Tokens /\ st \in States
        /\ ctx.status = "ok" => st = m.cur /\ At(st, ctx, conn, card, spent)
    BY RunKnown
  <1> QED BY <1>1, MoveStep

(* What is known does not depend on the rest of the context.               *)
LEMMA SameKnown ==
    ASSUME NEW c, NEW d, d.pin = c.pin, d.expected = c.expected, d.lastPace = c.lastPace,
           NEW n, NEW k, NEW s
    PROVE  /\ Wasted(d, s) <=> Wasted(c, s)
           /\ Lower(d, k) <=> Lower(c, k)
           /\ Fine(d) <=> Fine(c)
           /\ Ready("PreparePace", d, n, k, s) <=> Ready("PreparePace", c, n, k, s)
  BY DEF Wasted, Lower, Fine, Ready

LEMMA RunVerifyOnce ==
    ASSUME IInv, IInv', OInv, RunVerify PROVE OInv'
  <1> DEFINE known   == ctx.expected # NoReader
             matches == known /\ ctx.reader /\ ctx.expected = conn.counter
             sig     == IF conn = NoConn THEN "noCard" ELSE IF ~known \/ matches THEN "continue" ELSE "changed"
             to      == IF conn = NoConn THEN "Maintain"
                        ELSE IF ~known \/ matches THEN "PreparePace" ELSE "PaceClear"
  <1>1. /\ Runs("Verify") /\ conn' = conn /\ card' = card /\ spent' = spent
        /\ ctx' = (IF conn = NoConn \/ matches THEN ctx ELSE [ctx EXCEPT !.expected = conn.counter])
        /\ m' = Fire(Rest, ctx', "Verify", sig)
    BY DEF RunVerify, Environment, Emit
  <1>2. to = Target("Verify", "Verify", sig) /\ to \in States
    BY PaceTargets, StateNames
  <1>3. /\ ctx'.status = ctx.status /\ ctx'.pin = ctx.pin /\ ctx'.lastPace = ctx.lastPace
        /\ conn # NoConn => ctx'.expected = conn.counter
        /\ conn = NoConn => ctx'.expected = ctx.expected
        /\ conn.counter \in Int /\ card.tries \in 0..3 /\ card \in Cards
    <2>1. ctx \in Contexts /\ conn \in Connections /\ card \in Cards
      BY StateFacts
    <2>2. /\ ctx'.status = ctx.status /\ ctx'.pin = ctx.pin /\ ctx'.lastPace = ctx.lastPace
          /\ conn # NoConn => ctx'.expected = conn.counter
          /\ conn = NoConn => ctx'.expected = ctx.expected
      BY <1>1, <2>1 DEF Contexts
    <2>3. conn.counter \in Int /\ card.tries \in 0..3
      BY <2>1 DEF Connections, Cards
    <2> QED BY <2>1, <2>2, <2>3
  <1>4. ASSUME At("Verify", ctx, conn, card, spent)
        PROVE  Settled(to, ctx', conn, card, spent)
    <2>1. Current(conn, card) /\ CanKept(conn, card) /\ (Wasted(ctx, spent) => Lower(ctx, card))
      BY <1>4, AtFacts
    <2>2. Wasted(ctx', spent) => Wasted(ctx, spent)
      BY <1>3 DEF Wasted
    <2>3. CASE conn = NoConn
      <3>1. Wasted(ctx', spent) => Lower(ctx', card)
        BY <2>1, <2>2, <2>3, <1>3 DEF Lower
      <3>2. At("Maintain", ctx', conn, card, spent)
        BY <2>1, <3>1, AtFacts
      <3> QED BY <2>3, <3>2 DEF Settled
    <2>4. CASE conn # NoConn /\ (~known \/ matches)
      <3>1. conn.counter \in {-1, card.tries} /\ (card.linked => conn.counter = card.tries)
        BY <2>1, <2>4 DEF Current
      <3>2. ctx.expected \in {NoReader, conn.counter}
        BY <2>4
      <3>3. ~Lower(ctx, card)
        BY <3>1, <3>2, <1>3 DEF Lower, NoReader
      <3>4. Ready("PreparePace", ctx', conn, card, spent)
        BY <2>1, <2>2, <2>4, <3>1, <3>3, <1>3 DEF Ready
      <3>5. At("PreparePace", ctx', conn, card, spent)
        BY <3>4, AtFacts
      <3>6. to = "PreparePace"
        BY <2>4
      <3> QED BY <3>5, <3>6 DEF Settled
    <2>5. CASE conn # NoConn /\ ~(~known \/ matches)
      <3>1. At("PaceClear", ctx', conn, card, spent)
        BY <2>1, AtFacts
      <3> QED BY <2>5, <3>1 DEF Settled
    <2> QED BY <2>3, <2>4, <2>5
  <1> HIDE DEF to, sig
  <1> QED BY <1>1, <1>2, <1>3, <1>4, RunMove

LEMMA RunPreparePaceOnce ==
    ASSUME IInv, IInv', OInv, RunPreparePace PROVE OInv'
  <1> DEFINE enters == ~(NextPassword = "PIN" /\ conn.pin) /\ Password(ctx, NextPassword) = Nothing
             sig == IF conn = NoConn THEN "noCard" ELSE IF enters THEN "enter" ELSE "continue"
             to  == IF conn = NoConn THEN "Maintain" ELSE IF enters THEN "EnterPassword" ELSE "Establish"
  <1>1. /\ Runs("PreparePace") /\ conn' = conn /\ card' = card /\ spent' = spent
        /\ ctx' = [ctx EXCEPT !.paceType = IF conn = NoConn THEN Nothing ELSE NextPassword]
    BY DEF RunPreparePace, Environment
  <1>2. m' = Fire(Rest, ctx', "PreparePace", sig)
    BY DEF RunPreparePace, Emit
  <1> HIDE DEF enters
  <1>3. to = Target("PreparePace", "PreparePace", sig) /\ to \in States
    BY PasswordTargets, StateNames
  <1>4. /\ ctx'.status = ctx.status /\ ctx'.pin = ctx.pin /\ ctx'.lastPace = ctx.lastPace
        /\ ctx'.expected = ctx.expected /\ (conn # NoConn => ctx'.paceType = Asked(conn))
    <2>1. ctx \in Contexts
      BY StateFacts
    <2>2. NextPassword = Asked(conn)
      BY DEF NextPassword, Asked
    <2> QED BY <1>1, <2>1, <2>2 DEF Contexts
  <1>5. ASSUME At("PreparePace", ctx, conn, card, spent)
        PROVE  Settled(to, ctx', conn, card, spent)
    <2>1. Ready("PreparePace", ctx, conn, card, spent)
      BY <1>5, AtFacts
    <2>2. Current(conn, card) /\ CanKept(conn, card) /\ ~Wasted(ctx', spent)
      BY <2>1, <1>4 DEF Ready, Wasted
    <2>3. CASE conn = NoConn
      <3>1. At("Maintain", ctx', conn, card, spent)
        BY <2>2, AtFacts
      <3> QED BY <2>3, <3>1 DEF Settled
    <2>4. CASE conn # NoConn
      <3>1. \A s \in {"EnterPassword", "Establish"} : Ready(s, ctx', conn, card, spent)
        BY <2>1, <2>2, <2>4, <1>4 DEF Ready
      <3>2. \A s \in {"EnterPassword", "Establish"} : At(s, ctx', conn, card, spent)
        BY <3>1, AtFacts
      <3>3. to \in {"EnterPassword", "Establish"}
        BY <2>4
      <3> QED BY <3>1, <3>2, <3>3 DEF Settled
    <2> QED BY <2>3, <2>4
  <1> HIDE DEF to, sig
  <1> QED BY <1>1, <1>2, <1>3, <1>4, <1>5, RunMove

LEMMA RunPlainOnce ==
    ASSUME IInv, IInv', OInv,
           RunUnfortunate \/ RunClear \/ RunCheckError \/ RunPrepareChange \/ RunCleanUp
    PROVE  OInv'
  <1>0. ctx \in Contexts
    BY StateFacts
  <1>1. CASE RunUnfortunate
    <2>1. /\ Runs("Unfortunate") /\ conn' = conn /\ card' = card /\ spent' = spent
          /\ ctx' = [ctx EXCEPT !.vanished = 0] /\ m' = Fire(Rest, ctx', "Unfortunate", "continue")
      BY <1>1 DEF RunUnfortunate, Environment, Emit
    <2>2. "Maintain" = Target("Unfortunate", "Unfortunate", "continue") /\ "Maintain" \in States
      BY PasswordTargets, StateNames
    <2>3. /\ ctx'.status = ctx.status /\ ctx'.pin = ctx.pin /\ ctx'.lastPace = ctx.lastPace
          /\ ctx'.expected = ctx.expected
      BY <1>0, <2>1 DEF Contexts
    <2>4. At("Unfortunate", ctx, conn, card, spent) => Settled("Maintain", ctx', conn, card, spent)
      BY <2>3, AtFacts, SameKnown DEF Settled
    <2> QED BY <2>1, <2>2, <2>3, <2>4, RunMove
  <1>2. CASE RunClear
    <2>1. PICK st \in {"PaceClear", "Clear"} :
              Runs(st) /\ ctx' = Cleared(ctx) /\ m' = Fire(Rest, ctx', st, "continue")
      BY <1>2 DEF RunClear, Emit
    <2>2. conn' = conn /\ card' = card /\ spent' = spent
      BY <1>2 DEF RunClear, Environment
    <2> DEFINE to == IF st = "PaceClear" THEN "CheckError" ELSE "UpdateFinal"
    <2>3. to = Target(st, st, "continue") /\ to \in States
      BY PasswordTargets, ChangeTargets, StateNames
    <2>4. /\ ctx'.status = ctx.status /\ ctx'.pin = Nothing /\ ctx'.lastPace = ctx.lastPace
      BY <1>0, <2>1 DEF Contexts, Cleared
    <2>5. ~Wasted(ctx', spent) /\ (Fine(ctx') <=> Fine(ctx))
      BY <2>4 DEF Wasted, Fine
    <2>6. At(st, ctx, conn, card, spent) => Settled(to, ctx', conn, card, spent)
      BY <2>5, AtFacts DEF Settled
    <2> HIDE DEF to
    <2> QED BY <2>1, <2>2, <2>3, <2>4, <2>6, RunMove
  <1>3. CASE RunCheckError
    <2> DEFINE sig == IF ctx.status = "ok" THEN "continue" ELSE "abort"
    <2>1. /\ Runs("CheckError") /\ conn' = conn /\ card' = card /\ spent' = spent
          /\ ctx' = ctx /\ m' = Fire(Rest, ctx', "CheckError", sig)
      BY <1>3 DEF RunCheckError, Environment, Emit
    <2>2. ctx.status = "ok" => "Maintain" = Target("CheckError", "CheckError", sig) /\ "Maintain" \in States
      BY PasswordTargets, StateNames
    <2>3. At("CheckError", ctx, conn, card, spent) => Settled("Maintain", ctx, conn, card, spent)
      BY AtFacts DEF Settled
    <2> HIDE DEF sig
    <2> QED BY <2>1, <2>2, <2>3, RunMove
  <1>4. CASE RunPrepareChange
    <2> DEFINE sig == IF ctx.onlyCheck THEN "skip" ELSE IF ctx.newPin = Nothing THEN "enter" ELSE "continue"
               to  == IF ctx.onlyCheck THEN "Destroy"
                      ELSE IF ctx.newPin = Nothing THEN "EnterNewPin" ELSE "ChangePin"
    <2>1. /\ Runs("PrepareChange") /\ conn' = conn /\ card' = card /\ spent' = spent
          /\ ctx' = ctx /\ m' = Fire(Rest, ctx', "PrepareChange", sig)
      BY <1>4 DEF RunPrepareChange, Environment, Emit
    <2>2. to = Target("PrepareChange", "PrepareChange", sig) /\ to \in States
      BY ChangeTargets, StateNames
    <2>3. At("PrepareChange", ctx, conn, card, spent) => Settled(to, ctx, conn, card, spent)
      BY AtFacts DEF Settled
    <2> HIDE DEF sig, to
    <2> QED BY <2>1, <2>2, <2>3, RunMove
  <1>5. CASE RunCleanUp
    <2>1. /\ Runs("CleanUp") /\ card' = card /\ spent' = spent
          /\ ctx' = [ctx EXCEPT !.expected = NoReader]
          /\ m' = Fire(Release(Rest), ctx', "CleanUp", "continue")
      BY <1>5 DEF RunCleanUp, Environment
    <2>2. "Final" = Target("CleanUp", "CleanUp", "continue") /\ "Final" \in States
      BY ChangeTargets, StateNames
    <2>3. ctx'.status = ctx.status
      BY <1>0, <2>1 DEF Contexts
    <2>4. Settled("Final", ctx', conn', card, spent)
      BY AtFacts DEF Settled
    <2> QED BY <2>1, <2>2, <2>3, <2>4, RunMove
  <1> QED BY <1>1, <1>2, <1>3, <1>4, <1>5

LEMMA RunContinueOnce ==
    ASSUME IInv, IInv', OInv, RunContinue \/ HandleCancel PROVE OInv'
  <1>1. CASE RunContinue
    <2>1. PICK st \in {"EnterPassword", "EnterNewPin", "Final"} :
              Runs(st) /\ ctx' = ctx /\ m' = Fire(Rest, ctx', st, "continue")
      BY <1>1 DEF RunContinue, Emit
    <2>2. conn' = conn /\ card' = card /\ spent' = spent
      BY <1>1 DEF RunContinue, Environment
    <2> DEFINE to == IF st = "EnterPassword" THEN "Establish"
                     ELSE IF st = "EnterNewPin" THEN "ChangePin" ELSE "stopped"
    <2>3. to = Target(st, st, "continue") /\ to \in States \cup {"stopped"}
      BY PasswordTargets, ChangeTargets, StateNames
    <2>4. Ready("EnterPassword", ctx, conn, card, spent) => Ready("Establish", ctx, conn, card, spent)
      BY DEF Ready
    <2>5. At(st, ctx, conn, card, spent) /\ to # "stopped" => Settled(to, ctx, conn, card, spent)
      BY <2>4, AtFacts DEF Settled
    <2> HIDE DEF to
    <2> QED BY <2>1, <2>2, <2>3, <2>5, RunMove
  <1>2. CASE HandleCancel
    <2>1. /\ m.events # <<>> /\ m.cur # "stopped" /\ ctx' = OnUserCancelled(ctx, Event.st)
          /\ m' = Fire(Rest, ctx', Event.st, "abort") /\ card' = card /\ spent' = spent
          /\ Event.type = "cancel"
      BY <1>2 DEF HandleCancel, Handles, Environment, Emit
    <2>2. m \in Machines /\ ctx \in Contexts
      BY StateFacts
    <2>3. Event \in Events
      BY <2>1, <2>2, RestParts
    <2>4. Event.st \in States
      BY <2>1, <2>3, EventFields
    <2>5. ctx'.status # "ok"
      BY <2>1, <2>2, AbortFacts
    <2> QED BY <2>1, <2>4, <2>5, MoveStep
  <1> QED BY <1>1, <1>2

(* A password that is sent is one the card may be asked: it is entered, no *)
(* attempt was spent on it, and nothing that is queued changes the card.   *)
LEMMA PaceSent ==
    ASSUME IInv, OInv, Runs("Establish"), ctx.status = "ok", conn # NoConn,
           Password(ctx, ctx.paceType) # Nothing,
           NEW x, x = Command("pace", "Establish", ctx.paceType, Password(ctx, ctx.paceType))
    PROVE  /\ x \in Commands /\ x.op = "pace" /\ x.owner = "Establish" /\ x.wired
           /\ x.arg = ctx.paceType /\ x.arg # Nothing /\ ctx.paceType \in PaceTypes
           /\ x \in PinPaces => /\ spent = 0 /\ MayTry(card)
                                /\ \A y \in Elements(m.cmds) : Harmless(y)
  <1>1. /\ m.events # <<>> /\ m.cur # "stopped" /\ Event \in Tokens /\ "Establish" = m.cur
        /\ Ready("Establish", ctx, conn, card, spent)
        /\ ctx \in Contexts /\ conn \in Connections /\ card \in Cards
    BY RunKnown
  <1>2. ctx.paceType \in PaceTypes
    BY DEF Password, PaceTypes
  <1>3. Password(ctx, ctx.paceType) \in Pins \cup Secrets \cup {Nothing}
    BY <1>1 DEF Password, Contexts
  <1>4. "Establish" \in States
    BY StateNames
  <1>5. /\ x \in Commands /\ x.op = "pace" /\ x.owner = "Establish" /\ x.wired /\ x.arg = ctx.paceType
    BY <1>2, <1>3, <1>4 DEF Command, Commands
  <1>6. x.arg # Nothing
    BY <1>2, <1>5 DEF PaceTypes, Nothing
  <1>7. ASSUME x \in PinPaces
        PROVE  /\ spent = 0 /\ MayTry(card)
               /\ \A y \in Elements(m.cmds) : Harmless(y)
    <2>1. ctx.paceType = "PIN"
      BY <1>2, <1>5, <1>7, PinPaceFacts DEF PaceTypes
    <2>2. ctx.pin # Nothing
      BY <2>1 DEF Password
    <2>3. spent = 0
      <3>1. spent # 1
        BY <1>1, <2>2 DEF Ready, Wasted
      <3>2. spent \in Nat /\ spent <= 1
        BY StateFacts DEF OInv, Attempts
      <3> QED BY <3>1, <3>2
    <2>4. MayTry(card)
      <3> SUFFICES ASSUME card.linked PROVE card.tries > 1 \/ (card.tries = 1 /\ card.session = "CAN")
        BY DEF MayTry
      <3>1. conn.counter = card.tries /\ Asked(conn) = "PIN" /\ card.tries \in 0..3
        BY <1>1, <2>1 DEF Ready, Current, Cards
      <3>2. conn.counter # 0 /\ (conn.counter = 1 => conn.can)
        BY <3>1 DEF Asked
      <3>3. conn.can => card.tries = 1 /\ card.session = "CAN"
        BY <1>1 DEF Ready, CanKept
      <3> QED BY <3>1, <3>2, <3>3
    <2>5. \A y \in Elements(m.cmds) : Harmless(y)
      <3>1. /\ Calm(Rest, card) /\ Rest.listening = {} /\ Rest.cmds = m.cmds
            /\ Free(m.cmds, Work)
        BY <1>1, TokenFacts
      <3> SUFFICES ASSUME NEW y \in Elements(m.cmds) PROVE Harmless(y)
        OBVIOUS
      <3>2. y \in Commands
        BY StateFacts, ElementTypes
      <3>3. y \notin Work /\ OwnCmd(y, Rest)
        BY <3>1 DEF Free, Calm, InStep
      <3>4. y.op \in {"create", "release"}
        BY <3>2, <3>3, PinPaceFacts
      <3>5. ~(y.op = "create" /\ y.wired)
        BY <3>1, <3>3 DEF OwnCmd, Linking
      <3>6. y.wired \in BOOLEAN
        BY <3>2 DEF Commands
      <3> QED BY <3>4, <3>5, <3>6 DEF Harmless
    <2> QED BY <2>3, <2>4, <2>5
  <1> QED BY <1>2, <1>5, <1>6, <1>7

LEMMA RunEstablishOnce ==
    ASSUME IInv, IInv', OInv, RunEstablish PROVE OInv'
  <1> DEFINE pw == Password(ctx, ctx.paceType)
             x  == Command("pace", "Establish", ctx.paceType, pw)
  <1>0. Runs("Establish") /\ conn' = conn /\ card' = card /\ spent' = spent
    BY DEF RunEstablish, Environment
  <1>1. /\ m.events # <<>> /\ m.cur # "stopped" /\ Event \in Tokens /\ "Establish" \in States
        /\ ctx.status = "ok" => "Establish" = m.cur /\ Ready("Establish", ctx, conn, card, spent)
        /\ ctx \in Contexts /\ conn \in Connections /\ card \in Cards
    BY <1>0, RunKnown
  <1>2. CASE ctx.status # "ok" /\ ctx' = ctx /\ m' = Fire(Rest, ctx', "Establish", "failed")
    BY <1>0, <1>1, <1>2, MoveStep
  <1>3. CASE /\ ctx.status = "ok" /\ conn = NoConn /\ ctx' = [ctx EXCEPT !.lastPace = "CARD_NOT_FOUND"]
             /\ m' = Fire(Rest, ctx', "Establish", "noCard")
    <2>1. "Maintain" = Target("Establish", "Establish", "noCard") /\ "Maintain" \in States
      BY EstablishTargets, StateNames
    <2>2. ctx'.lastPace = "CARD_NOT_FOUND" /\ ctx'.pin = ctx.pin /\ ctx'.status = ctx.status
      BY <1>1, <1>3 DEF Contexts
    <2>3. ~Fine(ctx') /\ CanKept(conn, card) /\ ~Wasted(ctx', spent)
      BY <1>1, <1>3, <2>2 DEF Fine, Ready, Wasted
    <2>4. Settled("Maintain", ctx', conn', card, spent)
      BY <1>0, <2>3, AtFacts DEF Settled
    <2> QED BY <1>0, <1>1, <1>3, <2>1, <2>2, <2>4, MoveStep
  <1>4. CASE /\ ctx.status = "ok" /\ conn # NoConn /\ pw = Nothing
             /\ ctx' = OnAbort(UpdateStatus(ctx, "error")) /\ m' = Fire(Rest, ctx', "Establish", "abort")
    <2>1. ctx'.status # "ok"
      BY <1>1, <1>4, AbortFacts
    <2> QED BY <1>0, <1>1, <1>4, <2>1, MoveStep
  <1>5. CASE /\ ctx.status = "ok" /\ conn # NoConn /\ pw # Nothing
             /\ ctx' = ctx /\ m' = Send(Rest, "Establish", x)
    <2>1. /\ x \in Commands /\ x.op = "pace" /\ x.owner = "Establish" /\ x.wired
          /\ x.arg = ctx.paceType /\ x.arg # Nothing
          /\ x \in PinPaces => /\ spent = 0 /\ MayTry(card)
                               /\ \A y \in Elements(m.cmds) : Harmless(y)
      BY <1>0, <1>5, PaceSent
    <2> HIDE DEF x, pw
    <2>2. /\ m \in Machines /\ Rest \in Machines /\ Rest.cmds = m.cmds
      BY <1>1, StateFacts, RestParts
    <2>3. m'.cmds = Append(m.cmds, x)
      BY <1>1, <1>5, <2>1, <2>2, SendParts
    <2>4. Attempts(m'.cmds, card', spent')
      <3>1. m.cmds \in Seq(Commands) /\ Attempts(m.cmds, card, spent)
        BY <2>2, MachineParts DEF OInv
      <3> QED BY <1>0, <2>1, <2>3, <3>1, AttemptsAppend
    <2>5. /\ Calm(Rest, card) /\ Rest.cur = m.cur /\ Rest.listening = {} /\ Rest.approved
          /\ Free(m.cmds, Work)
          /\ \A e \in Elements(Rest.events) : /\ e \in Events /\ e \notin Tokens
                                              /\ e.type = "inserted" => e.counter = card.tries
      BY <1>1, <1>5, TokenFacts
    <2>6. x \in Work /\ "Establish" \in Owners[x.op]
      BY <2>1, PinPaceFacts, OwnersFacts
    <2>7. /\ InStep(m', card) /\ m'.cur = "Establish" /\ m'.events = Rest.events
          /\ Elements(m'.cmds) = Elements(m.cmds) \cup {x}
      BY <1>1, <1>5, <2>1, <2>2, <2>5, <2>6, SendInStep
    <2>8. \A e \in Elements(m'.events) : Says(e, ctx, conn, card, spent)
      BY <2>5, <2>7, SaysFacts
    <2>9. \A y \in Elements(m'.cmds) : y.op = "pace" => y.arg = ctx.paceType /\ y.arg # Nothing
      <3>1. \A y \in Elements(m.cmds) : y \in Commands /\ y \notin Work
        BY <2>2, <2>5, ElementTypes DEF Free
      <3> QED BY <2>1, <2>7, <3>1, PinPaceFacts
    <2>10. At("Establish", ctx, conn, card, spent)
      BY AtFacts
    <2>11. Knows(m', ctx, conn, card, spent)
      BY <1>1, <1>5, <2>7, <2>8, <2>9, <2>10 DEF Knows
    <2> QED BY <1>0, <1>5, <2>4, <2>7, <2>11, OInvNow
  <1> QED BY <1>0, <1>2, <1>3, <1>4, <1>5 DEF RunEstablish, Emit

-----------------------------------------------------------------------------
(* The answers of the card.                                                *)

LEMMA UpdateDoneOnce ==
    ASSUME IInv, IInv', OInv, UpdateDone PROVE OInv'
  <1>1. /\ Completes("update") /\ ctx' = ctx /\ card' = card /\ spent' = spent
        /\ Event.st \in States /\ Event.type = "done" /\ Event.op = "update"
        /\ conn \in Connections /\ Event.counter \in -2..3
    <2>1. Completes("update") /\ ctx' = ctx /\ card' = card /\ spent' = spent
      BY DEF UpdateDone, Environment
    <2>2. Event \in Tokens /\ Event.st \in States /\ Event.type = "done" /\ Event.op = "update" /\ conn \in Connections
      BY <2>1, DoneKnown
    <2>3. Event.counter \in -2..3
      BY <2>2, EventFields DEF Tokens
    <2> QED BY <2>1, <2>2, <2>3
  <1> DEFINE sig == IF Event.code = "OK" THEN "continue" ELSE "noCard"
             to  == IF Event.st = "UpdateFinal" THEN "CleanUp"
                    ELSE IF Event.code = "OK" THEN "Verify" ELSE "Maintain"
  <1>2. Event.st \in Owners["update"] => to = Target(Event.st, Event.st, sig) /\ to \in States
    BY OwnersFacts, PaceTargets, ChangeTargets, StateNames
  <1>3. m' = Fire(Rest, ctx', Event.st, sig) \/ m' = Fire(Release(Rest), ctx', Event.st, sig)
    BY DEF UpdateDone, Emit
  <1>4. ASSUME Event.st = m.cur, Event.st \in Owners["update"], At(m.cur, ctx, conn, card, spent),
               Says(Event, ctx, conn, card, spent)
        PROVE  Settled(to, ctx, conn', card, spent)
    <2>1. CASE Event.st = "UpdateFinal"
      BY <2>1, AtFacts DEF Settled
    <2>2. CASE Event.st # "UpdateFinal"
      <3>1. CanKept(conn, card) /\ (Wasted(ctx, spent) => Lower(ctx, card))
        BY <1>4, <2>2, OwnersFacts, AtFacts
      <3>2. CASE Event.code = "OK"
        <4>1. conn' = (IF conn = NoConn THEN conn ELSE [conn EXCEPT !.counter = Event.counter])
          BY <3>2 DEF UpdateDone
        <4>2. Event.counter = card.tries
          BY <1>1, <1>4, <3>2 DEF Says
        <4>3. CASE conn = NoConn
          <5>1. At("Verify", ctx, conn', card, spent)
            BY <3>1, <4>1, <4>3, NoConnFacts, AtFacts
          <5> QED BY <5>1, <2>2, <3>2 DEF Settled
        <4>4. CASE conn # NoConn
          <5>1. conn'.counter = card.tries /\ conn'.can = conn.can
            BY <1>1, <4>1, <4>2, <4>4 DEF Connections
          <5>2. Current(conn', card) /\ CanKept(conn', card)
            BY <3>1, <5>1 DEF Current, CanKept
          <5>3. At("Verify", ctx, conn', card, spent)
            BY <3>1, <5>2, AtFacts
          <5> QED BY <5>3, <2>2, <3>2 DEF Settled
        <4> QED BY <4>3, <4>4
      <3>3. CASE Event.code # "OK"
        <4>1. conn' = NoConn
          BY <3>3 DEF UpdateDone, ResetConnection
        <4>2. At("Maintain", ctx, conn', card, spent)
          BY <3>1, <4>1, NoConnFacts, AtFacts
        <4> QED BY <4>2, <2>2, <3>3 DEF Settled
      <3> QED BY <3>2, <3>3
    <2> QED BY <2>1, <2>2
  <1>5. /\ m.events # <<>> /\ m.cur # "stopped" /\ Event \in Tokens
        /\ ctx.status = "ok" => /\ Event.st = m.cur /\ Event.st \in Owners["update"]
                                /\ At(m.cur, ctx, conn, card, spent)
                                /\ Says(Event, ctx, conn, card, spent)
    BY <1>1, DoneKnown
  <1> HIDE DEF sig, to
  <1>6. ctx'.status = "ok" =>
            /\ ctx.status = "ok" /\ Event \in Tokens /\ Event.st = m.cur
            /\ to = Target(Event.st, Event.st, sig) /\ to \in States \cup {"stopped"}
            /\ to # "stopped" => Settled(to, ctx', conn', card, spent)
    BY <1>1, <1>2, <1>4, <1>5
  <1> QED BY <1>1, <1>3, <1>5, <1>6, MoveStep

LEMMA ResetSetOnce ==
    ASSUME IInv, IInv', OInv, ResetDone \/ SetDone \/ DestroyDone PROVE OInv'
  <1>0. ctx \in Contexts /\ card' = card /\ spent' = spent
    BY StateFacts DEF ResetDone, SetDone, DestroyDone, Environment
  <1>1. CASE ResetDone
    <2>1. /\ m.events # <<>> /\ m.cur # "stopped" /\ Event \in Tokens /\ "ResetRetry" \in States
          /\ ctx.status = "ok" => "ResetRetry" = m.cur /\ At("ResetRetry", ctx, conn, card, spent)
      <3>1. Completes("reset")
        BY <1>1 DEF ResetDone
      <3> QED BY <3>1, DoneKnown, StateNames, OwnersFacts
    <2>2. CASE /\ ctx' = [ctx EXCEPT !.expected = IF @ = NoReader THEN @ ELSE -1]
               /\ m' = Fire(Rest, ctx', "ResetRetry", "continue") /\ conn' = conn
      <3>1. "PaceDestroy" = Target("ResetRetry", "ResetRetry", "continue") /\ "PaceDestroy" \in States
        BY PasswordTargets, StateNames
      <3>2. ctx'.status = ctx.status /\ ctx'.lastPace = ctx.lastPace
        BY <1>0, <2>2 DEF Contexts
      <3>3. At("ResetRetry", ctx, conn, card, spent) => Settled("PaceDestroy", ctx', conn', card, spent)
        BY <2>2, <3>2, AtFacts DEF Settled
      <3> QED BY <1>0, <2>1, <2>2, <3>1, <3>2, <3>3, MoveStep
    <2>3. CASE /\ ctx' = OnAbort(UpdateStatus(ctx, "error"))
               /\ m' = Fire(Rest, ctx', "ResetRetry", "abort") /\ conn' = conn
      <3>1. ctx'.status # "ok"
        BY <1>0, <2>3, AbortFacts
      <3> QED BY <1>0, <2>1, <2>3, <3>1, MoveStep
    <2>4. CASE /\ ctx' = ctx /\ conn' = NoConn
               /\ m' = Fire(Release(Rest), ctx', "ResetRetry", "noCard")
      <3>1. "Maintain" = Target("ResetRetry", "ResetRetry", "noCard") /\ "Maintain" \in States
        BY PasswordTargets, StateNames
      <3>2. At("ResetRetry", ctx, conn, card, spent) => Settled("Maintain", ctx', conn', card, spent)
        BY <2>4, AtFacts, NoConnFacts DEF Settled
      <3> QED BY <1>0, <2>1, <2>4, <3>1, <3>2, MoveStep
    <2> QED BY <1>1, <2>2, <2>3, <2>4 DEF ResetDone, Emit, ResetConnection
  <1>2. CASE SetDone
    <2>1. /\ m.events # <<>> /\ m.cur # "stopped" /\ Event \in Tokens /\ "ChangePin" \in States
          /\ ctx.status = "ok" => "ChangePin" = m.cur /\ At("ChangePin", ctx, conn, card, spent)
      <3>1. Completes("set")
        BY <1>2 DEF SetDone
      <3> QED BY <3>1, DoneKnown, StateNames, OwnersFacts
    <2>2. CASE ctx' = ctx /\ m' = Fire(Rest, ctx', "ChangePin", "continue") /\ conn' = conn
      <3>1. "Destroy" = Target("ChangePin", "ChangePin", "continue") /\ "Destroy" \in States
        BY ChangeTargets, StateNames
      <3>2. Settled("Destroy", ctx', conn', card, spent)
        BY AtFacts DEF Settled
      <3> QED BY <1>0, <2>1, <2>2, <3>1, <3>2, MoveStep
    <2>3. CASE /\ ctx' = ctx /\ conn' = NoConn
               /\ m' = Fire(Release(Rest), ctx', "ChangePin", "noCard")
      <3>1. "Maintain" = Target("ChangePin", "ChangePin", "noCard") /\ "Maintain" \in States
        BY ChangeTargets, StateNames
      <3>2. At("ChangePin", ctx, conn, card, spent) => Settled("Maintain", ctx', conn', card, spent)
        BY <2>3, AtFacts, NoConnFacts DEF Settled
      <3> QED BY <1>0, <2>1, <2>3, <3>1, <3>2, MoveStep
    <2>4. CASE /\ ctx' = OnAbort(UpdateStatus(ctx, "error"))
               /\ m' = Fire(Rest, ctx', "ChangePin", "abort") /\ conn' = conn
      <3>1. ctx'.status # "ok"
        BY <1>0, <2>4, AbortFacts
      <3> QED BY <1>0, <2>1, <2>4, <3>1, MoveStep
    <2> QED BY <1>2, <2>2, <2>3, <2>4 DEF SetDone, Emit, ResetConnection
  <1>3. CASE DestroyDone
    <2>1. /\ Completes("destroy") /\ ctx' = ctx /\ conn' = conn
          /\ m' = Fire(Rest, ctx', Event.st, "continue")
      BY <1>3 DEF DestroyDone, Emit
    <2>2. /\ m.events # <<>> /\ m.cur # "stopped" /\ Event \in Tokens /\ Event.st \in States
          /\ ctx.status = "ok" => /\ Event.st = m.cur /\ Event.st \in Owners["destroy"]
                                  /\ At(Event.st, ctx, conn, card, spent)
      BY <2>1, DoneKnown
    <2> DEFINE to == IF Event.st = "PaceDestroy" THEN "PaceClear" ELSE "Clear"
    <2>3. Event.st \in Owners["destroy"] => to = Target(Event.st, Event.st, "continue") /\ to \in States
      BY OwnersFacts, PasswordTargets, ChangeTargets, StateNames
    <2>4. Event.st \in Owners["destroy"] /\ At(Event.st, ctx, conn, card, spent) => Settled(to, ctx, conn, card, spent)
      BY OwnersFacts, AtFacts DEF Settled, Fine, CanKept
    <2> HIDE DEF to
    <2> QED BY <1>0, <2>1, <2>2, <2>3, <2>4, MoveStep
  <1> QED BY <1>1, <1>2, <1>3

(* What comes of PACE.                                                     *)
LEMMA PaceFlagFacts ==
    ASSUME NEW n \in Connections, NEW type \in PaceTypes, NEW ok \in BOOLEAN
    PROVE  LET p == PaceFlags(n, type, ok)
           IN  /\ p.counter = n.counter /\ (n = NoConn => p = NoConn)
               /\ ~ok /\ type # "PUK" => ~p.can
               /\ type = "PUK" => p = n
  <1>1. NoConn.can = FALSE /\ NoConn.counter = -2
    BY NoConnFacts
  <1>2. CASE n = NoConn
    BY <1>1, <1>2 DEF PaceFlags
  <1>3. CASE n # NoConn /\ type = "CAN"
    BY <1>3 DEF PaceFlags, Connections
  <1>4. CASE n # NoConn /\ type = "PIN"
    <2>1. PaceFlags(n, type, ok) = [n EXCEPT !.pin = ok, !.can = @ /\ ok]
      BY <1>4 DEF PaceFlags
    <2> QED BY <1>4, <2>1 DEF Connections
  <1>5. CASE n # NoConn /\ type = "PUK"
    BY <1>5 DEF PaceFlags
  <1> QED BY <1>2, <1>3, <1>4, <1>5 DEF PaceTypes

(* Where the answer to a PACE command leads, and what is known there.      *)
PaceNext(type, code) ==
    CASE code = "OK"            -> CASE type = "PIN" -> "PrepareChange" [] type = "CAN" -> "Maintain"
                                     [] OTHER -> "ResetRetry"
      [] code = "INVALID_PIN_3" -> "PaceDestroy"
      [] code \in WrongCodes \ {"PIN_NOT_BLOCKED", "INVALID_PIN_3"} -> "PaceClear"
      [] OTHER                  -> "Maintain"

LEMMA PaceNextTarget ==
    ASSUME NEW type \in PaceTypes, NEW code \in Codes
    PROVE  /\ PaceNext(type, code) = Target("Establish", "Establish", PaceSignal(type, code))
           /\ PaceNext(type, code) \in States
           /\ "Unfortunate" = Target("Establish", "Establish", "unfortunate") /\ "Unfortunate" \in States
  BY EstablishTargets, StateNames DEF PaceNext, PaceSignal

LEMMA PaceSettles ==
    ASSUME NEW e, NEW c, NEW d, NEW n \in Connections, NEW p, NEW k, NEW s,
           PaceTold(e, c, n, k, s), e.code \in Codes, e.code \notin LostCodes,
           d.pin = c.pin, d.lastPace = (CASE e.code = "OK" /\ e.arg = "CAN" -> "OK_CAN"
                                          [] e.code = "OK" /\ e.arg = "PUK" -> "OK_PUK"
                                          [] OTHER                          -> e.code),
           e.code # "OK" => d.expected = c.expected,
           p = PaceFlags(n, e.arg, e.code = "OK")
    PROVE  Settled(PaceNext(e.arg, e.code), d, p, k, s)
  <1>1. /\ e.arg \in PaceTypes /\ e.code \notin {"OK_CAN", "OK_PUK"}
        /\ e.arg = "CAN" /\ e.code = "OK" =>
               Current(n, k) /\ (k.linked => k.tries = 1 /\ k.session = "CAN")
        /\ e.arg = "PUK" /\ k.linked => ~n.can
        /\ Wasted(c, s) => Lower(c, k) /\ e.arg = "PIN" /\ e.code # "OK"
    BY DEF PaceTold
  <1>2. /\ p.counter = n.counter /\ (n = NoConn => p = NoConn)
        /\ e.code # "OK" /\ e.arg # "PUK" => ~p.can
        /\ e.arg = "PUK" => p = n
    BY <1>1, PaceFlagFacts
  <1>3. Wasted(d, s) <=> Wasted(c, s)
    BY DEF Wasted
  <1>4. Wasted(d, s) => Lower(d, k)
    BY <1>1, <1>3 DEF Lower
  <1>5. CASE e.code = "OK" /\ e.arg = "PIN"
    <2>1. PaceNext(e.arg, e.code) = "PrepareChange"
      BY <1>5 DEF PaceNext, WrongCodes
    <2>2. At("PrepareChange", d, p, k, s)
      BY <1>1, <1>3, <1>5, AtFacts
    <2> QED BY <2>1, <2>2 DEF Settled
  <1>6. CASE e.code = "OK" /\ e.arg = "CAN"
    <2>1. PaceNext(e.arg, e.code) = "Maintain"
      BY <1>6 DEF PaceNext, WrongCodes
    <2>2. Current(p, k)
      BY <1>1, <1>2, <1>6 DEF Current
    <2>3. CanKept(p, k)
      BY <1>1, <1>6 DEF CanKept
    <2>4. At("Maintain", d, p, k, s)
      BY <1>4, <2>2, <2>3, AtFacts
    <2> QED BY <2>1, <2>4 DEF Settled
  <1>7. CASE e.code = "OK" /\ e.arg = "PUK"
    <2>1. PaceNext(e.arg, e.code) = "ResetRetry"
      BY <1>7 DEF PaceNext, WrongCodes
    <2>2. d.lastPace = "OK_PUK"
      BY <1>7
    <2>3. At("ResetRetry", d, p, k, s)
      BY <1>1, <1>2, <1>3, <1>7, <2>2, AtFacts
    <2> QED BY <2>1, <2>3 DEF Settled
  <1>8. CASE e.code # "OK"
    <2>1. d.lastPace = e.code /\ e.code \notin {"OK", "OK_CAN"}
      BY <1>1, <1>8
    <2>2. ~Fine(d)
      BY <2>1 DEF Fine
    <2>3. k.linked => ~p.can
      BY <1>1, <1>2, <1>8
    <2>4. CanKept(p, k)
      BY <2>3 DEF CanKept
    <2>5. /\ At("Maintain", d, p, k, s) /\ At("PaceClear", d, p, k, s)
          /\ At("PaceDestroy", d, p, k, s)
      BY <1>4, <2>1, <2>2, <2>3, <2>4, AtFacts
    <2>6. PaceNext(e.arg, e.code) \in {"Maintain", "PaceClear", "PaceDestroy"}
      BY <1>8 DEF PaceNext, WrongCodes
    <2> QED BY <2>5, <2>6 DEF Settled
  <1> QED BY <1>1, <1>5, <1>6, <1>7, <1>8 DEF PaceTypes

LEMMA PaceDoneOnce ==
    ASSUME IInv, IInv', OInv, PaceDone PROVE OInv'
  <1> DEFINE type == Event.arg
             code == Event.code
             lost == code \in LostCodes
             mm   == IF lost THEN Release(Rest) ELSE Rest
  <1>1. /\ Completes("pace") /\ card' = card /\ spent' = spent
        /\ ctx' = [ctx EXCEPT
                      !.lastPace = CASE code = "OK" /\ type = "CAN" -> "OK_CAN"
                                     [] code = "OK" /\ type = "PUK" -> "OK_PUK"
                                     [] OTHER                       -> code,
                      !.expected = IF code = "OK" /\ type = "PIN" /\ @ # NoReader THEN 3 ELSE @,
                      !.vanished = IF lost THEN @ + 1 ELSE 0]
        /\ conn' = (IF lost THEN NoConn ELSE PaceFlags(conn, type, code = "OK"))
        /\ \/ m' = Fire(mm, ctx', "Establish", PaceSignal(type, code))
           \/ lost /\ m' = Fire(mm, ctx', "Establish", "unfortunate")
    BY DEF PaceDone, Environment, ResetConnection
  <1>2. /\ m.events # <<>> /\ m.cur # "stopped" /\ Event \in Tokens
        /\ Event.type = "done" /\ Event.op = "pace"
        /\ ctx.status = "ok" => "Establish" = m.cur /\ Says(Event, ctx, conn, card, spent)
        /\ ctx \in Contexts /\ conn \in Connections
    BY <1>1, DoneKnown, OwnersFacts
  <1>3. Event.code \in Codes
    BY <1>2, EventFields DEF Tokens
  <1>4. /\ ctx'.status = ctx.status /\ ctx'.pin = ctx.pin
        /\ ctx'.lastPace = (CASE Event.code = "OK" /\ Event.arg = "CAN" -> "OK_CAN"
                              [] Event.code = "OK" /\ Event.arg = "PUK" -> "OK_PUK"
                              [] OTHER                          -> Event.code)
        /\ Event.code # "OK" => ctx'.expected = ctx.expected
    BY <1>1, <1>2 DEF Contexts
  <1>5. ctx.status = "ok" => PaceTold(Event, ctx, conn, card, spent) /\ Event.arg \in PaceTypes
    BY <1>2 DEF Says, PaceTold
  <1>6. "Establish" \in States
    BY StateNames
  <1>7. CASE lost
    <2>1. ctx.status = "ok" => \A to \in {"Maintain", "Unfortunate"} : Settled(to, ctx', conn', card, spent)
      <3> SUFFICES ASSUME ctx.status = "ok", NEW to \in {"Maintain", "Unfortunate"}
                   PROVE  Settled(to, ctx', conn', card, spent)
        OBVIOUS
      <3>1. Event.code # "OK"
        BY <1>7 DEF LostCodes
      <3>2. Wasted(ctx, spent) => Lower(ctx, card)
        BY <1>5 DEF PaceTold
      <3>3. Wasted(ctx', spent) => Lower(ctx', card)
        BY <1>4, <3>1, <3>2 DEF Wasted, Lower
      <3>4. conn' = NoConn
        BY <1>1, <1>7
      <3>5. At(to, ctx', conn', card, spent)
        BY <3>3, <3>4, NoConnFacts, AtFacts
      <3> QED BY <3>5 DEF Settled
    <2>2. mm = Release(Rest)
      BY <1>7
    <2>3. code \notin {"OK", "INVALID_PIN_3"} /\ code \notin WrongCodes
      BY <1>7 DEF LostCodes, WrongCodes
    <2>4. PaceSignal(type, code) = "failed"
      BY <2>3 DEF PaceSignal
    <2>5. CASE m' = Fire(mm, ctx', "Establish", "failed")
      <3>1. "Maintain" = Target("Establish", "Establish", "failed") /\ "Maintain" \in States
        BY EstablishTargets, StateNames
      <3> QED BY <1>1, <1>2, <1>4, <1>6, <2>1, <2>2, <2>5, <3>1, MoveStep
    <2>6. CASE m' = Fire(mm, ctx', "Establish", "unfortunate")
      <3>1. "Unfortunate" = Target("Establish", "Establish", "unfortunate") /\ "Unfortunate" \in States
        BY EstablishTargets, StateNames
      <3> QED BY <1>1, <1>2, <1>4, <1>6, <2>1, <2>2, <2>6, <3>1, MoveStep
    <2> QED BY <1>1, <2>4, <2>5, <2>6
  <1>8. CASE ~lost
    <2> DEFINE to  == PaceNext(Event.arg, Event.code)
               sig == PaceSignal(Event.arg, Event.code)
    <2>1. m' = Fire(Rest, ctx', "Establish", sig) /\ conn' = PaceFlags(conn, Event.arg, Event.code = "OK")
      BY <1>1, <1>8
    <2>2. ctx.status = "ok" => to = Target("Establish", "Establish", sig) /\ to \in States
      BY <1>3, <1>5, PaceNextTarget
    <2>3. ctx.status = "ok" => Settled(to, ctx', conn', card, spent)
      BY <1>2, <1>3, <1>4, <1>5, <1>8, <2>1, PaceSettles
    <2> HIDE DEF to, sig
    <2> QED BY <1>1, <1>2, <1>4, <1>6, <2>1, <2>2, <2>3, MoveStep
  <1> QED BY <1>7, <1>8

-----------------------------------------------------------------------------
(* Cards that come and go.                                                 *)

(* Unless Establish is the current state no PACE is under way.             *)
LEMMA NoPaceAbout ==
    ASSUME NEW mm, NEW k, InStep(mm, k), mm.cur # "Establish"
    PROVE  /\ \A e \in Elements(mm.events) : e \in Events /\ ~(e.type = "done" /\ e.op = "pace")
           /\ \A x \in Elements(mm.cmds) : x.op # "pace"
  <1>1. mm \in Machines
    BY DEF InStep
  <1>2. /\ \A e \in Elements(mm.events) : e \in Events /\ OwnEvent(e, mm)
        /\ \A x \in Elements(mm.cmds) : x \in Commands /\ OwnCmd(x, mm)
    BY <1>1, ElementTypes DEF InStep
  <1>3. ASSUME NEW e \in Elements(mm.events), e.type = "done", e.op = "pace"
        PROVE  FALSE
    <2>1. e \in Tokens
      BY <1>2, <1>3 DEF Tokens
    <2>2. e.st \in Owners["pace"] /\ e.st = mm.cur
      BY <1>2, <1>3, <2>1 DEF OwnEvent
    <2> QED BY <2>2, OwnersFacts
  <1>4. ASSUME NEW x \in Elements(mm.cmds), x.op = "pace"
        PROVE  FALSE
    <2>1. x \in Work
      BY <1>2, <1>4, PinPaceFacts
    <2>2. x.owner \in Owners["pace"] /\ x.owner = mm.cur
      BY <1>2, <1>4, <2>1 DEF OwnCmd
    <2> QED BY <2>2, OwnersFacts
  <1> QED BY <1>2, <1>3, <1>4

(* What is known while no PACE is under way.                               *)
LEMMA KnowsCalm ==
    ASSUME NEW mm, NEW k, InStep(mm, k), mm.cur # "Establish", NEW c, NEW n, NEW l, NEW s,
           \A e \in Elements(mm.events) :
               /\ e.type = "inserted" => e.counter = l.tries
               /\ e.type = "done" /\ e.op = "update" /\ e.code = "OK" => e.counter = l.tries,
           At(mm.cur, c, n, l, s)
    PROVE  Knows(mm, c, n, l, s)
  BY NoPaceAbout DEF Knows, Says

(* The counter of the connection moves, or the CAN is forgotten.           *)
LEMMA CounterKnown ==
    ASSUME NEW mm, NEW k, InStep(mm, k), NEW c, NEW n, NEW s, Knows(mm, c, n, k, s),
           NEW p, p.can = n.can, n = NoConn => p = NoConn,
           p # NoConn => p.counter \in {-1, k.tries},
           k.linked => mm.cur \in {"SelectReader", "ConnectCard", "UpdateRetry"}
    PROVE  Knows(mm, c, p, k, s)
  <1>1. CASE mm.cur \in {"SelectReader", "ConnectCard", "UpdateRetry"}
    <2>1. At(mm.cur, c, n, k, s) /\ \A e \in Elements(mm.events) : Says(e, c, n, k, s)
      BY DEF Knows
    <2>2. CanKept(n, k) <=> CanKept(p, k)
      BY DEF CanKept
    <2>3. At(mm.cur, c, p, k, s)
      BY <1>1, <2>1, <2>2, AtFacts
    <2>4. \A e \in Elements(mm.events) :
              /\ e.type = "inserted" => e.counter = k.tries
              /\ e.type = "done" /\ e.op = "update" /\ e.code = "OK" => e.counter = k.tries
      BY <2>1 DEF Says
    <2> QED BY <1>1, <2>3, <2>4, KnowsCalm
  <1>2. CASE ~k.linked
    <2>1. Current(p, k) /\ CanKept(p, k)
      BY <1>2 DEF Current, CanKept
    <2>2. \A cur : Ready(cur, c, n, k, s) => Ready(cur, c, p, k, s)
      BY <1>2, <2>1 DEF Ready
    <2>3. \A cur : At(cur, c, n, k, s) => At(cur, c, p, k, s)
      BY <1>2, <2>1, <2>2 DEF At
    <2>4. \A e : Says(e, c, n, k, s) => Says(e, c, p, k, s)
      BY <1>2, <2>1 DEF Says, PaceTold
    <2> QED BY <2>2, <2>3, <2>4 DEF Knows
  <1> QED BY <1>1, <1>2

(* An event is taken that only reports.                                    *)
LEMMA RestKnows ==
    ASSUME IInv, OInv, ctx.status = "ok", m.cur # "stopped", m.events # <<>>, Event \notin Tokens
    PROVE  /\ InStep(Rest, card) /\ Knows(Rest, ctx, conn, card, spent)
           /\ Rest \in Machines /\ Rest.cur = m.cur /\ Rest.listening = m.listening
           /\ m.listening # {} => Calm(Rest, card)
           /\ Says(Event, ctx, conn, card, spent) /\ Event \in Events
           /\ Rest.listening \subseteq {Rest.cur}
           /\ \A e \in Elements(Rest.events) : /\ m.listening # {} => e \notin Tokens
                                               /\ e.type = "inserted" => e.counter = card.tries
  <1>1. InStep(m, card) /\ Knows(m, ctx, conn, card, spent)
    BY KnownNow
  <1>2. /\ InStep(Rest, card) /\ (~Busy(m) => ~Busy(Rest))
        /\ Elements(m.events) = Elements(Rest.events) \cup {Event} /\ Event \in Events
        /\ \A S : Free(m.events, S) <=> Free(Rest.events, S) /\ Event \notin S
    BY <1>1, RestInStep
  <1>3. /\ Rest \in Machines /\ Rest.cur = m.cur /\ Rest.cmds = m.cmds
        /\ Rest.listening = m.listening
    BY StateFacts, RestParts
  <1>4. \A e \in Elements(m.events) : Says(e, ctx, conn, card, spent)
    BY <1>1 DEF Knows
  <1>5. Free(Rest.events, Paced) => Free(m.events, Paced)
    BY <1>2, TokenKinds
  <1>6. Knows(Rest, ctx, conn, card, spent)
    BY <1>1, <1>2, <1>3, <1>4, <1>5 DEF Knows
  <1>7. m.listening # {} => ~Busy(Rest)
    BY <1>1, <1>2 DEF InStep
  <1>8. \A e \in Elements(Rest.events) : /\ m.listening # {} => e \notin Tokens
                                         /\ e.type = "inserted" => e.counter = card.tries
    BY <1>2, <1>4, <1>7 DEF Says, Busy, Free
  <1> QED BY <1>1, <1>2, <1>3, <1>4, <1>6, <1>7, <1>8 DEF Calm, InStep

LEMMA ListeningFacts ==
    ASSUME IInv, OInv, ctx.status = "ok", m.cur # "stopped", m.events # <<>>,
           Event \in Created \/ (card.linked /\ Event \in Moves)
    PROVE  /\ m.cur \in {"SelectReader", "ConnectCard", "UpdateRetry"}
           /\ m.cur = "ConnectCard" => Linking(m) /\ m.listening # {}
  <1>1. InStep(m, card)
    BY KnownNow
  <1>2. \A S : Free(m.events, S) => Event \notin S
    <2>1. Elements(m.events) = Elements(Rest.events) \cup {Event}
      BY <1>1, RestInStep
    <2> QED BY <2>1 DEF Free
  <1>3. Linking(m) => m.cur = "ConnectCard"
    BY <1>1 DEF InStep, Linking
  <1>4. /\ m.cur \in {"SelectReader", "ConnectCard", "UpdateRetry"}
        /\ m.cur = "ConnectCard" => Linking(m)
    BY <1>1, <1>2, <1>3 DEF InStep, Passing
  <1> QED BY <1>4 DEF Linking

LEMMA CreateDoneOnce ==
    ASSUME IInv, IInv', OInv, CreateDone PROVE OInv'
  <1>1. /\ Completes("create") /\ card' = card /\ spent' = spent
        /\ m.cur # "stopped"
    BY DEF CreateDone, Environment, Completes, Handles
  <1>2. /\ m.events # <<>> /\ Event \in Events /\ Event.type = "done" /\ Event.op = "create"
        /\ ctx \in Contexts /\ conn \in Connections /\ m \in Machines
    BY <1>1, DoneFacts, StateFacts
  <1>3. Event \in Created /\ Event \notin Tokens /\ "ConnectCard" \in States
    BY <1>2, TokenKinds, StateNames
  <1>4. CASE ctx' = OnAbort(UpdateStatus(ctx, "error")) /\ m' = Fire(Rest, ctx', "ConnectCard", "abort")
    <2>1. ctx'.status # "ok"
      BY <1>2, <1>4, AbortFacts
    <2> QED BY <1>1, <1>2, <1>3, <1>4, <2>1, MoveStep
  <1>5. CASE /\ conn' = [counter |-> Event.counter, can |-> FALSE, pin |-> FALSE] /\ ctx' = ctx
             /\ m' = Fire(Release(Rest), ctx', "ConnectCard", "continue")
    <2> DEFINE mm == Release(Rest)
    <2>1. Rest \in Machines /\ Rest.cmds = m.cmds
      BY <1>2, RestParts
    <2>2. /\ mm \in Machines /\ mm.cur = Rest.cur /\ mm.events = Rest.events
          /\ mm.listening = Rest.listening /\ Attempts(mm.cmds, card, spent)
      <3>1. Attempts(Rest.cmds, card, spent)
        BY <2>1 DEF OInv
      <3> QED BY <2>1, <3>1, ReleaseParts, OtherAttempts
    <2>3. ~conn'.can /\ CanKept(conn', card)
      BY <1>5 DEF CanKept
    <2>4. CASE ctx.status # "ok"
      BY <1>1, <1>2, <1>3, <1>5, <2>4, MoveStep
    <2>5. ASSUME ctx.status = "ok"
          PROVE  /\ InStep(Rest, card) /\ Knows(Rest, ctx, conn, card, spent) /\ Rest.cur = m.cur
                 /\ m.listening # {} => Calm(Rest, card) /\ Calm(mm, card)
                 /\ InStep(mm, card)
                 /\ m.cur \in {"SelectReader", "ConnectCard", "UpdateRetry"}
                 /\ m.cur = "ConnectCard" => m.listening # {}
                 /\ \A e \in Elements(Rest.events) : m.listening # {} => e \notin Tokens
                 /\ \A e \in Elements(Rest.events) :
                        /\ e.type = "inserted" => e.counter = card.tries
                        /\ e.type = "done" /\ e.op = "update" /\ e.code = "OK" => e.counter = card.tries
                 /\ Wasted(ctx, spent) => Lower(ctx, card)
      <3>1. /\ InStep(Rest, card) /\ Knows(Rest, ctx, conn, card, spent)
            /\ Rest.cur = m.cur /\ (m.listening # {} => Calm(Rest, card))
            /\ \A e \in Elements(Rest.events) : m.listening # {} => e \notin Tokens
        BY <1>1, <1>2, <1>3, <2>5, RestKnows
      <3>2. /\ m.cur \in {"SelectReader", "ConnectCard", "UpdateRetry"}
            /\ m.cur = "ConnectCard" => m.listening # {}
        BY <1>1, <1>2, <1>3, <2>5, ListeningFacts
      <3>3. InStep(mm, card) /\ (Calm(Rest, card) => Calm(mm, card))
        BY <3>1, ReleaseInStep DEF Calm
      <3>4. At(m.cur, ctx, conn, card, spent) /\ \A e \in Elements(Rest.events) : Says(e, ctx, conn, card, spent)
        BY <3>1 DEF Knows
      <3>5. Wasted(ctx, spent) => Lower(ctx, card)
        BY <3>2, <3>4, AtFacts
      <3>6. \A e \in Elements(Rest.events) :
                /\ e.type = "inserted" => e.counter = card.tries
                /\ e.type = "done" /\ e.op = "update" /\ e.code = "OK" => e.counter = card.tries
        BY <3>4 DEF Says
      <3> QED BY <3>1, <3>2, <3>3, <3>5, <3>6
    <2> HIDE DEF mm
    <2>6. m' = Fire(mm, ctx', "ConnectCard", "continue")
      BY <1>5 DEF mm
    <2>7. CASE ctx.status = "ok" /\ m.cur = "ConnectCard"
      <3> DEFINE to == "UpdateRetry"
      <3>1. to = Target("ConnectCard", "ConnectCard", "continue") /\ to \in States
        BY PaceTargets, StateNames
      <3>2. At(to, ctx', conn', card, spent)
        BY <1>5, <2>3, <2>5, <2>7, AtFacts
      <3>3. Settled(to, ctx', conn', card', spent')
        BY <1>1, <3>2 DEF Settled
      <3>4. Attempts(mm.cmds, card', spent')
        BY <1>1, <2>2
      <3>5. /\ Calm(mm, card') /\ to = Target(mm.cur, "ConnectCard", "continue")
            /\ \A e \in Elements(mm.events) : /\ e \notin Tokens
                                              /\ e.type = "inserted" => e.counter = card'.tries
        BY <1>1, <2>2, <2>5, <2>7, <3>1
      <3>6. ctx'.status = "ok" =>
               /\ Calm(mm, card') /\ (Passed(mm, card') \/ to \in {"SelectReader", "UpdateRetry"})
               /\ to = Target(mm.cur, "ConnectCard", "continue") /\ to \in States
               /\ Settled(to, ctx', conn', card', spent')
               /\ \A e \in Elements(mm.events) : /\ e \notin Tokens
                                                 /\ e.type = "inserted" => e.counter = card'.tries
        BY <3>1, <3>3, <3>5
      <3> QED BY <1>3, <2>2, <2>6, <3>4, <3>6, FireStep
    <2>8. CASE ctx.status = "ok" /\ m.cur # "ConnectCard"
      <3>1. Target(mm.cur, "ConnectCard", "continue") = "ignored"
        BY <2>2, <2>5, <2>8 DEF Target
      <3>2. m' = mm
        BY <2>6, <3>1 DEF Fire
      <3>3. m.cur \in {"SelectReader", "UpdateRetry"} /\ mm.cur = m.cur
        BY <2>2, <2>5, <2>8
      <3>4. At(mm.cur, ctx, conn', card, spent)
        BY <2>3, <2>5, <2>8, <3>3, AtFacts
      <3>5. Knows(mm, ctx, conn', card, spent)
        BY <2>2, <2>5, <2>8, <3>3, <3>4, KnowsCalm
      <3> QED BY <1>1, <1>5, <2>2, <2>5, <2>8, <3>2, <3>5, OInvNow
    <2> QED BY <2>4, <2>7, <2>8
  <1> QED BY <1>4, <1>5 DEF CreateDone, Emit

LEMMA CardRemovedOnce ==
    ASSUME IInv, IInv', OInv, CardRemoved PROVE OInv'
  <1>1. /\ m.events # <<>> /\ m.cur # "stopped" /\ Event.type = "removed"
        /\ card' = card /\ spent' = spent
    BY DEF CardRemoved, Handles
  <1>2. /\ ctx \in Contexts /\ conn \in Connections /\ m \in Machines
        /\ Rest \in Machines /\ Rest.cmds = m.cmds /\ Rest.cur = m.cur /\ Event \in Events
        /\ Rest.listening = m.listening
    BY <1>1, StateFacts, RestParts
  <1>3. Event \in Moves /\ Event \notin Tokens /\ "ConnectCard" \in States
    BY <1>1, <1>2, TokenKinds, StateNames
  <1>4. Attempts(Rest.cmds, card, spent)
    BY <1>2 DEF OInv
  <1>5. ctx.status = "ok" =>
            /\ InStep(Rest, card) /\ Knows(Rest, ctx, conn, card, spent)
            /\ m.listening # {} => Calm(Rest, card)
            /\ Rest.listening \subseteq {Rest.cur}
            /\ \A e \in Elements(Rest.events) : /\ m.listening # {} => e \notin Tokens
                                                /\ e.type = "inserted" => e.counter = card.tries
            /\ card.linked => m.cur \in {"SelectReader", "ConnectCard", "UpdateRetry"}
    BY <1>1, <1>3, RestKnows, ListeningFacts
  <1>6. CASE /\ "ConnectCard" \in m.listening /\ ctx' = [ctx EXCEPT !.reader = FALSE] /\ conn' = NoConn
             /\ m' = Fire(Release(Rest), ctx', "ConnectCard", "retry")
    <2> DEFINE mm == Release(Rest)
               to == "SelectReader"
    <2>1. mm \in Machines /\ mm.cur = Rest.cur /\ mm.events = Rest.events /\ Attempts(mm.cmds, card', spent')
      BY <1>1, <1>2, <1>4, ReleaseParts, OtherAttempts
    <2>2. ctx'.status = ctx.status /\ ctx'.pin = ctx.pin /\ ctx'.expected = ctx.expected
      BY <1>2, <1>6 DEF Contexts
    <2>3. to = Target("ConnectCard", "ConnectCard", "retry") /\ to \in States
      BY PaceTargets, StateNames
    <2>4. ASSUME ctx'.status = "ok"
          PROVE  /\ Calm(mm, card') /\ to = Target(mm.cur, "ConnectCard", "retry")
                 /\ Settled(to, ctx', conn', card', spent')
                 /\ \A e \in Elements(mm.events) : /\ e \notin Tokens
                                                   /\ e.type = "inserted" => e.counter = card'.tries
      <3>1. m.cur = "ConnectCard" /\ m.listening # {}
        BY <1>2, <1>5, <1>6, <2>2, <2>4
      <3>2. Calm(mm, card)
        BY <1>5, <2>2, <2>4, <3>1, ReleaseInStep DEF Calm
      <3>3. At("ConnectCard", ctx, conn, card, spent)
        BY <1>2, <1>5, <2>2, <2>4, <3>1 DEF Knows
      <3>4. Wasted(ctx', spent) => Lower(ctx', card)
        <4>1. Wasted(ctx, spent) => Lower(ctx, card)
          BY <3>3, AtFacts
        <4> QED BY <4>1, <2>2 DEF Wasted, Lower
      <3>5. At(to, ctx', conn', card, spent)
        BY <1>6, <3>4, NoConnFacts, AtFacts
      <3>6. Settled(to, ctx', conn', card, spent)
        BY <3>5 DEF Settled
      <3> HIDE DEF mm
      <3> QED BY <1>1, <1>2, <1>5, <2>1, <2>2, <2>3, <2>4, <3>1, <3>2, <3>6
    <2>5. m' = Fire(mm, ctx', "ConnectCard", "retry")
      BY <1>6
    <2> HIDE DEF mm
    <2> QED BY <1>3, <2>1, <2>3, <2>4, <2>5, FireStep
  <1>7. CASE /\ m' = Rest /\ ctx' = ctx
             /\ conn' = (IF conn = NoConn THEN conn ELSE [conn EXCEPT !.counter = -1])
    <2>1. conn'.can = conn.can /\ (conn = NoConn => conn' = NoConn) /\ (conn' # NoConn => conn'.counter = -1)
      BY <1>2, <1>7 DEF Connections
    <2>2. ctx.status = "ok" => Knows(Rest, ctx, conn', card, spent)
      BY <1>2, <1>5, <2>1, CounterKnown
    <2> QED BY <1>1, <1>4, <1>5, <1>7, <2>2, OInvNow
  <1> QED BY <1>6, <1>7 DEF CardRemoved

LEMMA CardInsertedOnce ==
    ASSUME IInv, IInv', OInv, CardInserted PROVE OInv'
  <1> DEFINE mm == IF "ConnectCard" \in m.listening THEN CreateConnection(Rest) ELSE Rest
  <1>1. /\ m.events # <<>> /\ m.cur # "stopped" /\ Event.type = "inserted"
        /\ card' = card /\ spent' = spent
        /\ conn' = (IF conn = NoConn THEN conn ELSE [conn EXCEPT !.counter = Event.counter])
        /\ ctx' = [ctx EXCEPT !.reader = @ \/ "SelectReader" \in m.listening]
        /\ m' = (IF "SelectReader" \in m.listening
                 THEN Fire(mm, ctx', "SelectReader", "continue") ELSE mm)
    BY DEF CardInserted, Handles
  <1>2. /\ ctx \in Contexts /\ conn \in Connections /\ m \in Machines
        /\ Rest \in Machines /\ Rest.cmds = m.cmds /\ Rest.cur = m.cur /\ Event \in Events
        /\ Rest.listening = m.listening
    BY <1>1, StateFacts, RestParts
  <1>3. Event \in Moves /\ Event \notin Tokens /\ "SelectReader" \in States
    BY <1>1, <1>2, TokenKinds, StateNames
  <1>4. Attempts(Rest.cmds, card, spent) /\ Attempts(mm.cmds, card', spent') /\ mm \in Machines
        /\ mm.cur = Rest.cur /\ mm.events = Rest.events
    <2>1. Attempts(Rest.cmds, card, spent)
      BY <1>2 DEF OInv
    <2>2. CASE "ConnectCard" \in m.listening
      BY <1>1, <1>2, <2>1, <2>2, CreateParts, OtherAttempts
    <2>3. CASE "ConnectCard" \notin m.listening
      BY <1>1, <1>2, <2>1, <2>3
    <2> QED BY <2>1, <2>2, <2>3
  <1>5. /\ ctx'.status = ctx.status /\ ctx'.pin = ctx.pin /\ ctx'.expected = ctx.expected
        /\ "SelectReader" \notin m.listening => ctx' = ctx
    <2>1. ctx'.status = ctx.status /\ ctx'.pin = ctx.pin /\ ctx'.expected = ctx.expected
      BY <1>1, <1>2 DEF Contexts
    <2>2. "SelectReader" \notin m.listening => ctx' = ctx
      BY <1>1, <1>2 DEF Contexts
    <2> QED BY <2>1, <2>2
  <1>6. ctx.status = "ok" =>
            /\ InStep(Rest, card) /\ Knows(Rest, ctx, conn, card, spent)
            /\ m.listening # {} => Calm(Rest, card)
            /\ Rest.listening \subseteq {Rest.cur}
            /\ \A e \in Elements(Rest.events) : /\ m.listening # {} => e \notin Tokens
                                                /\ e.type = "inserted" => e.counter = card.tries
            /\ card.linked => m.cur \in {"SelectReader", "ConnectCard", "UpdateRetry"}
            /\ Event.counter = card.tries
    BY <1>1, <1>3, RestKnows, ListeningFacts DEF Says
  <1>7. ctx.status = "ok" => /\ conn'.can = conn.can /\ (conn = NoConn => conn' = NoConn)
                             /\ conn' # NoConn => conn'.counter \in {-1, card.tries}
    BY <1>1, <1>2, <1>6 DEF Connections
  <1>8. ctx.status = "ok" => Knows(Rest, ctx, conn', card, spent)
    BY <1>2, <1>6, <1>7, CounterKnown
  <1> HIDE DEF mm
  <1>9. ASSUME "SelectReader" \in m.listening PROVE OInv'
    <2> DEFINE to == "ConnectCard"
    <2>1. m' = Fire(mm, ctx', "SelectReader", "continue")
      BY <1>1, <1>9
    <2>2. to = Target("SelectReader", "SelectReader", "continue") /\ to \in States
      BY PaceTargets, StateNames
    <2>3. ASSUME ctx'.status = "ok"
          PROVE  /\ Calm(mm, card') /\ Passed(mm, card') /\ to = Target(mm.cur, "SelectReader", "continue")
                 /\ Settled(to, ctx', conn', card', spent')
                 /\ \A e \in Elements(mm.events) : /\ e \notin Tokens
                                                   /\ e.type = "inserted" => e.counter = card'.tries
      <3>1. m.cur = "SelectReader" /\ "ConnectCard" \notin m.listening /\ m.listening # {}
        BY <1>2, <1>5, <1>6, <1>9, <2>3
      <3>2. mm = Rest
        BY <3>1 DEF mm
      <3>3. Calm(Rest, card)
        BY <1>5, <1>6, <2>3, <3>1
      <3>4. Passed(Rest, card)
        <4>1. Rest.events \in Seq(Events) /\ Free(Rest.events, Tokens)
          BY <1>2, <3>3, MachineParts DEF Calm, Busy
        <4>2. \A S : Passing(Rest, S) => Free(Rest.events, S)
          <5>1. ~Linking(Rest)
            BY <1>2, <3>1 DEF Linking
          <5> QED BY <4>1, <5>1, RunMissing DEF Passing
        <4> QED BY <3>3, <4>2 DEF Calm, InStep, Passed
      <3>5. At("SelectReader", ctx, conn', card, spent)
        BY <1>2, <1>5, <1>8, <2>3, <3>1 DEF Knows
      <3>6. Wasted(ctx', spent) => Lower(ctx', card)
        <4>1. Wasted(ctx, spent) => Lower(ctx, card)
          BY <3>5, AtFacts
        <4> QED BY <4>1, <1>5 DEF Wasted, Lower
      <3>7. At(to, ctx', conn', card, spent)
        BY <3>5, <3>6, AtFacts
      <3>8. Settled(to, ctx', conn', card, spent)
        BY <3>7 DEF Settled
      <3> QED BY <1>1, <1>2, <1>5, <1>6, <2>2, <2>3, <3>1, <3>2, <3>3, <3>4, <3>8
    <2> QED BY <1>3, <1>4, <2>1, <2>2, <2>3, FireStep
  <1>10. ASSUME "SelectReader" \notin m.listening, "ConnectCard" \in m.listening PROVE OInv'
    <2>1. m' = mm /\ mm = CreateConnection(Rest)
      BY <1>1, <1>10 DEF mm
    <2>2. ASSUME ctx.status = "ok"
          PROVE  Calm(mm, card) /\ Settled(mm.cur, ctx, conn', card, spent)
      <3>1. m.cur = "ConnectCard" /\ Calm(Rest, card) /\ Linking(Rest)
        BY <1>2, <1>6, <1>10, <2>2 DEF Linking
      <3>2. Calm(mm, card)
        BY <2>1, <3>1, CreateInStep DEF Calm
      <3>3. At(mm.cur, ctx, conn', card, spent)
        BY <1>4, <1>8, <2>2 DEF Knows
      <3> QED BY <1>2, <1>4, <3>1, <3>2, <3>3 DEF Settled
    <2>3. ctx' = ctx
      BY <1>5, <1>10
    <2> QED BY <1>1, <1>4, <1>6, <1>10, <2>1, <2>2, <2>3, StayStep
  <1>11. ASSUME "SelectReader" \notin m.listening, "ConnectCard" \notin m.listening PROVE OInv'
    <2>1. m' = Rest /\ ctx' = ctx
      BY <1>1, <1>5, <1>11 DEF mm
    <2> QED BY <1>1, <1>4, <1>6, <1>8, <2>1, OInvNow
  <1> QED BY <1>9, <1>10, <1>11

-----------------------------------------------------------------------------
(* The user, and the card in the reader.                                   *)

LEMMA StartOnce ==
    ASSUME IInv, IInv', OInv, Start PROVE OInv'
  <1>1. /\ m.cur = "none" /\ m' = Enter(m, ctx, "Maintain") /\ ctx' = ctx /\ conn' = conn
        /\ card' = card /\ spent' = spent
    BY DEF Start
  <1>2. m \in Machines /\ ctx \in Contexts /\ "Maintain" \in States /\ "none" \notin States
    BY StateFacts, StateNames
  <1>3. m' \in Machines /\ m'.cur = "Maintain" /\ m'.cmds = m.cmds
    BY <1>1, <1>2, EnterParts
  <1>4. Attempts(m'.cmds, card', spent')
    BY <1>1, <1>3 DEF OInv
  <1>5. ASSUME ctx.status = "ok"
        PROVE  InStep(m', card) /\ Knows(m', ctx, conn, card, spent)
    <2>1. InStep(m, card) /\ Knows(m, ctx, conn, card, spent)
      BY <1>1, <1>5, KnownNow
    <2>2. /\ \A e \in Elements(m.events) : e \in Events /\ OwnEvent(e, m)
          /\ \A x \in Elements(m.cmds) : x \in Commands /\ OwnCmd(x, m)
      BY <1>2, <2>1, ElementTypes DEF InStep
    <2>3. m.listening = {} /\ ~Linking(m)
      <3>1. m.listening \subseteq {"none"} /\ m.listening \subseteq {"SelectReader", "ConnectCard"}
        BY <1>1, <1>2, <2>1, MachineParts DEF InStep
      <3> QED BY <3>1 DEF Linking
    <2>4. \A e \in Elements(m.events) : e \notin Tokens
      <3> SUFFICES ASSUME NEW e \in Elements(m.events), e \in Tokens PROVE FALSE
        OBVIOUS
      <3>1. e.st \in States
        BY <2>2, TokenKinds, EventFields
      <3> QED BY <1>1, <1>2, <2>2, <3>1 DEF OwnEvent
    <2>5. \A x \in Elements(m.cmds) : x \notin Work
      <3> SUFFICES ASSUME NEW x \in Elements(m.cmds), x \in Work PROVE FALSE
        OBVIOUS
      <3>1. x.owner \in States
        BY <2>2 DEF Commands
      <3> QED BY <1>1, <1>2, <2>2, <3>1 DEF OwnCmd
    <2>6. Still(m)
      <3>1. ~Busy(m)
        BY <2>4, <2>5 DEF Busy, Free
      <3>2. \A e \in Elements(m.events) : e.type = "done" => e.st \in Owners[e.op]
        BY <2>2 DEF OwnEvent
      <3>3. \A x \in Elements(m.cmds) : /\ x.op # "release" => x.owner \in Owners[x.op]
                                        /\ x.op = "create" => ~x.wired
        BY <2>2, <2>3 DEF OwnCmd
      <3> QED BY <1>2, <2>3, <3>1, <3>2, <3>3 DEF Still
    <2>7. Passed(m, card)
      BY <1>1, <2>1, <2>3 DEF InStep, Passing, Passed
    <2>8. /\ InStep(m', card) /\ Free(m'.cmds, Work)
          /\ \A e \in Elements(m'.events) :
                 e \in Elements(m.events) \/ e = Run("Maintain") \/ e = Cancel("Maintain")
      BY <1>1, <1>2, <2>6, <2>7, EnterInStep
    <2>9. \A e \in Elements(m'.events) : /\ e \in Tokens => e.type = "run"
                                         /\ e.type = "inserted" => e.counter = card.tries
      <3>1. /\ Run("Maintain").type = "run" /\ Cancel("Maintain").type = "cancel"
            /\ Cancel("Maintain") \notin Tokens
        BY <1>2, TokenKinds
      <3>2. \A e \in Elements(m.events) : e.type = "inserted" => e.counter = card.tries
        BY <2>1 DEF Knows, Says
      <3> QED BY <2>4, <2>8, <3>1, <3>2
    <2>10. conn = NoConn /\ spent = 0
      BY <1>1, <2>1 DEF Knows, At
    <2>11. ~Wasted(ctx, spent)
      BY <2>10 DEF Wasted
    <2>12. At("Maintain", ctx, conn, card, spent)
      BY <2>10, <2>11, NoConnFacts, AtFacts
    <2> QED BY <1>3, <2>8, <2>9, <2>12, KnowsMoved DEF Settled
  <1> QED BY <1>1, <1>4, <1>5, OInvNow

(* A state that waited for the user is approved.                           *)
LEMMA ApproveOnce ==
    ASSUME IInv, IInv', OInv, ~m.approved, m' = Approved(m), conn' = conn, card' = card,
           m.cur \in {"EnterPassword", "EnterNewPin", "Unfortunate", "Final"},
           Attempts(m.cmds, card, spent'),
           ctx'.status = "ok" =>
               /\ ctx.status = "ok"
               /\ At(m.cur, ctx, conn, card, spent) => At(m.cur, ctx', conn, card, spent')
    PROVE  OInv'
  <1> DEFINE mm == [m EXCEPT !.approved = TRUE]
             e  == Run(m.cur)
  <1>1. m \in Machines /\ m.cur \in States /\ m.cur # "stopped" /\ m.cur # "Establish"
    BY StateFacts, StateNames
  <1>2. /\ mm \in Machines /\ mm.cur = m.cur /\ mm.events = m.events /\ mm.cmds = m.cmds
        /\ mm.listening = m.listening /\ mm.approved
    BY <1>1 DEF Machines
  <1>3. e \in Events /\ e \in Tokens /\ e.type = "run" /\ e.st = m.cur /\ e \notin Created \cup Moves
    BY <1>1, EventKinds, TokenKinds
  <1>4. m' = Post(mm, e)
    BY DEF Approved
  <1> HIDE DEF mm, e
  <1>5. /\ m' \in Machines /\ m'.cur = m.cur /\ m'.events = Append(m.events, e)
        /\ m'.listening = m.listening /\ m'.approved = mm.approved /\ m'.cmds = m.cmds
    <2> DEFINE p == Post(mm, e)
    <2>1. /\ p \in Machines /\ p.cur = mm.cur /\ p.events = Append(mm.events, e)
          /\ p.listening = mm.listening /\ p.approved = mm.approved /\ p.cmds = mm.cmds
      BY <1>2, <1>3, PostParts
    <2>2. m' = p
      BY <1>4
    <2> HIDE DEF p
    <2> QED BY ONLY <1>2, <2>1, <2>2
  <1>6. Attempts(m'.cmds, card', spent')
    BY <1>5
  <1>7. ASSUME ctx'.status = "ok"
        PROVE  InStep(m', card) /\ Knows(m', ctx', conn, card, spent')
    <2>1. InStep(m, card) /\ Knows(m, ctx, conn, card, spent)
      BY <1>1, <1>7, KnownNow
    <2>2. m.listening = {} /\ ~Busy(m)
      <3>1. m.listening \subseteq {m.cur} /\ m.listening \subseteq {"SelectReader", "ConnectCard"}
        BY <1>1, <2>1, MachineParts DEF InStep
      <3> QED BY <2>1, <3>1 DEF InStep
    <2>3. ~Busy(mm)
      BY <1>2, <2>2 DEF Busy
    <2>4. InStep(mm, card)
      <3>1. \A f \in Elements(mm.events) : OwnEvent(f, mm)
        BY <1>2, <2>1 DEF InStep, OwnEvent
      <3>2. \A x \in Elements(mm.cmds) : OwnCmd(x, mm)
        BY <1>2, <2>1 DEF InStep, OwnCmd, Linking
      <3>3. \A S : Passing(m, S) => Passing(mm, S)
        BY <1>2 DEF Passing, Linking
      <3> QED BY <1>2, <2>1, <2>3, <3>1, <3>2, <3>3 DEF InStep
    <2>5. OwnEvent(e, mm)
      BY <1>2, <1>3 DEF OwnEvent
    <2>6. InStep(m', card)
      BY <1>2, <1>3, <1>5, <2>2, <2>3, <2>4, <2>5, PostInStep
    <2>7. Elements(m'.events) = Elements(m.events) \cup {e} /\ Free(m.events, Tokens) /\ Free(m'.cmds, Work)
      <3>1. m.events \in Seq(Events)
        BY <1>1, MachineParts
      <3> QED BY <1>3, <1>5, <2>2, <3>1, ElementsAppend DEF Busy
    <2>8. \A f \in Elements(m'.events) : /\ f \in Tokens => f.type = "run"
                                         /\ f.type = "inserted" => f.counter = card.tries
      <3>1. \A f \in Elements(m.events) : f \notin Tokens /\ (f.type = "inserted" => f.counter = card.tries)
        BY <2>1, <2>7 DEF Free, Knows, Says
      <3> QED BY <1>3, <2>7, <3>1
    <2>9. At(m'.cur, ctx', conn, card, spent')
      BY <1>5, <1>7, <2>1 DEF Knows
    <2>10. Settled(m'.cur, ctx', conn, card, spent')
      BY <1>1, <1>5, <2>9 DEF Settled
    <2> QED BY <1>5, <2>6, <2>7, <2>8, <2>10, KnowsMoved
  <1> QED BY <1>6, <1>7, OInvNow

LEMMA EntryOnce ==
    ASSUME IInv, IInv', OInv, EnterPassword \/ EnterNewPin \/ Confirm PROVE OInv'
  <1>0. ctx \in Contexts /\ spent \in Nat /\ Attempts(m.cmds, card, spent)
    BY StateFacts DEF OInv
  <1>1. CASE EnterPassword
    <2>1. /\ m.cur = "EnterPassword" /\ ~m.approved /\ m' = Approved(m) /\ conn' = conn /\ card' = card
          /\ spent' = 0 \/ (spent' = spent /\ ctx'.pin = ctx.pin)
          /\ ctx'.status = ctx.status /\ ctx'.expected = ctx.expected /\ ctx'.paceType = ctx.paceType
      <3>1. /\ m.cur = "EnterPassword" /\ ~m.approved /\ m' = Approved(m) /\ conn' = conn /\ card' = card
        BY <1>1 DEF EnterPassword
      <3>2. CASE spent' = 0 /\ \E pin \in Pins : ctx' = [ctx EXCEPT !.pin = pin]
        BY <1>0, <3>1, <3>2 DEF Contexts
      <3>3. CASE spent' = spent /\ \E can \in Secrets : ctx' = [ctx EXCEPT !.can = can]
        BY <1>0, <3>1, <3>3 DEF Contexts
      <3>4. CASE spent' = spent /\ \E puk \in Secrets : ctx' = [ctx EXCEPT !.puk = puk]
        BY <1>0, <3>1, <3>4 DEF Contexts
      <3> QED BY <1>1, <3>2, <3>3, <3>4 DEF EnterPassword
    <2>2. Attempts(m.cmds, card, spent')
      BY <1>0, <2>1 DEF Attempts
    <2>3. At(m.cur, ctx, conn, card, spent) => At(m.cur, ctx', conn, card, spent')
      <3>1. Ready("EnterPassword", ctx, conn, card, spent) => Ready("EnterPassword", ctx', conn, card, spent')
        BY <2>1 DEF Ready, Wasted
      <3> QED BY <2>1, <3>1, AtFacts
    <2> QED BY <2>1, <2>2, <2>3, ApproveOnce
  <1>2. CASE EnterNewPin
    <2>1. /\ m.cur = "EnterNewPin" /\ ~m.approved /\ m' = Approved(m) /\ conn' = conn /\ card' = card
          /\ spent' = spent /\ ctx' = [ctx EXCEPT !.newPin = "new"]
      BY <1>2 DEF EnterNewPin
    <2>2. ctx'.status = ctx.status /\ ctx'.pin = ctx.pin
      BY <1>0, <2>1 DEF Contexts
    <2>3. Wasted(ctx', spent) <=> Wasted(ctx, spent)
      BY <2>2 DEF Wasted
    <2>4. At(m.cur, ctx, conn, card, spent) => At(m.cur, ctx', conn, card, spent')
      BY <2>1, <2>3, AtFacts
    <2> QED BY <1>0, <2>1, <2>2, <2>4, ApproveOnce
  <1>3. CASE Confirm
    <2>1. /\ m.cur \in {"Unfortunate", "Final"} /\ ~m.approved /\ m' = Approved(m)
          /\ conn' = conn /\ card' = card /\ spent' = spent /\ ctx' = ctx
      BY <1>3 DEF Confirm
    <2> QED BY <1>0, <2>1, ApproveOnce
  <1> QED BY <1>1, <1>2, <1>3

(* A cancelled workflow only has to keep the PIN commands in order.        *)
LEMMA CancelOnce ==
    ASSUME IInv', NEW mm \in Machines, Attempts(mm.cmds, card, spent), card' = card, spent' = spent,
           NEW c, c \in Contexts, ctx'.status # "ok", CancelIn(mm, c), mm.cur = m.cur
    PROVE  OInv'
  <1>1. m' \in Machines /\ ctx' \in Contexts
    BY NextTypes
  <1>2. CASE Running
    <2>1. m' = Fire(mm, ctx', mm.cur, "abort")
      BY <1>2 DEF CancelIn
    <2>2. mm.cur \in States
      BY <1>2, MachineParts DEF Running
    <2>3. Attempts(m'.cmds, card', spent')
      BY <1>1, <2>1, <2>2, FireAttempts
    <2> QED BY <2>3, OInvNow
  <1>3. CASE ~Running
    <2>1. m' = mm
      BY <1>3 DEF CancelIn
    <2> QED BY <2>1, OInvNow
  <1> QED BY <1>2, <1>3

LEMMA CancelsOnce ==
    ASSUME IInv, IInv', OInv, CancelWorkflow \/ KillWorkflow PROVE OInv'
  <1>1. m \in Machines /\ ctx \in Contexts /\ Attempts(m.cmds, card, spent)
    BY StateFacts DEF OInv
  <1>2. CASE CancelWorkflow
    <2>1. CancelIn(m, ctx) /\ Running /\ card' = card /\ spent' = spent
      BY <1>2 DEF CancelWorkflow
    <2>2. [ctx EXCEPT !.cancelled = TRUE] \in Contexts
      BY <1>1 DEF Contexts
    <2>3. ctx'.status # "ok"
      BY <2>1, <2>2, AbortFacts DEF CancelIn
    <2> QED BY <1>1, <2>1, <2>3, CancelOnce
  <1>3. CASE KillWorkflow
    <2> DEFINE c  == [ctx EXCEPT !.killed = TRUE, !.status = "cancelled"]
               mm == IF m.approved THEN m
                     ELSE IF m.cur = "none" THEN [m EXCEPT !.approved = TRUE] ELSE Approved(m)
    <2>1. CancelIn(mm, c) /\ m.cur # "stopped" /\ card' = card /\ spent' = spent
      BY <1>3 DEF KillWorkflow
    <2>2. c \in Contexts /\ [c EXCEPT !.cancelled = TRUE] \in Contexts
      BY <1>1 DEF Contexts
    <2>3. [c EXCEPT !.cancelled = TRUE].status = "cancelled"
      BY <1>1 DEF Contexts
    <2>4. ctx'.status # "ok"
      BY <2>1, <2>2, <2>3, AbortFacts DEF CancelIn
    <2>5. mm \in Machines /\ mm.cmds = m.cmds /\ mm.cur = m.cur
      <3> DEFINE nn == [m EXCEPT !.approved = TRUE]
      <3>1. nn \in Machines /\ nn.cmds = m.cmds /\ nn.cur = m.cur
        BY <1>1 DEF Machines
      <3>2. CASE m.approved
        BY <1>1, <3>2
      <3>3. CASE ~m.approved /\ m.cur = "none"
        BY <3>1, <3>3
      <3>4. CASE ~m.approved /\ m.cur # "none"
        <4>1. m.cur \in States
          BY <1>1, <2>1, <3>4, MachineParts
        <4>2. Run(m.cur) \in Events /\ mm = Post(nn, Run(m.cur))
          BY <3>4, <4>1, EventKinds DEF Approved
        <4> HIDE DEF nn, mm
        <4> QED BY <3>1, <4>2, PostParts
      <3> QED BY <3>2, <3>3, <3>4
    <2> HIDE DEF mm, c
    <2> QED BY <1>1, <2>1, <2>2, <2>4, <2>5, CancelOnce
  <1> QED BY <1>2, <1>3

(* A card that is no longer connected is told less about.                  *)
LEMMA FewerKnown ==
    ASSUME NEW k, NEW l, l.tries = k.tries, l.linked => k.linked /\ l.session = k.session,
           NEW c, NEW n, NEW s
    PROVE  /\ \A cur : At(cur, c, n, k, s) => At(cur, c, n, l, s)
           /\ \A cur : Ready(cur, c, n, k, s) => Ready(cur, c, n, l, s)
           /\ \A e : Says(e, c, n, k, s) => Says(e, c, n, l, s)
           /\ \A mm : Knows(mm, c, n, k, s) => Knows(mm, c, n, l, s)
  <1>1. (Current(n, k) => Current(n, l)) /\ (CanKept(n, k) => CanKept(n, l)) /\ (Lower(c, k) <=> Lower(c, l))
    BY DEF Current, CanKept, Lower
  <1>2. \A cur : Ready(cur, c, n, k, s) => Ready(cur, c, n, l, s)
    BY <1>1 DEF Ready
  <1>3. \A cur : At(cur, c, n, k, s) => At(cur, c, n, l, s)
    BY <1>1, <1>2 DEF At
  <1>4. \A e : Says(e, c, n, k, s) => Says(e, c, n, l, s)
    BY <1>1 DEF Says, PaceTold
  <1>5. \A mm : Knows(mm, c, n, k, s) => Knows(mm, c, n, l, s)
    BY <1>2, <1>3, <1>4 DEF Knows
  <1> QED BY <1>2, <1>3, <1>4, <1>5

LEMMA CardOnce ==
    ASSUME IInv, IInv', OInv, RemoveCard \/ InsertCard PROVE OInv'
  <1> DEFINE e == IF card.present THEN Removed ELSE Inserted(card.tries)
  <1>1. /\ m.cur # "stopped" /\ ctx' = ctx /\ conn' = conn /\ spent' = spent
        /\ m' = Post(m, e) /\ m \in Machines /\ card \in Cards
        /\ card'.tries = card.tries /\ ~card'.linked
    <2>1. m \in Machines /\ card \in Cards /\ Attempts(m.cmds, card, spent)
      BY StateFacts DEF OInv
    <2>2. CASE RemoveCard
      <3>1. card' = [card EXCEPT !.present = FALSE, !.linked = FALSE, !.known = -1, !.session = Nothing]
        BY <2>2 DEF RemoveCard
      <3>2. card'.tries = card.tries /\ ~card'.linked
        BY <2>1, <3>1 DEF Cards
      <3> QED BY <2>1, <2>2, <3>2 DEF RemoveCard
    <2>3. CASE InsertCard
      <3>1. card' = [card EXCEPT !.present = TRUE, !.known = card.tries] /\ ~card.linked
        BY <2>1, <2>3 DEF InsertCard, Attempts
      <3>2. card'.tries = card.tries /\ ~card'.linked
        BY <2>1, <3>1 DEF Cards
      <3> QED BY <2>1, <2>3, <3>2 DEF InsertCard
    <2> QED BY <2>2, <2>3
  <1>2. /\ e \in Events /\ e \notin Tokens \cup Created /\ e.type \in {"removed", "inserted"}
        /\ e.type = "inserted" => e.counter = card.tries
    <2>1. card.tries \in 0..3
      BY <1>1 DEF Cards
    <2> QED BY <2>1, EventKinds, TokenKinds
  <1> HIDE DEF e
  <1>3. /\ m' \in Machines /\ m'.cur = m.cur /\ m'.events = Append(m.events, e)
        /\ m'.listening = m.listening /\ m'.approved = m.approved /\ m'.cmds = m.cmds
    <2> DEFINE p == Post(m, e)
    <2>1. /\ p \in Machines /\ p.cur = m.cur /\ p.events = Append(m.events, e)
          /\ p.listening = m.listening /\ p.approved = m.approved /\ p.cmds = m.cmds
      BY <1>1, <1>2, PostParts
    <2>2. m' = p
      BY <1>1
    <2> HIDE DEF p
    <2> QED BY ONLY <2>1, <2>2
  <1>4. Attempts(m'.cmds, card', spent')
    <2>1. Attempts(m.cmds, card, spent) /\ MayTry(card')
      BY <1>1 DEF OInv, MayTry
    <2> QED BY <1>1, <1>3, <2>1 DEF Attempts
  <1>5. ASSUME ctx.status = "ok"
        PROVE  InStep(m', card') /\ Knows(m', ctx, conn, card', spent)
    <2>1. InStep(m, card) /\ Knows(m, ctx, conn, card, spent)
      BY <1>1, <1>5, KnownNow
    <2>2. OwnEvent(e, m)
      BY <1>2 DEF OwnEvent
    <2>3. InStep(m', card')
      BY <1>1, <1>2, <1>3, <2>1, <2>2, PostInStep
    <2>4. Knows(m, ctx, conn, card', spent)
      BY <1>1, <2>1, FewerKnown
    <2>5. /\ Elements(m'.events) = Elements(m.events) \cup {e}
          /\ \A S : Free(m'.events, S) => Free(m.events, S)
      <3>1. m.events \in Seq(Events)
        BY <1>1, MachineParts
      <3> QED BY <1>2, <1>3, <3>1, ElementsAppend
    <2>6. Says(e, ctx, conn, card', spent)
      BY <1>1, <1>2 DEF Says
    <2> QED BY <1>3, <2>3, <2>4, <2>5, <2>6 DEF Knows
  <1> QED BY <1>1, <1>4, <1>5, OInvNow

-----------------------------------------------------------------------------
(* The worker thread.                                                      *)

(* A command is taken from the queue.                                      *)
LEMMA TakenFacts ==
    ASSUME IInv, m.cmds # <<>>
    PROVE  LET mm == [m EXCEPT !.cmds = Tail(@)]
           IN  /\ mm \in Machines /\ mm.cur = m.cur /\ mm.events = m.events /\ mm.cmds = Tail(m.cmds)
               /\ mm.listening = m.listening /\ mm.approved = m.approved
               /\ Cmd \in Commands
               /\ Elements(m.cmds) = Elements(mm.cmds) \cup {Cmd}
               /\ \A k : InStep(m, k) => InStep(mm, k) /\ (Busy(mm) => Busy(m)) /\ OwnCmd(Cmd, m)
               /\ \A c, n, k, s : Knows(m, c, n, k, s) => Knows(mm, c, n, k, s)
  <1> DEFINE mm == [m EXCEPT !.cmds = Tail(@)]
  <1>1. m \in Machines /\ m.cmds \in Seq(Commands)
    BY StateFacts, MachineParts
  <1>2. /\ Tail(m.cmds) \in Seq(Commands) /\ Cmd \in Commands
        /\ Elements(m.cmds) = Elements(Tail(m.cmds)) \cup {Cmd}
        /\ \A S : Free(m.cmds, S) <=> Free(Tail(m.cmds), S) /\ Cmd \notin S
        /\ \A S : Only(m.cmds, S) => Only(Tail(m.cmds), S)
    <2>1. Tail(m.cmds) \in Seq(Commands) /\ Cmd \in Commands
      BY <1>1, TailFacts DEF Cmd
    <2> QED BY <1>1, <2>1, ElementsTail DEF Cmd
  <1>3. /\ mm \in Machines /\ mm.cur = m.cur /\ mm.events = m.events /\ mm.cmds = Tail(m.cmds)
        /\ mm.listening = m.listening /\ mm.approved = m.approved
    BY <1>1, <1>2 DEF Machines
  <1> HIDE DEF mm
  <1>4. ASSUME NEW k, InStep(m, k)
        PROVE  InStep(mm, k) /\ (Busy(mm) => Busy(m)) /\ OwnCmd(Cmd, m)
    <2>1. Busy(mm) => Busy(m)
      BY <1>2, <1>3 DEF Busy
    <2>2. \A f \in Elements(mm.events) : OwnEvent(f, mm)
      BY <1>3, <1>4 DEF InStep, OwnEvent
    <2>3. \A x \in Elements(mm.cmds) : OwnCmd(x, mm)
      BY <1>2, <1>3, <1>4 DEF InStep, OwnCmd, Linking
    <2>4. \A S : Passing(m, S) => Passing(mm, S)
      BY <1>3 DEF Passing, Linking
    <2>5. OwnCmd(Cmd, m)
      BY <1>2, <1>4 DEF InStep
    <2> QED BY <1>2, <1>3, <1>4, <2>1, <2>2, <2>3, <2>4, <2>5 DEF InStep
  <1>5. \A c, n, k, s : Knows(m, c, n, k, s) => Knows(mm, c, n, k, s)
    BY <1>2, <1>3 DEF Knows
  <1> QED BY <1>2, <1>3, <1>4, <1>5 DEF mm

LEMMA ExecuteReleaseOnce ==
    ASSUME IInv, IInv', OInv, ExecuteRelease PROVE OInv'
  <1> DEFINE mm == [m EXCEPT !.cmds = Tail(@)]
  <1>1. /\ m.cmds # <<>> /\ m' = mm /\ ctx' = ctx /\ conn' = conn /\ spent' = spent
        /\ card' = [card EXCEPT !.linked = FALSE, !.session = Nothing]
    BY DEF ExecuteRelease, Executes
  <1>2. card'.tries = card.tries /\ ~card'.linked
    BY <1>1, StateFacts DEF Cards
  <1>3. /\ mm.cur = m.cur /\ mm.cmds = Tail(m.cmds)
        /\ \A k : InStep(m, k) => InStep(mm, k)
        /\ \A c, n, k, s : Knows(m, c, n, k, s) => Knows(mm, c, n, k, s)
    BY <1>1, TakenFacts
  <1> HIDE DEF mm
  <1>4. Attempts(mm.cmds, card', spent)
    <2>1. m.cmds \in Seq(Commands) /\ Attempts(m.cmds, card, spent)
      BY StateFacts, MachineParts DEF OInv
    <2>2. /\ Ahead(Tail(m.cmds)) /\ (spent = 1 => Free(Tail(m.cmds), PinPaces))
      BY <1>1, <2>1, AttemptsTail
    <2> QED BY <1>2, <1>3, <2>1, <2>2 DEF Attempts, MayTry
  <1>5. ASSUME ctx.status = "ok", m.cur # "stopped"
        PROVE  InStep(mm, card') /\ Knows(mm, ctx, conn, card', spent)
    <2>1. InStep(m, card) /\ Knows(m, ctx, conn, card, spent)
      BY <1>5, KnownNow
    <2>2. InStep(mm, card) /\ Knows(mm, ctx, conn, card, spent)
      BY <1>3, <2>1
    <2>3. InStep(mm, card')
      BY <1>2, <2>2 DEF InStep
    <2> QED BY <1>2, <2>2, <2>3, FewerKnown
  <1> QED BY <1>1, <1>3, <1>4, <1>5, OInvNow

LEMMA ExecuteCreateOnce ==
    ASSUME IInv, IInv', OInv, ExecuteCreate PROVE OInv'
  <1> DEFINE mm == [m EXCEPT !.cmds = Tail(@)]
  <1>1. /\ m.cmds # <<>> /\ Cmd.op = "create" /\ ctx' = ctx /\ conn' = conn /\ spent' = spent
        /\ m \in Machines /\ card \in Cards /\ Cmd \in Commands
        /\ m.cmds \in Seq(Commands) /\ Attempts(m.cmds, card, spent)
    <2>1. m.cmds # <<>> /\ Cmd.op = "create" /\ ctx' = ctx /\ conn' = conn /\ spent' = spent
      BY DEF ExecuteCreate, Executes
    <2> QED BY <2>1, StateFacts, MachineParts, TakenFacts DEF OInv
  <1>2. /\ card'.tries = card.tries /\ (card'.linked => card'.present)
        /\ card'.linked => Cmd.wired \/ (card.linked /\ card' = card)
        /\ card' = card \/ ~card.linked
    <2>1. CASE /\ card.present /\ ~card.linked
               /\ card' = [card EXCEPT !.linked = Cmd.wired, !.session = Nothing]
      <3>1. Cmd.wired \in BOOLEAN
        BY <1>1 DEF Commands
      <3> QED BY <1>1, <2>1, <3>1 DEF Cards
    <2>2. CASE card' = card
      BY <1>1, <2>2 DEF Attempts
    <2> QED BY <2>1, <2>2 DEF ExecuteCreate
  <1>3. PICK code \in Codes, n \in -2..3 : Answer(code, n)
    <2>1. "OK" \in Codes /\ "COMMAND_FAILED" \in Codes /\ card.known \in -2..3 /\ 0 \in -2..3
      BY <1>1 DEF Cards, Codes, FatalCodes
    <2> QED BY <2>1 DEF ExecuteCreate
  <1>4. /\ mm \in Machines /\ mm.cur = m.cur /\ mm.events = m.events /\ mm.cmds = Tail(m.cmds)
        /\ mm.listening = m.listening /\ mm.approved = m.approved
        /\ \A k : InStep(m, k) => InStep(mm, k) /\ OwnCmd(Cmd, m)
        /\ \A c, l, k, s : Knows(m, c, l, k, s) => Knows(mm, c, l, k, s)
    BY <1>1, TakenFacts
  <1>5. Attempts(mm.cmds, card', spent)
    <2>1. /\ Ahead(Tail(m.cmds)) /\ (spent = 1 => Free(Tail(m.cmds), PinPaces))
          /\ Free(Tail(m.cmds), PinPaces) \/ (MayTry(card) /\ Harmless(Cmd))
      BY <1>1, AttemptsTail DEF Cmd
    <2>2. Harmless(Cmd) => ~Cmd.wired
      BY <1>1 DEF Harmless
    <2>3. Harmless(Cmd) /\ MayTry(card) => MayTry(card')
      BY <1>2, <2>2 DEF MayTry
    <2> QED BY <1>1, <1>2, <1>4, <2>1, <2>3 DEF Attempts
  <1>6. CASE ~Cmd.wired
    <2>1. m' = mm
      <3>1. m' = [m EXCEPT !.cmds = Tail(@), !.events = @]
        BY <1>3, <1>6 DEF Answer
      <3> QED BY <1>1, <3>1 DEF Machines
    <2> HIDE DEF mm
    <2>2. ASSUME ctx.status = "ok", m.cur # "stopped"
          PROVE  InStep(mm, card') /\ Knows(mm, ctx, conn, card', spent)
      <3>1. InStep(m, card) /\ Knows(m, ctx, conn, card, spent)
        BY <2>2, KnownNow
      <3>2. InStep(mm, card) /\ Knows(mm, ctx, conn, card, spent)
        BY <1>4, <3>1
      <3>3. card'.linked => card.linked /\ card'.session = card.session
        BY <1>2, <1>6
      <3>4. InStep(mm, card')
        BY <3>2, <3>3 DEF InStep
      <3> QED BY <1>2, <3>2, <3>3, <3>4, FewerKnown
    <2> QED BY <1>1, <1>4, <1>5, <2>1, <2>2, OInvNow
  <1>7. CASE Cmd.wired
    <2> DEFINE e == Done(Cmd, code, n)
    <2>1. /\ e \in Events /\ e.type = "done" /\ e.op = "create" /\ e.st = Cmd.owner
      <3>1. Cmd.owner \in States /\ Cmd.arg \in PaceTypes \cup {Nothing}
        BY <1>1 DEF Commands
      <3> QED BY <1>1, <3>1 DEF Done, Events
    <2>2. e \in Created /\ e \notin Tokens /\ e \notin Moves
      BY <2>1, TokenKinds
    <2> HIDE DEF e
    <2>3. /\ m' \in Machines /\ m'.cur = mm.cur /\ m'.events = Append(mm.events, e)
          /\ m'.cmds = mm.cmds /\ m'.listening = mm.listening /\ m'.approved = mm.approved
      <3>1. m' = [m EXCEPT !.cmds = Tail(m.cmds), !.events = Append(m.events, e)]
        BY <1>3, <1>7 DEF Answer, e
      <3>2. Append(m.events, e) \in Seq(Events) /\ Tail(m.cmds) \in Seq(Commands)
        <4>1. m.events \in Seq(Events)
          BY <1>1, MachineParts
        <4>2. Tail(m.cmds) \in Seq(Commands)
          BY <1>4, MachineParts
        <4> QED BY <2>1, <4>1, <4>2, AppendFacts
      <3> QED BY <1>1, <1>4, <3>1, <3>2 DEF Machines
    <2> HIDE DEF mm
    <2>4. ASSUME ctx.status = "ok", m.cur # "stopped"
          PROVE  InStep(m', card') /\ Knows(m', ctx, conn, card', spent)
      <3>1. InStep(m, card) /\ Knows(m, ctx, conn, card, spent)
        BY <2>4, KnownNow
      <3>2. InStep(mm, card) /\ OwnCmd(Cmd, m)
        BY <1>4, <3>1
      <3>3. Cmd.owner = "ConnectCard" /\ Linking(m) /\ Linking(mm)
        BY <1>1, <1>4, <1>7, <3>2, OwnersFacts DEF OwnCmd, Linking
      <3>4. m.cur = "ConnectCard"
        BY <3>1, <3>3 DEF InStep, Linking
      <3>5. OwnEvent(e, mm)
        BY <2>1, <2>2, <3>3, OwnersFacts DEF OwnEvent
      <3>6. InStep(m', card')
        BY <2>1, <2>2, <2>3, <3>2, <3>3, <3>5, PostInStep
      <3>7. Elements(m'.events) = Elements(m.events) \cup {e}
        <4>1. m.events \in Seq(Events)
          BY <1>1, MachineParts
        <4> QED BY <1>4, <2>1, <2>3, <4>1, ElementsAppend
      <3>8. \A f \in Elements(m'.events) :
                /\ f.type = "inserted" => f.counter = card'.tries
                /\ f.type = "done" /\ f.op = "update" /\ f.code = "OK" => f.counter = card'.tries
        BY <1>2, <2>1, <3>1, <3>7 DEF Knows, Says
      <3>9. At("ConnectCard", ctx, conn, card', spent)
        <4>1. At("ConnectCard", ctx, conn, card, spent)
          BY <3>1, <3>4 DEF Knows
        <4>2. ~conn.can /\ (Wasted(ctx, spent) => Lower(ctx, card))
          BY <4>1, AtFacts
        <4>3. Lower(ctx, card) => Lower(ctx, card')
          BY <1>2 DEF Lower
        <4> QED BY <4>2, <4>3, AtFacts
      <3>10. m'.cur = "ConnectCard"
        BY <1>4, <2>3, <3>4
      <3>11. Knows(m', ctx, conn, card', spent)
        BY <3>6, <3>8, <3>9, <3>10, KnowsCalm
      <3> QED BY <3>6, <3>11
    <2>5. m'.cmds = mm.cmds /\ m'.cur = m.cur
      BY <1>4, <2>3
    <2> QED BY <1>1, <1>5, <2>4, <2>5, OInvNow
  <1> QED BY <1>6, <1>7

(* The command of a state is answered.                                     *)
LEMMA AnswerOnce ==
    ASSUME IInv, IInv', OInv, m.cmds # <<>>, Cmd.op \in {"update", "pace", "reset", "set", "destroy"},
           ctx' = ctx, conn' = conn, NEW code \in Codes, NEW n \in -2..3, Answer(code, n),
           spent' <= 1, card'.linked => card.linked /\ card'.present,
           card'.tries = card.tries \/ card.linked,
           /\ ctx.status = "ok" /\ m.cur \in Owners[Cmd.op] /\ OwnCmd(Cmd, m)
           /\ At(m.cur, ctx, conn, card, spent)
           /\ Cmd.op = "pace" => /\ Ready("Establish", ctx, conn, card, spent)
                                 /\ Cmd.arg = ctx.paceType /\ Cmd.arg # Nothing
           => /\ At(m.cur, ctx, conn, card', spent')
              /\ Says(Done(Cmd, code, n), ctx, conn, card', spent')
    PROVE  OInv'
  <1>1. /\ m \in Machines /\ m.cmds \in Seq(Commands) /\ Attempts(m.cmds, card, spent)
        /\ Cmd \in Commands
    BY StateFacts, MachineParts, TakenFacts DEF OInv
  <1>2. Cmd \in Work /\ Cmd.op \notin {"release", "create"} /\ ~Harmless(Cmd)
    BY <1>1, PinPaceFacts DEF Harmless
  <1>3. m'.cmds = Tail(m.cmds) /\ m'.cur = m.cur
    BY <1>1 DEF Answer, Machines
  <1>4. Attempts(m'.cmds, card', spent')
    <2>1. Ahead(Tail(m.cmds)) /\ (Free(Tail(m.cmds), PinPaces) \/ Harmless(Cmd))
      BY <1>1, AttemptsTail DEF Cmd
    <2> QED BY <1>2, <1>3, <2>1 DEF Attempts
  <1>5. ASSUME ctx.status = "ok", m.cur # "stopped"
        PROVE  InStep(m', card') /\ Knows(m', ctx, conn, card', spent')
    <2> DEFINE e == Done(Cmd, code, n)
    <2>1. InStep(m, card) /\ Knows(m, ctx, conn, card, spent)
      BY <1>5, KnownNow
    <2>2. /\ InStep(m', card') /\ m.cur \in Owners[Cmd.op]
          /\ Elements(m'.events) = Elements(m.events) \cup {e}
          /\ Free(m.events, Tokens) /\ Free(m'.cmds, Work)
          /\ card.linked => Free(m.events, Moves)
          /\ e \in Events
      BY <1>2, <2>1, AnswerInStep
    <2>3. OwnCmd(Cmd, m) /\ Cmd \in Elements(m.cmds)
      BY <2>1, TakenFacts
    <2>4. \A f \in Elements(m.events) : f \in Events /\ f \notin Tokens
      BY <1>1, <2>2, ElementTypes DEF Free
    <2>5. At(m.cur, ctx, conn, card, spent) /\ \A f \in Elements(m.events) : Says(f, ctx, conn, card, spent)
      BY <2>1 DEF Knows
    <2>6. Cmd.op = "pace" => /\ Ready("Establish", ctx, conn, card, spent)
                             /\ Cmd.arg = ctx.paceType /\ Cmd.arg # Nothing
      <3> SUFFICES ASSUME Cmd.op = "pace"
                   PROVE  /\ Ready("Establish", ctx, conn, card, spent)
                          /\ Cmd.arg = ctx.paceType /\ Cmd.arg # Nothing
        OBVIOUS
      <3>1. m.cur = "Establish"
        BY <2>2, OwnersFacts
      <3>2. Free(m.events, Paced)
        BY <2>4, TokenKinds DEF Free
      <3> QED BY <2>1, <2>3, <3>1, <3>2 DEF Knows
    <2>7. At(m.cur, ctx, conn, card', spent') /\ Says(e, ctx, conn, card', spent')
      BY <1>5, <2>2, <2>3, <2>5, <2>6
    <2>8. \A f \in Elements(m.events) : Says(f, ctx, conn, card', spent')
      <3> SUFFICES ASSUME NEW f \in Elements(m.events) PROVE Says(f, ctx, conn, card', spent')
        OBVIOUS
      <3>1. f \in Events /\ f \notin Tokens /\ Says(f, ctx, conn, card, spent)
        BY <2>4, <2>5
      <3>2. f.type = "inserted" => f.counter = card'.tries
        <4>1. CASE card.linked
          <5>1. f \notin Moves
            BY <2>2, <4>1 DEF Free
          <5> QED BY <3>1, <5>1, TokenKinds
        <4>2. CASE ~card.linked
          BY <3>1, <4>2 DEF Says
        <4> QED BY <4>1, <4>2
      <3> QED BY <3>1, <3>2, SaysFacts
    <2>9. m'.cur = "Establish" => ~Free(m'.events, Paced)
      <3> SUFFICES ASSUME m'.cur = "Establish" PROVE ~Free(m'.events, Paced)
        OBVIOUS
      <3>1. Cmd.op = "pace"
        BY <1>3, <2>2, OwnersFacts
      <3>2. e.type = "done" /\ e.op = "pace"
        BY <3>1 DEF Done
      <3>3. e \in Paced
        BY <2>2, <3>2, TokenKinds
      <3> HIDE DEF e
      <3> QED BY <2>2, <3>3 DEF Free
    <2>10. \A x \in Elements(m'.cmds) : x.op # "pace"
      <3>1. m' \in Machines
        BY <2>2 DEF InStep
      <3>2. \A x \in Elements(m'.cmds) : x \in Commands /\ x \notin Work
        BY <2>2, <3>1, ElementTypes DEF Free
      <3> QED BY <3>2, PinPaceFacts
    <2> HIDE DEF e
    <2> QED BY <1>3, <2>2, <2>7, <2>8, <2>9, <2>10 DEF Knows
  <1> QED BY <1>3, <1>4, <1>5, OInvNow

(* An answer to anything but PACE tells the counter at most.               *)
LEMMA DoneSays ==
    ASSUME NEW code, NEW n, NEW c, NEW l, NEW k, NEW s, Cmd.op # "pace",
           Cmd.op = "update" /\ code = "OK" => n = k.tries
    PROVE  Says(Done(Cmd, code, n), c, l, k, s)
  BY DEF Says, Done

LEMMA ExecuteUpdateOnce ==
    ASSUME IInv, IInv', OInv, ExecuteUpdate PROVE OInv'
  <1>1. /\ m.cmds # <<>> /\ Cmd.op = "update" /\ ctx' = ctx /\ conn' = conn /\ spent' = spent
        /\ card \in Cards /\ Attempts(m.cmds, card, spent)
    BY StateFacts DEF ExecuteUpdate, Executes, OInv
  <1>2. PICK code \in Codes, n \in -2..3 :
            Answer(code, n) /\ (code = "OK" => n = card.tries)
    <2>1. card.tries \in -2..3
      BY <1>1 DEF Cards
    <2> QED BY <2>1, AnswerCodes DEF ExecuteUpdate
  <1>3. /\ card'.tries = card.tries /\ card'.linked = card.linked /\ card'.present = card.present
        /\ card'.session = card.session
    <2>1. card' = [card EXCEPT !.known = card.tries] \/ card' = card
      BY DEF ExecuteUpdate
    <2> QED BY <1>1, <2>1 DEF Cards
  <1>4. spent' <= 1 /\ (card'.linked => card.linked /\ card'.present)
    BY <1>1, <1>3 DEF Attempts
  <1>5. \A cur : At(cur, ctx, conn, card, spent) => At(cur, ctx, conn, card', spent')
    BY <1>1, <1>3, FewerKnown
  <1>6. Says(Done(Cmd, code, n), ctx, conn, card', spent')
    BY <1>1, <1>2, <1>3, DoneSays
  <1> QED BY <1>1, <1>2, <1>3, <1>4, <1>5, <1>6, AnswerOnce

LEMMA ExecuteSetOnce ==
    ASSUME IInv, IInv', OInv, ExecuteSet PROVE OInv'
  <1>1. /\ m.cmds # <<>> /\ Cmd.op = "set" /\ ctx' = ctx /\ conn' = conn /\ spent' = spent
        /\ card \in Cards /\ Attempts(m.cmds, card, spent)
    BY StateFacts DEF ExecuteSet, Executes, OInv
  <1>2. PICK code \in Codes, n \in -2..3 : Answer(code, n)
    BY AnswerCodes DEF ExecuteSet
  <1>3. /\ card'.tries = card.tries /\ card'.linked = card.linked /\ card'.present = card.present
        /\ card'.session = card.session
    <2>1. card' \in {card, [card EXCEPT !.pin = IF Cmd.pw = Nothing THEN @ ELSE Cmd.pw]}
      BY DEF ExecuteSet
    <2> QED BY <1>1, <2>1 DEF Cards
  <1>4. spent' <= 1 /\ (card'.linked => card.linked /\ card'.present)
    BY <1>1, <1>3 DEF Attempts
  <1>5. \A cur : At(cur, ctx, conn, card, spent) => At(cur, ctx, conn, card', spent')
    BY <1>1, <1>3, FewerKnown
  <1>6. Says(Done(Cmd, code, n), ctx, conn, card', spent')
    BY <1>1, DoneSays
  <1> QED BY <1>1, <1>2, <1>3, <1>4, <1>5, <1>6, AnswerOnce

(* Ending a PACE session and unblocking the PIN happen in states that ask  *)
(* nothing of the card they leave behind.                                  *)
LEMMA ExecuteDestroyOnce ==
    ASSUME IInv, IInv', OInv, ExecuteDestroy PROVE OInv'
  <1>1. /\ m.cmds # <<>> /\ Cmd.op = "destroy" /\ ctx' = ctx /\ conn' = conn /\ spent' = spent
        /\ card \in Cards /\ Attempts(m.cmds, card, spent) /\ Answer("OK", 0)
    BY StateFacts DEF ExecuteDestroy, Executes, OInv
  <1>2. card'.tries = card.tries /\ card'.linked = card.linked /\ card'.present = card.present
    <2>1. card' = [card EXCEPT !.session = Nothing]
      BY DEF ExecuteDestroy
    <2> QED BY <1>1, <2>1 DEF Cards
  <1>3. spent' <= 1 /\ (card'.linked => card.linked /\ card'.present)
    BY <1>1, <1>2 DEF Attempts
  <1>4. ASSUME m.cur \in Owners[Cmd.op], At(m.cur, ctx, conn, card, spent)
        PROVE  At(m.cur, ctx, conn, card', spent')
    <2>1. m.cur \in {"PaceDestroy", "Destroy"}
      BY <1>1, <1>4, OwnersFacts
    <2> QED BY <1>1, <1>2, <1>4, <2>1, AtFacts
  <1>5. Says(Done(Cmd, "OK", 0), ctx, conn, card', spent')
    BY <1>1, DoneSays
  <1> QED BY <1>1, <1>2, <1>3, <1>4, <1>5, AnswerCodes, AnswerOnce

LEMMA ExecuteResetOnce ==
    ASSUME IInv, IInv', OInv, ExecuteReset PROVE OInv'
  <1>1. /\ m.cmds # <<>> /\ Cmd.op = "reset" /\ ctx' = ctx /\ conn' = conn /\ spent' = spent
        /\ card \in Cards /\ Attempts(m.cmds, card, spent)
    BY StateFacts DEF ExecuteReset, Executes, OInv
  <1>2. PICK code \in Codes, n \in -2..3 : Answer(code, n)
    BY AnswerCodes DEF ExecuteReset
  <1>3. /\ card'.linked = card.linked /\ card'.present = card.present
        /\ card'.tries = card.tries \/ card.linked
    <2>1. card' = card \/ (card.linked /\ card' = [card EXCEPT !.tries = 3])
      BY DEF ExecuteReset
    <2> QED BY <1>1, <2>1 DEF Cards
  <1>4. spent' <= 1 /\ (card'.linked => card.linked /\ card'.present)
    BY <1>1, <1>3 DEF Attempts
  <1>5. ASSUME m.cur \in Owners[Cmd.op], At(m.cur, ctx, conn, card, spent)
        PROVE  At(m.cur, ctx, conn, card', spent')
    <2>1. m.cur = "ResetRetry"
      BY <1>1, <1>5, OwnersFacts
    <2> QED BY <1>1, <1>3, <1>5, <2>1, AtFacts
  <1>6. Says(Done(Cmd, code, n), ctx, conn, card', spent')
    BY <1>1, DoneSays
  <1> QED BY <1>1, <1>2, <1>3, <1>4, <1>5, <1>6, AnswerOnce

(* What PACE leaves behind: a wrong PIN costs one attempt of a card that   *)
(* had it left, the right password is the session of a connected card.     *)
LEMMA PaceOutcome ==
    ASSUME IInv, ExecutePace
    PROVE  /\ card'.linked = card.linked /\ card'.present = card.present
           /\ card'.tries = card.tries \/ card.linked
           /\ \E code \in Codes :
                  /\ Answer(code, 0) /\ code \notin {"OK_CAN", "OK_PUK"}
                  /\ code = "OK" =>
                         card.linked /\ card'.session = Cmd.arg /\ spent' = spent
                  /\ Cmd.arg \in {"CAN", "PUK"} => card'.tries = card.tries /\ spent' = spent
                  /\ \/ spent' = spent
                     \/ /\ card.linked /\ spent' = spent + 1
                        /\ Cmd.arg = "PIN" => card'.tries = card.tries - 1
  <1> DEFINE code  == PaceCode(Cmd.arg, Cmd.pw)
             after == PaceCard(Cmd.arg, code)
             wrong == IF code \in {"INVALID_PIN", "INVALID_PIN_2", "INVALID_PIN_3"} THEN 1 ELSE 0
  <1>1. Executes("pace")
    BY DEF ExecutePace
  <1>2. /\ card \in Cards /\ spent \in Nat /\ Cmd.arg \in PaceTypes \cup {Nothing}
        /\ card.tries \in 0..3
    BY <1>1, StateFacts, CmdFacts DEF Cards
  <1>3. /\ code \in {"OK", "INVALID_CAN", "INVALID_PUK", "INVALID_PIN", "INVALID_PIN_2",
                     "INVALID_PIN_3", "PROTOCOL_ERROR"}
        /\ wrong = 1 => Cmd.arg \notin {"CAN", "PUK"}
        /\ after \in Cards /\ after.linked = card.linked /\ after.present = card.present
        /\ code = "OK" => after.session = Cmd.arg
        /\ Cmd.arg # "PIN" => after.tries = card.tries
        /\ Cmd.arg = "PIN" /\ wrong = 1 => after.tries = card.tries - 1
    <2>1. /\ code \in {"OK", "INVALID_CAN", "INVALID_PUK", "INVALID_PIN", "INVALID_PIN_2",
                       "INVALID_PIN_3", "PROTOCOL_ERROR"}
          /\ after \in Cards
      BY <1>2, PaceCardType
    <2>2. wrong = 1 => Cmd.arg \notin {"CAN", "PUK"} /\ code # "OK" /\ code # "PROTOCOL_ERROR"
      BY DEF PaceCode
    <2>3. /\ after.linked = card.linked /\ after.present = card.present
          /\ after.session = IF code = "OK" THEN Cmd.arg ELSE Nothing
          /\ after.tries = IF Cmd.arg # "PIN" \/ code = "PROTOCOL_ERROR" THEN card.tries
                           ELSE IF code = "OK" THEN 3 ELSE card.tries - 1
      BY <1>2 DEF PaceCard, Cards
    <2> HIDE DEF code, after
    <2> QED BY <2>1, <2>2, <2>3
  <1>4. wrong \in {0, 1} /\ (code = "OK" => wrong = 0)
    OBVIOUS
  <1> HIDE DEF code, after, wrong
  <1>5. CASE /\ card' = card /\ spent' = spent
             /\ Answer("PIN_NOT_BLOCKED", 0) \/ Answer(Unreachable, 0) \/ Answer("RESPONSE_EMPTY", 0)
    <2>1. \E c \in {"PIN_NOT_BLOCKED", "RESPONSE_EMPTY", "CARD_NOT_FOUND"} : Answer(c, 0)
      BY <1>5 DEF Unreachable
    <2> QED BY <1>5, <2>1, AnswerCodes
  <1>6. CASE /\ card.linked /\ card' = after /\ spent' = spent + wrong
             /\ Answer(code, 0) \/ Answer("RESPONSE_EMPTY", 0)
    <2>1. PICK c \in Codes : Answer(c, 0) /\ c \in {code, "RESPONSE_EMPTY"}
      BY <1>3, <1>6, AnswerCodes
    <2>2. c \notin {"OK_CAN", "OK_PUK"} /\ (c = "OK" => code = "OK")
      BY <1>3, <2>1
    <2>3. spent' = spent \/ (wrong = 1 /\ spent' = spent + 1)
      BY <1>2, <1>4, <1>6
    <2>4. c = "OK" => spent' = spent
      BY <1>2, <1>4, <1>6, <2>2
    <2> QED BY <1>2, <1>3, <1>6, <2>1, <2>2, <2>3, <2>4
  <1>7. \/ /\ card' = card /\ spent' = spent
           /\ Answer("PIN_NOT_BLOCKED", 0) \/ Answer(Unreachable, 0) \/ Answer("RESPONSE_EMPTY", 0)
        \/ /\ card.linked /\ card' = after /\ spent' = spent + wrong
           /\ Answer(code, 0) \/ Answer("RESPONSE_EMPTY", 0)
    BY DEF ExecutePace, code, after, wrong
  <1> QED BY <1>5, <1>6, <1>7

LEMMA ExecutePaceOnce ==
    ASSUME IInv, IInv', OInv, ExecutePace PROVE OInv'
  <1>1. /\ m.cmds # <<>> /\ Cmd.op = "pace" /\ ctx' = ctx /\ conn' = conn
        /\ card \in Cards /\ Attempts(m.cmds, card, spent) /\ spent \in Nat
        /\ Cmd \in Commands /\ Cmd.arg \in PaceTypes \cup {Nothing}
    <2>1. Executes("pace") /\ ctx' = ctx /\ conn' = conn
      BY DEF ExecutePace
    <2> QED BY <2>1, CmdFacts, StateFacts DEF OInv
  <1>2. /\ card'.linked = card.linked /\ card'.present = card.present
        /\ card'.tries = card.tries \/ card.linked
    BY PaceOutcome
  <1>3. PICK code \in Codes :
            /\ Answer(code, 0) /\ code \notin {"OK_CAN", "OK_PUK"}
            /\ code = "OK" => card.linked /\ card'.session = Cmd.arg /\ spent' = spent
            /\ Cmd.arg \in {"CAN", "PUK"} => card'.tries = card.tries /\ spent' = spent
            /\ \/ spent' = spent
               \/ /\ card.linked /\ spent' = spent + 1
                  /\ Cmd.arg = "PIN" => card'.tries = card.tries - 1
    BY PaceOutcome
  <1>4. spent' = spent \/ (spent = 0 /\ spent' = 1)
    <2>1. CASE Cmd.arg \in {"CAN", "PUK"}
      BY <1>3, <2>1
    <2>2. CASE Cmd.arg \notin {"CAN", "PUK"}
      <3>1. Cmd \in PinPaces /\ Cmd = m.cmds[1] /\ 1 \in 1..Len(m.cmds)
        <4>1. m.cmds \in Seq(Commands)
          BY StateFacts, MachineParts
        <4> QED BY <1>1, <2>2, <4>1, PinPaceFacts, TailFacts DEF Cmd
      <3>2. Cmd \in Elements(m.cmds)
        BY <3>1 DEF Elements
      <3>3. spent # 1 /\ spent <= 1
        BY <1>1, <3>1, <3>2 DEF Attempts, Free
      <3> QED BY <1>1, <1>3, <3>3
    <2> QED BY <2>1, <2>2
  <1>5. spent' <= 1 /\ (card'.linked => card.linked /\ card'.present)
    BY <1>1, <1>2, <1>4 DEF Attempts
  <1>6. ASSUME m.cur \in Owners[Cmd.op], Ready("Establish", ctx, conn, card, spent),
               Cmd.arg = ctx.paceType, Cmd.arg # Nothing
        PROVE  /\ At(m.cur, ctx, conn, card', spent')
               /\ Says(Done(Cmd, code, 0), ctx, conn, card', spent')
    <2>1. At(m.cur, ctx, conn, card', spent')
      <3>1. m.cur = "Establish"
        BY <1>1, <1>6, OwnersFacts
      <3> QED BY <3>1, AtFacts
    <2>2. /\ Current(conn, card) /\ CanKept(conn, card) /\ ~Wasted(ctx, spent)
          /\ card.linked => /\ ctx.expected = card.tries /\ conn # NoConn
                            /\ conn.counter = card.tries /\ Cmd.arg = Asked(conn)
      BY <1>6 DEF Ready, Current
    <2>3. /\ Cmd.arg = "CAN" /\ code = "OK" =>
                Current(conn, card') /\ (card'.linked => card'.tries = 1 /\ card'.session = "CAN")
      <3> SUFFICES ASSUME Cmd.arg = "CAN", code = "OK"
                   PROVE  Current(conn, card') /\ card'.tries = 1 /\ card'.session = "CAN"
        OBVIOUS
      <3>1. card'.tries = card.tries /\ card'.session = "CAN" /\ card.linked
        BY <1>3
      <3>2. Current(conn, card')
        BY <1>2, <2>2, <3>1 DEF Current
      <3>3. conn.counter = 1
        BY <2>2, <3>1 DEF Asked
      <3> QED BY <2>2, <3>1, <3>2, <3>3
    <2>4. Cmd.arg = "PUK" /\ card'.linked => ~conn.can
      <3> SUFFICES ASSUME Cmd.arg = "PUK", card'.linked PROVE ~conn.can
        OBVIOUS
      <3>1. card.linked /\ Asked(conn) = "PUK" /\ conn.counter = card.tries
        BY <1>2, <2>2
      <3>2. card.tries = 0
        BY <3>1 DEF Asked
      <3> QED BY <2>2, <3>1, <3>2 DEF CanKept
    <2>5. Wasted(ctx, spent') => Lower(ctx, card') /\ Cmd.arg = "PIN" /\ code # "OK"
      <3> SUFFICES ASSUME Wasted(ctx, spent') PROVE Lower(ctx, card') /\ Cmd.arg = "PIN" /\ code # "OK"
        OBVIOUS
      <3>1. spent' # spent
        BY <2>2
      <3>2. card.linked /\ Cmd.arg \notin {"CAN", "PUK"} /\ code # "OK"
        BY <1>3, <3>1
      <3>3. Cmd.arg = "PIN" /\ card'.tries = card.tries - 1
        BY <1>1, <1>3, <1>6, <3>1, <3>2 DEF PaceTypes
      <3>4. card.tries \in 0..3
        BY <1>1 DEF Cards
      <3> QED BY <2>2, <3>2, <3>3, <3>4 DEF Lower
    <2>6. Cmd.arg \in PaceTypes
      BY <1>1, <1>6
    <2> DEFINE e == Done(Cmd, code, 0)
    <2>7. e.type = "done" /\ e.op = "pace" /\ e.arg = Cmd.arg /\ e.code = code
      BY <1>1 DEF Done
    <2> HIDE DEF e
    <2>8. PaceTold(e, ctx, conn, card', spent')
      BY <1>3, <2>3, <2>4, <2>5, <2>6, <2>7 DEF PaceTold
    <2>9. Says(e, ctx, conn, card', spent')
      BY <2>7, <2>8 DEF Says
    <2> QED BY <2>1, <2>9 DEF e
  <1> QED BY <1>1, <1>2, <1>3, <1>5, <1>6, AnswerCodes, AnswerOnce

LEMMA OnceInitOK == Init => OInv
  <1> SUFFICES ASSUME Init PROVE OInv
    OBVIOUS
  <1>1. /\ m.cur = "none" /\ m.approved = FALSE /\ m.listening = {} /\ m.events = <<>>
        /\ m.cmds = <<>> /\ conn = NoConn /\ spent = 0 /\ card.linked = FALSE
    BY DEF Init
  <1>2. m \in Machines
    BY InitOK, StateFacts
  <1>3. Attempts(m.cmds, card, spent)
    BY <1>1, EmptyFacts DEF Attempts, Ahead
  <1>4. InStep(m, card)
    <2>1. /\ Only(m.events, Tokens) /\ Only(m.cmds, Work) /\ Free(m.events, Tokens)
          /\ Free(m.cmds, Work) /\ Elements(m.events) = {} /\ Elements(m.cmds) = {}
      BY <1>1, EmptyFacts
    <2>2. Passing(m, Created)
      BY <1>1, EmptyFacts DEF Passing
    <2> QED BY <1>1, <1>2, <2>1, <2>2 DEF InStep, Busy
  <1>5. Knows(m, ctx, conn, card, spent)
    <2>1. Elements(m.events) = {} /\ Elements(m.cmds) = {}
      BY <1>1, EmptyFacts
    <2>2. At("none", ctx, conn, card, spent)
      BY <1>1 DEF At, Before
    <2> QED BY <1>1, <2>1, <2>2 DEF Knows
  <1> QED BY <1>3, <1>4, <1>5 DEF OInv

LEMMA OnceStepOK == IInv /\ OInv /\ [Next]_vars => OInv'
  <1> SUFFICES ASSUME IInv, OInv, [Next]_vars PROVE OInv'
    OBVIOUS
  <1>1. IInv'
    BY StepOK
  <1>2. CASE Start
    BY <1>1, <1>2, StartOnce
  <1>3. CASE MainThread
    <2>1. CASE RunMaintain \/ RunSelectReader \/ RunConnectCard
      BY <1>1, <2>1, RunMaintainOnce, RunSelectReaderOnce, RunConnectCardOnce
    <2>2. CASE RunUpdateRetry \/ RunResetRetry \/ RunDestroy \/ RunChangePin
      BY <1>1, <2>2, CardStatesOnce
    <2>3. CASE RunVerify \/ RunPreparePace \/ RunEstablish
      BY <1>1, <2>3, RunVerifyOnce, RunPreparePaceOnce, RunEstablishOnce
    <2>4. CASE RunUnfortunate \/ RunClear \/ RunCheckError \/ RunPrepareChange \/ RunCleanUp
      BY <1>1, <2>4, RunPlainOnce
    <2>5. CASE RunContinue \/ HandleCancel
      BY <1>1, <2>5, RunContinueOnce
    <2>6. CASE CreateDone \/ UpdateDone \/ PaceDone
      BY <1>1, <2>6, CreateDoneOnce, UpdateDoneOnce, PaceDoneOnce
    <2>7. CASE ResetDone \/ SetDone \/ DestroyDone
      BY <1>1, <2>7, ResetSetOnce
    <2>8. CASE CardRemoved \/ CardInserted
      BY <1>1, <2>8, CardRemovedOnce, CardInsertedOnce
    <2> QED BY <1>3, <2>1, <2>2, <2>3, <2>4, <2>5, <2>6, <2>7, <2>8 DEF MainThread
  <1>4. CASE WorkerThread
    <2>1. CASE ExecuteCreate \/ ExecuteRelease \/ ExecuteUpdate
      BY <1>1, <2>1, ExecuteCreateOnce, ExecuteReleaseOnce, ExecuteUpdateOnce
    <2>2. CASE ExecutePace \/ ExecuteReset
      BY <1>1, <2>2, ExecutePaceOnce, ExecuteResetOnce
    <2>3. CASE ExecuteSet \/ ExecuteDestroy
      BY <1>1, <2>3, ExecuteSetOnce, ExecuteDestroyOnce
    <2> QED BY <1>4, <2>1, <2>2, <2>3 DEF WorkerThread
  <1>5. CASE Users
    BY <1>1, <1>5, EntryOnce, CancelsOnce DEF Users
  <1>6. CASE RemoveCard \/ InsertCard
    BY <1>1, <1>6, CardOnce
  <1>7. CASE UNCHANGED vars
    <2>1. m' = m /\ ctx' = ctx /\ conn' = conn /\ card' = card /\ spent' = spent
      BY <1>7 DEF vars
    <2>2. /\ Attempts(m'.cmds, card', spent')
          /\ ctx'.status = "ok" /\ m'.cur # "stopped" =>
                 InStep(m', card') /\ Knows(m', ctx', conn', card', spent')
      BY <2>1 DEF OInv
    <2> QED BY <2>2, OInvNow
  <1> QED BY <1>2, <1>3, <1>4, <1>5, <1>6, <1>7 DEF Next, Terminated

(* As long as nothing went wrong the workflow does one thing at a time,    *)
(* and what it knows of the card is true of the card.                      *)
THEOREM AttemptInvariance == Spec => []OInv
  BY InitOK, StepOK, OnceInitOK, OnceStepOK, PTL DEF Spec

(* A PIN the user entered once costs the card at most one wrong attempt,   *)
(* whatever is lost, removed or cancelled: before the same PIN is sent     *)
(* again StateVerifyRetryCounter finds the counter it expects, and it is   *)
(* one lower if the first attempt counted.                                 *)
THEOREM OneAttempt == Spec => []OneAttemptPerEntry
  <1>1. OInv => OneAttemptPerEntry
    BY DEF OInv, Attempts, OneAttemptPerEntry
  <1> QED BY <1>1, AttemptInvariance, PTL

(* The PIN only reaches a card that takes it: the counter by which         *)
(* StatePreparePace::handleRetryCounter chose the password is the card's   *)
(* when the worker thread executes the command, and the CAN it accepted    *)
(* before the last attempt is still its session.                           *)
THEOREM SuspendedNeedsCan == Spec => []SuspendedPinNeedsCan
  <1>1. IInv /\ OInv => SuspendedPinNeedsCan
    <2> SUFFICES ASSUME IInv, OInv, m.cmds # <<>>, Cmd.op = "pace", Cmd.arg = "PIN", card.linked
                 PROVE  card.tries > 1 \/ (card.tries = 1 /\ card.session = "CAN")
      BY DEF SuspendedPinNeedsCan
    <2>1. Cmd \in Commands /\ Cmd \in Elements(m.cmds)
      BY TakenFacts
    <2>2. Cmd \in PinPaces
      BY <2>1, PinPaceFacts
    <2>3. ~Free(m.cmds, PinPaces)
      BY <2>1, <2>2 DEF Free
    <2> QED BY <2>3 DEF OInv, Attempts, MayTry
  <1> QED BY <1>1, Invariance, AttemptInvariance, PTL
=============================================================================
