-------------------------- MODULE IfdServiceProofs --------------------------
(***************************************************************************)
(* Proofs about IfdService: TypeOK, that a password is never kept for      *)
(* another client (PasswordsOfThisClient), and that a client gets no more  *)
(* answers than it asked for (CardAnswersWereAsked).                       *)
(***************************************************************************)
EXTENDS IfdService, QueueLemmas, FiniteSetTheorems, TLAPS

-----------------------------------------------------------------------------
(* Types. *)
CardRequests == CardOps \cup {"disconnect"}
Maps(V)      == UNION {[D -> V] : D \in SUBSET Numbers}

RunEvents     == [type : {"run", "cancel"}, st : States]
MessageEvents == [type : {"message"}, what : {"connect"}, arg : Readers]
                     \cup [type : {"message"}, what : Requests, arg : Nat]
CreateEvents  == [type : {"execute", "drop"}, id : Numbers]
MadeEvents    == [type : {"made"}, id : Numbers, worker : Nat]
DoneEvents    ==
    [type : {"done"}, op : CardOps \cup {"update", "pace", "set"}, worker : Numbers,
     to : States \cup {"none", "client"}, client : Nat, arg : Nat, result : Results]
ReaderEvents  == [type : {"reader"}, reader : Readers, hasEid : BOOLEAN]
Events ==
    RunEvents \cup MessageEvents \cup CreateEvents \cup MadeEvents \cup DoneEvents
        \cup ReaderEvents \cup [type : {"closed"}] \cup [type : {"client"}, no : Numbers]

Commands ==
    [op : {"make"}, worker : {None}, to : {"none"}, client : Nat, arg : Readers, wired : BOOLEAN]
    \cup [op : {"sync"}, worker : {None}, to : {"none"}, client : Nat, arg : {None}, wired : BOOLEAN]
    \cup [op : CardOps \cup {"update", "pace", "set", "delete"}, worker : Numbers,
          to : States \cup {"none", "client"}, client : Nat, arg : Nat, wired : BOOLEAN]

Machines ==
    [cur : States \cup {"none", "stopped", "crashed"}, approved : BOOLEAN, blocked : BOOLEAN,
     events : Seq(Events), cmds : Seq(Commands), listening : Nat, watching : BOOLEAN,
     resetOnDisconnect : BOOLEAN, asker : Nat, hasEid : [Readers -> BOOLEAN]]
Contexts ==
    [pin : {Nobody} \cup Nat, newPin : {Nobody} \cup Nat, slot : Nat, change : Nat, conn : Nat,
     pace : Outputs, changed : Outputs, named : {NoReader} \cup Readers, cancelled : BOOLEAN,
     inState : BOOLEAN, killed : BOOLEAN]
Handlers == [client : Nat, slots : Maps(Numbers), handles : Nat]
Creates  == [id : Numbers, reader : Readers, to : Numbers, worker : Nat, listening : BOOLEAN]
Devices  == [card : [Readers -> [present : BOOLEAN, linked : BOOLEAN]], workers : Maps(Readers)]
Limits   == [messages : Nat, clients : Nat, queue : Nat, swaps : Nat, entries : Nat]

Typed ==
    /\ m \in Machines /\ ctx \in Contexts /\ h \in Handlers /\ dev \in Devices /\ left \in Limits
    /\ create \in SUBSET Creates /\ IsFiniteSet(create)
    /\ IsFiniteSet(DOMAIN h.slots) /\ IsFiniteSet(DOMAIN dev.workers)
    /\ due \in [Requests -> Int]

-----------------------------------------------------------------------------
(* The inductive invariant, part one: who refers to a worker. *)

(* All the references but those of the command that deletes it ...         *)
Mentioned(w, mm) ==
    \/ \E i \in DOMAIN mm.cmds : mm.cmds[i].op # "delete" /\ mm.cmds[i].worker = w
    \/ \E i \in DOMAIN mm.events : mm.events[i].type \in {"made", "done"} /\ mm.events[i].worker = w
Used(w, mm, c, hh, cs) ==
    \/ c.conn = w
    \/ \E s \in DOMAIN hh.slots : hh.slots[s] = w
    \/ \E x \in cs : x.worker = w
    \/ Mentioned(w, mm)

(* ... are to a worker that exists and is not about to be deleted, which   *)
(* is done once.                                                           *)
Alive(mm, c, hh, cs, d) ==
    /\ \A w \in Numbers : Used(w, mm, c, hh, cs) =>
           /\ w \in DOMAIN d.workers
           /\ \A i \in DOMAIN mm.cmds : mm.cmds[i].op = "delete" => mm.cmds[i].worker # w
    /\ \A i \in DOMAIN mm.cmds : mm.cmds[i].op = "delete" => mm.cmds[i].worker \in DOMAIN d.workers
    /\ \A i, j \in DOMAIN mm.cmds :
           mm.cmds[i].op = "delete" /\ mm.cmds[j].op = "delete"
               /\ mm.cmds[i].worker = mm.cmds[j].worker => i = j

-----------------------------------------------------------------------------
(* Part two: the order of what ends the workflow. *)
Remains(c)   == c.pin # None \/ c.newPin # None
Unnoticed(c) == c.cancelled /\ ~c.inState
Late(e)      == e = Run("Stop") \/ e = Run("Final")
NoLate(q)    == \A j \in DOMAIN q : ~Late(q[j])
Due(q)       == \E i \in DOMAIN q : q[i] = Run("ClearStop")
Safe(q)      == \A j \in DOMAIN q : Late(q[j]) => \E i \in 1..(j - 1) : q[i] = Run("ClearStop")

(* After n changes of readers comes ... *)
Quiet(q, n) == \A j \in 1..n : q[j].type = "reader"
CancelIsNext(q) == \E n \in 0..(Len(q) - 1) : Quiet(q, n) /\ q[n + 1].type = "cancel"
StartIsNext(q)  ==
    \E n \in 0..(Len(q) - 2) : Quiet(q, n) /\ q[n + 1] = Run("Start") /\ q[n + 2].type = "cancel"

(* A workflow that was cancelled before it was started learns of it before *)
(* anything but the run() of its first state; and no cancellation is       *)
(* posted to a state that a password could have been entered in or before. *)
EarlyCancel(mm, c) ==
    /\ mm.cur = "none" => \A i \in DOMAIN mm.events : mm.events[i].type = "reader"
    /\ mm.cur \in {"none", "Start"} => ~Remains(c)
    /\ Unnoticed(c) =>
           /\ ~Remains(c) /\ mm.cur \in {"none", "Start", "Process", "Stop"}
           /\ mm.cur = "Start" => StartIsNext(mm.events)
           /\ mm.cur \in {"Process", "Stop"} => CancelIsNext(mm.events)
    /\ \A i \in DOMAIN mm.events : mm.events[i].type = "cancel" =>
           /\ c.cancelled
           /\ mm.events[i].st \in {"Start", "Process", "Stop"}
           /\ mm.events[i].st = "Stop" =>
                  mm.cur \in {"Stop", "Final", "stopped", "crashed"} /\ ~Remains(c)

(* Before Stop is entered nothing of the last states is posted ...         *)
NothingLate(mm) == mm.cur \notin {"Stop", "Final", "stopped", "crashed"} => NoLate(mm.events)

(* ... and while a password remains, the run() of ClearStop comes before   *)
(* anything else that leads on: past Process leads only a cancellation,    *)
(* past ClearStop only the end of a killed workflow, and there is no third.*)
ClearComesFirst(mm, c) ==
    Remains(c) =>
        /\ Safe(mm.events)
        /\ mm.cur \in {"ClearStop", "Stop"} => Due(mm.events)
        /\ mm.cur = "ClearStop" => c.cancelled
        /\ mm.cur = "Stop" => c.killed
        /\ mm.cur \notin {"Final", "stopped"}

OwnerOf(hh) == IF hh.client = None THEN Nobody ELSE hh.client
Ordered(mm, c, hh) ==
    /\ mm.cur = "none" => hh.client = None
    /\ c.killed => c.cancelled
    /\ c.pin \in {None, OwnerOf(hh)} /\ c.newPin \in {None, OwnerOf(hh)}
    /\ EarlyCancel(mm, c) /\ NothingLate(mm) /\ ClearComesFirst(mm, c)

-----------------------------------------------------------------------------
(* Part three: what a client has asked for is under way once.  *)
CommandOf(q) == IF q = "disconnect" THEN "update" ELSE q
Messages(q)  == {e \in Events : e.type = "message" /\ e.what = q}
CommandsFor(q, who) ==
    {k \in Commands : k.op = CommandOf(q) /\ (q = "disconnect" => k.to = "client") /\ k.client = who}
ResultsFor(q, who)  ==
    {e \in Events : e.type = "done" /\ e.op = CommandOf(q)
                        /\ (q = "disconnect" => e.to = "client") /\ e.client = who}
UnderWay(q, mm, who) ==
    Many(mm.events, Messages(q)) + Many(mm.cmds, CommandsFor(q, who))
        + Many(mm.events, ResultsFor(q, who))

AnswersAreDue(mm, hh, u) ==
    \A q \in CardRequests :
        /\ u[q] >= 0
        /\ hh.client # None => u[q] >= UnderWay(q, mm, hh.client)

(* Nothing is left of the messages of a client that has gone, and nothing  *)
(* comes after its end.                                                    *)
Said(e)    == e.type \in {"message", "closed"}
Silent(q)  == \A i \in DOMAIN q : ~Said(q[i])
Closing(q) == \A i, j \in DOMAIN q : q[i].type = "closed" /\ Said(q[j]) => j <= i
EndIsLast(mm, hh) == (hh.client = None => Silent(mm.events)) /\ Closing(mm.events)

(* The number of a client that connects is new. *)
Known(n, mm, hh) ==
    \/ hh.client = n
    \/ \E i \in DOMAIN mm.cmds : mm.cmds[i].client = n
    \/ \E i \in DOMAIN mm.events : mm.events[i].type = "done" /\ mm.events[i].client = n
OneCaller(q) == \A i, j \in DOMAIN q : q[i].type = "client" /\ q[j].type = "client" => j = i
ClientsAreNew(mm, hh, l) ==
    /\ \A n \in Numbers : Known(n, mm, hh) => n > l.clients
    /\ \A i \in DOMAIN mm.events : mm.events[i].type = "client" =>
           mm.events[i].no > l.clients /\ ~Known(mm.events[i].no, mm, hh)
    /\ OneCaller(mm.events)

IInv ==
    /\ Typed
    /\ Alive(m, ctx, h, create, dev)
    /\ Ordered(m, ctx, h)
    /\ AnswersAreDue(m, h, due) /\ EndIsLast(m, h) /\ ClientsAreNew(m, h, left)

-----------------------------------------------------------------------------
(* Queues. *)

LEMMA SetToSeqFacts ==
    ASSUME NEW T, NEW S \in SUBSET T, IsFiniteSet(S)
    PROVE  /\ SetToSeq(S) \in Seq(T)
           /\ \A i \in DOMAIN SetToSeq(S) : SetToSeq(S)[i] \in S
           /\ \A i, j \in DOMAIN SetToSeq(S) : SetToSeq(S)[i] = SetToSeq(S)[j] => i = j
  <1> DEFINE n == Cardinality(S)
             P(f) == f \in [1..n -> S] /\ IsInjective(f)
             s == CHOOSE f \in [1..n -> S] : IsInjective(f)
  <1>1. n \in Nat
    BY FS_CardinalityType
  <1>2. \E f \in [1..n -> S] : IsInjective(f)
    <2>1. PICK f \in Bijection(1..n, S) : TRUE
      BY FS_CardinalityType DEF ExistsBijection
    <2>2. f \in [1..n -> S] /\ IsInjective(f)
      BY <2>1 DEF Bijection, Injection
    <2> QED BY <2>2
  <1>3. s \in [1..n -> S] /\ IsInjective(s)
    BY <1>2
  <1>4. SetToSeq(S) = s
    BY DEF SetToSeq
  <1> HIDE DEF s, n
  <1>5. s \in Seq(T)
    BY <1>1, <1>3
  <1> QED BY <1>3, <1>4, <1>5 DEF IsInjective

(* The recursion of Only, up to the n-th element. *)
Kept(f, q, S, n) ==
    /\ DOMAIN f = 0..n
    /\ f[0] = <<>>
    /\ \A i \in 1..n : f[i] = IF q[i] \in S THEN Append(f[i - 1], q[i]) ELSE f[i - 1]

LEMMA KeptExists ==
    ASSUME NEW q, NEW S
    PROVE  \A n \in Nat : \E f : Kept(f, q, S, n)
  <1> DEFINE T == {n \in Nat : ~\E f : Kept(f, q, S, n)}
  <1> SUFFICES ASSUME T # {} PROVE FALSE
    OBVIOUS
  <1>1. PICK n \in T : \A k \in Nat : k < n => k \notin T
    BY LeastElement
  <1>2. n # 0
    <2>1. Kept([i \in 0..0 |-> <<>>], q, S, 0)
      BY DEF Kept
    <2> QED BY <2>1
  <1>3. n - 1 \in Nat /\ n - 1 < n
    BY <1>2
  <1>4. PICK f : Kept(f, q, S, n - 1)
    BY <1>1, <1>3
  <1> DEFINE last == IF q[n] \in S THEN Append(f[n - 1], q[n]) ELSE f[n - 1]
             g    == [i \in 0..n |-> IF i = n THEN last ELSE f[i]]
  <1>5. Kept(g, q, S, n)
    <2>1. DOMAIN g = 0..n /\ g[n] = last /\ \A i \in 0..(n - 1) : g[i] = f[i]
      BY <1>3
    <2>2. g[0] = <<>>
      BY <1>3, <1>4, <2>1 DEF Kept
    <2> HIDE DEF g
    <2>3. ASSUME NEW i \in 1..n
          PROVE  g[i] = IF q[i] \in S THEN Append(g[i - 1], q[i]) ELSE g[i - 1]
      <3>1. CASE i = n
        <4>1. g[n - 1] = f[n - 1]
          BY <1>3, <2>1
        <4> QED BY <2>1, <3>1, <4>1
      <3>2. CASE i # n
        <4>1. i \in 1..(n - 1) /\ g[i] = f[i] /\ g[i - 1] = f[i - 1]
          BY <1>3, <2>1, <3>2
        <4> QED BY <1>4, <4>1 DEF Kept
      <3> QED BY <3>1, <3>2
    <2> QED BY <2>1, <2>2, <2>3 DEF Kept
  <1> QED BY <1>5

(* Only keeps the elements of the set in their order, and no others. *)
Picks(g, r, q, S) ==
    /\ Embeds(g, r, q)
    /\ \A j \in DOMAIN r : r[j] \in S
    /\ \A i \in DOMAIN q : q[i] \in S => \E j \in DOMAIN r : g[j] = i

LEMMA OnlyFacts ==
    ASSUME NEW T, NEW q \in Seq(T), NEW S
    PROVE  Only(q, S) \in Seq(T) /\ \E g : Picks(g, Only(q, S), q, S)
  <1> DEFINE body(g) == [i \in 0..Len(q) |-> IF i = 0 THEN <<>>
                                             ELSE IF q[i] \in S THEN Append(g[i - 1], q[i])
                                             ELSE g[i - 1]]
             kept == CHOOSE g : g = body(g)
  <1>1. Len(q) \in Nat /\ DOMAIN q = 1..Len(q) /\ \A i \in 1..Len(q) : q[i] \in T
    OBVIOUS
  <1>2. PICK f : Kept(f, q, S, Len(q))
    BY <1>1, KeptExists
  <1> DEFINE g == [i \in 0..Len(q) |-> f[i]]
  <1>3. g = body(g)
    <2>1. \A i \in 0..Len(q) : i = 0 \/ (i \in 1..Len(q) /\ i - 1 \in 0..Len(q))
      BY <1>1
    <2>2. \A i \in 0..Len(q) : g[i] = body(g)[i]
      BY <1>2, <2>1 DEF Kept
    <2> QED BY <2>2
  <1>4. kept = body(kept)
    BY <1>3
  <1>5. Only(q, S) = kept[Len(q)]
    BY DEF Only
  <1> HIDE DEF kept
  <1>6. /\ kept[0] = <<>>
        /\ \A i \in 1..Len(q) : kept[i] = IF q[i] \in S THEN Append(kept[i - 1], q[i]) ELSE kept[i - 1]
    <2>1. 0 \in 0..Len(q) /\ \A i \in 1..Len(q) : i \in 0..Len(q) /\ i # 0
      BY <1>1
    <2> QED BY <1>4, <2>1
  <1> DEFINE Q(e, r, i) ==
                 /\ e \in [DOMAIN r -> 1..i]
                 /\ \A j \in DOMAIN r : r[j] = q[e[j]] /\ r[j] \in S
                 /\ \A j, k \in DOMAIN r : j < k => e[j] < e[k]
                 /\ \A j \in 1..i : q[j] \in S => \E k \in DOMAIN r : e[k] = j
             P(i) == kept[i] \in Seq(T) /\ \E e : Q(e, kept[i], i)
             R == {i \in 0..Len(q) : ~P(i)}
  <1>7. R = {}
    <2> SUFFICES ASSUME R # {} PROVE FALSE
      OBVIOUS
    <2>1. R \in SUBSET Nat
      BY <1>1
    <2>2. PICK n \in R : \A k \in Nat : k < n => k \notin R
      BY <2>1, LeastElement
    <2>3. P(0)
      <3>1. Q(<<>>, <<>>, 0) /\ <<>> \in Seq(T)
        OBVIOUS
      <3> HIDE DEF Q
      <3> QED BY <1>6, <3>1
    <2>4. n \in 1..Len(q) /\ n - 1 \in 0..Len(q) /\ n - 1 \in Nat /\ n - 1 < n
      BY <1>1, <2>2, <2>3
    <2>5. P(n - 1)
      BY <2>2, <2>4
    <2>6. PICK e : Q(e, kept[n - 1], n - 1)
      BY <2>5
    <2>7. kept[n] = IF q[n] \in S THEN Append(kept[n - 1], q[n]) ELSE kept[n - 1]
      BY <1>6, <2>4
    <2>8. P(n)
      <3>1. CASE q[n] \notin S
        <4>1. kept[n] = kept[n - 1]
          BY <2>7, <3>1
        <4>2. \A i \in 1..(n - 1) : i \in 1..n
          BY <2>4
        <4>3. \A i \in 1..n : i = n \/ i \in 1..(n - 1)
          BY <2>4
        <4>4. Q(e, kept[n - 1], n)
          BY <2>6, <3>1, <4>2, <4>3
        <4> HIDE DEF Q
        <4> QED BY <2>5, <4>1, <4>4
      <3>2. CASE q[n] \in S
        <4> DEFINE r == kept[n - 1]
                   a == Append(r, q[n])
                   l == Len(r) + 1
                   d == [j \in DOMAIN a |-> IF j = l THEN n ELSE e[j]]
        <4>1. kept[n] = a /\ r \in Seq(T) /\ q[n] \in T
          BY <1>1, <2>4, <2>5, <2>7, <3>2
        <4>2. /\ a \in Seq(T) /\ l \in DOMAIN a /\ a[l] = q[n] /\ l \in Nat
              /\ \A j \in DOMAIN r : j \in DOMAIN a /\ a[j] = r[j] /\ j # l /\ j < l
              /\ \A j \in DOMAIN a : (j \in DOMAIN r \/ j = l) /\ j <= l /\ j \in Nat
          <5> HIDE DEF r
          <5>1. /\ a \in Seq(T) /\ l \in DOMAIN a /\ a[l] = q[n] /\ l \in Nat /\ DOMAIN r = 1..Len(r)
                /\ Len(r) \in Nat /\ DOMAIN a = 1..(Len(r) + 1)
                /\ \A j \in DOMAIN r : j \in DOMAIN a /\ a[j] = r[j]
                /\ \A j \in DOMAIN a : (j \in DOMAIN r \/ j = l)
            BY <4>1, AppendFacts
          <5> HIDE DEF a
          <5> QED BY <5>1
        <4> HIDE DEF a, r, l
        <4>3. /\ e \in [DOMAIN r -> 1..(n - 1)]
              /\ \A j \in DOMAIN r : r[j] = q[e[j]] /\ r[j] \in S
              /\ \A j, k \in DOMAIN r : j < k => e[j] < e[k]
              /\ \A j \in 1..(n - 1) : q[j] \in S => \E k \in DOMAIN r : e[k] = j
          BY <2>6 DEF r
        <4>4. d[l] = n /\ \A j \in DOMAIN r : d[j] = e[j] /\ d[j] \in 1..(n - 1)
          BY <4>2, <4>3
        <4>5. \A i \in 1..(n - 1) : i \in 1..n /\ i < n
          BY <2>4
        <4>6. \A i \in 1..n : i = n \/ i \in 1..(n - 1)
          BY <2>4
        <4>7. n \in 1..n
          BY <2>4
        <4>8. DOMAIN d = DOMAIN a /\ \A j \in DOMAIN a : d[j] \in 1..n
          BY <4>2, <4>4, <4>5, <4>7
        <4>9. d \in [DOMAIN a -> 1..n]
          BY <4>8
        <4> HIDE DEF d
        <4>10. \A j \in DOMAIN a : a[j] = q[d[j]] /\ a[j] \in S
          BY <3>2, <4>2, <4>3, <4>4
        <4>11. \A j, k \in DOMAIN a : j < k => d[j] < d[k]
          <5> SUFFICES ASSUME NEW j \in DOMAIN a, NEW k \in DOMAIN a, j < k
                       PROVE  d[j] < d[k]
            OBVIOUS
          <5>1. j # l
            BY <4>2
          <5>2. j \in DOMAIN r
            BY <4>2, <5>1
          <5>3. CASE k = l
            BY <4>4, <4>5, <5>2, <5>3
          <5>4. CASE k # l
            <6>1. k \in DOMAIN r
              BY <4>2, <5>4
            <6> QED BY <4>3, <4>4, <5>2, <6>1
          <5> QED BY <5>3, <5>4
        <4>12. \A j \in 1..n : q[j] \in S => \E k \in DOMAIN a : d[k] = j
          BY <4>2, <4>3, <4>4, <4>6
        <4>13. Q(d, a, n)
          BY <4>9, <4>10, <4>11, <4>12
        <4> HIDE DEF Q
        <4> QED BY <4>1, <4>2, <4>13
      <3> QED BY <3>1, <3>2
    <2> QED BY <2>2, <2>8
  <1>8. P(Len(q))
    <2>1. Len(q) \in 0..Len(q)
      BY <1>1
    <2> HIDE DEF P
    <2> QED BY <1>7, <2>1
  <1>9. PICK e : Q(e, kept[Len(q)], Len(q))
    BY <1>8
  <1>10. Picks(e, kept[Len(q)], q, S)
    BY <1>1, <1>9 DEF Picks, Embeds
  <1> QED BY <1>5, <1>8, <1>10

-----------------------------------------------------------------------------
(* What an operation of the main thread adds to the queues: no message, no *)
(* result, no reference but to the workers in W, no deletion.              *)
Harmless == {"run", "cancel", "execute", "drop", "reader"}
CalmEvents(q, r) ==
    /\ r \in Seq(Events)
    /\ \A x \in CardRequests : Many(r, Messages(x)) <= Many(q, Messages(x))
    /\ \A x \in CardRequests, who \in Nat : Many(r, ResultsFor(x, who)) <= Many(q, ResultsFor(x, who))
    /\ \A i \in DOMAIN r : r[i].type \in Harmless \/ \E j \in DOMAIN q : q[j] = r[i]
    /\ Closing(q) => Closing(r)
    /\ OneCaller(q) => OneCaller(r)
MildCommands(k, l, W) ==
    /\ l \in Seq(Commands)
    /\ \A i \in DOMAIN l : l[i].op # "delete" =>
           \/ l[i].worker \in W \cup {None}
           \/ \E j \in DOMAIN k : k[j].op # "delete" /\ k[j].worker = l[i].worker
    /\ \A i \in DOMAIN l : l[i].op = "delete" =>
           i \in DOMAIN k /\ k[i].op = "delete" /\ k[i].worker = l[i].worker
    /\ \A i \in DOMAIN l : l[i].client = h.client \/ \E j \in DOMAIN k : k[j].client = l[i].client
Mild(mm, nn, W) ==
    nn \in Machines /\ CalmEvents(mm.events, nn.events) /\ MildCommands(mm.cmds, nn.cmds, W)

(* ... and no command of a client. *)
CalmCommands(k, l, W) ==
    /\ MildCommands(k, l, W)
    /\ \A x \in CardRequests, who \in Nat : Many(l, CommandsFor(x, who)) <= Many(k, CommandsFor(x, who))
Calm(mm, nn, W) ==
    nn \in Machines /\ CalmEvents(mm.events, nn.events) /\ CalmCommands(mm.cmds, nn.cmds, W)

LEMMA CalmIsMild ==
    ASSUME NEW mm, NEW nn, NEW W, Calm(mm, nn, W)
    PROVE  Mild(mm, nn, W)
  BY DEF Calm, Mild, CalmCommands

LEMMA ManyIsNat ==
    ASSUME NEW T, NEW q \in Seq(T), NEW S
    PROVE  Many(q, S) \in Nat
  BY ManyIsFinite

LEMMA CalmEventsSame ==
    ASSUME NEW q \in Seq(Events)
    PROVE  CalmEvents(q, q)
  <1>1. \A S : Many(q, S) \in Nat
    BY ManyIsNat
  <1>2. \A S : Many(q, S) <= Many(q, S)
    BY <1>1
  <1> QED BY <1>2 DEF CalmEvents

LEMMA CalmEventsAgain ==
    ASSUME NEW q \in Seq(Events), NEW r, NEW s, CalmEvents(q, r), CalmEvents(r, s)
    PROVE  CalmEvents(q, s)
  <1>1. r \in Seq(Events) /\ s \in Seq(Events)
    BY DEF CalmEvents
  <1>2. \A S : Many(q, S) \in Nat /\ Many(r, S) \in Nat /\ Many(s, S) \in Nat
    BY <1>1, ManyIsNat
  <1>3. \A S : Many(s, S) <= Many(r, S) /\ Many(r, S) <= Many(q, S) => Many(s, S) <= Many(q, S)
    BY <1>2
  <1>4. \A x \in CardRequests : Many(s, Messages(x)) <= Many(q, Messages(x))
    BY <1>3 DEF CalmEvents
  <1>5. \A x \in CardRequests, who \in Nat : Many(s, ResultsFor(x, who)) <= Many(q, ResultsFor(x, who))
    BY <1>3 DEF CalmEvents
  <1>6. \A i \in DOMAIN s : s[i].type \in Harmless \/ \E j \in DOMAIN q : q[j] = s[i]
    BY DEF CalmEvents
  <1> QED BY <1>1, <1>4, <1>5, <1>6 DEF CalmEvents

LEMMA CalmCommandsSame ==
    ASSUME NEW k \in Seq(Commands), NEW W
    PROVE  CalmCommands(k, k, W)
  <1>1. \A S : Many(k, S) \in Nat
    BY ManyIsNat
  <1>2. \A S : Many(k, S) <= Many(k, S)
    BY <1>1
  <1> QED BY <1>2 DEF CalmCommands, MildCommands

LEMMA CalmCommandsAgain ==
    ASSUME NEW k \in Seq(Commands), NEW l, NEW o, NEW W, CalmCommands(k, l, W), CalmCommands(l, o, W)
    PROVE  CalmCommands(k, o, W)
  <1>1. l \in Seq(Commands) /\ o \in Seq(Commands)
    BY DEF CalmCommands, MildCommands
  <1>2. \A S : Many(k, S) \in Nat /\ Many(l, S) \in Nat /\ Many(o, S) \in Nat
    BY <1>1, ManyIsNat
  <1>3. \A S : Many(o, S) <= Many(l, S) /\ Many(l, S) <= Many(k, S) => Many(o, S) <= Many(k, S)
    BY <1>2
  <1>4. \A x \in CardRequests, who \in Nat : Many(o, CommandsFor(x, who)) <= Many(k, CommandsFor(x, who))
    BY <1>3 DEF CalmCommands, MildCommands
  <1>5. \A i \in DOMAIN o : o[i].op # "delete" =>
            \/ o[i].worker \in W \cup {None}
            \/ \E j \in DOMAIN k : k[j].op # "delete" /\ k[j].worker = o[i].worker
    <2> SUFFICES ASSUME NEW i \in DOMAIN o, o[i].op # "delete", o[i].worker \notin W \cup {None}
                 PROVE  \E j \in DOMAIN k : k[j].op # "delete" /\ k[j].worker = o[i].worker
      OBVIOUS
    <2>1. PICK j \in DOMAIN l : l[j].op # "delete" /\ l[j].worker = o[i].worker
      BY DEF CalmCommands, MildCommands
    <2> QED BY <2>1 DEF CalmCommands, MildCommands
  <1>6. \A i \in DOMAIN o : o[i].op = "delete" =>
            i \in DOMAIN k /\ k[i].op = "delete" /\ k[i].worker = o[i].worker
    BY DEF CalmCommands, MildCommands
  <1>7. \A i \in DOMAIN o : o[i].client = h.client \/ \E j \in DOMAIN k : k[j].client = o[i].client
    BY DEF CalmCommands, MildCommands
  <1> QED BY <1>1, <1>4, <1>5, <1>6, <1>7 DEF CalmCommands, MildCommands

LEMMA CalmAgain ==
    ASSUME NEW mm \in Machines, NEW nn, NEW oo, NEW W, Calm(mm, nn, W), Calm(nn, oo, W)
    PROVE  Calm(mm, oo, W)
  <1>1. mm.events \in Seq(Events) /\ mm.cmds \in Seq(Commands)
    BY DEF Machines
  <1>2. CalmEvents(mm.events, oo.events)
    BY <1>1, CalmEventsAgain DEF Calm
  <1>3. CalmCommands(mm.cmds, oo.cmds, W)
    BY <1>1, CalmCommandsAgain DEF Calm
  <1> QED BY <1>2, <1>3 DEF Calm

LEMMA CalmMore ==
    ASSUME NEW mm, NEW nn, NEW V, NEW W, Calm(mm, nn, V), V \subseteq W
    PROVE  Calm(mm, nn, W)
  <1>1. CalmCommands(mm.cmds, nn.cmds, W)
    BY DEF Calm, CalmCommands, MildCommands
  <1> QED BY <1>1 DEF Calm

(* Adding harmless events, taking one, and dropping some. *)
LEMMA CalmEventsMore ==
    ASSUME NEW q \in Seq(Events), NEW r \in Seq(Events),
           \A i \in DOMAIN r : r[i].type \in Harmless
    PROVE  CalmEvents(q, q \o r)
  <1> DEFINE s == q \o r
  <1>1. /\ s \in Seq(Events) /\ Len(q) \in Nat /\ Len(r) \in Nat
        /\ DOMAIN q = 1..Len(q) /\ DOMAIN r = 1..Len(r) /\ DOMAIN s = 1..(Len(q) + Len(r))
        /\ \A i \in DOMAIN q : i \in DOMAIN s /\ s[i] = q[i]
        /\ \A i \in DOMAIN s : i \in DOMAIN q \/ (i - Len(q) \in DOMAIN r /\ s[i] = r[i - Len(q)])
    BY ConcatFacts
  <1>2. \A S : (\A i \in DOMAIN r : r[i] \notin S) => Many(s, S) = Many(q, S)
    BY ManyInConcat
  <1>3. \A S : Many(q, S) \in Nat
    BY ManyIsNat
  <1> HIDE DEF s
  <1>4. \A i \in DOMAIN r : r[i].type \notin {"message", "done", "closed", "client"}
    BY DEF Harmless
  <1>5. ASSUME NEW x \in CardRequests
        PROVE  Many(s, Messages(x)) <= Many(q, Messages(x))
    <2>1. \A i \in DOMAIN r : r[i] \notin Messages(x)
      BY <1>4 DEF Messages
    <2> QED BY <1>2, <1>3, <2>1
  <1>6. ASSUME NEW x \in CardRequests, NEW who \in Nat
        PROVE  Many(s, ResultsFor(x, who)) <= Many(q, ResultsFor(x, who))
    <2>1. \A i \in DOMAIN r : r[i] \notin ResultsFor(x, who)
      BY <1>4 DEF ResultsFor
    <2> QED BY <1>2, <1>3, <2>1
  <1>7. \A i \in DOMAIN s : s[i].type \in Harmless \/ (i \in DOMAIN q /\ s[i] = q[i])
    BY <1>1
  <1>8. \A i \in DOMAIN s : s[i].type \in {"message", "closed", "client"} => i \in DOMAIN q /\ s[i] = q[i]
    BY <1>7 DEF Harmless
  <1>9. Closing(q) => Closing(s)
    BY <1>8 DEF Closing, Said
  <1>10. OneCaller(q) => OneCaller(s)
    BY <1>8 DEF OneCaller
  <1> QED BY <1>1, <1>5, <1>6, <1>7, <1>9, <1>10 DEF CalmEvents, s

LEMMA CalmEventsPost ==
    ASSUME NEW q \in Seq(Events), NEW e \in Events, e.type \in Harmless
    PROVE  CalmEvents(q, Append(q, e))
  <1>1. <<e>> \in Seq(Events) /\ \A i \in DOMAIN <<e>> : <<e>>[i] = e
    OBVIOUS
  <1>2. Append(q, e) = q \o <<e>>
    OBVIOUS
  <1> QED BY <1>1, <1>2, CalmEventsMore

LEMMA CalmEventsTaken ==
    ASSUME NEW q \in Seq(Events), q # <<>>
    PROVE  /\ CalmEvents(q, Tail(q)) /\ Head(q) \in Events
           /\ \A S : Many(q, S) = Many(Tail(q), S) + (IF Head(q) \in S THEN 1 ELSE 0)
           /\ Head(q).type = "closed" /\ Closing(q) => Silent(Tail(q))
           /\ Head(q).type = "client" /\ OneCaller(q) =>
                  \A i \in DOMAIN Tail(q) : Tail(q)[i].type # "client"
  <1> DEFINE t == Tail(q)
  <1>1. /\ t \in Seq(Events) /\ Head(q) = q[1] /\ q[1] \in Events /\ 1 \in DOMAIN q
        /\ DOMAIN q = 1..Len(q) /\ Len(q) \in Nat \ {0} /\ DOMAIN t = 1..(Len(q) - 1)
        /\ \A i \in DOMAIN t : i + 1 \in DOMAIN q /\ t[i] = q[i + 1]
    BY TailFacts
  <1>2. \A S : Many(q, S) = Many(t, S) + (IF Head(q) \in S THEN 1 ELSE 0)
    BY ManyInTail
  <1> HIDE DEF t
  <1>3. \A S : Many(q, S) \in Nat /\ Many(t, S) \in Nat
    BY <1>1, ManyIsNat
  <1>4. \A S : Many(t, S) <= Many(q, S)
    BY <1>2, <1>3
  <1>5. \A i \in DOMAIN t : i \in Nat /\ i + 1 # 1
    BY <1>1
  <1>6. Closing(q) => Closing(t)
    <2> SUFFICES ASSUME Closing(q), NEW i \in DOMAIN t, NEW j \in DOMAIN t, t[i].type = "closed", Said(t[j])
                 PROVE  j <= i
      BY DEF Closing
    <2>1. j + 1 <= i + 1
      BY <1>1 DEF Closing
    <2> QED BY <1>5, <2>1
  <1>7. OneCaller(q) => OneCaller(t)
    <2> SUFFICES ASSUME OneCaller(q), NEW i \in DOMAIN t, NEW j \in DOMAIN t,
                        t[i].type = "client", t[j].type = "client"
                 PROVE  j = i
      BY DEF OneCaller
    <2>1. j + 1 = i + 1
      BY <1>1 DEF OneCaller
    <2> QED BY <1>5, <2>1
  <1>8. q[1].type = "closed" /\ Closing(q) => Silent(t)
    <2> SUFFICES ASSUME q[1].type = "closed", Closing(q), NEW i \in DOMAIN t, Said(t[i])
                 PROVE  FALSE
      BY DEF Silent
    <2>1. i + 1 <= 1
      BY <1>1 DEF Closing
    <2>2. i >= 1
      BY <1>1
    <2> QED BY <1>5, <2>1, <2>2
  <1>9. q[1].type = "client" /\ OneCaller(q) => \A i \in DOMAIN t : t[i].type # "client"
    BY <1>1, <1>5 DEF OneCaller
  <1>10. CalmEvents(q, t)
    BY <1>1, <1>4, <1>6, <1>7 DEF CalmEvents
  <1> QED BY <1>1, <1>2, <1>8, <1>9, <1>10 DEF t

LEMMA CalmEventsOnly ==
    ASSUME NEW q \in Seq(Events), NEW S
    PROVE  /\ CalmEvents(q, Only(q, S))
           /\ \A i \in DOMAIN Only(q, S) : Only(q, S)[i] \in S
           /\ \E g : Picks(g, Only(q, S), q, S)
  <1>1. Only(q, S) \in Seq(Events)
    BY OnlyFacts
  <1>2. PICK g : Picks(g, Only(q, S), q, S)
    BY OnlyFacts
  <1> DEFINE r == Only(q, S)
  <1>3. \A R : Many(r, R) <= Many(q, R)
    BY <1>1, <1>2, ManyInEmbedded DEF Picks
  <1>4. DOMAIN q = 1..Len(q) /\ Len(q) \in Nat /\ DOMAIN r = 1..Len(r) /\ Len(r) \in Nat
    BY <1>1
  <1> HIDE DEF r
  <1>5. /\ g \in [DOMAIN r -> DOMAIN q]
        /\ \A j \in DOMAIN r : r[j] = q[g[j]] /\ r[j] \in S
        /\ \A i, j \in DOMAIN r : i < j => g[i] < g[j]
    BY <1>2 DEF Picks, Embeds, r
  <1>6. ASSUME NEW i \in DOMAIN r, NEW j \in DOMAIN r, g[j] <= g[i]
        PROVE  j <= i
    <2>1. i \in Nat /\ j \in Nat /\ g[i] \in Nat /\ g[j] \in Nat
      BY <1>4, <1>5
    <2>2. CASE i < j
      <3>1. g[i] < g[j]
        BY <1>5, <2>2
      <3> QED BY <1>6, <2>1, <3>1
    <2> QED BY <2>1, <2>2
  <1>7. Closing(q) => Closing(r)
    BY <1>5, <1>6 DEF Closing
  <1>8. OneCaller(q) => OneCaller(r)
    <2> SUFFICES ASSUME OneCaller(q), NEW i \in DOMAIN r, NEW j \in DOMAIN r,
                        r[i].type = "client", r[j].type = "client"
                 PROVE  j = i
      BY DEF OneCaller
    <2>1. g[j] = g[i] /\ g[i] \in Nat
      BY <1>4, <1>5 DEF OneCaller
    <2>2. j <= i /\ i <= j
      BY <1>6, <2>1
    <2> QED BY <1>4, <2>2
  <1>9. CalmEvents(q, r)
    BY <1>1, <1>3, <1>5, <1>7, <1>8 DEF CalmEvents, r
  <1> QED BY <1>2, <1>5, <1>9 DEF r

(* Sending a command that no client asked for, and cutting connections. *)
Unasked(k) == k \in Commands /\ k.op # "delete" /\ k.client = h.client
                  /\ \A x \in CardRequests, who \in Nat : k \notin CommandsFor(x, who)

LEMMA CalmCommandsSend ==
    ASSUME NEW k \in Seq(Commands), NEW x, Unasked(x), NEW W, x.worker \in W \cup {None}
    PROVE  CalmCommands(k, Append(k, x), W)
  <1> DEFINE l == Append(k, x)
  <1>1. /\ l \in Seq(Commands) /\ Len(k) \in Nat /\ DOMAIN k = 1..Len(k)
        /\ \A i \in DOMAIN k : l[i] = k[i]
        /\ l[Len(k) + 1] = x
        /\ \A i \in DOMAIN l : i \in DOMAIN k \/ i = Len(k) + 1
    BY AppendFacts DEF Unasked
  <1>2. \A S : x \notin S => Many(l, S) = Many(k, S) /\ Many(k, S) \in Nat
    <2> SUFFICES ASSUME NEW S, x \notin S
                 PROVE  Many(l, S) = Many(k, S) /\ Many(k, S) \in Nat
      OBVIOUS
    <2>1. Many(l, S) = Many(k, S) + (IF x \in S THEN 1 ELSE 0) /\ Many(k, S) \in Nat
      BY ManyInAppend, ManyIsNat DEF Unasked
    <2> HIDE DEF l
    <2> QED BY <2>1
  <1> HIDE DEF l
  <1>3. \A y \in CardRequests, who \in Nat : Many(l, CommandsFor(y, who)) <= Many(k, CommandsFor(y, who))
    BY <1>2 DEF Unasked
  <1>4. \A i \in DOMAIN l : (i \in DOMAIN k /\ l[i] = k[i]) \/ l[i] = x
    BY <1>1
  <1> QED BY <1>1, <1>3, <1>4 DEF CalmCommands, MildCommands, l, Unasked

LEMMA CalmCommandsUnwired ==
    ASSUME NEW k \in Seq(Commands), NEW cur, NEW W
    PROVE  CalmCommands(k, Disconnected(k, cur), W)
  <1> DEFINE l == Disconnected(k, cur)
  <1>1. \A i \in DOMAIN k : k[i] \in Commands
    OBVIOUS
  <1>2. DOMAIN l = DOMAIN k
    BY DEF Disconnected
  <1>3. \A i \in DOMAIN k : l[i] = [k[i] EXCEPT !.wired = @ /\ k[i].to # cur]
    BY DEF Disconnected
  <1>4. ASSUME NEW c \in Commands, NEW d, d = [c EXCEPT !.wired = @ /\ c.to # cur]
        PROVE  /\ d \in Commands
               /\ d.op = c.op /\ d.worker = c.worker /\ d.client = c.client /\ d.to = c.to
    <2>1. CASE c \in [op : {"make"}, worker : {None}, to : {"none"}, client : Nat, arg : Readers,
                      wired : BOOLEAN]
      BY <1>4, <2>1 DEF Commands
    <2>2. CASE c \in [op : {"sync"}, worker : {None}, to : {"none"}, client : Nat, arg : {None},
                      wired : BOOLEAN]
      BY <1>4, <2>2 DEF Commands
    <2>3. CASE c \in [op : CardOps \cup {"update", "pace", "set", "delete"}, worker : Numbers,
                      to : States \cup {"none", "client"}, client : Nat, arg : Nat, wired : BOOLEAN]
      BY <1>4, <2>3 DEF Commands
    <2> QED BY <2>1, <2>2, <2>3 DEF Commands
  <1> HIDE DEF l
  <1>5. \A i \in DOMAIN k : /\ l[i] \in Commands /\ l[i].op = k[i].op /\ l[i].worker = k[i].worker
                            /\ l[i].client = k[i].client /\ l[i].to = k[i].to
    BY <1>1, <1>3, <1>4
  <1>6. l \in Seq(Commands)
    <2>1. DOMAIN k = 1..Len(k) /\ Len(k) \in Nat
      OBVIOUS
    <2>2. l = [i \in 1..Len(k) |-> l[i]]
      BY <1>2, <2>1 DEF l, Disconnected
    <2>3. \A i \in 1..Len(k) : l[i] \in Commands
      BY <1>5, <2>1
    <2> QED BY <2>1, <2>2, <2>3
  <1>7. \A x \in CardRequests, who \in Nat : Many(l, CommandsFor(x, who)) <= Many(k, CommandsFor(x, who))
    <2> SUFFICES ASSUME NEW x \in CardRequests, NEW who \in Nat
                 PROVE  Many(l, CommandsFor(x, who)) <= Many(k, CommandsFor(x, who))
      OBVIOUS
    <2>1. \A i \in DOMAIN l : l[i] \in CommandsFor(x, who) <=> k[i] \in CommandsFor(x, who)
      BY <1>1, <1>2, <1>5 DEF CommandsFor
    <2>2. Many(l, CommandsFor(x, who)) = Many(k, CommandsFor(x, who))
      BY <1>2, <2>1, ManyInSame
    <2> QED BY <2>2, ManyIsNat
  <1> QED BY <1>2, <1>5, <1>6, <1>7 DEF CalmCommands, MildCommands, l

-----------------------------------------------------------------------------
(* The operations of the main thread on the machine. *)
LEMMA Fields ==
    ASSUME NEW mm \in Machines
    PROVE  /\ mm.events \in Seq(Events) /\ mm.cmds \in Seq(Commands)
           /\ mm.cur \in States \cup {"none", "stopped", "crashed"}
           /\ \A q \in Seq(Events) : [mm EXCEPT !.events = q] \in Machines
           /\ \A k \in Seq(Commands) : [mm EXCEPT !.cmds = k] \in Machines
  BY DEF Machines

LEMMA CalmSame ==
    ASSUME NEW mm \in Machines, NEW nn \in Machines, NEW W,
           nn.events = mm.events, nn.cmds = mm.cmds
    PROVE  Calm(mm, nn, W)
  BY Fields, CalmEventsSame, CalmCommandsSame DEF Calm

LEMMA CalmRest ==
    ASSUME m \in Machines, m.events # <<>>, NEW W
    PROVE  Calm(m, Rest, W) /\ Rest.events = Tail(m.events) /\ Rest.cur = m.cur
  <1>1. m.events \in Seq(Events) /\ m.cmds \in Seq(Commands) /\ CalmEvents(m.events, Tail(m.events))
    BY Fields, CalmEventsTaken
  <1>2. Rest \in Machines /\ Rest.events = Tail(m.events) /\ Rest.cmds = m.cmds /\ Rest.cur = m.cur
    BY <1>1 DEF Rest, Machines, CalmEvents
  <1> QED BY <1>1, <1>2, CalmCommandsSame DEF Calm

LEMMA CalmPost ==
    ASSUME NEW mm \in Machines, NEW e \in Events, e.type \in Harmless, NEW W
    PROVE  /\ Calm(mm, Post(mm, e), W)
           /\ Post(mm, e).events = Append(mm.events, e) /\ Post(mm, e).cur = mm.cur
  <1>1. mm.events \in Seq(Events) /\ mm.cmds \in Seq(Commands) /\ CalmEvents(mm.events, Append(mm.events, e))
    BY Fields, CalmEventsPost
  <1>2. /\ Post(mm, e) \in Machines /\ Post(mm, e).events = Append(mm.events, e)
        /\ Post(mm, e).cmds = mm.cmds /\ Post(mm, e).cur = mm.cur
    BY <1>1 DEF Post, Machines, CalmEvents
  <1> QED BY <1>1, <1>2, CalmCommandsSame DEF Calm

LEMMA CalmSend ==
    ASSUME NEW mm \in Machines, NEW k, Unasked(k), NEW W, k.worker \in W \cup {None}
    PROVE  /\ Calm(mm, Send(mm, k), W)
           /\ Send(mm, k).events = mm.events /\ Send(mm, k).cur = mm.cur
  <1>1. /\ mm.events \in Seq(Events) /\ mm.cmds \in Seq(Commands)
        /\ CalmCommands(mm.cmds, Append(mm.cmds, k), W)
    BY Fields, CalmCommandsSend
  <1>2. /\ Send(mm, k) \in Machines /\ Send(mm, k).events = mm.events
        /\ Send(mm, k).cmds = Append(mm.cmds, k) /\ Send(mm, k).cur = mm.cur
    BY <1>1 DEF Send, Machines, CalmCommands, MildCommands
  <1> QED BY <1>1, <1>2, CalmEventsSame DEF Calm

LEMMA CalmBlock ==
    ASSUME NEW mm \in Machines, h \in Handlers, NEW W
    PROVE  /\ Calm(mm, Block(mm), W)
           /\ Block(mm).events = mm.events /\ Block(mm).cur = mm.cur
  <1>1. Unasked(Sync) /\ Sync.worker = None
    <2>1. Sync = [op |-> "sync", worker |-> None, to |-> "none", client |-> h.client, arg |-> None,
                  wired |-> TRUE]
      BY DEF Sync, Command
    <2>2. h.client \in Nat
      BY DEF Handlers
    <2>3. "sync" \notin CardOps
      BY IfdServiceAssumption
    <2> QED BY <2>1, <2>2, <2>3 DEF Unasked, Commands, CommandsFor, CommandOf, CardRequests
  <1>2. /\ Calm(mm, Send(mm, Sync), W)
        /\ Send(mm, Sync).events = mm.events /\ Send(mm, Sync).cur = mm.cur
    BY <1>1, CalmSend
  <1>3. Send(mm, Sync) \in Machines
    BY <1>2 DEF Calm
  <1>4. /\ Block(mm) \in Machines /\ Block(mm).events = Send(mm, Sync).events
        /\ Block(mm).cmds = Send(mm, Sync).cmds /\ Block(mm).cur = Send(mm, Sync).cur
    BY <1>3 DEF Block, Machines
  <1>5. Calm(Send(mm, Sync), Block(mm), W)
    BY <1>3, <1>4, CalmSame
  <1> QED BY <1>2, <1>4, <1>5, CalmAgain

LEMMA CalmAfterReset ==
    ASSUME NEW mm \in Machines, h \in Handlers, NEW c, NEW W
    PROVE  /\ Calm(mm, AfterReset(mm, c), W)
           /\ AfterReset(mm, c).events = mm.events /\ AfterReset(mm, c).cur = mm.cur
  BY CalmBlock, CalmSame DEF AfterReset

LEMMA CalmExit ==
    ASSUME NEW mm \in Machines, NEW W
    PROVE  /\ Calm(mm, Exit(mm), W)
           /\ Exit(mm).events = mm.events /\ Exit(mm).cur = mm.cur
  <1> DEFINE l == Disconnected(mm.cmds, mm.cur)
             n == IF mm.cur = "Process" THEN None ELSE mm.listening
             b == mm.watching /\ mm.cur # "Process"
  <1>1. mm.events \in Seq(Events) /\ mm.cmds \in Seq(Commands)
    BY Fields
  <1>2. CalmCommands(mm.cmds, l, W)
    BY <1>1, CalmCommandsUnwired
  <1>3. Exit(mm) = [mm EXCEPT !.approved = FALSE, !.asker = None, !.listening = n, !.watching = b,
                      !.cmds = l]
    BY DEF Exit
  <1>4. l \in Seq(Commands) /\ n \in Nat /\ b \in BOOLEAN
    BY <1>2 DEF CalmCommands, MildCommands, None, Machines
  <1> HIDE DEF l, n, b
  <1>5. /\ Exit(mm) \in Machines /\ Exit(mm).events = mm.events /\ Exit(mm).cmds = l
        /\ Exit(mm).cur = mm.cur
    <2>1. None \in Nat
      BY DEF None
    <2>2. /\ [mm EXCEPT !.approved = FALSE, !.asker = None] \in Machines
          /\ \A nn \in Machines : [nn EXCEPT !.listening = n, !.watching = b, !.cmds = l] \in Machines
      BY <1>4, <2>1 DEF Machines
    <2>3. Exit(mm) = [[mm EXCEPT !.approved = FALSE, !.asker = None] EXCEPT
                         !.listening = n, !.watching = b, !.cmds = l]
      BY <1>3
    <2>4. Exit(mm) \in Machines
      BY <2>2, <2>3
    <2> QED BY <1>3, <2>4 DEF Machines
  <1> QED BY <1>1, <1>2, <1>5, CalmEventsSame DEF Calm

(* The events that entering a state posts. *)
Posted(c, st) ==
    (IF st \notin Waiting \/ c.killed THEN <<Run(st)>> ELSE <<>>)
        \o (IF c.cancelled /\ ~c.inState THEN <<Cancel(st)>> ELSE <<>>)

LEMMA ShortQueues ==
    ASSUME NEW x, NEW y
    PROVE  /\ <<>> \o <<>> = <<>> /\ <<x>> \o <<>> = <<x>> /\ <<>> \o <<y>> = <<y>>
           /\ <<x>> \o <<y>> = <<x, y>>
           /\ \A i \in DOMAIN <<x>> : <<x>>[i] = x
           /\ \A i \in DOMAIN <<x, y>> : <<x, y>>[i] \in {x, y}
           /\ Len(<<x>>) = 1 /\ Len(<<x, y>>) = 2 /\ <<x>>[1] = x /\ <<x, y>>[1] = x /\ <<x, y>>[2] = y
           /\ \A S : x \in S /\ y \in S => <<x>> \in Seq(S) /\ <<x, y>> \in Seq(S) /\ <<>> \in Seq(S)
  <1>1. \A i \in DOMAIN <<x, y>> : <<x, y>>[i] \in {x, y}
    OBVIOUS
  <1>2. <<x>> \o <<y>> = <<x, y>>
    <2>1. <<x>> \in Seq({x, y}) /\ <<y>> \in Seq({x, y}) /\ <<x, y>> \in Seq({x, y})
      OBVIOUS
    <2>2. Len(<<x>>) = 1 /\ Len(<<y>>) = 1 /\ Len(<<x, y>>) = 2
      OBVIOUS
    <2>3. /\ <<x>> \o <<y>> \in Seq({x, y}) /\ Len(<<x>> \o <<y>>) = 2
          /\ \A i \in 1..2 : (<<x>> \o <<y>>)[i] = IF i <= 1 THEN <<x>>[i] ELSE <<y>>[i - 1]
      BY <2>1, <2>2, ConcatProperties
    <2>4. \A i \in 1..2 : (<<x>> \o <<y>>)[i] = <<x, y>>[i]
      BY <2>3
    <2> QED BY <2>1, <2>2, <2>3, <2>4, SeqEqual
  <1>3. <<>> \o <<>> = <<>> /\ <<x>> \o <<>> = <<x>> /\ <<>> \o <<y>> = <<y>>
    OBVIOUS
  <1>4. \A S : x \in S /\ y \in S => <<x>> \in Seq(S) /\ <<x, y>> \in Seq(S) /\ <<>> \in Seq(S)
    OBVIOUS
  <1> QED BY <1>1, <1>2, <1>3, <1>4

LEMMA PostedFacts ==
    ASSUME NEW c, NEW st \in States
    PROVE  /\ Posted(c, st) \in Seq(Events)
           /\ \A i \in DOMAIN Posted(c, st) : Posted(c, st)[i].type \in {"run", "cancel"}
           /\ \A i \in DOMAIN Posted(c, st) : Posted(c, st)[i] \in {Run(st), Cancel(st)}
           /\ Posted(c, st) \in {<<>>, <<Run(st)>>, <<Cancel(st)>>, <<Run(st), Cancel(st)>>}
           /\ st \notin Waiting => Len(Posted(c, st)) >= 1 /\ Posted(c, st)[1] = Run(st)
           /\ st \notin Waiting /\ Unnoticed(c) => Posted(c, st) = <<Run(st), Cancel(st)>>
           /\ ~Unnoticed(c) => Posted(c, st) \in {<<>>, <<Run(st)>>}
  <1>1. Run(st) \in Events /\ Cancel(st) \in Events /\ Run(st).type = "run" /\ Cancel(st).type = "cancel"
    BY DEF Run, Cancel, Events, RunEvents
  <1> DEFINE a == IF st \notin Waiting \/ c.killed THEN <<Run(st)>> ELSE <<>>
             b == IF c.cancelled /\ ~c.inState THEN <<Cancel(st)>> ELSE <<>>
  <1>2. Posted(c, st) = a \o b
    BY DEF Posted
  <1>3. /\ a \in {<<>>, <<Run(st)>>} /\ b \in {<<>>, <<Cancel(st)>>}
        /\ st \notin Waiting => a = <<Run(st)>>
        /\ Unnoticed(c) <=> b # <<>>
    BY DEF Unnoticed
  <1> HIDE DEF a, b
  <1>4. /\ <<>> \o <<>> = <<>> /\ <<Run(st)>> \o <<>> = <<Run(st)>> /\ <<>> \o <<Cancel(st)>> = <<Cancel(st)>>
        /\ <<Run(st)>> \o <<Cancel(st)>> = <<Run(st), Cancel(st)>>
    BY ShortQueues
  <1>5. Posted(c, st) \in {<<>>, <<Run(st)>>, <<Cancel(st)>>, <<Run(st), Cancel(st)>>}
    BY <1>2, <1>3, <1>4
  <1>6. \A i \in DOMAIN Posted(c, st) : Posted(c, st)[i] \in {Run(st), Cancel(st)}
    <2>1. \A i \in DOMAIN <<Run(st)>> : <<Run(st)>>[i] \in {Run(st), Cancel(st)}
      BY ShortQueues
    <2>2. \A i \in DOMAIN <<Cancel(st)>> : <<Cancel(st)>>[i] \in {Run(st), Cancel(st)}
      BY ShortQueues
    <2>3. \A i \in DOMAIN <<Run(st), Cancel(st)>> : <<Run(st), Cancel(st)>>[i] \in {Run(st), Cancel(st)}
      BY ShortQueues
    <2>4. DOMAIN <<>> = {}
      OBVIOUS
    <2> QED BY <1>5, <2>1, <2>2, <2>3, <2>4
  <1>7. Posted(c, st) \in Seq(Events)
    <2>1. <<>> \in Seq(Events) /\ <<Run(st)>> \in Seq(Events) /\ <<Cancel(st)>> \in Seq(Events)
          /\ <<Run(st), Cancel(st)>> \in Seq(Events)
      BY <1>1, ShortQueues
    <2> QED BY <1>5, <2>1
  <1>8. st \notin Waiting => Posted(c, st) \in {<<Run(st)>>, <<Run(st), Cancel(st)>>}
    BY <1>2, <1>3, <1>4
  <1>9. st \notin Waiting => Len(Posted(c, st)) >= 1 /\ Posted(c, st)[1] = Run(st)
    BY <1>8, ShortQueues
  <1>10. st \notin Waiting /\ Unnoticed(c) => Posted(c, st) = <<Run(st), Cancel(st)>>
    BY <1>2, <1>3, <1>4
  <1>11. ~Unnoticed(c) => Posted(c, st) \in {<<>>, <<Run(st)>>}
    BY <1>2, <1>3, <1>4
  <1> QED BY <1>1, <1>5, <1>6, <1>7, <1>9, <1>10, <1>11

LEMMA CalmEnter ==
    ASSUME NEW mm \in Machines, h \in Handlers, NEW c \in Contexts, NEW st \in States, NEW W
    PROVE  /\ Calm(mm, Enter(mm, c, st), W)
           /\ Enter(mm, c, st).events = mm.events \o Posted(c, st) /\ Enter(mm, c, st).cur = st
  <1> DEFINE r == Posted(c, st)
             q == mm.events \o r
  <1>1. mm.events \in Seq(Events) /\ mm.cmds \in Seq(Commands)
    BY Fields
  <1>2. r \in Seq(Events) /\ \A i \in DOMAIN r : r[i].type \in Harmless
    BY PostedFacts DEF Harmless
  <1>3. CalmEvents(mm.events, q)
    BY <1>1, <1>2, CalmEventsMore
  <1>4. q = mm.events \o (IF st \notin Waiting \/ c.killed THEN <<Run(st)>> ELSE <<>>)
                      \o (IF c.cancelled /\ ~c.inState THEN <<Cancel(st)>> ELSE <<>>)
    <2> DEFINE a == IF st \notin Waiting \/ c.killed THEN <<Run(st)>> ELSE <<>>
               b == IF c.cancelled /\ ~c.inState THEN <<Cancel(st)>> ELSE <<>>
    <2>2. a \in Seq(Events) /\ b \in Seq(Events)
      <3>1. Run(st) \in Events /\ Cancel(st) \in Events
        BY DEF Run, Cancel, Events, RunEvents
      <3> QED BY <3>1, ShortQueues
    <2>3. r = a \o b
      BY DEF Posted
    <2> HIDE DEF a, b, r
    <2>4. mm.events \o (a \o b) = (mm.events \o a) \o b
      <3>1. \A x, y, z \in Seq(Events) : (x \o y) \o z = x \o (y \o z)
        BY ConcatAssociative
      <3>2. mm.events \in Seq(Events)
        BY <1>1
      <3> QED BY <2>2, <3>1, <3>2, Zenon
    <2> QED BY <2>3, <2>4 DEF a, b
  <1> HIDE DEF q, r
  <1> DEFINE b == st \notin Waiting \/ c.killed
             n == IF st \in Waiting THEN h.client ELSE None
  <1>5. Enter(mm, c, st) = [mm EXCEPT !.cur = st, !.approved = b, !.events = q, !.asker = n]
    BY <1>4 DEF Enter
  <1>6. q \in Seq(Events) /\ b \in BOOLEAN /\ n \in Nat
    BY <1>3 DEF CalmEvents, Handlers, Contexts, None
  <1> HIDE DEF b, n
  <1>7. /\ Enter(mm, c, st) \in Machines /\ Enter(mm, c, st).events = q
        /\ Enter(mm, c, st).cmds = mm.cmds /\ Enter(mm, c, st).cur = st
    BY <1>5, <1>6 DEF Machines, None
  <1> QED BY <1>1, <1>3, <1>7, CalmCommandsSame DEF Calm, q, r

LEMMA TargetKinds ==
    ASSUME NEW cur, NEW st \in States, NEW sig
    PROVE  Target(cur, st, sig) = "ignored" \/ Target(cur, st, sig) \in States \cup {"stopped"}
  <1>1. \A s \in States : \A g \in DOMAIN Edges[s] : Edges[s][g] \in States \cup {"stopped"}
    BY DEF States, Edges
  <1> QED BY <1>1 DEF Target

Fired(mm, nn, c, to) ==
    /\ to = "ignored" => nn = mm
    /\ to = "stopped" => nn.cur = "stopped" /\ nn.events = mm.events
    /\ to \notin {"ignored", "stopped"} =>
           to \in States /\ nn.cur = to /\ nn.events = mm.events \o Posted(c, to)

LEMMA CalmFire ==
    ASSUME NEW mm \in Machines, h \in Handlers, NEW c \in Contexts, NEW st \in States, NEW sig, NEW W
    PROVE  /\ Calm(mm, Fire(mm, c, st, sig), W)
           /\ Fired(mm, Fire(mm, c, st, sig), c, Target(mm.cur, st, sig))
  <1> DEFINE to == Target(mm.cur, st, sig)
  <1>1. to = "ignored" \/ to \in States \cup {"stopped"}
    BY TargetKinds
  <1> SUFFICES Calm(mm, Fire(mm, c, st, sig), W) /\ Fired(mm, Fire(mm, c, st, sig), c, to)
    OBVIOUS
  <1> HIDE DEF to
  <1>2. CASE to = "ignored"
    <2>1. Fire(mm, c, st, sig) = mm
      BY <1>2 DEF Fire, to
    <2> QED BY <1>2, <2>1, CalmSame DEF Fired
  <1>3. Calm(mm, Exit(mm), W) /\ Exit(mm).events = mm.events /\ Exit(mm) \in Machines
    BY CalmExit DEF Calm
  <1>4. CASE to = "stopped"
    <2>1. Fire(mm, c, st, sig) = [Exit(mm) EXCEPT !.cur = "stopped"]
      BY <1>4 DEF Fire, to
    <2>2. /\ Fire(mm, c, st, sig) \in Machines /\ Fire(mm, c, st, sig).events = mm.events
          /\ Fire(mm, c, st, sig).cmds = Exit(mm).cmds /\ Fire(mm, c, st, sig).cur = "stopped"
      BY <1>3, <2>1 DEF Machines
    <2>3. Calm(Exit(mm), Fire(mm, c, st, sig), W)
      BY <1>3, <2>2, CalmSame
    <2> QED BY <1>3, <1>4, <2>2, <2>3, CalmAgain DEF Fired
  <1>5. CASE to \notin {"ignored", "stopped"}
    <2>1. Fire(mm, c, st, sig) = Enter(Exit(mm), c, to) /\ to \in States
      BY <1>1, <1>5 DEF Fire, to
    <2>2. /\ Calm(Exit(mm), Enter(Exit(mm), c, to), W)
          /\ Enter(Exit(mm), c, to).events = Exit(mm).events \o Posted(c, to)
          /\ Enter(Exit(mm), c, to).cur = to
      BY <1>3, <2>1, CalmEnter
    <2> QED BY <1>3, <1>5, <2>1, <2>2, CalmAgain DEF Fired
  <1> QED BY <1>2, <1>4, <1>5

-----------------------------------------------------------------------------
(* The end of a step of the main thread: the workers that nothing refers   *)
(* to any more are to be deleted.                                          *)
LEMMA ReapFacts ==
    ASSUME NEW mm \in Machines, h \in Handlers, dev \in Devices, IsFiniteSet(DOMAIN dev.workers),
           NEW c, NEW hh, NEW cs, NEW nn, nn = Reap(mm, c, hh, cs)
    PROVE  /\ nn \in Machines /\ nn.events = mm.events /\ nn.cur = mm.cur
           /\ \A S : (\A k \in S : k.op # "delete") => Many(nn.cmds, S) = Many(mm.cmds, S)
           /\ \A i \in DOMAIN mm.cmds : i \in DOMAIN nn.cmds /\ nn.cmds[i] = mm.cmds[i]
           /\ \A i \in DOMAIN nn.cmds : i \notin DOMAIN mm.cmds =>
                  /\ nn.cmds[i].op = "delete" /\ nn.cmds[i].client = h.client
                  /\ nn.cmds[i].worker \in DOMAIN dev.workers
                  /\ ~Held(nn.cmds[i].worker, mm, c, hh, cs)
           /\ \A i, j \in DOMAIN nn.cmds : i \notin DOMAIN mm.cmds /\ j \notin DOMAIN mm.cmds
                  /\ nn.cmds[i].worker = nn.cmds[j].worker => i = j
  <1> DEFINE lost == {w \in DOMAIN dev.workers : ~Held(w, mm, c, hh, cs)}
             S == {Delete(w) : w \in lost}
             r == SetToSeq(S)
             q == mm.cmds \o r
  <1>1. \A w : Delete(w) = [op |-> "delete", worker |-> w, to |-> "none", client |-> h.client,
                            arg |-> None, wired |-> TRUE]
    BY DEF Delete, Command
  <1>2. DOMAIN dev.workers \subseteq Numbers /\ h.client \in Nat
    BY DEF Devices, Maps, Handlers
  <1>3. \A w \in Numbers : Delete(w) \in Commands
    BY <1>1, <1>2 DEF Commands, None
  <1>4. S \in SUBSET Commands
    BY <1>2, <1>3
  <1>5. IsFiniteSet(S)
    <2>1. IsFiniteSet(lost)
      BY FS_Subset
    <2> DEFINE f == [w \in lost |-> Delete(w)]
    <2>2. f \in Surjection(lost, S)
      BY DEF Surjection
    <2> HIDE DEF f, S, lost
    <2> QED BY <2>1, <2>2, FS_Surjection
  <1>6. /\ r \in Seq(Commands) /\ \A i \in DOMAIN r : r[i] \in S
        /\ \A i, j \in DOMAIN r : r[i] = r[j] => i = j
    BY ZenonT(40), <1>4, <1>5, SetToSeqFacts
  <1>7. \A i \in DOMAIN r : \E w \in lost : r[i] = Delete(w)
    BY <1>6
  <1>8. \A i \in DOMAIN r : /\ r[i].op = "delete" /\ r[i].client = h.client
                            /\ r[i].worker \in lost /\ r[i] = Delete(r[i].worker)
    BY <1>1, <1>7
  <1>9. nn = [mm EXCEPT !.cmds = q]
    BY DEF Reap
  <1> HIDE DEF r
  <1>10. mm.cmds \in Seq(Commands)
    BY Fields
  <1>11. /\ q \in Seq(Commands)
         /\ \A i \in DOMAIN mm.cmds : i \in DOMAIN q /\ q[i] = mm.cmds[i]
         /\ \A i \in DOMAIN q : i \in DOMAIN mm.cmds \/
                (i - Len(mm.cmds) \in DOMAIN r /\ q[i] = r[i - Len(mm.cmds)])
         /\ DOMAIN q = 1..(Len(mm.cmds) + Len(r)) /\ Len(mm.cmds) \in Nat
    BY <1>6, <1>10, ConcatFacts
  <1>12. \A R : (\A k \in R : k.op # "delete") => Many(q, R) = Many(mm.cmds, R)
    <2> SUFFICES ASSUME NEW R, \A k \in R : k.op # "delete"
                 PROVE  Many(q, R) = Many(mm.cmds, R)
      OBVIOUS
    <2>1. \A i \in DOMAIN r : r[i] \notin R
      BY <1>8
    <2> HIDE DEF S, lost
    <2> QED BY <1>6, <1>10, <2>1, ManyInConcat
  <1> HIDE DEF q, S
  <1>13. /\ nn \in Machines /\ nn.events = mm.events /\ nn.cur = mm.cur /\ nn.cmds = q
    BY <1>9, <1>11 DEF Machines
  <1>14. \A i \in DOMAIN q : i \notin DOMAIN mm.cmds =>
                  /\ q[i].op = "delete" /\ q[i].client = h.client /\ q[i].worker \in lost
                  /\ q[i] = Delete(q[i].worker)
    BY <1>8, <1>11
  <1>15. ASSUME NEW i \in DOMAIN q, NEW j \in DOMAIN q, i \notin DOMAIN mm.cmds, j \notin DOMAIN mm.cmds,
                q[i].worker = q[j].worker
         PROVE  i = j
    <2>1. q[i] = q[j]
      BY <1>14, <1>15
    <2>2. i - Len(mm.cmds) = j - Len(mm.cmds)
      BY <1>6, <1>11, <1>15, <2>1
    <2> QED BY <1>11, <2>2
  <1> QED BY <1>11, <1>12, <1>13, <1>14, <1>15

(* Whatever refers to a worker then did so before. *)
Refers(w, c, hh, cs) ==
    \/ c.conn = w
    \/ \E s \in DOMAIN hh.slots : hh.slots[s] = w
    \/ \E x \in cs : x.worker = w

LEMMA ReapKeepsAlive ==
    ASSUME m \in Machines, h \in Handlers, dev \in Devices, IsFiniteSet(DOMAIN dev.workers),
           Alive(m, ctx, h, create, dev), NEW mm, NEW W, Mild(m, mm, W), NEW c, NEW hh, NEW cs,
           \A w \in Numbers : w \in W \/ Refers(w, c, hh, cs) => Used(w, m, ctx, h, create)
    PROVE  Alive(Reap(mm, c, hh, cs), c, hh, cs, dev)
  <1> DEFINE nn == Reap(mm, c, hh, cs)
  <1>1. mm \in Machines
    BY DEF Mild
  <1>2. /\ nn.events = mm.events
        /\ \A i \in DOMAIN mm.cmds : i \in DOMAIN nn.cmds /\ nn.cmds[i] = mm.cmds[i]
        /\ \A i \in DOMAIN nn.cmds : i \notin DOMAIN mm.cmds =>
               /\ nn.cmds[i].op = "delete" /\ nn.cmds[i].worker \in DOMAIN dev.workers
               /\ ~Held(nn.cmds[i].worker, mm, c, hh, cs)
        /\ \A i, j \in DOMAIN nn.cmds : i \notin DOMAIN mm.cmds /\ j \notin DOMAIN mm.cmds
               /\ nn.cmds[i].worker = nn.cmds[j].worker => i = j
    BY <1>1, ReapFacts
  <1> HIDE DEF nn
  <1>3. /\ \A i \in DOMAIN mm.events : mm.events[i].type \in Harmless \/ \E j \in DOMAIN m.events : m.events[j] = mm.events[i]
        /\ \A i \in DOMAIN mm.cmds : mm.cmds[i].op # "delete" =>
               \/ mm.cmds[i].worker \in W \cup {None}
               \/ \E j \in DOMAIN m.cmds : m.cmds[j].op # "delete" /\ m.cmds[j].worker = mm.cmds[i].worker
        /\ \A i \in DOMAIN mm.cmds : mm.cmds[i].op = "delete" =>
               i \in DOMAIN m.cmds /\ m.cmds[i].op = "delete" /\ m.cmds[i].worker = mm.cmds[i].worker
    BY DEF Mild, CalmEvents, MildCommands
  <1>4. DOMAIN dev.workers \subseteq Numbers
    BY DEF Devices, Maps
  <1>5. ASSUME NEW w \in Numbers, Used(w, nn, c, hh, cs)
        PROVE  Used(w, m, ctx, h, create) /\ Held(w, mm, c, hh, cs)
    <2>1. CASE Refers(w, c, hh, cs)
      BY <2>1 DEF Refers, Held
    <2>2. CASE \E i \in DOMAIN nn.cmds : nn.cmds[i].op # "delete" /\ nn.cmds[i].worker = w
      <3>1. PICK i \in DOMAIN mm.cmds : mm.cmds[i].op # "delete" /\ mm.cmds[i].worker = w
        BY <1>2, <2>2
      <3>2. Held(w, mm, c, hh, cs)
        BY <3>1 DEF Held
      <3>3. w \in W \/ \E j \in DOMAIN m.cmds : m.cmds[j].op # "delete" /\ m.cmds[j].worker = w
        BY <1>3, <3>1 DEF Numbers
      <3> QED BY <3>2, <3>3 DEF Used, Mentioned
    <2>3. CASE \E i \in DOMAIN nn.events : nn.events[i].type \in {"made", "done"} /\ nn.events[i].worker = w
      <3>1. PICK i \in DOMAIN mm.events : mm.events[i].type \in {"made", "done"} /\ mm.events[i].worker = w
        BY <1>2, <2>3
      <3>2. Held(w, mm, c, hh, cs)
        BY <3>1 DEF Held
      <3>3. \E j \in DOMAIN m.events : m.events[j] = mm.events[i]
        BY <1>3, <3>1 DEF Harmless
      <3> QED BY <3>1, <3>2, <3>3 DEF Used, Mentioned
    <2> QED BY <1>5, <2>1, <2>2, <2>3 DEF Used, Mentioned, Refers
  <1>6. \A w \in Numbers : Used(w, nn, c, hh, cs) => w \in DOMAIN dev.workers
    BY <1>5 DEF Alive
  <1>7. ASSUME NEW w \in Numbers, Used(w, nn, c, hh, cs), NEW i \in DOMAIN nn.cmds, nn.cmds[i].op = "delete"
        PROVE  nn.cmds[i].worker # w
    <2>1. CASE i \in DOMAIN mm.cmds
      <3>1. i \in DOMAIN m.cmds /\ m.cmds[i].op = "delete" /\ m.cmds[i].worker = nn.cmds[i].worker
        BY <1>2, <1>3, <1>7, <2>1
      <3> QED BY <1>5, <1>7, <3>1 DEF Alive
    <2>2. CASE i \notin DOMAIN mm.cmds
      BY <1>2, <1>5, <1>7, <2>2
    <2> QED BY <2>1, <2>2
  <1>8. ASSUME NEW i \in DOMAIN nn.cmds, nn.cmds[i].op = "delete"
        PROVE  nn.cmds[i].worker \in DOMAIN dev.workers
    <2>1. CASE i \in DOMAIN mm.cmds
      <3>1. i \in DOMAIN m.cmds /\ m.cmds[i].op = "delete" /\ m.cmds[i].worker = nn.cmds[i].worker
        BY <1>2, <1>3, <1>8, <2>1
      <3> QED BY <3>1 DEF Alive
    <2> QED BY <1>2, <2>1
  <1>9. ASSUME NEW i \in DOMAIN nn.cmds, NEW j \in DOMAIN nn.cmds, nn.cmds[i].op = "delete",
               nn.cmds[j].op = "delete", nn.cmds[i].worker = nn.cmds[j].worker
        PROVE  i = j
    <2>1. CASE i \in DOMAIN mm.cmds /\ j \in DOMAIN mm.cmds
      <3>1. /\ i \in DOMAIN m.cmds /\ m.cmds[i].op = "delete" /\ m.cmds[i].worker = nn.cmds[i].worker
            /\ j \in DOMAIN m.cmds /\ m.cmds[j].op = "delete" /\ m.cmds[j].worker = nn.cmds[j].worker
        BY <1>2, <1>3, <1>9, <2>1
      <3> QED BY <1>9, <3>1 DEF Alive
    <2>2. ASSUME NEW k \in DOMAIN mm.cmds, NEW l \in DOMAIN nn.cmds, l \notin DOMAIN mm.cmds,
                 nn.cmds[l].worker = nn.cmds[k].worker
          PROVE  FALSE
      <3>1. mm.cmds[k].worker = nn.cmds[l].worker
        BY <1>2, <2>2
      <3> QED BY <1>2, <2>2, <3>1 DEF Held
    <2>3. CASE i \notin DOMAIN mm.cmds /\ j \notin DOMAIN mm.cmds
      BY <1>2, <1>9, <2>3
    <2> QED BY <1>9, <2>1, <2>2, <2>3
  <1>10. Alive(nn, c, hh, cs, dev)
    BY <1>6, <1>7, <1>8, <1>9 DEF Alive
  <1> QED BY <1>10 DEF nn

(* What is under way for a client does not become more. *)
LEMMA UnderWayFacts ==
    ASSUME NEW mm \in Machines, NEW x, NEW who
    PROVE  UnderWay(x, mm, who) \in Nat
  <1>1. /\ Many(mm.events, Messages(x)) \in Nat /\ Many(mm.cmds, CommandsFor(x, who)) \in Nat
        /\ Many(mm.events, ResultsFor(x, who)) \in Nat
    BY Fields, ManyIsNat
  <1> QED BY <1>1 DEF UnderWay

LEMMA UnderWayCalm ==
    ASSUME NEW mm \in Machines, NEW nn, NEW W, Calm(mm, nn, W), NEW x \in CardRequests, NEW who \in Nat
    PROVE  UnderWay(x, nn, who) <= UnderWay(x, mm, who)
  <1>1. nn \in Machines
    BY DEF Calm
  <1>2. /\ Many(mm.events, Messages(x)) \in Nat /\ Many(mm.cmds, CommandsFor(x, who)) \in Nat
        /\ Many(mm.events, ResultsFor(x, who)) \in Nat
        /\ Many(nn.events, Messages(x)) \in Nat /\ Many(nn.cmds, CommandsFor(x, who)) \in Nat
        /\ Many(nn.events, ResultsFor(x, who)) \in Nat
    BY <1>1, Fields, ManyIsNat
  <1>3. /\ Many(nn.events, Messages(x)) <= Many(mm.events, Messages(x))
        /\ Many(nn.cmds, CommandsFor(x, who)) <= Many(mm.cmds, CommandsFor(x, who))
        /\ Many(nn.events, ResultsFor(x, who)) <= Many(mm.events, ResultsFor(x, who))
    BY DEF Calm, CalmEvents, CalmCommands, MildCommands
  <1> QED BY <1>2, <1>3 DEF UnderWay

LEMMA DueCalm ==
    ASSUME m \in Machines, h \in Handlers, due \in [Requests -> Int], AnswersAreDue(m, h, due),
           NEW mm, NEW W, Calm(m, mm, W), NEW hh \in Handlers, hh.client \in {h.client, None}
    PROVE  AnswersAreDue(mm, hh, due)
  <1>1. ASSUME NEW x \in CardRequests, hh.client # None
        PROVE  due[x] >= UnderWay(x, mm, hh.client)
    <2>1. hh.client = h.client /\ h.client \in Nat
      BY <1>1 DEF Handlers
    <2>2. UnderWay(x, mm, h.client) <= UnderWay(x, m, h.client)
      BY <2>1, UnderWayCalm
    <2>3. mm \in Machines
      BY DEF Calm
    <2>4. UnderWay(x, mm, h.client) \in Nat /\ UnderWay(x, m, h.client) \in Nat
      BY <2>3, UnderWayFacts
    <2>5. due[x] \in Int
      BY DEF CardRequests, Requests
    <2>6. due[x] >= UnderWay(x, m, h.client)
      BY <1>1, <2>1 DEF AnswersAreDue
    <2> QED BY <2>1, <2>2, <2>4, <2>5, <2>6
  <1> QED BY <1>1 DEF AnswersAreDue

(* The invariant of the values a step of the main thread ends with.        *)
IInvAt(mm, c, hh, cs, d, u, l) ==
    /\ mm \in Machines /\ c \in Contexts /\ hh \in Handlers /\ d \in Devices /\ l \in Limits
    /\ cs \in SUBSET Creates /\ IsFiniteSet(cs)
    /\ IsFiniteSet(DOMAIN hh.slots) /\ IsFiniteSet(DOMAIN d.workers)
    /\ u \in [Requests -> Int]
    /\ Alive(mm, c, hh, cs, d) /\ Ordered(mm, c, hh)
    /\ AnswersAreDue(mm, hh, u) /\ EndIsLast(mm, hh) /\ ClientsAreNew(mm, hh, l)

LEMMA Now == IInv <=> IInvAt(m, ctx, h, create, dev, due, left)
  BY DEF IInv, IInvAt, Typed
LEMMA Then == IInv' <=> IInvAt(m', ctx', h', create', dev', due', left')
  BY DEF IInv, IInvAt, Typed

(* A client that connects has no messages under way, one that goes none    *)
(* any more.                                                               *)
LEMMA StepKeeps ==
    ASSUME IInv, NEW mm, NEW c \in Contexts, NEW hh \in Handlers, NEW cs \in SUBSET Creates,
           IsFiniteSet(cs), IsFiniteSet(DOMAIN hh.slots),
           NEW W, Mild(m, mm, W),
           \A w \in Numbers : w \in W \/ Refers(w, c, hh, cs) => Used(w, m, ctx, h, create),
           Become(mm, c, hh, cs), UNCHANGED <<dev, left>>, due' \in [Requests -> Int],
           Ordered(mm, c, hh), AnswersAreDue(mm, hh, due'),
           hh.client = None => h.client = None \/ Silent(mm.events),
           \/ hh.client \in {h.client, None}
           \/ hh.client > left.clients /\ \A i \in DOMAIN mm.events : mm.events[i].type # "client"
    PROVE  IInv'
  <1> DEFINE nn == Reap(mm, c, hh, cs)
  <1>1. m' = nn /\ ctx' = c /\ h' = hh /\ create' = cs /\ dev' = dev /\ left' = left
    BY DEF Become
  <1>2. /\ m \in Machines /\ h \in Handlers /\ dev \in Devices /\ left \in Limits
        /\ IsFiniteSet(DOMAIN dev.workers)
        /\ Alive(m, ctx, h, create, dev) /\ EndIsLast(m, h) /\ ClientsAreNew(m, h, left)
    BY DEF IInv, Typed
  <1>3. mm \in Machines
    BY DEF Mild
  <1>4. Alive(nn, c, hh, cs, dev)
    BY <1>2, ReapKeepsAlive
  <1>5. /\ nn \in Machines /\ nn.events = mm.events /\ nn.cur = mm.cur
        /\ \A S : (\A k \in S : k.op # "delete") => Many(nn.cmds, S) = Many(mm.cmds, S)
        /\ \A i \in DOMAIN nn.cmds : (i \in DOMAIN mm.cmds /\ nn.cmds[i] = mm.cmds[i])
               \/ nn.cmds[i].client = h.client
    <2>1. nn = Reap(mm, c, hh, cs)
      OBVIOUS
    <2> HIDE DEF nn
    <2>2. /\ nn \in Machines /\ nn.events = mm.events /\ nn.cur = mm.cur
          /\ \A i \in DOMAIN mm.cmds : i \in DOMAIN nn.cmds /\ nn.cmds[i] = mm.cmds[i]
          /\ \A i \in DOMAIN nn.cmds : i \notin DOMAIN mm.cmds => nn.cmds[i].client = h.client
      BY <1>2, <1>3, <2>1, ReapFacts
    <2>3. \A S : (\A k \in S : k.op # "delete") => Many(nn.cmds, S) = Many(mm.cmds, S)
      BY <1>2, <1>3, <2>1, ReapFacts
    <2> QED BY <2>2, <2>3
  <1> HIDE DEF nn
  <1>6. Ordered(nn, c, hh)
    BY <1>5 DEF Ordered, EarlyCancel, NothingLate, ClearComesFirst
  <1>7. AnswersAreDue(nn, hh, due')
    <2>1. \A x \in CardRequests : UnderWay(x, nn, hh.client) = UnderWay(x, mm, hh.client)
      <3> SUFFICES ASSUME NEW x \in CardRequests
                   PROVE  UnderWay(x, nn, hh.client) = UnderWay(x, mm, hh.client)
        OBVIOUS
      <3>1. \A k \in CommandsFor(x, hh.client) : k.op # "delete"
        BY IfdServiceAssumption DEF CommandsFor, CommandOf, CardRequests
      <3> QED BY <1>5, <3>1 DEF UnderWay
    <2> QED BY <2>1 DEF AnswersAreDue
  <1>8. EndIsLast(nn, hh)
    <2>1. Closing(mm.events)
      BY <1>2 DEF Mild, CalmEvents, EndIsLast
    <2>2. h.client = None => Silent(mm.events)
      <3> SUFFICES ASSUME h.client = None, NEW i \in DOMAIN mm.events, Said(mm.events[i])
                   PROVE  FALSE
        BY DEF Silent
      <3>1. \E j \in DOMAIN m.events : m.events[j] = mm.events[i]
        BY DEF Mild, CalmEvents, Harmless, Said
      <3> QED BY <1>2, <3>1 DEF EndIsLast, Silent
    <2> QED BY <1>5, <2>1, <2>2 DEF EndIsLast
  <1>9. ClientsAreNew(nn, hh, left)
    <2>1. \A n \in Numbers : Known(n, nn, hh) => Known(n, m, h) \/ n = hh.client
      <3> SUFFICES ASSUME NEW n \in Numbers, Known(n, nn, hh), n # hh.client
                   PROVE  Known(n, m, h)
        OBVIOUS
      <3>1. CASE \E i \in DOMAIN nn.cmds : nn.cmds[i].client = n
        <4>1. n = h.client \/ \E i \in DOMAIN mm.cmds : mm.cmds[i].client = n
          BY <1>5, <3>1
        <4>2. n = h.client \/ \E i \in DOMAIN m.cmds : m.cmds[i].client = n
          BY <4>1 DEF Mild, MildCommands
        <4> QED BY <4>2 DEF Known
      <3>2. CASE \E i \in DOMAIN nn.events : nn.events[i].type = "done" /\ nn.events[i].client = n
        <4>1. \E i \in DOMAIN m.events : m.events[i].type = "done" /\ m.events[i].client = n
          BY <1>5, <3>2 DEF Mild, CalmEvents, Harmless
        <4> QED BY <4>1 DEF Known
      <3> QED BY <3>1, <3>2 DEF Known
    <2>2. \A i \in DOMAIN nn.events : nn.events[i].type = "client" =>
              \E j \in DOMAIN m.events : m.events[j] = nn.events[i]
      BY <1>5 DEF Mild, CalmEvents, Harmless
    <2>3. OneCaller(nn.events)
      BY <1>2, <1>5 DEF Mild, CalmEvents, ClientsAreNew
    <2>4. hh.client \in Numbers => hh.client > left.clients
      <3>1. CASE hh.client = h.client
        BY <1>2, <3>1 DEF ClientsAreNew, Known
      <3>2. CASE hh.client = None
        BY <3>2 DEF Numbers
      <3> QED BY <3>1, <3>2
    <2>5. \A n \in Numbers : Known(n, nn, hh) => n > left.clients
      BY <1>2, <2>1, <2>4 DEF ClientsAreNew
    <2>6. \A e \in Events : e.type = "client" => e.no \in Numbers
      BY DEF Events, RunEvents, MessageEvents, CreateEvents, MadeEvents, DoneEvents, ReaderEvents
    <2>7. ASSUME NEW i \in DOMAIN nn.events, nn.events[i].type = "client"
          PROVE  nn.events[i].no > left.clients /\ ~Known(nn.events[i].no, nn, hh)
      <3>1. PICK j \in DOMAIN m.events : m.events[j] = nn.events[i]
        BY <2>2, <2>7
      <3>2. nn.events[i].no > left.clients /\ ~Known(nn.events[i].no, m, h)
        BY <1>2, <2>7, <3>1 DEF ClientsAreNew
      <3>3. nn.events[i].no \in Numbers
        <4>1. m.events[j] \in Events
          BY <1>2, Fields
        <4> QED BY <2>6, <2>7, <3>1, <4>1
      <3>4. nn.events[i].no # hh.client
        <4>1. CASE hh.client = h.client
          BY <3>2, <4>1 DEF Known
        <4>2. CASE hh.client = None
          BY <3>3, <4>2 DEF Numbers
        <4> QED BY <1>5, <2>7, <4>1, <4>2
      <3> QED BY <2>1, <3>2, <3>3, <3>4
    <2> QED BY <2>3, <2>5, <2>7 DEF ClientsAreNew
  <1>10. IInvAt(nn, c, hh, cs, dev, due', left)
    BY <1>2, <1>4, <1>5, <1>6, <1>7, <1>8, <1>9 DEF IInvAt
  <1> QED BY <1>1, <1>10, Then

-----------------------------------------------------------------------------
(* The order of the queue (Ordered) is a matter of the current state, the  *)
(* events, the context and the owner.                                      *)
LEMMA OrderedSame ==
    ASSUME NEW mm, NEW nn, NEW c, NEW hh, Ordered(mm, c, hh),
           nn.events = mm.events, nn.cur = mm.cur
    PROVE  Ordered(nn, c, hh)
  BY DEF Ordered, EarlyCancel, NothingLate, ClearComesFirst

(* A context that keeps no other passwords and has learned no less.        *)
LEMMA OrderedContext ==
    ASSUME NEW mm, NEW c, NEW d, NEW hh, NEW ii, Ordered(mm, c, hh),
           c.cancelled => d.cancelled, c.killed => d.killed, d.killed => d.cancelled,
           Unnoticed(d) => Unnoticed(c), Remains(d) => Remains(c),
           d.pin \in {None, OwnerOf(ii)}, d.newPin \in {None, OwnerOf(ii)},
           ii.client \in {hh.client, None} \/ mm.cur # "none"
    PROVE  Ordered(mm, d, ii)
  BY DEF Ordered, EarlyCancel, NothingLate, ClearComesFirst

(* Only readers and what starts or ends the workflow are handled before a  *)
(* cancellation is noticed.                                                *)
LEMMA HeadWhenUnnoticed ==
    ASSUME NEW mm \in Machines, NEW c, NEW hh, Ordered(mm, c, hh), mm.events # <<>>,
           Head(mm.events).type # "reader"
    PROVE  /\ mm.cur # "none"
           /\ Unnoticed(c) =>
                 \/ /\ mm.cur = "Start" /\ Head(mm.events) = Run("Start")
                    /\ 1 \in DOMAIN Tail(mm.events) /\ Tail(mm.events)[1].type = "cancel"
                 \/ Head(mm.events).type = "cancel"
  <1> DEFINE q == mm.events
  <1>1. q \in Seq(Events)
    BY Fields
  <1> HIDE DEF q
  <1>2. /\ Head(q) = q[1] /\ 1 \in DOMAIN q /\ Len(q) \in Nat
        /\ DOMAIN Tail(q) = 1..(Len(q) - 1)
        /\ \A i \in DOMAIN Tail(q) : Tail(q)[i] = q[i + 1]
    BY <1>1, TailFacts DEF q
  <1>3. mm.cur # "none"
    BY <1>2 DEF Ordered, EarlyCancel, q
  <1>4. ASSUME NEW n \in Nat, Quiet(q, n)
        PROVE  n = 0
    BY <1>2, <1>4 DEF Quiet, q
  <1>5. ASSUME StartIsNext(q)
        PROVE  Head(q) = Run("Start") /\ 1 \in DOMAIN Tail(q) /\ Tail(q)[1].type = "cancel"
    <2>1. PICK n \in 0..(Len(q) - 2) : Quiet(q, n) /\ q[n + 1] = Run("Start") /\ q[n + 2].type = "cancel"
      BY <1>5 DEF StartIsNext
    <2>2. n = 0 /\ Len(q) - 2 >= 0
      BY <1>2, <1>4, <2>1
    <2>3. 1 \in 1..(Len(q) - 1)
      BY <1>2, <2>2
    <2> QED BY <1>2, <2>1, <2>2, <2>3
  <1>6. ASSUME CancelIsNext(q)
        PROVE  Head(q).type = "cancel"
    <2>1. PICK n \in 0..(Len(q) - 1) : Quiet(q, n) /\ q[n + 1].type = "cancel"
      BY <1>6 DEF CancelIsNext
    <2>2. n = 0
      BY <1>2, <1>4, <2>1
    <2> QED BY <1>2, <2>1, <2>2
  <1> QED BY <1>3, <1>5, <1>6 DEF Ordered, EarlyCancel, q

(* Taking the next event.                                                  *)
LEMMA OrderedRest ==
    ASSUME NEW mm \in Machines, NEW nn, NEW c, NEW hh, Ordered(mm, c, hh), mm.events # <<>>,
           nn.events = Tail(mm.events), nn.cur = mm.cur,
           Unnoticed(c) => Head(mm.events).type = "reader",
           Remains(c) => Head(mm.events) # Run("ClearStop")
    PROVE  Ordered(nn, c, hh)
  <1> DEFINE q == mm.events
             t == nn.events
  <1>1. q \in Seq(Events) /\ t = Tail(q)
    BY Fields
  <1> HIDE DEF q, t
  <1>2. /\ Head(q) = q[1] /\ 1 \in DOMAIN q /\ Len(q) \in Nat \ {0} /\ Len(t) = Len(q) - 1
        /\ DOMAIN q = 1..Len(q) /\ DOMAIN t = 1..(Len(q) - 1)
        /\ \A i \in DOMAIN t : i + 1 \in DOMAIN q /\ t[i] = q[i + 1]
        /\ \A i \in DOMAIN q : i # 1 => i - 1 \in DOMAIN t /\ t[i - 1] = q[i]
    BY <1>1, TailFacts DEF q
  <1>3. ASSUME NEW n \in 1..(Len(q) - 1), Quiet(q, n)
        PROVE  Quiet(t, n - 1)
    <2> SUFFICES ASSUME NEW j \in 1..(n - 1)
                 PROVE  t[j].type = "reader"
      BY DEF Quiet
    <2>1. j + 1 \in 1..n /\ j \in DOMAIN t
      BY <1>2
    <2> QED BY <1>2, <1>3, <2>1 DEF Quiet
  <1>4. ASSUME StartIsNext(q), q[1].type = "reader"
        PROVE  StartIsNext(t)
    <2>1. PICK n \in 0..(Len(q) - 2) : Quiet(q, n) /\ q[n + 1] = Run("Start") /\ q[n + 2].type = "cancel"
      BY <1>4 DEF StartIsNext
    <2>2. n # 0
      BY <1>4, <2>1 DEF Run
    <2>3. /\ n \in 1..(Len(q) - 1) /\ n - 1 \in 0..(Len(t) - 2)
          /\ n \in DOMAIN t /\ n + 1 \in DOMAIN t /\ (n - 1) + 1 = n /\ (n - 1) + 2 = n + 1
          /\ (n + 1) + 1 = n + 2
      BY <1>2, <2>2
    <2>4. t[n] = Run("Start") /\ t[n + 1].type = "cancel"
      BY <1>2, <2>1, <2>3
    <2>5. Quiet(t, n - 1)
      BY <1>3, <2>1, <2>3
    <2> QED BY <2>3, <2>4, <2>5 DEF StartIsNext
  <1>5. ASSUME CancelIsNext(q), q[1].type = "reader"
        PROVE  CancelIsNext(t)
    <2>1. PICK n \in 0..(Len(q) - 1) : Quiet(q, n) /\ q[n + 1].type = "cancel"
      BY <1>5 DEF CancelIsNext
    <2>2. n # 0
      BY <1>5, <2>1
    <2>3. n \in 1..(Len(q) - 1) /\ n - 1 \in 0..(Len(t) - 1) /\ n \in DOMAIN t /\ (n - 1) + 1 = n
      BY <1>2, <2>2
    <2>4. t[n].type = "cancel"
      BY <1>2, <2>1, <2>3
    <2>5. Quiet(t, n - 1)
      BY <1>3, <2>1, <2>3
    <2> QED BY <2>3, <2>4, <2>5 DEF CancelIsNext
  <1>6. EarlyCancel(nn, c)
    <2>1. \A i \in DOMAIN t : \E j \in DOMAIN q : t[i] = q[j]
      BY <1>2
    <2> QED BY <1>2, <1>4, <1>5, <2>1 DEF Ordered, EarlyCancel, q, t
  <1>7. NothingLate(nn)
    BY <1>2 DEF Ordered, NothingLate, NoLate, q, t
  <1>8. ClearComesFirst(nn, c)
    <2> SUFFICES ASSUME Remains(c)
                 PROVE  ClearComesFirst(nn, c)
      BY DEF ClearComesFirst
    <2>1. q[1] # Run("ClearStop")
      BY <1>2 DEF q
    <2>2. ClearComesFirst(mm, c) /\ Safe(q)
      BY DEF Ordered, ClearComesFirst, q
    <2>3. Safe(t)
      <3> SUFFICES ASSUME NEW j \in DOMAIN t, Late(t[j])
                   PROVE  \E i \in 1..(j - 1) : t[i] = Run("ClearStop")
        BY DEF Safe
      <3>1. j \in Nat \ {0} /\ j + 1 \in DOMAIN q /\ Late(q[j + 1]) /\ (j + 1) - 1 = j
        BY <1>2
      <3>2. PICK i \in 1..j : q[i] = Run("ClearStop")
        BY <2>2, <3>1 DEF Safe
      <3>3. i - 1 \in 1..(j - 1) /\ i \in DOMAIN q /\ i # 1
        BY <1>2, <2>1, <3>1, <3>2
      <3> QED BY <1>2, <3>2, <3>3
    <2>4. Due(q) => Due(t)
      BY <1>2, <2>1 DEF Due
    <2> QED BY <2>2, <2>3, <2>4 DEF ClearComesFirst, q, t
  <1> QED BY <1>6, <1>7, <1>8 DEF Ordered

(* Posting what does not lead on.                                          *)
LEMMA OrderedMore ==
    ASSUME NEW mm \in Machines, NEW nn, NEW c, NEW hh, Ordered(mm, c, hh), NEW r \in Seq(Events),
           nn.events = mm.events \o r, nn.cur = mm.cur,
           mm.cur = "none" => \A i \in DOMAIN r : r[i].type = "reader",
           \A i \in DOMAIN r : r[i].type # "cancel" /\ (Late(r[i]) => mm.cur \in {"Stop", "Final"})
    PROVE  Ordered(nn, c, hh)
  <1> DEFINE q == mm.events
             s == nn.events
  <1>1. q \in Seq(Events) /\ s = q \o r
    BY Fields
  <1> HIDE DEF q, s
  <1>2. /\ Len(q) \in Nat /\ Len(s) \in Nat /\ Len(s) >= Len(q) /\ DOMAIN q = 1..Len(q)
        /\ \A i \in DOMAIN q : i \in DOMAIN s /\ s[i] = q[i]
        /\ \A i \in DOMAIN s : i \in DOMAIN q \/ (i - Len(q) \in DOMAIN r /\ s[i] = r[i - Len(q)])
        /\ \A i \in DOMAIN s : i \in Nat
        /\ DOMAIN r = 1..Len(r) /\ Len(r) \in Nat
    BY <1>1, ConcatFacts
  <1>3. ASSUME StartIsNext(q)
        PROVE  StartIsNext(s)
    <2>1. PICK n \in 0..(Len(q) - 2) : Quiet(q, n) /\ q[n + 1] = Run("Start") /\ q[n + 2].type = "cancel"
      BY <1>3 DEF StartIsNext
    <2>2. n \in 0..(Len(s) - 2) /\ n + 1 \in DOMAIN q /\ n + 2 \in DOMAIN q
      BY <1>2, <2>1
    <2>3. s[n + 1] = q[n + 1] /\ s[n + 2] = q[n + 2]
      BY <1>2, <2>2
    <2>4. Quiet(s, n)
      <3> SUFFICES ASSUME NEW j \in 1..n PROVE s[j].type = "reader"
        BY DEF Quiet
      <3>1. j \in DOMAIN q
        BY <1>2, <2>1
      <3> QED BY <1>2, <2>1, <3>1 DEF Quiet
    <2> QED BY <2>1, <2>2, <2>3, <2>4 DEF StartIsNext
  <1>4. ASSUME CancelIsNext(q)
        PROVE  CancelIsNext(s)
    <2>1. PICK n \in 0..(Len(q) - 1) : Quiet(q, n) /\ q[n + 1].type = "cancel"
      BY <1>4 DEF CancelIsNext
    <2>2. n \in 0..(Len(s) - 1) /\ n + 1 \in DOMAIN q
      BY <1>2, <2>1
    <2>3. s[n + 1] = q[n + 1]
      BY <1>2, <2>2
    <2>4. Quiet(s, n)
      <3> SUFFICES ASSUME NEW j \in 1..n PROVE s[j].type = "reader"
        BY DEF Quiet
      <3>1. j \in DOMAIN q
        BY <1>2, <2>1
      <3> QED BY <1>2, <2>1, <3>1 DEF Quiet
    <2> QED BY <2>1, <2>2, <2>3, <2>4 DEF CancelIsNext
  <1>5. EarlyCancel(nn, c)
    <2>1. \A i \in DOMAIN s : s[i].type = "cancel" => i \in DOMAIN q
      BY <1>2
    <2>2. mm.cur = "none" => \A i \in DOMAIN r : r[i].type = "reader"
      BY <1>2
    <2> QED BY <1>2, <1>3, <1>4, <2>1, <2>2 DEF Ordered, EarlyCancel, q, s
  <1>6. NothingLate(nn)
    BY <1>2 DEF Ordered, NothingLate, NoLate, q, s
  <1>7. ClearComesFirst(nn, c)
    <2> SUFFICES ASSUME Remains(c)
                 PROVE  ClearComesFirst(nn, c)
      BY DEF ClearComesFirst
    <2>1. ClearComesFirst(mm, c) /\ Safe(q) /\ mm.cur # "Final"
      BY DEF Ordered, ClearComesFirst, q
    <2>2. Due(q) => Due(s)
      BY <1>2 DEF Due
    <2>3. Safe(s)
      <3> SUFFICES ASSUME NEW j \in DOMAIN s, Late(s[j])
                   PROVE  \E i \in 1..(j - 1) : s[i] = Run("ClearStop")
        BY DEF Safe
      <3>1. CASE j \in DOMAIN q
        <4>1. PICK i \in 1..(j - 1) : q[i] = Run("ClearStop")
          BY <1>2, <2>1, <3>1 DEF Safe
        <4>2. i \in DOMAIN q
          BY <1>2, <3>1
        <4> QED BY <1>2, <4>1, <4>2
      <3>2. CASE j \notin DOMAIN q
        <4>1. mm.cur = "Stop"
          BY <1>2, <2>1, <3>2
        <4>2. PICK i \in DOMAIN q : q[i] = Run("ClearStop")
          BY <2>1, <4>1 DEF ClearComesFirst, Due, q
        <4>3. i \in 1..(j - 1)
          BY <1>2, <3>2
        <4> QED BY <1>2, <4>2, <4>3
      <3> QED BY <3>1, <3>2
    <2> QED BY <2>1, <2>2, <2>3 DEF ClearComesFirst, q, s
  <1> QED BY <1>5, <1>6, <1>7 DEF Ordered

LEMMA OrderedAppend ==
    ASSUME NEW mm \in Machines, NEW nn, NEW c, NEW hh, Ordered(mm, c, hh), NEW e \in Events,
           nn.events = Append(mm.events, e), nn.cur = mm.cur, mm.cur = "none" => e.type = "reader",
           e.type # "cancel", Late(e) => mm.cur \in {"Stop", "Final"}
    PROVE  Ordered(nn, c, hh)
  <1>1. mm.events \in Seq(Events)
    BY Fields
  <1>2. nn.events = mm.events \o <<e>> /\ <<e>> \in Seq(Events)
    <2>1. <<e>> \in Seq(Events)
      OBVIOUS
    <2>2. Append(mm.events, e) = mm.events \o <<e>>
      BY <1>1, AppendIsConcat
    <2> QED BY <2>1, <2>2
  <1>3. \A i \in DOMAIN <<e>> : <<e>>[i] = e
    OBVIOUS
  <1> DEFINE r == <<e>>
  <1> HIDE DEF r
  <1>4. nn.events = mm.events \o r /\ r \in Seq(Events) /\ \A i \in DOMAIN r : r[i] = e
    BY <1>2, <1>3 DEF r
  <1> QED BY <1>4, OrderedMore

(* Where a signal may lead.  To enter a state takes of the context what is  *)
(* known of a cancellation only (c); the passwords are those of d.         *)
MayGo(cur, c, to) ==
    /\ cur # "none" /\ to \notin {"none", "Start", "crashed"} /\ ~Unnoticed(c)
    /\ to \notin {"Stop", "Final", "stopped"} => cur \notin {"Stop", "Final", "stopped", "crashed"}
    /\ to = "ClearStop" => (Remains(c) => c.cancelled)
    /\ to = "Stop" => (Remains(c) => cur = "ClearStop" /\ c.killed)
    /\ to = "Stop" => cur \notin {"Final", "stopped"}
    /\ to \in {"Final", "stopped"} => ~Remains(c)

LEMMA OrderedFire ==
    ASSUME NEW mm \in Machines, h \in Handlers, NEW c \in Contexts, NEW d, NEW hh, NEW st \in States,
           NEW sig, Ordered(mm, d, hh), Unnoticed(c) => Unnoticed(d), NEW to, to = Target(mm.cur, st, sig),
           to = "ignored" \/ MayGo(mm.cur, d, to)
    PROVE  Ordered(Fire(mm, c, st, sig), d, hh)
  <1> DEFINE nn == Fire(mm, c, st, sig)
             q == mm.events
             s == nn.events
             p == Posted(c, to)
  <1>1. /\ to = "ignored" => nn = mm
        /\ to = "stopped" => nn.cur = "stopped" /\ nn.events = mm.events
        /\ to \notin {"ignored", "stopped"} => /\ to \in States /\ nn.cur = to
                                               /\ nn.events = mm.events \o p
    BY ZenonT(40), CalmFire DEF Fired
  <1> HIDE DEF nn
  <1>2. CASE to = "ignored"
    BY <1>1, <1>2 DEF nn
  <1>3. CASE to = "stopped"
    <2>1. MayGo(mm.cur, d, "stopped")
      BY <1>3
    <2> QED BY <1>1, <1>3, <2>1
            DEF Ordered, EarlyCancel, NothingLate, ClearComesFirst, MayGo, nn
  <1>4. CASE to \notin {"ignored", "stopped"}
    <2>1. to \in States /\ nn.cur = to /\ s = q \o p /\ MayGo(mm.cur, d, to) /\ ~Unnoticed(c) /\ ~Unnoticed(d)
      BY <1>1, <1>4 DEF MayGo
    <2>2. p \in Seq(Events) /\ p \in {<<>>, <<Run(to)>>} /\ (to \notin Waiting => p = <<Run(to)>>)
      <3>1. /\ p \in Seq(Events) /\ p \in {<<>>, <<Run(to)>>}
            /\ to \notin Waiting => Len(p) >= 1
        BY <2>1, PostedFacts
      <3>2. Len(<<>>) = 0
        OBVIOUS
      <3> HIDE DEF p
      <3> QED BY <3>1, <3>2
    <2>3. q \in Seq(Events)
      BY Fields
    <2> HIDE DEF q, s, p
    <2>4. /\ Len(q) \in Nat /\ DOMAIN q = 1..Len(q)
          /\ \A i \in DOMAIN q : i \in DOMAIN s /\ s[i] = q[i]
          /\ \A i \in DOMAIN s : i \in DOMAIN q \/ s[i] = Run(to)
          /\ to \notin Waiting => Len(q) + 1 \in DOMAIN s /\ s[Len(q) + 1] = Run(to)
          /\ \A i \in DOMAIN s : i \in Nat \ {0}
      <3>1. /\ Len(q) \in Nat /\ DOMAIN q = 1..Len(q)
            /\ \A i \in DOMAIN q : i \in DOMAIN s /\ s[i] = q[i]
            /\ \A i \in DOMAIN p : Len(q) + i \in DOMAIN s /\ s[Len(q) + i] = p[i]
            /\ \A i \in DOMAIN s : i \in DOMAIN q \/ (i - Len(q) \in DOMAIN p /\ s[i] = p[i - Len(q)])
            /\ \A i \in DOMAIN s : i \in Nat \ {0}
        BY <2>1, <2>2, <2>3, ConcatFacts
      <3>2. CASE p = <<>>
        BY <2>2, <3>1, <3>2
      <3>3. CASE p = <<Run(to)>>
        <4>1. 1 \in DOMAIN p /\ p[1] = Run(to) /\ \A i \in DOMAIN p : p[i] = Run(to)
          BY <3>3
        <4> QED BY <3>1, <4>1
      <3> QED BY <2>2, <3>2, <3>3
    <2>5. Run(to).type = "run" /\ (Late(Run(to)) => to \in {"Stop", "Final"})
      BY DEF Run, Late
    <2>6. EarlyCancel(nn, d)
      <3>1. to \notin {"none", "Start"}
        BY <2>1 DEF MayGo
      <3>2. ASSUME NEW i \in DOMAIN s, s[i].type = "cancel"
            PROVE  /\ d.cancelled /\ s[i].st \in {"Start", "Process", "Stop"}
                   /\ s[i].st = "Stop" => to \in {"Stop", "Final", "stopped", "crashed"} /\ ~Remains(d)
        <4>1. i \in DOMAIN q /\ s[i] = q[i]
          BY <2>4, <2>5, <3>2
        <4>2. /\ d.cancelled /\ q[i].st \in {"Start", "Process", "Stop"}
              /\ q[i].st = "Stop" => mm.cur \in {"Stop", "Final", "stopped", "crashed"} /\ ~Remains(d)
          BY <3>2, <4>1 DEF Ordered, EarlyCancel, q
        <4> QED BY <2>1, <4>1, <4>2 DEF MayGo
      <3> QED BY <2>1, <3>1, <3>2 DEF EarlyCancel, s
    <2>7. NothingLate(nn)
      <3> SUFFICES ASSUME to \notin {"Stop", "Final", "stopped", "crashed"}
                   PROVE  NoLate(s)
        BY <2>1 DEF NothingLate, s
      <3>1. NoLate(q)
        BY <2>1 DEF MayGo, Ordered, NothingLate, q
      <3> QED BY <2>4, <2>5, <3>1 DEF NoLate
    <2>8. ClearComesFirst(nn, d)
      <3> SUFFICES ASSUME Remains(d)
                   PROVE  ClearComesFirst(nn, d)
        BY DEF ClearComesFirst
      <3>1. /\ Safe(q) /\ (mm.cur = "ClearStop" => Due(q)) /\ to \notin {"Final", "stopped"}
            /\ to = "Stop" => mm.cur = "ClearStop" /\ d.killed
            /\ to = "ClearStop" => d.cancelled
        BY <2>1 DEF Ordered, ClearComesFirst, MayGo, q
      <3>2. Due(q) => Due(s)
        BY <2>4 DEF Due
      <3>3. to = "ClearStop" => Due(s)
        BY <2>4 DEF Due, Waiting
      <3>4. Safe(s)
        <4> SUFFICES ASSUME NEW j \in DOMAIN s, Late(s[j])
                     PROVE  \E i \in 1..(j - 1) : s[i] = Run("ClearStop")
          BY DEF Safe
        <4>1. CASE j \in DOMAIN q
          <5>1. PICK i \in 1..(j - 1) : q[i] = Run("ClearStop")
            BY <2>4, <3>1, <4>1 DEF Safe
          <5>2. i \in DOMAIN q
            BY <2>4, <4>1
          <5> QED BY <2>4, <5>1, <5>2
        <4>2. CASE j \notin DOMAIN q
          <5>1. Due(q)
            BY <2>4, <2>5, <3>1, <4>2
          <5>2. PICK i \in DOMAIN q : q[i] = Run("ClearStop")
            BY <5>1 DEF Due
          <5>3. i \in 1..(j - 1)
            BY <2>4, <4>2
          <5> QED BY <2>4, <5>2, <5>3
        <4> QED BY <4>1, <4>2
      <3> QED BY <2>1, <3>1, <3>2, <3>3, <3>4 DEF ClearComesFirst, s
    <2>9. nn.cur # "none"
      BY <2>1 DEF MayGo
    <2> QED BY <2>6, <2>7, <2>8, <2>9 DEF Ordered, nn
  <1> QED BY <1>2, <1>3, <1>4

(* Dropping events that are no runs of states.                             *)
LEMMA OrderedOnly ==
    ASSUME NEW mm \in Machines, NEW nn \in Machines, NEW c, NEW hh, Ordered(mm, c, hh),
           ~Unnoticed(c), NEW S, NEW g,
           mm.cur # "none", nn.cur = mm.cur, Picks(g, nn.events, mm.events, S),
           \A i \in DOMAIN mm.events : mm.events[i].type = "run" => mm.events[i] \in S
    PROVE  Ordered(nn, c, hh)
  <1> DEFINE q == mm.events
             s == nn.events
  <1>1. q \in Seq(Events) /\ s \in Seq(Events) /\ Picks(g, s, q, S)
    BY Fields
  <1>2. \A i \in DOMAIN q : q[i] \in S \/ ~(q[i].type = "run")
    OBVIOUS
  <1> HIDE DEF q, s
  <1>3. DOMAIN q = 1..Len(q) /\ Len(q) \in Nat /\ DOMAIN s = 1..Len(s) /\ Len(s) \in Nat
    BY <1>1
  <1>4. \A j \in DOMAIN s : g[j] \in DOMAIN q /\ s[j] = q[g[j]]
    BY <1>1 DEF Picks, Embeds
  <1>5. ASSUME NEW i \in DOMAIN q, q[i].type = "run"
        PROVE  \E j \in DOMAIN s : g[j] = i /\ s[j] = q[i]
    BY <1>1, <1>2, <1>4, <1>5 DEF Picks
  <1>6. EarlyCancel(nn, c)
    BY <1>4 DEF Ordered, EarlyCancel, q, s
  <1>7. NothingLate(nn)
    BY <1>4 DEF Ordered, NothingLate, NoLate, q, s
  <1>8. ClearComesFirst(nn, c)
    <2> SUFFICES ASSUME Remains(c)
                 PROVE  ClearComesFirst(nn, c)
      BY DEF ClearComesFirst
    <2>1. ClearComesFirst(mm, c) /\ Safe(q)
      BY DEF Ordered, ClearComesFirst, q
    <2>2. Run("ClearStop").type = "run"
      BY DEF Run
    <2>3. Due(q) => Due(s)
      BY <1>5, <2>2 DEF Due
    <2>4. Safe(s)
      <3> SUFFICES ASSUME NEW j \in DOMAIN s, Late(s[j])
                   PROVE  \E i \in 1..(j - 1) : s[i] = Run("ClearStop")
        BY DEF Safe
      <3>1. PICK i \in 1..(g[j] - 1) : q[i] = Run("ClearStop")
        BY <1>4, <2>1 DEF Safe
      <3>2. i \in DOMAIN q /\ i < g[j]
        BY <1>3, <1>4
      <3>3. PICK k \in DOMAIN s : g[k] = i /\ s[k] = q[i]
        BY <1>5, <2>2, <3>1, <3>2
      <3>4. k < j
        <4>1. k = j \/ j < k \/ k < j
          BY <1>3
        <4>2. j < k => g[j] < g[k]
          BY <1>1 DEF Picks, Embeds
        <4> QED BY <1>3, <1>4, <3>2, <3>3, <4>1, <4>2
      <3>5. k \in 1..(j - 1)
        BY <1>3, <3>4
      <3> QED BY <3>1, <3>3, <3>5
    <2> QED BY <2>1, <2>3, <2>4 DEF ClearComesFirst, q, s
  <1> QED BY <1>6, <1>7, <1>8 DEF Ordered

-----------------------------------------------------------------------------
(* The steps of the workflow.                                              *)
LEMMA Basics ==
    ASSUME IInv
    PROVE  /\ m \in Machines /\ ctx \in Contexts /\ h \in Handlers /\ dev \in Devices /\ left \in Limits
           /\ create \in SUBSET Creates /\ IsFiniteSet(create)
           /\ IsFiniteSet(DOMAIN h.slots) /\ IsFiniteSet(DOMAIN dev.workers)
           /\ due \in [Requests -> Int] /\ h.client \in Nat /\ ctx.conn \in Nat
           /\ m.events \in Seq(Events) /\ m.cmds \in Seq(Commands)
           /\ Alive(m, ctx, h, create, dev) /\ Ordered(m, ctx, h)
           /\ AnswersAreDue(m, h, due) /\ EndIsLast(m, h) /\ ClientsAreNew(m, h, left)
  BY DEF IInv, Typed, Machines, Handlers, Contexts

LEMMA HandleFacts ==
    ASSUME IInv, m.events # <<>>
    PROVE  /\ Rest \in Machines /\ Calm(m, Rest, {}) /\ Event \in Events /\ Event = m.events[1]
           /\ Rest.events = Tail(m.events) /\ Rest.cur = m.cur /\ 1 \in DOMAIN m.events
           /\ Event.type # "reader" => m.cur # "none"
           /\ Event.type \notin {"reader", "cancel"} /\ Event # Run("Start") => ~Unnoticed(ctx)
  <1>1. /\ m \in Machines /\ Ordered(m, ctx, h) /\ m.events \in Seq(Events)
    BY Basics
  <1>2. Rest \in Machines /\ Calm(m, Rest, {}) /\ Rest.events = Tail(m.events) /\ Rest.cur = m.cur
    <2>1. Calm(m, Rest, {}) /\ Rest.events = Tail(m.events) /\ Rest.cur = m.cur
      BY <1>1, CalmRest
    <2> QED BY <2>1 DEF Calm
  <1>3. Event \in Events /\ Event = m.events[1] /\ 1 \in DOMAIN m.events
    BY <1>1, TailFacts DEF Event
  <1>4. /\ Event.type # "reader" => m.cur # "none"
        /\ Event.type \notin {"reader", "cancel"} /\ Event # Run("Start") => ~Unnoticed(ctx)
    BY <1>1, HeadWhenUnnoticed DEF Event
  <1> QED BY <1>2, <1>3, <1>4

(* A context with the passwords of the present one or without.             *)
Like(c) ==
    /\ c.cancelled = ctx.cancelled /\ c.inState = ctx.inState /\ c.killed = ctx.killed
    /\ c.pin \in {None, ctx.pin} /\ c.newPin \in {None, ctx.newPin}

LEMMA RestIsOrdered ==
    ASSUME IInv, m.events # <<>>, ~Unnoticed(ctx), NEW d, Like(d),
           Remains(d) => Event # Run("ClearStop")
    PROVE  Ordered(Rest, d, h) /\ ~Unnoticed(d)
  <1>1. m \in Machines /\ Ordered(m, ctx, h)
    BY Basics
  <1>2. ~Unnoticed(d)
    BY DEF Like, Unnoticed
  <1>3. Ordered(m, d, h)
    <2>1. /\ ctx.pin \in {None, OwnerOf(h)} /\ ctx.newPin \in {None, OwnerOf(h)}
          /\ ctx.killed => ctx.cancelled
      BY <1>1 DEF Ordered
    <2>2. Remains(d) => Remains(ctx)
      BY DEF Like, Remains
    <2> QED BY <1>1, <1>2, <2>1, <2>2, OrderedContext DEF Like
  <1>4. Rest.events = Tail(m.events) /\ Rest.cur = m.cur
    BY HandleFacts
  <1> QED BY <1>1, <1>2, <1>3, <1>4, OrderedRest DEF Event

LEMMA RestFires ==
    ASSUME IInv, m.events # <<>>, ~Unnoticed(ctx), NEW c \in Contexts, Like(c), NEW d, Like(d),
           Remains(d) => Event # Run("ClearStop"), NEW st \in States, NEW sig,
           NEW to, to = Target(m.cur, st, sig), to = "ignored" \/ MayGo(m.cur, d, to)
    PROVE  Calm(m, Fire(Rest, c, st, sig), {}) /\ Ordered(Fire(Rest, c, st, sig), d, h)
  <1>1. m \in Machines /\ h \in Handlers
    BY Basics
  <1>2. Rest \in Machines /\ Calm(m, Rest, {}) /\ Rest.cur = m.cur
    BY HandleFacts
  <1>3. Ordered(Rest, d, h)
    BY RestIsOrdered
  <1>4. ~Unnoticed(c)
    BY DEF Like, Unnoticed
  <1>5. Calm(Rest, Fire(Rest, c, st, sig), {})
    BY <1>1, <1>2, CalmFire
  <1>6. Calm(m, Fire(Rest, c, st, sig), {})
    BY <1>1, <1>2, <1>5, CalmAgain
  <1> QED BY <1>1, <1>2, <1>3, <1>4, <1>6, OrderedFire

(* The signals that lead to no state at the end of the workflow.           *)
Middle == States \ {"Start", "Process", "ClearStop", "Stop", "Final"}
Plain(st, sig) == st \in Middle \/ (st = "Process" /\ sig \in {"pace", "modify", "smStopped"})

LEMMA PlainGoes ==
    ASSUME NEW cur, NEW st, NEW sig, Plain(st, sig), NEW c, ~Unnoticed(c)
    PROVE  /\ st \in States
           /\ Target(cur, st, sig) = "ignored" \/ MayGo(cur, c, Target(cur, st, sig))
  <1> DEFINE Late2 == {"none", "Start", "ClearStop", "Stop", "Final", "stopped", "crashed"}
  <1>1. \A s \in Middle : \A g \in DOMAIN Edges[s] : Edges[s][g] \notin Late2
    BY DEF Middle, States, Edges
  <1>2. \A g \in {"pace", "modify", "smStopped"} : Edges["Process"][g] \notin Late2
    BY DEF Edges
  <1>3. "Process" \in States
    BY DEF States, Edges
  <1>4. ASSUME Target(cur, st, sig) # "ignored"
        PROVE  Target(cur, st, sig) \notin Late2 /\ cur = st
    BY <1>1, <1>2, <1>4 DEF Target, Plain
  <1>5. ASSUME Target(cur, st, sig) # "ignored"
        PROVE  MayGo(cur, c, Target(cur, st, sig))
    <2>1. cur \notin {"none", "Stop", "Final", "stopped", "crashed"}
      <3>1. "none" \notin States /\ "stopped" \notin States /\ "crashed" \notin States
        BY DEF States, Edges
      <3> QED BY <1>4, <1>5, <3>1 DEF Plain, Middle
    <2> QED BY <1>4, <1>5, <2>1 DEF MayGo
  <1> QED BY <1>3, <1>5 DEF Plain, Middle

(* A step that leaves the handler alone.                                   *)
LEMMA StepInPlace ==
    ASSUME IInv, NEW mm, NEW c \in Contexts, NEW W, Calm(m, mm, W), c.conn \in {None, ctx.conn},
           W \subseteq {ctx.conn}, BecomeM(mm, c), UNCHANGED <<dev, left>>,
           due' \in [Requests -> Int], \A x \in CardRequests : due'[x] = due[x],
           Ordered(mm, c, h)
    PROVE  IInv'
  <1>1. /\ h \in Handlers /\ create \in SUBSET Creates /\ IsFiniteSet(create) /\ m \in Machines
        /\ IsFiniteSet(DOMAIN h.slots) /\ due \in [Requests -> Int] /\ AnswersAreDue(m, h, due)
    BY Basics
  <1>2. ASSUME NEW w \in Numbers, w \in W \/ Refers(w, c, h, create)
        PROVE  Used(w, m, ctx, h, create)
    BY <1>2 DEF Refers, Used, Numbers
  <1>3. AnswersAreDue(mm, h, due)
    BY <1>1, DueCalm
  <1>4. AnswersAreDue(mm, h, due')
    BY <1>3 DEF AnswersAreDue
  <1>5. Become(mm, c, h, create)
    BY DEF BecomeM
  <1> QED BY <1>1, <1>2, <1>4, <1>5, CalmIsMild, StepKeeps

LEMMA StepUnanswered ==
    ASSUME IInv, NEW mm, NEW c \in Contexts, NEW W, Calm(m, mm, W), c.conn \in {None, ctx.conn},
           W \subseteq {ctx.conn}, BecomeM(mm, c), UNCHANGED <<dev, left, due>>, Ordered(mm, c, h)
    PROVE  IInv'
  <1>1. due \in [Requests -> Int]
    BY Basics
  <1> QED BY <1>1, StepInPlace

(* A run() that gives a signal, and what it does besides.                  *)
LEMMA StepFires ==
    ASSUME IInv, m.events # <<>>, ~Unnoticed(ctx), NEW c \in Contexts, Like(c),
           c.conn \in {None, ctx.conn},
           Remains(c) => Event # Run("ClearStop"), NEW st, NEW sig, Plain(st, sig),
           BecomeM(Fire(Rest, c, st, sig), c), UNCHANGED <<dev, left, due>>
    PROVE  IInv'
  <1>1. ~Unnoticed(c)
    BY DEF Like, Unnoticed
  <1>2. st \in States /\ (Target(m.cur, st, sig) = "ignored" \/ MayGo(m.cur, c, Target(m.cur, st, sig)))
    BY <1>1, PlainGoes
  <1>3. Calm(m, Fire(Rest, c, st, sig), {}) /\ Ordered(Fire(Rest, c, st, sig), c, h)
    BY <1>2, RestFires
  <1> QED BY <1>3, StepUnanswered

(* A command of the workflow.                                              *)
LEMMA WorkflowCommands ==
    ASSUME IInv, ctx.conn # None, NEW op \in {"update", "pace", "set"}, NEW st \in States
    PROVE  Unasked(Command(op, ctx.conn, st, None))
  <1>1. h.client \in Nat /\ ctx.conn \in Numbers
    BY Basics DEF Numbers
  <1>2. Command(op, ctx.conn, st, None) \in Commands
    BY <1>1 DEF Command, Commands, None
  <1>3. st # "client"
    BY DEF States, Edges
  <1>4. \A x \in CardRequests, who \in Nat : Command(op, ctx.conn, st, None) \notin CommandsFor(x, who)
    BY <1>3, IfdServiceAssumption DEF CommandsFor, CommandOf, CardRequests, Command
  <1> QED BY <1>2, <1>4 DEF Unasked, Command

LEMMA StepSends ==
    ASSUME IInv, m.events # <<>>, Event.type = "run", Event.st \in Middle,
           ctx.conn # None, NEW op \in {"update", "pace", "set"}, NEW st \in States,
           BecomeM(Send(Rest, Command(op, ctx.conn, st, None)), ctx), UNCHANGED <<dev, left, due>>
    PROVE  IInv'
  <1> DEFINE k == Command(op, ctx.conn, st, None)
             mm == Send(Rest, k)
  <1>1. m \in Machines /\ h \in Handlers /\ ctx \in Contexts
    BY Basics
  <1>2. Rest \in Machines /\ Calm(m, Rest, {}) /\ Rest.cur = m.cur
    BY HandleFacts
  <1>3. Event # Run("Start") /\ Event # Run("ClearStop")
    BY DEF Middle, Run
  <1>4. ~Unnoticed(ctx)
    BY <1>3, HandleFacts
  <1>5. Unasked(k) /\ k.worker = ctx.conn
    BY WorkflowCommands DEF Command
  <1> HIDE DEF k
  <1>6. Calm(Rest, mm, {ctx.conn}) /\ mm.events = Rest.events /\ mm.cur = Rest.cur
    BY <1>2, <1>5, CalmSend
  <1> HIDE DEF mm
  <1>7. Calm(m, mm, {ctx.conn})
    BY <1>1, <1>2, <1>6, CalmAgain, CalmMore
  <1>8. Ordered(Rest, ctx, h)
    BY <1>3, <1>4, RestIsOrdered DEF Like
  <1>9. Ordered(mm, ctx, h)
    BY <1>6, <1>8, OrderedSame
  <1> QED BY <1>1, <1>7, <1>9, StepUnanswered DEF mm, k

LEMMA RunsFacts ==
    ASSUME IInv, NEW st \in States, Runs(st)
    PROVE  /\ m.events # <<>> /\ Event = Run(st) /\ Event.type = "run" /\ Event.st = st
           /\ st # "Start" => ~Unnoticed(ctx)
           /\ m.cur \notin {"none", "stopped", "crashed"}
  <1>1. m.events # <<>> /\ Event.type = "run" /\ Event.st = st /\ m.cur \notin {"stopped", "crashed"}
    BY DEF Runs, Handles, MainThread
  <1>2. Event \in Events
    BY <1>1, HandleFacts
  <1>3. Event \in RunEvents
    BY <1>1, <1>2 DEF Events, RunEvents, MessageEvents, CreateEvents, MadeEvents, DoneEvents, ReaderEvents
  <1>4. Event = Run(st)
    BY <1>1, <1>3 DEF RunEvents, Run
  <1>5. st # "Start" => Event # Run("Start")
    BY <1>1 DEF Run
  <1> QED BY <1>1, <1>4, <1>5, HandleFacts

(* Steps that add events and leave the worker thread alone.                *)
LEMMA StepPosts ==
    ASSUME IInv, m' \in Machines, m'.cmds = m.cmds, ctx' \in Contexts, ctx'.conn = ctx.conn,
           UNCHANGED <<h, create>>, dev' \in Devices, dev'.workers = dev.workers, left' \in Limits,
           due' \in [Requests -> Int],
           \A i \in DOMAIN m'.events : m'.events[i].type \in {"made", "done"} =>
               \E j \in DOMAIN m.events : m.events[j] = m'.events[i],
           Ordered(m', ctx', h), AnswersAreDue(m', h, due'), EndIsLast(m', h),
           ClientsAreNew(m', h, left')
    PROVE  IInv'
  <1>1. /\ create \in SUBSET Creates /\ IsFiniteSet(create) /\ h \in Handlers
        /\ IsFiniteSet(DOMAIN h.slots) /\ IsFiniteSet(DOMAIN dev.workers)
        /\ Alive(m, ctx, h, create, dev)
    BY Basics
  <1>2. ASSUME NEW w \in Numbers, Used(w, m', ctx', h, create)
        PROVE  Used(w, m, ctx, h, create)
    BY <1>2 DEF Used, Mentioned
  <1>3. Alive(m', ctx', h, create, dev')
    BY <1>1, <1>2 DEF Alive
  <1>4. IInvAt(m', ctx', h', create', dev', due', left')
    BY <1>1, <1>3 DEF IInvAt
  <1> QED BY <1>4, Then

(* What stays true of the queue when nothing of a client is added.         *)
LEMMA CalmKeeps ==
    ASSUME IInv, NEW mm, NEW W, Calm(m, mm, W), mm.cmds = m.cmds
    PROVE  /\ AnswersAreDue(mm, h, due) /\ EndIsLast(mm, h) /\ ClientsAreNew(mm, h, left)
           /\ \A i \in DOMAIN mm.events : mm.events[i].type \notin Harmless =>
                  \E j \in DOMAIN m.events : m.events[j] = mm.events[i]
  <1>1. /\ m \in Machines /\ h \in Handlers /\ due \in [Requests -> Int]
        /\ AnswersAreDue(m, h, due) /\ EndIsLast(m, h) /\ ClientsAreNew(m, h, left)
    BY Basics
  <1>2. \A i \in DOMAIN mm.events : mm.events[i].type \notin Harmless =>
            \E j \in DOMAIN m.events : m.events[j] = mm.events[i]
    BY DEF Calm, CalmEvents
  <1>3. AnswersAreDue(mm, h, due)
    BY <1>1, DueCalm
  <1>4. EndIsLast(mm, h)
    <2>1. h.client = None => Silent(mm.events)
      <3> SUFFICES ASSUME h.client = None, NEW i \in DOMAIN mm.events, Said(mm.events[i])
                   PROVE  FALSE
        BY DEF Silent
      <3>1. \E j \in DOMAIN m.events : m.events[j] = mm.events[i]
        BY <1>2 DEF Harmless, Said
      <3> QED BY <1>1, <3>1 DEF EndIsLast, Silent
    <2> QED BY <1>1, <2>1 DEF EndIsLast, Calm, CalmEvents
  <1>5. ClientsAreNew(mm, h, left)
    <2>1. \A n \in Numbers : Known(n, mm, h) => Known(n, m, h)
      <3>1. \A i \in DOMAIN mm.events : mm.events[i].type = "done" =>
                \E j \in DOMAIN m.events : m.events[j] = mm.events[i]
        BY <1>2 DEF Harmless
      <3> QED BY <3>1 DEF Known
    <2>2. \A i \in DOMAIN mm.events : mm.events[i].type = "client" =>
              \E j \in DOMAIN m.events : m.events[j] = mm.events[i]
      BY <1>2 DEF Harmless
    <2>3. \A i \in DOMAIN m.events : m.events[i].type = "client" => m.events[i].no \in Numbers
      <3>1. m.events \in Seq(Events)
        BY Basics
      <3> QED BY <3>1 DEF Events, RunEvents, MessageEvents, CreateEvents, MadeEvents, DoneEvents, ReaderEvents
    <2> QED BY <1>1, <2>1, <2>2, <2>3 DEF ClientsAreNew, Calm, CalmEvents
  <1> QED BY <1>2, <1>3, <1>4, <1>5

LEMMA StepCalm ==
    ASSUME IInv, Calm(m, m', {}), m'.cmds = m.cmds, ctx' \in Contexts, ctx'.conn = ctx.conn,
           UNCHANGED <<h, create, due>>, dev' \in Devices, dev'.workers = dev.workers,
           left' \in Limits, left'.clients = left.clients, Ordered(m', ctx', h)
    PROVE  IInv'
  <1>1. /\ AnswersAreDue(m', h, due) /\ EndIsLast(m', h) /\ ClientsAreNew(m', h, left)
        /\ \A i \in DOMAIN m'.events : m'.events[i].type \notin Harmless =>
               \E j \in DOMAIN m.events : m.events[j] = m'.events[i]
    BY CalmKeeps
  <1>2. m' \in Machines
    BY DEF Calm
  <1>3. ClientsAreNew(m', h, left')
    BY <1>1 DEF ClientsAreNew
  <1>4. \A i \in DOMAIN m'.events : m'.events[i].type \in {"made", "done"} =>
            \E j \in DOMAIN m.events : m.events[j] = m'.events[i]
    BY <1>1 DEF Harmless
  <1>5. due' \in [Requests -> Int] /\ due' = due
    BY Basics
  <1> QED BY <1>1, <1>2, <1>3, <1>4, <1>5, StepPosts

LEMMA StartKeeps ==
    ASSUME IInv, StartMachine
    PROVE  IInv'
  <1> DEFINE mm == Enter(m, ctx, "Start")
             q  == m.events
             s  == mm.events
             p  == Posted(ctx, "Start")
  <1>1. /\ m \in Machines /\ h \in Handlers /\ ctx \in Contexts /\ Ordered(m, ctx, h) /\ m.cur = "none"
        /\ due \in [Requests -> Int] /\ q \in Seq(Events)
    BY Basics DEF StartMachine
  <1>2. "Start" \in States /\ "Start" \notin Waiting
    BY DEF States, Edges, Waiting
  <1>3. Calm(m, mm, {}) /\ s = q \o p /\ mm.cur = "Start"
    BY <1>1, <1>2, CalmEnter
  <1>4. /\ p \in Seq(Events) /\ p \in {<<>>, <<Run("Start")>>, <<Cancel("Start")>>, <<Run("Start"), Cancel("Start")>>}
        /\ Unnoticed(ctx) => p = <<Run("Start"), Cancel("Start")>>
        /\ ~Unnoticed(ctx) => p \in {<<>>, <<Run("Start")>>}
        /\ \A i \in DOMAIN p : p[i] \in {Run("Start"), Cancel("Start")}
    BY <1>2, PostedFacts
  <1>5. m' = mm /\ UNCHANGED <<ctx, h, create, dev, due, left>>
    BY DEF StartMachine
  <1> HIDE DEF p, s, q, mm
  <1>6. /\ Len(q) \in Nat /\ DOMAIN q = 1..Len(q)
        /\ \A i \in DOMAIN q : i \in DOMAIN s /\ s[i] = q[i]
        /\ \A i \in DOMAIN p : Len(q) + i \in DOMAIN s /\ s[Len(q) + i] = p[i]
        /\ \A i \in DOMAIN s : i \in DOMAIN q \/ (i - Len(q) \in DOMAIN p /\ s[i] = p[i - Len(q)])
        /\ DOMAIN s = 1..Len(s) /\ Len(s) = Len(q) + Len(p)
    BY <1>1, <1>3, <1>4, ConcatFacts
  <1>7. /\ \A i \in DOMAIN q : q[i].type = "reader"
        /\ ~Remains(ctx) /\ (ctx.killed => ctx.cancelled)
        /\ ctx.pin \in {None, OwnerOf(h)} /\ ctx.newPin \in {None, OwnerOf(h)}
    BY <1>1 DEF Ordered, EarlyCancel, q
  <1>8. Unnoticed(ctx) => StartIsNext(s)
    <2> SUFFICES ASSUME Unnoticed(ctx) PROVE StartIsNext(s)
      OBVIOUS
    <2>1. 1 \in DOMAIN p /\ 2 \in DOMAIN p /\ p[1] = Run("Start") /\ p[2] = Cancel("Start") /\ Len(p) = 2
      BY <1>4
    <2>2. s[Len(q) + 1] = Run("Start") /\ s[Len(q) + 2].type = "cancel"
      BY <1>6, <2>1 DEF Cancel
    <2>3. Quiet(s, Len(q))
      BY <1>6, <1>7 DEF Quiet
    <2>4. Len(q) \in 0..(Len(s) - 2)
      BY <1>6, <2>1
    <2> QED BY <2>2, <2>3, <2>4 DEF StartIsNext
  <1>9. ASSUME NEW i \in DOMAIN s
        PROVE  /\ s[i].type = "cancel" => s[i].st = "Start" /\ ctx.cancelled
               /\ ~Late(s[i])
    <2>1. CASE i \in DOMAIN q
      BY <1>6, <1>7, <2>1 DEF Late, Run
    <2>2. CASE i \notin DOMAIN q
      <3>1. PICK j \in DOMAIN p : s[i] = p[j]
        BY <1>6, <2>2
      <3>2. s[i] = Run("Start") \/ s[i] = Cancel("Start")
        BY <1>4, <3>1
      <3>3. s[i] = Run("Start") => ~Late(s[i]) /\ s[i].type # "cancel"
        BY DEF Run, Late
      <3>4. CASE ~Unnoticed(ctx)
        <4>1. s[i] = Run("Start")
          BY <1>4, <3>1, <3>4
        <4> QED BY <3>3, <4>1
      <3>5. CASE Unnoticed(ctx)
        <4>1. s[i] = Cancel("Start") => s[i].st = "Start" /\ s[i].type = "cancel" /\ ~Late(s[i])
          BY DEF Cancel, Late, Run
        <4> QED BY <3>2, <3>3, <3>5, <4>1 DEF Unnoticed
      <3> QED BY <3>4, <3>5
    <2> QED BY <2>1, <2>2
  <1>10. Ordered(mm, ctx, h)
    BY <1>3, <1>7, <1>8, <1>9
       DEF Ordered, EarlyCancel, NothingLate, ClearComesFirst, NoLate, s
  <1>11. mm.cmds = m.cmds
    BY <1>1 DEF mm, Enter, Machines
  <1>12. dev \in Devices /\ left \in Limits
    BY Basics
  <1> QED BY <1>1, <1>3, <1>5, <1>10, <1>11, <1>12, StepCalm

LEMMA MiddleStates ==
    /\ {"UpdateRetry", "Verify", "ClearNew", "PreparePace", "EnterPassword", "Establish", "PaceResponse",
        "PrepareChange", "EnterNewPin", "ChangePin", "ChangeResponse", "Clear"} \subseteq Middle
    /\ Middle \subseteq States /\ Waiting \subseteq Middle
    /\ {"Start", "Process", "ClearStop", "Stop", "Final"} \subseteq States
  BY DEF Middle, States, Edges, Waiting

(* The run() of a state in the middle of the workflow gives a signal.      *)
LEMMA RunSignals ==
    ASSUME IInv, NEW st \in Middle, Runs(st), NEW c \in Contexts, Like(c), c.conn \in {None, ctx.conn},
           NEW sig, BecomeM(Fire(Rest, c, st, sig), c), UNCHANGED <<dev, left, due>>
    PROVE  IInv'
  <1>1. st \in States /\ st # "Start" /\ st # "ClearStop"
    BY DEF Middle
  <1>2. m.events # <<>> /\ Event = Run(st) /\ ~Unnoticed(ctx)
    BY <1>1, RunsFacts
  <1>3. Event # Run("ClearStop")
    BY <1>1, <1>2 DEF Run
  <1>4. Plain(st, sig)
    BY DEF Plain
  <1> QED BY <1>2, <1>3, <1>4, StepFires

LEMMA LikeItself ==
    ASSUME IInv
    PROVE  /\ ctx \in Contexts /\ Like(ctx) /\ ctx.conn \in {None, ctx.conn}
           /\ \A o \in Outputs : /\ [ctx EXCEPT !.pace = o] \in Contexts /\ Like([ctx EXCEPT !.pace = o])
                                 /\ [ctx EXCEPT !.pace = o].conn = ctx.conn
                                 /\ [ctx EXCEPT !.changed = o] \in Contexts
                                 /\ Like([ctx EXCEPT !.changed = o])
                                 /\ [ctx EXCEPT !.changed = o].conn = ctx.conn
           /\ DropConnection(ctx) \in Contexts /\ Like(DropConnection(ctx)) /\ DropConnection(ctx).conn = None
  <1>1. ctx \in Contexts
    BY Basics
  <1>2. \A o \in Outputs : /\ [ctx EXCEPT !.pace = o] \in Contexts /\ Like([ctx EXCEPT !.pace = o])
                           /\ [ctx EXCEPT !.pace = o].conn = ctx.conn
    BY <1>1 DEF Contexts, Like
  <1>3. \A o \in Outputs : /\ [ctx EXCEPT !.changed = o] \in Contexts /\ Like([ctx EXCEPT !.changed = o])
                           /\ [ctx EXCEPT !.changed = o].conn = ctx.conn
    BY <1>1 DEF Contexts, Like
  <1>4. DropConnection(ctx) \in Contexts /\ Like(DropConnection(ctx)) /\ DropConnection(ctx).conn = None
    BY <1>1 DEF Contexts, Like, DropConnection, None
  <1> QED BY <1>1, <1>2, <1>3, <1>4 DEF Like

LEMMA UpdateRetryKeeps ==
    ASSUME IInv, RunUpdateRetry
    PROVE  IInv'
  <1>1. /\ Runs("UpdateRetry") /\ UNCHANGED <<dev, left, due>> /\ ctx \in Contexts /\ Like(ctx)
        /\ "UpdateRetry" \in Middle /\ "UpdateRetry" \in States
    BY MiddleStates, LikeItself DEF RunUpdateRetry, Frame
  <1>2. CASE ctx.conn = None
    <2>1. BecomeM(Fire(Rest, ctx, "UpdateRetry", "noCard"), ctx)
      BY <1>2 DEF RunUpdateRetry
    <2> QED BY <1>1, <2>1, RunSignals
  <1>3. CASE ctx.conn # None
    <2>1. BecomeM(Send(Rest, Command("update", ctx.conn, "UpdateRetry", None)), ctx)
      BY <1>3 DEF RunUpdateRetry
    <2>2. m.events # <<>> /\ Event.type = "run" /\ Event.st = "UpdateRetry"
      BY <1>1, RunsFacts
    <2> QED BY <1>1, <1>3, <2>1, <2>2, StepSends
  <1> QED BY <1>2, <1>3

LEMMA VerifyKeeps ==
    ASSUME IInv, RunVerify
    PROVE  IInv'
  <1>1. Runs("Verify") /\ UNCHANGED <<dev, left, due>> /\ ctx \in Contexts /\ Like(ctx) /\ "Verify" \in Middle
    BY MiddleStates, LikeItself DEF RunVerify, Frame
  <1>2. PICK sig : BecomeM(Fire(Rest, ctx, "Verify", sig), ctx)
    BY DEF RunVerify
  <1> QED BY <1>1, <1>2, RunSignals

LEMMA PrepareKeeps ==
    ASSUME IInv, RunPreparePace \/ RunPrepareChange \/ RunEnter
    PROVE  IInv'
  <1>1. ctx \in Contexts /\ Like(ctx)
    BY LikeItself
  <1>2. PICK st \in Middle, sig \in {"abort", "enter", "continue"} :
            /\ Runs(st) /\ UNCHANGED <<dev, left, due>>
            /\ BecomeM(Fire(Rest, ctx, st, sig), ctx)
    <2>1. CASE RunPreparePace
      BY <2>1, MiddleStates DEF RunPreparePace, Frame
    <2>2. CASE RunPrepareChange
      BY <2>2, MiddleStates DEF RunPrepareChange, Frame
    <2>3. CASE RunEnter
      BY <2>3, MiddleStates DEF RunEnter, Frame
    <2> QED BY <2>1, <2>2, <2>3
  <1> QED BY <1>1, <1>2, RunSignals

LEMMA EstablishKeeps ==
    ASSUME IInv, RunEstablish \/ RunChangePin
    PROVE  IInv'
  <1>1. /\ m.events \in Seq(Events) /\ ctx \in Contexts /\ "lost" \in Outputs
        /\ "Establish" \in Middle /\ "ChangePin" \in Middle /\ Middle \subseteq States
    BY Basics, MiddleStates DEF Outputs
  <1>2. CASE ctx.conn = None
    <2>1. CASE RunEstablish
      <3> DEFINE c == [ctx EXCEPT !.pace = "lost"]
      <3>1. Runs("Establish") /\ UNCHANGED <<dev, left, due>> /\ BecomeM(Fire(Rest, c, "Establish", "continue"), c)
        BY <1>2, <2>1 DEF RunEstablish, Frame
      <3>2. c \in Contexts /\ Like(c) /\ c.conn \in {None, ctx.conn}
        BY <1>1, LikeItself
      <3> HIDE DEF c
      <3> QED BY <1>1, <3>1, <3>2, RunSignals
    <2>2. CASE RunChangePin
      <3> DEFINE c == [ctx EXCEPT !.changed = "lost"]
      <3>1. Runs("ChangePin") /\ UNCHANGED <<dev, left, due>> /\ BecomeM(Fire(Rest, c, "ChangePin", "continue"), c)
        BY <1>2, <2>2 DEF RunChangePin, Frame
      <3>2. c \in Contexts /\ Like(c) /\ c.conn \in {None, ctx.conn}
        BY <1>1, LikeItself
      <3> HIDE DEF c
      <3> QED BY <1>1, <3>1, <3>2, RunSignals
    <2> QED BY <2>1, <2>2
  <1>3. CASE ctx.conn # None
    <2>1. PICK st \in {"Establish", "ChangePin"}, op \in {"pace", "set"} :
              /\ Runs(st) /\ UNCHANGED <<dev, left, due>>
              /\ BecomeM(Send(Rest, Command(op, ctx.conn, st, None)), ctx)
      BY <1>3 DEF RunEstablish, RunChangePin, Frame
    <2>2. st \in States /\ st \in Middle
      BY <1>1
    <2>3. m.events # <<>> /\ Event.type = "run" /\ Event.st \in Middle
      BY <2>1, <2>2, RunsFacts
    <2> QED BY <1>3, <2>1, <2>2, <2>3, StepSends
  <1> QED BY <1>2, <1>3

(* The answers of the workflow.                                            *)
LEMMA AnswerTypes ==
    ASSUME due \in [Requests -> Int], NEW q \in Requests, Answer(q)
    PROVE  /\ due' \in [Requests -> Int] /\ \A x \in Requests : x # q => due'[x] = due[x]
           /\ due'[q] = IF h.client = None THEN due[q] ELSE due[q] - 1
           /\ q \in {"pace", "modify"} => \A x \in CardRequests : due'[x] = due[x]
  <1> DEFINE n == IF h.client = None THEN due[q] ELSE due[q] - 1
  <1>1. n \in Int /\ due' = [due EXCEPT ![q] = n]
    BY DEF Answer
  <1> HIDE DEF n
  <1>2. due' \in [Requests -> Int] /\ due'[q] = n /\ \A x \in Requests : x # q => due'[x] = due[x]
    BY <1>1
  <1>3. q \in {"pace", "modify"} => \A x \in CardRequests : x \in Requests /\ x # q
    BY IfdServiceAssumption DEF CardRequests, Requests
  <1> QED BY <1>2, <1>3 DEF n

LEMMA ResponsesKeep ==
    ASSUME IInv, RunPaceResponse
    PROVE  IInv'
  <1> DEFINE c   == [ctx EXCEPT !.slot = None, !.pace = "unset"]
             sig == IF ctx.pace = "wrong" THEN "wrong" ELSE "continue"
             mm  == Fire(Rest, c, "PaceResponse", sig)
  <1>1. /\ Runs("PaceResponse") /\ UNCHANGED <<dev, left>> /\ BecomeM(mm, c) /\ Answer("pace")
    BY DEF RunPaceResponse, Frame
  <1>2. due' \in [Requests -> Int] /\ \A x \in CardRequests : due'[x] = due[x]
    <2>1. due \in [Requests -> Int] /\ "pace" \in Requests
      BY Basics DEF Requests
    <2> QED BY <1>1, <2>1, AnswerTypes
  <1>3. c \in Contexts /\ Like(c) /\ c.conn \in {None, ctx.conn}
    <2>1. ctx \in Contexts
      BY Basics
    <2> QED BY <2>1 DEF Contexts, Like, None, Outputs
  <1> HIDE DEF c, sig
  <1>4. /\ "PaceResponse" \in States /\ "PaceResponse" \in Middle /\ m.events # <<>>
        /\ Event = Run("PaceResponse") /\ ~Unnoticed(ctx) /\ Event # Run("ClearStop")
    <2>1. "PaceResponse" \in States /\ "PaceResponse" \in Middle
      BY MiddleStates
    <2>2. m.events # <<>> /\ Event = Run("PaceResponse") /\ ~Unnoticed(ctx)
      BY <1>1, <2>1, RunsFacts
    <2> QED BY <2>1, <2>2 DEF Run
  <1>5. ~Unnoticed(c)
    BY <1>3, <1>4 DEF Like, Unnoticed
  <1>6. Target(m.cur, "PaceResponse", sig) = "ignored" \/ MayGo(m.cur, c, Target(m.cur, "PaceResponse", sig))
    BY <1>4, <1>5, PlainGoes DEF Plain
  <1>7. Calm(m, mm, {}) /\ Ordered(mm, c, h)
    BY <1>3, <1>4, <1>6, RestFires
  <1> HIDE DEF mm
  <1> QED BY <1>1, <1>2, <1>3, <1>7, StepInPlace

LEMMA ChangeResponseKeeps ==
    ASSUME IInv, RunChangeResponse
    PROVE  IInv'
  <1>1. /\ Runs("ChangeResponse") /\ UNCHANGED <<dev, left>> /\ "ChangeResponse" \in States
        /\ "ChangeResponse" \in Middle
    BY MiddleStates DEF RunChangeResponse, Frame
  <1>2. /\ m.events # <<>> /\ Event = Run("ChangeResponse") /\ ~Unnoticed(ctx)
        /\ Event # Run("ClearStop")
    <2>1. m.events # <<>> /\ Event = Run("ChangeResponse") /\ ~Unnoticed(ctx)
      BY <1>1, RunsFacts
    <2> QED BY <2>1 DEF Run
  <1>3. /\ m \in Machines /\ h \in Handlers /\ ctx \in Contexts /\ Like(ctx) /\ dev \in Devices /\ left \in Limits
        /\ due \in [Requests -> Int]
    BY Basics, LikeItself
  <1>4. CASE h.client # None /\ ctx.change = None
    <2> DEFINE mm == [Rest EXCEPT !.cur = "crashed"]
    <2>1. m' = mm /\ UNCHANGED <<ctx, h, create, due>>
      BY <1>4 DEF RunChangeResponse
    <2>2. Rest \in Machines /\ Calm(m, Rest, {}) /\ Rest.cur = m.cur
      BY <1>2, HandleFacts
    <2>3. /\ mm \in Machines /\ mm.cur = "crashed" /\ mm.events = Rest.events /\ mm.cmds = Rest.cmds
      BY <2>2 DEF Machines
    <2>4. Rest.cmds = m.cmds
      BY <1>3 DEF Machines, Rest
    <2> HIDE DEF mm
    <2>5. Calm(m, mm, {})
      BY <1>3, <2>2, <2>3, CalmSame, CalmAgain
    <2>6. Ordered(Rest, ctx, h)
      BY <1>2, <1>3, RestIsOrdered
    <2>7. Ordered(mm, ctx, h)
      <3>1. m.cur \notin {"none", "stopped", "crashed"}
        BY <1>1, RunsFacts
      <3> QED BY <1>2, <2>2, <2>3, <2>6, <3>1 DEF Ordered, EarlyCancel, NothingLate, ClearComesFirst
    <2> QED BY <1>1, <1>3, <2>1, <2>3, <2>4, <2>5, <2>7, StepCalm
  <1>5. CASE ~(h.client # None /\ ctx.change = None)
    <2> DEFINE sig == IF ctx.changed = "OK" THEN "modified" ELSE "continue"
               mm  == Fire(Rest, ctx, "ChangeResponse", sig)
    <2>1. BecomeM(mm, ctx) /\ Answer("modify")
      BY <1>5 DEF RunChangeResponse
    <2>2. due' \in [Requests -> Int] /\ \A x \in CardRequests : due'[x] = due[x]
      <3>1. "modify" \in Requests
        BY DEF Requests
      <3> QED BY <1>3, <2>1, <3>1, AnswerTypes
    <2> HIDE DEF sig
    <2>3. \/ Target(m.cur, "ChangeResponse", sig) = "ignored"
          \/ MayGo(m.cur, ctx, Target(m.cur, "ChangeResponse", sig))
      BY <1>1, <1>2, PlainGoes DEF Plain
    <2>4. Calm(m, mm, {}) /\ Ordered(mm, ctx, h)
      BY <1>1, <1>2, <1>3, <2>3, RestFires
    <2> HIDE DEF mm
    <2> QED BY <1>1, <1>3, <2>1, <2>2, <2>4, StepInPlace
  <1> QED BY <1>4, <1>5

(* The passwords are cleared: only then may Stop be entered.               *)
LEMMA ClearedFacts ==
    ASSUME IInv
    PROVE  /\ ClearPasswords(ctx) \in Contexts /\ Like(ClearPasswords(ctx))
           /\ ~Remains(ClearPasswords(ctx)) /\ ClearPasswords(ctx).conn = ctx.conn
           /\ Reset(ctx) \in Contexts /\ Like(Reset(ctx)) /\ ~Remains(Reset(ctx)) /\ Reset(ctx).conn = None
  <1>1. ctx \in Contexts /\ None \in Nat
    BY Basics DEF None
  <1>2. /\ ClearPasswords(ctx) \in Contexts /\ Like(ClearPasswords(ctx))
        /\ ~Remains(ClearPasswords(ctx)) /\ ClearPasswords(ctx).conn = ctx.conn
    BY <1>1 DEF ClearPasswords, Contexts, Like, Remains
  <1> DEFINE c == ClearPasswords(ctx)
  <1> HIDE DEF c
  <1>3. /\ c \in Contexts /\ Like(c) /\ ~Remains(c)
    BY <1>2 DEF c
  <1>4. /\ [c EXCEPT !.conn = None, !.slot = None, !.pace = "unset", !.change = None] \in Contexts
        /\ Like([c EXCEPT !.conn = None, !.slot = None, !.pace = "unset", !.change = None])
        /\ ~Remains([c EXCEPT !.conn = None, !.slot = None, !.pace = "unset", !.change = None])
        /\ [c EXCEPT !.conn = None, !.slot = None, !.pace = "unset", !.change = None].conn = None
    BY <1>1, <1>3 DEF Contexts, Like, Remains, Outputs
  <1>5. Reset(ctx) = [c EXCEPT !.conn = None, !.slot = None, !.pace = "unset", !.change = None]
    BY DEF Reset, c
  <1> QED BY <1>2, <1>4, <1>5

LEMMA ClearKeeps ==
    ASSUME IInv, RunClear
    PROVE  IInv'
  <1>1. PICK st \in {"ClearNew", "Clear", "ClearStop"} :
            /\ Runs(st) /\ UNCHANGED <<dev, left, due>>
            /\ BecomeM(Fire(Rest, ctx, st, "continue"), ClearPasswords(ctx))
    BY DEF RunClear, Frame
  <1> DEFINE d  == ClearPasswords(ctx)
             mm == Fire(Rest, ctx, st, "continue")
             to == Target(m.cur, st, "continue")
  <1>2. d \in Contexts /\ Like(d) /\ ~Remains(d) /\ d.conn = ctx.conn /\ ctx \in Contexts /\ Like(ctx)
    BY ClearedFacts, LikeItself
  <1>3. st \in States /\ st # "Start" /\ (st # "ClearStop" => st \in Middle)
    BY <1>1, MiddleStates
  <1>4. m.events # <<>> /\ Event = Run(st) /\ ~Unnoticed(ctx)
    BY <1>1, <1>3, RunsFacts
  <1> HIDE DEF d
  <1>5. ~Unnoticed(d)
    BY <1>2, <1>4 DEF Like, Unnoticed
  <1>6. to = "ignored" \/ MayGo(m.cur, d, to)
    <2>1. CASE st = "ClearStop"
      <3>1. to = "ignored" \/ (to = "Stop" /\ m.cur = "ClearStop")
        BY <2>1 DEF Target, Edges
      <3>2. m.cur = "ClearStop" => MayGo(m.cur, d, "Stop")
        BY <1>2, <1>5 DEF MayGo
      <3> QED BY <3>1, <3>2
    <2>2. CASE st # "ClearStop"
      BY <1>3, <1>5, <2>2, PlainGoes DEF Plain
    <2> QED BY <2>1, <2>2
  <1> HIDE DEF to
  <1>7. Calm(m, mm, {}) /\ Ordered(mm, d, h)
    BY <1>2, <1>3, <1>4, <1>6, RestFires DEF to
  <1>8. BecomeM(mm, d)
    BY <1>1 DEF d
  <1> HIDE DEF mm
  <1> QED BY <1>1, <1>2, <1>7, <1>8, StepUnanswered

LEMMA ProcessKeeps ==
    ASSUME IInv, RunProcess
    PROVE  IInv'
  <1> DEFINE mm == [Rest EXCEPT !.watching = TRUE, !.listening = h.client]
  <1>1. Runs("Process") /\ UNCHANGED <<dev, left, due>> /\ "Process" \in States
    BY MiddleStates DEF RunProcess, Frame
  <1>2. m.events # <<>> /\ Event = Run("Process") /\ ~Unnoticed(ctx) /\ Event # Run("ClearStop")
    <2>1. m.events # <<>> /\ Event = Run("Process") /\ ~Unnoticed(ctx)
      BY <1>1, RunsFacts
    <2> QED BY <2>1 DEF Run
  <1>3. m \in Machines /\ h \in Handlers /\ ctx \in Contexts /\ Like(ctx) /\ h.client \in Nat
    BY Basics, LikeItself
  <1>4. Rest \in Machines /\ Calm(m, Rest, {})
    BY <1>2, HandleFacts
  <1>5. mm \in Machines /\ mm.events = Rest.events /\ mm.cmds = Rest.cmds /\ mm.cur = Rest.cur
    BY <1>3, <1>4 DEF Machines
  <1>6. \/ h.client # None /\ BecomeM(mm, ctx)
        \/ BecomeM(AfterReset(mm, ctx), Reset(ctx))
    BY DEF RunProcess
  <1> HIDE DEF mm
  <1>7. Calm(m, mm, {})
    BY <1>3, <1>4, <1>5, CalmSame, CalmAgain
  <1>8. ASSUME NEW c, Like(c)
        PROVE  Ordered(mm, c, h)
    <2>1. Ordered(Rest, c, h)
      BY <1>2, <1>8, RestIsOrdered
    <2> QED BY <1>5, <2>1, OrderedSame
  <1>9. CASE BecomeM(mm, ctx)
    BY <1>1, <1>3, <1>7, <1>8, <1>9, StepUnanswered
  <1>10. CASE BecomeM(AfterReset(mm, ctx), Reset(ctx))
    <2>1. Reset(ctx) \in Contexts /\ Like(Reset(ctx)) /\ Reset(ctx).conn = None
      BY ClearedFacts
    <2>2. /\ Calm(mm, AfterReset(mm, ctx), {}) /\ AfterReset(mm, ctx).events = mm.events
          /\ AfterReset(mm, ctx).cur = mm.cur
      BY <1>3, <1>5, CalmAfterReset
    <2>3. Calm(m, AfterReset(mm, ctx), {})
      BY <1>3, <1>7, <2>2, CalmAgain
    <2>4. Ordered(AfterReset(mm, ctx), Reset(ctx), h)
      BY <1>8, <2>1, <2>2, OrderedSame
    <2> QED BY <1>1, <1>10, <2>1, <2>3, <2>4, StepUnanswered
  <1> QED BY <1>6, <1>9, <1>10

(* The end of the workflow: nothing remains when its run() comes.          *)
LEMMA LateFacts ==
    ASSUME IInv, m.events # <<>>, Late(Event)
    PROVE  ~Remains(ctx)
  <1>1. Ordered(m, ctx, h) /\ Event = m.events[1] /\ 1 \in DOMAIN m.events
    BY Basics, HandleFacts
  <1>2. Remains(ctx) => Safe(m.events)
    BY <1>1 DEF Ordered, ClearComesFirst
  <1>3. ASSUME Safe(m.events) PROVE FALSE
    <2>1. \E i \in 1..(1 - 1) : m.events[i] = Run("ClearStop")
      BY <1>1, <1>3 DEF Safe
    <2> QED BY <2>1
  <1> QED BY <1>2, <1>3

LEMMA FinalKeeps ==
    ASSUME IInv, RunFinal
    PROVE  IInv'
  <1> DEFINE mm == Fire(Rest, ctx, "Final", "continue")
             to == Target(m.cur, "Final", "continue")
  <1>1. Runs("Final") /\ UNCHANGED <<dev, left, due>> /\ "Final" \in States /\ BecomeM(mm, ctx)
    BY MiddleStates DEF RunFinal, Frame
  <1>2. m.events # <<>> /\ Event = Run("Final") /\ ~Unnoticed(ctx) /\ Event # Run("ClearStop") /\ Late(Event)
    <2>1. m.events # <<>> /\ Event = Run("Final") /\ ~Unnoticed(ctx)
      BY <1>1, RunsFacts
    <2> QED BY <2>1 DEF Run, Late
  <1>3. ctx \in Contexts /\ Like(ctx) /\ ~Remains(ctx)
    BY <1>2, LikeItself, LateFacts
  <1>4. to = "ignored" \/ MayGo(m.cur, ctx, to)
    <2>1. to = "ignored" \/ (to = "stopped" /\ m.cur = "Final")
      BY DEF Target, Edges
    <2> QED BY <1>2, <1>3, <2>1 DEF MayGo
  <1> HIDE DEF to
  <1>5. Calm(m, mm, {}) /\ Ordered(mm, ctx, h)
    BY <1>1, <1>2, <1>3, <1>4, RestFires DEF to
  <1> HIDE DEF mm
  <1> QED BY <1>1, <1>3, <1>5, StepUnanswered

(* The server is closed when Stop is left: no client, no passwords.        *)
LEMMA NobodyFacts ==
    /\ NoHandler \in Handlers /\ NoHandler.client = None /\ NoHandler.slots = <<>>
    /\ IsFiniteSet(DOMAIN NoHandler.slots) /\ OwnerOf(NoHandler) = Nobody
    /\ \A w, c, cs : Refers(w, c, NoHandler, cs) => c.conn = w \/ \E x \in cs : x.worker = w
  <1>1. <<>> \in Maps(Numbers) /\ DOMAIN <<>> = {}
    <2>1. <<>> \in [{} -> Numbers]
      OBVIOUS
    <2> QED BY <2>1 DEF Maps
  <1>2. IsFiniteSet({})
    BY FS_EmptySet
  <1> QED BY <1>1, <1>2 DEF NoHandler, Handlers, OwnerOf, Refers, None

LEMMA StopServerKeeps ==
    ASSUME IInv, NEW mm, Calm(m, mm, {}), NEW c \in Contexts, c.conn = ctx.conn, ~Unnoticed(c),
           Ordered(mm, c, h), StopServer(mm, c), UNCHANGED <<dev, left, due>>
    PROVE  IInv'
  <1>1. /\ create \in SUBSET Creates /\ IsFiniteSet(create) /\ h \in Handlers /\ m \in Machines
        /\ due \in [Requests -> Int] /\ AnswersAreDue(m, h, due)
    BY Basics
  <1>2. mm \in Machines
    BY DEF Calm
  <1>3. CASE mm.cur # "Final"
    <2>1. BecomeM(mm, c)
      BY <1>3 DEF StopServer, BecomeM
    <2> QED BY <2>1, StepUnanswered
  <1>4. CASE mm.cur = "Final"
    <2> DEFINE q == mm.events
               S == {e \in Range(q) : ~(e.type \in {"message", "closed", "client"})}
               d == IF mm.listening # None THEN Reset(c) ELSE c
               m1 == [mm EXCEPT !.listening = None]
               nn == [m1 EXCEPT !.events = Only(q, S)]
    <2>1. Become(nn, d, NoHandler, create)
      <3>1. Become([mm EXCEPT !.listening = None,
                              !.events = Only(@, {e \in Range(@) : ~(e.type \in {"message", "closed", "client"})})],
                   d, NoHandler, create)
        BY <1>4 DEF StopServer
      <3>2. [mm EXCEPT !.listening = None,
                       !.events = Only(@, {e \in Range(@) : ~(e.type \in {"message", "closed", "client"})})]
            = nn
        BY <1>2 DEF Machines
      <3> QED BY <3>1, <3>2
    <2>2. q \in Seq(Events)
      BY <1>2, Fields
    <2> HIDE DEF S
    <2>3. Only(q, S) \in Seq(Events) /\ CalmEvents(q, Only(q, S)) /\ \A i \in DOMAIN Only(q, S) : Only(q, S)[i] \in S
      BY <2>2, CalmEventsOnly DEF CalmEvents
    <2>4. m1 \in Machines /\ m1.events = q /\ m1.cmds = mm.cmds /\ m1.cur = "Final"
      BY <1>2, <1>4 DEF Machines, None
    <2> HIDE DEF m1
    <2>5. nn \in Machines /\ nn.events = Only(q, S) /\ nn.cmds = mm.cmds /\ nn.cur = "Final"
      BY <2>3, <2>4 DEF Machines
    <2> HIDE DEF nn
    <2>6. Calm(mm, nn, {})
      <3>1. CalmCommands(mm.cmds, nn.cmds, {})
        <4>1. mm.cmds \in Seq(Commands)
          BY <1>2, Fields
        <4> QED BY <2>5, <4>1, CalmCommandsSame
      <3> QED BY <2>3, <2>5, <3>1 DEF Calm
    <2>7. Calm(m, nn, {})
      BY <1>1, <2>6, CalmAgain
    <2>8. Silent(nn.events)
      BY <2>3, <2>5 DEF Silent, S, Said
    <2>9. ~Remains(c) /\ (c.killed => c.cancelled)
      BY <1>4 DEF Ordered, ClearComesFirst
    <2>10. /\ d \in Contexts /\ d.conn \in {None, ctx.conn} /\ ~Remains(d)
           /\ d.killed = c.killed /\ d.cancelled = c.cancelled /\ d.inState = c.inState
      <3>1. CASE mm.listening = None
        BY <2>9, <3>1
      <3>2. CASE mm.listening # None
        <4> DEFINE e == ClearPasswords(c)
        <4>1. /\ e \in Contexts /\ e.pin = None /\ e.newPin = None
              /\ e.killed = c.killed /\ e.cancelled = c.cancelled /\ e.inState = c.inState
          BY DEF ClearPasswords, Contexts, None
        <4> HIDE DEF e
        <4>2. d = [e EXCEPT !.conn = None, !.slot = None, !.pace = "unset", !.change = None]
          BY <3>2 DEF Reset, e
        <4> HIDE DEF d
        <4> QED BY <4>1, <4>2 DEF Contexts, Remains, Outputs, None
      <3> QED BY <3>1, <3>2
    <2> HIDE DEF d
    <2>11. Ordered(nn, d, NoHandler)
      <3>1. \A i \in DOMAIN nn.events : \E j \in DOMAIN q : nn.events[i] = q[j]
        <4>1. PICK g : Picks(g, Only(q, S), q, S)
          BY <2>2, CalmEventsOnly
        <4> QED BY <2>5, <4>1 DEF Picks, Embeds
      <3>2. d.pin = None /\ d.newPin = None
        BY <2>10 DEF Remains
      <3>3. EarlyCancel(mm, c)
        BY DEF Ordered
      <3>4. EarlyCancel(nn, d)
        BY <1>4, <2>5, <2>10, <3>1, <3>3 DEF EarlyCancel, Unnoticed
      <3> QED BY <2>5, <2>9, <2>10, <3>2, <3>4 DEF Ordered, NothingLate, ClearComesFirst
    <2>12. NoHandler \in Handlers /\ NoHandler.client = None /\ IsFiniteSet(DOMAIN NoHandler.slots)
      BY NobodyFacts
    <2>13. AnswersAreDue(nn, NoHandler, due')
      BY <1>1, <2>7, <2>12, DueCalm
    <2>14. ASSUME NEW w \in Numbers, w \in {} \/ Refers(w, d, NoHandler, create)
           PROVE  Used(w, m, ctx, h, create)
      BY <2>10, <2>14, NobodyFacts DEF Used, Numbers
    <2>15. due' \in [Requests -> Int]
      BY <1>1
    <2> QED BY <1>1, <2>1, <2>7, <2>8, <2>10, <2>11, <2>12, <2>13, <2>14, <2>15, CalmIsMild, StepKeeps
  <1> QED BY <1>3, <1>4

LEMMA StopKeeps ==
    ASSUME IInv, RunStop
    PROVE  IInv'
  <1> DEFINE mm == Fire(Rest, ctx, "Stop", "continue")
             to == Target(m.cur, "Stop", "continue")
  <1>1. Runs("Stop") /\ UNCHANGED <<dev, left, due>> /\ "Stop" \in States /\ StopServer(mm, ctx)
    BY MiddleStates DEF RunStop, Frame
  <1>2. m.events # <<>> /\ Event = Run("Stop") /\ ~Unnoticed(ctx) /\ Event # Run("ClearStop") /\ Late(Event)
    <2>1. m.events # <<>> /\ Event = Run("Stop") /\ ~Unnoticed(ctx)
      BY <1>1, RunsFacts
    <2> QED BY <2>1 DEF Run, Late
  <1>3. ctx \in Contexts /\ Like(ctx) /\ ~Remains(ctx)
    BY <1>2, LikeItself, LateFacts
  <1>4. to = "ignored" \/ MayGo(m.cur, ctx, to)
    <2>1. to = "ignored" \/ (to = "Final" /\ m.cur = "Stop")
      BY DEF Target, Edges
    <2> QED BY <1>2, <1>3, <2>1 DEF MayGo
  <1> HIDE DEF to
  <1>5. Calm(m, mm, {}) /\ Ordered(mm, ctx, h)
    BY <1>1, <1>2, <1>3, <1>4, RestFires DEF to
  <1> HIDE DEF mm
  <1> QED BY <1>1, <1>2, <1>3, <1>5, StopServerKeeps

(* The first run() of a workflow that was cancelled before.                *)
LEMMA StartUnnoticed ==
    ASSUME IInv, m.events # <<>>, Unnoticed(ctx), Event = Run("Start"), NEW sig \in {"continue", "abort"}
    PROVE  Ordered(Fire(Rest, ctx, "Start", sig), ctx, h)
  <1> DEFINE mm == Fire(Rest, ctx, "Start", sig)
             to == Target(m.cur, "Start", sig)
             q  == Tail(m.events)
             s  == mm.events
             p  == <<Run(to), Cancel(to)>>
  <1>1. /\ m \in Machines /\ h \in Handlers /\ ctx \in Contexts /\ Ordered(m, ctx, h)
        /\ m.events \in Seq(Events) /\ Rest \in Machines /\ Rest.events = q /\ Rest.cur = m.cur
    BY Basics, HandleFacts
  <1>2. m.cur = "Start" /\ 1 \in DOMAIN q /\ q[1].type = "cancel"
    <2>1. Event.type = "run" /\ Head(m.events) = Event
      BY DEF Run, Event
    <2>2. \/ /\ m.cur = "Start" /\ Head(m.events) = Run("Start")
             /\ 1 \in DOMAIN Tail(m.events) /\ Tail(m.events)[1].type = "cancel"
          \/ Head(m.events).type = "cancel"
      BY <1>1, <2>1, HeadWhenUnnoticed
    <2> QED BY <2>1, <2>2
  <1>3. to \in {"Process", "Stop"} /\ to \in States /\ to \notin Waiting
    BY <1>2 DEF Target, Edges, States, Waiting
  <1> HIDE DEF to
  <1>4. mm.cur = to /\ s = q \o p /\ p \in Seq(Events)
    <2>1. "Start" \in States
      BY MiddleStates
    <2>2. Calm(Rest, mm, {}) /\ Fired(Rest, mm, ctx, to)
      BY <1>1, <2>1, CalmFire DEF to
    <2>3. Posted(ctx, to) = p /\ Posted(ctx, to) \in Seq(Events)
      BY <1>3, PostedFacts
    <2> QED BY <1>1, <1>3, <2>2, <2>3 DEF Fired
  <1>5. /\ \A i \in DOMAIN m.events : m.events[i].type = "cancel" =>
               /\ ctx.cancelled /\ m.events[i].st \in {"Start", "Process", "Stop"}
               /\ m.events[i].st # "Stop"
        /\ NoLate(m.events) /\ ~Remains(ctx) /\ (ctx.killed => ctx.cancelled) /\ ctx.cancelled
        /\ ctx.pin \in {None, OwnerOf(h)} /\ ctx.newPin \in {None, OwnerOf(h)}
    BY <1>1, <1>2 DEF Ordered, EarlyCancel, NothingLate, Unnoticed
  <1>6. q \in Seq(Events) /\ \A i \in DOMAIN q : \E j \in DOMAIN m.events : q[i] = m.events[j]
    BY <1>1, TailFacts
  <1> HIDE DEF q, s, mm
  <1>7. /\ \A i \in DOMAIN q : i \in DOMAIN s /\ s[i] = q[i]
        /\ \A i \in DOMAIN s : i \in DOMAIN q \/ s[i] \in {Run(to), Cancel(to)}
        /\ Len(s) \in Nat /\ DOMAIN s = 1..Len(s)
    <2>1. /\ \A i \in DOMAIN q : i \in DOMAIN s /\ s[i] = q[i]
          /\ \A i \in DOMAIN s : i \in DOMAIN q \/ (i - Len(q) \in DOMAIN p /\ s[i] = p[i - Len(q)])
          /\ Len(s) = Len(q) + Len(p) /\ DOMAIN s = 1..(Len(q) + Len(p)) /\ Len(q) \in Nat /\ Len(p) \in Nat
      BY <1>4, <1>6, ConcatFacts
    <2>2. \A i \in DOMAIN p : p[i] \in {Run(to), Cancel(to)}
      BY ShortQueues
    <2> HIDE DEF p
    <2> QED BY <2>1, <2>2
  <1>8. CancelIsNext(s)
    <2>1. 1 \in DOMAIN s /\ s[1].type = "cancel" /\ Len(s) >= 1
      BY <1>2, <1>7
    <2>2. Quiet(s, 0) /\ 0 \in 0..(Len(s) - 1) /\ 0 + 1 = 1
      BY <1>7, <2>1 DEF Quiet
    <2> QED BY <2>1, <2>2 DEF CancelIsNext
  <1>9. ASSUME NEW i \in DOMAIN s
        PROVE  /\ s[i].type = "cancel" => /\ s[i].st \in {"Start", "Process", "Stop"}
                                          /\ s[i].st = "Stop" => to = "Stop"
               /\ to # "Stop" => ~Late(s[i])
    <2>1. CASE i \in DOMAIN q
      BY <1>5, <1>6, <1>7, <2>1 DEF NoLate
    <2>2. CASE s[i] = Run(to)
      BY <1>3, <2>2 DEF Run, Late
    <2>3. CASE s[i] = Cancel(to)
      BY <1>3, <2>3 DEF Cancel, Run, Late
    <2> QED BY <1>7, <2>1, <2>2, <2>3
  <1>10. Ordered(mm, ctx, h)
    BY <1>3, <1>4, <1>5, <1>8, <1>9
       DEF Ordered, EarlyCancel, NothingLate, ClearComesFirst, NoLate, s
  <1> QED BY <1>10 DEF mm

LEMMA RunStartKeeps ==
    ASSUME IInv, RunStart
    PROVE  IInv'
  <1>1. PICK sig \in {"continue", "abort"} : BecomeM(Fire(Rest, ctx, "Start", sig), ctx)
    BY DEF RunStart
  <1> DEFINE mm == Fire(Rest, ctx, "Start", sig)
             to == Target(m.cur, "Start", sig)
  <1>2. Runs("Start") /\ UNCHANGED <<dev, left, due>> /\ "Start" \in States
    BY MiddleStates DEF RunStart, Frame
  <1>3. m.events # <<>> /\ Event = Run("Start") /\ Event # Run("ClearStop") /\ m.cur # "none"
    <2>1. m.events # <<>> /\ Event = Run("Start") /\ m.cur # "none"
      BY <1>2, RunsFacts
    <2> QED BY <2>1 DEF Run
  <1>4. /\ ctx \in Contexts /\ Like(ctx) /\ m \in Machines /\ h \in Handlers /\ Rest \in Machines
        /\ Calm(m, Rest, {}) /\ Ordered(m, ctx, h)
    BY <1>3, Basics, LikeItself, HandleFacts
  <1>5. CASE Unnoticed(ctx)
    <2>1. Ordered(mm, ctx, h)
      BY <1>3, <1>5, StartUnnoticed
    <2>2. Calm(Rest, mm, {})
      BY <1>2, <1>4, CalmFire
    <2> HIDE DEF mm
    <2>3. Calm(m, mm, {})
      BY <1>4, <2>2, CalmAgain
    <2> QED BY <1>1, <1>2, <1>4, <2>1, <2>3, StepUnanswered DEF mm
  <1>6. CASE ~Unnoticed(ctx)
    <2>1. to = "ignored" \/ MayGo(m.cur, ctx, to)
      <3>1. to = "ignored" \/ (to \in {"Process", "Stop"} /\ m.cur = "Start")
        BY DEF Target, Edges
      <3>2. m.cur = "Start" => ~Remains(ctx)
        BY <1>4 DEF Ordered, EarlyCancel
      <3> QED BY <1>6, <3>1, <3>2 DEF MayGo
    <2> HIDE DEF to
    <2>2. Calm(m, mm, {}) /\ Ordered(mm, ctx, h)
      BY <1>2, <1>3, <1>4, <1>6, <2>1, RestFires DEF to
    <2> HIDE DEF mm
    <2> QED BY <1>1, <1>2, <1>4, <2>2, StepUnanswered DEF mm
  <1> QED BY <1>5, <1>6

-----------------------------------------------------------------------------
(* Cancellation.                                                           *)
Noticed(c) == [c EXCEPT !.inState = TRUE]

LEMMA CancelledKeeps ==
    ASSUME IInv, NEW mm, Calm(m, mm, {}), NEW c \in Contexts, c.conn = ctx.conn, NEW st \in States,
           Ordered(mm, Noticed(c), h), NEW to, to = Target(mm.cur, st, "abort"),
           to = "ignored" \/ MayGo(mm.cur, Noticed(c), to),
           OnUserCancelled(mm, c, st), UNCHANGED <<dev, left, due>>
    PROVE  IInv'
  <1> DEFINE d  == Noticed(c)
             nn == Fire(mm, d, st, "abort")
  <1>1. m \in Machines /\ h \in Handlers /\ mm \in Machines
    BY Basics DEF Calm
  <1>2. d \in Contexts /\ d.conn = ctx.conn /\ ~Unnoticed(d)
    BY DEF Noticed, Contexts, Unnoticed
  <1>3. StopServer(nn, d)
    BY DEF OnUserCancelled, Noticed
  <1> HIDE DEF d
  <1>4. Calm(mm, nn, {})
    BY <1>1, <1>2, CalmFire
  <1>5. Ordered(nn, d, h)
    BY <1>1, <1>2, OrderedFire DEF d
  <1> HIDE DEF nn
  <1>6. Calm(m, nn, {})
    BY <1>1, <1>4, CalmAgain
  <1> QED BY <1>2, <1>3, <1>5, <1>6, StopServerKeeps

LEMMA RunCancelledKeeps ==
    ASSUME IInv, RunCancelled
    PROVE  IInv'
  <1>1. /\ m.events # <<>> /\ Event.type = "cancel" /\ OnUserCancelled(Rest, ctx, Event.st)
        /\ UNCHANGED <<dev, left, due>>
    BY DEF RunCancelled, Handles, Frame
  <1> DEFINE d  == Noticed(ctx)
             st == Event.st
             to == Target(m.cur, st, "abort")
  <1>2. /\ m \in Machines /\ ctx \in Contexts /\ Ordered(m, ctx, h)
        /\ Event = m.events[1] /\ 1 \in DOMAIN m.events /\ m.cur # "none"
        /\ Rest \in Machines /\ Calm(m, Rest, {}) /\ Rest.events = Tail(m.events) /\ Rest.cur = m.cur
    BY <1>1, Basics, HandleFacts
  <1>3. /\ d.pin = ctx.pin /\ d.newPin = ctx.newPin /\ d.killed = ctx.killed /\ d.cancelled = ctx.cancelled
        /\ ~Unnoticed(d) /\ (Remains(d) <=> Remains(ctx))
    BY <1>2 DEF Noticed, Contexts, Unnoticed, Remains
  <1>4. /\ ctx.cancelled /\ st \in {"Start", "Process", "Stop"}
        /\ st = "Stop" => ~Remains(ctx)
        /\ m.cur = "Start" => ~Remains(ctx)
    BY <1>1, <1>2 DEF Ordered, EarlyCancel
  <1> HIDE DEF d
  <1>5. Ordered(m, d, h)
    BY <1>2, <1>3, OrderedContext DEF Ordered
  <1>6. Event # Run("ClearStop")
    BY <1>1 DEF Run
  <1>7. Ordered(Rest, d, h)
    BY <1>1, <1>2, <1>3, <1>5, <1>6, OrderedRest DEF Event
  <1>8. to = "ignored" \/ MayGo(Rest.cur, d, to)
    <2>1. \/ to = "ignored"
          \/ m.cur = "Start" /\ to = "Stop"
          \/ m.cur = "Process" /\ to = "ClearStop"
          \/ st = "Stop" /\ m.cur = "Stop" /\ to = "Final"
      BY <1>4 DEF Target, Edges
    <2> QED BY <1>2, <1>3, <1>4, <2>1 DEF MayGo
  <1>9. st \in States
    BY <1>4, MiddleStates
  <1> HIDE DEF st
  <1> QED BY <1>1, <1>2, <1>7, <1>8, <1>9, CancelledKeeps DEF d, st

(* The user cancels, or the application shuts down.                        *)
LEMMA CancelWorkflowKeeps ==
    ASSUME IInv, NEW c \in Contexts, c.conn = ctx.conn, c.pin = ctx.pin, c.newPin = ctx.newPin,
           ~ctx.killed, c.killed \/ ~ctx.cancelled, MainThread, CancelWorkflow(c),
           UNCHANGED <<dev, left, due>>
    PROVE  IInv'
  <1> DEFINE e == [c EXCEPT !.cancelled = TRUE]
             d == Noticed(e)
  <1>1. /\ m \in Machines /\ h \in Handlers /\ ctx \in Contexts /\ Ordered(m, ctx, h)
        /\ dev \in Devices /\ left \in Limits
    BY Basics
  <1>2. /\ e \in Contexts /\ e.conn = ctx.conn /\ e.cancelled /\ e.killed = c.killed
        /\ e.pin = ctx.pin /\ e.newPin = ctx.newPin
    BY DEF Contexts
  <1>3. /\ d.conn = ctx.conn /\ d.cancelled /\ d.killed = c.killed
        /\ d.pin = ctx.pin /\ d.newPin = ctx.newPin /\ ~Unnoticed(d)
    BY DEF Noticed, Unnoticed, Contexts
  <1>4. /\ ctx.pin \in {None, OwnerOf(h)} /\ ctx.newPin \in {None, OwnerOf(h)}
        /\ (Remains(e) => Remains(ctx)) /\ (Remains(d) => Remains(ctx))
    BY <1>1, <1>2, <1>3 DEF Ordered, Remains
  <1>5. CASE m.cur = "none"
    <2>1. ctx' = e /\ UNCHANGED <<m, h, create>>
      BY <1>5 DEF CancelWorkflow
    <2> HIDE DEF e
    <2>2. Ordered(m, e, h)
      <3>1. ~Remains(e) /\ \A i \in DOMAIN m.events : m.events[i].type = "reader"
        BY <1>1, <1>2, <1>5 DEF Ordered, EarlyCancel, Remains
      <3> QED BY <1>1, <1>2, <1>4, <1>5, <3>1 DEF Ordered, EarlyCancel, NothingLate, ClearComesFirst
    <2>3. Calm(m, m, {})
      BY <1>1, CalmSame
    <2> QED BY <1>1, <1>2, <2>1, <2>2, <2>3, StepCalm
  <1>6. CASE m.cur # "none"
    <2> DEFINE mm == IF c.killed /\ ~m.approved
                     THEN [Post(m, Run(m.cur)) EXCEPT !.approved = TRUE] ELSE m
               to == Target(m.cur, m.cur, "abort")
    <2>1. OnUserCancelled(mm, e, m.cur)
      BY <1>6 DEF CancelWorkflow
    <2>2. m.cur \in States
      BY <1>1, <1>6 DEF MainThread, Machines
    <2>3. Run(m.cur) \in Events /\ Run(m.cur).type = "run" /\ (Late(Run(m.cur)) => m.cur \in {"Stop", "Final"})
      BY <2>2 DEF Run, Events, RunEvents, Late
    <2> HIDE DEF e, d
    <2>4. Ordered(m, d, h)
      <3>1. /\ ctx.cancelled => d.cancelled
            /\ ctx.killed => d.killed
            /\ d.killed => d.cancelled
            /\ d.pin \in {None, OwnerOf(h)} /\ d.newPin \in {None, OwnerOf(h)}
        BY <1>3, <1>4
      <3> QED BY <1>1, <1>3, <1>4, <3>1, OrderedContext
    <2>5. mm \in Machines /\ mm.cur = m.cur /\ Calm(m, mm, {}) /\ Ordered(mm, d, h)
      <3>1. CASE ~(c.killed /\ ~m.approved)
        BY <1>1, <2>4, <3>1, CalmSame
      <3>2. CASE c.killed /\ ~m.approved
        <4> DEFINE p == Post(m, Run(m.cur))
                   nn == [p EXCEPT !.approved = TRUE]
        <4>1. Calm(m, p, {}) /\ p.events = Append(m.events, Run(m.cur)) /\ p.cur = m.cur
          BY <1>1, <2>3, CalmPost DEF Harmless
        <4>2. p \in Machines
          BY <4>1 DEF Calm
        <4>3. Ordered(p, d, h)
          BY <1>1, <1>6, <2>3, <2>4, <4>1, OrderedAppend
        <4> HIDE DEF p
        <4>4. nn \in Machines /\ nn.events = p.events /\ nn.cmds = p.cmds /\ nn.cur = p.cur
          BY <4>2 DEF Machines
        <4>5. Calm(p, nn, {}) /\ Ordered(nn, d, h)
          BY <4>2, <4>3, <4>4, CalmSame, OrderedSame
        <4>6. mm = nn
          BY <3>2 DEF p
        <4> HIDE DEF nn, mm
        <4> QED BY <1>1, <4>1, <4>4, <4>5, <4>6, CalmAgain
      <3> QED BY <3>1, <3>2
    <2> HIDE DEF mm
    <2>6. to = "ignored" \/ MayGo(mm.cur, d, to)
      <3>1. \/ to = "ignored"
            \/ m.cur = "Start" /\ to = "Stop"
            \/ m.cur = "Process" /\ to = "ClearStop"
            \/ m.cur = "ClearStop" /\ to = "Stop"
            \/ m.cur = "Stop" /\ to = "Final"
            \/ Plain(m.cur, "abort")
        BY <2>2 DEF Target, Edges, Plain, Middle
      <3>2. CASE Plain(m.cur, "abort")
        <4>1. to = "ignored" \/ MayGo(m.cur, d, to)
          BY <1>3, <3>2, PlainGoes
        <4> QED BY <2>5, <4>1
      <3>3. /\ m.cur \in {"Start", "Stop"} => ~Remains(d)
            /\ m.cur = "ClearStop" /\ Remains(d) => c.killed
        BY <1>1, <1>4 DEF Ordered, EarlyCancel, ClearComesFirst
      <3> QED BY <1>3, <2>5, <3>1, <3>2, <3>3 DEF MayGo
    <2> QED BY <1>2, <2>1, <2>2, <2>5, <2>6, CancelledKeeps DEF d
  <1> QED BY <1>5, <1>6

LEMMA UserCancelsKeeps ==
    ASSUME IInv, SwitchOff \/ Kill
    PROVE  IInv'
  <1>1. ctx \in Contexts /\ (ctx.killed => ctx.cancelled)
    BY Basics DEF Ordered
  <1>2. CASE SwitchOff
    <2>1. MainThread /\ ~ctx.cancelled /\ CancelWorkflow(ctx) /\ UNCHANGED <<dev, left, due>>
      BY <1>2 DEF SwitchOff
    <2> QED BY <1>1, <2>1, CancelWorkflowKeeps
  <1>3. CASE Kill
    <2> DEFINE c == [ctx EXCEPT !.killed = TRUE]
    <2>1. MainThread /\ ~ctx.killed /\ CancelWorkflow(c) /\ UNCHANGED <<dev, left, due>>
      BY <1>3 DEF Kill
    <2>2. c \in Contexts /\ c.conn = ctx.conn /\ c.pin = ctx.pin /\ c.newPin = ctx.newPin /\ c.killed
      BY <1>1 DEF Contexts
    <2> HIDE DEF c
    <2> QED BY <2>1, <2>2, CancelWorkflowKeeps
  <1> QED BY <1>2, <1>3

(* The user closes the dialog.                                             *)
LEMMA CancelRequestKeeps ==
    ASSUME IInv, CancelPasswordRequest
    PROVE  IInv'
  <1>1. PICK st \in Waiting :
            /\ Asked(st)
            /\ \E c \in {ctx, [ctx EXCEPT !.pace = "cancelled"], [ctx EXCEPT !.changed = "cancelled"]} :
                   BecomeM(Fire(m, c, st, "abort"), c)
    BY DEF CancelPasswordRequest
  <1>2. PICK c \in {ctx, [ctx EXCEPT !.pace = "cancelled"], [ctx EXCEPT !.changed = "cancelled"]} :
            BecomeM(Fire(m, c, st, "abort"), c)
    BY <1>1
  <1>3. m \in Machines /\ h \in Handlers /\ Ordered(m, ctx, h) /\ UNCHANGED <<dev, left, due>>
    BY Basics DEF CancelPasswordRequest
  <1>4. c \in Contexts /\ Like(c) /\ c.conn = ctx.conn
    BY LikeItself DEF Outputs
  <1>5. m.cur = st /\ st \in Middle /\ st \in States
    BY <1>1, MiddleStates DEF Asked
  <1>6. ~Unnoticed(ctx) /\ ~Unnoticed(c)
    <2>1. m.cur \notin {"none", "Start", "Process", "Stop"}
      BY <1>5 DEF Middle, States, Edges
    <2> QED BY <1>3, <1>4, <2>1 DEF Ordered, EarlyCancel, Like, Unnoticed
  <1>7. Ordered(m, c, h)
    <2>1. Remains(c) => Remains(ctx)
      BY <1>4 DEF Like, Remains
    <2>2. /\ c.pin \in {None, OwnerOf(h)} /\ c.newPin \in {None, OwnerOf(h)}
          /\ c.killed => c.cancelled
      BY <1>3, <1>4 DEF Like, Ordered
    <2> QED BY <1>3, <1>4, <1>6, <2>1, <2>2, OrderedContext DEF Like
  <1>8. Target(m.cur, st, "abort") = "ignored" \/ MayGo(m.cur, c, Target(m.cur, st, "abort"))
    BY <1>5, <1>6, PlainGoes DEF Plain
  <1>9. Calm(m, Fire(m, c, st, "abort"), {}) /\ Ordered(Fire(m, c, st, "abort"), c, h)
    BY <1>3, <1>4, <1>5, <1>7, <1>8, CalmFire, OrderedFire
  <1> QED BY <1>2, <1>3, <1>4, <1>9, StepUnanswered


(* Handling an event that is no run of a state.                            *)
LEMMA HandlesFacts ==
    ASSUME IInv, NEW type, Handles(type), type \notin {"run", "cancel", "reader"}
    PROVE  /\ m.events # <<>> /\ Event \in Events /\ Event.type = type /\ ~Unnoticed(ctx)
           /\ \A st : Event # Run(st)
           /\ m.cur \notin {"none", "stopped", "crashed"}
           /\ Rest \in Machines /\ Calm(m, Rest, {}) /\ Rest.cur = m.cur /\ Rest.events = Tail(m.events)
           /\ Rest.cmds = m.cmds
  <1>1. m.events # <<>> /\ Event.type = type /\ m.cur \notin {"stopped", "crashed"}
    BY DEF Handles, MainThread
  <1>2. /\ Rest \in Machines /\ Calm(m, Rest, {}) /\ Rest.cur = m.cur /\ Rest.events = Tail(m.events)
        /\ Event \in Events /\ m.cur # "none"
    BY <1>1, HandleFacts
  <1>3. \A st : Event # Run(st)
    BY <1>1 DEF Run
  <1>4. ~Unnoticed(ctx)
    BY <1>1, <1>3, HandleFacts
  <1>5. Rest.cmds = m.cmds
    <2>1. m \in Machines
      BY Basics
    <2> QED BY <2>1 DEF Machines, Rest
  <1> QED BY <1>1, <1>2, <1>3, <1>4, <1>5

LEMMA DoneFacts ==
    ASSUME IInv, NEW op, Done(op)
    PROVE  /\ Handles("done") /\ Event \in DoneEvents /\ Event.op = op /\ Event.type = "done"
           /\ Event.result \in Outputs /\ Event.worker \in Numbers
  <1>1. Handles("done") /\ Event.op = op
    BY DEF Done
  <1>2. Event \in Events /\ Event.type = "done"
    BY <1>1, HandlesFacts
  <1>3. Event \in DoneEvents
    BY <1>2 DEF Events, RunEvents, MessageEvents, CreateEvents, MadeEvents, DoneEvents, ReaderEvents
  <1> QED BY <1>1, <1>2, <1>3 DEF DoneEvents, Results, Outputs

LEMMA PasswordDoneKeeps ==
    ASSUME IInv, EstablishDone \/ ChangePinDone
    PROVE  IInv'
  <1>1. /\ "Establish" \in Middle /\ "ChangePin" \in Middle /\ UNCHANGED <<dev, left, due>>
    BY MiddleStates DEF EstablishDone, ChangePinDone, Frame
  <1>2. CASE EstablishDone
    <2> DEFINE c == [ctx EXCEPT !.pace = Event.result]
    <2>1. Done("pace") /\ BecomeM(Fire(Rest, c, "Establish", "continue"), c)
      BY <1>2 DEF EstablishDone
    <2>2. Event.result \in Outputs /\ Handles("done")
      BY <2>1, DoneFacts
    <2>3. m.events # <<>> /\ ~Unnoticed(ctx) /\ Event # Run("ClearStop")
      BY <2>2, HandlesFacts
    <2>4. c \in Contexts /\ Like(c) /\ c.conn \in {None, ctx.conn}
      BY <2>2, LikeItself
    <2> HIDE DEF c
    <2> QED BY <1>1, <2>1, <2>3, <2>4, StepFires DEF Plain
  <1>3. CASE ChangePinDone
    <2> DEFINE c == [ctx EXCEPT !.changed = Event.result]
    <2>1. Done("set") /\ BecomeM(Fire(Rest, c, "ChangePin", "continue"), c)
      BY <1>3 DEF ChangePinDone
    <2>2. Event.result \in Outputs /\ Handles("done")
      BY <2>1, DoneFacts
    <2>3. m.events # <<>> /\ ~Unnoticed(ctx) /\ Event # Run("ClearStop")
      BY <2>2, HandlesFacts
    <2>4. c \in Contexts /\ Like(c) /\ c.conn \in {None, ctx.conn}
      BY <2>2, LikeItself
    <2> HIDE DEF c
    <2> QED BY <1>1, <2>1, <2>3, <2>4, StepFires DEF Plain
  <1> QED BY <1>2, <1>3

LEMMA RetryDoneKeeps ==
    ASSUME IInv, UpdateRetryDone
    PROVE  IInv'
  <1>1. "UpdateRetry" \in Middle /\ UNCHANGED <<dev, left, due>> /\ Handles("done")
    BY MiddleStates, DoneFacts DEF UpdateRetryDone, Frame
  <1>2. /\ m.events # <<>> /\ ~Unnoticed(ctx) /\ Event # Run("ClearStop")
        /\ ctx \in Contexts /\ Like(ctx) /\ m \in Machines /\ h \in Handlers
    BY <1>1, HandlesFacts, LikeItself, Basics
  <1>3. CASE BecomeM(Fire(Rest, ctx, "UpdateRetry", "continue"), ctx)
    BY <1>1, <1>2, <1>3, StepFires DEF Plain
  <1> DEFINE c == DropConnection(ctx)
             mm == Fire(Rest, c, "UpdateRetry", "noCard")
  <1>4. CASE BecomeM(AfterReset(mm, c), c)
    <2>1. c \in Contexts /\ Like(c) /\ c.conn = None
      BY LikeItself
    <2> HIDE DEF c
    <2>2. ~Unnoticed(c)
      BY <1>2, <2>1 DEF Like, Unnoticed
    <2>3. /\ "UpdateRetry" \in States
          /\ \/ Target(m.cur, "UpdateRetry", "noCard") = "ignored"
             \/ MayGo(m.cur, c, Target(m.cur, "UpdateRetry", "noCard"))
      BY <1>1, <2>2, PlainGoes DEF Plain
    <2>4. Calm(m, mm, {}) /\ Ordered(mm, c, h)
      BY <1>2, <2>1, <2>3, RestFires
    <2> HIDE DEF mm
    <2>5. mm \in Machines
      BY <2>4 DEF Calm
    <2>6. /\ Calm(mm, AfterReset(mm, c), {}) /\ AfterReset(mm, c).events = mm.events
          /\ AfterReset(mm, c).cur = mm.cur
      BY <1>2, <2>5, CalmAfterReset
    <2>7. Calm(m, AfterReset(mm, c), {})
      BY <1>2, <2>4, <2>6, CalmAgain
    <2>8. Ordered(AfterReset(mm, c), c, h)
      BY <2>4, <2>6, OrderedSame
    <2> QED BY <1>1, <1>4, <2>1, <2>7, <2>8, StepUnanswered
  <1>5. BecomeM(Fire(Rest, ctx, "UpdateRetry", "continue"), ctx) \/ BecomeM(AfterReset(mm, c), c)
    BY DEF UpdateRetryDone
  <1> QED BY <1>3, <1>4, <1>5

(* An answer is given to a message or for a result: one request less is    *)
(* under way.                                                              *)
LEMMA OneLessUnderWay ==
    ASSUME IInv, m.events # <<>>, NEW x \in CardRequests, NEW who \in Nat,
           Event \in Messages(x) \cup ResultsFor(x, who)
    PROVE  UnderWay(x, Rest, who) + 1 <= UnderWay(x, m, who)
  <1>1. m \in Machines /\ m.events \in Seq(Events) /\ Rest \in Machines
    BY Basics, HandleFacts
  <1>2. Rest.events = Tail(m.events) /\ Rest.cmds = m.cmds
    BY <1>1, HandleFacts DEF Rest, Machines
  <1>3. \A S : Many(m.events, S) = Many(Rest.events, S) + (IF Event \in S THEN 1 ELSE 0)
    BY <1>1, <1>2, CalmEventsTaken DEF Event
  <1>4. /\ Many(Rest.events, Messages(x)) \in Nat /\ Many(m.cmds, CommandsFor(x, who)) \in Nat
        /\ Many(Rest.events, ResultsFor(x, who)) \in Nat
    BY <1>1, <1>2, Fields, ManyIsNat
  <1>5. /\ Many(m.events, Messages(x)) =
               Many(Rest.events, Messages(x)) + (IF Event \in Messages(x) THEN 1 ELSE 0)
        /\ Many(m.events, ResultsFor(x, who)) =
               Many(Rest.events, ResultsFor(x, who)) + (IF Event \in ResultsFor(x, who) THEN 1 ELSE 0)
    BY <1>3
  <1> QED BY <1>2, <1>4, <1>5 DEF UnderWay

LEMMA AnsweredKeeps ==
    ASSUME IInv, m.events # <<>>, NEW x \in CardRequests, Event \in Messages(x) \cup ResultsFor(x, h.client),
           Answer(x), NEW mm, NEW W, Calm(Rest, mm, W), NEW hh, hh.client = h.client
    PROVE  due' \in [Requests -> Int] /\ AnswersAreDue(mm, hh, due')
  <1>1. /\ due \in [Requests -> Int] /\ h.client \in Nat /\ x \in Requests /\ AnswersAreDue(m, h, due)
        /\ m \in Machines /\ Rest \in Machines /\ mm \in Machines /\ CardRequests \subseteq Requests
    BY Basics, HandleFacts DEF CardRequests, Requests, Calm
  <1>2. /\ due' \in [Requests -> Int] /\ \A y \in Requests : y # x => due'[y] = due[y]
        /\ due'[x] = IF h.client = None THEN due[x] ELSE due[x] - 1
    BY <1>1, AnswerTypes
  <1>3. h.client = None => AnswersAreDue(mm, hh, due')
    BY <1>1, <1>2 DEF AnswersAreDue
  <1>4. ASSUME h.client # None, NEW y \in CardRequests
        PROVE  due'[y] >= 0 /\ due'[y] >= UnderWay(y, mm, h.client)
    <2>1. /\ UnderWay(y, mm, h.client) \in Nat /\ UnderWay(y, Rest, h.client) \in Nat
          /\ UnderWay(y, m, h.client) \in Nat
      BY <1>1, UnderWayFacts
    <2>2. UnderWay(y, mm, h.client) <= UnderWay(y, Rest, h.client)
      BY <1>1, UnderWayCalm
    <2>3. due[y] >= UnderWay(y, m, h.client) /\ due[y] \in Int
      BY <1>1, <1>4 DEF AnswersAreDue
    <2>4. CASE y = x
      <3>1. UnderWay(x, Rest, h.client) + 1 <= UnderWay(x, m, h.client)
        BY <1>1, OneLessUnderWay
      <3>2. due'[y] = due[y] - 1
        BY <1>2, <1>4, <2>4
      <3> QED BY <2>1, <2>2, <2>3, <2>4, <3>1, <3>2
    <2>5. CASE y # x
      <3>1. UnderWay(y, Rest, h.client) <= UnderWay(y, m, h.client)
        BY <1>1, HandleFacts, UnderWayCalm
      <3>2. due'[y] = due[y]
        BY <1>1, <1>2, <2>5
      <3> QED BY <2>1, <2>2, <2>3, <3>1, <3>2
    <2> QED BY <2>4, <2>5
  <1> QED BY <1>2, <1>3, <1>4 DEF AnswersAreDue


LEMMA StepAnswers ==
    ASSUME IInv, m.events # <<>>, NEW x \in CardRequests, Event \in Messages(x) \cup ResultsFor(x, h.client),
           Answer(x), NEW mm, Calm(Rest, mm, {}), NEW c \in Contexts, c.conn \in {None, ctx.conn},
           NEW hh \in Handlers, hh.client = h.client, IsFiniteSet(DOMAIN hh.slots),
           \A s \in DOMAIN hh.slots : s \in DOMAIN h.slots /\ hh.slots[s] = h.slots[s],
           Become(mm, c, hh, create), UNCHANGED <<dev, left>>, Ordered(mm, c, h)
    PROVE  IInv'
  <1>1. /\ m \in Machines /\ create \in SUBSET Creates /\ IsFiniteSet(create)
        /\ Calm(m, Rest, {})
    BY Basics, HandleFacts
  <1> DEFINE W == {}
  <1>2. Mild(m, mm, W)
    BY <1>1, CalmAgain, CalmIsMild
  <1>3. ASSUME NEW w \in Numbers, w \in W \/ Refers(w, c, hh, create)
        PROVE  Used(w, m, ctx, h, create)
    BY <1>3 DEF Refers, Used, Numbers
  <1>4. due' \in [Requests -> Int] /\ AnswersAreDue(mm, hh, due')
    BY AnsweredKeeps
  <1>5. Ordered(mm, c, hh)
    BY DEF Ordered, OwnerOf
  <1>6. (hh.client = None => h.client = None \/ Silent(mm.events)) /\ hh.client \in {h.client, None}
    OBVIOUS
  <1> HIDE DEF W
  <1>7. \A w \in Numbers : w \in W \/ Refers(w, c, hh, create) => Used(w, m, ctx, h, create)
    BY <1>3
  <1> QED BY <1>1, <1>2, <1>4, <1>5, <1>6, <1>7, StepKeeps

LEMMA RemoveSlotFacts ==
    ASSUME IInv, NEW s
    PROVE  /\ RemoveSlot(h, s) \in Handlers /\ RemoveSlot(h, s).client = h.client
           /\ IsFiniteSet(DOMAIN RemoveSlot(h, s).slots)
           /\ \A x \in DOMAIN RemoveSlot(h, s).slots :
                  x \in DOMAIN h.slots /\ RemoveSlot(h, s).slots[x] = h.slots[x]
  <1> DEFINE D == DOMAIN h.slots \ {s}
             f == [x \in D |-> h.slots[x]]
  <1>1. h \in Handlers /\ IsFiniteSet(DOMAIN h.slots)
    BY Basics
  <1>2. PICK E \in SUBSET Numbers : h.slots \in [E -> Numbers]
    BY <1>1 DEF Handlers, Maps
  <1>3. D \in SUBSET Numbers /\ f \in [D -> Numbers]
    BY <1>2
  <1>4. f \in Maps(Numbers) /\ DOMAIN f = D /\ \A x \in D : f[x] = h.slots[x] /\ x \in DOMAIN h.slots
    BY <1>3 DEF Maps
  <1>5. IsFiniteSet(D)
    BY <1>1, FS_Subset
  <1>6. RemoveSlot(h, s) = [h EXCEPT !.slots = f]
    BY DEF RemoveSlot
  <1> HIDE DEF f, D
  <1>7. RemoveSlot(h, s) \in Handlers /\ RemoveSlot(h, s).client = h.client /\ RemoveSlot(h, s).slots = f
    BY <1>1, <1>4, <1>6 DEF Handlers
  <1> QED BY <1>4, <1>5, <1>7

(* The results of the commands of a client.                                *)
LEMMA DisconnectDoneKeeps ==
    ASSUME IInv, DisconnectDone
    PROVE  IInv'
  <1>1. Done("update") /\ Event.to = "client" /\ UNCHANGED <<dev, left>>
    BY DEF DisconnectDone, Frame
  <1>2. Handles("done") /\ Event \in DoneEvents /\ Event.op = "update" /\ Event.type = "done"
    BY <1>1, DoneFacts
  <1>3. /\ m.events # <<>> /\ Event \in Events /\ ~Unnoticed(ctx) /\ \A st : Event # Run(st)
        /\ Rest \in Machines /\ Calm(m, Rest, {})
    BY <1>2, HandlesFacts
  <1>4. /\ m \in Machines /\ ctx \in Contexts /\ Like(ctx) /\ h \in Handlers
        /\ Reset(ctx) \in Contexts /\ Like(Reset(ctx)) /\ Reset(ctx).conn = None
    BY Basics, LikeItself, ClearedFacts
  <1>5. Ordered(Rest, ctx, h) /\ Ordered(Rest, Reset(ctx), h)
    BY <1>3, <1>4, RestIsOrdered
  <1>6. CASE Event.client # h.client
    <2>1. BecomeM(Rest, ctx) /\ UNCHANGED due
      BY <1>6 DEF DisconnectDone
    <2> QED BY <1>1, <1>3, <1>4, <1>5, <2>1, StepUnanswered
  <1>7. CASE Event.client = h.client
    <2> DEFINE hh == RemoveSlot(h, Event.arg)
    <2>1. /\ \/ Become(AfterReset(Rest, ctx), Reset(ctx), hh, create)
             \/ Become(Rest, ctx, hh, create)
          /\ Answer("disconnect")
      BY <1>7 DEF DisconnectDone
    <2>2. /\ hh \in Handlers /\ hh.client = h.client /\ IsFiniteSet(DOMAIN hh.slots)
          /\ \A x \in DOMAIN hh.slots : x \in DOMAIN h.slots /\ hh.slots[x] = h.slots[x]
      BY RemoveSlotFacts
    <2> HIDE DEF hh
    <2>3. "disconnect" \in CardRequests /\ Event \in ResultsFor("disconnect", h.client)
      BY <1>1, <1>2, <1>3, <1>7 DEF CardRequests, ResultsFor, CommandOf
    <2>4. Calm(Rest, Rest, {})
      BY <1>3, CalmSame
    <2>5. CASE Become(Rest, ctx, hh, create)
      BY <1>1, <1>3, <1>4, <1>5, <2>1, <2>2, <2>3, <2>4, <2>5, StepAnswers
    <2>6. CASE Become(AfterReset(Rest, ctx), Reset(ctx), hh, create)
      <3>1. /\ Calm(Rest, AfterReset(Rest, ctx), {}) /\ AfterReset(Rest, ctx).events = Rest.events
            /\ AfterReset(Rest, ctx).cur = Rest.cur
        BY <1>3, <1>4, CalmAfterReset
      <3>2. Ordered(AfterReset(Rest, ctx), Reset(ctx), h)
        BY <1>5, <3>1, OrderedSame
      <3> QED BY <1>1, <1>3, <1>4, <2>1, <2>2, <2>3, <2>6, <3>1, <3>2, StepAnswers
    <2> QED BY <2>1, <2>5, <2>6
  <1> QED BY <1>6, <1>7

LEMMA CommandDoneKeeps ==
    ASSUME IInv, CardCommandDone
    PROVE  IInv'
  <1>1. PICK op \in CardOps :
            /\ Done(op)
            /\ IF Event.client # h.client THEN BecomeM(Rest, ctx) /\ UNCHANGED due
               ELSE /\ \E stopped \in BOOLEAN :
                          BecomeM(IF stopped /\ Event.result = "OK" /\ m.listening = h.client
                                  THEN Fire(Rest, ctx, "Process", "smStopped") ELSE Rest, ctx)
                    /\ Answer(op)
    BY DEF CardCommandDone
  <1>2. Handles("done") /\ Event.op = op /\ Event.type = "done" /\ UNCHANGED <<dev, left>>
    BY <1>1, DoneFacts DEF CardCommandDone, Frame
  <1>3. /\ m.events # <<>> /\ Event \in Events /\ ~Unnoticed(ctx) /\ \A st : Event # Run(st)
        /\ Rest \in Machines /\ Rest.cur = m.cur
    BY <1>2, HandlesFacts
  <1>4. /\ m \in Machines /\ ctx \in Contexts /\ Like(ctx) /\ h \in Handlers
        /\ IsFiniteSet(DOMAIN h.slots)
    BY Basics, LikeItself
  <1>5. Ordered(Rest, ctx, h) /\ Calm(m, Rest, {}) /\ Calm(Rest, Rest, {})
    BY <1>3, <1>4, RestIsOrdered, HandleFacts, CalmSame
  <1>6. CASE Event.client # h.client
    <2>1. BecomeM(Rest, ctx) /\ UNCHANGED due
      BY <1>1, <1>6
    <2> QED BY <1>2, <1>4, <1>5, <2>1, StepUnanswered
  <1>7. CASE Event.client = h.client
    <2> DEFINE mm == Fire(Rest, ctx, "Process", "smStopped")
    <2>1. (BecomeM(mm, ctx) \/ BecomeM(Rest, ctx)) /\ Answer(op)
      BY <1>1, <1>7
    <2>2. op \in CardRequests /\ Event \in ResultsFor(op, h.client)
      <3>1. op # "disconnect"
        BY IfdServiceAssumption
      <3> QED BY <1>2, <1>3, <1>7, <3>1 DEF CardRequests, ResultsFor, CommandOf
    <2>3. /\ "Process" \in States
          /\ \/ Target(m.cur, "Process", "smStopped") = "ignored"
             \/ MayGo(m.cur, ctx, Target(m.cur, "Process", "smStopped"))
      BY <1>3, PlainGoes DEF Plain
    <2>4. Calm(Rest, mm, {}) /\ Ordered(mm, ctx, h)
      BY <1>3, <1>4, <2>3, RestFires, CalmFire
    <2> HIDE DEF mm
    <2>5. CASE BecomeM(mm, ctx)
      BY <1>2, <1>3, <1>4, <2>1, <2>2, <2>4, <2>5, StepAnswers DEF BecomeM
    <2>6. CASE BecomeM(Rest, ctx)
      BY <1>2, <1>3, <1>4, <1>5, <2>1, <2>2, <2>6, StepAnswers DEF BecomeM
    <2> QED BY <2>1, <2>5, <2>6
  <1> QED BY <1>6, <1>7


(* The first unused number.                                                *)
LEMMA FreshFacts ==
    ASSUME NEW used, IsFiniteSet(used)
    PROVE  Fresh(used) \in Numbers /\ Fresh(used) \notin used
  <1> DEFINE n == Cardinality(used) + 1
  <1>1. Cardinality(used) \in Nat
    BY FS_CardinalityType
  <1>2. \E i \in 1..n : i \notin used
    <2> SUFFICES ASSUME \A i \in 1..n : i \in used PROVE FALSE
      OBVIOUS
    <2>1. 1..n \in SUBSET used
      OBVIOUS
    <2>2. Cardinality(1..n) <= Cardinality(used)
      BY <2>1, FS_Subset
    <2>3. Cardinality(1..n) = n
      <3>1. n \in Int /\ ~(1 > n) /\ n - 1 + 1 = n
        BY <1>1
      <3> HIDE DEF n
      <3> QED BY <3>1, FS_Interval
    <2> QED BY <1>1, <2>2, <2>3
  <1>3. Fresh(used) \in 1..n /\ Fresh(used) \notin used
    BY <1>2 DEF Fresh
  <1> QED BY <1>1, <1>3 DEF Numbers, None

(* A step that may give out references, and answers nothing.               *)
LEMMA StepConnects ==
    ASSUME IInv, NEW mm, Calm(m, mm, {}), NEW c \in Contexts, NEW hh \in Handlers,
           hh.client = h.client, IsFiniteSet(DOMAIN hh.slots), NEW cs \in SUBSET Creates, IsFiniteSet(cs),
           \A w \in Numbers : Refers(w, c, hh, cs) => Used(w, m, ctx, h, create),
           Become(mm, c, hh, cs), UNCHANGED <<dev, left, due>>, Ordered(mm, c, h)
    PROVE  IInv'
  <1>1. m \in Machines /\ h \in Handlers /\ due \in [Requests -> Int] /\ AnswersAreDue(m, h, due)
    BY Basics
  <1> DEFINE W == {}
  <1>2. Mild(m, mm, W)
    BY CalmIsMild
  <1>3. due' \in [Requests -> Int] /\ AnswersAreDue(mm, hh, due')
    BY <1>1, DueCalm
  <1>4. Ordered(mm, c, hh)
    BY DEF Ordered, OwnerOf
  <1>5. (hh.client = None => h.client = None \/ Silent(mm.events)) /\ hh.client \in {h.client, None}
    OBVIOUS
  <1>6. \A w \in Numbers : w \in W \/ Refers(w, c, hh, cs) => Used(w, m, ctx, h, create)
    OBVIOUS
  <1> HIDE DEF W
  <1> QED BY <1>2, <1>3, <1>4, <1>5, <1>6, StepKeeps

(* The messages of the client.                                             *)
LEMMA MessageFacts ==
    ASSUME IInv, NEW q, Gets(q)
    PROVE  /\ Handles("message") /\ Event \in Events /\ Event.type = "message" /\ Event.what = q
           /\ q = "connect" => Event.arg \in Readers
           /\ q # "connect" => q \in Requests /\ Event.arg \in Nat
           /\ Event \in Messages(q) /\ h.client \in Numbers
  <1>1. Handles("message") /\ Event.what = q
    BY DEF Gets
  <1>2. Event \in Events /\ Event.type = "message" /\ m.events # <<>>
    BY <1>1, HandlesFacts
  <1>3. Event \in MessageEvents
    BY <1>2 DEF Events, RunEvents, MessageEvents, CreateEvents, MadeEvents, DoneEvents, ReaderEvents
  <1>4. "connect" \notin Requests
    BY IfdServiceAssumption DEF Requests
  <1>5. h.client \in Numbers
    <2>1. Event = m.events[1] /\ 1 \in DOMAIN m.events
      BY <1>2, HandleFacts
    <2>2. EndIsLast(m, h) /\ h.client \in Nat
      BY Basics
    <2> QED BY <1>2, <2>1, <2>2 DEF EndIsLast, Silent, Said, Numbers
  <1> QED BY <1>1, <1>2, <1>3, <1>4, <1>5 DEF MessageEvents, Messages

LEMMA ConnectKeeps ==
    ASSUME IInv, HandleConnect
    PROVE  IInv'
  <1> DEFINE id == Fresh({c.id : c \in create})
             e  == [type |-> "execute", id |-> id]
             x  == [id |-> id, reader |-> Event.arg, to |-> h.client, worker |-> None, listening |-> FALSE]
             cs == create \cup {x}
             mm == Post(Rest, e)
  <1>1. /\ Gets("connect") /\ UNCHANGED <<dev, left, due>>
        /\ BecomeM(Rest, ctx) \/ Become(mm, ctx, h, cs)
    BY DEF HandleConnect, Frame
  <1>2. Handles("message") /\ Event.arg \in Readers /\ h.client \in Numbers
    BY <1>1, MessageFacts
  <1>3. /\ m.events # <<>> /\ ~Unnoticed(ctx) /\ \A st : Event # Run(st)
        /\ Rest \in Machines /\ Calm(m, Rest, {}) /\ Rest.cur = m.cur /\ m.cur # "none"
    BY <1>2, HandlesFacts
  <1>4. /\ ctx \in Contexts /\ Like(ctx) /\ h \in Handlers /\ m \in Machines /\ IsFiniteSet(DOMAIN h.slots)
        /\ create \in SUBSET Creates /\ IsFiniteSet(create)
    BY Basics, LikeItself
  <1>5. Ordered(Rest, ctx, h)
    BY <1>3, <1>4, RestIsOrdered
  <1>6. CASE BecomeM(Rest, ctx)
    BY <1>1, <1>3, <1>4, <1>5, <1>6, StepUnanswered
  <1>7. CASE Become(mm, ctx, h, cs)
    <2>1. id \in Numbers
      <3> DEFINE S == {c.id : c \in create}
                 f == [c \in create |-> c.id]
      <3>1. f \in Surjection(create, S)
        BY DEF Surjection
      <3> HIDE DEF f, S
      <3>2. IsFiniteSet(S)
        BY <1>4, <3>1, FS_Surjection
      <3> QED BY <3>2, FreshFacts DEF S
    <2> HIDE DEF id
    <2>2. e \in Events /\ e.type = "execute"
      BY <2>1 DEF Events, CreateEvents
    <2>3. x \in Creates /\ x.worker = None
      BY <1>2, <2>1 DEF Creates, None
    <2>4. ~Late(e) /\ e.type # "cancel" /\ e.type \in Harmless
      BY <2>2 DEF Late, Run, Harmless
    <2> HIDE DEF e, x
    <2>5. cs \in SUBSET Creates /\ IsFiniteSet(cs)
      BY <1>4, <2>3, FS_AddElement
    <2>6. Calm(Rest, mm, {}) /\ mm.events = Append(Rest.events, e) /\ mm.cur = Rest.cur
      BY <1>3, <2>2, <2>4, CalmPost
    <2> HIDE DEF mm
    <2>7. Calm(m, mm, {})
      BY <1>3, <1>4, <2>6, CalmAgain
    <2>8. Ordered(mm, ctx, h)
      BY <1>3, <1>5, <2>2, <2>4, <2>6, OrderedAppend
    <2>9. \A w \in Numbers : Refers(w, ctx, h, cs) => Used(w, m, ctx, h, create)
      BY <2>3 DEF Refers, Used, Numbers
    <2> HIDE DEF cs
    <2> QED BY <1>1, <1>4, <1>7, <2>5, <2>7, <2>8, <2>9, StepConnects
  <1> QED BY <1>1, <1>6, <1>7


(* A client's command takes the place of its message.                      *)
LEMMA MildCommandsMore ==
    ASSUME NEW k \in Seq(Commands), NEW r \in Seq(Commands), NEW W,
           \A i \in DOMAIN r : r[i].op # "delete" /\ r[i].client = h.client /\ r[i].worker \in W
    PROVE  MildCommands(k, k \o r, W)
  <1> DEFINE l == k \o r
  <1>1. /\ l \in Seq(Commands) /\ Len(k) \in Nat /\ DOMAIN k = 1..Len(k)
        /\ \A i \in DOMAIN k : i \in DOMAIN l /\ l[i] = k[i]
        /\ \A i \in DOMAIN l : i \in DOMAIN k \/ (i - Len(k) \in DOMAIN r /\ l[i] = r[i - Len(k)])
    BY ConcatFacts
  <1> HIDE DEF l
  <1>2. \A i \in DOMAIN l : \/ i \in DOMAIN k /\ l[i] = k[i]
                            \/ l[i].op # "delete" /\ l[i].client = h.client /\ l[i].worker \in W
    BY <1>1
  <1> QED BY <1>1, <1>2 DEF MildCommands, l

LEMMA CardRequestKeeps ==
    ASSUME IInv, HandleCardRequest
    PROVE  IInv'
  <1>1. PICK q \in CardRequests :
        /\ Gets(q)
        /\ IF Event.arg \notin DOMAIN h.slots THEN BecomeM(Rest, ctx) /\ Answer(q)
           ELSE /\ BecomeM(Send(Rest, Command(CommandOf(q), h.slots[Event.arg], "client", Event.arg)), ctx)
                /\ UNCHANGED due
    BY DEF HandleCardRequest, CardRequests, CommandOf
  <1>2. /\ Handles("message") /\ Event \in Messages(q) /\ h.client \in Numbers /\ Event.arg \in Nat
        /\ UNCHANGED <<dev, left>>
    <2>1. q # "connect"
      BY IfdServiceAssumption DEF CardRequests
    <2> QED BY <1>1, <2>1, MessageFacts DEF HandleCardRequest, Frame
  <1>3. /\ m.events # <<>> /\ ~Unnoticed(ctx) /\ \A st : Event # Run(st)
        /\ Rest \in Machines /\ Rest.cur = m.cur /\ Rest.cmds = m.cmds /\ Rest.events = Tail(m.events)
    BY <1>2, HandlesFacts
  <1>4. /\ ctx \in Contexts /\ Like(ctx) /\ h \in Handlers /\ m \in Machines /\ IsFiniteSet(DOMAIN h.slots)
        /\ create \in SUBSET Creates /\ IsFiniteSet(create) /\ due \in [Requests -> Int]
        /\ m.cmds \in Seq(Commands) /\ AnswersAreDue(m, h, due)
    BY Basics, LikeItself
  <1>5. Ordered(Rest, ctx, h) /\ Calm(m, Rest, {}) /\ Calm(Rest, Rest, {})
    BY <1>3, <1>4, RestIsOrdered, HandleFacts, CalmSame
  <1>6. CASE Event.arg \notin DOMAIN h.slots
    <2>1. BecomeM(Rest, ctx) /\ Answer(q)
      BY <1>1, <1>6
    <2> QED BY <1>2, <1>3, <1>4, <1>5, <2>1, StepAnswers DEF BecomeM
  <1>7. CASE Event.arg \in DOMAIN h.slots
    <2> DEFINE k  == Command(CommandOf(q), h.slots[Event.arg], "client", Event.arg)
               mm == Send(Rest, k)
               W  == {h.slots[Event.arg]}
    <2>1. BecomeM(mm, ctx) /\ due' = due
      BY <1>1, <1>7
    <2>2. h.slots[Event.arg] \in Numbers
      <3>1. PICK D \in SUBSET Numbers : h.slots \in [D -> Numbers]
        BY <1>4 DEF Handlers, Maps
      <3> QED BY <1>7, <3>1
    <2>3. /\ k \in Commands /\ k.op = CommandOf(q) /\ k.client = h.client /\ k.to = "client"
          /\ k.worker \in W /\ k.op # "delete"
      <3>1. CommandOf(q) \in CardOps \cup {"update"} /\ CommandOf(q) # "delete"
        BY IfdServiceAssumption DEF CardRequests, CommandOf
      <3> QED BY <1>2, <2>2, <3>1 DEF Command, Commands, Numbers
    <2>4. ASSUME NEW w \in Numbers, w \in W \/ Refers(w, ctx, h, create)
          PROVE  Used(w, m, ctx, h, create)
      BY <1>7, <2>4 DEF Refers, Used
    <2> HIDE DEF k, W
    <2>5. mm.cmds = Append(m.cmds, k) /\ mm.events = Rest.events /\ mm.cur = Rest.cur /\ mm \in Machines
      <3>1. Append(m.cmds, k) \in Seq(Commands)
        BY <1>4, <2>3
      <3> QED BY <1>3, <3>1 DEF Send, Machines
    <2> HIDE DEF mm
    <2>6. Mild(m, mm, W)
      <3>1. mm.cmds = m.cmds \o <<k>>
        BY <1>4, <2>3, <2>5, AppendIsConcat
      <3>2. <<k>> \in Seq(Commands) /\ \A i \in DOMAIN <<k>> : <<k>>[i] = k
        BY <2>3
      <3>3. MildCommands(m.cmds, m.cmds \o <<k>>, W)
        BY <1>4, <2>3, <3>2, MildCommandsMore
      <3>4. CalmEvents(m.events, mm.events)
        BY <1>5, <2>5 DEF Calm
      <3> QED BY <2>5, <3>1, <3>3, <3>4 DEF Mild
    <2>7. AnswersAreDue(mm, h, due')
      <3> SUFFICES ASSUME NEW x \in CardRequests, h.client # None
                   PROVE  due[x] >= UnderWay(x, mm, h.client)
        BY <1>4, <2>1 DEF AnswersAreDue
      <3>1. h.client \in Nat
        BY <1>2 DEF Numbers
      <3>2. /\ UnderWay(x, Rest, h.client) \in Nat /\ UnderWay(x, m, h.client) \in Nat
            /\ UnderWay(x, mm, h.client) \in Nat /\ due[x] \in Int /\ due[x] >= UnderWay(x, m, h.client)
        BY <1>3, <1>4, <2>5, UnderWayFacts DEF AnswersAreDue, CardRequests, Requests
      <3>3. Many(mm.cmds, CommandsFor(x, h.client)) =
                Many(m.cmds, CommandsFor(x, h.client)) + (IF k \in CommandsFor(x, h.client) THEN 1 ELSE 0)
        BY <1>4, <2>3, <2>5, ManyInAppend
      <3>4. /\ Many(m.cmds, CommandsFor(x, h.client)) \in Nat
            /\ Many(Rest.events, Messages(x)) \in Nat /\ Many(Rest.events, ResultsFor(x, h.client)) \in Nat
        BY <1>3, <1>4, Fields, ManyIsNat
      <3>5. CASE x = q
        <4>1. UnderWay(x, Rest, h.client) + 1 <= UnderWay(x, m, h.client)
          BY <1>2, <1>3, <3>1, <3>5, OneLessUnderWay
        <4>2. UnderWay(x, mm, h.client) <= UnderWay(x, Rest, h.client) + 1
          BY <1>3, <2>5, <3>3, <3>4 DEF UnderWay
        <4> QED BY <3>2, <4>1, <4>2
      <3>6. CASE x # q
        <4>1. k \notin CommandsFor(x, h.client)
          BY <2>3, <3>6, IfdServiceAssumption DEF CommandsFor, CommandOf, CardRequests
        <4>2. UnderWay(x, mm, h.client) = UnderWay(x, Rest, h.client)
          BY <1>3, <2>5, <3>3, <3>4, <4>1 DEF UnderWay
        <4>3. UnderWay(x, Rest, h.client) <= UnderWay(x, m, h.client)
          BY <1>4, <1>5, <3>1, UnderWayCalm
        <4> QED BY <3>2, <4>2, <4>3
      <3> QED BY <3>5, <3>6
    <2>8. Ordered(mm, ctx, h)
      BY <1>5, <2>5, OrderedSame
    <2>9. \A w \in Numbers : w \in W \/ Refers(w, ctx, h, create) => Used(w, m, ctx, h, create)
      BY <2>4
    <2>10. due' \in [Requests -> Int] /\ Become(mm, ctx, h, create)
           /\ (h.client = None => h.client = None \/ Silent(mm.events)) /\ h.client \in {h.client, None}
      BY <1>4, <2>1 DEF BecomeM
    <2> QED BY <1>2, <1>4, <2>6, <2>7, <2>8, <2>9, <2>10, StepKeeps
  <1> QED BY <1>6, <1>7

LEMMA WorkflowRequestKeeps ==
    ASSUME IInv, HandleWorkflowRequest
    PROVE  IInv'
  <1> DEFINE s  == Event.arg
             w  == h.slots[s]
             c  == [ctx EXCEPT !.conn = w, !.named = dev.workers[w]]
             cc(q) == IF q = "pace" THEN [c EXCEPT !.slot = s, !.pace = "unset"]
                      ELSE [c EXCEPT !.change = s, !.changed = "unset"]
             m1(q) == [Rest EXCEPT !.resetOnDisconnect = @ \/ q = "pace"]
  <1>1. PICK q \in {"pace", "modify"} :
        /\ Gets(q)
        /\ \/ BecomeM(Rest, ctx) /\ Answer(q)
           \/ BecomeM(Rest, ctx) /\ UNCHANGED due
           \/ s \in DOMAIN h.slots /\ BecomeM(Fire(m1(q), cc(q), "Process", q), cc(q)) /\ UNCHANGED due
    BY DEF HandleWorkflowRequest
  <1>2. Handles("message") /\ Event.arg \in Nat /\ UNCHANGED <<dev, left>>
    BY <1>1, MessageFacts DEF HandleWorkflowRequest, Frame
  <1>3. /\ m.events # <<>> /\ ~Unnoticed(ctx) /\ \A st : Event # Run(st)
        /\ Rest \in Machines /\ Rest.cur = m.cur /\ Calm(m, Rest, {})
    BY <1>2, HandlesFacts
  <1>4. /\ ctx \in Contexts /\ Like(ctx) /\ h \in Handlers /\ m \in Machines /\ IsFiniteSet(DOMAIN h.slots)
        /\ create \in SUBSET Creates /\ IsFiniteSet(create) /\ due \in [Requests -> Int]
        /\ Alive(m, ctx, h, create, dev) /\ dev \in Devices
    BY Basics, LikeItself
  <1>5. Ordered(Rest, ctx, h)
    BY <1>3, <1>4, RestIsOrdered
  <1>6. CASE BecomeM(Rest, ctx) /\ Answer(q)
    <2>1. due' \in [Requests -> Int] /\ \A x \in CardRequests : due'[x] = due[x]
      BY <1>4, <1>6, AnswerTypes DEF Requests
    <2> QED BY <1>2, <1>3, <1>4, <1>5, <1>6, <2>1, StepInPlace
  <1>7. CASE BecomeM(Rest, ctx) /\ UNCHANGED due
    BY <1>2, <1>3, <1>4, <1>5, <1>7, StepUnanswered
  <1>8. CASE s \in DOMAIN h.slots /\ BecomeM(Fire(m1(q), cc(q), "Process", q), cc(q)) /\ UNCHANGED due
    <2>1. w \in Numbers
      <3>1. PICK D \in SUBSET Numbers : h.slots \in [D -> Numbers]
        BY <1>4 DEF Handlers, Maps
      <3> QED BY <1>8, <3>1
    <2>2. Used(w, m, ctx, h, create)
      BY <1>8 DEF Used
    <2>3. dev.workers[w] \in Readers
      <3>1. w \in DOMAIN dev.workers
        BY <1>4, <2>1, <2>2 DEF Alive
      <3>2. PICK D \in SUBSET Numbers : dev.workers \in [D -> Readers]
        BY <1>4 DEF Devices, Maps
      <3> QED BY <3>1, <3>2
    <2>4. c \in Contexts /\ Like(c) /\ c.conn = w
      BY <1>4, <2>1, <2>3 DEF Contexts, Like, Numbers
    <2> DEFINE b == Rest.resetOnDisconnect \/ q = "pace"
    <2>5. b \in BOOLEAN
      OBVIOUS
    <2>6. m1(q) = [Rest EXCEPT !.resetOnDisconnect = b]
      OBVIOUS
    <2> HIDE DEF c, b
    <2>7. cc(q) \in Contexts /\ Like(cc(q)) /\ cc(q).conn = w
      BY <1>2, <2>4 DEF Contexts, Like, Outputs
    <2>8. m1(q) \in Machines /\ m1(q).events = Rest.events /\ m1(q).cmds = Rest.cmds /\ m1(q).cur = m.cur
      BY <1>3, <2>5, <2>6 DEF Machines
    <2> DEFINE d  == cc(q)
               mn == m1(q)
               mm == Fire(mn, d, "Process", q)
    <2>9. Become(mm, d, h, create) /\ UNCHANGED due
      BY <1>8 DEF BecomeM
    <2> HIDE DEF cc, m1
    <2>10. d \in Contexts /\ Like(d) /\ d.conn = w /\ ~Unnoticed(d)
      BY <1>3, <2>7 DEF Like, Unnoticed
    <2>11. mn \in Machines /\ mn.events = Rest.events /\ mn.cmds = Rest.cmds /\ mn.cur = m.cur
      BY <2>8
    <2> HIDE DEF d, mn
    <2>12. Ordered(mn, d, h)
      <3>1. Ordered(Rest, d, h)
        BY <1>3, <2>10, RestIsOrdered
      <3> QED BY <1>3, <2>11, <3>1, OrderedSame
    <2>13. /\ "Process" \in States
           /\ \/ Target(mn.cur, "Process", q) = "ignored"
              \/ MayGo(mn.cur, d, Target(mn.cur, "Process", q))
      BY <2>10, PlainGoes DEF Plain
    <2>14. Calm(mn, mm, {}) /\ Ordered(mm, d, h)
      BY <1>4, <2>10, <2>11, <2>12, <2>13, CalmFire, OrderedFire
    <2> HIDE DEF mm
    <2>15. Calm(Rest, mn, {})
      BY <1>3, <2>11, CalmSame
    <2>16. Calm(m, mm, {})
      BY <1>3, <1>4, <2>14, <2>15, CalmAgain
    <2>17. \A v \in Numbers : Refers(v, d, h, create) => Used(v, m, ctx, h, create)
      BY <2>2, <2>10 DEF Refers, Used
    <2> QED BY <1>2, <1>4, <2>9, <2>10, <2>14, <2>16, <2>17, StepConnects
  <1> QED BY <1>1, <1>6, <1>7, <1>8


(* The creation of card connections.                                       *)
LEMMA CreateKeeps ==
    ASSUME IInv, ExecuteCreate
    PROVE  IInv'
  <1>1. PICK c \in create :
            Become(Send(Rest, Make(c.reader)), ctx, h, (create \ {c}) \cup {[c EXCEPT !.listening = TRUE]})
    BY DEF ExecuteCreate
  <1>2. Handles("execute") /\ UNCHANGED <<dev, left, due>>
    BY DEF ExecuteCreate, Frame
  <1>3. /\ m.events # <<>> /\ ~Unnoticed(ctx) /\ \A st : Event # Run(st)
        /\ Rest \in Machines /\ Calm(m, Rest, {})
    BY <1>2, HandlesFacts
  <1>4. /\ ctx \in Contexts /\ Like(ctx) /\ h \in Handlers /\ m \in Machines /\ IsFiniteSet(DOMAIN h.slots)
        /\ create \in SUBSET Creates /\ IsFiniteSet(create) /\ h.client \in Nat
    BY Basics, LikeItself
  <1>5. Ordered(Rest, ctx, h)
    BY <1>3, <1>4, RestIsOrdered
  <1> DEFINE x  == [c EXCEPT !.listening = TRUE]
             cs == (create \ {c}) \cup {x}
             k  == Make(c.reader)
             mm == Send(Rest, k)
  <1>6. x \in Creates /\ x.worker = c.worker /\ c.reader \in Readers
    BY <1>4 DEF Creates
  <1>7. Become(mm, ctx, h, cs)
    BY <1>1
  <1> HIDE DEF x
  <1>8. cs \in SUBSET Creates /\ IsFiniteSet(cs)
    BY <1>4, <1>6, FS_AddElement, FS_RemoveElement
  <1>9. Unasked(k) /\ k.worker \in {} \cup {None}
    <2>1. k = [op |-> "make", worker |-> None, to |-> "none", client |-> h.client, arg |-> c.reader, wired |-> TRUE]
      BY DEF Make, Command
    <2> HIDE DEF k
    <2>2. k \in Commands
      BY <1>4, <1>6, <2>1 DEF Commands
    <2>3. \A y \in CardRequests, who \in Nat : k \notin CommandsFor(y, who)
      BY <2>1, IfdServiceAssumption DEF CommandsFor, CommandOf, CardRequests
    <2> QED BY <2>1, <2>2, <2>3 DEF Unasked
  <1> HIDE DEF k
  <1>10. Calm(Rest, mm, {}) /\ mm.events = Rest.events /\ mm.cur = Rest.cur
    BY <1>3, <1>9, CalmSend
  <1> HIDE DEF mm
  <1>11. Calm(m, mm, {})
    BY <1>3, <1>4, <1>10, CalmAgain
  <1>12. Ordered(mm, ctx, h)
    BY <1>5, <1>10, OrderedSame
  <1>13. \A w \in Numbers : Refers(w, ctx, h, cs) => Used(w, m, ctx, h, create)
    BY <1>6 DEF Refers, Used
  <1> HIDE DEF cs
  <1> QED BY <1>2, <1>4, <1>7, <1>8, <1>11, <1>12, <1>13, StepConnects

LEMMA WithFacts ==
    ASSUME NEW V, NEW f, f \in Maps(V), IsFiniteSet(DOMAIN f), NEW x, x \in Numbers, NEW v, v \in V
    PROVE  /\ With(f, x, v) \in Maps(V) /\ IsFiniteSet(DOMAIN With(f, x, v))
           /\ DOMAIN With(f, x, v) = DOMAIN f \cup {x} /\ With(f, x, v)[x] = v
           /\ \A y \in DOMAIN f : y # x => With(f, x, v)[y] = f[y]
  <1> DEFINE D == DOMAIN f \cup {x}
             g == With(f, x, v)
  <1>1. PICK E \in SUBSET Numbers : f \in [E -> V]
    BY DEF Maps
  <1>2. g = [y \in D |-> IF y = x THEN v ELSE f[y]]
    BY DEF With
  <1>3. D \in SUBSET Numbers /\ DOMAIN f = E
    BY <1>1
  <1> HIDE DEF g
  <1>4. g \in [D -> V] /\ DOMAIN g = D /\ g[x] = v /\ \A y \in DOMAIN f : y # x => g[y] = f[y]
    BY <1>1, <1>2, <1>3
  <1>5. IsFiniteSet(D)
    BY FS_AddElement
  <1> QED BY <1>3, <1>4, <1>5 DEF Maps, g

LEMMA MadeKeeps ==
    ASSUME IInv, WorkerCreated
    PROVE  IInv'
  <1>1. PICK c \in create :
        /\ LET w  == IF Event.worker = None THEN c.worker ELSE Event.worker
               cs == (create \ {c}) \cup {[c EXCEPT !.worker = w]}
               m1 == IF Event.worker = None THEN Rest ELSE Block(Rest)
               m2 == IF \E i \in DOMAIN m1.events : m1.events[i] = [type |-> "drop", id |-> c.id]
                     THEN m1 ELSE Post(m1, [type |-> "drop", id |-> c.id])
               n  == h.handles + 1
           IN  IF w = None \/ c.to # h.client THEN Become(m2, ctx, h, cs)
               ELSE Become([m2 EXCEPT !.resetOnDisconnect = @ /\ m.listening # h.client], ctx,
                           [h EXCEPT !.handles = n, !.slots = With(@, n, w)], cs)
    BY DEF WorkerCreated
  <1> DEFINE w  == IF Event.worker = None THEN c.worker ELSE Event.worker
             x  == [c EXCEPT !.worker = w]
             cs == (create \ {c}) \cup {x}
             m1 == IF Event.worker = None THEN Rest ELSE Block(Rest)
             e  == [type |-> "drop", id |-> c.id]
             m2 == IF \E i \in DOMAIN m1.events : m1.events[i] = e THEN m1 ELSE Post(m1, e)
             b  == m2.resetOnDisconnect /\ m.listening # h.client
             m3 == [m2 EXCEPT !.resetOnDisconnect = b]
             n  == h.handles + 1
             hh == [h EXCEPT !.handles = n, !.slots = With(@, n, w)]
  <1>2. Become(m2, ctx, h, cs) \/ (w # None /\ Become(m3, ctx, hh, cs))
    BY <1>1
  <1>3. Handles("made") /\ UNCHANGED <<dev, left, due>>
    BY DEF WorkerCreated, Frame
  <1>4. /\ m.events # <<>> /\ ~Unnoticed(ctx) /\ \A st : Event # Run(st) /\ Event.type = "made"
        /\ Event \in Events /\ Rest \in Machines /\ Calm(m, Rest, {}) /\ Rest.cur = m.cur /\ m.cur # "none"
    BY <1>3, HandlesFacts
  <1>5. /\ ctx \in Contexts /\ Like(ctx) /\ h \in Handlers /\ m \in Machines /\ IsFiniteSet(DOMAIN h.slots)
        /\ create \in SUBSET Creates /\ IsFiniteSet(create)
    BY Basics, LikeItself
  <1>6. Ordered(Rest, ctx, h)
    BY <1>4, <1>5, RestIsOrdered
  <1>7. Event.worker \in Nat
    BY <1>4 DEF Events, RunEvents, MessageEvents, CreateEvents, MadeEvents, DoneEvents, ReaderEvents
  <1>8. w \in Nat /\ (w # None => Used(w, m, ctx, h, create))
    <2>1. c \in Creates
      BY <1>5
    <2>2. Event = m.events[1] /\ 1 \in DOMAIN m.events
      BY <1>4, HandleFacts
    <2> QED BY <1>4, <1>7, <2>1, <2>2 DEF Creates, Used, Mentioned
  <1> HIDE DEF w
  <1>9. x \in Creates /\ x.worker = w /\ c.id \in Numbers
    BY <1>5, <1>8 DEF Creates
  <1> HIDE DEF x
  <1>10. cs \in SUBSET Creates /\ IsFiniteSet(cs)
    BY <1>5, <1>9, FS_AddElement, FS_RemoveElement
  <1>11. \A v \in Numbers : Refers(v, ctx, h, cs) => Used(v, m, ctx, h, create)
    BY <1>8, <1>9 DEF Refers, Used, Numbers
  <1>12. \A v \in Numbers : (\E y \in cs : y.worker = v) => Used(v, m, ctx, h, create)
    BY <1>11 DEF Refers
  <1> HIDE DEF cs
  <1>13. Calm(Rest, m1, {}) /\ m1.events = Rest.events /\ m1.cur = Rest.cur
    BY <1>4, <1>5, CalmBlock, CalmSame
  <1> HIDE DEF m1
  <1>14. e \in Events /\ e.type = "drop"
    BY <1>9 DEF Events, CreateEvents
  <1>15. e.type \in Harmless /\ e.type # "cancel" /\ ~Late(e)
    BY <1>14 DEF Harmless, Late, Run
  <1> HIDE DEF e
  <1>16. m1 \in Machines /\ Ordered(m1, ctx, h)
    BY <1>6, <1>13, OrderedSame DEF Calm
  <1>17. Calm(m1, m2, {}) /\ m2.cur = m1.cur /\ Ordered(m2, ctx, h)
    <2>1. /\ Calm(m1, Post(m1, e), {}) /\ Post(m1, e).events = Append(m1.events, e)
          /\ Post(m1, e).cur = m1.cur
      BY <1>14, <1>15, <1>16, CalmPost
    <2>2. Ordered(Post(m1, e), ctx, h)
      BY <1>4, <1>13, <1>14, <1>15, <1>16, <2>1, OrderedAppend
    <2>3. Calm(m1, m1, {})
      BY <1>16, CalmSame
    <2> QED BY <1>16, <2>1, <2>2, <2>3
  <1> HIDE DEF m2
  <1>18. Calm(m, m2, {}) /\ m2 \in Machines
    <2>1. Calm(m, m1, {})
      BY <1>4, <1>5, <1>13, CalmAgain
    <2> QED BY <1>5, <1>17, <2>1, CalmAgain DEF Calm
  <1>19. CASE Become(m2, ctx, h, cs)
    BY <1>3, <1>5, <1>10, <1>11, <1>17, <1>18, <1>19, StepConnects
  <1>20. CASE w # None /\ Become(m3, ctx, hh, cs)
    <2>1. b \in BOOLEAN
      OBVIOUS
    <2> HIDE DEF b
    <2>2. m3 \in Machines /\ m3.events = m2.events /\ m3.cmds = m2.cmds /\ m3.cur = m2.cur
      BY <1>18, <2>1 DEF Machines
    <2> HIDE DEF m3
    <2>3. Calm(m, m3, {}) /\ Ordered(m3, ctx, h)
      BY <1>5, <1>17, <1>18, <2>2, CalmSame, CalmAgain, OrderedSame
    <2> DEFINE g == h.slots
               f == With(g, n, w)
    <2>4. g \in Maps(Numbers) /\ IsFiniteSet(DOMAIN g) /\ n \in Numbers /\ n \in Nat /\ w \in Numbers
      BY <1>5, <1>8, <1>20 DEF Handlers, Numbers, None
    <2> HIDE DEF n, g
    <2>5. /\ f \in Maps(Numbers) /\ IsFiniteSet(DOMAIN f) /\ DOMAIN f = DOMAIN g \cup {n}
          /\ f[n] = w /\ \A s \in DOMAIN g : s # n => f[s] = g[s]
      <3>1. f \in Maps(Numbers)
        BY <2>4, WithFacts
      <3>2. IsFiniteSet(DOMAIN f)
        BY <2>4, WithFacts
      <3>3. DOMAIN f = DOMAIN g \cup {n}
        BY DEF With
      <3>4. f[n] = w
        BY DEF With
      <3>5. \A s \in DOMAIN g : s # n => f[s] = g[s]
        BY DEF With
      <3> QED BY <3>1, <3>2, <3>3, <3>4, <3>5
    <2>6. hh = [h EXCEPT !.handles = n, !.slots = f]
      BY DEF n, g
    <2> HIDE DEF f, hh
    <2>7. hh \in Handlers /\ hh.client = h.client /\ hh.slots = f
      BY <1>5, <2>4, <2>5, <2>6 DEF Handlers
    <2>8. \A s \in DOMAIN hh.slots : hh.slots[s] = w \/ (s \in DOMAIN h.slots /\ hh.slots[s] = h.slots[s])
      BY <2>5, <2>7 DEF g
    <2>9. \A v \in Numbers : Refers(v, ctx, hh, cs) => Used(v, m, ctx, h, create)
      BY <1>8, <1>12, <1>20, <2>8 DEF Refers, Used
    <2> QED BY <1>3, <1>5, <1>10, <1>20, <2>3, <2>5, <2>7, <2>9, StepConnects
  <1> QED BY <1>2, <1>19, <1>20

LEMMA DeletedKeeps ==
    ASSUME IInv, CommandDeleted
    PROVE  IInv'
  <1>1. PICK c \in create : Become([Rest EXCEPT !.events = Without(@, c)], ctx, h, create \ {c})
    BY DEF CommandDeleted
  <1> DEFINE q  == Rest.events
             S  == {e \in Range(q) : ~(e.type \in {"made", "drop"} /\ e.id = c.id)}
             mm == [Rest EXCEPT !.events = Only(q, S)]
             cs == create \ {c}
  <1>2. Become(mm, ctx, h, cs)
    BY <1>1 DEF Without
  <1>3. Handles("drop") /\ UNCHANGED <<dev, left, due>>
    BY DEF CommandDeleted, Frame
  <1>4. /\ m.events # <<>> /\ ~Unnoticed(ctx) /\ \A st : Event # Run(st)
        /\ Rest \in Machines /\ Calm(m, Rest, {}) /\ Rest.cur = m.cur /\ m.cur # "none"
    BY <1>3, HandlesFacts
  <1>5. /\ ctx \in Contexts /\ Like(ctx) /\ h \in Handlers /\ m \in Machines /\ IsFiniteSet(DOMAIN h.slots)
        /\ create \in SUBSET Creates /\ IsFiniteSet(create)
    BY Basics, LikeItself
  <1>6. Ordered(Rest, ctx, h)
    BY <1>4, <1>5, RestIsOrdered
  <1>7. \A i \in DOMAIN q : q[i].type = "run" => q[i] \in S
    BY DEF Range
  <1>8. q \in Seq(Events) /\ Rest.cmds \in Seq(Commands)
    BY <1>4, Fields
  <1> HIDE DEF S
  <1>9. CalmEvents(q, Only(q, S)) /\ \E g : Picks(g, Only(q, S), q, S)
    BY <1>8, CalmEventsOnly
  <1>10. mm \in Machines /\ mm.events = Only(q, S) /\ mm.cmds = Rest.cmds /\ mm.cur = Rest.cur
    <2>1. Only(q, S) \in Seq(Events)
      BY <1>9 DEF CalmEvents
    <2> QED BY <1>4, <2>1 DEF Machines
  <1> HIDE DEF mm
  <1>11. Calm(m, mm, {})
    <2>1. Calm(Rest, mm, {})
      BY <1>8, <1>9, <1>10, CalmCommandsSame DEF Calm
    <2> QED BY <1>4, <1>5, <2>1, CalmAgain
  <1>12. Ordered(mm, ctx, h)
    <2>1. PICK g : Picks(g, mm.events, Rest.events, S)
      BY <1>9, <1>10
    <2> HIDE DEF q
    <2> QED BY <1>4, <1>6, <1>7, <1>10, <2>1, OrderedOnly DEF q
  <1>13. cs \in SUBSET Creates /\ IsFiniteSet(cs)
    BY <1>5, FS_RemoveElement
  <1>14. \A w \in Numbers : Refers(w, ctx, h, cs) => Used(w, m, ctx, h, create)
    BY DEF Refers, Used
  <1> HIDE DEF cs
  <1> QED BY <1>2, <1>3, <1>5, <1>11, <1>12, <1>13, <1>14, StepConnects

(* A reader changes: also before the workflow is started.                  *)
LEMMA ReaderKeeps ==
    ASSUME IInv, ReaderChanged
    PROVE  IInv'
  <1> DEFINE r  == Event.reader
             b  == Event.hasEid
             mm == [Rest EXCEPT !.hasEid[r] = b]
  <1>1. /\ Handles("reader") /\ UNCHANGED <<dev, left, due>>
        /\ \E hh \in {h} \cup {RemoveSlot(h, s) : s \in DOMAIN h.slots} :
               \/ Become(AfterReset(mm, ctx), DropConnection(ctx), hh, create)
               \/ Become(mm, ctx, hh, create)
    BY DEF ReaderChanged, Frame
  <1>2. PICK hh \in {h} \cup {RemoveSlot(h, s) : s \in DOMAIN h.slots} :
               \/ Become(AfterReset(mm, ctx), DropConnection(ctx), hh, create)
               \/ Become(mm, ctx, hh, create)
    BY <1>1
  <1>3. m.events # <<>> /\ Event.type = "reader"
    BY <1>1 DEF Handles
  <1>4. /\ Rest \in Machines /\ Calm(m, Rest, {}) /\ Event \in Events
        /\ Rest.events = Tail(m.events) /\ Rest.cur = m.cur
    BY <1>3, HandleFacts
  <1>5. b \in BOOLEAN /\ r \in Readers
    BY <1>3, <1>4 DEF Events, RunEvents, MessageEvents, CreateEvents, MadeEvents, DoneEvents, ReaderEvents
  <1> HIDE DEF b, r
  <1>6. /\ ctx \in Contexts /\ Like(ctx) /\ h \in Handlers /\ m \in Machines /\ IsFiniteSet(DOMAIN h.slots)
        /\ create \in SUBSET Creates /\ IsFiniteSet(create) /\ Ordered(m, ctx, h)
    BY Basics, LikeItself
  <1>7. mm \in Machines /\ mm.events = Rest.events /\ mm.cmds = Rest.cmds /\ mm.cur = Rest.cur
    BY <1>4, <1>5 DEF Machines
  <1> HIDE DEF mm
  <1>8. Calm(m, mm, {})
    BY <1>4, <1>6, <1>7, CalmSame, CalmAgain
  <1>9. /\ hh \in Handlers /\ hh.client = h.client /\ IsFiniteSet(DOMAIN hh.slots)
        /\ \A x \in DOMAIN hh.slots : x \in DOMAIN h.slots /\ hh.slots[x] = h.slots[x]
    BY <1>6, RemoveSlotFacts
  <1>10. Ordered(mm, ctx, h)
    <2>1. Head(m.events) # Run("ClearStop") /\ Head(m.events).type = "reader"
      BY <1>3 DEF Run, Event
    <2> QED BY <1>3, <1>4, <1>6, <1>7, <2>1, OrderedRest
  <1>11. CASE Become(mm, ctx, hh, create)
    <2>1. \A w \in Numbers : Refers(w, ctx, hh, create) => Used(w, m, ctx, h, create)
      BY <1>9 DEF Refers, Used
    <2> QED BY <1>1, <1>6, <1>8, <1>9, <1>10, <1>11, <2>1, StepConnects
  <1>12. CASE Become(AfterReset(mm, ctx), DropConnection(ctx), hh, create)
    <2> DEFINE nn == AfterReset(mm, ctx)
               d  == DropConnection(ctx)
    <2>1. d \in Contexts /\ Like(d) /\ d.conn = None
      BY LikeItself
    <2>2. Calm(mm, nn, {}) /\ nn.events = mm.events /\ nn.cur = mm.cur
      BY <1>6, <1>7, CalmAfterReset
    <2>3. Become(nn, d, hh, create)
      BY <1>12
    <2> HIDE DEF nn, d
    <2>4. Calm(m, nn, {})
      BY <1>6, <1>8, <2>2, CalmAgain
    <2>5. Ordered(mm, d, h)
      <3>1. /\ d.pin \in {None, OwnerOf(h)} /\ d.newPin \in {None, OwnerOf(h)}
            /\ d.killed => d.cancelled
        BY <1>10, <2>1 DEF Like, Ordered
      <3>2. /\ Remains(d) => Remains(ctx)
            /\ Unnoticed(d) => Unnoticed(ctx)
        BY <2>1 DEF Like, Remains, Unnoticed
      <3> QED BY <1>10, <2>1, <3>1, <3>2, OrderedContext DEF Like
    <2>6. Ordered(nn, d, h)
      BY <2>2, <2>5, OrderedSame
    <2>7. \A w \in Numbers : Refers(w, d, hh, create) => Used(w, m, ctx, h, create)
      BY <1>9, <2>1 DEF Refers, Used, Numbers
    <2> QED BY <1>1, <1>6, <1>9, <2>1, <2>3, <2>4, <2>6, <2>7, StepConnects
  <1> QED BY <1>2, <1>11, <1>12


LEMMA MildAgain ==
    ASSUME NEW mm \in Machines, NEW nn, NEW oo, NEW W, Mild(mm, nn, W), Calm(nn, oo, {})
    PROVE  Mild(mm, oo, W)
  <1>1. CalmEvents(mm.events, oo.events)
    BY Fields, CalmEventsAgain DEF Mild, Calm
  <1>2. MildCommands(mm.cmds, oo.cmds, W)
    <2>1. MildCommands(mm.cmds, nn.cmds, W) /\ MildCommands(nn.cmds, oo.cmds, {})
      BY DEF Mild, Calm, CalmCommands
    <2> DEFINE k == mm.cmds
               l == nn.cmds
               o == oo.cmds
    <2> HIDE DEF k, l, o
    <2>2. MildCommands(k, o, W)
      <3>1. MildCommands(k, l, W) /\ MildCommands(l, o, {})
        BY <2>1 DEF k, l, o
      <3>2. \A i \in DOMAIN o : o[i].op # "delete" => o[i].worker = None
                \/ \E j \in DOMAIN l : l[j].op # "delete" /\ l[j].worker = o[i].worker
        BY <3>1 DEF MildCommands
      <3>3. \A i \in DOMAIN l : l[i].op # "delete" => l[i].worker \in W \cup {None}
                \/ \E j \in DOMAIN k : k[j].op # "delete" /\ k[j].worker = l[i].worker
        BY <3>1 DEF MildCommands
      <3>4. \A i \in DOMAIN o : o[i].op # "delete" => o[i].worker \in W \cup {None}
                \/ \E j \in DOMAIN k : k[j].op # "delete" /\ k[j].worker = o[i].worker
        BY <3>2, <3>3
      <3> QED BY <3>1, <3>4 DEF MildCommands
    <2> QED BY <2>2 DEF k, o
  <1> QED BY <1>1, <1>2 DEF Mild, Calm

(* Clients come ...                                                        *)
LEMMA ClientKeeps ==
    ASSUME IInv, ClientConnected
    PROVE  IInv'
  <1> DEFINE no == Event.no
             l  == IF m.watching THEN no ELSE Rest.listening
             mm == [Rest EXCEPT !.listening = l]
             nn == AfterReset(mm, ctx)
             d  == Reset(ctx)
             hh == [client |-> no, slots |-> <<>>, handles |-> 0]
  <1>1. /\ Handles("client") /\ UNCHANGED <<dev, left>>
        /\ \/ BecomeM(Rest, ctx) /\ UNCHANGED due
           \/ h.client = None /\ Become(nn, d, hh, create) /\ due' = NoneDue
    BY DEF ClientConnected, Frame
  <1>2. /\ m.events # <<>> /\ ~Unnoticed(ctx) /\ (\A st : Event # Run(st)) /\ Event.type = "client"
        /\ Event \in Events /\ Rest \in Machines /\ Calm(m, Rest, {}) /\ Rest.events = Tail(m.events)
        /\ Event = m.events[1] /\ 1 \in DOMAIN m.events /\ Rest.cur # "none"
    BY <1>1, HandlesFacts, HandleFacts
  <1>3. /\ ctx \in Contexts /\ Like(ctx) /\ h \in Handlers /\ m \in Machines /\ IsFiniteSet(DOMAIN h.slots)
        /\ create \in SUBSET Creates /\ IsFiniteSet(create) /\ m.events \in Seq(Events)
        /\ EndIsLast(m, h) /\ ClientsAreNew(m, h, left)
    BY Basics, LikeItself
  <1>4. Ordered(Rest, ctx, h)
    BY <1>2, <1>3, RestIsOrdered
  <1>5. CASE BecomeM(Rest, ctx) /\ UNCHANGED due
    BY <1>1, <1>2, <1>3, <1>4, <1>5, StepUnanswered
  <1>6. CASE h.client = None /\ Become(nn, d, hh, create) /\ due' = NoneDue
    <2>1. no \in Numbers
      BY <1>2 DEF Events, RunEvents, MessageEvents, CreateEvents, MadeEvents, DoneEvents, ReaderEvents
    <2>2. no > left.clients /\ ~Known(no, m, h)
      BY <1>2, <1>3 DEF ClientsAreNew
    <2>3. l \in Nat
      BY <1>2, <2>1 DEF Machines, Numbers
    <2> HIDE DEF l
    <2>4. mm \in Machines /\ mm.events = Rest.events /\ mm.cmds = Rest.cmds /\ mm.cur = Rest.cur
      BY <1>2, <2>3 DEF Machines
    <2> HIDE DEF mm
    <2>5. Calm(mm, nn, {}) /\ nn.events = mm.events /\ nn.cur = mm.cur
      BY <1>3, <2>4, CalmAfterReset
    <2> HIDE DEF nn
    <2>6. Calm(m, nn, {}) /\ nn \in Machines
      <3>1. Calm(Rest, mm, {})
        BY <1>2, <2>4, CalmSame
      <3>2. Calm(m, mm, {})
        BY <1>2, <1>3, <3>1, CalmAgain
      <3> QED BY <1>3, <2>5, <3>2, CalmAgain DEF Calm
    <2>7. d \in Contexts /\ Like(d) /\ ~Remains(d) /\ d.conn = None
      BY ClearedFacts
    <2>8. /\ hh \in Handlers /\ hh.client = no /\ hh.slots = <<>> /\ IsFiniteSet(DOMAIN hh.slots)
          /\ DOMAIN hh.slots = {}
      BY <2>1, NobodyFacts DEF NoHandler, Handlers, Numbers
    <2> HIDE DEF d, hh, no
    <2>9. Ordered(nn, d, hh)
      <3>1. Ordered(Rest, d, h)
        BY <1>2, <2>7, RestIsOrdered
      <3>2. d.pin = None /\ d.newPin = None
        BY <2>7 DEF Remains
      <3>3. d.killed => d.cancelled
        BY <3>1 DEF Ordered
      <3>4. Ordered(Rest, d, hh)
        BY <1>2, <3>1, <3>2, <3>3, OrderedContext
      <3> QED BY <2>4, <2>5, <3>4, OrderedSame
    <2>10. due' \in [Requests -> Int] /\ \A x \in CardRequests : due'[x] = 0
      BY <1>6 DEF NoneDue, CardRequests, Requests
    <2>11. AnswersAreDue(nn, hh, due')
      <3> SUFFICES ASSUME NEW x \in CardRequests
                   PROVE  UnderWay(x, nn, no) = 0
        BY <2>8, <2>10 DEF AnswersAreDue
      <3>1. \A i \in DOMAIN m.events : m.events[i] \notin Messages(x)
        BY <1>3, <1>6 DEF EndIsLast, Silent, Said, Messages
      <3>2. \A i \in DOMAIN m.events : m.events[i] \notin ResultsFor(x, no)
        BY <2>2 DEF Known, ResultsFor
      <3>3. \A i \in DOMAIN m.cmds : m.cmds[i] \notin CommandsFor(x, no)
        BY <2>2 DEF Known, CommandsFor
      <3>4. /\ Many(m.events, Messages(x)) = 0 /\ Many(m.events, ResultsFor(x, no)) = 0
            /\ Many(m.cmds, CommandsFor(x, no)) = 0
        <4>1. m.events \in Seq(Events) /\ m.cmds \in Seq(Commands)
          BY Basics
        <4> QED BY <3>1, <3>2, <3>3, <4>1, NoneOfNone
      <3>5. UnderWay(x, m, no) = 0
        BY <3>4 DEF UnderWay
      <3>6. no \in Nat /\ UnderWay(x, nn, no) \in Nat
        BY <2>1, <2>6, UnderWayFacts DEF Numbers
      <3> QED BY <1>3, <2>6, <3>5, <3>6, UnderWayCalm
    <2>12. \A i \in DOMAIN nn.events : nn.events[i].type # "client"
      <3>1. OneCaller(m.events) /\ Head(m.events).type = "client"
        BY <1>2, <1>3 DEF ClientsAreNew, Event
      <3> QED BY <1>2, <1>3, <2>4, <2>5, <3>1, CalmEventsTaken
    <2> DEFINE W == {}
    <2>13. \A w \in Numbers : w \in W \/ Refers(w, d, hh, create) => Used(w, m, ctx, h, create)
      BY <2>7, <2>8 DEF Refers, Used, Numbers
    <2>14. Mild(m, nn, W)
      BY <2>6, CalmIsMild
    <2> HIDE DEF W
    <2>15. hh.client # None /\ hh.client > left.clients
      BY <2>1, <2>2, <2>8 DEF Numbers
    <2> QED BY <1>1, <1>3, <1>6, <2>7, <2>8, <2>9, <2>10, <2>11, <2>12, <2>13, <2>14, <2>15, StepKeeps
  <1> QED BY <1>1, <1>5, <1>6

(* ... and go.                                                             *)
LEMMA ClosedKeeps ==
    ASSUME IInv, Closed
    PROVE  IInv'
  <1> DEFINE S  == {Command("update", h.slots[s], "client", None) : s \in DOMAIN h.slots}
             r  == SetToSeq(S)
             k  == Rest.cmds \o r
             m1 == [Rest EXCEPT !.cmds = k, !.listening = None]
             m2 == IF m.cur \in Waiting /\ m.asker = h.client THEN Fire(m1, ctx, m.cur, "abort") ELSE m1
             nn == AfterReset(m2, ctx)
             d  == Reset(ctx)
             W  == {h.slots[s] : s \in DOMAIN h.slots}
  <1>1. /\ Handles("closed") /\ UNCHANGED <<dev, left>>
        /\ Become(nn, d, NoHandler, create) /\ due' = NoneDue
    BY DEF Closed, Frame
  <1>2. /\ m.events # <<>> /\ ~Unnoticed(ctx) /\ (\A st : Event # Run(st)) /\ Event.type = "closed"
        /\ Rest \in Machines /\ Calm(m, Rest, {}) /\ Rest.events = Tail(m.events) /\ Rest.cur = m.cur
        /\ Rest.cmds = m.cmds
    BY <1>1, HandlesFacts
  <1>3. /\ ctx \in Contexts /\ Like(ctx) /\ h \in Handlers /\ m \in Machines /\ IsFiniteSet(DOMAIN h.slots)
        /\ create \in SUBSET Creates /\ IsFiniteSet(create) /\ m.events \in Seq(Events)
        /\ EndIsLast(m, h) /\ h.client \in Nat /\ m.cmds \in Seq(Commands)
    BY Basics, LikeItself
  <1>4. d \in Contexts /\ Like(d) /\ ~Remains(d) /\ d.conn = None
    BY ClearedFacts
  <1>5. Ordered(Rest, d, h) /\ ~Unnoticed(d)
    BY <1>2, <1>4, RestIsOrdered
  <1>6. \A s \in DOMAIN h.slots : h.slots[s] \in Numbers
    <2>1. PICK D \in SUBSET Numbers : h.slots \in [D -> Numbers]
      BY <1>3 DEF Handlers, Maps
    <2> QED BY <2>1
  <1>7. ASSUME NEW w \in W
        PROVE  /\ Command("update", w, "client", None) \in Commands
               /\ Command("update", w, "client", None).op = "update"
               /\ Command("update", w, "client", None).client = h.client
               /\ Command("update", w, "client", None).worker = w
    BY <1>3, <1>6, <1>7 DEF Command, Commands, None
  <1>8. S \in SUBSET Commands /\ \A x \in S : x.op # "delete" /\ x.client = h.client /\ x.worker \in W
    BY <1>7
  <1>9. IsFiniteSet(S)
    <2> DEFINE f == [s \in DOMAIN h.slots |-> Command("update", h.slots[s], "client", None)]
    <2>1. f \in Surjection(DOMAIN h.slots, S)
      BY DEF Surjection
    <2> HIDE DEF f, S
    <2> QED BY <1>3, <2>1, FS_Surjection
  <1> HIDE DEF S
  <1>10. r \in Seq(Commands) /\ \A i \in DOMAIN r : r[i] \in S
    BY <1>8, <1>9, SetToSeqFacts
  <1> HIDE DEF r, d
  <1>11. MildCommands(m.cmds, k, W) /\ k \in Seq(Commands)
    <2>1. MildCommands(m.cmds, m.cmds \o r, W)
      <3> HIDE DEF W
      <3> QED BY <1>3, <1>8, <1>10, MildCommandsMore
    <2> QED BY <1>2, <2>1 DEF MildCommands
  <1> HIDE DEF k
  <1>12. m1 \in Machines /\ m1.events = Rest.events /\ m1.cmds = k /\ m1.cur = Rest.cur
    BY <1>2, <1>11 DEF Machines, None
  <1> HIDE DEF m1
  <1>13. Mild(m, m1, W)
    BY <1>2, <1>11, <1>12 DEF Mild, Calm
  <1>14. Silent(m1.events)
    BY <1>2, <1>3, <1>12, CalmEventsTaken DEF EndIsLast, Event
  <1>15. Ordered(m1, d, NoHandler)
    <2>1. Ordered(m1, d, h)
      BY <1>5, <1>12, OrderedSame
    <2>2. d.pin = None /\ d.newPin = None
      BY <1>4 DEF Remains
    <2>3. (d.killed => d.cancelled) /\ NoHandler.client = None
      BY <1>5, NobodyFacts DEF Ordered
    <2> QED BY <2>1, <2>2, <2>3, OrderedContext
  <1>16. Calm(m1, m2, {}) /\ Ordered(m2, d, NoHandler)
    <2>1. CASE ~(m.cur \in Waiting /\ m.asker = h.client)
      BY <1>12, <1>15, <2>1, CalmSame
    <2>2. CASE m.cur \in Waiting /\ m.asker = h.client
      <3>1. m.cur \in Middle /\ m.cur \in States
        BY <2>2, MiddleStates
      <3>2. Target(m1.cur, m.cur, "abort") = "ignored" \/ MayGo(m1.cur, d, Target(m1.cur, m.cur, "abort"))
        BY <1>5, <3>1, PlainGoes DEF Plain
      <3>3. m2 = Fire(m1, ctx, m.cur, "abort")
        BY <2>2
      <3> HIDE DEF m2
      <3>4. Calm(m1, Fire(m1, ctx, m.cur, "abort"), {})
        BY <1>3, <1>12, <3>1, CalmFire
      <3>5. Ordered(Fire(m1, ctx, m.cur, "abort"), d, NoHandler)
        BY <1>2, <1>3, <1>12, <1>15, <3>1, <3>2, OrderedFire
      <3> QED BY <3>3, <3>4, <3>5
    <2> QED BY <2>1, <2>2
  <1> HIDE DEF m2
  <1>17. m2 \in Machines
    BY <1>16 DEF Calm
  <1>18. Calm(m2, nn, {}) /\ nn.events = m2.events /\ nn.cur = m2.cur
    BY <1>3, <1>17, CalmAfterReset
  <1> HIDE DEF nn
  <1>19. Mild(m, nn, W) /\ Ordered(nn, d, NoHandler)
    <2>1. Mild(m, m2, W)
      BY <1>3, <1>13, <1>16, MildAgain
    <2> QED BY <1>3, <1>16, <1>18, <2>1, MildAgain, OrderedSame
  <1>20. Silent(nn.events)
    <2> SUFFICES ASSUME NEW i \in DOMAIN m2.events, Said(m2.events[i])
                 PROVE  FALSE
      BY <1>18 DEF Silent
    <2>1. \E j \in DOMAIN m1.events : m1.events[j] = m2.events[i]
      BY <1>16 DEF Calm, CalmEvents, Harmless, Said
    <2> QED BY <1>14, <2>1 DEF Silent
  <1>21. due' \in [Requests -> Int] /\ \A x \in CardRequests : due'[x] = 0
    BY <1>1 DEF NoneDue, CardRequests, Requests
  <1>22. NoHandler \in Handlers /\ NoHandler.client = None /\ IsFiniteSet(DOMAIN NoHandler.slots)
    BY NobodyFacts
  <1>23. AnswersAreDue(nn, NoHandler, due')
    BY <1>21, <1>22 DEF AnswersAreDue
  <1>24. ASSUME NEW w \in Numbers, w \in W \/ Refers(w, d, NoHandler, create)
         PROVE  Used(w, m, ctx, h, create)
    BY <1>4, <1>24, NobodyFacts DEF Used, Numbers
  <1> HIDE DEF W
  <1>25. \A w \in Numbers : w \in W \/ Refers(w, d, NoHandler, create) => Used(w, m, ctx, h, create)
    BY <1>24
  <1> QED BY <1>1, <1>3, <1>4, <1>19, <1>20, <1>21, <1>22, <1>23, <1>25, StepKeeps


(* A card is removed or put on a reader.                                   *)
LEMMA CardKeeps ==
    ASSUME IInv, RemoveCard \/ InsertCard
    PROVE  IInv'
  <1>1. PICK r \in Readers, b \in BOOLEAN, v \in [present : BOOLEAN, linked : BOOLEAN] :
            /\ dev' = [dev EXCEPT !.card = [dev.card EXCEPT ![r] = v]]
            /\ m' = Post(m, [type |-> "reader", reader |-> r, hasEid |-> b])
    <2>1. CASE InsertCard
      <3>1. PICK r \in Readers :
                /\ dev' = [dev EXCEPT !.card[r] = [present |-> TRUE, linked |-> FALSE]]
                /\ m' = Post(m, [type |-> "reader", reader |-> r, hasEid |-> TRUE])
        BY <2>1 DEF InsertCard
      <3> DEFINE v == [present |-> TRUE, linked |-> FALSE]
      <3>2. v \in [present : BOOLEAN, linked : BOOLEAN]
        OBVIOUS
      <3>3. dev' = [dev EXCEPT !.card = [dev.card EXCEPT ![r] = v]]
        BY <3>1
      <3> HIDE DEF v
      <3> QED BY <3>1, <3>2, <3>3
    <2>2. CASE RemoveCard
      <3>1. PICK r \in Readers :
                /\ dev' = [Unlink(dev, r) EXCEPT !.card[r].present = FALSE]
                /\ m' = Post(m, [type |-> "reader", reader |-> r, hasEid |-> FALSE])
        BY <2>2 DEF RemoveCard
      <3> DEFINE u == [dev.card[r] EXCEPT !.linked = FALSE]
                 v == [u EXCEPT !.present = FALSE]
                 f == [dev.card EXCEPT ![r] = u]
      <3>2. dev \in Devices /\ dev.card \in [Readers -> [present : BOOLEAN, linked : BOOLEAN]]
        BY Basics DEF Devices
      <3>3. v \in [present : BOOLEAN, linked : BOOLEAN]
        <4>1. \A V : \A d \in [present : V, linked : V], off \in V :
                  /\ [d EXCEPT !.linked = off] \in [present : V, linked : V]
                  /\ [d EXCEPT !.present = off] \in [present : V, linked : V]
          OBVIOUS
        <4>2. dev.card[r] \in [present : BOOLEAN, linked : BOOLEAN] /\ FALSE \in BOOLEAN
          BY <3>2
        <4>3. u \in [present : BOOLEAN, linked : BOOLEAN]
          BY <4>1, <4>2, Zenon
        <4> HIDE DEF u
        <4> QED BY <4>1, <4>2, <4>3, Zenon
      <3>4. Unlink(dev, r) = [dev EXCEPT !.card = f]
        BY DEF Unlink
      <3>5. [dev EXCEPT !.card = f].card = f /\ f[r] = u
        BY <3>2 DEF Devices
      <3> HIDE DEF u, v
      <3>6. [f EXCEPT ![r] = v] = [dev.card EXCEPT ![r] = v]
        BY <3>2
      <3> HIDE DEF f
      <3>7. dev' = [[dev EXCEPT !.card = f] EXCEPT !.card = [f EXCEPT ![r] = v]]
        BY <3>1, <3>4, <3>5 DEF v
      <3>8. dev' = [dev EXCEPT !.card = [dev.card EXCEPT ![r] = v]]
        BY <3>2, <3>6, <3>7 DEF Devices
      <3> QED BY <3>1, <3>3, <3>8
    <2> QED BY <2>1, <2>2
  <1>2. /\ dev \in Devices /\ m \in Machines /\ ctx \in Contexts /\ Ordered(m, ctx, h) /\ left \in Limits
    BY Basics
  <1>3. dev' \in Devices /\ dev'.workers = dev.workers
    <2> DEFINE f == [dev.card EXCEPT ![r] = v]
    <2>1. f \in [Readers -> [present : BOOLEAN, linked : BOOLEAN]]
      BY <1>2 DEF Devices
    <2>2. dev' = [dev EXCEPT !.card = f]
      BY <1>1
    <2> HIDE DEF f
    <2> QED BY <1>2, <2>1, <2>2 DEF Devices
  <1>4. left' \in Limits /\ left'.clients = left.clients
    <2>1. CASE InsertCard
      BY <1>2, <2>1 DEF InsertCard
    <2>2. CASE RemoveCard
      BY <1>2, <2>2 DEF RemoveCard, Limits
    <2> QED BY <2>1, <2>2
  <1>5. UNCHANGED <<ctx, h, create, due>>
    BY DEF InsertCard, RemoveCard
  <1> DEFINE e == [type |-> "reader", reader |-> r, hasEid |-> b]
  <1>6. e \in Events /\ e.type = "reader"
    BY DEF Events, ReaderEvents
  <1>7. m' = Post(m, e)
    BY <1>1
  <1> HIDE DEF e
  <1>8. e.type \in Harmless /\ e.type # "cancel" /\ ~Late(e)
    BY <1>6 DEF Harmless, Late, Run
  <1>9. Calm(m, m', {}) /\ m'.events = Append(m.events, e) /\ m'.cur = m.cur
    BY <1>2, <1>6, <1>7, <1>8, CalmPost
  <1>10. Ordered(m', ctx, h)
    BY <1>2, <1>6, <1>8, <1>9, OrderedAppend
  <1>11. m'.cmds = m.cmds
    BY <1>2, <1>7 DEF Post, Machines
  <1> QED BY <1>2, <1>3, <1>4, <1>5, <1>9, <1>10, <1>11, StepCalm

(* The user enters a password, in a state that waits for one.              *)
LEMMA EnterKeeps ==
    ASSUME IInv, EnterPassword
    PROVE  IInv'
  <1>1. PICK st \in Waiting :
            /\ Asked(st) /\ m' = [Post(m, Run(st)) EXCEPT !.approved = TRUE]
            /\ ctx' = [ctx EXCEPT !.newPin = Owner] \/ ctx' = [ctx EXCEPT !.pin = Owner]
    BY DEF EnterPassword
  <1>2. /\ m \in Machines /\ ctx \in Contexts /\ h \in Handlers /\ Ordered(m, ctx, h) /\ left \in Limits
        /\ dev \in Devices /\ m.cur = st /\ st \in States /\ m.events \in Seq(Events)
    BY <1>1, Basics, MiddleStates DEF Asked
  <1>3. /\ left' \in Limits /\ left'.clients = left.clients /\ UNCHANGED <<h, create, dev, due>>
    BY <1>2 DEF EnterPassword, Limits
  <1>4. /\ ctx' \in Contexts /\ ctx'.conn = ctx.conn /\ ctx'.cancelled = ctx.cancelled
        /\ ctx'.killed = ctx.killed /\ ctx'.inState = ctx.inState
        /\ ctx'.pin \in {ctx.pin, OwnerOf(h)} /\ ctx'.newPin \in {ctx.newPin, OwnerOf(h)}
    <2>1. Owner = OwnerOf(h) /\ Owner \in {Nobody} \cup Nat
      BY <1>2 DEF Owner, OwnerOf, Handlers
    <2> QED BY <1>1, <1>2, <2>1 DEF Contexts
  <1> DEFINE mm == Post(m, Run(st))
  <1>5. Run(st) \in Events /\ Run(st).type = "run"
    BY <1>2 DEF Run, Events, RunEvents
  <1>6. ~Late(Run(st))
    BY DEF Late, Run, Waiting
  <1>7. /\ Calm(m, mm, {}) /\ mm.events = Append(m.events, Run(st)) /\ mm.cur = m.cur
        /\ mm.cmds = m.cmds /\ mm \in Machines
    <2>1. Calm(m, mm, {}) /\ mm.events = Append(m.events, Run(st)) /\ mm.cur = m.cur
      BY <1>2, <1>5, CalmPost DEF Harmless
    <2> QED BY <1>2, <2>1 DEF Post, Machines, Calm
  <1>8. m' = [mm EXCEPT !.approved = TRUE]
    BY <1>1
  <1> HIDE DEF mm
  <1>9. m' \in Machines /\ m'.events = mm.events /\ m'.cmds = mm.cmds /\ m'.cur = mm.cur
    BY <1>7, <1>8 DEF Machines
  <1>10. Calm(m, m', {})
    <2>1. Calm(mm, m', {})
      BY <1>7, <1>9, CalmSame
    <2> QED BY <1>2, <1>7, <2>1, CalmAgain
  <1>11. Ordered(m', ctx, h)
    BY <1>2, <1>5, <1>6, <1>7, <1>9, OrderedAppend, MiddleStates DEF Waiting
  <1>12. Ordered(m', ctx', h)
    <2>1. m'.cur \notin {"none", "Start", "Process", "ClearStop", "Stop", "Final", "stopped", "crashed"}
      BY <1>2, <1>7, <1>9 DEF Waiting
    <2>2. ~Unnoticed(ctx) /\ ~Unnoticed(ctx')
      BY <1>4, <1>11, <2>1 DEF Ordered, EarlyCancel, Unnoticed
    <2>3. \A i \in DOMAIN m'.events : m'.events[i].type = "cancel" =>
              ctx'.cancelled /\ m'.events[i].st \in {"Start", "Process", "Stop"} /\ m'.events[i].st # "Stop"
      BY <1>4, <1>11, <2>1 DEF Ordered, EarlyCancel
    <2>4. NoLate(m'.events)
      BY <1>11, <2>1 DEF Ordered, NothingLate
    <2>5. Safe(m'.events)
      BY <2>4 DEF Safe, NoLate
    <2>6. EarlyCancel(m', ctx') /\ NothingLate(m') /\ ClearComesFirst(m', ctx')
      BY <2>1, <2>2, <2>3, <2>4, <2>5 DEF EarlyCancel, NothingLate, ClearComesFirst
    <2> QED BY <1>4, <1>11, <2>1, <2>6 DEF Ordered
  <1> QED BY <1>2, <1>3, <1>4, <1>7, <1>9, <1>10, <1>12, StepCalm

(* What a client posts.                                                    *)
LEMMA ClientPosts ==
    ASSUME IInv, m.cur # "none", NEW e \in Events, e.type \in {"message", "closed", "client"},
           m' = Post(m, e), UNCHANGED <<ctx, h, create, dev>>, left' \in Limits,
           left'.clients <= left.clients, due' \in [Requests -> Int],
           \A x \in CardRequests : due'[x] >= due[x] + (IF e \in Messages(x) THEN 1 ELSE 0),
           e.type # "client" => h.client # None /\ ~Pending("closed"),
           e.type = "client" => /\ ~Pending("client") /\ e.no > left'.clients
                                /\ ~Known(e.no, m, h)
    PROVE  IInv'
  <1>1. /\ m \in Machines /\ ctx \in Contexts /\ h \in Handlers /\ dev \in Devices /\ Ordered(m, ctx, h)
        /\ left \in Limits /\ due \in [Requests -> Int] /\ h.client \in Nat /\ m.events \in Seq(Events)
        /\ AnswersAreDue(m, h, due) /\ EndIsLast(m, h) /\ ClientsAreNew(m, h, left)
    BY Basics
  <1> DEFINE q == m.events
             s == Append(q, e)
  <1>2. /\ m' \in Machines /\ m'.events = s /\ m'.cur = m.cur /\ m'.cmds = m.cmds
    <2>1. m' = [m EXCEPT !.events = s] /\ s \in Seq(Events)
      BY <1>1 DEF Post
    <2> HIDE DEF s
    <2> QED BY <1>1, <2>1 DEF Machines
  <1>3. /\ s \in Seq(Events) /\ DOMAIN q = 1..Len(q) /\ Len(q) \in Nat /\ s[Len(q) + 1] = e
        /\ \A i \in DOMAIN q : i \in DOMAIN s /\ s[i] = q[i]
        /\ \A i \in DOMAIN s : i \in DOMAIN q \/ i = Len(q) + 1
    BY <1>1, AppendFacts
  <1>4. ~Late(e) /\ e.type # "cancel"
    BY DEF Late, Run
  <1>5. Ordered(m', ctx, h)
    BY <1>1, <1>2, <1>4, OrderedAppend
  <1>6. AnswersAreDue(m', h, due')
    <2> SUFFICES ASSUME NEW x \in CardRequests
                 PROVE  due'[x] >= 0 /\ (h.client # None => due'[x] >= UnderWay(x, m', h.client))
      BY DEF AnswersAreDue
    <2>1. /\ Many(s, Messages(x)) = Many(q, Messages(x)) + (IF e \in Messages(x) THEN 1 ELSE 0)
          /\ Many(s, ResultsFor(x, h.client)) =
                 Many(q, ResultsFor(x, h.client)) + (IF e \in ResultsFor(x, h.client) THEN 1 ELSE 0)
      BY <1>1, ManyInAppend
    <2>2. e \notin ResultsFor(x, h.client)
      BY DEF ResultsFor
    <2>3. /\ Many(q, Messages(x)) \in Nat /\ Many(q, ResultsFor(x, h.client)) \in Nat
          /\ Many(m.cmds, CommandsFor(x, h.client)) \in Nat
      BY <1>1, Fields, ManyIsNat
    <2> HIDE DEF s
    <2>4. UnderWay(x, m', h.client) = UnderWay(x, m, h.client) + (IF e \in Messages(x) THEN 1 ELSE 0)
      BY <1>2, <2>1, <2>2, <2>3 DEF UnderWay
    <2>5. due[x] \in Int /\ due'[x] \in Int /\ UnderWay(x, m, h.client) \in Nat
      BY <1>1, UnderWayFacts DEF CardRequests, Requests
    <2>6. due[x] >= 0 /\ (h.client # None => due[x] >= UnderWay(x, m, h.client))
      BY <1>1 DEF AnswersAreDue
    <2>7. due'[x] >= due[x] + (IF e \in Messages(x) THEN 1 ELSE 0)
      OBVIOUS
    <2> QED BY <2>4, <2>5, <2>6, <2>7
  <1> HIDE DEF s
  <1>7. EndIsLast(m', h)
    <2>1. h.client = None => Silent(s)
      BY <1>1, <1>3 DEF EndIsLast, Silent, Said
    <2>2. Closing(s)
      <3> SUFFICES ASSUME NEW i \in DOMAIN s, NEW j \in DOMAIN s, s[i].type = "closed", Said(s[j])
                   PROVE  j <= i
        BY DEF Closing
      <3>1. CASE i \in DOMAIN q
        <4>1. q[i].type = "closed" /\ e.type = "client"
          BY <1>3, <3>1 DEF Pending
        <4>2. j \in DOMAIN q
          BY <1>3, <4>1 DEF Said
        <4> QED BY <1>1, <1>3, <4>1, <4>2 DEF EndIsLast, Closing
      <3>2. CASE i \notin DOMAIN q
        BY <1>3, <3>2
      <3> QED BY <3>1, <3>2
    <2> QED BY <1>2, <2>1, <2>2 DEF EndIsLast
  <1>8. ClientsAreNew(m', h, left')
    <2>1. \A n : Known(n, m', h) => Known(n, m, h)
      BY <1>2, <1>3 DEF Known
    <2>2. left.clients \in Nat /\ left'.clients \in Nat
      BY <1>1 DEF Limits
    <2>3. \A n \in Numbers : Known(n, m', h) => n > left'.clients
      BY <1>1, <2>1, <2>2 DEF ClientsAreNew, Numbers
    <2>4. ASSUME NEW i \in DOMAIN s, s[i].type = "client"
          PROVE  s[i].no > left'.clients /\ ~Known(s[i].no, m', h)
      <3>1. CASE i \in DOMAIN q
        <4>1. q[i] \in Events /\ q[i].type = "client"
          BY <1>1, <1>3, <2>4, <3>1
        <4>2. q[i].no \in Numbers
          BY <4>1 DEF Events, RunEvents, MessageEvents, CreateEvents, MadeEvents, DoneEvents, ReaderEvents
        <4> QED BY <1>1, <1>3, <2>1, <2>2, <3>1, <4>1, <4>2 DEF ClientsAreNew, Numbers
      <3>2. CASE i \notin DOMAIN q
        BY <1>3, <2>1, <2>4, <3>2
      <3> QED BY <3>1, <3>2
    <2>5. OneCaller(s)
      BY <1>1, <1>3 DEF ClientsAreNew, OneCaller, Pending
    <2> QED BY <1>2, <2>3, <2>4, <2>5 DEF ClientsAreNew
  <1>9. \A i \in DOMAIN m'.events : m'.events[i].type \in {"made", "done"} =>
            \E j \in DOMAIN m.events : m.events[j] = m'.events[i]
    BY <1>2, <1>3
  <1> QED BY <1>1, <1>2, <1>5, <1>6, <1>7, <1>8, <1>9, StepPosts

LEMMA ConnectsKeeps ==
    ASSUME IInv, Connect
    PROVE  IInv'
  <1> DEFINE e == [type |-> "client", no |-> left.clients]
  <1>1. /\ left \in Limits /\ due \in [Requests -> Int] /\ ClientsAreNew(m, h, left)
    BY Basics
  <1>2. /\ m' = Post(m, e) /\ m.cur # "none" /\ UNCHANGED <<ctx, h, create, dev, due>>
        /\ left' = [left EXCEPT !.clients = @ - 1] /\ left.clients > 0 /\ ~Pending("client")
    BY DEF Connect
  <1>3. left' \in Limits /\ left'.clients = left.clients - 1 /\ left.clients \in Numbers /\ left.clients \in Nat
    BY <1>1, <1>2 DEF Limits, Numbers, None
  <1>4. e \in Events /\ e.type = "client" /\ e.no = left.clients
    BY <1>3 DEF Events
  <1>5. ~Known(left.clients, m, h)
    BY <1>1, <1>3 DEF ClientsAreNew
  <1>6. \A x \in CardRequests : due'[x] >= due[x] + (IF e \in Messages(x) THEN 1 ELSE 0)
    BY <1>1, <1>2, <1>4 DEF Messages, CardRequests, Requests
  <1> HIDE DEF e
  <1> QED BY <1>1, <1>2, <1>3, <1>4, <1>5, <1>6, ClientPosts

LEMMA RequestKeeps ==
    ASSUME IInv, Request
    PROVE  IInv'
  <1>1. /\ left \in Limits /\ due \in [Requests -> Int] /\ h \in Handlers /\ Ordered(m, ctx, h)
    BY Basics
  <1>2. /\ h.client # None /\ ~Pending("closed") /\ UNCHANGED <<ctx, h, create, dev>>
        /\ left' = [left EXCEPT !.messages = @ - 1] /\ left.messages > 0
        /\ \/ \E r \in Readers : m' = Post(m, Message("connect", r)) /\ UNCHANGED due
           \/ \E q \in Requests, s \in 1..h.handles :
                  m' = Post(m, Message(q, s)) /\ due' = [due EXCEPT ![q] = @ + 1]
    BY DEF Request
  <1>3. m.cur # "none"
    BY <1>1, <1>2 DEF Ordered
  <1>4. left' \in Limits /\ left'.clients <= left.clients
    BY <1>1, <1>2 DEF Limits
  <1>5. "connect" \notin Requests /\ CardRequests \subseteq Requests
    BY IfdServiceAssumption DEF Requests, CardRequests
  <1>6. CASE \E r \in Readers : m' = Post(m, Message("connect", r)) /\ UNCHANGED due
    <2>1. PICK r \in Readers : m' = Post(m, Message("connect", r)) /\ UNCHANGED due
      BY <1>6
    <2> DEFINE e == Message("connect", r)
    <2>2. e \in Events /\ e.type = "message" /\ e.what = "connect"
      BY DEF Message, Events, MessageEvents
    <2>3. m' = Post(m, e)
      BY <2>1
    <2> HIDE DEF e
    <2>4. \A x \in CardRequests : due'[x] >= due[x] + (IF e \in Messages(x) THEN 1 ELSE 0)
      BY <1>1, <1>5, <2>1, <2>2 DEF Messages
    <2> QED BY <1>1, <1>2, <1>3, <1>4, <2>1, <2>2, <2>3, <2>4, ClientPosts
  <1>7. CASE \E q \in Requests, s \in 1..h.handles :
                  m' = Post(m, Message(q, s)) /\ due' = [due EXCEPT ![q] = @ + 1]
    <2>1. PICK q \in Requests, s \in 1..h.handles :
                  m' = Post(m, Message(q, s)) /\ due' = [due EXCEPT ![q] = @ + 1]
      BY <1>7
    <2> DEFINE e == Message(q, s)
    <2>2. s \in Nat
      BY <1>1 DEF Handlers
    <2>3. e \in Events /\ e.type = "message" /\ e.what = q
      BY <2>2 DEF Message, Events, MessageEvents
    <2>4. m' = Post(m, e)
      BY <2>1
    <2> HIDE DEF e
    <2>5. due' \in [Requests -> Int] /\ due'[q] = due[q] + 1 /\ \A x \in Requests : x # q => due'[x] = due[x]
      BY <1>1, <2>1
    <2>6. \A x \in CardRequests : due'[x] >= due[x] + (IF e \in Messages(x) THEN 1 ELSE 0)
      <3> SUFFICES ASSUME NEW x \in CardRequests
                   PROVE  due'[x] >= due[x] + (IF e \in Messages(x) THEN 1 ELSE 0)
        OBVIOUS
      <3>1. x \in Requests /\ due[x] \in Int /\ due'[x] \in Int
        BY <1>1, <1>5, <2>5
      <3>2. CASE x = q
        BY <2>5, <3>1, <3>2
      <3>3. CASE x # q
        <4>1. e \notin Messages(x)
          BY <2>3, <3>3 DEF Messages
        <4> QED BY <2>5, <3>1, <3>3, <4>1
      <3> QED BY <3>2, <3>3
    <2> QED BY <1>1, <1>2, <1>3, <1>4, <2>3, <2>4, <2>5, <2>6, ClientPosts
  <1> QED BY <1>2, <1>6, <1>7

LEMMA DisconnectKeeps ==
    ASSUME IInv, Disconnect
    PROVE  IInv'
  <1> DEFINE e == [type |-> "closed"]
  <1>1. /\ left \in Limits /\ due \in [Requests -> Int] /\ h \in Handlers /\ Ordered(m, ctx, h)
    BY Basics
  <1>2. /\ h.client # None /\ ~Pending("closed") /\ UNCHANGED <<ctx, h, create, dev, due, left>>
        /\ m' = Post(m, e)
    BY DEF Disconnect
  <1>3. m.cur # "none" /\ left'.clients <= left.clients
    BY <1>1, <1>2 DEF Ordered, Limits
  <1>4. e \in Events /\ e.type = "closed"
    BY DEF Events
  <1> HIDE DEF e
  <1>5. \A x \in CardRequests : due'[x] >= due[x] + (IF e \in Messages(x) THEN 1 ELSE 0)
    BY <1>1, <1>2, <1>4 DEF Messages, CardRequests, Requests
  <1> QED BY <1>1, <1>2, <1>3, <1>4, <1>5, ClientPosts


-----------------------------------------------------------------------------
(* The worker thread takes the first command and may post made or done.    *)
TakesCommand(nn, r) ==
    /\ nn \in Machines /\ r \in Seq(Events) /\ nn.events = m.events \o r
    /\ nn.cmds = Tail(m.cmds) /\ nn.cur = m.cur
    /\ \A i \in DOMAIN r :
           r[i].type = "made" \/ (r[i].type = "done" /\ r[i].worker = Cmd.worker /\ r[i].client = Cmd.client)
    /\ \A x \in CardRequests, who \in Nat :
           Many(nn.events, ResultsFor(x, who)) + Many(nn.cmds, CommandsFor(x, who))
               <= Many(m.events, ResultsFor(x, who)) + Many(m.cmds, CommandsFor(x, who))

LEMMA CommandFacts ==
    ASSUME IInv, m.cmds # <<>>
    PROVE  /\ Tail(m.cmds) \in Seq(Commands) /\ Cmd \in Commands /\ Cmd = m.cmds[1] /\ 1 \in DOMAIN m.cmds
           /\ \A i \in DOMAIN Tail(m.cmds) : i + 1 \in DOMAIN m.cmds /\ Tail(m.cmds)[i] = m.cmds[i + 1]
                                             /\ i + 1 # 1
           /\ \A S : Many(m.cmds, S) = Many(Tail(m.cmds), S) + (IF Cmd \in S THEN 1 ELSE 0)
           /\ \A S : Many(m.cmds, S) \in Nat /\ Many(Tail(m.cmds), S) \in Nat
  <1>1. m.cmds \in Seq(Commands)
    BY Basics
  <1>2. /\ Tail(m.cmds) \in Seq(Commands) /\ Head(m.cmds) = m.cmds[1] /\ m.cmds[1] \in Commands
        /\ 1 \in DOMAIN m.cmds /\ Len(m.cmds) \in Nat /\ DOMAIN Tail(m.cmds) = 1..(Len(m.cmds) - 1)
        /\ \A i \in DOMAIN Tail(m.cmds) : i + 1 \in DOMAIN m.cmds /\ Tail(m.cmds)[i] = m.cmds[i + 1]
    BY <1>1, TailFacts
  <1>3. \A S : Many(m.cmds, S) = Many(Tail(m.cmds), S) + (IF Head(m.cmds) \in S THEN 1 ELSE 0)
    BY <1>1, ManyInTail
  <1>4. \A S : Many(m.cmds, S) \in Nat /\ Many(Tail(m.cmds), S) \in Nat
    BY <1>1, <1>2, ManyIsNat
  <1> QED BY <1>2, <1>3, <1>4 DEF Cmd

LEMMA TakenQueues ==
    ASSUME IInv, m.cmds # <<>>, m.cur # "none", NEW nn, NEW r, TakesCommand(nn, r)
    PROVE  /\ Ordered(nn, ctx, h) /\ AnswersAreDue(nn, h, due) /\ EndIsLast(nn, h)
           /\ ClientsAreNew(nn, h, left)
           /\ \A i \in DOMAIN nn.events : (i \in DOMAIN m.events /\ nn.events[i] = m.events[i])
                  \/ \E j \in DOMAIN r : nn.events[i] = r[j]
  <1> DEFINE q == m.events
             s == nn.events
  <1>1. /\ m \in Machines /\ h \in Handlers /\ Ordered(m, ctx, h) /\ q \in Seq(Events)
        /\ due \in [Requests -> Int] /\ h.client \in Nat
        /\ AnswersAreDue(m, h, due) /\ EndIsLast(m, h) /\ ClientsAreNew(m, h, left)
    BY Basics
  <1>2. /\ nn \in Machines /\ r \in Seq(Events) /\ s = q \o r /\ nn.cmds = Tail(m.cmds) /\ nn.cur = m.cur
        /\ \A i \in DOMAIN r : r[i].type = "made"
               \/ (r[i].type = "done" /\ r[i].worker = Cmd.worker /\ r[i].client = Cmd.client)
        /\ \A x \in CardRequests, who \in Nat :
               Many(s, ResultsFor(x, who)) + Many(nn.cmds, CommandsFor(x, who))
                   <= Many(q, ResultsFor(x, who)) + Many(m.cmds, CommandsFor(x, who))
    BY DEF TakesCommand
  <1>3. \A i \in DOMAIN r : r[i].type \in {"made", "done"}
    BY <1>2
  <1>4. Ordered(nn, ctx, h)
    <2>1. \A i \in DOMAIN r : r[i].type # "cancel" /\ ~Late(r[i])
      BY <1>3 DEF Late, Run
    <2> QED BY <1>1, <1>2, <2>1, OrderedMore
  <1>5. /\ \A i \in DOMAIN q : i \in DOMAIN s /\ s[i] = q[i]
        /\ \A i \in DOMAIN s : i \in DOMAIN q \/ (i - Len(q) \in DOMAIN r /\ s[i] = r[i - Len(q)])
    BY <1>1, <1>2, ConcatFacts
  <1>6. AnswersAreDue(nn, h, due)
    <2>1. ASSUME NEW x \in CardRequests, h.client # None
          PROVE  due[x] >= UnderWay(x, nn, h.client)
      <3> DEFINE M == Messages(x)
                 R == ResultsFor(x, h.client)
                 C == CommandsFor(x, h.client)
      <3>1. Many(s, M) = Many(q, M)
        <4>1. \A i \in DOMAIN r : r[i] \notin M
          BY <1>3 DEF Messages
        <4> HIDE DEF M
        <4> QED BY <1>1, <1>2, <4>1, ManyInConcat
      <3>2. /\ Many(q, M) \in Nat /\ Many(q, R) \in Nat /\ Many(m.cmds, C) \in Nat
            /\ Many(s, R) \in Nat /\ Many(nn.cmds, C) \in Nat
        BY <1>1, <1>2, Fields, ManyIsNat
      <3>3. Many(s, R) + Many(nn.cmds, C) <= Many(q, R) + Many(m.cmds, C)
        BY <1>1, <1>2
      <3>4. due[x] >= Many(q, M) + Many(m.cmds, C) + Many(q, R) /\ due[x] \in Int
        BY <1>1, <2>1 DEF AnswersAreDue, UnderWay, CardRequests, Requests
      <3>5. UnderWay(x, nn, h.client) = Many(s, M) + Many(nn.cmds, C) + Many(s, R)
        BY DEF UnderWay
      <3> HIDE DEF M, R, C
      <3> QED BY <3>1, <3>2, <3>3, <3>4, <3>5
    <2> QED BY <1>1, <2>1 DEF AnswersAreDue
  <1>7. \A i \in DOMAIN s : (i \in DOMAIN q /\ s[i] = q[i]) \/ \E j \in DOMAIN r : s[i] = r[j]
    BY <1>5
  <1>8. \A i \in DOMAIN s : s[i].type \in {"message", "closed", "client"} => i \in DOMAIN q /\ s[i] = q[i]
    BY <1>3, <1>7
  <1>9. EndIsLast(nn, h)
    BY <1>1, <1>8 DEF EndIsLast, Silent, Closing, Said
  <1>10. \A n \in Numbers : Known(n, nn, h) => Known(n, m, h)
    <2> SUFFICES ASSUME NEW n \in Numbers, Known(n, nn, h)
                 PROVE  Known(n, m, h)
      OBVIOUS
    <2>1. /\ Cmd = m.cmds[1] /\ 1 \in DOMAIN m.cmds
          /\ \A i \in DOMAIN nn.cmds : i + 1 \in DOMAIN m.cmds /\ nn.cmds[i] = m.cmds[i + 1]
      BY <1>2, CommandFacts
    <2>2. CASE \E i \in DOMAIN nn.cmds : nn.cmds[i].client = n
      BY <2>1, <2>2 DEF Known
    <2>3. CASE \E i \in DOMAIN s : s[i].type = "done" /\ s[i].client = n
      <3>1. (\E i \in DOMAIN q : q[i].type = "done" /\ q[i].client = n) \/ Cmd.client = n
        BY <1>2, <1>7, <2>3
      <3> QED BY <2>1, <3>1 DEF Known
    <2> QED BY <2>2, <2>3 DEF Known
  <1>11. \A i \in DOMAIN q : q[i].type = "client" => q[i].no \in Numbers
    BY <1>1 DEF Events, RunEvents, MessageEvents, CreateEvents, MadeEvents, DoneEvents, ReaderEvents
  <1>12. ClientsAreNew(nn, h, left)
    BY <1>1, <1>8, <1>10, <1>11 DEF ClientsAreNew, OneCaller
  <1> QED BY <1>4, <1>6, <1>7, <1>9, <1>12


(* The workers there are then: d.                                          *)
LEMMA TakenAlive ==
    ASSUME IInv, m.cmds # <<>>, Cmd.op # "delete", NEW nn, NEW r, TakesCommand(nn, r),
           NEW d, DOMAIN dev.workers \subseteq DOMAIN d.workers,
           \A i \in DOMAIN r : r[i].type = "made" /\ r[i].worker # None =>
               r[i].worker \in DOMAIN d.workers /\ r[i].worker \notin DOMAIN dev.workers
    PROVE  Alive(Reap(nn, ctx, h, create), ctx, h, create, d)
  <1> DEFINE oo == Reap(nn, ctx, h, create)
  <1>1. /\ m \in Machines /\ h \in Handlers /\ dev \in Devices /\ IsFiniteSet(DOMAIN dev.workers)
        /\ Alive(m, ctx, h, create, dev) /\ m.events \in Seq(Events)
    BY Basics
  <1>2. /\ nn \in Machines /\ r \in Seq(Events) /\ nn.events = m.events \o r /\ nn.cmds = Tail(m.cmds)
        /\ \A i \in DOMAIN r : r[i].type = "made"
               \/ (r[i].type = "done" /\ r[i].worker = Cmd.worker /\ r[i].client = Cmd.client)
    BY DEF TakesCommand
  <1>3. /\ Cmd = m.cmds[1] /\ 1 \in DOMAIN m.cmds
        /\ \A i \in DOMAIN nn.cmds : i + 1 \in DOMAIN m.cmds /\ nn.cmds[i] = m.cmds[i + 1]
                                     /\ i + 1 # 1 /\ i \in Int
    <2>1. nn.cmds \in Seq(Commands)
      BY <1>2, Fields
    <2>2. \A i \in DOMAIN nn.cmds : i \in Int
      BY <2>1
    <2> QED BY <1>2, <2>2, CommandFacts
  <1>4. /\ oo.events = nn.events
        /\ \A i \in DOMAIN nn.cmds : i \in DOMAIN oo.cmds /\ oo.cmds[i] = nn.cmds[i]
        /\ \A i \in DOMAIN oo.cmds : i \notin DOMAIN nn.cmds =>
               /\ oo.cmds[i].op = "delete" /\ oo.cmds[i].worker \in DOMAIN dev.workers
               /\ ~Held(oo.cmds[i].worker, nn, ctx, h, create)
        /\ \A i, j \in DOMAIN oo.cmds : i \notin DOMAIN nn.cmds /\ j \notin DOMAIN nn.cmds
               /\ oo.cmds[i].worker = oo.cmds[j].worker => i = j
    <2>1. /\ oo = Reap(nn, ctx, h, create) /\ nn \in Machines
          /\ h \in Handlers /\ dev \in Devices /\ IsFiniteSet(DOMAIN dev.workers)
      BY <1>1, <1>2
    <2> HIDE DEF oo
    <2>2. /\ oo.events = nn.events
          /\ \A i \in DOMAIN nn.cmds : i \in DOMAIN oo.cmds /\ oo.cmds[i] = nn.cmds[i]
      BY <2>1, ReapFacts
    <2>3. \A i \in DOMAIN oo.cmds : i \notin DOMAIN nn.cmds =>
               /\ oo.cmds[i].op = "delete" /\ oo.cmds[i].worker \in DOMAIN dev.workers
               /\ ~Held(oo.cmds[i].worker, nn, ctx, h, create)
      BY <2>1, ReapFacts
    <2>4. \A i, j \in DOMAIN oo.cmds : i \notin DOMAIN nn.cmds /\ j \notin DOMAIN nn.cmds
               /\ oo.cmds[i].worker = oo.cmds[j].worker => i = j
      BY <2>1, ReapFacts
    <2> QED BY <2>2, <2>3, <2>4
  <1> HIDE DEF oo
  <1>5. \A i \in DOMAIN nn.events : (i \in DOMAIN m.events /\ nn.events[i] = m.events[i])
            \/ \E j \in DOMAIN r : nn.events[i] = r[j]
    BY <1>1, <1>2, ConcatFacts
  <1>6. Alive(m, ctx, h, create, dev) /\ Cmd.op # "delete"
    BY <1>1
  <1>7. ASSUME NEW w \in Numbers, Used(w, oo, ctx, h, create)
        PROVE  /\ Held(w, nn, ctx, h, create)
               /\ Used(w, m, ctx, h, create) \/ (w \in DOMAIN d.workers /\ w \notin DOMAIN dev.workers)
    <2>1. CASE Refers(w, ctx, h, create)
      BY <2>1 DEF Refers, Held, Used
    <2>2. CASE \E i \in DOMAIN oo.cmds : oo.cmds[i].op # "delete" /\ oo.cmds[i].worker = w
      <3>1. PICK i \in DOMAIN nn.cmds : nn.cmds[i].op # "delete" /\ nn.cmds[i].worker = w
        BY <1>4, <2>2
      <3>2. Held(w, nn, ctx, h, create)
        BY <3>1 DEF Held
      <3>3. Mentioned(w, m)
        BY <1>3, <3>1 DEF Mentioned
      <3> QED BY <3>2, <3>3 DEF Used
    <2>3. CASE \E i \in DOMAIN oo.events : oo.events[i].type \in {"made", "done"} /\ oo.events[i].worker = w
      <3>1. PICK i \in DOMAIN nn.events : nn.events[i].type \in {"made", "done"} /\ nn.events[i].worker = w
        BY <1>4, <2>3
      <3>2. Held(w, nn, ctx, h, create)
        BY <3>1 DEF Held
      <3>3. CASE i \in DOMAIN m.events /\ nn.events[i] = m.events[i]
        BY <3>1, <3>2, <3>3 DEF Used, Mentioned
      <3>4. CASE \E j \in DOMAIN r : nn.events[i] = r[j]
        <4>1. PICK j \in DOMAIN r : nn.events[i] = r[j]
          BY <3>4
        <4>2. CASE r[j].type = "made"
          BY <3>1, <3>2, <4>1, <4>2 DEF Numbers
        <4>3. CASE r[j].type # "made"
          <5>1. Cmd.worker = w
            BY <1>2, <3>1, <4>1, <4>3
          <5>2. Mentioned(w, m)
            BY <1>3, <1>6, <5>1 DEF Mentioned
          <5> QED BY <3>2, <5>2 DEF Used
        <4> QED BY <4>2, <4>3
      <3> QED BY <1>5, <3>3, <3>4
    <2> QED BY <1>7, <2>1, <2>2, <2>3 DEF Used, Mentioned, Refers
  <1>8. \A w \in Numbers : Used(w, oo, ctx, h, create) => w \in DOMAIN d.workers
    BY <1>6, <1>7 DEF Alive
  <1>9. \A i \in DOMAIN m.cmds : m.cmds[i].op = "delete" => m.cmds[i].worker \in DOMAIN dev.workers
    BY <1>6 DEF Alive
  <1>10. ASSUME NEW w \in Numbers, Used(w, oo, ctx, h, create), NEW i \in DOMAIN oo.cmds,
                oo.cmds[i].op = "delete"
         PROVE  oo.cmds[i].worker # w
    <2>1. CASE i \in DOMAIN nn.cmds
      <3>1. i + 1 \in DOMAIN m.cmds /\ m.cmds[i + 1].op = "delete" /\ m.cmds[i + 1].worker = oo.cmds[i].worker
        BY <1>3, <1>4, <1>10, <2>1
      <3>2. CASE Used(w, m, ctx, h, create)
        BY <1>6, <3>1, <3>2 DEF Alive
      <3>3. CASE w \notin DOMAIN dev.workers
        BY <1>9, <3>1, <3>3
      <3> QED BY <1>7, <1>10, <3>2, <3>3
    <2>2. CASE i \notin DOMAIN nn.cmds
      BY <1>4, <1>7, <1>10, <2>2
    <2> QED BY <2>1, <2>2
  <1>11. ASSUME NEW i \in DOMAIN oo.cmds, oo.cmds[i].op = "delete"
         PROVE  oo.cmds[i].worker \in DOMAIN d.workers
    <2>1. CASE i \in DOMAIN nn.cmds
      BY <1>3, <1>4, <1>9, <1>11, <2>1
    <2> QED BY <1>4, <2>1
  <1>12. ASSUME NEW i \in DOMAIN oo.cmds, NEW j \in DOMAIN oo.cmds, oo.cmds[i].op = "delete",
               oo.cmds[j].op = "delete", oo.cmds[i].worker = oo.cmds[j].worker
         PROVE  i = j
    <2>1. CASE i \in DOMAIN nn.cmds /\ j \in DOMAIN nn.cmds
      <3>1. /\ i + 1 \in DOMAIN m.cmds /\ m.cmds[i + 1].op = "delete"
            /\ m.cmds[i + 1].worker = oo.cmds[i].worker
            /\ j + 1 \in DOMAIN m.cmds /\ m.cmds[j + 1].op = "delete"
            /\ m.cmds[j + 1].worker = oo.cmds[j].worker
        BY <1>3, <1>4, <1>12, <2>1
      <3>2. i + 1 = j + 1
        BY <1>6, <1>12, <3>1 DEF Alive
      <3> QED BY <1>3, <2>1, <3>2
    <2>2. ASSUME NEW k \in DOMAIN nn.cmds, NEW l \in DOMAIN oo.cmds, l \notin DOMAIN nn.cmds,
                 oo.cmds[l].worker = oo.cmds[k].worker
          PROVE  FALSE
      <3>1. nn.cmds[k].worker = oo.cmds[l].worker
        BY <1>4, <2>2
      <3> QED BY <1>4, <2>2, <3>1 DEF Held
    <2>3. CASE i \notin DOMAIN nn.cmds /\ j \notin DOMAIN nn.cmds
      BY <1>4, <1>12, <2>3
    <2> QED BY <1>12, <2>1, <2>2, <2>3
  <1>13. Alive(oo, ctx, h, create, d)
    BY <1>8, <1>10, <1>11, <1>12 DEF Alive
  <1> QED BY <1>13 DEF oo

(* A step of the worker thread, but for the deletion of a worker.          *)
LEMMA WorkedKeeps ==
    ASSUME IInv, m.cmds # <<>>, Cmd.op # "delete", m.cur # "none", NEW nn, NEW r, TakesCommand(nn, r),
           Worked(nn), UNCHANGED <<ctx, h, create, due, left>>,
           dev' \in Devices, IsFiniteSet(DOMAIN dev'.workers), DOMAIN dev.workers \subseteq DOMAIN dev'.workers,
           \A i \in DOMAIN r : r[i].type = "made" /\ r[i].worker # None =>
               r[i].worker \in DOMAIN dev'.workers /\ r[i].worker \notin DOMAIN dev.workers
    PROVE  IInv'
  <1>1. /\ m \in Machines /\ ctx \in Contexts /\ h \in Handlers /\ dev \in Devices /\ left \in Limits
        /\ create \in SUBSET Creates /\ IsFiniteSet(create)
        /\ IsFiniteSet(DOMAIN h.slots) /\ IsFiniteSet(DOMAIN dev.workers)
        /\ due \in [Requests -> Int] /\ h.client \in Nat
    BY Basics
  <1>2. /\ Ordered(nn, ctx, h) /\ AnswersAreDue(nn, h, due) /\ EndIsLast(nn, h)
        /\ ClientsAreNew(nn, h, left) /\ nn \in Machines /\ nn.events \in Seq(Events)
    BY TakenQueues, Fields DEF TakesCommand
  <1>3. m' = Reap(nn, ctx, h, create)
    BY DEF Worked
  <1>4. Alive(m', ctx, h, create, dev')
    BY <1>3, TakenAlive
  <1>5. /\ m' \in Machines /\ m'.events = nn.events /\ m'.cur = nn.cur
        /\ \A i \in DOMAIN m'.cmds : (i \in DOMAIN nn.cmds /\ m'.cmds[i] = nn.cmds[i])
               \/ m'.cmds[i].client = h.client
    <2>1. /\ m' \in Machines /\ m'.events = nn.events /\ m'.cur = nn.cur
          /\ \A i \in DOMAIN nn.cmds : i \in DOMAIN m'.cmds /\ m'.cmds[i] = nn.cmds[i]
          /\ \A i \in DOMAIN m'.cmds : i \notin DOMAIN nn.cmds => m'.cmds[i].client = h.client
      BY <1>1, <1>2, <1>3, ReapFacts
    <2> QED BY <2>1
  <1>6. \A S : (\A k \in S : k.op # "delete") => Many(m'.cmds, S) = Many(nn.cmds, S)
    BY SMTT(25), <1>1, <1>2, <1>3, ReapFacts
  <1>7. Ordered(m', ctx, h)
    BY <1>2, <1>5, OrderedSame
  <1>8. AnswersAreDue(m', h, due)
    <2>1. \A x \in CardRequests : UnderWay(x, m', h.client) = UnderWay(x, nn, h.client)
      <3> SUFFICES ASSUME NEW x \in CardRequests
                   PROVE  UnderWay(x, m', h.client) = UnderWay(x, nn, h.client)
        OBVIOUS
      <3>1. \A k \in CommandsFor(x, h.client) : k.op # "delete"
        BY IfdServiceAssumption DEF CommandsFor, CommandOf, CardRequests
      <3> QED BY <1>5, <1>6, <3>1 DEF UnderWay
    <2> QED BY <1>2, <2>1 DEF AnswersAreDue
  <1>9. EndIsLast(m', h)
    BY <1>2, <1>5 DEF EndIsLast
  <1>10. ClientsAreNew(m', h, left)
    <2>1. \A n \in Numbers : Known(n, m', h) => Known(n, nn, h)
      BY <1>5 DEF Known
    <2>2. \A i \in DOMAIN nn.events : nn.events[i].type = "client" => nn.events[i].no \in Numbers
      BY <1>2 DEF Events, RunEvents, MessageEvents, CreateEvents, MadeEvents, DoneEvents, ReaderEvents
    <2> QED BY <1>2, <1>5, <2>1, <2>2 DEF ClientsAreNew
  <1>11. IInvAt(m', ctx', h', create', dev', due', left')
    BY <1>1, <1>4, <1>5, <1>7, <1>8, <1>9, <1>10 DEF IInvAt
  <1> QED BY <1>11, Then


LEMMA SyncKeeps ==
    ASSUME IInv, m.cur # "none", ExecuteSync
    PROVE  IInv'
  <1> DEFINE nn == [Taken EXCEPT !.blocked = FALSE]
             r  == <<>>
  <1>1. /\ m.cmds # <<>> /\ Cmd.op = "sync" /\ Worked(nn)
        /\ UNCHANGED <<ctx, h, create, dev, due, left>>
    BY DEF ExecuteSync, Works
  <1>2. /\ m \in Machines /\ m.events \in Seq(Events) /\ dev \in Devices /\ IsFiniteSet(DOMAIN dev.workers)
        /\ Tail(m.cmds) \in Seq(Commands)
    BY <1>1, Basics, CommandFacts
  <1>3. /\ nn \in Machines /\ nn.events = m.events /\ nn.cmds = Tail(m.cmds) /\ nn.cur = m.cur
    <2> DEFINE off == FALSE
    <2>1. off \in BOOLEAN /\ nn = [Taken EXCEPT !.blocked = off]
      OBVIOUS
    <2> HIDE DEF off
    <2>2. /\ Taken \in Machines /\ Taken.events = m.events /\ Taken.cmds = Tail(m.cmds)
          /\ Taken.cur = m.cur
      BY <1>2 DEF Taken, Machines
    <2> HIDE DEF nn
    <2> QED BY <2>1, <2>2 DEF Machines
  <1> HIDE DEF nn
  <1>4. TakesCommand(nn, r)
    <2>1. r \in Seq(Events) /\ nn.events = m.events \o r /\ \A i \in DOMAIN r : FALSE
      BY <1>2, <1>3
    <2>2. ASSUME NEW x \in CardRequests, NEW who \in Nat
          PROVE  Many(nn.events, ResultsFor(x, who)) + Many(nn.cmds, CommandsFor(x, who))
                     <= Many(m.events, ResultsFor(x, who)) + Many(m.cmds, CommandsFor(x, who))
      <3> DEFINE C == CommandsFor(x, who)
                 R == ResultsFor(x, who)
      <3>1. Many(m.events, R) \in Nat
        BY <1>2, ManyIsNat
      <3>2. /\ Many(m.cmds, C) = Many(Tail(m.cmds), C) + (IF Cmd \in C THEN 1 ELSE 0)
            /\ Many(Tail(m.cmds), C) \in Nat
        BY <1>1, CommandFacts
      <3> HIDE DEF C, R
      <3>3. Many(nn.events, R) + Many(nn.cmds, C) <= Many(m.events, R) + Many(m.cmds, C)
        BY <1>3, <3>1, <3>2
      <3> QED BY <3>3 DEF C, R
    <2> HIDE DEF r
    <2> QED BY <1>3, <2>1, <2>2 DEF TakesCommand
  <1>5. \A i \in DOMAIN r : FALSE
    OBVIOUS
  <1> HIDE DEF r
  <1>6. /\ dev' \in Devices /\ IsFiniteSet(DOMAIN dev'.workers)
        /\ DOMAIN dev.workers \subseteq DOMAIN dev'.workers
        /\ \A i \in DOMAIN r : r[i].type = "made" /\ r[i].worker # None =>
               r[i].worker \in DOMAIN dev'.workers /\ r[i].worker \notin DOMAIN dev.workers
    BY <1>1, <1>2, <1>5
  <1>7. Cmd.op # "delete"
    BY <1>1
  <1> QED BY <1>1, <1>4, <1>6, <1>7, WorkedKeeps

(* The result of a command takes its place.                                *)
LEMMA CommandKeeps ==
    ASSUME IInv, m.cur # "none", ExecuteCommand
    PROVE  IInv'
  <1>1. PICK op \in CardOps \cup {"update", "pace", "set"}, result \in Results :
            /\ Works(op)
            /\ Worked(IF Cmd.wired
                      THEN Post(Taken, [type |-> "done", op |-> op, worker |-> Cmd.worker,
                                        to |-> Cmd.to, client |-> Cmd.client,
                                        arg |-> Cmd.arg, result |-> result])
                      ELSE Taken)
    BY DEF ExecuteCommand, Results
  <1> DEFINE e == [type |-> "done", op |-> op, worker |-> Cmd.worker, to |-> Cmd.to,
                   client |-> Cmd.client, arg |-> Cmd.arg, result |-> result]
             nn == IF Cmd.wired THEN Post(Taken, e) ELSE Taken
             r  == IF Cmd.wired THEN <<e>> ELSE <<>>
  <1>2. /\ m.cmds # <<>> /\ Cmd.op = op /\ Worked(nn) /\ op # "delete"
        /\ UNCHANGED <<ctx, h, create, dev, due, left>>
    BY <1>1, IfdServiceAssumption DEF ExecuteCommand, Works
  <1>3. /\ m \in Machines /\ m.events \in Seq(Events) /\ dev \in Devices /\ IsFiniteSet(DOMAIN dev.workers)
        /\ Tail(m.cmds) \in Seq(Commands) /\ Cmd \in Commands
    BY <1>2, Basics, CommandFacts
  <1>4. /\ e \in Events /\ e.type = "done" /\ e.worker = Cmd.worker /\ e.client = Cmd.client
        /\ e.op = Cmd.op /\ e.to = Cmd.to
    <2>1. /\ Cmd.worker \in Numbers /\ Cmd.to \in States \cup {"none", "client"}
          /\ Cmd.client \in Nat /\ Cmd.arg \in Nat
      BY <1>2, <1>3, IfdServiceAssumption DEF Commands
    <2>2. e \in DoneEvents
      BY <2>1 DEF DoneEvents
    <2> QED BY <1>2, <2>2 DEF Events
  <1> HIDE DEF e
  <1>5. /\ Taken \in Machines /\ Taken.events = m.events /\ Taken.cmds = Tail(m.cmds)
        /\ Taken.cur = m.cur
    BY <1>3 DEF Taken, Machines
  <1>6. /\ Append(m.events, e) \in Seq(Events) /\ Append(m.events, e) = m.events \o <<e>>
        /\ <<e>> \in Seq(Events) /\ \A i \in DOMAIN <<e>> : <<e>>[i] = e
    <2>1. Append(m.events, e) = m.events \o <<e>>
      BY <1>3, <1>4, AppendIsConcat
    <2>2. Append(m.events, e) \in Seq(Events) /\ <<e>> \in Seq(Events)
      BY <1>3, <1>4
    <2>3. \A i \in DOMAIN <<e>> : <<e>>[i] = e
      OBVIOUS
    <2> QED BY <2>1, <2>2, <2>3
  <1>7. /\ Post(Taken, e) \in Machines /\ Post(Taken, e).events = Append(m.events, e)
        /\ Post(Taken, e).cmds = Tail(m.cmds) /\ Post(Taken, e).cur = m.cur
    BY <1>5, <1>6 DEF Post, Machines
  <1>8. /\ nn \in Machines /\ nn.events = m.events \o r /\ nn.cmds = Tail(m.cmds) /\ nn.cur = m.cur
        /\ r \in Seq(Events) /\ \A i \in DOMAIN r : r[i] = e
        /\ nn.events = m.events \/ nn.events = Append(m.events, e)
    <2>1. CASE Cmd.wired
      BY <1>6, <1>7, <2>1
    <2>2. CASE ~Cmd.wired
      BY <1>3, <1>5, <2>2
    <2> QED BY <2>1, <2>2
  <1> HIDE DEF nn, r
  <1>9. TakesCommand(nn, r)
    <2>1. ASSUME NEW x \in CardRequests, NEW who \in Nat
          PROVE  Many(nn.events, ResultsFor(x, who)) + Many(nn.cmds, CommandsFor(x, who))
                     <= Many(m.events, ResultsFor(x, who)) + Many(m.cmds, CommandsFor(x, who))
      <3> DEFINE C == CommandsFor(x, who)
                 R == ResultsFor(x, who)
      <3>1. Many(m.events, R) \in Nat
        BY <1>3, ManyIsNat
      <3>2. /\ Many(m.cmds, C) = Many(Tail(m.cmds), C) + (IF Cmd \in C THEN 1 ELSE 0)
            /\ Many(Tail(m.cmds), C) \in Nat
        BY <1>2, CommandFacts
      <3>3. e \in R => Cmd \in C
        BY <1>3, <1>4 DEF ResultsFor, CommandsFor
      <3>4. Many(Append(m.events, e), R) = Many(m.events, R) + (IF e \in R THEN 1 ELSE 0)
        BY <1>3, <1>4, ManyInAppend
      <3> HIDE DEF C, R
      <3>5. Many(nn.events, R) + Many(nn.cmds, C) <= Many(m.events, R) + Many(m.cmds, C)
        <4>1. Many(nn.cmds, C) = Many(Tail(m.cmds), C)
          BY <1>8
        <4>2. Many(nn.events, R) = Many(m.events, R) \/ Many(nn.events, R) = Many(Append(m.events, e), R)
          BY <1>8
        <4>3. CASE Cmd \in C
          BY <3>1, <3>2, <3>4, <4>1, <4>2, <4>3
        <4>4. CASE Cmd \notin C
          BY <3>1, <3>2, <3>3, <3>4, <4>1, <4>2, <4>4
        <4> QED BY <4>3, <4>4
      <3> QED BY <3>5 DEF C, R
    <2>2. \A i \in DOMAIN r : r[i].type = "done" /\ r[i].worker = Cmd.worker /\ r[i].client = Cmd.client
      BY <1>4, <1>8
    <2> QED BY <1>8, <2>1, <2>2 DEF TakesCommand
  <1>10. \A i \in DOMAIN r : r[i].type # "made"
    BY <1>4, <1>8
  <1>11. /\ dev' \in Devices /\ IsFiniteSet(DOMAIN dev'.workers)
        /\ DOMAIN dev.workers \subseteq DOMAIN dev'.workers
        /\ \A i \in DOMAIN r : r[i].type = "made" /\ r[i].worker # None =>
               r[i].worker \in DOMAIN dev'.workers /\ r[i].worker \notin DOMAIN dev.workers
    BY <1>2, <1>3, <1>10
  <1>12. Cmd.op # "delete"
    BY <1>2
  <1> QED BY <1>2, <1>9, <1>11, <1>12, WorkedKeeps


(* A new worker is referred to by what announces it.                       *)
LEMMA UnlinkFacts ==
    ASSUME NEW d \in Devices, NEW r \in Readers, NEW b \in BOOLEAN
    PROVE  [d EXCEPT !.card[r].linked = b] \in Devices /\ [d EXCEPT !.card[r].linked = b].workers = d.workers
  <1> DEFINE x == [d.card[r] EXCEPT !.linked = b]
             f == [d.card EXCEPT ![r] = x]
  <1>1. /\ d.card[r] \in [present : BOOLEAN, linked : BOOLEAN]
        /\ d.card \in [Readers -> [present : BOOLEAN, linked : BOOLEAN]]
    BY DEF Devices
  <1>2. x \in [present : BOOLEAN, linked : BOOLEAN]
    BY <1>1
  <1>3. [d EXCEPT !.card[r].linked = b] = [d EXCEPT !.card = f]
    OBVIOUS
  <1> HIDE DEF x
  <1>4. f \in [Readers -> [present : BOOLEAN, linked : BOOLEAN]]
    BY <1>1, <1>2
  <1> HIDE DEF f
  <1> QED BY <1>3, <1>4 DEF Devices

LEMMA MakeKeeps ==
    ASSUME IInv, m.cur # "none", ExecuteMake
    PROVE  IInv'
  <1> DEFINE w     == Fresh(DOMAIN dev.workers)
             heard == {c \in create : c.listening}
  <1>1. PICK v \in {None, w} :
            /\ Worked([Taken EXCEPT !.events =
                          @ \o SetToSeq({[type |-> "made", id |-> c.id, worker |-> v] : c \in heard})])
            /\ \/ v = None /\ UNCHANGED dev
               \/ v = w /\ dev' = [dev EXCEPT !.card[Cmd.arg].linked = TRUE,
                                              !.workers = With(@, w, Cmd.arg)]
    BY DEF ExecuteMake
  <1> DEFINE S  == {[type |-> "made", id |-> c.id, worker |-> v] : c \in heard}
             r  == SetToSeq(S)
             nn == [Taken EXCEPT !.events = @ \o r]
  <1>2. /\ m.cmds # <<>> /\ Cmd.op = "make" /\ Worked(nn) /\ UNCHANGED <<ctx, h, create, due, left>>
    BY <1>1 DEF ExecuteMake, Works
  <1>3. /\ m \in Machines /\ m.events \in Seq(Events) /\ dev \in Devices /\ IsFiniteSet(DOMAIN dev.workers)
        /\ Tail(m.cmds) \in Seq(Commands) /\ Cmd \in Commands
        /\ create \in SUBSET Creates /\ IsFiniteSet(create)
    BY <1>2, Basics, CommandFacts
  <1>4. Cmd.arg \in Readers
    BY <1>2, <1>3, IfdServiceAssumption DEF Commands
  <1>5. w \in Numbers /\ w \notin DOMAIN dev.workers
    BY <1>3, FreshFacts
  <1> HIDE DEF w
  <1>6. S \in SUBSET Events /\ \A e \in S : e.type = "made" /\ e.worker = v
    <2>1. \A c \in heard : c.id \in Numbers
      BY <1>3 DEF Creates
    <2>2. v \in Nat
      BY <1>5 DEF None, Numbers
    <2>3. \A c \in heard : [type |-> "made", id |-> c.id, worker |-> v] \in MadeEvents
      BY <2>1, <2>2 DEF MadeEvents
    <2> QED BY <2>3 DEF Events
  <1>7. IsFiniteSet(S)
    <2>1. IsFiniteSet(heard)
      BY <1>3, FS_Subset
    <2> DEFINE f == [c \in heard |-> [type |-> "made", id |-> c.id, worker |-> v]]
    <2>2. f \in Surjection(heard, S)
      BY DEF Surjection
    <2> HIDE DEF f, S, heard
    <2> QED BY <2>1, <2>2, FS_Surjection
  <1> HIDE DEF S
  <1>8. r \in Seq(Events) /\ \A i \in DOMAIN r : r[i] \in S
    BY <1>6, <1>7, SetToSeqFacts
  <1>9. \A i \in DOMAIN r : r[i].type = "made" /\ r[i].worker = v
    BY <1>6, <1>8
  <1> HIDE DEF r
  <1>10. m.events \o r \in Seq(Events)
    BY <1>3, <1>8, ConcatFacts
  <1>11. /\ Taken \in Machines /\ Taken.events = m.events /\ Taken.cmds = Tail(m.cmds)
         /\ Taken.cur = m.cur
    BY <1>3 DEF Taken, Machines
  <1>12. /\ nn \in Machines /\ nn.events = m.events \o r /\ nn.cmds = Tail(m.cmds) /\ nn.cur = m.cur
    BY <1>10, <1>11 DEF Machines
  <1> HIDE DEF nn
  <1>13. TakesCommand(nn, r)
    <2>1. ASSUME NEW x \in CardRequests, NEW who \in Nat
          PROVE  Many(nn.events, ResultsFor(x, who)) + Many(nn.cmds, CommandsFor(x, who))
                     <= Many(m.events, ResultsFor(x, who)) + Many(m.cmds, CommandsFor(x, who))
      <3> DEFINE C == CommandsFor(x, who)
                 R == ResultsFor(x, who)
      <3>1. Many(m.events, R) \in Nat
        BY <1>3, ManyIsNat
      <3>2. /\ Many(m.cmds, C) = Many(Tail(m.cmds), C) + (IF Cmd \in C THEN 1 ELSE 0)
            /\ Many(Tail(m.cmds), C) \in Nat
        BY <1>2, CommandFacts
      <3>3. \A i \in DOMAIN r : r[i] \notin R
        BY <1>9 DEF ResultsFor
      <3> HIDE DEF C, R
      <3>4. Many(nn.events, R) = Many(m.events, R)
        BY <1>3, <1>8, <1>12, <3>3, ManyInConcat
      <3>5. Many(nn.events, R) + Many(nn.cmds, C) <= Many(m.events, R) + Many(m.cmds, C)
        BY <1>12, <3>1, <3>2, <3>4
      <3> QED BY <3>5 DEF C, R
    <2> QED BY <1>8, <1>9, <1>12, <2>1 DEF TakesCommand
  <1>14. /\ dev' \in Devices /\ IsFiniteSet(DOMAIN dev'.workers)
         /\ DOMAIN dev.workers \subseteq DOMAIN dev'.workers
         /\ v # None => v \in DOMAIN dev'.workers /\ v \notin DOMAIN dev.workers
    <2>1. CASE v = None /\ UNCHANGED dev
      BY <1>3, <2>1
    <2>2. CASE v = w /\ dev' = [dev EXCEPT !.card[Cmd.arg].linked = TRUE,
                                           !.workers = With(@, w, Cmd.arg)]
      <3> DEFINE a == Cmd.arg
                 on == TRUE
                 g == dev.workers
                 f == With(g, w, a)
                 d == [dev EXCEPT !.card[a].linked = on]
      <3>1. on \in BOOLEAN /\ dev' = [d EXCEPT !.workers = With(@, w, a)]
        BY <2>2
      <3> HIDE DEF on
      <3>2. d \in Devices /\ d.workers = g
        BY <1>3, <1>4, <3>1, UnlinkFacts
      <3> HIDE DEF d, a, g
      <3>3. g \in Maps(Readers) /\ IsFiniteSet(DOMAIN g) /\ a \in Readers
        BY <1>3, <1>4 DEF g, a, Devices
      <3>4. f \in Maps(Readers) /\ IsFiniteSet(DOMAIN f) /\ DOMAIN f = DOMAIN g \cup {w}
        <4>1. f \in Maps(Readers)
          BY <1>5, <3>3, WithFacts
        <4>2. IsFiniteSet(DOMAIN f)
          BY <1>5, <3>3, WithFacts
        <4>3. DOMAIN f = DOMAIN g \cup {w}
          BY DEF With
        <4> QED BY <4>1, <4>2, <4>3
      <3>5. dev' = [d EXCEPT !.workers = f]
        BY <3>1, <3>2
      <3> HIDE DEF f
      <3>6. dev' \in Devices /\ dev'.workers = f
        BY <3>2, <3>4, <3>5 DEF Devices
      <3> QED BY <1>5, <2>2, <3>4, <3>6 DEF g
    <2> QED BY <1>1, <2>1, <2>2
  <1>15. \A i \in DOMAIN r : r[i].type = "made" /\ r[i].worker # None =>
             r[i].worker \in DOMAIN dev'.workers /\ r[i].worker \notin DOMAIN dev.workers
    BY <1>9, <1>14
  <1>16. Cmd.op # "delete"
    BY <1>2
  <1> QED BY <1>2, <1>13, <1>14, <1>15, <1>16, WorkedKeeps


LEMMA WorkerDeletedKeeps ==
    ASSUME IInv, m.cur # "none", ExecuteDelete
    PROVE  IInv'
  <1> DEFINE w == Cmd.worker
             r == <<>>
             a == dev.workers[w]
             g == dev.workers
             f == [x \in DOMAIN g \ {w} |-> g[x]]
  <1>1. /\ m.cmds # <<>> /\ Cmd.op = "delete" /\ m' = Taken /\ UNCHANGED <<ctx, h, create, due, left>>
        /\ dev' = [Unlink(dev, a) EXCEPT !.workers = [x \in DOMAIN @ \ {w} |-> @[x]]]
    BY DEF ExecuteDelete, Works
  <1>2. /\ m \in Machines /\ m.events \in Seq(Events) /\ dev \in Devices /\ IsFiniteSet(DOMAIN dev.workers)
        /\ ctx \in Contexts /\ h \in Handlers /\ left \in Limits /\ due \in [Requests -> Int]
        /\ create \in SUBSET Creates /\ IsFiniteSet(create) /\ IsFiniteSet(DOMAIN h.slots)
    BY Basics
  <1>3. /\ Tail(m.cmds) \in Seq(Commands) /\ Cmd \in Commands /\ Cmd = m.cmds[1] /\ 1 \in DOMAIN m.cmds
        /\ \A i \in DOMAIN Tail(m.cmds) : i + 1 \in DOMAIN m.cmds /\ Tail(m.cmds)[i] = m.cmds[i + 1]
                                          /\ i + 1 # 1 /\ i \in Int
    <2>1. \A i \in DOMAIN Tail(m.cmds) : i \in Int
      <3>1. Tail(m.cmds) \in Seq(Commands)
        BY <1>1, CommandFacts
      <3> QED BY <3>1
    <2> QED BY <1>1, <2>1, CommandFacts
  <1>4. Alive(m, ctx, h, create, dev)
    BY Basics
  <1>5. w \in DOMAIN dev.workers
    BY <1>1, <1>3, <1>4 DEF Alive
  <1>6. /\ dev' \in Devices /\ dev'.workers = f /\ DOMAIN f = DOMAIN g \ {w} /\ IsFiniteSet(DOMAIN f)
    <2> DEFINE off == FALSE
               d == [dev EXCEPT !.card[a].linked = off]
    <2>1. off \in BOOLEAN /\ Unlink(dev, a) = d
      BY DEF Unlink
    <2> HIDE DEF off
    <2>2. g \in Maps(Readers)
      BY <1>2 DEF Devices
    <2>3. PICK D \in SUBSET Numbers : g \in [D -> Readers]
      BY <2>2 DEF Maps
    <2>4. a \in Readers
      BY <1>5, <2>3
    <2> HIDE DEF a
    <2>5. d \in Devices /\ d.workers = g
      BY <1>2, <2>1, <2>4, UnlinkFacts
    <2> HIDE DEF d
    <2>6. dev' = [d EXCEPT !.workers = f]
      BY <1>1, <2>1, <2>5
    <2>7. f \in [D \ {w} -> Readers] /\ DOMAIN f = DOMAIN g \ {w} /\ D \ {w} \in SUBSET Numbers
      BY <2>3
    <2>8. f \in Maps(Readers)
      BY <2>7 DEF Maps
    <2>9. IsFiniteSet(DOMAIN f)
      BY <1>2, <2>7, FS_Subset
    <2> HIDE DEF f, g
    <2> QED BY <2>5, <2>6, <2>7, <2>8, <2>9 DEF Devices
  <1> HIDE DEF f
  <1>7. /\ Taken \in Machines /\ Taken.events = m.events /\ Taken.cmds = Tail(m.cmds)
        /\ Taken.cur = m.cur
    BY <1>2, <1>3 DEF Taken, Machines
  <1>8. TakesCommand(Taken, r)
    <2>1. r \in Seq(Events) /\ Taken.events = m.events \o r /\ \A i \in DOMAIN r : FALSE
      BY <1>2, <1>7
    <2>2. ASSUME NEW x \in CardRequests, NEW who \in Nat
          PROVE  Many(Taken.events, ResultsFor(x, who)) + Many(Taken.cmds, CommandsFor(x, who))
                     <= Many(m.events, ResultsFor(x, who)) + Many(m.cmds, CommandsFor(x, who))
      <3> DEFINE C == CommandsFor(x, who)
                 R == ResultsFor(x, who)
      <3>1. Many(m.events, R) \in Nat
        BY <1>2, ManyIsNat
      <3>2. /\ Many(m.cmds, C) = Many(Tail(m.cmds), C) + (IF Cmd \in C THEN 1 ELSE 0)
            /\ Many(Tail(m.cmds), C) \in Nat
        BY <1>1, CommandFacts
      <3> HIDE DEF C, R
      <3>3. Many(Taken.events, R) + Many(Taken.cmds, C) <= Many(m.events, R) + Many(m.cmds, C)
        BY <1>7, <3>1, <3>2
      <3> QED BY <3>3 DEF C, R
    <2> HIDE DEF r
    <2> QED BY <1>7, <2>1, <2>2 DEF TakesCommand
  <1> HIDE DEF r
  <1>9. /\ Ordered(Taken, ctx, h) /\ AnswersAreDue(Taken, h, due) /\ EndIsLast(Taken, h)
        /\ ClientsAreNew(Taken, h, left)
    BY <1>1, <1>8, TakenQueues
  <1> DEFINE k == Tail(m.cmds)
  <1> HIDE DEF w, k
  <1>10. \A v \in Numbers : Used(v, Taken, ctx, h, create) => Used(v, m, ctx, h, create)
    <2>1. \A v : Mentioned(v, Taken) => Mentioned(v, m)
      BY <1>3, <1>7 DEF Mentioned
    <2> QED BY <2>1 DEF Used
  <1>11. ASSUME NEW v \in Numbers, Used(v, m, ctx, h, create)
         PROVE  v \in DOMAIN f /\ \A i \in DOMAIN m.cmds : m.cmds[i].op = "delete" => m.cmds[i].worker # v
    <2>1. v \in DOMAIN g /\ \A i \in DOMAIN m.cmds : m.cmds[i].op = "delete" => m.cmds[i].worker # v
      BY <1>4, <1>11 DEF Alive
    <2>2. w # v
      BY <1>1, <1>3, <2>1 DEF w
    <2> QED BY <1>6, <2>1, <2>2
  <1>12. /\ \A i \in DOMAIN m.cmds : m.cmds[i].op = "delete" => m.cmds[i].worker \in DOMAIN g
         /\ \A i, j \in DOMAIN m.cmds : m.cmds[i].op = "delete" /\ m.cmds[j].op = "delete"
                /\ m.cmds[i].worker = m.cmds[j].worker => i = j
    BY <1>4 DEF Alive
  <1>13. /\ m.cmds[1].op = "delete" /\ m.cmds[1].worker = w
         /\ \A i \in DOMAIN k : i + 1 \in DOMAIN m.cmds /\ k[i] = m.cmds[i + 1] /\ i + 1 # 1 /\ i \in Int
    BY <1>1, <1>3 DEF w, k
  <1>14. ASSUME NEW i \in DOMAIN k, k[i].op = "delete"
         PROVE  k[i].worker \in DOMAIN f
    <2>1. k[i].worker \in DOMAIN g
      BY <1>12, <1>13, <1>14
    <2>2. k[i].worker # w
      BY <1>3, <1>12, <1>13, <1>14
    <2> QED BY <1>6, <2>1, <2>2
  <1>15. ASSUME NEW i \in DOMAIN k, NEW j \in DOMAIN k, k[i].op = "delete", k[j].op = "delete",
                k[i].worker = k[j].worker
         PROVE  i = j
    <2>1. i + 1 = j + 1
      BY <1>12, <1>13, <1>15
    <2> QED BY <1>13, <2>1
  <1>16. Alive(Taken, ctx, h, create, dev')
    <2>1. Taken.cmds = k /\ \A i \in DOMAIN k : i + 1 \in DOMAIN m.cmds /\ k[i] = m.cmds[i + 1]
      BY <1>7, <1>13 DEF k
    <2>2. \A v \in Numbers : Used(v, Taken, ctx, h, create) =>
              /\ v \in DOMAIN f
              /\ \A i \in DOMAIN k : k[i].op = "delete" => k[i].worker # v
      BY <1>10, <1>11, <2>1
    <2> QED BY <1>6, <1>14, <1>15, <2>1, <2>2 DEF Alive
  <1>17. IInvAt(m', ctx', h', create', dev', due', left')
    BY <1>1, <1>2, <1>6, <1>7, <1>9, <1>16 DEF IInvAt
  <1> QED BY <1>17, Then


-----------------------------------------------------------------------------
(* Before the workflow is started the worker thread has nothing to do; and *)
(* it is started once.                                                     *)
Idle == m.cur = "none" => m.cmds = <<>> /\ DOMAIN dev.workers = {}

Going(mm) == "cur" \in DOMAIN mm /\ mm.cur # "none"

LEMMA GoingFacts ==
    /\ \A mm, e : Going(mm) => Going(Post(mm, e)) /\ Going(Send(mm, e))
    /\ \A mm, c : Going(mm) => Going(Block(mm)) /\ Going(AfterReset(mm, c))
    /\ \A mm : Going(mm) => Going(Exit(mm))
    /\ \A mm, c, hh, cs : Going(mm) /\ Become(mm, c, hh, cs) => m'.cur # "none"
    /\ \A mm, c : Going(mm) /\ BecomeM(mm, c) => m'.cur # "none"
  <1>1. \A mm, x, v : Going(mm) /\ x # "cur" => Going([mm EXCEPT ![x] = v])
    BY DEF Going
  <1>2. \A mm, e : Going(mm) => Going(Post(mm, e)) /\ Going(Send(mm, e))
    BY <1>1 DEF Post, Send
  <1>3. \A mm, c : Going(mm) => Going(Block(mm)) /\ Going(AfterReset(mm, c))
    <2>1. \A mm : Going(mm) => Going(Block(mm))
      BY <1>1, <1>2 DEF Block
    <2> QED BY <2>1 DEF AfterReset
  <1>4. \A mm : Going(mm) => Going(Exit(mm))
    BY DEF Going, Exit
  <1>5. \A mm, c, hh, cs : Going(mm) /\ Become(mm, c, hh, cs) => m'.cur # "none"
    <2>1. \A mm, c, hh, cs : Going(mm) => Going(Reap(mm, c, hh, cs))
      BY <1>1 DEF Reap
    <2> QED BY <2>1 DEF Become, Going
  <1> QED BY <1>2, <1>3, <1>4, <1>5 DEF BecomeM

LEMMA GoingFire ==
    ASSUME NEW mm, Going(mm), NEW c, NEW st \in States, NEW sig
    PROVE  Going(Fire(mm, c, st, sig))
  <1> DEFINE to == Target(mm.cur, st, sig)
  <1>1. "none" \notin States
    BY DEF States, Edges
  <1>2. to \in States \cup {"ignored", "stopped"}
    BY TargetKinds
  <1> HIDE DEF to
  <1>3. Going(Exit(mm))
    BY GoingFacts
  <1>4. Going([Exit(mm) EXCEPT !.cur = "stopped"])
    BY <1>3 DEF Going
  <1>5. to \in States => Going(Enter(Exit(mm), c, to))
    BY <1>1, <1>3 DEF Going, Enter
  <1> QED BY <1>2, <1>4, <1>5 DEF Fire, to

LEMMA GoingOn ==
    ASSUME IInv, m.cur # "none"
    PROVE  /\ Going(m) /\ Going(Rest) /\ Going(Taken)
           /\ \A mm, st, sig, c : st \in States /\ Going(mm) => Going(Fire(mm, c, st, sig))
           /\ \A mm, st, sig, c, d : /\ st \in States /\ Going(mm)
                                    /\ BecomeM(Fire(mm, c, st, sig), d) => m'.cur # "none"
  <1>1. m \in Machines
    BY Basics
  <1>2. Going(m) /\ Going(Rest) /\ Going(Taken)
    BY <1>1 DEF Going, Rest, Taken, Machines
  <1> QED BY <1>2, GoingFire, GoingFacts

LEMMA StopServerGoes ==
    ASSUME NEW mm, Going(mm), NEW c, StopServer(mm, c)
    PROVE  m'.cur # "none"
  <1>1. CASE mm.cur # "Final"
    BY <1>1, GoingFacts DEF StopServer
  <1>2. CASE mm.cur = "Final"
    <2>1. PICK cc, q : Become([mm EXCEPT !.listening = None, !.events = q], cc, NoHandler, create)
      BY <1>2 DEF StopServer
    <2>2. Going([mm EXCEPT !.listening = None, !.events = q])
      BY DEF Going
    <2> QED BY <2>1, <2>2, GoingFacts
  <1> QED BY <1>1, <1>2

(* The runs of the states ...                                              *)
LEMMA RunsGo ==
    ASSUME IInv, m.cur # "none",
           \/ RunStart \/ RunStop \/ RunFinal \/ RunProcess \/ RunUpdateRetry \/ RunVerify \/ RunClear
           \/ RunPreparePace \/ RunPrepareChange \/ RunEnter \/ RunEstablish \/ RunChangePin
           \/ RunPaceResponse \/ RunChangeResponse \/ RunCancelled
    PROVE  m'.cur # "none"
  <1>1. Going(m) /\ Going(Rest)
    BY GoingOn
  <1>2. {"Start", "Stop", "Final", "UpdateRetry", "Verify", "ClearNew", "Clear", "ClearStop", "PreparePace",
         "PrepareChange", "EnterPassword", "EnterNewPin", "Establish", "ChangePin", "PaceResponse",
         "ChangeResponse"} \subseteq States
    BY DEF States, Edges
  <1>3. \A st \in States : \A sig, c : Going(Fire(Rest, c, st, sig))
    BY GoingOn
  <1>4. \A mm, c : Going(mm) /\ BecomeM(mm, c) => m'.cur # "none"
    BY GoingFacts
  <1>5. \A k : Going(Send(Rest, k))
    BY <1>1, GoingFacts
  <1>6. \A st \in States : \A sig, c, d : BecomeM(Fire(Rest, c, st, sig), d) => m'.cur # "none"
    BY <1>3, <1>4
  <1>7. \A k, c : BecomeM(Send(Rest, k), c) => m'.cur # "none"
    BY <1>4, <1>5
  <1>8. CASE RunStart
    BY <1>2, <1>6, <1>8 DEF RunStart
  <1>9. CASE RunStop
    BY <1>2, <1>3, <1>9, StopServerGoes DEF RunStop
  <1>10. CASE RunFinal
    BY <1>2, <1>6, <1>10 DEF RunFinal
  <1>11. CASE RunProcess
    <2> DEFINE mm == [Rest EXCEPT !.watching = TRUE, !.listening = h.client]
    <2>1. Going(mm)
      <3> DEFINE on == TRUE
      <3>1. on \in BOOLEAN
        OBVIOUS
      <3> HIDE DEF on
      <3>2. Going([Rest EXCEPT !.watching = on, !.listening = h.client])
        BY <1>1 DEF Going
      <3> QED BY <3>2 DEF on
    <2> HIDE DEF mm
    <2>2. Going(AfterReset(mm, ctx))
      BY <2>1, GoingFacts
    <2> QED BY <1>4, <1>11, <2>1, <2>2 DEF RunProcess, mm
  <1>12. CASE RunUpdateRetry
    BY <1>2, <1>6, <1>7, <1>12 DEF RunUpdateRetry
  <1>13. CASE RunVerify
    BY <1>2, <1>6, <1>13 DEF RunVerify
  <1>14. CASE RunClear
    BY <1>2, <1>6, <1>14 DEF RunClear
  <1>15. CASE RunPreparePace
    BY <1>2, <1>6, <1>15 DEF RunPreparePace
  <1>16. CASE RunPrepareChange
    BY <1>2, <1>6, <1>16 DEF RunPrepareChange
  <1>17. CASE RunEnter
    BY <1>2, <1>6, <1>17 DEF RunEnter, Waiting
  <1>18. CASE RunEstablish
    BY <1>2, <1>6, <1>7, <1>18 DEF RunEstablish
  <1>19. CASE RunChangePin
    BY <1>2, <1>6, <1>7, <1>19 DEF RunChangePin
  <1>20. CASE RunPaceResponse
    BY <1>2, <1>6, <1>20 DEF RunPaceResponse
  <1>21. CASE RunChangeResponse
    <2>1. CASE m' = [Rest EXCEPT !.cur = "crashed"]
      BY <1>1, <2>1 DEF Going
    <2> QED BY <1>2, <1>6, <1>21, <2>1 DEF RunChangeResponse
  <1>22. CASE RunCancelled
    <2>1. Event \in Events /\ Event.type = "cancel"
      BY <1>22, HandleFacts DEF RunCancelled, Handles
    <2>2. Event.st \in States
      BY <2>1 DEF Events, RunEvents, MessageEvents, CreateEvents, MadeEvents, DoneEvents, ReaderEvents
    <2> QED BY <1>3, <1>22, <2>2, StopServerGoes DEF RunCancelled, OnUserCancelled
  <1> QED BY <1>8, <1>9, <1>10, <1>11, <1>12, <1>13, <1>14, <1>15, <1>16, <1>17, <1>18, <1>19, <1>20,
             <1>21, <1>22


(* ... the messages and the results ...                                    *)
LEMMA HandlersGo ==
    ASSUME IInv, m.cur # "none",
           \/ HandleConnect \/ HandleCardRequest \/ HandleWorkflowRequest
           \/ ExecuteCreate \/ WorkerCreated \/ CommandDeleted
           \/ DisconnectDone \/ CardCommandDone \/ UpdateRetryDone \/ EstablishDone \/ ChangePinDone
           \/ ReaderChanged \/ ClientConnected \/ Closed
    PROVE  m'.cur # "none"
  <1>1. Going(m) /\ Going(Rest)
    BY GoingOn
  <1>2. {"Process", "UpdateRetry", "Establish", "ChangePin"} \cup Waiting \subseteq States
    BY DEF States, Edges, Waiting
  <1>3. \A st \in States : \A mm, sig, c : Going(mm) => Going(Fire(mm, c, st, sig))
    BY GoingOn
  <1>4. /\ \A mm, c : Going(mm) /\ BecomeM(mm, c) => m'.cur # "none"
        /\ \A mm, c, hh, cs : Going(mm) /\ Become(mm, c, hh, cs) => m'.cur # "none"
    BY GoingFacts
  <1>5. /\ \A k : Going(Send(Rest, k)) /\ Going(Post(Rest, k))
        /\ \A mm, c : Going(mm) => Going(AfterReset(mm, c)) /\ Going(Block(mm))
        /\ \A mm, e : Going(mm) => Going(Post(mm, e))
    BY <1>1, GoingFacts
  <1>6. CASE HandleConnect
    BY <1>1, <1>4, <1>5, <1>6 DEF HandleConnect
  <1>7. CASE HandleCardRequest
    BY <1>1, <1>4, <1>5, <1>7 DEF HandleCardRequest
  <1>8. CASE HandleWorkflowRequest
    <2> DEFINE mm(q) == [Rest EXCEPT !.resetOnDisconnect = @ \/ q = "pace"]
    <2>1. \A q : Going(mm(q))
      <3>1. \A b : Going([Rest EXCEPT !.resetOnDisconnect = b])
        BY <1>1 DEF Going
      <3>2. \A q : \E b : mm(q) = [Rest EXCEPT !.resetOnDisconnect = b]
        OBVIOUS
      <3> QED BY <3>1, <3>2
    <2>2. PICK q \in {"pace", "modify"} :
              BecomeM(Rest, ctx) \/ \E cc : BecomeM(Fire(mm(q), cc, "Process", q), cc)
      BY <1>8 DEF HandleWorkflowRequest
    <2> HIDE DEF mm
    <2> QED BY <1>1, <1>2, <1>3, <1>4, <2>1, <2>2
  <1>9. CASE ExecuteCreate
    BY <1>4, <1>5, <1>9 DEF ExecuteCreate
  <1>10. CASE WorkerCreated
    <2> DEFINE m1 == IF Event.worker = None THEN Rest ELSE Block(Rest)
               m2(c) == IF \E i \in DOMAIN m1.events : m1.events[i] = [type |-> "drop", id |-> c.id]
                        THEN m1 ELSE Post(m1, [type |-> "drop", id |-> c.id])
               b(c) == m2(c).resetOnDisconnect /\ m.listening # h.client
    <2>1. PICK c \in create : \E hh, cs :
              \/ Become(m2(c), ctx, hh, cs)
              \/ Become([m2(c) EXCEPT !.resetOnDisconnect = b(c)], ctx, hh, cs)
      BY ZenonT(40), <1>10 DEF WorkerCreated
    <2>2. Going(m1)
      BY <1>1, <1>5
    <2> HIDE DEF m1
    <2>3. Going(m2(c))
      BY <1>5, <2>2
    <2> HIDE DEF m2, b
    <2>4. Going([m2(c) EXCEPT !.resetOnDisconnect = b(c)])
      BY <2>3 DEF Going
    <2> QED BY <1>4, <2>1, <2>3, <2>4
  <1>11. CASE CommandDeleted
    <2>1. PICK q, cs : Become([Rest EXCEPT !.events = q], ctx, h, cs)
      BY <1>11 DEF CommandDeleted
    <2>2. Going([Rest EXCEPT !.events = q])
      BY <1>1 DEF Going
    <2> QED BY <1>4, <2>1, <2>2
  <1>12. CASE DisconnectDone
    BY <1>1, <1>4, <1>5, <1>12 DEF DisconnectDone
  <1>13. CASE CardCommandDone
    BY <1>1, <1>2, <1>3, <1>4, <1>13 DEF CardCommandDone
  <1>14. CASE UpdateRetryDone
    BY <1>1, <1>2, <1>3, <1>4, <1>5, <1>14 DEF UpdateRetryDone
  <1>15. CASE EstablishDone
    BY <1>1, <1>2, <1>3, <1>4, <1>15 DEF EstablishDone
  <1>16. CASE ChangePinDone
    BY <1>1, <1>2, <1>3, <1>4, <1>16 DEF ChangePinDone
  <1>17. CASE ReaderChanged
    <2> DEFINE mm == [Rest EXCEPT !.hasEid[Event.reader] = Event.hasEid]
    <2>1. PICK hh : Become(AfterReset(mm, ctx), DropConnection(ctx), hh, create) \/ Become(mm, ctx, hh, create)
      BY <1>17 DEF ReaderChanged
    <2>2. Going(mm)
      <3>1. \A f : Going([Rest EXCEPT !.hasEid = f])
        BY <1>1 DEF Going
      <3>2. \E f : mm = [Rest EXCEPT !.hasEid = f]
        OBVIOUS
      <3> QED BY <3>1, <3>2
    <2> HIDE DEF mm
    <2> QED BY <1>4, <1>5, <2>1, <2>2
  <1>18. CASE ClientConnected
    <2> DEFINE n  == IF m.watching THEN Event.no ELSE Rest.listening
               mm == [Rest EXCEPT !.listening = n]
    <2>1. BecomeM(Rest, ctx) \/ \E c, hh : Become(AfterReset(mm, ctx), c, hh, create)
      BY <1>18 DEF ClientConnected
    <2> HIDE DEF n
    <2>2. Going(mm)
      BY <1>1 DEF Going
    <2> HIDE DEF mm
    <2> QED BY <1>1, <1>4, <1>5, <2>1, <2>2
  <1>19. CASE Closed
    <2> DEFINE updates == {Command("update", h.slots[s], "client", None) : s \in DOMAIN h.slots}
               q  == Rest.cmds \o SetToSeq(updates)
               m1 == [Rest EXCEPT !.cmds = q, !.listening = None]
               m2 == IF m.cur \in Waiting /\ m.asker = h.client THEN Fire(m1, ctx, m.cur, "abort") ELSE m1
    <2>1. Become(AfterReset(m2, ctx), Reset(ctx), NoHandler, create)
      BY <1>19 DEF Closed
    <2> HIDE DEF q
    <2>2. Going(m1)
      BY <1>1 DEF Going
    <2> HIDE DEF m1
    <2>3. Going(m2)
      BY <1>2, <1>3, <2>2
    <2> HIDE DEF m2
    <2> QED BY <1>4, <1>5, <2>1, <2>3
  <1> QED BY <1>6, <1>7, <1>8, <1>9, <1>10, <1>11, <1>12, <1>13, <1>14, <1>15, <1>16, <1>17, <1>18, <1>19

(* ... the user, who has others around, and the worker thread.             *)
LEMMA OthersGo ==
    ASSUME IInv, m.cur # "none", User \/ Outside \/ WorkerLoop
    PROVE  m'.cur # "none"
  <1>1. Going(m) /\ Going(Taken) /\ m.cur \in States \cup {"stopped", "crashed"}
    <2>1. m \in Machines
      BY Basics
    <2> QED BY <2>1, GoingOn DEF Machines
  <1>2. /\ \A e : Going(Post(m, e)) /\ Going(Post(Taken, e))
        /\ \A mm, c, hh, cs : Going(mm) /\ Become(mm, c, hh, cs) => m'.cur # "none"
        /\ \A mm, c : Going(mm) /\ BecomeM(mm, c) => m'.cur # "none"
    BY <1>1, GoingFacts
  <1>3. \A st \in States : \A mm, sig, c : Going(mm) => Going(Fire(mm, c, st, sig))
    BY GoingOn
  <1>4. \A mm : Going(mm) => mm.cur # "none"
    BY DEF Going
  <1>5. \A e : Going([Post(m, e) EXCEPT !.approved = TRUE])
    <2> DEFINE on == TRUE
    <2>1. on \in BOOLEAN
      OBVIOUS
    <2> HIDE DEF on
    <2>2. \A e : Going([Post(m, e) EXCEPT !.approved = on])
      BY <1>2 DEF Going
    <2> QED BY <2>2 DEF on
  <1>6. CASE Outside
    BY <1>2, <1>4, <1>6 DEF Outside, Connect, Request, Disconnect, RemoveCard, InsertCard
  <1>7. CASE EnterPassword
    BY <1>4, <1>5, <1>7 DEF EnterPassword
  <1>8. CASE CancelPasswordRequest
    <2>1. Waiting \subseteq States
      BY DEF Waiting, States, Edges
    <2> QED BY <1>1, <1>2, <1>3, <1>8, <2>1 DEF CancelPasswordRequest
  <1>9. CASE SwitchOff \/ Kill
    <2>1. PICK mm, c : /\ mm = m \/ mm = [Post(m, Run(m.cur)) EXCEPT !.approved = TRUE]
                       /\ OnUserCancelled(mm, c, m.cur) /\ m.cur \in States
      BY <1>1, <1>9 DEF SwitchOff, Kill, CancelWorkflow, MainThread
    <2>2. Going(mm)
      BY <1>1, <1>5, <2>1
    <2> QED BY <1>3, <2>1, <2>2, StopServerGoes DEF OnUserCancelled
  <1>10. CASE WorkerLoop
    <2>1. \A mm : Going(mm) /\ Worked(mm) => m'.cur # "none"
      <3>1. \A mm : Worked(mm) => m' = Reap(mm, ctx, h, create)
        BY DEF Worked
      <3>2. \A mm : Going(mm) => Going(Reap(mm, ctx, h, create))
        BY DEF Going, Reap
      <3> QED BY <1>4, <3>1, <3>2
    <2>2. CASE ExecuteMake
      <3>1. PICK q : Worked([Taken EXCEPT !.events = q])
        BY <2>2 DEF ExecuteMake
      <3>2. Going([Taken EXCEPT !.events = q])
        BY <1>1 DEF Going
      <3> QED BY <2>1, <3>1, <3>2
    <2>3. CASE ExecuteCommand
      BY <1>1, <1>2, <2>1, <2>3 DEF ExecuteCommand
    <2>4. CASE ExecuteSync
      <3> DEFINE off == FALSE
      <3>1. off \in BOOLEAN /\ Worked([Taken EXCEPT !.blocked = off])
        BY <2>4 DEF ExecuteSync
      <3> HIDE DEF off
      <3>2. Going([Taken EXCEPT !.blocked = off])
        BY <1>1 DEF Going
      <3> QED BY <2>1, <3>1, <3>2
    <2>5. CASE ExecuteDelete
      BY <1>1, <1>4, <2>5 DEF ExecuteDelete
    <2> QED BY <1>10, <2>2, <2>3, <2>4, <2>5 DEF WorkerLoop
  <1> QED BY <1>6, <1>7, <1>8, <1>9, <1>10 DEF User


(* Before the start there are readers only.                                *)
LEMMA IdleKeeps ==
    ASSUME IInv, Idle, Next
    PROVE  Idle'
  <1>1. CASE m.cur # "none" /\ ~Terminated
    <2>1. m'.cur # "none"
      <3>1. CASE MainLoop
        BY <1>1, <3>1, RunsGo, HandlersGo DEF MainLoop
      <3>2. CASE User \/ Outside \/ WorkerLoop
        BY <1>1, <3>2, OthersGo
      <3> QED BY <1>1, <3>1, <3>2 DEF Next, StartMachine
    <2> QED BY <2>1 DEF Idle
  <1>2. CASE Terminated
    BY <1>2 DEF Terminated, vars, Idle
  <1>3. CASE m.cur = "none"
    <2>1. /\ m \in Machines /\ m.cmds = <<>> /\ DOMAIN dev.workers = {} /\ h.client = None
          /\ h \in Handlers /\ dev \in Devices /\ IsFiniteSet(DOMAIN dev.workers)
      BY <1>3, Basics DEF Idle, Ordered
    <2>2. "none" \notin States \cup {"stopped", "crashed"}
      BY DEF States, Edges
    <2>3. CASE StartMachine
      <3>1. m' = Enter(m, ctx, "Start")
        BY <2>3 DEF StartMachine
      <3>2. m'.cur = "Start"
        BY <2>1, <3>1 DEF Enter, Machines
      <3> QED BY <3>2 DEF Idle
    <2>4. CASE MainLoop
      <3>1. \A type : Handles(type) => type = "reader"
        <4> SUFFICES ASSUME NEW type, Handles(type)
                     PROVE  type = "reader"
          OBVIOUS
        <4>1. m.events # <<>> /\ Event.type = type
          BY DEF Handles
        <4> QED BY <1>3, <4>1, HandleFacts
      <3>2. ReaderChanged
        BY <2>4, <3>1 DEF MainLoop, RunStart, RunStop, RunFinal, RunProcess, RunUpdateRetry, RunVerify,
             RunClear, RunPreparePace, RunPrepareChange, RunEnter, RunEstablish, RunChangePin,
             RunPaceResponse, RunChangeResponse, RunCancelled, HandleConnect, HandleCardRequest,
             HandleWorkflowRequest, ExecuteCreate, WorkerCreated, CommandDeleted, DisconnectDone,
             CardCommandDone, UpdateRetryDone, EstablishDone, ChangePinDone, ClientConnected, Closed,
             Runs, Gets, Done
      <3> DEFINE f  == [Rest.hasEid EXCEPT ![Event.reader] = Event.hasEid]
                 mm == [Rest EXCEPT !.hasEid = f]
      <3>3. m.cur \notin Waiting
        BY <1>3 DEF Waiting
      <3>4. /\ Event \in Events /\ Event.type = "reader" /\ Rest \in Machines /\ Rest.cmds = <<>>
        <4>1. m.events # <<>> /\ Event.type = "reader"
          BY <3>2 DEF ReaderChanged, Handles
        <4>2. Event \in Events /\ Rest \in Machines
          BY <4>1, HandleFacts
        <4> QED BY <2>1, <4>1, <4>2 DEF Rest, Machines
      <3>5. PICK hh : Become(mm, ctx, hh, create) /\ UNCHANGED dev
        BY <3>2, <3>3 DEF ReaderChanged, Frame
      <3>6. mm \in Machines /\ mm.cmds = <<>>
        <4>1. Event.reader \in Readers /\ Event.hasEid \in BOOLEAN
          BY <3>4 DEF Events, RunEvents, MessageEvents, CreateEvents, MadeEvents, DoneEvents, ReaderEvents
        <4> DEFINE b == Event.hasEid
        <4> HIDE DEF b
        <4>2. f \in [Readers -> BOOLEAN]
          BY <3>4, <4>1 DEF Machines, b
        <4> HIDE DEF f
        <4> QED BY <3>4, <4>2 DEF Machines
      <3> HIDE DEF mm
      <3>7. m' = Reap(mm, ctx, hh, create)
        BY <3>5 DEF Become
      <3>8. m' \in Machines /\ \A i \in DOMAIN m'.cmds : i \notin DOMAIN mm.cmds =>
                m'.cmds[i].worker \in DOMAIN dev.workers
        BY <2>1, <3>6, <3>7, ReapFacts
      <3>9. m'.cmds \in Seq(Commands) /\ DOMAIN m'.cmds = {}
        BY <2>1, <3>6, <3>8, Fields
      <3>10. m'.cmds = <<>>
        <4> DEFINE k == m'.cmds
        <4>1. k \in Seq(Commands) /\ DOMAIN k = {}
          BY <3>9
        <4> HIDE DEF k
        <4>2. DOMAIN k = 1..Len(k) /\ Len(k) \in Nat
          BY <4>1
        <4>3. ~(Len(k) >= 1)
          <5>1. 1 \notin 1..Len(k)
            BY <4>1, <4>2
          <5> QED BY <4>2, <5>1
        <4>4. k = <<>>
          BY <4>1, <4>2, <4>3
        <4> QED BY <4>4 DEF k
      <3> QED BY <2>1, <3>5, <3>10 DEF Idle
    <2>5. CASE WorkerLoop
      BY <2>1, <2>5 DEF WorkerLoop, ExecuteMake, ExecuteCommand, ExecuteSync, ExecuteDelete, Works
    <2>6. CASE User
      <3>1. ~EnterPassword /\ ~CancelPasswordRequest
        BY <1>3 DEF EnterPassword, CancelPasswordRequest, Asked, Waiting
      <3>2. UNCHANGED <<m, dev>>
        BY <1>3, <2>6, <3>1 DEF User, SwitchOff, Kill, CancelWorkflow
      <3> QED BY <2>1, <3>2 DEF Idle
    <2>7. CASE Outside
      <3>1. RemoveCard \/ InsertCard
        BY <1>3, <2>1, <2>7 DEF Outside, Connect, Request, Disconnect
      <3>2. PICK e : m' = Post(m, e)
        BY <3>1 DEF RemoveCard, InsertCard
      <3>3. m'.cmds = m.cmds
        BY <2>1, <3>2 DEF Post, Machines
      <3>4. dev'.workers = dev.workers
        BY <2>1, <3>1 DEF RemoveCard, InsertCard, Unlink, Devices
      <3> QED BY <2>1, <3>3, <3>4 DEF Idle
    <2>8. ~Terminated
      BY <1>3 DEF Terminated
    <2> QED BY <2>3, <2>4, <2>5, <2>6, <2>7, <2>8, <1>3 DEF Next
  <1> QED BY <1>1, <1>2, <1>3

(* An invariant that is inductive with the fact that there is nothing to   *)
(* do for the worker thread before the start.                              *)
LEMMA InitKeeps == Init => IInv /\ Idle
  <1> SUFFICES ASSUME Init
               PROVE  IInv /\ Idle
    OBVIOUS
  <1>1. Idle
    BY DEF Init, Idle
  <1>2. left \in Limits
    BY IfdServiceAssumption DEF Init, Limits
  <1>3. IsFiniteSet({})
    BY FS_EmptySet
  <1>4. m \in Machines
    BY DEF Init, Machines, None
  <1>5. ctx \in Contexts
    BY DEF Init, Contexts, None, Outputs
  <1>6. <<>> \in Maps(Numbers) /\ <<>> \in Maps(Readers) /\ DOMAIN <<>> = {}
    <2>1. \A V : <<>> \in [{} -> V] /\ {} \in SUBSET Numbers
      OBVIOUS
    <2> QED BY <2>1 DEF Maps
  <1>7. h \in Handlers /\ h.client = None /\ h.slots = <<>>
    BY <1>6 DEF Init, Handlers, NoHandler, None
  <1>8. dev \in Devices /\ dev.workers = <<>>
    BY <1>6 DEF Init, Devices
  <1>9. due \in [Requests -> Int] /\ \A q \in Requests : due[q] = 0
    BY DEF Init, NoneDue
  <1>10. Typed
    BY <1>2, <1>3, <1>4, <1>5, <1>6, <1>7, <1>8, <1>9 DEF Init, Typed
  <1>11. /\ m.events = <<>> /\ m.cmds = <<>> /\ m.cur = "none" /\ ~Unnoticed(ctx) /\ ~ctx.killed
         /\ ctx.pin = None /\ ctx.newPin = None /\ ctx.conn = None /\ create = {}
    BY DEF Init, Unnoticed
  <1>12. Alive(m, ctx, h, create, dev)
    BY <1>6, <1>7, <1>11 DEF Alive, Used, Mentioned, Numbers
  <1>13. Ordered(m, ctx, h)
    BY <1>6, <1>7, <1>11 DEF Ordered, EarlyCancel, NothingLate, NoLate, ClearComesFirst, Remains
  <1>14. AnswersAreDue(m, h, due)
    BY <1>7, <1>9 DEF AnswersAreDue, CardRequests, Requests
  <1>15. EndIsLast(m, h)
    BY <1>6, <1>11 DEF EndIsLast, Silent, Closing
  <1>16. ClientsAreNew(m, h, left)
    BY <1>6, <1>7, <1>11 DEF ClientsAreNew, Known, OneCaller, Numbers
  <1> QED BY <1>1, <1>10, <1>12, <1>13, <1>14, <1>15, <1>16 DEF IInv

LEMMA WorkerKeeps ==
    ASSUME IInv, Idle, WorkerLoop
    PROVE  IInv'
  <1>1. m.cmds # <<>>
    BY DEF WorkerLoop, ExecuteMake, ExecuteCommand, ExecuteSync, ExecuteDelete, Works
  <1>2. m.cur # "none"
    BY <1>1 DEF Idle
  <1> QED BY <1>2, MakeKeeps, CommandKeeps, SyncKeeps, WorkerDeletedKeeps DEF WorkerLoop

LEMMA MainLoopKeeps ==
    ASSUME IInv, MainLoop
    PROVE  IInv'
  <1>1. CASE \/ RunStart \/ RunStop \/ RunFinal \/ RunProcess \/ RunUpdateRetry \/ RunVerify \/ RunClear
             \/ RunPreparePace \/ RunPrepareChange \/ RunEnter \/ RunEstablish \/ RunChangePin
             \/ RunPaceResponse \/ RunChangeResponse \/ RunCancelled
    BY <1>1, RunStartKeeps, StopKeeps, FinalKeeps, ProcessKeeps, UpdateRetryKeeps, VerifyKeeps, ClearKeeps,
       PrepareKeeps, EstablishKeeps, ResponsesKeep, ChangeResponseKeeps, RunCancelledKeeps
  <1>2. CASE \/ HandleConnect \/ HandleCardRequest \/ HandleWorkflowRequest
             \/ ExecuteCreate \/ WorkerCreated \/ CommandDeleted
             \/ DisconnectDone \/ CardCommandDone \/ UpdateRetryDone \/ EstablishDone \/ ChangePinDone
             \/ ReaderChanged \/ ClientConnected \/ Closed
    BY <1>2, ConnectKeeps, CardRequestKeeps, WorkflowRequestKeeps, CreateKeeps, MadeKeeps, DeletedKeeps,
       DisconnectDoneKeeps, CommandDoneKeeps, RetryDoneKeeps, PasswordDoneKeeps, ReaderKeeps, ClientKeeps,
       ClosedKeeps
  <1> QED BY <1>1, <1>2 DEF MainLoop

LEMMA NextKeeps ==
    ASSUME IInv, Idle, [Next]_vars
    PROVE  IInv' /\ Idle'
  <1>1. CASE UNCHANGED vars
    <2>1. IInvAt(m', ctx', h', create', dev', due', left')
      BY <1>1, Now DEF vars
    <2> QED BY <1>1, <2>1, Then DEF vars, Idle
  <1>2. CASE Next
    <2>1. IInv'
      <3>1. CASE Terminated
        BY <1>1, <3>1 DEF Terminated
      <3>2. CASE StartMachine
        BY <3>2, StartKeeps
      <3>3. CASE User
        BY <3>3, EnterKeeps, CancelRequestKeeps, UserCancelsKeeps DEF User
      <3>4. CASE Outside
        BY <3>4, ConnectsKeeps, RequestKeeps, DisconnectKeeps, CardKeeps DEF Outside
      <3> QED BY <1>2, <3>1, <3>2, <3>3, <3>4, MainLoopKeeps, WorkerKeeps DEF Next
    <2> QED BY <1>2, <2>1, IdleKeeps
  <1> QED BY <1>1, <1>2

-----------------------------------------------------------------------------
(* Whatever the clients send, whenever they go, and however the two        *)
(* threads, the user and the readers interleave: a reference to a card     *)
(* connection is to one that exists, the end of the workflow clears the    *)
(* passwords, and every request is under way once.                         *)
THEOREM Invariance == Spec => [](IInv /\ Idle)
  <1>1. Init => IInv /\ Idle
    BY InitKeeps
  <1>2. IInv /\ Idle /\ [Next]_vars => (IInv /\ Idle)'
    BY NextKeeps
  <1> QED BY <1>1, <1>2, PTL DEF Spec

(* Every variable keeps its type; a handle, a command and an event name    *)
(* the kind of thing that IfdServiceContext, ServerMessageHandlerImpl and  *)
(* the commands of the card layer expect there.                            *)
THEOREM TypeCorrect == Spec => []TypeOK
  <1>1. IInv => TypeOK
    <2> SUFFICES ASSUME IInv PROVE TypeOK
      OBVIOUS
    <2>1. /\ m \in Machines /\ ctx \in Contexts /\ h \in Handlers /\ dev \in Devices
          /\ create \in SUBSET Creates /\ due \in [Requests -> Int]
          /\ m.events \in Seq(Events) /\ m.cmds \in Seq(Commands)
      BY Basics
    <2>2. \A i \in DOMAIN m.events : m.events[i].type \in
              {"run", "cancel", "message", "closed", "client", "execute", "made", "drop", "done", "reader"}
      <3>1. \A e \in Events : e.type \in
              {"run", "cancel", "message", "closed", "client", "execute", "made", "drop", "done", "reader"}
        BY DEF Events, RunEvents, MessageEvents, CreateEvents, MadeEvents, DoneEvents, ReaderEvents
      <3> QED BY <2>1, <3>1
    <2>3. \A i \in DOMAIN m.cmds : m.cmds[i].op \in
              CardOps \cup {"make", "update", "pace", "set", "sync", "delete"}
      <3>1. \A k \in Commands : k.op \in CardOps \cup {"make", "update", "pace", "set", "sync", "delete"}
        BY DEF Commands
      <3> QED BY <2>1, <3>1
    <2>4. /\ m.cur \in States \cup {"none", "stopped", "crashed"}
          /\ m.approved \in BOOLEAN /\ m.blocked \in BOOLEAN /\ m.watching \in BOOLEAN
          /\ m.listening \in Nat /\ m.resetOnDisconnect \in BOOLEAN
          /\ m.asker \in Nat /\ m.hasEid \in [Readers -> BOOLEAN]
      BY <2>1 DEF Machines
    <2>5. h.client \in Nat /\ h.handles \in Nat /\ h.slots \in Maps(Numbers)
      BY <2>1 DEF Handlers
    <2>6. DOMAIN h.slots \subseteq Numbers /\ \A s \in DOMAIN h.slots : h.slots[s] \in Numbers
      BY <2>5 DEF Maps
    <2>7. /\ \A r \in Readers : dev.card[r] \in [present : BOOLEAN, linked : BOOLEAN]
          /\ dev.workers \in Maps(Readers)
      BY <2>1 DEF Devices
    <2>8. DOMAIN dev.workers \subseteq Numbers /\ Range(dev.workers) \subseteq Readers
      BY <2>7 DEF Maps, Range
    <2>9. /\ \A c \in create : c \in [id : Numbers, reader : Readers, to : Numbers,
                                        worker : Nat, listening : BOOLEAN]
      BY <2>1 DEF Creates
    <2>10. DOMAIN due = Requests /\ \A q \in Requests : due[q] \in Int
      BY <2>1
    <2>11. ctx \in [pin : {Nobody} \cup Nat, newPin : {Nobody} \cup Nat, slot : Nat,
                     change : Nat, conn : Nat, pace : Outputs,
                     changed : Outputs, named : {NoReader} \cup Readers, cancelled : BOOLEAN,
                     inState : BOOLEAN, killed : BOOLEAN]
      BY <2>1 DEF Contexts
    <2> QED BY <2>2, <2>3, <2>4, <2>5, <2>6, <2>7, <2>8, <2>9, <2>10, <2>11 DEF TypeOK
  <1> QED BY <1>1, Invariance, PTL

(* No password is used for another client than the one it was entered for, *)
(* however late a result, a cancellation or the end of the client is       *)
(* handled (IfdServiceContext::reset), and none is left at the end (the    *)
(* assertions of the destructors of the contexts).                         *)
THEOREM PasswordsStay == Spec => []PasswordsOfThisClient
  <1>1. IInv => PasswordsOfThisClient
    <2> SUFFICES ASSUME IInv PROVE PasswordsOfThisClient
      OBVIOUS
    <2>1. Ordered(m, ctx, h)
      BY Basics
    <2>2. \A p \in {ctx.pin, ctx.newPin} : p \in {None, Owner}
      BY <2>1 DEF Ordered, OwnerOf, Owner
    <2>3. m.cur = "stopped" => ~Remains(ctx)
      BY <2>1 DEF Ordered, ClearComesFirst
    <2> QED BY <2>2, <2>3 DEF PasswordsOfThisClient, Remains
  <1> QED BY <1>1, Invariance, PTL

(* A client is never sent more answers to its card commands than it asked  *)
(* for: a result of a client before it is not one                          *)
(* (ServerMessageHandlerImpl and the connections its destructor cuts).     *)
THEOREM AnswersWereAsked == Spec => []CardAnswersWereAsked
  <1>1. IInv => CardAnswersWereAsked
    <2> SUFFICES ASSUME IInv PROVE CardAnswersWereAsked
      OBVIOUS
    <2>1. AnswersAreDue(m, h, due)
      BY Basics
    <2> QED BY <2>1 DEF AnswersAreDue, CardAnswersWereAsked, CardRequests
  <1> QED BY <1>1, Invariance, PTL
=============================================================================
