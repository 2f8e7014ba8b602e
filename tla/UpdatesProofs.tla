--------------------------- MODULE UpdatesProofs ---------------------------
(***************************************************************************)
(* Proofs about Updates, for any number of versions the server publishes   *)
(* and any instance.                                                       *)
(***************************************************************************)
EXTENDS Updates, FiniteSetTheorems, WellFoundedInduction, TLAPS

USE DEF UpdaterStates, ServiceStates, UiStates

(* Queues: what is in them, and that nothing is in them twice. *)
LEMMA EmptyQueue == ToSet(<<>>) = {} /\ IsInjective(<<>>)
  BY DEF ToSet, IsInjective

LEMMA SingleQueue ==
    ASSUME NEW x
    PROVE  ToSet(<<x>>) = {x} /\ IsInjective(<<x>>)
  BY DEF ToSet, IsInjective

LEMMA AppendQueue ==
    ASSUME NEW S, NEW q \in Seq(S), NEW x \in S
    PROVE  /\ Append(q, x) \in Seq(S)
           /\ ToSet(Append(q, x)) = ToSet(q) \cup {x}
           /\ IsInjective(q) /\ x \notin ToSet(q) => IsInjective(Append(q, x))
  <1> DEFINE a == Append(q, x)
  <1>1. /\ a \in Seq(S) /\ DOMAIN a = 1..(Len(q) + 1) /\ DOMAIN q = 1..Len(q) /\ Len(q) \in Nat
        /\ \A i \in 1..Len(q) : a[i] = q[i]
        /\ a[Len(q) + 1] = x
    OBVIOUS
  <1> HIDE DEF a
  <1>2. ToSet(a) = ToSet(q) \cup {x}
    BY <1>1 DEF ToSet
  <1>3. ASSUME IsInjective(q), x \notin ToSet(q)
        PROVE  IsInjective(a)
    BY <1>1, <1>3 DEF ToSet, IsInjective
  <1> QED BY <1>1, <1>2, <1>3 DEF a

LEMMA ConcatenatedQueue ==
    ASSUME NEW S, NEW q \in Seq(S), NEW r \in Seq(S)
    PROVE  /\ q \o r \in Seq(S)
           /\ ToSet(q \o r) = ToSet(q) \cup ToSet(r)
           /\ IsInjective(q) /\ IsInjective(r) /\ ToSet(q) \cap ToSet(r) = {} => IsInjective(q \o r)
  <1> DEFINE c == q \o r
  <1>1. /\ c \in Seq(S) /\ DOMAIN c = 1..(Len(q) + Len(r))
        /\ DOMAIN q = 1..Len(q) /\ DOMAIN r = 1..Len(r) /\ Len(q) \in Nat /\ Len(r) \in Nat
        /\ \A i \in 1..Len(q) : c[i] = q[i]
        /\ \A i \in 1..Len(r) : c[Len(q) + i] = r[i]
        /\ \A i \in (Len(q) + 1)..(Len(q) + Len(r)) : c[i] = r[i - Len(q)]
    OBVIOUS
  <1> HIDE DEF c
  <1>2. ToSet(c) = ToSet(q) \cup ToSet(r)
    <2>1. ASSUME NEW i \in DOMAIN c
          PROVE  c[i] \in ToSet(q) \cup ToSet(r)
      <3>1. CASE i <= Len(q)
        BY <1>1, <3>1 DEF ToSet
      <3>2. CASE i > Len(q)
        <4>1. i - Len(q) \in 1..Len(r) /\ c[i] = r[i - Len(q)]
          BY <1>1, <3>2
        <4> QED BY <1>1, <4>1 DEF ToSet
      <3> QED BY <1>1, <3>1, <3>2
    <2>2. ASSUME NEW i \in DOMAIN q
          PROVE  q[i] \in ToSet(c)
      BY <1>1 DEF ToSet
    <2>3. ASSUME NEW i \in DOMAIN r
          PROVE  r[i] \in ToSet(c)
      <3>1. Len(q) + i \in DOMAIN c /\ c[Len(q) + i] = r[i]
        BY <1>1
      <3> QED BY <3>1 DEF ToSet
    <2> QED BY <2>1, <2>2, <2>3 DEF ToSet
  <1>3. ASSUME IsInjective(q), IsInjective(r), ToSet(q) \cap ToSet(r) = {},
               NEW i \in DOMAIN c, NEW j \in DOMAIN c, c[i] = c[j]
        PROVE  i = j
    <2>1. CASE i <= Len(q) /\ j <= Len(q)
      BY <1>1, <1>3, <2>1 DEF IsInjective
    <2>2. CASE i > Len(q) /\ j > Len(q)
      <3>1. /\ i - Len(q) \in DOMAIN r /\ j - Len(q) \in DOMAIN r
            /\ r[i - Len(q)] = r[j - Len(q)]
        BY <1>1, <1>3, <2>2
      <3>2. i - Len(q) = j - Len(q)
        BY <1>3, <3>1 DEF IsInjective
      <3> QED BY <1>1, <3>2
    <2>3. CASE i <= Len(q) /\ j > Len(q)
      <3>1. i \in DOMAIN q /\ j - Len(q) \in DOMAIN r /\ q[i] = r[j - Len(q)]
        BY <1>1, <1>3, <2>3
      <3> QED BY <1>3, <3>1 DEF ToSet
    <2>4. CASE i > Len(q) /\ j <= Len(q)
      <3>1. j \in DOMAIN q /\ i - Len(q) \in DOMAIN r /\ q[j] = r[i - Len(q)]
        BY <1>1, <1>3, <2>4
      <3> QED BY <1>3, <3>1 DEF ToSet
    <2> QED BY <1>1, <2>1, <2>2, <2>3, <2>4
  <1>4. IsInjective(q) /\ IsInjective(r) /\ ToSet(q) \cap ToSet(r) = {} => IsInjective(c)
    BY <1>3 DEF IsInjective
  <1> QED BY <1>1, <1>2, <1>4 DEF c

LEMMA TakenQueue ==
    ASSUME NEW S, NEW q \in Seq(S), q # <<>>
    PROVE  /\ Head(q) \in S /\ Tail(q) \in Seq(S)
           /\ ToSet(q) = {Head(q)} \cup ToSet(Tail(q))
           /\ IsInjective(q) => IsInjective(Tail(q)) /\ Head(q) \notin ToSet(Tail(q))
  <1> DEFINE t == Tail(q)
  <1>1. /\ t \in Seq(S) /\ DOMAIN t = 1..(Len(q) - 1) /\ DOMAIN q = 1..Len(q) /\ Len(q) \in Nat \ {0}
        /\ \A i \in 1..(Len(q) - 1) : t[i] = q[i + 1]
        /\ Head(q) = q[1] /\ q[1] \in S
    OBVIOUS
  <1> HIDE DEF t
  <1>2. ASSUME NEW i \in 1..Len(q), i # 1
        PROVE  i - 1 \in DOMAIN t /\ t[i - 1] = q[i]
    BY <1>1, <1>2
  <1>3. ToSet(q) = {q[1]} \cup ToSet(t)
    <2>1. ASSUME NEW i \in DOMAIN t
          PROVE  i + 1 \in DOMAIN q /\ t[i] = q[i + 1]
      BY <1>1
    <2>2. \A x \in ToSet(t) : x \in ToSet(q)
      BY <2>1 DEF ToSet
    <2>3. \A x \in ToSet(q) : x = q[1] \/ x \in ToSet(t)
      BY <1>1, <1>2 DEF ToSet
    <2>4. q[1] \in ToSet(q)
      BY <1>1 DEF ToSet
    <2> QED BY <2>2, <2>3, <2>4
  <1>4. ASSUME IsInjective(q)
        PROVE  IsInjective(t) /\ q[1] \notin ToSet(t)
    <2>1. \A i \in DOMAIN t : i + 1 \in DOMAIN q /\ t[i] = q[i + 1] /\ i + 1 # 1
      BY <1>1
    <2>2. ASSUME NEW i \in DOMAIN t, NEW j \in DOMAIN t, t[i] = t[j]
          PROVE  i = j
      <3>1. i + 1 = j + 1
        BY <1>4, <2>1, <2>2 DEF IsInjective
      <3> QED BY <1>1, <3>1
    <2>3. 1 \in DOMAIN q
      BY <1>1
    <2> QED BY <1>4, <2>1, <2>2, <2>3 DEF IsInjective, ToSet
  <1> QED BY <1>1, <1>3, <1>4 DEF t

-----------------------------------------------------------------------------
(* Without a rule of induction that takes a predicate, a property of all   *)
(* naturals is proved from the least one that might not have it.           *)
LEMMA LeastElement ==
    ASSUME NEW T \in SUBSET Nat, T # {}
    PROVE  \E m \in T : \A k \in Nat : k < m => k \notin T
  <1> DEFINE R == OpToRel(<, Nat)
  <1>1. IsWellFoundedOn(R, Nat)
    BY NatLessThanWellFounded
  <1>2. \A a, b \in Nat : a < b => <<a, b>> \in R
    BY DEF OpToRel
  <1> HIDE DEF R
  <1>3. PICK m \in T : \A k \in T : <<k, m>> \notin R
    BY <1>1, WFMin
  <1>4. ASSUME NEW k \in Nat, k < m
        PROVE  k \notin T
    BY <1>2, <1>3, <1>4
  <1> QED BY <1>4

(* The recursion of Without, up to the n-th element. *)
Kept(f, q, url, n) ==
    /\ DOMAIN f = 0..n
    /\ f[0] = <<>>
    /\ \A i \in 1..n : f[i] = IF q[i] = url THEN f[i - 1] ELSE Append(f[i - 1], q[i])

LEMMA KeptExists ==
    ASSUME NEW q, NEW url
    PROVE  \A n \in Nat : \E f : Kept(f, q, url, n)
  <1> DEFINE T == {n \in Nat : ~\E f : Kept(f, q, url, n)}
  <1> SUFFICES ASSUME T # {} PROVE FALSE
    OBVIOUS
  <1>1. PICK m \in T : \A k \in Nat : k < m => k \notin T
    BY LeastElement
  <1>2. m # 0
    <2>1. Kept([i \in 0..0 |-> <<>>], q, url, 0)
      BY DEF Kept
    <2> QED BY <2>1
  <1>3. m - 1 \in Nat /\ m - 1 < m
    BY <1>2
  <1>4. PICK f : Kept(f, q, url, m - 1)
    BY <1>1, <1>3
  <1> DEFINE last == IF q[m] = url THEN f[m - 1] ELSE Append(f[m - 1], q[m])
             g    == [i \in 0..m |-> IF i = m THEN last ELSE f[i]]
  <1>5. Kept(g, q, url, m)
    <2>1. DOMAIN g = 0..m /\ g[m] = last /\ \A i \in 0..(m - 1) : g[i] = f[i]
      BY <1>3
    <2>2. g[0] = <<>>
      BY <1>3, <1>4, <2>1 DEF Kept
    <2> HIDE DEF g
    <2>3. ASSUME NEW i \in 1..m
          PROVE  g[i] = IF q[i] = url THEN g[i - 1] ELSE Append(g[i - 1], q[i])
      <3>1. CASE i = m
        <4>1. g[m - 1] = f[m - 1]
          BY <1>3, <2>1
        <4> QED BY <2>1, <3>1, <4>1
      <3>2. CASE i # m
        <4>1. i \in 1..(m - 1) /\ g[i] = f[i] /\ g[i - 1] = f[i - 1]
          BY <1>3, <2>1, <3>2
        <4> QED BY <1>4, <4>1 DEF Kept
      <3> QED BY <3>1, <3>2
    <2> QED BY <2>1, <2>2, <2>3 DEF Kept
  <1> QED BY <1>5

(* Removing the requests of a URL removes these and keeps the rest.        *)
LEMMA WithoutQueue ==
    ASSUME NEW S, NEW q \in Seq(S), NEW url
    PROVE  /\ Without(q, url) \in Seq(S)
           /\ ToSet(Without(q, url)) = ToSet(q) \ {url}
           /\ IsInjective(q) => IsInjective(Without(q, url))
  <1> DEFINE body(g) == [i \in 0..Len(q) |-> IF i = 0 THEN <<>>
                                             ELSE IF q[i] = url THEN g[i - 1]
                                             ELSE Append(g[i - 1], q[i])]
             kept == CHOOSE g : g = body(g)
  <1>1. Len(q) \in Nat /\ DOMAIN q = 1..Len(q) /\ \A i \in 1..Len(q) : q[i] \in S
    OBVIOUS
  <1>2. PICK f : Kept(f, q, url, Len(q))
    BY <1>1, KeptExists
  <1> DEFINE g == [i \in 0..Len(q) |-> f[i]]
  <1>3. g = body(g)
    <2>1. \A i \in 0..Len(q) : i = 0 \/ (i \in 1..Len(q) /\ i - 1 \in 0..Len(q))
      BY <1>1
    <2>2. \A i \in 0..Len(q) : g[i] = body(g)[i]
      BY <1>2, <2>1 DEF Kept
    <2> QED BY <2>2
  <1>4. kept = body(kept)
    BY <1>3
  <1>5. Without(q, url) = kept[Len(q)]
    BY DEF Without
  <1> HIDE DEF kept
  <1>6. /\ kept[0] = <<>>
        /\ \A i \in 1..Len(q) : kept[i] = IF q[i] = url THEN kept[i - 1] ELSE Append(kept[i - 1], q[i])
    <2>1. 0 \in 0..Len(q) /\ \A i \in 1..Len(q) : i \in 0..Len(q) /\ i # 0
      BY <1>1
    <2> QED BY <1>4, <2>1
  <1> DEFINE P(i) == /\ kept[i] \in Seq(S)
                     /\ ToSet(kept[i]) = {q[j] : j \in 1..i} \ {url}
                     /\ IsInjective(q) => IsInjective(kept[i])
             T == {i \in 0..Len(q) : ~P(i)}
  <1>7. T = {}
    <2> SUFFICES ASSUME T # {} PROVE FALSE
      OBVIOUS
    <2>1. T \in SUBSET Nat
      BY <1>1
    <2>2. PICK m \in T : \A k \in Nat : k < m => k \notin T
      BY <2>1, LeastElement
    <2>3. P(0)
      BY <1>6, EmptyQueue
    <2>4. m \in 1..Len(q) /\ m - 1 \in 0..Len(q) /\ m - 1 \in Nat /\ m - 1 < m
      BY <1>1, <2>2, <2>3
    <2>5. P(m - 1)
      BY <2>2, <2>4
    <2>6. {q[j] : j \in 1..m} = {q[j] : j \in 1..(m - 1)} \cup {q[m]}
      <3>1. \A j \in 1..m : j = m \/ j \in 1..(m - 1)
        BY <2>4
      <3>2. \A j \in 1..(m - 1) : j \in 1..m
        BY <2>4
      <3>3. m \in 1..m
        BY <2>4
      <3> QED BY <3>1, <3>2, <3>3
    <2>7. IsInjective(q) => q[m] \notin {q[j] : j \in 1..(m - 1)}
      BY <1>1, <2>4 DEF IsInjective
    <2>8. kept[m] = IF q[m] = url THEN kept[m - 1] ELSE Append(kept[m - 1], q[m])
      BY <1>6, <2>4
    <2>9. P(m)
      <3>1. CASE q[m] = url
        BY <2>5, <2>6, <2>8, <3>1
      <3>2. CASE q[m] # url
        <4>1. kept[m] = Append(kept[m - 1], q[m]) /\ kept[m - 1] \in Seq(S) /\ q[m] \in S
          BY <1>1, <2>4, <2>5, <2>8, <3>2
        <4>2. /\ kept[m] \in Seq(S)
              /\ ToSet(kept[m]) = ToSet(kept[m - 1]) \cup {q[m]}
              /\ IsInjective(kept[m - 1]) /\ q[m] \notin ToSet(kept[m - 1]) => IsInjective(kept[m])
          BY <4>1, AppendQueue
        <4>3. ToSet(kept[m]) = {q[j] : j \in 1..m} \ {url}
          BY <2>5, <2>6, <3>2, <4>2
        <4>4. IsInjective(q) => IsInjective(kept[m])
          BY <2>5, <2>7, <4>2
        <4> QED BY <4>2, <4>3, <4>4
      <3> QED BY <3>1, <3>2
    <2> QED BY <2>2, <2>9
  <1>8. P(Len(q))
    <2>1. Len(q) \in 0..Len(q)
      BY <1>1
    <2> HIDE DEF P
    <2> QED BY <1>7, <2>1
  <1> QED BY <1>1, <1>5, <1>8 DEF ToSet

-----------------------------------------------------------------------------
(* The downloader: what is requested of it, and that it works through a    *)
(* queue in which nothing is twice.                                        *)
Requested(d) == ToSet(d.pending) \cup ({d.reply.url} \ {NoUrl})

InOrder(d) ==
    /\ d.reply = NoReply => d.pending = <<>>
    /\ d.reply.url = NoUrl => d.reply = NoReply
    /\ IsInjective(d.pending) /\ d.reply.url \notin ToSet(d.pending)

(* A requester waits for a URL exactly while the URL is requested.  An     *)
(* updater that has forgotten what it downloads does not check either.     *)
FilesAreOwned   == \A f \in Files : f \in Requested(downloader) <=> files[f].running
UpdaterIsOwned  ==
    /\ Forgotten => Appcast \notin Requested(downloader)
    /\ ~Forgotten => \A u \in UpdaterUrls : u \in Requested(downloader) <=> u = UrlOf(updater.type)

(* Data without a version is none at all; what is downloaded is not ready  *)
(* before it is complete; release notes of an update are those of another  *)
(* version than the installed one.                                         *)
DataInv ==
    /\ updater.data.version = None => updater.data = NoData
    /\ DownloadRunning => ui.ready = None
    /\ service.notes # 0

IInv ==
    /\ TypeOK /\ InOrder(downloader) /\ FilesAreOwned /\ UpdaterIsOwned /\ DataInv
    /\ PackageIsVerified /\ NextCheckIsDue

-----------------------------------------------------------------------------
(* URLs of different things are different. *)
LEMMA UrlFacts ==
    /\ NoUrl \notin Urls /\ Urls = Files \cup UpdaterUrls /\ Files \cap UpdaterUrls = {}
    /\ {Provider, Reader, Icon} \subseteq Files /\ Appcast \in UpdaterUrls
    /\ Provider # Reader /\ Provider # Icon /\ Reader # Icon
    /\ \A v \in Versions : /\ Notes(v) \in Files /\ Notes(v) \notin {Provider, Reader, Icon}
                           /\ Checksum(v) \in UpdaterUrls /\ Package(v) \in UpdaterUrls
                           /\ Checksum(v) # Appcast /\ Package(v) # Appcast
    /\ \A v, w : /\ Notes(v) = Notes(w) => v = w
                 /\ Checksum(v) = Checksum(w) => v = w
                 /\ Package(v) = Package(w) => v = w
                 /\ Checksum(v) # Package(w)
    /\ \A u \in Urls : /\ u.kind = "checksum" => \E v \in Versions : u = Checksum(v)
                       /\ u.kind = "package" => \E v \in Versions : u = Package(v)
    /\ 0 \in Versions /\ None \notin Versions
  <1>1. 0 \in Versions /\ None \notin Versions
    BY UpdatesAssumption DEF Versions, None
  <1>2. \A k, l, v, w : Url(k, v) = Url(l, w) <=> k = l /\ v = w
    BY DEF Url
  <1>3. \A k, v : Url(k, v).kind = k
    BY DEF Url
  <1> USE DEF Provider, Reader, Icon, Notes, Appcast, Checksum, Package, NoUrl
  <1> HIDE DEF Url
  <1>4. {Provider, Reader, Icon} \subseteq Files /\ Appcast \in UpdaterUrls
    BY DEF Files, UpdaterUrls
  <1>5. Provider # Reader /\ Provider # Icon /\ Reader # Icon
    BY <1>2
  <1>6. \A v \in Versions : /\ Notes(v) \in Files /\ Notes(v) \notin {Provider, Reader, Icon}
                            /\ Checksum(v) \in UpdaterUrls /\ Package(v) \in UpdaterUrls
                            /\ Checksum(v) # Appcast /\ Package(v) # Appcast
    BY <1>2 DEF Files, UpdaterUrls
  <1>7. \A v, w : /\ Notes(v) = Notes(w) => v = w
                  /\ Checksum(v) = Checksum(w) => v = w
                  /\ Package(v) = Package(w) => v = w
                  /\ Checksum(v) # Package(w)
    BY <1>2
  <1>8. /\ \A u \in Files : u.kind \in {"provider", "reader", "icon", "notes"}
        /\ \A u \in UpdaterUrls : \/ u = Appcast /\ u.kind = "appcast"
                                  \/ u.kind = "checksum" /\ \E v \in Versions : u = Checksum(v)
                                  \/ u.kind = "package" /\ \E v \in Versions : u = Package(v)
        /\ NoUrl.kind = "none"
    BY <1>3 DEF Files, UpdaterUrls
  <1>9. NoUrl \notin Urls /\ Urls = Files \cup UpdaterUrls /\ Files \cap UpdaterUrls = {}
    BY <1>8 DEF Urls
  <1>10. \A u \in Urls : /\ u.kind = "checksum" => \E v \in Versions : u = Checksum(v)
                         /\ u.kind = "package" => \E v \in Versions : u = Package(v)
    BY <1>8, <1>9
  <1> HIDE DEF Provider, Reader, Icon, Notes, Appcast, Checksum, Package, NoUrl
  <1> QED BY <1>1, <1>4, <1>5, <1>6, <1>7, <1>9, <1>10

LEMMA StartedStep ==
    ASSUME downloader \in Downloads, NEW q \in Seq(Urls), IsInjective(q)
    PROVE  Started(q) \in Downloads /\ InOrder(Started(q)) /\ Requested(Started(q)) = ToSet(q)
  <1>1. CASE q = <<>>
    <2>1. /\ Started(q).reply = NoReply /\ Started(q).pending = <<>>
          /\ Started(q).exiting = downloader.exiting
          /\ Started(q) \in Downloads
      BY <1>1 DEF Started, Downloads, NoReply
    <2>2. NoReply.url = NoUrl
      BY DEF NoReply
    <2> QED BY <1>1, <2>1, <2>2, EmptyQueue DEF InOrder, Requested
  <1>2. CASE q # <<>>
    <2> DEFINE r == [url |-> Head(q), aborted |-> FALSE, dead |-> downloader.exiting]
    <2>1. Head(q) \in Urls /\ Tail(q) \in Seq(Urls)
      BY <1>2, TakenQueue
    <2>2. /\ Started(q).reply = r /\ Started(q).pending = Tail(q)
          /\ Started(q) \in Downloads
      BY <1>2, <2>1 DEF Started, Downloads
    <2>3. r.url = Head(q) /\ Head(q) # NoUrl
      BY <2>1, UrlFacts
    <2>4. r # NoReply
      BY <2>3 DEF NoReply
    <2> HIDE DEF r
    <2> QED BY <1>2, <2>2, <2>3, <2>4, TakenQueue DEF InOrder, Requested
  <1> QED BY <1>1, <1>2

(* The end of the current download, with what is requested because of it. *)
LEMMA FinishedStep ==
    ASSUME downloader \in Downloads, InOrder(downloader),
           NEW urls \in Seq(Urls), IsInjective(urls), ToSet(urls) \cap ToSet(downloader.pending) = {}
    PROVE  /\ Finished(urls) \in Downloads /\ InOrder(Finished(urls))
           /\ Requested(Finished(urls)) = (Requested(downloader) \ {downloader.reply.url}) \cup ToSet(urls)
  <1>1. downloader.pending \in Seq(Urls) /\ IsInjective(downloader.pending)
    BY DEF Downloads, InOrder
  <1>2. /\ downloader.pending \o urls \in Seq(Urls) /\ IsInjective(downloader.pending \o urls)
        /\ ToSet(downloader.pending \o urls) = ToSet(downloader.pending) \cup ToSet(urls)
    BY <1>1, ConcatenatedQueue
  <1>3. Requested(downloader) \ {downloader.reply.url} = ToSet(downloader.pending)
    BY DEF InOrder, Requested
  <1> QED BY <1>2, <1>3, StartedStep DEF Finished

(* The end of the current download without anything new. *)
LEMMA EndedStep ==
    ASSUME downloader \in Downloads, InOrder(downloader)
    PROVE  /\ Finished(<<>>) \in Downloads /\ InOrder(Finished(<<>>))
           /\ Requested(Finished(<<>>)) = Requested(downloader) \ {downloader.reply.url}
  <1>1. <<>> \in Seq(Urls)
    OBVIOUS
  <1> QED BY <1>1, EmptyQueue, FinishedStep

LEMMA ScheduledStep ==
    ASSUME downloader \in Downloads, InOrder(downloader),
           NEW urls \in Seq(Urls), IsInjective(urls), ToSet(urls) \cap Requested(downloader) = {}
    PROVE  /\ Scheduled(urls) \in Downloads /\ InOrder(Scheduled(urls))
           /\ Requested(Scheduled(urls)) = Requested(downloader) \cup ToSet(urls)
  <1>1. CASE downloader.reply = NoReply
    <2>1. Requested(downloader) = {}
      BY <1>1, EmptyQueue DEF InOrder, Requested, NoReply
    <2> QED BY <1>1, <2>1, StartedStep DEF Scheduled
  <1>2. CASE downloader.reply # NoReply
    <2> DEFINE q == downloader.pending \o urls
    <2>1. downloader.pending \in Seq(Urls) /\ IsInjective(downloader.pending)
      BY DEF Downloads, InOrder
    <2>2. ToSet(urls) \cap ToSet(downloader.pending) = {} /\ downloader.reply.url \notin ToSet(urls)
      BY <1>2 DEF Requested, InOrder
    <2>3. q \in Seq(Urls) /\ IsInjective(q) /\ ToSet(q) = ToSet(downloader.pending) \cup ToSet(urls)
      BY <2>1, <2>2, ConcatenatedQueue
    <2>4. Scheduled(urls) = [downloader EXCEPT !.pending = q]
      BY <1>2 DEF Scheduled
    <2> HIDE DEF q
    <2>5. /\ Scheduled(urls) \in Downloads
          /\ Scheduled(urls).pending = q /\ Scheduled(urls).reply = downloader.reply
      BY <2>3, <2>4 DEF Downloads
    <2> QED BY <1>2, <2>2, <2>3, <2>5 DEF InOrder, Requested
  <1> QED BY <1>1, <1>2

(* abort: what remains is a dead reply, which ends by itself.              *)
LEMMA AbortedStep ==
    ASSUME downloader \in Downloads, InOrder(downloader), NEW url \in Urls
    PROVE  /\ Aborted(url) \in Downloads /\ InOrder(Aborted(url))
           /\ Requested(Aborted(url)) =
                  IF downloader.reply.url = url /\ downloader.reply.dead
                  THEN Requested(downloader) ELSE Requested(downloader) \ {url}
           /\ AbortReports(url) <=>
                  url \in Requested(downloader) /\ ~(downloader.reply.url = url /\ downloader.reply.dead)
  <1> DEFINE stopped == IF downloader.reply.url # url THEN downloader
                        ELSE IF downloader.reply.dead
                             THEN [downloader EXCEPT !.reply.aborted = TRUE]
                             ELSE Finished(<<>>)
             left == Without(stopped.pending, url)
  <1>1. url # NoUrl
    BY UrlFacts
  <1>2. Aborted(url) = [stopped EXCEPT !.pending = left]
    BY DEF Aborted
  <1>3. /\ stopped \in Downloads /\ InOrder(stopped)
        /\ Requested(stopped) = IF downloader.reply.url = url /\ ~downloader.reply.dead
                                THEN Requested(downloader) \ {url} ELSE Requested(downloader)
        /\ stopped.reply.url = url <=> downloader.reply.url = url /\ downloader.reply.dead
    <2>1. CASE downloader.reply.url # url
      BY <2>1
    <2>2. CASE downloader.reply.url = url /\ downloader.reply.dead
      <3>1. /\ stopped \in Downloads /\ stopped.pending = downloader.pending
            /\ stopped.reply.url = url /\ downloader.reply.url = url
        BY <2>2 DEF Downloads
      <3>2. downloader.reply # NoReply /\ stopped.reply # NoReply
        BY <1>1, <3>1 DEF NoReply
      <3> HIDE DEF stopped
      <3> QED BY <1>1, <2>2, <3>1, <3>2 DEF InOrder, Requested
    <2>3. CASE downloader.reply.url = url /\ ~downloader.reply.dead
      <3>1. stopped = Finished(<<>>)
        BY <2>3
      <3> HIDE DEF stopped
      <3>2. stopped \in Downloads /\ InOrder(stopped) /\ Requested(stopped) = Requested(downloader) \ {url}
        BY <2>3, <3>1, EndedStep
      <3>3. stopped.reply.url # url
        BY <1>1, <3>2 DEF Requested
      <3> QED BY <2>3, <3>2, <3>3
    <2> QED BY <2>1, <2>2, <2>3
  <1> HIDE DEF stopped
  <1>4. /\ left \in Seq(Urls) /\ ToSet(left) = ToSet(stopped.pending) \ {url} /\ IsInjective(left)
        /\ stopped.pending = <<>> => left = <<>>
    <2>1. stopped.pending \in Seq(Urls) /\ IsInjective(stopped.pending)
      BY <1>3 DEF Downloads, InOrder
    <2>2. left \in Seq(Urls) /\ ToSet(left) = ToSet(stopped.pending) \ {url} /\ IsInjective(left)
      BY <2>1, WithoutQueue
    <2>3. ASSUME stopped.pending = <<>> PROVE left = <<>>
      <3>1. ToSet(left) = {}
        BY <2>2, <2>3, EmptyQueue
      <3> QED BY <2>2, <3>1, TakenQueue
    <2> QED BY <2>2, <2>3
  <1> HIDE DEF left
  <1>5. /\ Aborted(url) \in Downloads
        /\ Aborted(url).pending = left /\ Aborted(url).reply = stopped.reply
    BY <1>2, <1>3, <1>4 DEF Downloads
  <1>6. InOrder(Aborted(url))
    BY <1>3, <1>4, <1>5 DEF InOrder
  <1>7. Requested(Aborted(url)) =
            IF downloader.reply.url = url /\ downloader.reply.dead
            THEN Requested(downloader) ELSE Requested(downloader) \ {url}
    <2>1. Requested(Aborted(url)) = (ToSet(stopped.pending) \ {url}) \cup ({stopped.reply.url} \ {NoUrl})
      BY <1>4, <1>5 DEF Requested
    <2>2. CASE stopped.reply.url = url
      <3>1. url \notin ToSet(stopped.pending)
        BY <1>3, <2>2 DEF InOrder
      <3> QED BY <1>3, <2>1, <2>2, <3>1 DEF Requested
    <2>3. CASE stopped.reply.url # url
      <3>1. Requested(Aborted(url)) = Requested(stopped) \ {url}
        BY <2>1, <2>3 DEF Requested
      <3> QED BY <1>3, <2>3, <3>1
    <2> QED BY <2>2, <2>3
  <1>8. AbortReports(url) <=>
            url \in Requested(downloader) /\ ~(downloader.reply.url = url /\ downloader.reply.dead)
    <2>1. Contains(downloader.pending, url) <=> url \in ToSet(downloader.pending)
      <3>1. DOMAIN downloader.pending = 1..Len(downloader.pending)
        BY DEF Downloads
      <3> QED BY <3>1 DEF Contains, ToSet
    <2> QED BY <1>1, <2>1 DEF AbortReports, Requested, InOrder
  <1> QED BY <1>5, <1>6, <1>7, <1>8

-----------------------------------------------------------------------------
(* What the updater waits for. *)
LEMMA UpdaterFacts ==
    ASSUME TypeOK, DataInv
    PROVE  /\ UrlOf(updater.type) \in UpdaterUrls \cup {NoUrl}
           /\ UrlOf(updater.type) = NoUrl <=> updater.type = "none" \/ Forgotten
           /\ UrlOf(updater.type) = Appcast <=> updater.type = "updateInfo"
           /\ \A v \in Versions :
                  /\ UrlOf(updater.type) = Checksum(v) <=> updater.type = "checksum" /\ updater.data.version = v
                  /\ UrlOf(updater.type) = Package(v) <=> updater.type = "application" /\ updater.data.version = v
           /\ updater.data # NoData <=> updater.data.version \in Versions
           /\ updater.type \in {"none", "updateInfo", "checksum", "application"}
  <1>1. updater.data.version \in Versions \cup {None}
    BY DEF TypeOK
  <1>2. updater.data # NoData <=> updater.data.version \in Versions
    BY <1>1, UrlFacts DEF DataInv, NoData
  <1>3. updater.type \in {"none", "updateInfo", "checksum", "application"}
    BY DEF TypeOK
  <1>4. NoUrl \notin UpdaterUrls
    BY UrlFacts
  <1>5. CASE updater.type = "none"
    <2>1. UrlOf(updater.type) = NoUrl
      BY <1>5 DEF UrlOf
    <2> QED BY <1>2, <1>4, <1>5, <2>1, UrlFacts
  <1>6. CASE updater.type = "updateInfo"
    <2>1. UrlOf(updater.type) = Appcast
      BY <1>6 DEF UrlOf
    <2> QED BY <1>2, <1>4, <1>6, <2>1, UrlFacts DEF Forgotten, DownloadRunning
  <1>7. CASE updater.type \in {"checksum", "application"} /\ updater.data = NoData
    <2>1. UrlOf(updater.type) = NoUrl
      BY <1>7 DEF UrlOf
    <2> QED BY <1>2, <1>4, <1>7, <2>1, UrlFacts DEF Forgotten, DownloadRunning
  <1>8. CASE updater.type \in {"checksum", "application"} /\ updater.data # NoData
    <2>1. /\ updater.type = "checksum" => UrlOf(updater.type) = Checksum(updater.data.version)
          /\ updater.type = "application" => UrlOf(updater.type) = Package(updater.data.version)
      BY <1>8 DEF UrlOf
    <2>2. ~Forgotten
      BY <1>8 DEF Forgotten
    <2> QED BY <1>2, <1>4, <1>8, <2>1, <2>2, UrlFacts
  <1> QED BY <1>2, <1>3, <1>5, <1>6, <1>7, <1>8

LEMMA RequestedFacts ==
    ASSUME TypeOK
    PROVE  /\ Requested(downloader) \subseteq Urls
           /\ downloader.reply.url \in Urls => downloader.reply.url \in Requested(downloader)
           /\ ToSet(downloader.pending) \subseteq Requested(downloader)
  <1>1. downloader.pending \in Seq(Urls) /\ downloader.reply.url \in Urls \cup {NoUrl}
    BY DEF TypeOK, Downloads
  <1>2. ToSet(downloader.pending) \subseteq Urls
    BY <1>1 DEF ToSet
  <1> QED BY <1>1, <1>2, UrlFacts DEF Requested

-----------------------------------------------------------------------------
(* Files that are to be updated. *)
LEMMA UpdateFacts ==
    ASSUME NEW f \in Files
    PROVE  /\ Update(f) \in Seq(Urls) /\ IsInjective(Update(f))
           /\ ToSet(Update(f)) = IF files[f].running THEN {} ELSE {f}
  <1>1. f \in Urls
    BY UrlFacts
  <1>2. <<f>> \in Seq(Urls) /\ <<>> \in Seq(Urls)
    BY <1>1
  <1> QED BY <1>2, EmptyQueue, SingleQueue DEF Update

(* Which files may be requested together: idle ones, each of them once.    *)
MayStart(urls) ==
    /\ urls \in Seq(Urls) /\ IsInjective(urls)
    /\ \A f \in ToSet(urls) : f \in Files /\ ~files[f].running

LEMMA StartOne ==
    ASSUME NEW f \in Files
    PROVE  MayStart(Update(f)) /\ ToSet(Update(f)) \subseteq {f}
  BY UpdateFacts DEF MayStart

LEMMA StartNone == MayStart(<<>>) /\ ToSet(<<>>) = {}
  <1>1. <<>> \in Seq(Urls)
    OBVIOUS
  <1> QED BY <1>1, EmptyQueue DEF MayStart

LEMMA StartTwo ==
    ASSUME NEW f \in Files, NEW g \in Files, f # g
    PROVE  MayStart(Update(f) \o Update(g)) /\ ToSet(Update(f) \o Update(g)) \subseteq {f, g}
  BY UpdateFacts, ConcatenatedQueue DEF MayStart

LEMMA FollowingFacts ==
    ASSUME TypeOK, DataInv, NEW f \in Files
    PROVE  MayStart(Following(f)) /\ f \notin ToSet(Following(f))
  <1>1. CASE f = Provider
    <2>1. Following(f) = Update(Reader)
      BY <1>1, UrlFacts DEF Following
    <2> QED BY <1>1, <2>1, StartOne, UrlFacts
  <1>2. CASE f = Reader
    <2>1. Following(f) = ReleaseInformation
      BY <1>2, UrlFacts DEF Following
    <2>2. Notes(0) \in Files /\ Notes(0) # Reader
      BY UrlFacts
    <2>3. CASE ~RequiresInitialUpdate(0)
      BY <2>1, <2>3, StartNone DEF ReleaseInformation
    <2>4. CASE RequiresInitialUpdate(0) /\ service.notes = None
      <3>1. Following(f) = Update(Notes(0))
        <4>1. Update(Notes(0)) \in Seq(Urls)
          BY <2>2, UpdateFacts
        <4> QED BY <2>1, <2>4, <4>1 DEF ReleaseInformation
      <3> QED BY <1>2, <2>2, <3>1, StartOne
    <2>5. CASE RequiresInitialUpdate(0) /\ service.notes # None
      <3>1. service.notes \in Versions /\ service.notes # 0
        BY <2>5 DEF TypeOK, DataInv
      <3>2. Notes(service.notes) \in Files /\ Notes(service.notes) # Reader /\ Notes(service.notes) # Notes(0)
        BY <3>1, UrlFacts
      <3>3. Following(f) = Update(Notes(0)) \o Update(Notes(service.notes))
        BY <2>1, <2>5 DEF ReleaseInformation
      <3> QED BY <1>2, <2>2, <3>2, <3>3, StartTwo
    <2> QED BY <2>3, <2>4, <2>5
  <1>3. CASE f \notin {Provider, Reader}
    BY <1>3, StartNone DEF Following
  <1> QED BY <1>1, <1>2, <1>3

LEMMA RunningFacts ==
    ASSUME NEW fs \in [Files -> FileStates], NEW urls \in Seq(Urls)
    PROVE  /\ UpdateRunning(fs, urls) \in [Files -> FileStates]
           /\ \A f \in Files : UpdateRunning(fs, urls)[f].running <=> fs[f].running \/ f \in ToSet(urls)
  <1>1. \A f : Contains(urls, f) <=> f \in ToSet(urls)
    BY DEF Contains, ToSet
  <1>2. ASSUME NEW f \in Files
        PROVE  /\ UpdateRunning(fs, urls)[f] \in FileStates
               /\ UpdateRunning(fs, urls)[f].running <=> fs[f].running \/ f \in ToSet(urls)
    BY <1>1 DEF UpdateRunning, FileStates
  <1>3. UpdateRunning(fs, urls) = [f \in Files |-> UpdateRunning(fs, urls)[f]]
    BY DEF UpdateRunning
  <1> QED BY <1>2, <1>3

-----------------------------------------------------------------------------
(* Who waits for what after a step. *)
LEMMA FilesStarted ==
    ASSUME TypeOK, FilesAreOwned, NEW urls, MayStart(urls), NEW x, x \notin Files,
           Requested(downloader') = (Requested(downloader) \ {x}) \cup ToSet(urls),
           files' = UpdateRunning(files, urls)
    PROVE  FilesAreOwned' /\ files' \in [Files -> FileStates]
  <1>1. files \in [Files -> FileStates] /\ urls \in Seq(Urls)
    BY DEF TypeOK, FileStates, MayStart
  <1>2. /\ files' \in [Files -> FileStates]
        /\ \A f \in Files : files'[f].running <=> files[f].running \/ f \in ToSet(urls)
    BY <1>1, RunningFacts
  <1> QED BY <1>2 DEF FilesAreOwned

LEMMA UpdaterWaitsOn ==
    ASSUME UpdaterIsOwned, UNCHANGED updater,
           \A u \in UpdaterUrls : u \in Requested(downloader') <=> u \in Requested(downloader)
    PROVE  UpdaterIsOwned'
  <1>1. (Forgotten' <=> Forgotten) /\ UrlOf(updater.type)' = UrlOf(updater.type)
    BY DEF Forgotten, DownloadRunning, UrlOf
  <1>2. Appcast \in UpdaterUrls
    BY UrlFacts
  <1> QED BY <1>1, <1>2 DEF UpdaterIsOwned

(* What may be requested is not yet in the queue. *)
LEMMA StartedIsNew ==
    ASSUME TypeOK, FilesAreOwned, NEW urls, MayStart(urls)
    PROVE  /\ ToSet(urls) \cap Requested(downloader) = {}
           /\ ToSet(urls) \cap ToSet(downloader.pending) = {}
           /\ ToSet(urls) \cap UpdaterUrls = {}
  <1>1. ToSet(urls) \cap Requested(downloader) = {}
    BY DEF MayStart, FilesAreOwned
  <1>2. ToSet(urls) \cap UpdaterUrls = {}
    BY UrlFacts DEF MayStart
  <1> QED BY <1>1, <1>2, RequestedFacts

LEMMA UpdaterTypes ==
    ASSUME TypeOK
    PROVE  /\ updater \in UpdaterStates
           /\ NoData \in [version : Versions \cup {None}, checksum : {"none"} \cup Contents]
           /\ NoData.version = None
  BY DEF TypeOK, NoData

(* The idle downloader has nothing to do. *)
LEMMA TypesTogether ==
    ASSUME TypeOK, downloader' \in Downloads, InOrder(downloader'), files' \in [Files -> FileStates],
           updater' \in UpdaterStates,
           UNCHANGED setup,
           disk' \in [Versions -> {"none"} \cup Contents],
           service' \in ServiceStates,
           ui' \in UiStates
    PROVE  TypeOK'
  BY DEF TypeOK, InOrder, FileStates

-----------------------------------------------------------------------------
(* Replies that finish. *)
LEMMA FileFinishedStep ==
    ASSUME IInv, FileFinished
    PROVE  IInv'
  <1> USE DEF IInv
  <1> DEFINE f    == downloader.reply.url
             idle == [files[f] EXCEPT !.running = FALSE]
  <1>1. f \in Files /\ f \in Urls /\ f \in Requested(downloader)
    BY RequestedFacts, UrlFacts DEF FileFinished
  <1>2. files \in [Files -> FileStates] /\ downloader \in Downloads
    BY DEF TypeOK, FileStates
  <1>3. MayStart(Following(f)) /\ f \notin ToSet(Following(f))
    BY <1>1, FollowingFacts
  <1>4. UNCHANGED <<setup, updater, disk, service, ui>>
    BY DEF FileFinished
  <1> DEFINE EndsWith(urls) ==
                 /\ MayStart(urls) /\ f \notin ToSet(urls) /\ downloader' = Finished(urls)
                 /\ \E fs \in [Files -> FileStates] :
                        /\ files' = UpdateRunning(fs, urls)
                        /\ \A g \in Files : fs[g].running <=> g # f /\ files[g].running
  <1>5. \E urls : EndsWith(urls)
    <2>1. ASSUME files' = UpdateRunning(Written(f), Following(f)),
                 downloader' = Finished(Following(f))
          PROVE  EndsWith(Following(f))
      <3>1. \A g \in Files : /\ Written(f)[g] \in FileStates
                             /\ Written(f)[g].running <=> g # f /\ files[g].running
        BY <1>2 DEF Written, FileStates
      <3>2. Written(f) = [g \in Files |-> Written(f)[g]]
        BY DEF Written
      <3>3. Written(f) \in [Files -> FileStates]
        BY <3>1, <3>2
      <3> QED BY <1>3, <2>1, <3>1, <3>3
    <2>2. ASSUME files' = UpdateRunning([files EXCEPT ![f] = [idle EXCEPT !.dirty = FALSE]], Following(f)),
                 downloader' = Finished(Following(f))
          PROVE  EndsWith(Following(f))
      <3> DEFINE fs == [files EXCEPT ![f] = [idle EXCEPT !.dirty = FALSE]]
      <3>1. fs \in [Files -> FileStates] /\ \A g \in Files : fs[g].running <=> g # f /\ files[g].running
        BY <1>1, <1>2 DEF FileStates
      <3> HIDE DEF fs
      <3> QED BY <1>3, <2>2, <3>1 DEF fs
    <2>3. ASSUME NEW s \in FileStates, ~s.running, files' = [files EXCEPT ![f] = s], downloader' = Finished(<<>>)
          PROVE  EndsWith(<<>>)
      <3> DEFINE fs == [files EXCEPT ![f] = s]
      <3>1. fs \in [Files -> FileStates] /\ \A g \in Files : fs[g].running <=> g # f /\ files[g].running
        BY <1>1, <1>2, <2>3
      <3>2. files' = UpdateRunning(fs, <<>>)
        <4>1. fs = [g \in Files |-> fs[g]]
          BY <3>1
        <4>2. \A g : ~Contains(<<>>, g)
          BY DEF Contains
        <4> HIDE DEF fs
        <4> QED BY <2>3, <4>1, <4>2 DEF UpdateRunning, fs
      <3> HIDE DEF fs
      <3> QED BY <2>3, <3>1, <3>2, StartNone
    <2>4. [idle EXCEPT !.dirty = FALSE] \in FileStates /\ idle \in FileStates
      BY <1>1, <1>2 DEF FileStates
    <2>5. ~[idle EXCEPT !.dirty = FALSE].running /\ ~idle.running
      BY <1>1, <1>2 DEF FileStates
    <2> QED BY <2>1, <2>2, <2>3, <2>4, <2>5 DEF FileFinished
  <1> HIDE DEF idle
  <1>6. PICK urls : EndsWith(urls)
    BY <1>5
  <1>7. urls \in Seq(Urls) /\ IsInjective(urls) /\ ToSet(urls) \subseteq Files
    BY <1>6 DEF MayStart
  <1>8. /\ downloader' \in Downloads /\ InOrder(downloader')
        /\ Requested(downloader') = (Requested(downloader) \ {f}) \cup ToSet(urls)
    BY <1>2, <1>6, <1>7, FinishedStep, StartedIsNew
  <1>9. /\ files' \in [Files -> FileStates]
        /\ \A g \in Files : files'[g].running <=> g \in ToSet(urls) \/ (g # f /\ files[g].running)
    BY <1>6, <1>7, RunningFacts
  <1> HIDE DEF f
  <1>10. FilesAreOwned'
    BY <1>8, <1>9 DEF FilesAreOwned
  <1>11. UpdaterIsOwned'
    <2>1. \A u \in UpdaterUrls : u # f /\ u \notin ToSet(urls)
      BY <1>1, <1>7, UrlFacts
    <2> QED BY <1>4, <1>8, <2>1, UpdaterWaitsOn
  <1>12. TypeOK'
    BY <1>4, <1>8, <1>9, TypesTogether DEF TypeOK
  <1>13. DataInv' /\ PackageIsVerified' /\ NextCheckIsDue'
    BY <1>4 DEF DataInv, DownloadRunning, PackageIsVerified, NextCheckIsDue
  <1> QED BY <1>8, <1>10, <1>11, <1>12, <1>13

(* The answer of the server, or its failure: the updater has asked for it, *)
(* and for nothing else.                                                   *)
LEMMA AppcastFinishedStep ==
    ASSUME IInv, AppcastFinished
    PROVE  IInv'
  <1> USE DEF IInv
  <1>1. downloader.reply.url = Appcast /\ Appcast \in Urls /\ Appcast \in UpdaterUrls
        /\ Appcast \in Requested(downloader) /\ Appcast \notin Files
    BY RequestedFacts, UrlFacts DEF AppcastFinished
  <1>2. /\ ~Forgotten /\ UrlOf(updater.type) = Appcast /\ updater.type = "updateInfo"
        /\ \A u \in UpdaterUrls : u \in Requested(downloader) => u = Appcast
    BY <1>1, UpdaterFacts DEF UpdaterIsOwned
  <1>3. downloader \in Downloads /\ files \in [Files -> FileStates]
    BY DEF TypeOK, FileStates
  <1>4. UNCHANGED <<setup, disk>>
    BY DEF AppcastFinished
  <1>5. ASSUME NEW urls, MayStart(urls), downloader' = Finished(urls), files' = UpdateRunning(files, urls),
               updater'.type = "none",
               updater' \in UpdaterStates,
               updater'.data.version = None => updater'.data = NoData,
               service' \in ServiceStates,
               service'.notes # 0, UNCHANGED <<service.timer, service.scheduled, service.posted>>,
               ui' \in UiStates,
               ui'.ready = ui.ready
        PROVE  IInv'
    <2>1. urls \in Seq(Urls) /\ IsInjective(urls)
      BY <1>5 DEF MayStart
    <2>2. /\ downloader' \in Downloads /\ InOrder(downloader')
          /\ Requested(downloader') = (Requested(downloader) \ {Appcast}) \cup ToSet(urls)
      BY <1>1, <1>3, <1>5, <2>1, FinishedStep, StartedIsNew
    <2>3. FilesAreOwned' /\ files' \in [Files -> FileStates]
      BY <1>1, <1>5, <2>2, FilesStarted
    <2>4. UpdaterIsOwned'
      <3>1. ~Forgotten'
        BY <1>5 DEF Forgotten, DownloadRunning
      <3>2. UrlOf(updater.type)' = NoUrl
        BY <1>5 DEF UrlOf
      <3>3. ToSet(urls) \cap UpdaterUrls = {}
        BY <1>5, StartedIsNew
      <3>4. \A u \in UpdaterUrls : u \notin Requested(downloader')
        BY <1>2, <2>2, <3>3
      <3> QED BY <3>1, <3>2, <3>4, UrlFacts DEF UpdaterIsOwned
    <2>5. TypeOK'
      <3>1. disk' \in [Versions -> {"none"} \cup Contents]
        BY <1>4 DEF TypeOK
      <3> QED BY <1>4, <1>5, <2>2, <2>3, <3>1, TypesTogether
    <2>6. DataInv' /\ PackageIsVerified' /\ NextCheckIsDue'
      BY <1>4, <1>5 DEF DataInv, DownloadRunning, PackageIsVerified, NextCheckIsDue
    <2> QED BY <2>2, <2>3, <2>4, <2>5, <2>6
  <1>6. ASSUME NEW v \in Versions, VersionInfoFound(v)
        PROVE  IInv'
    <2> DEFINE urls == (IF v > 0 /\ RequiresInitialUpdate(v) THEN Update(Notes(v)) ELSE <<>>) \o Update(Provider)
    <2>1. Notes(v) \in Files /\ Provider \in Files /\ Notes(v) # Provider
      BY UrlFacts
    <2>2. MayStart(urls)
      <3>1. Update(Provider) \in Seq(Urls)
        BY <2>1, UpdateFacts
      <3>2. <<>> \o Update(Provider) = Update(Provider)
        BY <3>1
      <3> QED BY <2>1, <3>2, StartOne, StartTwo
    <2>3. downloader' = Finished(urls) /\ files' = UpdateRunning(files, urls)
      BY <1>6 DEF VersionInfoFound
    <2> HIDE DEF urls
    <2>4. /\ updater' = [type |-> "none", data |-> [NoData EXCEPT !.version = v]]
          /\ service' = [service EXCEPT !.notes = IF v > 0 THEN v ELSE @]
          /\ ui' = [ui EXCEPT !.available = v > 0]
      BY <1>6 DEF VersionInfoFound
    <2>5. /\ updater' \in UpdaterStates
          /\ updater'.type = "none" /\ updater'.data.version # None
      <3>1. [NoData EXCEPT !.version = v] \in [version : Versions \cup {None}, checksum : {"none"} \cup Contents]
            /\ [NoData EXCEPT !.version = v].version = v
        BY UpdaterTypes
      <3> QED BY <2>4, <3>1, UrlFacts
    <2>6. /\ service' \in ServiceStates
          /\ service'.notes # 0 /\ UNCHANGED <<service.timer, service.scheduled, service.posted>>
      BY <2>4 DEF TypeOK, DataInv
    <2>7. /\ ui' \in UiStates
          /\ ui'.ready = ui.ready
      <3>1. (v > 0) \in BOOLEAN
        OBVIOUS
      <3> QED BY <2>4, <3>1 DEF TypeOK
    <2> QED BY <1>5, <2>2, <2>3, <2>5, <2>6, <2>7
  <1>7. updater.data \in [version : Versions \cup {None}, checksum : {"none"} \cup Contents]
    BY DEF TypeOK
  <1>8. CASE PlatformMissing
    <2>1. MayStart(Update(Provider))
      BY StartOne, UrlFacts
    <2>2. /\ updater' = [updater EXCEPT !.type = "none"] /\ ui' = [ui EXCEPT !.available = FALSE]
          /\ files' = UpdateRunning(files, Update(Provider)) /\ downloader' = Finished(Update(Provider))
          /\ service' = service
      BY <1>8 DEF PlatformMissing
    <2>3. /\ updater' \in UpdaterStates
          /\ updater'.type = "none" /\ updater'.data = updater.data
      BY <2>2, UpdaterTypes
    <2>4. /\ ui' \in UiStates
          /\ ui'.ready = ui.ready
      BY <2>2 DEF TypeOK
    <2> QED BY <1>5, <2>1, <2>2, <2>3, <2>4 DEF TypeOK, DataInv
  <1>9. ASSUME UpdaterFailed(Appcast), ui' = [ui EXCEPT !.available = StillAvailable(Appcast)],
               downloader' = Finished(<<>>), UNCHANGED <<files, service>>
        PROVE  IInv'
    <2>1. Recognised(Appcast)
      BY <1>2 DEF Recognised
    <2>2. /\ updater' \in UpdaterStates
          /\ updater'.type = "none" /\ updater'.data = updater.data
      BY <1>9, <2>1, UpdaterTypes DEF UpdaterFailed
    <2>3. /\ ui' \in UiStates
          /\ ui'.ready = ui.ready
      <3>1. StillAvailable(Appcast) \in BOOLEAN
        BY DEF StillAvailable
      <3> QED BY <1>9, <3>1 DEF TypeOK
    <2>4. files' = UpdateRunning(files, <<>>)
      <3>1. \A g : ~Contains(<<>>, g)
        BY DEF Contains
      <3> QED BY <1>3, <1>9, <3>1 DEF UpdateRunning
    <2> QED BY <1>5, <1>9, <2>2, <2>3, <2>4, StartNone DEF TypeOK, DataInv
  <1> QED BY <1>6, <1>8, <1>9 DEF AppcastFinished

(* The end of a download of the updater that has forgotten it: nobody waits. *)
LEMMA ForgottenEndsStep ==
    ASSUME IInv, downloader.reply.url \in UpdaterUrls, Forgotten,
           downloader' = Finished(<<>>), UNCHANGED <<setup, updater, files, disk, service, ui>>
    PROVE  IInv'
  <1> USE DEF IInv
  <1> DEFINE url == downloader.reply.url
  <1>1. downloader \in Downloads /\ url \notin Files
    BY UrlFacts DEF TypeOK
  <1>2. /\ downloader' \in Downloads /\ InOrder(downloader')
        /\ Requested(downloader') = Requested(downloader) \ {url}
    BY <1>1, EndedStep
  <1> HIDE DEF url
  <1>3. FilesAreOwned'
    BY <1>1, <1>2 DEF FilesAreOwned
  <1>4. UpdaterIsOwned'
    <2>1. Forgotten'
      BY DEF Forgotten, DownloadRunning
    <2> QED BY <1>2, <2>1 DEF UpdaterIsOwned
  <1>5. TypeOK'
    BY <1>2, TypesTogether DEF TypeOK
  <1>6. DataInv' /\ PackageIsVerified' /\ NextCheckIsDue'
    BY DEF DataInv, DownloadRunning, PackageIsVerified, NextCheckIsDue
  <1> QED BY <1>2, <1>3, <1>4, <1>5, <1>6

(* The end of a download the updater waits for. *)
LEMMA UpdaterEndsStep ==
    ASSUME IInv, downloader.reply.url \in UpdaterUrls, ~Forgotten,
           downloader' = Finished(<<>>), updater' = [updater EXCEPT !.type = "none"],
           UNCHANGED <<setup, files, service>>,
           disk' \in [Versions -> {"none"} \cup Contents],
           ui' \in UiStates, ui'.ready # None => disk'[ui'.ready] = "good"
    PROVE  IInv'
  <1> USE DEF IInv
  <1> DEFINE url == downloader.reply.url
  <1>1. downloader \in Downloads /\ url \notin Files /\ url \in Requested(downloader)
    BY UrlFacts, RequestedFacts DEF TypeOK
  <1>2. /\ downloader' \in Downloads /\ InOrder(downloader')
        /\ Requested(downloader') = Requested(downloader) \ {url}
    BY <1>1, EndedStep
  <1>3. \A u \in UpdaterUrls : u \in Requested(downloader) => u = url
    BY <1>1 DEF UpdaterIsOwned
  <1> HIDE DEF url
  <1>4. FilesAreOwned'
    BY <1>1, <1>2 DEF FilesAreOwned
  <1>5. updater' \in UpdaterStates /\ updater'.type = "none" /\ updater'.data = updater.data
    BY UpdaterTypes
  <1>6. UpdaterIsOwned'
    <2>1. ~Forgotten' /\ UrlOf(updater.type)' = NoUrl
      BY <1>5 DEF Forgotten, DownloadRunning, UrlOf
    <2> QED BY <1>2, <1>3, <2>1, UrlFacts DEF UpdaterIsOwned
  <1>7. TypeOK'
    BY <1>2, <1>5, TypesTogether DEF TypeOK
  <1>8. DataInv' /\ PackageIsVerified' /\ NextCheckIsDue'
    BY <1>5 DEF DataInv, DownloadRunning, PackageIsVerified, NextCheckIsDue
  <1> QED BY <1>2, <1>4, <1>6, <1>7, <1>8

(* What the updater recognises is what it waits for. *)
LEMMA RecognisedFacts ==
    ASSUME IInv, NEW v \in Versions
    PROVE  /\ downloader.reply.url = Checksum(v) =>
                  IF Forgotten THEN ~Recognised(Checksum(v))
                  ELSE /\ Recognised(Checksum(v)) /\ updater.type = "checksum"
                       /\ updater.data.version = v /\ updater.data # NoData
           /\ downloader.reply.url = Package(v) =>
                  IF Forgotten THEN ~Recognised(Package(v))
                  ELSE /\ Recognised(Package(v)) /\ updater.type = "application"
                       /\ updater.data.version = v /\ updater.data # NoData
  <1> USE DEF IInv
  <1>1. Checksum(v) \in UpdaterUrls /\ Package(v) \in UpdaterUrls /\ UpdaterUrls \subseteq Urls
        /\ Checksum(v) # Appcast /\ Package(v) # Appcast
    BY UrlFacts
  <1>2. Forgotten => ~Recognised(Checksum(v)) /\ ~Recognised(Package(v))
    <2>1. Forgotten => updater.data.version = None
      BY DEF Forgotten, NoData
    <2>2. None # v
      BY UrlFacts
    <2> QED BY <1>1, <2>1, <2>2, UrlFacts DEF Recognised
  <1>3. ~Forgotten /\ downloader.reply.url = Checksum(v) =>
            updater.type = "checksum" /\ updater.data.version = v /\ updater.data # NoData
    BY <1>1, RequestedFacts, UpdaterFacts DEF UpdaterIsOwned
  <1>4. ~Forgotten /\ downloader.reply.url = Package(v) =>
            updater.type = "application" /\ updater.data.version = v /\ updater.data # NoData
    BY <1>1, RequestedFacts, UpdaterFacts DEF UpdaterIsOwned
  <1> QED BY <1>2, <1>3, <1>4 DEF Recognised

LEMMA ChecksumFinishedStep ==
    ASSUME IInv, ChecksumFinished
    PROVE  IInv'
  <1> USE DEF IInv
  <1>1. downloader.reply.url \in Urls
    <2>1. NoUrl.kind = "none"
      BY DEF NoUrl, Url
    <2> QED BY <2>1 DEF ChecksumFinished, TypeOK, Downloads
  <1>2. PICK v \in Versions : downloader.reply.url = Checksum(v)
    BY <1>1, UrlFacts DEF ChecksumFinished
  <1>3. Checksum(v) \in UpdaterUrls /\ Package(v) \in UpdaterUrls /\ Package(v) # Checksum(v)
        /\ Package(v) \in Urls /\ Checksum(v) \notin Files /\ Package(v) \notin Files
    BY UrlFacts
  <1>4. UNCHANGED <<setup, files, disk, service>>
    BY DEF ChecksumFinished
  <1>5. ASSUME NEW checksum \in Contents, Recognised(Checksum(v)), ChecksumStored(checksum)
        PROVE  IInv'
    <2> DEFINE valid == checksum = "good" /\ disk[v] = "good"
    <2>1. /\ ~Forgotten /\ updater.type = "checksum" /\ updater.data.version = v /\ updater.data # NoData
      BY <1>2, <1>5, RecognisedFacts
    <2>2. /\ updater' = [type |-> IF valid THEN "none" ELSE "application",
                         data |-> [version |-> v, checksum |-> checksum]]
          /\ ui' = [ui EXCEPT !.ready = IF valid THEN v ELSE @]
          /\ downloader' = Finished(IF valid THEN <<>> ELSE <<Package(v)>>)
      BY <1>5, <2>1 DEF ChecksumStored
    <2> HIDE DEF valid
    <2>3. /\ updater' \in UpdaterStates /\ updater'.data.version = v
          /\ updater'.type = IF valid THEN "none" ELSE "application"
          /\ updater'.data # NoData
      BY <2>2, UrlFacts DEF NoData
    <2>4. \A u \in UpdaterUrls : u \in Requested(downloader) => u = Checksum(v)
      BY <1>2, <1>3, <2>1, UpdaterFacts DEF UpdaterIsOwned
    <2> DEFINE urls == IF valid THEN <<>> ELSE <<Package(v)>>
    <2>5. urls \in Seq(Urls) /\ IsInjective(urls) /\ ToSet(urls) = IF valid THEN {} ELSE {Package(v)}
      <3>1. <<>> \in Seq(Urls) /\ <<Package(v)>> \in Seq(Urls)
        BY <1>3
      <3> QED BY <3>1, EmptyQueue, SingleQueue
    <2> HIDE DEF urls
    <2>6. /\ downloader' \in Downloads /\ InOrder(downloader')
          /\ Requested(downloader') = (Requested(downloader) \ {Checksum(v)}) \cup ToSet(urls)
      <3>1. ToSet(urls) \cap ToSet(downloader.pending) = {}
        BY <1>3, <2>4, <2>5, RequestedFacts
      <3>2. downloader' = Finished(urls) /\ downloader \in Downloads
        BY <2>2 DEF urls, TypeOK
      <3> QED BY <1>2, <2>5, <3>1, <3>2, FinishedStep
    <2>7. FilesAreOwned'
      BY <1>3, <1>4, <2>5, <2>6 DEF FilesAreOwned
    <2>8. UpdaterIsOwned'
      <3>1. ~Forgotten' /\ UrlOf(updater.type)' = IF valid THEN NoUrl ELSE Package(v)
        BY <2>3 DEF Forgotten, DownloadRunning, UrlOf
      <3>2. \A u \in UpdaterUrls : u \in Requested(downloader') <=> ~valid /\ u = Package(v)
        BY <1>3, <2>4, <2>5, <2>6
      <3> QED BY <3>1, <3>2, UrlFacts DEF UpdaterIsOwned
    <2>9. ui' \in UiStates /\ ui'.ready = IF valid THEN v ELSE ui.ready
      BY <2>2 DEF TypeOK
    <2>10. TypeOK'
      BY <1>4, <2>3, <2>6, <2>9, TypesTogether DEF TypeOK
    <2>11. DataInv' /\ PackageIsVerified' /\ NextCheckIsDue'
      <3>1. ui.ready = None
        BY <2>1 DEF DataInv, DownloadRunning
      <3>2. DataInv'
        BY <1>4, <2>3, <2>9, <3>1, UrlFacts DEF DataInv, DownloadRunning
      <3>3. PackageIsVerified' /\ NextCheckIsDue'
        BY <1>4, <2>9, <3>1 DEF valid, PackageIsVerified, NextCheckIsDue
      <3> QED BY <3>2, <3>3
    <2> QED BY <2>6, <2>7, <2>8, <2>10, <2>11
  <1>6. ASSUME ~Recognised(Checksum(v)), downloader' = Finished(<<>>), UNCHANGED <<updater, ui>>
        PROVE  IInv'
    BY <1>2, <1>3, <1>4, <1>6, RecognisedFacts, ForgottenEndsStep
  <1>7. ASSUME UpdaterFailed(Checksum(v)), downloader' = Finished(<<>>), UNCHANGED ui
        PROVE  IInv'
    <2>1. CASE Forgotten
      <3>1. updater' = updater
        BY <1>2, <1>7, <2>1, RecognisedFacts DEF UpdaterFailed
      <3> QED BY <1>2, <1>3, <1>4, <1>7, <2>1, <3>1, ForgottenEndsStep
    <2>2. CASE ~Forgotten
      <3>1. updater' = [updater EXCEPT !.type = "none"]
        BY <1>2, <1>7, <2>2, RecognisedFacts DEF UpdaterFailed
      <3> QED BY <1>2, <1>3, <1>4, <1>7, <2>2, <3>1, UpdaterEndsStep DEF TypeOK, PackageIsVerified
    <2> QED BY <2>1, <2>2
  <1> QED BY <1>2, <1>5, <1>6, <1>7 DEF ChecksumFinished

LEMMA PackageFinishedStep ==
    ASSUME IInv, PackageFinished
    PROVE  IInv'
  <1> USE DEF IInv
  <1>1. downloader.reply.url \in Urls
    <2>1. NoUrl.kind = "none"
      BY DEF NoUrl, Url
    <2> QED BY <2>1 DEF PackageFinished, TypeOK, Downloads
  <1>2. PICK v \in Versions : downloader.reply.url = Package(v)
    BY <1>1, UrlFacts DEF PackageFinished
  <1>3. Package(v) \in UpdaterUrls
    BY UrlFacts
  <1>4. UNCHANGED <<setup, files, service>> /\ downloader' = Finished(<<>>)
    BY DEF PackageFinished
  <1>5. ASSUME Recognised(Package(v)), (\E content \in Contents : PackageStored(content)) \/ PackageNotStored
        PROVE  IInv'
    <2>1. ~Forgotten /\ updater.type = "application" /\ updater.data.version = v
      BY <1>2, <1>5, RecognisedFacts
    <2>2. ui.ready = None /\ ui \in UiStates /\ disk \in [Versions -> {"none"} \cup Contents]
      BY <2>1 DEF DataInv, DownloadRunning, TypeOK
    <2> DEFINE Stored ==
                   /\ updater' = [updater EXCEPT !.type = "none"]
                   /\ disk' \in [Versions -> {"none"} \cup Contents]
                   /\ ui' \in UiStates /\ (ui'.ready # None => disk'[ui'.ready] = "good")
    <2>3. Stored
      <3>1. ASSUME NEW content \in Contents, PackageStored(content)
            PROVE  Stored
        BY <2>1, <2>2, <3>1 DEF PackageStored
      <3>2. CASE PackageNotStored
        BY <2>1, <2>2, <3>2 DEF PackageNotStored
      <3> QED BY <1>5, <3>1, <3>2
    <2> QED BY <1>2, <1>3, <1>4, <2>1, <2>3, UpdaterEndsStep
  <1>6. ASSUME ~Recognised(Package(v)), UNCHANGED <<updater, disk, ui>>
        PROVE  IInv'
    BY <1>2, <1>3, <1>4, <1>6, RecognisedFacts, ForgottenEndsStep
  <1>7. ASSUME UpdaterFailed(Package(v)), UNCHANGED <<disk, ui>>
        PROVE  IInv'
    <2>1. CASE Forgotten
      <3>1. updater' = updater
        BY <1>2, <1>7, <2>1, RecognisedFacts DEF UpdaterFailed
      <3> QED BY <1>2, <1>3, <1>4, <1>7, <2>1, <3>1, ForgottenEndsStep
    <2>2. CASE ~Forgotten
      <3>1. updater' = [updater EXCEPT !.type = "none"]
        BY <1>2, <1>7, <2>2, RecognisedFacts DEF UpdaterFailed
      <3> QED BY <1>2, <1>3, <1>4, <1>7, <2>2, <3>1, UpdaterEndsStep DEF TypeOK, PackageIsVerified
    <2> QED BY <2>1, <2>2
  <1> QED BY <1>2, <1>5, <1>6, <1>7 DEF PackageFinished

-----------------------------------------------------------------------------
(* Requests. *)

(* The files whose update is started are requested. *)
LEMMA FilesRequestedStep ==
    ASSUME IInv, NEW urls, MayStart(urls), downloader' = Scheduled(urls), files' = UpdateRunning(files, urls),
           UNCHANGED <<setup, updater, disk, ui>>,
           service' \in ServiceStates, service'.notes = service.notes, NextCheckIsDue'
    PROVE  IInv'
  <1> USE DEF IInv
  <1>1. downloader \in Downloads /\ urls \in Seq(Urls) /\ IsInjective(urls)
    BY DEF TypeOK, MayStart
  <1>2. /\ downloader' \in Downloads /\ InOrder(downloader')
        /\ Requested(downloader') = Requested(downloader) \cup ToSet(urls)
    BY <1>1, ScheduledStep, StartedIsNew
  <1>3. Requested(downloader) \ {NoUrl} = Requested(downloader) /\ NoUrl \notin Files
    BY UrlFacts, RequestedFacts
  <1>4. FilesAreOwned' /\ files' \in [Files -> FileStates]
    BY <1>2, <1>3, FilesStarted
  <1>5. UpdaterIsOwned'
    BY <1>2, StartedIsNew, UpdaterWaitsOn
  <1>6. TypeOK'
    BY <1>2, <1>4, TypesTogether DEF TypeOK
  <1>7. DataInv' /\ PackageIsVerified'
    BY DEF DataInv, DownloadRunning, PackageIsVerified
  <1> QED BY <1>2, <1>4, <1>5, <1>6, <1>7

LEMMA CheckAppUpdateStep ==
    ASSUME IInv, CheckAppUpdate, UNCHANGED <<setup, files, disk, ui>>,
           service' \in ServiceStates, service'.notes = service.notes, NextCheckIsDue'
    PROVE  IInv'
  <1> USE DEF IInv
  <1>1. downloader \in Downloads /\ Appcast \in Urls /\ Appcast \in UpdaterUrls /\ Appcast \notin Files
    BY UrlFacts DEF TypeOK
  <1>2. /\ updater' \in UpdaterStates /\ updater'.data = NoData
        /\ updater'.type = IF updater.type = "none" THEN "updateInfo" ELSE updater.type
    BY UpdaterFacts, UpdaterTypes DEF CheckAppUpdate
  <1>3. /\ Forgotten' <=> DownloadRunning
        /\ UrlOf(updater.type)' = IF updater.type \in {"none", "updateInfo"} THEN Appcast ELSE NoUrl
    BY <1>2, UpdaterFacts DEF Forgotten, DownloadRunning, UrlOf
  <1>4. CASE updater.type = "none"
    <2>1. \A u \in UpdaterUrls : u \notin Requested(downloader)
      BY <1>4, UpdaterFacts, UrlFacts DEF UpdaterIsOwned, Forgotten, DownloadRunning
    <2>2. <<Appcast>> \in Seq(Urls) /\ IsInjective(<<Appcast>>) /\ ToSet(<<Appcast>>) = {Appcast}
      BY <1>1, SingleQueue
    <2>3. /\ downloader' \in Downloads /\ InOrder(downloader')
          /\ Requested(downloader') = Requested(downloader) \cup {Appcast}
      BY <1>1, <1>4, <2>1, <2>2, ScheduledStep DEF CheckAppUpdate
    <2>4. FilesAreOwned'
      BY <1>1, <2>3 DEF FilesAreOwned
    <2>5. UpdaterIsOwned'
      BY <1>1, <1>3, <1>4, <2>1, <2>3 DEF UpdaterIsOwned, DownloadRunning
    <2>6. TypeOK'
      BY <1>2, <2>3, TypesTogether DEF TypeOK
    <2>7. DataInv' /\ PackageIsVerified'
      BY <1>2, <1>4 DEF DataInv, DownloadRunning, PackageIsVerified
    <2> QED BY <2>3, <2>4, <2>5, <2>6, <2>7
  <1>5. CASE updater.type # "none"
    <2>1. downloader' = downloader
      BY <1>5 DEF CheckAppUpdate
    <2>2. FilesAreOwned'
      BY <2>1 DEF FilesAreOwned
    <2>3. DownloadRunning => Appcast \notin Requested(downloader)
      BY <1>1, UpdaterFacts DEF UpdaterIsOwned, DownloadRunning
    <2>4. UpdaterIsOwned'
      <3>1. CASE DownloadRunning
        BY <1>3, <2>1, <2>3, <3>1 DEF UpdaterIsOwned
      <3>2. CASE ~DownloadRunning
        <4>1. updater.type = "updateInfo" /\ ~Forgotten /\ UrlOf(updater.type) = Appcast
          BY <1>5, <3>2, UpdaterFacts DEF DownloadRunning, Forgotten
        <4> QED BY <1>3, <2>1, <3>2, <4>1 DEF UpdaterIsOwned
      <3> QED BY <3>1, <3>2
    <2>5. TypeOK'
      BY <1>2, <2>1 DEF TypeOK
    <2>6. DataInv' /\ PackageIsVerified'
      BY <1>2, <1>5 DEF DataInv, DownloadRunning, PackageIsVerified
    <2> QED BY <2>1, <2>2, <2>4, <2>5, <2>6
  <1> QED BY <1>4, <1>5

LEMMA DoAppUpdateStep ==
    ASSUME IInv, NEW force \in BOOLEAN, DoAppUpdate(force), ~force => service.posted > 0
    PROVE  IInv'
  <1> USE DEF IInv
  <1> DEFINE available == setup.auto # "unavailable"
  <1>1. service' = [service EXCEPT !.timer = @ \/ available, !.posted = IF force THEN @ ELSE @ - 1]
        /\ UNCHANGED <<setup, disk, ui>>
    BY DEF DoAppUpdate
  <1>2. available \in BOOLEAN /\ service \in ServiceStates
    BY DEF TypeOK
  <1>3. NextCheckIsDue'
    <2>1. setup.auto # "unavailable" => service'.timer
      BY <1>1, <1>2
    <2> QED BY <1>1, <2>1 DEF NextCheckIsDue
  <1> HIDE DEF available
  <1>4. service' \in ServiceStates /\ service'.notes = service.notes
    <2>1. (service.timer \/ available) \in BOOLEAN
      BY <1>2
    <2>2. (IF force THEN service.posted ELSE service.posted - 1) \in Nat
      BY <1>2
    <2> QED BY <1>1, <1>2, <2>1, <2>2
  <1>5. CASE CheckAppUpdate /\ UNCHANGED files
    BY <1>1, <1>3, <1>4, <1>5, CheckAppUpdateStep
  <1>6. CASE /\ files' = UpdateRunning(files, Update(Provider))
             /\ downloader' = Scheduled(Update(Provider)) /\ UNCHANGED updater
    <2>1. MayStart(Update(Provider))
      BY StartOne, UrlFacts
    <2> QED BY <1>1, <1>3, <1>4, <1>6, <2>1, FilesRequestedStep
  <1> QED BY <1>5, <1>6 DEF DoAppUpdate

(* A step of the timer or of the window. *)
LEMMA WindowSteps ==
    ASSUME IInv, TimedUpdateTriggered \/ ShowUi \/ HideUi \/ OpenUpdateView \/ Shutdown
    PROVE  IInv'
  <1> USE DEF IInv
  <1>1. ASSUME UNCHANGED <<setup, updater, files, disk>>,
               downloader' \in Downloads, downloader'.pending = downloader.pending,
               downloader'.reply = downloader.reply,
               service' \in ServiceStates, service'.notes = service.notes, NextCheckIsDue',
               ui' \in UiStates, ui'.ready = ui.ready
        PROVE  IInv'
    <2>1. InOrder(downloader') /\ Requested(downloader') = Requested(downloader)
      BY <1>1 DEF InOrder, Requested
    <2>2. FilesAreOwned' /\ UpdaterIsOwned'
      BY <1>1, <2>1, UpdaterWaitsOn DEF FilesAreOwned
    <2>3. TypeOK'
      BY <1>1, <2>1, TypesTogether DEF TypeOK
    <2>4. DataInv' /\ PackageIsVerified'
      BY <1>1 DEF DataInv, DownloadRunning, PackageIsVerified
    <2> QED BY <1>1, <2>1, <2>2, <2>3, <2>4
  <1>2. downloader \in Downloads /\ service \in ServiceStates /\ ui \in UiStates
    BY DEF TypeOK
  <1>7. /\ service.posted \in Nat /\ service.days \in Nat /\ service.posted + 1 \in Nat
        /\ service.days + 1 \in Nat /\ service.posted + 1 > 0 /\ service.posted + 1 >= service.posted
        /\ service.posted >= service.posted
    BY <1>2
  <1>3. CASE TimedUpdateTriggered
    <2>1. service' \in ServiceStates /\ service'.notes = service.notes /\ (service'.scheduled \/ service'.posted > 0)
      <3>1. CASE ui.hidden
        BY <1>2, <1>3, <1>7, <3>1 DEF TimedUpdateTriggered
      <3>2. CASE ~ui.hidden
        <4>1. service' = [service EXCEPT !.scheduled = FALSE, !.posted = @ + 1, !.timer = FALSE, !.days = @ + 1]
          BY <1>2, <1>3, <3>2 DEF TimedUpdateTriggered, RunUpdateIfNeeded
        <4> QED BY <1>2, <1>7, <4>1
      <3> QED BY <3>1, <3>2
    <2> QED BY <1>1, <1>2, <1>3, <2>1 DEF TimedUpdateTriggered, NextCheckIsDue
  <1>4. CASE ShowUi
    <2>1. /\ service' \in ServiceStates /\ service'.notes = service.notes /\ service'.timer = service.timer
          /\ service'.posted >= service.posted /\ (service.scheduled => service'.posted > 0)
      <3>1. CASE service.scheduled
        <4>1. service' = [service EXCEPT !.scheduled = FALSE, !.posted = @ + 1]
          BY <1>4, <3>1 DEF ShowUi, RunUpdateIfNeeded
        <4> QED BY <1>2, <1>7, <4>1
      <3>2. CASE ~service.scheduled
        <4>1. service' = [service EXCEPT !.scheduled = FALSE]
          BY <1>2, <1>4, <3>2 DEF ShowUi, RunUpdateIfNeeded
        <4> QED BY <1>2, <1>7, <3>2, <4>1
      <3> QED BY <3>1, <3>2
    <2>2. NextCheckIsDue'
      BY <1>2, <1>4, <2>1 DEF ShowUi, NextCheckIsDue
    <2> QED BY <1>1, <1>2, <1>4, <2>1, <2>2 DEF ShowUi
  <1>5. CASE HideUi \/ OpenUpdateView
    BY <1>1, <1>2, <1>5 DEF HideUi, OpenUpdateView, NextCheckIsDue
  <1>6. CASE Shutdown
    BY <1>1, <1>2, <1>6 DEF Shutdown, NextCheckIsDue, Downloads
  <1> QED BY <1>3, <1>4, <1>5, <1>6

LEMMA StartUpdateStep ==
    ASSUME IInv, StartUpdate
    PROVE  IInv'
  <1> USE DEF IInv
  <1> DEFINE v == updater.data.version
             url == Checksum(v)
  <1>1. v \in Versions /\ updater.type = "none" /\ ~Forgotten /\ updater.data # NoData
    BY UpdaterFacts DEF StartUpdate, Forgotten, DownloadRunning
  <1>2. url \in Urls /\ url \in UpdaterUrls /\ url \notin Files
    BY <1>1, UrlFacts
  <1>3. /\ updater' \in UpdaterStates /\ updater'.type = "checksum" /\ updater'.data = updater.data
        /\ downloader' = Scheduled(<<url>>) /\ downloader \in Downloads
        /\ ui' \in UiStates /\ ui'.ready = None
        /\ UNCHANGED <<setup, files, disk, service>>
    BY UpdaterTypes DEF StartUpdate, TypeOK
  <1>4. UrlOf(updater.type)' = url /\ ~Forgotten'
    BY <1>1, <1>3 DEF UrlOf, Forgotten
  <1> HIDE DEF url, v
  <1>5. \A u \in UpdaterUrls : u \notin Requested(downloader)
    BY <1>1, UpdaterFacts, UrlFacts DEF UpdaterIsOwned
  <1>6. <<url>> \in Seq(Urls) /\ IsInjective(<<url>>) /\ ToSet(<<url>>) = {url}
    BY <1>2, SingleQueue
  <1>7. /\ downloader' \in Downloads /\ InOrder(downloader')
        /\ Requested(downloader') = Requested(downloader) \cup {url}
    <2>1. ToSet(<<url>>) \cap Requested(downloader) = {}
      BY <1>2, <1>5, <1>6
    <2> QED BY <1>3, <1>6, <2>1, ScheduledStep
  <1>8. FilesAreOwned' /\ UpdaterIsOwned'
    BY <1>2, <1>3, <1>4, <1>5, <1>7 DEF FilesAreOwned, UpdaterIsOwned
  <1>9. TypeOK'
    BY <1>3, <1>7, TypesTogether DEF TypeOK
  <1>10. DataInv' /\ PackageIsVerified' /\ NextCheckIsDue'
    BY <1>3 DEF DataInv, PackageIsVerified, NextCheckIsDue
  <1> QED BY <1>7, <1>8, <1>9, <1>10

(* The updater is told that its download has failed exactly if nothing is  *)
(* left of the request; a dead reply fails later.                          *)
LEMMA AbortDownloadStep ==
    ASSUME IInv, NEW viewing \in BOOLEAN, AbortDownload(viewing)
    PROVE  IInv'
  <1> USE DEF IInv
  <1> DEFINE url == UrlOf(updater.type)
             failed == url # NoUrl /\ AbortReports(url)
             dead == downloader.reply.url = url /\ downloader.reply.dead
  <1>1. /\ downloader' = IF url # NoUrl THEN Aborted(url) ELSE downloader
        /\ IF failed THEN UpdaterFailed(url) ELSE UNCHANGED updater
        /\ ui' = [ui EXCEPT !.available = IF failed THEN StillAvailable(url) ELSE @, !.viewing = viewing]
        /\ UNCHANGED <<setup, files, disk, service>>
    BY DEF AbortDownload
  <1>2. downloader \in Downloads /\ ui \in UiStates
    BY DEF TypeOK
  <1>3. ui' \in UiStates /\ ui'.ready = ui.ready
    <2>1. StillAvailable(url) \in BOOLEAN
      BY DEF StillAvailable
    <2>2. (IF failed THEN StillAvailable(url) ELSE ui.available) \in BOOLEAN
      BY <1>2, <2>1
    <2> QED BY <1>1, <1>2, <2>2
  <1>4. url \in UpdaterUrls \cup {NoUrl}
    BY UpdaterFacts
  <1>5. CASE url = NoUrl
    <2>1. downloader' = downloader /\ updater' = updater
      BY <1>1, <1>5
    <2>2. FilesAreOwned' /\ UpdaterIsOwned'
      BY <1>1, <2>1, UpdaterWaitsOn DEF FilesAreOwned
    <2>3. TypeOK' /\ DataInv' /\ PackageIsVerified' /\ NextCheckIsDue'
      BY <1>1, <1>3, <2>1 DEF TypeOK, DataInv, DownloadRunning, PackageIsVerified, NextCheckIsDue
    <2> QED BY <2>1, <2>2, <2>3
  <1>6. CASE url # NoUrl
    <2>1. url \in UpdaterUrls /\ url \in Urls /\ url \notin Files
      BY <1>4, <1>6, UrlFacts
    <2>2. ~Forgotten /\ updater.type # "none" /\ url \in Requested(downloader)
      BY <1>6, <2>1, UpdaterFacts DEF UpdaterIsOwned
    <2>3. /\ downloader' \in Downloads /\ InOrder(downloader')
          /\ Requested(downloader') = IF dead THEN Requested(downloader) ELSE Requested(downloader) \ {url}
          /\ failed <=> ~dead
      BY <1>1, <1>2, <1>6, <2>1, <2>2, AbortedStep
    <2>4. FilesAreOwned'
      BY <1>1, <2>1, <2>3 DEF FilesAreOwned
    <2>5. CASE dead
      <3>1. updater' = updater
        BY <1>1, <2>3, <2>5
      <3>2. UpdaterIsOwned'
        BY <2>3, <2>5, <3>1, UpdaterWaitsOn
      <3>3. TypeOK'
        BY <1>1, <1>3, <2>3, <3>1, TypesTogether DEF TypeOK
      <3>4. DataInv' /\ PackageIsVerified' /\ NextCheckIsDue'
        BY <1>1, <1>3, <3>1 DEF DataInv, DownloadRunning, PackageIsVerified, NextCheckIsDue
      <3> QED BY <2>3, <2>4, <3>2, <3>3, <3>4
    <2>6. CASE ~dead
      <3>1. Recognised(url)
        <4>1. updater.type = "updateInfo" => url = Appcast
          BY UpdaterFacts
        <4>2. updater.type = "checksum" => url = Checksum(updater.data.version)
          BY <1>6 DEF UrlOf
        <4>3. updater.type = "application" => url = Package(updater.data.version)
          BY <1>6 DEF UrlOf
        <4> QED BY <2>2, <4>1, <4>2, <4>3, UpdaterFacts DEF Recognised
      <3>2. updater' = [updater EXCEPT !.type = "none"]
        BY <1>1, <2>3, <2>6, <3>1 DEF UpdaterFailed
      <3>3. updater' \in UpdaterStates /\ updater'.type = "none" /\ updater'.data = updater.data
        BY <3>2, UpdaterTypes
      <3>4. UpdaterIsOwned'
        <4>1. ~Forgotten' /\ UrlOf(updater.type)' = NoUrl
          BY <3>3 DEF Forgotten, DownloadRunning, UrlOf
        <4>2. \A u \in UpdaterUrls : u \in Requested(downloader) => u = url
          BY <2>2 DEF UpdaterIsOwned
        <4> HIDE DEF url
        <4> QED BY <2>3, <2>6, <4>1, <4>2, UrlFacts DEF UpdaterIsOwned
      <3>5. TypeOK'
        BY <1>1, <1>3, <2>3, <3>3, TypesTogether DEF TypeOK
      <3>6. DataInv' /\ PackageIsVerified' /\ NextCheckIsDue'
        BY <1>1, <1>3, <3>3 DEF DataInv, DownloadRunning, PackageIsVerified, NextCheckIsDue
      <3> QED BY <2>3, <2>4, <3>4, <3>5, <3>6
    <2> QED BY <2>5, <2>6
  <1> QED BY <1>5, <1>6

LEMMA UserSteps ==
    ASSUME IInv, User
    PROVE  IInv'
  <1>1. CASE ShowUi \/ HideUi \/ OpenUpdateView
    BY <1>1, WindowSteps
  <1>2. CASE SearchUpdate
    BY <1>2, DoAppUpdateStep DEF SearchUpdate
  <1>3. CASE AbortSearch \/ CancelUpdate
    <2>1. ui.viewing \in BOOLEAN
      BY DEF IInv, TypeOK
    <2> QED BY <1>3, <2>1, AbortDownloadStep DEF AbortSearch, CancelUpdate
  <1>4. CASE LeaveUpdateView
    <2>1. CASE AbortDownload(FALSE)
      BY <2>1, AbortDownloadStep
    <2>2. CASE ui' = [ui EXCEPT !.viewing = FALSE] /\ UNCHANGED <<setup, downloader, updater, files, disk, service>>
      <3> USE DEF IInv
      <3>1. ui' \in UiStates /\ ui'.ready = ui.ready
        BY <2>2 DEF TypeOK
      <3>2. FilesAreOwned' /\ UpdaterIsOwned'
        BY <2>2, UpdaterWaitsOn DEF FilesAreOwned
      <3> QED BY <2>2, <3>1, <3>2 DEF TypeOK, DataInv, DownloadRunning, PackageIsVerified, NextCheckIsDue
    <2> QED BY <1>4, <2>1, <2>2 DEF LeaveUpdateView
  <1>5. CASE StartUpdate
    BY <1>5, StartUpdateStep
  <1>6. CASE LookUpIcon
    <2>1. Icon \in Files /\ Update(Icon) = <<Icon>>
      BY <1>6, UrlFacts DEF LookUpIcon, Update, IInv, TypeOK
    <2>2. MayStart(<<Icon>>)
      BY <2>1, StartOne
    <2> QED BY <1>6, <2>2, FilesRequestedStep DEF LookUpIcon, IInv, TypeOK, NextCheckIsDue
  <1> QED BY <1>1, <1>2, <1>3, <1>4, <1>5, <1>6 DEF User

-----------------------------------------------------------------------------
LEMMA InitInv == Init => IInv
  <1> SUFFICES ASSUME Init PROVE IInv
    OBVIOUS
  <1>1. /\ downloader.reply = NoReply /\ downloader.pending = <<>> /\ downloader \in Downloads
        /\ NoReply.url = NoUrl
    BY DEF Init, Downloads, NoReply
  <1>2. InOrder(downloader) /\ Requested(downloader) = {}
    BY <1>1, EmptyQueue DEF InOrder, Requested
  <1>3. setup \in [auto : {"unavailable", "off", "on"}, cached : BOOLEAN,
                   package : {"none", "good", "bad"}, days : Nat, exits : BOOLEAN]
    BY UpdatesAssumption DEF Init
  <1>4. files \in [Files -> FileStates] /\ \A f \in Files : ~files[f].running
    BY <1>3 DEF Init, FileStates
  <1>5. disk \in [Versions -> {"none"} \cup Contents]
    BY <1>3 DEF Init, Contents
  <1>6. updater \in UpdaterStates /\ updater.data = NoData /\ updater.type = "none"
    BY DEF Init, NoData
  <1>7. service \in ServiceStates /\ ui \in UiStates /\ service.notes = None /\ ui.ready = None /\ service.timer
    BY DEF Init
  <1>8. TypeOK
    BY <1>1, <1>4, <1>5, <1>6, <1>7 DEF TypeOK, Init
  <1>9. FilesAreOwned
    BY <1>2, <1>4 DEF FilesAreOwned
  <1>10. UpdaterIsOwned
    BY <1>2, <1>6, UrlFacts DEF UpdaterIsOwned, UrlOf, Forgotten, DownloadRunning
  <1>11. DataInv /\ PackageIsVerified /\ NextCheckIsDue
    BY <1>6, <1>7, UrlFacts DEF DataInv, DownloadRunning, PackageIsVerified, NextCheckIsDue
  <1> QED BY <1>2, <1>8, <1>9, <1>10, <1>11 DEF IInv

LEMMA StepInv == IInv /\ [Next]_vars => IInv'
  <1> SUFFICES ASSUME IInv, [Next]_vars PROVE IInv'
    OBVIOUS
  <1>1. CASE UNCHANGED vars
    <2> USE <1>1 DEF vars, IInv
    <2>1. UpdaterIsOwned'
      BY UpdaterWaitsOn
    <2>2. TypeOK'
      BY DEF TypeOK
    <2> QED BY <2>1, <2>2 DEF FilesAreOwned, DataInv, DownloadRunning, PackageIsVerified, NextCheckIsDue
  <1>2. CASE Next
    <2>1. ASSUME PostedUpdate PROVE IInv'
      BY <2>1, DoAppUpdateStep DEF PostedUpdate
    <2> QED BY <1>2, <2>1, FileFinishedStep, AppcastFinishedStep, ChecksumFinishedStep, PackageFinishedStep,
            WindowSteps, UserSteps DEF Next, ReplyFinished
  <1> QED BY <1>1, <1>2

(* What is requested once is counted once. *)
LEMMA RequestsCounted ==
    ASSUME TypeOK, InOrder(downloader), NEW url \in Urls
    PROVE  Times(url) = IF url \in Requested(downloader) THEN 1 ELSE 0
  <1> DEFINE q == downloader.pending
             at == {i \in DOMAIN Requests : Requests[i] = url}
  <1>1. q \in Seq(Urls) /\ Len(q) \in Nat /\ DOMAIN q = 1..Len(q) /\ IsInjective(q)
    BY DEF TypeOK, Downloads, InOrder
  <1>2. /\ DOMAIN Requests = 1..(Len(q) + 1)
        /\ Requests[1] = downloader.reply.url
        /\ \A i \in 1..Len(q) : Requests[i + 1] = q[i]
    <2>1. downloader.reply.url \in Urls \cup {NoUrl}
      BY DEF TypeOK, Downloads
    <2>2. q \in Seq(Urls \cup {NoUrl}) /\ <<downloader.reply.url>> \in Seq(Urls \cup {NoUrl})
      BY <1>1, <2>1
    <2> QED BY <1>1, <2>2 DEF Requests
  <1> HIDE DEF q
  <1>3. \A i \in DOMAIN Requests : i = 1 \/ (i - 1 \in 1..Len(q) /\ Requests[i] = q[i - 1])
    BY <1>1, <1>2
  <1>4. ToSet(q) = {q[i] : i \in 1..Len(q)}
    BY <1>1 DEF ToSet
  <1>5. Requested(downloader) = ToSet(q) \cup ({downloader.reply.url} \ {NoUrl})
        /\ downloader.reply.url \notin ToSet(q) /\ url # NoUrl
    BY UrlFacts DEF Requested, InOrder, q
  <1>6. CASE url \in Requested(downloader)
    <2>1. \E i \in DOMAIN Requests : Requests[i] = url
      BY <1>1, <1>2, <1>4, <1>5, <1>6
    <2>2. ASSUME NEW i \in at, NEW j \in at
          PROVE  i = j
      <3>1. CASE i = 1 /\ j = 1
        BY <3>1
      <3>2. CASE i # 1 /\ j # 1
        BY <1>1, <1>2, <1>3, <3>2 DEF IsInjective
      <3>3. CASE i = 1 /\ j # 1
        BY <1>2, <1>3, <1>4, <1>5, <3>3
      <3>4. CASE i # 1 /\ j = 1
        BY <1>2, <1>3, <1>4, <1>5, <3>4
      <3> QED BY <3>1, <3>2, <3>3, <3>4
    <2>3. PICK k : at = {k}
      BY <2>1, <2>2
    <2> HIDE DEF at
    <2> QED BY <1>6, <2>3, FS_Singleton DEF Times, at
  <1>7. CASE url \notin Requested(downloader)
    <2>1. at = {}
      BY <1>2, <1>3, <1>4, <1>5, <1>7
    <2> HIDE DEF at
    <2> QED BY <1>7, <2>1, FS_EmptySet DEF Times, at
  <1> QED BY <1>6, <1>7

LEMMA RequestsOwned == IInv => RequestsAreOwned
  <1> SUFFICES ASSUME IInv PROVE RequestsAreOwned
    OBVIOUS
  <1>1. \A u \in Urls : Times(u) = IF u \in Requested(downloader) THEN 1 ELSE 0
    BY RequestsCounted DEF IInv
  <1>2. \A f \in Files : Times(f) = IF files[f].running THEN 1 ELSE 0
    BY <1>1, UrlFacts DEF IInv, FilesAreOwned
  <1>3. ~Forgotten => \A u \in UpdaterUrls : Times(u) = IF u = UrlOf(updater.type) THEN 1 ELSE 0
    BY <1>1, UrlFacts DEF IInv, UpdaterIsOwned
  <1> QED BY <1>2, <1>3 DEF RequestsAreOwned

(* All of it together holds throughout every behaviour.                    *)
THEOREM Invariance == Spec => []IInv
  <1> QED BY InitInv, StepInv, PTL DEF Spec

(* Type correctness: requests, data and files are only ever what the code  *)
(* constructs, and the Downloader is never idle while requests wait.       *)
THEOREM TypeCorrect == Spec => []TypeOK
  <1>1. IInv => TypeOK
    BY DEF IInv
  <1> QED BY <1>1, Invariance, PTL

(* Each requester that waits has exactly one request in the Downloader,    *)
(* however updates, aborts and answers follow each other, and no request   *)
(* is left of one that does not wait (Downloader, UpdatableFile::update,   *)
(* AppUpdater::download).                                                  *)
THEOREM RequestsHaveOwners == Spec => []RequestsAreOwned
  <1> QED BY Invariance, RequestsOwned, PTL

(* A package that is announced as ready is intact                          *)
(* (handleChecksumDownloadFinished, handleAppDownloadFinished).            *)
THEOREM PackagesAreVerified == Spec => []PackageIsVerified
  <1>1. IInv => PackageIsVerified
    BY DEF IInv
  <1> QED BY <1>1, Invariance, PTL

(* The daily check is never lost (doAppUpdate, runUpdateIfNeeded).         *)
THEOREM ChecksGoOn == Spec => []NextCheckIsDue
  <1>1. IInv => NextCheckIsDue
    BY DEF IInv
  <1> QED BY <1>1, Invariance, PTL
=============================================================================
