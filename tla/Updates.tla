------------------------------ MODULE Updates ------------------------------
(***************************************************************************)
(* Updates of the program and of its data files: the Service that decides  *)
(* when to look, the AppUpdater that fetches update information, checksum  *)
(* and package, the UpdatableFiles, and the Downloader that all of them    *)
(* share and that runs one download at a time.                             *)
(*                                                                         *)
(* Everything is on the main thread and calls directly: one event, e.g. a  *)
(* finished reply, runs the handler of the requester, what that handler    *)
(* requests in turn, and the start of the next download.  An answer is     *)
(* broadcast; a requester recognises it by its URL.                        *)
(*                                                                         *)
(* Scope: a desktop build; one provider icon and one release note per      *)
(* version stand for all; beta versions are left out.                      *)
(***************************************************************************)
EXTENDS Integers, Sequences, SequencesExt

CONSTANTS
    Newest,   \* versions the server may publish: 0 (the installed one) .. Newest
    Setups    \* instances: automatic checks; files and package there from the beginning;
              \* bounds: expiries of the daily timer, the shutdown happens

ASSUME UpdatesAssumption ==
    /\ Newest \in Nat
    /\ Setups \subseteq [auto : {"unavailable", "off", "on"}, cached : BOOLEAN,
                         package : {"none", "good", "bad"}, days : Nat, exits : BOOLEAN]

VARIABLES
    setup,       \* the chosen instance
    downloader,  \* the current reply, the pending requests, NetworkManager exiting
    updater,     \* AppUpdater: its kind of download and its AppUpdateData
    files,       \* UpdatableFiles by URL
    disk,        \* the downloaded package of each version
    service,     \* Service and the posted calls of doAppUpdate
    ui           \* window, update view, AppUpdateDataModel

vars == <<setup, downloader, updater, files, disk, service, ui>>

None     == -1
Versions == 0..Newest
Contents == {"good", "bad"}

(* What a URL names. *)
Url(kind, v)  == [kind |-> kind, version |-> v]
Provider      == Url("provider", 0)
Reader        == Url("reader", 0)
Icon          == Url("icon", 0)
Notes(v)      == Url("notes", v)
Files         == {Provider, Reader, Icon} \cup {Notes(v) : v \in Versions}
Appcast       == Url("appcast", 0)
Checksum(v)   == Url("checksum", v)
Package(v)    == Url("package", v)
UpdaterUrls   == {Appcast} \cup {Checksum(v) : v \in Versions} \cup {Package(v) : v \in Versions}
Urls          == Files \cup UpdaterUrls
NoUrl         == Url("none", 0)
NoReply       == [url |-> NoUrl, aborted |-> FALSE, dead |-> FALSE]
NoData        == [version |-> None, checksum |-> "none"]

Downloads     == [reply : [url : Urls \cup {NoUrl}, aborted : BOOLEAN, dead : BOOLEAN],
                  pending : Seq(Urls), exiting : BOOLEAN]
UpdaterStates == [type : {"none", "updateInfo", "checksum", "application"},
                  data : [version : Versions \cup {None}, checksum : {"none"} \cup Contents]]
FileStates    == [running : BOOLEAN, cached : BOOLEAN, dirty : BOOLEAN]
ServiceStates == [timer : BOOLEAN, days : Nat, scheduled : BOOLEAN, posted : Nat,
                  notes : Versions \cup {None}]
UiStates      == [hidden : BOOLEAN, available : BOOLEAN, viewing : BOOLEAN,
                  ready : Versions \cup {None}]

TypeOK ==
    /\ setup \in Setups
    /\ downloader \in Downloads
    /\ downloader.reply = NoReply => downloader.pending = <<>>
    /\ updater \in UpdaterStates
    /\ files \in [Files -> FileStates]
    /\ disk \in [Versions -> {"none"} \cup Contents]
    /\ service \in ServiceStates
    /\ ui \in UiStates

------------------------------------------------------------------------------
(* Downloader.                                                             *)

(* A mutant: the guard forgets the current reply but starts nothing new.   *)
StartedOnce(queue) == [downloader EXCEPT !.reply = NoReply, !.pending = queue]

(* startDownloadIfPending without a current reply.  After the shutdown of  *)
(* the NetworkManager a reply fails by itself and cannot be aborted.       *)
Started(queue) ==
    IF queue = <<>>
    THEN [downloader EXCEPT !.reply = NoReply, !.pending = <<>>]
    ELSE [downloader EXCEPT
             !.reply = [url |-> Head(queue), aborted |-> FALSE, dead |-> downloader.exiting],
             !.pending = Tail(queue)]

(* download() of each URL in turn. *)
Scheduled(urls) ==
    IF downloader.reply = NoReply
    THEN Started(urls)
    ELSE [downloader EXCEPT !.pending = @ \o urls]

(* The end of onNetworkReplyFinished, after its signal has scheduled urls. *)
Finished(urls) == Started(downloader.pending \o urls)

(* erase_if: the queue without the requests of the URL. *)
Without(queue, url) ==
    LET kept[i \in 0..Len(queue)] ==
            IF i = 0 THEN <<>>
            ELSE IF queue[i] = url THEN kept[i - 1]
            ELSE Append(kept[i - 1], queue[i])
    IN  kept[Len(queue)]

(* A mutant: abort() ends the search once it has found the current reply.  *)
AbortedNothingPending(url) ==
    IF downloader.reply.url # url THEN downloader
    ELSE IF downloader.reply.dead THEN [downloader EXCEPT !.reply.aborted = TRUE]
    ELSE Finished(<<>>)

(* abort(url): a running reply ends at once, which starts the next one;    *)
(* then pending requests of the URL are removed.                           *)
Aborted(url) ==
    LET hit     == downloader.reply.url = url
        stopped == IF ~hit THEN downloader
                   ELSE IF downloader.reply.dead
                        THEN [downloader EXCEPT !.reply.aborted = TRUE]
                        ELSE Finished(<<>>)
    IN  [stopped EXCEPT !.pending = Without(@, url)]

(* abort(url) tells the listeners of the URL that the download failed. *)
AbortReports(url) ==
    \/ downloader.reply.url = url /\ ~downloader.reply.dead
    \/ Contains(downloader.pending, url)

------------------------------------------------------------------------------
(* UpdatableFile and Service.                                              *)

(* update(): requests the file unless it is being updated already.         *)
Update(f) == IF files[f].running THEN <<>> ELSE <<f>>

UpdateRunning(fs, urls) ==
    [f \in Files |-> IF Contains(urls, f) THEN [fs[f] EXCEPT !.running = TRUE] ELSE fs[f]]

(* ReleaseInformation::requiresInitialUpdate: a note that is not there.    *)
RequiresInitialUpdate(v) == ~files[Notes(v)].cached

(* ReleaseInformationConfiguration::updateIfNeeded.                        *)
ReleaseInformation ==
    IF ~RequiresInitialUpdate(0) THEN <<>>
    ELSE Update(Notes(0)) \o (IF service.notes = None THEN <<>> ELSE Update(Notes(service.notes)))

(* The next step of doAppUpdate when the update of a file is finished.     *)
Following(f) ==
    CASE f = Provider -> Update(Reader)
      [] f = Reader   -> ReleaseInformation
      [] OTHER        -> <<>>

------------------------------------------------------------------------------
(* AppUpdater.                                                             *)

UrlOf(type) ==
    CASE type = "updateInfo" -> Appcast
      [] type = "checksum" /\ updater.data # NoData    -> Checksum(updater.data.version)
      [] type = "application" /\ updater.data # NoData -> Package(updater.data.version)
      [] OTHER -> NoUrl

DownloadRunning == updater.type \in {"checksum", "application"}

(* checkAppUpdate: the data is cleared before download() refuses a second  *)
(* download at a time.                                                     *)
CheckAppUpdate ==
    /\ updater' = [type |-> IF updater.type = "none" THEN "updateInfo" ELSE updater.type,
                   data |-> NoData]
    /\ downloader' = IF updater.type = "none" THEN Scheduled(<<Appcast>>) ELSE downloader

(* A mutant: the timer is started only together with a check.              *)
DoAppUpdateChecking(force) ==
    LET checks == setup.auto = "on" \/ (force /\ setup.auto = "off")
    IN  /\ service' = [service EXCEPT !.timer = @ \/ checks,
                                      !.posted = IF force THEN @ ELSE @ - 1]
        /\ IF checks
           THEN CheckAppUpdate /\ UNCHANGED files
           ELSE /\ files' = UpdateRunning(files, Update(Provider))
                /\ downloader' = Scheduled(Update(Provider))
                /\ UNCHANGED updater
        /\ UNCHANGED <<setup, disk, ui>>

(* doAppUpdate(APPCAST).                                                   *)
DoAppUpdate(force) ==
    /\ service' = [service EXCEPT !.timer = @ \/ setup.auto # "unavailable",
                                  !.posted = IF force THEN @ ELSE @ - 1]
    /\ IF setup.auto = "on" \/ (force /\ setup.auto = "off")
       THEN CheckAppUpdate /\ UNCHANGED files
       ELSE /\ files' = UpdateRunning(files, Update(Provider))
            /\ downloader' = Scheduled(Update(Provider))
            /\ UNCHANGED updater
    /\ UNCHANGED <<setup, disk, ui>>

(* The updater listens while it downloads, and knows the URLs of its data. *)
Recognised(url) ==
    /\ updater.type # "none"
    /\ url \in {Appcast, Checksum(updater.data.version), Package(updater.data.version)}

(* A mutant: a failed check is reported, but the updater keeps listening.  *)
UpdaterFailedListening(url) ==
    updater' = IF Recognised(url) /\ url # Appcast THEN [updater EXCEPT !.type = "none"]
               ELSE updater

(* onDownloadFailed of the updater, and what the window shows then.        *)
UpdaterFailed(url) ==
    updater' = IF Recognised(url) THEN [updater EXCEPT !.type = "none"] ELSE updater

StillAvailable(url) == ui.available /\ ~(Recognised(url) /\ url = Appcast)

------------------------------------------------------------------------------
(* Replies that finish: the signal of the Downloader, the handlers, and    *)
(* the next download.                                                      *)

(* A new file is in the cache; new provider data make the icons dirty. *)
Written(f) ==
    [g \in Files |->
        IF g = f THEN [running |-> FALSE, cached |-> TRUE, dirty |-> FALSE]
        ELSE IF g = Icon /\ f = Provider THEN [files[g] EXCEPT !.dirty = TRUE]
        ELSE files[g]]

FileFinished ==
    LET f    == downloader.reply.url
        idle == [files[f] EXCEPT !.running = FALSE]
        urls == Following(f)
    IN  /\ f \in Files
        /\ \/ /\ ~downloader.reply.dead    \* written to the cache
              /\ files' = UpdateRunning(Written(f), urls)
              /\ downloader' = Finished(urls)
           \/ /\ ~downloader.reply.dead    \* not written
              /\ files' = [files EXCEPT ![f] = [idle EXCEPT !.dirty = FALSE]]
              /\ downloader' = Finished(<<>>)
           \/ /\ ~downloader.reply.dead    \* not modified
              /\ files[f].cached
              /\ files' = UpdateRunning(
                     [files EXCEPT ![f] = [idle EXCEPT !.dirty = FALSE]], urls)
              /\ downloader' = Finished(urls)
           \/ /\ files' = [files EXCEPT ![f] = idle]    \* failed
              /\ downloader' = Finished(<<>>)
        /\ UNCHANGED <<setup, updater, disk, service, ui>>

(* handleVersionInfoDownloadFinished, Service::onAppcastFinished.          *)
VersionInfoFound(v) ==
    LET newer == v > 0
        urls == (IF newer /\ RequiresInitialUpdate(v) THEN Update(Notes(v)) ELSE <<>>)
                \o Update(Provider)
    IN  /\ updater' = [type |-> "none", data |-> [NoData EXCEPT !.version = v]]
        /\ service' = [service EXCEPT !.notes = IF newer THEN v ELSE @]
        /\ ui' = [ui EXCEPT !.available = newer]
        /\ files' = UpdateRunning(files, urls)
        /\ downloader' = Finished(urls)

(* An answer without the data of this platform; the files are updated.     *)
PlatformMissing ==
    /\ updater' = [updater EXCEPT !.type = "none"]
    /\ ui' = [ui EXCEPT !.available = FALSE]
    /\ files' = UpdateRunning(files, Update(Provider))
    /\ downloader' = Finished(Update(Provider))
    /\ UNCHANGED service

AppcastFinished ==
    /\ downloader.reply.url = Appcast
    /\ \/ /\ ~downloader.reply.dead
          /\ (\E v \in Versions : VersionInfoFound(v)) \/ PlatformMissing
       \/ /\ UpdaterFailed(Appcast)    \* failed, or the data is broken
          /\ ui' = [ui EXCEPT !.available = StillAvailable(Appcast)]
          /\ downloader' = Finished(<<>>)
          /\ UNCHANGED <<files, service>>
    /\ UNCHANGED <<setup, disk>>

(* A mutant: a package that is there already is used as it is.             *)
ChecksumStoredTrusting(checksum) ==
    LET v     == updater.data.version
        there == disk[v] # "none"
    IN  /\ updater' = [type |-> IF there THEN "none" ELSE "application",
                       data |-> [version |-> v, checksum |-> checksum]]
        /\ ui' = [ui EXCEPT !.ready = IF there THEN v ELSE @]
        /\ downloader' = Finished(IF there THEN <<>> ELSE <<Package(v)>>)

(* handleChecksumDownloadFinished: a package that is there already and is  *)
(* valid is used, otherwise it is downloaded.                              *)
ChecksumStored(checksum) ==
    LET v     == updater.data.version
        valid == checksum = "good" /\ disk[v] = "good"
    IN  /\ updater' = [type |-> IF valid THEN "none" ELSE "application",
                       data |-> [version |-> v, checksum |-> checksum]]
        /\ ui' = [ui EXCEPT !.ready = IF valid THEN v ELSE @]
        /\ downloader' = Finished(IF valid THEN <<>> ELSE <<Package(v)>>)

ChecksumFinished ==
    /\ downloader.reply.url.kind = "checksum"
    /\ \/ /\ ~downloader.reply.dead
          /\ Recognised(downloader.reply.url)
          /\ \E checksum \in Contents : ChecksumStored(checksum)
       \/ /\ ~downloader.reply.dead
          /\ ~Recognised(downloader.reply.url)
          /\ downloader' = Finished(<<>>)
          /\ UNCHANGED <<updater, ui>>
       \/ /\ UpdaterFailed(downloader.reply.url)
          /\ downloader' = Finished(<<>>)
          /\ UNCHANGED ui
    /\ UNCHANGED <<setup, files, disk, service>>

(* handleAppDownloadFinished: the package is saved and compared.           *)
PackageStored(content) ==
    LET v     == updater.data.version
        valid == content = "good" /\ updater.data.checksum = "good"
    IN  /\ disk' = [disk EXCEPT ![v] = content]
        /\ updater' = [updater EXCEPT !.type = "none"]
        /\ ui' = [ui EXCEPT !.ready = IF valid THEN v ELSE @]

(* save() fails: the file cannot be opened, or not be written completely.  *)
PackageNotStored ==
    /\ \/ UNCHANGED disk
       \/ disk' = [disk EXCEPT ![updater.data.version] = "none"]
    /\ updater' = [updater EXCEPT !.type = "none"]
    /\ UNCHANGED ui

PackageFinished ==
    /\ downloader.reply.url.kind = "package"
    /\ \/ /\ ~downloader.reply.dead
          /\ Recognised(downloader.reply.url)
          /\ (\E content \in Contents : PackageStored(content)) \/ PackageNotStored
       \/ /\ ~downloader.reply.dead
          /\ ~Recognised(downloader.reply.url)
          /\ UNCHANGED <<updater, disk, ui>>
       \/ /\ UpdaterFailed(downloader.reply.url)
          /\ UNCHANGED <<disk, ui>>
    /\ downloader' = Finished(<<>>)
    /\ UNCHANGED <<setup, files, service>>

------------------------------------------------------------------------------
(* The Service's timer and the posted call of doAppUpdate.                 *)

(* What is posted to the main thread runs before what happens after it was *)
(* posted.  A reply that was queued earlier is no exception: its handler   *)
(* has nothing in common with what posts, so it may as well run first.     *)
NothingPosted == service.posted = 0

RunUpdateIfNeeded(scheduled) ==
    [service EXCEPT !.scheduled = FALSE, !.posted = IF scheduled THEN @ + 1 ELSE @]

TimedUpdateTriggered ==
    /\ NothingPosted /\ service.timer /\ service.days < setup.days
    /\ service' = [IF ui.hidden THEN [service EXCEPT !.scheduled = TRUE]
                   ELSE RunUpdateIfNeeded(TRUE)
                   EXCEPT !.timer = FALSE, !.days = @ + 1]
    /\ UNCHANGED <<setup, downloader, updater, files, disk, ui>>

PostedUpdate == service.posted > 0 /\ DoAppUpdate(FALSE)

------------------------------------------------------------------------------
(* The user.                                                               *)

ShowUi ==
    /\ ui.hidden
    /\ ui' = [ui EXCEPT !.hidden = FALSE]
    /\ service' = RunUpdateIfNeeded(service.scheduled)
    /\ UNCHANGED <<setup, downloader, updater, files, disk>>

HideUi ==
    /\ ~ui.hidden
    /\ ui' = [ui EXCEPT !.hidden = TRUE]
    /\ UNCHANGED <<setup, downloader, updater, files, disk, service>>

(* "Start manual search" in the settings, shown while no update is known. *)
SearchUpdate ==
    /\ ~ui.hidden /\ setup.auto # "unavailable"
    /\ ~ui.available /\ updater.type # "updateInfo"
    /\ DoAppUpdate(TRUE)

(* abortDownload of the updater, in the update view or outside of it.      *)
AbortDownload(viewing) ==
    LET url    == UrlOf(updater.type)
        failed == url # NoUrl /\ AbortReports(url)
    IN  /\ downloader' = IF url # NoUrl THEN Aborted(url) ELSE downloader
        /\ IF failed THEN UpdaterFailed(url) ELSE UNCHANGED updater
        /\ ui' = [ui EXCEPT !.available = IF failed THEN StillAvailable(url) ELSE @,
                            !.viewing = viewing]
        /\ UNCHANGED <<setup, files, disk, service>>

AbortSearch ==
    /\ ~ui.hidden /\ ~ui.available /\ updater.type = "updateInfo"
    /\ AbortDownload(ui.viewing)

OpenUpdateView ==
    /\ ~ui.hidden /\ ui.available /\ ~ui.viewing
    /\ ui' = [ui EXCEPT !.viewing = TRUE]
    /\ UNCHANGED <<setup, downloader, updater, files, disk, service>>

(* "Back", or "Cancel" while an update is downloaded. *)
LeaveUpdateView ==
    /\ ~ui.hidden /\ ui.viewing
    /\ IF DownloadRunning
       THEN AbortDownload(FALSE)
       ELSE /\ ui' = [ui EXCEPT !.viewing = FALSE]
            /\ UNCHANGED <<setup, downloader, updater, files, disk, service>>

(* "Start update": downloadUpdate does nothing without valid data or while *)
(* another download of the updater runs.                                   *)
StartUpdate ==
    /\ ~ui.hidden /\ ui.viewing /\ ~DownloadRunning
    /\ updater.data # NoData /\ updater.type = "none"
    /\ updater' = [updater EXCEPT !.type = "checksum"]
    /\ downloader' = Scheduled(<<Checksum(updater.data.version)>>)
    /\ ui' = [ui EXCEPT !.ready = None]
    /\ UNCHANGED <<setup, files, disk, service>>

(* "Cancel update", shown while an update is downloaded. *)
CancelUpdate ==
    /\ ~ui.hidden /\ ui.viewing /\ DownloadRunning
    /\ AbortDownload(TRUE)

(* A view shows the icon of a provider: lookupPath updates a dirty file. *)
LookUpIcon ==
    /\ ~ui.hidden /\ files[Icon].dirty /\ ~files[Icon].running
    /\ files' = UpdateRunning(files, <<Icon>>)
    /\ downloader' = Scheduled(<<Icon>>)
    /\ UNCHANGED <<setup, updater, disk, service, ui>>

(* onShutdown of the NetworkManager; what it aborts fails. *)
Shutdown ==
    /\ NothingPosted /\ setup.exits /\ ~downloader.exiting
    /\ downloader' = [downloader EXCEPT !.exiting = TRUE]
    /\ UNCHANGED <<setup, updater, files, disk, service, ui>>

------------------------------------------------------------------------------
Init ==
    /\ setup \in Setups
    /\ downloader = [reply |-> NoReply, pending |-> <<>>, exiting |-> FALSE]
    /\ updater = [type |-> "none", data |-> NoData]
    /\ files = [f \in Files |-> [running |-> FALSE, cached |-> setup.cached, dirty |-> FALSE]]
    /\ disk = [v \in Versions |-> setup.package]
    /\ service = [timer |-> TRUE, days |-> 0, scheduled |-> TRUE, posted |-> 0, notes |-> None]
    /\ ui = [hidden |-> TRUE, available |-> FALSE, viewing |-> FALSE, ready |-> None]

ReplyFinished ==
    NothingPosted /\ (FileFinished \/ AppcastFinished \/ ChecksumFinished \/ PackageFinished)

User ==
    /\ NothingPosted
    /\ \/ ShowUi \/ HideUi \/ SearchUpdate \/ AbortSearch \/ OpenUpdateView \/ LeaveUpdateView
       \/ StartUpdate \/ CancelUpdate \/ LookUpIcon

Next == ReplyFinished \/ TimedUpdateTriggered \/ PostedUpdate \/ User \/ Shutdown

Spec == Init /\ [][Next]_vars

(* A transfer ends by its transfer timeout at the latest (prepareConnection *)
(* sets one), and what is posted is handled. *)
Fairness == WF_vars(ReplyFinished) /\ WF_vars(PostedUpdate)

FairSpec == Spec /\ Fairness

------------------------------------------------------------------------------
(* Each requester that waits for a download has exactly one request in the *)
(* Downloader, and no request is left of one that does not wait.  The      *)
(* updater is excepted while it has forgotten what it downloads.           *)
Requests == <<downloader.reply.url>> \o downloader.pending
Times(url) == Cardinality({i \in DOMAIN Requests : Requests[i] = url})
Forgotten == DownloadRunning /\ updater.data = NoData
RequestsAreOwned ==
    /\ \A f \in Files : Times(f) = IF files[f].running THEN 1 ELSE 0
    /\ Forgotten \/ \A u \in UpdaterUrls : Times(u) = IF u = UrlOf(updater.type) THEN 1 ELSE 0

(* A package announced as ready to be installed is the one of its version  *)
(* and intact, whatever lay in the download folder before.                 *)
PackageIsVerified == ui.ready # None => disk[ui.ready] = "good"

(* Builds that look for updates never lose the daily check: the timer      *)
(* runs, or a check is scheduled or about to start.                        *)
NextCheckIsDue ==
    setup.auto # "unavailable" => service.timer \/ service.scheduled \/ service.posted > 0

(* Every download ends for the one that waits for it, and so do those that *)
(* are queued behind it; the updater unless it forgets what it downloads.  *)
DownloadsEnd ==
    /\ \A f \in Files : files[f].running ~> ~files[f].running
    /\ updater.type # "none" ~> updater.type = "none" \/ Forgotten

(* "Cancel update" is shown while an update is downloaded and cancels the   *)
(* download: the abort finds its request, also when a day has passed and   *)
(* the automatic check was due meanwhile (doAppUpdate, checkAppUpdate).    *)
CancelStopsDownload ==
    ui.viewing /\ DownloadRunning /\ ~downloader.exiting => AbortReports(UrlOf(updater.type))
=============================================================================
