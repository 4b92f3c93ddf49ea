------------------------------ MODULE Packages ------------------------------
(***************************************************************************)
(* The pkg commands of one sn0int shell against the registry: the module   *)
(* folder, the library loaded from it, InstallTask and UpdateTask on the   *)
(* threads of spawn_multi, and the background check of AutoUpdater with    *)
(* the file autoupdate.json both it and the commands read and write.       *)
(*                                                                         *)
(* fs::write truncates and then writes: a write can fail or be cut by a    *)
(* crash in between, and two threads may write the same module.  A file    *)
(* loads as soon as its metadata header is whole, whatever follows it.     *)
(***************************************************************************)
EXTENDS Registry

CONSTANTS
  Private,    \* modules of a folder that is a symlink or a git repository
  Installs,   \* what pkg install is asked for: <<module, version or None, force>>
  Interval,   \* UPDATE_INTERVAL
  MaxStarts,  \* bound: how often the shell is started
  Empty,      \* a file that was truncated and not written yet
  Broken      \* a file without a whole header, or one that is not UTF-8

ASSUME PackagesAssumption ==
  Private \subseteq Modules /\ Installs \subseteq Modules \X (Versions \cup {None}) \X BOOLEAN
   /\ Interval \in Nat /\ MaxStarts \in Nat

VARIABLES
  file,    \* the module folder: None, Empty, Broken, or the release whose header
           \* the file has, and whether the rest is that release's as well
  lib,     \* the library in memory: the version of each module, None if absent
  auto,    \* autoupdate.json: [registry, last, outdated]
  cmd,     \* the pkg command that runs; "down" when there is no shell
  mine,    \* autoupdate.json as the command has loaded it
  job,     \* the task of each module
  chk,     \* the background check
  starts,  \* how often the shell was started
  clean,   \* observation: updated while no check ran, and no check since
  torn     \* observation: files with a write that was cut, or overlapped by
           \* another one, since a task last opened them alone

clientVars == <<file, lib, auto, cmd, mine, job, chk, starts, clean, torn>>
packageVars == <<registryVars, clientVars>>

Default == [registry |-> None, last |-> 0, outdated |-> {}]   \* AutoUpdater::default
NoJob == [pc |-> "none", target |-> None, version |-> None, code |-> None,
          force |-> FALSE, replaces |-> FALSE, raced |-> FALSE]
NoCheck == [pc |-> "none", state |-> Default, todo |-> {}]
-----------------------------------------------------------------------------
(* The library.                                                             *)

(* Module::load reads the metadata header, load_unchecked takes any code; a *)
(* file without a header is only warned about.                              *)
Loaded(f) == f \notin {None, Empty, Broken}
(* reload_modules_quiet *)
ReloadModules == [m \in Modules |-> IF Loaded(file[m]) THEN file[m].version ELSE None]
(* Library::list *)
Installed == {m \in Modules : lib[m] # None}
(* list without the private modules, which pkg update and the check skip    *)
Public == Installed \ Private

(* A shell runs whose start was too close to the last check for another.    *)
Init ==
  /\ RegistryInit
  /\ file = [m \in Modules |->
       IF FindOpt(m) THEN LET x == CHOOSE y \in releases : y.module = m
                          IN  [version |-> x.version, code |-> x.code, whole |-> TRUE]
       ELSE None]
  /\ lib = ReloadModules
  /\ auto = Default
  /\ cmd = "idle" /\ mine = Default /\ starts = 1 /\ clean = {} /\ torn = {}
  /\ job = [m \in Modules |-> NoJob]
  /\ chk = NoCheck

(* The shell starts: the library is loaded and, when the interval is over,  *)
(* the check starts with the modules and the state as they are now.         *)
Start ==
  /\ cmd = "down" /\ starts < MaxStarts
  /\ starts' = starts + 1
  /\ cmd' = "idle"
  /\ lib' = ReloadModules
  /\ IF auto.last + Interval >= clock THEN UNCHANGED chk
     ELSE chk' = [NoCheck EXCEPT !.pc = "latest", !.state = auto,
                    !.todo = {<<m, lib'[m]>> : m \in Public'}]
  /\ UNCHANGED <<registryVars, file, auto, mine, job, clean, torn>>

(* A write by task j that stops halfway: the file is as it was, or new up   *)
(* to a point before or after the end of the header.                        *)
Cut(j) ==
  LET m == job[j].target IN
  IF file[m] = None THEN {None}
  ELSE {file[m], Broken, [version |-> job[j].version, code |-> job[j].code, whole |-> FALSE]}

(* The tasks that have opened the file of m.                                *)
Writers(m) == {j \in Modules : job[j].pc = "write" /\ job[j].target = m}

(* The shell is killed: only the files stay.  A write of autoupdate.json    *)
(* that was under way leaves a file that loads as the default.              *)
Crash ==
  /\ cmd # "down"
  /\ cmd' = "down" /\ mine' = Default /\ chk' = NoCheck /\ clean' = {}
  /\ job' = [m \in Modules |-> NoJob]
  /\ lib' = [m \in Modules |-> None]
  /\ auto' \in IF chk.pc = "query" \/ \E m \in Modules : job[m].pc \in {"ok", "err"}
               THEN {auto, Default} ELSE {auto}
  /\ LET Left(m) == {file[m]} \cup UNION {Cut(j) : j \in Writers(m)} IN
     file' \in {f \in [Modules -> UNION {Left(m) : m \in Modules}] : \A m \in Modules : f[m] \in Left(m)}
  /\ torn' = torn \cup {m \in Modules : Writers(m) # {}}
  /\ UNCHANGED <<registryVars, starts>>

-----------------------------------------------------------------------------
(* The background check.  Any request may fail.                             *)

(* check_updates: without a new release the flags stay as they are.         *)
CheckLatest ==
  /\ chk.pc = "latest"
  /\ \/ chk' = NoCheck                                                   \* Err
     \/ /\ LatestTime = chk.state.registry
        /\ chk' = [chk EXCEPT !.pc = "query", !.todo = {}]
     \/ /\ LatestTime # chk.state.registry
        /\ chk' = [chk EXCEPT !.pc = "query",
                     !.state = [@ EXCEPT !.registry = LatestTime, !.outdated = {}]]
  /\ UNCHANGED <<registryVars, file, lib, auto, cmd, mine, job, starts, clean, torn>>

(* One module after the other; a query that fails counts as up to date.     *)
CheckQuery ==
  /\ chk.pc = "query" /\ chk.todo # {}
  /\ LET x == CHOOSE y \in chk.todo : TRUE IN
     \E ok \in BOOLEAN :
       chk' = [chk EXCEPT !.todo = @ \ {x},
                 !.state.outdated =
                   IF ok /\ Info(x[1]).latest \notin {None, x[2]} THEN @ \cup {x[1]} ELSE @]
  /\ UNCHANGED <<registryVars, file, lib, auto, cmd, mine, job, starts, clean, torn>>

(* AutoUpdater::save writes the whole state, as old as the check itself.    *)
CheckSave ==
  /\ chk.pc = "query" /\ chk.todo = {}
  /\ auto' = [chk.state EXCEPT !.last = clock]
  /\ chk' = NoCheck /\ clean' = {}
  /\ UNCHANGED <<registryVars, file, lib, cmd, mine, job, starts, torn>>

-----------------------------------------------------------------------------
(* The commands.                                                            *)

(* pkg install: run_install *)
InstallCmd(m, v, force) ==
  /\ cmd = "idle"
  /\ cmd' = "install"
  /\ job' = [job EXCEPT ![m] = [NoJob EXCEPT !.pc = IF v = None THEN "install" ELSE "download",
                                  !.target = m, !.version = v, !.force = force]]
  /\ UNCHANGED <<registryVars, file, lib, auto, mine, chk, starts, clean, torn>>

(* pkg update: one UpdateTask for each module of the library in memory.     *)
UpdateCmd ==
  /\ cmd = "idle"
  /\ cmd' = "update" /\ mine' = auto
  /\ job' = [m \in Modules |-> IF m \in Public THEN [NoJob EXCEPT !.pc = "update", !.target = m]
                               ELSE NoJob]
  /\ UNCHANGED <<registryVars, file, lib, auto, chk, starts, clean, torn>>

(* pkg quickstart: one InstallTask for each featured module that is not in  *)
(* the library.                                                             *)
QuickstartCmd ==
  /\ cmd = "idle"
  /\ cmd' = "quickstart" /\ mine' = auto
  /\ job' = [m \in Modules |-> IF m \in Quickstart \ Installed
                               THEN [NoJob EXCEPT !.pc = "install", !.target = m] ELSE NoJob]
  /\ UNCHANGED <<registryVars, file, lib, auto, chk, starts, clean, torn>>

(* pkg uninstall, then the reload; a file that is not there is an error.    *)
Uninstall(m) ==
  /\ cmd = "idle" /\ file[m] # None
  /\ file' = [file EXCEPT ![m] = None]
  /\ lib' = [ReloadModules EXCEPT ![m] = None]
  /\ UNCHANGED <<registryVars, auto, cmd, mine, job, chk, starts, clean, torn>>

-----------------------------------------------------------------------------
(* The tasks, on their threads.                                             *)

Ended(exit) == [NoJob EXCEPT !.pc = exit]

SetJob(j, x) ==
  /\ job' = [job EXCEPT ![j] = x]
  /\ UNCHANGED <<registryVars, lib, auto, cmd, mine, chk, starts, clean>>

(* A request of the task fails, or the file cannot be opened or removed.    *)
TaskFails(j) ==
  /\ job[j].pc \in {"update", "install", "download", "create", "remove"}
  /\ SetJob(j, Ended("err"))
  /\ UNCHANGED <<file, torn>>

(* UpdateTask::run: a module with a redirect is replaced by what install    *)
(* finds when it asks again, one without by its latest version.             *)
UpdateTask(j) ==
  /\ job[j].pc = "update"
  /\ LET infos == Info(j) IN
     SetJob(j, IF infos.latest = None THEN Ended("err")
               ELSE IF infos.redirect # None
               THEN [job[j] EXCEPT !.pc = "install", !.replaces = TRUE, !.force = FALSE]
               ELSE IF infos.latest # lib[j]
               THEN [job[j] EXCEPT !.pc = "download", !.version = infos.latest]
               ELSE Ended("ok"))
  /\ UNCHANGED <<file, torn>>

(* Updater::install without a version: follows redirects, then takes the    *)
(* latest version.                                                          *)
InstallQuery(j) ==
  /\ job[j].pc = "install"
  /\ LET infos == Info(job[j].target) IN
     SetJob(j, IF infos.redirect # None /\ ~job[j].force
               THEN [job[j] EXCEPT !.target = infos.redirect]
               ELSE IF infos.latest = None THEN Ended("err")
               ELSE [job[j] EXCEPT !.pc = "download", !.version = infos.latest])
  /\ UNCHANGED <<file, torn>>

(* ... with a version *)
InstallDownload(j) ==
  /\ job[j].pc = "download"
  /\ LET found == Download(job[j].target, job[j].version) IN
     \/ found = {} /\ SetJob(j, Ended("err"))
     \/ \E x \in found : SetJob(j, [job[j] EXCEPT !.pc = "create", !.code = x.code])
  /\ UNCHANGED <<file, torn>>

(* fs::write: the file is opened and truncated ...                          *)
InstallCreate(j) ==
  /\ job[j].pc = "create"
  /\ LET m == job[j].target IN
     /\ file' = [file EXCEPT ![m] = Empty]
     /\ torn' = IF Writers(m) = {} THEN torn \ {m} ELSE torn \cup {m}
  /\ SetJob(j, [job[j] EXCEPT !.pc = "write"])

(* ... and written from its start.  Of what another thread has put there in *)
(* between the end may stick out behind the new code, or not be UTF-8 where *)
(* the two meet; when the file was removed the data is lost.                *)
WriteTo(j, m) ==
  /\ job[j].pc = "write"
  /\ LET new == [version |-> job[j].version, code |-> job[j].code, whole |-> TRUE] IN
     file' \in {[file EXCEPT ![m] = f] :
                 f \in CASE file[m] = None -> {None}
                         [] file[m] \in {Empty, new} -> {new}
                         [] OTHER -> {new, [new EXCEPT !.whole = FALSE], Broken}}
  /\ SetJob(j, IF job[j].replaces THEN [job[j] EXCEPT !.pc = "remove"] ELSE Ended("ok"))
  /\ UNCHANGED torn

(* ... or cannot be written to its end.                                     *)
WriteFails(j) ==
  /\ job[j].pc = "write"
  /\ file' \in {[file EXCEPT ![job[j].target] = f] : f \in Cut(j)}
  /\ torn' = torn \cup {job[j].target}
  /\ SetJob(j, Ended("err"))

MutWriteToOldPath(j) == WriteTo(j, j)
InstallWrite(j) == WriteTo(j, job[j].target)

(* Updater::uninstall of the module that was replaced.                      *)
UninstallOld(j) ==
  /\ job[j].pc = "remove"
  /\ file' = [file EXCEPT ![j] = None]
  /\ UNCHANGED torn
  /\ SetJob(j, Ended(IF file[j] = None THEN "err" ELSE "ok"))

(* The event loop of spawn_multi takes the exit of a task; done_fn takes    *)
(* the flag of the task's own module away.                                  *)
CollectWith(j, cleared) ==
  /\ cmd \in {"update", "quickstart"}
  /\ job[j].pc \in {"ok", "err"}
  /\ job' = [job EXCEPT ![j] = NoJob]
  /\ IF job[j].pc = "ok"
     THEN mine' = [mine EXCEPT !.outdated = @ \ cleared] /\ clean' = clean \cup {j}
     ELSE UNCHANGED <<mine, clean>>
  /\ UNCHANGED <<registryVars, file, lib, auto, cmd, chk, starts, torn>>

MutCollectKeepsFlag(j) == CollectWith(j, {})
Collect(j) == CollectWith(j, {j})

(* Every task has reported back: save what the command has loaded, reload.  *)
Finish ==
  /\ cmd \in {"update", "quickstart"}
  /\ \A m \in Modules : job[m] = NoJob
  /\ auto' = mine
  /\ lib' = ReloadModules
  /\ cmd' = "idle" /\ mine' = Default
  /\ UNCHANGED <<registryVars, file, job, chk, starts, clean, torn>>

(* run_install returns: an error leaves the library as it was.              *)
FinishInstall(m) ==
  /\ cmd = "install"
  /\ job[m].pc \in {"ok", "err"}
  /\ lib' = IF job[m].pc = "ok" THEN ReloadModules ELSE lib
  /\ job' = [job EXCEPT ![m] = NoJob]
  /\ cmd' = "idle"
  /\ UNCHANGED <<registryVars, file, auto, mine, chk, starts, clean, torn>>

Reload ==
  /\ cmd = "idle"
  /\ lib' = ReloadModules
  /\ UNCHANGED <<registryVars, file, auto, cmd, mine, job, chk, starts, clean, torn>>

-----------------------------------------------------------------------------
(* A task that replaces a module and has not yet asked where to is told of  *)
(* a release that takes the redirect away (an observation).                 *)
ServerPublish(r) ==
  /\ PublishCommit(r)
  /\ job' = [m \in Modules |-> IF m = txn[r].module /\ job[m].replaces /\ job[m].pc = "install"
                               THEN [job[m] EXCEPT !.raced = TRUE] ELSE job[m]]
  /\ UNCHANGED <<file, lib, auto, cmd, mine, chk, starts, clean, torn>>

Server ==
  \/ \E r \in Requests, m \in Modules, v \in Versions, c \in Codes :
       PublishBegin(r, m, v, c) /\ UNCHANGED clientVars
  \/ \E m, n \in Modules : SetRedirect(m, n) /\ UNCHANGED clientVars
  \/ cmd = "down" /\ Tick /\ UNCHANGED clientVars

Task(j) ==
  \/ TaskFails(j) \/ UpdateTask(j) \/ InstallQuery(j) \/ InstallDownload(j)
  \/ InstallCreate(j) \/ InstallWrite(j) \/ WriteFails(j) \/ UninstallOld(j)

MainLoop == Finish \/ \E j \in Modules : Collect(j) \/ FinishInstall(j)

Commands ==
  \/ \E x \in Installs : InstallCmd(x[1], x[2], x[3])
  \/ UpdateCmd \/ QuickstartCmd \/ Reload
  \/ \E m \in Modules : Uninstall(m)

Next ==
  \/ Server \/ (\E r \in Requests : ServerPublish(r))
  \/ Start \/ Crash \/ Commands \/ MainLoop
  \/ CheckLatest \/ CheckQuery \/ CheckSave
  \/ \E j \in Modules : Task(j)

Spec == Init /\ [][Next]_packageVars

-----------------------------------------------------------------------------
(* A version of a module never changes and is never taken back: publish     *)
(* rolls back when the version exists with another code, and two requests   *)
(* for a module that is new do not both create it.                          *)
ReleasesImmutable ==
  [][/\ releases \subseteq releases'
     /\ \A x \in releases, y \in releases' :
          y.module = x.module /\ y.version = x.version => y = x]_packageVars

(* What the registry has told a task stays good until the task acts on it,  *)
(* however publish requests come in between: the latest version can be      *)
(* downloaded, and what replaces a redirected module is another one than    *)
(* the task then removes, unless a release took the redirect away.          *)
AnswersStayGood ==
  \A j \in Modules :
    /\ job[j].pc = "download" /\ cmd # "install" => Download(job[j].target, job[j].version) # {}
    /\ job[j].pc = "remove" /\ ~job[j].raced => job[j].target # j

(* A module file that can be loaded has the header of a release of that     *)
(* very module, although tasks for different modules may write the same     *)
(* file; and it is that release to its end, although loading checks nothing *)
(* behind the header, unless a write of the file failed, was cut by a crash *)
(* or was overlapped by another task's.                                     *)
FilesAreReleased ==
  \A m \in Modules : Loaded(file[m]) =>
    /\ \E x \in Download(m, file[m].version) : x.code = file[m].code
    /\ file[m].whole \/ m \in torn

(* A module that pkg update has brought up to date is not listed as         *)
(* outdated until a check has looked again.                                 *)
UpdatedIsNotOutdated ==
  cmd = "idle" /\ chk.pc = "none" => clean \cap auto.outdated = {}
=============================================================================
