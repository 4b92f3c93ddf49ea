--------------------------- MODULE PackagesProofs ---------------------------
(***************************************************************************)
(* Proofs about the registry and the pkg commands (Registry, Packages) for *)
(* any modules, versions, publish requests and redirects.                  *)
(***************************************************************************)
EXTENDS Packages, TLAPS

-----------------------------------------------------------------------------
(* The registry.                                                            *)

Releases == [module : Modules, version : Versions, code : Codes, published : Nat]
Txns == [module : Modules, version : Versions, code : Codes, existed : BOOLEAN, time : Nat]

(* Rows are well formed, a version is there once, and the latest version of *)
(* a module is one of its releases.                                         *)
RegistryInv ==
  /\ releases \subseteq Releases
  /\ latest \in [Modules -> Versions \cup {None}]
  /\ redirect \in [Modules -> Modules \cup {None}]
  /\ txn \in [Requests -> Txns \cup {NoTxn}]
  /\ clock \in Nat
  /\ \A x, y \in releases : x.module = y.module /\ x.version = y.version => x = y
  /\ \A m \in Modules : latest[m] # None => TryFind(m, latest[m]) # {}

(* What a step of the registry may do to the releases.                      *)
OnlyAdds ==
  /\ releases \subseteq releases'
  /\ \A x \in releases, y \in releases' :
       y.module = x.module /\ y.version = x.version => y = x

(* The releases that are there from the start.                              *)
LEMMA RegistryStarts == RegistryInit => RegistryInv
<1> SUFFICES ASSUME RegistryInit PROVE RegistryInv
  OBVIOUS
<1> USE RegistryAssumption DEF RegistryInit
<1>1. releases \subseteq Releases /\ clock \in Nat
  BY DEF Releases
<1>2. ASSUME NEW m \in Modules, NEW x \in Published, x.module = m
      PROVE  latest[m] \in Versions /\ TryFind(m, latest[m]) # {}
  <2> DEFINE y == CHOOSE z \in Published : z.module = m
  <2>1. y \in Published /\ y.module = m
    BY <1>2
  <2>2. latest[m] = y.version
    BY <1>2
  <2> HIDE DEF y
  <2> QED
    BY <1>1, <2>1, <2>2 DEF TryFind, Releases
<1>3. ASSUME NEW m \in Modules, ~ \E x \in Published : x.module = m
      PROVE  latest[m] = None
  BY <1>3
<1>4. latest \in [Modules -> Versions \cup {None}]
  <2>1. \A m \in Modules : latest[m] \in Versions \cup {None}
    BY <1>2, <1>3
  <2> QED
    BY <2>1
<1>5. redirect \in [Modules -> Modules \cup {None}] /\ txn \in [Requests -> Txns \cup {NoTxn}]
  OBVIOUS
<1>6. \A x, y \in releases : x.module = y.module /\ x.version = y.version => x = y
  OBVIOUS
<1>7. \A m \in Modules : latest[m] # None => TryFind(m, latest[m]) # {}
  BY <1>2, <1>3
<1> QED
  BY <1>1, <1>4, <1>5, <1>6, <1>7 DEF RegistryInv

(* A request begins, the operator sets a redirect, time passes.             *)
LEMMA RegistrySmallSteps ==
  ASSUME RegistryInv,
         \/ \E r \in Requests, m \in Modules, v \in Versions, c \in Codes : PublishBegin(r, m, v, c)
         \/ \E m, n \in Modules : SetRedirect(m, n)
         \/ Tick
         \/ UNCHANGED registryVars
  PROVE  /\ RegistryInv' /\ UNCHANGED <<releases, latest>>
         /\ \A m \in Modules : redirect[m] # None => redirect'[m] # None
<1> USE RegistryAssumption DEF RegistryInv, TryFind
<1>1. ASSUME NEW r \in Requests, NEW m \in Modules, NEW v \in Versions, NEW c \in Codes,
             PublishBegin(r, m, v, c)
      PROVE  RegistryInv' /\ UNCHANGED <<releases, latest, redirect>>
  <2>1. [module |-> m, version |-> v, code |-> c, existed |-> FindOpt(m), time |-> clock] \in Txns
    BY DEF Txns, FindOpt
  <2>2. txn' \in [Requests -> Txns \cup {NoTxn}]
    BY <1>1, <2>1 DEF PublishBegin
  <2> QED
    BY <1>1, <2>2 DEF PublishBegin
<1>2. ASSUME NEW m \in Modules, NEW n \in Modules, SetRedirect(m, n)
      PROVE  /\ RegistryInv' /\ UNCHANGED <<releases, latest>>
             /\ \A o \in Modules : redirect[o] # None => redirect'[o] # None
  BY <1>2 DEF SetRedirect
<1>3. CASE Tick
  BY <1>3 DEF Tick
<1>4. CASE UNCHANGED registryVars
  BY <1>4 DEF registryVars
<1> QED
  BY <1>1, <1>2, <1>3, <1>4

(* A publish request commits or is rolled back: the release it adds is the  *)
(* only one of its module and version.                                      *)
LEMMA PublishKeeps ==
  ASSUME RegistryInv, NEW r \in Requests, PublishCommit(r)
  PROVE  /\ RegistryInv' /\ OnlyAdds
         /\ \A m \in Modules : redirect[m] # None /\ m # txn[r].module => redirect'[m] # None
<1> USE RegistryAssumption DEF RegistryInv
<1> DEFINE t == txn[r]
           new == [module |-> t.module, version |-> t.version, code |-> t.code,
                   published |-> t.time]
<1>1. t \in Txns
  BY DEF PublishCommit, PublishWith
<1>2. t.module \in Modules /\ t.version \in Versions /\ new \in Releases
  BY <1>1 DEF Txns, Releases
<1>3. txn' = [txn EXCEPT ![r] = NoTxn] /\ UNCHANGED clock
      /\ (redirect' = [redirect EXCEPT ![t.module] = None] \/ UNCHANGED redirect)
  BY DEF PublishCommit, PublishWith
<1>4. /\ txn' \in [Requests -> Txns \cup {NoTxn}] /\ clock' \in Nat
      /\ redirect' \in [Modules -> Modules \cup {None}]
      /\ \A m \in Modules : redirect[m] # None /\ m # t.module => redirect'[m] # None
  BY <1>2, <1>3
<1>5. CASE UNCHANGED <<releases, latest>>
  BY <1>4, <1>5 DEF OnlyAdds, TryFind
<1>6. CASE TryFind(t.module, t.version) = {} /\ AddVersion(t)
  <2>1. releases' = releases \cup {new} /\ latest' = [latest EXCEPT ![t.module] = t.version]
    BY <1>6 DEF AddVersion
  <2>2. \A x \in releases : x.module # t.module \/ x.version # t.version
    BY <1>6 DEF TryFind
  <2>3. new.module = t.module /\ new.version = t.version
    OBVIOUS
  <2> HIDE DEF new
  <2>4. OnlyAdds /\ releases' \subseteq Releases
    BY <1>2, <2>1, <2>2, <2>3 DEF OnlyAdds
  <2>5. \A x, y \in releases' : x.module = y.module /\ x.version = y.version => x = y
    BY <2>1, <2>2, <2>3
  <2>6. latest' \in [Modules -> Versions \cup {None}]
    BY <1>2, <2>1
  <2>7. ASSUME NEW m \in Modules, latest'[m] # None
        PROVE  \E x \in releases' : x.module = m /\ x.version = latest'[m]
    <3>1. CASE m = t.module
      BY <1>2, <2>1, <2>3, <3>1
    <3>2. CASE m # t.module
      BY <2>1, <2>7, <3>2 DEF TryFind
    <3> QED
      BY <3>1, <3>2
  <2> QED
    BY <1>4, <2>4, <2>5, <2>6, <2>7 DEF TryFind
<1> QED
  BY <1>5, <1>6 DEF PublishCommit, PublishWith

-----------------------------------------------------------------------------
(* The tasks.                                                               *)

Jobs ==
  [pc : {"none", "update", "install", "download", "create", "write", "remove", "ok", "err"},
   target : Modules \cup {None}, version : Versions \cup {None}, code : Codes \cup {None},
   force : BOOLEAN, replaces : BOOLEAN, raced : BOOLEAN]

(* What a task t of module j knows: where it writes to, that the version it *)
(* was told of can be downloaded, that what it writes is a release, and     *)
(* that the redirect it follows is there unless a release took it away.     *)
JobGood(j, t, c) ==
  /\ t.pc \in {"update", "install", "download", "create", "write"} => t.target \in Modules
  /\ t.pc = "update" => t.target = j /\ ~t.replaces
  /\ t.pc = "download" /\ c # "install" => Download(t.target, t.version) # {}
  /\ t.pc \in {"create", "write"} => \E x \in Download(t.target, t.version) : x.code = t.code
  /\ t.pc = "install" /\ t.replaces /\ ~t.raced => redirect[j] # None /\ ~t.force
  /\ t.pc \in {"download", "create", "write", "remove"} /\ t.replaces /\ ~t.raced => t.target # j
  /\ t.pc = "remove" => t.replaces

(* Tasks belong to a command: there are none without one, and pkg install   *)
(* has one.                                                                 *)
JobsOfCommand ==
  /\ cmd \in {"idle", "down"} => \A m \in Modules : job[m] = NoJob
  /\ cmd = "install" => \A m, o \in Modules : job[m] # NoJob /\ job[o] # NoJob => m = o

JobInv ==
  /\ job \in [Modules -> Jobs]
  /\ cmd \in {"idle", "down", "install", "update", "quickstart"}
  /\ JobsOfCommand
  /\ \A j \in Modules : JobGood(j, job[j], cmd)

(* A module that was updated is no longer listed by what will be saved.     *)
CleanInv ==
  /\ "outdated" \in DOMAIN auto /\ "outdated" \in DOMAIN mine
  /\ {"pc", "state", "todo"} \subseteq DOMAIN chk /\ "outdated" \in DOMAIN chk.state
  /\ cmd = "down" => clean = {}
  /\ cmd \in {"idle", "install"} => clean \cap auto.outdated = {}
  /\ cmd \in {"update", "quickstart"} => clean \cap mine.outdated = {}

(* The header of a file f of module m, and what follows it.                 *)
FileGood(m, f, t) ==
  Loaded(f) => /\ \E x \in Download(m, f.version) : x.code = f.code
               /\ f.whole \/ m \in t

(* A task that has opened a file alone finds it empty, or removed, when it  *)
(* writes.                                                                  *)
FilesInv ==
  /\ FilesAreReleased /\ DOMAIN file = Modules
  /\ \A m \in Modules \ torn : \A j, k \in Writers(m) : j = k /\ file[m] \in {None, Empty}

PackagesInv == RegistryInv /\ JobInv /\ FilesInv /\ CleanInv

(* No task.                                                                 *)
LEMMA NoJobGood ==
  /\ NoJob \in Jobs /\ NoJob.pc = "none" /\ ~NoJob.replaces
  /\ \A j \in Modules : \A c : JobGood(j, NoJob, c)
BY DEF NoJob, Jobs, JobGood

(* A task that has ended.                                                   *)
LEMMA EndedGood ==
  ASSUME NEW e \in {"ok", "err"}
  PROVE  /\ Ended(e) \in Jobs
         /\ \A j \in Modules : \A c : JobGood(j, Ended(e), c)
BY DEF NoJob, Jobs, JobGood, Ended

(* A shell that has just been installed, and the modules on its disk.       *)
LEMMA PackagesStart == Init => PackagesInv
<1> SUFFICES ASSUME Init PROVE PackagesInv
  OBVIOUS
<1>1. RegistryInv
  BY RegistryStarts DEF Init
<1>2. JobInv
  BY NoJobGood DEF Init, JobInv, JobsOfCommand
<1>3. FilesInv
  <2>1. ASSUME NEW m \in Modules PROVE FileGood(m, file[m], torn)
    <3> SUFFICES ASSUME Loaded(file[m]) PROVE FileGood(m, file[m], torn)
      BY DEF FileGood
    <3> DEFINE x == CHOOSE y \in releases : y.module = m
    <3>1. FindOpt(m) /\ file[m] = [version |-> x.version, code |-> x.code, whole |-> TRUE]
      BY DEF Init, Loaded
    <3>2. \E y \in releases : y.module = m
      BY <1>1, <3>1 DEF FindOpt, RegistryInv, TryFind
    <3>3. x \in releases /\ x.module = m
      BY <3>2
    <3> HIDE DEF x
    <3> QED
      BY <3>1, <3>3 DEF FileGood, Download, TryFind
  <2>2. \A m \in Modules : Writers(m) = {}
    BY NoJobGood DEF Init, Writers
  <2> QED
    BY <2>1, <2>2 DEF FilesInv, FilesAreReleased, FileGood, Init
<1>4. CleanInv
  BY DEF Init, CleanInv, Default, NoCheck
<1> QED
  BY <1>1, <1>2, <1>3, <1>4 DEF PackagesInv

(* A task that is under way takes a step.                                   *)
LEMMA SetJobKeeps ==
  ASSUME JobInv, NEW j \in Modules, NEW x \in Jobs, SetJob(j, x),
         job[j].pc # "none", JobGood(j, x, cmd)
  PROVE  JobInv'
<1> USE DEF JobInv
<1>1. job' = [job EXCEPT ![j] = x] /\ UNCHANGED <<releases, redirect, cmd>>
  BY DEF SetJob, registryVars
<1>2. job' \in [Modules -> Jobs]
  BY <1>1
<1>3. job[j] # NoJob
  BY NoJobGood
<1>4. JobsOfCommand'
  BY <1>1, <1>3 DEF JobsOfCommand
<1>5. \A o \in Modules : JobGood(o, job'[o], cmd)
  BY <1>1
<1>6. \A o \in Modules : JobGood(o, job[o], cmd)'
  BY <1>1, <1>5 DEF JobGood, Download, TryFind
<1> QED
  BY <1>1, <1>2, <1>4, <1>6

(* The steps before the download.                                           *)
LEMMA QueryKeeps ==
  ASSUME RegistryInv, JobInv, NEW j \in Modules,
         TaskFails(j) \/ UpdateTask(j) \/ InstallQuery(j) \/ InstallDownload(j)
  PROVE  JobInv'
<1> USE RegistryAssumption
<1> DEFINE t == job[j]
<1>1. t \in Jobs /\ JobGood(j, t, cmd)
  BY DEF JobInv
<1>2. ASSUME NEW e \in {"ok", "err"}, t.pc # "none", SetJob(j, Ended(e)) PROVE JobInv'
  BY <1>2, EndedGood, SetJobKeeps
<1>3. CASE TaskFails(j)
  BY <1>1, <1>2, <1>3 DEF TaskFails
<1>4. CASE UpdateTask(j)
  <2>1. t.pc = "update" /\ t.target = j /\ ~t.replaces
    BY <1>1, <1>4 DEF UpdateTask, JobGood
  <2>2. CASE redirect[j] # None
             /\ SetJob(j, [t EXCEPT !.pc = "install", !.replaces = TRUE, !.force = FALSE])
    <3> DEFINE x == [t EXCEPT !.pc = "install", !.replaces = TRUE, !.force = FALSE]
    <3>1. x \in Jobs /\ x.pc = "install" /\ x.target = j /\ ~x.force
      BY <1>1, <2>1 DEF Jobs
    <3>2. SetJob(j, x) /\ redirect[j] # None
      BY <2>2
    <3> HIDE DEF x
    <3>3. JobGood(j, x, cmd)
      BY <3>1, <3>2 DEF JobGood
    <3> QED
      BY <1>1, <2>1, <3>1, <3>2, <3>3, SetJobKeeps
  <2>3. CASE latest[j] # None /\ SetJob(j, [t EXCEPT !.pc = "download", !.version = latest[j]])
    <3> DEFINE x == [t EXCEPT !.pc = "download", !.version = latest[j]]
    <3>1. x \in Jobs /\ x.pc = "download" /\ x.target = j /\ x.version = latest[j] /\ ~x.replaces
      BY <1>1, <2>1, <2>3 DEF Jobs, RegistryInv
    <3>2. SetJob(j, x)
      BY <2>3
    <3>3. Download(j, latest[j]) # {}
      BY <2>3 DEF Download, RegistryInv
    <3> HIDE DEF x
    <3>4. JobGood(j, x, cmd)
      BY <3>1, <3>3 DEF JobGood
    <3> QED
      BY <1>1, <2>1, <3>1, <3>2, <3>4, SetJobKeeps
  <2>4. CASE SetJob(j, Ended("ok")) \/ SetJob(j, Ended("err"))
    BY <1>1, <1>2, <2>1, <2>4
  <2> QED
    BY <1>4, <2>2, <2>3, <2>4 DEF UpdateTask, Info
<1>5. CASE InstallQuery(j)
  <2>1. t.pc = "install" /\ t.target \in Modules
    BY <1>1, <1>5 DEF InstallQuery, JobGood
  <2>2. CASE redirect[t.target] # None /\ SetJob(j, [t EXCEPT !.target = redirect[t.target]])
    <3> DEFINE x == [t EXCEPT !.target = redirect[t.target]]
    <3>1. /\ x \in Jobs /\ x.pc = "install" /\ x.target \in Modules /\ x.force = t.force
          /\ x.replaces = t.replaces /\ x.raced = t.raced
      BY <1>1, <2>1, <2>2 DEF Jobs, RegistryInv
    <3>2. SetJob(j, x)
      BY <2>2
    <3> HIDE DEF x
    <3>3. JobGood(j, x, cmd)
      BY <1>1, <2>1, <3>1 DEF JobGood
    <3> QED
      BY <1>1, <2>1, <3>1, <3>2, <3>3, SetJobKeeps
  <2>3. CASE /\ redirect[t.target] = None \/ t.force
             /\ latest[t.target] # None
             /\ SetJob(j, [t EXCEPT !.pc = "download", !.version = latest[t.target]])
    <3> DEFINE x == [t EXCEPT !.pc = "download", !.version = latest[t.target]]
    <3>1. /\ x \in Jobs /\ x.pc = "download" /\ x.target = t.target /\ x.force = t.force
          /\ x.version = latest[t.target] /\ x.replaces = t.replaces /\ x.raced = t.raced
      BY <1>1, <2>1, <2>3 DEF Jobs, RegistryInv
    <3>2. SetJob(j, x)
      BY <2>3
    <3>3. Download(t.target, latest[t.target]) # {}
      BY <2>1, <2>3 DEF Download, RegistryInv
    <3>4. t.replaces /\ ~t.raced => t.target # j
      BY <1>1, <2>1, <2>3 DEF JobGood
    <3> HIDE DEF x
    <3>5. JobGood(j, x, cmd)
      BY <2>1, <3>1, <3>3, <3>4 DEF JobGood
    <3> QED
      BY <1>1, <2>1, <3>1, <3>2, <3>5, SetJobKeeps
  <2>4. CASE SetJob(j, Ended("err"))
    BY <1>1, <1>2, <2>1, <2>4
  <2> QED
    BY <1>5, <2>2, <2>3, <2>4 DEF InstallQuery, Info
<1>6. CASE InstallDownload(j)
  <2>1. t.pc = "download" /\ t.target \in Modules
    BY <1>1, <1>6 DEF InstallDownload, JobGood
  <2>2. ASSUME NEW r \in Download(t.target, t.version),
               SetJob(j, [t EXCEPT !.pc = "create", !.code = r.code])
        PROVE  JobInv'
    <3> DEFINE x == [t EXCEPT !.pc = "create", !.code = r.code]
    <3>0. r.code \in Codes
      BY DEF Download, TryFind, RegistryInv, Releases
    <3>1. /\ x \in Jobs /\ x.pc = "create" /\ x.target = t.target /\ x.version = t.version
          /\ x.code = r.code /\ x.replaces = t.replaces /\ x.raced = t.raced
      BY <1>1, <3>0 DEF Jobs
    <3>2. SetJob(j, x)
      BY <2>2
    <3> HIDE DEF x
    <3>3. JobGood(j, x, cmd)
      BY <1>1, <2>1, <3>1 DEF JobGood
    <3> QED
      BY <2>1, <3>1, <3>2, <3>3, SetJobKeeps
  <2>3. CASE SetJob(j, Ended("err"))
    BY <1>1, <1>2, <2>1, <2>3
  <2> QED
    BY <1>6, <2>2, <2>3 DEF InstallDownload
<1> QED
  BY <1>1, <1>3, <1>4, <1>5, <1>6

(* They leave the folder alone, and open no file.                           *)
LEMMA QueryOpensNothing ==
  ASSUME JobInv, NEW j \in Modules,
         TaskFails(j) \/ UpdateTask(j) \/ InstallQuery(j) \/ InstallDownload(j)
  PROVE  UNCHANGED <<file, torn>> /\ \A m \in Modules : Writers(m)' \subseteq Writers(m)
<1> DEFINE t == job[j]
<1>1. t \in Jobs /\ job \in [Modules -> Jobs] /\ UNCHANGED <<file, torn>>
  BY DEF JobInv, TaskFails, UpdateTask, InstallQuery, InstallDownload
<1>2. ASSUME NEW x, SetJob(j, x), x.pc # "write"
      PROVE  \A m \in Modules : Writers(m)' \subseteq Writers(m)
  BY <1>1, <1>2 DEF SetJob, Writers
<1>3. \A e \in {"ok", "err"} : Ended(e).pc = e
  BY DEF Ended, NoJob
<1>4. /\ [t EXCEPT !.pc = "install", !.replaces = TRUE, !.force = FALSE].pc = "install"
      /\ \A v : [t EXCEPT !.pc = "download", !.version = v].pc = "download"
      /\ \A m : [t EXCEPT !.target = m].pc = t.pc
      /\ \A c : [t EXCEPT !.pc = "create", !.code = c].pc = "create"
  BY <1>1 DEF Jobs
<1>5. CASE SetJob(j, Ended("ok")) \/ SetJob(j, Ended("err"))
  BY <1>1, <1>2, <1>3, <1>5
<1>6. CASE TaskFails(j)
  BY <1>5, <1>6 DEF TaskFails
<1>7. CASE UpdateTask(j)
  <2>1. CASE SetJob(j, [t EXCEPT !.pc = "install", !.replaces = TRUE, !.force = FALSE])
    BY <1>1, <1>2, <1>4, <2>1
  <2>2. ASSUME NEW v, SetJob(j, [t EXCEPT !.pc = "download", !.version = v])
        PROVE  \A m \in Modules : Writers(m)' \subseteq Writers(m)
    BY <1>2, <1>4, <2>2
  <2> QED
    BY <1>1, <1>5, <1>7, <2>1, <2>2 DEF UpdateTask
<1>8. CASE InstallQuery(j)
  <2>1. ASSUME NEW m, SetJob(j, [t EXCEPT !.target = m])
        PROVE  \A o \in Modules : Writers(o)' \subseteq Writers(o)
    BY <1>2, <1>4, <1>8, <2>1 DEF InstallQuery
  <2>2. ASSUME NEW v, SetJob(j, [t EXCEPT !.pc = "download", !.version = v])
        PROVE  \A m \in Modules : Writers(m)' \subseteq Writers(m)
    BY <1>2, <1>4, <2>2
  <2> QED
    BY <1>1, <1>5, <1>8, <2>1, <2>2 DEF InstallQuery
<1>9. CASE InstallDownload(j)
  <2>1. ASSUME NEW c, SetJob(j, [t EXCEPT !.pc = "create", !.code = c])
        PROVE  \A m \in Modules : Writers(m)' \subseteq Writers(m)
    BY <1>2, <1>4, <2>1
  <2> QED
    BY <1>1, <1>5, <1>9, <2>1 DEF InstallDownload
<1> QED
  BY <1>6, <1>7, <1>8, <1>9

(* Files stay good while nobody opens one and the releases only grow.       *)
LEMMA FilesStay ==
  ASSUME FilesInv, UNCHANGED <<file, torn>>, releases \subseteq releases',
         \A m \in Modules : Writers(m)' \subseteq Writers(m)
  PROVE  FilesInv'
<1>1. ASSUME NEW m \in Modules, Loaded(file[m])
      PROVE  /\ \E x \in releases' : /\ x.module = m /\ x.version = file[m].version
                                    /\ x.code = file[m].code
             /\ file[m].whole \/ m \in torn
  BY <1>1 DEF FilesInv, FilesAreReleased, Download, TryFind
<1>2. FilesAreReleased'
  BY <1>1 DEF FilesAreReleased, Loaded, Download, TryFind
<1> QED
  BY <1>2 DEF FilesInv

(* One file changes.                                                        *)
LEMMA FileChanges ==
  ASSUME FilesInv, UNCHANGED releases, NEW m \in Modules, NEW f,
         file' = [file EXCEPT ![m] = f], FileGood(m, f, torn'),
         torn \ {m} = torn' \ {m},
         \A o \in Modules \ {m} : Writers(o)' \subseteq Writers(o),
         m \notin torn' => \A j, k \in Writers(m)' : j = k /\ f \in {None, Empty}
  PROVE  FilesInv'
<1>1. ASSUME NEW o \in Modules PROVE FileGood(o, file'[o], torn')
  <2>1. CASE o = m
    BY <2>1 DEF FilesInv
  <2>2. CASE o # m
    <3>1. file'[o] = file[o] /\ (o \in torn <=> o \in torn')
      BY <2>2
    <3> QED
      BY <3>1 DEF FilesInv, FilesAreReleased, FileGood
  <2> QED
    BY <2>1, <2>2
<1>2. FilesAreReleased'
  BY <1>1 DEF FilesAreReleased, FileGood, Loaded, Download, TryFind
<1>3. ASSUME NEW o \in Modules \ torn', NEW j \in Writers(o)', NEW k \in Writers(o)'
      PROVE  j = k /\ file'[o] \in {None, Empty}
  BY <1>3 DEF FilesInv
<1> QED
  BY <1>2, <1>3 DEF FilesInv

(* What a task writes, all of it or a part, has the header of a release.    *)
LEMMA WrittenGood ==
  ASSUME JobInv, FilesInv, NEW j \in Modules, job[j].pc = "write",
         NEW f \in {file[job[j].target], None, Broken}
                  \cup [version : {job[j].version}, code : {job[j].code}, whole : BOOLEAN],
         NEW t, torn \subseteq t, (Loaded(f) => f.whole) \/ job[j].target \in t
  PROVE  FileGood(job[j].target, f, t)
<1> DEFINE m == job[j].target
<1>1. m \in Modules /\ \E x \in Download(m, job[j].version) : x.code = job[j].code
  BY DEF JobInv, JobGood
<1>2. CASE f = file[m]
  BY <1>1, <1>2 DEF FileGood, FilesInv, FilesAreReleased
<1>3. CASE f \in {None, Broken}
  BY <1>3 DEF FileGood, Loaded
<1>4. CASE f \in [version : {job[j].version}, code : {job[j].code}, whole : BOOLEAN]
  <2>1. f.version = job[j].version /\ f.code = job[j].code
    BY <1>4
  <2> QED
    BY <1>1, <2>1 DEF FileGood
<1> QED
  BY <1>2, <1>3, <1>4

(* The steps that change the module folder.                                 *)
LEMMA WriteKeeps ==
  ASSUME RegistryInv, JobInv, FilesInv, NEW j \in Modules,
         InstallCreate(j) \/ InstallWrite(j) \/ WriteFails(j) \/ UninstallOld(j)
  PROVE  JobInv' /\ FilesInv'
<1> DEFINE t == job[j]
<1>1. t \in Jobs /\ JobGood(j, t, cmd) /\ UNCHANGED releases /\ job \in [Modules -> Jobs]
  BY DEF JobInv, InstallCreate, InstallWrite, WriteTo, WriteFails, UninstallOld, SetJob, registryVars
<1>2. ASSUME NEW x \in Jobs, SetJob(j, x), x.pc # "write"
      PROVE  \A m \in Modules : Writers(m)' \subseteq Writers(m) \ {j}
  BY <1>1, <1>2 DEF SetJob, Writers
<1>3. CASE InstallCreate(j)
  <2> DEFINE x == [t EXCEPT !.pc = "write"]
  <2>0. PICK m \in Modules : m = t.target
    BY <1>1, <1>3 DEF InstallCreate, JobGood
  <2>1. t.pc = "create" /\ m \in Modules /\ SetJob(j, x)
    BY <1>1, <1>3 DEF InstallCreate, JobGood
  <2>2. /\ x \in Jobs /\ x.pc = "write" /\ x.target = t.target /\ x.version = t.version
        /\ x.code = t.code /\ x.replaces = t.replaces /\ x.raced = t.raced
    BY <1>1 DEF Jobs
  <2> HIDE DEF x
  <2>3. JobGood(j, x, cmd)
    BY <1>1, <2>0, <2>1, <2>2 DEF JobGood
  <2>4. JobInv'
    BY <2>1, <2>2, <2>3, SetJobKeeps
  <2>5. job' = [job EXCEPT ![j] = x]
    BY <2>1 DEF SetJob
  <2>6. \A o \in Modules : Writers(o)' = IF o = m THEN Writers(o) \cup {j} ELSE Writers(o)
    BY <1>1, <2>0, <2>1, <2>2, <2>5 DEF Writers
  <2>7. file' = [file EXCEPT ![m] = Empty]
        /\ torn' = IF Writers(m) = {} THEN torn \ {m} ELSE torn \cup {m}
    BY <1>3, <2>0 DEF InstallCreate
  <2>8. FileGood(m, Empty, torn')
    BY DEF FileGood, Loaded
  <2>9. m \notin torn' => Writers(m)' = {j}
    <3>1. m \notin torn' => Writers(m) = {}
      BY <2>7
    <3>2. Writers(m)' = Writers(m) \cup {j}
      BY <2>1, <2>6
    <3> QED
      BY <3>1, <3>2
  <2>10. torn \ {m} = torn' \ {m}
    BY <2>7
  <2>11. FilesInv'
    BY <1>1, <2>1, <2>6, <2>7, <2>8, <2>9, <2>10, FileChanges
  <2> QED
    BY <2>4, <2>11
<1>4. CASE InstallWrite(j)
  <2>0. PICK m \in Modules : m = t.target
    BY <1>1, <1>4 DEF InstallWrite, WriteTo, JobGood
  <2> DEFINE new == [version |-> t.version, code |-> t.code, whole |-> TRUE]
             part == [new EXCEPT !.whole = FALSE]
  <2>1. t.pc = "write" /\ m \in Modules /\ j \in Writers(m)
    BY <1>1, <1>4, <2>0 DEF InstallWrite, WriteTo, Writers
  <2>2. PICK f : /\ file' = [file EXCEPT ![m] = f]
                 /\ f \in CASE file[m] = None -> {None}
                         [] file[m] \in {Empty, new} -> {new}
                         [] OTHER -> {new, part, Broken}
    BY <1>4, <2>0 DEF InstallWrite, WriteTo
  <2>3. f \in {None, new, part, Broken}
    BY <2>2
  <2>4. /\ new.whole
        /\ new \in [version : {t.version}, code : {t.code}, whole : BOOLEAN]
        /\ part \in [version : {t.version}, code : {t.code}, whole : BOOLEAN]
    OBVIOUS
  <2>5. m \notin torn => f \in {None, new}
    <3>1. m \notin torn => file[m] \in {None, Empty}
      BY <2>1 DEF FilesInv
    <3> HIDE DEF new, part
    <3> QED
      BY <2>2, <3>1
  <2>6. (Loaded(f) => f.whole) \/ m \in torn
    BY <2>4, <2>5 DEF Loaded
  <2> HIDE DEF new, part
  <2>7. FileGood(m, f, torn)
    BY <2>0, <2>1, <2>3, <2>4, <2>6, WrittenGood
  <2>8. PICK x \in Jobs : SetJob(j, x) /\ x.pc # "write" /\ JobGood(j, x, cmd)
    <3>1. CASE t.replaces /\ SetJob(j, [t EXCEPT !.pc = "remove"])
      <4> DEFINE x == [t EXCEPT !.pc = "remove"]
      <4>1. x \in Jobs /\ x.pc = "remove" /\ x.target = t.target
            /\ x.replaces = t.replaces /\ x.raced = t.raced /\ SetJob(j, x)
        BY <1>1, <3>1 DEF Jobs
      <4> HIDE DEF x
      <4>2. JobGood(j, x, cmd)
        BY <1>1, <2>0, <2>1, <3>1, <4>1 DEF JobGood
      <4> QED
        BY <4>1, <4>2
    <3>2. CASE SetJob(j, Ended("ok"))
      BY <3>2, EndedGood DEF Ended, NoJob
    <3> QED
      BY <1>4, <3>1, <3>2 DEF InstallWrite, WriteTo
  <2>9. \A o \in Modules : Writers(o)' \subseteq Writers(o) \ {j}
    BY <1>2, <2>8
  <2>10. UNCHANGED torn
    BY <1>4 DEF InstallWrite, WriteTo
  <2>11. m \notin torn => Writers(m)' = {}
    <3>1. m \notin torn => \A k \in Writers(m) : k = j
      BY <2>1 DEF FilesInv
    <3>2. Writers(m)' \subseteq Writers(m) \ {j}
      BY <2>1, <2>9
    <3> QED
      BY <3>1, <3>2
  <2>12. FilesInv'
    BY <1>1, <2>1, <2>2, <2>7, <2>9, <2>10, <2>11, FileChanges
  <2> QED
    BY <2>1, <2>8, <2>12, SetJobKeeps
<1>5. CASE WriteFails(j)
  <2>0. PICK m \in Modules : m = t.target
    BY <1>1, <1>5 DEF WriteFails, JobGood
  <2> DEFINE part == [version |-> t.version, code |-> t.code, whole |-> FALSE]
  <2>1. t.pc = "write" /\ m \in Modules /\ torn' = torn \cup {m} /\ SetJob(j, Ended("err"))
    BY <1>5, <2>0 DEF WriteFails
  <2>2. PICK f \in {None, file[m], Broken, part} : file' = [file EXCEPT ![m] = f]
    BY <1>5, <2>0 DEF WriteFails, Cut
  <2>3. part \in [version : {t.version}, code : {t.code}, whole : BOOLEAN]
    OBVIOUS
  <2> HIDE DEF part
  <2>4. FileGood(m, f, torn')
    BY <2>0, <2>1, <2>2, <2>3, WrittenGood
  <2>5. Ended("err") \in Jobs /\ Ended("err").pc # "write"
    BY EndedGood DEF Ended, NoJob
  <2>6. \A o \in Modules : Writers(o)' \subseteq Writers(o) \ {j}
    BY <1>2, <2>1, <2>5
  <2>7. FilesInv'
    BY <1>1, <2>1, <2>2, <2>4, <2>6, FileChanges
  <2> QED
    BY <2>1, <2>7, EndedGood, SetJobKeeps
<1>6. CASE UninstallOld(j)
  <2>1. t.pc = "remove" /\ file' = [file EXCEPT ![j] = None] /\ UNCHANGED torn
    BY <1>6 DEF UninstallOld
  <2>2. PICK e \in {"ok", "err"} : SetJob(j, Ended(e))
    BY <1>6 DEF UninstallOld
  <2>3. Ended(e) \in Jobs /\ Ended(e).pc # "write"
    BY EndedGood DEF Ended, NoJob
  <2>4. \A o \in Modules : Writers(o)' \subseteq Writers(o) \ {j}
    BY <1>2, <2>2, <2>3
  <2>5. FileGood(j, None, torn')
    BY DEF FileGood, Loaded
  <2>6. j \notin torn' => \A k, l \in Writers(j)' : k = l
    BY <2>1, <2>4 DEF FilesInv
  <2>7. FilesInv'
    BY <1>1, <2>1, <2>4, <2>5, <2>6, FileChanges
  <2> QED
    BY <2>1, <2>2, <2>7, EndedGood, SetJobKeeps
<1> QED
  BY <1>3, <1>4, <1>5, <1>6

(* All tasks are gone.                                                      *)
LEMMA NoJobsKeep ==
  ASSUME job' = [m \in Modules |-> NoJob],
         cmd' \in {"idle", "down", "install", "update", "quickstart"}
  PROVE  JobInv'
<1>1. \A m \in Modules : job'[m] = NoJob
  OBVIOUS
<1>2. job' \in [Modules -> Jobs]
  BY NoJobGood
<1>3. \A j \in Modules : JobGood(j, job[j], cmd)'
  BY <1>1, NoJobGood DEF JobGood
<1>4. JobsOfCommand'
  BY <1>1, NoJobGood DEF JobsOfCommand
<1> QED
  BY <1>2, <1>3, <1>4 DEF JobInv

(* The commands, and what ends them.                                        *)
LEMMA CommandKeeps ==
  ASSUME PackagesInv, Commands \/ MainLoop \/ Start \/ Crash
  PROVE  JobInv'
<1> USE DEF PackagesInv
<1>1. UNCHANGED registryVars
  BY DEF Commands, MainLoop, Start, Crash, InstallCmd, UpdateCmd, QuickstartCmd, Reload, Uninstall,
     Finish, Collect, CollectWith, FinishInstall
<1>2. UNCHANGED releases /\ UNCHANGED redirect
  BY <1>1 DEF registryVars
<1>4. ASSUME UNCHANGED job, cmd' = cmd \/ (\A m \in Modules : job[m] = NoJob),
             cmd' \in {"idle", "down", "install", "update", "quickstart"}
      PROVE  JobInv'
  <2>1. JobsOfCommand'
    BY <1>4 DEF JobInv, JobsOfCommand
  <2>2. \A j \in Modules : JobGood(j, job[j], cmd')
    BY <1>4, NoJobGood DEF JobInv
  <2>3. \A j \in Modules : JobGood(j, job[j], cmd)'
    BY <1>2, <1>4, <2>2 DEF JobGood, Download, TryFind
  <2> QED
    BY <1>4, <2>1, <2>3 DEF JobInv
<1>5. ASSUME NEW m \in Modules, NEW x \in Jobs, job' = [job EXCEPT ![m] = x],
             JobGood(m, x, cmd'), cmd' \in {"install", "update", "quickstart"},
             (cmd' = cmd /\ cmd # "install") \/ (\A o \in Modules : job[o] = NoJob)
      PROVE  JobInv'
  <2>1. job' \in [Modules -> Jobs]
    BY <1>5 DEF JobInv
  <2>2. \A j \in Modules : JobGood(j, job'[j], cmd')
    BY <1>5, NoJobGood DEF JobInv
  <2>3. \A j \in Modules : JobGood(j, job[j], cmd)'
    BY <1>2, <2>2 DEF JobGood, Download, TryFind
  <2>4. JobsOfCommand'
    BY <1>5 DEF JobsOfCommand, JobInv
  <2> QED
    BY <1>5, <2>1, <2>3, <2>4 DEF JobInv
<1>6. ASSUME NEW m \in Modules, NEW v \in Versions \cup {None}, NEW force \in BOOLEAN,
             InstallCmd(m, v, force)
      PROVE  JobInv'
  <2> DEFINE x == [NoJob EXCEPT !.pc = IF v = None THEN "install" ELSE "download",
                                  !.target = m, !.version = v, !.force = force]
  <2>1. /\ x \in Jobs /\ x.pc \in {"install", "download"} /\ x.target = m /\ ~x.replaces
    BY DEF NoJob, Jobs
  <2>2. cmd = "idle" /\ cmd' = "install" /\ job' = [job EXCEPT ![m] = x]
    BY <1>6 DEF InstallCmd
  <2> HIDE DEF x
  <2>3. JobGood(m, x, "install")
    BY <2>1 DEF JobGood
  <2>4. \A o \in Modules : job[o] = NoJob
    BY <2>2 DEF JobInv, JobsOfCommand
  <2> QED
    BY <1>5, <2>1, <2>2, <2>3, <2>4
<1>7. CASE UpdateCmd \/ QuickstartCmd
  <2>1. PICK l \in {"update", "install"}, S \in {Public, Quickstart \ Installed} :
          /\ job' = [m \in Modules |-> IF m \in S THEN [NoJob EXCEPT !.pc = l, !.target = m]
                                       ELSE NoJob]
          /\ cmd' \in {"update", "quickstart"}
    BY <1>7 DEF UpdateCmd, QuickstartCmd
  <2>2. ASSUME NEW m \in Modules
        PROVE  /\ [NoJob EXCEPT !.pc = l, !.target = m] \in Jobs
               /\ JobGood(m, [NoJob EXCEPT !.pc = l, !.target = m], cmd')
    <3> DEFINE x == [NoJob EXCEPT !.pc = l, !.target = m]
    <3>1. x \in Jobs /\ x.pc = l /\ x.target = m /\ ~x.replaces
      BY DEF NoJob, Jobs
    <3> HIDE DEF x
    <3>2. JobGood(m, x, cmd')
      BY <3>1 DEF JobGood
    <3> QED
      BY <3>1, <3>2 DEF x
  <2>3. job' \in [Modules -> Jobs]
    BY <2>1, <2>2, NoJobGood
  <2>4. \A m \in Modules : JobGood(m, job'[m], cmd')
    BY <2>1, <2>2, NoJobGood
  <2>5. \A j \in Modules : JobGood(j, job[j], cmd)'
    BY <1>2, <2>4 DEF JobGood, Download, TryFind
  <2>6. JobsOfCommand'
    BY <2>1 DEF JobsOfCommand
  <2> QED
    BY <2>1, <2>3, <2>5, <2>6 DEF JobInv
<1>8. ASSUME NEW j \in Modules, Collect(j) PROVE JobInv'
  BY <1>5, <1>8, NoJobGood DEF Collect, CollectWith
<1>9. ASSUME NEW m \in Modules, FinishInstall(m) PROVE JobInv'
  <2>1. job[m] # NoJob /\ cmd = "install" /\ job' = [job EXCEPT ![m] = NoJob] /\ cmd' = "idle"
    BY <1>9, NoJobGood DEF FinishInstall
  <2>2. \A o \in Modules : o # m => job[o] = NoJob
    BY <2>1 DEF JobInv, JobsOfCommand
  <2>3. job' = [o \in Modules |-> NoJob]
    BY <2>1, <2>2 DEF JobInv
  <2> QED
    BY <2>1, <2>3, NoJobsKeep
<1>10. CASE Finish \/ Reload \/ Start \/ \E m \in Modules : Uninstall(m)
  BY <1>4, <1>10 DEF Finish, Reload, Start, Uninstall, JobInv, JobsOfCommand
<1>11. CASE Crash
  BY <1>11, NoJobsKeep DEF Crash
<1>12. JobInv'
  <2>1. ASSUME NEW x \in Installs, InstallCmd(x[1], x[2], x[3]) PROVE JobInv'
    <3>1. x[1] \in Modules /\ x[2] \in Versions \cup {None} /\ x[3] \in BOOLEAN
      BY PackagesAssumption
    <3> QED
      BY <1>6, <2>1, <3>1
  <2> QED
    BY <1>7, <1>8, <1>9, <1>10, <1>11, <2>1 DEF Commands, MainLoop
<1> QED
  BY <1>12

(* What they do to the folder: uninstall removes a file, a crash cuts the   *)
(* writes that are under way.                                               *)
LEMMA CommandFiles ==
  ASSUME PackagesInv, Commands \/ MainLoop \/ Start \/ Crash
  PROVE  FilesInv'
<1> USE DEF PackagesInv
<1>1. UNCHANGED releases /\ job \in [Modules -> Jobs]
  BY DEF Commands, MainLoop, Start, Crash, InstallCmd, UpdateCmd, QuickstartCmd, Reload, Uninstall,
     Finish, Collect, CollectWith, FinishInstall, registryVars, JobInv
<1>2. NoJob.pc = "none"
  BY NoJobGood
<1>3. ASSUME NEW x \in Installs, InstallCmd(x[1], x[2], x[3]) PROVE FilesInv'
  <2> DEFINE y == [NoJob EXCEPT !.pc = IF x[2] = None THEN "install" ELSE "download",
                                  !.target = x[1], !.version = x[2], !.force = x[3]]
  <2>1. y.pc # "write" /\ job' = [job EXCEPT ![x[1]] = y] /\ UNCHANGED <<file, torn>>
    BY <1>3 DEF InstallCmd, NoJob
  <2> HIDE DEF y
  <2>2. \A m \in Modules : Writers(m)' \subseteq Writers(m)
    BY <1>1, <2>1 DEF Writers
  <2> QED
    BY <1>1, <2>1, <2>2, FilesStay
<1>4. CASE UpdateCmd \/ QuickstartCmd
  <2>1. ASSUME NEW m \in Modules PROVE job'[m].pc # "write"
    <3>1. PICK l \in {"update", "install"}, S \in {Public, Quickstart \ Installed} :
            job' = [o \in Modules |-> IF o \in S THEN [NoJob EXCEPT !.pc = l, !.target = o] ELSE NoJob]
      BY <1>4 DEF UpdateCmd, QuickstartCmd
    <3>2. [NoJob EXCEPT !.pc = l, !.target = m].pc = l
      BY DEF NoJob
    <3> QED
      BY <1>2, <3>1, <3>2
  <2>2. \A m \in Modules : Writers(m)' = {}
    BY <2>1 DEF Writers
  <2>3. UNCHANGED <<file, torn>>
    BY <1>4 DEF UpdateCmd, QuickstartCmd
  <2> QED
    BY <1>1, <2>2, <2>3, FilesStay
<1>5. CASE Finish \/ Reload \/ Start
  <2>1. UNCHANGED <<file, torn, job>>
    BY <1>5 DEF Finish, Reload, Start
  <2>2. \A m \in Modules : Writers(m)' \subseteq Writers(m)
    BY <2>1 DEF Writers
  <2> QED
    BY <1>1, <2>1, <2>2, FilesStay
<1>6. ASSUME NEW j \in Modules, Collect(j) \/ FinishInstall(j) PROVE FilesInv'
  <2>1. UNCHANGED <<file, torn>> /\ job' = [job EXCEPT ![j] = NoJob]
    BY <1>6 DEF Collect, CollectWith, FinishInstall
  <2>2. \A m \in Modules : Writers(m)' \subseteq Writers(m)
    BY <1>1, <1>2, <2>1 DEF Writers
  <2> QED
    BY <1>1, <2>1, <2>2, FilesStay
<1>7. ASSUME NEW m \in Modules, Uninstall(m) PROVE FilesInv'
  <2>1. UNCHANGED <<torn, job>> /\ file' = [file EXCEPT ![m] = None]
    BY <1>7 DEF Uninstall
  <2>2. \A o \in Modules : Writers(o)' = Writers(o)
    BY <2>1 DEF Writers
  <2>3. FileGood(m, None, torn')
    BY DEF FileGood, Loaded
  <2>4. m \notin torn' => \A j, k \in Writers(m)' : j = k
    BY <2>1, <2>2 DEF FilesInv
  <2> QED
    BY <1>1, <2>1, <2>2, <2>3, <2>4, FileChanges
<1>8. CASE Crash
  <2>1. /\ torn' = torn \cup {m \in Modules : Writers(m) # {}} /\ DOMAIN file' = Modules
        /\ \A m \in Modules : file'[m] \in {file[m]} \cup UNION {Cut(j) : j \in Writers(m)}
    BY <1>8 DEF Crash
  <2>2. \A m \in Modules : Writers(m)' = {}
    BY <1>2, <1>8 DEF Crash, Writers
  <2>3. ASSUME NEW m \in Modules PROVE FileGood(m, file'[m], torn')
    <3>1. CASE file'[m] = file[m]
      BY <2>1, <3>1 DEF FileGood, FilesInv, FilesAreReleased
    <3>2. ASSUME NEW j \in Writers(m), file'[m] \in Cut(j) PROVE FileGood(m, file'[m], torn')
      <4> DEFINE part == [version |-> job[j].version, code |-> job[j].code, whole |-> FALSE]
      <4>1. job[j].pc = "write" /\ job[j].target = m /\ j \in Modules
        BY <3>2 DEF Writers
      <4>2. file'[m] \in {None, file[m], Broken, part}
        BY <3>2, <4>1 DEF Cut
      <4>3. part \in [version : {job[j].version}, code : {job[j].code}, whole : BOOLEAN]
        OBVIOUS
      <4>4. torn \subseteq torn' /\ m \in torn'
        BY <2>1, <3>2
      <4> HIDE DEF part
      <4> QED
        BY <4>1, <4>2, <4>3, <4>4, WrittenGood
    <3> QED
      BY <2>1, <3>1, <3>2
  <2>4. FilesAreReleased'
    BY <1>1, <2>3 DEF FilesAreReleased, FileGood, Loaded, Download, TryFind
  <2> QED
    BY <2>1, <2>2, <2>4 DEF FilesInv
<1> QED
  BY <1>3, <1>4, <1>5, <1>6, <1>7, <1>8 DEF Commands, MainLoop

(* What the registry does to the tasks: only a release of its own module    *)
(* takes a redirect from a task, which is then told.                        *)
LEMMA ServerKeeps ==
  ASSUME PackagesInv, Server \/ \E r \in Requests : ServerPublish(r)
  PROVE  RegistryInv' /\ JobInv' /\ FilesInv' /\ OnlyAdds
<1> USE DEF PackagesInv
<1>1. ASSUME RegistryInv', OnlyAdds, UNCHANGED <<file, torn, cmd>>, job' \in [Modules -> Jobs],
             \A j \in Modules :
               \/ job'[j] = job[j] /\ (redirect[j] # None => redirect'[j] # None)
               \/ job'[j] = job[j] /\ ~(job[j].replaces /\ job[j].pc = "install")
               \/ job[j].pc = "install" /\ job'[j] = [job[j] EXCEPT !.raced = TRUE]
      PROVE  RegistryInv' /\ JobInv' /\ FilesInv' /\ OnlyAdds
  <2>1. releases \subseteq releases'
    BY <1>1 DEF OnlyAdds
  <2>2. FilesInv'
    <3>1. \A j \in Modules : job'[j].pc = job[j].pc /\ job'[j].target = job[j].target
      BY <1>1 DEF JobInv, Jobs
    <3>2. \A m \in Modules : Writers(m)' \subseteq Writers(m)
      BY <3>1 DEF Writers
    <3> QED
      BY <1>1, <2>1, <3>2, FilesStay
  <2>3. ASSUME NEW j \in Modules PROVE JobGood(j, job[j], cmd)'
    <3>0. cmd' = cmd
      BY <1>1
    <3>1. JobGood(j, job[j], cmd) /\ job[j] \in Jobs
      BY DEF JobInv
    <3>3. \A m, v : Download(m, v) # {} => \E x \in releases' : x.module = m /\ x.version = v
      BY <2>1 DEF Download, TryFind
    <3>4. /\ job'[j].pc = job[j].pc /\ job'[j].target = job[j].target
          /\ job'[j].version = job[j].version /\ job'[j].code = job[j].code
          /\ job'[j].force = job[j].force /\ job'[j].replaces = job[j].replaces
          /\ ~job'[j].raced => ~job[j].raced
      BY <1>1, <3>1 DEF Jobs
    <3>5. job[j].pc = "install" /\ job[j].replaces /\ ~job'[j].raced
            => (redirect[j] # None => redirect'[j] # None)
      BY <1>1, <3>1 DEF Jobs
    <3> DEFINE t == job'[j]
    <3>6. /\ t.pc \in {"update", "install", "download", "create", "write"} => t.target \in Modules
          /\ t.pc = "update" => t.target = j /\ ~t.replaces
          /\ t.pc = "download" /\ cmd' # "install"
               => \E x \in releases' : x.module = t.target /\ x.version = t.version
          /\ t.pc \in {"create", "write"}
               => \E x \in releases' : x.module = t.target /\ x.version = t.version /\ x.code = t.code
          /\ t.pc = "install" /\ t.replaces /\ ~t.raced => redirect'[j] # None /\ ~t.force
          /\ t.pc \in {"download", "create", "write", "remove"} /\ t.replaces /\ ~t.raced
               => t.target # j
          /\ t.pc = "remove" => t.replaces
      <4> HIDE DEF t
      <4>1. /\ t.pc = job[j].pc /\ t.target = job[j].target
            /\ t.version = job[j].version /\ t.code = job[j].code
            /\ t.force = job[j].force /\ t.replaces = job[j].replaces
            /\ ~t.raced => ~job[j].raced
        BY <3>4 DEF t
      <4>2. job[j].pc = "install" /\ job[j].replaces /\ ~t.raced
              => (redirect[j] # None => redirect'[j] # None)
        BY <3>5 DEF t
      <4>3. /\ t.pc = "download" /\ cmd' # "install"
                 => \E x \in releases' : x.module = t.target /\ x.version = t.version
            /\ t.pc \in {"create", "write"}
                 => \E x \in releases' : /\ x.module = t.target /\ x.version = t.version
                                         /\ x.code = t.code
        <5>1. /\ job[j].pc = "download" /\ cmd # "install"
                   => Download(job[j].target, job[j].version) # {}
              /\ job[j].pc \in {"create", "write"}
                   => \E x \in Download(job[j].target, job[j].version) : x.code = job[j].code
          BY <3>1 DEF JobGood
        <5>2. job[j].pc = "download" /\ cmd # "install"
                => \E x \in releases' : x.module = job[j].target /\ x.version = job[j].version
          BY <3>3, <5>1
        <5>3. job[j].pc \in {"create", "write"}
                => \E x \in releases' : /\ x.module = job[j].target /\ x.version = job[j].version
                                        /\ x.code = job[j].code
          BY <2>1, <5>1 DEF Download, TryFind
        <5> QED
          BY <3>0, <4>1, <5>2, <5>3
      <4>4. t.pc = "install" /\ t.replaces /\ ~t.raced => redirect'[j] # None /\ ~t.force
        BY <3>1, <4>1, <4>2 DEF JobGood
      <4>5. t.pc \in {"download", "create", "write", "remove"} /\ t.replaces /\ ~t.raced
              => t.target # j
        BY <3>1, <4>1 DEF JobGood
      <4>6. /\ t.pc \in {"update", "install", "download", "create", "write"} => t.target \in Modules
            /\ t.pc = "update" => t.target = j /\ ~t.replaces
            /\ t.pc = "remove" => t.replaces
        BY <3>1, <4>1 DEF JobGood
      <4> QED
        BY <4>3, <4>4, <4>5, <4>6
    <3> QED
      BY <3>6 DEF JobGood, Download, TryFind
  <2>4. JobsOfCommand'
    <3>1. \A j \in Modules : job'[j] # NoJob => job[j] # NoJob
      BY <1>1, NoJobGood
    <3> QED
      BY <1>1, <3>1 DEF JobInv, JobsOfCommand
  <2> QED
    BY <1>1, <2>2, <2>3, <2>4 DEF JobInv
<1>2. CASE Server
  <2>1. /\ RegistryInv' /\ UNCHANGED <<releases, latest>>
        /\ \A m \in Modules : redirect[m] # None => redirect'[m] # None
    BY <1>2, RegistrySmallSteps DEF Server
  <2>2. UNCHANGED <<file, torn, cmd>> /\ UNCHANGED job
    BY <1>2 DEF Server, clientVars
  <2>3. OnlyAdds
    BY <2>1 DEF OnlyAdds, RegistryInv
  <2> QED
    BY <1>1, <2>1, <2>2, <2>3 DEF JobInv
<1>3. ASSUME NEW r \in Requests, ServerPublish(r)
      PROVE  RegistryInv' /\ JobInv' /\ FilesInv' /\ OnlyAdds
  <2>1. /\ RegistryInv' /\ OnlyAdds
        /\ \A m \in Modules : redirect[m] # None /\ m # txn[r].module => redirect'[m] # None
    BY <1>3, PublishKeeps DEF ServerPublish
  <2>2. /\ UNCHANGED <<file, torn, cmd>>
        /\ job' = [m \in Modules |-> IF m = txn[r].module /\ job[m].replaces
                                        /\ job[m].pc = "install"
                                     THEN [job[m] EXCEPT !.raced = TRUE] ELSE job[m]]
    BY <1>3 DEF ServerPublish
  <2>3. \A m \in Modules : [job[m] EXCEPT !.raced = TRUE] \in Jobs
    BY DEF JobInv, Jobs
  <2>4. job' \in [Modules -> Jobs]
    BY <2>2, <2>3 DEF JobInv
  <2>5. ASSUME NEW j \in Modules
        PROVE  \/ job'[j] = job[j] /\ (redirect[j] # None => redirect'[j] # None)
               \/ job'[j] = job[j] /\ ~(job[j].replaces /\ job[j].pc = "install")
               \/ job[j].pc = "install" /\ job'[j] = [job[j] EXCEPT !.raced = TRUE]
    BY <2>1, <2>2
  <2> QED
    BY <1>1, <2>1, <2>2, <2>4, <2>5
<1> QED
  BY <1>2, <1>3

(* The flags of updated modules.                                            *)
LEMMA CleanKeeps ==
  ASSUME PackagesInv, Next
  PROVE  CleanInv'
<1> USE DEF PackagesInv, CleanInv
<1>1. CASE Server \/ (\E r \in Requests : ServerPublish(r)) \/ \E j \in Modules : Task(j)
  BY <1>1 DEF Server, clientVars, ServerPublish, Task, TaskFails, UpdateTask, InstallQuery,
     InstallDownload, InstallCreate, InstallWrite, WriteTo, WriteFails, UninstallOld, SetJob
<1>2. CASE Start
  <2>1. cmd = "down" /\ cmd' = "idle" /\ UNCHANGED <<auto, mine, clean>>
    BY <1>2 DEF Start
  <2>2. chk' = chk \/ \E T : chk' = [NoCheck EXCEPT !.pc = "latest", !.state = auto, !.todo = T]
    BY <1>2 DEF Start
  <2>3. {"pc", "state", "todo"} \subseteq DOMAIN chk' /\ "outdated" \in DOMAIN chk'.state
    BY <2>2 DEF NoCheck
  <2> QED
    BY <2>1, <2>3
<1>3. CASE Crash
  BY <1>3 DEF Crash, Default, NoCheck
<1>4. CASE CheckLatest
  <2>1. CASE chk' = NoCheck
    BY <1>4, <2>1 DEF CheckLatest, NoCheck, Default
  <2>2. CASE chk' = [chk EXCEPT !.pc = "query", !.todo = {}]
    BY <1>4, <2>2 DEF CheckLatest
  <2>3. CASE chk' = [chk EXCEPT !.pc = "query",
                       !.state = [@ EXCEPT !.registry = LatestTime, !.outdated = {}]]
    BY <1>4, <2>3 DEF CheckLatest
  <2> QED
    BY <1>4, <2>1, <2>2, <2>3 DEF CheckLatest
<1>5. CASE CheckQuery
  <2>2. DOMAIN chk' = DOMAIN chk /\ DOMAIN chk'.state = DOMAIN chk.state
    BY <1>5 DEF CheckQuery
  <2> QED
    BY <1>5, <2>2 DEF CheckQuery
<1>6. CASE CheckSave
  BY <1>6 DEF CheckSave, NoCheck, Default
<1>7. CASE Commands
  BY <1>7 DEF Commands, InstallCmd, UpdateCmd, QuickstartCmd, Reload, Uninstall
<1>8. ASSUME NEW j \in Modules, Collect(j) PROVE CleanInv'
  BY <1>8 DEF Collect, CollectWith
<1>9. CASE Finish \/ \E m \in Modules : FinishInstall(m)
  BY <1>9 DEF Finish, FinishInstall, Default
<1> QED
  BY <1>1, <1>2, <1>3, <1>4, <1>5, <1>6, <1>7, <1>8, <1>9 DEF Next, MainLoop

(* The invariant is inductive, and releases are only added.                 *)
LEMMA PackagesNext ==
  ASSUME PackagesInv, [Next]_packageVars
  PROVE  PackagesInv' /\ OnlyAdds
<1> USE DEF PackagesInv
<1>1. CASE UNCHANGED packageVars
  <2>1. UNCHANGED <<registryVars, clientVars>>
    BY <1>1 DEF packageVars
  <2>2. RegistryInv' /\ UNCHANGED releases
    BY <2>1, RegistrySmallSteps DEF registryVars
  <2> QED
    BY <2>1, <2>2 DEF registryVars, clientVars, OnlyAdds, RegistryInv, JobInv, JobsOfCommand, JobGood,
       FilesInv, FilesAreReleased, CleanInv, Download, TryFind, Loaded, Writers
<1>2. CASE Server \/ \E r \in Requests : ServerPublish(r)
  BY <1>2, ServerKeeps, CleanKeeps DEF Next
<1>3. ASSUME UNCHANGED registryVars PROVE RegistryInv' /\ OnlyAdds
  <2>1. RegistryInv' /\ UNCHANGED releases
    BY <1>3, RegistrySmallSteps
  <2> QED
    BY <2>1 DEF RegistryInv, OnlyAdds
<1>4. CASE Commands \/ MainLoop \/ Start \/ Crash
  <2>1. UNCHANGED registryVars
    BY <1>4 DEF Commands, MainLoop, Start, Crash, InstallCmd, UpdateCmd, QuickstartCmd, Reload,
       Uninstall, Finish, Collect, CollectWith, FinishInstall
  <2> QED
    BY <1>3, <1>4, <2>1, CommandKeeps, CommandFiles, CleanKeeps DEF Next
<1>5. ASSUME NEW j \in Modules, Task(j) PROVE PackagesInv' /\ OnlyAdds
  <2>1. UNCHANGED registryVars
    BY <1>5 DEF Task, TaskFails, UpdateTask, InstallQuery, InstallDownload, InstallCreate,
       InstallWrite, WriteTo, WriteFails, UninstallOld, SetJob
  <2>2. RegistryInv' /\ OnlyAdds /\ CleanInv'
    BY <1>3, <1>5, <2>1, CleanKeeps DEF Next
  <2>3. JobInv' /\ FilesInv'
    BY <1>5, <2>2, QueryKeeps, QueryOpensNothing, WriteKeeps, FilesStay DEF Task, OnlyAdds
  <2> QED
    BY <2>2, <2>3
<1>6. CASE CheckLatest \/ CheckQuery \/ CheckSave
  <2>1. UNCHANGED <<registryVars, file, torn, job, cmd>>
    BY <1>6 DEF CheckLatest, CheckQuery, CheckSave
  <2>2. RegistryInv' /\ OnlyAdds /\ CleanInv'
    BY <1>3, <1>6, <2>1, CleanKeeps DEF Next
  <2>3. FilesInv'
    BY <2>1, <2>2, FilesStay DEF OnlyAdds, Writers
  <2>4. JobInv'
    BY <2>1 DEF registryVars, JobInv, JobsOfCommand, JobGood, Download, TryFind
  <2> QED
    BY <2>2, <2>3, <2>4
<1> QED
  BY <1>1, <1>2, <1>4, <1>5, <1>6 DEF Next

(* The invariant holds in every reachable state.                            *)
LEMMA PackagesInvariant == Spec => []PackagesInv
<1>1. PackagesInv /\ [Next]_packageVars => PackagesInv'
  BY PackagesNext
<1> QED
  BY <1>1, PackagesStart, PTL DEF Spec

(* No sequence of publish requests, however they overlap, changes or takes  *)
(* back a release.                                                          *)
THEOREM ReleasesStay == Spec => ReleasesImmutable
<1> DEFINE A == /\ releases \subseteq releases'
                /\ \A x \in releases, y \in releases' :
                     y.module = x.module /\ y.version = x.version => y = x
<1>1. PackagesInv /\ [Next]_packageVars => [A]_packageVars
  BY PackagesNext DEF OnlyAdds
<1> HIDE DEF A
<1>2. Spec => [][A]_packageVars
  BY <1>1, PackagesInvariant, PTL DEF Spec
<1> QED
  BY <1>2 DEF A, ReleasesImmutable

(* What the registry told a task is still true when the task acts on it.    *)
THEOREM AnswersHold == Spec => []AnswersStayGood
<1>1. PackagesInv => AnswersStayGood
  BY DEF PackagesInv, JobInv, JobGood, AnswersStayGood
<1> QED
  BY <1>1, PackagesInvariant, PTL

(* A module file that loads has the header of a release of that module,     *)
(* whatever tasks write to the folder and wherever the shell is killed, and *)
(* all of that release unless a write was cut, failed or was overlapped.    *)
THEOREM FilesHold == Spec => []FilesAreReleased
<1>1. PackagesInv => FilesAreReleased
  BY DEF PackagesInv, FilesInv
<1> QED
  BY <1>1, PackagesInvariant, PTL

(* The flag of a module that was updated stays away until a check looks     *)
(* again, although command and check save the same file.                    *)
THEOREM FlagsHold == Spec => []UpdatedIsNotOutdated
<1>1. PackagesInv => UpdatedIsNotOutdated
  BY DEF PackagesInv, CleanInv, UpdatedIsNotOutdated
<1> QED
  BY <1>1, PackagesInvariant, PTL
=============================================================================
