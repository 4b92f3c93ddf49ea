# A TLA+ model of sn0int

sn0int collects information about domains, addresses, accounts and the like. A user works at
a prompt, in a workspace (one sqlite file); modules are Lua scripts that are run over the
entities of the workspace and add what they find. This directory holds TLA+ modules that model
the parts of sn0int in which something can go wrong that a unit test hardly reaches, the TLC
configurations that check them on small instances, and proofs that TLAPS checks for instances
of any size. Paths below are relative to the root of the repository, `src/worker.rs` being the
worker of the main program.

Contents: [inventory](#1-inventory), [modules](#2-modules-and-how-they-correspond-to-the-code),
[runs](#3-runs), [fairness](#4-fairness), [differences from the
documentation](#5-where-code-and-documentation-differ), [proofs](#6-proofs),
[limits](#7-what-is-not-modelled), [plan](#8-plan).

## 1. Inventory

| Component | State it keeps | Operations | Talks to |
|---|---|---|---|
| Worker (`src/worker.rs`, `src/cmd/run_cmd.rs`) | number of jobs still to report, errors, spinners; a channel that holds one event; a thread pool | `run`: submit one job per target, receive events until every job has reported | jobs by channel, database and rate limiter by call |
| Sandbox protocol (`src/ipc/`, `src/engine/ctx.rs`) | one child process per job, two pipes, the reply channel of the pending request | start, log, request/reply (database, rate limit, blob, stdin), exit, wait | worker by channel, child by pipes |
| Ctrl-c register (`src/shell/mod.rs`) | one atomic counter | catch, add, read, reset; the signal handler | jobs read it, the handler may end the process |
| Workspace database (`src/db/mod.rs`, `src/models/`) | 17 tables of entities and links | insert or upsert, update, delete, scope, noscope | worker (on behalf of scripts), commands, other processes on the same file |
| Temporary entities (`src/db/ttl.rs`) | the table `ttls` | create, bump, reap | every insert; every `run` and start-up reaps |
| Rate limiter (`sn0int-std/src/ratelimits.rs`) | a bucket of times per key, for one run | pass or "come back in d" | scripts through the worker |
| Activity log (`src/models/activity.rs`, `src/cmd/activity_cmd.rs`) | the table `activity` | log (deduplicated by a tag), query, `--initial` | scripts through the worker, the user |
| Autonoscope (`src/autonoscope/`) | a table of rules and the sorted copy in memory | add, delete, load, match | every insert asks it |
| Notifications (`src/notify/`) | configuration | route a database change to scripts, run them | called from the event loop and from `reap_expired`, runs `spawn` inside of `spawn` |
| Keyring (`src/keyring.rs`) | a json file of keys and grants, a copy in each process | add, delete, grant, deny, hand keys to a script | asked before a run and before a notification |
| Automatic updates (`src/update.rs`) | a json file of the last check | check in the background, record | start-up and `pkg` |
| Registry client and library (`src/registry.rs`, `src/engine/mod.rs`, `src/cmd/pkg_cmd.rs`) | module files on disk, the list in memory | install, update, quickstart, reload, uninstall | registry server by http, parallel tasks by `spawn_multi` |
| Registry server (`sn0int-registry/`) | postgres tables of modules and releases | publish, redirect, info, download, latest | clients by http |
| Blob store (`src/blobs.rs`, `src/cmd/fsck_cmd.rs`) | files named by a hash | save, load, garbage collection | scripts, images in the database |
| Shell (`src/shell/`) | selected module, target filter, options, workspace | `use`, `set`, `target`, `back`, `workspace`, `run`, reload | all of the above |
| Filters (`src/db/mod.rs`, `src/filters.rs`) | none | turn the words of a condition into SQL, restrict it to what is in scope | `select`, `delete`, `scope`, `noscope`, `target`, `run` |
| Workspaces (`src/workspaces.rs`, `src/cmd/workspace_cmd.rs`) | the files of each workspace, in an old or a new layout | migrate, open, delete, list, usage | start-up, other processes on the same files |
| `add` (`src/cmd/add_cmd.rs`) | none | add an entity after what it belongs to | database, autonoscope, blob store |
| Calendar (`src/cal/`, `src/cmd/cal_cmd.rs`) | none | months, days and slices of the activity log | activity log |
| Runtime functions of scripts (`src/runtime/`, `sn0int-std/`) | error, sockets, websockets, mqtt, http sessions of one script | connect, read, send, upgrade, request | the network |

What is hard in it:

* **Three kinds of threads and two kinds of processes** take part in a run. The channel to the
  main thread holds one event, the main thread takes nothing from it while it serves a request,
  and a job blocks until its request is answered: a circle of waiting would hang the program. A
  child can die at every point of the protocol, and ctrl-c kills all of them at once while the
  handler that records it runs some time later.
* **Several processes share one sqlite file and no operation uses a transaction.** Everything
  that looks and then writes (insert, ttl, bump, reap, deduplication) has a gap in which another
  process may act, and an operation can stop in the middle.
* **State is kept twice**: rules of autonoscope in memory and in a table, an entity and its ttl
  in two tables without a foreign key, an image in a table and its bytes in a file, the keyring
  in a file and in the memory of every process, the library in memory and on disk.
* **Files are written in place.** `fs::write` truncates first: whoever reads in between, or after
  a crash, sees half a file (keyring, blobs, modules).
* **`spawn` is entered again** from the notification router inside of its own event loop.
* **A byte stream is cut anywhere**, and what a script reads with must not depend on where.
* **Boundaries**: windows of the rate limiter, equal and out-of-order times in the activity log,
  NULLs in a UNIQUE constraint.

What makes each component correct, in one sentence each: a run takes one honest result per
target and then leaves nothing behind (worker); an answer reaches the request it answers
(protocol); the database has no duplicates and no orphans (database); nothing is deleted that
was not temporary and expired (ttl); no window is exceeded and everybody gets through (rate
limiter); a tagged event is stored once and the initial state is the right one (activity); the
first match decides, now and after a restart (autonoscope); an event reaches every rule
that matches (notifications); no script gets a key nobody agreed to, and no key is lost (keyring);
a release never changes and what is installed is one (registry, library); an image has its blob
(blob store); module, options, target and workspace belong together at every prompt (shell); a
filter means what was typed (filters); a workspace that moves loses nothing (workspaces); what
a peer sends reaches the script complete and in order (runtime). `PROJECT.json` lists the
hazards line by line, each with the properties that are aimed at it.

## 2. Modules and how they correspond to the code

| Module | Models | Run by |
|---|---|---|
| `Batch` | what `worker::spawn` promises its callers | refined by `Worker` |
| `Worker` | `execute`, `spawn`, `ipc::parent::run`, `ipc::child::run`, the register and handler of ctrl-c | `MCWorker`, `MCProgress` |
| `Database` | the database, ttls and the commands that change entities | `MCAdd`, `MCStorage`, `MCDatabase` |
| `Add` | the `add` command, on top of `Database` | `MCAdd` |
| `Storage` | blobs, images and `fsck`, on top of `Database` | `MCStorage` |
| `Ratelimiter` | buckets and the loop of the script | `MCProgress` |
| `Activity` | the activity log and its query | `MCActivity` |
| `Calendar` | the `cal` command, on top of `Activity` | `MCActivity` |
| `Autonoscope` | rules, their table and the match | `MCAutonoscope` |
| `Keyring` | the keyring file, grants and questions | `MCShell` |
| `Shell` | the interactive shell, `execute` and the notification router, on top of `Keyring` | `MCShell` |
| `Registry` | the registry server | `MCPackages` |
| `Packages` | `pkg`, the library and automatic updates, on top of `Registry` | `MCPackages` |
| `Filters` | how the conditions of a command become SQL, and what the SQL selects | `MCShell` |
| `Workspaces` | the files of workspaces and the commands that move, open, delete and list them | `MCShell` |
| `Script` | what a script keeps in `LuaState` and the functions that use it | `MCScript` |
| `Lists` | `retain`, a stable sort and ORDER BY, as operators on positions | used by `Ratelimiter`, `Autonoscope`, `Calendar` |
| `WorkerProofs` | theorems about `Worker`, and that it implements `Batch` | TLAPS |
| `DatabaseProofs` | theorems about `Database`, and from them about `Storage` and `Add` | TLAPS |
| `ActivityProofs` | theorems about `Activity` and `Calendar` | TLAPS |
| `ListProofs` | lemmas about `Lists` | TLAPS |
| `RuleProofs` | theorems about `Ratelimiter` and `Autonoscope` | TLAPS |
| `ShellProofs` | theorems about `Keyring` and `Shell` | TLAPS |
| `PackagesProofs` | theorems about `Registry` and `Packages` | TLAPS |
| `ScriptProofs` | theorems about `Script` | TLAPS |

The `MC` modules give constants their values and define symmetry sets. Some of them put several
instances into one run: a variable `part` (in `MCAdd` the `group` of `Add`), chosen in the initial
state and never changed, says which of them a behaviour is of. The parts have actions of their own or
bounds of their own and share no step, so that the run checks their state graphs side by side, and a
property that is about one part is checked in every behaviour of it. Operators called
`Mut...` are deliberately wrong variants of the definition that follows them; no specification
uses them. They exist to show that a property fails when the code has that bug.

**Worker.** The main thread is `main` with the locals of `spawn` (`expected`, `errors`,
`failed`, `stack`); `Execute`, `Submit`, one `Recv...` action per event, `Serve` and `Finish`
are its steps. A pool thread is `pc[j]` with `outcome` and `asked`; each action is the code from
one blocking call to the next, and a thread stands at the calls that block: sending on the
channel (`send_*`), reading the pipe (`recv`), waiting for an answer (`callback`), for the child
(`wait`). The child is `child[j]` with the request it waits for (`want`). `stdin`, `stdout`,
`chan` and `reply` are the pipes and channels. `CtrlC` is the key press (it kills the children),
`Handle` the handler. Messages are a kind and a result; payloads are left out, since no control
depends on them. The pool's queue (crate threadpool) is FIFO and serves one job per thread.
Receiving a request (`RecvRequest`) and answering it (`Serve`) are two steps, because the main
thread serves it without taking anything from the channel.

**Database.** One action per SQL statement; `pc[p]` is the statement a process runs next, `q`,
`found`, `expire` and `todo` are the locals. `Schema` has an entry per model that says what the
statements of that model do differently: foreign keys, found by value or by the linked pair,
whether an insert may update, and which columns an upsert and an update can change. Of a row
these columns are one column `attr`,
which is enough to tell "equal", "different" and "not set" apart. Filters of `delete`, `scope`
and `noscope` select any set of rows. What sqlite does (UNIQUE, foreign keys, cascade,
AUTOINCREMENT) is modelled from the migrations. `temp` in a row is an observation and is read by
no action.

**Lists.** `Retain` is `Vec::retain` and DELETE, `Ordered` a sort by a strict order; both say for
every place which element stands there, the one with that many predecessors, instead of going
through the list. TLC evaluates them as they are, and the provers can reason about them for lists of
any length, which they cannot about `SelectSeq` or a fold.

**Ratelimiter.** Times are kept as ages with a cap above the largest window, so that the clock
needs no bound. The way of a request through channel and pipes is `Worker`'s; here it is one
step. `passed` is an observation.

**Activity.** The log only grows, so an id is a position. `seen` is an observation: the length
of the log when `activity` ran its first query.

**Autonoscope.** A rule is a sequence of labels, bits or path segments, and matching is being a
prefix. `form` tells two spellings of one rule apart: parsing and printing again canonicalises a
network and keeps a domain and a url as typed. A command (`Command`) begins with the
delete of its rule, which is all of `delete`; for `add` the insert (`Insert`) is an action of its
own, because a statement may fail or the process may end between the two (`Adds` leaves it in
`todo`). A port has no verdict as soon as there is an ip rule, since its
value does not parse as an address. `torn` is an observation: a
delete has failed since the rules were loaded; `behind`: another process has changed the table
since (`OtherDeletes`, `OtherInserts`), of which the process never reads anything.

**Add.** `into_insert` of each entity is the list of what is inserted (`AddUrl` is a domain, a
subdomain and the url). `AddInsert` starts `insert_struct` for the head of the list below the id
found for the one before; its statements are those of `Database`, interleaved with other
processes. `Root` says which name an entity belongs to, and `Names` goes up from the name typed;
what is added has at most three tables, the ones of a url.

**Storage.** A blob is a file that is absent, torn or complete; saving it opens (truncates) and
then writes. `fsck` reads the images, lists the files, checks them one by one and deletes, each a
step. `raced` is an observation: blobs whose image was being added during an `fsck`, or whose
file was cut short.

**Calendar.** `FromArgs`, `Start`, `End`, `Shown` and, for `--time`, `FromTimeArgs` are functions of the
arguments; a time view with arguments is `todo!()` in the code (`Panic`).
`SetupGraphMap` counts runs of equal days or slices in the order in which `Activity` loads them
(`Count` is one turn of the loop, `Flush` the end of a run). `Cell` is what is shown of a day or a
slice: its grade, or `Plain` when it has not begun (`is_future`). The length of an hour and of a day,
the slices and what may be typed (`Months`, `Years`, `Contexts`) are constants. A day is stood for by
its number.

**Keyring.** `kfile` is the file, `kring[p]` the copy of a process, `ask` the questions of
`prepare_keyring` that are left, `given` the keys handed to scripts. `Save` writes all the process
has, or leaves a broken file and no process. `yes`, `keys`, `behind` and `clobbered` are
observations: what the user agreed to and typed, and whether a process has saved an old view.
`Namespaces` are those some module asks for, and `Keyrings` is what a file that parses can hold.

**Shell.** `sh` holds the fields of `Shell` and where the main thread stands; a command is one
step up to the first thing that waits (a question, a run). A run is the events its scripts send:
each starts a router (`frames`, a stack) that goes through the rules in any order, because the
configuration is a hash map; a script of a rule may cause events in turn. `missed` is an
observation. The other processes of `Keyring` are `sn0int run` in another terminal.

**Registry.** A publish request is one transaction: it begins with what it sees and commits or
rolls back; from its UPDATE of the row of the module until the commit no other one can touch the
module. A release is dated by the begin of its transaction, to the second. `ReleasesImmutable`
covers both halves of a release staying as it is: none goes away, and no later one has the module
and version of an earlier one.

**Packages.** One `job[m]` per task of `spawn_multi`; each http request and each of the two halves
of `fs::write` is a step. `Module::load` parses the header of a file and takes any code behind it: a
file is `Broken` only without a whole header, and otherwise is the release its header names, whole or
not. A write that fails or is cut by a crash, and two that overlap, leave such files (`Cut`); `torn`
observes it. `chk` is the thread of the background check with the state it has loaded.
`Start` and `Crash` begin and end the shell at any point.

**Script.** The script is any sequence of calls. `sess` are the connections: what is on its way
(`wire`), buffered (`buf`), and, as observations, everything sent (`sent`) and delivered (`got`), why
something is missing (`lost`) and whether the script was told of an error (`told`). A packet of mqtt
is two items, its type and the rest, because a timeout in between loses the first (`NoPacket`) and the
rest is then taken for packets (`OutOfStep`); a websocket keeps a part of a message, and is a sequence
of messages. `Upgrade` drops what is buffered, as `into_inner` does.
A read takes one buffer at a time, and what a buffer holds is any part of what has arrived. http is
sessions, requests and clients; a cookie is stood for by the session it came with.

**Filters.** `conds` and `conns` are what the user typed; `Args` are the arguments, `Parse` is the
loop over them with its flag `expect_value`. The SQL is a sequence of raw words and quoted texts.
What sqlite does with it is external: `and` before `or`, a comparison of columns that is compared to
a text again is false, what does not parse fails. `Meant` is the reference: what the conditions say
when each is read by itself.

**Workspaces.** Each call into the file system is an action: `exists`, `rename`, `create_dir_all`, the
parts of `remove_dir_all`, the two scans of `list`. A workspace has a database and a folder of blobs
in the old layout and in the new one; both hold sets of things, so that it can be said where a thing
is. `kept` (what was stored and not deleted) and `still` (what nobody else touches while a process
lists) are observations. `Dies` ends a process between any two calls.

How the parts compose: `Worker` treats the database, the rate limiter and the blob store as a
handler that answers (`Answers`); `Database` and `Ratelimiter` say what the answers are.
`Database` takes what the rules say of a new entity as an input (`unscoped`); `Autonoscope` says
what it is. `Shell` takes a run as the events that `Worker` serves. `Add`, `Storage`, `Calendar`,
`Shell` and `Packages` extend the module below them and interleave with its actions.

## 3. Runs

| Run | Checks | Instance |
|---|---|---|
| `worker` | `TypeOK`, `Accounting`, `QuietAfterReturn`, `ErrorsExact`, `OutcomeHonest`, `ReplyMatchesRequest`, `ImplementsBatch` | 2 runs of up to 2 jobs on 2 threads, one event per script, 2 ctrl-c |
| `progress` | `RunEnds`, `RequestAnswered`, `SandboxesBounded` | worker: 1 run, 2 jobs on 1 thread, 2 events per script, a pipe of 2 lines, 1 ctrl-c |
| | `WindowRespected`, `RetryInWindow`, `ThrottleEnds` | rate limiter: 2 scripts, 2 calls each, 4 limits of which 3 share a key |
| `database` | `KeysUnique`, `ReferentialIntegrity`, `BelowItsName` | 2 processes, 2 rows per table; scripts that link breaches and emails with 2 passwords, or users adding domains and subdomains, or both adding phone numbers |
| | `OnlyTemporaryExpires`, `TtlHonoured` | one command at a time: domains and subdomains, 2 rows per table, 2 ttls, a clock, failures |
| `storage` | `TtlNamesItsEntity`, `ImagesHaveBlobs` | 2 processes, 2 images, 2 rows, failures |
| `activity` | `InitialIsPreviousState` | 2 processes, 2 topics, 4 times, 3 events, every filter |
| | `CalendarShowsLog` | 7 times over 2 days, 4 events, every view at every time, and every accepted argument |
| `autonoscope` | `RestartChangesNothing`, `FirstMatchWins`, `AppliedRulesAreStored` | 6 rules as typed, failing statements, restarts at any point, one rule edited by another process |
| `shell` | `NotificationsRouted`, `RegisterArmed`, `KeysNeedConsent` | 6 commands, 2 modules, 2 rules, 2 workspaces, 1 key, 2 events per run, routers 2 deep, 1 other process |
| | `FilterExact`, `TargetsInScope` | filters: up to 3 conditions on 2 columns with 2 texts, joined by `and` and `or`, with values that look like operators and conditions |
| | `NothingLost`, `OpenIsMigrated`, `DeletedIsGone` | workspaces: 2 processes, 2 workspaces in any layout, one thing to store, deaths at any point |
| `packages` | `AnswersStayGood`, `FilesAreReleased`, `UpdatedIsNotOutdated` | 2 modules, one redirected to the other, releases published one after the other meanwhile, writes that fail, overlap or are cut, the background check, 2 starts, a crash at any point |
| | `ReleasesImmutable`, `UpdatedIsNotOutdated` | 2 publish requests side by side for the same version, the background check and `pkg update` |
| `script` | `LossesAreKnown`, `ClosedSocketsReturn`, `RequestsStayApart` | 5 calls, 1 connection with 2 items, 2 http sessions, 2 proxies |

Three more, `database_stale_id`, `database_ttl` and `autonoscope_urls`, each show a sentence of the
documentation that the code does not meet (section 5). `UniqRespected`, `OthersRulesKept`,
`SelectionConsistent`, `StopsAtFirst` and the `TypeOK` of `Database` say less than the properties
above and are proved only (section 6).

What the bounds are chosen for:

* *Worker.* Two jobs are the least that compete for the channel and for the main thread; jobs
  are treated alike except for the FIFO order of the queue. The second run is there because a
  signal that is handled late acts on the run after. A pool of one thread makes a job queue
  behind another. A script with one event has every kind of request, a second one makes the pipe
  fill up and lets a rate limit be asked for again. `MaxOps` means that a script comes to its
  end; one that loops for ever is ended by ctrl-c, which kills the child (`CtrlC`), and the run
  then ends as shown.
* *Database.* Two rows per table let an id be used again if the code allowed it, and let an
  entity be deleted and inserted again while another operation holds its id. Two processes
  suffice for every race between one operation and what happens in its gap. A behaviour of `database` uses one of four groups of tables (`Groups`), three with two
  processes and one (`OneByOne`) with a clock and ttls, in which a command begins when no other
  is under way. `OnlyTemporaryExpires` and `TtlHonoured` are about that last one on purpose: with
  commands that overlap, the gaps in `reap_expired`, `bump` and the scope check are real (see the notes
  of the hazards in `PROJECT.json`), and `database_stale_id` shows one of them.
* *Storage.* Two images and two processes: one adds, deletes and adds again while the other
  collects. The clock stands still; that a reap takes nothing else away is in `database`.
* *Ratelimiter.* A key of its own, and a key that is shared by limits with different windows and
  by one that can never be passed (`passes = 0`). Two scripts with two calls fill both windows.
* *Activity.* Three events are the least with one before, one at and one after `--since`, in
  any order of times, since logging takes its time as an argument.
* *Calendar.* Four events can be loaded in an order with equal days apart, and give four grades.
  Hours of 2 minutes and days of 2 hours put seven times into two days, of which any may be to come.
  `cal` looks at time and topic only, so that these logs need no tags and one topic.
  The months of a calendar are checked with contexts up to 13 over the turn of a year.
* *Shell.* `scan` takes its targets from the keyring, `notify` is a script for notifications. One
  rule fits an event of one topic, the other names the wrong kind of script and one workspace
  only: a rule that works beside one that fails. Six commands let a selection, a reload, a change
  of workspace and a run come together; two routers are one inside of another.
* *Packages.* A redirect, a version that is published twice with different content, an install
  with and without `--force`. Two starts are a crash and what is found after it.
* *Script.* Delimiters of one and of two bytes, so that a delimiter can be cut in two; a websocket
  and an mqtt connection with every kind of message in every order. Five calls are the least for a
  connection with a timeout, two reads and an error, and for two sessions with requests that
  cross.
* *Filters.* Two conditions are the least whose connective can be taken for a value, three the least
  with `and` and `or` together. Operators other than `=` and `!=` are treated alike by `parse`.
* *Workspaces.* A second process to move or delete what the first one has found, a second workspace for
  `list` to miss. One thing is enough to be lost.
* *Autonoscope.* Equal rules in two spellings, rules of equal and of different precision, an
  address typed with and without its prefix length, a url that a domain rule matches as well.

Deadlock is checked for `Worker`, `Ratelimiter` and `Autonoscope`. `Halt` in `Worker` is the
state in which the program may stop: at the prompt with nothing left to do, or after exit.
`Database` and `Activity` run into their bounds on rows (there is nothing to do in a full table),
so deadlock is not checked there; every operation of them is a straight line of statements. The
same is true of `Shell`, `Packages`, `Script` and `Filters`, which end at a bound on commands,
requests, calls or conditions (`Workspaces` is in the run of `Shell` and always has a next step); a script may end, and may wait for a peer that sends nothing.

What the properties of the worker say together: the countdown of `spawn` is the number of jobs
that have not reported (`Accounting`), so that it returns with the last of them and no thread is
left that could send on a channel without a receiver, which would be a panic (`QuietAfterReturn`);
what it returns is what the jobs reported (`ErrorsExact`); and what a job reports is what happened
to its child (`OutcomeHonest`): a child that died after it reported success is not a success. A
job that ctrl-c kept from starting reports Ok, as in the code. `ImplementsBatch` is the same
seen from outside: the whole of threads, children and signals implements the four actions of
`Batch`. The refinement mapping hides everything but whether the program is at the prompt, the
targets not reported, and the number of errors.

Several properties name the case in which they do not hold: an observation variable (`raced`,
`clobbered`, `behind`, `torn`, `lost`, `clean`) marks behaviours in which the code makes no promise, and
the property is about all others. The hazards of `PROJECT.json` say what happens in these cases:
an image loses its blob when `fsck` runs while it is added, a key is lost when two processes save
the keyring, a read timeout drops what `recvuntil` has read, `recvline_contains` does not return
on a closed connection, a module file whose write was cut keeps a part of it behind a good header, and `pkg update` removes what it has just installed when a release takes
the redirect away between two requests.

## 4. Fairness

`Worker!Fairness` is weak fairness of the main thread, of the signal thread, of each pool thread
and of each child: the scheduler runs what can run. A read from the terminal for a script
(`RecvChildStdio`) is counted as a step of the pool thread, so the user is taken to answer or to
close the terminal. Nothing is fair that starts something: the user need not type `run` or press
ctrl-c, and a child need not crash. Weak fairness suffices although jobs compete for the channel,
because every job sends a bounded number of events; `RunEnds` does not depend on who comes first.

`RateFairSpec` of `Ratelimiter` adds that time passes and that a script that may run does. A script that
waits competes with others for each slot that becomes free, and a bounded number of calls per
script (`MaxCalls`) makes the others stop eventually: with scripts that call without end, one of
them can starve, since the code keeps no queue.

`Script!Spec` has weak fairness of `Step`, the steps of a read that is under way: a call goes on
when there is something to read, the connection is closed or the timeout is over. Neither the
script nor the peer has to do anything.

## 5. Where code and documentation differ

Shown by a run that is expected to find a violation:

* `database_stale_id`: after an insert the id is read back by value (`src/db/mod.rs:208`). If
  another process deletes the entity in between and adds it for good, the permanent entity gets
  the expiry date. `docs/database.rst:55-56`: "If the entity already exists but never expires we
  are not going to add a ttl."
* `database_ttl`: `Ttl::bump` writes the new date only when it is the later one
  (`src/db/ttl.rs:93`). `docs/database.rst:53-55`: "If the entity already exists and is also marked
  as temporary the new ttl is going to replace the old ttl." `TtlHonoured` is what remains: an entity
  never lives shorter than the last `db_add_ttl` asked.
* `autonoscope_urls`: for a url, every domain rule is tried before the first url rule
  (`src/autonoscope/mod.rs:160`), and so a rule for `com` beats one for an origin and a path.
  `docs/autonoscope.rst:5-6`: "Those are executed from most specific to least specific and the first
  match wins." `FirstMatchWins` says which rule does win.

Others were met while modelling; the model follows the code:

* Limits with the same key share a bucket, and the shorter window makes it forget passes of the
  longer one (`sn0int-std/src/ratelimits.rs:48`). `docs/reference.rst:758` shows two limits with
  the key `foo` and says "allow this to pass not more than 4 times per second".
  `WindowRespected` is about the shortest window of a key.
* `activity --initial` looks for the previous event before the first event that was found
  (`src/cmd/activity_cmd.rs:100`), so that nothing is printed when nothing has happened since.
  Help of the option (`:79`): "Try to select the previous event before --since as an initial
  state". `InitialIsPreviousState` says both: the previous event when there is a first one, and
  nothing otherwise.
* With an ip rule present, adding a port is an error, since its value (`tcp/192.0.2.1:80`) does not
  parse as a socket address (`src/autonoscope/ip.rs:47`); `docs/autonoscope.rst:52-58` lists ports
  among what ip rules are applied to. `FirstMatchWins` says for such a port that there is no verdict.
* An event is skipped when any topic has used its tag (`src/models/activity.rs:28`), while
  `docs/activity.rst:31` speaks of the "same topic and uniq combination". The index of the table
  is on the combination.
* `ws_connect` and `mqtt_connect` connect directly, whatever proxy is configured or asked for
  (`sn0int-std/src/sockets/mod.rs:99` does not look at it), while `docs/config.rst:52` says that
  a proxy "forces everything through tor". `RequestsStayApart` is about sockets and http.
* `add subdomain --dry-run` inserts the domain, and `add url` and `add port` likewise what the
  entity belongs to (`src/cmd/add_cmd.rs:150`, `:225`, `:589`); the help of the option (`:24`)
  says "Do not actually insert into database".
* Rules for `db:...:delete` are not served when an entity expires: `reap_expired` runs outside of
  a run, and the router takes the register for a ctrl-c (`src/db/ttl.rs:148`,
  `src/notify/mod.rs:157`).
* `insert_network_device_struct` does not upsert a link that exists (`src/db/mod.rs:237`), while
  `docs/database.rst:41-42` says that a conflict triggers an upsert. The schema in
  `Database` says which tables do.
* `cal --time` and `--hourly` end in a `todo!()` when they are given arguments
  (`src/cal/time.rs:126`), while the command takes them for every view (`src/cmd/cal_cmd.rs:25`).

## 6. Proofs

TLC's runs show the properties on the instances of section 3; the theorems below hold for every
value of the constants that the `ASSUME` of the module allows. An assumption says only that
bounds are natural numbers, that sets of inputs are of the right kind and that values such as
`None` or `Broken` are not confused with others; the ones that say something about the program
are that there is at least one thread and room for a line in a pipe (`WorkerAssumption`), that a
database has the parent table of every table (`DatabaseAssumption`) and the table of images
(`StorageAssumption`), that what an `add` inserts is in tables of the database
(`AddAssumption`), that the registry starts with at most one release per module
(`RegistryAssumption`), that there are finitely many limits (`RatelimiterAssumption`) and that an
hour is a whole number of slices (`CalendarAssumption`; slices are 12 or 60 minutes long).
TLC evaluates all of them in the runs.

| Module | Theorems, and the property each proves | Inductive invariant |
|---|---|---|
| `WorkerProofs` | `TypeCorrect` (`TypeOK`), `AccountingHolds` (`Accounting`) | `CountInv` |
| | `QuietHolds` (`QuietAfterReturn`), `ErrorsHold` (`ErrorsExact`), `OutcomeHolds` (`OutcomeHonest`), `ReplyHolds` (`ReplyMatchesRequest`), `SandboxesHold` (`SandboxesBounded`), `BatchImplemented` (`ImplementsBatch`) | `RunInv` |
| `DatabaseProofs` | `TypeCorrect` (`TypeOK`), `KeysHold` (`KeysUnique`), `IntegrityHolds` (`ReferentialIntegrity`), `TtlNamesHold` (`TtlNamesItsEntity`) | `DatabaseInv` |
| | for one process: `TemporaryHolds` (`OnlyTemporaryExpires`), `PromisesHold` (`TtlHonoured`) | `AloneInv` |
| | `BlobsHold` (`ImagesHaveBlobs`), `StorageKeepsDatabase` (`TypeOK`, `TtlNamesItsEntity`) | `StorageInv` |
| | `NamesHold` (`BelowItsName`), `AddKeepsDatabase` (`KeysUnique`, `ReferentialIntegrity`) | `AddInv` |
| `ActivityProofs` | `UniqHolds` (`UniqRespected`), `InitialHolds` (`InitialIsPreviousState`), `CalendarHolds` (`CalendarShowsLog`) | `ActivityInv` |
| `RuleProofs` | `WindowHolds` (`WindowRespected`), `RetryHolds` (`RetryInWindow`) | `RateInv` |
| | `AppliedHolds` (`AppliedRulesAreStored`), `RestartHolds` (`RestartChangesNothing`), `OthersKeptHolds` (`OthersRulesKept`), `FirstMatchHolds` (`FirstMatchWins`) | `RulesInv` |
| `ShellProofs` | `ConsentHolds` (`KeysNeedConsent`), `RegisterHolds` (`RegisterArmed`), `SelectionHolds` (`SelectionConsistent`), `RoutingHolds` (`NotificationsRouted`) | `ShellInv` |
| `PackagesProofs` | `ReleasesStay` (`ReleasesImmutable`), `AnswersHold` (`AnswersStayGood`), `FilesHold` (`FilesAreReleased`), `FlagsHold` (`UpdatedIsNotOutdated`) | `PackagesInv` |
| `ScriptProofs` | `OnlyKnownLosses` (`LossesAreKnown`), `RequestsHold` (`RequestsStayApart`), `StopsHold` (`StopsAtFirst`) | `ScriptInv` |

Hardly any property is inductive as it stands: it speaks of what is seen at the end, and its
proof needs what makes it so on the way. What the invariants add, and why:

**Counting jobs** (`CountInv`). That `expected - 1` stays a natural number needs `Accounting`
(there is a job to be counted when an Exit event arrives), and `Accounting` needs to know what an
event on the channel says about the thread that sent it: it is from a submitted job, and it is an
Exit exactly if that thread is done (`ChanInv`). `FlowInv` says how far `spawn` is with
submitting, `RegisterInv` that the register is 0 or 1 while the process lives, `LineInv` that an
Exit line on a pipe carries a result. The 16 actions of a pool thread are first reduced to their
shape (`JobMove`), and `JobCount` is one argument for all of them; `SubmitCount` and `ExitCount`
are the two places where both sides change, by one.

**A run** (`RunInv`). `LifeInv` ties the thread to its child: which states go together, and where
the Exit line of a script that returned is. `PlaceInv` says that the request or reply of a job is
in one of six places (pipe, thread, channel, main thread, reply channel, pipe back), in no two at
once, and of the kind the script waits for; that the protocol needs no request numbers is exactly
this. `ReportInv` is what has been taken from the channel, `PoolInv` that a pool thread holds at
most one job. `QuietHolds` then follows from `Accounting`: a countdown of zero leaves no job that
could still send. For `BatchImplemented`, `BatchStep` shows under `RunInv` that every step of the
worker is a step of `Batch` or leaves its variables alone: `Execute` starts a batch, taking an
Exit reports a target, `Finish` ends it, the handler may end the process.

**The database** (`DatabaseInv`). Everything rests on ids: `IdInv` says that no row has an id
above the AUTOINCREMENT counter, so an id is given out once; `Remembered` that an id some process
or ttl still holds was given out, and names nothing or what it named then. It is kept by every
statement because rows never change their name and new rows get a new id (`RowsMove`). A ttl
without a foreign key, and an id read statements ago, are therefore never about another entity.
`KeysUnique` and `ReferentialIntegrity` are kept by the constraints and by the cascade, which is
closed (`CascadeIsClosed`): what refers to a deleted row is deleted with it, a chain of references
having at most three tables.

**One process** (`AloneInv`). `OnlyTemporaryExpires` and `TtlHonoured` are proved under
`Alone == \A p, r \in Procs : p = r`. The hypothesis is needed: with two processes
`database_stale_id` shows a violation. `InsertAlone` is what breaks there (what is read back after
the insert is what was inserted), `TtlAlone` the same for the dates that `bump` and `reap` have
read, and `TtlUnique` that an entity has at most one expiry date.

**Images** (`StorageInv`). A key is `Written` if a row, or an insert under way, names it; its file
is then there, just being written, or the exception was observed (`Safe`). `FsckInv` is the
argument about what an `fsck` has read before: every row that is there now was among the
references then, or was added during it, which `raced` records.

**`add`** (`AddInv`). The id that is known when the next name is inserted is `Remembered` for the
name it belongs to (`AddOK`, `RequestOK`), so that it is either still that entity or gone, and a
foreign key refuses the insert.

**The activity log** (`ActivityInv`). For `--initial`: as long as nothing was logged since the
query, an event lies before the first event found exactly if it lies before `--since`; and when none
was found, nothing is printed.

**The calendar** (`CalendarHolds`). It follows from the type of the log alone, since `cal` computes
what it shows from one query. The work is in the loops. `LoopState` says what `setup_graph_map`
has counted after i dates in order: the last date with its number so far, and in the map every
earlier one with all of its events; that equal dates are next to each other, which the query's
ORDER BY gives (`LoadedIs`), is why no number is overwritten. Rounding inside of an hour is rounding
to a multiple of the slice (`RoundIs`), the walk through the hours of a day reaches every such
multiple (`SlicesAre`), and so each event has its slice (`SlicesShown`). What has not begun is plain
whatever was counted. With months numbered from
year 0, `NextMonth` is the successor and `Start` the difference (`NextMonthIs`, `StartIs`), which is
the borrowing from the year for any context. Loops are recursive functions here; that one exists,
and what it is at i, is shown by the least i for which it would fail (`NatMin`).

**The rate limiter** (`RateInv`). `WindowRespected` counts what was granted, the code counts what is
left in the bucket. `Remembered` ties them: for a limit with the shortest window of its key, the
passes granted in any window up to its time are at most those the bucket holds in it. It holds
although other limits forget passes from the same bucket, because none of them forgets one that
is younger than the shortest window, and although they add to it. `RetainCounts` is the lemma behind
it: forgetting old passes changes no count of younger ones. `Sleeps` is the delay of a script that
was refused.

**Rules** (`RulesInv`). Each list in memory holds rows of the table, each rule once (`AllApplied`,
`OneKind`), as long as nothing else changed the table; when no deletion has failed either, it is
the sorted list of them (`AllSorted`). The sort is stable, so "sorted" orders any two rows, by
precision and then by their place in the table, and there is exactly one such list (`OneList`): the
one a restart loads. A removal keeps it (`WithoutSorted`), and so does a push followed by a sort
(`PushSorted`), since the new rule is the last row as well. The first match in it is then a match of
the highest precision (`FirstMatch`).

**The shell** (`ShellInv`). `GrantInv`: every grant in a memory or in the file was agreed to;
`CopyInv`: whoever has seen the last change has the keys of the user; `AskInv`: a question is
about a module of a running process. `ModeInv` says when routers can be at work, and `RouteInv`
that each rule a router has taken from its list was served, has failed or is being served, at
every depth of the stack. `RegisterArmed` and `SelectionConsistent` are inductive with these.

**Packages** (`PackagesInv`). The latest version of a module is one of its releases and a version
exists once (`RegistryInv`); since releases only grow, what a task was told stays true
(`JobGood`). `CleanInv` follows a module from the end of its update to the file that lists
outdated ones, through the state that will be saved. A file keeps the header of a release through
every way a write can end; that it is whole needs that no other task had it open (`torn`).

**Streams** (`ScriptInv`). `StreamInv`: delivered, read so far, buffered and on the wire make up
what was sent, or the script was told, or one of the two known losses has happened. `AccInv`: what `recvuntil` has put together holds a
delimiter only where two reads have cut it in two (`GoesOn`, `StopsHere` and `PlacesJoin` are the
lemmas about where delimiters lie in a concatenation). `EndInv` ties failures to the error,
`WebInv` sessions to their cookies and clients to their proxies.

TLC finds each of these inductive invariants true in every state of a small instance as well.

What is only model-checked, and why:

* liveness (`RunEnds`, `RequestAnswered`, `ThrottleEnds`, `ClosedSocketsReturn`): fairness and
  ENABLED are out of the prover's reach;
* `Filters` and `Workspaces`: a parser and a small protocol of file operations, whose runs cover the
  interesting cases; no theorems yet;
* `OnlyTemporaryExpires` and `TtlHonoured` are false for more than one process (section 5), and no
  claim is made there.

## 7. What is not modelled

* The content of messages, rows and log lines, beyond what is said in section 2.
* The SQL migrations of old databases; the operators `like`, `<`, `>`, `<=`, `>=` and NULLs in filters.
* Of the registry server: counting downloads, login, search and the html pages. Of the client:
  `pkg search` and `new`.
* `export`, `help` and completion, and what `select` prints: they read and print.
* Parsers, cryptography, image and date functions of scripts: pure library calls, and dns, geoip
  and public suffix data. The suffix list is downloaded and written in place by a start that finds none
  (`sn0int-std/src/psl.rs:62`); nothing in a workspace depends on it but how names are split.
* The sandbox of the child (seccomp, chroot): calls into the kernel at start-up.
* The interactive Lua prompt (repl) and terminal output.

A lost wakeup or a bug inside sqlite, crossbeam, threadpool or the Lua interpreter is outside of
the model: these are used as their documentation says.

## 8. Plan

Every safety property of the modules that have a module of proofs is proved: all invariants, the
action properties and the refinement of `Batch`. What stays with TLC is liveness, and `Filters` and
`Workspaces`. What would be worth adding:

1. *Registry server*: the download counter and the session of a login, next to the publish
   transactions that are modelled.
2. *Several processes and ttls*: a weaker promise than `TtlHonoured` that holds when processes
   share a workspace, once the code has decided what it should be (section 5).
3. *Workspaces*: that nothing is lost, for any number of processes and workspaces, as a theorem.
4. *Runtime*: dns and url functions, if they come to keep state between calls.
