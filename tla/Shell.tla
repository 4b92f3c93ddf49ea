------------------------------- MODULE Shell --------------------------------
(***************************************************************************)
(* The interactive shell: shell/mod.rs, the commands that change its       *)
(* state, execute of cmd/run_cmd.rs and the notification router.  One      *)
(* process, Me, is the shell; the other ones of Keyring are runs of        *)
(* `sn0int run` that share its keyring.  The event loop of worker::spawn   *)
(* is the subject of Worker: here a run is the events its scripts send.    *)
(***************************************************************************)
EXTENDS Keyring, Sequences

CONSTANTS
  Me,          \* the shell
  Source,      \* source of each module: "none", "entities", "keyring" or "notifications"
  Workspaces,
  Configs,     \* names of the notification rules of the configuration
  Script,      \* the module of each rule
  Only,        \* the workspaces of each rule, {} for all
  Topics,      \* the topics each rule's globs match, {} for a rule without globs
  EventTopics, \* topics of events
  MaxCommands, \* bound: commands in all, those of the other processes too
  MaxEvents,   \* bound: events of a run
  MaxDepth     \* bound: routers inside of each other

ASSUME ShellAssumption ==
  /\ Me \in Procs /\ None \notin Workspaces /\ \A S \in SUBSET Modules : S # None
  /\ MaxCommands \in Nat /\ MaxEvents \in Nat /\ MaxDepth \in Nat

VARIABLES
  sh,          \* fields of Shell, and pc: where the main thread is
  disk,        \* modules in the module folder
  dirs,        \* each workspace: "none", "kept" or "taken", removed by another process
  frames,      \* routers under way, the innermost one last
  commands,    \* commands so far
  events,      \* events of this run so far
  missed       \* observation: rules the last router left out without a reason

rest == <<frames, events, missed>>
shellVars == <<sh, disk, dirs, rest>>
vars == <<keyringVars, shellVars, commands>>

(* Shell::new *)
NewShell(w, pc) ==
  [mod |-> None, opts |-> None, tgt |-> None, lib |-> disk, ws |-> w, db |-> w, blobs |-> w,
   reg |-> 1, cancel |-> 0, pc |-> pc]

Init ==
  /\ KeyringInit
  /\ disk = Modules
  /\ \E w \in Workspaces :
       /\ dirs = [x \in Workspaces |-> IF x = w THEN "kept" ELSE "none"]
       /\ sh = NewShell(w, "down")
  /\ frames = <<>> /\ commands = 0 /\ events = 0 /\ missed = {}

Prompt == sh.pc = "prompt"
Command ==
  /\ commands < MaxCommands
  /\ commands' = commands + 1
Typed(new) == sh' = [new EXCEPT !.cancel = 0]   \* readline returned a line

(* shell::init: keyring, library and workspace are opened, then the expired *)
(* entities are reaped.                                                     *)
Start(w) ==
  /\ sh.pc = "down"
  /\ Load(Me)
  /\ dirs' = [dirs EXCEPT ![w] = "kept"]
  /\ sh' = NewShell(w, "boot")
  /\ UNCHANGED <<disk, rest>>

Exit ==
  /\ sh' = NewShell(sh.ws, "down")
  /\ frames' = <<>> /\ events' = 0 /\ missed' = {}
  /\ Down(Me)
  /\ UNCHANGED <<disk, dirs>>

-----------------------------------------------------------------------------
(* The selected module, its options and its target.                         *)

SetModule(s, m) == [s EXCEPT !.opts = {}, !.mod = m, !.tgt = None]
TakeModule(s) == [s EXCEPT !.opts = None, !.mod = None]

UseCmd(m) ==
  /\ Prompt /\ m \in sh.lib
  /\ Typed(SetModule(sh, m))
  /\ UNCHANGED <<keyringVars, disk, dirs, rest>>

(* The options and the target are stood for by the module they were given   *)
(* for.                                                                     *)
SetCmd ==
  /\ Prompt /\ sh.opts # None
  /\ Typed([sh EXCEPT !.opts = @ \cup {sh.mod}])
  /\ UNCHANGED <<keyringVars, disk, dirs, rest>>

(* The filter is set before it is tried for the first time.                 *)
TargetCmd ==
  /\ Prompt /\ sh.mod # None /\ Source[sh.mod] # "none"
  /\ Typed([sh EXCEPT !.tgt = sh.mod])
  /\ UNCHANGED <<keyringVars, disk, dirs, rest>>

(* back, or ^D, which leaves cancel_twice alone.                            *)
Back(eof) ==
  /\ Prompt
  /\ IF sh.mod = None THEN Exit
     ELSE /\ IF eof THEN sh' = TakeModule(sh) ELSE Typed(TakeModule(sh))
          /\ UNCHANGED <<keyringVars, disk, dirs, rest>>

Interrupt ==
  /\ Prompt
  /\ IF sh.cancel + 1 > 1 THEN Exit
     ELSE /\ sh' = [sh EXCEPT !.cancel = @ + 1]
          /\ UNCHANGED <<keyringVars, disk, dirs, rest>>

(* Shell::reload_modules: when a folder cannot be read, the library stays   *)
(* incomplete and no module is selected.                                    *)
ReloadModules(new) ==
  \/ LET s == [TakeModule(sh) EXCEPT !.lib = new] IN
     Typed(IF sh.mod \in new THEN SetModule(s, sh.mod) ELSE s)
  \/ \E part \in SUBSET new : Typed([TakeModule(sh) EXCEPT !.lib = part])

(* pkg install, update, uninstall and reload: the module folder changes,    *)
(* and the library is loaded again unless the command failed.               *)
PkgCmd(new) ==
  /\ Prompt
  /\ disk' = new
  /\ ReloadModules(new) \/ Typed(sh)
  /\ UNCHANGED <<keyringVars, dirs, rest>>

KeyringCmd(k) ==
  /\ Prompt
  /\ KeyInsert(Me, k) \/ KeyDelete(Me, k)
  /\ IF kring'[Me] = None THEN sh' = NewShell(sh.ws, "down") ELSE Typed(sh)
  /\ UNCHANGED <<disk, dirs, rest>>

-----------------------------------------------------------------------------
(* Workspaces *)

(* change: the folder is created and the database opened, which may fail,   *)
(* before the shell is changed.                                             *)
Change(w) ==
  /\ Prompt
  /\ dirs' = [dirs EXCEPT ![w] = "kept"]
  /\ Typed(sh) \/ Typed([sh EXCEPT !.blobs = w, !.ws = w, !.db = w])
  /\ UNCHANGED <<keyringVars, disk, rest>>

(* The current workspace is refused; the question may be answered with no.  *)
DeleteWorkspace(w) ==
  /\ Prompt
  /\ Typed(sh)
  /\ \/ w # sh.db /\ dirs' = [dirs EXCEPT ![w] = "none"]
     \/ UNCHANGED dirs
  /\ UNCHANGED <<keyringVars, disk, rest>>

(* `sn0int workspace --delete`, which has no current workspace.             *)
OtherDeletes(w) ==
  /\ dirs[w] = "kept"
  /\ dirs' = [dirs EXCEPT ![w] = "taken"]
  /\ UNCHANGED <<keyringVars, sh, disk, rest>>

-----------------------------------------------------------------------------
(* The run command *)

(* reap_expired comes first.                                                *)
Run ==
  /\ Prompt
  /\ Typed([sh EXCEPT !.pc = "reap"])
  /\ UNCHANGED <<keyringVars, disk, dirs, rest>>

NewRouter(t) == [topic |-> t, at |-> "next", todo |-> Configs, rule |-> None, sent |-> {}, failed |-> {}]
Router == frames[Len(frames)]
InRouter(at) == frames # <<>> /\ Router.at = at
Update(f) == frames' = [frames EXCEPT ![Len(frames)] = f]

(* An entity has expired and was deleted.                                   *)
Reap ==
  /\ sh.pc \in {"boot", "reap"} /\ frames = <<>> /\ events < MaxEvents
  /\ frames' = <<NewRouter("delete")>>
  /\ events' = events + 1
  /\ UNCHANGED <<keyringVars, sh, disk, dirs, missed>>

Fail(pc) == sh' = [sh EXCEPT !.pc = pc]

(* The reaping is over or has failed; execute needs a module.               *)
Reaped ==
  /\ sh.pc \in {"boot", "reap"} /\ frames = <<>>
  /\ events' = 0
  /\ \/ Fail("prompt") /\ UNCHANGED keyringVars
     \/ /\ sh.pc = "reap" /\ sh.mod # None
        /\ Prepare(Me, sh.mod)
        /\ sh' = [sh EXCEPT !.pc = "ask"]
  /\ UNCHANGED <<disk, dirs, frames, missed>>

MutArgsCaughtFirst(m) ==
  IF Source[m] = "notifications" THEN {[sh EXCEPT !.pc = "prompt", !.reg = 0]}
  ELSE {[sh EXCEPT !.pc = "spawn", !.reg = 0], [sh EXCEPT !.pc = "prompt", !.reg = 0]}
(* get_args fails for notification modules, and when a filter or a blob is  *)
(* broken; execute then catches ctrl-c and spawns.                          *)
GetArgs(m) ==
  IF Source[m] = "notifications" THEN {[sh EXCEPT !.pc = "prompt"]}
  ELSE {[sh EXCEPT !.pc = "spawn", !.reg = 0], [sh EXCEPT !.pc = "prompt"]}

Asking == sh.pc = "ask" \/ InRouter("ask")

(* prepare_keyring asks the user, for the module or for a notification.     *)
AnswerQuestion(grant) ==
  /\ Asking
  /\ Answer(Me, grant)
  /\ UNCHANGED shellVars

RuleFailed == [Router EXCEPT !.at = "next", !.failed = @ \cup {Router.rule}]

CancelQuestion ==
  /\ Asking
  /\ Cancel(Me)
  /\ IF sh.pc = "ask" THEN Fail("prompt") /\ UNCHANGED frames
     ELSE Update(RuleFailed) /\ UNCHANGED sh
  /\ UNCHANGED <<disk, dirs, events, missed>>

Execute ==
  /\ sh.pc = "ask"
  /\ HandOver(Me)
  /\ IF kring'[Me] = None THEN sh' = NewShell(sh.ws, "down")
     ELSE sh' \in GetArgs(sh.mod)
  /\ UNCHANGED <<disk, dirs, rest>>

(* worker::spawn returns.                                                   *)
Finish ==
  /\ sh.pc = "spawn" /\ frames = <<>>
  /\ sh' = [sh EXCEPT !.pc = "prompt", !.reg = 1]
  /\ given' = [given EXCEPT ![Me] = {}]
  /\ events' = 0
  /\ UNCHANGED <<kfile, kring, ask, yes, keys, behind, clobbered, disk, dirs, frames, missed>>

(* The handler of ctrl-c; at the prompt and in questions the line editor    *)
(* gets the key instead.                                                    *)
CtrlC ==
  /\ sh.pc \in {"boot", "reap", "spawn"} /\ ~Asking
  /\ IF sh.reg = 1 THEN Exit
     ELSE /\ sh' = [sh EXCEPT !.reg = @ + 1]
          /\ UNCHANGED <<keyringVars, disk, dirs, rest>>

-----------------------------------------------------------------------------
(* The notification router *)

(* DatabaseEvent::notify: a script of the run, or of a notification, has    *)
(* inserted or updated an entity or logged an activity.                     *)
Notify(t) ==
  /\ sh.pc = "spawn" /\ (frames = <<>> \/ InRouter("run"))
  /\ events < MaxEvents /\ Len(frames) < MaxDepth
  /\ frames' = Append(frames, NewRouter(t))
  /\ events' = events + 1
  /\ UNCHANGED <<keyringVars, sh, disk, dirs, missed>>

ApplyRule(filter, value) == filter = {} \/ value \in filter
Matches(c, t) == ApplyRule(Only[c], sh.ws) /\ ApplyRule(Topics[c], t)
CtrlCReceived == sh.reg = 1
Matching == {c \in Configs : Matches(c, Router.topic)}

(* The router returns.  A ctrl-c and a script that is not installed excuse  *)
(* what it left out, and a rule that failed excuses itself.                 *)
RouterReturns(f) ==
  /\ frames' = SubSeq(frames, 1, Len(frames) - 1)
  /\ missed' = IF CtrlCReceived \/ \E c \in Matching : Script[c] \notin sh.lib THEN {}
               ELSE Matching \ (f.sent \cup f.failed)
  /\ UNCHANGED keyringVars

MutRouteErrorAborts(c, f) ==
  \/ ~Matches(c, f.topic) /\ Update(f) /\ UNCHANGED <<keyringVars, missed>>
  \/ /\ Matches(c, f.topic)
     /\ Script[c] \notin sh.lib \/ Source[Script[c]] # "notifications"
     /\ RouterReturns([f EXCEPT !.failed = @ \cup {c}])
  \/ /\ Matches(c, f.topic) /\ Script[c] \in sh.lib /\ Source[Script[c]] = "notifications"
     /\ Update([f EXCEPT !.at = "ask", !.rule = c])
     /\ Prepare(Me, Script[c])
     /\ UNCHANGED missed
(* The body of the loop: library.get fails for all rules, exec for one.     *)
Route(c, f) ==
  \/ ~Matches(c, f.topic) /\ Update(f) /\ UNCHANGED <<keyringVars, missed>>
  \/ Matches(c, f.topic) /\ Script[c] \notin sh.lib /\ RouterReturns(f)
  \/ /\ Matches(c, f.topic) /\ Script[c] \in sh.lib
     /\ IF Source[Script[c]] = "notifications"
        THEN Update([f EXCEPT !.at = "ask", !.rule = c]) /\ Prepare(Me, Script[c])
        ELSE Update([f EXCEPT !.failed = @ \cup {c}]) /\ UNCHANGED keyringVars
     /\ UNCHANGED missed

RouterStep ==
  /\ InRouter("next")
  /\ \/ Router.todo = {} /\ RouterReturns(Router)
     \/ Router.todo # {} /\ CtrlCReceived /\ RouterReturns(Router)
     \/ /\ ~CtrlCReceived
        /\ \E c \in Router.todo : Route(c, [Router EXCEPT !.todo = @ \ {c}])
  /\ UNCHANGED <<sh, disk, dirs, events>>

(* notify::exec: the keys are saved and handed over, the script is spawned. *)
NotifyExec ==
  /\ InRouter("ask")
  /\ HandOver(Me)
  /\ IF kring'[Me] = None
     THEN sh' = NewShell(sh.ws, "down") /\ frames' = <<>> /\ events' = 0
     ELSE Update([Router EXCEPT !.at = "run"]) /\ UNCHANGED <<sh, events>>
  /\ UNCHANGED <<disk, dirs, missed>>

(* The script of a notification ends, with or without errors.               *)
NotifyDone ==
  /\ InRouter("run")
  /\ Update([Router EXCEPT !.at = "next", !.sent = @ \cup {Router.rule}])
  /\ UNCHANGED <<keyringVars, sh, disk, dirs, events, missed>>

-----------------------------------------------------------------------------
(* `sn0int run` in another terminal.                                        *)
OtherCommand(p) ==
  /\ p # Me
  /\ \/ Load(p)
     \/ Idle(p) /\ \E m \in Modules : Prepare(p, m)
     \/ \E k \in Keys : KeyInsert(p, k) \/ KeyDelete(p, k)
  /\ UNCHANGED shellVars

OtherStep(p) ==
  /\ p # Me
  /\ Down(p) \/ Cancel(p) \/ HandOver(p) \/ \E grant \in BOOLEAN : Answer(p, grant)
  /\ UNCHANGED shellVars

Commands ==
  \/ \E w \in Workspaces : Start(w) \/ Change(w) \/ DeleteWorkspace(w) \/ OtherDeletes(w)
  \/ \E m \in Modules : UseCmd(m)
  \/ SetCmd \/ TargetCmd \/ Interrupt \/ Run
  \/ \E eof \in BOOLEAN : Back(eof)
  \/ \E new \in SUBSET Modules : PkgCmd(new)
  \/ \E k \in Keys : KeyringCmd(k)
  \/ \E p \in Procs : OtherCommand(p)

Steps ==
  \/ Reap \/ Reaped \/ CancelQuestion \/ Execute \/ Finish \/ CtrlC
  \/ \E grant \in BOOLEAN : AnswerQuestion(grant)
  \/ \E t \in EventTopics : Notify(t)
  \/ RouterStep \/ NotifyExec \/ NotifyDone
  \/ \E p \in Procs : OtherStep(p)

Next == \/ Command /\ Commands
        \/ Steps /\ UNCHANGED commands

Spec == Init /\ [][Next]_vars

-----------------------------------------------------------------------------
(* An event of a run reaches every rule that matches its topic and the      *)
(* workspace, also when the router runs inside of another one and whatever  *)
(* happens to the other rules, unless the user has pressed ctrl-c, a script *)
(* is not installed or the rule itself failed.                              *)
NotificationsRouted == missed = {}

(* Whenever the shell waits for the user outside of a run, ctrl-c ends the  *)
(* process: every way out of run has put the register back.                 *)
RegisterArmed == sh.pc # "spawn" => sh.reg = 1

(* Options exist exactly while a module is selected, options and target     *)
(* were given for this module, and the module is one of the library: also   *)
(* after back, after a reload and after a reload that failed.  Prompt,      *)
(* database and blobs are those of one workspace, whose folder exists       *)
(* unless another process removed it.                                       *)
SelectionConsistent ==
  /\ sh.mod = None <=> sh.opts = None
  /\ sh.mod # None => sh.opts \subseteq {sh.mod} /\ sh.tgt \in {None, sh.mod} /\ sh.mod \in sh.lib
  /\ sh.pc # "down" => sh.ws = sh.db /\ sh.db = sh.blobs /\ dirs[sh.db] # "none"
=============================================================================
