---------------------------- MODULE ShellProofs -----------------------------
(***************************************************************************)
(* Proofs about the keyring and the interactive shell (Keyring, Shell) for *)
(* any processes, modules, keys, rules and workspaces.                     *)
(***************************************************************************)
EXTENDS Shell, SequenceTheorems, TLAPS

-----------------------------------------------------------------------------
(* The keyring.  The invariant, in parts.                                   *)

Asks == [module : Modules \cup {None}, todo : SUBSET Namespaces]

KeyType ==
  /\ kfile \in Keyrings \cup {Broken}
  /\ kring \in [Procs -> Keyrings \cup {None}]
  /\ ask \in [Procs -> Asks]
  /\ given \in [Procs -> SUBSET (Modules \X Keys)]
  /\ yes \subseteq Modules \X Namespaces
  /\ keys \subseteq Keys
  /\ behind \subseteq Procs
  /\ clobbered \in BOOLEAN

(* A question is about a module of a process that runs.                     *)
AskInv ==
  \A p \in Procs :
    /\ ask[p].module = None => ask[p].todo = {}
    /\ ask[p].module # None => Up(p) /\ ask[p].todo \subseteq Access[ask[p].module]

(* Every grant, in a memory or in the file, was agreed to.                  *)
GrantInv ==
  /\ kfile # Broken => kfile.grants \subseteq yes
  /\ \A p \in Procs : Up(p) => kring[p].grants \subseteq yes
  /\ \A p \in Procs : \A x \in given[p] : <<x[1], x[2][1]>> \in yes

(* The file, and the memory of every process that has seen the last change, *)
(* hold the keys of the user.                                               *)
CopyInv ==
  ~clobbered =>
    /\ kfile # Broken => kfile.keys = keys
    /\ \A p \in Procs \ behind : Up(p) => kring[p].keys = keys

KeyInv == KeyType /\ AskInv /\ GrantInv /\ CopyInv

(* The empty keyring of a new user.                                         *)
LEMMA KeyInit == KeyringInit => KeyInv
<1> SUFFICES ASSUME KeyringInit PROVE KeyInv
  OBVIOUS
<1> USE KeyringAssumption DEF KeyringInit
<1>1. Default \in Keyrings
  BY DEF Default, Keyrings
<1>2. KeyType
  BY <1>1 DEF KeyType, Asks, NoAsk
<1>3. AskInv
  BY DEF AskInv, NoAsk
<1>4. GrantInv /\ CopyInv
  BY <1>1 DEF GrantInv, CopyInv, Up, Default
<1> QED
  BY <1>2, <1>3, <1>4 DEF KeyInv

(* Saving what a process holds: every other process that runs is behind     *)
(* when the file changes.                                                   *)
LEMMA SaveKeeps ==
  ASSUME KeyInv, NEW p \in Procs, NEW new \in Keyrings, Up(p), Save(p, new),
         keys' \subseteq Keys, yes' = yes,
         new.grants \subseteq yes,
         p \notin behind /\ ~clobbered => new.keys = keys',
         new = kfile /\ ~clobbered => keys' = keys
  PROVE  /\ kfile' \in Keyrings \cup {Broken}
         /\ kring' \in [Procs -> Keyrings \cup {None}]
         /\ behind' \subseteq Procs /\ clobbered' \in BOOLEAN
         /\ kfile' # Broken => kfile'.grants \subseteq yes'
         /\ \A o \in Procs : kring'[o] # None => kring'[o].grants \subseteq yes'
         /\ \A o \in Procs : o # p => kring'[o] = kring[o]
         /\ CopyInv'
<1> USE KeyringAssumption DEF KeyInv, KeyType, Save
<1>1. kfile' \in Keyrings \cup {Broken} /\ kring' \in [Procs -> Keyrings \cup {None}]
  OBVIOUS
<1>2. behind' \subseteq Procs /\ clobbered' \in BOOLEAN
  OBVIOUS
<1>3. kfile' # Broken => kfile' = new
  OBVIOUS
<1>4. \A o \in Procs : o # p => kring'[o] = kring[o]
  OBVIOUS
<1>5. kring'[p] \in {new, None}
  OBVIOUS
<1>6. \A o \in Procs : kring'[o] # None => kring'[o].grants \subseteq yes'
  BY <1>4, <1>5 DEF GrantInv, Up
<1>7. CopyInv'
  <2> SUFFICES ASSUME ~clobbered'
               PROVE  /\ kfile' # Broken => kfile'.keys = keys'
                      /\ \A o \in Procs \ behind' : kring'[o] # None => kring'[o].keys = keys'
    BY DEF CopyInv, Up
  <2>1. ~clobbered /\ p \notin behind
    OBVIOUS
  <2>2. new.keys = keys'
    BY <2>1
  <2>3. ASSUME NEW o \in Procs \ behind', kring'[o] # None, o # p
        PROVE  kring'[o].keys = keys'
    <3>1. kring'[o] = kring[o] /\ Up(o)
      BY <1>4, <2>3 DEF Up
    <3>2. new = kfile /\ behind' = behind
      BY <2>3, <3>1
    <3> QED
      BY <2>1, <2>3, <3>1, <3>2 DEF CopyInv
  <2> QED
    BY <1>3, <1>5, <2>2, <2>3
<1> QED
  BY <1>1, <1>2, <1>3, <1>4, <1>6, <1>7

(* What the shell and the other processes do to the keyring.                *)
KeyMove(p) ==
  \/ Load(p) \/ Down(p) \/ Cancel(p) \/ HandOver(p)
  \/ \E k \in Keys : KeyInsert(p, k) \/ KeyDelete(p, k)
  \/ Up(p) /\ \E m \in Modules : Prepare(p, m)
  \/ \E grant \in BOOLEAN : Answer(p, grant)
  \/ given' = [given EXCEPT ![p] = {}]
     /\ UNCHANGED <<kfile, kring, ask, yes, keys, behind, clobbered>>

(* A grant is given in the memory of the process that asked, and for what   *)
(* the user has just agreed to.                                             *)
LEMMA AnswerKeeps ==
  ASSUME KeyInv, NEW p \in Procs, NEW grant \in BOOLEAN, Answer(p, grant)
  PROVE  KeyInv'
<1> USE KeyringAssumption DEF KeyInv, KeyType
<1> DEFINE n == CHOOSE x \in ask[p].todo : TRUE
           g == {<<ask[p].module, n>>}
<1>1. n \in ask[p].todo /\ ask[p] \in Asks
  BY DEF Answer
<1>2. ask[p].module \in Modules /\ n \in Namespaces /\ Up(p) /\ kring[p] \in Keyrings
  BY <1>1 DEF AskInv, Asks, Up
<1>3. /\ ask' = [ask EXCEPT ![p].todo = @ \ {n}]
      /\ yes' = IF grant THEN yes \cup g ELSE yes
      /\ kring' = [kring EXCEPT ![p].grants = IF grant THEN @ \cup g ELSE @]
      /\ UNCHANGED <<kfile, given, keys, behind, clobbered>>
  BY DEF Answer, GrantAccess
<1> HIDE DEF n
<1>4. kring'[p] = [kring[p] EXCEPT !.grants = IF grant THEN @ \cup g ELSE @]
      /\ \A o \in Procs : o # p => kring'[o] = kring[o]
  BY <1>3
<1>5. kring'[p] \in Keyrings /\ kring'[p].keys = kring[p].keys
      /\ kring'[p].grants = IF grant THEN kring[p].grants \cup g ELSE kring[p].grants
  BY <1>2, <1>4 DEF Keyrings
<1>6. KeyType'
  <2>1. kring' \in [Procs -> Keyrings \cup {None}]
    BY <1>3, <1>5
  <2>2. ask' \in [Procs -> Asks]
    BY <1>1, <1>3 DEF Asks
  <2>3. yes' \subseteq Modules \X Namespaces
    BY <1>2, <1>3
  <2> QED
    BY <1>3, <2>1, <2>2, <2>3
<1>7. AskInv'
  <2>1. /\ ask'[p].module = ask[p].module /\ ask'[p].todo \subseteq ask[p].todo
        /\ \A o \in Procs : o # p => ask'[o] = ask[o]
    BY <1>1, <1>3 DEF Asks
  <2> QED
    BY <1>2, <1>4, <1>5, <2>1 DEF AskInv, Up
<1>8. GrantInv'
  BY <1>2, <1>3, <1>4, <1>5 DEF GrantInv, Up
<1>9. CopyInv'
  BY <1>2, <1>3, <1>4, <1>5 DEF CopyInv, Up
<1> QED
  BY <1>6, <1>7, <1>8, <1>9

(* The script gets keys of namespaces that are granted in this process.     *)
LEMMA HandOverKeeps ==
  ASSUME KeyInv, NEW p \in Procs, HandOver(p)
  PROVE  KeyInv'
<1> USE KeyringAssumption DEF KeyInv, KeyType
<1> DEFINE m == ask[p].module
           ks == RequestKeys(p, m) \cup KeyArgs(p, m)
<1>1. m \in Modules /\ Up(p) /\ kring[p] \in Keyrings
  BY DEF HandOver, AskInv, Asks, Up
<1>2. /\ Save(p, kring[p])
      /\ ask' = [ask EXCEPT ![p] = NoAsk]
      /\ given' = [given EXCEPT ![p] = IF kring'[p] = None THEN {} ELSE @ \cup ({m} \X ks)]
      /\ UNCHANGED <<yes, keys>>
  BY DEF HandOver
<1>3. ks \subseteq Keys /\ \A k \in ks : <<m, k[1]>> \in yes
  BY <1>1 DEF RequestKeys, KeyArgs, IsAccessGranted, GrantInv, Keyrings
<1> HIDE DEF ks
<1>4. /\ kfile' \in Keyrings \cup {Broken}
      /\ kring' \in [Procs -> Keyrings \cup {None}]
      /\ behind' \subseteq Procs /\ clobbered' \in BOOLEAN
      /\ kfile' # Broken => kfile'.grants \subseteq yes'
      /\ \A o \in Procs : kring'[o] # None => kring'[o].grants \subseteq yes'
      /\ \A o \in Procs : o # p => kring'[o] = kring[o]
      /\ CopyInv'
  <2>1. kring[p].grants \subseteq yes
    BY <1>1 DEF GrantInv
  <2>2. p \notin behind /\ ~clobbered => kring[p].keys = keys'
    BY <1>1, <1>2 DEF CopyInv
  <2> QED
    BY <1>1, <1>2, <2>1, <2>2, SaveKeeps
<1>5. given' \in [Procs -> SUBSET (Modules \X Keys)]
  BY <1>1, <1>2, <1>3
<1>6. ask' \in [Procs -> Asks]
  BY <1>2 DEF Asks, NoAsk
<1>7. KeyType'
  BY <1>2, <1>4, <1>5, <1>6
<1>8. AskInv'
  BY <1>2, <1>4 DEF AskInv, NoAsk, Up
<1>9. \A o \in Procs : \A x \in given'[o] : <<x[1], x[2][1]>> \in yes'
  <2> SUFFICES ASSUME NEW o \in Procs, NEW x \in given'[o]
               PROVE  <<x[1], x[2][1]>> \in yes
    BY <1>2
  <2>1. x \in given[o] \/ x \in {m} \X ks
    BY <1>2
  <2> QED
    BY <1>3, <2>1 DEF GrantInv
<1> QED
  BY <1>4, <1>7, <1>8, <1>9 DEF GrantInv, Up

(* keyring add and keyring delete, also of a key that is not there.         *)
LEMMA EditKeeps ==
  ASSUME KeyInv, NEW p \in Procs, NEW k \in Keys, KeyInsert(p, k) \/ KeyDelete(p, k)
  PROVE  KeyInv'
<1> USE KeyringAssumption DEF KeyInv, KeyType
<1>1. Up(p) /\ ask[p] = NoAsk /\ kring[p] \in Keyrings
  BY DEF KeyInsert, KeyDelete, Idle, Up
<1>2. keys' \subseteq Keys /\ UNCHANGED <<ask, given, yes>>
  BY DEF KeyInsert, KeyDelete
<1>3. CASE \E new \in Keyrings :
             /\ Save(p, new) /\ new.grants = kring[p].grants
             /\ kring[p].keys = keys => new.keys = keys'
             /\ new.keys = keys => keys' = keys
  <2>1. PICK new \in Keyrings :
             /\ Save(p, new) /\ new.grants = kring[p].grants
             /\ kring[p].keys = keys => new.keys = keys'
             /\ new.keys = keys => keys' = keys
    BY <1>3
  <2>2. new.grants \subseteq yes
    BY <1>1, <2>1 DEF GrantInv
  <2>3. p \notin behind /\ ~clobbered => new.keys = keys'
    BY <1>1, <2>1 DEF CopyInv
  <2>4. new = kfile /\ ~clobbered => keys' = keys
    BY <2>1 DEF CopyInv
  <2>5. /\ kfile' \in Keyrings \cup {Broken}
        /\ kring' \in [Procs -> Keyrings \cup {None}]
        /\ behind' \subseteq Procs /\ clobbered' \in BOOLEAN
        /\ kfile' # Broken => kfile'.grants \subseteq yes'
        /\ \A o \in Procs : kring'[o] # None => kring'[o].grants \subseteq yes'
        /\ \A o \in Procs : o # p => kring'[o] = kring[o]
        /\ CopyInv'
    BY <1>1, <1>2, <2>1, <2>2, <2>3, <2>4, SaveKeeps
  <2>6. AskInv'
    BY <1>1, <1>2, <2>5 DEF AskInv, NoAsk, Up
  <2>7. GrantInv'
    BY <1>2, <2>5 DEF GrantInv, Up
  <2> QED
    BY <1>2, <2>5, <2>6, <2>7
<1>4. CASE /\ InNamespace(kring[p].keys, k[1]) = {} /\ keys' = keys \ {k}
           /\ clobbered' = (clobbered \/ p \in behind)
           /\ UNCHANGED <<kfile, kring, behind>>
  <2>1. k \notin kring[p].keys
    BY <1>4 DEF InNamespace
  <2>2. ~clobbered' => keys' = keys /\ ~clobbered
    BY <1>1, <1>4, <2>1 DEF CopyInv
  <2>3. CopyInv'
    BY <1>4, <2>2 DEF CopyInv, Up
  <2> QED
    BY <1>2, <1>4, <2>3 DEF AskInv, GrantInv, Up
<1>5. CASE KeyInsert(p, k)
  <2> DEFINE new == [kring[p] EXCEPT !.keys = @ \cup {k}]
  <2>1. new \in Keyrings /\ new.grants = kring[p].grants /\ new.keys = kring[p].keys \cup {k}
    BY <1>1 DEF Keyrings
  <2>2. Save(p, new) /\ keys' = keys \cup {k}
    BY <1>5 DEF KeyInsert
  <2> QED
    BY <1>3, <2>1, <2>2
<1>6. CASE KeyDelete(p, k) /\ InNamespace(kring[p].keys, k[1]) # {}
  <2> DEFINE new == [kring[p] EXCEPT !.keys = @ \ {k}]
  <2>1. new \in Keyrings /\ new.grants = kring[p].grants /\ new.keys = kring[p].keys \ {k}
    BY <1>1 DEF Keyrings
  <2>2. Save(p, new) /\ keys' = keys \ {k}
    BY <1>6 DEF KeyDelete
  <2> QED
    BY <1>3, <2>1, <2>2
<1> QED
  BY <1>4, <1>5, <1>6 DEF KeyDelete

(* Whatever is done to the keyring keeps the invariant.                     *)
LEMMA KeyMoveKeeps ==
  ASSUME KeyInv, NEW p \in Procs, KeyMove(p)
  PROVE  KeyInv'
<1> USE KeyringAssumption DEF KeyInv, KeyType
<1>1. CASE Load(p)
  <2>1. KeyType' /\ AskInv'
    BY <1>1 DEF Load, AskInv, Up
  <2>2. GrantInv' /\ CopyInv'
    BY <1>1 DEF Load, GrantInv, CopyInv, Up
  <2> QED
    BY <2>1, <2>2
<1>2. CASE Down(p)
  <2>1. ask' \in [Procs -> Asks]
    BY <1>2 DEF Down, Asks, NoAsk
  <2>2. KeyType'
    BY <1>2, <2>1 DEF Down
  <2>3. AskInv' /\ GrantInv' /\ CopyInv'
    BY <1>2 DEF Down, AskInv, GrantInv, CopyInv, Up, NoAsk
  <2> QED
    BY <2>2, <2>3
<1>3. CASE Cancel(p)
  <2>1. ask' \in [Procs -> Asks]
    BY <1>3 DEF Cancel, Asks, NoAsk
  <2> QED
    BY <1>3, <2>1 DEF Cancel, AskInv, GrantInv, CopyInv, Up, NoAsk
<1>4. ASSUME NEW m \in Modules, Up(p), Prepare(p, m)
      PROVE  KeyInv'
  <2>1. UnauthorizedNamespaces(p, m) \subseteq Access[m] /\ Access[m] \subseteq Namespaces
    BY DEF UnauthorizedNamespaces, Namespaces
  <2>2. ask' \in [Procs -> Asks]
    BY <1>4, <2>1 DEF Prepare, Asks
  <2>3. AskInv'
    BY <1>4, <2>1 DEF Prepare, AskInv, Up
  <2> QED
    BY <1>4, <2>2, <2>3 DEF Prepare, GrantInv, CopyInv, Up
<1>5. CASE given' = [given EXCEPT ![p] = {}]
           /\ UNCHANGED <<kfile, kring, ask, yes, keys, behind, clobbered>>
  BY <1>5 DEF AskInv, GrantInv, CopyInv, Up
<1> QED
  BY <1>1, <1>2, <1>3, <1>4, <1>5, AnswerKeeps, HandOverKeeps, EditKeeps DEF KeyMove

-----------------------------------------------------------------------------
(* The shell.                                                               *)

Shells ==
  [mod : Modules \cup {None}, opts : (SUBSET Modules) \cup {None}, tgt : Modules \cup {None},
   lib : SUBSET Modules, ws : Workspaces, db : Workspaces, blobs : Workspaces,
   reg : 0 .. 1, cancel : Nat,
   pc : {"down", "boot", "prompt", "reap", "ask", "spawn"}]

Routers ==
  [topic : EventTopics \cup {"delete"}, at : {"next", "ask", "run"}, todo : SUBSET Configs,
   rule : Configs \cup {None}, sent : SUBSET Configs, failed : SUBSET Configs]

(* A router that is not between two rules is at one of them.                *)
Frames == {f \in Routers : f.at # "next" => f.rule \in Configs}

ShellType ==
  /\ sh \in Shells
  /\ disk \subseteq Modules
  /\ dirs \in [Workspaces -> {"none", "kept", "taken"}]
  /\ frames \in Seq(Frames)

(* The shell runs exactly while it holds a keyring, and routers are at work *)
(* only while something of a run can cause events.                          *)
ModeInv ==
  /\ sh.pc # "down" <=> Up(Me)
  /\ frames # <<>> => sh.pc \in {"boot", "reap", "spawn"}

(* A rule a router has taken from its list and that matches was served, has *)
(* failed or is the one being served.                                       *)
Dealt(f, c) == c \in f.sent \cup f.failed \/ (f.at # "next" /\ c = f.rule)
RouteInv ==
  \A i \in 1 .. Len(frames) : \A c \in Configs \ frames[i].todo :
    Matches(c, frames[i].topic) => Dealt(frames[i], c)

StateInv == ShellType /\ ModeInv /\ RegisterArmed /\ SelectionConsistent
ShellInv == KeyInv /\ StateInv /\ RouteInv /\ missed = {}

(* A shell that has just been made.                                         *)
LEMMA NewShellTypes ==
  ASSUME ShellType, NEW w \in Workspaces, NEW l \in {"down", "boot"}
  PROVE  /\ NewShell(w, l) \in Shells
         /\ NewShell(w, l).pc = l /\ NewShell(w, l).reg = 1
         /\ NewShell(w, l).mod = None /\ NewShell(w, l).opts = None
         /\ NewShell(w, l).ws = w /\ NewShell(w, l).db = w /\ NewShell(w, l).blobs = w
BY DEF ShellType, NewShell, Shells

(* An answered question leaves the process running.                         *)
LEMMA AnswerStaysUp ==
  ASSUME KeyInv, NEW p \in Procs, NEW grant \in BOOLEAN, Answer(p, grant)
  PROVE  \A o \in Procs : (kring'[o] # None) <=> Up(o)
<1>1. Up(p) /\ kring[p] \in Keyrings
  BY DEF Answer, KeyInv, KeyType, AskInv, Up
<1>2. PICK n \in ask[p].todo :
        kring' = [kring EXCEPT ![p].grants =
                    IF grant THEN @ \cup {<<ask[p].module, n>>} ELSE @]
  BY DEF Answer, GrantAccess
<1>3. ask[p].module \in Modules /\ n \in Namespaces
  BY DEF KeyInv, KeyType, AskInv, Asks
<1>4. kring'[p] \in Keyrings /\ \A o \in Procs : o # p => kring'[o] = kring[o]
  BY <1>1, <1>2, <1>3 DEF KeyInv, KeyType, Keyrings
<1> QED
  BY <1>1, <1>4, KeyringAssumption DEF Up

(* Other processes do not touch what the shell holds.                       *)
LEMMA OthersKeepMine ==
  ASSUME KeyInv, NEW p \in Procs, p # Me, KeyMove(p)
  PROVE  kring'[Me] = kring[Me]
BY ShellAssumption DEF KeyMove, Load, Down, Cancel, HandOver, KeyInsert, KeyDelete, Prepare,
   Answer, GrantAccess, Save, KeyInv, KeyType

(* The initial state.                                                       *)
LEMMA ShellInit == Init => ShellInv
<1> SUFFICES ASSUME Init PROVE ShellInv
  OBVIOUS
<1>1. KeyInv
  BY KeyInit DEF Init
<1>2. PICK w \in Workspaces :
        dirs = [x \in Workspaces |-> IF x = w THEN "kept" ELSE "none"] /\ sh = NewShell(w, "down")
  BY DEF Init
<1>3. disk = Modules /\ frames = <<>> /\ missed = {} /\ kring = [p \in Procs |-> None]
  BY DEF Init, KeyringInit
<1>4. ShellType
  BY <1>2, <1>3 DEF ShellType, NewShell, Shells
<1>5. ModeInv /\ RegisterArmed /\ SelectionConsistent
  BY <1>2, <1>3, <1>4, NewShellTypes, ShellAssumption
  DEF ModeInv, RegisterArmed, SelectionConsistent, Up
<1>6. RouteInv
  BY <1>3 DEF RouteInv
<1> QED
  BY <1>1, <1>3, <1>4, <1>5, <1>6 DEF ShellInv, StateInv

(* readline resets cancel_twice and nothing else.                            *)
LEMMA TypedFields ==
  ASSUME NEW new \in Shells, Typed(new)
  PROVE  /\ sh' \in Shells
         /\ sh'.mod = new.mod /\ sh'.opts = new.opts /\ sh'.tgt = new.tgt /\ sh'.lib = new.lib
         /\ sh'.ws = new.ws /\ sh'.db = new.db /\ sh'.blobs = new.blobs
         /\ sh'.reg = new.reg /\ sh'.pc = new.pc
BY DEF Typed, Shells

(* Without a module there are no options.                                   *)
LEMMA TakenFields ==
  ASSUME NEW s \in Shells
  PROVE  /\ TakeModule(s) \in Shells
         /\ TakeModule(s).mod = None /\ TakeModule(s).opts = None
         /\ TakeModule(s).ws = s.ws /\ TakeModule(s).db = s.db /\ TakeModule(s).blobs = s.blobs
         /\ TakeModule(s).reg = s.reg /\ TakeModule(s).pc = s.pc
BY DEF TakeModule, Shells

(* The library is loaded while no module is selected.                       *)
LEMMA LoadFields ==
  ASSUME NEW s \in Shells, NEW l \in SUBSET Modules
  PROVE  LET new == [TakeModule(s) EXCEPT !.lib = l]
         IN  /\ new \in Shells
             /\ new.mod = None /\ new.opts = None /\ new.lib = l
             /\ new.ws = s.ws /\ new.db = s.db /\ new.blobs = s.blobs
             /\ new.reg = s.reg /\ new.pc = s.pc
<1> DEFINE t == TakeModule(s)
<1>1. t \in Shells /\ t.mod = None /\ t.opts = None /\ t.ws = s.ws /\ t.db = s.db
      /\ t.blobs = s.blobs /\ t.reg = s.reg /\ t.pc = s.pc
  BY TakenFields
<1> HIDE DEF t
<1>2. LET new == [t EXCEPT !.lib = l]
      IN  /\ new \in Shells
          /\ new.mod = None /\ new.opts = None /\ new.lib = l
          /\ new.ws = s.ws /\ new.db = s.db /\ new.blobs = s.blobs
          /\ new.reg = s.reg /\ new.pc = s.pc
  BY <1>1 DEF Shells
<1> QED
  BY <1>2 DEF t

(* Selecting a module forgets options and target of the one before.         *)
LEMMA SetFields ==
  ASSUME NEW s \in Shells, NEW m \in Modules
  PROVE  LET new == SetModule(s, m)
         IN  /\ new \in Shells
             /\ new.mod = m /\ new.opts = {} /\ new.tgt = None /\ new.lib = s.lib
             /\ new.ws = s.ws /\ new.db = s.db /\ new.blobs = s.blobs
             /\ new.reg = s.reg /\ new.pc = s.pc
BY DEF SetModule, Shells

(* The commands that work on the selection: they are given at the prompt,   *)
(* and leave keyring, routers and workspace alone.                          *)
LEMMA SelectKeeps ==
  ASSUME StateInv,
         \/ \E m \in Modules : UseCmd(m)
         \/ SetCmd \/ TargetCmd \/ Run
         \/ \E new \in SUBSET Modules : PkgCmd(new)
         \/ \E eof \in BOOLEAN : Back(eof) /\ sh.mod # None
         \/ Interrupt /\ sh.cancel + 1 <= 1
  PROVE  StateInv'
<1> USE ShellAssumption, KeyringAssumption DEF StateInv, ShellType
<1>1. UNCHANGED <<keyringVars, dirs, frames>> /\ sh.pc = "prompt" /\ disk' \subseteq Modules
  BY DEF UseCmd, SetCmd, TargetCmd, Run, PkgCmd, Back, Interrupt, Prompt, rest, Shells
<1>2. /\ sh' \in Shells
      /\ sh'.pc \in {"prompt", "reap"} /\ sh'.reg = sh.reg
      /\ sh'.ws = sh.ws /\ sh'.db = sh.db /\ sh'.blobs = sh.blobs
      /\ sh'.mod = None <=> sh'.opts = None
      /\ sh'.mod # None => /\ sh'.opts \subseteq {sh'.mod} /\ sh'.tgt \in {None, sh'.mod}
                           /\ sh'.mod \in sh'.lib
  <2>1. ASSUME NEW m \in Modules, UseCmd(m) PROVE <1>2
    BY <2>1, <1>1, SetFields, TypedFields DEF UseCmd
  <2>2. CASE SetCmd
    <3>1. sh.mod # None /\ sh.mod \in Modules /\ sh.opts \subseteq {sh.mod}
      BY <2>2 DEF SetCmd, SelectionConsistent, Shells
    <3> DEFINE new == [sh EXCEPT !.opts = @ \cup {sh.mod}]
    <3>2. new \in Shells /\ new.opts = {sh.mod} /\ new.mod = sh.mod /\ new.tgt = sh.tgt
          /\ new.lib = sh.lib /\ new.ws = sh.ws /\ new.db = sh.db /\ new.blobs = sh.blobs
          /\ new.reg = sh.reg /\ new.pc = sh.pc
      BY <3>1 DEF Shells
    <3>3. Typed(new)
      BY <2>2 DEF SetCmd
    <3> HIDE DEF new
    <3> QED
      BY <1>1, <3>1, <3>2, <3>3, TypedFields DEF SelectionConsistent
  <2>3. CASE TargetCmd
    BY <2>3, <1>1 DEF TargetCmd, Typed, Shells, SelectionConsistent
  <2>4. CASE Run
    BY <2>4, <1>1 DEF Run, Typed, Shells, SelectionConsistent
  <2>5. ASSUME NEW new \in SUBSET Modules, PkgCmd(new) PROVE <1>2
    <3>1. CASE Typed(sh)
      BY <3>1, <1>1, TypedFields DEF SelectionConsistent
    <3>2. ASSUME NEW part \in SUBSET Modules, Typed([TakeModule(sh) EXCEPT !.lib = part])
          PROVE <1>2
      <4> DEFINE s == [TakeModule(sh) EXCEPT !.lib = part]
      <4>1. s \in Shells /\ s.mod = None /\ s.opts = None /\ s.reg = sh.reg /\ s.pc = sh.pc
            /\ s.ws = sh.ws /\ s.db = sh.db /\ s.blobs = sh.blobs
        BY LoadFields, ZenonT(20)
      <4>2. Typed(s)
        BY <3>2
      <4> HIDE DEF s
      <4> QED
        BY <1>1, <4>1, <4>2, TypedFields
    <3>3. CASE sh.mod \in new /\ Typed(SetModule([TakeModule(sh) EXCEPT !.lib = new], sh.mod))
      <4> DEFINE t == [TakeModule(sh) EXCEPT !.lib = new]
                 s == SetModule(t, sh.mod)
      <4>1. t \in Shells /\ t.reg = sh.reg /\ t.pc = sh.pc /\ t.lib = new
            /\ t.ws = sh.ws /\ t.db = sh.db /\ t.blobs = sh.blobs
        BY LoadFields
      <4>2. Typed(s) /\ sh.mod \in new
        BY <3>3
      <4> HIDE DEF t
      <4>3. s \in Shells /\ s.mod = sh.mod /\ s.opts = {} /\ s.tgt = None /\ s.lib = new
            /\ s.reg = sh.reg /\ s.pc = sh.pc
            /\ s.ws = sh.ws /\ s.db = sh.db /\ s.blobs = sh.blobs
        BY <4>1, <4>2, SetFields
      <4> HIDE DEF s
      <4> QED
        BY <1>1, <4>2, <4>3, TypedFields
    <3> QED
      BY <2>5, <3>1, <3>2, <3>3 DEF PkgCmd, ReloadModules
  <2>6. ASSUME NEW eof \in BOOLEAN, Back(eof), sh.mod # None PROVE <1>2
    <3>1. sh' = TakeModule(sh) \/ Typed(TakeModule(sh))
      BY <2>6 DEF Back
    <3> DEFINE s == TakeModule(sh)
    <3>2. s \in Shells /\ s.mod = None /\ s.opts = None /\ s.reg = sh.reg /\ s.pc = sh.pc
          /\ s.ws = sh.ws /\ s.db = sh.db /\ s.blobs = sh.blobs
      BY TakenFields
    <3>3. sh' = s \/ Typed(s)
      BY <3>1
    <3> HIDE DEF s
    <3> QED
      BY <1>1, <3>2, <3>3, TypedFields
  <2>7. CASE Interrupt /\ sh.cancel + 1 <= 1
    BY <2>7, <1>1 DEF Interrupt, Shells, SelectionConsistent
  <2> QED
    BY <2>1, <2>2, <2>3, <2>4, <2>5, <2>6, <2>7
<1>3. ShellType'
  BY <1>1, <1>2
<1>4. ModeInv'
  BY <1>1, <1>2 DEF ModeInv, Up, keyringVars
<1>5. RegisterArmed' /\ SelectionConsistent'
  BY <1>1, <1>2 DEF RegisterArmed, SelectionConsistent
<1> QED
  BY <1>3, <1>4, <1>5

(* The shell goes down: back or ^D without a module, ctrl-c twice at the    *)
(* prompt, ctrl-c outside of a run.                                         *)
LEMMA ExitKeeps ==
  ASSUME StateInv, KeyInv, Exit
  PROVE  StateInv' /\ RouteInv' /\ missed' = {}
<1> USE ShellAssumption, KeyringAssumption DEF StateInv
<1>1. sh.ws \in Workspaces
  BY DEF ShellType, Shells
<1>2. /\ sh' \in Shells /\ sh'.pc = "down" /\ sh'.reg = 1 /\ sh'.mod = None /\ sh'.opts = None
  BY <1>1, NewShellTypes DEF Exit
<1>3. frames' = <<>> /\ missed' = {} /\ UNCHANGED <<disk, dirs>> /\ kring'[Me] = None
  BY DEF Exit, Down, KeyInv, KeyType
<1>4. ShellType'
  BY <1>2, <1>3 DEF ShellType
<1>5. ModeInv' /\ RegisterArmed' /\ SelectionConsistent'
  BY <1>2, <1>3 DEF ModeInv, Up, RegisterArmed, SelectionConsistent
<1>6. RouteInv'
  BY <1>3 DEF RouteInv
<1> QED
  BY <1>3, <1>4, <1>5, <1>6

(* A change of workspace replaces prompt, database and blobs together.      *)
LEMMA MovedFields ==
  ASSUME NEW s \in Shells, NEW w \in Workspaces
  PROVE  LET new == [s EXCEPT !.blobs = w, !.ws = w, !.db = w]
         IN  /\ new \in Shells
             /\ new.ws = w /\ new.db = w /\ new.blobs = w
             /\ new.mod = s.mod /\ new.opts = s.opts /\ new.tgt = s.tgt /\ new.lib = s.lib
             /\ new.reg = s.reg /\ new.pc = s.pc
BY DEF Shells

(* Starting, changing and deleting workspaces.                              *)
LEMMA WorkspaceKeeps ==
  ASSUME StateInv, KeyInv, NEW w \in Workspaces,
         Start(w) \/ Change(w) \/ DeleteWorkspace(w) \/ OtherDeletes(w)
  PROVE  StateInv'
<1> USE ShellAssumption, KeyringAssumption DEF StateInv
<1>1. dirs' \in [Workspaces -> {"none", "kept", "taken"}] /\ UNCHANGED <<disk, frames>>
  BY DEF ShellType, Start, Change, DeleteWorkspace, OtherDeletes, rest
<1>2. CASE Start(w)
  <2>1. sh' \in Shells /\ sh'.pc = "boot" /\ sh'.reg = 1 /\ sh'.mod = None /\ sh'.opts = None
        /\ sh'.ws = w /\ sh'.db = w /\ sh'.blobs = w
    BY <1>2, NewShellTypes DEF Start
  <2>2. kring'[Me] # None /\ dirs'[w] = "kept" /\ frames = <<>>
    BY <1>2 DEF Start, Load, KeyInv, KeyType, ShellType, ModeInv
  <2> QED
    BY <1>1, <2>1, <2>2 DEF ShellType, ModeInv, Up, RegisterArmed, SelectionConsistent
<1>3. CASE Change(w)
  <2>1. dirs'[w] = "kept" /\ (\A x \in Workspaces : dirs[x] # "none" => dirs'[x] # "none")
        /\ UNCHANGED kring /\ sh.pc = "prompt"
    BY <1>3 DEF Change, ShellType, Prompt, keyringVars
  <2>2. CASE Typed(sh)
    BY <1>1, <2>1, <2>2, TypedFields
    DEF ShellType, ModeInv, Up, RegisterArmed, SelectionConsistent, Shells
  <2>3. CASE Typed([sh EXCEPT !.blobs = w, !.ws = w, !.db = w])
    <3> DEFINE s == [sh EXCEPT !.blobs = w, !.ws = w, !.db = w]
    <3>1. s \in Shells /\ s.ws = w /\ s.db = w /\ s.blobs = w /\ s.mod = sh.mod /\ s.opts = sh.opts
          /\ s.tgt = sh.tgt /\ s.lib = sh.lib /\ s.reg = sh.reg /\ s.pc = sh.pc
      BY MovedFields, ZenonT(20) DEF ShellType
    <3>2. Typed(s)
      BY <2>3
    <3> HIDE DEF s
    <3>3. /\ sh' \in Shells
          /\ sh'.mod = sh.mod /\ sh'.opts = sh.opts /\ sh'.tgt = sh.tgt /\ sh'.lib = sh.lib
          /\ sh'.ws = w /\ sh'.db = w /\ sh'.blobs = w /\ sh'.reg = sh.reg /\ sh'.pc = sh.pc
      BY <3>1, <3>2, TypedFields
    <3>4. ShellType' /\ ModeInv' /\ RegisterArmed'
      BY <1>1, <2>1, <3>3 DEF ShellType, ModeInv, Up, RegisterArmed
    <3>5. SelectionConsistent'
      BY <2>1, <3>3 DEF SelectionConsistent
    <3> QED
      BY <3>4, <3>5
  <2> QED
    BY <1>3, <2>2, <2>3 DEF Change
<1>4. CASE DeleteWorkspace(w)
  <2>0. UNCHANGED kring /\ Typed(sh) /\ sh.pc = "prompt" /\ sh.db \in Workspaces
    BY <1>4 DEF DeleteWorkspace, ShellType, Prompt, keyringVars, Shells
  <2>1. dirs'[sh.db] = dirs[sh.db]
    BY <1>4, <2>0 DEF DeleteWorkspace, ShellType
  <2>2. /\ sh' \in Shells
        /\ sh'.mod = sh.mod /\ sh'.opts = sh.opts /\ sh'.tgt = sh.tgt /\ sh'.lib = sh.lib
        /\ sh'.ws = sh.ws /\ sh'.db = sh.db /\ sh'.blobs = sh.blobs /\ sh'.reg = sh.reg
        /\ sh'.pc = sh.pc
    BY <2>0, TypedFields DEF ShellType
  <2>3. ShellType' /\ ModeInv' /\ RegisterArmed'
    BY <1>1, <2>0, <2>2 DEF ShellType, ModeInv, Up, RegisterArmed
  <2>4. SelectionConsistent'
    BY <2>1, <2>2 DEF SelectionConsistent
  <2> QED
    BY <2>3, <2>4
<1>5. CASE OtherDeletes(w)
  BY <1>1, <1>5
  DEF OtherDeletes, keyringVars, ShellType, ModeInv, Up, RegisterArmed, SelectionConsistent, Shells
<1> QED
  BY <1>2, <1>3, <1>4, <1>5

(* Commands of the keyring; the process may die while it saves.             *)
LEMMA KeyringCmdKeeps ==
  ASSUME StateInv, KeyInv, NEW k \in Keys, KeyringCmd(k)
  PROVE  StateInv'
<1> USE ShellAssumption, KeyringAssumption DEF StateInv
<1>1. UNCHANGED <<disk, dirs, frames>> /\ sh.pc = "prompt" /\ frames = <<>>
  BY DEF KeyringCmd, rest, Prompt, ModeInv
<1>2. CASE kring'[Me] = None
  <2>1. sh' = NewShell(sh.ws, "down") /\ sh.ws \in Workspaces
    BY <1>2 DEF KeyringCmd, ShellType, Shells
  <2>2. sh' \in Shells /\ sh'.pc = "down" /\ sh'.reg = 1 /\ sh'.mod = None /\ sh'.opts = None
    BY <2>1, NewShellTypes
  <2> QED
    BY <1>1, <1>2, <2>2 DEF ShellType, ModeInv, Up, RegisterArmed, SelectionConsistent
<1>3. CASE kring'[Me] # None
  <2>1. Typed(sh)
    BY <1>3 DEF KeyringCmd
  <2> QED
    BY <1>1, <1>3, <2>1, TypedFields
    DEF ShellType, ModeInv, Up, RegisterArmed, SelectionConsistent
<1> QED
  BY <1>2, <1>3

-----------------------------------------------------------------------------
(* The routers are a stack.                                                 *)
LEMMA UpdateFrames ==
  ASSUME frames \in Seq(Frames), frames # <<>>, NEW f \in Frames, Update(f)
  PROVE  /\ frames' \in Seq(Frames) /\ Len(frames') = Len(frames) /\ frames' # <<>>
         /\ frames'[Len(frames)] = f
         /\ \A i \in 1 .. Len(frames) : i # Len(frames) => frames'[i] = frames[i]
BY DEF Update

(* A router is started inside of the others.                                *)
LEMMA PushFrames ==
  ASSUME frames \in Seq(Frames), NEW f \in Frames, frames' = Append(frames, f)
  PROVE  /\ frames' \in Seq(Frames) /\ Len(frames') = Len(frames) + 1
         /\ frames'[Len(frames) + 1] = f
         /\ \A i \in 1 .. Len(frames) : frames'[i] = frames[i]
OBVIOUS

(* The innermost router returns.                                            *)
LEMMA PopFrames ==
  ASSUME frames \in Seq(Frames), frames # <<>>,
         frames' = SubSeq(frames, 1, Len(frames) - 1)
  PROVE  /\ frames' \in Seq(Frames) /\ Len(frames') = Len(frames) - 1
         /\ \A i \in 1 .. Len(frames') : frames'[i] = frames[i]
<1>1. Len(frames) \in Nat /\ Len(frames) - 1 \in Nat
  OBVIOUS
<1> DEFINE n == Len(frames) - 1
<1>2. \A i \in 1 .. n : i \in 1 .. Len(frames) /\ frames[i] \in Frames
  BY <1>1
<1>3. /\ SubSeq(frames, 1, n) \in Seq(Frames)
      /\ Len(SubSeq(frames, 1, n)) = IF 1 <= n THEN n - 1 + 1 ELSE 0
      /\ \A i \in 1 .. n - 1 + 1 : SubSeq(frames, 1, n)[i] = frames[1 + i - 1]
  BY <1>1, <1>2, SubSeqProperties
<1>4. n \in Nat /\ frames' = SubSeq(frames, 1, n)
  BY <1>1
<1> DEFINE s == SubSeq(frames, 1, n)
<1> HIDE DEF n, s
<1>5. s \in Seq(Frames) /\ Len(s) = n /\ \A i \in 1 .. n : s[i] = frames[i]
  BY <1>3, <1>4 DEF s
<1>6. frames' = s
  BY <1>4 DEF s
<1> QED
  BY <1>5, <1>6 DEF n

(* A new router, and the innermost one.                                     *)
LEMMA RouterTypes ==
  ASSUME ShellType
  PROVE  /\ \A t \in EventTopics \cup {"delete"} : NewRouter(t) \in Frames
         /\ frames # <<>> => Router \in Frames /\ Len(frames) \in 1 .. Len(frames)
<1>1. \A t \in EventTopics \cup {"delete"} : NewRouter(t) \in Frames
  BY DEF NewRouter, Frames, Routers
<1>2. frames # <<>> => Router \in Frames /\ Len(frames) \in 1 .. Len(frames)
  BY DEF ShellType, Router
<1> QED
  BY <1>1, <1>2

-----------------------------------------------------------------------------
(* The run command and the routers.                                         *)

(* The main thread moves on, and keeps selection and workspace.             *)
Kept ==
  /\ sh'.mod = sh.mod /\ sh'.opts = sh.opts /\ sh'.tgt = sh.tgt /\ sh'.lib = sh.lib
  /\ sh'.ws = sh.ws /\ sh'.db = sh.db /\ sh'.blobs = sh.blobs

(* Moving the main thread on.                                               *)
LEMMA PcFields ==
  ASSUME sh \in Shells, NEW l \in {"boot", "prompt", "reap", "ask", "spawn"},
         sh' = [sh EXCEPT !.pc = l]
  PROVE  sh' \in Shells /\ Kept /\ sh'.pc = l /\ sh'.reg = sh.reg
BY DEF Kept, Shells

(* The same when ctrl-c is caught, or no longer.                            *)
LEMMA RegFields ==
  ASSUME sh \in Shells, NEW l \in {"boot", "prompt", "reap", "ask", "spawn"}, NEW r \in 0 .. 1,
         sh' = [sh EXCEPT !.pc = l, !.reg = r]
  PROVE  sh' \in Shells /\ Kept /\ sh'.pc = l /\ sh'.reg = r
BY DEF Kept, Shells

(* What a step of a run has to show.                                        *)
LEMMA StepKeeps ==
  ASSUME StateInv, UNCHANGED <<disk, dirs>>, frames' \in Seq(Frames),
         sh' \in Shells, Kept, sh.pc # "down", sh'.pc # "down",
         sh'.pc # "spawn" => sh'.reg = 1,
         kring'[Me] # None,
         frames' # <<>> => sh'.pc \in {"boot", "reap", "spawn"}
  PROVE  StateInv'
<1> USE DEF StateInv
<1>1. ShellType'
  BY DEF ShellType
<1>2. ModeInv' /\ RegisterArmed'
  BY DEF ModeInv, RegisterArmed, Up
<1>3. SelectionConsistent'
  BY DEF SelectionConsistent, Kept
<1> QED
  BY <1>1, <1>2, <1>3

(* The process dies while it saves the keyring.                             *)
LEMMA DeathKeeps ==
  ASSUME StateInv, UNCHANGED <<disk, dirs>>, frames' = <<>>, kring'[Me] = None,
         sh' = NewShell(sh.ws, "down")
  PROVE  StateInv' /\ RouteInv'
<1> USE ShellAssumption DEF StateInv
<1>1. sh.ws \in Workspaces
  BY DEF ShellType, Shells
<1>2. sh' \in Shells /\ sh'.pc = "down" /\ sh'.reg = 1 /\ sh'.mod = None /\ sh'.opts = None
  BY <1>1, NewShellTypes
<1>3. ShellType'
  BY <1>2 DEF ShellType
<1>4. ModeInv' /\ RegisterArmed' /\ SelectionConsistent'
  BY <1>2 DEF ModeInv, Up, RegisterArmed, SelectionConsistent
<1>5. RouteInv'
  BY DEF RouteInv
<1> QED
  BY <1>3, <1>4, <1>5

(* The innermost router is replaced by one that has dealt with its rules.   *)
LEMMA UpdateRoutes ==
  ASSUME ShellType, RouteInv, frames # <<>>, sh'.ws = sh.ws, NEW f \in Frames, Update(f),
         \A c \in Configs \ f.todo : Matches(c, f.topic) => Dealt(f, c)
  PROVE  RouteInv' /\ frames' \in Seq(Frames) /\ frames' # <<>>
<1>1. /\ frames' \in Seq(Frames) /\ Len(frames') = Len(frames) /\ frames' # <<>>
      /\ frames'[Len(frames)] = f
      /\ \A i \in 1 .. Len(frames) : i # Len(frames) => frames'[i] = frames[i]
  BY UpdateFrames DEF ShellType
<1>2. ASSUME NEW i \in 1 .. Len(frames'), NEW c \in Configs \ frames'[i].todo,
             ApplyRule(Only[c], sh'.ws), ApplyRule(Topics[c], frames'[i].topic)
      PROVE  Dealt(frames'[i], c)
  <2>1. Matches(c, frames'[i].topic)
    BY <1>2 DEF Matches
  <2>2. CASE i = Len(frames)
    BY <1>1, <2>1, <2>2
  <2>3. CASE i # Len(frames)
    BY <1>1, <2>1, <2>3 DEF RouteInv
  <2> QED
    BY <2>2, <2>3
<1>3. RouteInv'
  BY <1>2 DEF RouteInv, Matches, ApplyRule, Dealt
<1> QED
  BY <1>1, <1>3

(* The innermost router returns; the others have dealt with theirs.         *)
LEMMA ReturnRoutes ==
  ASSUME ShellType, RouteInv, frames # <<>>, sh'.ws = sh.ws,
         frames' = SubSeq(frames, 1, Len(frames) - 1)
  PROVE  RouteInv' /\ frames' \in Seq(Frames)
<1>1. /\ frames' \in Seq(Frames) /\ Len(frames') = Len(frames) - 1
      /\ \A i \in 1 .. Len(frames') : frames'[i] = frames[i]
  BY PopFrames DEF ShellType
<1>2. Len(frames) \in Nat
  BY DEF ShellType
<1>3. ASSUME NEW i \in 1 .. Len(frames'), NEW c \in Configs \ frames'[i].todo,
             ApplyRule(Only[c], sh'.ws), ApplyRule(Topics[c], frames'[i].topic)
      PROVE  Dealt(frames'[i], c)
  <2>1. i \in 1 .. Len(frames) /\ frames'[i] = frames[i]
    BY <1>1, <1>2
  <2> QED
    BY <1>3, <2>1 DEF RouteInv, Matches
<1>4. RouteInv'
  BY <1>3 DEF RouteInv, Matches, ApplyRule, Dealt
<1> QED
  BY <1>1, <1>4

(* A new router has all of its rules ahead.                                 *)
LEMMA StartRoutes ==
  ASSUME ShellType, RouteInv, sh'.ws = sh.ws, NEW t \in EventTopics \cup {"delete"},
         frames' = Append(frames, NewRouter(t))
  PROVE  RouteInv' /\ frames' \in Seq(Frames) /\ frames' # <<>>
<1> DEFINE f == NewRouter(t)
<1>0. f \in Frames /\ f.todo = Configs
  BY RouterTypes DEF NewRouter
<1>1. /\ frames' \in Seq(Frames) /\ Len(frames') = Len(frames) + 1
      /\ frames'[Len(frames) + 1] = f
      /\ \A i \in 1 .. Len(frames) : frames'[i] = frames[i]
  BY <1>0, PushFrames DEF ShellType
<1>2. Len(frames) \in Nat
  BY DEF ShellType
<1> HIDE DEF f
<1>3. ASSUME NEW i \in 1 .. Len(frames'), NEW c \in Configs \ frames'[i].todo,
             ApplyRule(Only[c], sh'.ws), ApplyRule(Topics[c], frames'[i].topic)
      PROVE  Dealt(frames'[i], c)
  <2>1. i \in 1 .. Len(frames) /\ frames'[i] = frames[i]
    BY <1>0, <1>1, <1>2
  <2> QED
    BY <1>3, <2>1 DEF RouteInv, Matches
<1>4. RouteInv'
  BY <1>3 DEF RouteInv, Matches, ApplyRule, Dealt
<1> QED
  BY <1>1, <1>2, <1>4

(* Nothing happens to the routers.                                          *)
LEMMA IdleRoutes ==
  ASSUME RouteInv, UNCHANGED frames, sh'.ws = sh.ws \/ frames = <<>>
  PROVE  RouteInv'
BY DEF RouteInv, Matches, ApplyRule, Dealt

(* A question is asked by a process that runs.                              *)
LEMMA MineUp ==
  ASSUME ShellInv, sh.pc # "down"
  PROVE  Up(Me) /\ Me \in Procs
BY ShellAssumption DEF ShellInv, StateInv, ModeInv

(* A rule is over: it was served or has failed.                             *)
LEMMA RuleOver ==
  ASSUME ShellType, RouteInv, sh'.ws = sh.ws, InRouter("ask") \/ InRouter("run"),
         \/ Update([Router EXCEPT !.at = "next", !.failed = @ \cup {Router.rule}])
         \/ Update([Router EXCEPT !.at = "next", !.sent = @ \cup {Router.rule}])
  PROVE  RouteInv' /\ frames' \in Seq(Frames) /\ frames' # <<>>
<1> DEFINE r == Router
<1>1. r \in Frames /\ r.rule \in Configs /\ frames # <<>> /\ r = frames[Len(frames)]
      /\ Len(frames) \in 1 .. Len(frames)
  BY RouterTypes DEF InRouter, Frames, Router
<1>2. \A c \in Configs \ r.todo : Matches(c, r.topic) => Dealt(r, c)
  BY <1>1 DEF RouteInv
<1>3. PICK f : /\ Update(f)
               /\ \/ f = [r EXCEPT !.at = "next", !.failed = @ \cup {r.rule}]
                  \/ f = [r EXCEPT !.at = "next", !.sent = @ \cup {r.rule}]
  OBVIOUS
<1> HIDE DEF r
<1>4. /\ f \in Frames /\ f.todo = r.todo /\ f.topic = r.topic
      /\ f.sent \cup f.failed = r.sent \cup r.failed \cup {r.rule}
  <2>1. CASE f = [r EXCEPT !.at = "next", !.failed = @ \cup {r.rule}]
    BY <1>1, <2>1 DEF Frames, Routers
  <2>2. CASE f = [r EXCEPT !.at = "next", !.sent = @ \cup {r.rule}]
    BY <1>1, <2>2 DEF Frames, Routers
  <2> QED
    BY <1>3, <2>1, <2>2
<1>5. \A c \in Configs \ f.todo : Matches(c, f.topic) => Dealt(f, c)
  BY <1>2, <1>4 DEF Dealt
<1> QED
  BY <1>1, <1>3, <1>4, <1>5, UpdateRoutes

(* A question is answered or cancelled.                                     *)
LEMMA QuestionKeeps ==
  ASSUME ShellInv, CancelQuestion \/ \E grant \in BOOLEAN : AnswerQuestion(grant)
  PROVE  StateInv' /\ RouteInv' /\ missed' = {}
<1> USE DEF ShellInv, StateInv
<1>1. Asking /\ sh.pc # "down" /\ missed' = {} /\ UNCHANGED <<disk, dirs>>
  BY DEF CancelQuestion, AnswerQuestion, Asking, InRouter, ModeInv, shellVars, rest
<1>2. Up(Me) /\ Me \in Procs
  BY <1>1, MineUp
<1>3. ASSUME NEW grant \in BOOLEAN, AnswerQuestion(grant) PROVE StateInv' /\ RouteInv'
  <2>1. kring'[Me] # None
    BY <1>2, <1>3, AnswerStaysUp DEF AnswerQuestion
  <2>2. UNCHANGED <<sh, frames>>
    BY <1>3 DEF AnswerQuestion, shellVars, rest
  <2>3. StateInv'
    BY <1>1, <2>1, <2>2, StepKeeps DEF Kept, ShellType, ModeInv, RegisterArmed
  <2> QED
    BY <2>2, <2>3, IdleRoutes
<1>4. CASE CancelQuestion /\ sh.pc = "ask"
  <2>1. sh' = [sh EXCEPT !.pc = "prompt"] /\ UNCHANGED frames /\ UNCHANGED kring
    BY <1>4 DEF CancelQuestion, Fail, Cancel
  <2>2. sh' \in Shells /\ Kept /\ sh'.pc = "prompt" /\ sh'.reg = sh.reg
    BY <2>1, PcFields DEF ShellType
  <2>3. frames' = <<>> /\ sh.reg = 1 /\ frames' \in Seq(Frames)
    BY <1>4, <2>1 DEF ModeInv, RegisterArmed, ShellType
  <2>4. StateInv'
    BY <1>1, <1>2, <2>1, <2>2, <2>3, StepKeeps DEF Up
  <2> QED
    BY <1>1, <2>1, <2>2, <2>4, IdleRoutes DEF Kept
<1>5. CASE CancelQuestion /\ sh.pc # "ask"
  <2>1. InRouter("ask") /\ Update(RuleFailed) /\ UNCHANGED sh /\ UNCHANGED kring
    BY <1>5 DEF CancelQuestion, Cancel, Asking
  <2>2. RouteInv' /\ frames' \in Seq(Frames)
    BY <2>1, RuleOver DEF RuleFailed
  <2>3. StateInv'
    BY <1>1, <1>2, <2>1, <2>2, StepKeeps DEF Kept, ShellType, ModeInv, RegisterArmed, Up, InRouter
  <2> QED
    BY <1>1, <2>2, <2>3
<1> QED
  BY <1>1, <1>3, <1>4, <1>5

(* The reaping starts a router or is over; a run may then ask its questions. *)
LEMMA ReapKeeps ==
  ASSUME ShellInv, Reap \/ Reaped
  PROVE  StateInv' /\ RouteInv' /\ missed' = {}
<1> USE DEF ShellInv, StateInv
<1>1. sh.pc \in {"boot", "reap"} /\ missed' = {} /\ UNCHANGED <<disk, dirs>> /\ frames = <<>>
  BY DEF Reap, Reaped
<1>2. Up(Me) /\ Me \in Procs /\ sh.reg = 1 /\ sh \in Shells
  BY <1>1, MineUp DEF RegisterArmed, ShellType
<1>3. CASE Reap
  <2>1. UNCHANGED <<sh, kring>> /\ frames' = Append(frames, NewRouter("delete"))
    BY <1>1, <1>3 DEF Reap, keyringVars
  <2>2. RouteInv' /\ frames' \in Seq(Frames)
    BY <2>1, StartRoutes
  <2>3. StateInv'
    BY <1>1, <1>2, <2>1, <2>2, StepKeeps DEF Kept, Up
  <2> QED
    BY <1>1, <2>2, <2>3
<1>4. CASE Reaped
  <2>1. PICK l \in {"prompt", "ask"} : sh' = [sh EXCEPT !.pc = l]
    BY <1>4 DEF Reaped, Fail
  <2>2. UNCHANGED <<kring, frames>>
    BY <1>4 DEF Reaped, Prepare, keyringVars
  <2>3. sh' \in Shells /\ Kept /\ sh'.pc = l /\ sh'.reg = sh.reg
    BY <1>2, <2>1, PcFields
  <2>4. StateInv'
    BY <1>1, <1>2, <2>2, <2>3, StepKeeps DEF Up, ShellType
  <2> QED
    BY <1>1, <2>2, <2>4, IdleRoutes
<1> QED
  BY <1>3, <1>4

(* The run is handed to the worker, which returns; ctrl-c is caught in      *)
(* between.                                                                 *)
LEMMA SpawnKeeps ==
  ASSUME ShellInv, Execute \/ Finish \/ (CtrlC /\ sh.reg # 1)
  PROVE  StateInv' /\ RouteInv' /\ missed' = {}
<1> USE DEF ShellInv, StateInv
<1>1. sh.pc # "down" /\ missed' = {} /\ UNCHANGED <<disk, dirs, frames>>
  BY DEF Execute, Finish, CtrlC, rest
<1>2. Up(Me) /\ Me \in Procs /\ sh \in Shells /\ frames' \in Seq(Frames)
  BY <1>1, MineUp DEF ShellType
<1>3. CASE Execute
  <2>1. sh.pc = "ask" /\ frames = <<>> /\ sh.reg = 1
    BY <1>3 DEF Execute, ModeInv, RegisterArmed
  <2>2. CASE kring'[Me] = None
    BY <1>1, <1>3, <2>1, <2>2, DeathKeeps DEF Execute
  <2>3. CASE kring'[Me] # None
    <3>1. sh' = [sh EXCEPT !.pc = "prompt"] \/ sh' = [sh EXCEPT !.pc = "spawn", !.reg = 0]
      BY <1>3, <2>3 DEF Execute, GetArgs
    <3>2. sh' \in Shells /\ Kept /\ sh'.pc # "down" /\ (sh'.pc # "spawn" => sh'.reg = 1)
      BY <1>2, <2>1, <3>1, PcFields, RegFields
    <3>3. StateInv'
      BY <1>1, <1>2, <2>1, <2>3, <3>2, StepKeeps
    <3> QED
      BY <1>1, <2>1, <3>3, IdleRoutes
  <2> QED
    BY <2>2, <2>3
<1>4. CASE Finish
  <2>1. sh' = [sh EXCEPT !.pc = "prompt", !.reg = 1] /\ UNCHANGED kring /\ frames = <<>>
    BY <1>4 DEF Finish
  <2>2. sh' \in Shells /\ Kept /\ sh'.pc = "prompt" /\ sh'.reg = 1
    BY <1>2, <2>1, RegFields
  <2>3. StateInv'
    BY <1>1, <1>2, <2>1, <2>2, StepKeeps DEF Up
  <2> QED
    BY <1>1, <2>1, <2>3, IdleRoutes
<1>5. CASE CtrlC /\ sh.reg # 1
  <2>1. sh' = [sh EXCEPT !.reg = @ + 1] /\ UNCHANGED kring
    BY <1>5 DEF CtrlC, keyringVars
  <2>2. sh.reg = 0
    BY <1>2, <1>5 DEF Shells
  <2>3. sh' \in Shells /\ Kept /\ sh'.pc = sh.pc /\ sh'.reg = 1
    BY <1>2, <2>1, <2>2 DEF Shells, Kept
  <2>4. StateInv'
    BY <1>1, <1>2, <2>1, <2>3, StepKeeps DEF Up, ModeInv
  <2> QED
    BY <1>1, <2>3, <2>4, IdleRoutes DEF Kept
<1> QED
  BY <1>3, <1>4, <1>5

(* An event of a run or of a notification starts a router; a notification   *)
(* is handed to the worker and returns.                                     *)
LEMMA NotifyKeeps ==
  ASSUME ShellInv, (\E t \in EventTopics : Notify(t)) \/ NotifyExec \/ NotifyDone
  PROVE  StateInv' /\ RouteInv' /\ missed' = {}
<1> USE DEF ShellInv, StateInv
<1>1. missed' = {} /\ UNCHANGED <<disk, dirs>> /\ sh.pc \in {"boot", "reap", "spawn"}
  BY DEF Notify, NotifyExec, NotifyDone, InRouter, ModeInv
<1>2. Up(Me) /\ Me \in Procs /\ sh \in Shells /\ ShellType /\ (sh.pc # "spawn" => sh.reg = 1)
  BY <1>1, MineUp DEF ShellType, RegisterArmed
<1>3. ASSUME UNCHANGED sh, kring'[Me] # None, RouteInv', frames' \in Seq(Frames)
      PROVE  StateInv' /\ RouteInv' /\ missed' = {}
  BY <1>1, <1>2, <1>3, StepKeeps DEF Kept
<1>4. ASSUME NEW t \in EventTopics, Notify(t) PROVE StateInv' /\ RouteInv' /\ missed' = {}
  <2>1. UNCHANGED sh /\ UNCHANGED kring /\ frames' = Append(frames, NewRouter(t))
    BY <1>4 DEF Notify, keyringVars
  <2> QED
    BY <1>2, <1>3, <2>1, StartRoutes DEF Up
<1>5. CASE NotifyDone
  <2>1. UNCHANGED sh /\ UNCHANGED kring /\ InRouter("run")
        /\ Update([Router EXCEPT !.at = "next", !.sent = @ \cup {Router.rule}])
    BY <1>5 DEF NotifyDone, keyringVars
  <2> QED
    BY <1>2, <1>3, <2>1, RuleOver DEF Up
<1>6. CASE NotifyExec /\ kring'[Me] = None
  BY <1>1, <1>6, DeathKeeps DEF NotifyExec
<1>7. CASE NotifyExec /\ kring'[Me] # None
  <2> DEFINE r == Router
             f == [r EXCEPT !.at = "run"]
  <2>1. UNCHANGED sh /\ InRouter("ask") /\ Update(f)
    BY <1>7 DEF NotifyExec
  <2>2. r \in Frames /\ r.at = "ask" /\ frames # <<>> /\ r = frames[Len(frames)]
        /\ Len(frames) \in 1 .. Len(frames)
    BY <1>2, <2>1, RouterTypes DEF InRouter, Router
  <2>3. \A c \in Configs \ r.todo : Matches(c, r.topic) => Dealt(r, c)
    BY <2>2 DEF RouteInv
  <2> HIDE DEF r
  <2>4. /\ f \in Frames /\ f.todo = r.todo /\ f.topic = r.topic /\ f.sent = r.sent
        /\ f.failed = r.failed /\ f.at = "run" /\ f.rule = r.rule
    BY <2>2 DEF Frames, Routers
  <2> HIDE DEF f
  <2>5. \A c \in Configs \ f.todo : Matches(c, f.topic) => Dealt(f, c)
    BY <2>2, <2>3, <2>4 DEF Dealt
  <2>6. RouteInv' /\ frames' \in Seq(Frames)
    BY <1>2, <2>1, <2>2, <2>4, <2>5, UpdateRoutes
  <2> QED
    BY <1>3, <1>7, <2>1, <2>6
<1> QED
  BY <1>4, <1>5, <1>6, <1>7

(* A router that returns has left out nothing it has no excuse for.         *)
LEMMA ReturnMissesNothing ==
  ASSUME ShellInv, InRouter("next"), NEW f, RouterReturns(f),
         \/ Router.todo = {} /\ f = Router
         \/ CtrlCReceived
         \/ \E c \in Configs : Matches(c, Router.topic) /\ Script[c] \notin sh.lib
  PROVE  missed' = {}
<1> USE DEF ShellInv, StateInv
<1>1. CASE CtrlCReceived \/ \E c \in Matching : Script[c] \notin sh.lib
  BY <1>1 DEF RouterReturns
<1>2. CASE Router.todo = {} /\ f = Router
  <2>1. Router \in Frames /\ Router = frames[Len(frames)] /\ Len(frames) \in 1 .. Len(frames)
    BY RouterTypes DEF InRouter, Router
  <2>2. \A c \in Configs : Matches(c, Router.topic) => c \in Router.sent \cup Router.failed
    BY <1>2, <2>1 DEF RouteInv, Dealt, InRouter
  <2>3. Matching \ (f.sent \cup f.failed) = {}
    BY <1>2, <2>2 DEF Matching
  <2> QED
    BY <2>3 DEF RouterReturns
<1> QED
  BY <1>1, <1>2 DEF Matching

(* One rule of the list: it does not match, the router gives up, the rule   *)
(* fails, or its script is prepared.                                        *)
LEMMA RouterKeeps ==
  ASSUME ShellInv, RouterStep
  PROVE  StateInv' /\ RouteInv' /\ missed' = {}
<1> USE DEF ShellInv, StateInv
<1>1. UNCHANGED <<sh, disk, dirs>> /\ InRouter("next") /\ frames # <<>>
      /\ sh.pc \in {"boot", "reap", "spawn"}
  BY DEF RouterStep, InRouter, ModeInv
<1>2. Up(Me) /\ Me \in Procs /\ sh \in Shells /\ ShellType /\ (sh.pc # "spawn" => sh.reg = 1)
  BY <1>1, MineUp DEF ShellType, RegisterArmed
<1>3. UNCHANGED kring
  BY DEF RouterStep, RouterReturns, Route, Prepare, keyringVars
<1>4. ASSUME RouteInv', frames' \in Seq(Frames)
      PROVE  StateInv'
  BY <1>1, <1>2, <1>3, <1>4, StepKeeps DEF Kept, Up
<1>5. ASSUME NEW f, RouterReturns(f), missed' = {}
      PROVE  StateInv' /\ RouteInv' /\ missed' = {}
  <2>1. RouteInv' /\ frames' \in Seq(Frames)
    BY <1>1, <1>2, <1>5, ReturnRoutes DEF RouterReturns
  <2> QED
    BY <1>4, <1>5, <2>1
<1> DEFINE r == Router
<1>6. r \in Frames /\ r.at = "next" /\ r = frames[Len(frames)] /\ Len(frames) \in 1 .. Len(frames)
  BY <1>1, <1>2, RouterTypes DEF InRouter, Router
<1>7. \A c \in Configs \ r.todo : Matches(c, r.topic) => c \in r.sent \cup r.failed
  BY <1>6 DEF RouteInv, Dealt
<1>8. ASSUME NEW c \in r.todo, Route(c, [r EXCEPT !.todo = @ \ {c}])
      PROVE  StateInv' /\ RouteInv' /\ missed' = {}
  <2> DEFINE g == [r EXCEPT !.todo = @ \ {c}]
  <2>1. /\ g \in Frames /\ c \in Configs /\ g.at = "next" /\ g.todo = r.todo \ {c}
        /\ g.topic = r.topic /\ g.sent = r.sent /\ g.failed = r.failed
    BY <1>6, <1>8 DEF Frames, Routers
  <2>2. \/ ~Matches(c, g.topic) /\ Update(g) /\ UNCHANGED missed
        \/ Matches(c, g.topic) /\ Script[c] \notin sh.lib /\ RouterReturns(g)
        \/ Update([g EXCEPT !.at = "ask", !.rule = c]) /\ UNCHANGED missed
        \/ Update([g EXCEPT !.failed = @ \cup {c}]) /\ UNCHANGED missed
    BY <1>8 DEF Route
  <2> HIDE DEF g
  <2>3. CASE Matches(c, g.topic) /\ Script[c] \notin sh.lib /\ RouterReturns(g)
    <3>1. missed' = {}
      BY <1>1, <2>1, <2>3, ReturnMissesNothing
    <3> QED
      BY <1>5, <2>3, <3>1
  <2>4. ASSUME NEW f \in Frames, Update(f), f.todo = g.todo, f.topic = g.topic, UNCHANGED missed,
               \A o \in Configs \ g.todo : Matches(o, g.topic) => Dealt(f, o)
        PROVE  StateInv' /\ RouteInv' /\ missed' = {}
    <3>1. RouteInv' /\ frames' \in Seq(Frames)
      BY <1>1, <1>2, <2>4, UpdateRoutes
    <3> QED
      BY <1>4, <2>4, <3>1
  <2>5. CASE ~Matches(c, g.topic) /\ Update(g) /\ UNCHANGED missed
    <3>1. \A o \in Configs \ g.todo : Matches(o, g.topic) => Dealt(g, o)
      BY <1>7, <2>1, <2>5 DEF Dealt
    <3> QED
      BY <2>1, <2>4, <2>5, <3>1
  <2>6. CASE Update([g EXCEPT !.at = "ask", !.rule = c]) /\ UNCHANGED missed
    <3> DEFINE f == [g EXCEPT !.at = "ask", !.rule = c]
    <3>1. /\ f \in Frames /\ f.todo = g.todo /\ f.topic = g.topic /\ f.sent = g.sent
          /\ f.failed = g.failed /\ f.at = "ask" /\ f.rule = c
      BY <2>1 DEF Frames, Routers
    <3>2. Update(f)
      BY <2>6
    <3> HIDE DEF f
    <3>3. \A o \in Configs \ g.todo : Matches(o, g.topic) => Dealt(f, o)
      BY <1>7, <2>1, <3>1 DEF Dealt
    <3> QED
      BY <2>4, <2>6, <3>1, <3>2, <3>3
  <2>7. CASE Update([g EXCEPT !.failed = @ \cup {c}]) /\ UNCHANGED missed
    <3> DEFINE f == [g EXCEPT !.failed = @ \cup {c}]
    <3>1. /\ f \in Frames /\ f.todo = g.todo /\ f.topic = g.topic /\ f.sent = g.sent
          /\ f.failed = g.failed \cup {c}
      BY <2>1 DEF Frames, Routers
    <3>2. Update(f)
      BY <2>7
    <3> HIDE DEF f
    <3>3. \A o \in Configs \ g.todo : Matches(o, g.topic) => Dealt(f, o)
      BY <1>7, <2>1, <3>1 DEF Dealt
    <3> QED
      BY <2>4, <2>7, <3>1, <3>2, <3>3
  <2> QED
    BY <2>2, <2>3, <2>5, <2>6, <2>7
<1>9. CASE \/ Router.todo = {} /\ RouterReturns(Router)
           \/ Router.todo # {} /\ CtrlCReceived /\ RouterReturns(Router)
  <2>1. missed' = {}
    BY <1>1, <1>9, ReturnMissesNothing
  <2> QED
    BY <1>5, <1>9, <2>1
<1> QED
  BY <1>8, <1>9 DEF RouterStep

-----------------------------------------------------------------------------
(* What every step does to the keyring.                                     *)
LEMMA StepMovesKeys ==
  ASSUME ShellInv, Next
  PROVE  UNCHANGED keyringVars \/ \E p \in Procs : KeyMove(p)
<1> USE ShellAssumption DEF ShellInv, StateInv
<1>1. CASE Command /\ Commands
  <2>1. ASSUME NEW w \in Workspaces, Start(w) \/ Change(w) \/ DeleteWorkspace(w) \/ OtherDeletes(w)
        PROVE  UNCHANGED keyringVars \/ KeyMove(Me)
    BY <2>1 DEF Start, Change, DeleteWorkspace, OtherDeletes, KeyMove
  <2>2. CASE \/ \E m \in Modules : UseCmd(m)
             \/ SetCmd \/ TargetCmd \/ Interrupt \/ Run
             \/ \E eof \in BOOLEAN : Back(eof)
             \/ \E new \in SUBSET Modules : PkgCmd(new)
    BY <2>2 DEF UseCmd, SetCmd, TargetCmd, Interrupt, Run, Back, PkgCmd, Exit, KeyMove
  <2>3. ASSUME NEW k \in Keys, KeyringCmd(k) PROVE KeyMove(Me)
    BY <2>3 DEF KeyringCmd, KeyMove
  <2>4. ASSUME NEW p \in Procs, OtherCommand(p) PROVE KeyMove(p)
    BY <2>4 DEF OtherCommand, KeyMove, Idle
  <2> QED
    BY <1>1, <2>1, <2>2, <2>3, <2>4 DEF Commands
<1>2. CASE Steps
  <2>1. CASE Reap \/ NotifyDone \/ \E t \in EventTopics : Notify(t)
    BY <2>1 DEF Reap, NotifyDone, Notify
  <2>2. CASE Reaped
    <3>1. Up(Me)
      BY <2>2, MineUp DEF Reaped
    <3>2. sh.mod \in Modules \cup {None}
      BY DEF ShellType, Shells
    <3> QED
      BY <2>2, <3>1, <3>2 DEF Reaped, KeyMove
  <2>3. CASE CancelQuestion \/ Execute \/ NotifyExec \/ Finish
             \/ \E grant \in BOOLEAN : AnswerQuestion(grant)
    BY <2>3 DEF CancelQuestion, Execute, NotifyExec, Finish, AnswerQuestion, KeyMove
  <2>4. CASE CtrlC
    BY <2>4 DEF CtrlC, Exit, KeyMove
  <2>5. CASE RouterStep
    <3>1. Up(Me)
      BY <2>5, MineUp DEF RouterStep, InRouter, ModeInv
    <3>2. sh.lib \subseteq Modules
      BY DEF ShellType, Shells
    <3> QED
      BY <2>5, <3>1, <3>2 DEF RouterStep, RouterReturns, Route, KeyMove
  <2>6. ASSUME NEW p \in Procs, OtherStep(p) PROVE KeyMove(p)
    BY <2>6 DEF OtherStep, KeyMove
  <2> QED
    BY <1>2, <2>1, <2>2, <2>3, <2>4, <2>5, <2>6 DEF Steps
<1> QED
  BY <1>1, <1>2 DEF Next

(* A command keeps the invariant of the shell.                              *)
LEMMA CommandKeeps ==
  ASSUME ShellInv, Commands
  PROVE  StateInv' /\ RouteInv' /\ missed' = {}
<1> USE DEF ShellInv
<1>1. CASE \/ \E m \in Modules : UseCmd(m)
           \/ SetCmd \/ TargetCmd \/ Run
           \/ \E new \in SUBSET Modules : PkgCmd(new)
           \/ \E eof \in BOOLEAN : Back(eof) /\ sh.mod # None
           \/ Interrupt /\ sh.cancel + 1 <= 1
  <2>1. StateInv'
    BY <1>1, SelectKeeps
  <2>2. UNCHANGED <<frames, missed>> /\ frames = <<>>
    BY <1>1 DEF UseCmd, SetCmd, TargetCmd, Run, PkgCmd, Back, Interrupt, Prompt, rest, StateInv,
       ModeInv, ShellType, Shells
  <2> QED
    BY <2>1, <2>2, IdleRoutes
<1>2. CASE Exit
  BY <1>2, ExitKeeps
<1>3. ASSUME NEW w \in Workspaces, Start(w) \/ Change(w) \/ DeleteWorkspace(w) \/ OtherDeletes(w)
      PROVE  StateInv' /\ RouteInv' /\ missed' = {}
  <2>1. StateInv'
    BY <1>3, WorkspaceKeeps
  <2>2. UNCHANGED <<frames, missed>> /\ (UNCHANGED sh \/ frames = <<>>)
    BY <1>3 DEF Start, Change, DeleteWorkspace, OtherDeletes, Prompt, rest, StateInv, ModeInv
  <2> QED
    BY <2>1, <2>2, IdleRoutes
<1>4. ASSUME NEW k \in Keys, KeyringCmd(k)
      PROVE  StateInv' /\ RouteInv' /\ missed' = {}
  <2>1. StateInv'
    BY <1>4, KeyringCmdKeeps
  <2>2. UNCHANGED <<frames, missed>> /\ frames = <<>>
    BY <1>4 DEF KeyringCmd, Prompt, rest, StateInv, ModeInv
  <2> QED
    BY <2>1, <2>2, IdleRoutes
<1>5. ASSUME NEW p \in Procs, OtherCommand(p)
      PROVE  StateInv' /\ RouteInv' /\ missed' = {}
  <2>1. kring'[Me] = kring[Me]
    BY <1>5, OthersKeepMine DEF OtherCommand, KeyMove, Idle
  <2> QED
    BY <1>5, <2>1 DEF OtherCommand, shellVars, rest, StateInv, ShellType, ModeInv, Up,
       RegisterArmed, SelectionConsistent, RouteInv, Matches, ApplyRule, Dealt
<1>6. CASE Interrupt
  <2>1. sh.cancel \in Nat
    BY DEF StateInv, ShellType, Shells
  <2>2. Exit \/ sh.cancel + 1 <= 1
    BY <1>6, <2>1 DEF Interrupt
  <2> QED
    BY <1>1, <1>2, <1>6, <2>2
<1>7. ASSUME NEW eof \in BOOLEAN, Back(eof)
      PROVE  StateInv' /\ RouteInv' /\ missed' = {}
  BY <1>1, <1>2, <1>7 DEF Back
<1> QED
  BY <1>1, <1>3, <1>4, <1>5, <1>6, <1>7 DEF Commands

(* A step of the shell or of another process keeps it, too.                 *)
LEMMA StepsKeep ==
  ASSUME ShellInv, Steps
  PROVE  StateInv' /\ RouteInv' /\ missed' = {}
<1> USE DEF ShellInv
<1>1. CASE CtrlC
  <2>1. CASE sh.reg = 1
    BY <1>1, <2>1, ExitKeeps DEF CtrlC
  <2>2. CASE sh.reg # 1
    BY <1>1, <2>2, SpawnKeeps
  <2> QED
    BY <2>1, <2>2
<1>2. ASSUME NEW p \in Procs, OtherStep(p)
      PROVE  StateInv' /\ RouteInv' /\ missed' = {}
  <2>1. kring'[Me] = kring[Me]
    BY <1>2, OthersKeepMine DEF OtherStep, KeyMove
  <2> QED
    BY <1>2, <2>1 DEF OtherStep, shellVars, rest, StateInv, ShellType, ModeInv, Up,
       RegisterArmed, SelectionConsistent, RouteInv, Matches, ApplyRule, Dealt
<1> QED
  BY <1>1, <1>2, ReapKeeps, QuestionKeeps, SpawnKeeps, NotifyKeeps, RouterKeeps DEF Steps

(* The invariant is inductive.                                              *)
LEMMA ShellNext == ShellInv /\ [Next]_vars => ShellInv'
<1> SUFFICES ASSUME ShellInv, [Next]_vars PROVE ShellInv'
  OBVIOUS
<1>1. CASE Next
  <2>1. KeyInv'
    <3>1. CASE UNCHANGED keyringVars
      BY <3>1 DEF ShellInv, KeyInv, KeyType, AskInv, GrantInv, CopyInv, Up, keyringVars
    <3> QED
      BY <1>1, <3>1, StepMovesKeys, KeyMoveKeeps DEF ShellInv
  <2>2. StateInv' /\ RouteInv' /\ missed' = {}
    BY <1>1, CommandKeeps, StepsKeep DEF Next
  <2> QED
    BY <2>1, <2>2 DEF ShellInv
<1>2. CASE UNCHANGED vars
  <2>1. KeyInv'
    BY <1>2 DEF ShellInv, KeyInv, KeyType, AskInv, GrantInv, CopyInv, Up, keyringVars, vars
  <2>2. StateInv' /\ RouteInv' /\ missed' = {}
    BY <1>2 DEF ShellInv, vars, keyringVars, shellVars, rest, StateInv, ShellType, ModeInv, Up,
       RegisterArmed, SelectionConsistent, RouteInv, Matches, ApplyRule, Dealt
  <2> QED
    BY <2>1, <2>2 DEF ShellInv
<1> QED
  BY <1>1, <1>2

(* The inductive invariant holds in every reachable state.                  *)
LEMMA ShellInvariant == Spec => []ShellInv
BY ShellInit, ShellNext, PTL DEF Spec

(* The keyring follows the user: no script holds a key of a namespace the   *)
(* user has not agreed to for its module, whatever processes load, save and *)
(* cancel, and the file loses no key unless a process that is behind saves. *)
THEOREM ConsentHolds == Spec => []KeysNeedConsent
<1>1. ShellInv => KeysNeedConsent
  BY DEF ShellInv, KeyInv, GrantInv, CopyInv, KeysNeedConsent
<1> QED
  BY <1>1, ShellInvariant, PTL

(* Outside of a run ctrl-c ends the process: execute catches it after the   *)
(* last step that may fail, and gives it back when the worker returns.      *)
THEOREM RegisterHolds == Spec => []RegisterArmed
<1>1. ShellInv => RegisterArmed
  BY DEF ShellInv, StateInv
<1> QED
  BY <1>1, ShellInvariant, PTL

(* Module, options and target belong together after every sequence of use,  *)
(* set, target, back, reload and failed reload, and prompt, database and    *)
(* blobs are those of one workspace.                                        *)
THEOREM SelectionHolds == Spec => []SelectionConsistent
<1>1. ShellInv => SelectionConsistent
  BY DEF ShellInv, StateInv
<1> QED
  BY <1>1, ShellInvariant, PTL

(* Every event reaches each rule that matches it, for any rules and any     *)
(* depth of routers inside of each other.                                   *)
THEOREM RoutingHolds == Spec => []NotificationsRouted
<1>1. ShellInv => NotificationsRouted
  BY DEF ShellInv, NotificationsRouted
<1> QED
  BY <1>1, ShellInvariant, PTL
=============================================================================
