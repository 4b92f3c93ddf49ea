------------------------------ MODULE Keyring -------------------------------
(***************************************************************************)
(* keyring.rs, the keyring command and prepare_keyring of cmd/run_cmd.rs.  *)
(* The keyring is one file: a process reads it once, when it starts, and   *)
(* every save writes all that the process has in memory.                   *)
(***************************************************************************)
EXTENDS Integers, FiniteSets

CONSTANTS
  Procs,     \* sn0int processes of the user
  Modules,   \* modules
  Keys,      \* key names, <<namespace, access key>>
  Access,    \* keyring_access of each module: the namespaces it asks for
  KeySource, \* the namespace of a module with the source keyring:..., or None
  None,
  Broken     \* a file that does not parse

Namespaces == UNION {Access[m] : m \in Modules}

(* What KeyRing holds: the keys, and the grants <<module, namespace>>.       *)
Keyrings == [keys : SUBSET Keys, grants : SUBSET (Modules \X Namespaces)]

ASSUME KeyringAssumption ==
  /\ None \notin Modules
  /\ \A r \in Keyrings : r \notin {None, Broken}

VARIABLES
  kfile,     \* keyring.json: [keys, grants] or Broken
  kring,     \* the keyring in the memory of each process, None when it is down
  ask,       \* prepare_keyring under way: [module, todo]
  given,     \* the keys the scripts of a process have got: <<module, key>>
  yes,       \* observation: <<module, namespace>> the user has agreed to
  keys,      \* observation: the keys according to the commands given
  behind,    \* observation: processes that have not seen the last change
  clobbered  \* observation: such a process has changed the keyring

keyringVars == <<kfile, kring, ask, given, yes, keys, behind, clobbered>>

NoAsk == [module |-> None, todo |-> {}]
Default == [keys |-> {}, grants |-> {}]      \* KeyRing::default

KeyringInit ==
  /\ kfile = Default
  /\ kring = [p \in Procs |-> None]
  /\ ask = [p \in Procs |-> NoAsk]
  /\ given = [p \in Procs |-> {}]
  /\ yes = {} /\ keys = {} /\ behind = {} /\ clobbered = FALSE

Up(p) == kring[p] # None
Idle(p) == Up(p) /\ ask[p] = NoAsk /\ given[p] = {}

(* KeyRing::init: a file that does not parse keeps sn0int from starting.    *)
Load(p) ==
  /\ ~Up(p) /\ kfile # Broken
  /\ kring' = [kring EXCEPT ![p] = kfile]
  /\ behind' = behind \ {p}
  /\ UNCHANGED <<kfile, ask, given, yes, keys, clobbered>>

Down(p) ==
  /\ Up(p)
  /\ kring' = [kring EXCEPT ![p] = None]
  /\ ask' = [ask EXCEPT ![p] = NoAsk]
  /\ given' = [given EXCEPT ![p] = {}]
  /\ UNCHANGED <<kfile, yes, keys, behind, clobbered>>

(* KeyRing::save; the process may die between truncating and writing.       *)
Save(p, new) ==
  /\ \/ kfile' = new /\ kring' = [kring EXCEPT ![p] = new]
     \/ kfile' = Broken /\ kring' = [kring EXCEPT ![p] = None]
  /\ behind' = IF new = kfile THEN behind ELSE {o \in Procs : Up(o)} \ {p}
  /\ clobbered' = (clobbered \/ p \in behind)

(* keyring add *)
KeyInsert(p, k) ==
  /\ Idle(p)
  /\ keys' = keys \cup {k}
  /\ Save(p, [kring[p] EXCEPT !.keys = @ \cup {k}])
  /\ UNCHANGED <<ask, given, yes>>

InNamespace(S, n) == {k \in S : k[1] = n}

(* keyring delete: nothing is saved when the namespace has no keys.  Grants *)
(* for the namespace stay.                                                  *)
KeyDelete(p, k) ==
  /\ Idle(p)
  /\ keys' = keys \ {k}
  /\ IF InNamespace(kring[p].keys, k[1]) # {}
     THEN Save(p, [kring[p] EXCEPT !.keys = @ \ {k}])
     ELSE /\ clobbered' = (clobbered \/ p \in behind)
          /\ UNCHANGED <<kfile, kring, behind>>
  /\ UNCHANGED <<ask, given, yes>>

-----------------------------------------------------------------------------
IsAccessGranted(p, m, n) == <<m, n>> \in kring[p].grants
UnauthorizedNamespaces(p, m) == {n \in Access[m] : ~IsAccessGranted(p, m, n)}

MutRequestKeysUnchecked(p, m) == {k \in kring[p].keys : k[1] \in Access[m]}
(* request_keys: the keys of the namespaces the module asks for and has     *)
(* been granted.                                                            *)
RequestKeys(p, m) ==
  {k \in kring[p].keys : k[1] \in Access[m] /\ IsAccessGranted(p, m, k[1])}

(* get_args of a module whose targets are keys.                             *)
KeyArgs(p, m) ==
  {k \in kring[p].keys : k[1] = KeySource[m] /\ IsAccessGranted(p, m, k[1])}

(* prepare_keyring: one question for each namespace that is not granted,    *)
(* answered by the user or by the options of run.                           *)
Prepare(p, m) ==
  /\ ask' = [ask EXCEPT ![p] = [module |-> m, todo |-> UnauthorizedNamespaces(p, m)]]
  /\ UNCHANGED <<kfile, kring, given, yes, keys, behind, clobbered>>

GrantAccess(p, n, grant) ==
  kring' = [kring EXCEPT ![p].grants = IF grant THEN @ \cup {<<ask[p].module, n>>} ELSE @]

Answer(p, grant) ==
  /\ ask[p].todo # {}
  /\ LET n == CHOOSE x \in ask[p].todo : TRUE IN
     /\ GrantAccess(p, n, grant)
     /\ yes' = IF grant THEN yes \cup {<<ask[p].module, n>>} ELSE yes
     /\ ask' = [ask EXCEPT ![p].todo = @ \ {n}]
  /\ UNCHANGED <<kfile, given, keys, behind, clobbered>>

(* The question is cancelled: nothing is saved, and what has been granted   *)
(* stays granted in this process.                                           *)
Cancel(p) ==
  /\ ask[p].todo # {}
  /\ ask' = [ask EXCEPT ![p] = NoAsk]
  /\ UNCHANGED <<kfile, kring, given, yes, keys, behind, clobbered>>

(* The keyring is saved, also when nothing was granted; the worker then     *)
(* hands the keys to the script.                                            *)
HandOver(p) ==
  LET m == ask[p].module IN
  /\ m # None /\ ask[p].todo = {}
  /\ Save(p, kring[p])
  /\ ask' = [ask EXCEPT ![p] = NoAsk]
  /\ given' = [given EXCEPT ![p] = IF kring'[p] = None THEN {}
                                   ELSE @ \cup ({m} \X (RequestKeys(p, m) \cup KeyArgs(p, m)))]
  /\ UNCHANGED <<yes, keys>>

-----------------------------------------------------------------------------
(* The keyring follows the user.  A script only ever holds keys of          *)
(* namespaces the user has agreed to for its module: in this process or an  *)
(* earlier one, whoever saved last, and also after a question that was      *)
(* cancelled.  And the file holds the keys that were added and not deleted, *)
(* unless a process saved its old view over the changes of another one.     *)
KeysNeedConsent ==
  /\ \A p \in Procs : \A x \in given[p] : <<x[1], x[2][1]>> \in yes
  /\ kfile # Broken /\ ~clobbered => kfile.keys = keys
=============================================================================
