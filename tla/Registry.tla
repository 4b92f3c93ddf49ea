------------------------------ MODULE Registry ------------------------------
(***************************************************************************)
(* The module registry, sn0int-registry: the modules and releases tables   *)
(* and the routes of routes/api.rs.  A publish request is one postgres     *)
(* transaction (READ COMMITTED): it looks for the module, and from its     *)
(* UPDATE of the module's row on nobody else can change the module until   *)
(* it commits.  A release is dated by the begin of its transaction.        *)
(* Downloads are counted by the code for display only and left out here.   *)
(***************************************************************************)
EXTENDS Integers, FiniteSets

CONSTANTS
  Modules,    \* module ids, <<author, name>>
  Versions,   \* version numbers; the registry does not compare them
  Codes,      \* what else a release may contain
  Uploads,    \* what is published: <<module, version, code>>
  Requests,   \* publish requests the server works on at a time
  Redirects,  \* pairs <<m, n>> the operator may set as redirects
  Featured,   \* modules the operator has marked as featured
  Published,  \* releases that are there from the start
  MaxPublish, \* bound: publish requests
  MaxTime,    \* bound: how far the clock runs, in seconds
  None        \* NULL

ASSUME RegistryAssumption ==
  /\ Uploads \subseteq Modules \X Versions \X Codes
  /\ Redirects \subseteq Modules \X Modules
  /\ Featured \subseteq Modules
  /\ MaxTime \in Nat /\ MaxPublish \in Nat
  /\ Published \subseteq [module : Modules, version : Versions, code : Codes, published : {0}]
  /\ \A x, y \in Published : x.module = y.module => x = y
  /\ None \notin Modules /\ None \notin Versions /\ None \notin Codes

VARIABLES
  releases,   \* the releases table: [module, version, code, published]
  latest,     \* modules.latest; a module exists once it has a release
  redirect,   \* modules.redirect
  txn,        \* the publish requests that have begun
  begun,      \* how many there were
  clock       \* the time in seconds

registryVars == <<releases, latest, redirect, txn, begun, clock>>

NoTxn == [module |-> None]

RegistryInit ==
  /\ releases = Published
  /\ latest = [m \in Modules |-> IF \E x \in Published : x.module = m
                                 THEN (CHOOSE x \in Published : x.module = m).version ELSE None]
  /\ redirect = [m \in Modules |-> None]
  /\ txn = [r \in Requests |-> NoTxn]
  /\ begun = 0 /\ clock = 0

Tick == clock < MaxTime /\ clock' = clock + 1 /\ UNCHANGED <<releases, latest, redirect, txn, begun>>

(* Module::find_opt: the row is there once its first release is committed.  *)
FindOpt(m) == latest[m] # None

(* Release::try_find *)
TryFind(m, v) == {x \in releases : x.module = m /\ x.version = v}

(* publish, up to find_opt in update_or_create: token, names, metadata and  *)
(* version have been found valid and the transaction has begun.             *)
PublishBegin(r, m, v, c) ==
  /\ <<m, v, c>> \in Uploads
  /\ txn[r] = NoTxn /\ begun < MaxPublish
  /\ begun' = begun + 1
  /\ txn' = [txn EXCEPT ![r] = [module |-> m, version |-> v, code |-> c,
                                existed |-> FindOpt(m), time |-> clock]]
  /\ UNCHANGED <<releases, latest, redirect, clock>>

(* Module::add_version: the latest version is the one published last.       *)
MutAddVersionLatestOnly(t) ==
  /\ latest' = [latest EXCEPT ![t.module] = t.version]
  /\ UNCHANGED releases
AddVersion(t) ==
  /\ releases' = releases \cup
       {[module |-> t.module, version |-> t.version, code |-> t.code, published |-> t.time]}
  /\ latest' = [latest EXCEPT ![t.module] = t.version]

(* The rest of publish.  INSERT of a module that was not found fails when   *)
(* another request has created it (UNIQUE author, name); the UPDATE of one  *)
(* that was found takes its redirect away; both are rolled back when the    *)
(* version exists with another code.  (A lost connection has the same effect.) *)
PublishWith(r, unique, taken) ==
  LET t == txn[r] IN
  /\ t # NoTxn
  /\ \/ /\ unique \/ \E x \in taken : x.code # t.code                    \* Err
        /\ UNCHANGED <<releases, latest, redirect>>
     \/ /\ ~unique /\ taken # {} /\ \A x \in taken : x.code = t.code    \* as if published
        /\ redirect' = [redirect EXCEPT ![t.module] = None]
        /\ UNCHANGED <<releases, latest>>
     \/ /\ ~unique /\ taken = {}
        /\ AddVersion(t)
        /\ redirect' = [redirect EXCEPT ![t.module] = None]
  /\ txn' = [txn EXCEPT ![r] = NoTxn]
  /\ UNCHANGED <<begun, clock>>

MutCommitNotUnique(r) == PublishWith(r, FALSE, {})
PublishCommit(r) ==
  PublishWith(r, ~txn[r].existed /\ FindOpt(txn[r].module),
              TryFind(txn[r].module, txn[r].version))

(* Module::redirect, called by the operator's tools.                        *)
SetRedirect(m, n) ==
  /\ FindOpt(m) /\ <<m, n>> \in Redirects
  /\ redirect' = [redirect EXCEPT ![m] = n]
  /\ UNCHANGED <<releases, latest, txn, begun, clock>>

(* The routes that only read.                                               *)
Info(m) == [latest |-> latest[m], redirect |-> redirect[m]]
Download(m, v) == TryFind(m, v)
Quickstart == {m \in Featured : FindOpt(m)}
(* Release::latest, in whole seconds *)
LatestTime ==
  IF releases = {} THEN None
  ELSE CHOOSE t \in {x.published : x \in releases} : \A x \in releases : x.published <= t
=============================================================================
