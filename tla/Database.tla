------------------------------ MODULE Database ------------------------------
(***************************************************************************)
(* The workspace database: db/mod.rs (insert_generic and the functions it  *)
(* dispatches to, update_generic), db/ttl.rs (temporary entities and their *)
(* reaping), the insert handler of worker.rs, the delete, scope and        *)
(* noscope commands, and the tables of migrations/.                        *)
(*                                                                         *)
(* A workspace is an sqlite file that several sn0int processes may have    *)
(* open.  Every statement is atomic; no operation uses a transaction, so   *)
(* other processes may act between any two statements of an operation, and *)
(* an operation may stop between two of them (the database is locked, the  *)
(* process dies).                                                          *)
(***************************************************************************)
EXTENDS Integers, FiniteSets

CONSTANTS
  Procs,     \* sn0int processes that have the workspace open
  Tables,    \* the tables of this instance, of those in Schema
  Keys,      \* values of the value column
  Vals,      \* values of the columns an upsert may set
  MaxId,     \* bound: rows ever inserted into a table
  MaxTime,   \* bound: how far the clock runs
  Ttls,      \* ttl arguments of db_add_ttl
  Null,      \* a column that is not set
  LinkKey,   \* stands for the value column, which links do not have
  Failures   \* whether operations may fail or be cut short

(* What insert and update do to a table: what its rows refer to (foreign    *)
(* keys, every one ON DELETE CASCADE), whether rows are found by a value or *)
(* by what they link, and the columns of a row that exists which another    *)
(* insert may set (upsert) and which db_update may set (changeset).         *)
Entity(parents, columns) ==
  [parents |-> parents, link |-> FALSE, upserts |-> columns, updates |-> columns]
Link(parents, upserts, updates) ==
  [parents |-> parents, link |-> TRUE, upserts |-> upserts, updates |-> updates]

Domain          == Entity({}, {})
Subdomain       == Entity({"domains"}, {"resolvable"})
IpAddr          == Entity({}, {"continent", "continent_code", "country", "country_code",
                               "city", "latitude", "longitude", "asn", "as_org",
                               "description", "reverse_dns"})
SubdomainIpAddr == Link({"subdomains", "ipaddrs"}, {}, {})
Url             == Entity({"subdomains"}, {"status", "body", "online", "title", "redirect"})
Email           == Entity({}, {"displayname", "valid"})
PhoneNumber     == Entity({}, {"name", "valid", "last_online", "country", "carrier", "line",
                               "is_ported", "last_ported", "caller_name", "caller_type"})
Device          == Entity({}, {"name", "hostname", "vendor", "last_seen"})
Network         == Entity({}, {"latitude", "longitude", "description"})
(* insert_network_device_struct never calls upsert.                         *)
NetworkDevice   == Link({"networks", "devices"}, {}, {"ipaddr", "last_seen"})
Account         == Entity({}, {"displayname", "email", "url", "last_seen", "birthday",
                               "phonenumber", "profile_pic"})
Breach          == Entity({}, {})
BreachEmail     == Link({"breaches", "emails"}, {"password"}, {"password"})
Image           == Entity({}, {"filename", "mime", "width", "height", "created", "latitude",
                               "longitude", "nudity", "ahash", "dhash", "phash"})
Port            == Entity({"ipaddrs"}, {"status", "banner", "service", "version"})
Netblock        == Entity({}, {"asn", "as_org", "description"})
CryptoAddr      == Entity({}, {"currency", "denominator", "balance", "received", "first_seen",
                               "last_withdrawal", "description"})

Schema ==
  [domains |-> Domain, subdomains |-> Subdomain, ipaddrs |-> IpAddr,
   subdomain_ipaddrs |-> SubdomainIpAddr, urls |-> Url, emails |-> Email,
   phonenumbers |-> PhoneNumber, devices |-> Device, networks |-> Network,
   network_devices |-> NetworkDevice, accounts |-> Account, breaches |-> Breach,
   breach_emails |-> BreachEmail, images |-> Image, ports |-> Port,
   netblocks |-> Netblock, cryptoaddrs |-> CryptoAddr]

Parents == [t \in DOMAIN Schema |-> Schema[t].parents]

ASSUME DatabaseAssumption ==
  /\ Tables \subseteq DOMAIN Schema
  /\ \A t \in Tables : Parents[t] \subseteq Tables
  /\ MaxId \in Nat /\ MaxTime \in Nat
  /\ Ttls \subseteq Nat \ {0}
  /\ Null \notin Vals /\ LinkKey \notin Keys
  /\ Failures \in BOOLEAN

(* Tables that link two entities: found by the pair, not by a value.        *)
LinkTables == {t \in DOMAIN Schema : Schema[t].link}
(* Tables whose rows an insert may update, and those db_update may change.  *)
UpsertTables == {t \in Tables : Schema[t].upserts # {}}
UpdateTables == {t \in Tables : Schema[t].updates # {}}

NoTtl == 0   \* db_add: the entity does not expire

Ids == 1 .. MaxId
Refs(t) == [Parents[t] -> Ids]
KeysOf(t) == IF t \in LinkTables THEN {LinkKey} ELSE Keys
AttrsOf(t) == IF t \in UpdateTables THEN Vals \cup {Null} ELSE {Null}

VARIABLES
  rows,   \* the entities: [table, id, key, refs, attr, unscoped, temp]
  seq,    \* sqlite_sequence: the largest id ever given out, per table
  ttls,   \* the ttls table: [table, id, value, expire]
  now,    \* the clock
  pc,     \* the statement each process runs next
  q,      \* the entity a process is asked to insert
  found,  \* the id a process has read
  expire, \* the expiry a process is about to write
  todo    \* the expired ttl rows a process has read and not reaped

dbVars == <<rows, seq, ttls>>
locals == <<pc, q, found, expire, todo>>
vars == <<dbVars, now, locals>>

(* temp is an observation: the entity was inserted by db_add_ttl.           *)
Rows(S) == UNION {[table : {t}, id : Ids, key : KeysOf(t), refs : Refs(t),
                   attr : AttrsOf(t), unscoped : BOOLEAN, temp : BOOLEAN] : t \in S}
TtlRows == [table : Tables, id : Ids, value : Keys \cup {LinkKey}, expire : Nat]
Requests(S) == UNION {[table : {t}, key : KeysOf(t), refs : Refs(t), attr : AttrsOf(t),
                       unscoped : BOOLEAN, ttl : Ttls \cup {NoTtl}] : t \in S}
NoRequest == [table |-> "none"]

-----------------------------------------------------------------------------
(* What the statements do.                                                  *)

(* get_opt, get_id: entities are found by value, links by the pair they     *)
(* link, and a breached email also by a password that is equal or not known. *)
Matches(r, o) ==
  /\ r.table = o.table
  /\ r.key = o.key
  /\ o.table \in LinkTables => r.refs = o.refs
  /\ o.table = "breach_emails" => o.attr = Null \/ r.attr \in {Null, o.attr}

(* The UNIQUE constraints; NULL is never equal to NULL.                     *)
Clashes(r, o) ==
  /\ r.table = o.table
  /\ r.key = o.key
  /\ o.table \in LinkTables => r.refs = o.refs
  /\ o.table = "breach_emails" => r.attr = o.attr /\ r.attr # Null

Has(t, i) == \E r \in rows : r.table = t /\ r.id = i

Children(S) == {r \in rows : \E p \in S : p.table \in Parents[r.table]
                                          /\ r.refs[p.table] = p.id}

MutNoCascade(S) == S
(* Deleting rows takes the rows that refer to them along; the deepest chain *)
(* of foreign keys has three tables (domains, subdomains, urls).            *)
Cascade(S) == LET one == S \cup Children(S) IN one \cup Children(one)

-----------------------------------------------------------------------------
Init ==
  /\ rows = {} /\ ttls = {} /\ now = 0
  /\ seq = [t \in Tables |-> 0]
  /\ pc = [p \in Procs |-> "idle"]
  /\ q = [p \in Procs |-> NoRequest]
  /\ found = [p \in Procs |-> 0]
  /\ expire = [p \in Procs |-> 0]
  /\ todo = [p \in Procs |-> {}]

(* The operation is over: the script gets its answer and the locals are     *)
(* gone.                                                                    *)
Done(p) ==
  /\ pc' = [pc EXCEPT ![p] = "idle"]
  /\ q' = [q EXCEPT ![p] = NoRequest]
  /\ found' = [found EXCEPT ![p] = 0]
  /\ expire' = [expire EXCEPT ![p] = 0]
  /\ todo' = [todo EXCEPT ![p] = {}]

Goto(p, l) == pc' = [pc EXCEPT ![p] = l]

(* The entity is in place; its ttl comes next, if it is to have one.        *)
ThenTtl(p, id, l) ==
  IF q[p].ttl = NoTtl THEN Done(p)
  ELSE /\ Goto(p, l)
       /\ found' = [found EXCEPT ![p] = id]
       /\ UNCHANGED <<q, expire, todo>>

(* db_add / db_add_ttl reach DatabaseEvent::insert; unscoped is what the    *)
(* autonoscope rules say of the entity, and no rule applies to a link.      *)
Insert(p, o) ==
  /\ pc[p] = "idle"
  /\ \A t \in Parents[o.table] : o.refs[t] <= seq[t]
  /\ o.table \in LinkTables => ~o.unscoped
  /\ q' = [q EXCEPT ![p] = o]
  /\ Goto(p, "lookup")
  /\ UNCHANGED <<dbVars, now, found, expire, todo>>

(* get_opt: an entity out of scope is left alone; one in scope is updated   *)
(* when the request sets a column to something else.                        *)
Lookup(p) ==
  /\ pc[p] = "lookup"
  /\ LET o == q[p] IN
     \/ /\ \A r \in rows : ~Matches(r, o)
        /\ Goto(p, "insert")
        /\ UNCHANGED <<q, found, expire, todo>>
     \/ \E r \in rows :
          /\ Matches(r, o)
          /\ IF r.unscoped THEN Done(p)                            \* None
             ELSE IF o.table \in UpsertTables /\ o.attr \notin {Null, r.attr}
             THEN /\ Goto(p, "update")
                  /\ found' = [found EXCEPT ![p] = r.id]
                  /\ UNCHANGED <<q, expire, todo>>
             ELSE ThenTtl(p, r.id, "bump")                      \* NoChange
  /\ UNCHANGED <<dbVars, now>>

(* INSERT: fails on a duplicate and on a parent that is gone; the id is     *)
(* AUTOINCREMENT.                                                           *)
InsertRowWith(p, id, clash) ==
  LET o == q[p] IN
  \/ /\ clash \/ (\E t \in Parents[o.table] : ~Has(t, o.refs[t]))
     /\ Done(p)                                                \* Err
     /\ UNCHANGED <<dbVars, now>>
  \/ /\ ~clash
     /\ \A t \in Parents[o.table] : Has(t, o.refs[t])
     /\ seq[o.table] < MaxId
     /\ rows' = rows \cup {[table |-> o.table, id |-> id, key |-> o.key,
                            refs |-> o.refs, attr |-> o.attr, unscoped |-> o.unscoped,
                            temp |-> o.ttl # NoTtl]}
     /\ seq' = [seq EXCEPT ![o.table] = id]
     /\ Goto(p, "getid")
     /\ UNCHANGED <<ttls, now, q, found, expire, todo>>

Clash(p) == \E r \in rows : Clashes(r, q[p])
FreeId(t) == CHOOSE i \in Ids : ~Has(t, i) /\ \A j \in Ids : j < i => Has(t, j)
MutInsertReusesId(p) == pc[p] = "insert" /\ InsertRowWith(p, FreeId(q[p].table), Clash(p))
MutInsertNotUnique(p) == pc[p] = "insert" /\ InsertRowWith(p, seq[q[p].table] + 1, FALSE)
InsertRow(p) == pc[p] = "insert" /\ InsertRowWith(p, seq[q[p].table] + 1, Clash(p))

(* get_id: the id is read back by value.                                    *)
GetId(p) ==
  /\ pc[p] = "getid"
  /\ \/ /\ \A r \in rows : ~Matches(r, q[p])
        /\ Done(p)                                             \* Err
     \/ \E r \in rows :
          /\ Matches(r, q[p])
          /\ ThenTtl(p, r.id, "create")                        \* Inserted
  /\ UNCHANGED <<dbVars, now>>

TtlOf(t, i) == {x \in ttls : x.table = t /\ x.id = i}

(* Ttl::create: a failure (a link whose ends are gone has no value, the     *)
(* entity has a ttl row already) is only logged.                            *)
CreateTtlAt(p, date) ==
  /\ LET o == q[p]
         fails == \/ TtlOf(o.table, found[p]) # {}
                  \/ o.table \in LinkTables /\ \E t \in Parents[o.table] : ~Has(t, o.refs[t])
     IN  ttls' = IF fails THEN ttls
                 ELSE ttls \cup {[table |-> o.table, id |-> found[p], value |-> o.key,
                                  expire |-> date]}
  /\ Done(p)
  /\ UNCHANGED <<rows, seq, now>>

CreateTtl(p) == pc[p] = "create" /\ CreateTtlAt(p, now + q[p].ttl)

SetAttr(t, i, v) ==
  {IF r.table = t /\ r.id = i THEN [r EXCEPT !.attr = v] ELSE r : r \in rows}

(* Setting the password of a breached email may run into its constraint.    *)
Taken(t, i, v) ==
  t = "breach_emails" /\ \E a, b \in rows :
    a.table = t /\ a.id = i /\ b.table = t /\ b.id # i /\ b.refs = a.refs /\ b.attr = v

(* update.apply: by id; no row to update is no error.                       *)
UpdateRow(p) ==
  /\ pc[p] = "update"
  /\ LET o == q[p] IN
     IF Taken(o.table, found[p], o.attr)
     THEN Done(p) /\ UNCHANGED rows                             \* Err
     ELSE /\ rows' = SetAttr(o.table, found[p], o.attr)
          /\ ThenTtl(p, found[p], "bump")                       \* Updated
  /\ UNCHANGED <<seq, ttls, now>>

(* Ttl::bump: only an entity that has a ttl, and only from one of the dates *)
(* that are earlier than the new one.                                       *)
BumpWith(p, dates) ==
  /\ \/ TtlOf(q[p].table, found[p]) = {} /\ Done(p)
     \/ \E x \in TtlOf(q[p].table, found[p]) :
          IF x.expire \notin dates THEN Done(p)
          ELSE /\ Goto(p, "bumpset")
               /\ expire' = [expire EXCEPT ![p] = now + q[p].ttl]
               /\ UNCHANGED <<q, found, todo>>
  /\ UNCHANGED <<dbVars, now>>

MutBumpShortens(p) == pc[p] = "bump" /\ BumpWith(p, Nat \ (0 .. now + q[p].ttl))
Bump(p) == pc[p] = "bump" /\ BumpWith(p, 0 .. now + q[p].ttl - 1)

(* The code writes the ttl row by its own id.  Here (table, id), which is   *)
(* UNIQUE, names it: while one process is here, it takes two more to remove *)
(* the row and to give the entity a new one.                                *)
BumpSet(p) ==
  /\ pc[p] = "bumpset"
  /\ ttls' = {IF x.table = q[p].table /\ x.id = found[p]
              THEN [x EXCEPT !.expire = expire[p]] ELSE x : x \in ttls}
  /\ Done(p)
  /\ UNCHANGED <<rows, seq, now>>

(* db_update: by the id the script was given, whatever became of the row.   *)
(* A column that equals the one of the script's own copy is dropped         *)
(* (changeset), however old the copy is: then nothing is sent.              *)
DbUpdate(p, t, i, v) ==
  /\ pc[p] = "idle"
  /\ i <= seq[t]
  /\ ~Taken(t, i, v)
  /\ rows' = SetAttr(t, i, v)
  /\ UNCHANGED <<seq, ttls, now, locals>>

(* The delete, scope and noscope commands: one statement on the rows a      *)
(* filter selects.  Deleting leaves the ttl rows where they are.            *)
Delete(p, S) ==
  /\ pc[p] = "idle"
  /\ S # {}
  /\ rows' = rows \ Cascade(S)
  /\ UNCHANGED <<seq, ttls, now, locals>>

SetScope(p, S, un) ==
  /\ pc[p] = "idle"
  /\ S # {}
  /\ \A r \in S : r.unscoped # un
  /\ rows' = (rows \ S) \cup {[r EXCEPT !.unscoped = un] : r \in S}
  /\ UNCHANGED <<seq, ttls, now, locals>>

(* reap_expired: read the expired ttl rows, then for each one delete the    *)
(* entity by its id and the ttl row.                                        *)
ReapList(p) ==
  /\ pc[p] = "idle"
  /\ todo' = [todo EXCEPT ![p] = {x \in ttls : x.expire < now}]
  /\ todo'[p] # {}
  /\ Goto(p, "reap")
  /\ UNCHANGED <<dbVars, now, q, found, expire>>

Target(x) == {r \in rows : r.table = x.table /\ r.id = x.id}

(* Reaping: the entity x stands for, with all that belongs to it.           *)
ReapRow(p) ==
  /\ pc[p] = "reap"
  /\ \E x \in todo[p] :
       /\ rows' = rows \ Cascade(Target(x))
       /\ q' = [q EXCEPT ![p] = x]
  /\ Goto(p, "reapttl")
  /\ UNCHANGED <<seq, ttls, now, found, expire, todo>>

ReapTtl(p) ==
  /\ pc[p] = "reapttl"
  /\ ttls' = ttls \ TtlOf(q[p].table, q[p].id)
  /\ IF todo[p] = {q[p]} THEN Done(p)
     ELSE /\ Goto(p, "reap")
          /\ todo' = [todo EXCEPT ![p] = @ \ {q[p]}]
          /\ UNCHANGED <<q, found, expire>>
  /\ UNCHANGED <<rows, seq, now>>

(* A statement fails (the database is locked) or the process dies: what is  *)
(* left of the operation does not happen.                                   *)
Abandon(p) ==
  /\ Failures
  /\ pc[p] # "idle"
  /\ Done(p)
  /\ UNCHANGED <<dbVars, now>>

Tick == now < MaxTime /\ now' = now + 1 /\ UNCHANGED <<dbVars, locals>>

Requested(p) == \E t \in Tables : \E o \in Requests({t}) : Insert(p, o)

Statement(p) ==
  \/ Lookup(p) \/ InsertRow(p) \/ GetId(p) \/ CreateTtl(p)
  \/ UpdateRow(p) \/ Bump(p) \/ BumpSet(p)
  \/ \E t \in UpdateTables : \E i \in Ids, v \in Vals : DbUpdate(p, t, i, v)
  \/ \E t \in Tables \ LinkTables : \E S \in SUBSET {r \in rows : r.table = t} :
       Delete(p, S) \/ \E un \in BOOLEAN : SetScope(p, S, un)
  \/ ReapList(p) \/ ReapRow(p) \/ ReapTtl(p)
  \/ Abandon(p)

Next == Tick \/ \E p \in Procs : Requested(p) \/ Statement(p)

Spec == Init /\ [][Next]_vars

-----------------------------------------------------------------------------
(* Properties.                                                              *)

Labels == {"idle", "lookup", "insert", "getid", "create", "update", "bump",
           "bumpset", "reap", "reapttl"}

TypeOK ==
  /\ rows \subseteq Rows(Tables)
  /\ seq \in [Tables -> 0 .. MaxId]
  /\ ttls \subseteq TtlRows
  /\ now \in Nat
  /\ pc \in [Procs -> Labels]
  /\ q \in [Procs -> Requests(Tables) \cup TtlRows \cup {NoRequest}]
  /\ found \in [Procs -> 0 .. MaxId]
  /\ expire \in [Procs -> Nat]
  /\ todo \in [Procs -> SUBSET TtlRows]

(* An entity is in the database once, although every process first looks    *)
(* and then inserts, and an id names one row.                               *)
KeysUnique ==
  \A r, s \in rows : Clashes(r, s) \/ (r.table = s.table /\ r.id = s.id) => r = s

(* Nothing refers to a row that is gone: deletes and reaps cascade, and an  *)
(* insert below a parent that disappeared meanwhile fails.                  *)
ReferentialIntegrity ==
  \A r \in rows : \A t \in Parents[r.table] : Has(t, r.refs[t])

(* A ttl row has no foreign key and survives `delete`; the entity it will   *)
(* take away is still never another one than it was made for.               *)
TtlNamesItsEntity == \A x \in ttls : \A r \in Target(x) : r.key = x.value

(* An entity that db_add put there never gets an expiry date.               *)
OnlyTemporaryExpires == \A x \in ttls : \A r \in Target(x) : r.temp

(* The ttl row that p, having ended its db_add_ttl, leaves to its entity.   *)
Left(p) == {y \in ttls' : y.table = q[p].table /\ y.id = found[p]}
AddEnds(p) == CreateTtl(p) \/ BumpSet(p) \/ (Bump(p) /\ pc'[p] = "idle")
Asked(p) == IF pc[p] = "bumpset" THEN expire[p] ELSE now + q[p].ttl

(* A temporary entity lives as long as the last db_add_ttl that ended asked:*)
(* its ttl row, if it has one, then names no earlier date, and reaping      *)
(* deletes it only after the date it has by then, or with an entity it      *)
(* belongs to.                                                              *)
TtlHonoured ==
  [][/\ \A p \in Procs : AddEnds(p) =>
          \A y \in Left(p) : y.expire >= Asked(p)
     /\ \A p \in Procs : pc[p] = "reap" /\ pc'[p] # "reap" =>
          \A r \in rows \ rows' :
            \E x \in ttls : x.expire < now /\ r \in Cascade(Target(x))]_vars

(* docs/database.rst:53-55: when the entity exists and is temporary, the    *)
(* new ttl replaces the old one.                                            *)
TtlReplaced ==
  [][\A p \in Procs : AddEnds(p) =>
       \A y \in Left(p) : y.expire = Asked(p)]_vars
=============================================================================
