-------------------------------- MODULE Add ---------------------------------
(***************************************************************************)
(* The add command, cmd/add_cmd.rs, on top of Database.  An entity that    *)
(* belongs to others (the url to its subdomain, the subdomain to its       *)
(* domain, the port to its address) is added after them, each with         *)
(* insert_struct, and below the id that was found for the one before.      *)
(* Images, which come with a blob, are in Storage.  What the user typed is *)
(* checked before anything is written and is valid here.                   *)
(***************************************************************************)
EXTENDS Database, Sequences

CONSTANTS
  Root,    \* the name of what an entity belongs to, for each name
  Groups   \* bound: what a behaviour uses, [tables, chains, keys, ttls]: tables
           \* scripts insert into, what add is used for, names, and ttls

ASSUME AddAssumption ==
  /\ Root \in [Keys -> Keys]
  /\ \A g \in Groups : g.tables \subseteq Tables /\ g.keys \subseteq Keys
  /\ \A g \in Groups : \A c \in g.chains : \A i \in DOMAIN c : c[i] \in Tables

VARIABLES
  adding,  \* the add command of each process
  group    \* the group of this behaviour

addVars == <<adding, group>>

NoAdd == [todo |-> <<>>]

(* into_insert of each entity: what is added, in this order.                *)
AddDomain      == <<"domains">>
AddSubdomain   == <<"domains", "subdomains">>
AddIpAddr      == <<"ipaddrs">>
AddUrl         == <<"domains", "subdomains", "urls">>
AddEmail       == <<"emails">>
AddPhoneNumber == <<"phonenumbers">>
AddDevice      == <<"devices">>
AddNetwork     == <<"networks">>
AddAccount     == <<"accounts">>
AddBreach      == <<"breaches">>
AddNetblock    == <<"netblocks">>
AddPort        == <<"ipaddrs", "ports">>
AddCryptoAddr  == <<"cryptoaddrs">>

Chains == {AddDomain, AddSubdomain, AddIpAddr, AddUrl, AddEmail, AddPhoneNumber, AddDevice,
           AddNetwork, AddAccount, AddBreach, AddNetblock, AddPort, AddCryptoAddr}

(* The names along a chain, of three tables at most, that ends with k.      *)
Names(chain, k) ==
  LET up(n) == CASE n = 0 -> k [] n = 1 -> Root[k] [] n = 2 -> Root[Root[k]]
  IN  [i \in 1 .. Len(chain) |-> [table |-> chain[i], key |-> up(Len(chain) - i)]]

AddInit ==
  /\ Init
  /\ group \in Groups
  /\ adding = [p \in Procs |-> NoAdd]

(* Phone numbers, devices and networks can be added with a name or a place. *)
ColumnsOf(chain) ==
  LET t == chain[Len(chain)]
  IN  IF t \in {"phonenumbers", "devices", "networks"} THEN AttrsOf(t) ELSE {Null}

(* Args::run *)
AddCmd(p, chain, k, attr, dry) ==
  /\ pc[p] = "idle" /\ adding[p] = NoAdd
  /\ attr \in ColumnsOf(chain)
  /\ adding' = [adding EXCEPT ![p] =
       [todo |-> Names(chain, k), id |-> 0, attr |-> attr, dry |-> dry]]
  /\ UNCHANGED <<vars, group>>

Named(p) == Len(adding[p].todo) = 1
AddDone(p) == adding' = [adding EXCEPT ![p] = NoAdd]

(* insert_struct of what the entity belongs to, always in scope; for the    *)
(* entity itself insert_generic, which asks the autonoscope rules and which *)
(* --dry-run leaves out.                                                    *)
AddInsert(p, unscoped) ==
  /\ adding[p] # NoAdd /\ pc[p] = "idle"
  /\ LET a == adding[p]
         x == Head(a.todo)
     IN  /\ unscoped => Named(p)
         /\ IF Named(p) /\ a.dry THEN AddDone(p) /\ UNCHANGED vars
            ELSE /\ Insert(p, [table |-> x.table, key |-> x.key,
                               refs |-> [t \in Parents[x.table] |-> a.id],
                               attr |-> IF Named(p) THEN a.attr ELSE Null,
                               unscoped |-> unscoped, ttl |-> NoTtl])
                 /\ UNCHANGED adding
  /\ UNCHANGED group

(* The id insert_struct returns when the statement that runs now ends it;   *)
(* none when it fails, or when the entity is out of scope and add bails.    *)
Answers(p) ==
  CASE pc[p] = "lookup" -> {r.id : r \in {x \in rows : Matches(x, q[p]) /\ ~x.unscoped}}
    [] pc[p] = "getid"  -> {r.id : r \in {x \in rows : Matches(x, q[p])}}
    [] pc[p] = "update" -> {found[p]}
    [] OTHER            -> {}

AddStep(p) ==
  /\ adding[p] # NoAdd
  /\ Lookup(p) \/ InsertRow(p) \/ GetId(p) \/ UpdateRow(p)
  /\ IF pc'[p] # "idle" THEN UNCHANGED adding
     ELSE IF Answers(p) = {} \/ Named(p) THEN AddDone(p)
     ELSE \E id \in Answers(p) :
            adding' = [adding EXCEPT ![p].todo = Tail(@), ![p].id = id]
  /\ UNCHANGED group

(* A statement fails or the process dies: what was added before stays.  A   *)
(* statement that only reads fails like one that was not reached.           *)
AddFails(p) ==
  /\ adding[p] # NoAdd /\ pc[p] = "idle"
  /\ AddDone(p)
  /\ UNCHANGED <<vars, group>>

(* Scripts and the other commands.  Scripts insert links with any ids, and  *)
(* entities that belong to nothing.                                         *)
OtherwiseStep(p) ==
  /\ adding[p] = NoAdd
  /\ \/ \E t \in group.tables : \E o \in Requests({t}) :
          /\ t \in LinkTables \/ Parents[t] = {}
          /\ o.key \in group.keys \cup {LinkKey} /\ o.ttl \in group.ttls
          /\ Insert(p, o)
     \/ Statement(p)
  /\ UNCHANGED addVars

(* The clock plays no part: what the user adds does not expire.             *)
AddNext ==
  \E p \in Procs :
    \/ \E chain \in Chains \cap group.chains, k \in group.keys, attr \in Vals \cup {Null}, dry \in BOOLEAN :
         AddCmd(p, chain, k, attr, dry)
    \/ \E unscoped \in BOOLEAN : AddInsert(p, unscoped)
    \/ AddStep(p) \/ AddFails(p) \/ OtherwiseStep(p)

AddSpec == AddInit /\ [][AddNext]_<<vars, addVars>>

-----------------------------------------------------------------------------
(* An entity that add has put below another one is below the one its name   *)
(* says, although the id was read statements before and other processes may *)
(* have deleted that entity, added it again or added others since.          *)
BelowItsName ==
  \A r \in rows : r.table \notin LinkTables =>
    \A t \in Parents[r.table] : \A x \in rows :
      x.table = t /\ x.id = r.refs[t] => x.key = Root[r.key]
=============================================================================
