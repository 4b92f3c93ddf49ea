--------------------------- MODULE DatabaseProofs ---------------------------
(***************************************************************************)
(* Proofs about the workspace database (Database) and the operations on    *)
(* top of it, images with their blobs and fsck (Storage) and the add       *)
(* command (Add), for any number of processes, tables of the schema,       *)
(* names, ids and expiry dates.                                            *)
(***************************************************************************)
EXTENDS Storage, Add, SequenceTheorems, TLAPS

-----------------------------------------------------------------------------
(* The schema.                                                              *)

(* What each table refers to.                                               *)
LEMMA ParentsAre ==
  \A t \in DOMAIN Schema :
    /\ t = "subdomains" => Parents[t] = {"domains"}
    /\ t = "subdomain_ipaddrs" => Parents[t] = {"subdomains", "ipaddrs"}
    /\ t = "urls" => Parents[t] = {"subdomains"}
    /\ t = "network_devices" => Parents[t] = {"networks", "devices"}
    /\ t = "breach_emails" => Parents[t] = {"breaches", "emails"}
    /\ t = "ports" => Parents[t] = {"ipaddrs"}
    /\ t \notin {"subdomains", "subdomain_ipaddrs", "urls", "network_devices", "breach_emails", "ports"}
         => Parents[t] = {}
<1>1. DOMAIN Schema = {"domains", "subdomains", "ipaddrs", "subdomain_ipaddrs", "urls", "emails", "phonenumbers", "devices",
                      "networks", "network_devices", "accounts", "breaches", "breach_emails", "images", "ports", "netblocks", "cryptoaddrs"}
  BY DEF Schema
<1>2. ASSUME NEW t \in DOMAIN Schema PROVE Parents[t] = Schema[t].parents
  BY DEF Parents
<1>3. /\ Schema.subdomains.parents = {"domains"}
      /\ Schema.subdomain_ipaddrs.parents = {"subdomains", "ipaddrs"}
      /\ Schema.urls.parents = {"subdomains"}
      /\ Schema.network_devices.parents = {"networks", "devices"}
      /\ Schema.breach_emails.parents = {"breaches", "emails"}
      /\ Schema.ports.parents = {"ipaddrs"}
  BY DEF Schema, Entity, Link, Domain, Subdomain, IpAddr, SubdomainIpAddr, Url, Email,
         PhoneNumber, Device, Network, NetworkDevice, Account, Breach, BreachEmail, Image, Port,
         Netblock, CryptoAddr
<1>4. /\ Schema.domains.parents = {}
      /\ Schema.ipaddrs.parents = {}
      /\ Schema.emails.parents = {}
      /\ Schema.phonenumbers.parents = {}
      /\ Schema.devices.parents = {}
      /\ Schema.networks.parents = {}
      /\ Schema.accounts.parents = {}
      /\ Schema.breaches.parents = {}
      /\ Schema.images.parents = {}
      /\ Schema.netblocks.parents = {}
      /\ Schema.cryptoaddrs.parents = {}
  BY DEF Schema, Entity, Link, Domain, Subdomain, IpAddr, SubdomainIpAddr, Url, Email,
         PhoneNumber, Device, Network, NetworkDevice, Account, Breach, BreachEmail, Image, Port,
         Netblock, CryptoAddr
<1> QED
  BY <1>1, <1>2, <1>3, <1>4

(* A chain of foreign keys has at most three tables: what refers to a row   *)
(* that refers to a row that refers to another is referred to by nothing.   *)
LEMMA ChainsAreShort ==
  ASSUME NEW t \in DOMAIN Schema, NEW u \in DOMAIN Schema, NEW v \in DOMAIN Schema,
         NEW w \in DOMAIN Schema, t \in Parents[u], u \in Parents[v], v \in Parents[w]
  PROVE  FALSE
BY ParentsAre

-----------------------------------------------------------------------------
(* Rows and requests.                                                       *)

(* The columns of a row.                                                    *)
LEMMA RowFields ==
  ASSUME NEW r \in Rows(Tables)
  PROVE  /\ r.table \in Tables /\ r.id \in Ids /\ r.key \in KeysOf(r.table)
         /\ r.refs \in Refs(r.table) /\ r.attr \in AttrsOf(r.table)
         /\ r.unscoped \in BOOLEAN /\ r.temp \in BOOLEAN
         /\ r = [table |-> r.table, id |-> r.id, key |-> r.key, refs |-> r.refs,
                 attr |-> r.attr, unscoped |-> r.unscoped, temp |-> r.temp]
<1>1. PICK t \in Tables : r \in [table : {t}, id : Ids, key : KeysOf(t), refs : Refs(t),
                                 attr : AttrsOf(t), unscoped : BOOLEAN, temp : BOOLEAN]
  BY DEF Rows
<1> QED
  BY <1>1

(* A row with columns of the right types is a row of its table.             *)
LEMMA RowMade ==
  ASSUME NEW t \in Tables, NEW i \in Ids, NEW k \in KeysOf(t), NEW f \in Refs(t),
         NEW a \in AttrsOf(t), NEW u \in BOOLEAN, NEW m \in BOOLEAN
  PROVE  [table |-> t, id |-> i, key |-> k, refs |-> f, attr |-> a, unscoped |-> u, temp |-> m]
           \in Rows(Tables)
BY DEF Rows

(* Changing a column leaves the others as they are.                         *)
LEMMA RowChanged ==
  ASSUME NEW r \in Rows(Tables)
  PROVE  /\ \A a \in AttrsOf(r.table) : LET n == [r EXCEPT !.attr = a] IN
              /\ n \in Rows(Tables)
              /\ n.table = r.table /\ n.id = r.id /\ n.key = r.key /\ n.refs = r.refs
              /\ n.attr = a /\ n.unscoped = r.unscoped /\ n.temp = r.temp
         /\ \A u \in BOOLEAN : LET n == [r EXCEPT !.unscoped = u] IN
              /\ n \in Rows(Tables)
              /\ n.table = r.table /\ n.id = r.id /\ n.key = r.key /\ n.refs = r.refs
              /\ n.attr = r.attr /\ n.unscoped = u /\ n.temp = r.temp
<1>1. PICK t \in Tables : r \in [table : {t}, id : Ids, key : KeysOf(t), refs : Refs(t),
                                 attr : AttrsOf(t), unscoped : BOOLEAN, temp : BOOLEAN]
  BY DEF Rows
<1>2. ASSUME NEW a \in AttrsOf(r.table)
      PROVE  LET n == [r EXCEPT !.attr = a] IN
              /\ n \in Rows(Tables)
              /\ n.table = r.table /\ n.id = r.id /\ n.key = r.key /\ n.refs = r.refs
              /\ n.attr = a /\ n.unscoped = r.unscoped /\ n.temp = r.temp
  BY <1>1 DEF Rows
<1>3. ASSUME NEW u \in BOOLEAN
      PROVE  LET n == [r EXCEPT !.unscoped = u] IN
              /\ n \in Rows(Tables)
              /\ n.table = r.table /\ n.id = r.id /\ n.key = r.key /\ n.refs = r.refs
              /\ n.attr = r.attr /\ n.unscoped = u /\ n.temp = r.temp
  BY <1>1 DEF Rows
<1> QED
  BY <1>2, <1>3

(* The fields of a request.                                                 *)
LEMMA RequestFields ==
  ASSUME NEW o \in Requests(Tables)
  PROVE  /\ o.table \in Tables /\ o.key \in KeysOf(o.table)
         /\ o.refs \in Refs(o.table) /\ o.attr \in AttrsOf(o.table)
         /\ o.unscoped \in BOOLEAN /\ o.ttl \in Nat
<1>1. PICK t \in Tables : o \in [table : {t}, key : KeysOf(t), refs : Refs(t), attr : AttrsOf(t),
                                 unscoped : BOOLEAN, ttl : Ttls \cup {NoTtl}]
  BY DEF Requests
<1>2. Ttls \cup {NoTtl} \subseteq Nat
  BY DatabaseAssumption DEF NoTtl
<1> QED
  BY <1>1, <1>2

(* Values of the value column.                                              *)
LEMMA KeysAre == \A t \in Tables : KeysOf(t) \subseteq Keys \cup {LinkKey}
BY DEF KeysOf

-----------------------------------------------------------------------------
(* What a statement can do to the rows and to sqlite_sequence.              *)

RowsOK == rows \subseteq Rows(Tables) /\ seq \in [Tables -> 0 .. MaxId]

(* An id that was never given out names no row.                             *)
IdInv == \A r \in rows : r.id <= seq[r.table]

AddRow(r) ==
  /\ r \in Rows(Tables) /\ r.id = seq[r.table] + 1
  /\ \A x \in rows : ~Clashes(x, r)
  /\ \A t \in Parents[r.table] : Has(t, r.refs[t])
  /\ rows' = rows \cup {r}
  /\ seq' = [seq EXCEPT ![r.table] = r.id]
ChangeAttr(t, i, v) ==
  /\ v \in AttrsOf(t)
  /\ ~Taken(t, i, v)
  /\ rows' = SetAttr(t, i, v)
  /\ UNCHANGED seq
ChangeScope(S, un) ==
  /\ rows' = (rows \ S) \cup {[r EXCEPT !.unscoped = un] : r \in S}
  /\ UNCHANGED seq
DeleteRows(S) == rows' = rows \ Cascade(S) /\ UNCHANGED seq

RowsMove ==
  \/ UNCHANGED <<rows, seq>>
  \/ \E r \in Rows(Tables) : AddRow(r)
  \/ \E t \in Tables, i \in Ids : \E v \in AttrsOf(t) : ChangeAttr(t, i, v)
  \/ \E S \in SUBSET rows, un \in BOOLEAN : ChangeScope(S, un)
  \/ \E S \in SUBSET rows : DeleteRows(S)

(* The columns no statement changes.                                        *)
Same(x, y) == x.table = y.table /\ x.id = y.id /\ x.key = y.key /\ x.refs = y.refs /\ x.temp = y.temp

(* Setting a column.                                                        *)
LEMMA AttrChanged ==
  ASSUME RowsOK, NEW t \in Tables, NEW i \in Ids, NEW v \in AttrsOf(t), ChangeAttr(t, i, v)
  PROVE  /\ \A y \in rows' : \E x \in rows :
              /\ y = IF x.table = t /\ x.id = i THEN [x EXCEPT !.attr = v] ELSE x
              /\ Same(x, y) /\ y \in Rows(Tables)
              /\ y.attr = IF x.table = t /\ x.id = i THEN v ELSE x.attr
         /\ \A x \in rows : \E y \in rows' : Same(x, y)
<1>1. ASSUME NEW x \in rows
      PROVE  LET y == IF x.table = t /\ x.id = i THEN [x EXCEPT !.attr = v] ELSE x
             IN  /\ Same(x, y) /\ y \in Rows(Tables)
                 /\ y.attr = IF x.table = t /\ x.id = i THEN v ELSE x.attr
  BY RowChanged DEF RowsOK, Same
<1> QED
  BY <1>1 DEF ChangeAttr, SetAttr

(* Moving rows in or out of scope.                                          *)
LEMMA ScopeChanged ==
  ASSUME RowsOK, NEW S \in SUBSET rows, NEW un \in BOOLEAN, ChangeScope(S, un)
  PROVE  /\ \A y \in rows' : \E x \in rows :
              /\ y = IF x \in S THEN [x EXCEPT !.unscoped = un] ELSE x
              /\ Same(x, y) /\ y \in Rows(Tables) /\ y.attr = x.attr
         /\ \A x \in rows : \E y \in rows' : Same(x, y)
<1> DEFINE moved(x) == IF x \in S THEN [x EXCEPT !.unscoped = un] ELSE x
<1>1. \A x \in rows : Same(x, moved(x)) /\ moved(x) \in Rows(Tables) /\ moved(x).attr = x.attr
  BY RowChanged DEF RowsOK, Same
<1>2. \A y \in rows' : \E x \in rows : y = moved(x)
  BY DEF ChangeScope
<1>3. \A x \in rows : moved(x) \in rows'
  BY DEF ChangeScope
<1>4. /\ \A y \in rows' : \E x \in rows :
           y = moved(x) /\ Same(x, y) /\ y \in Rows(Tables) /\ y.attr = x.attr
      /\ \A x \in rows : \E y \in rows' : Same(x, y)
  <2> HIDE DEF moved
  <2> QED
    BY <1>1, <1>2, <1>3
<1> QED
  BY <1>4

(* After any statement a row is a new one with a new id, or one that was    *)
(* there.                                                                   *)
LEMMA RowsCome ==
  ASSUME RowsOK, IdInv, RowsMove
  PROVE  /\ RowsOK' /\ IdInv'
         /\ \A t \in Tables : seq'[t] >= seq[t]
         /\ \A y \in rows' : (\E x \in rows : Same(x, y)) \/ y.id > seq[y.table]
<1>0. \A r \in Rows(Tables) : r.table \in Tables /\ r.id \in Nat /\ r.id <= MaxId
  BY RowFields, DatabaseAssumption DEF Ids
<1>a. \A t \in Tables : seq[t] \in Nat
  BY DatabaseAssumption DEF RowsOK
<1>1. CASE UNCHANGED <<rows, seq>>
  BY <1>0, <1>1, <1>a DEF RowsOK, IdInv, Same
<1>2. ASSUME NEW r \in Rows(Tables), AddRow(r)
      PROVE  /\ RowsOK' /\ IdInv'
             /\ \A t \in Tables : seq'[t] >= seq[t]
             /\ \A y \in rows' : (\E x \in rows : Same(x, y)) \/ y.id > seq[y.table]
  <2>1. seq' \in [Tables -> 0 .. MaxId] /\ rows' \subseteq Rows(Tables)
    BY <1>0, <1>2, DatabaseAssumption DEF AddRow, RowsOK
  <2>2. \A t \in Tables : seq'[t] >= seq[t] /\ seq'[r.table] = r.id
    BY <1>0, <1>2, <1>a DEF AddRow, RowsOK
  <2>3. \A y \in rows' : y \in rows \/ y = r
    BY <1>2 DEF AddRow
  <2>4. r.id > seq[r.table]
    BY <1>0, <1>2, <1>a DEF AddRow
  <2>5. IdInv'
    <3> SUFFICES ASSUME NEW y \in rows' PROVE y.id <= seq'[y.table]
      BY DEF IdInv
    <3>1. CASE y = r
      BY <1>0, <2>2, <3>1
    <3>2. CASE y \in rows
      <4>1. y.table \in Tables /\ y.id \in Nat /\ y.id <= seq[y.table]
        BY <1>0, <3>2 DEF RowsOK, IdInv
      <4>2. seq'[y.table] \in Nat /\ seq'[y.table] >= seq[y.table]
        BY <2>1, <2>2, <4>1, DatabaseAssumption
      <4> QED
        BY <1>a, <4>1, <4>2
    <3> QED
      BY <2>3, <3>1, <3>2
  <2> QED
    BY <2>1, <2>2, <2>3, <2>4, <2>5 DEF RowsOK, Same
<1>3. ASSUME UNCHANGED seq, \A y \in rows' : y \in Rows(Tables) /\ \E x \in rows : Same(x, y)
      PROVE  /\ RowsOK' /\ IdInv'
             /\ \A t \in Tables : seq'[t] >= seq[t]
             /\ \A y \in rows' : (\E x \in rows : Same(x, y)) \/ y.id > seq[y.table]
  BY <1>a, <1>3 DEF RowsOK, IdInv, Same
<1>4. ASSUME NEW t \in Tables, NEW i \in Ids, NEW v \in AttrsOf(t), ChangeAttr(t, i, v)
      PROVE  UNCHANGED seq /\ \A y \in rows' : y \in Rows(Tables) /\ \E x \in rows : Same(x, y)
  BY <1>4, AttrChanged DEF ChangeAttr
<1>5. ASSUME NEW S \in SUBSET rows, NEW un \in BOOLEAN, ChangeScope(S, un)
      PROVE  UNCHANGED seq /\ \A y \in rows' : y \in Rows(Tables) /\ \E x \in rows : Same(x, y)
  BY <1>5, ScopeChanged DEF ChangeScope
<1>6. ASSUME NEW S \in SUBSET rows, DeleteRows(S)
      PROVE  UNCHANGED seq /\ \A y \in rows' : y \in Rows(Tables) /\ \E x \in rows : Same(x, y)
  BY <1>6 DEF DeleteRows, RowsOK, Same
<1> QED
  BY <1>1, <1>2, <1>3, <1>4, <1>5, <1>6 DEF RowsMove

(* What a name says of an id stays true, since ids are not given out again: *)
(* this is what a script or a ttl row relies on that remembers an id.       *)
LEMMA NamesStay ==
  ASSUME RowsOK, IdInv, RowsMove, NEW t \in Tables, NEW i \in Nat, i <= seq[t], NEW k,
         \A r \in rows : r.table = t /\ r.id = i => r.key = k
  PROVE  i <= seq'[t] /\ \A r \in rows' : r.table = t /\ r.id = i => r.key = k
<1>1. /\ RowsOK' /\ seq'[t] >= seq[t]
      /\ \A y \in rows' : (\E x \in rows : Same(x, y)) \/ y.id > seq[y.table]
  BY RowsCome
<1>2. seq[t] \in Nat /\ seq'[t] \in Nat
  BY <1>1, DatabaseAssumption DEF RowsOK
<1> QED
  BY <1>1, <1>2 DEF Same

-----------------------------------------------------------------------------
(* Entities are unique and nothing refers to a row that is gone.            *)

(* Whether two rows clash depends on columns that are not changed, and for  *)
(* breached emails on the password.                                         *)
LEMMA SameClash ==
  ASSUME NEW x, NEW y, NEW r, NEW s, Same(x, r), Same(y, s), Clashes(r, s),
         r.table = "breach_emails" => x.attr = r.attr /\ y.attr = s.attr
  PROVE  Clashes(x, y)
BY DEF Same, Clashes

(* No statement stores an entity twice: the constraint of the table refuses *)
(* the insert or the update, and an id is not given out twice.              *)
LEMMA UniqueStays ==
  ASSUME RowsOK, IdInv, RowsMove, KeysUnique
  PROVE  KeysUnique'
<1> SUFFICES ASSUME NEW r \in rows', NEW s \in rows',
                    Clashes(r, s) \/ (r.table = s.table /\ r.id = s.id)
             PROVE  r = s
  BY DEF KeysUnique, Clashes
<1>0. \A x \in Rows(Tables) : x.table \in Tables /\ x.id \in Nat
  BY RowFields, DatabaseAssumption DEF Ids
<1>a. \A t \in Tables : seq[t] \in Nat
  BY DatabaseAssumption DEF RowsOK
<1>b. \A x, y \in rows : x.table = y.table /\ x.id = y.id => x = y
  BY DEF KeysUnique
<1>c. \A x, y \in rows : Clashes(x, y) => x = y
  BY DEF KeysUnique
<1>1. CASE UNCHANGED <<rows, seq>>
  BY <1>1, <1>b, <1>c
<1>2. ASSUME NEW n \in Rows(Tables), AddRow(n) PROVE r = s
  <2>1. \A x \in rows' : x \in rows \/ x = n
    BY <1>2 DEF AddRow
  <2>2. \A x \in rows : ~Clashes(x, n) /\ ~Clashes(n, x)
    BY <1>2 DEF AddRow, Clashes
  <2>3. \A x \in rows : x.table = n.table => x.id # n.id
    BY <1>0, <1>2, <1>a DEF AddRow, RowsOK, IdInv
  <2> QED
    BY <1>b, <1>c, <2>1, <2>2, <2>3
<1>3. ASSUME NEW t \in Tables, NEW i \in Ids, NEW v \in AttrsOf(t), ChangeAttr(t, i, v) PROVE r = s
  <2> DEFINE set(x) == IF x.table = t /\ x.id = i THEN [x EXCEPT !.attr = v] ELSE x
             new(x) == IF x.table = t /\ x.id = i THEN v ELSE x.attr
  <2>1. PICK x \in rows : r = set(x) /\ Same(x, r) /\ r.attr = new(x)
    BY <1>3, AttrChanged
  <2>2. PICK y \in rows : s = set(y) /\ Same(y, s) /\ s.attr = new(y)
    BY <1>3, AttrChanged
  <2>3. SUFFICES x = y
    BY <2>1, <2>2
  <2>4. CASE r.table = s.table /\ r.id = s.id
    BY <1>b, <2>1, <2>2, <2>4 DEF Same
  <2> HIDE DEF set
  <2>5. CASE Clashes(r, s) /\ (r.table = "breach_emails" => x.attr = r.attr /\ y.attr = s.attr)
    BY <1>c, <2>1, <2>2, <2>5, SameClash
  <2>6. CASE r.table = "breach_emails" /\ Clashes(r, s) /\ (x.attr # r.attr \/ y.attr # s.attr)
    <3>1. /\ t = "breach_emails" /\ x.table = t /\ y.table = t /\ x.refs = y.refs
          /\ r.attr = s.attr
      <4>1. t \in LinkTables \/ t # "breach_emails"
        BY DatabaseAssumption DEF LinkTables, Schema, BreachEmail, Link
      <4> QED
        BY <2>1, <2>2, <2>6, <4>1 DEF Clashes, Same
    <3>2. ~\E a, b \in rows :
             a.table = t /\ a.id = i /\ b.table = t /\ b.id # i /\ b.refs = a.refs /\ b.attr = v
      BY <1>3, <3>1 DEF ChangeAttr, Taken
    <3>3. CASE x.id = i /\ y.id = i
      BY <1>b, <3>1, <3>3
    <3>4. CASE x.id = i /\ y.id # i
      <4>1. y.attr = v
        BY <2>1, <2>2, <3>1, <3>4
      <4> QED
        BY <3>1, <3>2, <3>4, <4>1
    <3>5. CASE x.id # i /\ y.id = i
      <4>1. x.attr = v
        BY <2>1, <2>2, <3>1, <3>5
      <4> QED
        BY <3>1, <3>2, <3>5, <4>1
    <3>6. CASE x.id # i /\ y.id # i
      BY <2>1, <2>2, <2>6, <3>6
    <3> QED
      BY <3>3, <3>4, <3>5, <3>6
  <2> QED
    BY <2>4, <2>5, <2>6
<1>4. ASSUME NEW S \in SUBSET rows, NEW un \in BOOLEAN, ChangeScope(S, un) PROVE r = s
  <2> DEFINE moved(x) == IF x \in S THEN [x EXCEPT !.unscoped = un] ELSE x
  <2>0. \A z \in rows' : \E w \in rows : z = moved(w) /\ Same(w, z) /\ z.attr = w.attr
    BY <1>4, ScopeChanged
  <2>1. PICK x \in rows : r = moved(x) /\ Same(x, r) /\ r.attr = x.attr
    BY <2>0
  <2>2. PICK y \in rows : s = moved(y) /\ Same(y, s) /\ s.attr = y.attr
    BY <2>0
  <2>3. SUFFICES x = y
    BY <2>1, <2>2
  <2> HIDE DEF moved
  <2>4. CASE r.table = s.table /\ r.id = s.id
    BY <1>b, <2>1, <2>2, <2>4 DEF Same
  <2>5. CASE Clashes(r, s)
    BY <1>c, <2>1, <2>2, <2>5, SameClash
  <2> QED
    BY <2>4, <2>5
<1>5. ASSUME NEW S \in SUBSET rows, DeleteRows(S) PROVE r = s
  BY <1>5, <1>b, <1>c DEF DeleteRows
<1> QED
  BY <1>1, <1>2, <1>3, <1>4, <1>5 DEF RowsMove

(* Deleting two levels of children is enough for this schema.               *)
LEMMA CascadeIsClosed ==
  ASSUME RowsOK, NEW S \in SUBSET rows, NEW p \in Cascade(S), NEW r \in rows,
         p.table \in Parents[r.table], r.refs[p.table] = p.id
  PROVE  p \in rows /\ r \in Cascade(S)
<1> DEFINE one == S \cup Children(S)
<1>0. \A x \in rows : x.table \in DOMAIN Schema
  BY RowFields, DatabaseAssumption DEF RowsOK
<1>1. Cascade(S) = one \cup Children(one)
  BY DEF Cascade
<1>2. one \subseteq rows /\ p \in rows
  BY <1>1 DEF Children
<1>3. CASE p \in one
  BY <1>1, <1>3 DEF Children
<1>4. CASE p \in Children(one) \ one
  <2>1. PICK x \in one : x.table \in Parents[p.table] /\ p.refs[x.table] = x.id
    BY <1>4 DEF Children
  <2>2. x \in Children(S)
    BY <1>2, <1>4, <2>1 DEF Children
  <2>3. PICK y \in S : y.table \in Parents[x.table]
    BY <2>2 DEF Children
  <2>4. FALSE
    BY <1>0, <1>2, <2>1, <2>2, <2>3, ChainsAreShort
  <2> QED
    BY <2>4
<1> QED
  BY <1>1, <1>2, <1>3, <1>4

(* No statement leaves a reference behind that leads nowhere.               *)
LEMMA IntegrityStays ==
  ASSUME RowsOK, IdInv, RowsMove, ReferentialIntegrity
  PROVE  ReferentialIntegrity'
<1> SUFFICES ASSUME NEW r \in rows', NEW t \in Parents[r.table]
             PROVE  \E x \in rows' : x.table = t /\ x.id = r.refs[t]
  BY DEF ReferentialIntegrity, Has
<1>0. \A x \in rows : \A u \in Parents[x.table] : \E y \in rows : y.table = u /\ y.id = x.refs[u]
  BY DEF ReferentialIntegrity, Has
<1>1. CASE UNCHANGED <<rows, seq>>
  BY <1>0, <1>1
<1>2. ASSUME NEW n \in Rows(Tables), AddRow(n) PROVE \E x \in rows' : x.table = t /\ x.id = r.refs[t]
  BY <1>0, <1>2 DEF AddRow, Has
<1>3. ASSUME \A y \in rows' : \E x \in rows : Same(x, y), \A x \in rows : \E y \in rows' : Same(x, y)
      PROVE  \E x \in rows' : x.table = t /\ x.id = r.refs[t]
  <2>1. PICK x \in rows : Same(x, r)
    BY <1>3
  <2>2. PICK y \in rows : y.table = t /\ y.id = x.refs[t]
    BY <1>0, <2>1 DEF Same
  <2> QED
    BY <1>3, <2>1, <2>2 DEF Same
<1>4. ASSUME NEW u \in Tables, NEW i \in Ids, NEW v \in AttrsOf(u), ChangeAttr(u, i, v)
      PROVE  \E x \in rows' : x.table = t /\ x.id = r.refs[t]
  BY <1>3, <1>4, AttrChanged
<1>5. ASSUME NEW S \in SUBSET rows, NEW un \in BOOLEAN, ChangeScope(S, un)
      PROVE  \E x \in rows' : x.table = t /\ x.id = r.refs[t]
  BY <1>3, <1>5, ScopeChanged
<1>6. ASSUME NEW S \in SUBSET rows, DeleteRows(S)
      PROVE  \E x \in rows' : x.table = t /\ x.id = r.refs[t]
  <2>1. r \in rows /\ r \notin Cascade(S) /\ rows' = rows \ Cascade(S)
    BY <1>6 DEF DeleteRows
  <2>2. PICK y \in rows : y.table = t /\ y.id = r.refs[t]
    BY <1>0, <2>1
  <2>3. y \notin Cascade(S)
    BY <2>1, <2>2, CascadeIsClosed
  <2> QED
    BY <2>1, <2>2, <2>3
<1> QED
  BY <1>1, <1>2, <1>4, <1>5, <1>6 DEF RowsMove

-----------------------------------------------------------------------------
(* The inductive invariant.                                                 *)

LocalTypes ==
  /\ pc \in [Procs -> Labels]
  /\ q \in [Procs -> Requests(Tables) \cup TtlRows \cup {NoRequest}]
  /\ found \in [Procs -> 0 .. MaxId]
  /\ expire \in [Procs -> Nat]
  /\ todo \in [Procs -> SUBSET TtlRows]

(* An id that is remembered was given out, and names what it named.         *)
Remembered(t, i, k) ==
  i <= seq[t] /\ \A r \in rows : r.table = t /\ r.id = i => r.key = k

TtlInv == \A x \in ttls : Remembered(x.table, x.id, x.value)

Inserting == {"lookup", "insert", "getid", "create", "update", "bump", "bumpset"}

(* A process has read the id of an entity of the name it inserts.           *)
LocalInv(p) ==
  /\ pc[p] \in Inserting => q[p] \in Requests(Tables)
  /\ pc[p] = "reapttl" => q[p] \in TtlRows
  /\ pc[p] \in {"create", "update", "bump", "bumpset"} =>
       found[p] \in Ids /\ Remembered(q[p].table, found[p], q[p].key)

DatabaseInv ==
  /\ TypeOK /\ IdInv /\ KeysUnique /\ ReferentialIntegrity /\ TtlInv
  /\ \A p \in Procs : LocalInv(p)

(* A step of one process leaves the locals of the others alone, and adds    *)
(* only the ttl row it is about to create.                                  *)
Others(p) == \A i \in Procs : i # p => pc'[i] = pc[i] /\ q'[i] = q[i] /\ found'[i] = found[i]

TtlMove(p) ==
  \A y \in ttls' :
    /\ y \in TtlRows
    /\ \/ \E x \in ttls : x.table = y.table /\ x.id = y.id /\ x.value = y.value
       \/ pc[p] = "create" /\ y.table = q[p].table /\ y.id = found[p] /\ y.value = q[p].key

(* The empty database.                                                      *)
LEMMA DatabaseInit == Init => DatabaseInv
<1> SUFFICES ASSUME Init PROVE DatabaseInv
  OBVIOUS
<1>1. TypeOK
  BY DatabaseAssumption DEF Init, TypeOK, Labels
<1>2. IdInv /\ KeysUnique /\ ReferentialIntegrity /\ TtlInv
  BY DEF Init, IdInv, KeysUnique, ReferentialIntegrity, TtlInv
<1>3. \A p \in Procs : LocalInv(p)
  BY DEF Init, LocalInv, Inserting
<1> QED
  BY <1>1, <1>2, <1>3 DEF DatabaseInv

(* What is left to show for a step of process p.                            *)
LEMMA StepKeeps ==
  ASSUME DatabaseInv, NEW p \in Procs, RowsMove, TtlMove(p), LocalTypes', now' \in Nat,
         Others(p), LocalInv(p)'
  PROVE  DatabaseInv'
<1>0. RowsOK /\ IdInv /\ KeysUnique /\ ReferentialIntegrity
  BY DEF DatabaseInv, TypeOK, RowsOK
<1>1. RowsOK' /\ IdInv'
  BY <1>0, RowsCome
<1>2. KeysUnique' /\ ReferentialIntegrity'
  BY <1>0, UniqueStays, IntegrityStays
<1>3. ttls' \subseteq TtlRows
  BY DEF TtlMove
<1>4. TypeOK'
  BY <1>1, <1>3 DEF TypeOK, RowsOK, LocalTypes
<1>5. ASSUME NEW t \in Tables, NEW i \in Ids, NEW k, Remembered(t, i, k)
      PROVE  Remembered(t, i, k)'
  <2>1. i \in Nat /\ i <= seq[t] /\ \A r \in rows : r.table = t /\ r.id = i => r.key = k
    BY <1>5, DatabaseAssumption DEF Remembered, Ids
  <2> QED
    BY <1>0, <2>1, NamesStay DEF Remembered
<1>6. TtlInv'
  <2> SUFFICES ASSUME NEW y \in ttls' PROVE Remembered(y.table, y.id, y.value)'
    BY DEF TtlInv
  <2>1. y.table \in Tables /\ y.id \in Ids
    BY DEF TtlMove, TtlRows
  <2>2. Remembered(y.table, y.id, y.value)
    <3>1. CASE \E x \in ttls : x.table = y.table /\ x.id = y.id /\ x.value = y.value
      BY <3>1 DEF DatabaseInv, TtlInv
    <3>2. CASE pc[p] = "create" /\ y.table = q[p].table /\ y.id = found[p] /\ y.value = q[p].key
      BY <3>2 DEF DatabaseInv, LocalInv
    <3> QED
      BY <3>1, <3>2 DEF TtlMove
  <2> QED
    BY <1>5, <2>1, <2>2
<1>7. ASSUME NEW i \in Procs PROVE LocalInv(i)'
  <2>1. CASE i = p
    BY <2>1
  <2>2. CASE i # p
    <3>1. pc'[i] = pc[i] /\ q'[i] = q[i] /\ found'[i] = found[i] /\ LocalInv(i)
      BY <2>2 DEF Others, DatabaseInv
    <3>2. ASSUME pc[i] \in {"create", "update", "bump", "bumpset"}
          PROVE  Remembered(q[i].table, found[i], q[i].key)'
      <4>1. q[i].table \in Tables /\ found[i] \in Ids /\ Remembered(q[i].table, found[i], q[i].key)
        BY <3>1, <3>2, RequestFields DEF LocalInv, Inserting
      <4> DEFINE t == q[i].table
                 d == found[i]
                 k == q[i].key
      <4>2. d <= seq'[t] /\ \A r \in rows' : r.table = t /\ r.id = d => r.key = k
        <5>1. d \in Nat /\ d <= seq[t] /\ \A r \in rows : r.table = t /\ r.id = d => r.key = k
          BY <4>1, DatabaseAssumption DEF Remembered, Ids
        <5>2. t \in Tables
          BY <4>1
        <5> HIDE DEF t, d, k
        <5> QED
          BY <1>0, <5>1, <5>2, NamesStay
      <4> QED
        BY <3>1, <4>2 DEF Remembered
    <3> QED
      BY <3>1, <3>2 DEF LocalInv
  <2> QED
    BY <2>1, <2>2
<1> QED
  BY <1>1, <1>2, <1>4, <1>6, <1>7 DEF DatabaseInv

-----------------------------------------------------------------------------
(* The statements.                                                          *)

(* The end of an operation.                                                 *)
LEMMA DoneKeeps ==
  ASSUME TypeOK, NEW p \in Procs, Done(p)
  PROVE  LocalTypes' /\ Others(p) /\ LocalInv(p)' /\ pc'[p] = "idle"
<1>1. pc' \in [Procs -> Labels] /\ pc'[p] = "idle"
  BY DEF TypeOK, Done, Labels
<1>2. q' \in [Procs -> Requests(Tables) \cup TtlRows \cup {NoRequest}]
  BY DEF TypeOK, Done
<1>3. found' \in [Procs -> 0 .. MaxId] /\ expire' \in [Procs -> Nat]
  BY DatabaseAssumption DEF TypeOK, Done
<1>4. todo' \in [Procs -> SUBSET TtlRows]
  BY DEF TypeOK, Done
<1>5. Others(p)
  BY DEF TypeOK, Done, Others
<1> QED
  BY <1>1, <1>2, <1>3, <1>4, <1>5 DEF LocalTypes, LocalInv, Inserting

(* The next statement of an operation; the id it needs is known, or is not  *)
(* needed.                                                                  *)
LEMMA GotoKeeps ==
  ASSUME TypeOK, NEW p \in Procs, NEW l \in Labels, Goto(p, l), l \in Inserting,
         UNCHANGED todo, expire' \in [Procs -> Nat],
         NEW o \in Requests(Tables), q' = [q EXCEPT ![p] = o],
         NEW i \in 0 .. MaxId, found' = [found EXCEPT ![p] = i],
         l \in {"create", "update", "bump", "bumpset"} => i \in Ids /\ Remembered(o.table, i, o.key)'
  PROVE  LocalTypes' /\ Others(p) /\ LocalInv(p)'
<1>1. pc' \in [Procs -> Labels] /\ pc'[p] = l
  BY DEF TypeOK, Goto
<1>2. q' \in [Procs -> Requests(Tables) \cup TtlRows \cup {NoRequest}] /\ q'[p] = o
  BY DEF TypeOK
<1>3. found' \in [Procs -> 0 .. MaxId] /\ found'[p] = i
  BY DEF TypeOK
<1>4. Others(p)
  BY DEF TypeOK, Goto, Others
<1>5. LocalInv(p)'
  BY <1>1, <1>2, <1>3 DEF LocalInv, Inserting, Remembered
<1> QED
  BY <1>1, <1>2, <1>3, <1>4, <1>5 DEF LocalTypes, TypeOK

(* Statements that leave the ttls alone.                                    *)
LEMMA TtlsStay ==
  ASSUME TypeOK, NEW p \in Procs, UNCHANGED ttls
  PROVE  TtlMove(p)
BY DEF TypeOK, TtlMove

(* Functions that do not change at p.                                       *)
LEMMA SameLocals ==
  ASSUME TypeOK, NEW p \in Procs
  PROVE  q = [q EXCEPT ![p] = q[p]] /\ found = [found EXCEPT ![p] = found[p]]
         /\ q[p] \in Requests(Tables) \cup TtlRows \cup {NoRequest} /\ found[p] \in 0 .. MaxId
         /\ expire \in [Procs -> Nat]
BY DEF TypeOK

(* The ttl comes next, or nothing does.                                     *)
LEMMA ThenTtlKeeps ==
  ASSUME TypeOK, NEW p \in Procs, NEW o \in Requests(Tables), q[p] = o,
         NEW i \in Ids, NEW l \in {"bump", "create"},
         Remembered(o.table, i, o.key)', ThenTtl(p, i, l)
  PROVE  LocalTypes' /\ Others(p) /\ LocalInv(p)'
<1>1. CASE Done(p)
  BY <1>1, DoneKeeps
<1>2. CASE Goto(p, l) /\ found' = [found EXCEPT ![p] = i] /\ UNCHANGED <<q, expire, todo>>
  <2>1. /\ q' = [q EXCEPT ![p] = o] /\ expire' \in [Procs -> Nat]
        /\ l \in Labels /\ l \in Inserting /\ i \in 0 .. MaxId
    BY <1>2, SameLocals, DatabaseAssumption DEF Labels, Inserting, Ids
  <2> QED
    BY <1>2, <2>1, GotoKeeps
<1> QED
  BY <1>1, <1>2 DEF ThenTtl

(* The id of a row that matches a request names what the request names.     *)
LEMMA MatchRemembered ==
  ASSUME DatabaseInv, NEW o \in Requests(Tables), NEW r \in rows, Matches(r, o)
  PROVE  r.id \in Ids /\ Remembered(o.table, r.id, o.key)
<1>1. r.id \in Ids /\ r.table = o.table /\ r.key = o.key /\ r.id <= seq[r.table]
  BY RowFields DEF DatabaseInv, TypeOK, IdInv, Matches
<1>2. \A x \in rows : x.table = r.table /\ x.id = r.id => x = r
  BY DEF DatabaseInv, KeysUnique
<1> QED
  BY <1>1, <1>2 DEF Remembered

(* What has been read stays true while only this process changes rows.      *)
LEMMA RememberedStays ==
  ASSUME DatabaseInv, RowsMove, NEW t \in Tables, NEW i \in Ids, NEW k, Remembered(t, i, k)
  PROVE  Remembered(t, i, k)'
<1>1. i \in Nat /\ i <= seq[t] /\ \A r \in rows : r.table = t /\ r.id = i => r.key = k
  BY DatabaseAssumption DEF Remembered, Ids
<1>2. RowsOK /\ IdInv
  BY DEF DatabaseInv, TypeOK, RowsOK
<1> QED
  BY <1>1, <1>2, NamesStay DEF Remembered

(* Statements that only read.                                               *)
LEMMA ReadSteps ==
  ASSUME DatabaseInv, NEW p \in Procs,
         Requested(p) \/ Lookup(p) \/ GetId(p) \/ Bump(p) \/ ReapList(p) \/ Abandon(p)
  PROVE  DatabaseInv'
<1>0. TypeOK /\ LocalInv(p)
  BY DEF DatabaseInv
<1>1. UNCHANGED <<rows, seq, ttls, now>>
  BY DEF Requested, Insert, Lookup, GetId, Bump, BumpWith, ReapList, Abandon, dbVars
<1>2. RowsMove /\ TtlMove(p) /\ now' \in Nat
  BY <1>0, <1>1, TtlsStay DEF RowsMove, TypeOK
<1>a. ASSUME NEW t \in Tables, NEW i \in Ids, NEW k, Remembered(t, i, k)
      PROVE  Remembered(t, i, k)'
  BY <1>2, <1>a, RememberedStays
<1>3. SUFFICES LocalTypes' /\ Others(p) /\ LocalInv(p)'
  BY <1>2, StepKeeps
<1>4. ASSUME NEW o \in Requests(Tables), Insert(p, o)
      PROVE  LocalTypes' /\ Others(p) /\ LocalInv(p)'
  <2>1. Goto(p, "lookup") /\ q' = [q EXCEPT ![p] = o] /\ found' = [found EXCEPT ![p] = found[p]]
        /\ found[p] \in 0 .. MaxId /\ UNCHANGED todo /\ expire' \in [Procs -> Nat]
    BY <1>0, <1>4, SameLocals DEF Insert
  <2>2. "lookup" \in Labels /\ "lookup" \in Inserting
    BY DEF Labels, Inserting
  <2> DEFINE i == found[p]
  <2>3. i \in 0 .. MaxId /\ found' = [found EXCEPT ![p] = i]
    BY <2>1
  <2> HIDE DEF i
  <2> QED
    BY <1>0, <2>1, <2>2, <2>3, GotoKeeps
<1>5. ASSUME pc[p] \in Inserting, NEW r \in rows, Matches(r, q[p]), NEW l \in {"bump", "create"},
             ThenTtl(p, r.id, l)
      PROVE  LocalTypes' /\ Others(p) /\ LocalInv(p)'
  <2>1. PICK o \in Requests(Tables) : q[p] = o
    BY <1>0, <1>5 DEF LocalInv
  <2>2. PICK i \in Ids : r.id = i /\ Remembered(o.table, i, o.key)
    BY <1>5, <2>1, MatchRemembered
  <2>3. Remembered(o.table, i, o.key)'
    BY <1>a, <2>2, RequestFields
  <2> QED
    BY <1>0, <1>5, <2>1, <2>2, <2>3, ThenTtlKeeps
<1>6. CASE Lookup(p)
  <2>1. pc[p] \in Inserting
    BY <1>6 DEF Lookup, Inserting
  <2>2. PICK o \in Requests(Tables) : q[p] = o
    BY <1>0, <2>1 DEF LocalInv
  <2>3. CASE Goto(p, "insert") /\ UNCHANGED <<q, found, expire, todo>>
    <3>1. PICK i \in 0 .. MaxId : found[p] = i
      BY <1>0, SameLocals
    <3>2. q' = [q EXCEPT ![p] = o] /\ found' = [found EXCEPT ![p] = i] /\ expire' \in [Procs -> Nat]
      BY <1>0, <2>2, <2>3, <3>1, SameLocals
    <3>3. "insert" \in Labels /\ "insert" \in Inserting
      BY DEF Labels, Inserting
    <3> QED
      BY <1>0, <2>3, <3>2, <3>3, GotoKeeps
  <2>4. CASE Done(p)
    BY <1>0, <2>4, DoneKeeps
  <2>5. ASSUME NEW r \in rows, Matches(r, o), Goto(p, "update"),
               found' = [found EXCEPT ![p] = r.id], UNCHANGED <<q, expire, todo>>
        PROVE  LocalTypes' /\ Others(p) /\ LocalInv(p)'
    <3>1. PICK i \in Ids : r.id = i /\ Remembered(o.table, i, o.key)
      BY <2>5, MatchRemembered
    <3>2. Remembered(o.table, i, o.key)' /\ i \in 0 .. MaxId
      BY <1>a, <3>1, RequestFields, DatabaseAssumption DEF Ids
    <3>3. q' = [q EXCEPT ![p] = o] /\ found' = [found EXCEPT ![p] = i] /\ expire' \in [Procs -> Nat]
      BY <1>0, <2>2, <2>5, <3>1, SameLocals
    <3>4. "update" \in Labels /\ "update" \in Inserting
      BY DEF Labels, Inserting
    <3> QED
      BY <1>0, <2>5, <3>1, <3>2, <3>3, <3>4, GotoKeeps
  <2> QED
    BY <1>5, <1>6, <2>1, <2>2, <2>3, <2>4, <2>5 DEF Lookup
<1>7. CASE GetId(p)
  <2>1. pc[p] \in Inserting
    BY <1>7 DEF GetId, Inserting
  <2> QED
    BY <1>0, <1>5, <1>7, <2>1, DoneKeeps DEF GetId
<1>8. CASE Bump(p)
  <2>1. pc[p] = "bump"
    BY <1>8 DEF Bump
  <2>2. PICK o \in Requests(Tables) : q[p] = o
    BY <1>0, <2>1 DEF LocalInv, Inserting
  <2>3. PICK i \in Ids : found[p] = i /\ Remembered(o.table, i, o.key)
    BY <1>0, <2>1, <2>2 DEF LocalInv
  <2>4. CASE Done(p)
    BY <1>0, <2>4, DoneKeeps
  <2>5. CASE Goto(p, "bumpset") /\ expire' = [expire EXCEPT ![p] = now + q[p].ttl]
             /\ UNCHANGED <<q, found, todo>>
    <3>1. Remembered(o.table, i, o.key)' /\ i \in 0 .. MaxId
      BY <1>a, <2>3, RequestFields, DatabaseAssumption DEF Ids
    <3>2. q' = [q EXCEPT ![p] = o] /\ found' = [found EXCEPT ![p] = i]
      BY <1>0, <2>2, <2>3, <2>5, SameLocals
    <3>3. expire' \in [Procs -> Nat]
      <4>1. now + q[p].ttl \in Nat
        BY <1>0, <2>2, RequestFields DEF TypeOK
      <4> QED
        BY <1>0, <2>5, <4>1 DEF TypeOK
    <3>4. "bumpset" \in Labels /\ "bumpset" \in Inserting
      BY DEF Labels, Inserting
    <3> QED
      BY <1>0, <2>5, <3>1, <3>2, <3>3, <3>4, GotoKeeps
  <2> QED
    BY <1>8, <2>4, <2>5 DEF Bump, BumpWith
<1>9. CASE ReapList(p)
  <2>1. pc' \in [Procs -> Labels] /\ pc'[p] = "reap"
    BY <1>0, <1>9 DEF ReapList, Goto, TypeOK, Labels
  <2>2. todo' \in [Procs -> SUBSET TtlRows]
    BY <1>0, <1>9 DEF ReapList, TypeOK
  <2>3. Others(p)
    BY <1>0, <1>9 DEF ReapList, Goto, TypeOK, Others
  <2> QED
    BY <1>0, <1>9, <2>1, <2>2, <2>3 DEF ReapList, LocalTypes, TypeOK, LocalInv, Inserting
<1>10. CASE Abandon(p)
  BY <1>0, <1>10, DoneKeeps DEF Abandon
<1>11. CASE Requested(p)
  <2>1. PICK t \in Tables : \E o \in Requests({t}) : Insert(p, o)
    BY <1>11 DEF Requested
  <2>2. Requests({t}) \subseteq Requests(Tables)
    BY DEF Requests
  <2> QED
    BY <1>4, <2>1, <2>2
<1> QED
  BY <1>6, <1>7, <1>8, <1>9, <1>10, <1>11

(* INSERT.                                                                  *)
LEMMA InsertSteps ==
  ASSUME DatabaseInv, NEW p \in Procs, InsertRow(p)
  PROVE  DatabaseInv'
<1>0. TypeOK /\ LocalInv(p) /\ RowsOK
  BY DEF DatabaseInv, TypeOK, RowsOK
<1>1. PICK o \in Requests(Tables) : q[p] = o
  BY <1>0 DEF LocalInv, InsertRow, Inserting
<1>2. UNCHANGED <<ttls, now>>
  BY DEF InsertRow, InsertRowWith, dbVars
<1>3. TtlMove(p) /\ now' \in Nat
  BY <1>0, <1>2, TtlsStay DEF TypeOK
<1>4. CASE Done(p) /\ UNCHANGED <<rows, seq>>
  BY <1>0, <1>3, <1>4, DoneKeeps, StepKeeps DEF RowsMove
<1>5. ASSUME ~Clash(p), \A t \in Parents[o.table] : Has(t, o.refs[t]), seq[o.table] < MaxId,
             rows' = rows \cup {[table |-> o.table, id |-> seq[o.table] + 1, key |-> o.key,
                                 refs |-> o.refs, attr |-> o.attr, unscoped |-> o.unscoped,
                                 temp |-> o.ttl # NoTtl]},
             seq' = [seq EXCEPT ![o.table] = seq[o.table] + 1],
             Goto(p, "getid"), UNCHANGED <<q, found, expire, todo>>
      PROVE  DatabaseInv'
  <2> DEFINE r == [table |-> o.table, id |-> seq[o.table] + 1, key |-> o.key, refs |-> o.refs,
                   attr |-> o.attr, unscoped |-> o.unscoped, temp |-> o.ttl # NoTtl]
  <2>1. o.table \in Tables /\ seq[o.table] + 1 \in Ids
    BY <1>0, <1>5, RequestFields, DatabaseAssumption DEF RowsOK, Ids
  <2>2. r \in Rows(Tables)
    BY <2>1, RequestFields, RowMade
  <2>3. /\ r.table = o.table /\ r.id = seq[o.table] + 1 /\ r.key = o.key /\ r.refs = o.refs
        /\ r.attr = o.attr
    OBVIOUS
  <2>4. rows' = rows \cup {r}
    BY <1>5
  <2> HIDE DEF r
  <2>5. \A x \in rows : ~Clashes(x, r)
    BY <1>1, <1>5, <2>3 DEF Clash, Clashes
  <2>6. AddRow(r)
    BY <1>5, <2>2, <2>3, <2>4, <2>5 DEF AddRow
  <2>7. RowsMove
    BY <2>2, <2>6 DEF RowsMove
  <2>8. PICK i \in 0 .. MaxId : found[p] = i
    BY <1>0, SameLocals
  <2>9. q' = [q EXCEPT ![p] = o] /\ found' = [found EXCEPT ![p] = i] /\ expire' \in [Procs -> Nat]
    BY <1>0, <1>1, <1>5, <2>8, SameLocals
  <2>10. "getid" \in Labels /\ "getid" \in Inserting
    BY DEF Labels, Inserting
  <2>11. LocalTypes' /\ Others(p) /\ LocalInv(p)'
    BY <1>0, <1>5, <2>9, <2>10, GotoKeeps
  <2> QED
    BY <1>3, <2>7, <2>11, StepKeeps
<1> QED
  BY <1>1, <1>4, <1>5 DEF InsertRow, InsertRowWith, dbVars

(* The statements on the ttls table.                                        *)
LEMMA TtlSteps ==
  ASSUME DatabaseInv, NEW p \in Procs, CreateTtl(p) \/ BumpSet(p) \/ ReapTtl(p)
  PROVE  DatabaseInv'
<1>0. TypeOK /\ LocalInv(p)
  BY DEF DatabaseInv
<1>1. UNCHANGED <<rows, seq, now>>
  BY DEF CreateTtl, CreateTtlAt, BumpSet, ReapTtl
<1>2. RowsMove /\ now' \in Nat
  BY <1>0, <1>1 DEF RowsMove, TypeOK
<1>3. CASE CreateTtl(p)
  <2>1. PICK o \in Requests(Tables) : q[p] = o /\ found[p] \in Ids /\ pc[p] = "create"
    BY <1>0, <1>3 DEF LocalInv, CreateTtl, Inserting
  <2> DEFINE y == [table |-> o.table, id |-> found[p], value |-> o.key, expire |-> now + o.ttl]
  <2>2. ttls' \subseteq ttls \cup {y}
    BY <1>3, <2>1 DEF CreateTtl, CreateTtlAt
  <2>3. y \in TtlRows
    BY <1>0, <2>1, RequestFields, KeysAre DEF TtlRows, TypeOK
  <2>4. y.table = o.table /\ y.id = found[p] /\ y.value = o.key
    OBVIOUS
  <2> HIDE DEF y
  <2>5. TtlMove(p)
    BY <1>0, <2>1, <2>2, <2>3, <2>4 DEF TtlMove, TypeOK
  <2> QED
    BY <1>0, <1>2, <1>3, <2>5, DoneKeeps, StepKeeps DEF CreateTtl, CreateTtlAt
<1>4. CASE BumpSet(p)
  <2>1. \A x \in ttls : LET y == [x EXCEPT !.expire = expire[p]]
                        IN  y \in TtlRows /\ y.table = x.table /\ y.id = x.id /\ y.value = x.value
    BY <1>0 DEF TypeOK, TtlRows
  <2>2. TtlMove(p)
    <3> SUFFICES ASSUME NEW y \in ttls'
                 PROVE  y \in TtlRows /\ \E x \in ttls : x.table = y.table /\ x.id = y.id /\ x.value = y.value
      BY DEF TtlMove
    <3>1. PICK x \in ttls : y = x \/ y = [x EXCEPT !.expire = expire[p]]
      BY <1>4 DEF BumpSet
    <3>2. x \in TtlRows
      BY <1>0 DEF TypeOK
    <3> QED
      BY <2>1, <3>1, <3>2
  <2> QED
    BY <1>0, <1>2, <1>4, <2>2, DoneKeeps, StepKeeps DEF BumpSet
<1>5. CASE ReapTtl(p)
  <2>1. TtlMove(p)
    BY <1>0, <1>5 DEF ReapTtl, TtlMove, TypeOK
  <2>2. CASE Done(p)
    BY <1>0, <1>2, <2>1, <2>2, DoneKeeps, StepKeeps
  <2>3. CASE Goto(p, "reap") /\ todo' = [todo EXCEPT ![p] = @ \ {q[p]}] /\ UNCHANGED <<q, found, expire>>
    <3>1. pc' \in [Procs -> Labels] /\ pc'[p] = "reap" /\ \A i \in Procs : i # p => pc'[i] = pc[i]
      BY <1>0, <2>3 DEF TypeOK, Goto, Labels
    <3>2. todo' \in [Procs -> SUBSET TtlRows]
      BY <1>0, <2>3 DEF TypeOK
    <3>3. LocalTypes' /\ Others(p) /\ LocalInv(p)'
      BY <1>0, <2>3, <3>1, <3>2 DEF LocalTypes, TypeOK, Others, LocalInv, Inserting
    <3> QED
      BY <1>2, <2>1, <3>3, StepKeeps
  <2> QED
    BY <1>5, <2>2, <2>3 DEF ReapTtl
<1> QED
  BY <1>3, <1>4, <1>5

(* Statements that change or delete rows.                                   *)
LEMMA WriteSteps ==
  ASSUME DatabaseInv, NEW p \in Procs,
         \/ UpdateRow(p) \/ ReapRow(p)
         \/ \E t \in UpdateTables : \E i \in Ids, v \in Vals : DbUpdate(p, t, i, v)
         \/ \E S \in SUBSET rows : Delete(p, S) \/ \E un \in BOOLEAN : SetScope(p, S, un)
  PROVE  DatabaseInv'
<1>0. TypeOK /\ LocalInv(p)
  BY DEF DatabaseInv
<1>1. UNCHANGED <<seq, ttls, now>>
  BY DEF UpdateRow, ReapRow, DbUpdate, Delete, SetScope
<1>2. TtlMove(p) /\ now' \in Nat
  BY <1>0, <1>1, TtlsStay DEF TypeOK
<1>3. ASSUME UNCHANGED locals PROVE LocalTypes' /\ Others(p)
  BY <1>0, <1>3 DEF LocalTypes, TypeOK, Others, locals
<1>4. ASSUME UNCHANGED locals, pc[p] = "idle" PROVE LocalInv(p)'
  BY <1>4 DEF LocalInv, Inserting, locals
<1>5. ASSUME NEW t \in UpdateTables, NEW i \in Ids, NEW v \in Vals, DbUpdate(p, t, i, v)
      PROVE  DatabaseInv'
  <2>1. t \in Tables /\ v \in AttrsOf(t)
    BY DEF UpdateTables, AttrsOf
  <2>2. ChangeAttr(t, i, v)
    BY <1>1, <1>5, <2>1 DEF ChangeAttr, DbUpdate
  <2>3. RowsMove
    BY <2>1, <2>2 DEF RowsMove
  <2> QED
    BY <1>2, <1>3, <1>4, <1>5, <2>3, StepKeeps DEF DbUpdate
<1>6. ASSUME NEW S \in SUBSET rows, Delete(p, S) PROVE DatabaseInv'
  <2>1. RowsMove
    BY <1>1, <1>6 DEF RowsMove, DeleteRows, Delete
  <2> QED
    BY <1>2, <1>3, <1>4, <1>6, <2>1, StepKeeps DEF Delete
<1>7. ASSUME NEW S \in SUBSET rows, NEW un \in BOOLEAN, SetScope(p, S, un) PROVE DatabaseInv'
  <2>1. ChangeScope(S, un)
    BY <1>1, <1>7 DEF ChangeScope, SetScope
  <2>2. RowsMove
    BY <2>1 DEF RowsMove
  <2> QED
    BY <1>2, <1>3, <1>4, <1>7, <2>2, StepKeeps DEF SetScope
<1>8. CASE ReapRow(p)
  <2>1. PICK x \in todo[p] : rows' = rows \ Cascade(Target(x)) /\ q' = [q EXCEPT ![p] = x]
    BY <1>8 DEF ReapRow
  <2>2. x \in TtlRows
    BY <1>0 DEF TypeOK
  <2>3. RowsMove
    <3>1. Target(x) \in SUBSET rows
      BY DEF Target
    <3>2. DeleteRows(Target(x))
      BY <1>1, <2>1 DEF DeleteRows
    <3> QED
      BY <3>1, <3>2 DEF RowsMove
  <2>4. pc' \in [Procs -> Labels] /\ pc'[p] = "reapttl" /\ \A i \in Procs : i # p => pc'[i] = pc[i]
    BY <1>0, <1>8 DEF ReapRow, Goto, TypeOK, Labels
  <2>5. /\ q' \in [Procs -> Requests(Tables) \cup TtlRows \cup {NoRequest}] /\ q'[p] = x
        /\ \A i \in Procs : i # p => q'[i] = q[i]
    BY <1>0, <2>1, <2>2 DEF TypeOK
  <2>6. LocalTypes' /\ Others(p) /\ LocalInv(p)'
    BY <1>0, <1>8, <2>2, <2>4, <2>5 DEF ReapRow, LocalTypes, TypeOK, Others, LocalInv, Inserting
  <2> QED
    BY <1>2, <2>3, <2>6, StepKeeps
<1>9. CASE UpdateRow(p)
  <2>1. PICK o \in Requests(Tables) : q[p] = o
    BY <1>0, <1>9 DEF LocalInv, UpdateRow, Inserting
  <2>2. PICK i \in Ids : found[p] = i /\ Remembered(o.table, i, o.key)
    BY <1>0, <1>9, <2>1 DEF LocalInv, UpdateRow
  <2>3. CASE Done(p) /\ UNCHANGED rows
    BY <1>0, <1>1, <1>2, <2>3, DoneKeeps, StepKeeps DEF RowsMove
  <2>4. CASE ~Taken(o.table, i, o.attr) /\ rows' = SetAttr(o.table, i, o.attr) /\ ThenTtl(p, i, "bump")
    <3>1. o.table \in Tables /\ o.attr \in AttrsOf(o.table)
      BY RequestFields
    <3>2. ChangeAttr(o.table, i, o.attr)
      BY <1>1, <2>4, <3>1 DEF ChangeAttr
    <3>3. RowsMove
      BY <3>1, <3>2 DEF RowsMove
    <3>4. Remembered(o.table, i, o.key)'
      BY <2>2, <3>1, <3>3, RememberedStays
    <3>5. LocalTypes' /\ Others(p) /\ LocalInv(p)'
      BY <1>0, <2>1, <2>4, <3>4, ThenTtlKeeps
    <3> QED
      BY <1>2, <3>3, <3>5, StepKeeps
  <2> QED
    BY <1>9, <2>1, <2>2, <2>3, <2>4 DEF UpdateRow
<1> QED
  BY <1>5, <1>6, <1>7, <1>8, <1>9

(* Every step of every process keeps the invariant.                         *)
LEMMA DatabaseNext ==
  ASSUME DatabaseInv, [Next]_vars
  PROVE  DatabaseInv'
<1>1. CASE UNCHANGED <<rows, seq, ttls, locals>> /\ now' \in Nat
  <2>1. UNCHANGED <<pc, q, found, expire, todo>>
    BY <1>1 DEF locals
  <2>2. TypeOK'
    BY <1>1, <2>1 DEF DatabaseInv, TypeOK
  <2>3. IdInv' /\ KeysUnique' /\ ReferentialIntegrity' /\ TtlInv'
    BY <1>1 DEF DatabaseInv, IdInv, KeysUnique, ReferentialIntegrity, Has, TtlInv, Remembered
  <2>4. \A p \in Procs : LocalInv(p)'
    BY <1>1, <2>1 DEF DatabaseInv, LocalInv, Remembered
  <2> QED
    BY <2>2, <2>3, <2>4 DEF DatabaseInv
<1>2. CASE Tick
  <2>1. now' \in Nat
    BY <1>2 DEF Tick, DatabaseInv, TypeOK
  <2> QED
    BY <1>1, <1>2, <2>1 DEF Tick, dbVars
<1>3. CASE UNCHANGED vars
  <2>1. now' \in Nat
    BY <1>3 DEF vars, DatabaseInv, TypeOK
  <2> QED
    BY <1>1, <1>3, <2>1 DEF vars, dbVars
<1>4. ASSUME NEW p \in Procs, Statement(p) PROVE DatabaseInv'
  <2>1. ASSUME NEW t, NEW S \in SUBSET {r \in rows : r.table = t}, NEW un \in BOOLEAN,
               Delete(p, S) \/ SetScope(p, S, un)
        PROVE  DatabaseInv'
    <3>1. S \in SUBSET rows
      OBVIOUS
    <3> QED
      BY <2>1, <3>1, WriteSteps
  <2>2. ASSUME NEW t, NEW S \in SUBSET {r \in rows : r.table = t}, Delete(p, S)
        PROVE  DatabaseInv'
    <3>1. S \in SUBSET rows
      OBVIOUS
    <3> QED
      BY <2>2, <3>1, WriteSteps
  <2> QED
    BY <1>4, <2>1, <2>2, ReadSteps, InsertSteps, TtlSteps, WriteSteps DEF Statement
<1> QED
  BY <1>2, <1>3, <1>4, ReadSteps DEF Next

(* The invariant holds in every state.                                      *)
LEMMA DatabaseHolds == Spec => []DatabaseInv
BY DatabaseInit, DatabaseNext, PTL DEF Spec

-----------------------------------------------------------------------------
(* What a statement does to rows and requests.                              *)

(* A row that was not there is the one that is being inserted.              *)
NewRow(p, y) ==
  /\ pc[p] = "insert"
  /\ y.table = q[p].table /\ y.key = q[p].key /\ y.refs = q[p].refs
  /\ y.id > seq[y.table]

(* Other rows come from rows that were there, and ids only grow.            *)
LEMMA StatementRows ==
  ASSUME DatabaseInv, NEW p \in Procs, Statement(p)
  PROVE  /\ \A t \in Tables : seq'[t] >= seq[t]
         /\ \A y \in rows' : NewRow(p, y) \/ \E x \in rows : Same(x, y)
<1>0. RowsOK /\ TypeOK /\ \A t \in Tables : seq[t] \in Nat
  BY DatabaseAssumption DEF DatabaseInv, TypeOK, RowsOK
<1>1. CASE InsertRow(p)
  <2>1. q[p].table \in Tables /\ seq[q[p].table] \in Nat
    BY <1>0, <1>1, RequestFields DEF InsertRow, DatabaseInv, LocalInv, Inserting
  <2>2. CASE UNCHANGED dbVars
    BY <1>0, <2>2 DEF dbVars, Same
  <2>3. CASE /\ rows' = rows \cup {[table |-> q[p].table, id |-> seq[q[p].table] + 1, key |-> q[p].key,
                            refs |-> q[p].refs, attr |-> q[p].attr, unscoped |-> q[p].unscoped,
                            temp |-> q[p].ttl # NoTtl]}
             /\ seq' = [seq EXCEPT ![q[p].table] = seq[q[p].table] + 1]
    <3>1. \A t \in Tables : seq'[t] >= seq[t]
      BY <1>0, <2>1, <2>3 DEF RowsOK
    <3>2. pc[p] = "insert"
      BY <1>1 DEF InsertRow
    <3> QED
      BY <2>1, <2>3, <3>1, <3>2 DEF NewRow, Same
  <2> QED
    BY <1>1, <2>2, <2>3 DEF InsertRow, InsertRowWith
<1>2. ASSUME NEW t \in Tables, NEW i \in Ids, NEW v \in AttrsOf(t), ~Taken(t, i, v),
             rows' = SetAttr(t, i, v), UNCHANGED seq
      PROVE  \A y \in rows' : \E x \in rows : Same(x, y)
  <2>1. ChangeAttr(t, i, v)
    BY <1>2 DEF ChangeAttr
  <2> QED
    BY <1>0, <2>1, AttrChanged
<1>3. ASSUME rows' \subseteq rows
      PROVE  \A y \in rows' : \E x \in rows : Same(x, y)
  BY <1>3 DEF Same
<1>4. CASE UpdateRow(p)
  <2>1. q[p].table \in Tables /\ q[p].attr \in AttrsOf(q[p].table) /\ found[p] \in Ids
    BY <1>4, RequestFields DEF UpdateRow, DatabaseInv, LocalInv, Inserting
  <2>2. UNCHANGED seq
    BY <1>4 DEF UpdateRow
  <2>3. \A y \in rows' : \E x \in rows : Same(x, y)
    BY <1>2, <1>3, <1>4, <2>1, <2>2 DEF UpdateRow
  <2> QED
    BY <1>0, <2>2, <2>3
<1>5. ASSUME NEW t \in UpdateTables, NEW i \in Ids, NEW v \in Vals, DbUpdate(p, t, i, v)
      PROVE  UNCHANGED seq /\ \A y \in rows' : \E x \in rows : Same(x, y)
  <2>1. t \in Tables /\ v \in AttrsOf(t)
    BY DEF UpdateTables, AttrsOf
  <2> QED
    BY <1>2, <1>5, <2>1 DEF DbUpdate
<1>6. ASSUME NEW S \in SUBSET rows, NEW un \in BOOLEAN, SetScope(p, S, un)
      PROVE  UNCHANGED seq /\ \A y \in rows' : \E x \in rows : Same(x, y)
  <2>1. ChangeScope(S, un)
    BY <1>6 DEF ChangeScope, SetScope
  <2> QED
    BY <1>0, <1>6, <2>1, ScopeChanged DEF SetScope
<1>7. ASSUME NEW S, Delete(p, S)
      PROVE  UNCHANGED seq /\ \A y \in rows' : \E x \in rows : Same(x, y)
  BY <1>3, <1>7 DEF Delete
<1>8. CASE Lookup(p) \/ GetId(p) \/ CreateTtl(p) \/ Bump(p) \/ BumpSet(p) \/ ReapList(p)
           \/ ReapRow(p) \/ ReapTtl(p) \/ Abandon(p)
  <2>1. rows' \subseteq rows /\ UNCHANGED seq
    BY <1>8 DEF Lookup, GetId, CreateTtl, CreateTtlAt, Bump, BumpWith, BumpSet, ReapList, ReapRow,
                ReapTtl, Abandon, dbVars
  <2> QED
    BY <1>0, <1>3, <2>1
<1>9. ASSUME UNCHANGED seq PROVE \A t \in Tables : seq'[t] >= seq[t]
  BY <1>0, <1>9
<1>10. ASSUME NEW t, NEW S \in SUBSET {r \in rows : r.table = t} PROVE S \in SUBSET rows
  OBVIOUS
<1> QED
  BY <1>1, <1>4, <1>5, <1>6, <1>7, <1>8, <1>9, <1>10 DEF Statement

(* The locals of the other processes stay, and a statement continues the    *)
(* insert of its process or ends it.                                        *)
Continues(p) ==
  /\ \A i \in Procs : i # p => pc'[i] = pc[i] /\ q'[i] = q[i]
  /\ pc'[p] \in Inserting => pc[p] \in Inserting /\ q'[p] = q[p]
  /\ pc'[p] \in {"lookup", "insert"} => pc[p] \in {"lookup", "insert"}
  /\ pc[p] \in Inserting => pc'[p] \in Inserting \cup {"idle"}

(* No statement begins an insert, or changes what is inserted.              *)
LEMMA StatementContinues ==
  ASSUME TypeOK, NEW p \in Procs, Statement(p)
  PROVE  Continues(p)
<1>1. ASSUME Done(p) PROVE Continues(p)
  BY <1>1 DEF Done, TypeOK, Continues, Inserting
<1>2. ASSUME NEW l \in {"getid", "create", "update", "bump", "bumpset"}, Goto(p, l),
             pc[p] \in Inserting, UNCHANGED q
      PROVE  Continues(p)
  BY <1>2 DEF Goto, TypeOK, Continues, Inserting
<1>3. ASSUME NEW l \in {"reap", "reapttl"}, Goto(p, l), pc[p] \notin Inserting,
             \A i \in Procs : i # p => q'[i] = q[i]
      PROVE  Continues(p)
  BY <1>3 DEF Goto, TypeOK, Continues, Inserting
<1>4. ASSUME NEW id, NEW l \in {"create", "bump"}, ThenTtl(p, id, l), pc[p] \in Inserting
      PROVE  Continues(p)
  BY <1>1, <1>2, <1>4 DEF ThenTtl
<1>5. CASE Lookup(p)
  <2>0. pc[p] = "lookup" /\ pc[p] \in Inserting
    BY <1>5 DEF Lookup, Inserting
  <2>1. CASE Goto(p, "insert") /\ UNCHANGED q
    BY <2>0, <2>1 DEF Goto, TypeOK, Continues, Inserting
  <2>2. \/ Goto(p, "insert") /\ UNCHANGED q
        \/ Done(p)
        \/ Goto(p, "update") /\ UNCHANGED q
        \/ \E r \in rows : ThenTtl(p, r.id, "bump")
    BY <1>5 DEF Lookup
  <2> QED
    BY <1>1, <1>2, <1>4, <2>0, <2>1, <2>2
<1>6. CASE InsertRow(p)
  BY <1>1, <1>2, <1>6 DEF InsertRow, InsertRowWith, Inserting
<1>7. CASE GetId(p)
  BY <1>1, <1>4, <1>7 DEF GetId, Inserting
<1>8. CASE CreateTtl(p) \/ BumpSet(p) \/ Abandon(p)
  BY <1>1, <1>8 DEF CreateTtl, CreateTtlAt, BumpSet, Abandon
<1>9. CASE UpdateRow(p)
  BY <1>1, <1>4, <1>9 DEF UpdateRow, Inserting
<1>10. CASE Bump(p)
  BY <1>1, <1>2, <1>10 DEF Bump, BumpWith, Inserting
<1>11. CASE ReapList(p) \/ ReapTtl(p)
  BY <1>1, <1>3, <1>11 DEF ReapList, ReapTtl, Inserting
<1>12. CASE ReapRow(p)
  <2>1. \A i \in Procs : i # p => q'[i] = q[i]
    BY <1>12 DEF ReapRow, TypeOK
  <2> QED
    BY <1>3, <1>12, <2>1 DEF ReapRow, Inserting
<1>13. ASSUME UNCHANGED locals PROVE Continues(p)
  BY <1>13 DEF locals, Continues
<1>14. ASSUME NEW t, NEW i, NEW v, DbUpdate(p, t, i, v) PROVE UNCHANGED locals
  BY <1>14 DEF DbUpdate
<1>15. ASSUME NEW S, NEW un, Delete(p, S) \/ SetScope(p, S, un) PROVE UNCHANGED locals
  BY <1>15 DEF Delete, SetScope
<1>16. ASSUME NEW S, Delete(p, S) PROVE UNCHANGED locals
  BY <1>16 DEF Delete
<1> QED
  BY <1>5, <1>6, <1>7, <1>8, <1>9, <1>10, <1>11, <1>12, <1>13, <1>14, <1>15, <1>16 DEF Statement

(* Rows that were there, under ids given out, and new ones under new ids.   *)
Kept ==
  /\ \A t \in Tables : seq'[t] >= seq[t]
  /\ \A y \in rows' : y.id > seq[y.table] \/ \E x \in rows : Same(x, y)

(* A statement keeps what ids name.                                         *)
LEMMA StatementKept ==
  ASSUME DatabaseInv, NEW p \in Procs, Statement(p)
  PROVE  DatabaseInv' /\ Kept /\ Continues(p)
<1>1. DatabaseInv'
  BY DatabaseNext DEF Next
<1>2. Kept
  BY StatementRows DEF Kept, NewRow
<1>3. Continues(p)
  BY StatementContinues DEF DatabaseInv
<1> QED
  BY <1>1, <1>2, <1>3

-----------------------------------------------------------------------------
(* Rows, sequences, ttl rows and the locals of every process keep their     *)
(* types.                                                                   *)
THEOREM TypeCorrect == Spec => []TypeOK
BY DatabaseHolds, PTL DEF DatabaseInv

(* An entity is stored once and an id names one row, although the lookup    *)
(* and the insert of insert_generic are two statements and any number of    *)
(* processes may act between them.                                          *)
THEOREM KeysHold == Spec => []KeysUnique
BY DatabaseHolds, PTL DEF DatabaseInv

(* No row refers to one that is gone, whatever is deleted or reaped while   *)
(* others insert below it: the two levels of Cascade are enough for the     *)
(* foreign keys of the schema.                                              *)
THEOREM IntegrityHolds == Spec => []ReferentialIntegrity
BY DatabaseHolds, PTL DEF DatabaseInv

(* A ttl row, which outlives a deleted entity, never names another one: ids *)
(* are AUTOINCREMENT, and the id and the name it was made of belonged       *)
(* together.                                                                *)
THEOREM TtlNamesHold == Spec => []TtlNamesItsEntity
<1>1. DatabaseInv => TtlNamesItsEntity
  BY DEF DatabaseInv, TtlInv, Remembered, TtlNamesItsEntity, Target
<1> QED
  BY <1>1, DatabaseHolds, PTL

-----------------------------------------------------------------------------
(* A workspace that is open once.                                           *)

(* One process has the workspace open.                                      *)
Alone == \A p, r \in Procs : p = r

(* What the process inserts is not there; what it finds afterwards is what  *)
(* it has inserted, and no ttl row is left of an entity with that id.       *)
InsertAlone(p) ==
  /\ pc[p] = "insert" => \A r \in rows : ~Matches(r, q[p])
  /\ pc[p] = "getid" => \A r \in rows : Matches(r, q[p]) =>
                            (r.temp <=> q[p].ttl # NoTtl) /\ TtlOf(r.table, r.id) = {}
  /\ pc[p] = "create" => /\ \A r \in rows : r.table = q[p].table /\ r.id = found[p] => r.temp
                         /\ TtlOf(q[p].table, found[p]) = {}

(* The ttl rows the process has read are those that are stored.             *)
TtlAlone(p) ==
  /\ pc[p] \in {"reap", "reapttl"} => \A x \in todo[p] : x \in ttls /\ x.expire < now
  /\ pc[p] = "reapttl" => q[p] \in todo[p]

TtlUnique == \A x, y \in ttls : x.table = y.table /\ x.id = y.id => x = y

AloneInv ==
  /\ DatabaseInv /\ Alone /\ OnlyTemporaryExpires /\ TtlUnique
  /\ \A p \in Procs : InsertAlone(p) /\ TtlAlone(p)

AddsHonoured == \A p \in Procs : AddEnds(p) => \A y \in Left(p) : y.expire >= Asked(p)

HonouredStep ==
  /\ \A p \in Procs : AddEnds(p) => \A y \in Left(p) : y.expire >= Asked(p)
  /\ \A p \in Procs : pc[p] = "reap" /\ pc'[p] # "reap" =>
       \A r \in rows \ rows' : \E x \in ttls : x.expire < now /\ r \in Cascade(Target(x))

ReapsHonoured ==
  \A p \in Procs : pc[p] = "reap" /\ pc'[p] # "reap" =>
    \A r \in rows \ rows' : \E x \in ttls : x.expire < now /\ r \in Cascade(Target(x))

(* A ttl row that stays names a temporary entity, or one that is gone.      *)
LEMMA TempKept ==
  ASSUME DatabaseInv, OnlyTemporaryExpires, Kept, NEW y, NEW x \in ttls, x.table = y.table, x.id = y.id
  PROVE  \A r \in rows' : r.table = y.table /\ r.id = y.id => r.temp
<1>1. x \in TtlRows /\ Remembered(x.table, x.id, x.value)
  BY DEF DatabaseInv, TypeOK, TtlInv
<1>2. x.table \in Tables /\ x.id \in Nat /\ x.id <= seq[x.table] /\ seq[x.table] \in Nat
  BY <1>1, DatabaseAssumption DEF TtlRows, Ids, Remembered, DatabaseInv, TypeOK
<1>3. \A r \in rows : r.table = x.table /\ r.id = x.id => r.temp
  BY DEF OnlyTemporaryExpires, Target
<1> QED
  BY <1>2, <1>3 DEF Kept, Same

(* Ttl rows that stay as they are, or go.                                   *)
LEMMA TtlsShrink ==
  ASSUME DatabaseInv, OnlyTemporaryExpires, Kept, TtlUnique, ttls' \subseteq ttls
  PROVE  OnlyTemporaryExpires' /\ TtlUnique'
BY TempKept DEF OnlyTemporaryExpires, Target, TtlUnique

(* A db_add_ttl that ends leaves no earlier date than it was asked for.     *)
LEMMA AddsKept == ASSUME AloneInv PROVE AddsHonoured
<1> SUFFICES ASSUME NEW p \in Procs, AddEnds(p), NEW y \in Left(p)
             PROVE  y.expire >= Asked(p)
  BY DEF AddsHonoured
<1>0. TtlUnique /\ InsertAlone(p) /\ TypeOK /\ DatabaseInv
  BY DEF AloneInv, DatabaseInv
<1>1. y \in ttls' /\ y.table = q[p].table /\ y.id = found[p]
  BY DEF Left
<1>2. ASSUME pc[p] \in {"create", "bump"} PROVE Asked(p) = now + q[p].ttl /\ now \in Nat /\ q[p].ttl \in Nat
  <2>1. PICK o \in Requests(Tables) : q[p] = o
    BY <1>0, <1>2 DEF DatabaseInv, LocalInv, Inserting
  <2> QED
    BY <1>0, <1>2, <2>1, RequestFields DEF Asked, TypeOK
<1>3. CASE CreateTtl(p)
  <2>1. pc[p] = "create" /\ TtlOf(q[p].table, found[p]) = {}
    BY <1>0, <1>3 DEF CreateTtl, InsertAlone
  <2>2. y \notin ttls
    BY <1>1, <2>1 DEF TtlOf
  <2>3. y = [table |-> q[p].table, id |-> found[p], value |-> q[p].key, expire |-> now + q[p].ttl]
    BY <1>1, <1>3, <2>2 DEF CreateTtl, CreateTtlAt
  <2>4. y.expire = now + q[p].ttl
    BY <2>3
  <2> QED
    BY <1>2, <2>1, <2>4
<1>4. CASE BumpSet(p)
  <2>1. PICK x \in ttls : y = IF x.table = q[p].table /\ x.id = found[p]
                             THEN [x EXCEPT !.expire = expire[p]] ELSE x
    BY <1>1, <1>4 DEF BumpSet
  <2>2. x \in TtlRows /\ expire[p] \in Nat /\ Asked(p) = expire[p]
    BY <1>0, <1>4 DEF TypeOK, Asked, BumpSet
  <2>3. y.expire = expire[p]
    BY <1>1, <2>1, <2>2 DEF TtlRows
  <2> QED
    BY <2>2, <2>3
<1>5. CASE Bump(p) /\ pc'[p] = "idle"
  <2>1. pc[p] = "bump" /\ ttls' = ttls
    BY <1>5 DEF Bump, BumpWith, dbVars
  <2>2. \A l : Goto(p, l) => pc'[p] = l
    BY <1>0 DEF Goto, TypeOK
  <2>3. y \in TtlOf(q[p].table, found[p])
    BY <1>1, <2>1 DEF TtlOf
  <2>4. PICK x \in TtlOf(q[p].table, found[p]) : x.expire \notin 0 .. now + q[p].ttl - 1
    BY <1>5, <2>2, <2>3 DEF Bump, BumpWith
  <2>5. x = y
    BY <1>0, <2>3, <2>4 DEF TtlUnique, TtlOf
  <2>6. x.expire \in Nat
    BY <1>0, <2>4 DEF TypeOK, TtlRows, TtlOf
  <2>7. ASSUME NEW n \in Nat, NEW e \in Nat, e \notin 0 .. n - 1 PROVE e >= n
    BY <2>7
  <2>8. PICK n \in Nat : n = now + q[p].ttl /\ n = Asked(p)
    BY <1>2, <2>1
  <2>9. x.expire \notin 0 .. n - 1
    BY <1>2, <2>1, <2>4, <2>8
  <2> QED
    BY <2>5, <2>6, <2>7, <2>8, <2>9
<1> QED
  BY <1>3, <1>4, <1>5 DEF AddEnds

(* What a step does to the ttl rows, and what it reaps.                     *)
LEMMA TtlsAlone ==
  ASSUME AloneInv, NEW p \in Procs, Statement(p)
  PROVE  OnlyTemporaryExpires' /\ TtlUnique' /\ ReapsHonoured
<1>0. /\ DatabaseInv /\ OnlyTemporaryExpires /\ TtlUnique /\ InsertAlone(p) /\ TtlAlone(p)
      /\ TypeOK /\ \A i \in Procs : i = p
  BY DEF AloneInv, DatabaseInv, Alone
<1>1. Kept
  BY <1>0, StatementKept
<1>2. ASSUME pc[p] # "reap"
      PROVE  \A i \in Procs : pc[i] # "reap"
  BY <1>0, <1>2
<1>3. \A x \in ttls : x \in TtlRows /\ x.expire \in Nat
  BY <1>0 DEF TypeOK, TtlRows
<1>4. CASE CreateTtl(p)
  <2>0. pc[p] = "create"
    BY <1>4 DEF CreateTtl
  <2>1. PICK o \in Requests(Tables) : q[p] = o /\ found[p] \in Ids
    BY <1>0, <2>0 DEF DatabaseInv, LocalInv, Inserting
  <2> DEFINE n == [table |-> o.table, id |-> found[p], value |-> o.key, expire |-> now + o.ttl]
  <2>2. UNCHANGED rows
    BY <1>4 DEF CreateTtl, CreateTtlAt
  <2>3. CASE ttls' = ttls
    BY <1>0, <1>1, <1>2, <2>0, <2>3, TtlsShrink DEF ReapsHonoured
  <2>4. CASE ttls' = ttls \cup {n} /\ TtlOf(o.table, found[p]) = {}
    <3>1. n.table = o.table /\ n.id = found[p]
      OBVIOUS
    <3> HIDE DEF n
    <3>2. \A x \in ttls : ~(x.table = n.table /\ x.id = n.id)
      BY <2>4, <3>1 DEF TtlOf
    <3>3. \A r \in rows : r.table = n.table /\ r.id = n.id => r.temp
      BY <1>0, <2>0, <2>1, <3>1 DEF InsertAlone
    <3>4. OnlyTemporaryExpires'
      BY <1>0, <2>2, <2>4, <3>3 DEF OnlyTemporaryExpires, Target
    <3>5. TtlUnique'
      BY <1>0, <2>4, <3>2 DEF TtlUnique
    <3> QED
      BY <1>2, <2>0, <3>4, <3>5 DEF ReapsHonoured
  <2> QED
    BY <1>4, <2>1, <2>3, <2>4 DEF CreateTtl, CreateTtlAt
<1>5. CASE BumpSet(p)
  <2>0. pc[p] = "bumpset" /\ UNCHANGED rows
    BY <1>5 DEF BumpSet
  <2> DEFINE hit(x) == x.table = q[p].table /\ x.id = found[p]
             bumped(x) == IF hit(x) THEN [x EXCEPT !.expire = expire[p]] ELSE x
  <2>1. ASSUME NEW x \in ttls
        PROVE  bumped(x).table = x.table /\ bumped(x).id = x.id
    BY <1>3 DEF TtlRows
  <2>2. ttls' = {bumped(x) : x \in ttls}
    BY <1>5 DEF BumpSet
  <2> HIDE DEF bumped
  <2>3. OnlyTemporaryExpires'
    BY <1>0, <2>0, <2>1, <2>2 DEF OnlyTemporaryExpires, Target
  <2>4. TtlUnique'
    BY <1>0, <2>1, <2>2 DEF TtlUnique
  <2> QED
    BY <1>2, <2>0, <2>3, <2>4 DEF ReapsHonoured
<1>6. CASE ReapTtl(p)
  <2>1. ttls' \subseteq ttls /\ pc[p] # "reap"
    BY <1>6 DEF ReapTtl
  <2> QED
    BY <1>0, <1>1, <1>2, <2>1, TtlsShrink DEF ReapsHonoured
<1>7. CASE ReapRow(p)
  <2>1. PICK x \in todo[p] : rows' = rows \ Cascade(Target(x))
    BY <1>7 DEF ReapRow
  <2>2. x \in ttls /\ x.expire < now
    BY <1>0, <1>7 DEF ReapRow, TtlAlone
  <2>3. \A r \in rows \ rows' : r \in Cascade(Target(x))
    BY <2>1
  <2>4. UNCHANGED ttls
    BY <1>7 DEF ReapRow
  <2> QED
    BY <1>0, <1>1, <2>2, <2>3, <2>4, TtlsShrink DEF ReapsHonoured
<1>8. CASE Abandon(p)
  BY <1>0, <1>1, <1>8, TtlsShrink DEF ReapsHonoured, Abandon, dbVars
<1>9. ASSUME ttls' = ttls, pc[p] # "reap"
      PROVE  OnlyTemporaryExpires' /\ TtlUnique' /\ ReapsHonoured
  BY <1>0, <1>1, <1>2, <1>9, TtlsShrink DEF ReapsHonoured
<1>10. CASE Lookup(p) \/ InsertRow(p) \/ GetId(p) \/ UpdateRow(p) \/ Bump(p) \/ ReapList(p)
  BY <1>9, <1>10 DEF Lookup, InsertRow, InsertRowWith, GetId, UpdateRow, Bump, BumpWith, ReapList, dbVars
<1>11. ASSUME NEW t, NEW i, NEW v, DbUpdate(p, t, i, v) PROVE ttls' = ttls /\ pc[p] # "reap"
  BY <1>11 DEF DbUpdate
<1>12. ASSUME NEW S, Delete(p, S) PROVE ttls' = ttls /\ pc[p] # "reap"
  BY <1>12 DEF Delete
<1>13. ASSUME NEW S, NEW un, SetScope(p, S, un) PROVE ttls' = ttls /\ pc[p] # "reap"
  BY <1>13 DEF SetScope
<1> QED
  BY <1>4, <1>5, <1>6, <1>7, <1>8, <1>9, <1>10, <1>11, <1>12, <1>13 DEF Statement

(* What the process knows after a statement.                                *)
LEMMA LocalsAlone ==
  ASSUME AloneInv, NEW p \in Procs, Statement(p)
  PROVE  InsertAlone(p)' /\ TtlAlone(p)'
<1>0. DatabaseInv /\ TtlUnique /\ InsertAlone(p) /\ TtlAlone(p) /\ TypeOK /\ KeysUnique
  BY DEF AloneInv, DatabaseInv
<1>1. ASSUME pc'[p] \notin {"insert", "getid", "create", "reap", "reapttl"}
      PROVE  InsertAlone(p)' /\ TtlAlone(p)'
  BY <1>1 DEF InsertAlone, TtlAlone
<1>2. ASSUME Done(p) PROVE InsertAlone(p)' /\ TtlAlone(p)'
  BY <1>0, <1>1, <1>2 DEF Done, TypeOK
<1>3. ASSUME NEW l, Goto(p, l) PROVE pc'[p] = l
  BY <1>0, <1>3 DEF Goto, TypeOK
<1>4. CASE Lookup(p)
  <2>1. CASE (\A r \in rows : ~Matches(r, q[p])) /\ Goto(p, "insert") /\ UNCHANGED <<q, rows>>
    <3>1. pc'[p] = "insert"
      BY <1>3, <2>1
    <3> QED
      BY <2>1, <3>1 DEF InsertAlone, TtlAlone, Matches
  <2>2. \/ (\A r \in rows : ~Matches(r, q[p])) /\ Goto(p, "insert") /\ UNCHANGED <<q, rows>>
        \/ Done(p) \/ Goto(p, "update") \/ Goto(p, "bump")
    BY <1>4 DEF Lookup, ThenTtl, dbVars
  <2> QED
    BY <1>1, <1>2, <1>3, <2>1, <2>2
<1>5. CASE InsertRow(p)
  <2>1. PICK o \in Requests(Tables) : q[p] = o /\ \A r \in rows : ~Matches(r, o)
    BY <1>0, <1>5 DEF InsertRow, DatabaseInv, LocalInv, Inserting, InsertAlone
  <2> DEFINE n == [table |-> o.table, id |-> seq[o.table] + 1, key |-> o.key, refs |-> o.refs,
                   attr |-> o.attr, unscoped |-> o.unscoped, temp |-> o.ttl # NoTtl]
  <2>2. CASE rows' = rows \cup {n} /\ Goto(p, "getid") /\ UNCHANGED q
    <3>1. n.temp <=> o.ttl # NoTtl
      OBVIOUS
    <3>0. n.table = o.table /\ n.id = seq[o.table] + 1
      OBVIOUS
    <3> HIDE DEF n
    <3>2. \A r \in rows' : Matches(r, o) => r = n
      BY <2>1, <2>2
    <3>3. pc'[p] = "getid" /\ q'[p] = o /\ ttls' = ttls
      BY <1>3, <1>5, <2>1, <2>2 DEF InsertRow, InsertRowWith, Done, Goto
    <3>4. TtlOf(n.table, n.id) = {}
      <4>1. o.table \in Tables /\ seq[o.table] \in Nat
        BY <1>0, DatabaseAssumption, RequestFields DEF TypeOK
      <4>2. \A x \in ttls : x.table = o.table => x.id <= seq[o.table] /\ x.id \in Nat
        BY <1>0, <4>1 DEF DatabaseInv, TtlInv, Remembered, TypeOK, TtlRows, Ids
      <4> QED
        BY <3>0, <4>1, <4>2 DEF TtlOf
    <3> QED
      BY <3>1, <3>2, <3>3, <3>4 DEF InsertAlone, TtlAlone, Matches, TtlOf
  <2>3. Done(p) \/ (rows' = rows \cup {n} /\ Goto(p, "getid") /\ UNCHANGED q)
    BY <1>5, <2>1 DEF InsertRow, InsertRowWith
  <2> QED
    BY <1>2, <2>2, <2>3
<1>6. CASE GetId(p)
  <2>1. ASSUME NEW r \in rows, Matches(r, q[p]), ThenTtl(p, r.id, "create"), q[p].ttl # NoTtl
        PROVE  InsertAlone(p)' /\ TtlAlone(p)'
    <3>1. pc'[p] = "create" /\ q'[p] = q[p] /\ found'[p] = r.id /\ rows' = rows /\ ttls' = ttls
      BY <1>0, <1>3, <1>6, <2>1 DEF ThenTtl, TypeOK, GetId, dbVars
    <3>2. r.temp /\ r.table = q[p].table /\ TtlOf(r.table, r.id) = {}
      BY <1>0, <1>6, <2>1 DEF InsertAlone, GetId, Matches
    <3>3. \A x \in rows : x.table = r.table /\ x.id = r.id => x = r
      BY <1>0 DEF KeysUnique
    <3> QED
      BY <3>1, <3>2, <3>3 DEF InsertAlone, TtlAlone, TtlOf
  <2>2. Done(p) \/ \E r \in rows : Matches(r, q[p]) /\ ThenTtl(p, r.id, "create") /\ q[p].ttl # NoTtl
    BY <1>6 DEF GetId, ThenTtl
  <2> QED
    BY <1>2, <2>1, <2>2
<1>7. CASE CreateTtl(p) \/ BumpSet(p) \/ Abandon(p)
  BY <1>2, <1>7 DEF CreateTtl, CreateTtlAt, BumpSet, Abandon
<1>8. CASE UpdateRow(p)
  BY <1>1, <1>2, <1>3, <1>8 DEF UpdateRow, ThenTtl
<1>9. CASE Bump(p)
  <2>1. Done(p) \/ Goto(p, "bumpset")
    BY <1>9 DEF Bump, BumpWith
  <2> QED
    BY <1>1, <1>2, <1>3, <2>1
<1>10. CASE ReapList(p)
  <2>1. pc'[p] = "reap" /\ todo'[p] = {x \in ttls : x.expire < now} /\ UNCHANGED <<ttls, now>>
    BY <1>0, <1>3, <1>10 DEF ReapList, TypeOK, dbVars
  <2> QED
    BY <2>1 DEF InsertAlone, TtlAlone
<1>11. CASE ReapRow(p)
  <2>1. /\ pc[p] = "reap" /\ pc'[p] = "reapttl" /\ todo'[p] = todo[p] /\ q'[p] \in todo[p]
        /\ UNCHANGED <<ttls, now>>
    BY <1>0, <1>3, <1>11 DEF ReapRow, TypeOK
  <2> QED
    BY <1>0, <2>1 DEF InsertAlone, TtlAlone
<1>12. CASE ReapTtl(p)
  <2>1. CASE Goto(p, "reap") /\ todo' = [todo EXCEPT ![p] = @ \ {q[p]}]
    <3>1. /\ pc'[p] = "reap" /\ todo'[p] = todo[p] \ {q[p]} /\ UNCHANGED now
          /\ ttls' = ttls \ TtlOf(q[p].table, q[p].id) /\ pc[p] = "reapttl"
      BY <1>0, <1>3, <1>12, <2>1 DEF ReapTtl, TypeOK
    <3>2. q[p] \in ttls /\ \A x \in todo[p] : x \in ttls /\ x.expire < now
      BY <1>0, <3>1 DEF TtlAlone
    <3>3. ASSUME NEW x \in todo'[p] PROVE x \in ttls' /\ x.expire < now
      BY <1>0, <3>1, <3>2, <3>3 DEF TtlUnique, TtlOf
    <3> QED
      BY <3>1, <3>3 DEF InsertAlone, TtlAlone
  <2> QED
    BY <1>2, <1>12, <2>1 DEF ReapTtl
<1>13. ASSUME pc[p] = "idle", UNCHANGED locals PROVE InsertAlone(p)' /\ TtlAlone(p)'
  BY <1>1, <1>13 DEF locals
<1>14. ASSUME NEW t, NEW i, NEW v, DbUpdate(p, t, i, v) PROVE pc[p] = "idle" /\ UNCHANGED locals
  BY <1>14 DEF DbUpdate
<1>15. ASSUME NEW S, Delete(p, S) PROVE pc[p] = "idle" /\ UNCHANGED locals
  BY <1>15 DEF Delete
<1>16. ASSUME NEW S, NEW un, SetScope(p, S, un) PROVE pc[p] = "idle" /\ UNCHANGED locals
  BY <1>16 DEF SetScope
<1> QED
  BY <1>4, <1>5, <1>6, <1>7, <1>8, <1>9, <1>10, <1>11, <1>12, <1>13, <1>14, <1>15, <1>16 DEF Statement

(* Every step of the one process keeps the invariant and its promises.      *)
LEMMA AloneNext ==
  ASSUME AloneInv, [Next]_vars
  PROVE  AloneInv' /\ ReapsHonoured
<1>0. /\ DatabaseInv /\ OnlyTemporaryExpires /\ TtlUnique /\ Alone
      /\ TypeOK /\ \A p \in Procs : InsertAlone(p) /\ TtlAlone(p)
  BY DEF AloneInv, DatabaseInv
<1>1. DatabaseInv'
  BY <1>0, DatabaseNext
<1>2. Alone'
  BY <1>0 DEF Alone
<1>3. ASSUME NEW p \in Procs, Statement(p) PROVE AloneInv' /\ ReapsHonoured
  <2>1. OnlyTemporaryExpires' /\ TtlUnique' /\ ReapsHonoured
    BY <1>3, TtlsAlone
  <2>2. \A i \in Procs : i = p
    BY <1>0 DEF Alone
  <2>3. InsertAlone(p)' /\ TtlAlone(p)'
    BY <1>3, LocalsAlone
  <2>4. \A i \in Procs : InsertAlone(i)' /\ TtlAlone(i)'
    BY <2>2, <2>3
  <2> QED
    BY <1>1, <1>2, <2>1, <2>4 DEF AloneInv
<1>4. ASSUME UNCHANGED <<rows, ttls, seq>>
      PROVE  OnlyTemporaryExpires' /\ TtlUnique'
  <2>1. Kept
    <3>1. \A u \in Tables : seq[u] \in Nat
      BY <1>0, DatabaseAssumption DEF TypeOK
    <3> QED
      BY <1>4, <3>1 DEF Kept, Same
  <2> QED
    BY <1>0, <1>4, <2>1, TtlsShrink
<1>5. ASSUME NEW p \in Procs, NEW o, Insert(p, o) PROVE AloneInv' /\ ReapsHonoured
  <2>1. UNCHANGED <<rows, ttls, seq, now>> /\ pc[p] = "idle" /\ pc'[p] = "lookup"
    BY <1>0, <1>5 DEF Insert, Goto, dbVars, TypeOK
  <2>2. \A i \in Procs : i = p
    BY <1>0 DEF Alone
  <2>3. InsertAlone(p)' /\ TtlAlone(p)'
    BY <2>1 DEF InsertAlone, TtlAlone
  <2>4. \A i \in Procs : InsertAlone(i)' /\ TtlAlone(i)' /\ pc[i] # "reap"
    BY <2>1, <2>2, <2>3
  <2>5. ReapsHonoured
    BY <1>4, <2>1, <2>4 DEF ReapsHonoured
  <2> QED
    BY <1>1, <1>2, <1>4, <2>1, <2>4, <2>5 DEF AloneInv
<1>6. ASSUME UNCHANGED <<rows, ttls, seq, pc, q, found, expire, todo>>, now' \in Nat, now' >= now
      PROVE  AloneInv' /\ ReapsHonoured
  <2>1. \A i \in Procs : InsertAlone(i)'
    BY <1>0, <1>6 DEF InsertAlone, Matches, TtlOf
  <2>2. \A i \in Procs : TtlAlone(i)'
    <3>1. \A x \in ttls : x.expire \in Nat /\ now \in Nat
      BY <1>0 DEF TypeOK, TtlRows
    <3> QED
      BY <1>0, <1>6, <3>1 DEF TtlAlone, TtlOf
  <2>3. ReapsHonoured
    BY <1>4, <1>6 DEF ReapsHonoured
  <2> QED
    BY <1>1, <1>2, <1>4, <1>6, <2>1, <2>2, <2>3 DEF AloneInv
<1>7. CASE Tick
  <2>1. now' \in Nat /\ now' >= now
    BY <1>0, <1>7 DEF Tick, TypeOK
  <2> QED
    BY <1>6, <1>7, <2>1 DEF Tick, dbVars, locals
<1>8. CASE UNCHANGED vars
  <2>1. now' \in Nat /\ now' >= now
    BY <1>0, <1>8 DEF vars, TypeOK
  <2> QED
    BY <1>6, <1>8, <2>1 DEF vars, dbVars, locals
<1> QED
  BY <1>3, <1>5, <1>7, <1>8 DEF Next, Requested

(* The invariant of the one process.                                        *)
LEMMA AloneHolds == Spec /\ Alone => []AloneInv
<1>1. Init /\ Alone => AloneInv
  <2> SUFFICES ASSUME Init, Alone PROVE AloneInv
    OBVIOUS
  <2>1. ttls = {} /\ \A p \in Procs : pc[p] = "idle"
    BY DEF Init
  <2> QED
    BY <2>1, DatabaseInit DEF AloneInv, OnlyTemporaryExpires, TtlUnique, InsertAlone, TtlAlone
<1>2. AloneInv /\ [Next]_vars => AloneInv'
  BY AloneNext
<1> QED
  BY <1>1, <1>2, PTL DEF Spec

(* While one process has the workspace open, an entity that db_add put      *)
(* there never gets an expiry date: the id that is read back is that of the *)
(* row just inserted.  With a second process it can (MCDatabaseStaleId).    *)
THEOREM TemporaryHolds == Spec /\ Alone => []OnlyTemporaryExpires
BY AloneHolds, PTL DEF AloneInv

(* While one process has the workspace open, every db_add_ttl that ends     *)
(* leaves its entity no earlier a date than it was asked for, and           *)
(* reap_expired deletes nothing before its date, for any sequence of        *)
(* inserts, deletes, failures and reaps.                                    *)
THEOREM PromisesHold == Spec /\ Alone => TtlHonoured
<1>1. AloneInv /\ [Next]_vars => [HonouredStep]_vars
  BY AloneNext, AddsKept DEF AddsHonoured, ReapsHonoured, HonouredStep
<1>2. [][HonouredStep]_vars <=> TtlHonoured
  BY DEF HonouredStep, TtlHonoured
<1> QED
  BY <1>1, <1>2, AloneHolds, PTL DEF Spec

-----------------------------------------------------------------------------
(* Images and their blobs.                                                  *)

Images == [at : {"open", "write", "insert"}, image : Requests({"images"})]
Fscks == [at : {"list", "check"}, all : BOOLEAN, refs : SUBSET Keys, todo : SUBSET Keys,
          doomed : SUBSET Keys]

StorageTypes ==
  /\ blobs \in [Keys -> {"none", "torn", "ok"}]
  /\ want \in [Procs -> Images \cup {NoImage}]
  /\ fsck \in [Procs -> Fscks \cup {NoFsck}]
  /\ \A r \in rows : r.key \in Keys
  /\ \A p \in Procs : pc[p] \in {"lookup", "insert"} => q[p].key \in Keys

(* Whose file was written: the key of a row, or of an image that is about   *)
(* to become one.                                                           *)
Written(k) ==
  \/ \E r \in rows : r.key = k
  \/ \E p \in Procs : want[p].at = "insert" /\ want[p].image.key = k
  \/ \E p \in Procs : pc[p] \in {"lookup", "insert"} /\ q[p].key = k

(* The file is there, it is about to be, or the exception was observed.     *)
Safe(k) == blobs[k] = "ok" \/ Writing(k) \/ k \in raced

BlobInv ==
  /\ Overlap \subseteq raced
  /\ \A k \in Keys : Written(k) => Safe(k)
  /\ \A k \in Keys : blobs[k] = "torn" => Writing(k) \/ k \in raced
  /\ \A p \in Procs : want[p].at = "write" =>
       blobs[want[p].image.key] # "none" \/ want[p].image.key \in raced

(* What fsck does not keep is not the key of a row, or has been observed.   *)
FsckInv ==
  \A p \in Procs : fsck[p] # NoFsck =>
    /\ \A r \in rows : r.key \in fsck[p].refs \cup raced
    /\ \A k \in fsck[p].doomed : k \notin fsck[p].refs \/ k \in raced

StorageInv == DatabaseInv /\ StorageTypes /\ BlobInv /\ FsckInv

(* A request for an image is a request, and names a blob.                   *)
LEMMA ImageRequests ==
  ASSUME NEW o \in Requests({"images"})
  PROVE  o \in Requests(Tables) /\ o.key \in Keys /\ o.table = "images"
<1>1. "images" \notin LinkTables
  BY DEF LinkTables, Schema, Entity, Image
<1>2. KeysOf("images") = Keys
  BY <1>1 DEF KeysOf
<1>3. o \in [table : {"images"}, key : KeysOf("images"), refs : Refs("images"),
             attr : AttrsOf("images"), unscoped : BOOLEAN, ttl : Ttls \cup {NoTtl}]
  BY DEF Requests
<1>4. o.key \in Keys /\ o.table = "images"
  BY <1>2, <1>3
<1>5. o \in Requests(Tables)
  BY <1>3, StorageAssumption DEF Requests
<1> QED
  BY <1>4, <1>5

(* Every step is one of the database, or leaves it alone.                   *)
LEMMA StorageIsDatabase ==
  ASSUME StorageInv, [StorageNext]_allVars
  PROVE  [Next]_vars
<1>1. ASSUME NEW p \in Procs, InsertImage(p) PROVE Next
  <2>1. want[p] \in Images
    BY <1>1 DEF InsertImage, NoImage, StorageInv, StorageTypes
  <2>2. want[p].image \in Requests({"images"})
    BY <2>1 DEF Images
  <2>3. Requested(p)
    BY <1>1, <2>2, StorageAssumption DEF InsertImage, Requested
  <2> QED
    BY <2>3 DEF Next
<1>2. ASSUME NEW p \in Procs, DatabaseStep(p) PROVE Next
  BY <1>2 DEF DatabaseStep, Next
<1>3. ASSUME NEW p \in Procs,
             \/ \E o \in Requests({"images"}) : AddImage(p, o)
             \/ SaveOpen(p) \/ SaveWrite(p) \/ SaveCut(p)
             \/ \E all \in BOOLEAN : FsckRefs(p, all)
             \/ FsckList(p) \/ FsckDelete(p) \/ FsckDone(p)
             \/ \E k \in Keys : FsckCheck(p, k)
      PROVE  UNCHANGED vars
  BY <1>3 DEF AddImage, SaveOpen, SaveWrite, SaveCut, Write, FsckRefs, FsckList, FsckDelete,
              FsckDone, FsckCheck
<1>4. CASE UNCHANGED allVars
  BY <1>4 DEF allVars
<1> QED
  BY <1>1, <1>2, <1>3, <1>4 DEF StorageNext

-----------------------------------------------------------------------------
(* The invariant of the blobs.                                              *)

(* What is being added while an fsck runs has been observed.                *)
LEMMA Observed ==
  ASSUME BlobInv, NEW x \in Procs, fsck[x] # NoFsck
  PROVE  /\ \A p \in Procs : want[p] # NoImage => want[p].image.key \in raced
         /\ \A p \in Procs : pc[p] \in {"lookup", "insert"} => q[p].key \in raced
<1>1. Pending \subseteq raced
  BY DEF BlobInv, Overlap
<1> QED
  BY <1>1 DEF Pending

(* A step that writes no file: what is about to have one has it, and what   *)
(* was being written still is, or is observed.                              *)
LEMMA FilesStay ==
  ASSUME BlobInv, StorageTypes', Overlap' \subseteq raced', raced \subseteq raced', UNCHANGED blobs,
         \A k \in Keys : Written(k)' => Written(k),
         \A k \in Keys : Writing(k) => Writing(k)' \/ k \in raced',
         \A p \in Procs : want'[p].at = "write" => want'[p] = want[p]
  PROVE  BlobInv'
<1>1. ASSUME NEW k \in Keys PROVE Safe(k) => Safe(k)'
  BY DEF Safe
<1>2. \A k \in Keys : Written(k)' => Safe(k)'
  BY <1>1 DEF BlobInv
<1>3. \A k \in Keys : blobs'[k] = "torn" => Writing(k)' \/ k \in raced'
  BY DEF BlobInv
<1>4. \A p \in Procs : want'[p].at = "write" =>
        blobs'[want'[p].image.key] # "none" \/ want'[p].image.key \in raced'
  BY DEF BlobInv
<1> QED
  BY <1>2, <1>3, <1>4 DEF BlobInv

(* A step during which an fsck keeps its references.                        *)
LEMMA FsckStays ==
  ASSUME FsckInv, raced \subseteq raced',
         \A y \in rows' : (\E x \in rows : x.key = y.key) \/ y.key \in raced',
         \A p \in Procs : fsck'[p] # NoFsck => fsck'[p] = fsck[p]
  PROVE  FsckInv'
BY DEF FsckInv

(* The steps of db_add of an image.                                         *)
LEMMA SaveKeeps ==
  ASSUME StorageInv, NEW p \in Procs,
         (\E o \in Requests({"images"}) : AddImage(p, o)) \/ SaveCut(p) \/ InsertImage(p)
  PROVE  StorageTypes' /\ BlobInv' /\ FsckInv'
<1>0. StorageTypes /\ BlobInv /\ FsckInv /\ TypeOK
  BY DEF StorageInv, DatabaseInv
<1>1. UNCHANGED <<rows, blobs, fsck>> /\ raced \subseteq raced' /\ Overlap' \subseteq raced'
  BY DEF AddImage, SaveCut, InsertImage, Insert, Observe, vars, dbVars
<1>2. FsckInv'
  BY <1>0, <1>1, FsckStays
<1>3. ASSUME NEW o \in Requests({"images"}), AddImage(p, o) PROVE StorageTypes' /\ BlobInv'
  <2>1. UNCHANGED <<pc, q>>
    BY <1>3 DEF AddImage, vars, locals
  <2>2. /\ want'[p] = [at |-> "open", image |-> o]
        /\ \A i \in Procs : i # p => want'[i] = want[i]
        /\ want' \in [Procs -> Images \cup {NoImage}]
    BY <1>0, <1>3 DEF AddImage, StorageTypes, Images
  <2>3. want'[p].at = "open" /\ want[p].at = "none"
    BY <1>3, <2>2 DEF AddImage, Free, NoImage
  <2>4. StorageTypes'
    BY <1>0, <1>1, <2>1, <2>2 DEF StorageTypes
  <2>5. \A k \in Keys : Written(k)' => Written(k)
    BY <1>1, <2>1, <2>2, <2>3 DEF Written
  <2>6. \A k \in Keys : Writing(k) => Writing(k)'
    BY <2>2, <2>3 DEF Writing
  <2>7. \A i \in Procs : want'[i].at = "write" => want'[i] = want[i]
    BY <2>2, <2>3
  <2> QED
    BY <1>0, <1>1, <2>4, <2>5, <2>6, <2>7, FilesStay
<1>4. CASE SaveCut(p)
  <2>1. UNCHANGED <<pc, q>> /\ want[p].image.key \in raced'
    BY <1>4 DEF SaveCut, Observe, vars, locals
  <2>2. /\ want'[p] = NoImage
        /\ \A i \in Procs : i # p => want'[i] = want[i]
        /\ want' \in [Procs -> Images \cup {NoImage}]
    BY <1>0, <1>4 DEF SaveCut, StorageTypes
  <2>3. want'[p].at = "none"
    BY <2>2 DEF NoImage
  <2>4. StorageTypes'
    BY <1>0, <1>1, <2>1, <2>2 DEF StorageTypes
  <2>5. \A k \in Keys : Written(k)' => Written(k)
    BY <1>1, <2>1, <2>2, <2>3 DEF Written
  <2>6. \A k \in Keys : Writing(k) => Writing(k)' \/ k \in raced'
    BY <2>1, <2>2 DEF Writing
  <2>7. \A i \in Procs : want'[i].at = "write" => want'[i] = want[i]
    BY <2>2, <2>3
  <2> QED
    BY <1>0, <1>1, <1>2, <2>4, <2>5, <2>6, <2>7, FilesStay
<1>5. CASE InsertImage(p)
  <2>0. want[p] \in Images /\ want[p].at = "insert"
    BY <1>0, <1>5 DEF InsertImage, StorageTypes, NoImage
  <2>1. PICK o \in Requests({"images"}) : want[p].image = o /\ o.key \in Keys
    BY <2>0, ImageRequests DEF Images
  <2>2. /\ want'[p] = NoImage
        /\ \A i \in Procs : i # p => want'[i] = want[i]
        /\ want' \in [Procs -> Images \cup {NoImage}]
    BY <1>0, <1>5 DEF InsertImage, StorageTypes
  <2>3. want'[p].at = "none"
    BY <2>2 DEF NoImage
  <2>4. q'[p] = o /\ \A i \in Procs : i # p => q'[i] = q[i] /\ pc'[i] = pc[i]
    BY <1>0, <1>5, <2>1 DEF InsertImage, Insert, Goto, TypeOK
  <2>5. StorageTypes'
    BY <1>0, <1>1, <2>1, <2>2, <2>4 DEF StorageTypes
  <2>6. \A k \in Keys : Written(k)' => Written(k)
    BY <1>1, <2>0, <2>1, <2>2, <2>3, <2>4 DEF Written
  <2>7. \A k \in Keys : Writing(k) => Writing(k)'
    BY <2>0, <2>2 DEF Writing
  <2>8. \A i \in Procs : want'[i].at = "write" => want'[i] = want[i]
    BY <2>2, <2>3
  <2> QED
    BY <1>0, <1>1, <1>2, <2>5, <2>6, <2>7, <2>8, FilesStay
<1> QED
  BY <1>2, <1>3, <1>4, <1>5

(* fs::write: the file is torn while the write runs, and is whole           *)
(* afterwards unless it was removed, which was observed.                    *)
LEMMA WriteKeeps ==
  ASSUME StorageInv, NEW p \in Procs, SaveOpen(p) \/ SaveWrite(p)
  PROVE  StorageTypes' /\ BlobInv' /\ FsckInv'
<1>0. StorageTypes /\ BlobInv /\ FsckInv
  BY DEF StorageInv
<1>1. UNCHANGED <<rows, pc, q, fsck>> /\ Overlap' \subseteq raced'
  BY DEF SaveOpen, SaveWrite, Write, Observe, vars, dbVars, locals
<1>2. want[p] \in Images
  BY <1>0 DEF SaveOpen, SaveWrite, StorageTypes, NoImage
<1>3. PICK o \in Requests({"images"}) : want[p].image = o /\ o.key \in Keys
  BY <1>2, ImageRequests DEF Images
<1>4. ASSUME NEW c \in {"none", "torn", "ok"}, NEW l \in {"write", "insert"}, Write(p, c, l)
      PROVE  /\ want'[p] \in Images /\ want'[p].at = l /\ want'[p].image = o
             /\ \A i \in Procs : i # p => want'[i] = want[i]
             /\ blobs' \in [Keys -> {"none", "torn", "ok"}]
             /\ blobs'[o.key] = c /\ \A k \in Keys : k # o.key => blobs'[k] = blobs[k]
             /\ StorageTypes'
  <2>1. /\ want'[p] \in Images /\ want'[p].at = l /\ want'[p].image = o
        /\ \A i \in Procs : i # p => want'[i] = want[i]
        /\ want' \in [Procs -> Images \cup {NoImage}]
    BY <1>0, <1>2, <1>3, <1>4 DEF Write, StorageTypes, Images
  <2>2. /\ blobs' \in [Keys -> {"none", "torn", "ok"}]
        /\ blobs'[o.key] = c /\ \A k \in Keys : k # o.key => blobs'[k] = blobs[k]
    BY <1>0, <1>3, <1>4 DEF Write, StorageTypes
  <2> QED
    BY <1>0, <1>1, <2>1, <2>2 DEF StorageTypes
<1>5. ASSUME NEW l \in {"write", "insert"}, want'[p] \in Images,
             want'[p].at = l, want'[p].image = o,
             \A i \in Procs : i # p => want'[i] = want[i],
             NEW k \in Keys, k # o.key
      PROVE  /\ Written(k)' <=> Written(k)
             /\ Writing(k)' <=> Writing(k)
  BY <1>1, <1>3, <1>5 DEF Written, Writing
<1>6. CASE SaveOpen(p)
  <2>1. Write(p, "torn", "write") /\ raced \subseteq raced'
    BY <1>6 DEF SaveOpen, Observe
  <2>2. /\ want'[p] \in Images /\ want'[p].at = "write" /\ want'[p].image = o
        /\ \A i \in Procs : i # p => want'[i] = want[i]
        /\ blobs' \in [Keys -> {"none", "torn", "ok"}]
        /\ blobs'[o.key] = "torn" /\ \A k \in Keys : k # o.key => blobs'[k] = blobs[k]
        /\ StorageTypes'
    BY <1>4, <2>1
  <2>3. Writing(o.key)'
    BY <2>2 DEF Writing
  <2>4. ASSUME NEW k \in Keys PROVE /\ Written(k)' => Safe(k)'
                                    /\ blobs'[k] = "torn" => Writing(k)' \/ k \in raced'
    <3>1. CASE k = o.key
      BY <2>3, <3>1 DEF Safe
    <3>2. CASE k # o.key
      <4>1. (Written(k)' <=> Written(k)) /\ (Writing(k)' <=> Writing(k))
        BY <1>5, <2>2, <3>2
      <4> QED
        BY <1>0, <2>1, <2>2, <3>2, <4>1 DEF BlobInv, Safe
    <3> QED
      BY <3>1, <3>2
  <2>5. ASSUME NEW i \in Procs, want'[i].at = "write"
        PROVE  blobs'[want'[i].image.key] # "none" \/ want'[i].image.key \in raced'
    <3>1. CASE i = p
      BY <2>2, <3>1
    <3>2. CASE i # p
      <4>1. want'[i] = want[i] /\ want[i].image.key \in Keys
        <5>1. want'[i] = want[i] /\ want[i] \in Images
          BY <1>0, <2>2, <2>5, <3>2 DEF StorageTypes, NoImage
        <5> QED
          BY <5>1, ImageRequests DEF Images
      <4> QED
        BY <1>0, <2>1, <2>2, <2>5, <4>1 DEF BlobInv
    <3> QED
      BY <3>1, <3>2
  <2>6. BlobInv'
    BY <1>1, <2>4, <2>5 DEF BlobInv
  <2>7. FsckInv'
    BY <1>0, <1>1, <2>1, FsckStays
  <2> QED
    BY <2>2, <2>6, <2>7
<1>7. CASE SaveWrite(p)
  <2> DEFINE c == IF blobs[o.key] = "none" THEN "none" ELSE "ok"
  <2>1. Write(p, c, "insert") /\ raced' = {k \in raced : blobs'[k] # "ok" \/ k # o.key} \cup Overlap'
        /\ c \in {"none", "ok"} /\ (c = "none" <=> blobs[o.key] = "none")
    BY <1>3, <1>7 DEF SaveWrite, Observe
  <2> HIDE DEF c
  <2>2. /\ want'[p] \in Images /\ want'[p].at = "insert" /\ want'[p].image = o
        /\ \A i \in Procs : i # p => want'[i] = want[i]
        /\ blobs' \in [Keys -> {"none", "torn", "ok"}]
        /\ blobs'[o.key] = c /\ \A k \in Keys : k # o.key => blobs'[k] = blobs[k]
        /\ StorageTypes'
    BY <1>4, <2>1
  <2>3. ASSUME NEW x \in Procs, fsck[x] # NoFsck PROVE raced \subseteq raced'
    <3>1. want'[p] # NoImage
      BY <2>2 DEF NoImage
    <3>2. o.key \in Pending'
      BY <2>2, <3>1 DEF Pending
    <3>3. o.key \in Overlap'
      BY <1>1, <2>3, <3>2 DEF Overlap
    <3> QED
      BY <2>1, <3>3
  <2>4. c = "none" => o.key \in raced'
    <3>1. c = "none" => o.key \in raced
      BY <1>0, <1>3, <1>7, <2>1 DEF BlobInv, SaveWrite
    <3> QED
      BY <2>1, <2>2, <3>1
  <2>5. \A k \in Keys : k # o.key => (k \in raced => k \in raced')
    BY <2>1
  <2>6. ASSUME NEW k \in Keys PROVE /\ Written(k)' => Safe(k)'
                                    /\ blobs'[k] = "torn" => Writing(k)' \/ k \in raced'
    <3>1. CASE k = o.key
      BY <2>1, <2>2, <2>4, <3>1 DEF Safe
    <3>2. CASE k # o.key
      <4>1. (Written(k)' <=> Written(k)) /\ (Writing(k)' <=> Writing(k))
        BY <1>5, <2>2, <3>2
      <4> QED
        BY <1>0, <2>2, <2>5, <3>2, <4>1 DEF BlobInv, Safe
    <3> QED
      BY <3>1, <3>2
  <2>7. ASSUME NEW i \in Procs, want'[i].at = "write"
        PROVE  blobs'[want'[i].image.key] # "none" \/ want'[i].image.key \in raced'
    <3>1. want'[i] = want[i] /\ want[i] \in Images
      BY <1>0, <2>2, <2>7 DEF StorageTypes, NoImage
    <3>2. want[i].image.key \in Keys
      BY <3>1, ImageRequests DEF Images
    <3>3. CASE want[i].image.key = o.key
      BY <2>1, <2>2, <2>4, <3>1, <3>3
    <3>4. CASE want[i].image.key # o.key
      BY <1>0, <2>2, <2>5, <2>7, <3>1, <3>2, <3>4 DEF BlobInv
    <3> QED
      BY <3>3, <3>4
  <2>8. BlobInv'
    BY <1>1, <2>6, <2>7 DEF BlobInv
  <2>9. FsckInv'
    BY <1>0, <1>1, <2>3 DEF FsckInv
  <2> QED
    BY <2>2, <2>8, <2>9
<1> QED
  BY <1>6, <1>7

(* fsck up to the deletion: the references are those of all rows, and what  *)
(* is doomed is not among them, or is being written.                        *)
LEMMA FsckKeeps ==
  ASSUME StorageInv, NEW p \in Procs,
         \/ \E all \in BOOLEAN : FsckRefs(p, all)
         \/ FsckList(p) \/ FsckDone(p)
         \/ \E k \in Keys : FsckCheck(p, k)
  PROVE  StorageTypes' /\ BlobInv' /\ FsckInv'
<1>0. StorageTypes /\ BlobInv /\ FsckInv
  BY DEF StorageInv
<1>1. UNCHANGED <<rows, pc, q, blobs, want>> /\ raced \subseteq raced' /\ Overlap' \subseteq raced'
  BY DEF FsckRefs, FsckList, FsckDone, FsckCheck, Observe, vars, dbVars, locals
<1>2. (\A k : Written(k)' <=> Written(k)) /\ (\A k : Writing(k)' <=> Writing(k))
  BY <1>1 DEF Written, Writing
<1>3. SUFFICES fsck' \in [Procs -> Fscks \cup {NoFsck}] /\ FsckInv'
  <2>1. ASSUME fsck' \in [Procs -> Fscks \cup {NoFsck}] PROVE StorageTypes'
    BY <1>0, <1>1, <2>1 DEF StorageTypes
  <2> QED
    BY <1>0, <1>1, <1>2, <2>1, FilesStay
<1>4. ASSUME NEW f \in Fscks \cup {NoFsck}, fsck' = [fsck EXCEPT ![p] = f],
             f # NoFsck => /\ \A r \in rows : r.key \in f.refs \cup raced
                           /\ \A k \in f.doomed : k \notin f.refs \/ k \in raced
      PROVE  fsck' \in [Procs -> Fscks \cup {NoFsck}] /\ FsckInv'
  <2>1. /\ fsck' \in [Procs -> Fscks \cup {NoFsck}] /\ fsck'[p] = f
        /\ \A i \in Procs : i # p => fsck'[i] = fsck[i]
    BY <1>0, <1>4 DEF StorageTypes
  <2> QED
    BY <1>0, <1>1, <1>4, <2>1 DEF FsckInv
<1>5. ASSUME NEW all \in BOOLEAN, FsckRefs(p, all)
      PROVE  fsck' \in [Procs -> Fscks \cup {NoFsck}] /\ FsckInv'
  <2> DEFINE f == [at |-> "list", all |-> all, refs |-> References, todo |-> {}, doomed |-> {}]
  <2>1. f \in Fscks /\ f.refs = References /\ f.doomed = {}
    BY <1>0 DEF Fscks, References, StorageTypes
  <2>2. fsck' = [fsck EXCEPT ![p] = f]
    BY <1>5 DEF FsckRefs
  <2> HIDE DEF f
  <2>3. \A r \in rows : r.key \in f.refs
    BY <2>1 DEF References
  <2> QED
    BY <1>4, <2>1, <2>2, <2>3
<1>6. ASSUME fsck[p].at \in {"list", "check"}
      PROVE  /\ fsck[p] \in Fscks /\ fsck[p] # NoFsck
             /\ \A r \in rows : r.key \in fsck[p].refs \cup raced
             /\ \A k \in fsck[p].doomed : k \notin fsck[p].refs \/ k \in raced
  BY <1>0, <1>6 DEF StorageTypes, NoFsck, FsckInv
<1>7. CASE FsckList(p)
  <2> DEFINE f == [fsck[p] EXCEPT !.at = "check", !.todo = Files]
  <2>0. fsck[p].at \in {"list", "check"}
    BY <1>7 DEF FsckList
  <2>1. f \in Fscks /\ f.refs = fsck[p].refs /\ f.doomed = fsck[p].doomed
    BY <1>6, <2>0 DEF Fscks, Files
  <2>2. fsck' = [fsck EXCEPT ![p] = f]
    BY <1>7 DEF FsckList
  <2> HIDE DEF f
  <2> QED
    BY <1>4, <1>6, <2>0, <2>1, <2>2
<1>8. CASE FsckDone(p)
  BY <1>4, <1>8 DEF FsckDone
<1>9. ASSUME NEW k \in Keys, FsckCheck(p, k)
      PROVE  fsck' \in [Procs -> Fscks \cup {NoFsck}] /\ FsckInv'
  <2> DEFINE doomed == IF Dangling(k, fsck[p]) \/ (Corrupted(k) /\ fsck[p].all) THEN {k} ELSE {}
             f == [fsck[p] EXCEPT !.todo = @ \ {k}, !.doomed = doomed]
  <2>0. fsck[p].at \in {"list", "check"}
    BY <1>9 DEF FsckCheck
  <2>1. f \in Fscks /\ f.refs = fsck[p].refs /\ f.doomed = doomed
    BY <1>6, <2>0 DEF Fscks
  <2>2. fsck' = [fsck EXCEPT ![p] = f]
    BY <1>9 DEF FsckCheck
  <2>3. \A j \in doomed : j \notin fsck[p].refs \/ j \in raced
    <3>1. ASSUME Corrupted(k) PROVE k \in raced
      <4>1. CASE Writing(k)
        <5>1. PICK i \in Procs : want[i].at = "write" /\ want[i].image.key = k
          BY <4>1 DEF Writing
        <5>2. want[i] # NoImage
          BY <5>1 DEF NoImage
        <5> QED
          BY <1>0, <1>6, <2>0, <5>1, <5>2, Observed
      <4> QED
        BY <1>0, <3>1, <4>1 DEF BlobInv, Corrupted
    <3> QED
      BY <3>1 DEF Dangling
  <2> HIDE DEF f, doomed
  <2> QED
    BY <1>4, <1>6, <2>0, <2>1, <2>2, <2>3
<1> QED
  BY <1>5, <1>7, <1>8, <1>9

(* The deletion takes no file that a row refers to, nor one that is about   *)
(* to be referred to, unless it was observed.                               *)
LEMMA DeleteKeeps ==
  ASSUME StorageInv, NEW p \in Procs, FsckDelete(p)
  PROVE  StorageTypes' /\ BlobInv' /\ FsckInv'
<1>0. StorageTypes /\ BlobInv /\ FsckInv
  BY DEF StorageInv
<1>1. UNCHANGED <<rows, pc, q, want>> /\ raced \subseteq raced' /\ Overlap' \subseteq raced'
  BY DEF FsckDelete, Observe, vars, dbVars, locals
<1>2. (\A k : Written(k)' <=> Written(k)) /\ (\A k : Writing(k)' <=> Writing(k))
  BY <1>1 DEF Written, Writing
<1>3. /\ fsck[p] \in Fscks /\ fsck[p] # NoFsck
      /\ \A r \in rows : r.key \in fsck[p].refs \cup raced
      /\ \A k \in fsck[p].doomed : k \notin fsck[p].refs \/ k \in raced
  BY <1>0 DEF FsckDelete, StorageTypes, NoFsck, FsckInv
<1>4. /\ blobs' \in [Keys -> {"none", "torn", "ok"}]
      /\ \A k \in Keys : blobs'[k] = IF k \in fsck[p].doomed THEN "none" ELSE blobs[k]
  BY <1>0 DEF FsckDelete, StorageTypes
<1>5. ASSUME NEW k \in fsck[p].doomed, Written(k) PROVE k \in raced
  <2>1. CASE \E r \in rows : r.key = k
    BY <1>3, <2>1
  <2>2. CASE \E i \in Procs : want[i].at = "insert" /\ want[i].image.key = k
    <3>1. PICK i \in Procs : want[i].at = "insert" /\ want[i].image.key = k
      BY <2>2
    <3>2. want[i] # NoImage
      BY <3>1 DEF NoImage
    <3> QED
      BY <1>0, <1>3, <3>1, <3>2, Observed
  <2>3. CASE \E i \in Procs : pc[i] \in {"lookup", "insert"} /\ q[i].key = k
    BY <1>0, <1>3, <2>3, Observed
  <2> QED
    BY <1>5, <2>1, <2>2, <2>3 DEF Written
<1>6. \A k \in Keys : Written(k)' => Safe(k)'
  <2> SUFFICES ASSUME NEW k \in Keys, Written(k) PROVE Safe(k)'
    BY <1>2
  <2>1. CASE k \in fsck[p].doomed
    BY <1>1, <1>5, <2>1 DEF Safe
  <2>2. CASE k \notin fsck[p].doomed
    BY <1>0, <1>1, <1>2, <1>4, <2>2 DEF Safe, BlobInv
  <2> QED
    BY <2>1, <2>2
<1>7. \A k \in Keys : blobs'[k] = "torn" => Writing(k)' \/ k \in raced'
  BY <1>0, <1>1, <1>2, <1>4 DEF BlobInv
<1>8. ASSUME NEW i \in Procs, want'[i].at = "write" PROVE want'[i].image.key \in raced'
  <2>1. want[i] # NoImage
    BY <1>1, <1>8 DEF NoImage
  <2> QED
    BY <1>0, <1>1, <1>3, <2>1, Observed
<1>9. BlobInv'
  BY <1>1, <1>6, <1>7, <1>8 DEF BlobInv
<1>10. PICK f \in Fscks \cup {NoFsck} :
         /\ fsck' = [fsck EXCEPT ![p] = f]
         /\ f # NoFsck => f.refs = fsck[p].refs /\ f.doomed = {}
  <2> DEFINE g == [fsck[p] EXCEPT !.doomed = {}]
  <2>1. g \in Fscks /\ g.refs = fsck[p].refs /\ g.doomed = {}
    BY <1>3 DEF Fscks
  <2>2. fsck' = [fsck EXCEPT ![p] = g] \/ fsck' = [fsck EXCEPT ![p] = NoFsck]
    BY DEF FsckDelete
  <2> HIDE DEF g
  <2> QED
    BY <2>1, <2>2
<1>11. /\ fsck' \in [Procs -> Fscks \cup {NoFsck}] /\ fsck'[p] = f
       /\ \A i \in Procs : i # p => fsck'[i] = fsck[i]
  BY <1>0, <1>10 DEF StorageTypes
<1>12. FsckInv'
  BY <1>0, <1>1, <1>3, <1>10, <1>11 DEF FsckInv
<1>13. StorageTypes'
  BY <1>0, <1>1, <1>4, <1>11 DEF StorageTypes
<1> QED
  BY <1>9, <1>12, <1>13

(* The statements of the database.                                          *)
LEMMA StatementKeeps ==
  ASSUME StorageInv, NEW p \in Procs, DatabaseStep(p)
  PROVE  StorageTypes' /\ BlobInv' /\ FsckInv'
<1>0. StorageTypes /\ BlobInv /\ FsckInv /\ DatabaseInv /\ TypeOK /\ Statement(p)
  BY DEF StorageInv, DatabaseInv, DatabaseStep
<1>1. UNCHANGED <<blobs, want, fsck>> /\ raced \subseteq raced' /\ Overlap' \subseteq raced'
  BY DEF DatabaseStep, Observe
<1>2. \A y \in rows' : \/ \E x \in rows : x.key = y.key
                       \/ pc[p] = "insert" /\ y.key = q[p].key
  BY <1>0, StatementRows DEF NewRow, Same
<1>3. \A i \in Procs : pc'[i] \in {"lookup", "insert"} =>
        pc[i] \in {"lookup", "insert"} /\ q'[i] = q[i]
  BY <1>0, StatementContinues DEF Continues, Inserting
<1>4. StorageTypes'
  BY <1>0, <1>1, <1>2, <1>3 DEF StorageTypes
<1>5. \A k \in Keys : Written(k)' => Written(k)
  BY <1>1, <1>2, <1>3 DEF Written
<1>6. \A k \in Keys : Writing(k) => Writing(k)'
  BY <1>1 DEF Writing
<1>7. BlobInv'
  BY <1>0, <1>1, <1>4, <1>5, <1>6, FilesStay
<1>8. FsckInv'
  <2>1. ASSUME NEW i \in Procs, fsck'[i] # NoFsck, NEW y \in rows'
        PROVE  y.key \in fsck'[i].refs \cup raced'
    <3>1. CASE \E x \in rows : x.key = y.key
      BY <1>0, <1>1, <2>1, <3>1 DEF FsckInv
    <3>2. CASE pc[p] = "insert" /\ y.key = q[p].key
      BY <1>0, <1>1, <2>1, <3>2, Observed
    <3> QED
      BY <1>2, <3>1, <3>2
  <2> QED
    BY <1>0, <1>1, <2>1 DEF FsckInv
<1> QED
  BY <1>4, <1>7, <1>8

(* Every step keeps the invariant.                                          *)
LEMMA StorageStep ==
  ASSUME StorageInv, [StorageNext]_allVars
  PROVE  StorageInv'
<1>1. DatabaseInv'
  BY StorageIsDatabase, DatabaseNext DEF StorageInv
<1>2. CASE UNCHANGED allVars
  <2>1. UNCHANGED <<rows, pc, q, blobs, want, fsck, raced>>
    BY <1>2 DEF allVars, storageVars, vars, dbVars, locals
  <2>2. StorageTypes'
    BY <2>1 DEF StorageInv, StorageTypes
  <2>3. (\A k : Written(k)' <=> Written(k)) /\ (\A k : Writing(k)' <=> Writing(k)) /\ Overlap' = Overlap
    BY <2>1 DEF Written, Writing, Overlap, Pending
  <2>4. BlobInv'
    BY <2>1, <2>2, <2>3, FilesStay DEF StorageInv, BlobInv
  <2>5. FsckInv'
    BY <2>1 DEF StorageInv, FsckInv
  <2> QED
    BY <1>1, <2>2, <2>4, <2>5 DEF StorageInv
<1>3. CASE StorageNext
  <2>1. PICK p \in Procs :
          \/ \E o \in Requests({"images"}) : AddImage(p, o)
          \/ SaveOpen(p) \/ SaveWrite(p) \/ SaveCut(p) \/ InsertImage(p)
          \/ \E all \in BOOLEAN : FsckRefs(p, all)
          \/ FsckList(p) \/ FsckDelete(p) \/ FsckDone(p)
          \/ \E k \in Keys : FsckCheck(p, k)
          \/ DatabaseStep(p)
    BY <1>3 DEF StorageNext
  <2>2. StorageTypes' /\ BlobInv' /\ FsckInv'
    BY <2>1, SaveKeeps, WriteKeeps, FsckKeeps, DeleteKeeps, StatementKeeps
  <2> QED
    BY <1>1, <2>2 DEF StorageInv
<1> QED
  BY <1>2, <1>3

(* The empty workspace.                                                     *)
LEMMA StorageStart == StorageInit => StorageInv
<1> SUFFICES ASSUME StorageInit PROVE StorageInv
  OBVIOUS
<1>1. DatabaseInv
  BY DatabaseInit DEF StorageInit
<1>2. rows = {} /\ \A p \in Procs : pc[p] = "idle" /\ want[p].at = "none" /\ fsck[p] = NoFsck
  BY DEF StorageInit, Init, NoImage
<1>3. StorageTypes
  BY <1>2 DEF StorageInit, StorageTypes
<1>4. \A k \in Keys : ~Written(k) /\ blobs[k] = "none"
  BY <1>2 DEF StorageInit, Written
<1>5. Overlap = {}
  BY <1>2 DEF Overlap
<1>6. BlobInv
  BY <1>2, <1>4, <1>5 DEF BlobInv
<1>7. FsckInv
  BY <1>2 DEF FsckInv
<1> QED
  BY <1>1, <1>3, <1>6, <1>7 DEF StorageInv

(* The invariant holds in every state.                                      *)
LEMMA StorageHolds == StorageSpec => []StorageInv
BY StorageStart, StorageStep, PTL DEF StorageSpec

(* Every image has its blob, for any number of processes that add, delete   *)
(* and collect at once: BlobStorage::save writes before the row is inserted *)
(* and fsck --gc reads every row before it deletes, so that only an fsck    *)
(* that overlaps an add, or a write cut short, can leave a row without one. *)
THEOREM BlobsHold == StorageSpec => []ImagesHaveBlobs
<1>1. StorageInv => ImagesHaveBlobs
  BY DEF StorageInv, StorageTypes, BlobInv, Written, Safe, ImagesHaveBlobs
<1> QED
  BY <1>1, StorageHolds, PTL

(* The operations on images keep the database's types, and a ttl row never  *)
(* names another entity than it was made for.                               *)
THEOREM StorageKeepsDatabase == StorageSpec => [](TypeOK /\ TtlNamesItsEntity)
<1>1. DatabaseInv => TypeOK /\ TtlNamesItsEntity
  BY DEF DatabaseInv, TtlInv, Remembered, TtlNamesItsEntity, Target
<1> QED
  BY <1>1, StorageHolds, PTL DEF StorageInv

-----------------------------------------------------------------------------
(* The add command.                                                         *)

AddCmds == [todo : Seq([table : Tables, key : Keys]), id : 0 .. MaxId, attr : Vals \cup {Null},
            dry : BOOLEAN]

(* An id names what the entity k belongs to.                                *)
Below(t, i, k) == i \in Ids /\ Remembered(t, i, Root[k])

(* What is left of an add: each name belongs to the one before.             *)
Chained(a) ==
  /\ a \in AddCmds
  /\ a.todo # <<>>
  /\ \A i \in DOMAIN a.todo : a.todo[i].table \notin LinkTables
  /\ \A i \in DOMAIN a.todo : i > 1 =>
       Parents[a.todo[i].table] = {a.todo[i - 1].table} /\ Root[a.todo[i].key] = a.todo[i - 1].key
  /\ a.attr \in AttrsOf(a.todo[Len(a.todo)].table)

(* The first name belongs to the one whose id is known.                     *)
AddOK(a) == Chained(a) /\ \A t \in Parents[a.todo[1].table] : Below(t, a.id, a.todo[1].key)

(* The request of a running insert of something that belongs to others.     *)
RequestOK(p) ==
  pc[p] \in Inserting /\ q[p].table \notin LinkTables =>
    \A t \in Parents[q[p].table] : Below(t, q[p].refs[t], q[p].key)

(* The insert an add runs is of the next name.                              *)
Running(p) ==
  adding[p] # NoAdd /\ pc[p] # "idle" =>
    pc[p] \in Inserting /\ q[p].table = adding[p].todo[1].table /\ q[p].key = adding[p].todo[1].key

CommandInv ==
  /\ group \in Groups
  /\ adding \in [Procs -> AddCmds \cup {NoAdd}]
  /\ \A p \in Procs : adding[p] # NoAdd => AddOK(adding[p])
  /\ \A p \in Procs : RequestOK(p)
  /\ \A p \in Procs : Running(p)

AddInv == DatabaseInv /\ CommandInv /\ BelowItsName

(* What each chain adds: every entity after the one it belongs to.          *)
LEMMA ChainsAre ==
  ASSUME NEW c \in Chains
  PROVE  /\ c \in Seq(DOMAIN Schema) /\ Len(c) \in 1 .. 3
         /\ Parents[c[1]] = {}
         /\ \A i \in 1 .. Len(c) : i > 1 => Parents[c[i]] = {c[i - 1]}
         /\ \A i \in 1 .. Len(c) : c[i] \notin LinkTables
<1>1. DOMAIN Schema = {"domains", "subdomains", "ipaddrs", "subdomain_ipaddrs", "urls", "emails",
                       "phonenumbers", "devices", "networks", "network_devices", "accounts",
                       "breaches", "breach_emails", "images", "ports", "netblocks", "cryptoaddrs"}
  BY DEF Schema
<1>2. LinkTables = {"subdomain_ipaddrs", "network_devices", "breach_emails"}
  BY DEF LinkTables, Schema, Entity, Link, Domain, Subdomain, IpAddr, SubdomainIpAddr, Url, Email,
         PhoneNumber, Device, Network, NetworkDevice, Account, Breach, BreachEmail, Image, Port,
         Netblock, CryptoAddr
<1>3. ASSUME NEW t \in {"domains", "ipaddrs", "emails", "phonenumbers", "devices", "networks",
                        "accounts", "breaches", "netblocks", "cryptoaddrs"}, c = <<t>>
      PROVE  /\ c \in Seq(DOMAIN Schema) /\ Len(c) \in 1 .. 3
             /\ Parents[c[1]] = {}
             /\ \A i \in 1 .. Len(c) : i > 1 => Parents[c[i]] = {c[i - 1]}
             /\ \A i \in 1 .. Len(c) : c[i] \notin LinkTables
  <2>1. t \in DOMAIN Schema /\ Parents[t] = {} /\ t \notin LinkTables
    BY <1>1, <1>2, ParentsAre
  <2> QED
    BY <1>3, <2>1
<1>4. ASSUME NEW t \in DOMAIN Schema, NEW u \in DOMAIN Schema, c = <<t, u>>,
             Parents[t] = {}, Parents[u] = {t}, t \notin LinkTables, u \notin LinkTables
      PROVE  /\ c \in Seq(DOMAIN Schema) /\ Len(c) \in 1 .. 3
             /\ Parents[c[1]] = {}
             /\ \A i \in 1 .. Len(c) : i > 1 => Parents[c[i]] = {c[i - 1]}
             /\ \A i \in 1 .. Len(c) : c[i] \notin LinkTables
  BY <1>4
<1>5. ASSUME c = <<"domains", "subdomains", "urls">>
      PROVE  /\ c \in Seq(DOMAIN Schema) /\ Len(c) \in 1 .. 3
             /\ Parents[c[1]] = {}
             /\ \A i \in 1 .. Len(c) : i > 1 => Parents[c[i]] = {c[i - 1]}
             /\ \A i \in 1 .. Len(c) : c[i] \notin LinkTables
  <2>1. /\ {"domains", "subdomains", "urls"} \subseteq DOMAIN Schema \ LinkTables
        /\ Parents["domains"] = {} /\ Parents["subdomains"] = {"domains"}
        /\ Parents["urls"] = {"subdomains"}
    BY <1>1, <1>2, ParentsAre
  <2> QED
    BY <1>5, <2>1
<1>6. CASE c = <<"domains", "subdomains">>
  BY <1>1, <1>2, <1>4, <1>6, ParentsAre
<1>7. CASE c = <<"ipaddrs", "ports">>
  BY <1>1, <1>2, <1>4, <1>7, ParentsAre
<1> QED
  BY <1>3, <1>5, <1>6, <1>7 DEF Chains, AddDomain, AddSubdomain, AddIpAddr, AddUrl, AddEmail,
     AddPhoneNumber, AddDevice, AddNetwork, AddAccount, AddBreach, AddNetblock, AddPort, AddCryptoAddr

(* The names along a chain: each belongs to the one before.                 *)
LEMMA NamesAre ==
  ASSUME NEW c \in Chains, \A i \in DOMAIN c : c[i] \in Tables, NEW k \in Keys
  PROVE  /\ Names(c, k) \in Seq([table : Tables, key : Keys])
         /\ Len(Names(c, k)) = Len(c) /\ Len(c) \in 1 .. 3
         /\ \A i \in 1 .. Len(c) : Names(c, k)[i].table = c[i]
         /\ \A i \in 1 .. Len(c) : i > 1 => Root[Names(c, k)[i].key] = Names(c, k)[i - 1].key
<1> DEFINE up(n) == CASE n = 0 -> k [] n = 1 -> Root[k] [] n = 2 -> Root[Root[k]]
           N == [i \in 1 .. Len(c) |-> [table |-> c[i], key |-> up(Len(c) - i)]]
<1>1. /\ c \in Seq(DOMAIN Schema) /\ Len(c) \in 1 .. 3
      /\ \A i \in 1 .. Len(c) : c[i] \in Tables
  BY ChainsAre
<1>2. Names(c, k) = N
  BY DEF Names
<1>3. Root[k] \in Keys /\ Root[Root[k]] \in Keys
  BY AddAssumption
<1>4. up(0) = k /\ up(1) = Root[k] /\ up(2) = Root[Root[k]]
  OBVIOUS
<1> HIDE DEF up
<1>5. ASSUME NEW i \in 1 .. Len(c) PROVE up(Len(c) - i) \in Keys
  <2>1. CASE Len(c) - i = 0
    BY <1>4, <2>1
  <2>2. CASE Len(c) - i = 1
    BY <1>3, <1>4, <2>2
  <2>3. CASE Len(c) - i = 2
    BY <1>3, <1>4, <2>3
  <2> QED
    BY <1>1, <2>1, <2>2, <2>3
<1>6. ASSUME NEW i \in 1 .. Len(c), i > 1
      PROVE  Root[up(Len(c) - i)] = up(Len(c) - (i - 1))
  <2>1. CASE Len(c) - i = 0 /\ Len(c) - (i - 1) = 1
    BY <1>4, <2>1
  <2>2. CASE Len(c) - i = 1 /\ Len(c) - (i - 1) = 2
    BY <1>4, <2>2
  <2> QED
    BY <1>1, <1>6, <2>1, <2>2
<1>7. N \in Seq([table : Tables, key : Keys]) /\ Len(N) = Len(c)
  BY <1>1, <1>5
<1>8. \A i \in 1 .. Len(c) : N[i].table = c[i] /\ N[i].key = up(Len(c) - i)
  OBVIOUS
<1>9. \A i \in 1 .. Len(c) : i > 1 => N[i - 1].key = up(Len(c) - (i - 1))
  BY <1>1
<1> HIDE DEF N
<1> QED
  BY <1>1, <1>2, <1>6, <1>7, <1>8, <1>9

-----------------------------------------------------------------------------
(* The steps of an add, and those of others.                                *)

(* An id goes on naming what an entity belongs to.                          *)
LEMMA BelowStays ==
  ASSUME DatabaseInv, DatabaseInv', Kept, NEW t \in Tables, NEW i, NEW k, Below(t, i, k)
  PROVE  Below(t, i, k)'
<1>1. i \in Nat /\ seq[t] \in Nat /\ seq'[t] \in Nat /\ i <= seq[t]
  BY DatabaseAssumption DEF DatabaseInv, TypeOK, Below, Remembered, Ids
<1>2. i <= seq'[t]
  BY <1>1 DEF Kept
<1>3. ASSUME NEW y \in rows', y.table = t, y.id = i PROVE y.key = Root[k]
  BY <1>1, <1>3 DEF Kept, Same, Below, Remembered
<1> QED
  BY <1>2, <1>3 DEF Below, Remembered

(* The tables an entity refers to are tables.                               *)
LEMMA ParentsAreTables ==
  ASSUME NEW t \in Tables, NEW u \in Parents[t]
  PROVE  u \in Tables
BY DatabaseAssumption

(* The names that are left to add.                                          *)
LEMMA NamesLeft ==
  ASSUME NEW s \in Seq([table : Tables, key : Keys]), s # <<>>
  PROVE  /\ Len(s) \in Nat \ {0} /\ DOMAIN s = 1 .. Len(s)
         /\ s[1].table \in Tables /\ s[1].key \in Keys
         /\ s[Len(s)].table \in Tables
<1>1. Len(s) \in Nat \ {0} /\ DOMAIN s = 1 .. Len(s)
  BY EmptySeq
<1>2. s[1] \in [table : Tables, key : Keys] /\ s[Len(s)] \in [table : Tables, key : Keys]
  <2> DEFINE N == [table : Tables, key : Keys]
  <2>1. s \in Seq(N)
    OBVIOUS
  <2> HIDE DEF N
  <2>2. s[1] \in N /\ s[Len(s)] \in N
    BY <1>1, <2>1, ElementOfSeq
  <2> QED
    BY <2>2 DEF N
<1> QED
  BY <1>1, <1>2

(* What is left of an add stays right.                                      *)
LEMMA AddOKStays ==
  ASSUME DatabaseInv, DatabaseInv', Kept, NEW a, AddOK(a)
  PROVE  AddOK(a)'
<1>1. a.todo \in Seq([table : Tables, key : Keys]) /\ a.todo # <<>>
  BY DEF AddOK, Chained, AddCmds
<1>2. a.todo[1].table \in Tables
  BY <1>1, NamesLeft
<1>3. \A t \in Parents[a.todo[1].table] : Below(t, a.id, a.todo[1].key)'
  BY <1>2, BelowStays, ParentsAreTables DEF AddOK
<1> QED
  BY <1>3 DEF AddOK

(* The request of an insert that goes on stays right.                       *)
LEMMA RequestStays ==
  ASSUME DatabaseInv, DatabaseInv', Kept, CommandInv, NEW p \in Procs,
         pc'[p] \in Inserting => pc[p] \in Inserting /\ q'[p] = q[p]
  PROVE  RequestOK(p)'
<1> SUFFICES ASSUME pc'[p] \in Inserting, q'[p].table \notin LinkTables,
                    NEW t \in Parents[q'[p].table]
             PROVE  Below(t, q[p].refs[t], q[p].key)'
  BY DEF RequestOK
<1>1. PICK o \in Requests(Tables) : q[p] = o /\ q'[p] = o
  BY DEF DatabaseInv, LocalInv
<1>2. PICK n : n = o.refs[t]
  OBVIOUS
<1>3. PICK k : k = o.key
  OBVIOUS
<1>4. Below(t, n, k)
  BY <1>1, <1>2, <1>3 DEF CommandInv, RequestOK
<1>5. t \in Tables
  BY <1>1, RequestFields, ParentsAreTables
<1>6. Below(t, n, k)'
  BY <1>4, <1>5, BelowStays
<1> QED
  BY <1>1, <1>2, <1>3, <1>6 DEF Below, Remembered

(* What is left to show for a step of process p.                            *)
LEMMA CommandKeeps ==
  ASSUME AddInv, DatabaseInv', Kept, NEW p \in Procs, UNCHANGED group,
         NEW a \in AddCmds \cup {NoAdd}, adding' = [adding EXCEPT ![p] = a],
         \A i \in Procs : i # p => pc'[i] = pc[i] /\ q'[i] = q[i],
         a # NoAdd => AddOK(a)', RequestOK(p)', Running(p)'
  PROVE  CommandInv'
<1>0. DatabaseInv /\ CommandInv
  BY DEF AddInv
<1>1. /\ adding' \in [Procs -> AddCmds \cup {NoAdd}] /\ adding'[p] = a
      /\ \A i \in Procs : i # p => adding'[i] = adding[i]
  BY <1>0 DEF CommandInv
<1>2. ASSUME NEW i \in Procs, i # p
      PROVE  (adding'[i] # NoAdd => AddOK(adding[i])') /\ RequestOK(i)' /\ Running(i)'
  <2>1. adding'[i] = adding[i] /\ pc'[i] = pc[i] /\ q'[i] = q[i]
    BY <1>1, <1>2
  <2>2. Running(i)'
    BY <1>0, <2>1 DEF CommandInv, Running
  <2>3. PICK b : adding[i] = b
    OBVIOUS
  <2>4. b # NoAdd => AddOK(b)
    BY <1>0, <2>3 DEF CommandInv
  <2>5. b # NoAdd => AddOK(b)'
    BY <1>0, <2>4, AddOKStays
  <2>6. adding'[i] # NoAdd => AddOK(adding[i])'
    <3>1. adding'[i] = b
      BY <2>1, <2>3
    <3> QED
      BY <2>5, <3>1, Zenon DEF AddOK, Below, Remembered
  <2>7. RequestOK(i)'
    BY <1>0, <2>1, RequestStays
  <2> QED
    BY <2>2, <2>6, <2>7
<1>3. adding'[p] # NoAdd => AddOK(adding[p])'
  BY <1>1 DEF AddOK, Below, Remembered
<1>4. group' \in Groups
  BY <1>0 DEF CommandInv
<1>5. \A i \in Procs : (adding'[i] # NoAdd => AddOK(adding[i])') /\ RequestOK(i)' /\ Running(i)'
  BY <1>2, <1>3
<1> QED
  BY <1>1, <1>4, <1>5 DEF CommandInv

(* Steps that leave the database alone.                                     *)
LEMMA NothingMoves ==
  ASSUME DatabaseInv, UNCHANGED vars
  PROVE  /\ DatabaseInv' /\ Kept
         /\ UNCHANGED <<rows, seq, pc, q>>
<1>1. DatabaseInv'
  BY DatabaseNext
<1>2. UNCHANGED <<rows, seq, pc, q>>
  BY DEF vars, dbVars, locals
<1>3. \A t \in Tables : seq[t] \in Nat
  BY DatabaseAssumption DEF DatabaseInv, TypeOK
<1> QED
  BY <1>1, <1>2, <1>3 DEF Kept, Same

(* Args::run begins with the entity that belongs to nothing.                *)
LEMMA AddCmdKeeps ==
  ASSUME AddInv, NEW p \in Procs, NEW c \in Chains \cap group.chains, NEW k \in group.keys,
         NEW attr \in Vals \cup {Null}, NEW dry \in BOOLEAN, AddCmd(p, c, k, attr, dry)
  PROVE  CommandInv'
<1>0. DatabaseInv /\ CommandInv /\ UNCHANGED vars /\ UNCHANGED group /\ pc[p] = "idle"
  BY DEF AddInv, AddCmd
<1>1. DatabaseInv' /\ Kept /\ UNCHANGED <<rows, seq, pc, q>>
  BY <1>0, NothingMoves
<1>2. k \in Keys /\ \A i \in DOMAIN c : c[i] \in Tables
  BY <1>0, AddAssumption DEF CommandInv
<1> DEFINE names == Names(c, k)
           a == [todo |-> names, id |-> 0, attr |-> attr, dry |-> dry]
<1>3. /\ names \in Seq([table : Tables, key : Keys])
      /\ Len(names) = Len(c) /\ Len(c) \in 1 .. 3
      /\ \A i \in 1 .. Len(c) : names[i].table = c[i]
      /\ \A i \in 1 .. Len(c) : i > 1 => Root[names[i].key] = names[i - 1].key
  BY <1>2, NamesAre
<1>4. adding' = [adding EXCEPT ![p] = a] /\ attr \in ColumnsOf(c)
  BY DEF AddCmd
<1> HIDE DEF names
<1>5. names # <<>> /\ DOMAIN names = 1 .. Len(c)
  BY <1>3
<1>6. \A i \in 1 .. Len(c) : names[i].table \notin LinkTables
  BY <1>3, ChainsAre
<1>7. ASSUME NEW i \in 1 .. Len(c), i > 1
      PROVE  Parents[names[i].table] = {names[i - 1].table} /\ Root[names[i].key] = names[i - 1].key
  <2>1. i - 1 \in 1 .. Len(c)
    BY <1>3, <1>7
  <2> QED
    BY <1>3, <1>7, <2>1, ChainsAre
<1>8. attr \in AttrsOf(names[Len(names)].table)
  <2>1. names[Len(names)].table = c[Len(c)]
    BY <1>3
  <2> QED
    BY <1>4, <2>1 DEF ColumnsOf, AttrsOf
<1>9. Parents[names[1].table] = {}
  BY <1>3, ChainsAre
<1>10. a \in AddCmds /\ a.todo = names /\ a.attr = attr
  BY <1>3, DatabaseAssumption DEF AddCmds
<1> HIDE DEF a
<1>11. Chained(a)
  BY <1>5, <1>6, <1>7, <1>8, <1>10 DEF Chained
<1>12. AddOK(a)'
  BY <1>9, <1>10, <1>11 DEF AddOK
<1>13. RequestOK(p)' /\ Running(p)'
  BY <1>0, <1>1 DEF RequestOK, Running, Inserting
<1> QED
  BY <1>0, <1>1, <1>4, <1>10, <1>12, <1>13, CommandKeeps

(* The next insert is below the id that was found for the one before.       *)
LEMMA AddInsertKeeps ==
  ASSUME AddInv, NEW p \in Procs, NEW unscoped \in BOOLEAN, AddInsert(p, unscoped)
  PROVE  [Next]_vars /\ CommandInv'
<1>0. DatabaseInv /\ CommandInv /\ UNCHANGED group /\ pc[p] = "idle" /\ TypeOK
  BY DEF AddInv, AddInsert, DatabaseInv
<1>1. PICK a : adding[p] = a /\ a # NoAdd
  BY DEF AddInsert
<1>2. AddOK(a) /\ Chained(a) /\ a \in AddCmds /\ a.todo # <<>>
  BY <1>0, <1>1 DEF CommandInv, AddOK, Chained
<1>3. a.todo \in Seq([table : Tables, key : Keys])
  BY <1>2 DEF AddCmds
<1>4. PICK t \in Tables : t = a.todo[1].table
  BY <1>2, <1>3, NamesLeft
<1>5. PICK k \in Keys : k = a.todo[1].key
  BY <1>2, <1>3, NamesLeft
<1>6. Head(a.todo) = a.todo[1]
  BY <1>2, <1>3
<1>7. CASE AddDone(p) /\ UNCHANGED vars
  <2>1. DatabaseInv' /\ Kept /\ UNCHANGED <<rows, seq, pc, q>>
    BY <1>0, <1>7, NothingMoves
  <2>2. RequestOK(p)' /\ Running(p)'
    BY <1>0, <2>1 DEF RequestOK, Running, Inserting
  <2>3. CommandInv'
    BY <1>0, <1>7, <2>1, <2>2, CommandKeeps DEF AddDone
  <2> QED
    BY <1>7, <2>3
<1>8. ASSUME NEW v, v = IF Named(p) THEN a.attr ELSE Null,
             Insert(p, [table |-> t, key |-> k, refs |-> [u \in Parents[t] |-> a.id],
                        attr |-> v, unscoped |-> unscoped, ttl |-> NoTtl]),
             UNCHANGED adding
      PROVE  [Next]_vars /\ CommandInv'
  <2> DEFINE o == [table |-> t, key |-> k, refs |-> [u \in Parents[t] |-> a.id],
                   attr |-> v, unscoped |-> unscoped, ttl |-> NoTtl]
  <2>1. v \in AttrsOf(t)
    <3>1. CASE Named(p)
      <4>1. Len(a.todo) = 1
        BY <1>1, <3>1 DEF Named
      <4> QED
        BY <1>2, <1>4, <1>8, <3>1, <4>1 DEF Chained
    <3>2. CASE ~Named(p)
      BY <1>8, <3>2 DEF AttrsOf
    <3> QED
      BY <3>1, <3>2
  <2>2. t \notin LinkTables
    <3>1. 1 \in DOMAIN a.todo
      BY <1>2, <1>3, NamesLeft
    <3> QED
      BY <1>2, <1>4, <3>1 DEF Chained
  <2>3. k \in KeysOf(t)
    BY <2>2 DEF KeysOf
  <2>4. \A u \in Parents[t] : Below(u, a.id, k)
    BY <1>2, <1>4, <1>5 DEF AddOK
  <2>5. [u \in Parents[t] |-> a.id] \in Refs(t)
    BY <2>4 DEF Refs, Below
  <2>6. o \in Requests({t}) /\ o.table = t /\ o.key = k /\ \A u \in Parents[t] : o.refs[u] = a.id
    BY <2>1, <2>3, <2>5 DEF Requests
  <2>7. Insert(p, o)
    BY <1>8
  <2> HIDE DEF o
  <2>8. Next
    BY <2>6, <2>7 DEF Requested, Next
  <2>9. DatabaseInv'
    BY <1>0, <2>8, DatabaseNext
  <2>10. UNCHANGED <<rows, seq>> /\ q' = [q EXCEPT ![p] = o] /\ pc' = [pc EXCEPT ![p] = "lookup"]
    BY <2>7 DEF Insert, dbVars, Goto
  <2>11. Kept
    <3>1. \A u \in Tables : seq[u] \in Nat
      BY <1>0, DatabaseAssumption DEF TypeOK
    <3> QED
      BY <2>10, <3>1 DEF Kept, Same
  <2>12. /\ q'[p] = o /\ pc'[p] = "lookup"
         /\ \A i \in Procs : i # p => pc'[i] = pc[i] /\ q'[i] = q[i]
    BY <1>0, <2>10 DEF TypeOK
  <2>13. adding' = [adding EXCEPT ![p] = a] /\ adding'[p] = a
    BY <1>0, <1>1, <1>8 DEF CommandInv
  <2>14. AddOK(a)'
    BY <1>0, <1>2, <2>9, <2>11, AddOKStays
  <2>15. Running(p)'
    BY <1>4, <1>5, <2>6, <2>12, <2>13 DEF Running, Inserting
  <2>16. RequestOK(p)'
    <3> SUFFICES ASSUME NEW u \in Parents[t] PROVE Below(u, q[p].refs[u], q[p].key)'
      BY <2>6, <2>12 DEF RequestOK
    <3>1. Below(u, a.id, k)
      BY <2>4
    <3>2. q'[p].refs[u] = a.id /\ q'[p].key = k
      BY <2>6, <2>12
    <3> QED
      BY <2>10, <3>1, <3>2 DEF Below, Remembered
  <2>17. CommandInv'
    BY <1>0, <1>2, <2>9, <2>11, <2>12, <2>13, <2>14, <2>15, <2>16, CommandKeeps
  <2> QED
    BY <2>8, <2>17
<1> QED
  <2>1. \/ AddDone(p) /\ UNCHANGED vars
        \/ /\ Insert(p, [table |-> Head(a.todo).table, key |-> Head(a.todo).key,
                         refs |-> [u \in Parents[Head(a.todo).table] |-> a.id],
                         attr |-> IF Named(p) THEN a.attr ELSE Null,
                         unscoped |-> unscoped, ttl |-> NoTtl])
           /\ UNCHANGED adding
    BY <1>1 DEF AddInsert
  <2> QED
    BY <1>4, <1>5, <1>6, <1>7, <1>8, <2>1

(* The answer of insert_struct is the id of what was asked for.             *)
LEMMA AnswersName ==
  ASSUME DatabaseInv, NEW p \in Procs, pc[p] \in Inserting, NEW id \in Answers(p)
  PROVE  id \in Ids /\ Remembered(q[p].table, id, q[p].key)
<1>1. PICK o \in Requests(Tables) : q[p] = o
  BY DEF DatabaseInv, LocalInv
<1>2. CASE pc[p] \in {"lookup", "getid"}
  <2>1. PICK r \in rows : Matches(r, o) /\ id = r.id
    BY <1>1, <1>2 DEF Answers
  <2> QED
    BY <1>1, <2>1, MatchRemembered
<1>3. CASE pc[p] = "update"
  BY <1>3 DEF Answers, DatabaseInv, LocalInv
<1> QED
  BY <1>2, <1>3 DEF Answers

(* What is left after the first name is added.                              *)
LEMMA NextName ==
  ASSUME NEW a, Chained(a), Len(a.todo) # 1, NEW id \in Ids
  PROVE  LET b == [a EXCEPT !.todo = Tail(@), !.id = id] IN
           /\ b \in AddCmds /\ Chained(b) /\ b.id = id /\ b.todo = Tail(a.todo)
           /\ Parents[b.todo[1].table] = {a.todo[1].table}
           /\ Root[b.todo[1].key] = a.todo[1].key
<1> DEFINE b == [a EXCEPT !.todo = Tail(@), !.id = id]
           N == [table : Tables, key : Keys]
           s == a.todo
<1>1. s \in Seq(N) /\ s # <<>> /\ a \in AddCmds
  BY DEF Chained, AddCmds
<1>2. Len(s) \in Nat \ {0} /\ DOMAIN s = 1 .. Len(s)
  BY <1>1, NamesLeft
<1>3. Len(s) > 1
  <2>1. Len(s) # 1
    OBVIOUS
  <2> HIDE DEF s
  <2> QED
    BY <1>2, <2>1
<1>4. /\ \A i \in DOMAIN s : s[i].table \notin LinkTables
      /\ \A i \in DOMAIN s : i > 1 => Parents[s[i].table] = {s[i - 1].table} /\ Root[s[i].key] = s[i - 1].key
      /\ a.attr \in AttrsOf(s[Len(s)].table)
  BY DEF Chained
<1>5. Tail(s) \in Seq(N) /\ Len(Tail(s)) = Len(s) - 1 /\ \A i \in 1 .. Len(s) - 1 : Tail(s)[i] = s[i + 1]
  <2> HIDE DEF N, s
  <2> QED
    BY <1>1, <1>2
<1>6. b \in AddCmds /\ b.id = id /\ b.todo = Tail(s) /\ b.attr = a.attr
  <2>1. Ids \subseteq 0 .. MaxId
    BY DatabaseAssumption DEF Ids
  <2> QED
    BY <1>1, <1>5, <2>1 DEF AddCmds
<1> HIDE DEF b, s, N
<1>7. Tail(s) # <<>> /\ DOMAIN Tail(s) = 1 .. Len(s) - 1
  <2>1. DOMAIN Tail(s) = 1 .. Len(Tail(s)) /\ Len(<<>>) = 0
    BY <1>5, LenProperties, EmptySeq
  <2>2. Len(Tail(s)) # 0
    BY <1>2, <1>3, <1>5
  <2>3. Tail(s) # <<>>
    BY <2>1, <2>2, Zenon
  <2> QED
    BY <1>5, <2>1, <2>3, Zenon
<1>8. \A i \in DOMAIN Tail(s) : Tail(s)[i].table \notin LinkTables
  BY <1>2, <1>4, <1>5, <1>7
<1>9. ASSUME NEW i \in DOMAIN Tail(s), i > 1
      PROVE  Parents[Tail(s)[i].table] = {Tail(s)[i - 1].table} /\ Root[Tail(s)[i].key] = Tail(s)[i - 1].key
  <2>1. i \in 1 .. Len(s) - 1 /\ i - 1 \in 1 .. Len(s) - 1 /\ i + 1 \in DOMAIN s /\ i + 1 > 1 /\ (i + 1) - 1 = i
        /\ (i - 1) + 1 = i
    BY <1>2, <1>7, <1>9
  <2>2. Tail(s)[i] = s[i + 1] /\ Tail(s)[i - 1] = s[i]
    BY <1>5, <2>1
  <2>3. Parents[s[i + 1].table] = {s[(i + 1) - 1].table} /\ Root[s[i + 1].key] = s[(i + 1) - 1].key
    BY <1>4, <2>1
  <2> QED
    BY <2>1, <2>2, <2>3
<1>10. Tail(s)[Len(Tail(s))] = s[Len(s)]
  BY <1>2, <1>3, <1>5
<1>11. Parents[Tail(s)[1].table] = {s[1].table} /\ Root[Tail(s)[1].key] = s[1].key
  <2>1. Tail(s)[1] = s[2] /\ 2 \in DOMAIN s /\ 2 - 1 = 1
    BY <1>2, <1>3, <1>5
  <2>2. Parents[s[2].table] = {s[2 - 1].table} /\ Root[s[2].key] = s[2 - 1].key
    BY <1>4, <2>1
  <2> QED
    BY <2>1, <2>2
<1>12. Chained(b)
  BY <1>4, <1>6, <1>7, <1>8, <1>9, <1>10 DEF Chained
<1> QED
  BY <1>6, <1>11, <1>12 DEF b, s

(* A statement of an add: the id it answers with is that of the name just   *)
(* added, and the next name belongs to it.                                  *)
LEMMA AddStepKeeps ==
  ASSUME AddInv, NEW p \in Procs, AddStep(p)
  PROVE  Statement(p) /\ CommandInv'
<1>0. DatabaseInv /\ CommandInv /\ UNCHANGED group /\ Statement(p)
  BY DEF AddInv, AddStep, Statement
<1>1. DatabaseInv' /\ Kept /\ Continues(p)
  BY <1>0, StatementKept
<1>2. PICK a : adding[p] = a /\ a # NoAdd
  BY DEF AddStep
<1>3. AddOK(a) /\ Chained(a) /\ a \in AddCmds
  BY <1>0, <1>2 DEF CommandInv, AddOK, Chained
<1>4. pc[p] \in Inserting /\ q[p].table = a.todo[1].table /\ q[p].key = a.todo[1].key
  <2>1. pc[p] # "idle"
    BY DEF AddStep, Lookup, InsertRow, GetId, UpdateRow
  <2> QED
    BY <1>0, <1>2, <2>1 DEF CommandInv, Running
<1>5. RequestOK(p)'
  BY <1>0, <1>1, RequestStays DEF Continues
<1>6. \A i \in Procs : i # p => pc'[i] = pc[i] /\ q'[i] = q[i]
  BY <1>1 DEF Continues
<1>7. CASE UNCHANGED adding
  <2>1. adding' = [adding EXCEPT ![p] = a] /\ adding'[p] = a
    BY <1>0, <1>2, <1>7 DEF CommandInv
  <2>2. AddOK(a)'
    BY <1>0, <1>1, <1>3, AddOKStays
  <2>3. Running(p)'
    BY <1>1, <1>4, <2>1 DEF Running, Continues
  <2> QED
    BY <1>0, <1>1, <1>3, <1>5, <1>6, <2>1, <2>2, <2>3, CommandKeeps
<1>8. CASE AddDone(p)
  <2>1. adding' = [adding EXCEPT ![p] = NoAdd] /\ adding'[p] = NoAdd
    BY <1>0, <1>8 DEF AddDone, CommandInv
  <2>2. Running(p)'
    BY <2>1 DEF Running
  <2> QED
    BY <1>0, <1>1, <1>5, <1>6, <2>1, <2>2, CommandKeeps
<1>9. ASSUME pc'[p] = "idle", ~Named(p), NEW id \in Answers(p),
             adding' = [adding EXCEPT ![p].todo = Tail(@), ![p].id = id]
      PROVE  CommandInv'
  <2> DEFINE b == [a EXCEPT !.todo = Tail(@), !.id = id]
  <2>1. id \in Ids /\ Remembered(q[p].table, id, q[p].key)
    BY <1>0, <1>4, <1>9, AnswersName
  <2>2. Len(a.todo) # 1
    BY <1>2, <1>9 DEF Named
  <2>3. /\ b \in AddCmds /\ Chained(b) /\ b.id = id /\ b.todo = Tail(a.todo)
        /\ Parents[b.todo[1].table] = {a.todo[1].table}
        /\ Root[b.todo[1].key] = a.todo[1].key
    BY <1>3, <2>1, <2>2, NextName
  <2>4. adding' = [adding EXCEPT ![p] = b]
    BY <1>2, <1>9
  <2>5. PICK t \in Tables : t = a.todo[1].table
    <3>1. a.todo \in Seq([table : Tables, key : Keys]) /\ a.todo # <<>>
      BY <1>3 DEF Chained, AddCmds
    <3> QED
      BY <3>1, NamesLeft
  <2> HIDE DEF b
  <2>6. PICK k : k = b.todo[1].key
    OBVIOUS
  <2>7. Below(t, id, k)
    BY <1>4, <2>1, <2>3, <2>5, <2>6 DEF Below, Remembered
  <2>8. Below(t, id, k)'
    BY <1>0, <1>1, <2>5, <2>7, BelowStays
  <2>9. AddOK(b)'
    BY <2>3, <2>5, <2>6, <2>8 DEF AddOK
  <2>10. Running(p)'
    BY <1>9 DEF Running
  <2> QED
    BY <1>0, <1>1, <1>5, <1>6, <2>3, <2>4, <2>9, <2>10, CommandKeeps
<1>10. \/ UNCHANGED adding \/ AddDone(p)
       \/ /\ pc'[p] = "idle" /\ ~Named(p)
          /\ \E id \in Answers(p) : adding' = [adding EXCEPT ![p].todo = Tail(@), ![p].id = id]
  BY DEF AddStep
<1> QED
  BY <1>0, <1>7, <1>8, <1>9, <1>10

(* A failed add leaves what it has added.                                   *)
LEMMA AddFailsKeeps ==
  ASSUME AddInv, NEW p \in Procs, AddFails(p)
  PROVE  CommandInv'
<1>0. DatabaseInv /\ CommandInv /\ UNCHANGED vars /\ UNCHANGED group /\ pc[p] = "idle"
  BY DEF AddInv, AddFails
<1>1. DatabaseInv' /\ Kept /\ UNCHANGED <<rows, seq, pc, q>>
  BY <1>0, NothingMoves
<1>2. RequestOK(p)' /\ Running(p)'
  BY <1>0, <1>1 DEF RequestOK, Running, Inserting
<1> QED
  BY <1>0, <1>1, <1>2, CommandKeeps DEF AddFails, AddDone

(* Scripts and the other commands.                                          *)
LEMMA OtherwiseKeeps ==
  ASSUME AddInv, NEW p \in Procs, OtherwiseStep(p)
  PROVE  [Next]_vars /\ CommandInv'
<1>0. /\ DatabaseInv /\ CommandInv /\ UNCHANGED group /\ UNCHANGED adding /\ adding[p] = NoAdd
      /\ TypeOK
  BY DEF AddInv, OtherwiseStep, addVars, DatabaseInv
<1>1. adding' = [adding EXCEPT ![p] = NoAdd] /\ adding'[p] = NoAdd
  BY <1>0 DEF CommandInv
<1>2. Running(p)'
  BY <1>1 DEF Running
<1>3. CASE Statement(p)
  <2>1. DatabaseInv' /\ Kept /\ Continues(p)
    BY <1>0, <1>3, StatementKept
  <2>2. RequestOK(p)'
    BY <1>0, <2>1, RequestStays DEF Continues
  <2>3. \A i \in Procs : i # p => pc'[i] = pc[i] /\ q'[i] = q[i]
    BY <2>1 DEF Continues
  <2>4. CommandInv'
    BY <1>0, <1>1, <1>2, <2>1, <2>2, <2>3, CommandKeeps
  <2> QED
    BY <1>3, <2>4 DEF Next
<1>4. ASSUME NEW t \in group.tables, NEW o \in Requests({t}), t \in LinkTables \/ Parents[t] = {},
             Insert(p, o)
      PROVE  [Next]_vars /\ CommandInv'
  <2>1. t \in Tables
    BY <1>0, AddAssumption DEF CommandInv
  <2>2. o.table = t
    BY DEF Requests
  <2>3. Next
    BY <1>4, <2>1 DEF Requested, Next
  <2>4. DatabaseInv'
    BY <1>0, <2>3, DatabaseNext
  <2>5. UNCHANGED <<rows, seq>> /\ q' = [q EXCEPT ![p] = o] /\ pc' = [pc EXCEPT ![p] = "lookup"]
    BY <1>4 DEF Insert, dbVars, Goto
  <2>6. Kept
    <3>1. \A u \in Tables : seq[u] \in Nat
      BY <1>0, DatabaseAssumption DEF TypeOK
    <3> QED
      BY <2>5, <3>1 DEF Kept, Same
  <2>7. /\ q'[p] = o
        /\ \A i \in Procs : i # p => pc'[i] = pc[i] /\ q'[i] = q[i]
    BY <1>0, <2>5 DEF TypeOK
  <2>8. RequestOK(p)'
    BY <1>4, <2>2, <2>7 DEF RequestOK
  <2>9. CommandInv'
    BY <1>0, <1>1, <1>2, <2>4, <2>6, <2>7, <2>8, CommandKeeps
  <2> QED
    BY <2>3, <2>9
<1> QED
  BY <1>3, <1>4 DEF OtherwiseStep

(* A new row is below the one its name says, and a new id is not the one    *)
(* any row refers to.                                                       *)
LEMMA BelowKept ==
  ASSUME AddInv, NEW p \in Procs, Statement(p)
  PROVE  BelowItsName'
<1>0. DatabaseInv /\ CommandInv /\ BelowItsName /\ RowsOK
  BY DEF AddInv, DatabaseInv, TypeOK, RowsOK
<1>1. \A y \in rows' : NewRow(p, y) \/ \E x \in rows : Same(x, y)
  BY <1>0, StatementRows
<1>2. SUFFICES ASSUME NEW r \in rows', r.table \notin LinkTables, NEW t \in Parents[r.table],
                      NEW x \in rows', x.table = t, x.id = r.refs[t]
               PROVE  x.key = Root[r.key]
  BY DEF BelowItsName
<1>3. ASSUME r.refs[t] \in Nat, t \in Tables, r.refs[t] <= seq[t] PROVE \E y \in rows : Same(y, x)
  <2>1. seq[t] \in Nat
    BY <1>0, <1>3, DatabaseAssumption DEF RowsOK
  <2> QED
    BY <1>1, <1>2, <1>3, <2>1 DEF NewRow
<1>4. CASE NewRow(p, r)
  <2>1. PICK o \in Requests(Tables) : q[p] = o
    BY <1>0, <1>4 DEF NewRow, DatabaseInv, LocalInv, Inserting
  <2>2. r.table = o.table /\ r.key = o.key /\ r.refs = o.refs /\ pc[p] = "insert"
    BY <1>4, <2>1 DEF NewRow
  <2>3. Below(t, r.refs[t], r.key)
    BY <1>0, <1>2, <2>1, <2>2 DEF CommandInv, RequestOK, Inserting
  <2>4. t \in Tables
    BY <1>2, <2>2, RequestFields, ParentsAreTables
  <2>5. PICK y \in rows : Same(y, x)
    BY <1>3, <2>3, <2>4, DatabaseAssumption DEF Below, Remembered, Ids
  <2> QED
    BY <1>2, <2>3, <2>5 DEF Below, Remembered, Same
<1>5. ASSUME NEW s \in rows, Same(s, r) PROVE x.key = Root[r.key]
  <2>1. s.table = r.table /\ s.refs = r.refs /\ s.key = r.key /\ s \in Rows(Tables)
    BY <1>0, <1>5 DEF Same, RowsOK
  <2>2. t \in Tables
    BY <1>2, <2>1, RowFields, ParentsAreTables
  <2>3. PICK z \in rows : z.table = t /\ z.id = r.refs[t]
    BY <1>0, <1>2, <2>1 DEF DatabaseInv, ReferentialIntegrity, Has
  <2>4. z.id \in Nat /\ z.id <= seq[t]
    BY <1>0, <2>3, RowFields, DatabaseAssumption DEF RowsOK, Ids, DatabaseInv, IdInv
  <2>5. PICK y \in rows : Same(y, x)
    BY <1>3, <2>2, <2>3, <2>4
  <2>6. y.table = t /\ y.id = s.refs[t] /\ y.key = x.key
    BY <1>2, <2>1, <2>5 DEF Same
  <2> QED
    BY <1>0, <1>2, <2>1, <2>6 DEF BelowItsName
<1> QED
  BY <1>1, <1>4, <1>5

(* Every step of an add, a script or a command keeps the invariant.         *)
LEMMA AddNextKeeps ==
  ASSUME AddInv, [AddNext]_<<vars, addVars>>
  PROVE  AddInv'
<1>0. DatabaseInv /\ CommandInv /\ BelowItsName
  BY DEF AddInv
<1>1. ASSUME CommandInv', [Next]_vars, UNCHANGED rows PROVE AddInv'
  <2>1. DatabaseInv'
    BY <1>0, <1>1, DatabaseNext
  <2>2. BelowItsName'
    BY <1>0, <1>1 DEF BelowItsName
  <2> QED
    BY <1>1, <2>1, <2>2 DEF AddInv
<1>2. ASSUME NEW p \in Procs, CommandInv', Statement(p) PROVE AddInv'
  <2>1. DatabaseInv'
    BY <1>0, <1>2, DatabaseNext DEF Next
  <2>2. BelowItsName'
    BY <1>2, BelowKept
  <2> QED
    BY <1>2, <2>1, <2>2 DEF AddInv
<1>3. ASSUME UNCHANGED vars PROVE UNCHANGED rows
  BY <1>3 DEF vars, dbVars
<1>4. ASSUME NEW p \in Procs, NEW o, Insert(p, o) PROVE UNCHANGED rows
  BY <1>4 DEF Insert, dbVars
<1>5. CASE UNCHANGED <<vars, addVars>>
  <2>1. DatabaseInv' /\ Kept /\ UNCHANGED <<rows, seq, pc, q>> /\ UNCHANGED <<adding, group>>
    BY <1>0, <1>5, NothingMoves DEF addVars
  <2>2. CommandInv'
    BY <1>0, <2>1 DEF CommandInv, RequestOK, Running, AddOK, Below, Remembered
  <2> QED
    BY <1>1, <1>3, <1>5, <2>2
<1>6. ASSUME NEW p \in Procs, NEW c \in Chains \cap group.chains, NEW k \in group.keys,
             NEW attr \in Vals \cup {Null}, NEW dry \in BOOLEAN, AddCmd(p, c, k, attr, dry)
      PROVE  AddInv'
  <2>1. UNCHANGED vars
    BY <1>6 DEF AddCmd
  <2>2. CommandInv'
    BY <1>6, AddCmdKeeps
  <2> QED
    BY <1>1, <1>3, <2>1, <2>2
<1>7. ASSUME NEW p \in Procs, NEW unscoped \in BOOLEAN, AddInsert(p, unscoped) PROVE AddInv'
  <2>1. UNCHANGED rows
    BY <1>3, <1>4, <1>7 DEF AddInsert
  <2> QED
    BY <1>1, <1>7, <2>1, AddInsertKeeps
<1>8. ASSUME NEW p \in Procs, AddStep(p) PROVE AddInv'
  BY <1>2, <1>8, AddStepKeeps
<1>9. ASSUME NEW p \in Procs, AddFails(p) PROVE AddInv'
  <2>1. UNCHANGED vars
    BY <1>9 DEF AddFails
  <2> QED
    BY <1>1, <1>3, <1>9, <2>1, AddFailsKeeps
<1>10. ASSUME NEW p \in Procs, OtherwiseStep(p) PROVE AddInv'
  <2>1. [Next]_vars /\ CommandInv'
    BY <1>10, OtherwiseKeeps
  <2>2. CASE Statement(p)
    BY <1>2, <2>1, <2>2
  <2>3. CASE UNCHANGED rows
    BY <1>1, <2>1, <2>3
  <2> QED
    BY <1>4, <1>10, <2>2, <2>3 DEF OtherwiseStep
<1> QED
  BY <1>5, <1>6, <1>7, <1>8, <1>9, <1>10 DEF AddNext

(* Nothing is being added to the empty database.                            *)
LEMMA AddStart == AddInit => AddInv
<1> SUFFICES ASSUME AddInit PROVE AddInv
  OBVIOUS
<1>1. DatabaseInv
  BY DatabaseInit DEF AddInit
<1>2. rows = {} /\ \A p \in Procs : pc[p] = "idle" /\ adding[p] = NoAdd
  BY DEF AddInit, Init
<1>3. CommandInv
  BY <1>2 DEF AddInit, CommandInv, RequestOK, Running, Inserting
<1>4. BelowItsName
  BY <1>2 DEF BelowItsName
<1> QED
  BY <1>1, <1>3, <1>4 DEF AddInv

(* The invariant holds in every state.                                      *)
LEMMA AddHolds == AddSpec => []AddInv
BY AddStart, AddNextKeeps, PTL DEF AddSpec

(* Whatever add puts below another entity is below the one its name says,   *)
(* for chains of names of any shape and any number of processes that delete *)
(* and add the parents in between: insert_struct returns the id of the row  *)
(* that was asked for, ids are not given out again, and an insert below an  *)
(* id that is gone fails.                                                   *)
THEOREM NamesHold == AddSpec => []BelowItsName
BY AddHolds, PTL DEF AddInv

(* The statements of add keep entities unique and references whole.         *)
THEOREM AddKeepsDatabase == AddSpec => [](KeysUnique /\ ReferentialIntegrity)
BY AddHolds, PTL DEF AddInv, DatabaseInv
=============================================================================
