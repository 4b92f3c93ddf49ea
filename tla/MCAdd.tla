------------------------------- MODULE MCAdd --------------------------------
(* A behaviour is one of two processes that insert, add and delete at the   *)
(* same time, in one of three groups of tables, or one of the database      *)
(* whose commands run one at a time, with a clock and with ttls.            *)
EXTENDS Add, TLC

CONSTANTS n1, n2

Same == [k \in Keys |-> k]
OneByOne == [tables |-> {"domains", "subdomains"}, chains |-> {}, keys |-> {n1}, ttls |-> {NoTtl} \cup Ttls]
Use == {[tables |-> {"breaches", "emails", "breach_emails"}, chains |-> {}, keys |-> {n1}, ttls |-> {NoTtl}],
        [tables |-> {}, chains |-> {AddDomain, AddSubdomain}, keys |-> {n1, n2}, ttls |-> {NoTtl}],
        [tables |-> {"phonenumbers"}, chains |-> {AddPhoneNumber}, keys |-> {n1}, ttls |-> {NoTtl}],
        OneByOne}

Values == {r.attr : r \in rows} \cup {q[p].attr : p \in {x \in Procs : pc[x] \notin {"idle", "reap", "reapttl"}}}
StatementOf(p) ==
  \/ \E t \in group.tables : \E o \in {x \in Requests({t}) : x.key \in group.keys} : Insert(p, o)
  \/ Statement(p)
OneAtATime ==
  /\ \/ Tick
     \/ \E p \in Procs : (\A x \in Procs \ {p} : pc[x] = "idle") /\ StatementOf(p)
  /\ UNCHANGED addVars
  /\ (Cardinality(Values \ {Null}) <= 1)'

PartsNext ==
  \/ group = OneByOne /\ OneAtATime
  \/ group # OneByOne /\ AddNext
PartsSpec == AddInit /\ [][PartsNext]_<<vars, addVars>>

Symmetry == Permutations(Procs) \cup Permutations(Vals)
=============================================================================
