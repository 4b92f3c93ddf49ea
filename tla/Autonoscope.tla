----------------------------- MODULE Autonoscope -----------------------------
(***************************************************************************)
(* The rules that decide whether an entity is in scope when it is added:   *)
(* autonoscope/mod.rs (RuleSet), domain.rs, ip.rs and url.rs (the three    *)
(* kinds of rules), and the autonoscope and autoscope commands.            *)
(*                                                                         *)
(* A process loads the table of rules once and keeps it sorted in memory;  *)
(* a command changes the memory and the table, each by itself.  Another    *)
(* process may edit the table meanwhile, which the first one never reads   *)
(* again.                                                                  *)
(***************************************************************************)
EXTENDS Lists, FiniteSetsExt, SequencesExt

CONSTANTS
  Inputs,    \* rules as a user can type them: [object, host, path, form]
  Targets,   \* entities that can be added: [kind, host, path]
  Foreign,   \* bound: the rules another process edits
  Failures   \* whether a statement may fail (the database is locked)

(* host is what a domain or ip rule compares: the labels of a name from the *)
(* right, the bits of a network from the left.  For a url rule it is the    *)
(* origin, and path holds the segments.  form tells two ways to write the   *)
(* same rule apart ("example.com" and "example.com.", "10.0.0.1/32" and     *)
(* "10.0.0.1").  Names have one scheme and port, so a host is an origin.    *)
Objects == {"domain", "ip", "url"}
Forms == {"canonical", "short"}
Rules == [object : Objects, host : Seq(STRING), path : Seq(STRING), form : Forms]

ASSUME AutonoscopeAssumption ==
  /\ Foreign \subseteq Inputs
  /\ Inputs \subseteq Rules
  /\ Failures \in BOOLEAN

VARIABLES
  table,  \* the autonoscope table, in the order of its ids
  rules,  \* RuleSet: one list per kind of rule
  todo,   \* the rule an add command has yet to insert
  torn,   \* observation: a delete has failed since the rules were loaded
  behind  \* observation: another process has changed the table since then

vars == <<table, rules, todo, torn, behind>>

NoRule == [object |-> "none"]
Outcomes == IF Failures THEN BOOLEAN ELSE {TRUE}

(* TryFrom<&str> and to_string: a network is printed in its canonical form, *)
(* a domain and a url keep the user's spelling.                             *)
Parsed(r) == IF r.object = "ip" THEN [r EXCEPT !.form = "canonical"] ELSE r

Entry(r, scoped) == [rule |-> Parsed(r), scoped |-> scoped]

-----------------------------------------------------------------------------
(* Matching.                                                                *)

(* The labels of the rule end the name; the network holds the address or    *)
(* the netblock; the origins are equal and the segments begin the path.     *)
DomainMatches(r, t) == IsPrefix(r.host, t.host)
IpMatches(r, t) == IsPrefix(r.host, t.host)
UrlMatches(r, t) == r.host = t.host /\ IsPrefix(r.path, t.path)

RuleMatches(r, t) ==
  CASE r.object = "domain" -> DomainMatches(r, t)
    [] r.object = "ip"     -> IpMatches(r, t)
    [] r.object = "url"    -> UrlMatches(r, t)

Precision(r) == IF r.object = "url" THEN Len(r.path) ELSE Len(r.host)

(* sort_precision_desc: a stable sort.                                      *)
MutUnsorted(s) == s
SortByPrecision(s) ==
  At(s, Ordered(DOMAIN s, {p \in (DOMAIN s) \X (DOMAIN s) :
    \/ Precision(s[p[1]].rule) > Precision(s[p[2]].rule)
    \/ Precision(s[p[1]].rule) = Precision(s[p[2]].rule) /\ p[1] < p[2]}))

(* The rules of one kind, and all but one rule.                             *)
OfKind(s, o) == Retain(s, {e \in ToSet(s) : e.rule.object = o})
Without(s, r) == Retain(s, {e \in ToSet(s) : e.rule # r})

(* RuleSet::load.                                                           *)
Load(rows) == [o \in Objects |-> SortByPrecision(OfKind(rows, o))]

(* matches_any: the first rule of the list that matches.                    *)
MatchesAny(list, t) ==
  LET hits == {i \in DOMAIN list : RuleMatches(list[i].rule, t)}
  IN  IF hits = {} THEN "none"
      ELSE IF list[Min(hits)].scoped THEN "scoped" ELSE "unscoped"

(* RuleSet::matches.  The value of a port ("tcp/192.0.2.1:80") cannot be    *)
(* parsed as the address an ip rule compares it with.                       *)
Verdict(set, t) ==
  LET or_scoped(v) == IF v = "none" THEN "scoped" ELSE v IN
  CASE t.kind \in {"domain", "subdomain"} -> or_scoped(MatchesAny(set["domain"], t))
    [] t.kind \in {"ipaddr", "netblock"}  -> or_scoped(MatchesAny(set["ip"], t))
    [] t.kind = "port" -> IF set["ip"] = <<>> THEN "scoped" ELSE "error"
    [] t.kind = "url"  ->
         IF MatchesAny(set["domain"], t) # "none" THEN MatchesAny(set["domain"], t)
         ELSE or_scoped(MatchesAny(set["url"], t))
    [] OTHER -> "scoped"

-----------------------------------------------------------------------------
Init == table = <<>> /\ rules = Load(<<>>) /\ todo = NoRule /\ torn = FALSE /\ behind = FALSE

(* delete_rule: the memory first, then the table; both compare the text the *)
(* user typed with the text of the rule.  Text that is no rule at all finds *)
(* nothing here and is refused by add_rule afterwards: nothing changes.     *)
DeleteRule(r, ok) ==
  /\ todo = NoRule
  /\ rules' = [rules EXCEPT ![r.object] = Without(@, r)]
  /\ table' = IF ok THEN Without(table, r) ELSE table
  /\ torn' = (torn \/ ~ok)

(* The delete command ends there.  add_rule starts with it, and stops when  *)
(* it fails.                                                                *)
Adds(r, scoped) == todo' = [object |-> r.object, entry |-> Entry(r, scoped)]

Command(r, ok) ==
  /\ DeleteRule(r, ok)
  /\ \/ UNCHANGED todo
     \/ ok /\ \E scoped \in BOOLEAN : Adds(r, scoped)
  /\ UNCHANGED behind

(* db_add, then push and sort; the table refuses a rule it has.             *)
DbAdd(pushed, list) ==
  /\ LET e == todo.entry
         fails == \E i \in DOMAIN table : table[i].rule = e.rule
         push == [rules EXCEPT ![e.rule.object] = list]
     IN  \/ /\ ~fails
            /\ table' = Append(table, e)
            /\ rules' = push
         \/ /\ fails \/ Failures
            /\ rules' = IF pushed THEN push ELSE rules
            /\ UNCHANGED table
  /\ todo' = NoRule
  /\ UNCHANGED <<torn, behind>>

Pushed == Append(rules[todo.object], todo.entry)
MutInsertPushesFirst == todo # NoRule /\ DbAdd(TRUE, SortByPrecision(Pushed))
MutInsertUnsorted == todo # NoRule /\ DbAdd(FALSE, Pushed)
Insert == todo # NoRule /\ DbAdd(FALSE, SortByPrecision(Pushed))

(* The process ends, at any point, and the workspace is opened again.       *)
Restart ==
  /\ rules' = Load(table)
  /\ todo' = NoRule
  /\ torn' = FALSE /\ behind' = FALSE
  /\ UNCHANGED table

(* Another process deletes a rule, or inserts one after it has deleted it.  *)
OtherDeletes(r) ==
  /\ table' = Without(table, r)
  /\ behind' = (behind \/ table' # table)
  /\ UNCHANGED <<rules, todo, torn>>

OtherInserts(r, scoped) ==
  /\ \A i \in DOMAIN table : table[i].rule # Parsed(r)
  /\ table' = Append(table, Entry(r, scoped))
  /\ behind' = TRUE
  /\ UNCHANGED <<rules, todo, torn>>

Next ==
  \/ \E r \in Inputs, ok \in Outcomes : Command(r, ok)
  \/ Insert
  \/ Restart
  \/ \E r \in Foreign :
       OtherDeletes(r) \/ \E scoped \in BOOLEAN : OtherInserts(r, scoped)

Spec == Init /\ [][Next]_vars

-----------------------------------------------------------------------------
(* Properties.                                                              *)

(* Opening the workspace again changes no verdict: the rules in memory are  *)
(* the stored ones, and in the order in which they would be loaded.  Only a *)
(* delete that fails, or another process, can part them: an insert that     *)
(* fails does not.                                                          *)
RestartChangesNothing == todo = NoRule /\ ~torn /\ ~behind => rules = Load(table)

(* Deleting takes at most one rule out of the table, and inserting takes    *)
(* none and reorders nothing: what another process has stored since the     *)
(* rules were loaded is not overwritten with the rules in memory.           *)
OthersRulesKept ==
  [][/\ Len(table') >= Len(table) - 1
     /\ todo # NoRule /\ todo' # todo => IsPrefix(table, table')]_vars

(* Even when statements fail, a rule that is applied is a stored rule, and  *)
(* is in memory once, although deleting by text misses a network that was   *)
(* typed in another form; unless another process has deleted it.            *)
AppliedRulesAreStored ==
  ~behind => \A o \in Objects :
    /\ ToSet(rules[o]) \subseteq ToSet(table)
    /\ \A i, j \in DOMAIN rules[o] : rules[o][i].rule = rules[o][j].rule => i = j

(* The verdict of the most specific of the stored rules of kind o that      *)
(* match t, of the oldest if there are several, in scope if there is none.  *)
Stored(o, t) ==
  {i \in DOMAIN table : table[i].rule.object = o /\ RuleMatches(table[i].rule, t)}

MostSpecific(o, t) ==
  LET hits == Stored(o, t)
      best == {i \in hits : \A j \in hits :
                 Precision(table[j].rule) <= Precision(table[i].rule)}
  IN  IF hits = {} \/ table[Min(best)].scoped THEN "scoped" ELSE "unscoped"

(* Whatever the order in which the rules were added, replaced and removed,  *)
(* and in this run or an earlier one: the verdict is that of the most       *)
(* specific of the stored rules of the kind the code asks first.  For a url *)
(* these are the rules for domains, however general, and the rules for urls *)
(* only when none of them matches; a port, to which the rules for addresses *)
(* should apply (docs/autonoscope.rst:52-58), is an error as soon as there  *)
(* is any.                                                                  *)
FirstMatchWins ==
  todo = NoRule /\ ~torn /\ ~behind => \A t \in Targets :
    /\ t.kind \in {"domain", "subdomain"} => Verdict(rules, t) = MostSpecific("domain", t)
    /\ t.kind \in {"ipaddr", "netblock"} => Verdict(rules, t) = MostSpecific("ip", t)
    /\ t.kind = "url" =>
         Verdict(rules, t) = MostSpecific(IF Stored("domain", t) # {} THEN "domain" ELSE "url", t)
    /\ t.kind = "port" =>
         (Verdict(rules, t) = "error" <=> \E i \in DOMAIN table : table[i].rule.object = "ip")

(* docs/autonoscope.rst:5-6: rules are executed from most specific to least *)
(* specific and the first match wins.  A rule that names the origin and the *)
(* path of a url is more specific than one that names its domain, or "com". *)
UrlRulesFirst ==
  todo = NoRule /\ ~torn /\ ~behind => \A t \in Targets :
    t.kind = "url" /\ Stored("url", t) # {} => Verdict(rules, t) = MostSpecific("url", t)
=============================================================================
