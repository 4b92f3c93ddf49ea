------------------------------- MODULE Filters -------------------------------
(***************************************************************************)
(* Which entities a command works on: db/mod.rs (Filter: parse, the scope  *)
(* it is combined with), filters.rs, and the select, delete, noscope,      *)
(* target and run commands that pass the result to the database as SQL.    *)
(*                                                                         *)
(* A user types `where`, conditions as one argument (value=a) or as three  *)
(* (value = a), and words between them.  parse turns the arguments into    *)
(* SQL one by one; what it writes is read by the database with SQL's own   *)
(* precedence, long after the quotes of the shell are gone.                *)
(***************************************************************************)
EXTENDS Integers, Sequences, FiniteSets

CONSTANTS
  Columns,   \* columns of the table
  Texts,     \* what columns hold
  ParamColumn,   \* the column a module may fix: service, currency
  MaxConds   \* bound: conditions of a filter

FiltersAssumption ==
  /\ MaxConds \in Nat /\ ParamColumn \in Columns /\ "unscoped" \notin Columns

Operators == {"=", "!="}              \* and like, <, >, <=, >=, which parse treats alike
Connectives == {"and", "or"}

(* The value of a condition may be any text: one that looks like a          *)
(* condition (title=a), and one that is an operator.                        *)
Word(w) == [kind |-> "word", text |-> w]
Pair(k, v) == [kind |-> "pair", key |-> k, value |-> v]
Values == {Word(v) : v \in Texts \cup {"!="}} \cup {Pair(k, Word("1")) : k \in Columns}
Plain == {Word(v) : v \in Texts}

Conditions ==
  [key : Columns, op : Operators, value : Values, joined : {FALSE}]
    \cup [key : Columns, op : {"="}, value : Values, joined : {TRUE}]

VARIABLES
  conds,  \* the conditions that were typed
  conns   \* the words between them

vars == <<conds, conns>>

(* The arguments; the first = of a joined one ends the key and all the rest *)
(* is value.  (Joined with another operator, value!=a, the key is no column *)
(* and the statement fails.)                                                *)
Args ==
  LET Of(c) == IF c.joined THEN <<Pair(c.key, c.value)>>
               ELSE <<Word(c.key), Word(c.op), c.value>>
      From[i \in 1 .. Len(conds)] ==
        IF i = 1 THEN Of(conds[1]) ELSE From[i - 1] \o <<Word(conns[i - 1])>> \o Of(conds[i])
  IN  From[Len(conds)]

-----------------------------------------------------------------------------
(* Filter::parse: the SQL is a sequence of raw words and quoted texts; the  *)
(* flag that a value is expected is set by an operator and cleared by the   *)
(* value, and an argument with a = inside is a condition wherever it is.    *)
Raw(w) == [raw |-> w, value |-> Word(w)]
Escape(v) == [raw |-> "'", value |-> v]

Take(s, a) ==
  IF a.kind = "word" /\ a.text \in Operators
  THEN [sql |-> Append(s.sql, Raw(a.text)), expect_value |-> TRUE]
  ELSE IF a.kind = "pair"
  THEN [s EXCEPT !.sql = @ \o <<Raw(a.key), Raw("="), Escape(a.value)>>]
  ELSE IF s.expect_value
  THEN [sql |-> Append(s.sql, Escape(a)), expect_value |-> FALSE]
  ELSE [s EXCEPT !.sql = Append(@, Raw(a.text))]

MutTakeKeepsExpecting(s, a) ==
  IF a.kind = "word" /\ a.text \notin Operators /\ s.expect_value
  THEN [s EXCEPT !.sql = Append(@, Escape(a))]
  ELSE Take(s, a)

ParseWith(args, Step(_, _)) ==
  LET From[i \in 0 .. Len(args)] ==
        IF i = 0 THEN [sql |-> <<>>, expect_value |-> FALSE] ELSE Step(From[i - 1], args[i])
  IN  From[Len(args)].sql

MutParseKeepsExpecting(args) == ParseWith(args, MutTakeKeepsExpecting)
Parse(args) == ParseWith(args, Take)

(* Filter::parse_optional, for select and target: without arguments, all.   *)
Optional == IF conds = <<>> THEN <<Raw("1")>> ELSE Parse(Args)

(* and_scoped, for target and run.                                          *)
InScope == <<Raw("unscoped"), Raw("="), Escape(Word("0"))>>
MutAndScopedNoParentheses(sql) == sql \o <<Raw("and")>> \o InScope
AndScoped(sql) == <<Raw("(")>> \o sql \o <<Raw(")"), Raw("and")>> \o InScope

(* filter_with_param: a module that asks for the accounts of one service    *)
(* (the addresses of one currency) puts a condition of its own in front.    *)
WithParam(sql, p) ==
  <<Raw(ParamColumn), Raw("="), Escape(Word(p)), Raw("and")>> \o sql

-----------------------------------------------------------------------------
(* What the database makes of the SQL: `and` binds tighter than `or`; a     *)
(* comparison of columns compared to a text is a number and never equal to  *)
(* it; a statement it cannot parse fails and touches no row.                *)
Table ==
  {r \in [Columns \cup {"unscoped"} -> Texts \cup {"0", "1"}] :
     r["unscoped"] \in {"0", "1"} /\ \A k \in Columns : r[k] \in Texts}

IsRaw(t, words) == t.raw \in words
Quoted(t) == t.raw = "'"
Column(t) == IsRaw(t, Columns \cup {"unscoped"})

(* The parts of s between the raw words w.                                  *)
Parts(s, w) ==
  LET Cuts == {i \in 1 .. Len(s) : IsRaw(s[i], {w})} \cup {0, Len(s) + 1}
  IN  {SubSeq(s, i + 1, (CHOOSE j \in Cuts : i < j /\ \A k \in Cuts : i < k => j <= k) - 1) :
         i \in Cuts \ {Len(s) + 1}}

Constant(s) == Len(s) = 1 /\ IsRaw(s[1], {"0", "1"})
Comparison(s) == Len(s) = 3 /\ Column(s[1]) /\ IsRaw(s[2], Operators) /\ Quoted(s[3])
Chain(s) == /\ Len(s) = 5
            /\ Column(s[1]) /\ IsRaw(s[2], Operators)
            /\ Column(s[3]) /\ IsRaw(s[4], Operators) /\ Quoted(s[5])

Groups(s) == {Parts(d, "and") : d \in Parts(s, "or")}
Parses(groups) == \A a \in UNION groups : Constant(a) \/ Comparison(a) \/ Chain(a)

True(a, r) ==
  \/ Constant(a) /\ a[1].raw = "1"
  \/ Comparison(a) /\ ((Word(r[a[1].raw]) = a[3].value) <=> (a[2].raw = "="))

Chosen(groups) ==
  {r \in Table : Parses(groups) /\ \E g \in groups : \A a \in g : True(a, r)}

(* The rows of a statement; one pair of parentheses is all parse and        *)
(* and_scoped write.                                                        *)
Select(s) ==
  LET Open == {i \in 1 .. Len(s) : IsRaw(s[i], {"("})}
      Close == {i \in 1 .. Len(s) : IsRaw(s[i], {")"})}
      p == CHOOSE i \in Open : TRUE
      q == CHOOSE i \in Close : TRUE
      Inner == SubSeq(s, p + 1, q - 1)
      Outer(w) == Groups(SubSeq(s, 1, p - 1) \o <<Raw(w)>> \o SubSeq(s, q + 1, Len(s)))
  IN  IF Open = {} THEN Chosen(Groups(s))
      ELSE LET T == Chosen(Groups(Inner))
           IN  IF Parses(Groups(Inner))
               THEN (Chosen(Outer("1")) \cap T) \cup (Chosen(Outer("0")) \ T)
               ELSE {}

-----------------------------------------------------------------------------
(* The user types a filter, one condition after another.                    *)
Init == conds = <<>> /\ conns = <<>>

TypeCondition(c, w) ==
  /\ Len(conds) < MaxConds
  /\ conds' = Append(conds, c)
  /\ conns' = IF conds = <<>> THEN conns ELSE Append(conns, w)

Next == \E c \in Conditions, w \in Connectives : TypeCondition(c, w)
Spec == Init /\ [][Next]_vars

-----------------------------------------------------------------------------
(* What was meant: the groups of conditions between two ors, each condition *)
(* with the value that was typed, whatever it looks like.                   *)
Satisfied(c, r) == (c.value = Word(r[c.key])) <=> (c.op = "=")

Meant ==
  IF conds = <<>> THEN Table
  ELSE {r \in Table : \E i, j \in DOMAIN conds :
          /\ i <= j
          /\ i = 1 \/ conns[i - 1] = "or"
          /\ j = Len(conds) \/ conns[j] = "or"
          /\ \A k \in i .. j - 1 : conns[k] = "and"
          /\ \A k \in i .. j : Satisfied(conds[k], r)}

(* Values that parse does not take for an operator or a condition.          *)
Unambiguous == \A i \in DOMAIN conds : conds[i].joined \/ conds[i].value \in Plain

(* select, delete, scope and noscope (Filter::parse in db/mod.rs) work on   *)
(* no row that was not meant, whatever the values look like: a value that   *)
(* parse reads as an operator or as a condition of its own leaves the       *)
(* operator before it waiting, the next word is quoted in its place, and    *)
(* the statement must then fail or select nothing, and never lose a         *)
(* condition that kept rows out of a delete.  When no value looks like one, *)
(* they work on exactly the rows that were meant.                           *)
FilterExact ==
  LET Selected == Select(Optional)
  IN  /\ Selected \subseteq Meant
      /\ Unambiguous => Selected = Meant

(* target and run (Filter::and_scoped, filter_with_param) never reach an    *)
(* entity that noscope took out of scope, nor one of another service than   *)
(* the module asked for, however the filter is put together with or, and    *)
(* reach every other entity that was meant.                                 *)
TargetsInScope ==
  LET InView == {r \in Meant : r["unscoped"] = "0"}
      Targets == Select(AndScoped(Optional))
  IN  /\ Targets \subseteq InView
      /\ Unambiguous => Targets = InView
      /\ \A p \in Texts : Select(WithParam(AndScoped(Optional), p))
                            = {r \in Targets : r[ParamColumn] = p}
=============================================================================
