------------------------------ MODULE Activity ------------------------------
(***************************************************************************)
(* The activity log: db_activity (insert_activity in db/mod.rs, the        *)
(* activity handler of worker.rs) and the `activity` command               *)
(* (models/activity.rs, cmd/activity_cmd.rs).  Both take two statements,   *)
(* and other processes may log events between them.  Events are never      *)
(* removed, so an id is a position in the log.                             *)
(***************************************************************************)
EXTENDS Integers, Sequences, FiniteSets

CONSTANTS
  Procs,      \* sn0int processes that have the workspace open
  Readers,    \* those in which the `activity` command is used
  Topics,     \* topics of events
  Uniqs,      \* deduplication tags
  NoUniq,     \* an event without a tag
  MaxTime,    \* bound: times of events
  MaxEvents   \* bound: events in the log

ASSUME ActivityAssumption ==
  Readers \subseteq Procs /\ MaxTime \in Nat /\ MaxEvents \in Nat /\ NoUniq \notin Uniqs

VARIABLES
  events,   \* the activity table: [topic, time, uniq], by id
  pc,       \* the statement each process runs next
  q,        \* the event it logs, or the filter it queries with
  first,    \* the time of the first event its query found, or 0
  seen,     \* observation: the length of the log when it queried
  ans       \* its last answer to a script, or the id it printed as initial

vars == <<events, pc, q, first, seen, ans>>

Times == 1 .. MaxTime
Ids == 1 .. MaxEvents
NewEvents == [topic : Topics, time : Times, uniq : Uniqs \cup {NoUniq}]
(* since = 0: the option is not given.                                      *)
Filters == [topics : {Topics} \cup {{t} : t \in Topics}, since : 0 .. MaxTime,
            until : Times, initial : BOOLEAN]
NoQuery == [none |-> 0]

Init ==
  /\ events = <<>>
  /\ pc = [p \in Procs |-> "idle"]
  /\ q = [p \in Procs |-> NoQuery]
  /\ first = [p \in Procs |-> 0]
  /\ seen = [p \in Procs |-> 0]
  /\ ans = [p \in Procs |-> <<"none", 0>>]

(* The operation is over.                                                   *)
Answer(p, a, id) ==
  /\ pc' = [pc EXCEPT ![p] = "idle"]
  /\ q' = [q EXCEPT ![p] = NoQuery]
  /\ first' = [first EXCEPT ![p] = 0]
  /\ seen' = [seen EXCEPT ![p] = 0]
  /\ ans' = [ans EXCEPT ![p] = <<a, id>>]

(* There is another statement to come.                                      *)
Continue(p, o, l) ==
  /\ pc' = [pc EXCEPT ![p] = l]
  /\ q' = [q EXCEPT ![p] = o]
  /\ ans' = [ans EXCEPT ![p] = <<"none", 0>>]

(* insert_activity, first statement: an event with a known tag is skipped.  *)
LogEvent(p, e) ==
  /\ pc[p] = "idle"
  /\ IF e.uniq # NoUniq /\ \E i \in DOMAIN events : events[i].uniq = e.uniq
     THEN Answer(p, "NoChange", 0)
     ELSE Continue(p, e, "insert") /\ UNCHANGED <<first, seen>>
  /\ UNCHANGED events

(* The INSERT; the index on (topic, uniq) refuses a duplicate.              *)
InsertEventIf(p, duplicate) ==
  /\ pc[p] = "insert"
  /\ IF duplicate
     THEN Answer(p, "Err", 0) /\ UNCHANGED events
     ELSE /\ Len(events) < MaxEvents
          /\ events' = Append(events, q[p])
          /\ Answer(p, "Inserted", 0)

InsertEvent(p) ==
  InsertEventIf(p, q[p].uniq # NoUniq /\ \E i \in DOMAIN events :
                     events[i].topic = q[p].topic /\ events[i].uniq = q[p].uniq)

(* build_query_except_since; --location is a filter on the event like the   *)
(* topic, and is left out.                                                  *)
Selected(f) == {i \in DOMAIN events : events[i].topic \in f.topics /\ events[i].time <= f.until}

(* Activity::query, and the events it prints; with --initial there is more  *)
(* to come.                                                                 *)
Query(p, f) ==
  LET found == {i \in Selected(f) : events[i].time >= f.since} IN
  /\ pc[p] = "idle"
  /\ IF f.initial
     THEN /\ Continue(p, f, "previous")
          /\ \E t \in IF found = {} THEN {0} ELSE {events[i].time : i \in found} :
               /\ \A i \in found : t <= events[i].time
               /\ first' = [first EXCEPT ![p] = t]
          /\ seen' = [seen EXCEPT ![p] = Len(events)]
     ELSE Answer(p, "printed", 0)
  /\ UNCHANGED events

(* The last event of S by time, then id.                                    *)
Latest(S) ==
  CHOOSE i \in S : \A j \in S : events[j].time < events[i].time
                             \/ (events[j].time = events[i].time /\ j <= i)

(* Activity::previous is asked for the event before the first one that was  *)
(* found; when none was found there is nothing to ask for.                  *)
PreviousIn(p, before) ==
  /\ pc[p] = "previous"
  /\ Answer(p, "printed", IF first[p] = 0 \/ before = {} THEN 0 ELSE Latest(before))
  /\ UNCHANGED events

MutPreviousIgnoresFilter(p) ==
  PreviousIn(p, {i \in DOMAIN events : events[i].time < first[p]})
Previous(p) == PreviousIn(p, {i \in Selected(q[p]) : events[i].time < first[p]})

Next == \E p \in Procs :
  \/ \E e \in NewEvents : LogEvent(p, e)
  \/ InsertEvent(p)
  \/ p \in Readers /\ \E f \in Filters : Query(p, f)
  \/ Previous(p)

Spec == Init /\ [][Next]_vars

-----------------------------------------------------------------------------
(* Properties.                                                              *)

(* Two processes that log the same tagged event at once store it once.      *)
UniqRespected ==
  \A i, j \in DOMAIN events :
    events[i].topic = events[j].topic /\ events[i].uniq = events[j].uniq =>
      i = j \/ events[i].uniq = NoUniq

(* What --initial prints, of the events before --since and those found.     *)
PriorTo(f) == {i \in Selected(f) : events[i].time < f.since}
Since(f) == {i \in Selected(f) : events[i].time >= f.since}
Prints(p, id) == pc[p] = "previous" /\ pc'[p] = "idle" /\ seen[p] = Len(events) => ans'[p][2] = id

(* --initial prints the latest selected event before --since, although the  *)
(* code looks for the one before the first event it found.  It prints none  *)
(* when no selected event lies at or after --since, where the help of the   *)
(* option (activity_cmd.rs:79) promises the state before --since.  Nothing  *)
(* is said of a command in which an event is logged between the statements. *)
InitialIsPreviousState ==
  [][\A p \in Procs :
       Prints(p, IF PriorTo(q[p]) = {} \/ Since(q[p]) = {} THEN 0 ELSE Latest(PriorTo(q[p])))]_vars
=============================================================================
