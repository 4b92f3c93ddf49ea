----------------------------- MODULE MCActivity -----------------------------
(* A behaviour is one of two processes that log and query at the same time, *)
(* or one of a log that is written for the calendar: by one process, longer *)
(* and over more time, but of one topic and without tags.                   *)
EXTENDS Calendar, TLC

CONSTANTS LogTime, LogEvents   \* what is left of MaxTime and MaxEvents for the first

VARIABLE part

LogNext ==
  /\ \E p \in Procs :
       \/ \E e \in {x \in NewEvents : x.time <= LogTime} : LogEvent(p, e)
       \/ InsertEvent(p)
       \/ p \in Readers /\ \E f \in {x \in Filters : x.since <= LogTime /\ x.until <= LogTime} : Query(p, f)
       \/ Previous(p)
  /\ Len(events') <= LogEvents

CalendarNext ==
  /\ \E p \in Readers :
       \/ \E e \in {x \in NewEvents : x.uniq = NoUniq} : LogEvent(p, e)
       \/ InsertEvent(p)
  /\ Cardinality({events'[i].topic : i \in DOMAIN events'}) <= 1

PartsInit == part \in {"log", "calendar"} /\ Init
PartsNext ==
  /\ UNCHANGED part
  /\ \/ part = "log" /\ LogNext
     \/ part = "calendar" /\ CalendarNext
PartsSpec == PartsInit /\ [][PartsNext]_<<part, vars>>

Symmetry == Permutations(Topics)
=============================================================================
