--------------------------- MODULE ActivityProofs ---------------------------
(***************************************************************************)
(* Proofs about the activity log (Activity) for any number of processes,   *)
(* topics, tags, times and events, and about what `cal` shows of it        *)
(* (Calendar) for hours, days and slices of any length.                    *)
(***************************************************************************)
EXTENDS Calendar, ListProofs

-----------------------------------------------------------------------------
(* The inductive invariant.  A process that is about to insert holds an     *)
(* event.  One that is about to look for the previous event holds a filter, *)
(* and as long as nothing was logged since its query, no selected event     *)
(* lies between --since and the first event it found, if it found any.      *)

TypeInv ==
  /\ events \in Seq(NewEvents)
  /\ pc \in [Procs -> {"idle", "insert", "previous"}]
  /\ q \in [Procs -> NewEvents \cup Filters \cup {NoQuery}]
  /\ first \in [Procs -> 0 .. MaxTime]
  /\ seen \in [Procs -> Nat]
  /\ DOMAIN ans = Procs

LoggingInv(p) == pc[p] = "insert" => q[p] \in NewEvents

QueryInv(p) ==
  pc[p] = "previous" =>
    /\ q[p] \in Filters
    /\ seen[p] <= Len(events)
    /\ seen[p] = Len(events) =>
         /\ first[p] = 0 <=> Since(q[p]) = {}
         /\ first[p] # 0 =>
              \A i \in Selected(q[p]) : events[i].time < first[p] <=> events[i].time < q[p].since

ActivityInv ==
  /\ TypeInv
  /\ UniqRespected
  /\ \A p \in Procs : LoggingInv(p) /\ QueryInv(p)

-----------------------------------------------------------------------------
(* The columns of an event and the options of a query.                      *)
LEMMA EventFields ==
  ASSUME NEW e \in NewEvents
  PROVE  e.topic \in Topics /\ e.time \in Nat /\ e.time \in 0 .. MaxTime
BY ActivityAssumption DEF NewEvents, Times

(* The fields of a filter.                                                  *)
LEMMA FilterFields ==
  ASSUME NEW f \in Filters
  PROVE  f.since \in Nat /\ f.until \in Nat /\ f.initial \in BOOLEAN
BY ActivityAssumption DEF Filters, Times

(* An answer ends the operation: what the invariant says of the process no  *)
(* longer applies to it, and the others are as they were.                   *)
LEMMA AnswerKeeps ==
  ASSUME TypeInv, NEW p \in Procs, NEW a, NEW id, Answer(p, a, id)
  PROVE  /\ pc' \in [Procs -> {"idle", "insert", "previous"}]
         /\ q' \in [Procs -> NewEvents \cup Filters \cup {NoQuery}]
         /\ first' \in [Procs -> 0 .. MaxTime]
         /\ seen' \in [Procs -> Nat]
         /\ DOMAIN ans' = Procs
         /\ pc'[p] = "idle"
         /\ \A r \in Procs \ {p} : pc'[r] = pc[r] /\ q'[r] = q[r] /\ first'[r] = first[r]
                                   /\ seen'[r] = seen[r]
BY ActivityAssumption DEF TypeInv, Answer

(* A step that leaves the log alone keeps what the invariant says of the    *)
(* processes that do not take it.                                           *)
LEMMA OthersKeep ==
  ASSUME ActivityInv, NEW p \in Procs, UNCHANGED events,
         \A r \in Procs \ {p} : pc'[r] = pc[r] /\ q'[r] = q[r] /\ first'[r] = first[r]
                                /\ seen'[r] = seen[r]
  PROVE  \A r \in Procs \ {p} : LoggingInv(r)' /\ QueryInv(r)'
BY DEF ActivityInv, LoggingInv, QueryInv, Since, Selected

(* The empty log.                                                           *)
LEMMA ActivityInit == Init => ActivityInv
BY ActivityAssumption DEF Init, ActivityInv, TypeInv, UniqRespected, LoggingInv, QueryInv

(* insert_activity, first statement.                                        *)
LEMMA LogEventKeeps ==
  ASSUME ActivityInv, NEW p \in Procs, NEW e \in NewEvents, LogEvent(p, e)
  PROVE  ActivityInv'
<1>0. TypeInv /\ UniqRespected /\ UNCHANGED events
  BY DEF ActivityInv, LogEvent
<1>1. UniqRespected'
  BY <1>0 DEF UniqRespected
<1>2. CASE Answer(p, "NoChange", 0)
  <2>1. TypeInv' /\ LoggingInv(p)' /\ QueryInv(p)'
    BY <1>0, <1>2, AnswerKeeps DEF TypeInv, LoggingInv, QueryInv
  <2>2. \A r \in Procs \ {p} : LoggingInv(r)' /\ QueryInv(r)'
    BY <1>0, <1>2, AnswerKeeps, OthersKeep
  <2> QED
    BY <1>1, <2>1, <2>2 DEF ActivityInv
<1>3. CASE Continue(p, e, "insert") /\ UNCHANGED <<first, seen>>
  <2>1. TypeInv' /\ LoggingInv(p)' /\ QueryInv(p)'
    BY <1>0, <1>3 DEF TypeInv, LoggingInv, QueryInv, Continue
  <2>2. \A r \in Procs \ {p} : LoggingInv(r)' /\ QueryInv(r)'
    BY <1>0, <1>3, OthersKeep DEF Continue, TypeInv
  <2> QED
    BY <1>1, <2>1, <2>2 DEF ActivityInv
<1> QED
  BY <1>2, <1>3 DEF LogEvent

(* The INSERT: the index refuses a tag the topic has, and a query that is   *)
(* under way is now behind the log.                                         *)
LEMMA InsertEventKeeps ==
  ASSUME ActivityInv, NEW p \in Procs, InsertEvent(p)
  PROVE  ActivityInv'
<1>0. TypeInv /\ UniqRespected /\ LoggingInv(p)
  BY DEF ActivityInv
<1>1. CASE Answer(p, "Err", 0) /\ UNCHANGED events
  <2>1. TypeInv' /\ UniqRespected' /\ LoggingInv(p)' /\ QueryInv(p)'
    BY <1>0, <1>1, AnswerKeeps DEF TypeInv, UniqRespected, LoggingInv, QueryInv
  <2>2. \A r \in Procs \ {p} : LoggingInv(r)' /\ QueryInv(r)'
    BY <1>0, <1>1, AnswerKeeps, OthersKeep
  <2> QED
    BY <2>1, <2>2 DEF ActivityInv
<1>2. CASE /\ ~(q[p].uniq # NoUniq /\ \E i \in DOMAIN events :
                  events[i].topic = q[p].topic /\ events[i].uniq = q[p].uniq)
           /\ events' = Append(events, q[p])
           /\ Answer(p, "Inserted", 0)
  <2>1. PICK e \in NewEvents : q[p] = e
    BY <1>0 DEF LoggingInv, InsertEvent, InsertEventIf
  <2>2. /\ events' \in Seq(NewEvents) /\ Len(events') = Len(events) + 1
        /\ DOMAIN events = 1 .. Len(events) /\ DOMAIN events' = 1 .. Len(events) + 1
        /\ Len(events) \in Nat
        /\ events'[Len(events) + 1] = e
        /\ \A i \in DOMAIN events : events'[i] = events[i]
    BY <1>0, <1>2, <2>1 DEF TypeInv
  <2>3. TypeInv' /\ LoggingInv(p)' /\ QueryInv(p)'
    BY <1>0, <1>2, <2>2, AnswerKeeps DEF TypeInv, LoggingInv, QueryInv
  <2>4. UniqRespected'
    <3>1. ~(e.uniq # NoUniq /\ \E i \in DOMAIN events :
              events[i].topic = e.topic /\ events[i].uniq = e.uniq)
      BY <1>2, <2>1
    <3> SUFFICES ASSUME NEW i \in DOMAIN events', NEW j \in DOMAIN events',
                        events'[i].topic = events'[j].topic, events'[i].uniq = events'[j].uniq,
                        i # j
                 PROVE  events'[i].uniq = NoUniq
      BY DEF UniqRespected
    <3>2. CASE i \in DOMAIN events /\ j \in DOMAIN events
      BY <1>0, <2>2, <3>2 DEF UniqRespected
    <3>3. CASE i = Len(events) + 1 /\ j \in DOMAIN events
      BY <2>2, <3>1, <3>3
    <3>4. CASE j = Len(events) + 1 /\ i \in DOMAIN events
      BY <2>2, <3>1, <3>4
    <3> QED
      BY <2>2, <3>2, <3>3, <3>4
  <2>5. \A r \in Procs \ {p} : LoggingInv(r)' /\ QueryInv(r)'
    <3> SUFFICES ASSUME NEW r \in Procs \ {p} PROVE LoggingInv(r)' /\ QueryInv(r)'
      OBVIOUS
    <3>1. pc'[r] = pc[r] /\ q'[r] = q[r] /\ seen'[r] = seen[r] /\ seen[r] \in Nat
      BY <1>0, <1>2, AnswerKeeps DEF TypeInv
    <3>2. LoggingInv(r) /\ (pc[r] = "previous" => q[r] \in Filters /\ seen[r] <= Len(events))
      BY DEF ActivityInv, QueryInv
    <3> QED
      BY <2>2, <3>1, <3>2 DEF LoggingInv, QueryInv
  <2> QED
    BY <2>3, <2>4, <2>5 DEF ActivityInv
<1> QED
  BY <1>1, <1>2 DEF InsertEvent, InsertEventIf

(* Activity::query: the first event it finds is the first selected one at   *)
(* or after --since.                                                        *)
LEMMA QueryKeeps ==
  ASSUME ActivityInv, NEW p \in Procs, NEW f \in Filters, Query(p, f)
  PROVE  ActivityInv'
<1>0. TypeInv /\ UniqRespected /\ UNCHANGED events
  BY DEF ActivityInv, Query
<1>1. UniqRespected'
  BY <1>0 DEF UniqRespected
<1>2. CASE Answer(p, "printed", 0)
  <2>1. TypeInv' /\ LoggingInv(p)' /\ QueryInv(p)'
    BY <1>0, <1>2, AnswerKeeps DEF TypeInv, LoggingInv, QueryInv
  <2>2. \A r \in Procs \ {p} : LoggingInv(r)' /\ QueryInv(r)'
    BY <1>0, <1>2, AnswerKeeps, OthersKeep
  <2> QED
    BY <1>1, <2>1, <2>2 DEF ActivityInv
<1>3. ASSUME Continue(p, f, "previous"), seen' = [seen EXCEPT ![p] = Len(events)],
             NEW t \in IF Since(f) = {} THEN {0} ELSE {events[i].time : i \in Since(f)},
             \A i \in Since(f) : t <= events[i].time, first' = [first EXCEPT ![p] = t]
      PROVE  ActivityInv'
  <2>1. /\ Selected(f) \subseteq DOMAIN events /\ Since(f) \subseteq Selected(f)
        /\ \A j \in DOMAIN events : events[j] \in NewEvents
        /\ Len(events) \in Nat
    BY <1>0 DEF Selected, Since, TypeInv
  <2>2. \A j \in Selected(f) : events[j].time \in Nat /\ events[j].time \in 1 .. MaxTime
    BY <2>1 DEF NewEvents, Times
  <2>3. f.since \in Nat /\ MaxTime \in Nat
    BY FilterFields, ActivityAssumption
  <2>4. t \in 0 .. MaxTime /\ (t = 0 <=> Since(f) = {})
    BY <2>1, <2>2, <2>3
  <2>5. t # 0 => \A j \in Selected(f) : events[j].time < t <=> events[j].time < f.since
    <3> SUFFICES ASSUME t # 0, NEW j \in Selected(f)
                 PROVE  events[j].time < t <=> events[j].time < f.since
      OBVIOUS
    <3>1. PICK i \in Since(f) : t = events[i].time
      BY <2>4
    <3>2. events[i].time >= f.since
      BY DEF Since
    <3>3. events[j].time >= f.since => t <= events[j].time
      BY <1>3 DEF Since
    <3> QED
      BY <2>1, <2>2, <2>3, <3>1, <3>2, <3>3
  <2>6. TypeInv'
    BY <1>0, <1>3, <2>1, <2>4 DEF TypeInv, Continue
  <2>7. pc'[p] = "previous" /\ q'[p] = f /\ seen'[p] = Len(events) /\ first'[p] = t
    BY <1>0, <1>3 DEF TypeInv, Continue
  <2>8. LoggingInv(p)' /\ QueryInv(p)'
    BY <1>0, <2>1, <2>4, <2>5, <2>7 DEF LoggingInv, QueryInv, Since, Selected
  <2>9. \A r \in Procs \ {p} : LoggingInv(r)' /\ QueryInv(r)'
    BY <1>0, <1>3, OthersKeep DEF Continue, TypeInv
  <2> QED
    BY <1>1, <2>6, <2>8, <2>9 DEF ActivityInv
<1> QED
  BY <1>2, <1>3 DEF Query, Since

(* Activity::previous.                                                      *)
LEMMA PreviousKeeps ==
  ASSUME ActivityInv, NEW p \in Procs, Previous(p)
  PROVE  ActivityInv'
<1>0. TypeInv /\ UniqRespected /\ UNCHANGED events
  BY DEF ActivityInv, Previous, PreviousIn
<1>1. PICK id : Answer(p, "printed", id)
  BY DEF Previous, PreviousIn
<1>2. TypeInv' /\ UniqRespected' /\ LoggingInv(p)' /\ QueryInv(p)'
  BY <1>0, <1>1, AnswerKeeps DEF TypeInv, UniqRespected, LoggingInv, QueryInv
<1>3. \A r \in Procs \ {p} : LoggingInv(r)' /\ QueryInv(r)'
  BY <1>0, <1>1, AnswerKeeps, OthersKeep
<1> QED
  BY <1>2, <1>3 DEF ActivityInv

(* Every step of every process keeps the invariant.                         *)
LEMMA ActivityNext ==
  ASSUME ActivityInv, [Next]_vars
  PROVE  ActivityInv'
<1>1. CASE UNCHANGED vars
  BY <1>1 DEF vars, ActivityInv, TypeInv, UniqRespected, LoggingInv, QueryInv, Since, Selected
<1>2. CASE Next
  BY <1>2, LogEventKeeps, InsertEventKeeps, QueryKeeps, PreviousKeeps DEF Next
<1> QED
  BY <1>1, <1>2

(* The invariant holds in every state.                                      *)
LEMMA ActivityHolds == Spec => []ActivityInv
BY ActivityInit, ActivityNext, PTL DEF Spec

-----------------------------------------------------------------------------
(* However many processes log the same tagged event at once, it is stored   *)
(* once: insert_activity looks for the tag in one statement and inserts in  *)
(* another, and the index on (topic, uniq) decides.                         *)
THEOREM UniqHolds == Spec => []UniqRespected
BY ActivityHolds, PTL DEF ActivityInv

(* `activity --initial` prints the latest selected event before --since     *)
(* when a selected event lies at or after --since, and none when no event   *)
(* does, unless one was logged between its two statements; and that         *)
(* although Activity::previous only knows the time of the first event that  *)
(* was found.                                                               *)
THEOREM InitialHolds == Spec => InitialIsPreviousState
<1> DEFINE Id(p) == IF PriorTo(q[p]) = {} \/ Since(q[p]) = {} THEN 0 ELSE Latest(PriorTo(q[p]))
           initial == \A p \in Procs : Prints(p, Id(p))
<1>1. ASSUME ActivityInv, Next PROVE initial
  <2> SUFFICES ASSUME NEW p \in Procs,
                      pc[p] = "previous", pc'[p] = "idle", seen[p] = Len(events)
               PROVE  ans'[p][2] = Id(p)
    BY DEF Prints
  <2>0. TypeInv /\ QueryInv(p)
    BY <1>1 DEF ActivityInv
  <2>1. Previous(p)
    <3>1. PICK r \in Procs : \/ \E e \in NewEvents : LogEvent(r, e)
                             \/ InsertEvent(r)
                             \/ \E f \in Filters : Query(r, f)
                             \/ Previous(r)
      BY <1>1 DEF Next
    <3>2. pc[r] # "previous" \/ Previous(r)
      BY <3>1 DEF LogEvent, InsertEvent, InsertEventIf, Query
    <3>3. \A s \in Procs \ {r} : pc'[s] = pc[s]
      BY <2>0, <3>1 DEF TypeInv, LogEvent, InsertEvent, InsertEventIf, Query, Previous, PreviousIn,
                        Answer, Continue
    <3> QED
      BY <3>2, <3>3
  <2> DEFINE before == {i \in Selected(q[p]) : events[i].time < first[p]}
  <2>2. ans'[p][2] = IF first[p] = 0 \/ before = {} THEN 0 ELSE Latest(before)
    BY <2>0, <2>1 DEF Previous, PreviousIn, Answer, TypeInv
  <2>3. first[p] = 0 <=> Since(q[p]) = {}
    BY <2>0 DEF QueryInv
  <2>4. first[p] # 0 => before = PriorTo(q[p])
    BY <2>0 DEF QueryInv, PriorTo
  <2> QED
    BY <2>2, <2>3, <2>4
<1>2. ActivityInv /\ [Next]_vars => [initial]_vars
  BY <1>1
<1> QED
  BY <1>2, ActivityHolds, PTL DEF Spec, InitialIsPreviousState

-----------------------------------------------------------------------------
(* The calendar.  What a recursive function is is shown by the least        *)
(* argument for which it would fail.                                        *)

(* The loop of setup_graph_map over the first n dates.                      *)
LoopOf(dates, n, f) ==
  f = [i \in 0 .. n |-> IF i = 0 THEN NoneCounted ELSE Count(f[i - 1], dates[i])]

(* The loop has a result for every list of dates.                           *)
LEMMA LoopExists ==
  ASSUME NEW dates, NEW n \in Nat
  PROVE  \E f : LoopOf(dates, n, f)
<1> DEFINE T == {m \in Nat : ~ \E f : LoopOf(dates, m, f)}
<1> SUFFICES ASSUME T # {} PROVE FALSE
  OBVIOUS
<1>1. PICK m \in T : \A k \in T : m <= k
  BY NatMin
<1>2. CASE m = 0
  <2> DEFINE f == [i \in 0 .. 0 |-> NoneCounted]
  <2>1. LoopOf(dates, 0, f)
    BY DEF LoopOf
  <2> QED
    BY <1>1, <1>2, <2>1
<1>3. CASE m # 0
  <2>1. m \in Nat /\ m - 1 \in Nat /\ m - 1 \notin T
    BY <1>1, <1>3
  <2>2. PICK f : LoopOf(dates, m - 1, f)
    BY <2>1
  <2> DEFINE g == [i \in 0 .. m |-> IF i = m THEN Count(f[m - 1], dates[m]) ELSE f[i]]
  <2>3. \A i \in 0 .. m - 1 : f[i] = IF i = 0 THEN NoneCounted ELSE Count(f[i - 1], dates[i])
    BY <2>2 DEF LoopOf
  <2>4. \A i \in 0 .. m - 1 : g[i] = f[i]
    BY <2>1
  <2>5. g[m] = Count(f[m - 1], dates[m])
    BY <2>1
  <2> DEFINE h == [i \in 0 .. m |-> IF i = 0 THEN NoneCounted ELSE Count(g[i - 1], dates[i])]
  <2>6. ASSUME NEW i \in 0 .. m PROVE g[i] = h[i]
    <3>0. i = 0 \/ i - 1 \in 0 .. m - 1
      BY <2>1
    <3>1. h[i] = IF i = 0 THEN NoneCounted ELSE Count(g[i - 1], dates[i])
      OBVIOUS
    <3> HIDE DEF g, h
    <3>2. CASE i = m
      BY <1>3, <2>1, <2>4, <2>5, <3>1, <3>2, <3>0
    <3>3. CASE i # m
      <4>1. i \in 0 .. m - 1
        BY <2>1, <3>3
      <4>2. i # 0 => i - 1 \in 0 .. m - 1
        BY <2>1
      <4> QED
        BY <2>3, <2>4, <3>1, <4>1, <4>2
    <3> QED
      BY <3>2, <3>3
  <2>7. g = h
    BY <2>6
  <2>8. LoopOf(dates, m, g)
    BY <2>7 DEF LoopOf
  <2> QED
    BY <1>1, <2>8
<1> QED
  BY <1>2, <1>3

(* How often d is among the first i dates.                                  *)
Upto(dates, i, d) == Cardinality({j \in 1 .. i : dates[j] = d})

(* One date more adds one to its number and to no other.                    *)
LEMMA UptoGrows ==
  ASSUME NEW dates, NEW i \in Nat \ {0}, NEW d
  PROVE  /\ Upto(dates, 0, d) = 0
         /\ Upto(dates, i, d) \in Nat
         /\ Upto(dates, i, d) = Upto(dates, i - 1, d) + IF dates[i] = d THEN 1 ELSE 0
<1> DEFINE S(k) == {j \in 1 .. k : dates[j] = d}
<1>1. S(0) = {}
  OBVIOUS
<1>2. \A k \in Nat : IsFiniteSet(S(k)) /\ Cardinality(S(k)) \in Nat
  <2> TAKE k \in Nat
  <2>1. IsFiniteSet(1 .. k)
    BY FS_Interval
  <2>2. S(k) \subseteq 1 .. k
    OBVIOUS
  <2> QED
    BY <2>1, <2>2, FS_Subset, FS_CardinalityType
<1>3. i - 1 \in Nat /\ i \notin S(i - 1)
  OBVIOUS
<1>4. S(i) = IF dates[i] = d THEN S(i - 1) \cup {i} ELSE S(i - 1)
  OBVIOUS
<1> HIDE DEF S
<1>5. Cardinality(S(i - 1) \cup {i}) = Cardinality(S(i - 1)) + 1
  BY <1>2, <1>3, FS_AddElement
<1>6. Cardinality(S(0)) = 0
  BY <1>1, FS_EmptySet
<1>7. Cardinality(S(i)) \in Nat /\ Cardinality(S(i - 1)) \in Nat
  BY <1>2, <1>3
<1>8. Cardinality(S(i)) = Cardinality(S(i - 1)) + IF dates[i] = d THEN 1 ELSE 0
  BY <1>4, <1>5, <1>7
<1> QED
  BY <1>6, <1>7, <1>8 DEF Upto, S

NotDecreasing(dates) == \A i, j \in DOMAIN dates : i <= j => dates[i] <= dates[j]

Maps == UNION {[D -> Nat] : D \in SUBSET Int}
Counters == [cur : Int, ctr : Nat, max : Nat, map : Maps]

(* After i dates in order: the last of them with its number so far, and in  *)
(* the map the number of every earlier one.                                 *)
LoopState(dates, i, a) ==
  /\ a \in Counters
  /\ i = 0 => a.ctr = 0 /\ DOMAIN a.map = {}
  /\ i # 0 => /\ a.cur = dates[i] /\ a.ctr > 0 /\ a.ctr = Upto(dates, i, dates[i])
              /\ DOMAIN a.map = {dates[j] : j \in 1 .. i} \ {dates[i]}
  /\ \A d \in DOMAIN a.map : a.map[d] = Upto(dates, i, d)

(* The end of a run writes its number to the map and touches nothing else.  *)
LEMMA FlushIs ==
  ASSUME NEW a \in Counters
  PROVE  /\ Flush(a) \in Counters
         /\ Flush(a).cur = a.cur /\ Flush(a).ctr = a.ctr
         /\ DOMAIN Flush(a).map = DOMAIN a.map \cup {a.cur}
         /\ \A d \in DOMAIN a.map \cup {a.cur} :
              Flush(a).map[d] = IF d = a.cur THEN a.ctr ELSE a.map[d]
<1> DEFINE m == [d \in DOMAIN a.map \cup {a.cur} |-> IF d = a.cur THEN a.ctr ELSE a.map[d]]
           x == IF a.ctr > a.max THEN a.ctr ELSE a.max
<1>1. a = [cur |-> a.cur, ctr |-> a.ctr, max |-> a.max, map |-> a.map]
      /\ a.cur \in Int /\ a.ctr \in Nat /\ a.max \in Nat /\ a.map \in Maps
  BY DEF Counters
<1>2. PICK D \in SUBSET Int : a.map \in [D -> Nat]
  BY <1>1 DEF Maps
<1>3. DOMAIN a.map = D
  BY <1>2
<1>4. m \in [D \cup {a.cur} -> Nat]
  BY <1>1, <1>2, <1>3
<1>5. D \cup {a.cur} \in SUBSET Int
  BY <1>1, <1>2
<1>6. m \in Maps
  BY <1>4, <1>5 DEF Maps
<1>7. x \in Nat
  BY <1>1
<1>8. Flush(a) = [cur |-> a.cur, ctr |-> a.ctr, max |-> x, map |-> m]
  BY <1>1 DEF Flush
<1>9. DOMAIN m = DOMAIN a.map \cup {a.cur}
      /\ \A d \in DOMAIN a.map \cup {a.cur} : m[d] = IF d = a.cur THEN a.ctr ELSE a.map[d]
  OBVIOUS
<1> HIDE DEF m, x
<1>10. Flush(a) \in Counters
  BY <1>1, <1>6, <1>7, <1>8 DEF Counters
<1> QED
  BY <1>8, <1>9, <1>10

(* One turn of the loop keeps its state: equal dates are next to each       *)
(* other, so that no run is written twice.                                  *)
LEMMA CountState ==
  ASSUME NEW dates, NEW n \in Nat, dates \in [1 .. n -> Int], NotDecreasing(dates),
         NEW i \in 1 .. n, NEW a, LoopState(dates, i - 1, a)
  PROVE  LoopState(dates, i, Count(a, dates[i]))
<1> DEFINE date == dates[i]
           b == Count(a, date)
<1>0. a \in Counters /\ date \in Int /\ i \in Nat \ {0} /\ i - 1 \in Nat
  BY DEF LoopState
<1>1. a = [cur |-> a.cur, ctr |-> a.ctr, max |-> a.max, map |-> a.map]
      /\ a.cur \in Int /\ a.ctr \in Nat /\ a.max \in Nat /\ a.map \in Maps
  BY <1>0 DEF Counters
<1>2. \A d : Upto(dates, i, d) \in Nat
             /\ Upto(dates, 0, d) = 0
             /\ Upto(dates, i, d) = Upto(dates, i - 1, d) + IF dates[i] = d THEN 1 ELSE 0
  BY <1>0, UptoGrows
<1>3. CASE i - 1 = 0
  <2>1. a.ctr = 0 /\ DOMAIN a.map = {}
    BY <1>3 DEF LoopState
  <2>2. b = [cur |-> date, ctr |-> 1, max |-> a.max, map |-> a.map]
    BY <1>1, <2>1 DEF Count
  <2>3. b \in Counters
    BY <1>0, <1>1, <2>2 DEF Counters
  <2>4. Upto(dates, i, date) = 1
    BY <1>2, <1>3
  <2>5. {dates[j] : j \in 1 .. i} = {date}
    BY <1>0, <1>3
  <2> QED
    BY <1>0, <2>1, <2>2, <2>3, <2>4, <2>5 DEF LoopState
<1>4. CASE i - 1 # 0
  <2>1. a.cur = dates[i - 1] /\ a.ctr > 0 /\ a.ctr = Upto(dates, i - 1, a.cur)
        /\ DOMAIN a.map = {dates[j] : j \in 1 .. i - 1} \ {a.cur}
        /\ \A d \in DOMAIN a.map : a.map[d] = Upto(dates, i - 1, d)
    BY <1>4 DEF LoopState
  <2>2. {dates[j] : j \in 1 .. i} = {dates[j] : j \in 1 .. i - 1} \cup {date}
    BY <1>0
  <2>3. a.cur \in {dates[j] : j \in 1 .. i - 1}
    BY <1>0, <1>4, <2>1
  <2>4. CASE a.cur = date
    <3>1. b = [cur |-> date, ctr |-> a.ctr + 1, max |-> a.max, map |-> a.map]
      BY <1>1, <2>1, <2>4 DEF Count
    <3>2. b \in Counters
      BY <1>0, <1>1, <3>1 DEF Counters
    <3>3. Upto(dates, i, date) = a.ctr + 1
      BY <1>2, <2>1, <2>4
    <3>4. DOMAIN a.map = {dates[j] : j \in 1 .. i} \ {date}
      BY <2>1, <2>2, <2>4
    <3>5. \A d \in DOMAIN a.map : Upto(dates, i, d) = a.map[d]
      <4> TAKE d \in DOMAIN a.map
      <4>1. d # date /\ a.map[d] = Upto(dates, i - 1, d)
        BY <2>1, <3>4
      <4>2. Upto(dates, i - 1, d) \in Nat
        BY <1>0, <1>4, UptoGrows
      <4>3. Upto(dates, i, d) = Upto(dates, i - 1, d) + 0
        BY <1>2, <4>1
      <4> QED
        BY <4>1, <4>2, <4>3
    <3> QED
      BY <1>0, <1>1, <3>1, <3>2, <3>3, <3>4, <3>5 DEF LoopState
  <2>5. CASE a.cur # date
    <3>0. Flush(a) \in Counters
          /\ DOMAIN Flush(a).map = DOMAIN a.map \cup {a.cur}
          /\ \A d \in DOMAIN a.map \cup {a.cur} :
               Flush(a).map[d] = IF d = a.cur THEN a.ctr ELSE a.map[d]
      BY <1>0, FlushIs
    <3>1. Flush(a) = [cur |-> Flush(a).cur, ctr |-> Flush(a).ctr,
                      max |-> Flush(a).max, map |-> Flush(a).map]
          /\ Flush(a).max \in Nat /\ Flush(a).map \in Maps
      BY <3>0 DEF Counters
    <3>2. b = [cur |-> date, ctr |-> 1, max |-> Flush(a).max, map |-> Flush(a).map]
      BY <2>1, <2>5, <3>1 DEF Count
    <3>3. b \in Counters
      BY <1>0, <3>1, <3>2 DEF Counters
    <3>4. \A j \in 1 .. i - 1 : dates[j] # date
      <4> SUFFICES ASSUME NEW j \in 1 .. i - 1, dates[j] = date PROVE FALSE
        OBVIOUS
      <4>1. j \in DOMAIN dates /\ i - 1 \in DOMAIN dates /\ i \in DOMAIN dates
            /\ j <= i - 1 /\ i - 1 <= i
        BY <1>0, <1>4
      <4>2. dates[j] <= dates[i - 1] /\ dates[i - 1] <= dates[i]
        BY <4>1 DEF NotDecreasing
      <4>3. dates[i - 1] \in Int
        BY <4>1
      <4> QED
        BY <1>0, <2>1, <2>5, <4>2, <4>3
    <3>5. Upto(dates, i - 1, date) = 0
      <4>1. {j \in 1 .. i - 1 : dates[j] = date} = {}
        BY <3>4
      <4> QED
        BY <4>1, FS_EmptySet DEF Upto
    <3>6. Upto(dates, i, date) = 1
      BY <1>2, <3>5
    <3>7. DOMAIN a.map \cup {a.cur} = {dates[j] : j \in 1 .. i} \ {date}
      BY <2>1, <2>2, <2>3, <3>4
    <3>8. ASSUME NEW d \in DOMAIN a.map \cup {a.cur}
          PROVE  Flush(a).map[d] = Upto(dates, i, d)
      <4>1. Upto(dates, i, d) = Upto(dates, i - 1, d) + 0
        BY <1>2, <3>7
      <4>2. Upto(dates, i - 1, d) = IF d = a.cur THEN a.ctr ELSE a.map[d]
        BY <2>1
      <4>3. Upto(dates, i - 1, d) \in Nat
        BY <1>0, <1>4, UptoGrows
      <4> QED
        BY <3>0, <4>1, <4>2, <4>3
    <3> QED
      BY <1>0, <3>0, <3>2, <3>3, <3>6, <3>7, <3>8 DEF LoopState
  <2> QED
    BY <2>4, <2>5
<1> QED
  BY <1>3, <1>4

(* What setup_graph_map returns for dates in order: the dates, each with    *)
(* its number.                                                              *)
LEMMA GraphMapCounts ==
  ASSUME NEW dates \in Seq(Int), NotDecreasing(dates)
  PROVE  LET g == SetupGraphMap(dates) IN
         /\ g.max \in Nat
         /\ DOMAIN g.map = {dates[j] : j \in 1 .. Len(dates)}
         /\ \A d \in DOMAIN g.map : g.map[d] = Upto(dates, Len(dates), d)
<1> DEFINE n == Len(dates)
           f == CHOOSE g : LoopOf(dates, n, g)
           all == f[n]
           g == IF all.ctr > 0 THEN Flush(all) ELSE all
<1>1. n \in Nat /\ dates \in [1 .. n -> Int]
  OBVIOUS
<1>2. SetupGraphMap(dates) = g
  BY DEF SetupGraphMap, LoopOf
<1>3. LoopOf(dates, n, f)
  BY <1>1, LoopExists
<1> HIDE DEF f
<1>4. \A i \in 0 .. n : f[i] = IF i = 0 THEN NoneCounted ELSE Count(f[i - 1], dates[i])
  BY <1>3 DEF LoopOf
<1> DEFINE T == {i \in 0 .. n : ~ LoopState(dates, i, f[i])}
<1>5. T = {}
  <2> SUFFICES ASSUME T # {} PROVE FALSE
    OBVIOUS
  <2>0. T \in SUBSET Nat
    BY <1>1
  <2>1. PICK i \in T : \A k \in T : i <= k
    BY <2>0, NatMin
  <2>2. CASE i = 0
    <3>1. f[0] = NoneCounted
      BY <1>1, <1>4
    <3>2. DOMAIN NoneCounted.map = {} /\ NoneCounted.ctr = 0
      BY DEF NoneCounted
    <3>3. NoneCounted.map \in [{} -> Nat]
      BY DEF NoneCounted
    <3>4. NoneCounted.map \in Maps
      BY <3>3 DEF Maps
    <3>5. NoneCounted \in Counters
      BY <3>4 DEF Counters, NoneCounted
    <3> QED
      BY <2>1, <2>2, <3>1, <3>2, <3>5 DEF LoopState
  <2>3. CASE i # 0
    <3>1. i \in 1 .. n /\ i - 1 \in 0 .. n /\ i - 1 \notin T
      BY <1>1, <2>1, <2>3
    <3>2. LoopState(dates, i - 1, f[i - 1])
      BY <3>1
    <3>3. LoopState(dates, i, Count(f[i - 1], dates[i]))
      BY <1>1, <3>1, <3>2, CountState
    <3> QED
      BY <1>4, <2>1, <2>3, <3>3
  <2> QED
    BY <2>2, <2>3
<1>6. LoopState(dates, n, all)
  BY <1>1, <1>5
<1> HIDE DEF all
<1>7. all \in Counters /\ all.ctr \in Nat /\ all.max \in Nat
  BY <1>6 DEF LoopState, Counters
<1>8. CASE n = 0
  <2>1. g = all /\ DOMAIN all.map = {}
    BY <1>6, <1>7, <1>8 DEF LoopState
  <2> QED
    BY <1>2, <1>7, <1>8, <2>1
<1>9. CASE n # 0
  <2>1. all.cur = dates[n] /\ all.ctr > 0 /\ all.ctr = Upto(dates, n, dates[n])
        /\ DOMAIN all.map = {dates[j] : j \in 1 .. n} \ {dates[n]}
        /\ \A d \in DOMAIN all.map : all.map[d] = Upto(dates, n, d)
    BY <1>6, <1>9 DEF LoopState
  <2>2. g = Flush(all)
    BY <2>1
  <2>3. g \in Counters /\ DOMAIN g.map = DOMAIN all.map \cup {all.cur}
        /\ \A d \in DOMAIN all.map \cup {all.cur} :
             g.map[d] = IF d = all.cur THEN all.ctr ELSE all.map[d]
    BY <1>7, <2>2, FlushIs
  <2>4. g.max \in Nat
    BY <2>3 DEF Counters
  <2>5. dates[n] \in {dates[j] : j \in 1 .. n}
    BY <1>1, <1>9
  <2> HIDE DEF g
  <2> QED
    BY <1>2, <2>1, <2>3, <2>4, <2>5
<1> QED
  BY <1>8, <1>9

(* The events of a query are those in its range, and come in their order.   *)
Found(since, until) == {i \in DOMAIN events : events[i].time \in since .. until}

(* The query returns each event of its range once, ordered by time.         *)
LEMMA LoadedIs ==
  ASSUME events \in Seq(NewEvents), NEW since \in Int, NEW until \in Int
  PROVE  LET L == Loaded(since, until)
             I == Found(since, until)
         IN  /\ IsFiniteSet(I) /\ Cardinality(I) \in Nat
             /\ L \in [1 .. Cardinality(I) -> I]
             /\ \A i \in I : \E k \in 1 .. Cardinality(I) : L[k] = i
             /\ \A k, l \in 1 .. Cardinality(I) :
                  /\ k <= l => events[L[k]].time <= events[L[l]].time
                  /\ L[k] = L[l] => k = l
<1> DEFINE I == Found(since, until)
           R == {ij \in I \X I :
                    \/ events[ij[1]].time < events[ij[2]].time
                    \/ events[ij[1]].time = events[ij[2]].time /\ ij[1] < ij[2]}
           L == Ordered(I, R)
<1>1. L = Loaded(since, until)
  BY DEF Loaded, Found
<1>2. I \subseteq 1 .. Len(events) /\ Len(events) \in Nat
  BY DEF Found
<1>3. IsFiniteSet(I)
  <2>1. IsFiniteSet(1 .. Len(events))
    BY <1>2, FS_Interval
  <2> QED
    BY <1>2, <2>1, FS_Subset
<1> DEFINE time == [i \in I |-> events[i].time]
<1>4. ASSUME NEW i \in I PROVE i \in Nat /\ time[i] \in Nat /\ time[i] = events[i].time
  <2>1. i \in 1 .. Len(events)
    BY <1>2
  <2>2. events[i] \in NewEvents
    BY <2>1
  <2>3. events[i].time \in 1 .. MaxTime
    BY <2>2 DEF NewEvents, Times
  <2> QED
    BY <1>2, <2>1, <2>3, ActivityAssumption
<1>5. \A i, j \in I : <<i, j>> \in R <=> time[i] < time[j] \/ (time[i] = time[j] /\ i < j)
  OBVIOUS
<1> HIDE DEF I, R, L, time
<1>6. StrictOrder(I, R)
  <2>1. \A i \in I : <<i, i>> \notin R
    BY <1>4, <1>5
  <2>2. \A i, j, k \in I : <<i, j>> \in R /\ <<j, k>> \in R => <<i, k>> \in R
    BY <1>4, <1>5
  <2>3. \A i, j \in I : i = j \/ <<i, j>> \in R \/ <<j, i>> \in R
    <3> TAKE i, j \in I
    <3>1. i \in Nat /\ j \in Nat /\ time[i] \in Nat /\ time[j] \in Nat
      BY <1>4
    <3>2. i = j \/ time[i] < time[j] \/ (time[i] = time[j] /\ i < j)
                \/ time[j] < time[i] \/ (time[j] = time[i] /\ j < i)
      BY <3>1
    <3> QED
      BY <1>5, <3>2
  <2> QED
    BY <2>1, <2>2, <2>3 DEF StrictOrder
<1>7. Enumerates(L, I, R)
  BY <1>3, <1>6, OrderedEnumerates DEF L
<1>8. Cardinality(I) \in Nat
  BY <1>3, FS_CardinalityType
<1>9. L \in [1 .. Cardinality(I) -> I] /\ DOMAIN L = 1 .. Cardinality(I)
  BY <1>7 DEF Enumerates
<1>10. ASSUME NEW k \in 1 .. Cardinality(I), NEW l \in 1 .. Cardinality(I)
       PROVE  /\ k <= l => events[L[k]].time <= events[L[l]].time
              /\ L[k] = L[l] => k = l
  <2>1. L[k] \in I /\ L[l] \in I /\ k \in Int /\ l \in Int
    BY <1>8, <1>9
  <2>2. (k < l => <<L[k], L[l]>> \in R) /\ (l < k => <<L[l], L[k]>> \in R)
    BY <1>7, <1>9 DEF Enumerates
  <2>3. time[L[k]] \in Nat /\ time[L[l]] \in Nat /\ L[k] \in Nat /\ L[l] \in Nat
        /\ time[L[k]] = events[L[k]].time /\ time[L[l]] = events[L[l]].time
    BY <1>4, <2>1
  <2>4. k < l => time[L[k]] <= time[L[l]] /\ L[k] # L[l]
    BY <1>5, <2>1, <2>2, <2>3
  <2>5. l < k => L[k] # L[l]
    BY <1>5, <2>1, <2>2, <2>3
  <2>6. k = l => time[L[k]] <= time[L[l]]
    BY <2>3
  <2> QED
    BY <2>1, <2>3, <2>4, <2>5, <2>6
<1> QED
  BY <1>1, <1>3, <1>7, <1>8, <1>9, <1>10 DEF Enumerates, I

(* The map of a view that dates an event by F: the dates of the events in   *)
(* its range, each with the number of them.                                 *)
LEMMA ViewCounts ==
  ASSUME events \in Seq(NewEvents), NEW since \in Int, NEW until \in Int,
         NEW F \in [Times -> Int], \A s, t \in Times : s <= t => F[s] <= F[t]
  PROVE  LET L == Loaded(since, until)
             I == Found(since, until)
             g == SetupGraphMap([k \in DOMAIN L |-> F[events[L[k]].time]])
         IN  /\ g.max \in Nat
             /\ DOMAIN g.map = {F[events[i].time] : i \in I}
             /\ \A d \in DOMAIN g.map : g.map[d] = Cardinality({i \in I : F[events[i].time] = d})
<1> DEFINE L == Loaded(since, until)
           I == Found(since, until)
           n == Cardinality(I)
           time == [i \in I |-> events[i].time]
           dates == [k \in 1 .. n |-> F[time[L[k]]]]
           g == SetupGraphMap(dates)
<1>1. /\ IsFiniteSet(I) /\ n \in Nat
      /\ L \in [1 .. n -> I]
      /\ \A i \in I : \E k \in 1 .. n : L[k] = i
      /\ \A k, l \in 1 .. n : /\ k <= l => events[L[k]].time <= events[L[l]].time
                              /\ L[k] = L[l] => k = l
  BY LoadedIs
<1>2. \A i \in I : time[i] \in Times /\ time[i] = events[i].time
  <2> TAKE i \in I
  <2>1. events[i] \in NewEvents
    BY DEF Found
  <2> QED
    BY <2>1 DEF NewEvents
<1>3. DOMAIN L = 1 .. n
  BY <1>1
<1> HIDE DEF L, I, n, time
<1>4. [k \in DOMAIN L |-> F[events[L[k]].time]] = dates
  BY <1>1, <1>2, <1>3
<1>5. \A k \in 1 .. n : L[k] \in I /\ time[L[k]] \in Times /\ dates[k] = F[time[L[k]]] /\ dates[k] \in Int
  BY <1>1, <1>2
<1>6. dates \in Seq(Int) /\ Len(dates) = n /\ DOMAIN dates = 1 .. n
  BY <1>1, <1>5
<1>7. NotDecreasing(dates)
  <2> SUFFICES ASSUME NEW k \in 1 .. n, NEW l \in 1 .. n, k <= l PROVE dates[k] <= dates[l]
    BY <1>6 DEF NotDecreasing
  <2>1. time[L[k]] <= time[L[l]]
    BY <1>1, <1>2, <1>5
  <2> QED
    BY <1>5, <2>1
<1> HIDE DEF dates
<1>8. /\ g.max \in Nat
      /\ DOMAIN g.map = {dates[j] : j \in 1 .. n}
      /\ \A d \in DOMAIN g.map : g.map[d] = Upto(dates, n, d)
  BY <1>6, <1>7, GraphMapCounts
<1>9. {dates[j] : j \in 1 .. n} = {F[time[i]] : i \in I}
  BY <1>1, <1>5
<1>10. ASSUME NEW d PROVE Upto(dates, n, d) = Cardinality({i \in I : F[time[i]] = d})
  <2> DEFINE A == {k \in 1 .. n : dates[k] = d}
             B == {i \in I : F[time[i]] = d}
             f == [k \in A |-> L[k]]
  <2>1. f \in [A -> B]
    BY <1>5
  <2>2. \A b \in B : \E k \in A : f[k] = b
    BY <1>1, <1>5
  <2>3. \A k, l \in A : f[k] = f[l] => k = l
    BY <1>1
  <2>4. ExistsBijection(A, B)
    BY <2>1, <2>2, <2>3 DEF ExistsBijection, Bijection, Injection, Surjection, IsInjective
  <2>5. IsFiniteSet(A)
    <3>1. IsFiniteSet(1 .. n)
      BY <1>1, FS_Interval
    <3> QED
      BY <3>1, FS_Subset
  <2> QED
    BY <2>4, <2>5, FS_Bijection DEF Upto
<1>11. \A d : {i \in I : F[time[i]] = d} = {i \in I : F[events[i].time] = d}
  BY <1>2
<1>12. {F[time[i]] : i \in I} = {F[events[i].time] : i \in I}
  BY <1>2
<1> HIDE DEF g
<1> QED
  BY <1>4, <1>8, <1>9, <1>10, <1>11, <1>12 DEF L, I, g

-----------------------------------------------------------------------------
(* Days and slices.                                                         *)

(* Division: the multiple of b at or below a number is the one.             *)
LEMMA Divided ==
  ASSUME NEW a \in Nat, NEW b \in Nat \ {0}
  PROVE  a = b * (a \div b) + (a % b) /\ a \div b \in Nat /\ a % b \in 0 .. b - 1
OBVIOUS

(* Multiples of s are s apart.                                              *)
LEMMA TimesGrows ==
  ASSUME NEW s \in Nat, NEW a \in Int, NEW b \in Int, a < b
  PROVE  s * a + s <= s * b /\ s * a \in Int /\ s * b \in Int
OBVIOUS

(* Products that the provers have to be reminded of.                        *)
LEMMA Distributes ==
  ASSUME NEW s \in Int, NEW a \in Int, NEW b \in Int
  PROVE  /\ s * (a + b) = s * a + s * b /\ s * (a - b) = s * a - s * b
         /\ s * (a * b) = (s * a) * b /\ s * a = a * s /\ s * a \in Int
OBVIOUS

(* A number at or above a multiple of s and below the end of another is not *)
(* below the first.                                                         *)
LEMMA BlockUnique ==
  ASSUME NEW s \in Nat, NEW a \in Int, NEW b \in Int, NEW t \in Int,
         s * a <= t, t < s * b + s
  PROVE  a <= b
<1> SUFFICES ASSUME b < a PROVE FALSE
  OBVIOUS
<1>1. s * b + s <= s * a /\ s * a \in Int /\ s * b \in Int
  BY TimesGrows
<1> QED
  BY <1>1

(* An event is in the minutes of its day.                                   *)
LEMMA DayIs ==
  /\ DayLen \in Nat \ {0}
  /\ \A t \in Nat : Date(t) \in Nat /\ DayLen * Date(t) <= t /\ t < DayLen * Date(t) + DayLen
<1>1. DayLen \in Nat \ {0}
  BY CalendarAssumption DEF DayLen
<1> HIDE DEF DayLen
<1>2. ASSUME NEW t \in Nat
      PROVE  Date(t) \in Nat /\ DayLen * Date(t) <= t /\ t < DayLen * Date(t) + DayLen
  <2>1. t = DayLen * (t \div DayLen) + (t % DayLen) /\ t \div DayLen \in Nat /\ t % DayLen \in 0 .. DayLen - 1
    BY <1>1, Divided
  <2>2. DayLen * Date(t) \in Int
    BY <1>1, <2>1, Distributes DEF Date
  <2> QED
    BY <1>1, <2>1, <2>2 DEF Date
<1> QED
  BY <1>1, <1>2

(* Hours and days are a whole number of slices.                             *)
LEMMA SliceIs ==
  ASSUME NEW slice \in Slices
  PROVE  /\ slice \in Nat \ {0}
         /\ \E m \in Nat \ {0} : HourLen = slice * m
         /\ DayLen \div slice \in Nat \ {0} /\ DayLen = slice * (DayLen \div slice)
<1>1. slice \in Nat \ {0} /\ HourLen \in Nat \ {0} /\ DayHours \in Nat \ {0} /\ HourLen % slice = 0
  BY CalendarAssumption
<1>2. HourLen = slice * (HourLen \div slice) + 0 /\ HourLen \div slice \in Nat
  BY <1>1, Divided
<1> DEFINE m == HourLen \div slice
<1>3. HourLen = slice * m /\ m \in Nat \ {0}
  BY <1>1, <1>2
<1> HIDE DEF m
<1>4. DayLen = slice * (m * DayHours)
  <2>1. slice * (m * DayHours) = (slice * m) * DayHours
    BY <1>1, <1>3, Distributes
  <2>2. HourLen * DayHours = DayHours * HourLen
    BY <1>1, Distributes
  <2> QED
    BY <1>3, <2>1, <2>2 DEF DayLen
<1> DEFINE p == m * DayHours
           c == DayLen \div slice
<1>5. p \in Nat \ {0}
  BY <1>1, <1>3
<1>6. DayLen \in Nat \ {0}
  BY DayIs
<1> HIDE DEF p, DayLen
<1>7. DayLen = slice * c + (DayLen % slice) /\ c \in Nat /\ DayLen % slice \in 0 .. slice - 1
  BY <1>1, <1>6, Divided
<1>8. DayLen = slice * p
  BY <1>4 DEF p
<1> HIDE DEF c
<1>9. slice * p \in Int /\ slice * c \in Int
  BY <1>1, <1>5, <1>7, Distributes
<1>10. c <= p
  BY <1>1, <1>5, <1>7, <1>8, <1>9, BlockUnique
<1>11. p <= c
  BY <1>1, <1>5, <1>7, <1>8, <1>9, BlockUnique
<1>12. c = p
  BY <1>5, <1>7, <1>10, <1>11
<1> QED
  BY <1>1, <1>3, <1>5, <1>8, <1>12 DEF c

(* Rounding within the hour is rounding to a multiple of the slice.         *)
LEMMA RoundIs ==
  ASSUME NEW slice \in Slices, NEW t \in Nat
  PROVE  \E k \in Nat : /\ RoundToSlice(t, slice) = slice * k
                        /\ slice * k <= t /\ t < slice * k + slice /\ slice * k \in Nat
<1>1. slice \in Nat \ {0} /\ HourLen \in Nat \ {0}
  BY SliceIs, CalendarAssumption
<1>2. PICK m \in Nat \ {0} : HourLen = slice * m
  BY SliceIs
<1> DEFINE h == t \div HourLen
           r == t % HourLen
           j == r \div slice
           k == m * h + j
<1>3. t = HourLen * h + r /\ h \in Nat /\ r \in 0 .. HourLen - 1
  BY <1>1, Divided
<1>4. r \in Nat
  BY <1>1, <1>3
<1>5. r = slice * j + (r % slice) /\ j \in Nat /\ r % slice \in 0 .. slice - 1
  BY <1>1, <1>4, Divided
<1>6. RoundToSlice(t, slice) = h * HourLen + (r - (r % slice))
  BY DEF RoundToSlice
<1> HIDE DEF h, r, j
<1>7. m * h \in Nat
  BY <1>2, <1>3
<1>8. slice * k = slice * (m * h) + slice * j
  BY <1>1, <1>5, <1>7, Distributes
<1>9. slice * (m * h) = HourLen * h /\ HourLen * h = h * HourLen /\ HourLen * h \in Nat
  BY <1>1, <1>2, <1>3, Distributes
<1>10. slice * j \in Nat
  BY <1>1, <1>5
<1>11. k \in Nat
  BY <1>5, <1>7
<1> HIDE DEF k
<1>12. RoundToSlice(t, slice) = slice * k
  BY <1>4, <1>5, <1>6, <1>8, <1>9, <1>10, <1>1
<1>13. slice * k <= t /\ t < slice * k + slice /\ slice * k \in Nat
  BY <1>1, <1>3, <1>4, <1>5, <1>8, <1>9, <1>10
<1> QED
  BY <1>11, <1>12, <1>13

(* An event is in the slice it is rounded to and in no other, and rounding  *)
(* keeps the order.                                                         *)
LEMMA RoundOrder ==
  ASSUME NEW slice \in Slices, NEW s \in Nat, NEW t \in Nat
  PROVE  /\ RoundToSlice(s, slice) \in Int
         /\ s <= t => RoundToSlice(s, slice) <= RoundToSlice(t, slice)
         /\ \A k \in Nat : RoundToSlice(t, slice) = slice * k <=> t \in slice * k .. slice * k + slice - 1
<1>1. slice \in Nat \ {0}
  BY SliceIs
<1>2. PICK i \in Nat : /\ RoundToSlice(s, slice) = slice * i
                       /\ slice * i <= s /\ s < slice * i + slice /\ slice * i \in Nat
  BY RoundIs
<1>3. PICK j \in Nat : /\ RoundToSlice(t, slice) = slice * j
                       /\ slice * j <= t /\ t < slice * j + slice /\ slice * j \in Nat
  BY RoundIs
<1>4. ASSUME s <= t PROVE slice * i <= slice * j
  <2>1. slice * i <= t
    BY <1>2, <1>4
  <2>2. i <= j
    BY <1>1, <1>3, <2>1, BlockUnique
  <2>3. i = j \/ (i < j /\ slice * i + slice <= slice * j)
    BY <1>1, <2>2, TimesGrows
  <2> QED
    BY <1>1, <1>2, <1>3, <2>3
<1>5. ASSUME NEW k \in Nat
      PROVE  RoundToSlice(t, slice) = slice * k <=> t \in slice * k .. slice * k + slice - 1
  <2>0. slice * k \in Int
    BY <1>1, Distributes
  <2>1. ASSUME slice * j = slice * k PROVE t \in slice * k .. slice * k + slice - 1
    BY <1>1, <1>3, <2>0, <2>1
  <2>2. ASSUME t \in slice * k .. slice * k + slice - 1 PROVE slice * j = slice * k
    <3>1. slice * k <= t /\ t < slice * k + slice
      BY <1>1, <2>0, <2>2
    <3>2. j <= k /\ k <= j
      BY <1>1, <1>3, <3>1, BlockUnique
    <3> QED
      BY <3>2
  <2> QED
    BY <1>3, <2>1, <2>2
<1> QED
  BY <1>2, <1>3, <1>4, <1>5

(* DateTimeSpec::to_term_string walks through an hour in steps of a slice,  *)
(* and so through the day.                                                  *)
WalkOf(slice, n, f) ==
  f = [i \in 0 .. n - 1 |->
         IF i = 0 THEN <<0, 0>>
         ELSE IF f[i - 1][2] + slice >= HourLen THEN <<f[i - 1][1] + 1, 0>>
         ELSE <<f[i - 1][1], f[i - 1][2] + slice>>]

(* The walk has a result for every number of slices.                        *)
LEMMA WalkExists ==
  ASSUME NEW slice, NEW n \in Nat
  PROVE  \E f : WalkOf(slice, n, f)
<1> DEFINE T == {m \in Nat : ~ \E f : WalkOf(slice, m, f)}
           Step(x) == IF x[2] + slice >= HourLen THEN <<x[1] + 1, 0>> ELSE <<x[1], x[2] + slice>>
<1> SUFFICES ASSUME T # {} PROVE FALSE
  OBVIOUS
<1>1. PICK m \in T : \A k \in T : m <= k
  BY NatMin
<1>2. CASE m = 0
  <2> DEFINE f == [i \in 0 .. 0 - 1 |-> 0]
  <2>1. WalkOf(slice, 0, f)
    BY DEF WalkOf
  <2> QED
    BY <1>1, <1>2, <2>1
<1>3. CASE m # 0
  <2>1. m \in Nat /\ m - 1 \in Nat /\ m - 1 \notin T
    BY <1>1, <1>3
  <2>2. PICK f : WalkOf(slice, m - 1, f)
    BY <2>1
  <2> DEFINE g == [i \in 0 .. m - 1 |->
                     IF i = m - 1 THEN (IF i = 0 THEN <<0, 0>> ELSE Step(f[i - 1])) ELSE f[i]]
             h == [i \in 0 .. m - 1 |-> IF i = 0 THEN <<0, 0>> ELSE Step(g[i - 1])]
  <2>3. \A i \in 0 .. m - 2 : f[i] = IF i = 0 THEN <<0, 0>> ELSE Step(f[i - 1])
    <3>1. \A i \in 0 .. (m - 1) - 1 : f[i] = IF i = 0 THEN <<0, 0>> ELSE Step(f[i - 1])
      BY <2>2 DEF WalkOf
    <3>2. (m - 1) - 1 = m - 2
      BY <2>1
    <3> QED
      BY <3>1, <3>2
  <2>4. WalkOf(slice, m, g) <=> g = h
    BY DEF WalkOf
  <2>5. \A i \in 0 .. m - 1 :
          g[i] = IF i = m - 1 THEN (IF i = 0 THEN <<0, 0>> ELSE Step(f[i - 1])) ELSE f[i]
    OBVIOUS
  <2>6. \A i \in 0 .. m - 1 : h[i] = IF i = 0 THEN <<0, 0>> ELSE Step(g[i - 1])
    OBVIOUS
  <2>7. DOMAIN g = 0 .. m - 1 /\ DOMAIN h = 0 .. m - 1
    OBVIOUS
  <2>a. g = [i \in 0 .. m - 1 |-> g[i]] /\ h = [i \in 0 .. m - 1 |-> h[i]]
    OBVIOUS
  <2> HIDE DEF Step, g, h
  <2>8. ASSUME NEW i \in 0 .. m - 1 PROVE g[i] = h[i]
    <3>1. i # 0 => i - 1 \in 0 .. m - 2 /\ i - 1 \in 0 .. m - 1 /\ i - 1 # m - 1
      BY <2>1
    <3>2. i # m - 1 => i \in 0 .. m - 2
      BY <2>1
    <3>3. i # 0 => g[i - 1] = f[i - 1]
      BY <2>5, <3>1
    <3>4. g[i] = IF i = 0 THEN <<0, 0>> ELSE Step(f[i - 1])
      BY <2>3, <2>5, <3>2
    <3> QED
      BY <2>6, <3>3, <3>4
  <2>9. g = h
    BY <2>a, <2>8
  <2> QED
    BY <1>1, <2>4, <2>9
<1> QED
  BY <1>2, <1>3

(* The i-th slice of a day begins i slices after the day, also across       *)
(* hours.                                                                   *)
LEMMA SlicesAre ==
  ASSUME NEW day \in Nat, NEW slice \in Slices
  PROVE  SlicesOf(day, slice) = {day * DayLen + slice * i : i \in 0 .. (DayLen \div slice) - 1}
<1> DEFINE n == DayLen \div slice
           f == CHOOSE g : WalkOf(slice, n, g)
<1>1. SlicesOf(day, slice) = {day * DayLen + f[i][1] * HourLen + f[i][2] : i \in 0 .. n - 1}
  BY DEF SlicesOf, WalkOf
<1>2. slice \in Nat \ {0} /\ n \in Nat \ {0} /\ HourLen \in Nat \ {0} /\ DayLen \in Nat \ {0}
  BY SliceIs, DayIs, CalendarAssumption
<1>3. PICK m \in Nat \ {0} : HourLen = slice * m
  BY SliceIs
<1> HIDE DEF n
<1>4. WalkOf(slice, n, f)
  BY <1>2, WalkExists
<1> HIDE DEF f
<1>5. ASSUME NEW i \in 0 .. n - 1
      PROVE  f[i] = IF i = 0 THEN <<0, 0>>
                    ELSE IF f[i - 1][2] + slice >= HourLen THEN <<f[i - 1][1] + 1, 0>>
                    ELSE <<f[i - 1][1], f[i - 1][2] + slice>>
  BY <1>4 DEF WalkOf
<1> DEFINE P(i) == \E h \in Nat, r \in 0 .. m - 1 :
                     f[i] = <<h, slice * r>> /\ h * HourLen + slice * r = slice * i
           T == {i \in 0 .. n - 1 : ~ P(i)}
<1>6. T = {}
  <2> SUFFICES ASSUME T # {} PROVE FALSE
    OBVIOUS
  <2>0. T \in SUBSET Nat
    BY <1>2
  <2>1. PICK i \in T : \A k \in T : i <= k
    BY <2>0, NatMin
  <2>2. CASE i = 0
    <3>1. f[i] = <<0, 0>>
      BY <1>2, <1>5, <2>2
    <3>2. slice * 0 = 0 /\ 0 * HourLen + slice * 0 = 0
      BY <1>2
    <3>3. 0 \in Nat /\ 0 \in 0 .. m - 1
      BY <1>3
    <3>4. P(i)
      BY <2>2, <3>1, <3>2, <3>3
    <3> QED
      BY <2>1, <3>4
  <2>3. CASE i # 0
    <3>1. i \in 0 .. n - 1 /\ i - 1 \in 0 .. n - 1 /\ i - 1 \notin T
      <4>1. i \in 0 .. n - 1
        BY <2>1
      <4>2. i - 1 \in 0 .. n - 1 /\ i - 1 \in Int /\ ~(i <= i - 1)
        BY <1>2, <2>3, <4>1
      <4> HIDE DEF T
      <4> QED
        BY <2>1, <4>1, <4>2
    <3>2. P(i - 1)
      BY <3>1
    <3>3. PICK h \in Nat, r \in 0 .. m - 1 :
            f[i - 1] = <<h, slice * r>> /\ h * HourLen + slice * r = slice * (i - 1)
      BY <3>2
    <3>4. f[i] = IF slice * r + slice >= HourLen THEN <<h + 1, 0>> ELSE <<h, slice * r + slice>>
      BY <1>5, <2>3, <3>1, <3>3
    <3>5. r \in Nat /\ slice * r \in Int /\ h * HourLen \in Int /\ slice * i \in Int
      BY <1>2, <1>3, <3>1, <3>3
    <3>6. slice * (r + 1) = slice * r + slice /\ slice * (i - 1) = slice * i - slice
          /\ (h + 1) * HourLen = h * HourLen + HourLen
      BY <1>2, <3>1, <3>3, <3>5, Distributes
    <3>7. CASE r = m - 1
      <4>1. slice * r + slice = HourLen
        <5>1. r + 1 = m
          BY <1>3, <3>7
        <5> QED
          BY <1>3, <3>6, <5>1
      <4>2. f[i] = <<h + 1, 0>>
        BY <1>2, <3>4, <3>5, <4>1
      <4>3. (h + 1) * HourLen + 0 = slice * i
        BY <1>2, <3>3, <3>5, <3>6, <4>1
      <4>4. slice * 0 = 0 /\ h + 1 \in Nat /\ 0 \in 0 .. m - 1
        BY <1>2, <1>3, <3>3
      <4>5. P(i)
        BY <4>2, <4>3, <4>4
      <4> QED
        BY <2>1, <4>5
    <3>8. CASE r # m - 1
      <4>1. r + 1 < m /\ r + 1 \in 0 .. m - 1 /\ r + 1 \in Int
        BY <1>3, <3>3, <3>8
      <4>2. slice * (r + 1) + slice <= HourLen /\ slice * (r + 1) \in Int
        BY <1>2, <1>3, <4>1, TimesGrows
      <4>3. f[i] = <<h, slice * (r + 1)>>
        BY <1>2, <3>4, <3>5, <3>6, <4>2
      <4>4. h * HourLen + slice * (r + 1) = slice * i
        BY <1>2, <3>3, <3>5, <3>6
      <4>5. P(i)
        BY <3>3, <4>1, <4>3, <4>4
      <4> QED
        BY <2>1, <4>5
    <3> QED
      BY <3>7, <3>8
  <2> QED
    BY <2>2, <2>3
<1>7. ASSUME NEW i \in 0 .. n - 1
      PROVE  day * DayLen + f[i][1] * HourLen + f[i][2] = day * DayLen + slice * i
  <2>1. PICK h \in Nat, r \in 0 .. m - 1 :
          f[i] = <<h, slice * r>> /\ h * HourLen + slice * r = slice * i
    BY <1>6
  <2>2. r \in Nat /\ slice * r \in Int /\ h * HourLen \in Int /\ slice * i \in Int /\ day * DayLen \in Int
    BY <1>2, <1>3, <2>1
  <2>3. f[i][1] = h /\ f[i][2] = slice * r
    BY <2>1
  <2> QED
    BY <2>1, <2>2, <2>3
<1>8. {day * DayLen + f[i][1] * HourLen + f[i][2] : i \in 0 .. n - 1}
        = {day * DayLen + slice * i : i \in 0 .. n - 1}
  BY <1>7
<1> QED
  BY <1>1, <1>8 DEF n

(* Which slices of the days from .. to are shown: those of their events,    *)
(* each for the events of its minutes.                                      *)
LEMMA SlicesShown ==
  ASSUME NEW from \in Nat, NEW to \in Nat, NEW slice \in Slices, NEW t \in Nat
  PROVE  LET shown == UNION {SlicesOf(d, slice) : d \in from .. to}
             loaded == from * DayLen .. (to + 1) * DayLen - 1
         IN  /\ t \in loaded => RoundToSlice(t, slice) \in shown
             /\ \A x \in shown : RoundToSlice(t, slice) = x <=> t \in x .. x + slice - 1
             /\ \A x \in shown : t \in x .. x + slice - 1 => t \in loaded
             /\ \A x \in shown : x \in Nat /\ (RoundToSlice(t, slice) < x <=> t < x)
<1> DEFINE n == DayLen \div slice
           D == DayLen
<1>1. slice \in Nat \ {0} /\ n \in Nat \ {0} /\ D \in Nat \ {0} /\ D = slice * n
  BY SliceIs, DayIs
<1>2. \A d \in from .. to : d \in Nat /\ SlicesOf(d, slice) = {d * D + slice * i : i \in 0 .. n - 1}
  BY SlicesAre
<1>3. Date(t) \in Nat /\ D * Date(t) <= t /\ t < D * Date(t) + D
  BY DayIs
<1> DEFINE shown == UNION {SlicesOf(d, slice) : d \in from .. to}
<1>4. \A x : x \in shown <=> \E d \in from .. to, i \in 0 .. n - 1 : x = d * D + slice * i
  BY <1>2
<1> HIDE DEF n, D, shown
<1>5. ASSUME NEW d \in Nat
      PROVE  d * D = D * d /\ D * d = slice * (n * d) /\ n * d \in Nat /\ D * d \in Nat
  <2>1. d * D = D * d /\ n * d \in Nat /\ D * d \in Nat
    BY <1>1
  <2>2. slice * (n * d) = (slice * n) * d
    BY <1>1, Distributes
  <2> QED
    BY <1>1, <2>1, <2>2
<1>6. (to + 1) * D = D * to + D /\ from * D = D * from
  BY <1>1, Distributes
<1>7. ASSUME t \in from * D .. (to + 1) * D - 1 PROVE RoundToSlice(t, slice) \in shown
  <2> DEFINE d == Date(t)
  <2>0. D * from \in Nat /\ D * to \in Nat /\ D * d \in Nat
    BY <1>3, <1>5
  <2>1. D * from <= t /\ t < D * to + D
    BY <1>1, <1>6, <1>7, <2>0
  <2>2. from <= d /\ d <= to
    BY <1>1, <1>3, <2>1, BlockUnique
  <2>3. PICK k \in Nat : /\ RoundToSlice(t, slice) = slice * k
                         /\ slice * k <= t /\ t < slice * k + slice /\ slice * k \in Nat
    BY RoundIs
  <2> HIDE DEF d
  <2>4. d \in Nat
    BY <1>3 DEF d
  <2>5. D * d <= t /\ t < D * d + D
    BY <1>3 DEF d
  <2>6. slice * (n * d) = D * d /\ n * d \in Nat
    BY <1>5, <2>4
  <2>7. n * d <= k
    BY <1>1, <2>3, <2>5, <2>6, BlockUnique
  <2>8. slice * (n * d + n - 1) + slice = D * d + D /\ n * d + n - 1 \in Int
    <3>1. n * d + n - 1 \in Int /\ (n * d + n - 1) + 1 = n * d + n
      BY <1>1, <2>6
    <3>2. slice * ((n * d + n - 1) + 1) = slice * (n * d + n - 1) + slice * 1
      BY <1>1, <3>1, Distributes
    <3>3. slice * (n * d + n) = slice * (n * d) + slice * n
      BY <1>1, <2>6, Distributes
    <3> QED
      BY <1>1, <2>6, <3>1, <3>2, <3>3
  <2>9. k <= n * d + n - 1
    BY <1>1, <2>3, <2>5, <2>8, BlockUnique
  <2>10. k - n * d \in 0 .. n - 1
    BY <1>1, <2>6, <2>7, <2>9
  <2>11. slice * (k - n * d) = slice * k - slice * (n * d)
    BY <1>1, <2>6, Distributes
  <2>12. d * D + slice * (k - n * d) = slice * k
    BY <1>5, <2>3, <2>4, <2>6, <2>11
  <2>13. d \in from .. to
    BY <2>2, <2>4 DEF d
  <2> QED
    BY <1>4, <2>3, <2>10, <2>12, <2>13
<1>8. ASSUME NEW x \in shown
      PROVE  /\ RoundToSlice(t, slice) = x <=> t \in x .. x + slice - 1
             /\ t \in x .. x + slice - 1 => t \in from * D .. (to + 1) * D - 1
             /\ x \in Nat /\ (RoundToSlice(t, slice) < x <=> t < x)
  <2>1. PICK d \in from .. to, i \in 0 .. n - 1 : x = d * D + slice * i
    BY <1>4
  <2>2. d \in Nat /\ i \in Nat /\ from <= d /\ d <= to /\ i < n
    BY <1>1
  <2>3. d * D = D * d /\ D * d = slice * (n * d) /\ n * d \in Nat /\ D * d \in Nat
    BY <1>5, <2>2
  <2>4. slice * (n * d + i) = slice * (n * d) + slice * i /\ slice * i \in Nat
    BY <1>1, <2>2, <2>3, Distributes
  <2>5. n * d + i \in Nat
    BY <2>2, <2>3
  <2>6. x = slice * (n * d + i)
    BY <2>1, <2>3, <2>4
  <2>7. RoundToSlice(t, slice) = x <=> t \in x .. x + slice - 1
    BY <2>5, <2>6, RoundOrder
  <2>8. D * from <= D * d
    BY <1>1, <1>5, <2>2, <2>3, TimesGrows
  <2>9. D * d <= D * to
    BY <1>1, <1>5, <2>2, <2>3, TimesGrows
  <2>10. slice * i + slice <= slice * n
    BY <1>1, <2>2, TimesGrows
  <2>11. D * from \in Nat /\ D * to \in Nat
    BY <1>5
  <2>12. D * from <= x /\ x + slice <= D * to + D /\ x \in Nat
    BY <1>1, <2>1, <2>3, <2>4, <2>8, <2>9, <2>10, <2>11
  <2>13. t \in x .. x + slice - 1 => t \in from * D .. (to + 1) * D - 1
    BY <1>1, <1>6, <2>11, <2>12
  <2>14. RoundToSlice(t, slice) < x <=> t < x
    <3>1. RoundToSlice(x, slice) = x
      <4>1. x \in slice * (n * d + i) .. slice * (n * d + i) + slice - 1
        BY <1>1, <2>6, <2>12
      <4> QED
        BY <2>5, <2>6, <2>12, <4>1, RoundOrder
    <3>2. RoundToSlice(t, slice) \in Int /\ (x <= t => x <= RoundToSlice(t, slice))
      BY <2>12, <3>1, RoundOrder
    <3>3. PICK k \in Nat : RoundToSlice(t, slice) = slice * k /\ slice * k <= t
      BY RoundIs
    <3> QED
      BY <2>12, <3>2, <3>3
  <2> QED
    BY <2>7, <2>12, <2>13, <2>14
<1> QED
  BY <1>7, <1>8 DEF shown, D

(* Times of events.                                                         *)
LEMMA TimesOfEvents ==
  ASSUME events \in Seq(NewEvents)
  PROVE  \A i \in DOMAIN events : events[i].time \in Times /\ events[i].time \in Nat
<1> TAKE i \in DOMAIN events
<1>1. events[i] \in NewEvents
  OBVIOUS
<1>2. events[i].time \in Times
  BY <1>1 DEF NewEvents
<1> QED
  BY <1>2, ActivityAssumption DEF Times

(* The date view: a day is graded by the number of its events.              *)
LEMMA DaysCounted ==
  ASSUME events \in Seq(NewEvents), NEW from \in Nat, NEW to \in Nat, NEW d \in from .. to
  PROVE  LET ctx == DateContext(from, to)
             n == Cardinality({i \in DOMAIN events : Date(events[i].time) = d})
         IN  /\ ctx.max \in Nat /\ n \in Nat
             /\ IF d \in DOMAIN ctx.map THEN ctx.map[d] = n /\ n # 0 ELSE n = 0
<1> DEFINE since == from * DayLen
           until == (to + 2) * DayLen - 1
           F == [t \in Times |-> Date(t)]
           L == Loaded(since, until)
           I == Found(since, until)
           g == SetupGraphMap([k \in DOMAIN L |-> F[events[L[k]].time]])
           E == {i \in DOMAIN events : Date(events[i].time) = d}
<1>0. DayLen \in Nat
  BY DayIs
<1>1. \A t \in Nat : Date(t) \in Nat /\ DayLen * Date(t) <= t /\ t < DayLen * Date(t) + DayLen
  BY DayIs
<1>2. since \in Int /\ until \in Int
  BY <1>0
<1>3. \A i \in DOMAIN events : events[i].time \in Times /\ events[i].time \in Nat
  BY TimesOfEvents
<1>4. Times \subseteq Nat
  BY ActivityAssumption DEF Times
<1>5. F \in [Times -> Int]
  BY <1>1, <1>4
<1>6. \A s, t \in Times : s <= t => F[s] <= F[t]
  <2> SUFFICES ASSUME NEW s \in Nat, NEW t \in Nat, s <= t PROVE Date(s) <= Date(t)
    BY <1>4
  <2>1. Date(s) \in Nat /\ DayLen * Date(s) <= s /\ Date(t) \in Nat /\ t < DayLen * Date(t) + DayLen
    BY <1>1
  <2>2. DayLen * Date(s) \in Int
    BY <1>0, <2>1, Distributes
  <2>3. DayLen * Date(s) <= t
    BY <2>1, <2>2
  <2> QED
    BY <1>0, <2>1, <2>3, BlockUnique
<1>7. /\ g.max \in Nat
      /\ DOMAIN g.map = {F[events[i].time] : i \in I}
      /\ \A x \in DOMAIN g.map : g.map[x] = Cardinality({i \in I : F[events[i].time] = x})
  BY <1>2, <1>5, <1>6, ViewCounts
<1>8. \A k \in DOMAIN L : L[k] \in DOMAIN events
  <2>1. L \in [1 .. Cardinality(I) -> I]
    BY <1>2, LoadedIs
  <2>2. I \subseteq DOMAIN events
    BY DEF Found
  <2> HIDE DEF L, I
  <2> QED
    BY <2>1, <2>2
<1>9. g = DateContext(from, to)
  <2>1. \A k \in DOMAIN L : F[events[L[k]].time] = Date(events[L[k]].time)
    BY <1>3, <1>8
  <2>2. [k \in DOMAIN L |-> F[events[L[k]].time]] = [k \in DOMAIN L |-> Date(events[L[k]].time)]
    BY <2>1
  <2> HIDE DEF F, L
  <2> QED
    BY <2>2 DEF DateContext, L
<1>10. ASSUME NEW i \in E PROVE i \in I
  <2> DEFINE t == events[i].time
  <2>1. t \in Nat /\ DayLen * d <= t /\ t < DayLen * d + DayLen
    BY <1>1, <1>3
  <2> HIDE DEF t
  <2>2. d \in Nat /\ from <= d /\ d <= to
    OBVIOUS
  <2>3. DayLen * from \in Int /\ DayLen * to \in Int /\ DayLen * d \in Int
    BY <1>0, <2>2, Distributes
  <2>4. DayLen * from <= DayLen * d /\ DayLen * d <= DayLen * to
    <3>1. from = d \/ (from < d /\ DayLen * from + DayLen <= DayLen * d)
      BY <1>0, <2>2, TimesGrows
    <3>2. d = to \/ (d < to /\ DayLen * d + DayLen <= DayLen * to)
      BY <1>0, <2>2, TimesGrows
    <3> QED
      BY <1>0, <2>3, <3>1, <3>2
  <2>5. from * DayLen = DayLen * from /\ (to + 2) * DayLen = DayLen * to + DayLen + DayLen
    BY <1>0, Distributes
  <2>6. since <= t /\ t <= until
    BY <1>0, <2>1, <2>3, <2>4, <2>5
  <2>7. t \in since .. until
    BY <1>2, <2>1, <2>6
  <2> HIDE DEF since, until
  <2> QED
    BY <2>7 DEF Found, t
<1>11. \A i \in I : i \in DOMAIN events /\ F[events[i].time] = Date(events[i].time)
  BY <1>3 DEF Found
<1>12. {i \in I : F[events[i].time] = d} = E
  <2>1. \A i : i \in E <=> i \in DOMAIN events /\ Date(events[i].time) = d
    OBVIOUS
  <2> HIDE DEF I, F, E
  <2> QED
    BY <1>10, <1>11, <2>1
<1>13. d \in DOMAIN g.map <=> E # {}
  <2>1. d \in DOMAIN g.map <=> \E i \in I : F[events[i].time] = d
    BY <1>7
  <2> HIDE DEF I, F, E, g
  <2> QED
    BY <1>12, <2>1
<1>14. IsFiniteSet(E) /\ Cardinality(E) \in Nat
  <2>1. IsFiniteSet(1 .. Len(events)) /\ E \subseteq 1 .. Len(events)
    BY FS_Interval
  <2> HIDE DEF E
  <2> QED
    BY <2>1, FS_Subset, FS_CardinalityType
<1>15. Cardinality(E) = 0 <=> E = {}
  BY <1>14, FS_EmptySet
<1> HIDE DEF g, E, I, F
<1> QED
  BY <1>7, <1>9, <1>12, <1>13, <1>14, <1>15 DEF E

(* The slices of some days, and the events within one.                      *)
SlicesOfDays(from, to, slice) == UNION {SlicesOf(d, slice) : d \in from .. to}
Within(t, slice) == Cardinality({i \in DOMAIN events : events[i].time \in t .. t + slice - 1})

(* The time view: a slice is shown with the number of its events.           *)
LEMMA SlicesCounted ==
  ASSUME events \in Seq(NewEvents), NEW from \in Nat, NEW to \in Nat, NEW slice \in Slices,
         NEW ds, ds.from = from, ds.to = to
  PROVE  LET ctx == DateTimeContext(ds, slice)
             shown == SlicesOfDays(from, to, slice)
         IN  /\ DOMAIN ctx.map \subseteq shown
             /\ ctx.max \in Nat
             /\ \A t \in shown :
                  /\ Within(t, slice) \in Nat
                  /\ IF t \in DOMAIN ctx.map THEN ctx.map[t] = Within(t, slice) /\ Within(t, slice) # 0 ELSE Within(t, slice) = 0
<1> DEFINE since == from * DayLen
           until == (to + 1) * DayLen - 1
           F == [t \in Times |-> RoundToSlice(t, slice)]
           L == Loaded(since, until)
           I == Found(since, until)
           g == SetupGraphMap([k \in DOMAIN L |-> F[events[L[k]].time]])
           shown == UNION {SlicesOf(d, slice) : d \in from .. to}
           E(t) == {i \in DOMAIN events : events[i].time \in t .. t + slice - 1}
<1>1. DayLen \in Nat
  BY DayIs
<1>2. since \in Int /\ until \in Int
  BY <1>1
<1>3. \A i \in DOMAIN events : events[i].time \in Times /\ events[i].time \in Nat
  BY TimesOfEvents
<1>4. Times \subseteq Nat
  BY ActivityAssumption DEF Times
<1>5. F \in [Times -> Int] /\ \A s, t \in Times : s <= t => F[s] <= F[t]
  BY <1>4, RoundOrder
<1>6. /\ g.max \in Nat
      /\ DOMAIN g.map = {F[events[i].time] : i \in I}
      /\ \A x \in DOMAIN g.map : g.map[x] = Cardinality({i \in I : F[events[i].time] = x})
  BY <1>2, <1>5, ViewCounts
<1>7. \A k \in DOMAIN L : L[k] \in DOMAIN events
  <2>1. L \in [1 .. Cardinality(I) -> I]
    BY <1>2, LoadedIs
  <2>2. I \subseteq DOMAIN events
    BY DEF Found
  <2> HIDE DEF L, I
  <2> QED
    BY <2>1, <2>2
<1>8. g = DateTimeContext(ds, slice)
  <2>1. \A k \in DOMAIN L : F[events[L[k]].time] = RoundToSlice(events[L[k]].time, slice)
    BY <1>3, <1>7
  <2>2. [k \in DOMAIN L |-> F[events[L[k]].time]]
          = [k \in DOMAIN L |-> RoundToSlice(events[L[k]].time, slice)]
    BY <2>1
  <2> HIDE DEF F, L
  <2> QED
    BY <2>2 DEF DateTimeContext, L
<1>9. \A i \in DOMAIN events :
        /\ i \in I <=> events[i].time \in since .. until
        /\ F[events[i].time] = RoundToSlice(events[i].time, slice)
        /\ events[i].time \in since .. until => F[events[i].time] \in shown
        /\ \A x \in shown : F[events[i].time] = x <=> events[i].time \in x .. x + slice - 1
        /\ \A x \in shown : events[i].time \in x .. x + slice - 1 => events[i].time \in since .. until
  <2> TAKE i \in DOMAIN events
  <2> DEFINE t == events[i].time
  <2>1. t \in Times /\ t \in Nat
    BY <1>3
  <2>2. F[t] = RoundToSlice(t, slice)
    BY <2>1
  <2>3. i \in I <=> t \in since .. until
    BY DEF Found
  <2> HIDE DEF t, F, I
  <2>4. /\ t \in since .. until => RoundToSlice(t, slice) \in shown
        /\ \A x \in shown : RoundToSlice(t, slice) = x <=> t \in x .. x + slice - 1
        /\ \A x \in shown : t \in x .. x + slice - 1 => t \in since .. until
    BY <2>1, SlicesShown
  <2> HIDE DEF since, until, shown
  <2> QED
    BY <2>2, <2>3, <2>4 DEF t
<1>10. I \subseteq DOMAIN events
  BY DEF Found
<1> HIDE DEF since, until, F, L, I, g, shown
<1>11. DOMAIN g.map \subseteq shown
  BY <1>6, <1>9, <1>10
<1>12. ASSUME NEW x \in shown
       PROVE  /\ Cardinality(E(x)) \in Nat
              /\ IF x \in DOMAIN g.map THEN g.map[x] = Cardinality(E(x)) /\ Cardinality(E(x)) # 0
                 ELSE Cardinality(E(x)) = 0
  <2>1. {i \in I : F[events[i].time] = x} = E(x)
    BY <1>9, <1>10
  <2>2. x \notin DOMAIN g.map <=> E(x) = {}
    BY <1>6, <2>1
  <2>3. IsFiniteSet(1 .. Len(events)) /\ E(x) \subseteq 1 .. Len(events)
    BY FS_Interval
  <2> HIDE DEF E
  <2>4. IsFiniteSet(E(x)) /\ Cardinality(E(x)) \in Nat /\ (Cardinality(E(x)) = 0 <=> E(x) = {})
    BY <2>3, FS_Subset, FS_CardinalityType, FS_EmptySet
  <2> QED
    BY <1>6, <2>1, <2>2, <2>4
<1> QED
  BY <1>6, <1>8, <1>11, <1>12 DEF shown, SlicesOfDays, Within

(* More events never look like less.                                        *)
LEMMA GradeGrows ==
  ASSUME NEW ctx, ctx.max \in Nat, NEW d, NEW e,
         d \in DOMAIN ctx.map => ctx.map[d] \in Nat,
         e \in DOMAIN ctx.map => ctx.map[e] \in Nat
  PROVE  /\ Grade(ctx, d) = 0 <=> d \notin DOMAIN ctx.map
         /\ d \notin DOMAIN ctx.map => Grade(ctx, d) <= Grade(ctx, e)
         /\ d \in DOMAIN ctx.map /\ e \in DOMAIN ctx.map /\ ctx.map[d] <= ctx.map[e]
              => Grade(ctx, d) <= Grade(ctx, e)
<1> DEFINE G(n) == CASE 4 * n <= ctx.max -> 1 [] 4 * n > ctx.max /\ 4 * n <= 2 * ctx.max -> 2
                     [] 4 * n > 2 * ctx.max /\ 4 * n <= 3 * ctx.max -> 3 [] OTHER -> 4
<1>1. \A x : Grade(ctx, x) = IF x \notin DOMAIN ctx.map THEN 0 ELSE G(ctx.map[x])
  BY DEF Grade
<1>2. \A n \in Nat : G(n) \in 1 .. 4
  OBVIOUS
<1>3. \A n, m \in Nat : n <= m => G(n) <= G(m)
  OBVIOUS
<1> HIDE DEF G
<1> QED
  BY <1>1, <1>2, <1>3

(* A view whose counts are exact is graded by them, where it is not plain.  *)
LEMMA ViewGraded ==
  ASSUME NEW ctx, ctx.max \in Nat, NEW shown \in SUBSET Nat, NEW now \in Nat, NEW cut \in Int,
         NEW N, NEW view,
         \A x \in shown : /\ N[x] \in Nat
                          /\ IF x \in DOMAIN ctx.map THEN ctx.map[x] = N[x] /\ N[x] # 0 ELSE N[x] = 0,
         \A x \in shown : cut < x <=> now < x,
         view = [x \in shown |-> Cell(ctx, x, cut)]
  PROVE  Graded(view, now, N)
<1> SUFFICES ASSUME NEW d \in shown, NEW e \in shown
             PROVE  /\ view[d] = Plain <=> now < d
                    /\ view[d] = 0 <=> d <= now /\ N[d] = 0
                    /\ N[d] <= N[e] /\ e <= now => view[d] <= view[e]
  BY DEF Graded
<1>1. /\ d \in Nat /\ e \in Nat /\ N[d] \in Nat /\ N[e] \in Nat
      /\ IF d \in DOMAIN ctx.map THEN ctx.map[d] = N[d] /\ N[d] # 0 ELSE N[d] = 0
      /\ IF e \in DOMAIN ctx.map THEN ctx.map[e] = N[e] /\ N[e] # 0 ELSE N[e] = 0
  OBVIOUS
<1>2. /\ Grade(ctx, d) = 0 <=> d \notin DOMAIN ctx.map
      /\ d \notin DOMAIN ctx.map => Grade(ctx, d) <= Grade(ctx, e)
      /\ d \in DOMAIN ctx.map /\ e \in DOMAIN ctx.map /\ ctx.map[d] <= ctx.map[e]
           => Grade(ctx, d) <= Grade(ctx, e)
  BY <1>1, GradeGrows
<1>3. Grade(ctx, d) \in 0 .. 4 /\ Grade(ctx, e) \in 0 .. 4
  BY DEF Grade
<1>4. /\ view[d] = IF now < d THEN -1 ELSE Grade(ctx, d)
      /\ view[e] = IF now < e THEN -1 ELSE Grade(ctx, e)
  BY DEF Cell, Plain
<1>5. view[d] = Plain <=> now < d
  BY <1>3, <1>4 DEF Plain
<1>6. view[d] = 0 <=> d <= now /\ N[d] = 0
  BY <1>1, <1>2, <1>3, <1>4
<1>7. N[d] <= N[e] /\ e <= now => view[d] <= view[e]
  BY <1>1, <1>2, <1>3, <1>4
<1> QED
  BY <1>5, <1>6, <1>7

(* The date view, for all days that can be asked for.                       *)
LEMMA DaysHold ==
  ASSUME events \in Seq(NewEvents)
  PROVE  DaysExact
<1> DEFINE OnDay == [d \in Days |-> Cardinality({i \in DOMAIN events : Date(events[i].time) = d})]
<1>1. Days \subseteq Nat /\ Date(MaxTime) \in Nat
  <2>1. MaxTime \in Nat
    BY ActivityAssumption
  <2>2. Date(MaxTime) \in Nat
    BY <2>1, DayIs
  <2> QED
    BY <2>2 DEF Days
<1>2. ASSUME NEW from \in Days, NEW to \in Days, from <= to, NEW today \in Days
      PROVE  Graded(DayView(DateContext(from, to), from, to, today), today, OnDay)
  <2> DEFINE ctx == DateContext(from, to)
             shown == from .. to
  <2>1. \A d \in shown :
          /\ ctx.max \in Nat /\ OnDay[d] \in Nat
          /\ IF d \in DOMAIN ctx.map THEN ctx.map[d] = OnDay[d] /\ OnDay[d] # 0 ELSE OnDay[d] = 0
    <3> TAKE d \in shown
    <3>1. d \in Days
      BY <1>1, <1>2 DEF Days
    <3> QED
      BY <1>1, <3>1, DaysCounted
  <2>2. shown \in SUBSET Nat /\ from \in shown /\ today \in Nat
    BY <1>1, <1>2
  <2>3. DayView(ctx, from, to, today) = [x \in shown |-> Cell(ctx, x, today)]
    BY DEF DayView
  <2> HIDE DEF ctx, shown, OnDay
  <2>4. ctx.max \in Nat /\ today \in Int
    BY <2>1, <2>2
  <2>5. PICK view : view = DayView(ctx, from, to, today)
    OBVIOUS
  <2>6. Graded(view, today, OnDay)
    BY <2>1, <2>2, <2>3, <2>4, <2>5, ViewGraded
  <2> QED
    BY <2>5, <2>6 DEF ctx
<1> QED
  BY <1>2 DEF DaysExact

(* The time view, for all days that can be asked for and every clock.       *)
LEMMA SlicesHold ==
  ASSUME events \in Seq(NewEvents)
  PROVE  SlicesExact
<1>1. Days \subseteq Nat /\ NoContext = -1 /\ DayLen \in Nat /\ MaxTime \in Nat
  BY DayIs, ActivityAssumption DEF Days, NoContext
<1> SUFFICES ASSUME NEW today \in Days, NEW slice \in Slices,
                    NEW context \in {NoContext} \cup 0 .. today,
                    NEW now \in today * DayLen .. MaxTime
             PROVE  LET ds == FromTimeArgs(<<>>, context, today)
                        ctx == DateTimeContext(ds, slice)
                        view == TimeView(ctx, ds, slice, now)
                        In == [t \in DOMAIN view |->
                                 Cardinality({i \in DOMAIN events : events[i].time \in t .. t + slice - 1})]
                    IN  DOMAIN ctx.map \subseteq DOMAIN view /\ Graded(view, now, In)
  BY DEF SlicesExact
<1>2. PICK ds : /\ ds = FromTimeArgs(<<>>, context, today)
                /\ ds.from = today - (IF context = NoContext THEN 0 ELSE context) /\ ds.to = today
  <2> DEFINE c == IF context = NoContext THEN 0 ELSE context
  <2>1. FromTimeArgs(<<>>, context, today) = [kind |-> "days", from |-> today - c, to |-> today]
    BY DEF FromTimeArgs
  <2> HIDE DEF c
  <2> QED
    BY <2>1 DEF c
<1>3. PICK from \in Nat : ds.from = from
  BY <1>1, <1>2
<1>4. today \in Nat /\ now \in Nat
  <2>1. today \in Nat
    BY <1>1
  <2>2. today * DayLen \in Nat
    BY <1>1, <2>1
  <2> QED
    BY <1>1, <2>1, <2>2
<1> DEFINE ctx == DateTimeContext(ds, slice)
           shown == SlicesOfDays(from, today, slice)
           view == TimeView(ctx, ds, slice, now)
           In == [t \in shown |-> Within(t, slice)]
<1>5. /\ DOMAIN ctx.map \subseteq shown
      /\ ctx.max \in Nat
      /\ \A x \in shown :
           /\ In[x] \in Nat
           /\ IF x \in DOMAIN ctx.map THEN ctx.map[x] = In[x] /\ In[x] # 0 ELSE In[x] = 0
  <2>1. ds.from = from /\ ds.to = today
    BY <1>2, <1>3
  <2>2. /\ DOMAIN ctx.map \subseteq shown
        /\ ctx.max \in Nat
        /\ \A x \in shown :
             /\ Within(x, slice) \in Nat
             /\ IF x \in DOMAIN ctx.map THEN ctx.map[x] = Within(x, slice) /\ Within(x, slice) # 0
                ELSE Within(x, slice) = 0
    BY <1>4, <2>1, SlicesCounted
  <2> HIDE DEF ctx, shown
  <2> QED
    BY <2>2
<1>6. \A x \in shown : x \in Nat /\ (RoundToSlice(now, slice) < x <=> now < x)
  BY <1>3, <1>4, SlicesShown DEF SlicesOfDays
<1>7. RoundToSlice(now, slice) \in Int
  BY <1>4, RoundOrder
<1>8. view = [x \in shown |-> Cell(ctx, x, RoundToSlice(now, slice))]
  BY <1>2, <1>3 DEF TimeView, SlicesOfDays
<1> HIDE DEF ctx, shown, view
<1>9. Graded(view, now, In)
  <2> HIDE DEF In
  <2> QED
    BY <1>4, <1>5, <1>6, <1>7, <1>8, ViewGraded
<1>10. DOMAIN view = shown
  BY <1>8
<1> QED
  BY <1>2, <1>5, <1>9, <1>10 DEF ctx, view, Within

-----------------------------------------------------------------------------
(* Months.                                                                  *)

YearSpec(ds) == \E y \in Int : ds = [kind |-> "year", year |-> y]
MonthSpec(ds) ==
  \E y \in Int, m \in 1 .. 12, c \in Nat :
    ds = [kind |-> "months", year |-> y, month |-> m, context |-> c]

(* What from_args makes of arguments it accepts.                            *)
LEMMA ArgsAccepted ==
  ASSUME NEW args \in Seq({Month(m) : m \in Months} \cup {Num(n) : n \in Years}),
         NEW context \in {NoContext} \cup Contexts, NEW today \in Years \X Months,
         FromArgs(args, context, today) # Invalid
  PROVE  YearSpec(FromArgs(args, context, today)) \/ MonthSpec(FromArgs(args, context, today))
<1> DEFINE W == {Month(m) : m \in Months} \cup {Num(n) : n \in Years}
           Of(kind) == {args[i] : i \in {j \in DOMAIN args : args[j][1] = kind}}
           months == Retain(args, Of("month"))
           nums == Retain(args, Of("num"))
           c == IF context = NoContext THEN 0 ELSE context
           S(y, m) == [kind |-> "months", year |-> y, month |-> m, context |-> c]
           ds == FromArgs(args, context, today)
<1>1. Months \subseteq 1 .. 12 /\ Years \subseteq Int /\ Contexts \subseteq Nat
  BY CalendarAssumption
<1>2. c \in Nat
  BY <1>1
<1>3. today[1] \in Int /\ today[2] \in 1 .. 12
  BY <1>1
<1>4. \A w \in W : (w[1] = "month" => w[2] \in Months) /\ (w[1] = "num" => w[2] \in Years)
  BY DEF Month, Num
<1>5. months \in Seq(W) /\ nums \in Seq(W)
  BY RetainIs
<1>6. \A k \in 1 .. Len(months) : months[k] \in Of("month")
  BY RetainKeeps
<1>7. \A k \in 1 .. Len(nums) : nums[k] \in Of("num")
  BY RetainKeeps
<1>8. \A x \in Of("month") : x[2] \in Months
  BY <1>4
<1>9. \A x \in Of("num") : x[2] \in Years
  BY <1>4
<1>10. /\ ds = CASE args = <<>> -> S(today[1], today[2])
               [] Len(args) = 1 /\ Len(nums) = 1 /\ context = NoContext ->
                    [kind |-> "year", year |-> nums[1][2]]
               [] Len(args) <= 2 /\ Len(months) = 1 ->
                    S(IF nums = <<>> THEN today[1] ELSE nums[1][2], months[1][2])
               [] OTHER -> Invalid
  BY DEF FromArgs
<1> HIDE DEF months, nums, Of, c, ds, W
<1>11. Len(months) = 1 => months[1][2] \in 1 .. 12
  <2>1. Len(months) = 1 => 1 \in 1 .. Len(months)
    OBVIOUS
  <2>2. Len(months) = 1 => months[1] \in Of("month")
    BY <1>6, <2>1
  <2> QED
    BY <1>1, <1>8, <2>2
<1>12. nums # <<>> => nums[1][2] \in Int
  <2>1. nums # <<>> => Len(nums) \in Nat /\ Len(nums) >= 1
    BY <1>5
  <2>2. nums # <<>> => nums[1] \in Of("num")
    BY <1>7, <2>1
  <2> QED
    BY <1>1, <1>9, <2>2
<1>13. Len(nums) = 1 => nums # <<>>
  <2>1. Len(<<>>) = 0
    OBVIOUS
  <2>2. nums = <<>> => Len(nums) = 0
    BY <2>1, Zenon
  <2> QED
    BY <2>2
<1>14. \A y \in Int, m \in 1 .. 12 : MonthSpec(S(y, m))
  BY <1>2 DEF MonthSpec
<1>15. ds # Invalid
  BY DEF ds
<1> DEFINE A == args = <<>>
           B == Len(args) = 1 /\ Len(nums) = 1 /\ context = NoContext
           C == Len(args) <= 2 /\ Len(months) = 1
           y1 == IF nums = <<>> THEN today[1] ELSE nums[1][2]
<1>16. Len(args) = 0 <=> A
  OBVIOUS
<1>17. y1 \in Int
  BY <1>3, <1>12
<1>18. \/ ds = S(today[1], today[2])
       \/ B /\ ds = [kind |-> "year", year |-> nums[1][2]]
       \/ C /\ ds = S(y1, months[1][2])
  BY <1>10, <1>15
<1> HIDE DEF y1, S
<1>19. CASE ds = S(today[1], today[2])
  BY <1>3, <1>14, <1>19 DEF ds
<1>20. CASE B /\ ds = [kind |-> "year", year |-> nums[1][2]]
  BY <1>12, <1>13, <1>20 DEF ds, YearSpec
<1>21. CASE C /\ ds = S(y1, months[1][2])
  BY <1>11, <1>14, <1>17, <1>21 DEF ds
<1> QED
  BY <1>18, <1>19, <1>20, <1>21

(* The month number x, counted from January of the year 0.                  *)
YearMonth(x) == <<x \div 12, (x % 12) + 1>>

(* The next month has the next number.                                      *)
LEMMA NextMonthIs ==
  ASSUME NEW x \in Int
  PROVE  /\ NextMonth(YearMonth(x)) = YearMonth(x + 1)
         /\ YearMonth(x)[1] \in Int /\ YearMonth(x)[2] \in 1 .. 12
         /\ 12 * YearMonth(x)[1] + YearMonth(x)[2] = x + 1
<1> DEFINE y == x \div 12
           m == x % 12
<1>1. y \in Int /\ m \in 0 .. 11 /\ x = 12 * y + m
  OBVIOUS
<1>2. (x + 1) \div 12 = (IF m = 11 THEN y + 1 ELSE y) /\ (x + 1) % 12 = (IF m = 11 THEN 0 ELSE m + 1)
  OBVIOUS
<1> HIDE DEF y, m
<1>3. YearMonth(x) = <<y, m + 1>>
  BY DEF YearMonth, y, m
<1>4. YearMonth(x + 1) = <<IF m = 11 THEN y + 1 ELSE y, IF m = 11 THEN 1 ELSE m + 2>>
  BY <1>1, <1>2 DEF YearMonth
<1>5. NextMonth(<<y, m + 1>>) = <<IF m = 11 THEN y + 1 ELSE y, IF m = 11 THEN 1 ELSE m + 2>>
  BY <1>1 DEF NextMonth
<1>6. NextMonth(YearMonth(x)) = YearMonth(x + 1)
  BY <1>3, <1>4, <1>5
<1>7. YearMonth(x)[1] = y /\ YearMonth(x)[2] = m + 1
  BY <1>3
<1> QED
  BY <1>1, <1>6, <1>7

(* The first month, as a number, and how many follow it.                    *)
FirstMonth(ds) == IF ds.kind = "year" THEN 12 * ds.year ELSE 12 * ds.year + ds.month - 1 - ds.context
Following(ds) == IF ds.kind = "year" THEN 11 ELSE ds.context

(* The first month and the end of the range, over the turn of any number of *)
(* years.                                                                   *)
LEMMA StartIs ==
  ASSUME NEW ds, YearSpec(ds) \/ MonthSpec(ds)
  PROVE  /\ Start(ds) = YearMonth(FirstMonth(ds))
         /\ End(ds) = YearMonth(FirstMonth(ds) + Following(ds) + 1)
         /\ FirstMonth(ds) \in Int /\ Following(ds) \in Nat
<1>1. CASE YearSpec(ds)
  <2>1. PICK y \in Int : ds = [kind |-> "year", year |-> y]
    BY <1>1 DEF YearSpec
  <2>2. ds.kind = "year" /\ ds.year = y
    BY <2>1
  <2>3. Start(ds) = <<y, 1>> /\ End(ds) = <<y + 1, 1>>
    BY <2>2 DEF Start, End
  <2>4. FirstMonth(ds) = 12 * y /\ Following(ds) = 11
    BY <2>2 DEF FirstMonth, Following
  <2>5. YearMonth(12 * y) = <<y, 1>> /\ YearMonth(12 * y + 11 + 1) = <<y + 1, 1>>
    BY DEF YearMonth
  <2> QED
    BY <2>3, <2>4, <2>5
<1>2. CASE MonthSpec(ds)
  <2>1. PICK y \in Int, m \in 1 .. 12, c \in Nat :
          ds = [kind |-> "months", year |-> y, month |-> m, context |-> c]
    BY <1>2 DEF MonthSpec
  <2>2. ds.kind # "year" /\ ds.year = y /\ ds.month = m /\ ds.context = c
    BY <2>1
  <2> DEFINE r == c % 12
             k == c \div 12
             x == 12 * y + m - 1 - c
  <2>3. r \in 0 .. 11 /\ k \in Nat /\ c = 12 * k + r
    OBVIOUS
  <2>4. Start(ds) = IF r >= m THEN <<y - k - 1, 12 - r + m>> ELSE <<y - k, m - r>>
    BY <2>2 DEF Start
  <2>5. End(ds) = NextMonth(<<y, m>>)
    BY <2>2 DEF End
  <2>6. FirstMonth(ds) = x /\ Following(ds) = c
    BY <2>2 DEF FirstMonth, Following
  <2> HIDE DEF r, k
  <2>7. x \in Int
    OBVIOUS
  <2>8. YearMonth(x) = IF r >= m THEN <<y - k - 1, 12 - r + m>> ELSE <<y - k, m - r>>
    <3>1. CASE r >= m
      <4>1. x = 12 * (y - k - 1) + (12 - r + m - 1) /\ 12 - r + m - 1 \in 0 .. 11
        BY <2>3, <3>1
      <4>2. x \div 12 = y - k - 1 /\ x % 12 = 12 - r + m - 1
        BY <2>3, <4>1
      <4> QED
        BY <2>3, <3>1, <4>2 DEF YearMonth
    <3>2. CASE ~(r >= m)
      <4>1. x = 12 * (y - k) + (m - r - 1) /\ m - r - 1 \in 0 .. 11
        BY <2>3, <3>2
      <4>2. x \div 12 = y - k /\ x % 12 = m - r - 1
        BY <2>3, <4>1
      <4> QED
        BY <2>3, <3>2, <4>2 DEF YearMonth
    <3> QED
      BY <3>1, <3>2
  <2>9. YearMonth(12 * y + m - 1) = <<y, m>>
    <3>1. (12 * y + m - 1) \div 12 = y /\ (12 * y + m - 1) % 12 = m - 1
      OBVIOUS
    <3> QED
      BY <3>1 DEF YearMonth
  <2>10. YearMonth((12 * y + m - 1) + 1) = NextMonth(<<y, m>>)
    <3>1. 12 * y + m - 1 \in Int
      OBVIOUS
    <3>2. NextMonth(YearMonth(12 * y + m - 1)) = YearMonth((12 * y + m - 1) + 1)
      BY <3>1, NextMonthIs
    <3> QED
      BY <2>9, <3>2
  <2>11. x + c + 1 = (12 * y + m - 1) + 1
    OBVIOUS
  <2> HIDE DEF x
  <2> QED
    BY <2>4, <2>5, <2>6, <2>7, <2>8, <2>10, <2>11
<1> QED
  BY <1>1, <1>2

MonthsOf(ds, f) ==
  f = [i \in 0 .. Following(ds) |-> IF i = 0 THEN Start(ds) ELSE NextMonth(f[i - 1])]

(* to_term_string shows the months from the first on, without a gap.        *)
LEMMA ShownIs ==
  ASSUME NEW ds, YearSpec(ds) \/ MonthSpec(ds)
  PROVE  /\ Shown(ds) = [i \in 1 .. Following(ds) + 1 |-> YearMonth(FirstMonth(ds) + i - 1)]
         /\ Len(Shown(ds)) = Following(ds) + 1
<1> DEFINE x == FirstMonth(ds)
           n == Following(ds)
           f == CHOOSE g : MonthsOf(ds, g)
           e == [i \in 0 .. n |-> YearMonth(x + i)]
<1>1. x \in Int /\ n \in Nat /\ Start(ds) = YearMonth(x)
  BY StartIs
<1>2. Shown(ds) = [i \in 1 .. n + 1 |-> f[i - 1]]
  BY DEF Shown, MonthsOf, Following
<1> HIDE DEF x, n
<1>3. MonthsOf(ds, e)
  <2> DEFINE h == [i \in 0 .. n |-> IF i = 0 THEN Start(ds) ELSE NextMonth(e[i - 1])]
  <2>1. ASSUME NEW i \in 0 .. n PROVE e[i] = h[i]
    <3>1. e[i] = YearMonth(x + i)
      OBVIOUS
    <3>2. CASE i = 0
      <4>1. x + 0 = x
        BY <1>1
      <4> QED
        BY <1>1, <3>1, <3>2, <4>1
    <3>3. CASE i # 0
      <4>1. i - 1 \in 0 .. n /\ x + (i - 1) \in Int /\ (x + (i - 1)) + 1 = x + i
        BY <1>1, <3>3
      <4>2. e[i - 1] = YearMonth(x + (i - 1))
        BY <4>1
      <4>3. NextMonth(YearMonth(x + (i - 1))) = YearMonth((x + (i - 1)) + 1)
        BY <4>1, NextMonthIs
      <4>4. h[i] = NextMonth(e[i - 1])
        BY <3>3
      <4> HIDE DEF e, h
      <4> QED
        BY <3>1, <4>1, <4>2, <4>3, <4>4
    <3> QED
      BY <3>2, <3>3
  <2>2. e = h
    BY <2>1
  <2> HIDE DEF e
  <2> QED
    BY <2>2 DEF MonthsOf, n
<1>4. MonthsOf(ds, f)
  BY <1>3
<1> HIDE DEF f
<1>5. \A i \in 0 .. n : f[i] = IF i = 0 THEN Start(ds) ELSE NextMonth(f[i - 1])
  BY <1>4 DEF MonthsOf, n
<1> DEFINE T == {i \in 0 .. n : f[i] # YearMonth(x + i)}
<1>6. T = {}
  <2> SUFFICES ASSUME T # {} PROVE FALSE
    OBVIOUS
  <2>0. T \in SUBSET Nat
    BY <1>1
  <2>1. PICK i \in T : \A k \in T : i <= k
    BY <2>0, NatMin
  <2>2. i \in 0 .. n /\ f[i] # YearMonth(x + i)
    BY <2>1
  <2>3. CASE i = 0
    <3>1. x + 0 = x /\ f[i] = Start(ds)
      BY <1>1, <1>5, <2>2, <2>3
    <3> QED
      BY <1>1, <2>2, <2>3, <3>1
  <2>4. CASE i # 0
    <3>1. i - 1 \in 0 .. n /\ x + (i - 1) \in Int /\ (x + (i - 1)) + 1 = x + i /\ ~(i <= i - 1)
      BY <1>1, <2>2, <2>4
    <3>2. f[i - 1] = YearMonth(x + (i - 1))
      BY <2>1, <3>1
    <3>3. NextMonth(YearMonth(x + (i - 1))) = YearMonth((x + (i - 1)) + 1)
      BY <3>1, NextMonthIs
    <3>4. f[i] = NextMonth(f[i - 1])
      BY <1>5, <2>2, <2>4
    <3> QED
      BY <2>2, <3>1, <3>2, <3>3, <3>4
  <2> QED
    BY <2>3, <2>4
<1> DEFINE s == [i \in 1 .. n + 1 |-> YearMonth(x + i - 1)]
<1>7. ASSUME NEW i \in 1 .. n + 1 PROVE f[i - 1] = YearMonth(x + i - 1)
  <2>1. i - 1 \in 0 .. n /\ x + (i - 1) = x + i - 1
    BY <1>1
  <2> QED
    BY <1>6, <2>1
<1>8. Shown(ds) = s
  BY <1>2, <1>7
<1>9. Len(s) = n + 1
  <2>1. n + 1 \in Nat
    BY <1>1
  <2> QED
    BY <2>1
<1> QED
  BY <1>8, <1>9 DEF x, n

(* Months, for all arguments that are accepted.                             *)
LEMMA MonthsHold ==
  ASSUME events \in Seq(NewEvents)
  PROVE  MonthsExact
<1> SUFFICES ASSUME NEW ds \in Accepted
             PROVE  LET Index(ym) == 12 * ym[1] + ym[2]
                        Logged == {Index(<<2019, 11>>) + events[i].time : i \in DOMAIN events}
                        shown == Shown(ds)
                        n == IF ds.kind = "year" THEN 12 ELSE 1 + ds.context
                        asked == IF ds.kind = "year" THEN <<ds.year, 12>> ELSE <<ds.year, ds.month>>
                    IN  /\ Len(shown) = n
                        /\ \A i \in 1 .. n : shown[i][2] \in 1 .. 12 /\ Index(shown[i]) = Index(asked) - n + i
                        /\ \A k \in Logged : k \in Index(shown[1]) .. Index(asked) =>
                             Index(Start(ds)) <= k /\ k < Index(End(ds))
  BY DEF MonthsExact
<1> DEFINE Index(ym) == 12 * ym[1] + ym[2]
           Logged == {Index(<<2019, 11>>) + events[i].time : i \in DOMAIN events}
           shown == Shown(ds)
           n == IF ds.kind = "year" THEN 12 ELSE 1 + ds.context
           asked == IF ds.kind = "year" THEN <<ds.year, 12>> ELSE <<ds.year, ds.month>>
           x == FirstMonth(ds)
           c == Following(ds)
<1>1. YearSpec(ds) \/ MonthSpec(ds)
  <2>1. PICK args \in Arguments, context \in {NoContext} \cup Contexts, today \in Years \X Months :
          ds = FromArgs(args, context, today)
    BY DEF Accepted
  <2>2. ds # Invalid
    BY DEF Accepted
  <2>3. PICK k \in 0 .. 3 : args \in [1 .. k -> {Month(m) : m \in Months} \cup {Num(y) : y \in Years}]
    BY <2>1 DEF Arguments
  <2>4. args \in Seq({Month(m) : m \in Months} \cup {Num(y) : y \in Years})
    BY <2>3
  <2> QED
    BY <2>1, <2>2, <2>4, ArgsAccepted
<1>2. x \in Int /\ c \in Nat /\ Start(ds) = YearMonth(x) /\ End(ds) = YearMonth(x + c + 1)
  BY <1>1, StartIs
<1>3. n = c + 1 /\ Index(asked) = x + c + 1
  <2>1. CASE YearSpec(ds)
    <3>1. PICK y \in Int : ds = [kind |-> "year", year |-> y]
      BY <2>1 DEF YearSpec
    <3>2. ds.kind = "year" /\ ds.year = y
      BY <3>1
    <3> QED
      BY <3>2 DEF FirstMonth, Following
  <2>2. CASE MonthSpec(ds)
    <3>1. PICK y \in Int, m \in 1 .. 12, d \in Nat :
            ds = [kind |-> "months", year |-> y, month |-> m, context |-> d]
      BY <2>2 DEF MonthSpec
    <3>2. ds.kind # "year" /\ ds.year = y /\ ds.month = m /\ ds.context = d
      BY <3>1
    <3> QED
      BY <3>2 DEF FirstMonth, Following
  <2> QED
    BY <1>1, <2>1, <2>2
<1>4. shown = [i \in 1 .. c + 1 |-> YearMonth(x + i - 1)] /\ Len(shown) = c + 1
  BY <1>1, ShownIs
<1>5. \A k \in Logged : k \in Int
  <2>1. \A i \in DOMAIN events : events[i].time \in Nat
    BY TimesOfEvents
  <2> QED
    BY <2>1
<1> HIDE DEF x, c, n, shown, asked, Logged
<1>6. \A k \in Int : YearMonth(k)[2] \in 1 .. 12 /\ Index(YearMonth(k)) = k + 1
  BY NextMonthIs
<1>7. \A i \in 1 .. n : shown[i][2] \in 1 .. 12 /\ Index(shown[i]) = x + i
  <2> TAKE i \in 1 .. n
  <2>1. shown[i] = YearMonth(x + i - 1) /\ x + i - 1 \in Int /\ (x + i - 1) + 1 = x + i
    BY <1>2, <1>3, <1>4
  <2> HIDE DEF Index
  <2> QED
    BY <1>6, <2>1
<1>8. Index(Start(ds)) = x + 1 /\ Index(End(ds)) = x + c + 2
  <2>1. x + c + 1 \in Int /\ (x + c + 1) + 1 = x + c + 2
    BY <1>2
  <2> HIDE DEF Index
  <2> QED
    BY <1>2, <1>6, <2>1
<1> HIDE DEF Index
<1>9. \A i \in 1 .. n : Index(shown[i]) = Index(asked) - n + i
  BY <1>2, <1>3, <1>7
<1>10. \A k \in Logged : k \in Index(shown[1]) .. Index(asked) =>
         Index(Start(ds)) <= k /\ k < Index(End(ds))
  <2>1. Index(shown[1]) = x + 1
    BY <1>2, <1>3, <1>7
  <2> QED
    BY <1>2, <1>3, <1>5, <1>8, <2>1
<1> QED
  BY <1>3, <1>4, <1>7, <1>9, <1>10 DEF Index, Logged, shown, asked, n

-----------------------------------------------------------------------------
(* `cal` grades every day and slice it shows by the number of its events in *)
(* the log and shows the months it was asked for, for any hours, days,      *)
(* slices and arguments, whatever the order in which processes logged       *)
(* (cal/date.rs, cal/time.rs).                                              *)
THEOREM CalendarHolds == Spec => []CalendarShowsLog
<1>1. ActivityInv => CalendarShowsLog
  BY DaysHold, SlicesHold, MonthsHold DEF ActivityInv, TypeInv, CalendarShowsLog
<1> QED
  BY <1>1, ActivityHolds, PTL
=============================================================================
