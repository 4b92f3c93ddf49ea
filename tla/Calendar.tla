------------------------------ MODULE Calendar ------------------------------
(***************************************************************************)
(* The `cal` command (cmd/cal_cmd.rs, cal/): which months and slices it    *)
(* shows, which events of the activity log it asks for, and how it counts  *)
(* them.  Times of events are minutes; hours and days are HourLen minutes  *)
(* and DayHours hours long.  Fonts, colours and columns are left out.      *)
(***************************************************************************)
EXTENDS Activity, Lists

CONSTANTS
  HourLen,    \* minutes of an hour, 60 in the code
  DayHours,   \* hours of a day, 24 in the code
  Slices,     \* slice durations, 12 and 60 in the code
  Months,     \* months given on the command line
  Years,      \* numbers given on the command line
  Contexts    \* values of --context

ASSUME CalendarAssumption ==
  /\ HourLen \in Nat \ {0} /\ DayHours \in Nat \ {0}
  /\ \A d \in Slices : d \in 1 .. HourLen /\ HourLen % d = 0
  /\ Months \subseteq 1 .. 12 /\ Years \subseteq Int /\ Contexts \subseteq Nat

DayLen == DayHours * HourLen

-----------------------------------------------------------------------------
(* Which months: cal/date.rs *)

NoContext == -1
Invalid == [kind |-> "invalid"]
Month(m) == <<"month", m>>
Num(n) == <<"num", n>>

(* DateSpec::from_args; without --context one month is shown.               *)
FromArgs(args, context, today) ==
  LET Of(kind) == Retain(args, {args[i] : i \in {j \in DOMAIN args : args[j][1] = kind}})
      months == Of("month")
      nums == Of("num")
      Spanning(year, month) ==
        [kind |-> "months", year |-> year, month |-> month,
         context |-> IF context = NoContext THEN 0 ELSE context]
  IN  CASE args = <<>> -> Spanning(today[1], today[2])
        [] Len(args) = 1 /\ Len(nums) = 1 /\ context = NoContext -> [kind |-> "year", year |-> nums[1][2]]
        [] Len(args) <= 2 /\ Len(months) = 1 ->
             Spanning(IF nums = <<>> THEN today[1] ELSE nums[1][2], months[1][2])
        [] OTHER -> Invalid

(* DateSpec::start: the first of a month.                                   *)
Start(ds) ==
  LET context == ds.context % 12
      year == ds.year - ds.context \div 12
  IN  IF ds.kind = "year" THEN <<ds.year, 1>>
      ELSE IF context >= ds.month THEN <<year - 1, 12 - context + ds.month>>
      ELSE <<year, ds.month - context>>

NextMonth(ym) == IF ym[2] = 12 THEN <<ym[1] + 1, 1>> ELSE <<ym[1], ym[2] + 1>>

(* DateSpec::end                                                            *)
End(ds) == IF ds.kind = "year" THEN <<ds.year + 1, 1>> ELSE NextMonth(<<ds.year, ds.month>>)

(* DateSpec::to_term_string: the months it shows; DayView is about the days *)
(* of a month.                                                              *)
Shown(ds) ==
  LET more == IF ds.kind = "year" THEN 11 ELSE ds.context
      ym[i \in 0 .. more] == IF i = 0 THEN Start(ds) ELSE NextMonth(ym[i - 1])
  IN  [i \in 1 .. more + 1 |-> ym[i - 1]]

-----------------------------------------------------------------------------
(* Which events, and how many *)

MutLoaded(since, until) ==
  LET found == {i \in DOMAIN events : events[i].time \in since .. until} IN
  Ordered(found, {ij \in found \X found : ij[1] < ij[2]})
(* Activity::query for every topic, ordered by time and id.                 *)
Loaded(since, until) ==
  LET found == {i \in DOMAIN events : events[i].time \in since .. until} IN
  Ordered(found, {ij \in found \X found :
                    \/ events[ij[1]].time < events[ij[2]].time
                    \/ events[ij[1]].time = events[ij[2]].time /\ ij[1] < ij[2]})

(* setup_graph_map of both views: the events are counted in runs of equal   *)
(* dates, and the end of a run is written to the map.                       *)
NoneCounted == [cur |-> 0, ctr |-> 0, max |-> 0, map |-> [d \in {} |-> 0]]

Flush(a) ==
  [cur |-> a.cur, ctr |-> a.ctr, max |-> IF a.ctr > a.max THEN a.ctr ELSE a.max,
   map |-> [d \in DOMAIN a.map \cup {a.cur} |-> IF d = a.cur THEN a.ctr ELSE a.map[d]]]

Count(a, date) ==
  LET done == IF a.ctr > 0 THEN Flush(a) ELSE a
  IN  IF a.ctr > 0 /\ a.cur = date THEN [a EXCEPT !.ctr = @ + 1]
      ELSE [cur |-> date, ctr |-> 1, max |-> done.max, map |-> done.map]

SetupGraphMap(dates) ==
  LET counted[i \in 0 .. Len(dates)] ==
        IF i = 0 THEN NoneCounted ELSE Count(counted[i - 1], dates[i])
      all == counted[Len(dates)]
  IN  IF all.ctr > 0 THEN Flush(all) ELSE all

Date(time) == time \div DayLen

RoundToSlice(time, slice) == (time \div HourLen) * HourLen + ((time % HourLen) - ((time % HourLen) % slice))

(* ActivityGrade::from_ratio, and 0 for ActivityGrade::None.                *)
Grade(ctx, date) ==
  IF date \notin DOMAIN ctx.map THEN 0
  ELSE LET n == 4 * ctx.map[date] IN
       CASE n <= ctx.max -> 1 [] n > ctx.max /\ n <= 2 * ctx.max -> 2
         [] n > 2 * ctx.max /\ n <= 3 * ctx.max -> 3 [] OTHER -> 4

Plain == -1
(* is_future: what has not begun is left plain, also when events are logged *)
(* for it.                                                                  *)
Cell(ctx, date, now) == IF now < date THEN Plain ELSE Grade(ctx, date)

(* cal_cmd: the date view asks for one day more than it shows.              *)
DateContext(from, to) ==
  LET found == Loaded(from * DayLen, (to + 2) * DayLen - 1)
  IN  SetupGraphMap([i \in DOMAIN found |-> Date(events[found[i]].time)])

(* DateSpec::to_term_string: the days of the months that are shown.         *)
DayView(ctx, from, to, today) == [d \in from .. to |-> Cell(ctx, d, today)]

(* DateTimeSpec::from_args: the days the time view shows; any argument is a *)
(* todo!().                                                                 *)
Panic == [kind |-> "panic"]
FromTimeArgs(args, context, today) ==
  IF args # <<>> THEN Panic
  ELSE [kind |-> "days", from |-> today - (IF context = NoContext THEN 0 ELSE context), to |-> today]

DateTimeContext(ds, slice) ==
  LET found == Loaded(ds.from * DayLen, (ds.to + 1) * DayLen - 1)
  IN  SetupGraphMap([i \in DOMAIN found |-> RoundToSlice(events[found[i]].time, slice)])

(* DateTimeSpec::to_term_string: the slices of a day.                       *)
SlicesOf(day, slice) ==
  LET n == DayLen \div slice
      at[i \in 0 .. n - 1] ==
        IF i = 0 THEN <<0, 0>>
        ELSE IF at[i - 1][2] + slice >= HourLen THEN <<at[i - 1][1] + 1, 0>>
        ELSE <<at[i - 1][1], at[i - 1][2] + slice>>
  IN  {day * DayLen + at[i][1] * HourLen + at[i][2] : i \in 0 .. n - 1}

TimeView(ctx, ds, slice, now) ==
  [t \in UNION {SlicesOf(d, slice) : d \in ds.from .. ds.to} |-> Cell(ctx, t, RoundToSlice(now, slice))]

-----------------------------------------------------------------------------
(* Cells that stand for what has begun are graded by the count of events.    *)
Graded(view, now, count) ==
  \A d, e \in DOMAIN view :
    /\ view[d] = Plain <=> now < d
    /\ view[d] = 0 <=> d <= now /\ count[d] = 0
    /\ count[d] <= count[e] /\ e <= now => view[d] <= view[e]

Days == 0 .. Date(MaxTime)

DaysExact ==
  LET OnDay == [d \in Days |-> Cardinality({i \in DOMAIN events : Date(events[i].time) = d})]
  IN  \A from \in Days, to \in Days : from <= to =>
        LET ctx == DateContext(from, to)
        IN  \A today \in Days : Graded(DayView(ctx, from, to, today), today, OnDay)

(* The clock is read again after from_args: the day may be over by then.    *)
SlicesExact ==
  \A today \in Days, slice \in Slices : \A context \in {NoContext} \cup 0 .. today :
    LET ds == FromTimeArgs(<<>>, context, today)
        ctx == DateTimeContext(ds, slice)
    IN  \A now \in today * DayLen .. MaxTime :
          LET view == TimeView(ctx, ds, slice, now)
              In == [t \in DOMAIN view |->
                       Cardinality({i \in DOMAIN events : events[i].time \in t .. t + slice - 1})]
          IN  DOMAIN ctx.map \subseteq DOMAIN view /\ Graded(view, now, In)

(* Up to three arguments, and what they ask for when they are accepted.     *)
Arguments == UNION {[1 .. n -> {Month(m) : m \in Months} \cup {Num(y) : y \in Years}] : n \in 0 .. 3}
Accepted ==
  {FromArgs(args, context, today) :
     args \in Arguments, context \in {NoContext} \cup Contexts, today \in Years \X Months} \ {Invalid}

(* The months shown are the asked one and the `context` months before it,   *)
(* and what is logged in them is loaded.  A unit of time stands for a month *)
(* here, the first is 2019-12.                                              *)
MonthsExact ==
  LET Index(ym) == 12 * ym[1] + ym[2]
      Logged == {Index(<<2019, 11>>) + events[i].time : i \in DOMAIN events}
  IN  \A ds \in Accepted :
        LET shown == Shown(ds)
            n == IF ds.kind = "year" THEN 12 ELSE 1 + ds.context
            asked == IF ds.kind = "year" THEN <<ds.year, 12>> ELSE <<ds.year, ds.month>>
        IN  /\ Len(shown) = n
            /\ \A i \in 1 .. n : shown[i][2] \in 1 .. 12 /\ Index(shown[i]) = Index(asked) - n + i
            /\ \A k \in Logged : k \in Index(shown[1]) .. Index(asked) =>
                 Index(Start(ds)) <= k /\ k < Index(End(ds))

(* The calendar shows the log.  Whatever the order in which events were     *)
(* logged, a day or a slice that has begun is graded by the number of its   *)
(* events: more of them never look like less, none look like nothing, and   *)
(* every event of the time view has its slice.  Exactly the days and slices *)
(* that have not begun stay plain, whatever is logged for them.  The months *)
(* are the ones asked for, in order and also over the turn of a year, and   *)
(* all of their events count.                                               *)
CalendarShowsLog == (\A p \in Procs : pc[p] = "idle") => DaysExact /\ SlicesExact /\ MonthsExact
=============================================================================
