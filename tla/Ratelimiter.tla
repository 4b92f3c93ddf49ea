----------------------------- MODULE Ratelimiter -----------------------------
(***************************************************************************)
(* ratelimit_throttle: the buckets the main thread keeps for a run         *)
(* (sn0int-std/src/ratelimits.rs) and the loop in which a script asks,     *)
(* sleeps and asks again (engine/ctx.rs).  Worker models how a request and *)
(* its answer travel; here both are one step.                              *)
(*                                                                         *)
(* Time is kept as ages: a bucket holds how long ago each pass was.  An    *)
(* age above every limit's window is not distinguished from a larger one,  *)
(* so the clock needs no bound.                                            *)
(***************************************************************************)
EXTENDS Lists, FiniteSetsExt, SequencesExt

CONSTANTS
  Scripts,   \* the scripts of a run, one per target
  Limits,    \* the (key, passes, time) triples they are throttled with
  MaxCalls   \* bound: calls of ratelimit_throttle a script makes

ASSUME RatelimiterAssumption ==
  /\ \A l \in Limits : l.passes \in Nat /\ l.time \in Nat
  /\ IsFiniteSet(Limits)
  /\ MaxCalls \in Nat

VARIABLES
  bucket,   \* Ratelimiter.buckets: the ages of the passes, oldest first
  state,    \* where each script is: "idle", "ask" or "sleep"
  limit,    \* the limit it is throttled with
  delay,    \* how long it still sleeps
  calls,    \* calls it has made
  passed    \* observation: the ages of the passes each limit has granted

rateVars == <<bucket, state, limit, delay, calls, passed>>

NoLimit == [passes |-> 0]   \* between two calls
BucketKeys == {l.key : l \in Limits}
Cap == 1 + Max({l.time : l \in Limits})
Elapse(ages) == [i \in DOMAIN ages |-> IF ages[i] < Cap THEN ages[i] + 1 ELSE Cap]

RateInit ==
  /\ bucket = [k \in BucketKeys |-> <<>>]
  /\ state = [s \in Scripts |-> "idle"]
  /\ limit = [s \in Scripts |-> NoLimit]
  /\ delay = [s \in Scripts |-> 0]
  /\ calls = [s \in Scripts |-> 0]
  /\ passed = [l \in Limits |-> <<>>]

Throttle(s, l) ==
  /\ state[s] = "idle"
  /\ calls[s] < MaxCalls
  /\ calls' = [calls EXCEPT ![s] = @ + 1]
  /\ limit' = [limit EXCEPT ![s] = l]
  /\ state' = [state EXCEPT ![s] = "ask"]
  /\ UNCHANGED <<bucket, delay, passed>>

(* Bucket::pass: forget what is outside of the window, then count.  kept is *)
(* the bucket after the retain.                                             *)
PassWith(s, kept, full) ==
  LET l == limit[s] IN
  /\ state[s] = "ask"
  /\ IF full
     THEN /\ bucket' = [bucket EXCEPT ![l.key] = kept]
          /\ delay' = [delay EXCEPT ![s] =
                         IF kept # <<>> THEN l.time - Max(ToSet(kept)) ELSE 1]
          /\ state' = [state EXCEPT ![s] = "sleep"]               \* Retry
          /\ UNCHANGED <<limit, passed>>
     ELSE /\ bucket' = [bucket EXCEPT ![l.key] = Append(kept, 0)]
          /\ passed' = [passed EXCEPT ![l] =
                          Append(Retain(@, 0 .. Cap - 1), 0)]
          /\ state' = [state EXCEPT ![s] = "idle"]                \* Pass
          /\ limit' = [limit EXCEPT ![s] = NoLimit]
          /\ UNCHANGED delay
  /\ UNCHANGED calls

Kept(s) == Retain(bucket[limit[s].key], 0 .. limit[s].time)

MutPassForgetsNothing(s) ==
  LET b == bucket[limit[s].key] IN PassWith(s, b, Len(b) >= limit[s].passes)
MutPassOffByOne(s) == PassWith(s, Kept(s), Len(Kept(s)) > limit[s].passes)
Pass(s) == PassWith(s, Kept(s), Len(Kept(s)) >= limit[s].passes)

(* thread::sleep is over and the loop asks again.                           *)
Wake(s) ==
  /\ state[s] = "sleep"
  /\ delay[s] = 0
  /\ state' = [state EXCEPT ![s] = "ask"]
  /\ UNCHANGED <<bucket, limit, delay, calls, passed>>

Tick ==
  /\ bucket' = [k \in BucketKeys |-> Elapse(bucket[k])]
  /\ passed' = [l \in Limits |-> Elapse(passed[l])]
  /\ delay' = [s \in Scripts |-> IF delay[s] > 0 THEN delay[s] - 1 ELSE 0]
  /\ UNCHANGED <<state, limit, calls>>

RateNext ==
  \/ Tick
  \/ \E s \in Scripts : (\E l \in Limits : Throttle(s, l)) \/ Pass(s) \/ Wake(s)

RateSpec == RateInit /\ [][RateNext]_rateVars

(* Time passes, and the threads are scheduled.                              *)
RateFairSpec ==
  RateSpec /\ WF_rateVars(Tick) /\ \A s \in Scripts : WF_rateVars(Pass(s)) /\ WF_rateVars(Wake(s))

-----------------------------------------------------------------------------
(* Properties.                                                              *)

(* The windows that end now are enough.                                     *)
InWindow(l) == Cardinality(Hits(passed[l], 0 .. l.time))

(* A limit is passed at most `passes` times in any window of `time`, over   *)
(* all scripts of the run together, when no limit with its key has a        *)
(* shorter window.                                                          *)
WindowRespected ==
  \A l \in Limits :
    (\A m \in Limits : m.key = l.key => m.time >= l.time) => InWindow(l) <= l.passes

(* The delay of a Retry is never negative (to_std().unwrap() would end the  *)
(* main thread) and never longer than the window, although scripts with     *)
(* other windows share the bucket.                                          *)
RetryInWindow ==
  \A s \in Scripts : state[s] = "sleep" => delay[s] >= 0 /\ delay[s] <= Max({limit[s].time, 1})

(* Whoever waits at a limit that can be passed gets through.                *)
ThrottleEnds ==
  \A s \in Scripts : (state[s] # "idle" /\ limit[s].passes > 0) ~> (state[s] = "idle")
=============================================================================
