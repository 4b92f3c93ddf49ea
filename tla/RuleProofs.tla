----------------------------- MODULE RuleProofs ------------------------------
(***************************************************************************)
(* Proofs about the rate limiter and the autonoscope rules: both filter a  *)
(* list and rely on what the filter leaves.                                *)
(***************************************************************************)
EXTENDS Ratelimiter, Autonoscope, ListProofs, SequenceTheorems

(* Max of the library is the greatest element.                              *)
LEMMA MaxIs ==
  ASSUME NEW S \in SUBSET Nat, IsFiniteSet(S), S # {}
  PROVE  Max(S) \in S /\ \A x \in S : x <= Max(S)
<1>1. \E n \in S : \A m \in S : n >= m
  BY NatMax
<1>2. Max(S) \in S /\ \A m \in S : Max(S) >= m
  BY <1>1 DEF Max
<1> QED
  BY <1>2

-----------------------------------------------------------------------------
(* Rate limiter.                                                            *)

Count(ages, t) == Cardinality(Hits(ages, 0 .. t))
Shortest(l) == \A m \in Limits : m.key = l.key => m.time >= l.time

RateTypeOK ==
  /\ bucket \in [BucketKeys -> Seq(Nat)]
  /\ passed \in [Limits -> Seq(Nat)]
  /\ state \in [Scripts -> {"idle", "ask", "sleep"}]
  /\ DOMAIN limit = Scripts
  /\ \A s \in Scripts : state[s] # "idle" => limit[s] \in Limits
  /\ delay \in [Scripts -> Nat]

(* Within its window, a limit has not granted more passes than its bucket   *)
(* remembers: limits that share the bucket forget later.                    *)
Remembered ==
  \A l \in Limits : Shortest(l) =>
    \A t \in 0 .. l.time : Count(passed[l], t) <= Count(bucket[l.key], t)

Sleeps ==
  \A s \in Scripts : state[s] = "sleep" => delay[s] <= limit[s].time \/ delay[s] <= 1

RateInv == RateTypeOK /\ Remembered /\ WindowRespected /\ Sleeps

(* A count is a natural number.                                             *)
LEMMA CountNat ==
  ASSUME NEW ages \in Seq(Nat), NEW t \in Int
  PROVE  Count(ages, t) \in Nat
BY PositionsOrdered DEF Count

(* Nothing is counted in an empty list.                                     *)
LEMMA CountEmpty ==
  ASSUME NEW t \in Int
  PROVE  Count(<<>>, t) = 0
<1>1. Hits(<<>>, 0 .. t) = {}
  BY DEF Hits
<1> QED
  BY <1>1, FS_EmptySet DEF Count

(* A longer window holds no fewer passes.                                   *)
LEMMA CountGrows ==
  ASSUME NEW ages \in Seq(Nat), NEW t \in Int, NEW u \in Int, t <= u
  PROVE  Count(ages, t) <= Count(ages, u)
<1>1. Hits(ages, 0 .. t) \in SUBSET Hits(ages, 0 .. u)
  BY DEF Hits
<1>2. IsFiniteSet(Hits(ages, 0 .. u))
  BY PositionsOrdered
<1> QED
  BY <1>1, <1>2, FS_Subset DEF Count

(* A pass has age 0, so that every window counts it.                        *)
LEMMA CountAppend ==
  ASSUME NEW ages \in Seq(Nat), NEW t \in Nat
  PROVE  Append(ages, 0) \in Seq(Nat) /\ Count(Append(ages, 0), t) = Count(ages, t) + 1
<1> DEFINE H == Hits(ages, 0 .. t)
           n == Len(ages)
<1>1. n \in Nat /\ Append(ages, 0) \in Seq(Nat) /\ Len(Append(ages, 0)) = n + 1
        /\ Append(ages, 0)[n + 1] = 0 /\ \A i \in 1 .. n : Append(ages, 0)[i] = ages[i]
  OBVIOUS
<1>2. Hits(Append(ages, 0), 0 .. t) = H \cup {n + 1}
  <2>1. \A i : i \in Hits(Append(ages, 0), 0 .. t) <=> i \in 1 .. n + 1 /\ Append(ages, 0)[i] \in 0 .. t
    BY <1>1 DEF Hits
  <2>2. \A i : i \in H <=> i \in 1 .. n /\ ages[i] \in 0 .. t
    BY DEF Hits
  <2> QED
    BY <1>1, <2>1, <2>2
<1>3. H \subseteq 1 .. n /\ IsFiniteSet(H) /\ Cardinality(H) \in Nat
  BY PositionsOrdered
<1>4. n + 1 \notin H
  BY <1>1, <1>3
<1> HIDE DEF H, n
<1>5. Cardinality(H \cup {n + 1}) = Cardinality(H) + 1
  BY <1>3, <1>4, FS_AddElement
<1> QED
  BY <1>1, <1>2, <1>5 DEF Count, H

(* Forgetting what is outside of a window keeps the count of any smaller.   *)
LEMMA CountRetain ==
  ASSUME NEW ages \in Seq(Nat), NEW t \in Nat, NEW u \in Nat, t <= u
  PROVE  Retain(ages, 0 .. u) \in Seq(Nat) /\ Count(Retain(ages, 0 .. u), t) = Count(ages, t)
<1>1. (0 .. u) \cap (0 .. t) = 0 .. t
  OBVIOUS
<1>2. Cardinality(Hits(Retain(ages, 0 .. u), 0 .. t)) = Cardinality(Hits(ages, (0 .. u) \cap (0 .. t)))
  BY RetainCounts
<1>3. Retain(ages, 0 .. u) \in Seq(Nat)
  BY RetainIs
<1> QED
  BY <1>1, <1>2, <1>3 DEF Count

(* What Bucket::pass keeps is what the window holds.                        *)
LEMMA KeptIs ==
  ASSUME NEW ages \in Seq(Nat), NEW u \in Nat
  PROVE  /\ Retain(ages, 0 .. u) \in Seq(Nat)
         /\ Len(Retain(ages, 0 .. u)) = Count(ages, u)
         /\ ToSet(Retain(ages, 0 .. u)) \subseteq 0 .. u
         /\ \A t \in 0 .. u : /\ Count(Retain(ages, 0 .. u), t) = Count(ages, t)
                             /\ Count(Append(Retain(ages, 0 .. u), 0), t) = Count(ages, t) + 1
<1> DEFINE kept == Retain(ages, 0 .. u)
<1>1. kept \in Seq(Nat) /\ Len(kept) = Count(ages, u)
  BY RetainIs DEF Count
<1>2. ToSet(kept) \subseteq 0 .. u
  <2>2. \A k \in 1 .. Len(kept) : kept[k] \in 0 .. u
    BY RetainKeeps
  <2> HIDE DEF kept
  <2> QED
    BY <1>1, <2>2 DEF ToSet
<1>3. \A t \in 0 .. u : Count(kept, t) = Count(ages, t)
  BY CountRetain
<1> HIDE DEF kept
<1>4. \A t \in 0 .. u : Count(Append(kept, 0), t) = Count(ages, t) + 1
  BY <1>1, <1>3, CountAppend
<1> QED
  BY <1>1, <1>2, <1>3, <1>4 DEF kept

(* The ages are told apart up to every window.                              *)
LEMMA CapIs ==
  ASSUME NEW l \in Limits
  PROVE  Cap \in Nat /\ l.time \in Nat /\ l.time < Cap
<1> DEFINE S == {m.time : m \in Limits}
<1>1. S \in SUBSET Nat /\ l.time \in S
  BY RatelimiterAssumption
<1>2. IsFiniteSet(S)
  <2> DEFINE f == [m \in Limits |-> m.time]
  <2>1. f \in [Limits -> S] /\ \A x \in S : \E m \in Limits : f[m] = x
    OBVIOUS
  <2>2. f \in Surjection(Limits, S)
    BY <2>1 DEF Surjection
  <2> QED
    BY <2>2, RatelimiterAssumption, FS_Surjection
<1>3. Max(S) \in S /\ \A x \in S : x <= Max(S)
  BY <1>1, <1>2, MaxIs
<1> HIDE DEF S
<1>4. Max(S) \in Nat /\ l.time <= Max(S) /\ l.time \in Nat
  BY <1>1, <1>3
<1> QED
  BY <1>4 DEF Cap, S

(* A second later, a window holds what the next smaller one held.           *)
LEMMA CountElapse ==
  ASSUME NEW ages \in Seq(Nat), NEW t \in Nat, Cap \in Nat, t < Cap
  PROVE  Elapse(ages) \in Seq(Nat) /\ Count(Elapse(ages), t) = Count(ages, t - 1)
<1>1. DOMAIN ages = 1 .. Len(ages) /\ Len(ages) \in Nat /\ \A i \in DOMAIN ages : ages[i] \in Nat
  OBVIOUS
<1>2. Elapse(ages) = [i \in 1 .. Len(ages) |-> IF ages[i] < Cap THEN ages[i] + 1 ELSE Cap]
  BY <1>1 DEF Elapse
<1>3. \A i \in 1 .. Len(ages) : (IF ages[i] < Cap THEN ages[i] + 1 ELSE Cap) \in Nat
  BY <1>1
<1>4. Elapse(ages) \in Seq(Nat) /\ DOMAIN Elapse(ages) = DOMAIN ages
  BY <1>1, <1>2, <1>3
<1>5. \A i \in DOMAIN ages : Elapse(ages)[i] \in 0 .. t <=> ages[i] \in 0 .. t - 1
  BY <1>1, <1>2
<1>6. Hits(Elapse(ages), 0 .. t) = Hits(ages, 0 .. t - 1)
  BY <1>4, <1>5 DEF Hits
<1> QED
  BY <1>4, <1>6 DEF Count

(* The invariant holds before any pass.                                     *)
LEMMA RateInitOK == RateInit => RateInv
<1> SUFFICES ASSUME RateInit PROVE RateInv
  OBVIOUS
<1>1. RateTypeOK
  BY DEF RateInit, RateTypeOK
<1>2. \A l \in Limits : passed[l] = <<>> /\ bucket[l.key] = <<>> /\ l.passes \in Nat /\ l.time \in Nat
  BY RatelimiterAssumption DEF RateInit, BucketKeys
<1>3. Remembered
  BY <1>2, CountEmpty DEF Remembered
<1>4. WindowRespected
  BY <1>2, CountEmpty DEF WindowRespected, InWindow, Count
<1>5. Sleeps
  BY DEF Sleeps, RateInit
<1> QED
  BY <1>1, <1>3, <1>4, <1>5 DEF RateInv

(* When time passes, ages grow in the bucket and in the window alike.       *)
LEMMA TickOK == RateInv /\ Tick => RateInv'
<1> SUFFICES ASSUME RateInv, Tick PROVE RateInv'
  OBVIOUS
<1>1. ASSUME NEW l \in Limits
      PROVE  /\ l.key \in BucketKeys /\ l.time \in Nat /\ l.time < Cap /\ Cap \in Nat
             /\ passed[l] \in Seq(Nat) /\ bucket[l.key] \in Seq(Nat)
             /\ passed'[l] = Elapse(passed[l]) /\ bucket'[l.key] = Elapse(bucket[l.key])
             /\ Elapse(passed[l]) \in Seq(Nat) /\ Elapse(bucket[l.key]) \in Seq(Nat)
  <2>1. l.key \in BucketKeys /\ l.time \in Nat /\ l.time < Cap /\ Cap \in Nat
    BY CapIs DEF BucketKeys
  <2>2. passed[l] \in Seq(Nat) /\ bucket[l.key] \in Seq(Nat)
    BY <2>1 DEF RateInv, RateTypeOK
  <2> QED
    BY <2>1, <2>2, CountElapse DEF Tick
<1>2. RateTypeOK'
  <2>1. bucket' \in [BucketKeys -> Seq(Nat)]
    <3>1. \A k \in BucketKeys : Elapse(bucket[k]) \in Seq(Nat)
      BY <1>1 DEF BucketKeys
    <3> QED
      BY <3>1 DEF Tick
  <2>2. passed' \in [Limits -> Seq(Nat)]
    BY <1>1 DEF Tick
  <2>3. delay' \in [Scripts -> Nat]
    BY DEF RateInv, RateTypeOK, Tick
  <2> QED
    BY <2>1, <2>2, <2>3 DEF RateInv, RateTypeOK, Tick
<1>3. \A l \in Limits : \A t \in 0 .. l.time :
        /\ Count(passed'[l], t) = Count(passed[l], t - 1)
        /\ Count(bucket'[l.key], t) = Count(bucket[l.key], t - 1)
  <2> TAKE l \in Limits
  <2> TAKE t \in 0 .. l.time
  <2> QED
    BY <1>1, CountElapse
<1>4. Remembered'
  <2> SUFFICES ASSUME NEW l \in Limits, Shortest(l), NEW t \in 0 .. l.time
               PROVE  Count(passed[l], t - 1) <= Count(bucket[l.key], t - 1)
    BY <1>3 DEF Remembered, Shortest
  <2>1. CASE t = 0
    <3>1. Hits(passed[l], 0 .. t - 1) = {} /\ Hits(bucket[l.key], 0 .. t - 1) = {}
      BY <2>1 DEF Hits
    <3>2. Count(passed[l], t - 1) = 0 /\ Count(bucket[l.key], t - 1) = 0
      BY <3>1, FS_EmptySet DEF Count
    <3> QED
      BY <3>2
  <2>2. CASE t # 0
    <3>1. t - 1 \in 0 .. l.time
      BY <1>1, <2>2
    <3> QED
      BY <3>1 DEF RateInv, Remembered
  <2> QED
    BY <2>1, <2>2
<1>5. WindowRespected'
  <2> SUFFICES ASSUME NEW l \in Limits, Shortest(l) PROVE Count(passed'[l], l.time) <= l.passes
    BY DEF WindowRespected, InWindow, Count, Shortest
  <2>0. l.time \in Int /\ l.time - 1 \in Int /\ l.time - 1 <= l.time /\ passed[l] \in Seq(Nat)
    BY <1>1
  <2>1. Count(passed'[l], l.time) = Count(passed[l], l.time - 1)
    BY <1>1, <1>3
  <2>2. Count(passed[l], l.time - 1) <= Count(passed[l], l.time)
    BY <2>0, CountGrows
  <2>3. Count(passed[l], l.time) <= l.passes
    BY DEF RateInv, WindowRespected, InWindow, Count, Shortest
  <2>4. Count(passed[l], l.time) \in Nat /\ Count(passed[l], l.time - 1) \in Nat /\ l.passes \in Nat
    BY <2>0, CountNat, RatelimiterAssumption
  <2> QED
    BY <2>1, <2>2, <2>3, <2>4
<1>6. Sleeps'
  <2> SUFFICES ASSUME NEW s \in Scripts, state[s] = "sleep"
               PROVE  delay'[s] <= limit[s].time \/ delay'[s] <= 1
    BY DEF Sleeps, Tick
  <2>1. delay[s] \in Nat /\ delay'[s] = (IF delay[s] > 0 THEN delay[s] - 1 ELSE 0)
          /\ (delay[s] <= limit[s].time \/ delay[s] <= 1) /\ limit[s].time \in Nat
    BY CapIs DEF RateInv, RateTypeOK, Tick, Sleeps
  <2> QED
    BY <2>1
<1> QED
  BY <1>2, <1>4, <1>5, <1>6 DEF RateInv

(* Asking changes no bucket.                                                *)
LEMMA AskOK ==
  ASSUME RateInv, NEW s \in Scripts, Wake(s) \/ \E l \in Limits : Throttle(s, l)
  PROVE  RateInv'
<1>1. bucket' = bucket /\ passed' = passed /\ delay' = delay
  BY DEF Wake, Throttle
<1>2. RateTypeOK'
  BY DEF RateInv, RateTypeOK, Wake, Throttle
<1>3. Remembered' /\ WindowRespected'
  BY <1>1 DEF RateInv, Remembered, WindowRespected, InWindow, Shortest
<1>4. Sleeps'
  BY DEF RateInv, RateTypeOK, Sleeps, Wake, Throttle
<1> QED
  BY <1>2, <1>3, <1>4 DEF RateInv

(* Granting a pass, or refusing it, keeps the invariant.                    *)
LEMMA PassOK ==
  ASSUME RateInv, NEW s \in Scripts, Pass(s)
  PROVE  RateInv'
<1> DEFINE m == limit[s]
           b == bucket[m.key]
           kept == Retain(b, 0 .. m.time)
<1>0. m \in Limits /\ m.key \in BucketKeys /\ m.time \in Nat /\ m.passes \in Nat /\ m.time < Cap
        /\ Cap \in Nat /\ state[s] = "ask"
  BY CapIs, RatelimiterAssumption DEF RateInv, RateTypeOK, Pass, PassWith, BucketKeys
<1>1. b \in Seq(Nat) /\ passed[m] \in Seq(Nat)
  BY <1>0 DEF RateInv, RateTypeOK
<1>2. kept \in Seq(Nat) /\ Len(kept) = Count(b, m.time) /\ ToSet(kept) \subseteq 0 .. m.time
  BY <1>0, <1>1, KeptIs
<1>3. \A t \in 0 .. m.time : Count(kept, t) = Count(b, t) /\ Count(Append(kept, 0), t) = Count(b, t) + 1
  BY <1>0, <1>1, KeptIs
<1>4. Append(kept, 0) \in Seq(Nat)
  BY <1>2
<1>5. PassWith(s, kept, Len(kept) >= m.passes)
  BY DEF Pass, Kept
<1> HIDE DEF kept
(* What the step leaves in the bucket counts no less.                       *)
<1>6. \A l \in Limits, t \in Nat : Shortest(l) /\ t <= l.time =>
        Count(bucket[l.key], t) <= Count(bucket'[l.key], t)
  <2> SUFFICES ASSUME NEW l \in Limits, NEW t \in Nat, Shortest(l), t <= l.time
               PROVE  Count(bucket[l.key], t) <= Count(bucket'[l.key], t)
    OBVIOUS
  <2>0. l.key \in BucketKeys /\ l.time \in Nat /\ bucket[l.key] \in Seq(Nat)
    BY CapIs DEF RateInv, RateTypeOK, BucketKeys
  <2>1. CASE l.key = m.key
    <3>1. t \in 0 .. m.time
      BY <1>0, <2>0, <2>1 DEF Shortest
    <3>2. bucket'[m.key] = kept \/ bucket'[m.key] = Append(kept, 0)
      BY <1>0, <1>5 DEF PassWith, RateInv, RateTypeOK
    <3> QED
      <4>1. Count(b, t) \in Nat
        <5>1. \A a \in Seq(Nat), u \in Int : Count(a, u) \in Nat
          BY CountNat
        <5>2. b \in Seq(Nat) /\ t \in Int
          BY <1>1
        <5> HIDE DEF b
        <5> QED
          BY <5>1, <5>2
      <4>2. Count(bucket'[m.key], t) = Count(b, t) \/ Count(bucket'[m.key], t) = Count(b, t) + 1
        BY <1>3, <3>1, <3>2
      <4> QED
        BY <2>1, <4>1, <4>2
  <2>2. CASE l.key # m.key
    <3>1. bucket'[l.key] = bucket[l.key]
      BY <1>5, <2>0, <2>2 DEF PassWith, RateInv, RateTypeOK
    <3> QED
      BY <2>0, <3>1, CountNat
  <2> QED
    BY <2>1, <2>2
<1>7. CASE Len(kept) >= m.passes
  <2>1. bucket' = [bucket EXCEPT ![m.key] = kept] /\ passed' = passed /\ limit' = limit
          /\ state' = [state EXCEPT ![s] = "sleep"]
          /\ delay' = [delay EXCEPT ![s] = IF kept # <<>> THEN m.time - Max(ToSet(kept)) ELSE 1]
    BY <1>5, <1>7 DEF PassWith
  <2>2. (IF kept # <<>> THEN m.time - Max(ToSet(kept)) ELSE 1) \in Nat
          /\ (kept # <<>> => m.time - Max(ToSet(kept)) <= m.time)
    <3> SUFFICES ASSUME kept # <<>> PROVE Max(ToSet(kept)) \in 0 .. m.time
      BY <1>0
    <3>1. ToSet(kept) # {} /\ ToSet(kept) \in SUBSET Nat
      BY <1>2 DEF ToSet
    <3>2. IsFiniteSet(ToSet(kept))
      <4>1. IsFiniteSet(0 .. m.time)
        <5>1. m.time \in Int /\ 0 \in Int
          BY <1>0
        <5> HIDE DEF m
        <5> QED
          BY <5>1, FS_Interval
      <4> QED
        BY <1>2, <4>1, FS_Subset
    <3> QED
      BY <1>2, <3>1, <3>2, MaxIs
  <2>3. RateTypeOK'
    <3>1. bucket' \in [BucketKeys -> Seq(Nat)] /\ passed' \in [Limits -> Seq(Nat)]
      BY <1>2, <2>1 DEF RateInv, RateTypeOK
    <3>2. delay' \in [Scripts -> Nat]
      BY <2>1, <2>2 DEF RateInv, RateTypeOK
    <3> QED
      BY <1>0, <2>1, <3>1, <3>2 DEF RateInv, RateTypeOK
  <2>4. Remembered'
    <3> SUFFICES ASSUME NEW l \in Limits, Shortest(l), NEW t \in 0 .. l.time
                 PROVE  Count(passed[l], t) <= Count(bucket'[l.key], t)
      BY <2>1 DEF Remembered, Shortest
    <3>1. Count(passed[l], t) <= Count(bucket[l.key], t)
      BY DEF RateInv, Remembered
    <3>2. Count(bucket[l.key], t) <= Count(bucket'[l.key], t)
      BY <1>6, CapIs
    <3>3. Count(passed[l], t) \in Nat /\ Count(bucket[l.key], t) \in Nat /\ Count(bucket'[l.key], t) \in Nat
      <4>1. l.key \in BucketKeys /\ t \in Int
        BY CapIs DEF BucketKeys
      <4>2. passed[l] \in Seq(Nat) /\ bucket[l.key] \in Seq(Nat)
        BY <4>1 DEF RateInv, RateTypeOK
      <4>3. bucket'[l.key] \in Seq(Nat)
        BY <2>3, <4>1 DEF RateTypeOK
      <4> QED
        BY <4>1, <4>2, <4>3, CountNat
    <3> QED
      BY <3>1, <3>2, <3>3
  <2>5. WindowRespected'
    BY <2>1 DEF RateInv, WindowRespected, InWindow
  <2>6. Sleeps'
    <3> SUFFICES ASSUME NEW x \in Scripts, state'[x] = "sleep"
                 PROVE  delay'[x] <= limit[x].time \/ delay'[x] <= 1
      BY <2>1 DEF Sleeps
    <3>1. CASE x = s
      BY <2>1, <2>2, <3>1 DEF RateInv, RateTypeOK
    <3>2. CASE x # s
      BY <2>1, <3>2 DEF RateInv, RateTypeOK, Sleeps
    <3> QED
      BY <3>1, <3>2
  <2> QED
    BY <2>3, <2>4, <2>5, <2>6 DEF RateInv
<1>8. CASE ~(Len(kept) >= m.passes)
  <2> DEFINE g == Append(Retain(passed[m], 0 .. Cap - 1), 0)
  <2>1. bucket' = [bucket EXCEPT ![m.key] = Append(kept, 0)] /\ delay' = delay
          /\ passed' = [passed EXCEPT ![m] = g]
          /\ state' = [state EXCEPT ![s] = "idle"] /\ limit' = [limit EXCEPT ![s] = NoLimit]
    BY <1>5, <1>8 DEF PassWith
  <2>2. g \in Seq(Nat) /\ \A t \in 0 .. m.time : Count(g, t) = Count(passed[m], t) + 1
    <3>1. Retain(passed[m], 0 .. Cap - 1) \in Seq(Nat)
            /\ \A t \in 0 .. m.time : Count(Retain(passed[m], 0 .. Cap - 1), t) = Count(passed[m], t)
      <4>1. Cap - 1 \in Nat /\ m.time <= Cap - 1
        BY <1>0
      <4>2. \A t \in 0 .. m.time : t \in Nat /\ t <= Cap - 1
        BY <1>0
      <4> HIDE DEF m
      <4> QED
        BY <1>1, <4>1, <4>2, CountRetain, RetainIs
    <3> QED
      BY <1>0, <3>1, CountAppend
  <2> HIDE DEF g
  <2>3. RateTypeOK'
    <3>1. bucket' \in [BucketKeys -> Seq(Nat)] /\ passed' \in [Limits -> Seq(Nat)]
      BY <1>4, <2>1, <2>2 DEF RateInv, RateTypeOK
    <3>2. state' \in [Scripts -> {"idle", "ask", "sleep"}] /\ DOMAIN limit' = Scripts /\ delay' \in [Scripts -> Nat]
      BY <2>1 DEF RateInv, RateTypeOK
    <3>3. \A x \in Scripts : state'[x] # "idle" => limit'[x] \in Limits
      BY <2>1 DEF RateInv, RateTypeOK
    <3> QED
      BY <3>1, <3>2, <3>3 DEF RateTypeOK
  <2>4. /\ \A l \in Limits : passed'[l] = IF l = m THEN g ELSE passed[l]
        /\ bucket'[m.key] = Append(kept, 0)
    BY <1>0, <2>1 DEF RateInv, RateTypeOK
  <2>5. Remembered'
    <3> SUFFICES ASSUME NEW l \in Limits, Shortest(l), NEW t \in 0 .. l.time
                 PROVE  Count(passed'[l], t) <= Count(bucket'[l.key], t)
      BY DEF Remembered, Shortest
    <3>1. Count(passed[l], t) <= Count(bucket[l.key], t)
      BY DEF RateInv, Remembered
    <3>2. Count(bucket[l.key], t) <= Count(bucket'[l.key], t)
      BY <1>6, CapIs
    <3>3. Count(passed[l], t) \in Nat /\ Count(bucket[l.key], t) \in Nat /\ Count(bucket'[l.key], t) \in Nat
      <4>1. l.key \in BucketKeys /\ t \in Int
        BY CapIs DEF BucketKeys
      <4>2. passed[l] \in Seq(Nat) /\ bucket[l.key] \in Seq(Nat)
        BY <4>1 DEF RateInv, RateTypeOK
      <4>3. bucket'[l.key] \in Seq(Nat)
        BY <2>3, <4>1 DEF RateTypeOK
      <4> QED
        BY <4>1, <4>2, <4>3, CountNat
    <3>4. CASE l = m
      <4>1. Count(passed'[l], t) = Count(passed[l], t) + 1
        BY <2>2, <2>4, <3>4
      <4>2. Count(bucket'[l.key], t) = Count(bucket[l.key], t) + 1
        BY <1>3, <2>4, <3>4
      <4> QED
        BY <3>1, <3>3, <4>1, <4>2
    <3>5. CASE l # m
      <4>1. passed'[l] = passed[l]
        BY <2>4, <3>5
      <4> QED
        BY <3>1, <3>2, <3>3, <4>1
    <3> QED
      BY <3>4, <3>5
  <2>6. WindowRespected'
    <3> SUFFICES ASSUME NEW l \in Limits, Shortest(l) PROVE Count(passed'[l], l.time) <= l.passes
      BY DEF WindowRespected, InWindow, Count, Shortest
    <3>1. Count(passed[l], l.time) <= l.passes /\ Count(passed[l], l.time) <= Count(bucket[l.key], l.time)
      BY CapIs DEF RateInv, WindowRespected, Remembered, InWindow, Count, Shortest
    <3>2. CASE l = m
      <4>1. Count(b, m.time) < m.passes /\ Count(b, m.time) \in Nat /\ Count(passed[m], m.time) \in Nat
        <5>1. Count(b, m.time) \in Nat /\ Count(passed[m], m.time) \in Nat
          <6>1. m.time \in Int
            BY <1>0
          <6> QED
            BY <1>1, <6>1, CountNat
        <5> QED
          BY <1>0, <1>2, <1>8, <5>1
      <4>2. Count(passed'[l], l.time) = Count(passed[m], m.time) + 1
        BY <1>0, <2>2, <2>4, <3>2
      <4> QED
        BY <1>0, <3>1, <3>2, <4>1, <4>2
    <3>3. CASE l # m
      BY <2>4, <3>1, <3>3
    <3> QED
      BY <3>2, <3>3
  <2>7. Sleeps'
    BY <2>1 DEF RateInv, RateTypeOK, Sleeps
  <2> QED
    BY <2>3, <2>5, <2>6, <2>7 DEF RateInv
<1> QED
  BY <1>7, <1>8

(* Every step keeps the invariant.                                          *)
LEMMA RateStep == RateInv /\ [RateNext]_rateVars => RateInv'
<1> SUFFICES ASSUME RateInv, [RateNext]_rateVars PROVE RateInv'
  OBVIOUS
<1>1. CASE Tick
  BY <1>1, TickOK
<1>2. CASE \E s \in Scripts : (\E l \in Limits : Throttle(s, l)) \/ Pass(s) \/ Wake(s)
  BY <1>2, AskOK, PassOK
<1>3. CASE UNCHANGED rateVars
  <2>1. RateTypeOK' /\ Sleeps'
    BY <1>3 DEF RateInv, RateTypeOK, Sleeps, rateVars
  <2>2. Remembered' /\ WindowRespected'
    BY <1>3 DEF RateInv, Remembered, WindowRespected, InWindow, Shortest, rateVars
  <2> QED
    BY <2>1, <2>2 DEF RateInv
<1> QED
  BY <1>1, <1>2, <1>3 DEF RateNext

(* The invariant holds in every reachable state.                            *)
LEMMA RateInvHolds == RateSpec => []RateInv
BY RateInitOK, RateStep, PTL DEF RateSpec

(* Bucket::pass lets no limit through more often than it says within its    *)
(* window, over all scripts that share the bucket.                          *)
THEOREM WindowHolds == RateSpec => []WindowRespected
<1>1. RateInv => WindowRespected
  BY DEF RateInv
<1> QED
  BY <1>1, RateInvHolds, PTL

(* A Retry is never negative and never longer than the window.              *)
THEOREM RetryHolds == RateSpec => []RetryInWindow
<1>1. RateInv => RetryInWindow
  <2> SUFFICES ASSUME RateInv, NEW s \in Scripts, state[s] = "sleep"
               PROVE  delay[s] >= 0 /\ delay[s] <= Max({limit[s].time, 1})
    BY DEF RetryInWindow
  <2>1. delay[s] \in Nat /\ limit[s].time \in Nat /\ (delay[s] <= limit[s].time \/ delay[s] <= 1)
    BY CapIs DEF RateInv, RateTypeOK, Sleeps
  <2>2. IsFiniteSet({limit[s].time, 1})
    <3>1. IsFiniteSet({limit[s].time}) /\ IsFiniteSet({1})
      BY FS_Singleton
    <3>2. {limit[s].time, 1} = {limit[s].time} \cup {1}
      OBVIOUS
    <3> QED
      BY <3>1, <3>2, FS_Union
  <2>3. Max({limit[s].time, 1}) \in {limit[s].time, 1} /\ \A x \in {limit[s].time, 1} : x <= Max({limit[s].time, 1})
    BY <2>1, <2>2, MaxIs
  <2> QED
    BY <2>1, <2>3
<1> QED
  BY <1>1, RateInvHolds, PTL

-----------------------------------------------------------------------------
(* Autonoscope: lists of rules.                                             *)

Entries == [rule : Rules, scoped : BOOLEAN]
PrecisionOf(e) == Precision(e.rule)

(* sort_precision_desc on two rules of s.                                   *)
Ahead(s, x, y) ==
  PrecisionOf(x) > PrecisionOf(y) \/ (PrecisionOf(x) = PrecisionOf(y) /\ Earlier(s, x, y))

UniqueRules(s) == \A i, j \in DOMAIN s : s[i].rule = s[j].rule => i = j

(* list is what the rules of kind o in rows are sorted to.                  *)
SortedOf(list, rows, o) ==
  /\ list \in Seq(Entries)
  /\ \A e : e \in ToSet(list) <=> e \in ToSet(rows) /\ e.rule.object = o
  /\ \A k, l \in DOMAIN list : k < l => Ahead(rows, list[k], list[l])

(* A precision is a natural number.                                         *)
LEMMA PrecisionNat == \A e \in Entries : PrecisionOf(e) \in Nat
BY DEF Entries, Rules, Precision, PrecisionOf

(* The sort moves every rule to one place, ahead of those it precedes.      *)
LEMMA SortIs ==
  ASSUME NEW s \in Seq(Entries)
  PROVE  /\ SortByPrecision(s) \in Seq(Entries)
         /\ ToSet(SortByPrecision(s)) = ToSet(s)
         /\ UniqueRules(s) => UniqueRules(SortByPrecision(s))
         /\ \A k, l \in DOMAIN SortByPrecision(s) :
              k < l => Ahead(s, SortByPrecision(s)[k], SortByPrecision(s)[l])
<1> DEFINE n == Len(s)
           I == DOMAIN s
           P(i) == Precision(s[i].rule)
           R == {p \in I \X I : P(p[1]) > P(p[2]) \/ (P(p[1]) = P(p[2]) /\ p[1] < p[2])}
           q == Ordered(I, R)
           t == SortByPrecision(s)
<1>1. I = 1 .. n /\ n \in Nat /\ IsFiniteSet(I) /\ Cardinality(I) = n
  <2>1. I = 1 .. n /\ n \in Nat
    OBVIOUS
  <2> HIDE DEF I, n
  <2>2. IsFiniteSet(1 .. n) /\ Cardinality(1 .. n) = n
    BY <2>1, FS_Interval
  <2> QED
    BY <2>1, <2>2
<1>2. \A i \in I : s[i] \in Entries /\ P(i) \in Nat /\ P(i) = PrecisionOf(s[i])
  BY PrecisionNat DEF PrecisionOf
<1>3. t = At(s, q)
  BY DEF SortByPrecision
<1>4. \A i, j \in I : <<i, j>> \in R <=> P(i) > P(j) \/ (P(i) = P(j) /\ i < j)
  OBVIOUS
<1>5. \A i \in I : i \in Nat
  BY <1>1
<1> HIDE DEF I, P, R
<1>6. StrictOrder(I, R)
  BY <1>2, <1>4, <1>5 DEF StrictOrder
<1>7. Enumerates(q, I, R)
  BY <1>1, <1>6, OrderedEnumerates
<1> HIDE DEF q
<1>8. q \in [1 .. n -> I] /\ (\A i \in I : \E k \in 1 .. n : q[k] = i)
        /\ (\A k, l \in 1 .. n : k < l => <<q[k], q[l]>> \in R)
  <2>1. q \in [1 .. n -> I] /\ (\A i \in I : \E k \in DOMAIN q : q[k] = i)
          /\ (\A k, l \in DOMAIN q : k < l => <<q[k], q[l]>> \in R)
    BY <1>1, <1>7 DEF Enumerates
  <2> QED
    BY <2>1
<1> HIDE DEF n, t
<1>9. t = [k \in 1 .. n |-> s[q[k]]]
  <2>1. DOMAIN q = 1 .. n
    BY <1>8
  <2> QED
    BY <1>3, <2>1 DEF At
<1>10. \A k \in 1 .. n : s[q[k]] \in Entries
  BY <1>2, <1>8
<1>11. t \in Seq(Entries) /\ DOMAIN t = 1 .. n /\ \A k \in 1 .. n : t[k] = s[q[k]]
  BY <1>1, <1>9, <1>10
<1>12. ToSet(t) = ToSet(s)
  <2>1. \A e : e \in ToSet(t) => e \in ToSet(s)
    BY <1>8, <1>11 DEF ToSet, I
  <2>2. \A e : e \in ToSet(s) => e \in ToSet(t)
    BY <1>8, <1>11 DEF ToSet, I
  <2> QED
    BY <2>1, <2>2
<1>13. \A k, l \in 1 .. n : q[k] = q[l] => k = l
  <2> TAKE k, l \in 1 .. n
  <2>1. q[k] \in I /\ q[l] \in I
    BY <1>8
  <2>2. (k < l => q[k] # q[l]) /\ (l < k => q[k] # q[l])
    BY <1>6, <1>8, <2>1 DEF StrictOrder
  <2> QED
    BY <1>1, <2>2
<1>14. ASSUME UniqueRules(s) PROVE UniqueRules(t)
  <2> SUFFICES ASSUME NEW k \in 1 .. n, NEW l \in 1 .. n, t[k].rule = t[l].rule PROVE k = l
    BY <1>11 DEF UniqueRules
  <2>1. q[k] \in I /\ q[l] \in I /\ s[q[k]].rule = s[q[l]].rule
    BY <1>8, <1>11
  <2>2. q[k] = q[l]
    BY <1>14, <2>1 DEF UniqueRules, I
  <2> QED
    BY <1>13, <2>2
<1>15. \A k, l \in 1 .. n : k < l => Ahead(s, t[k], t[l])
  <2> SUFFICES ASSUME NEW k \in 1 .. n, NEW l \in 1 .. n, k < l PROVE Ahead(s, t[k], t[l])
    OBVIOUS
  <2>1. q[k] \in I /\ q[l] \in I /\ t[k] = s[q[k]] /\ t[l] = s[q[l]]
    BY <1>8, <1>11
  <2>2. P(q[k]) > P(q[l]) \/ (P(q[k]) = P(q[l]) /\ q[k] < q[l])
    BY <1>4, <1>8, <2>1
  <2>3. P(q[k]) = PrecisionOf(t[k]) /\ P(q[l]) = PrecisionOf(t[l])
    BY <1>2, <2>1
  <2>4. q[k] < q[l] => Earlier(s, t[k], t[l])
    BY <2>1 DEF Earlier, I
  <2> QED
    BY <2>2, <2>3, <2>4 DEF Ahead
<1> QED
  BY <1>11, <1>12, <1>14, <1>15 DEF t

(* Removing a rule, or keeping a kind, keeps what is left in its order.     *)
LEMMA RetainRules ==
  ASSUME NEW s \in Seq(Entries), NEW S
  PROVE  /\ Retain(s, S) \in Seq(Entries)
         /\ \A e : e \in ToSet(Retain(s, S)) <=> e \in ToSet(s) /\ e \in S
         /\ UniqueRules(s) => UniqueRules(Retain(s, S))
         /\ \A k, l \in DOMAIN Retain(s, S) : k < l =>
              \E i, j \in DOMAIN s : i < j /\ s[i] = Retain(s, S)[k] /\ s[j] = Retain(s, S)[l]
<1> DEFINE r == Retain(s, S)
<1>1. PICK p \in [1 .. Len(r) -> Hits(s, S)] :
        /\ \A i \in Hits(s, S) : \E k \in 1 .. Len(r) : p[k] = i
        /\ \A k, l \in 1 .. Len(r) : k < l => p[k] < p[l]
        /\ \A k \in 1 .. Len(r) : r[k] = s[p[k]]
  BY RetainIs
<1>2. r \in Seq(Entries) /\ Len(r) \in Nat /\ DOMAIN r = 1 .. Len(r)
  BY RetainIs
<1>3. \A i : i \in Hits(s, S) <=> i \in DOMAIN s /\ s[i] \in S
  BY DEF Hits
<1>4. \A i \in DOMAIN s : i \in Nat
  OBVIOUS
<1> HIDE DEF r
<1>5. \A k \in DOMAIN r : p[k] \in DOMAIN s /\ r[k] = s[p[k]] /\ s[p[k]] \in S
  BY <1>1, <1>2, <1>3
<1>6. \A e : e \in ToSet(r) <=> e \in ToSet(s) /\ e \in S
  <2>1. \A e : e \in ToSet(r) => e \in ToSet(s) /\ e \in S
    BY <1>5 DEF ToSet
  <2>2. \A e : e \in ToSet(s) /\ e \in S => e \in ToSet(r)
    BY <1>1, <1>2, <1>3, <1>5 DEF ToSet
  <2> QED
    BY <2>1, <2>2
<1>7. ASSUME UniqueRules(s) PROVE UniqueRules(r)
  <2> SUFFICES ASSUME NEW k \in DOMAIN r, NEW l \in DOMAIN r, r[k].rule = r[l].rule PROVE k = l
    BY DEF UniqueRules
  <2>1. p[k] = p[l] /\ p[k] \in Nat
    BY <1>4, <1>5, <1>7 DEF UniqueRules
  <2>2. ~(k < l) /\ ~(l < k)
    BY <1>1, <1>2, <2>1
  <2> QED
    BY <1>2, <2>2
<1>8. \A k, l \in DOMAIN r : k < l => \E i, j \in DOMAIN s : i < j /\ s[i] = r[k] /\ s[j] = r[l]
  BY <1>1, <1>2, <1>5
<1> QED
  BY <1>2, <1>6, <1>7, <1>8 DEF r

(* A step that removes a rule from the table, and from the list if it is of *)
(* its kind, leaves the list sorted.                                        *)
LEMMA WithoutSorted ==
  ASSUME NEW rows \in Seq(Entries), NEW list, NEW o, SortedOf(list, rows, o), NEW r
  PROVE  /\ SortedOf(Without(list, r), Without(rows, r), o)
         /\ r.object # o => SortedOf(list, Without(rows, r), o)
<1> DEFINE S == {e \in ToSet(rows) : e.rule # r}
           U == {e \in ToSet(list) : e.rule # r}
<1>1. list \in Seq(Entries) /\ Without(rows, r) = Retain(rows, S) /\ Without(list, r) = Retain(list, U)
  BY DEF SortedOf, Without
<1>2. \A e : e \in ToSet(Without(rows, r)) <=> e \in ToSet(rows) /\ e.rule # r
  BY <1>1, RetainRules
<1>3. \A e : e \in ToSet(Without(list, r)) <=> e \in ToSet(list) /\ e.rule # r
  BY <1>1, RetainRules
<1>4. Without(list, r) \in Seq(Entries)
  BY <1>1, RetainRules
<1>5. \A x \in S, y \in S : Ahead(rows, x, y) => Ahead(Without(rows, r), x, y)
  <2>1. \A x \in S, y \in S : Earlier(Retain(rows, S), x, y) <=> Earlier(rows, x, y)
    BY RetainEarlier
  <2> HIDE DEF S
  <2> QED
    BY <1>1, <2>1 DEF Ahead
<1>6. \A e : e \in ToSet(list) <=> e \in ToSet(rows) /\ e.rule.object = o
  BY DEF SortedOf
<1>7. \A k \in DOMAIN list : list[k] \in ToSet(list) /\ list[k] \in ToSet(rows) /\ list[k].rule.object = o
  <2>1. \A k \in DOMAIN list : list[k] \in ToSet(list)
    BY DEF ToSet
  <2> QED
    BY <1>6, <2>1
<1>8. SortedOf(Without(list, r), Without(rows, r), o)
  <2>1. ASSUME NEW k \in DOMAIN Without(list, r), NEW l \in DOMAIN Without(list, r), k < l
        PROVE  Ahead(Without(rows, r), Without(list, r)[k], Without(list, r)[l])
    <3> DEFINE x == Without(list, r)[k]
               y == Without(list, r)[l]
    <3>1. PICK i, j \in DOMAIN list : i < j /\ list[i] = x /\ list[j] = y
      <4>1. \A a, b \in DOMAIN Retain(list, U) : a < b =>
              \E i, j \in DOMAIN list : i < j /\ list[i] = Retain(list, U)[a] /\ list[j] = Retain(list, U)[b]
        BY <1>1, RetainRules
      <4> HIDE DEF U
      <4> QED
        BY <1>1, <2>1, <4>1
    <3>2. x \in ToSet(Without(list, r)) /\ y \in ToSet(Without(list, r))
      BY DEF ToSet
    <3>3. x \in S /\ y \in S
      BY <1>3, <1>6, <3>2
    <3>4. Ahead(rows, x, y)
      BY <3>1 DEF SortedOf
    <3> QED
      BY <1>5, <3>3, <3>4
  <2>2. \A e : e \in ToSet(Without(list, r)) <=> e \in ToSet(Without(rows, r)) /\ e.rule.object = o
    BY <1>2, <1>3, <1>6
  <2> QED
    BY <1>4, <2>1, <2>2 DEF SortedOf
<1>9. ASSUME r.object # o PROVE SortedOf(list, Without(rows, r), o)
  <2>1. \A e : e.rule.object = o => e.rule # r
    BY <1>9
  <2>2. \A e : e \in ToSet(list) <=> e \in ToSet(Without(rows, r)) /\ e.rule.object = o
    BY <1>2, <1>6, <2>1
  <2>3. \A k \in DOMAIN list : list[k] \in S
    BY <1>7, <2>1
  <2>4. \A k, l \in DOMAIN list : k < l => Ahead(Without(rows, r), list[k], list[l])
    BY <1>5, <2>3 DEF SortedOf
  <2> QED
    BY <1>1, <2>2, <2>4 DEF SortedOf
<1> QED
  BY <1>8, <1>9

(* The last element of a list.                                              *)
LEMMA AppendRules ==
  ASSUME NEW s \in Seq(Entries), NEW e \in Entries
  PROVE  /\ Append(s, e) \in Seq(Entries)
         /\ \A x : x \in ToSet(Append(s, e)) <=> x \in ToSet(s) \/ x = e
         /\ \A x, y : Earlier(s, x, y) => Earlier(Append(s, e), x, y)
         /\ \A x \in ToSet(s) : Earlier(Append(s, e), x, e)
         /\ \A x, y : Earlier(Append(s, e), x, y) => Earlier(s, x, y) \/ (x \in ToSet(s) /\ y = e)
<1> DEFINE a == Append(s, e)
           n == Len(s)
<1>1. n \in Nat /\ DOMAIN s = 1 .. n /\ a \in Seq(Entries) /\ DOMAIN a = 1 .. n + 1
        /\ a[n + 1] = e /\ \A i \in 1 .. n : a[i] = s[i]
  OBVIOUS
<1> HIDE DEF a, n
<1>2. \A x : x \in ToSet(s) <=> \E i \in 1 .. n : s[i] = x
  BY <1>1 DEF ToSet
<1>3. \A x : x \in ToSet(a) <=> \E i \in 1 .. n + 1 : a[i] = x
  BY <1>1 DEF ToSet
<1>4. \A x : x \in ToSet(a) <=> x \in ToSet(s) \/ x = e
  BY <1>1, <1>2, <1>3
<1>5. \A x, y : Earlier(s, x, y) => Earlier(a, x, y)
  BY <1>1 DEF Earlier
<1>6. \A x \in ToSet(s) : Earlier(a, x, e)
  BY <1>1, <1>2 DEF Earlier
<1>7. ASSUME NEW x, NEW y, Earlier(a, x, y) PROVE Earlier(s, x, y) \/ (x \in ToSet(s) /\ y = e)
  <2>1. PICK i, j \in 1 .. n + 1 : i < j /\ a[i] = x /\ a[j] = y
    BY <1>1, <1>7 DEF Earlier
  <2>2. i \in 1 .. n /\ s[i] = x /\ x \in ToSet(s)
    BY <1>1, <1>2, <2>1
  <2>3. CASE j = n + 1
    BY <1>1, <2>1, <2>2, <2>3
  <2>4. CASE j # n + 1
    <3>1. j \in 1 .. n /\ s[j] = y
      BY <1>1, <2>1, <2>4
    <3> QED
      BY <1>1, <2>1, <2>2, <3>1 DEF Earlier
  <2> QED
    BY <2>3, <2>4
<1> QED
  BY <1>1, <1>4, <1>5, <1>6, <1>7 DEF a

(* A rule that is stored last is sorted after its equals.                   *)
LEMMA PushSorted ==
  ASSUME NEW rows \in Seq(Entries), NEW list, NEW o, SortedOf(list, rows, o), NEW e \in Entries
  PROVE  /\ e.rule.object = o => SortedOf(SortByPrecision(Append(list, e)), Append(rows, e), o)
         /\ e.rule.object # o => SortedOf(list, Append(rows, e), o)
<1> DEFINE new == Append(rows, e)
           a == Append(list, e)
           t == SortByPrecision(a)
<1>1. list \in Seq(Entries) /\ (\A x : x \in ToSet(list) <=> x \in ToSet(rows) /\ x.rule.object = o)
        /\ (\A k, l \in DOMAIN list : k < l => Ahead(rows, list[k], list[l]))
  BY DEF SortedOf
<1>2. /\ new \in Seq(Entries) /\ (\A x : x \in ToSet(new) <=> x \in ToSet(rows) \/ x = e)
      /\ (\A x, y : Earlier(rows, x, y) => Earlier(new, x, y))
      /\ (\A x \in ToSet(rows) : Earlier(new, x, e))
  BY AppendRules
<1>3. /\ a \in Seq(Entries) /\ (\A x : x \in ToSet(a) <=> x \in ToSet(list) \/ x = e)
      /\ (\A x, y : Earlier(a, x, y) => Earlier(list, x, y) \/ (x \in ToSet(list) /\ y = e))
  BY <1>1, AppendRules
<1>4. t \in Seq(Entries) /\ ToSet(t) = ToSet(a) /\ \A k, l \in DOMAIN t : k < l => Ahead(a, t[k], t[l])
  BY <1>3, SortIs
<1> HIDE DEF new, a, t
<1>5. \A x, y : Ahead(rows, x, y) => Ahead(new, x, y)
  BY <1>2 DEF Ahead
<1>6. ASSUME e.rule.object # o PROVE SortedOf(list, new, o)
  BY <1>1, <1>2, <1>5, <1>6 DEF SortedOf
<1>7. ASSUME e.rule.object = o PROVE SortedOf(t, new, o)
  <2>1. \A x : x \in ToSet(t) <=> x \in ToSet(new) /\ x.rule.object = o
    BY <1>1, <1>2, <1>3, <1>4, <1>7
  <2>2. ASSUME NEW x, NEW y, Ahead(a, x, y), x \in ToSet(a), y \in ToSet(a) PROVE Ahead(new, x, y)
    <3>1. CASE PrecisionOf(x) > PrecisionOf(y)
      BY <3>1 DEF Ahead
    <3>2. CASE ~(PrecisionOf(x) > PrecisionOf(y))
      <4>1. PrecisionOf(x) = PrecisionOf(y) /\ Earlier(a, x, y)
        BY <2>2, <3>2 DEF Ahead
      <4>2. CASE Earlier(list, x, y)
        <5>1. Ahead(rows, x, y)
          BY <1>1, <4>2 DEF Earlier
        <5> QED
          BY <1>5, <5>1
      <4>3. CASE x \in ToSet(list) /\ y = e
        <5>1. Earlier(new, x, y)
          BY <1>1, <1>2, <4>3
        <5> QED
          BY <4>1, <5>1 DEF Ahead
      <4> QED
        BY <1>3, <4>1, <4>2, <4>3
    <3> QED
      BY <3>1, <3>2
  <2>3. \A k, l \in DOMAIN t : k < l => Ahead(new, t[k], t[l])
    <3>1. \A k \in DOMAIN t : t[k] \in ToSet(a)
      BY <1>4 DEF ToSet
    <3> QED
      BY <1>4, <2>2, <3>1
  <2> QED
    BY <1>4, <2>1, <2>3 DEF SortedOf
<1> QED
  BY <1>6, <1>7 DEF new, a, t

(* RuleSet::load sorts the stored rules of each kind.                       *)
LEMMA LoadSorted ==
  ASSUME NEW rows \in Seq(Entries), NEW o \in Objects
  PROVE  SortedOf(Load(rows)[o], rows, o)
<1> DEFINE S == {e \in ToSet(rows) : e.rule.object = o}
           m == Retain(rows, S)
           t == SortByPrecision(m)
<1>1. Load(rows)[o] = t
  BY DEF Load, OfKind
<1>2. m \in Seq(Entries) /\ \A e : e \in ToSet(m) <=> e \in ToSet(rows) /\ e \in S
  BY RetainRules
<1>3. t \in Seq(Entries) /\ ToSet(t) = ToSet(m) /\ \A k, l \in DOMAIN t : k < l => Ahead(m, t[k], t[l])
  BY <1>2, SortIs
<1>4. \A x \in S, y \in S : Earlier(m, x, y) => Earlier(rows, x, y)
  BY RetainEarlier
<1>5. \A e : e \in S <=> e \in ToSet(rows) /\ e.rule.object = o
  OBVIOUS
<1> HIDE DEF m, t, S
<1>6. \A k \in DOMAIN t : t[k] \in S
  <2>1. \A k \in DOMAIN t : t[k] \in ToSet(t)
    BY DEF ToSet
  <2> QED
    BY <1>2, <1>3, <2>1
<1>7. \A k, l \in DOMAIN t : k < l => Ahead(rows, t[k], t[l])
  BY <1>3, <1>4, <1>6 DEF Ahead
<1>8. \A e : e \in ToSet(t) <=> e \in ToSet(rows) /\ e.rule.object = o
  BY <1>2, <1>3, <1>5
<1>9. SortedOf(t, rows, o)
  BY <1>3, <1>7, <1>8 DEF SortedOf
<1> QED
  BY <1>1, <1>9

(* Rules that are stored once are strictly ordered.                         *)
LEMMA AheadStrict ==
  ASSUME NEW rows \in Seq(Entries), UniqueRules(rows)
  PROVE  /\ \A x : ~Earlier(rows, x, x)
         /\ \A x, y, z : Earlier(rows, x, y) /\ Earlier(rows, y, z) => Earlier(rows, x, z)
         /\ \A x, y \in ToSet(rows) : x = y \/ Earlier(rows, x, y) \/ Earlier(rows, y, x)
<1>1. \A i, j \in DOMAIN rows : rows[i] = rows[j] => i = j
  BY DEF UniqueRules
<1>2. \A i \in DOMAIN rows : i \in Nat
  OBVIOUS
<1>3. \A x : ~Earlier(rows, x, x)
  BY <1>1, <1>2 DEF Earlier
<1>4. ASSUME NEW x, NEW y, NEW z, Earlier(rows, x, y), Earlier(rows, y, z) PROVE Earlier(rows, x, z)
  <2>1. PICK i, j \in DOMAIN rows : i < j /\ rows[i] = x /\ rows[j] = y
    BY <1>4 DEF Earlier
  <2>2. PICK k, l \in DOMAIN rows : k < l /\ rows[k] = y /\ rows[l] = z
    BY <1>4 DEF Earlier
  <2>3. j = k
    BY <1>1, <2>1, <2>2
  <2>4. i < l
    BY <1>2, <2>1, <2>2, <2>3
  <2> QED
    BY <2>1, <2>2, <2>4 DEF Earlier
<1>5. ASSUME NEW x \in ToSet(rows), NEW y \in ToSet(rows)
      PROVE  x = y \/ Earlier(rows, x, y) \/ Earlier(rows, y, x)
  <2>1. PICK i \in DOMAIN rows : rows[i] = x
    BY DEF ToSet
  <2>2. PICK j \in DOMAIN rows : rows[j] = y
    BY DEF ToSet
  <2>3. i = j \/ i < j \/ j < i
    BY <1>2
  <2> QED
    BY <2>1, <2>2, <2>3 DEF Earlier
<1> QED
  BY <1>3, <1>4, <1>5

(* A list has finitely many elements.                                       *)
LEMMA ToSetFinite ==
  ASSUME NEW T, NEW s \in Seq(T)
  PROVE  IsFiniteSet(ToSet(s))
<1> DEFINE f == [i \in DOMAIN s |-> s[i]]
<1>1. f \in [DOMAIN s -> ToSet(s)] /\ \A x \in ToSet(s) : \E i \in DOMAIN s : f[i] = x
  BY DEF ToSet
<1>2. f \in Surjection(DOMAIN s, ToSet(s))
  BY <1>1 DEF Surjection
<1>3. DOMAIN s = 1 .. Len(s) /\ Len(s) \in Nat
  OBVIOUS
<1>4. IsFiniteSet(DOMAIN s)
  BY <1>3, FS_Interval
<1> QED
  BY <1>2, <1>4, FS_Surjection

(* There is one sorted list.                                                *)
LEMMA SortedOnce ==
  ASSUME NEW rows \in Seq(Entries), UniqueRules(rows), NEW o,
         NEW list, SortedOf(list, rows, o), NEW other, SortedOf(other, rows, o)
  PROVE  list = other
<1> DEFINE E == {e \in ToSet(rows) : e.rule.object = o}
           R == {x \in E \X E : Ahead(rows, x[1], x[2])}
<1>1. \A e \in E : e \in ToSet(rows) /\ e \in Entries /\ PrecisionOf(e) \in Nat
  <2>1. \A e \in ToSet(rows) : e \in Entries
    BY DEF ToSet
  <2> QED
    BY <2>1, PrecisionNat
<1>2. \A x, y \in E : <<x, y>> \in R <=> Ahead(rows, x, y)
  OBVIOUS
<1>3. IsFiniteSet(E)
  <2>1. E \in SUBSET ToSet(rows)
    OBVIOUS
  <2> QED
    BY <2>1, ToSetFinite, FS_Subset
<1>4. \A e : e \in E <=> e \in ToSet(rows) /\ e.rule.object = o
  OBVIOUS
<1> HIDE DEF E, R
<1>5. StrictOrder(E, R)
  <2>1. \A x \in E : <<x, x>> \notin R
    BY <1>1, <1>2, AheadStrict DEF Ahead
  <2>2. \A x, y, z \in E : <<x, y>> \in R /\ <<y, z>> \in R => <<x, z>> \in R
    <3> SUFFICES ASSUME NEW x \in E, NEW y \in E, NEW z \in E, Ahead(rows, x, y), Ahead(rows, y, z)
                 PROVE  Ahead(rows, x, z)
      BY <1>2
    <3>1. PrecisionOf(x) \in Nat /\ PrecisionOf(y) \in Nat /\ PrecisionOf(z) \in Nat
      BY <1>1
    <3>2. Earlier(rows, x, y) /\ Earlier(rows, y, z) => Earlier(rows, x, z)
      BY AheadStrict
    <3> QED
      BY <3>1, <3>2 DEF Ahead
  <2>3. \A x, y \in E : x = y \/ <<x, y>> \in R \/ <<y, x>> \in R
    <3> TAKE x, y \in E
    <3>1. PrecisionOf(x) \in Nat /\ PrecisionOf(y) \in Nat
      BY <1>1
    <3>2. x = y \/ Earlier(rows, x, y) \/ Earlier(rows, y, x)
      BY <1>1, AheadStrict
    <3>3. x = y \/ Ahead(rows, x, y) \/ Ahead(rows, y, x)
      BY <3>1, <3>2 DEF Ahead
    <3> QED
      BY <1>2, <3>3
  <2> QED
    BY <2>1, <2>2, <2>3 DEF StrictOrder
<1>6. ASSUME NEW L, SortedOf(L, rows, o) PROVE Enumerates(L, E, R)
  <2>1. L \in Seq(Entries) /\ DOMAIN L = 1 .. Len(L) /\ Len(L) \in Nat
    BY <1>6 DEF SortedOf
  <2>2. \A e : e \in E <=> \E k \in 1 .. Len(L) : L[k] = e
    <3>1. \A e : e \in ToSet(L) <=> e \in E
      BY <1>4, <1>6 DEF SortedOf
    <3>2. \A e : e \in ToSet(L) <=> \E k \in 1 .. Len(L) : L[k] = e
      BY <2>1 DEF ToSet
    <3> QED
      BY <3>1, <3>2
  <2>3. \A k, l \in 1 .. Len(L) : k < l => <<L[k], L[l]>> \in R
    <3> SUFFICES ASSUME NEW k \in 1 .. Len(L), NEW l \in 1 .. Len(L), k < l
                 PROVE  <<L[k], L[l]>> \in R
      OBVIOUS
    <3>1. L[k] \in E /\ L[l] \in E
      BY <2>2
    <3>2. Ahead(rows, L[k], L[l])
      BY <1>6, <2>1 DEF SortedOf
    <3> QED
      BY <1>2, <3>1, <3>2
  <2>4. \A k, l \in 1 .. Len(L) : L[k] = L[l] => k = l
    <3> TAKE k, l \in 1 .. Len(L)
    <3>1. L[k] \in E /\ L[l] \in E
      BY <2>2
    <3>2. (k < l => L[k] # L[l]) /\ (l < k => L[k] # L[l])
      BY <1>5, <2>3, <3>1 DEF StrictOrder
    <3> QED
      BY <2>1, <3>2
  <2>5. L \in [1 .. Len(L) -> E]
    BY <2>1, <2>2
  <2>6. ExistsBijection(1 .. Len(L), E)
    BY <2>2, <2>4, <2>5 DEF ExistsBijection, Bijection, Injection, Surjection, IsInjective
  <2>7. Cardinality(E) = Len(L)
    BY <2>1, <2>6, FS_CountingElements
  <2> QED
    BY <2>1, <2>2, <2>3, <2>5, <2>7 DEF Enumerates
<1>7. Enumerates(list, E, R) /\ Enumerates(other, E, R)
  BY <1>6
<1> QED
  BY <1>3, <1>5, <1>7, OneList

-----------------------------------------------------------------------------
(* Autonoscope: the rules in memory and in the table.                       *)

(* Every rule of the list is stored, and the list has it once.              *)
Applied(list, rows) == ToSet(list) \subseteq ToSet(rows) /\ UniqueRules(list)

RulesTypeOK ==
  /\ table \in Seq(Entries)
  /\ rules \in [Objects -> Seq(Entries)]
  /\ todo = NoRule \/ \E e \in Entries : todo = [object |-> e.rule.object, entry |-> e]
  /\ torn \in BOOLEAN /\ behind \in BOOLEAN

OneKind == \A o \in Objects : \A e \in ToSet(rules[o]) : e.rule.object = o
AllApplied == ~behind => \A o \in Objects : Applied(rules[o], table)
AllSorted == ~torn /\ ~behind => \A o \in Objects : SortedOf(rules[o], table, o)

RulesInv == RulesTypeOK /\ UniqueRules(table) /\ OneKind /\ AllApplied /\ AllSorted

(* Parsing keeps the kind of a rule.                                        *)
LEMMA EntryIs ==
  ASSUME NEW r \in Inputs, NEW scoped \in BOOLEAN
  PROVE  Entry(r, scoped) \in Entries /\ Entry(r, scoped).rule.object = r.object
<1>1. r \in Rules
  BY AutonoscopeAssumption
<1>2. Parsed(r) \in Rules /\ Parsed(r).object = r.object
  BY <1>1 DEF Parsed, Rules, Forms
<1> QED
  BY <1>2 DEF Entry, Entries

(* A sorted list of the rows holds only rows, each once.                    *)
LEMMA SortedApplied ==
  ASSUME NEW rows \in Seq(Entries), UniqueRules(rows), NEW list, NEW o, SortedOf(list, rows, o)
  PROVE  Applied(list, rows) /\ \A e \in ToSet(list) : e.rule.object = o
<1>1. \A e \in ToSet(list) : e \in ToSet(rows) /\ e.rule.object = o
  BY DEF SortedOf
<1>2. list \in Seq(Entries) /\ \A k \in DOMAIN list : k \in Nat /\ list[k] \in ToSet(list)
  BY DEF SortedOf, ToSet
<1>3. \A x, y \in ToSet(rows) : x.rule = y.rule => x = y
  BY DEF ToSet, UniqueRules
<1>4. UniqueRules(list)
  <2> SUFFICES ASSUME NEW k \in DOMAIN list, NEW l \in DOMAIN list, list[k].rule = list[l].rule,
                      k < l
               PROVE  FALSE
    BY <1>2 DEF UniqueRules
  <2>1. list[k] = list[l]
    BY <1>1, <1>2, <1>3
  <2>2. Ahead(rows, list[k], list[k])
    BY <2>1 DEF SortedOf
  <2>3. PrecisionOf(list[k]) \in Nat
    BY <1>2, PrecisionNat
  <2> QED
    BY <2>2, <2>3, AheadStrict DEF Ahead
<1> QED
  BY <1>1, <1>4 DEF Applied

(* What is left when a rule is removed.                                     *)
LEMMA WithoutIs ==
  ASSUME NEW s \in Seq(Entries), NEW r
  PROVE  /\ Without(s, r) \in Seq(Entries)
         /\ \A e : e \in ToSet(Without(s, r)) <=> e \in ToSet(s) /\ e.rule # r
         /\ UniqueRules(s) => UniqueRules(Without(s, r))
<1> DEFINE S == {e \in ToSet(s) : e.rule # r}
<1>1. Without(s, r) = Retain(s, S)
  BY DEF Without
<1>2. \A e : e \in S <=> e \in ToSet(s) /\ e.rule # r
  OBVIOUS
<1> HIDE DEF S
<1> QED
  BY <1>1, <1>2, RetainRules

(* The invariant holds after the first load.                                *)
LEMMA RulesInitOK == Init => RulesInv
<1> SUFFICES ASSUME Init PROVE RulesInv
  OBVIOUS
<1>1. table \in Seq(Entries) /\ UniqueRules(table)
  BY DEF Init, UniqueRules
<1>2. \A o \in Objects : SortedOf(rules[o], table, o)
  BY <1>1, LoadSorted DEF Init
<1>3. \A o \in Objects : Applied(rules[o], table) /\ \A e \in ToSet(rules[o]) : e.rule.object = o
  BY <1>1, <1>2, SortedApplied
<1>4. rules \in [Objects -> Seq(Entries)]
  <2>1. rules = [o \in Objects |-> rules[o]]
    BY DEF Init, Load
  <2>2. \A o \in Objects : rules[o] \in Seq(Entries)
    BY <1>2 DEF SortedOf
  <2> QED
    BY <2>1, <2>2
<1>5. RulesTypeOK
  BY <1>1, <1>4 DEF RulesTypeOK, Init
<1> QED
  BY <1>1, <1>2, <1>3, <1>5 DEF RulesInv, OneKind, AllApplied, AllSorted

(* A restart loads the table, sorted.                                       *)
LEMMA RestartOK == RulesInv /\ Restart => RulesInv'
<1> SUFFICES ASSUME RulesInv, Restart PROVE RulesInv'
  OBVIOUS
<1>1. table \in Seq(Entries) /\ UniqueRules(table) /\ table' = table /\ rules' = Load(table)
        /\ todo' = NoRule /\ torn' = FALSE /\ behind' = FALSE
  BY DEF RulesInv, RulesTypeOK, Restart
<1>2. \A o \in Objects : SortedOf(rules'[o], table, o)
  BY <1>1, LoadSorted
<1>3. \A o \in Objects : Applied(rules'[o], table) /\ \A e \in ToSet(rules'[o]) : e.rule.object = o
  BY <1>1, <1>2, SortedApplied
<1>4. rules' \in [Objects -> Seq(Entries)]
  <2>1. rules' = [o \in Objects |-> rules'[o]]
    BY <1>1 DEF Load
  <2>2. \A o \in Objects : rules'[o] \in Seq(Entries)
    BY <1>2 DEF SortedOf
  <2> QED
    BY <2>1, <2>2
<1>5. RulesTypeOK'
  BY <1>1, <1>4 DEF RulesTypeOK
<1> QED
  BY <1>1, <1>2, <1>3, <1>5 DEF RulesInv, OneKind, AllApplied, AllSorted

(* The deletion that begins every command keeps the invariant.              *)
LEMMA CommandOK ==
  ASSUME RulesInv, NEW r \in Inputs, NEW ok \in BOOLEAN, Command(r, ok)
  PROVE  RulesInv'
<1>1. r.object \in Objects /\ behind' = behind /\ torn' = (torn \/ ~ok)
        /\ rules' = [rules EXCEPT ![r.object] = Without(rules[r.object], r)]
        /\ table' = (IF ok THEN Without(table, r) ELSE table)
        /\ (todo' = todo \/ \E scoped \in BOOLEAN : Adds(r, scoped))
  BY AutonoscopeAssumption DEF Command, DeleteRule, Rules
<1>2. table \in Seq(Entries) /\ UniqueRules(table) /\ table' \in Seq(Entries) /\ UniqueRules(table')
  BY <1>1, WithoutIs DEF RulesInv, RulesTypeOK
<1>3. rules \in [Objects -> Seq(Entries)] /\ DOMAIN rules = Objects
  BY DEF RulesInv, RulesTypeOK
<1>4. /\ rules'[r.object] = Without(rules[r.object], r)
      /\ \A o \in Objects : o # r.object => rules'[o] = rules[o]
  BY <1>1, <1>3
<1>5. RulesTypeOK'
  <2>1. rules' \in [Objects -> Seq(Entries)]
    BY <1>1, <1>3, WithoutIs
  <2>2. todo' = NoRule \/ \E e \in Entries : todo' = [object |-> e.rule.object, entry |-> e]
    BY <1>1, EntryIs DEF RulesInv, RulesTypeOK, Adds
  <2>3. torn' \in BOOLEAN /\ behind' \in BOOLEAN
    BY <1>1 DEF RulesInv, RulesTypeOK
  <2> QED
    BY <1>2, <2>1, <2>2, <2>3 DEF RulesTypeOK
<1>6. OneKind'
  BY <1>1, <1>3, <1>4, WithoutIs DEF RulesInv, OneKind
<1>7. AllApplied'
  <2> SUFFICES ASSUME ~behind, NEW o \in Objects PROVE Applied(rules'[o], table')
    BY <1>1 DEF AllApplied
  <2>1. Applied(rules[o], table) /\ rules[o] \in Seq(Entries)
    BY <1>3 DEF RulesInv, AllApplied
  <2>2. \A e \in ToSet(rules[o]) : e.rule.object = o
    BY DEF RulesInv, OneKind
  <2>3. \A e \in ToSet(rules'[o]) : e \in ToSet(rules[o]) /\ e.rule # r
    <3>1. CASE o = r.object
      BY <1>4, <2>1, <3>1, WithoutIs
    <3>2. CASE o # r.object
      BY <1>4, <2>2, <3>2
    <3> QED
      BY <3>1, <3>2
  <2>4. UniqueRules(rules'[o])
    BY <1>4, <2>1, WithoutIs DEF Applied
  <2>5. \A e : e \in ToSet(table) /\ e.rule # r => e \in ToSet(table')
    BY <1>1, <1>2, WithoutIs
  <2> QED
    BY <2>1, <2>3, <2>4, <2>5 DEF Applied
<1>8. AllSorted'
  <2> SUFFICES ASSUME ~torn', ~behind', NEW o \in Objects PROVE SortedOf(rules'[o], table', o)
    BY DEF AllSorted
  <2>1. ok /\ ~torn /\ ~behind
    BY <1>1
  <2>2. SortedOf(rules[o], table, o)
    BY <2>1 DEF RulesInv, AllSorted
  <2>3. table' = Without(table, r)
    BY <1>1, <2>1
  <2>4. CASE o = r.object
    BY <1>2, <1>4, <2>2, <2>3, <2>4, WithoutSorted
  <2>5. CASE o # r.object
    BY <1>2, <1>4, <2>2, <2>3, <2>5, WithoutSorted
  <2> QED
    BY <2>4, <2>5
<1> QED
  BY <1>2, <1>5, <1>6, <1>7, <1>8 DEF RulesInv

(* The insert that ends an add keeps the invariant, also when it fails.     *)
LEMMA InsertOK == RulesInv /\ Insert => RulesInv'
<1> SUFFICES ASSUME RulesInv, Insert PROVE RulesInv'
  OBVIOUS
<1>1. PICK e \in Entries : todo = [object |-> e.rule.object, entry |-> e]
  BY DEF RulesInv, RulesTypeOK, Insert
<1> DEFINE k == e.rule.object
           list == SortByPrecision(Append(rules[k], e))
<1>2. k \in Objects /\ todo.entry = e /\ todo.object = k /\ todo' = NoRule /\ torn' = torn /\ behind' = behind
  BY <1>1 DEF Insert, DbAdd, Entries, Rules
<1>3. table \in Seq(Entries) /\ UniqueRules(table) /\ rules \in [Objects -> Seq(Entries)]
  BY DEF RulesInv, RulesTypeOK
<1>4. CASE rules' = rules /\ table' = table
  BY <1>2, <1>4 DEF RulesInv, RulesTypeOK, OneKind, AllApplied, AllSorted
<1>5. CASE /\ ~(\E i \in DOMAIN table : table[i].rule = e.rule)
           /\ table' = Append(table, e)
           /\ rules' = [rules EXCEPT ![k] = list]
  <2>1. /\ table' \in Seq(Entries) /\ \A x : x \in ToSet(table') <=> x \in ToSet(table) \/ x = e
    BY <1>3, <1>5, AppendRules
  <2>2. \A x \in ToSet(table) : x.rule # e.rule
    BY <1>5 DEF ToSet
  <2>3. ASSUME NEW s \in Seq(Entries), UniqueRules(s), \A x \in ToSet(s) : x.rule # e.rule
        PROVE  UniqueRules(Append(s, e))
    <3>1. \A i \in 1 .. Len(s) : Append(s, e)[i] = s[i] /\ s[i].rule # e.rule
      BY <2>3 DEF ToSet
    <3>2. Append(s, e)[Len(s) + 1] = e /\ DOMAIN Append(s, e) = 1 .. Len(s) + 1 /\ Len(s) \in Nat
      OBVIOUS
    <3>3. \A i, j \in 1 .. Len(s) : s[i].rule = s[j].rule => i = j
      BY <2>3 DEF UniqueRules
    <3> QED
      BY <3>1, <3>2, <3>3 DEF UniqueRules
  <2>4. UniqueRules(table')
    BY <1>3, <1>5, <2>2, <2>3
  <2>5. rules[k] \in Seq(Entries) /\ Append(rules[k], e) \in Seq(Entries)
          /\ \A x : x \in ToSet(Append(rules[k], e)) <=> x \in ToSet(rules[k]) \/ x = e
    BY <1>2, <1>3, AppendRules
  <2>6. list \in Seq(Entries) /\ (\A x : x \in ToSet(list) <=> x \in ToSet(rules[k]) \/ x = e)
          /\ (UniqueRules(Append(rules[k], e)) => UniqueRules(list))
    BY <2>5, SortIs
  <2>7. rules'[k] = list /\ \A o \in Objects : o # k => rules'[o] = rules[o]
    BY <1>2, <1>3, <1>5
  <2>8. RulesTypeOK'
    <3>1. rules' \in [Objects -> Seq(Entries)]
      BY <1>3, <1>5, <2>6
    <3> QED
      BY <1>2, <2>1, <3>1 DEF RulesInv, RulesTypeOK
  <2>9. OneKind'
    BY <2>6, <2>7 DEF RulesInv, OneKind
  <2>10. AllApplied'
    <3> SUFFICES ASSUME ~behind, NEW o \in Objects PROVE Applied(rules'[o], table')
      BY <1>2 DEF AllApplied
    <3>1. Applied(rules[o], table) /\ Applied(rules[k], table)
      BY <1>2 DEF RulesInv, AllApplied
    <3>2. CASE o = k
      <4>1. UniqueRules(Append(rules[k], e))
        BY <2>2, <2>3, <2>5, <3>1 DEF Applied
      <4> QED
        BY <2>1, <2>6, <2>7, <3>1, <3>2, <4>1 DEF Applied
    <3>3. CASE o # k
      BY <2>1, <2>7, <3>1, <3>3 DEF Applied
    <3> QED
      BY <3>2, <3>3
  <2>11. AllSorted'
    <3> SUFFICES ASSUME ~torn, ~behind, NEW o \in Objects PROVE SortedOf(rules'[o], table', o)
      BY <1>2 DEF AllSorted
    <3>1. SortedOf(rules[o], table, o)
      BY DEF RulesInv, AllSorted
    <3>2. CASE o = k
      BY <1>3, <1>5, <2>7, <3>1, <3>2, PushSorted
    <3>3. CASE o # k
      BY <1>3, <1>5, <2>7, <3>1, <3>3, PushSorted
    <3> QED
      BY <3>2, <3>3
  <2> QED
    BY <2>4, <2>8, <2>9, <2>10, <2>11 DEF RulesInv
<1> QED
  BY <1>1, <1>2, <1>4, <1>5 DEF Insert, DbAdd, Pushed

(* What another process does to the table keeps the invariant.              *)
LEMMA OtherOK ==
  ASSUME RulesInv, NEW r \in Foreign,
         OtherDeletes(r) \/ \E scoped \in BOOLEAN : OtherInserts(r, scoped)
  PROVE  RulesInv'
<1>1. rules' = rules /\ todo' = todo /\ torn' = torn
  BY DEF OtherDeletes, OtherInserts
<1>2. table \in Seq(Entries) /\ UniqueRules(table)
  BY DEF RulesInv, RulesTypeOK
<1>3. CASE OtherDeletes(r)
  <2>1. table' \in Seq(Entries) /\ UniqueRules(table')
    BY <1>2, <1>3, WithoutIs DEF OtherDeletes
  <2>2. behind' \in BOOLEAN /\ (~behind' => ~behind /\ table' = table)
    BY <1>3 DEF OtherDeletes
  <2>3. RulesTypeOK' /\ OneKind'
    BY <1>1, <2>1, <2>2 DEF RulesInv, RulesTypeOK, OneKind
  <2>4. AllApplied' /\ AllSorted'
    BY <1>1, <2>2 DEF RulesInv, AllApplied, AllSorted
  <2> QED
    BY <2>1, <2>3, <2>4 DEF RulesInv
<1>4. CASE \E scoped \in BOOLEAN : OtherInserts(r, scoped)
  <2>1. PICK scoped \in BOOLEAN : OtherInserts(r, scoped)
    BY <1>4
  <2> DEFINE e == Entry(r, scoped)
  <2>2. e \in Entries /\ e.rule = Parsed(r)
    BY AutonoscopeAssumption, EntryIs DEF Entry
  <2>3. table' = Append(table, e) /\ behind' = TRUE /\ \A i \in DOMAIN table : table[i].rule # e.rule
    BY <2>1, <2>2 DEF OtherInserts
  <2> HIDE DEF e
  <2>4. table' \in Seq(Entries)
    BY <1>2, <2>2, <2>3
  <2>5. UniqueRules(table')
    <3>1. \A i \in 1 .. Len(table) : table'[i] = table[i] /\ table[i].rule # e.rule
      BY <1>2, <2>2, <2>3
    <3>2. table'[Len(table) + 1] = e /\ DOMAIN table' = 1 .. Len(table) + 1 /\ Len(table) \in Nat
      BY <1>2, <2>2, <2>3
    <3>3. \A i, j \in 1 .. Len(table) : table[i].rule = table[j].rule => i = j
      BY <1>2 DEF UniqueRules
    <3> QED
      BY <3>1, <3>2, <3>3 DEF UniqueRules
  <2>6. RulesTypeOK' /\ OneKind'
    BY <1>1, <2>3, <2>4 DEF RulesInv, RulesTypeOK, OneKind
  <2>7. AllApplied' /\ AllSorted'
    BY <2>3 DEF AllApplied, AllSorted
  <2> QED
    BY <2>5, <2>6, <2>7 DEF RulesInv
<1> QED
  BY <1>3, <1>4

(* Every step keeps the invariant.                                          *)
LEMMA RulesStep == RulesInv /\ [Next]_vars => RulesInv'
<1> SUFFICES ASSUME RulesInv, [Next]_vars PROVE RulesInv'
  OBVIOUS
<1>1. CASE \E r \in Inputs, ok \in Outcomes : Command(r, ok)
  <2>1. Outcomes \subseteq BOOLEAN
    BY DEF Outcomes
  <2> QED
    BY <1>1, <2>1, CommandOK
<1>2. CASE Insert
  BY <1>2, InsertOK
<1>3. CASE Restart
  BY <1>3, RestartOK
<1>4. CASE \E r \in Foreign : OtherDeletes(r) \/ \E scoped \in BOOLEAN : OtherInserts(r, scoped)
  BY <1>4, OtherOK
<1>5. CASE UNCHANGED vars
  BY <1>5 DEF vars, RulesInv, RulesTypeOK, OneKind, AllApplied, AllSorted
<1> QED
  BY <1>1, <1>2, <1>3, <1>4, <1>5 DEF Next

(* The invariant holds in every reachable state.                            *)
LEMMA RulesInvHolds == Spec => []RulesInv
BY RulesInitOK, RulesStep, PTL DEF Spec

(* Whatever fails and wherever the process ends, a rule that is applied is  *)
(* stored and is in memory once, unless another process has deleted it.     *)
THEOREM AppliedHolds == Spec => []AppliedRulesAreStored
<1>1. RulesInv => AppliedRulesAreStored
  BY DEF RulesInv, AllApplied, Applied, UniqueRules, AppliedRulesAreStored
<1> QED
  BY <1>1, RulesInvHolds, PTL

(* delete_rule, add_rule and sort_rules leave in memory what load would     *)
(* read back from the table.                                                *)
THEOREM RestartHolds == Spec => []RestartChangesNothing
<1>1. RulesInv => RestartChangesNothing
  <2> SUFFICES ASSUME RulesInv, ~torn, ~behind PROVE rules = Load(table)
    BY DEF RestartChangesNothing
  <2>1. table \in Seq(Entries) /\ UniqueRules(table) /\ rules \in [Objects -> Seq(Entries)]
    BY DEF RulesInv, RulesTypeOK
  <2>2. \A o \in Objects : rules[o] = Load(table)[o]
    <3> TAKE o \in Objects
    <3>1. SortedOf(rules[o], table, o)
      BY DEF RulesInv, AllSorted
    <3>2. SortedOf(Load(table)[o], table, o)
      BY <2>1, LoadSorted
    <3> QED
      BY <2>1, <3>1, <3>2, SortedOnce
  <2>3. rules = [o \in Objects |-> rules[o]] /\ Load(table) = [o \in Objects |-> Load(table)[o]]
    BY <2>1 DEF Load
  <2>4. [o \in Objects |-> rules[o]] = [o \in Objects |-> Load(table)[o]]
    BY <2>2
  <2> QED
    BY <2>3, <2>4, Zenon
<1> QED
  BY <1>1, RulesInvHolds, PTL

(* delete_rule removes at most one row and db_add appends one: rows that    *)
(* another process has stored stay.                                         *)
THEOREM OthersKeptHolds == Spec => OthersRulesKept
<1> DEFINE A == /\ Len(table') >= Len(table) - 1
                /\ todo # NoRule /\ todo' # todo => IsPrefix(table, table')
<1>1. RulesInv /\ [Next]_vars => [A]_vars
  <2> SUFFICES ASSUME RulesInv, Next PROVE A
    OBVIOUS
  <2>0. table \in Seq(Entries) /\ UniqueRules(table) /\ Len(table) \in Nat
    BY DEF RulesInv, RulesTypeOK
  <2>1. ASSUME NEW r PROVE Len(Without(table, r)) >= Len(table) - 1
    <3> DEFINE S == {e \in ToSet(table) : e.rule # r}
               H == Hits(table, S)
               D == 1 .. Len(table)
    <3>1. Len(Without(table, r)) = Cardinality(H)
      BY <2>0, RetainIs DEF Without
    <3>2. \A i : i \in H <=> i \in D /\ table[i].rule # r
      BY <2>0 DEF Hits, ToSet
    <3>3. IsFiniteSet(D) /\ Cardinality(D) = Len(table)
      BY <2>0, FS_Interval
    <3> HIDE DEF H, D
    <3>4. CASE \E i \in D : table[i].rule = r
      <4>1. PICK i \in D : table[i].rule = r
        BY <3>4
      <4>2. \A j \in D : table[j].rule = r => j = i
        BY <2>0, <4>1 DEF UniqueRules, D
      <4>3. H = D \ {i}
        BY <3>2, <4>1, <4>2
      <4>4. Cardinality(D \ {i}) = Cardinality(D) - 1
        BY <3>3, <4>1, FS_RemoveElement
      <4> QED
        BY <2>0, <3>1, <3>3, <4>3, <4>4
    <3>5. CASE ~ \E i \in D : table[i].rule = r
      <4>1. H = D
        BY <3>2, <3>5
      <4> QED
        BY <2>0, <3>1, <3>3, <4>1
    <3> QED
      BY <3>4, <3>5
  <2>2. IsPrefix(table, table)
    BY <2>0 DEF IsPrefix
  <2>3. CASE \E r \in Inputs, ok \in Outcomes : Command(r, ok)
    BY <2>0, <2>1, <2>3 DEF Command, DeleteRule
  <2>4. CASE Insert
    <3>1. PICK e \in Entries : todo = [object |-> e.rule.object, entry |-> e]
      BY <2>4 DEF RulesInv, RulesTypeOK, Insert
    <3>2. table' = table \/ table' = Append(table, e)
      BY <2>4, <3>1 DEF Insert, DbAdd
    <3>3. Len(Append(table, e)) = Len(table) + 1 /\ IsPrefix(table, Append(table, e))
      BY <2>0 DEF IsPrefix
    <3>4. Len(table') >= Len(table) - 1 /\ IsPrefix(table, table')
      <4>1. CASE table' = table
        BY <2>0, <2>2, <4>1
      <4>2. CASE table' = Append(table, e)
        BY <2>0, <3>3, <4>2
      <4> QED
        BY <3>2, <4>1, <4>2
    <3> QED
      BY <3>4
  <2>5. CASE Restart
    BY <2>0, <2>2, <2>5 DEF Restart
  <2>6. CASE \E r \in Foreign : OtherDeletes(r) \/ \E scoped \in BOOLEAN : OtherInserts(r, scoped)
    <3>1. PICK r \in Foreign : OtherDeletes(r) \/ \E scoped \in BOOLEAN : OtherInserts(r, scoped)
      BY <2>6
    <3>2. CASE OtherDeletes(r)
      BY <2>1, <3>2 DEF OtherDeletes
    <3>3. CASE \E scoped \in BOOLEAN : OtherInserts(r, scoped)
      <4>1. PICK scoped \in BOOLEAN : OtherInserts(r, scoped)
        BY <3>3
      <4>2. Entry(r, scoped) \in Entries
        BY AutonoscopeAssumption, EntryIs
      <4>3. Len(table') = Len(table) + 1 /\ todo' = todo
        BY <2>0, <4>1, <4>2 DEF OtherInserts
      <4> QED
        BY <2>0, <4>3
    <3> QED
      BY <3>1, <3>2, <3>3
  <2> QED
    BY <2>3, <2>4, <2>5, <2>6 DEF Next
<1>2. RulesInv /\ [Next]_vars => [/\ Len(table') >= Len(table) - 1
                                  /\ todo # NoRule /\ todo' # todo => IsPrefix(table, table')]_vars
  BY <1>1
<1> QED
  BY <1>2, RulesInvHolds, PTL DEF Spec, OthersRulesKept

(* Min is the least element.                                                *)
LEMMA MinIs ==
  ASSUME NEW S \in SUBSET Nat, S # {}
  PROVE  Min(S) \in S /\ \A x \in S : Min(S) <= x
<1>1. \E n \in S : \A m \in S : n <= m
  BY NatMin
<1> QED
  BY <1>1 DEF Min

(* The first match of a sorted list is the oldest of the most precise.      *)
LEMMA FirstMatch ==
  ASSUME NEW t, NEW o, table \in Seq(Entries), UniqueRules(table),
         NEW list, SortedOf(list, table, o)
  PROVE  /\ Stored(o, t) = {} => MatchesAny(list, t) = "none"
         /\ Stored(o, t) # {} => MatchesAny(list, t) = MostSpecific(o, t)
         /\ Stored(o, t) = {} => MostSpecific(o, t) = "scoped"
         /\ MostSpecific(o, t) # "none"
<1> DEFINE hits == {k \in DOMAIN list : RuleMatches(list[k].rule, t)}
           st == Stored(o, t)
           best == {i \in st : \A j \in st : Precision(table[j].rule) <= Precision(table[i].rule)}
<1>1. list \in Seq(Entries) /\ (\A k \in DOMAIN list : k \in Nat)
        /\ (\A k, l \in DOMAIN list : k < l => Ahead(table, list[k], list[l]))
  BY DEF SortedOf
<1>2. \A k \in DOMAIN list : \E i \in DOMAIN table : table[i] = list[k] /\ list[k].rule.object = o
  <2>1. \A k \in DOMAIN list : list[k] \in ToSet(table) /\ list[k].rule.object = o
    BY DEF SortedOf, ToSet
  <2> QED
    BY <2>1 DEF ToSet
<1>3. \A i \in DOMAIN table : table[i].rule.object = o => \E k \in DOMAIN list : list[k] = table[i]
  <2>1. \A i \in DOMAIN table : table[i].rule.object = o => table[i] \in ToSet(list)
    BY DEF SortedOf, ToSet
  <2> QED
    BY <2>1 DEF ToSet
<1>4. \A i : i \in st <=> i \in DOMAIN table /\ table[i].rule.object = o /\ RuleMatches(table[i].rule, t)
  BY DEF Stored
<1>5. \A k : k \in hits <=> k \in DOMAIN list /\ RuleMatches(list[k].rule, t)
  OBVIOUS
<1>6. MatchesAny(list, t) = IF hits = {} THEN "none" ELSE IF list[Min(hits)].scoped THEN "scoped" ELSE "unscoped"
  BY DEF MatchesAny
<1>7. MostSpecific(o, t) = IF st = {} \/ table[Min(best)].scoped THEN "scoped" ELSE "unscoped"
  BY DEF MostSpecific
<1>8. \A i : i \in best <=> i \in st /\ \A j \in st : Precision(table[j].rule) <= Precision(table[i].rule)
  OBVIOUS
<1>9. \A i \in DOMAIN table : i \in Nat /\ table[i] \in Entries /\ PrecisionOf(table[i]) = Precision(table[i].rule)
        /\ PrecisionOf(table[i]) \in Nat
  BY PrecisionNat DEF PrecisionOf
<1> HIDE DEF hits, st, best
<1>10. hits = {} <=> st = {}
  <2>1. \A k \in hits : \E i \in st : TRUE
    BY <1>2, <1>4, <1>5
  <2>2. \A i \in st : \E k \in hits : TRUE
    BY <1>3, <1>4, <1>5
  <2> QED
    BY <2>1, <2>2
<1>11. ASSUME st # {} PROVE list[Min(hits)] = table[Min(best)]
  <2> DEFINE k == Min(hits)
  <2>1. k \in hits /\ \A l \in hits : k <= l
    <3>1. hits \in SUBSET Nat /\ hits # {}
      BY <1>1, <1>5, <1>10, <1>11
    <3> QED
      BY <3>1, MinIs
  <2> HIDE DEF k
  <2>2. PICK i \in DOMAIN table : table[i] = list[k]
    BY <1>2, <1>5, <2>1
  <2>3. i \in st
    BY <1>2, <1>4, <1>5, <2>1, <2>2
  <2>4. \A j \in st : table[j] = table[i] \/ Ahead(table, table[i], table[j])
    <3> TAKE j \in st
    <3>1. PICK l \in DOMAIN list : list[l] = table[j]
      BY <1>3, <1>4
    <3>2. l \in hits /\ k <= l /\ k \in DOMAIN list
      BY <1>4, <1>5, <2>1, <3>1
    <3>3. k = l \/ k < l
      BY <1>1, <3>2
    <3> QED
      BY <1>1, <2>2, <3>1, <3>2, <3>3
  <2>5. i \in best
    <3>1. \A j \in st : Precision(table[j].rule) <= Precision(table[i].rule)
      <4> TAKE j \in st
      <4>1. j \in DOMAIN table
        BY <1>4
      <4> QED
        BY <1>9, <2>4, <4>1 DEF Ahead
    <3> QED
      BY <1>8, <2>3, <3>1
  <2>6. \A j \in best : i <= j
    <3> TAKE j \in best
    <3>1. j \in st /\ j \in DOMAIN table /\ PrecisionOf(table[i]) <= PrecisionOf(table[j])
      BY <1>4, <1>8, <1>9, <2>3
    <3>2. CASE table[j] = table[i]
      <4>1. i = j
        BY <3>1, <3>2 DEF UniqueRules
      <4> QED
        BY <1>9, <4>1
    <3>3. CASE Ahead(table, table[i], table[j])
      <4>1. Earlier(table, table[i], table[j])
        BY <1>9, <3>1, <3>3 DEF Ahead
      <4>2. PICK a, b \in DOMAIN table : a < b /\ table[a] = table[i] /\ table[b] = table[j]
        BY <4>1 DEF Earlier
      <4>3. a = i /\ b = j
        BY <3>1, <4>2 DEF UniqueRules
      <4> QED
        BY <1>9, <4>2, <4>3
    <3> QED
      BY <2>4, <3>1, <3>2, <3>3
  <2>7. best \in SUBSET Nat /\ best # {}
    BY <1>4, <1>8, <1>9, <2>5
  <2>8. Min(best) \in best /\ \A j \in best : Min(best) <= j
    BY <2>7, MinIs
  <2>9. Min(best) = i
    BY <2>5, <2>6, <2>7, <2>8
  <2> QED
    BY <2>2, <2>9 DEF k
<1> QED
  BY <1>6, <1>7, <1>10, <1>11 DEF st

(* RuleSet::matches answers what the most specific stored rule says of the  *)
(* kind that it asks first: for a url that is the kind of domain rules when *)
(* one of them matches.  A port is an error once there is an ip rule.       *)
THEOREM FirstMatchHolds == Spec => []FirstMatchWins
<1>1. RulesInv => FirstMatchWins
  <2> SUFFICES ASSUME RulesInv, ~torn, ~behind, NEW t \in Targets
               PROVE  /\ t.kind \in {"domain", "subdomain"} => Verdict(rules, t) = MostSpecific("domain", t)
                      /\ t.kind \in {"ipaddr", "netblock"} => Verdict(rules, t) = MostSpecific("ip", t)
                      /\ t.kind = "url" =>
                           Verdict(rules, t) =
                             MostSpecific(IF Stored("domain", t) # {} THEN "domain" ELSE "url", t)
                      /\ t.kind = "port" =>
                           (Verdict(rules, t) = "error" <=>
                              \E i \in DOMAIN table : table[i].rule.object = "ip")
    BY DEF FirstMatchWins
  <2>1. table \in Seq(Entries) /\ UniqueRules(table)
    BY DEF RulesInv, RulesTypeOK
  <2>2. \A o \in Objects : SortedOf(rules[o], table, o)
    BY DEF RulesInv, AllSorted
  <2>3. \A o \in Objects :
          /\ Stored(o, t) = {} => MatchesAny(rules[o], t) = "none"
          /\ Stored(o, t) # {} => MatchesAny(rules[o], t) = MostSpecific(o, t)
          /\ Stored(o, t) = {} => MostSpecific(o, t) = "scoped"
          /\ MostSpecific(o, t) # "none"
    BY <2>1, <2>2, FirstMatch
  <2>4. "domain" \in Objects /\ "ip" \in Objects /\ "url" \in Objects
    BY DEF Objects
  <2>5. CASE t.kind \in {"domain", "subdomain"}
    BY <2>3, <2>4, <2>5 DEF Verdict
  <2>6. CASE t.kind \in {"ipaddr", "netblock"}
    BY <2>3, <2>4, <2>6 DEF Verdict
  <2>7. CASE t.kind = "url"
    BY <2>3, <2>4, <2>7 DEF Verdict
  <2>8. CASE t.kind = "port"
    <3>1. rules["ip"] \in Seq(Entries)
          /\ \A e : e \in ToSet(rules["ip"]) <=> e \in ToSet(table) /\ e.rule.object = "ip"
      BY <2>2, <2>4 DEF SortedOf
    <3>2. rules["ip"] = <<>> <=> ToSet(rules["ip"]) = {}
      <4> DEFINE l == rules["ip"]
      <4>1. l \in Seq(Entries) /\ ToSet(l) = {l[i] : i \in DOMAIN l}
        BY <3>1 DEF ToSet
      <4> HIDE DEF l
      <4>2. l = <<>> <=> DOMAIN l = {}
        BY <4>1
      <4>3. ToSet(l) = {} <=> DOMAIN l = {}
        BY <4>1
      <4> QED
        BY <4>2, <4>3 DEF l
    <3>3. ToSet(rules["ip"]) = {} <=> ~\E i \in DOMAIN table : table[i].rule.object = "ip"
      <4>1. \A e : e \in ToSet(table) <=> \E i \in DOMAIN table : table[i] = e
        BY DEF ToSet
      <4> QED
        BY <3>1, <4>1
    <3>4. Verdict(rules, t) = IF rules["ip"] = <<>> THEN "scoped" ELSE "error"
      BY <2>8 DEF Verdict
    <3> QED
      BY <2>8, <3>2, <3>3, <3>4
  <2> QED
    BY <2>5, <2>6, <2>7, <2>8
<1> QED
  BY <1>1, RulesInvHolds, PTL
=============================================================================
