---------------------------- MODULE PacingProofs ----------------------------
(***************************************************************************)
(* Proofs about when requests start, for every rate, delay, concurrency    *)
(* and number of requests.  The loop is a caller of the bucket, so what    *)
(* TokenBucketProofs shows of any callers holds of it.                     *)
(***************************************************************************)
EXTENDS Pacing, TokenBucketProofs

(* Multiplying by a natural number keeps an order.                         *)
LEMMA ProductsGrow ==
  ASSUME NEW a \in Int, NEW b \in Int, NEW c \in Nat, a <= b
  PROVE  a * c <= b * c
<1>1. \A x, y \in Nat : x * y \in Nat
  OBVIOUS
<1>2. (b - a) * c \in Nat
  BY <1>1
<1>3. (b - a) * c = b * c - a * c
  BY Products
<1>. QED
  BY <1>2, <1>3, Products

(* What is used of the division in WaitTime.                               *)
LEMMA Quotient ==
  ASSUME NEW a \in Nat, NEW b \in Nat, b > 0
  PROVE  /\ a \div b \in Nat
         /\ a < b * (a \div b) + b
         /\ a >= b => a \div b >= 1
<1>1. a \div b \in Nat /\ a < b * (a \div b) + b
  OBVIOUS
<1>2. a >= b => a \div b >= 1
  OBVIOUS
<1>. QED
  BY <1>1, <1>2

(* Two refill periods, rounded down, are worth a token. *)
LEMMA TwoWaits ==
  ASSUME RPS <= Second
  PROVE  WaitTime \in Nat /\ 2 * (WaitTime * RPS) >= Second
<1>1. /\ WaitTime \in Nat
      /\ Second < RPS * WaitTime + RPS
      /\ WaitTime >= 1
  BY Quotient, RPSAssumption, SecondAssumption DEF WaitTime
<1>2. RPS * WaitTime = WaitTime * RPS /\ WaitTime * RPS \in Int
  BY <1>1, RPSAssumption
<1>3. 1 * RPS <= WaitTime * RPS
  BY <1>1, RPSAssumption, ProductsGrow
<1>. QED
  BY <1>1, <1>2, <1>3, RPSAssumption, SecondAssumption

(* The sleeps that applyDelay chooses from are times, and one is least.    *)
LEMMA DelaysAreTimes ==
  ASSUME cfg \in Configs
  PROVE  /\ Delays \subseteq Nat
         /\ LeastDelay \in Nat
         /\ \A d \in Delays : LeastDelay <= d
<1>1. cfg.delay \in Nat /\ cfg.min \in Nat /\ cfg.max \in Nat
  BY ConfigsAssumption DEF ConfigType
<1>2. Delays \subseteq Nat
  BY <1>1 DEF Delays
<1>3. \E d \in Delays : \A e \in Delays : d <= e
  <2>1. CASE cfg.delay > 0
    BY <2>1, <1>1 DEF Delays
  <2>2. CASE ~(cfg.delay > 0) /\ cfg.min > 0 /\ cfg.max > cfg.min
    <3>1. Delays = cfg.min..(cfg.max - 1)
      BY <2>2 DEF Delays
    <3>2. cfg.min \in Delays /\ \A e \in Delays : cfg.min <= e
      BY <3>1, <2>2, <1>1
    <3>. QED
      BY <3>2
  <2>3. CASE ~(cfg.delay > 0) /\ ~(cfg.min > 0 /\ cfg.max > cfg.min)
    BY <2>3 DEF Delays
  <2>. QED
    BY <2>1, <2>2, <2>3
<1>4. LeastDelay \in Delays /\ \A e \in Delays : LeastDelay <= e
  BY <1>3 DEF LeastDelay
<1>. QED
  BY <1>2, <1>4

(* Every step of the loop is a step of the bucket or leaves it alone, so a *)
(* run's bucket is one that TokenBucket describes.                         *)
LEMMA LoopStep ==
  ASSUME [PacedNext]_pacedVars
  PROVE  [Next]_vars
BY CallersAssumption
DEF PacedNext, pacedVars, Next, vars, AskBucket, SkipBucket, Grant, Retry, BeginDelay,
    EndDelay, Start, End, JoinAll, Clock

(* The loop uses the bucket as a caller does.                              *)
LEMMA LoopIsCaller == PacedSpec => Spec
<1>1. PacedInit => Init
  BY DEF PacedInit
<1>2. [PacedNext]_pacedVars => [Next]_vars
  BY LoopStep
<1>. QED
  BY <1>1, <1>2, PTL DEF PacedSpec, Spec
(* Type correctness of the loop and the bucket together (engine.go:97-120).*)
THEOREM PacedTyped == PacedSpec => []PacedTypeOK
<1>1. PacedInit => PacedTypeOK
  <2> SUFFICES ASSUME PacedInit PROVE PacedTypeOK
    OBVIOUS
  <2>1. TypeOK
    BY InitTyped DEF PacedInit
  <2>2. pc[main] = "idle"
    BY CallersAssumption DEF PacedInit, Init
  <2>. QED
    BY <2>1, <2>2, EmptySeq DEF PacedInit, PacedTypeOK
<1>2. PacedTypeOK /\ [PacedNext]_pacedVars => PacedTypeOK'
  <2> SUFFICES ASSUME PacedTypeOK, [PacedNext]_pacedVars
               PROVE  PacedTypeOK'
    OBVIOUS
  <2>1. TypeOK'
    BY LoopStep, NextTyped DEF PacedTypeOK
  <2>2. now \in Nat /\ now' \in Nat /\ main \in Callers /\ pc \in [Callers -> {"idle", "take", "sleep"}]
    BY <2>1, CallersAssumption, TimeAssumption DEF PacedTypeOK, TypeOK
  <2>3. cfg' \in Configs /\ running' \in Nat
    BY DEF PacedTypeOK, PacedNext, pacedVars, loopVars, AskBucket, SkipBucket, Grant, Retry,
           BeginDelay, EndDelay, Start, End, JoinAll, Clock
  <2>4. until' \in Nat
    BY <2>2, DelaysAreTimes DEF PacedTypeOK, PacedNext, pacedVars, loopVars, AskBucket,
       SkipBucket, Grant, Retry, BeginDelay, EndDelay, Start, End, JoinAll, Clock
  <2>5. starts' \in Seq(0..now')
    <3>1. CASE Start
      <4>1. now \in 0..now /\ now' = now
        BY <3>1, <2>2 DEF Start, vars
      <4>. QED
        BY <3>1, <4>1, AppendProperties DEF Start, PacedTypeOK
    <3>2. CASE starts' = starts
      <4>1. now <= now'
        BY <2>2 DEF PacedNext, pacedVars, vars, loopVars, AskBucket, SkipBucket, Grant, Retry,
               BeginDelay, EndDelay, Start, End, JoinAll, Clock, CallWait, TakeGranted,
               TakeRefused, WakeUp, Tick
      <4>2. 0..now \subseteq 0..now'
        BY <4>1, <2>2
      <4>. QED
        BY <3>2, <4>2, SeqMonotonic DEF PacedTypeOK
    <3>. QED
      BY <3>1, <3>2 DEF PacedNext, pacedVars, loopVars, AskBucket, SkipBucket, Grant, Retry,
         BeginDelay, EndDelay, End, JoinAll, Clock
  <2>6. /\ phase' \in {"top", "wait", "delay", "nap", "acquire", "done"}
        /\ (phase' = "wait") <=> (pc'[main] # "idle")
    BY <2>2 DEF PacedTypeOK, PacedNext, pacedVars, vars, loopVars, AskBucket, SkipBucket,
       Grant, Retry, BeginDelay, EndDelay, Start, End, JoinAll, Clock, CallWait,
       TakeGranted, TakeRefused, WakeUp, Tick
  <2>. QED
    BY <2>1, <2>3, <2>4, <2>5, <2>6 DEF PacedTypeOK
<1>. QED
  BY <1>1, <1>2, PTL DEF PacedSpec

----------------------------------------------------------------------------
(* What bounds the retries of the loop: behind each sleep of a Wait() the  *)
(* bucket holds one more refill period's worth than behind the one before, *)
(* and when the sleep is over the next period's worth has come in.         *)
RetryInv ==
  LET k      == sleeps[main]
      worth  == WaitTime * RPS
  IN  /\ pc[main] = "sleep" =>
           /\ wake[main] = lastRefill + WaitTime
           /\ \/ k = 1
              \/ k = 2 /\ tokens >= worth
      /\ pc[main] = "take" =>
           \/ k = 0
           \/ k = 1 /\ now >= lastRefill + WaitTime
           \/ k = 2 /\ now >= lastRefill + WaitTime /\ tokens >= worth
      /\ k <= 2

(* Wait() needs no third sleep, for any rate of at most one token a tick   *)
(* (tokenbucket.go:44-52).                                                 *)
THEOREM Retries == RPS <= Second => (Spec => []BoundedRetry)
<1> SUFFICES ASSUME RPS <= Second
             PROVE  Spec => []BoundedRetry
  OBVIOUS
<1>0. main \in Callers /\ \A c \in Callers : c = main
  BY CallersAssumption
<1>1. Init => RetryInv
  BY <1>0 DEF Init, RetryInv
<1>2. TypeOK /\ RetryInv /\ [Next]_vars => RetryInv'
  <2> SUFFICES ASSUME TypeOK, RetryInv, [Next]_vars
               PROVE  RetryInv'
    OBVIOUS
  <2> DEFINE worth == WaitTime * RPS
             k     == sleeps[main]
  <2>1. /\ now \in Nat /\ lastRefill \in Nat /\ lastRefill <= now /\ tokens \in Nat
        /\ WaitTime \in Nat /\ worth \in Int /\ worth + worth >= Second
        /\ k \in Nat /\ RPS \in Nat
        /\ pc \in [Callers -> {"idle", "take", "sleep"}]
        /\ wake \in [Callers -> Nat] /\ sleeps \in [Callers -> Nat]
    BY <1>0, TwoWaits, Products, RPSAssumption, SecondAssumption, TimeAssumption,
       CapacityFacts DEF TypeOK
  <2>2. ASSUME TakeRefused(main)
        PROVE  RetryInv'
    <3>1. /\ pc[main] = "take" /\ pc'[main] = "sleep" /\ tokens' = Refilled
          /\ lastRefill' = now /\ wake'[main] = now + WaitTime
          /\ sleeps'[main] = k + 1 /\ Refilled < Second
      BY <2>1, <2>2, <1>0 DEF TakeRefused, Cost
    <3>2. Refilled = tokens + (now - lastRefill) * RPS
      BY <3>1, RefillFacts DEF Cost
    <3>3. ASSUME k # 0
          PROVE  (now - lastRefill) * RPS >= worth
      <4>1. WaitTime <= now - lastRefill
        BY <3>1, <3>3, <2>1 DEF RetryInv
      <4>. QED
        BY <4>1, <2>1, ProductsGrow
    <3>4. (now - lastRefill) * RPS \in Int
      BY <2>1, Products
    <3>5. k # 2
      <4>1. CASE k = 2
        <5>1. tokens >= worth
          BY <3>1, <4>1, <2>1 DEF RetryInv
        <5>. QED
          BY <3>1, <3>2, <3>3, <3>4, <4>1, <5>1, <2>1, SecondAssumption
      <4>. QED
        BY <4>1
    <3>6. k = 0 \/ k = 1
      BY <3>1, <3>5, <2>1 DEF RetryInv
    <3>7. k = 1 => tokens' >= worth
      BY <3>1, <3>2, <3>3, <3>4, <2>1
    <3>. QED
      BY <3>1, <3>6, <3>7 DEF RetryInv
  <2>3. CASE Tick
    BY <2>1, <2>3 DEF Tick, RetryInv
  <2>4. CASE CallWait(main)
    BY <2>1, <2>4, <1>0 DEF CallWait, RetryInv
  <2>5. CASE TakeGranted(main)
    BY <2>1, <2>5, <1>0 DEF TakeGranted, RetryInv
  <2>6. CASE WakeUp(main)
    BY <2>1, <2>6, <1>0 DEF WakeUp, RetryInv
  <2>7. CASE UNCHANGED vars
    BY <2>7 DEF vars, RetryInv
  <2>. QED
    BY <1>0, <2>2, <2>3, <2>4, <2>5, <2>6, <2>7 DEF Next
<1>3. RetryInv => BoundedRetry
  BY <1>0 DEF RetryInv, BoundedRetry
<1>. QED
  BY <1>1, <1>2, <1>3, Typed, PTL DEF Spec

(* The loop of Run asks the bucket as its one caller, so the same holds of *)
(* its requests (engine.go:99).                                            *)
THEOREM PacedRetries == RPS <= Second => (PacedSpec => []BoundedRetry)
BY Retries, LoopIsCaller, PTL

----------------------------------------------------------------------------
(* How tokens and starts go together: the k-th request starts between the  *)
(* k-th token and the next one, and the loop holds at most one more token. *)
Holding == phase \in {"delay", "nap", "acquire"}

Paired ==
  /\ Len(grants) = Len(starts) + (IF Holding THEN 1 ELSE 0)
  /\ \A k \in DOMAIN starts : grants[k] <= starts[k]
  /\ \A k \in DOMAIN starts : k + 1 \in DOMAIN grants => starts[k] <= grants[k + 1]

(* The types of the two histories, as the steps below use them.            *)
LEMMA SequencesOfTimes ==
  ASSUME PacedTypeOK
  PROVE  /\ now \in Nat /\ main \in Callers
         /\ Len(grants) \in Nat /\ DOMAIN grants = 1..Len(grants)
         /\ Len(starts) \in Nat /\ DOMAIN starts = 1..Len(starts)
         /\ \A k \in DOMAIN grants : grants[k] \in 0..now
         /\ \A k \in DOMAIN starts : starts[k] \in 0..now
BY CallersAssumption, TimeAssumption, LenProperties, ElementOfSeq DEF PacedTypeOK, TypeOK

(* A time appended to a history of times.                                  *)
LEMMA AppendTime ==
  ASSUME NEW s \in Seq(0..now), now \in Nat
  PROVE  /\ Len(Append(s, now)) = Len(s) + 1
         /\ DOMAIN Append(s, now) = 1..(Len(s) + 1)
         /\ Append(s, now)[Len(s) + 1] = now
         /\ \A k \in DOMAIN s : Append(s, now)[k] = s[k]
BY AppendProperties, LenProperties

(* Every step of the loop keeps starts and grants paired.                  *)
LEMMA PairedStep ==
  ASSUME PacedTypeOK, cfg.limited => Paired, [PacedNext]_pacedVars
  PROVE  (cfg.limited => Paired)'
<1>. SUFFICES ASSUME cfg'.limited PROVE Paired'
  OBVIOUS
<1>1. cfg' = cfg
  BY DEF PacedNext, pacedVars, loopVars, AskBucket, SkipBucket, Grant, Retry, BeginDelay,
         EndDelay, Start, End, JoinAll, Clock
<1>2. cfg.limited /\ Paired
  BY <1>1
<1>3. ASSUME UNCHANGED <<grants, starts>>, Holding' <=> Holding
      PROVE  Paired'
  BY <1>2, <1>3 DEF Paired
<1>4. CASE Grant
  <2>1. /\ grants' = Append(grants, now) /\ starts' = starts /\ ~Holding /\ Holding'
    BY <1>4 DEF Grant, TakeGranted, Holding
  <2>2. Len(grants) = Len(starts)
    BY <1>2, <2>1, SequencesOfTimes DEF Paired
  <2>3. /\ Len(grants') = Len(grants) + 1 /\ DOMAIN grants' = 1..(Len(grants) + 1)
        /\ grants'[Len(grants) + 1] = now
        /\ \A k \in DOMAIN grants : grants'[k] = grants[k]
    BY <2>1, AppendTime, SequencesOfTimes DEF PacedTypeOK, TypeOK
  <2>4. \A k \in DOMAIN starts' : grants'[k] <= starts'[k]
    BY <1>2, <2>1, <2>2, <2>3, SequencesOfTimes DEF Paired
  <2>5. ASSUME NEW k \in DOMAIN starts', k + 1 \in DOMAIN grants'
        PROVE  starts'[k] <= grants'[k + 1]
    <3>1. CASE k + 1 \in DOMAIN grants
      BY <1>2, <2>1, <2>3, <3>1 DEF Paired
    <3>2. CASE k + 1 = Len(grants) + 1
      BY <2>1, <2>3, <3>2, SequencesOfTimes
    <3>. QED
      BY <2>1, <2>3, <2>5, <3>1, <3>2, SequencesOfTimes
  <2>. QED
    BY <2>1, <2>2, <2>3, <2>4, <2>5 DEF Paired
<1>5. CASE Start
  <2>1. /\ starts' = Append(starts, now) /\ grants' = grants /\ Holding /\ ~Holding'
    BY <1>5 DEF Start, vars, Holding
  <2>2. Len(grants) = Len(starts) + 1
    BY <1>2, <2>1, SequencesOfTimes DEF Paired
  <2>3. /\ Len(starts') = Len(starts) + 1 /\ DOMAIN starts' = 1..(Len(starts) + 1)
        /\ starts'[Len(starts) + 1] = now
        /\ \A k \in DOMAIN starts : starts'[k] = starts[k]
    BY <2>1, AppendTime, SequencesOfTimes DEF PacedTypeOK
  <2>4. ASSUME NEW k \in DOMAIN starts'
        PROVE  grants'[k] <= starts'[k]
    <3>1. CASE k \in DOMAIN starts
      BY <1>2, <2>1, <2>3, <3>1 DEF Paired
    <3>2. CASE k = Len(starts) + 1
      BY <2>1, <2>2, <2>3, <3>2, SequencesOfTimes
    <3>. QED
      BY <2>3, <3>1, <3>2, SequencesOfTimes
  <2>5. ASSUME NEW k \in DOMAIN starts', k + 1 \in DOMAIN grants'
        PROVE  starts'[k] <= grants'[k + 1]
    <3>1. k \in DOMAIN starts
      BY <2>1, <2>2, <2>3, <2>5, SequencesOfTimes
    <3>. QED
      BY <1>2, <2>1, <2>3, <2>5, <3>1 DEF Paired
  <2>. QED
    BY <2>1, <2>2, <2>3, <2>4, <2>5, SequencesOfTimes DEF Paired
<1>6. ~SkipBucket
  BY <1>2 DEF SkipBucket
<1>. QED
  BY <1>3, <1>4, <1>5, <1>6
  DEF PacedNext, pacedVars, vars, loopVars, AskBucket, Retry, BeginDelay, EndDelay, End,
      JoinAll, Clock, CallWait, TakeRefused, WakeUp, Tick, Holding

(* Requests start at the bucket's pace, one of them perhaps late: for any  *)
(* rate, delay and concurrency (engine.go:99-108).                         *)
THEOREM StartsBounded == PacedSpec => []StartBound
<1>1. PacedInit => (cfg.limited => Paired)
  BY EmptySeq DEF PacedInit, Init, Paired, Holding
<1>2. PacedTypeOK /\ (cfg.limited => Paired) /\ [PacedNext]_pacedVars => (cfg.limited => Paired)'
  BY PairedStep
<1>3. PacedTypeOK /\ WindowBound /\ (cfg.limited => Paired) => StartBound
  <2> SUFFICES ASSUME PacedTypeOK, WindowBound, Paired,
                      NEW i \in DOMAIN starts, NEW j \in DOMAIN starts, i <= j
               PROVE  (j - i) * Second <= Capacity + (starts[j] - starts[i]) * RPS
    BY DEF StartBound
  <2>1. /\ Capacity \in Nat /\ RPS \in Nat /\ Second \in Nat
        /\ i \in Nat /\ j \in Nat /\ starts[i] \in Nat /\ starts[j] \in Nat
    BY SequencesOfTimes, CapacityFacts, RPSAssumption, SecondAssumption
  <2>2. CASE i = j
    <3>1. (j - i) * Second = 0 /\ (starts[j] - starts[i]) * RPS = 0
      BY <2>1, <2>2
    <3>. QED
      BY <2>1, <3>1
  <2>3. CASE i < j
    <3>1. /\ i + 1 \in DOMAIN grants /\ j \in DOMAIN grants /\ i + 1 <= j
          /\ grants[i + 1] \in Nat /\ grants[j] \in Nat
      BY <2>1, <2>3, SequencesOfTimes DEF Paired
    <3>2. starts[i] <= grants[i + 1] /\ grants[j] <= starts[j]
      BY <3>1 DEF Paired
    <3>3. (grants[j] - grants[i + 1]) * RPS <= (starts[j] - starts[i]) * RPS
      BY <2>1, <3>1, <3>2, ProductsGrow
    <3>4. /\ Granted(i + 1, j) * Second <= Capacity + (grants[j] - grants[i + 1]) * RPS
          /\ Granted(i + 1, j) = j - i
      BY <2>1, <3>1 DEF WindowBound, Granted
    <3>5. /\ (j - i) * Second \in Int /\ (grants[j] - grants[i + 1]) * RPS \in Int
          /\ (starts[j] - starts[i]) * RPS \in Int
      BY <2>1, <3>1, Products
    <3>. QED
      BY <2>1, <3>3, <3>4, <3>5
  <2>. QED
    BY <2>1, <2>2, <2>3
<1>. QED
  BY <1>1, <1>2, <1>3, PacedTyped, LoopIsCaller, Window, PTL DEF PacedSpec

----------------------------------------------------------------------------
(* A delay that is running, or over, started after the last request.       *)
DelayInv ==
  /\ DelayBound
  /\ starts # <<>> /\ phase \in {"nap", "acquire"} =>
       until >= starts[Len(starts)] + LeastDelay
  /\ phase = "acquire" => now >= until

(* Two requests are never closer than the delay that --delay or            *)
(* --random-delay gives at least (engine.go:103, :154-165).                *)
THEOREM DelaysKept == PacedSpec => []DelayBound
<1>1. PacedInit => DelayInv
  BY DEF PacedInit, DelayInv, DelayBound
<1>2. PacedTypeOK /\ DelayInv /\ [PacedNext]_pacedVars => DelayInv'
  <2> SUFFICES ASSUME PacedTypeOK, DelayInv, [PacedNext]_pacedVars
               PROVE  DelayInv'
    OBVIOUS
  <2>1. LeastDelay' = LeastDelay
    BY DEF LeastDelay, Delays, PacedNext, pacedVars, loopVars, AskBucket, SkipBucket,
           Grant, Retry, BeginDelay, EndDelay, Start, End, JoinAll, Clock
  <2>2. /\ LeastDelay \in Nat /\ Delays \subseteq Nat /\ until \in Nat
        /\ \A d \in Delays : LeastDelay <= d
    BY DelaysAreTimes DEF PacedTypeOK
  <2>3. CASE BeginDelay
    <3>1. starts' = starts /\ phase' = "nap"
      BY <2>3 DEF BeginDelay
    <3>2. ASSUME starts # <<>>
          PROVE  until' >= starts[Len(starts)] + LeastDelay
      <4>1. PICK d \in Delays : until' = now + d
        BY <2>3, <3>2 DEF BeginDelay
      <4>2. Len(starts) \in DOMAIN starts
        BY <3>2, SequencesOfTimes, EmptySeq DEF PacedTypeOK
      <4>. QED
        BY <2>2, <4>1, <4>2, SequencesOfTimes
    <3>. QED
      BY <2>1, <3>1, <3>2 DEF DelayInv, DelayBound
  <2>4. CASE Start
    <3>1. /\ starts' = Append(starts, now) /\ phase' = "top" /\ phase = "acquire"
      BY <2>4 DEF Start
    <3>2. /\ DOMAIN starts' = 1..(Len(starts) + 1)
          /\ starts'[Len(starts) + 1] = now
          /\ \A k \in DOMAIN starts : starts'[k] = starts[k]
      BY <3>1, AppendTime, SequencesOfTimes DEF PacedTypeOK
    <3>3. ASSUME NEW k \in DOMAIN starts', k + 1 \in DOMAIN starts'
          PROVE  starts'[k + 1] - starts'[k] >= LeastDelay
      <4>1. CASE k + 1 \in DOMAIN starts
        <5>1. k \in DOMAIN starts
          BY <3>2, <3>3, <4>1, SequencesOfTimes
        <5>. QED
          BY <3>2, <4>1, <5>1 DEF DelayInv, DelayBound
      <4>2. CASE k = Len(starts)
        <5>1. k \in DOMAIN starts /\ starts # <<>>
          BY <3>2, <3>3, <4>2, SequencesOfTimes
        <5>2. now >= starts[k] + LeastDelay
          BY <2>2, <3>1, <4>2, <5>1, SequencesOfTimes DEF DelayInv
        <5>. QED
          BY <2>2, <3>2, <4>2, <5>1, <5>2, SequencesOfTimes
      <4>. QED
        BY <3>2, <3>3, <4>1, <4>2, SequencesOfTimes
    <3>. QED
      BY <2>1, <3>1, <3>3 DEF DelayInv, DelayBound
  <2>5. CASE Clock
    <3>1. UNCHANGED loopVars /\ now' = now + 1
      BY <2>5 DEF Clock, Tick
    <3>. QED
      BY <2>1, <2>2, <3>1, SequencesOfTimes DEF DelayInv, DelayBound, loopVars
  <2>6. ASSUME UNCHANGED <<starts, until, now>>,
               phase' = phase \/ phase' \notin {"nap", "acquire"} \/ EndDelay
        PROVE  DelayInv'
    BY <2>1, <2>6 DEF DelayInv, DelayBound, EndDelay
  <2>. QED
    BY <2>3, <2>4, <2>5, <2>6
    DEF PacedNext, pacedVars, vars, loopVars, AskBucket, SkipBucket, Grant, Retry,
        EndDelay, End, JoinAll, CallWait, TakeGranted, TakeRefused, WakeUp
<1>3. DelayInv => DelayBound
  BY DEF DelayInv
<1>. QED
  BY <1>1, <1>2, <1>3, PacedTyped, PTL DEF PacedSpec
=============================================================================
