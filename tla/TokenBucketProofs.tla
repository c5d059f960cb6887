------------------------- MODULE TokenBucketProofs -------------------------
(***************************************************************************)
(* Proofs about the rate limiter, for every number of callers, every rate  *)
(* and every clock resolution.                                             *)
(***************************************************************************)
EXTENDS TokenBucket, SequenceTheorems, TLAPS

(* The products of the bucket are integers and distribute over sums.       *)
LEMMA Products ==
  ASSUME NEW a \in Int, NEW b \in Int, NEW c \in Int
  PROVE  /\ a * c \in Int
         /\ (a + b) * c = a * c + b * c
         /\ (a - b) * c = a * c - b * c
  OBVIOUS

(* The bucket holds at least one token.                                    *)
LEMMA CapacityFacts ==
  /\ Capacity \in Nat
  /\ Cost \in Nat
  /\ Cost <= Capacity
  BY RPSAssumption, SecondAssumption DEF Capacity, Cost

(* Take() never leaves the bucket above its capacity, and the refill adds  *)
(* at most what the elapsed time is worth (tokenbucket.go:31-34).          *)
LEMMA RefillFacts ==
  ASSUME TypeOK
  PROVE  /\ Refilled \in 0..Capacity
         /\ Refilled <= tokens + (now - lastRefill) * RPS
         /\ Refilled < Cost => Refilled = tokens + (now - lastRefill) * RPS
<1>1. /\ tokens \in 0..Capacity /\ now \in Nat /\ lastRefill \in 0..now /\ RPS \in Nat
  BY RPSAssumption, TimeAssumption DEF TypeOK
<1>2. (now - lastRefill) * RPS \in Nat
  <2>1. now - lastRefill \in Nat
    BY <1>1
  <2>2. \A x, y \in Nat : x * y \in Nat
    OBVIOUS
  <2>. QED
    BY <1>1, <2>1, <2>2
<1>. QED
  BY <1>1, <1>2, CapacityFacts DEF Refilled

(* The bucket starts within its types.                                     *)
LEMMA InitTyped == Init => TypeOK
BY CapacityFacts, TimeAssumption, EmptySeq DEF Init, TypeOK

(* Every step keeps the bucket's types.                                    *)
LEMMA NextTyped ==
  ASSUME TypeOK, [Next]_vars
  PROVE  TypeOK'
<1> USE DEF TypeOK
<1>0. \A s \in Seq(0..now) : s \in Seq(0..now+1)
  <2>1. 0..now \subseteq 0..now+1
    OBVIOUS
  <2>. QED
    BY <2>1, SeqMonotonic
<1>1. CASE Tick
  BY <1>1, <1>0, TimeAssumption DEF Tick
<1>2. ASSUME NEW c \in Callers, CallWait(c)
      PROVE  TypeOK'
  BY <1>2 DEF CallWait
<1>3. ASSUME NEW c \in Callers, TakeGranted(c)
      PROVE  TypeOK'
  <2>1. tokens' \in 0..Capacity
    BY <1>3, RefillFacts, CapacityFacts DEF TakeGranted
  <2>2. now \in 0..now
    BY TimeAssumption
  <2>3. grants' \in Seq(0..now)
    BY <1>3, <2>2, AppendProperties DEF TakeGranted
  <2>. QED
    BY <1>3, <2>1, <2>2, <2>3 DEF TakeGranted
<1>4. ASSUME NEW c \in Callers, TakeRefused(c)
      PROVE  TypeOK'
  <2>1. tokens' \in 0..Capacity
    BY <1>4, RefillFacts DEF TakeRefused
  <2>2. WaitTime \in Nat
    BY RPSAssumption, SecondAssumption DEF WaitTime
  <2>. QED
    BY <1>4, <2>1, <2>2, TimeAssumption DEF TakeRefused
<1>5. ASSUME NEW c \in Callers, WakeUp(c)
      PROVE  TypeOK'
  BY <1>5 DEF WakeUp
<1>6. CASE UNCHANGED vars
  BY <1>6 DEF vars
<1>. QED
  BY <1>1, <1>2, <1>3, <1>4, <1>5, <1>6 DEF Next

(* Type correctness: Spec keeps every variable of the bucket in its type,  *)
(* so tb.tokens stays between zero and the capacity (tokenbucket.go:25).   *)
THEOREM Typed == Spec => []TypeOK
<1>1. TypeOK /\ [Next]_vars => TypeOK'
  BY NextTyped
<1>. QED
  BY <1>1, InitTyped, PTL DEF Spec

----------------------------------------------------------------------------
(* What makes WindowBound inductive: from any past grant on, the tokens    *)
(* handed out and those still in the bucket were paid for by the capacity  *)
(* and by the refill up to the last Take().                                *)
Credit ==
  \A i \in DOMAIN grants :
    /\ grants[i] <= lastRefill
    /\ Granted(i, Len(grants)) * Second + tokens
         <= Capacity + (lastRefill - grants[i]) * RPS

WindowInv == Credit /\ WindowBound

(* A refill adds no more credit than the time that has passed.             *)
LEMMA RefillKeepsCredit ==
  ASSUME TypeOK, Credit, NEW i \in DOMAIN grants
  PROVE  /\ grants[i] \in Nat
         /\ grants[i] <= now
         /\ Granted(i, Len(grants)) * Second + Refilled
              <= Capacity + (now - grants[i]) * RPS
<1>1. /\ now \in Nat /\ lastRefill \in 0..now /\ grants[i] \in 0..now
      /\ tokens \in Nat /\ Len(grants) \in Nat /\ i \in 1..Len(grants)
  BY TimeAssumption, LenProperties, ElementOfSeq DEF TypeOK
<1>2. (now - grants[i]) * RPS
        = (now - lastRefill) * RPS + (lastRefill - grants[i]) * RPS
  BY <1>1, RPSAssumption, Products
<1>3. /\ (now - lastRefill) * RPS \in Int
      /\ (lastRefill - grants[i]) * RPS \in Int
      /\ Granted(i, Len(grants)) * Second \in Int
  BY <1>1, RPSAssumption, SecondAssumption, Products DEF Granted
<1>4. Granted(i, Len(grants)) * Second + tokens
        <= Capacity + (lastRefill - grants[i]) * RPS
  BY DEF Credit
<1>5. /\ Refilled \in Int /\ Capacity \in Int
      /\ Refilled <= tokens + (now - lastRefill) * RPS
  BY RefillFacts, CapacityFacts
<1>6. ASSUME NEW g \in Int, NEW cap \in Int, NEW past \in Int, NEW more \in Int,
             NEW filled \in Int, g + tokens <= cap + past, filled <= tokens + more
      PROVE  g + filled <= cap + (more + past)
  BY <1>1, <1>6
<1>7. grants[i] <= now /\ grants[i] \in Nat
  BY <1>1
<1>. QED
  BY <1>2, <1>3, <1>4, <1>5, <1>6, <1>7

(* The window bound of the limiter, over every interval between two        *)
(* grants, for any rate and any callers (tokenbucket.go:25-42).            *)
THEOREM Window == Spec => []WindowBound
<1>1. Init => WindowInv
  BY DEF Init, WindowInv, Credit, WindowBound
<1>2. TypeOK /\ WindowInv /\ [Next]_vars => WindowInv'
  <2> SUFFICES ASSUME TypeOK, WindowInv, [Next]_vars
               PROVE  WindowInv'
    OBVIOUS
  <2> USE DEF WindowInv
  <2>1. ASSUME UNCHANGED <<tokens, lastRefill, grants>>
        PROVE  WindowInv'
    BY <2>1 DEF Credit, WindowBound
  <2>2. ASSUME NEW c \in Callers, TakeRefused(c)
        PROVE  WindowInv'
    <3>1. tokens' = Refilled /\ lastRefill' = now /\ grants' = grants
      BY <2>2 DEF TakeRefused
    <3>2. Credit'
      BY <3>1, RefillKeepsCredit DEF Credit
    <3>. QED
      BY <3>1, <3>2 DEF WindowBound
  <2>3. ASSUME NEW c \in Callers, TakeGranted(c)
        PROVE  WindowInv'
    <3> DEFINE n == Len(grants)
    <3>1. /\ tokens' = Refilled - Cost /\ lastRefill' = now
          /\ grants' = Append(grants, now) /\ Refilled >= Cost
      BY <2>3 DEF TakeGranted
    <3>2. /\ now \in Nat /\ grants \in Seq(Nat) /\ n \in Nat
          /\ DOMAIN grants = 1..n
          /\ \A i \in 1..n : grants[i] \in Nat
      <4>1. 0..now \subseteq Nat
        OBVIOUS
      <4>2. grants \in Seq(Nat)
        BY <4>1, SeqMonotonic DEF TypeOK
      <4>. QED
        BY <4>2, TimeAssumption, LenProperties, ElementOfSeq DEF TypeOK
    <3>3. /\ Len(grants') = n + 1 /\ DOMAIN grants' = 1..n+1
          /\ grants'[n+1] = now
          /\ \A i \in 1..n : grants'[i] = grants[i]
      BY <3>1, <3>2, AppendProperties, LenProperties
    <3>4. Refilled \in Nat /\ Refilled <= Capacity /\ Capacity \in Nat /\ Cost = Second
      BY RefillFacts, CapacityFacts DEF Cost
    <3>5. ASSUME NEW i \in 1..n+1
          PROVE  /\ grants'[i] <= now
                 /\ Granted(i, n+1) * Second + tokens'
                      <= Capacity + (now - grants'[i]) * RPS
      <4>1. CASE i = n+1
        <5>1. Granted(i, n+1) = 1 /\ now - grants'[i] = 0
          BY <3>2, <3>3, <4>1 DEF Granted
        <5>2. 0 * RPS = 0 /\ 1 * Second = Second
          BY RPSAssumption, SecondAssumption
        <5>. QED
          BY <3>1, <3>2, <3>3, <3>4, <4>1, <5>1, <5>2, SecondAssumption
      <4>2. CASE i \in 1..n
        <5>1. /\ grants[i] <= now
              /\ Granted(i, n) * Second + Refilled <= Capacity + (now - grants[i]) * RPS
          BY <3>2, <4>2, RefillKeepsCredit
        <5>2. Granted(i, n+1) * Second = Granted(i, n) * Second + Second
          <6>1. Granted(i, n) \in Int /\ Granted(i, n+1) = Granted(i, n) + 1
            BY <3>2 DEF Granted
          <6>. QED
            BY <6>1, SecondAssumption, Products
        <5>3. Granted(i, n) * Second \in Int /\ (now - grants[i]) * RPS \in Int
          BY <3>2, <4>2, RPSAssumption, SecondAssumption, Products DEF Granted
        <5>4. grants'[i] = grants[i]
          BY <3>3, <4>2
        <5>. QED
          BY <3>1, <3>4, <5>1, <5>2, <5>3, <5>4, SecondAssumption
      <4>. QED
        BY <3>2, <4>1, <4>2
    <3>6. Credit'
      BY <3>1, <3>3, <3>5 DEF Credit, Granted
    <3>7. ASSUME NEW i \in 1..n+1, NEW j \in 1..n+1, i <= j
          PROVE  Granted(i, j) * Second <= Capacity + (grants'[j] - grants'[i]) * RPS
      <4>1. CASE j = n+1
        <5>1. Granted(i, n+1) * Second \in Int /\ (now - grants'[i]) * RPS \in Int
          BY <3>2, <3>3, RPSAssumption, SecondAssumption, Products DEF Granted
        <5>2. tokens' \in Nat
          BY <3>1, <3>4, SecondAssumption
        <5>. QED
          BY <3>3, <3>4, <3>5, <4>1, <5>1, <5>2
      <4>2. CASE j \in 1..n
        <5>1. i \in 1..n
          BY <3>2, <3>7, <4>2
        <5>. QED
          BY <3>2, <3>3, <3>7, <4>2, <5>1 DEF WindowBound
      <4>. QED
        BY <3>2, <4>1, <4>2
    <3>8. WindowBound'
      BY <3>3, <3>7 DEF WindowBound, Granted, Capacity
    <3>. QED
      BY <3>6, <3>8
  <2>. QED
    BY <2>1, <2>2, <2>3 DEF Next, vars, Tick, CallWait, WakeUp
<1>3. WindowInv => WindowBound
  BY DEF WindowInv
<1>. QED
  BY <1>1, <1>2, <1>3, Typed, PTL DEF Spec
=============================================================================
