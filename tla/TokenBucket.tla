---------------------------- MODULE TokenBucket ----------------------------
(***************************************************************************)
(* The rate limiter of `replay run --rps N` (internal/replay/              *)
(* tokenbucket.go).  Callers run Wait(): they Take() a token and, as long  *)
(* as the bucket refuses, sleep for one refill period and try again.       *)
(*                                                                         *)
(* Time is an integer clock of Second ticks to the second.  The code keeps *)
(* fractional tokens in a float64; here the token count is scaled by       *)
(* Second, so that one request costs Second units, one tick refills RPS    *)
(* units, and every quantity is an integer (float rounding is abstracted). *)
(* tb.mu makes Take() one atomic step: time.Now() is read under the lock.  *)
(***************************************************************************)
EXTENDS Integers, Sequences

CONSTANTS
  Callers,  \* goroutines that call Wait() (the program has one: Run's loop)
  RPS,      \* NewTokenBucket's rps
  Second,   \* clock ticks in a second (time.Second, 10^9 in the code)
  MaxTime   \* bound: the clock stops there

ASSUME RPSAssumption    == RPS \in Nat \ {0}    \* engine.go:84, cfg.RPS > 0
ASSUME SecondAssumption == Second \in Nat \ {0}
ASSUME TimeAssumption   == MaxTime \in Nat

VARIABLES
  now,         \* the monotonic clock
  tokens,      \* tb.tokens, scaled by Second
  lastRefill,  \* tb.lastRefill
  pc,          \* where each caller stands in Wait()
  wake,        \* when the sleep of each caller may end
  sleeps,      \* refusals met in the caller's current Wait()
  grants       \* history: the time of every token handed out

vars == <<now, tokens, lastRefill, pc, wake, sleeps, grants>>

----------------------------------------------------------------------------
Cost     == Second
Capacity == RPS * Second

(* Faulty variant: the bucket is not capped. *)
RefilledUncapped == tokens + (now - lastRefill) * RPS

(* What tb.tokens becomes at the refill that opens Take(). *)
Refilled ==
  LET filled == tokens + (now - lastRefill) * RPS
  IN  IF filled > Capacity THEN Capacity ELSE filled

(* time.Duration(float64(time.Second) / tb.refillRate): rounded down. *)
WaitTime == Second \div RPS

----------------------------------------------------------------------------
(* NewTokenBucket *)
Init ==
  /\ now = 0
  /\ tokens = Capacity
  /\ lastRefill = now
  /\ pc = [c \in Callers |-> "idle"]
  /\ wake = [c \in Callers |-> 0]
  /\ sleeps = [c \in Callers |-> 0]
  /\ grants = <<>>

(* A caller enters Wait(). *)
CallWait(c) ==
  /\ pc[c] = "idle"
  /\ pc' = [pc EXCEPT ![c] = "take"]
  /\ sleeps' = [sleeps EXCEPT ![c] = 0]
  /\ UNCHANGED <<now, tokens, lastRefill, wake, grants>>

(* Take() returns true and Wait() returns. *)
TakeGranted(c) ==
  /\ pc[c] = "take"
  /\ Refilled >= Cost
  /\ tokens' = Refilled - Cost
  /\ lastRefill' = now
  /\ grants' = Append(grants, now)
  /\ pc' = [pc EXCEPT ![c] = "idle"]
  /\ UNCHANGED <<now, wake, sleeps>>

(* Faulty variant: a refusal drops the refill and restarts the clock. *)
TakeRefusedLossy(c) ==
  /\ pc[c] = "take"
  /\ Refilled < Cost
  /\ lastRefill' = now
  /\ pc' = [pc EXCEPT ![c] = "sleep"]
  /\ wake' = [wake EXCEPT ![c] = now + WaitTime]
  /\ sleeps' = [sleeps EXCEPT ![c] = @ + 1]
  /\ UNCHANGED <<now, tokens, grants>>

(* Faulty variant: a refusal keeps the refill and not its time. *)
TakeRefusedTwice(c) ==
  /\ pc[c] = "take"
  /\ Refilled < Cost
  /\ tokens' = Refilled
  /\ pc' = [pc EXCEPT ![c] = "sleep"]
  /\ wake' = [wake EXCEPT ![c] = now + WaitTime]
  /\ sleeps' = [sleeps EXCEPT ![c] = @ + 1]
  /\ UNCHANGED <<now, lastRefill, grants>>

(* Take() returns false: the refill is kept and the caller sleeps. *)
TakeRefused(c) ==
  /\ pc[c] = "take"
  /\ Refilled < Cost
  /\ tokens' = Refilled
  /\ lastRefill' = now
  /\ pc' = [pc EXCEPT ![c] = "sleep"]
  /\ wake' = [wake EXCEPT ![c] = now + WaitTime]
  /\ sleeps' = [sleeps EXCEPT ![c] = @ + 1]
  /\ UNCHANGED <<now, grants>>

(* time.Sleep returns at its deadline or any time after it. *)
WakeUp(c) ==
  /\ pc[c] = "sleep"
  /\ now >= wake[c]
  /\ pc' = [pc EXCEPT ![c] = "take"]
  /\ UNCHANGED <<now, tokens, lastRefill, wake, sleeps, grants>>

Tick ==
  /\ now < MaxTime
  /\ now' = now + 1
  /\ UNCHANGED <<tokens, lastRefill, pc, wake, sleeps, grants>>

Next ==
  \/ Tick
  \/ \E c \in Callers : \/ CallWait(c)
                        \/ TakeGranted(c)
                        \/ TakeRefused(c)
                        \/ WakeUp(c)

Spec == Init /\ [][Next]_vars

----------------------------------------------------------------------------
(* Every variable has its type; the clock never runs behind the bucket and *)
(* the bucket never holds more than it can carry or less than nothing.     *)
TypeOK ==
  /\ now \in 0..MaxTime
  /\ tokens \in 0..Capacity
  /\ lastRefill \in 0..now
  /\ pc \in [Callers -> {"idle", "take", "sleep"}]
  /\ wake \in [Callers -> Nat]
  /\ sleeps \in [Callers -> Nat]
  /\ grants \in Seq(0..now)

(* The number of tokens handed out from the i-th grant to the j-th one. *)
Granted(i, j) == j - i + 1

(* What the limiter of tokenbucket.go promises: over ANY interval it hands *)
(* out at most its capacity and what that interval refills, whoever calls  *)
(* it and however its callers are scheduled.                               *)
WindowBound ==
  \A i, j \in DOMAIN grants :
    i <= j => Granted(i, j) * Second <= Capacity + (grants[j] - grants[i]) * RPS

(* With the single caller that Run is, Wait() (tokenbucket.go:44) never    *)
(* needs a third sleep, although the refill period is rounded down and one *)
(* sleep alone may wake it too early.  It needs a period of at least one   *)
(* clock tick: RPS <= Second.                                              *)
BoundedRetry == \A c \in Callers : sleeps[c] <= 2
=============================================================================
