------------------------------- MODULE Pacing -------------------------------
(***************************************************************************)
(* When `replay run` starts its requests (internal/replay/engine.go): the  *)
(* loop of Run passes three gates for every request, in this order, the    *)
(* token bucket of TokenBucket (--rps), the delay of applyDelay (--delay,  *)
(* --random-delay), and the semaphore of --concurrency.  The loop is the   *)
(* one caller of the bucket; the time of a request's goroutine is not      *)
(* bounded.                                                                *)
(***************************************************************************)
EXTENDS TokenBucket, FiniteSets

CONSTANTS
  main,     \* the goroutine of Run
  Configs,  \* the flags a run may be given
  NJobs     \* requests of the run (entries times passes)

ConfigType == [limited : BOOLEAN, delay : Nat, min : Nat, max : Nat,
               concurrency : Nat \ {0}]

ASSUME CallersAssumption == Callers = {main}
ASSUME ConfigsAssumption == Configs \subseteq ConfigType
ASSUME NJobsAssumption   == NJobs \in Nat \ {0}

VARIABLES
  cfg,      \* the flags of this run; ~limited: bucket is nil
  phase,    \* the gate the loop stands at
  until,    \* when the loop's delay may end
  running,  \* tokens in the semaphore: requests in progress
  starts    \* history: the time of every request's start

loopVars == <<cfg, phase, until, running, starts>>
pacedVars == <<vars, loopVars>>

----------------------------------------------------------------------------
(* The sleeps applyDelay chooses from: rand.Int63n(max - min) is below     *)
(* max - min.  A random range that is empty or starts at 0 is no delay.    *)
Delays ==
  IF cfg.delay > 0 THEN {cfg.delay}
  ELSE IF cfg.min > 0 /\ cfg.max > cfg.min THEN cfg.min..(cfg.max - 1)
  ELSE {0}

LeastDelay == CHOOSE d \in Delays : \A e \in Delays : d <= e

PacedInit ==
  /\ Init
  /\ cfg \in Configs
  /\ phase = "top"
  /\ until = 0
  /\ running = 0
  /\ starts = <<>>

(* The next request of the loop: bucket.Wait(), if there is a bucket. *)
AskBucket ==
  /\ phase = "top" /\ Len(starts) < NJobs /\ cfg.limited
  /\ CallWait(main)
  /\ phase' = "wait"
  /\ UNCHANGED <<cfg, until, running, starts>>

(* Faulty variant: only the first request of a run waits for the bucket. *)
SkipBucketLater ==
  /\ phase = "top" /\ Len(starts) < NJobs /\ (~cfg.limited \/ starts # <<>>)
  /\ phase' = "delay"
  /\ UNCHANGED <<vars, cfg, until, running, starts>>

SkipBucket ==
  /\ phase = "top" /\ Len(starts) < NJobs /\ ~cfg.limited
  /\ phase' = "delay"
  /\ UNCHANGED <<vars, cfg, until, running, starts>>

Grant ==
  /\ phase = "wait"
  /\ TakeGranted(main)
  /\ phase' = "delay"
  /\ UNCHANGED <<cfg, until, running, starts>>

Retry ==
  /\ phase = "wait"
  /\ \/ TakeRefused(main)
     \/ WakeUp(main)
  /\ UNCHANGED loopVars

(* Faulty variant: the delay comes before the first request only. *)
BeginDelayInverted ==
  /\ phase = "delay"
  /\ phase' = "nap"
  /\ \E d \in IF starts = <<>> THEN Delays ELSE {0} : until' = now + d
  /\ UNCHANGED <<vars, cfg, running, starts>>

(* applyDelay, for every request but the first. *)
BeginDelay ==
  /\ phase = "delay"
  /\ phase' = "nap"
  /\ \E d \in IF starts = <<>> THEN {0} ELSE Delays : until' = now + d
  /\ UNCHANGED <<vars, cfg, running, starts>>

EndDelay ==
  /\ phase = "nap" /\ now >= until
  /\ phase' = "acquire"
  /\ UNCHANGED <<vars, cfg, until, running, starts>>

(* sem <- struct{}{} goes through and the request's goroutine starts. *)
Start ==
  /\ phase = "acquire" /\ running < cfg.concurrency
  /\ running' = running + 1
  /\ starts' = Append(starts, now)
  /\ phase' = "top"
  /\ UNCHANGED <<vars, cfg, until>>

(* A request ends, however long it took, and gives its token back. *)
End ==
  /\ running > 0
  /\ running' = running - 1
  /\ UNCHANGED <<vars, cfg, phase, until, starts>>

(* wg.Wait() returns. *)
JoinAll ==
  /\ phase = "top" /\ Len(starts) >= NJobs /\ running = 0
  /\ phase' = "done"
  /\ UNCHANGED <<vars, cfg, until, running, starts>>

Clock == Tick /\ UNCHANGED loopVars

PacedNext ==
  \/ AskBucket \/ SkipBucket \/ Grant \/ Retry
  \/ BeginDelay \/ EndDelay
  \/ Start \/ End \/ JoinAll
  \/ Clock

PacedSpec == PacedInit /\ [][PacedNext]_pacedVars

----------------------------------------------------------------------------
(* The loop's variables have their types, the bucket's are TokenBucket's,  *)
(* and the loop is inside bucket.Wait() exactly in its phase "wait".       *)
PacedTypeOK ==
  /\ TypeOK
  /\ cfg \in Configs
  /\ phase \in {"top", "wait", "delay", "nap", "acquire", "done"}
  /\ until \in Nat
  /\ running \in Nat
  /\ starts \in Seq(0..now)
  /\ (phase = "wait") <=> (pc[main] # "idle")

(* What the code holds of --rps, which is more than it promises (see       *)
(* RatePerSecond): the bucket starts full and refills while it is emptied, *)
(* and the loop may stand at the delay and the semaphore (engine.go:104,   *)
(* :108) with a token in its hand while the bucket fills behind it.  So an *)
(* interval sees at most one request more than a full bucket and what      *)
(* refills in it; that one is never two.                                   *)
StartBound ==
  cfg.limited =>
    \A i, j \in DOMAIN starts :
      i <= j => (j - i) * Second <= Capacity + (starts[j] - starts[i]) * RPS

(* The delay (engine.go:104) separates any start from the next although it *)
(* is slept before the semaphore is asked, and the wait there or in the    *)
(* bucket may be longer.                                                   *)
DelayBound ==
  \A k \in DOMAIN starts :
    k + 1 \in DOMAIN starts => starts[k + 1] - starts[k] >= LeastDelay

(* What main.go:72 and PROMPT.txt:13 say of --rps: no second sees more     *)
(* requests start than that, the others wait.                              *)
RatePerSecond ==
  cfg.limited =>
    \A i, j \in DOMAIN starts : j - i >= RPS => starts[j] - starts[i] >= Second
=============================================================================
