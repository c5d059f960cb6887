----------------------------- MODULE ReplayRun -----------------------------
(***************************************************************************)
(* What `replay run` promises, without the semaphore, the wait group, the  *)
(* goroutines or the shared variables that provide it: requests 1..Total   *)
(* start in order, at most Width at a time, each ends once with a status,  *)
(* and the result file is the record of all of them or does not exist as a *)
(* result.  ReplayEngine is shown to implement this specification.         *)
(***************************************************************************)
EXTENDS Integers, Sequences, FiniteSets

CONSTANTS
  Width,    \* requests in progress at once
  Statuses  \* how a request may end

VARIABLES
  total,      \* how many requests the run has, known once it has begun
  started,    \* how many of them have started
  active,     \* the ones in progress
  finished,   \* the record: what ended, in the order it ended
  published,  \* the result file: <<>>, or the record
  outcome     \* "running", "ok", "error" or "abort"

abstractVars == <<total, started, active, finished, published, outcome>>

Empty ==
  /\ started = 0
  /\ active = {}
  /\ finished = <<>>
  /\ published = <<>>
  /\ outcome = "running"

Init == total = 0 /\ Empty

(* The run learns its requests, before it starts any. *)
Begin ==
  /\ Empty
  /\ total = 0
  /\ total' \in Nat
  /\ UNCHANGED <<started, active, finished, published, outcome>>

Start ==
  /\ outcome = "running"
  /\ started < total
  /\ Cardinality(active) < Width
  /\ started' = started + 1
  /\ active' = active \cup {started + 1}
  /\ UNCHANGED <<total, finished, published, outcome>>

Finish ==
  /\ outcome = "running"
  /\ \E n \in active, s \in Statuses :
       /\ active' = active \ {n}
       /\ finished' = Append(finished, [job |-> n, status |-> s])
  /\ UNCHANGED <<total, started, published, outcome>>

Publish ==
  /\ outcome = "running"
  /\ started = total
  /\ active = {}
  /\ published' = finished
  /\ UNCHANGED <<total, started, active, finished, outcome>>

(* A run that ends well has run everything and nothing failed. *)
End ==
  /\ outcome = "running"
  /\ \/ /\ started = total
        /\ active = {}
        /\ \A p \in DOMAIN finished : finished[p].status # "failed"
        /\ outcome' = "ok"
     \/ active = {} /\ outcome' = "error"
     \/ (Width > 1 \/ started = 0) /\ outcome' = "abort"
  /\ UNCHANGED <<total, started, active, finished, published>>

Next == Begin \/ Start \/ Finish \/ Publish \/ End

Spec == Init /\ [][Next]_abstractVars
=============================================================================
