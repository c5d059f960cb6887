----------------------------- MODULE MCPacing ------------------------------
(* Instances of Pacing for TLC: the flags are every mixture that matters,  *)
(* with and without a bucket, fixed, random and no delay (a range that     *)
(* starts at 0 is none), one and two requests at a time.                   *)
EXTENDS Pacing

OneCaller == {main}

Flags(limited, delay, min, max, concurrency) ==
  [limited |-> limited, delay |-> delay, min |-> min, max |-> max,
   concurrency |-> concurrency]

MCConfigs ==
  {Flags(TRUE, 0, 0, 0, 1), Flags(TRUE, 0, 0, 3, 2), Flags(TRUE, 1, 2, 4, 2),
   Flags(TRUE, 0, 1, 3, 1), Flags(FALSE, 2, 0, 0, 2), Flags(FALSE, 0, 1, 3, 1)}
=============================================================================
