------------------------- MODULE SubstitutionProofs -------------------------
(***************************************************************************)
(* One request at a time: every placeholder gets the value of the latest   *)
(* earlier response that supplies it, for every session, every list of     *)
(* binds, every number of passes and every answer.                         *)
(***************************************************************************)
EXTENDS ReplayEngineProofs

(* Bind b finds its variable in answer a.                                  *)
Finds(b, a) ==
  /\ b.name \in a.offers
  /\ \/ b.source \in {"header", "regex"}
     \/ b.source = "json" /\ a.json

(* The binds that request n has been through have set v.                   *)
BoundSoFar(n, v) ==
  \E b \in DOMAIN Binds :
    b < local[n].next /\ Binds[b].name = v /\ Finds(Binds[b], local[n].answer)

Before == {"subst", "send", "setresp", "reset", "fill"}
During == {"bind", "assign"}

(* What the store holds, by the place of the latest request: what was      *)
(* there before it, some of its own values, or what the next one needs.    *)
StoreExact(n) ==
  /\ pc[n] \in Before => \A v \in Vars : store[v] = Expected(n, v)
  /\ pc[n] \in During =>
       \A v \in Vars : store[v] = IF BoundSoFar(n, v) THEN n ELSE Expected(n, v)
  /\ pc[n] \notin Before \cup During => \A v \in Vars : store[v] = Expected(n + 1, v)

(* What lastResp and lastRespBody hold is of the latest request as soon as *)
(* it can be used.                                                         *)
ResponseExact(n) ==
  /\ pc[n] \in {"setresp", "reset", "fill", "bind", "assign"} => local[n].status = "success"
  /\ pc[n] \in {"reset", "fill", "bind", "assign"} => lastResp = n
  /\ pc[n] = "fill" => local[n].answer.json /\ lastRespBody = NoBody
  /\ pc[n] \in During =>
       lastRespBody = [v \in Vars |-> IF local[n].answer.json /\ v \in local[n].answer.offers
                                      THEN n ELSE Unset]
  /\ pc[n] = "assign" =>
       /\ MoreBinds(n) /\ local[n].val = n
       /\ Finds(CurrentBind(n), local[n].answer)
  /\ pc[n] \in Before => local[n].next = 1

(* The requests before the latest one have given their token back.         *)
OneByOne == \A m \in DOMAIN pc : m # Len(pc) => pc[m] \notin Holding

SerialInv ==
  /\ OneByOne
  /\ pc = <<>> /\ mainPc \notin {"load", "filter", "exit1", "crashed"} =>
       \A v \in Vars : store[v] = EnvValue(v)
  /\ pc # <<>> => StoreExact(Len(pc)) /\ ResponseExact(Len(pc))
  /\ SubstitutionFollowsOrder

----------------------------------------------------------------------------
(* The expected value depends on the earlier responses only.               *)
LEMMA ExpectedStays ==
  ASSUME NEW n \in Nat, NEW v,
         \A m \in 1..n-1 : /\ local'[m].status = local[m].status
                           /\ local'[m].answer = local[m].answer
  PROVE  Expected(n, v)' = Expected(n, v)
<1>1. \A m \in 1..n-1 : Supplies(m, v)' <=> Supplies(m, v)
  BY DEF Supplies
<1> DEFINE S == {m \in 1..n-1 : Supplies(m, v)}
           T == {m \in 1..n-1 : Supplies(m, v)'}
           Last(U) == IF U = {} THEN EnvValue(v) ELSE CHOOSE m \in U : \A k \in U : k <= m
<1>2. T = S
  BY <1>1
<1>3. Expected(n, v) = Last(S)
  BY Zenon DEF Expected
<1>4. Expected(n, v)' = Last(T)
  BY Zenon DEF Expected, EnvValue
<1> HIDE DEF S, T, Last
<1>. QED
  BY <1>2, <1>3, <1>4

(* A response that supplies nothing leaves the next request what this one  *)
(* expected.                                                               *)
LEMMA ExpectedSkips ==
  ASSUME NEW n \in Nat \ {0}, NEW v,
         \A m \in 1..n-1 : /\ local'[m].status = local[m].status
                           /\ local'[m].answer = local[m].answer,
         ~Supplies(n, v)'
  PROVE  Expected(n + 1, v)' = Expected(n, v)
<1>1. \A m \in 1..n-1 : Supplies(m, v)' <=> Supplies(m, v)
  BY DEF Supplies
<1> DEFINE S == {m \in 1..n-1 : Supplies(m, v)}
           T == {m \in 1..(n+1)-1 : Supplies(m, v)'}
           Last(U) == IF U = {} THEN EnvValue(v) ELSE CHOOSE m \in U : \A k \in U : k <= m
<1>2. T = S
  <2>1. \A m : m \in 1..(n+1)-1 <=> m \in 1..n-1 \/ m = n
    OBVIOUS
  <2>. QED
    BY <1>1, <2>1
<1>3. Expected(n, v) = Last(S)
  BY Zenon DEF Expected
<1>4. Expected(n + 1, v)' = Last(T)
  BY Zenon DEF Expected, EnvValue
<1> HIDE DEF S, T, Last
<1>. QED
  BY <1>2, <1>3, <1>4

(* The next request expects this one's value, if it supplies one.          *)
LEMMA ExpectedNext ==
  ASSUME NEW n \in Nat \ {0}, NEW v
  PROVE  Expected(n + 1, v) = IF Supplies(n, v) THEN n ELSE Expected(n, v)
<1> DEFINE S == {m \in 1..n-1 : Supplies(m, v)}
           T == {m \in 1..(n+1)-1 : Supplies(m, v)}
<1>0. (n+1)-1 = n /\ \A m \in 1..n : m \in 1..n-1 \/ m = n
  OBVIOUS
<1>1. CASE Supplies(n, v)
  <2>1. n \in T /\ \A k \in T : k <= n
    BY <1>0, <1>1
  <2>2. \A m \in T : (\A k \in T : k <= m) => m = n
    BY <2>1
  <2>3. (CHOOSE m \in T : \A k \in T : k <= m) = n
    BY <2>1, <2>2
  <2>. QED
    BY <1>1, <2>1, <2>3 DEF Expected
<1>2. CASE ~Supplies(n, v)
  <2>1. T = S
    BY <1>0, <1>2
  <2>2. Expected(n, v) = IF S = {} THEN EnvValue(v) ELSE CHOOSE m \in S : \A k \in S : k <= m
    BY Zenon DEF Expected
  <2>3. Expected(n + 1, v) = IF T = {} THEN EnvValue(v)
                             ELSE CHOOSE m \in T : \A k \in T : k <= m
    BY Zenon DEF Expected
  <2> HIDE DEF S, T
  <2>. QED
    BY <1>2, <2>1, <2>2, <2>3, Zenon
<1>. QED
  BY <1>1, <1>2

(* Before any request there is only the environment.                       *)
LEMMA ExpectedFirst ==
  ASSUME NEW v
  PROVE  Expected(1, v) = EnvValue(v)
  BY DEF Expected

(* Types that the steps below use.                                         *)
LEMMA Shapes ==
  ASSUME Inductive
  PROVE  /\ Len(pc) \in Nat
         /\ DOMAIN pc = 1..Len(pc) /\ DOMAIN local = 1..Len(pc)
         /\ pc = <<>> <=> Len(pc) = 0
         /\ pc \in Seq(WorkerPc)
         /\ \A m \in DOMAIN pc : pc[m] \in WorkerPc /\ local[m] \in WorkerType
         /\ store \in [Vars -> Values] /\ lastRespBody \in [Vars -> Values]
<1>1. pc \in Seq(WorkerPc) /\ local \in Seq(WorkerType) /\ Len(local) = Len(pc)
      /\ store \in [Vars -> Values] /\ lastRespBody \in [Vars -> Values]
  BY DEF Inductive, TypeOK
<1>2. /\ Len(pc) \in Nat
      /\ DOMAIN pc = 1..Len(pc) /\ DOMAIN local = 1..Len(pc)
  BY <1>1, LenProperties
<1>3. pc = <<>> <=> Len(pc) = 0
  BY <1>1, EmptySeq
<1>. QED
  BY <1>1, <1>2, <1>3, ElementOfSeq

----------------------------------------------------------------------------
(* A step of a request that has its token: it is the latest one, and what  *)
(* any request so far expects does not change.                             *)
LEMMA Turn ==
  ASSUME Inductive, SerialInv,
         NEW n \in DOMAIN pc, NEW from \in Holding, NEW to \in WorkerPc, Step(n, from, to),
         \A m \in DOMAIN pc : m # n => local'[m] = local[m]
  PROVE  /\ n = Len(pc) /\ n \in Nat \ {0} /\ pc # <<>>
         /\ Len(pc') = n /\ DOMAIN pc' = DOMAIN pc /\ pc' # <<>>
         /\ pc[n] = from /\ pc'[n] = to
         /\ OneByOne'
         /\ \A k \in 1..n : Uses(k)' = Uses(k)
         /\ \A k \in 1..n : \A v : Expected(k, v)' = Expected(k, v)
         /\ StoreExact(n) /\ ResponseExact(n)
<1>1. /\ pc \in Seq(WorkerPc) /\ Len(pc) \in Nat /\ DOMAIN pc = 1..Len(pc)
      /\ pc = <<>> <=> Len(pc) = 0
  BY Shapes
<1>2. /\ pc[n] = from /\ pc'[n] = to /\ pc' \in Seq(WorkerPc)
      /\ Len(pc') = Len(pc) /\ DOMAIN pc' = DOMAIN pc
      /\ \A m \in DOMAIN pc : m # n => pc'[m] = pc[m]
  BY <1>1, StepMoves
<1>3. n = Len(pc)
  BY <1>2 DEF SerialInv, OneByOne
<1>4. n \in Nat \ {0} /\ pc # <<>> /\ pc' # <<>>
  BY <1>1, <1>2, <1>3, EmptySeq
<1>5. OneByOne'
  BY <1>2, <1>3 DEF SerialInv, OneByOne
<1>6. \A k \in 1..n : Uses(k)' = Uses(k)
  BY DEF Step, Uses, EntryOf, Kept
<1>7. ASSUME NEW k \in 1..n, NEW v
      PROVE  Expected(k, v)' = Expected(k, v)
  <2>0. \A m \in 1..k-1 : m \in 1..n /\ m # n
    BY <1>4
  <2>1. k \in Nat
    BY <1>4
  <2>2. \A m \in 1..k-1 : m \in DOMAIN pc /\ m # n
    BY <1>1, <1>3, <2>0, Zenon
  <2>. QED
    BY <2>1, <2>2, ExpectedStays
<1>8. StoreExact(n) /\ ResponseExact(n)
  BY <1>3, <1>4 DEF SerialInv
<1>. QED
  BY <1>2, <1>3, <1>4, <1>5, <1>6, <1>7, <1>8

(* Such a step keeps every placeholder's value where it adds none.         *)
LEMMA SeenStays ==
  ASSUME Inductive, SerialInv,
         NEW n \in DOMAIN pc, NEW from \in Holding, NEW to \in WorkerPc, Step(n, from, to),
         \A m \in DOMAIN pc : m # n => local'[m] = local[m],
         local'[n].seen = local[n].seen
  PROVE  SubstitutionFollowsOrder'
<1>1. ASSUME NEW m \in DOMAIN pc', NEW k \in DOMAIN local'[m].seen
      PROVE  local'[m].seen[k] = Expected(m, Uses(m)[k])'
  <2>1. m \in DOMAIN pc /\ m \in 1..n /\ local'[m].seen = local[m].seen
    BY Turn, Shapes
  <2>2. local[m].seen[k] = Expected(m, Uses(m)[k])
    BY <1>1, <2>1 DEF SerialInv, SubstitutionFollowsOrder
  <2>3. Uses(m)' = Uses(m) /\ \A v : Expected(m, v)' = Expected(m, v)
    BY <2>1, Turn
  <2>. QED
    BY <2>1, <2>2, <2>3
<1>. QED
  BY <1>1 DEF SubstitutionFollowsOrder

(* It remains to see what the step does to the store and the response.     *)
LEMMA TurnKeeps ==
  ASSUME Inductive, SerialInv,
         NEW n \in DOMAIN pc, NEW from \in Holding, NEW to \in WorkerPc, Step(n, from, to),
         \A m \in DOMAIN pc : m # n => local'[m] = local[m],
         SubstitutionFollowsOrder', StoreExact(n)', ResponseExact(n)'
  PROVE  SerialInv'
<1>1. OneByOne' /\ pc' # <<>> /\ Len(pc') = n
  BY Turn
<1>2. StoreExact(Len(pc))' /\ ResponseExact(Len(pc))'
  BY <1>1 DEF StoreExact, ResponseExact, BoundSoFar, MoreBinds, CurrentBind
<1>. QED
  BY <1>1, <1>2 DEF SerialInv

(* The places of a request, for the steps below.                           *)
LEMMA Places ==
  /\ {"subst", "send", "setresp", "reset", "fill", "bind", "assign", "append"} \subseteq Holding
  /\ "release" \in Holding /\ "wgdone" \in WorkerPc /\ "end" \in WorkerPc
  /\ Holding \subseteq WorkerPc /\ "wgdone" \notin Holding /\ "end" \notin Holding
  BY DEF Holding, Working, WorkerPc, Live

(* Reading one placeholder gives it the expected value.                    *)
LEMMA SubstituteKeeps ==
  ASSUME Inductive, SerialInv, NEW n \in DOMAIN pc, Substitute(n)
  PROVE  SerialInv'
<1>. DEFINE x == store[Uses(n)[Len(local[n].seen) + 1]]
            r == [local[n] EXCEPT !.seen = Append(@, x)]
<1>1. /\ Step(n, "subst", "subst") /\ local' = [local EXCEPT ![n] = r]
      /\ UNCHANGED <<store, lastResp, lastRespBody>> /\ Pending(n)
  BY DEF Substitute, storeVars
<1>2. /\ local[n] \in WorkerType /\ DOMAIN local = DOMAIN pc
      /\ local'[n] = r /\ \A m \in DOMAIN pc : m # n => local'[m] = local[m]
  BY <1>1, Shapes
<1>3. /\ r.next = local[n].next /\ r.status = local[n].status /\ r.answer = local[n].answer
      /\ r.seen = Append(local[n].seen, x)
  BY <1>2 DEF WorkerType
<1>4. /\ n \in Nat \ {0} /\ pc[n] = "subst" /\ pc'[n] = "subst"
      /\ DOMAIN pc' = DOMAIN pc /\ DOMAIN pc = 1..n
      /\ \A k \in 1..n : Uses(k)' = Uses(k)
      /\ \A k \in 1..n : \A v : Expected(k, v)' = Expected(k, v)
      /\ StoreExact(n) /\ ResponseExact(n)
  BY <1>1, <1>2, Places, Turn, Shapes
<1>5. StoreExact(n)'
  BY <1>1, <1>4 DEF StoreExact, Before, During
<1>6. ResponseExact(n)'
  BY <1>1, <1>2, <1>3, <1>4 DEF ResponseExact, Before, During
<1>7. \A v \in Vars : store[v] = Expected(n, v)
  BY <1>4 DEF StoreExact, Before
<1>8. Uses(n)[Len(local[n].seen) + 1] \in Vars
  <2>1. n \in 1..NJobs /\ entries \in Seq(EntryType)
    BY <1>4, Shapes, KeptFacts DEF Inductive, TypeOK, PhaseExact
  <2>2. Uses(n) \in Seq(Vars) /\ local[n].seen \in Seq(Values)
    BY <1>2, <2>1, UsesType DEF WorkerType
  <2>3. Len(local[n].seen) + 1 \in 1..Len(Uses(n))
    BY <1>1, <2>2, LenProperties DEF Pending
  <2>. QED
    BY <2>2, <2>3, ElementOfSeq
<1>9. SubstitutionFollowsOrder'
  <2>1. ASSUME NEW m \in DOMAIN pc', NEW k \in DOMAIN local'[m].seen
        PROVE  local'[m].seen[k] = Expected(m, Uses(m)[k])'
    <3>1. m \in DOMAIN pc /\ m \in 1..n /\ Uses(m)' = Uses(m)
          /\ \A v : Expected(m, v)' = Expected(m, v)
      BY <1>4
    <3>2. CASE m # n
      <4>1. local'[m].seen = local[m].seen
        BY <1>2, <3>1, <3>2
      <4>. QED
        BY <2>1, <3>1, <4>1 DEF SerialInv, SubstitutionFollowsOrder
    <3>3. CASE m = n
      <4>1. local[n].seen \in Seq(Values) /\ x \in Values
        BY <1>2, <1>8, Shapes DEF WorkerType
      <4>2. /\ Len(local[n].seen) \in Nat
            /\ DOMAIN local[n].seen = 1..Len(local[n].seen)
            /\ DOMAIN Append(local[n].seen, x) = 1..Len(local[n].seen) + 1
            /\ Append(local[n].seen, x)[Len(local[n].seen) + 1] = x
            /\ \A i \in 1..Len(local[n].seen) : Append(local[n].seen, x)[i] = local[n].seen[i]
        BY <4>1, AppendProperties, LenProperties
      <4>3. local'[m].seen = Append(local[n].seen, x)
        BY <1>2, <1>3, <3>3
      <4>4. CASE k = Len(local[n].seen) + 1
        BY <1>7, <1>8, <3>1, <3>3, <4>2, <4>3, <4>4
      <4>5. CASE k # Len(local[n].seen) + 1
        <5>1. k \in DOMAIN local[n].seen /\ local'[m].seen[k] = local[n].seen[k]
          BY <2>1, <4>2, <4>3, <4>5
        <5>2. local[n].seen[k] = Expected(n, Uses(n)[k])
          BY <5>1 DEF SerialInv, SubstitutionFollowsOrder
        <5>. QED
          BY <3>1, <3>3, <5>1, <5>2
      <4>. QED
        BY <4>4, <4>5
    <3>. QED
      BY <3>2, <3>3
  <2>. QED
    BY <2>1 DEF SubstitutionFollowsOrder
<1>. QED
  BY <1>1, <1>2, <1>5, <1>6, <1>9, Places, TurnKeeps

(* A step that leaves what the goroutines know.                            *)
LEMMA SilentTurn ==
  ASSUME Inductive, SerialInv, UNCHANGED local,
         NEW n \in DOMAIN pc, NEW from \in Holding, NEW to \in WorkerPc, Step(n, from, to),
         StoreExact(n)', ResponseExact(n)'
  PROVE  SerialInv'
  BY SeenStays, TurnKeeps

(* From the substitution to the request.                                   *)
LEMMA SubstitutedKeeps ==
  ASSUME Inductive, SerialInv, NEW n \in DOMAIN pc, Substituted(n)
  PROVE  SerialInv'
<1>1. Step(n, "subst", "send") /\ UNCHANGED <<local, store, lastResp, lastRespBody>>
  BY DEF Substituted, storeVars
<1>2. /\ n \in Nat \ {0} /\ pc[n] = "subst" /\ pc'[n] = "send"
      /\ \A v : Expected(n, v)' = Expected(n, v)
      /\ StoreExact(n) /\ ResponseExact(n)
  BY <1>1, Places, Turn
<1>3. StoreExact(n)' /\ ResponseExact(n)'
  BY <1>1, <1>2 DEF StoreExact, ResponseExact, Before, During
<1>. QED
  BY <1>1, <1>3, Places, SilentTurn

(* A request that ends without a response supplies nothing.                *)
LEMMA UnansweredKeeps ==
  ASSUME Inductive, SerialInv, NEW n \in DOMAIN pc, SubstitutedDryRun(n) \/ SendFails(n)
  PROVE  SerialInv'
<1>1. PICK from \in {"subst", "send"}, status \in {"dry_run", "failed"} :
        /\ Step(n, from, "append")
        /\ local' = [local EXCEPT ![n].status = status]
        /\ UNCHANGED <<store, lastResp, lastRespBody>>
  BY DEF SubstitutedDryRun, SendFails, storeVars
<1>2. /\ local[n] \in WorkerType /\ DOMAIN local = DOMAIN pc
      /\ local'[n].status = status /\ local'[n].seen = local[n].seen
      /\ \A m \in DOMAIN pc : m # n => local'[m] = local[m]
  BY <1>1, Shapes DEF WorkerType
<1>3. /\ n \in Nat \ {0} /\ pc[n] = from /\ pc'[n] = "append" /\ DOMAIN pc = 1..n
      /\ StoreExact(n) /\ ResponseExact(n)
  BY <1>1, <1>2, Places, Turn, Shapes
<1>5. \A v : Expected(n + 1, v)' = Expected(n, v)
  <2>1. \A m \in 1..n-1 : m \in DOMAIN pc /\ m # n
    BY <1>3
  <2>. QED
    BY <1>2, <1>3, <2>1, ExpectedSkips DEF Supplies
<1>6. StoreExact(n)' /\ ResponseExact(n)'
  BY <1>1, <1>3, <1>5 DEF StoreExact, ResponseExact, Before, During
<1>. QED
  BY <1>1, <1>2, <1>6, Places, SeenStays, TurnKeeps

(* A response changes neither the store nor what was expected before it.   *)
LEMMA SendSucceedsKeeps ==
  ASSUME Inductive, SerialInv, NEW n \in DOMAIN pc, SendSucceeds(n)
  PROVE  SerialInv'
<1>1. PICK a \in Answers :
        /\ Step(n, "send", "setresp")
        /\ local' = [local EXCEPT ![n].status = "success", ![n].answer = a]
        /\ UNCHANGED <<store, lastResp, lastRespBody>>
  BY DEF SendSucceeds, storeVars
<1>2. /\ local[n] \in WorkerType /\ DOMAIN local = DOMAIN pc
      /\ local'[n].status = "success" /\ local'[n].seen = local[n].seen
      /\ local'[n].next = local[n].next
      /\ \A m \in DOMAIN pc : m # n => local'[m] = local[m]
  BY <1>1, Shapes DEF WorkerType
<1>3. /\ n \in Nat \ {0} /\ pc[n] = "send" /\ pc'[n] = "setresp"
      /\ \A v : Expected(n, v)' = Expected(n, v)
      /\ StoreExact(n) /\ ResponseExact(n)
  BY <1>1, <1>2, Places, Turn
<1>4. StoreExact(n)' /\ ResponseExact(n)'
  BY <1>1, <1>2, <1>3 DEF StoreExact, ResponseExact, Before, During
<1>. QED
  BY <1>1, <1>2, <1>4, Places, SeenStays, TurnKeeps

(* SetResponse, its first step.                                            *)
LEMMA SetLastRespKeeps ==
  ASSUME Inductive, SerialInv, NEW n \in DOMAIN pc, SetLastResp(n)
  PROVE  SerialInv'
<1>1. Step(n, "setresp", "reset") /\ lastResp' = n /\ UNCHANGED <<local, store, lastRespBody>>
  BY DEF SetLastResp
<1>2. /\ n \in Nat \ {0} /\ pc[n] = "setresp" /\ pc'[n] = "reset"
      /\ \A v : Expected(n, v)' = Expected(n, v)
      /\ StoreExact(n) /\ ResponseExact(n)
  BY <1>1, Places, Turn
<1>3. StoreExact(n)' /\ ResponseExact(n)'
  BY <1>1, <1>2 DEF StoreExact, ResponseExact, Before, During
<1>. QED
  BY <1>1, <1>3, Places, SilentTurn

(* No bind has been applied before the first.                              *)
LEMMA NothingBound ==
  ASSUME NEW n, NEW v, local[n].next = 1
  PROVE  ~BoundSoFar(n, v)
<1>1. DOMAIN Binds = 1..Len(Binds) /\ Len(Binds) \in Nat
  BY BindsAssumption, LenProperties
<1>. QED
  BY <1>1 DEF BoundSoFar

(* The new map: it stays empty for a body that is not a JSON object.       *)
LEMMA ResetBodyKeeps ==
  ASSUME Inductive, SerialInv, NEW n \in DOMAIN pc, ResetBody(n)
  PROVE  SerialInv'
<1>. DEFINE to == IF local[n].answer.json THEN "fill" ELSE "bind"
<1>1. /\ Step(n, "reset", to) /\ lastRespBody' = NoBody
      /\ UNCHANGED <<local, store, lastResp>>
  BY DEF ResetBody
<1>0. to \in WorkerPc
  BY Places
<1>2. /\ n \in Nat \ {0} /\ pc[n] = "reset" /\ pc'[n] = to
      /\ \A v : Expected(n, v)' = Expected(n, v)
      /\ StoreExact(n) /\ ResponseExact(n)
  BY <1>0, <1>1, Places, Turn
<1>3. \A v : BoundSoFar(n, v)' = FALSE
  <2>1. local[n].next = 1
    BY <1>2 DEF ResponseExact, Before
  <2>2. \A v : ~BoundSoFar(n, v)
    BY <2>1, NothingBound
  <2>. QED
    BY <1>1, <2>2 DEF BoundSoFar
<1>4. StoreExact(n)'
  BY <1>1, <1>2, <1>3 DEF StoreExact, Before, During
<1>5. ResponseExact(n)'
  BY <1>1, <1>2 DEF ResponseExact, Before, During, NoBody
<1>. QED
  BY <1>0, <1>1, <1>4, <1>5, Places, SilentTurn

(* The unmarshalled fields are this response's alone.                      *)
LEMMA FillBodyKeeps ==
  ASSUME Inductive, SerialInv, NEW n \in DOMAIN pc, FillBody(n)
  PROVE  SerialInv'
<1>1. /\ Step(n, "fill", "bind") /\ UNCHANGED <<local, store, lastResp>>
      /\ lastRespBody' = [v \in Vars |-> IF v \in local[n].answer.offers
                                         THEN n ELSE lastRespBody[v]]
  BY DEF FillBody
<1>2. /\ n \in Nat \ {0} /\ pc[n] = "fill" /\ pc'[n] = "bind"
      /\ \A v : Expected(n, v)' = Expected(n, v)
      /\ StoreExact(n) /\ ResponseExact(n)
  BY <1>1, Places, Turn
<1>3. \A v : BoundSoFar(n, v)' = FALSE
  <2>1. local[n].next = 1
    BY <1>2 DEF ResponseExact, Before
  <2>2. \A v : ~BoundSoFar(n, v)
    BY <2>1, NothingBound
  <2>. QED
    BY <1>1, <2>2 DEF BoundSoFar
<1>4. StoreExact(n)'
  BY <1>1, <1>2, <1>3 DEF StoreExact, Before, During
<1>5. ResponseExact(n)'
  BY <1>1, <1>2 DEF ResponseExact, Before, During, NoBody
<1>. QED
  BY <1>1, <1>4, <1>5, Places, SilentTurn

(* What a bind is applied to is this request's response.                   *)
LEMMA ExtractedIsOwn ==
  ASSUME NEW n \in Nat \ {0}, ResponseExact(n), pc[n] \in During, MoreBinds(n),
         local[n] \in WorkerType
  PROVE  /\ CurrentBind(n) \in BindType
         /\ local[n].next \in DOMAIN Binds
         /\ Extracted(CurrentBind(n)) =
              IF Finds(CurrentBind(n), local[n].answer) THEN n ELSE Unset
<1> DEFINE b == CurrentBind(n)
<1>1. local[n].next \in 1..Len(Binds) /\ DOMAIN Binds = 1..Len(Binds)
  BY BindsAssumption, LenProperties DEF MoreBinds, WorkerType
<1>2. b \in BindType
  BY <1>1, BindsAssumption, ElementOfSeq DEF CurrentBind
<1>3. /\ lastResp = n /\ n # 0
      /\ lastRespBody = [v \in Vars |-> IF local[n].answer.json /\ v \in local[n].answer.offers
                                        THEN n ELSE Unset]
  BY DEF ResponseExact, During
<1>4. b.name \in Vars
  BY <1>2 DEF BindType
<1>5. ASSUME b.source = "json"
      PROVE  Extracted(b) = IF Finds(b, local[n].answer) THEN n ELSE Unset
  <2>1. Extracted(b) = lastRespBody[b.name]
    BY <1>5 DEF Extracted
  <2>2. lastRespBody[b.name] = IF local[n].answer.json /\ b.name \in local[n].answer.offers
                               THEN n ELSE Unset
    BY <1>3, <1>4
  <2>3. Finds(b, local[n].answer) <=> local[n].answer.json /\ b.name \in local[n].answer.offers
    BY <1>5 DEF Finds
  <2>. QED
    BY <2>1, <2>2, <2>3
<1>6. ASSUME b.source \in {"header", "regex"}
      PROVE  Extracted(b) = IF Finds(b, local[n].answer) THEN n ELSE Unset
  <2>1. Extracted(b) = IF lastResp # 0 /\ b.name \in local[lastResp].answer.offers
                       THEN lastResp ELSE Unset
    BY <1>6 DEF Extracted
  <2>2. Finds(b, local[n].answer) <=> b.name \in local[n].answer.offers
    BY <1>6 DEF Finds
  <2>. QED
    BY <1>3, <2>1, <2>2
<1>7. ASSUME b.source \notin {"json", "header", "regex"}
      PROVE  Extracted(b) = IF Finds(b, local[n].answer) THEN n ELSE Unset
  <2>1. Extracted(b) = Unset
    BY <1>7 DEF Extracted
  <2>2. ~Finds(b, local[n].answer)
    BY <1>7 DEF Finds
  <2>. QED
    BY <2>1, <2>2
<1>8. Extracted(b) = IF Finds(b, local[n].answer) THEN n ELSE Unset
  BY <1>5, <1>6, <1>7
<1>. QED
  BY <1>1, <1>2, <1>8

(* One bind further, what it finds is bound as well.                       *)
LEMMA BoundNext ==
  ASSUME NEW n \in DOMAIN local, local[n] \in WorkerType, MoreBinds(n),
         local' = [local EXCEPT ![n].next = @ + 1], NEW v
  PROVE  BoundSoFar(n, v)' <=>
           \/ BoundSoFar(n, v)
           \/ CurrentBind(n).name = v /\ Finds(CurrentBind(n), local[n].answer)
<1>1. /\ DOMAIN Binds = 1..Len(Binds) /\ Len(Binds) \in Nat
      /\ local[n].next \in 1..Len(Binds)
  BY BindsAssumption, LenProperties DEF MoreBinds, WorkerType
<1>2. local'[n].next = local[n].next + 1 /\ local'[n].answer = local[n].answer
  BY DEF WorkerType
<1>3. \A b \in DOMAIN Binds : b < local[n].next + 1 <=> b < local[n].next \/ b = local[n].next
  BY <1>1
<1>. QED
  BY <1>1, <1>2, <1>3 DEF BoundSoFar, CurrentBind

(* A bind that finds nothing leaves what was there.                        *)
LEMMA BindMissesKeeps ==
  ASSUME Inductive, SerialInv, NEW n \in DOMAIN pc, BindMisses(n)
  PROVE  SerialInv'
<1>1. /\ Step(n, "bind", "bind") /\ UNCHANGED <<store, lastResp, lastRespBody>>
      /\ local' = [local EXCEPT ![n].next = @ + 1]
      /\ MoreBinds(n) /\ Extracted(CurrentBind(n)) = Unset
  BY DEF BindMisses, storeVars
<1>2. /\ local[n] \in WorkerType /\ n \in DOMAIN local /\ DOMAIN local = DOMAIN pc
      /\ local'[n].seen = local[n].seen /\ local'[n].answer = local[n].answer
      /\ local'[n].status = local[n].status
      /\ \A m \in DOMAIN pc : m # n => local'[m] = local[m]
  BY <1>1, Shapes DEF WorkerType
<1>3. /\ n \in Nat \ {0} /\ pc[n] = "bind" /\ pc'[n] = "bind"
      /\ \A v : Expected(n, v)' = Expected(n, v)
      /\ StoreExact(n) /\ ResponseExact(n)
  BY <1>1, <1>2, Places, Turn
<1>4. ~Finds(CurrentBind(n), local[n].answer)
  <2>1. pc[n] \in During
    BY <1>3 DEF During
  <2>2. Extracted(CurrentBind(n)) = IF Finds(CurrentBind(n), local[n].answer) THEN n ELSE Unset
    BY <1>1, <1>2, <1>3, <2>1, ExtractedIsOwn
  <2>. QED
    BY <1>1, <1>3, <2>2 DEF Unset
<1>5. \A v : BoundSoFar(n, v)' <=> BoundSoFar(n, v)
  BY <1>1, <1>2, <1>4, BoundNext
<1>6. StoreExact(n)'
  BY <1>1, <1>3, <1>5 DEF StoreExact, Before, During
<1>7. ResponseExact(n)'
  BY <1>1, <1>2, <1>3 DEF ResponseExact, Before, During
<1>. QED
  BY <1>1, <1>2, <1>6, <1>7, Places, SeenStays, TurnKeeps

(* A bind that finds its variable holds this request's value.              *)
LEMMA BindExtractsKeeps ==
  ASSUME Inductive, SerialInv, NEW n \in DOMAIN pc, BindExtracts(n)
  PROVE  SerialInv'
<1>1. /\ Step(n, "bind", "assign") /\ UNCHANGED <<store, lastResp, lastRespBody>>
      /\ local' = [local EXCEPT ![n].val = Extracted(CurrentBind(n))]
      /\ MoreBinds(n) /\ Extracted(CurrentBind(n)) # Unset
  BY DEF BindExtracts, storeVars
<1>2. /\ local[n] \in WorkerType /\ DOMAIN local = DOMAIN pc
      /\ local'[n].seen = local[n].seen /\ local'[n].answer = local[n].answer
      /\ local'[n].status = local[n].status /\ local'[n].next = local[n].next
      /\ local'[n].val = Extracted(CurrentBind(n))
      /\ \A m \in DOMAIN pc : m # n => local'[m] = local[m]
  BY <1>1, Shapes DEF WorkerType
<1>3. /\ n \in Nat \ {0} /\ pc[n] = "bind" /\ pc'[n] = "assign"
      /\ \A v : Expected(n, v)' = Expected(n, v)
      /\ StoreExact(n) /\ ResponseExact(n)
  BY <1>1, <1>2, Places, Turn
<1>4. Finds(CurrentBind(n), local[n].answer) /\ local'[n].val = n
  <2>1. pc[n] \in During
    BY <1>3 DEF During
  <2>2. Extracted(CurrentBind(n)) = IF Finds(CurrentBind(n), local[n].answer) THEN n ELSE Unset
    BY <1>1, <1>2, <1>3, <2>1, ExtractedIsOwn
  <2>. QED
    BY <1>1, <1>2, <2>2
<1>5. \A v : BoundSoFar(n, v)' <=> BoundSoFar(n, v)
  BY <1>2 DEF BoundSoFar
<1>6. StoreExact(n)'
  BY <1>1, <1>3, <1>5 DEF StoreExact, Before, During
<1>7. CurrentBind(n)' = CurrentBind(n) /\ (MoreBinds(n)' <=> MoreBinds(n))
  BY <1>2 DEF CurrentBind, MoreBinds
<1>8. ResponseExact(n)'
  BY <1>1, <1>2, <1>3, <1>4, <1>7 DEF ResponseExact, Before, During
<1>. QED
  BY <1>1, <1>2, <1>6, <1>8, Places, SeenStays, TurnKeeps

(* The assignment overwrites whatever was there.                           *)
LEMMA BindAssignsKeeps ==
  ASSUME Inductive, SerialInv, NEW n \in DOMAIN pc, BindAssigns(n)
  PROVE  SerialInv'
<1>1. /\ Step(n, "assign", "bind") /\ UNCHANGED <<lastResp, lastRespBody>>
      /\ local' = [local EXCEPT ![n].next = @ + 1]
      /\ store' = [store EXCEPT ![CurrentBind(n).name] = local[n].val]
  BY DEF BindAssigns
<1>2. /\ local[n] \in WorkerType /\ n \in DOMAIN local /\ DOMAIN local = DOMAIN pc
      /\ local'[n].seen = local[n].seen /\ local'[n].answer = local[n].answer
      /\ local'[n].status = local[n].status
      /\ \A m \in DOMAIN pc : m # n => local'[m] = local[m]
      /\ store \in [Vars -> Values]
  BY <1>1, Shapes DEF WorkerType
<1>3. /\ n \in Nat \ {0} /\ pc[n] = "assign" /\ pc'[n] = "bind"
      /\ \A v : Expected(n, v)' = Expected(n, v)
      /\ StoreExact(n) /\ ResponseExact(n)
  BY <1>1, <1>2, Places, Turn
<1>4. /\ MoreBinds(n) /\ local[n].val = n /\ Finds(CurrentBind(n), local[n].answer)
  BY <1>3 DEF ResponseExact
<1>5. CurrentBind(n).name \in Vars
  <2>1. pc[n] \in During
    BY <1>3 DEF During
  <2>2. CurrentBind(n) \in BindType
    BY <1>2, <1>3, <1>4, <2>1, ExtractedIsOwn
  <2>. QED
    BY <2>2 DEF BindType
<1>6. \A v : BoundSoFar(n, v)' <=> BoundSoFar(n, v) \/ CurrentBind(n).name = v
  BY <1>1, <1>2, <1>4, BoundNext
<1>7. \A v \in Vars : store'[v] = IF v = CurrentBind(n).name THEN n ELSE store[v]
  BY <1>1, <1>2, <1>4, <1>5
<1>8. StoreExact(n)'
  BY <1>3, <1>6, <1>7 DEF StoreExact, Before, During
<1>9. ResponseExact(n)'
  BY <1>1, <1>2, <1>3 DEF ResponseExact, Before, During
<1>. QED
  BY <1>1, <1>2, <1>8, <1>9, Places, SeenStays, TurnKeeps

(* When every bind has been through, what is bound is what was supplied.   *)
LEMMA AllBound ==
  ASSUME NEW n \in DOMAIN pc, local[n] \in WorkerType, ~MoreBinds(n),
         local[n].status = "success", NEW v
  PROVE  BoundSoFar(n, v) <=> Supplies(n, v)
<1>1. /\ DOMAIN Binds = 1..Len(Binds) /\ Len(Binds) \in Nat
      /\ local[n].next \in Nat /\ local[n].answer \in AnswerType
      /\ ~(local[n].next <= Len(Binds))
  BY BindsAssumption, LenProperties DEF MoreBinds, WorkerType
<1>2. \A b \in DOMAIN Binds : b < local[n].next
  BY <1>1
<1>3. ASSUME BoundSoFar(n, v)
      PROVE  Supplies(n, v)
  BY <1>3 DEF BoundSoFar, Supplies, Finds
<1>4. ASSUME Supplies(n, v)
      PROVE  BoundSoFar(n, v)
  <2>1. PICK b \in DOMAIN Binds :
          /\ Binds[b].name = v
          /\ \/ Binds[b].source \in {"header", "regex"}
             \/ Binds[b].source = "json" /\ local[n].answer.json
    BY <1>4 DEF Supplies
  <2>2. v \in local[n].answer.offers
    BY <1>4 DEF Supplies
  <2>3. Finds(Binds[b], local[n].answer)
    BY <2>1, <2>2 DEF Finds
  <2>. QED
    BY <1>2, <2>1, <2>3 DEF BoundSoFar
<1>. QED
  BY <1>3, <1>4

(* After its last bind the store is as the next request needs it.          *)
LEMMA BindsDoneKeeps ==
  ASSUME Inductive, SerialInv, NEW n \in DOMAIN pc, BindsDone(n)
  PROVE  SerialInv'
<1>1. /\ Step(n, "bind", "append") /\ UNCHANGED <<local, store, lastResp, lastRespBody>>
      /\ ~MoreBinds(n)
  BY DEF BindsDone, storeVars
<1>2. /\ n \in Nat \ {0} /\ pc[n] = "bind" /\ pc'[n] = "append"
      /\ StoreExact(n) /\ ResponseExact(n) /\ local[n] \in WorkerType
  BY <1>1, Places, Turn, Shapes
<1>3. local[n].status = "success"
  BY <1>2 DEF ResponseExact
<1>4. \A v \in Vars : store[v] = IF BoundSoFar(n, v) THEN n ELSE Expected(n, v)
  BY <1>2 DEF StoreExact, During
<1>5. ASSUME NEW v \in Vars
      PROVE  store'[v] = Expected(n + 1, v)'
  <2>1. Expected(n + 1, v)' = Expected(n + 1, v)
    BY <1>1, <1>2, ExpectedStays
  <2>2. Expected(n + 1, v) = IF Supplies(n, v) THEN n ELSE Expected(n, v)
    BY <1>2, ExpectedNext
  <2>3. BoundSoFar(n, v) <=> Supplies(n, v)
    BY <1>1, <1>2, <1>3, AllBound
  <2>. QED
    BY <1>1, <1>4, <2>1, <2>2, <2>3
<1>6. StoreExact(n)' /\ ResponseExact(n)'
  BY <1>2, <1>5 DEF StoreExact, ResponseExact, Before, During
<1>. QED
  BY <1>1, <1>6, Places, SilentTurn

(* The request appends its result and gives its token back.                *)
LEMMA LeavingKeeps ==
  ASSUME Inductive, SerialInv, NEW n \in DOMAIN pc, AppendResult(n) \/ Release(n)
  PROVE  SerialInv'
<1>1. PICK from \in {"append", "release"}, to \in {"release", "wgdone"} :
        Step(n, from, to) /\ UNCHANGED <<local, store, lastResp, lastRespBody>>
  BY DEF AppendResult, Release, storeVars
<1>2. /\ n \in Nat \ {0} /\ pc[n] = from /\ pc'[n] = to
      /\ StoreExact(n) /\ ResponseExact(n)
  BY <1>1, Places, Turn
<1>3. \A v \in Vars : store[v] = Expected(n + 1, v)
  BY <1>1, <1>2 DEF StoreExact, Before, During
<1>4. \A v : Expected(n + 1, v)' = Expected(n + 1, v)
  BY <1>1, <1>2, ExpectedStays
<1>5. StoreExact(n)' /\ ResponseExact(n)'
  BY <1>1, <1>2, <1>3, <1>4 DEF StoreExact, ResponseExact, Before, During
<1>. QED
  BY <1>1, <1>5, Places, SilentTurn

----------------------------------------------------------------------------
(* A step that changes nothing but places, and no place that matters.      *)
LEMMA ExpectedSame ==
  ASSUME UNCHANGED local, NEW n \in Nat, NEW v
  PROVE  Expected(n, v)' = Expected(n, v)
  BY ExpectedStays

(* The last request's exactness depends on its place, what it knows and    *)
(* the store.                                                              *)
LEMMA ExactStays ==
  ASSUME UNCHANGED <<local, store, lastResp, lastRespBody>>,
         NEW n \in Nat, StoreExact(n), ResponseExact(n),
         pc'[n] = pc[n] \/ (pc[n] = "wgdone" /\ pc'[n] = "end")
  PROVE  StoreExact(n)' /\ ResponseExact(n)'
<1>1. \A v : Expected(n, v)' = Expected(n, v) /\ Expected(n + 1, v)' = Expected(n + 1, v)
  BY ExpectedSame
<1>2. \A v : BoundSoFar(n, v)' <=> BoundSoFar(n, v)
  BY DEF BoundSoFar
<1>3. CurrentBind(n)' = CurrentBind(n) /\ (MoreBinds(n)' <=> MoreBinds(n))
  BY DEF CurrentBind, MoreBinds
<1>4. StoreExact(n)'
  BY <1>1, <1>2 DEF StoreExact, Before, During
<1>5. ResponseExact(n)'
  BY <1>3 DEF ResponseExact, Before, During
<1>. QED
  BY <1>4, <1>5

(* The placeholders read so far keep what they stand for.                  *)
LEMMA OrderStays ==
  ASSUME Inductive, SubstitutionFollowsOrder, UNCHANGED <<entries, local>>,
         DOMAIN pc' = DOMAIN pc
  PROVE  SubstitutionFollowsOrder'
<1>1. ASSUME NEW m \in DOMAIN pc', NEW k \in DOMAIN local'[m].seen
      PROVE  local'[m].seen[k] = Expected(m, Uses(m)[k])'
  <2>1. m \in DOMAIN pc /\ m \in Nat /\ Uses(m)' = Uses(m)
    BY Shapes DEF Uses, EntryOf, Kept
  <2>2. local[m].seen[k] = Expected(m, Uses(m)[k])
    BY <1>1, <2>1 DEF SubstitutionFollowsOrder
  <2>3. \A v : Expected(m, v)' = Expected(m, v)
    BY <2>1, ExpectedSame
  <2>. QED
    BY <2>1, <2>2, <2>3
<1>. QED
  BY <1>1 DEF SubstitutionFollowsOrder

(* A goroutine that has given its token back disturbs nothing.             *)
LEMMA WgDoneKeeps ==
  ASSUME Inductive, SerialInv, NEW n \in DOMAIN pc, WgDone(n)
  PROVE  SerialInv'
<1>1. /\ Step(n, "wgdone", "end")
      /\ UNCHANGED <<entries, local, store, lastResp, lastRespBody>>
  BY DEF WgDone, Step, storeVars
<1>2. /\ pc \in Seq(WorkerPc) /\ Len(pc) \in Nat /\ DOMAIN pc = 1..Len(pc)
      /\ pc = <<>> <=> Len(pc) = 0
  BY Shapes
<1>3. /\ pc[n] = "wgdone" /\ pc'[n] = "end" /\ pc' \in Seq(WorkerPc)
      /\ Len(pc') = Len(pc) /\ DOMAIN pc' = DOMAIN pc
      /\ \A m \in DOMAIN pc : m # n => pc'[m] = pc[m]
  BY <1>1, <1>2, Places, StepMoves
<1>4. OneByOne'
  BY <1>3, Places DEF SerialInv, OneByOne
<1>5. pc # <<>> /\ pc' # <<>> /\ Len(pc) \in DOMAIN pc
  BY <1>2, <1>3, EmptySeq
<1>6. StoreExact(Len(pc)) /\ ResponseExact(Len(pc))
  BY <1>5 DEF SerialInv
<1>7. StoreExact(Len(pc))' /\ ResponseExact(Len(pc))'
  <2>1. \A j \in DOMAIN pc : pc'[j] = pc[j] \/ (pc[j] = "wgdone" /\ pc'[j] = "end")
    BY <1>3
  <2>2. ASSUME NEW j \in DOMAIN pc, StoreExact(j), ResponseExact(j)
        PROVE  StoreExact(j)' /\ ResponseExact(j)'
    <3>1. j \in Nat
      BY <1>2
    <3>. QED
      BY <1>1, <2>1, <2>2, <3>1, ExactStays
  <2>3. PICK j \in DOMAIN pc : j = Len(pc) /\ j = Len(pc')
    BY <1>3, <1>5
  <2>4. StoreExact(j)' /\ ResponseExact(j)'
    BY <1>6, <2>2, <2>3
  <2>. QED
    BY <2>3, <2>4 DEF StoreExact, ResponseExact, BoundSoFar, MoreBinds, CurrentBind
<1>8. SubstitutionFollowsOrder'
  BY <1>1, <1>3, OrderStays DEF SerialInv
<1>. QED
  BY <1>4, <1>5, <1>7, <1>8 DEF SerialInv

(* Where the main goroutine sends nothing, only the environment's values   *)
(* can be new.                                                             *)
LEMMA RestKeeps ==
  ASSUME Inductive, SerialInv,
         \/ Load \/ Filter \/ AddJob \/ LoopEnd \/ Join \/ Create \/ Save \/ Report
         \/ MapFault \/ UNCHANGED vars
  PROVE  SerialInv'
<1>1. CASE Load \/ Filter
  <2>1. pc = <<>> /\ pc' = <<>> /\ DOMAIN pc = {}
    BY <1>1, Shapes DEF Load, Filter, Inductive, PhaseExact
  <2>2. mainPc' \notin {"load", "filter", "exit1", "crashed"} =>
          \A v \in Vars : store'[v] = EnvValue(v)
    BY <1>1 DEF Load, Filter, Goto
  <2>3. OneByOne' /\ SubstitutionFollowsOrder'
    BY <2>1 DEF OneByOne, SubstitutionFollowsOrder
  <2>4. \A v : EnvValue(v)' = EnvValue(v)
    BY DEF EnvValue
  <2>. QED
    BY <2>1, <2>2, <2>3, <2>4 DEF SerialInv
<1>2. CASE ~(Load \/ Filter)
  <2>1. /\ UNCHANGED <<entries, pc, local, store, lastResp, lastRespBody>>
        /\ \/ mainPc' = mainPc \/ mainPc' = "crashed"
           \/ mainPc \notin {"load", "filter", "exit1", "crashed"}
    BY <1>2 DEF AddJob, LoopEnd, Join, Create, Save, Report, MapFault, vars, storeVars, Goto
  <2>2. OneByOne'
    BY <2>1 DEF SerialInv, OneByOne
  <2>3. SubstitutionFollowsOrder'
    BY <2>1, OrderStays DEF SerialInv
  <2>4. pc' = <<>> /\ mainPc' \notin {"load", "filter", "exit1", "crashed"} =>
          \A v \in Vars : store'[v] = EnvValue(v)
    BY <2>1 DEF SerialInv
  <2>5. pc # <<>> => StoreExact(Len(pc))' /\ ResponseExact(Len(pc))'
    <3>1. ASSUME NEW j \in Nat, StoreExact(j), ResponseExact(j)
          PROVE  StoreExact(j)' /\ ResponseExact(j)'
      <4>1. pc'[j] = pc[j]
        BY <2>1
      <4>. QED
        BY <2>1, <3>1, <4>1, ExactStays
    <3>2. Len(pc) \in Nat /\ Len(pc') = Len(pc)
      BY <2>1, Shapes
    <3>. QED
      BY <3>1, <3>2 DEF SerialInv, StoreExact, ResponseExact, BoundSoFar, MoreBinds, CurrentBind
  <2>6. \A v : EnvValue(v)' = EnvValue(v)
    BY DEF EnvValue
  <2>. QED
    BY <2>1, <2>2, <2>3, <2>4, <2>5, <2>6 DEF SerialInv
<1>. QED
  BY <1>1, <1>2

(* The next request starts only when the one before has given its token    *)
(* back, so it finds the store as it needs it.                             *)
LEMMA SpawnKeeps ==
  ASSUME Inductive, SerialInv, Limit = 1, Spawn
  PROVE  SerialInv'
<1> DEFINE N == Len(pc) + 1
<1>1. /\ mainPc = "acquire" /\ sem < 1
      /\ pc' = Append(pc, "subst") /\ local' = Append(local, NewWorker)
      /\ UNCHANGED <<entries, store, lastResp, lastRespBody>>
  BY DEF Spawn, storeVars
<1>2. /\ pc \in Seq(WorkerPc) /\ Len(pc) \in Nat /\ DOMAIN pc = 1..Len(pc)
      /\ pc = <<>> <=> Len(pc) = 0
      /\ local \in Seq(WorkerType) /\ Len(local) = Len(pc)
  BY Shapes DEF Inductive, TypeOK
<1>3. /\ pc' \in Seq(WorkerPc) /\ Len(pc') = N /\ DOMAIN pc' = 1..N
      /\ pc'[N] = "subst" /\ \A m \in DOMAIN pc : pc'[m] = pc[m]
  <2>1. "subst" \in Holding
    BY Places
  <2>. QED
    BY <1>1, <1>2, <2>1, SpawnJoins
<1>4. /\ local'[N] = NewWorker /\ \A m \in DOMAIN pc : local'[m] = local[m]
  <2>1. local \in Seq(WorkerType \cup {NewWorker})
    BY <1>2, SeqMonotonic
  <2>. QED
    BY <1>1, <1>2, <2>1, AppendProperties
<1>5. At(Holding) = {}
  <2>1. sem = Cardinality(At(Holding)) /\ sem \in 0..Limit
    BY DEF Inductive, CountersExact, TypeOK
  <2>2. IsFiniteSet(At(Holding)) /\ Cardinality(At(Holding)) = 0
    BY <1>1, <1>2, <2>1, AtFinite
  <2>. QED
    BY <2>2, FS_EmptySet
<1>6. \A m \in DOMAIN pc : pc[m] \notin Holding
  BY <1>5 DEF At
<1>7. OneByOne'
  BY <1>2, <1>3, <1>6 DEF OneByOne
<1>8. \A k \in 1..N : \A v : Expected(k, v)' = Expected(k, v)
  <2>1. \A k \in 1..N : k \in Nat /\ \A m \in 1..k-1 : m \in DOMAIN pc
    BY <1>2
  <2>. QED
    BY <1>4, <2>1, ExpectedStays
<1>9. \A v \in Vars : store[v] = Expected(N, v)
  <2>1. CASE pc = <<>>
    <3>1. \A v \in Vars : store[v] = EnvValue(v)
      BY <1>1, <2>1 DEF SerialInv
    <3>2. N = 1
      BY <1>2, <2>1
    <3>. QED
      BY <3>1, <3>2, ExpectedFirst
  <2>2. CASE pc # <<>>
    <3>1. Len(pc) \in DOMAIN pc
      BY <1>2, <2>2
    <3>2. pc[Len(pc)] \notin Before \cup During
      BY <1>6, <3>1, Places DEF Before, During
    <3>. QED
      BY <2>2, <3>2 DEF SerialInv, StoreExact
  <2>. QED
    BY <2>1, <2>2
<1>10. N \in 1..N
  BY <1>2
<1>11. StoreExact(Len(pc))'
  BY <1>1, <1>3, <1>8, <1>9, <1>10 DEF StoreExact, Before, During
<1>12. ResponseExact(Len(pc))'
  BY <1>3, <1>4 DEF ResponseExact, Before, During, NewWorker
<1>13. SubstitutionFollowsOrder'
  <2>1. ASSUME NEW m \in DOMAIN pc', NEW k \in DOMAIN local'[m].seen
        PROVE  local'[m].seen[k] = Expected(m, Uses(m)[k])'
    <3>1. m \in 1..N /\ m # N
      <4>1. DOMAIN NewWorker.seen = {}
        BY EmptySeq DEF NewWorker
      <4>. QED
        BY <1>3, <1>4, <2>1, <4>1
    <3>2. m \in DOMAIN pc
      BY <1>2, <3>1
    <3>3. local'[m].seen[k] = Expected(m, Uses(m)[k])
      BY <1>4, <2>1, <3>2 DEF SerialInv, SubstitutionFollowsOrder
    <3>4. Uses(m)' = Uses(m)
      BY <1>1 DEF Uses, EntryOf, Kept
    <3>. QED
      BY <1>8, <3>1, <3>3, <3>4
  <2>. QED
    BY <2>1 DEF SubstitutionFollowsOrder
<1>. QED
  BY <1>3, <1>7, <1>10, <1>11, <1>12, <1>13, EmptySeq DEF SerialInv

----------------------------------------------------------------------------
(* engine.go:93-120, 167-223 with --concurrency 1: for every session,      *)
(* every list of binds and whatever the servers answer, each placeholder   *)
(* is replaced by the value of the latest earlier response that has it.    *)
THEOREM Substitution == Spec => []SerialSubstitution
<1>1. ASSUME Limit = 1
      PROVE  Spec => []SerialInv
  <2>1. Init => SerialInv
    <3>1. ASSUME Init
          PROVE  SerialInv
      <4>1. pc = <<>> /\ mainPc = "load" /\ DOMAIN pc = {}
        BY <3>1, EmptySeq DEF Init
      <4>. QED
        BY <4>1 DEF SerialInv, OneByOne, SubstitutionFollowsOrder
    <3>. QED
      BY <3>1
  <2>2. ASSUME Inductive, SerialInv, [Next]_vars
        PROVE  SerialInv'
    <3>1. ASSUME NEW n \in DOMAIN pc, Worker(n)
          PROVE  SerialInv'
      BY <2>2, <3>1, SubstituteKeeps, SubstitutedKeeps, UnansweredKeeps, SendSucceedsKeeps,
         SetLastRespKeeps, ResetBodyKeeps, FillBodyKeeps, BindMissesKeeps,
         BindExtractsKeeps, BindAssignsKeeps, BindsDoneKeeps, LeavingKeeps, WgDoneKeeps
         DEF Worker
    <3>2. ASSUME Spawn
          PROVE  SerialInv'
      BY <1>1, <2>2, <3>2, SpawnKeeps
    <3>. QED
      BY <2>2, <3>1, <3>2, RestKeeps DEF Next, Main, Finished
  <2>. QED
    BY <2>1, <2>2, Invariance, PTL DEF Spec
<1>2. CASE Limit = 1
  <2>1. SerialInv => SerialSubstitution
    BY DEF SerialInv, SerialSubstitution
  <2>2. Spec => []SerialInv
    BY <1>1, <1>2
  <2>. QED
    BY <2>1, <2>2, PTL
<1>3. CASE Limit # 1
  <2>1. SerialSubstitution
    BY <1>3 DEF SerialSubstitution
  <2>. QED
    BY <2>1, PTL
<1>. QED
  BY <1>2, <1>3
=============================================================================
