------------------------- MODULE ReplayEngineProofs -------------------------
(***************************************************************************)
(* Proofs about the replay engine, for every session, every number of      *)
(* passes, every concurrency, every list of binds and every set of answers.*)
(***************************************************************************)
EXTENDS ReplayEngine, SetLemmas, SequenceTheorems

(* The effective --concurrency and --loop are positive.                    *)
LEMMA LimitFacts == Limit \in Nat \ {0} /\ Passes \in Nat \ {0}
  BY LoopAssumption, ConcurrencyAssumption DEF Limit, Passes

(* The filtered entries are finitely many places of the list.              *)
LEMMA KeptFacts ==
  ASSUME entries \in Seq(EntryType)
  PROVE  /\ Kept \in SUBSET (1..Len(entries))
         /\ Len(entries) \in Nat
         /\ Cardinality(Kept) \in Nat
         /\ NJobs \in Nat
         /\ NJobs # 0 => Cardinality(Kept) # 0
<1>1. Len(entries) \in Nat /\ DOMAIN entries = 1..Len(entries)
  BY LenProperties
<1>2. Kept \in SUBSET (1..Len(entries))
  BY <1>1 DEF Kept
<1>3. IsFiniteSet(1..Len(entries))
  BY <1>1, FS_Interval
<1>4. Cardinality(Kept) \in Nat
  <2>1. IsFiniteSet(Kept)
    BY <1>2, <1>3, FS_Subset
  <2>. QED
    BY <2>1, FS_CardinalityType
<1>5. \A x, y \in Nat : x * y \in Nat /\ x * 0 = 0
  OBVIOUS
<1>. QED
  BY <1>1, <1>2, <1>4, <1>5, LimitFacts DEF NJobs

(* The entry of a job is one that the filter kept.                         *)
LEMMA EntryOfJob ==
  ASSUME entries \in Seq(EntryType), NEW n \in 1..NJobs
  PROVE  \E i \in Kept : EntryOf(n) = entries[i]
<1> DEFINE c == Cardinality(Kept)
           k == ((n - 1) % c) + 1
<1>1. c \in Nat \ {0} /\ n \in Nat /\ n >= 1
  BY KeptFacts
<1>2. k \in 1..c
  <2>1. \A a \in Nat, b \in Nat \ {0} : (a % b) \in 0..b-1
    OBVIOUS
  <2>2. n - 1 \in Nat
    BY <1>1
  <2> HIDE DEF c
  <2>. QED
    BY <1>1, <2>1, <2>2
<1>3. \E i \in Kept : Cardinality({j \in Kept : j <= i}) = k
  BY <1>2, KeptFacts, KthElement
<1>. QED
  BY <1>3 DEF EntryOf

(* Every request of the run is one of the list.                            *)
LEMMA UsesType ==
  ASSUME entries \in Seq(EntryType), NEW n \in 1..NJobs
  PROVE  Uses(n) \in Seq(Vars)
<1>1. PICK i \in Kept : EntryOf(n) = entries[i]
  BY EntryOfJob
<1>2. entries[i] \in EntryType
  BY KeptFacts, <1>1, ElementOfSeq
<1>. QED
  BY <1>1, <1>2 DEF Uses, EntryType

----------------------------------------------------------------------------
(* How the sets of goroutines change when one of them moves or starts.     *)
LEMMA AtFinite ==
  ASSUME pc \in Seq(WorkerPc), NEW S
  PROVE  /\ IsFiniteSet(At(S))
         /\ Cardinality(At(S)) \in Nat
         /\ At(S) \in SUBSET DOMAIN pc
         /\ Len(pc) \in Nat
         /\ DOMAIN pc = 1..Len(pc)
         /\ IsFiniteSet(DOMAIN pc)
         /\ Cardinality(DOMAIN pc) = Len(pc)
<1>1. Len(pc) \in Nat /\ DOMAIN pc = 1..Len(pc)
  BY LenProperties
<1>2. IsFiniteSet(DOMAIN pc) /\ Cardinality(DOMAIN pc) = Len(pc)
  BY <1>1, FS_Interval
<1>3. At(S) \in SUBSET DOMAIN pc
  BY DEF At
<1>4. IsFiniteSet(At(S))
  BY <1>2, <1>3, FS_Subset
<1>5. Cardinality(At(S)) \in Nat
  BY <1>4, FS_CardinalityType
<1>. QED
  BY <1>1, <1>2, <1>3, <1>4, <1>5

(* A goroutine's step moves it and nobody else.                            *)
LEMMA StepMoves ==
  ASSUME pc \in Seq(WorkerPc), NEW n \in DOMAIN pc, NEW from, NEW to \in WorkerPc,
         Step(n, from, to)
  PROVE  /\ pc[n] = from /\ pc'[n] = to
         /\ \A m \in DOMAIN pc : m # n => pc'[m] = pc[m]
         /\ pc' \in Seq(WorkerPc)
         /\ Len(pc') = Len(pc)
         /\ DOMAIN pc' = DOMAIN pc
  BY LenProperties, ExceptSeq, ElementOfSeq DEF Step

(* A step within a set of places keeps who is there.                       *)
LEMMA StepStays ==
  ASSUME pc \in Seq(WorkerPc), NEW n \in DOMAIN pc, NEW from, NEW to \in WorkerPc,
         Step(n, from, to), NEW S, from \in S <=> to \in S
  PROVE  At(S)' = At(S)
  BY StepMoves DEF At

(* A step out of a set of places takes one goroutine from it.              *)
LEMMA StepLeaves ==
  ASSUME pc \in Seq(WorkerPc), NEW n \in DOMAIN pc, NEW from, NEW to \in WorkerPc,
         Step(n, from, to), NEW S, from \in S, to \notin S
  PROVE  /\ n \in At(S)
         /\ At(S)' = At(S) \ {n}
         /\ Cardinality(At(S)') = Cardinality(At(S)) - 1
         /\ Cardinality(At(S)) >= 1
<1>1. n \in At(S) /\ At(S)' = At(S) \ {n}
  BY StepMoves DEF At
<1>2. Cardinality(At(S) \ {n}) = Cardinality(At(S)) - 1 /\ IsFiniteSet(At(S) \ {n})
  BY <1>1, AtFinite, FS_RemoveElement
<1>3. Cardinality(At(S) \ {n}) \in Nat
  BY <1>2, FS_CardinalityType
<1>. QED
  BY <1>1, <1>2, <1>3, AtFinite

(* A new goroutine joins every set of places that has its first.           *)
LEMMA SpawnJoins ==
  ASSUME pc \in Seq(WorkerPc), pc' = Append(pc, "subst"), NEW S, "subst" \in S
  PROVE  /\ pc' \in Seq(WorkerPc)
         /\ Len(pc') = Len(pc) + 1
         /\ DOMAIN pc' = 1..Len(pc) + 1
         /\ pc'[Len(pc) + 1] = "subst"
         /\ \A m \in DOMAIN pc : pc'[m] = pc[m]
         /\ At(S)' = At(S) \cup {Len(pc) + 1}
         /\ Cardinality(At(S)') = Cardinality(At(S)) + 1
<1>1. "subst" \in WorkerPc
  BY DEF WorkerPc, Live, Holding, Working
<1>2. /\ pc' \in Seq(WorkerPc)
      /\ Len(pc') = Len(pc) + 1
      /\ pc'[Len(pc) + 1] = "subst"
      /\ \A m \in 1..Len(pc) : pc'[m] = pc[m]
  BY <1>1, AppendProperties
<1>3. /\ DOMAIN pc' = 1..Len(pc) + 1
      /\ DOMAIN pc = 1..Len(pc)
      /\ Len(pc) \in Nat
  BY <1>2, LenProperties
<1>4. At(S)' = At(S) \cup {Len(pc) + 1} /\ Len(pc) + 1 \notin At(S)
  BY <1>2, <1>3 DEF At
<1>. QED
  BY <1>2, <1>3, <1>4, AtFinite, FS_AddElement

----------------------------------------------------------------------------
(* A goroutine's step keeps the invariant, but for the types of the data.  *)
LEMMA WhileOneLives ==
  ASSUME Inductive, NEW n \in DOMAIN pc, pc[n] \in Live, mainPc \notin Ended
  PROVE  /\ mainPc \in {"loop", "acquire", "join"}
         /\ file.state = "absent"
         /\ pc # <<>>
<1>1. n \in At(Live)
  BY DEF At
<1>2. pc # <<>>
  BY AtFinite DEF Inductive, TypeOK
<1>. QED
  BY <1>1, <1>2 DEF Inductive, TypeOK, PhaseExact, FileExact, MainPc, Ended

(* A goroutine's step does not concern the main one's place.               *)
LEMMA StepKeepsPhase ==
  ASSUME Inductive, NEW n \in DOMAIN pc, NEW from \in Live, NEW to \in WorkerPc,
         Step(n, from, to)
  PROVE  PhaseExact' /\ FileExact'
<1>1. /\ mainPc \in {"loop", "acquire", "join"} /\ mainPc' = mainPc
      /\ file.state = "absent" /\ file' = file /\ entries' = entries
  BY WhileOneLives DEF Step
<1>2. Len(pc') = Len(pc)
  BY StepMoves DEF Inductive, TypeOK
<1>3. NJobs' = NJobs /\ HasNull' = HasNull
  BY <1>1 DEF NJobs, Kept, HasNull
<1>. QED
  BY <1>1, <1>2, <1>3 DEF Inductive, PhaseExact, FileExact

(* A step between an executeEntry's start and its append.                  *)
LEMMA QuietStep ==
  ASSUME Inductive, NEW n \in DOMAIN pc, NEW from \in Working, NEW to \in Working,
         Step(n, from, to), UNCHANGED <<sem, wg, results>>,
         to \notin {"subst", "send"} => local'[n].status # "pending",
         \A m \in DOMAIN pc : m # n => local'[m].status = local[m].status
  PROVE  CountersExact' /\ RecordExact' /\ PhaseExact' /\ FileExact'
<1>1. pc \in Seq(WorkerPc)
  BY DEF Inductive, TypeOK
<1>2. from \in Live /\ to \in WorkerPc
  BY DEF WorkerPc, Live, Holding
<1>3. At(Working)' = At(Working)
  BY <1>1, <1>2, StepStays
<1>4. At(Holding)' = At(Holding)
  BY <1>1, <1>2, StepStays DEF Holding
<1>5. At(Live)' = At(Live)
  BY <1>1, <1>2, StepStays DEF Live, Holding
<1>6. mainPc' = mainPc
  BY DEF Step
<1>7. CountersExact'
  BY <1>4, <1>5, <1>6 DEF Inductive, CountersExact
<1>8. RecordExact'
  <2>1. /\ Len(pc') = Len(pc) /\ DOMAIN pc' = DOMAIN pc /\ pc'[n] = to
        /\ \A m \in DOMAIN pc : m # n => pc'[m] = pc[m]
    BY <1>1, <1>2, StepMoves
  <2>. QED
    BY <1>3, <2>1 DEF Inductive, RecordExact
<1>. QED
  BY <1>2, <1>7, <1>8, StepKeepsPhase

(* Appending a result keeps record and places in agreement.                *)
LEMMA AppendKeeps ==
  ASSUME Inductive, NEW n \in DOMAIN pc, AppendResult(n)
  PROVE  CountersExact' /\ RecordExact' /\ PhaseExact' /\ FileExact'
<1>1. /\ pc \in Seq(WorkerPc) /\ results \in Seq(Results)
      /\ Step(n, "append", "release") /\ UNCHANGED <<sem, wg, local>>
      /\ results' = Append(results, [job |-> n, status |-> local[n].status])
      /\ mainPc' = mainPc
  BY DEF Inductive, TypeOK, AppendResult, Step
<1>2. "append" \in Live /\ "release" \in WorkerPc
  BY DEF WorkerPc, Live, Holding, Working
<1>3. At(Working)' = At(Working) \ {n} /\ n \in At(Working)
      /\ Cardinality(At(Working)') = Cardinality(At(Working)) - 1
  <2>1. "append" \in Working /\ "release" \notin Working
    BY DEF Working
  <2>. QED
    BY <1>1, <1>2, <2>1, StepLeaves
<1>4. At(Holding)' = At(Holding)
  BY <1>1, <1>2, StepStays DEF Holding, Working
<1>5. At(Live)' = At(Live)
  BY <1>1, <1>2, StepStays DEF Live, Holding, Working
<1>6. CountersExact'
  BY <1>1, <1>4, <1>5 DEF Inductive, CountersExact
<1>7. RecordExact'
  <2>1. /\ Len(pc') = Len(pc) /\ DOMAIN pc' = DOMAIN pc /\ pc[n] = "append"
        /\ \A m \in DOMAIN pc : pc'[m] \notin {"subst", "send"} => pc[m] \notin {"subst", "send"}
    BY <1>1, <1>2, StepMoves
  <2>2. /\ Len(results) \in Nat
        /\ Len(results') = Len(results) + 1
        /\ DOMAIN results = 1..Len(results)
        /\ DOMAIN results' = 1..Len(results) + 1
        /\ \A p \in DOMAIN results : results'[p] = results[p]
        /\ results'[Len(results) + 1].job = n
    <3> DEFINE r == [job |-> n, status |-> local[n].status]
    <3>1. results \in Seq(Results \cup {r}) /\ r \in Results \cup {r}
      BY <1>1, SeqMonotonic
    <3>2. results' = Append(results, r) /\ r.job = n
      BY <1>1
    <3> HIDE DEF r
    <3>. QED
      BY <3>1, <3>2, AppendProperties, LenProperties
  <2>3. {results'[p].job : p \in DOMAIN results'} = {results[p].job : p \in DOMAIN results} \cup {n}
    BY <2>2
  <2>4. Len(results') + Cardinality(At(Working)') = Len(pc')
    BY <1>1, <1>3, <2>1, <2>2, AtFinite DEF Inductive, RecordExact
  <2>5. {results'[p].job : p \in DOMAIN results'} = DOMAIN pc' \ At(Working)'
    BY <1>3, <2>1, <2>3 DEF Inductive, RecordExact
  <2>. QED
    BY <1>1, <2>1, <2>4, <2>5 DEF Inductive, RecordExact
<1>. QED
  BY <1>1, <1>2, <1>6, <1>7, StepKeepsPhase

(* The two deferred calls of a goroutine keep the counters exact.          *)
LEMMA ReleaseKeeps ==
  ASSUME Inductive, NEW n \in DOMAIN pc, Release(n) \/ WgDone(n)
  PROVE  /\ CountersExact' /\ RecordExact' /\ PhaseExact' /\ FileExact'
         /\ sem' \in 0..Limit /\ wg' \in Nat
<1>. USE DEF WorkerPc, Live, Holding, Working
<1>1. /\ pc \in Seq(WorkerPc) /\ sem \in 0..Limit /\ wg \in Nat /\ Limit \in Nat
      /\ UNCHANGED <<local, results, mainPc>> /\ mainPc # "crashed"
  BY LimitFacts DEF Inductive, TypeOK, Release, WgDone, Step, Ended
<1>2. CASE Release(n)
  <2>1. Step(n, "release", "wgdone") /\ sem' = sem - 1 /\ wg' = wg
    BY <1>2 DEF Release
  <2>2. At(Working)' = At(Working)
    BY <1>1, <2>1, StepStays
  <2>3. /\ Cardinality(At(Holding)') = Cardinality(At(Holding)) - 1
        /\ Cardinality(At(Holding)) >= 1
    BY <1>1, <2>1, StepLeaves
  <2>4. At(Live)' = At(Live)
    BY <1>1, <2>1, StepStays
  <2>5. CountersExact' /\ sem' \in 0..Limit /\ wg' \in Nat
    BY <1>1, <2>1, <2>3, <2>4, AtFinite DEF Inductive, CountersExact
  <2>6. RecordExact'
    <3>1. /\ Len(pc') = Len(pc) /\ DOMAIN pc' = DOMAIN pc
          /\ \A m \in DOMAIN pc : pc'[m] \notin {"subst", "send"} => pc[m] \notin {"subst", "send"}
      BY <1>1, <2>1, StepMoves
    <3>. QED
      BY <1>1, <2>2, <3>1 DEF Inductive, RecordExact
  <2>. QED
    BY <2>1, <2>5, <2>6, StepKeepsPhase
<1>3. CASE WgDone(n)
  <2>1. Step(n, "wgdone", "end") /\ sem' = sem /\ wg' = wg - 1
    BY <1>3 DEF WgDone
  <2>2. At(Working)' = At(Working) /\ At(Holding)' = At(Holding)
    BY <1>1, <2>1, StepStays
  <2>3. /\ Cardinality(At(Live)') = Cardinality(At(Live)) - 1
        /\ Cardinality(At(Live)) >= 1
    BY <1>1, <2>1, StepLeaves
  <2>4. CountersExact' /\ sem' \in 0..Limit /\ wg' \in Nat
    BY <1>1, <2>1, <2>2, <2>3, AtFinite DEF Inductive, CountersExact
  <2>5. RecordExact'
    <3>1. /\ Len(pc') = Len(pc) /\ DOMAIN pc' = DOMAIN pc
          /\ \A m \in DOMAIN pc : pc'[m] \notin {"subst", "send"} => pc[m] \notin {"subst", "send"}
      BY <1>1, <2>1, StepMoves
    <3>. QED
      BY <1>1, <2>2, <3>1 DEF Inductive, RecordExact
  <2>. QED
    BY <2>1, <2>4, <2>5, StepKeepsPhase
<1>. QED
  BY <1>2, <1>3

----------------------------------------------------------------------------
(* Types of the data.                                                      *)
DataOK ==
  /\ local \in Seq(WorkerType)
  /\ Len(local) = Len(pc)
  /\ store \in [Vars -> Values]
  /\ lastResp \in 0..Len(pc)
  /\ lastRespBody \in [Vars -> Values]

ControlOK ==
  /\ mainPc \in MainPc
  /\ entries \in Seq(EntryType)
  /\ dryRun \in BOOLEAN
  /\ sem \in 0..Limit
  /\ wg \in Nat
  /\ pc \in Seq(WorkerPc)
  /\ results \in Seq(Results)
  /\ file \in [state : {"absent", "partial", "full"}, entries : Seq(Results)]

(* The type invariant in two parts, control and data.                      *)
LEMMA SplitTypes == TypeOK <=> ControlOK /\ DataOK
  BY DEF TypeOK, ControlOK, DataOK

(* The type of one goroutine's own variables.                              *)
LEMMA LocalType ==
  ASSUME DataOK, pc \in Seq(WorkerPc), NEW n \in DOMAIN pc
  PROVE  /\ local[n] \in WorkerType
         /\ n \in 1..Len(local)
         /\ DOMAIN local = DOMAIN pc
         /\ n \in Values
<1>1. Len(local) = Len(pc) /\ DOMAIN local = 1..Len(local) /\ DOMAIN pc = 1..Len(pc)
  BY LenProperties DEF DataOK
<1>. QED
  BY <1>1, ElementOfSeq DEF DataOK, Values

(* A goroutine that rewrites its own record only.                          *)
LEMMA LocalUpdate ==
  ASSUME DataOK, pc \in Seq(WorkerPc), NEW n \in DOMAIN pc, NEW r \in WorkerType,
         local' = [local EXCEPT ![n] = r], Len(pc') = Len(pc)
  PROVE  /\ local' \in Seq(WorkerType')
         /\ Len(local') = Len(pc')
         /\ local'[n] = r
         /\ \A m \in DOMAIN pc : m # n => local'[m] = local[m]
<1>1. WorkerType' = WorkerType
  BY DEF WorkerType, Values
<1>2. local \in Seq(WorkerType) /\ Len(local) = Len(pc) /\ DOMAIN pc = 1..Len(pc)
  BY LenProperties DEF DataOK
<1>. QED
  BY <1>1, <1>2, ExceptSeq

(* What a bind finds is a value.                                           *)
LEMMA ExtractedType ==
  ASSUME DataOK, pc \in Seq(WorkerPc), NEW b \in BindType
  PROVE  Extracted(b) \in Values
<1>. USE DEF DataOK
<1>1. Unset \in Values
  BY DEF Values
<1>2. lastResp # 0 => lastResp \in Values
  BY LenProperties DEF Values
<1>3. b.name \in Vars /\ lastRespBody[b.name] \in Values
  BY DEF BindType
<1>. QED
  BY <1>1, <1>2, <1>3 DEF Extracted

(* What every step of goroutine n does to the data.                        *)
LEMMA WorkerKeepsData ==
  ASSUME Inductive, NEW n \in DOMAIN pc, Worker(n)
  PROVE  /\ DataOK'
         /\ \A m \in DOMAIN pc : m # n => local'[m].status = local[m].status
         /\ local[n].status # "pending" => local'[n].status # "pending"
         /\ SendFails(n) \/ SendSucceeds(n) \/ SubstitutedDryRun(n)
              => local'[n].status # "pending"
<1>1. ControlOK /\ DataOK /\ pc \in Seq(WorkerPc) /\ entries \in Seq(EntryType)
  BY SplitTypes DEF Inductive, ControlOK
<1>2. /\ local[n] \in WorkerType /\ n \in Values /\ n \in 1..Len(pc)
      /\ DOMAIN local = DOMAIN pc /\ Len(pc) \in Nat
  BY <1>1, LocalType, LenProperties DEF DataOK
<1>3. Len(pc') = Len(pc)
  <2>1. \A from : \A to \in WorkerPc : Step(n, from, to) => Len(pc') = Len(pc)
    BY <1>1, StepMoves
  <2>. QED
    BY <2>1 DEF Worker, Substitute, Substituted, SubstitutedDryRun, SendFails,
                SendSucceeds, SetLastResp, ResetBody, FillBody, BindMisses,
                BindExtracts, BindAssigns, BindsDone, AppendResult, Release,
                WgDone, WorkerPc, Live, Holding, Working
<1>4. Values' = Values /\ WorkerType' = WorkerType
  BY <1>3 DEF WorkerType, Values
<1>5. ASSUME NEW r \in WorkerType, local' = [local EXCEPT ![n] = r],
             r.status = local[n].status \/ r.status # "pending",
             UNCHANGED <<lastResp, lastRespBody>>,
             store' \in [Vars -> Values]
      PROVE  /\ DataOK'
             /\ \A m \in DOMAIN pc : m # n => local'[m].status = local[m].status
             /\ local[n].status # "pending" => local'[n].status # "pending"
             /\ r.status # "pending" => local'[n].status # "pending"
  BY <1>1, <1>3, <1>4, <1>5, LocalUpdate DEF DataOK
<1>6. ASSUME UNCHANGED local, lastResp' \in 0..Len(pc),
             store' \in [Vars -> Values], lastRespBody' \in [Vars -> Values]
      PROVE  /\ DataOK'
             /\ \A m \in DOMAIN pc : m # n => local'[m].status = local[m].status
             /\ local[n].status # "pending" => local'[n].status # "pending"
  BY <1>1, <1>3, <1>4, <1>6 DEF DataOK
<1>7. /\ store \in [Vars -> Values] /\ lastRespBody \in [Vars -> Values]
      /\ lastResp \in 0..Len(pc) /\ Unset \in Values
  BY <1>1 DEF DataOK, Values
<1>8. n \in 1..NJobs
  <2>1. Len(pc) <= NJobs /\ NJobs \in Nat
    BY <1>1, <1>2, KeptFacts DEF Inductive, PhaseExact
  <2>. QED
    BY <1>2, <2>1
<1>9. CASE Substitute(n)
  <2> DEFINE seen == local[n].seen
             v == store[Uses(n)[Len(seen) + 1]]
             r == [local[n] EXCEPT !.seen = Append(seen, v)]
  <2>1. local' = [local EXCEPT ![n] = r] /\ UNCHANGED storeVars
    BY <1>9, <1>2 DEF Substitute
  <2>2. seen \in Seq(Values) /\ Len(seen) \in Nat
    BY <1>2, LenProperties DEF WorkerType
  <2>3. Uses(n) \in Seq(Vars)
    BY <1>1, <1>8, UsesType
  <2>4. v \in Values
    <3>1. Len(seen) + 1 \in 1..Len(Uses(n))
      BY <1>9, <2>2, <2>3, LenProperties DEF Substitute, Pending
    <3>2. Uses(n)[Len(seen) + 1] \in Vars
      BY <2>3, <3>1, ElementOfSeq
    <3>. QED
      BY <1>7, <3>2
  <2>5. Append(seen, v) \in Seq(Values)
    BY <2>2, <2>4, AppendProperties
  <2>6. r \in WorkerType /\ r.status = local[n].status
    BY <1>2, <2>5 DEF WorkerType
  <2>7. ~ (SendFails(n) \/ SendSucceeds(n) \/ SubstitutedDryRun(n))
    BY <1>9 DEF Substitute, SendFails, SendSucceeds, SubstitutedDryRun, Step
  <2>. QED
    BY <1>5, <1>7, <2>1, <2>6, <2>7 DEF storeVars
<1>10. CASE SubstitutedDryRun(n) \/ SendFails(n)
  <2>1. PICK st \in {"dry_run", "failed"} :
          local' = [local EXCEPT ![n] = [local[n] EXCEPT !.status = st]]
    BY <1>10, <1>2 DEF SubstitutedDryRun, SendFails
  <2>2. UNCHANGED storeVars
    BY <1>10 DEF SubstitutedDryRun, SendFails
  <2>3. /\ [local[n] EXCEPT !.status = st] \in WorkerType
        /\ [local[n] EXCEPT !.status = st].status = st
    BY <1>2 DEF WorkerType
  <2>. QED
    BY <1>5, <1>7, <2>1, <2>2, <2>3 DEF storeVars
<1>11. CASE SendSucceeds(n)
  <2>1. PICK a \in Answers :
          local' = [local EXCEPT ![n] = [local[n] EXCEPT !.status = "success", !.answer = a]]
    BY <1>11, <1>2 DEF SendSucceeds
  <2>2. UNCHANGED storeVars
    BY <1>11 DEF SendSucceeds
  <2> DEFINE r == [local[n] EXCEPT !.status = "success", !.answer = a]
  <2>3. r \in WorkerType /\ r.status = "success"
    BY <1>2, AnswersAssumption DEF WorkerType
  <2>. QED
    BY <1>5, <1>7, <2>1, <2>2, <2>3 DEF storeVars
<1>12. CASE BindMisses(n)
  <2> DEFINE r == [local[n] EXCEPT !.next = @ + 1]
  <2>1. local' = [local EXCEPT ![n] = r] /\ UNCHANGED storeVars
    BY <1>12, <1>2 DEF BindMisses
  <2>2. r \in WorkerType /\ r.status = local[n].status
    BY <1>2 DEF WorkerType
  <2>3. ~ (SendFails(n) \/ SendSucceeds(n) \/ SubstitutedDryRun(n))
    BY <1>12 DEF BindMisses, SendFails, SendSucceeds, SubstitutedDryRun, Step
  <2>. QED
    BY <1>5, <1>7, <2>1, <2>2, <2>3 DEF storeVars
<1>13. CASE BindExtracts(n)
  <2> DEFINE x == Extracted(CurrentBind(n))
             r == [local[n] EXCEPT !.val = x]
  <2>1. local' = [local EXCEPT ![n] = r] /\ UNCHANGED storeVars
    BY <1>13, <1>2 DEF BindExtracts
  <2>2. CurrentBind(n) \in BindType
    <3>1. local[n].next \in 1..Len(Binds)
      BY <1>2, <1>13, BindsAssumption, LenProperties DEF BindExtracts, MoreBinds, WorkerType
    <3>. QED
      BY <3>1, BindsAssumption, ElementOfSeq DEF CurrentBind
  <2>3. x \in Values
    BY <1>1, <2>2, ExtractedType
  <2>4. r \in WorkerType /\ r.status = local[n].status
    <3> HIDE DEF x
    <3>. QED
      BY <1>2, <2>3 DEF WorkerType
  <2>5. ~ (SendFails(n) \/ SendSucceeds(n) \/ SubstitutedDryRun(n))
    BY <1>13 DEF BindExtracts, SendFails, SendSucceeds, SubstitutedDryRun, Step
  <2>. QED
    BY <1>5, <1>7, <2>1, <2>4, <2>5 DEF storeVars
<1>14. CASE BindAssigns(n)
  <2> DEFINE r == [local[n] EXCEPT !.next = @ + 1]
  <2>1. local' = [local EXCEPT ![n] = r] /\ UNCHANGED <<lastResp, lastRespBody>>
    BY <1>14, <1>2 DEF BindAssigns
  <2>2. r \in WorkerType /\ r.status = local[n].status /\ local[n].val \in Values
    BY <1>2 DEF WorkerType
  <2>3. store' \in [Vars -> Values]
    BY <1>7, <1>14, <2>2 DEF BindAssigns
  <2>4. ~ (SendFails(n) \/ SendSucceeds(n) \/ SubstitutedDryRun(n))
    BY <1>14 DEF BindAssigns, SendFails, SendSucceeds, SubstitutedDryRun, Step
  <2>. QED
    BY <1>5, <2>1, <2>2, <2>3, <2>4
<1>15. CASE \/ Substituted(n) \/ SetLastResp(n) \/ ResetBody(n) \/ FillBody(n)
            \/ BindsDone(n) \/ AppendResult(n) \/ Release(n) \/ WgDone(n)
  <2>1. /\ UNCHANGED <<local, store>> /\ lastResp' \in 0..Len(pc)
    BY <1>2, <1>7, <1>15 DEF Substituted, SetLastResp, ResetBody, FillBody,
                     BindsDone, AppendResult, Release, WgDone, storeVars
  <2>2. lastRespBody' \in [Vars -> Values]
    BY <1>2, <1>7, <1>15 DEF Substituted, SetLastResp, ResetBody, FillBody,
                     BindsDone, AppendResult, Release, WgDone, storeVars, NoBody
  <2>3. ~ (SendFails(n) \/ SendSucceeds(n) \/ SubstitutedDryRun(n))
    BY <1>15 DEF Substituted, SetLastResp, ResetBody, FillBody, BindsDone,
                 AppendResult, Release, WgDone, SendFails, SendSucceeds,
                 SubstitutedDryRun, Step, Pending
  <2>. QED
    BY <1>6, <1>7, <2>1, <2>2, <2>3
<1>. QED
  BY <1>9, <1>10, <1>11, <1>12, <1>13, <1>14, <1>15 DEF Worker

(* Every step of a goroutine keeps the invariant.                          *)
LEMMA WorkerPreserves ==
  ASSUME Inductive, NEW n \in DOMAIN pc, Worker(n)
  PROVE  Inductive'
<1>1. ControlOK /\ pc \in Seq(WorkerPc)
  BY SplitTypes DEF Inductive, ControlOK
<1>2. /\ DataOK'
      /\ \A m \in DOMAIN pc : m # n => local'[m].status = local[m].status
      /\ local[n].status # "pending" => local'[n].status # "pending"
      /\ SendFails(n) \/ SendSucceeds(n) \/ SubstitutedDryRun(n)
           => local'[n].status # "pending"
  BY WorkerKeepsData
<1>3. pc[n] \notin {"subst", "send"} => local[n].status # "pending"
  BY DEF Inductive, RecordExact
<1>4. ASSUME NEW from \in Working, NEW to \in Working, Step(n, from, to),
             UNCHANGED <<sem, wg, results>>,
             to \notin {"subst", "send"} => local'[n].status # "pending"
      PROVE  Inductive'
  <2>1. CountersExact' /\ RecordExact' /\ PhaseExact' /\ FileExact'
    BY <1>2, <1>4, QuietStep
  <2>2. Len(pc') = Len(pc) /\ pc' \in Seq(WorkerPc)
    BY <1>1, <1>4, StepMoves DEF WorkerPc, Live, Holding
  <2>3. ControlOK'
    BY <1>1, <1>4, <2>2 DEF ControlOK, Results, Step, Limit
  <2>. QED
    BY <1>2, <2>1, <2>3, SplitTypes DEF Inductive, TypeOK, ControlOK, DataOK
<1>5. CASE Substitute(n)
  BY <1>4, <1>5 DEF Substitute, Working
<1>6. CASE Substituted(n)
  BY <1>4, <1>6 DEF Substituted, Working
<1>7. CASE SubstitutedDryRun(n)
  BY <1>2, <1>4, <1>7 DEF SubstitutedDryRun, Working
<1>8. CASE SendFails(n)
  BY <1>2, <1>4, <1>8 DEF SendFails, Working
<1>9. CASE SendSucceeds(n)
  BY <1>2, <1>4, <1>9 DEF SendSucceeds, Working
<1>10. CASE SetLastResp(n)
  BY <1>2, <1>3, <1>4, <1>10 DEF SetLastResp, Working, Step
<1>11. CASE ResetBody(n)
  BY <1>2, <1>3, <1>4, <1>11 DEF ResetBody, Working, Step
<1>12. CASE FillBody(n)
  BY <1>2, <1>3, <1>4, <1>12 DEF FillBody, Working, Step
<1>13. CASE BindMisses(n)
  BY <1>2, <1>3, <1>4, <1>13 DEF BindMisses, Working, Step
<1>14. CASE BindExtracts(n)
  BY <1>2, <1>3, <1>4, <1>14 DEF BindExtracts, Working, Step
<1>15. CASE BindAssigns(n)
  BY <1>2, <1>3, <1>4, <1>15 DEF BindAssigns, Working, Step
<1>16. CASE BindsDone(n)
  BY <1>2, <1>3, <1>4, <1>16 DEF BindsDone, Working, Step
<1>17. CASE AppendResult(n)
  <2>1. /\ Step(n, "append", "release") /\ UNCHANGED <<sem, wg>>
        /\ results' = Append(results, [job |-> n, status |-> local[n].status])
    BY <1>17 DEF AppendResult
  <2>2. Len(pc') = Len(pc) /\ pc' \in Seq(WorkerPc) /\ pc[n] = "append"
    BY <1>1, <2>1, StepMoves DEF WorkerPc, Live, Holding
  <2>3. [job |-> n, status |-> local[n].status] \in Results
    <3>1. local[n] \in WorkerType /\ n \in 1..Len(pc)
      BY <1>1, LocalType, LenProperties, SplitTypes DEF Inductive
    <3>. QED
      BY <1>3, <2>2, <3>1 DEF WorkerType, Results
  <2>4. results' \in Seq(Results)
    BY <1>1, <2>1, <2>3, AppendProperties DEF ControlOK
  <2>5. ControlOK'
    BY <1>1, <2>1, <2>2, <2>4 DEF ControlOK, Results, Step, Limit
  <2>6. CountersExact' /\ RecordExact' /\ PhaseExact' /\ FileExact'
    BY <1>17, AppendKeeps
  <2>. QED
    BY <1>2, <2>5, <2>6, SplitTypes DEF Inductive, TypeOK, ControlOK, DataOK
<1>18. CASE Release(n) \/ WgDone(n)
  <2>1. /\ CountersExact' /\ RecordExact' /\ PhaseExact' /\ FileExact'
        /\ sem' \in 0..Limit /\ wg' \in Nat
    BY <1>18, ReleaseKeeps
  <2>2. PICK from, to \in WorkerPc : Step(n, from, to)
    BY <1>18 DEF Release, WgDone, WorkerPc, Live, Holding
  <2>3. Len(pc') = Len(pc) /\ pc' \in Seq(WorkerPc)
    BY <1>1, <2>2, StepMoves
  <2>4. ControlOK'
    BY <1>1, <1>18, <2>1, <2>2, <2>3 DEF ControlOK, Results, Step, Release, WgDone, Limit
  <2>. QED
    BY <1>2, <2>1, <2>4, SplitTypes DEF Inductive, TypeOK, ControlOK, DataOK
<1>. QED
  BY <1>5, <1>6, <1>7, <1>8, <1>9, <1>10, <1>11, <1>12, <1>13, <1>14, <1>15,
     <1>16, <1>17, <1>18 DEF Worker

----------------------------------------------------------------------------
(* The main goroutine's steps.                                             *)
LEMMA SpawnPreserves ==
  ASSUME Inductive, Spawn
  PROVE  Inductive'
<1>1. /\ ControlOK /\ DataOK /\ pc \in Seq(WorkerPc) /\ Len(pc) \in Nat
      /\ sem \in 0..Limit /\ Limit \in Nat
  BY SplitTypes, LimitFacts, LenProperties DEF Inductive, ControlOK
<1>2. /\ mainPc = "acquire" /\ mainPc' = "loop" /\ sem < Limit /\ sem' = sem + 1
      /\ pc' = Append(pc, "subst") /\ local' = Append(local, NewWorker)
      /\ UNCHANGED <<entries, dryRun, wg, store, lastResp, lastRespBody, results, file>>
  BY DEF Spawn, Goto, storeVars
<1>3. /\ pc' \in Seq(WorkerPc) /\ Len(pc') = Len(pc) + 1
      /\ DOMAIN pc' = 1..Len(pc) + 1 /\ DOMAIN pc = 1..Len(pc)
      /\ pc'[Len(pc) + 1] = "subst"
      /\ \A m \in DOMAIN pc : pc'[m] = pc[m]
      /\ At(Working)' = At(Working) \cup {Len(pc) + 1}
      /\ Cardinality(At(Working)') = Cardinality(At(Working)) + 1
      /\ Cardinality(At(Holding)') = Cardinality(At(Holding)) + 1
      /\ Cardinality(At(Live)') = Cardinality(At(Live)) + 1
  <2>1. "subst" \in Working /\ "subst" \in Holding /\ "subst" \in Live
    BY DEF Live, Holding, Working
  <2>. QED
    BY <1>1, <1>2, <2>1, SpawnJoins, LenProperties
<1>4. Values \subseteq Values' /\ Results \subseteq Results' /\ Unset \in Values
  <2>1. 1..Len(pc) \subseteq 1..Len(pc')
    BY <1>1, <1>3
  <2>. QED
    BY <2>1 DEF Values, Results
<1>5. WorkerType \subseteq WorkerType'
  <2>1. Seq(Values) \subseteq Seq(Values')
    BY <1>4, SeqMonotonic
  <2> HIDE DEF Values
  <2>. QED
    BY <1>4, <2>1 DEF WorkerType
<1>6. Seq(Results) \subseteq Seq(Results')
  BY <1>4, SeqMonotonic
<1>7. /\ local' \in Seq(WorkerType') /\ Len(local') = Len(pc')
      /\ \A m \in DOMAIN pc : local'[m] = local[m]
  <2>1. NewWorker \in WorkerType'
    <3>1. Unset \in Values' /\ <<>> \in Seq(Values')
      BY <1>4, EmptySeq
    <3> HIDE DEF Unset
    <3>. QED
      BY <3>1 DEF NewWorker, WorkerType, AnswerType
  <2>2. local \in Seq(WorkerType') /\ Len(local) = Len(pc)
    BY <1>1, <1>5, SeqMonotonic DEF DataOK
  <2>. QED
    BY <1>2, <1>3, <2>1, <2>2, AppendProperties
<1>8. DataOK'
  <2>1. [Vars -> Values] \subseteq [Vars -> Values']
    BY <1>4
  <2>2. lastResp \in 0..Len(pc')
    BY <1>1, <1>3 DEF DataOK
  <2>. QED
    BY <1>1, <1>2, <1>7, <2>1, <2>2 DEF DataOK
<1>9. ControlOK'
  <2>1. results' \in Seq(Results')
    BY <1>1, <1>2, <1>6 DEF ControlOK
  <2>2. file' \in [state : {"absent", "partial", "full"}, entries : Seq(Results')]
    <3> HIDE DEF Results
    <3>. QED
      BY <1>1, <1>2, <1>6 DEF ControlOK
  <2>3. sem' \in 0..Limit' /\ Limit' = Limit
    <3>1. Limit' = Limit
      BY DEF Limit
    <3>. QED
      BY <1>1, <1>2, <3>1
  <2>. QED
    BY <1>1, <1>2, <1>3, <2>1, <2>2, <2>3 DEF ControlOK, MainPc
<1>10. CountersExact'
  <2>1. /\ sem = Cardinality(At(Holding))
        /\ wg = Cardinality(At(Live)) + 1
    BY <1>2 DEF Inductive, CountersExact
  <2>2. Cardinality(At(Live)) \in Nat /\ Cardinality(At(Holding)) \in Nat
    BY <1>1, AtFinite
  <2>3. sem' = Cardinality(At(Holding)') /\ wg' = Cardinality(At(Live)') + 0
    BY <1>2, <1>3, <2>1, <2>2
  <2>. QED
    BY <1>2, <2>3 DEF CountersExact
<1>11. RecordExact'
  <2>1. Len(results') + Cardinality(At(Working)') = Len(pc')
    <3>1. Len(results) \in Nat /\ Cardinality(At(Working)) \in Nat
      BY <1>1, AtFinite, LenProperties DEF ControlOK
    <3>2. Len(results) + Cardinality(At(Working)) = Len(pc) /\ results' = results
      BY <1>2 DEF Inductive, RecordExact
    <3>. QED
      BY <1>1, <1>3, <3>1, <3>2
  <2>2. DOMAIN pc' \ At(Working)' = DOMAIN pc \ At(Working)
    <3>1. DOMAIN pc' = DOMAIN pc \cup {Len(pc) + 1} /\ Len(pc) + 1 \notin DOMAIN pc
      BY <1>1, <1>3
    <3>. QED
      BY <1>3, <3>1
  <2>3. {results'[p].job : p \in DOMAIN results'} = DOMAIN pc' \ At(Working)'
    BY <1>2, <2>2 DEF Inductive, RecordExact
  <2>4. ASSUME NEW m \in DOMAIN pc', pc'[m] \notin {"subst", "send"}
        PROVE  local'[m].status # "pending"
    <3>1. m \in DOMAIN pc
      BY <1>1, <1>3, <2>4
    <3>. QED
      BY <1>3, <1>7, <2>4, <3>1 DEF Inductive, RecordExact
  <2>. QED
    BY <2>1, <2>3, <2>4 DEF RecordExact
<1>12. PhaseExact'
  <2>1. NJobs' = NJobs /\ HasNull' = HasNull /\ NJobs \in Nat
    BY <1>1, <1>2, KeptFacts DEF NJobs, Kept, HasNull, ControlOK
  <2>. QED
    BY <1>1, <1>2, <1>3, <2>1 DEF Inductive, PhaseExact
<1>13. FileExact'
  BY <1>2 DEF Inductive, FileExact
<1>. QED
  BY <1>8, <1>9, <1>10, <1>11, <1>12, <1>13, SplitTypes
     DEF Inductive, TypeOK, ControlOK, DataOK

(* All other steps of the main goroutine, and MapFault, leave the          *)
(* goroutines alone.                                                       *)
LEMMA RestPreserves ==
  ASSUME Inductive,
         \/ Load \/ Filter \/ AddJob \/ LoopEnd \/ Join \/ Create \/ Save \/ Report
         \/ MapFault \/ UNCHANGED vars
  PROVE  Inductive'
<1>1. /\ ControlOK /\ DataOK /\ pc \in Seq(WorkerPc) /\ Len(pc) \in Nat
      /\ wg \in Nat /\ entries \in Seq(EntryType)
  BY SplitTypes, LenProperties DEF Inductive, ControlOK
<1>2. UNCHANGED <<sem, pc, local, lastResp, lastRespBody, results>>
  BY DEF Load, Filter, AddJob, LoopEnd, Join, Create, Save, Report, MapFault, vars, storeVars
<1>3. /\ Values' = Values /\ WorkerType' = WorkerType /\ Results' = Results
      /\ \A S : At(S)' = At(S)
  BY <1>2 DEF Values, WorkerType, Results, At
<1>4. RecordExact'
  BY <1>2, <1>3 DEF Inductive, RecordExact
<1>5. DataOK'
  <2>1. store' \in [Vars -> Values]
    BY <1>1 DEF DataOK, Load, Filter, AddJob, LoopEnd, Join, Create, Save, Report,
                MapFault, vars, storeVars, EnvValue, Values
  <2>. QED
    BY <1>1, <1>2, <1>3, <2>1 DEF DataOK
<1>6. /\ Cardinality(At(Live)) \in Nat
      /\ Cardinality(At(Live)) = 0 => At(Live) = {}
      /\ pc = <<>> => At(Live) = {} /\ Len(pc) = 0
  BY <1>1, AtFinite, FS_EmptySet, LenProperties
<1>7. /\ NJobs \in Nat
      /\ UNCHANGED entries => NJobs' = NJobs /\ (HasNull' <=> HasNull)
  BY <1>1, KeptFacts DEF NJobs, Kept, HasNull
<1>. USE DEF Inductive, CountersExact, PhaseExact, FileExact, ControlOK, MainPc, Ended, Goto
<1>8. ASSUME ControlOK', CountersExact', PhaseExact', FileExact'
      PROVE  Inductive'
  BY <1>4, <1>5, <1>8 DEF TypeOK, DataOK
<1>9. CASE Load
  <2>1. entries' \in Seq(EntryType)
    BY <1>1, <1>9, SessionsAssumption DEF Load
  <2>. QED
    BY <1>1, <1>2, <1>3, <1>6, <1>7, <1>8, <1>9, <2>1 DEF Load, Limit
<1>10. CASE Filter
  BY <1>1, <1>2, <1>3, <1>6, <1>7, <1>8, <1>10 DEF Filter, Limit
<1>11. CASE AddJob
  BY <1>1, <1>2, <1>3, <1>6, <1>7, <1>8, <1>11 DEF AddJob, Limit
<1>12. CASE LoopEnd
  BY <1>1, <1>2, <1>3, <1>6, <1>7, <1>8, <1>12 DEF LoopEnd, Limit
<1>13. CASE Join
  BY <1>1, <1>2, <1>3, <1>6, <1>7, <1>8, <1>13, FlagsAssumption DEF Join, Limit
<1>14. CASE Create
  <2>1. file' \in [state : {"absent", "partial", "full"}, entries : Seq(Results')]
    <3>1. <<>> \in Seq(Results')
      BY EmptySeq
    <3>2. file \in [state : {"absent", "partial", "full"}, entries : Seq(Results')]
      BY <1>1, <1>3
    <3>3. file' = file \/ file' = [state |-> "partial", entries |-> <<>>]
      BY <1>14 DEF Create
    <3>4. ASSUME NEW Q, <<>> \in Q
          PROVE  [state |-> "partial", entries |-> <<>>]
                   \in [state : {"absent", "partial", "full"}, entries : Q]
      BY <3>4
    <3>. QED
      BY <3>1, <3>2, <3>3, <3>4
  <2>. QED
    BY <1>1, <1>2, <1>3, <1>6, <1>7, <1>8, <1>14, <2>1 DEF Create, Limit
<1>15. CASE Save
  BY <1>1, <1>2, <1>3, <1>6, <1>7, <1>8, <1>15 DEF Save, Limit
<1>16. CASE Report
  BY <1>1, <1>2, <1>3, <1>6, <1>7, <1>8, <1>16 DEF Report, Limit
<1>17. CASE MapFault
  <2>1. PICK n \in DOMAIN pc : pc[n] \in Live
    BY <1>17 DEF MapFault, Race, WritesStore, WritesBody, Live, Holding, Working
  <2>2. file.state = "absent" /\ pc # <<>>
    BY <1>17, <2>1, WhileOneLives DEF MapFault
  <2>. QED
    BY <1>1, <1>2, <1>3, <1>6, <1>7, <1>8, <1>17, <2>2 DEF MapFault, Limit
<1>18. CASE UNCHANGED vars
  BY <1>1, <1>2, <1>3, <1>7, <1>8, <1>18 DEF vars, Limit
<1>. QED
  BY <1>9, <1>10, <1>11, <1>12, <1>13, <1>14, <1>15, <1>16, <1>17, <1>18

(* Inductive is an invariant: the counters, the record, the phases and the *)
(* file hang together in every state of every run (engine.go:93-132).      *)
THEOREM Invariance == Spec => []Inductive
<1>1. Init => Inductive
  <2> SUFFICES ASSUME Init
               PROVE  Inductive
    OBVIOUS
  <2> USE DEF Init
  <2>1. /\ pc \in Seq(WorkerPc) /\ Len(pc) = 0 /\ DOMAIN pc = {}
        /\ results \in Seq(Results) /\ Len(results) = 0 /\ DOMAIN results = {}
        /\ local \in Seq(WorkerType) /\ Len(local) = 0 /\ entries \in Seq(EntryType)
    BY EmptySeq
  <2>2. \A S : At(S) = {}
    BY <2>1 DEF At
  <2>3. Cardinality({}) = 0
    BY FS_EmptySet
  <2>4. TypeOK
    BY <2>1, LimitFacts, FlagsAssumption DEF TypeOK, MainPc, NoFile, NoBody, Values, Unset
  <2>5. CountersExact /\ RecordExact
    <3>1. {results[p].job : p \in DOMAIN results} = DOMAIN pc \ At(Working)
      BY <2>1, <2>2
    <3>2. Len(results) + Cardinality(At(Working)) = Len(pc)
      <4>1. Cardinality(At(Working)) = 0
        <5>1. At(Working) = {}
          BY <2>2
        <5>. QED
          BY <5>1, <2>3, Zenon
      <4>2. Len(results) = 0 /\ Len(pc) = 0
        BY <2>1
      <4>. QED
        BY <4>1, <4>2
    <3>3. RecordExact
      BY <2>1, <3>1, <3>2 DEF RecordExact
    <3>4. Cardinality(At(Holding)) = 0 /\ Cardinality(At(Live)) = 0
      BY <2>2, <2>3
    <3>. QED
      BY <3>3, <3>4 DEF CountersExact
  <2>6. PhaseExact /\ FileExact
    BY <2>1, <2>2 DEF PhaseExact, FileExact, NoFile
  <2>. QED
    BY <2>4, <2>5, <2>6 DEF Inductive
<1>2. Inductive /\ [Next]_vars => Inductive'
  BY WorkerPreserves, SpawnPreserves, RestPreserves DEF Next, Main, Finished
<1>. QED
  BY <1>1, <1>2, PTL DEF Spec

----------------------------------------------------------------------------
(* What follows.                                                           *)

(* Type correctness of the engine's state, with the bounds of its two      *)
(* counters (engine.go:93-94).                                             *)
THEOREM Typed == Spec => []TypeOK
  BY Invariance, PTL DEF Inductive

(* Goroutines at work hold a token each.                                   *)
LEMMA WorkingBound ==
  ASSUME Inductive
  PROVE  /\ Cardinality(At(Working)) <= sem /\ sem <= Limit
         /\ Cardinality(At(Working)) \in Nat /\ sem \in Nat
<1>1. pc \in Seq(WorkerPc) /\ sem \in 0..Limit /\ sem = Cardinality(At(Holding))
  BY DEF Inductive, TypeOK, CountersExact
<1>2. At(Working) \in SUBSET At(Holding)
  BY DEF At, Holding
<1>3. Cardinality(At(Working)) <= Cardinality(At(Holding))
  BY <1>1, <1>2, AtFinite, FS_Subset
<1>. QED
  BY <1>1, <1>3, AtFinite, LimitFacts

(* No more than --concurrency requests are ever in progress.               *)
THEOREM Concurrent == Spec => []ConcurrencyBound
<1>1. Inductive => ConcurrencyBound
  BY WorkingBound, LimitFacts DEF ConcurrencyBound
<1>. QED
  BY <1>1, Invariance, PTL

(* The record is at most Limit - 1 places out of order; with one request   *)
(* at a time it is the order of the session (engine.go:108, 115-117).      *)
THEOREM Reordering == Spec => []BoundedReordering
<1>1. Init => BoundedReordering
  BY DEF Init, BoundedReordering
<1>2. Inductive /\ BoundedReordering /\ [Next]_vars => BoundedReordering'
  <2> SUFFICES ASSUME Inductive, BoundedReordering, [Next]_vars
               PROVE  BoundedReordering'
    OBVIOUS
  <2>0. Limit' = Limit
    BY DEF Limit
  <2>1. CASE UNCHANGED results
    BY <2>0, <2>1 DEF BoundedReordering
  <2>2. ASSUME NEW n \in DOMAIN pc, AppendResult(n)
        PROVE  BoundedReordering'
    <3> DEFINE r == [job |-> n, status |-> local[n].status]
    <3>1. /\ pc \in Seq(WorkerPc) /\ results \in Seq(Results)
          /\ results' = Append(results, r)
      BY <2>2 DEF Inductive, TypeOK, AppendResult
    <3>2. n \in 1..Len(pc) /\ Len(pc) \in Nat /\ Len(results) \in Nat
      BY <3>1, LenProperties
    <3>3. n <= Len(results) + Limit
      BY <3>2, WorkingBound, LimitFacts DEF Inductive, RecordExact
    <3>4. /\ DOMAIN results = 1..Len(results)
          /\ DOMAIN results' = 1..Len(results) + 1
          /\ \A p \in 1..Len(results) : results'[p] = results[p]
          /\ results'[Len(results) + 1].job = n
      <4>1. results \in Seq(Results \cup {r}) /\ r \in Results \cup {r} /\ r.job = n
        BY <3>1, SeqMonotonic
      <4> HIDE DEF r
      <4>. QED
        BY <3>1, <4>1, AppendProperties, LenProperties
    <3>5. ASSUME NEW p \in DOMAIN results'
          PROVE  results'[p].job <= p + Limit - 1
      <4>1. CASE p = Len(results) + 1
        BY <3>2, <3>3, <3>4, <4>1, LimitFacts
      <4>2. CASE p \in 1..Len(results)
        BY <3>4, <4>2 DEF BoundedReordering
      <4>. QED
        BY <3>2, <3>4, <4>1, <4>2
    <3>. QED
      BY <2>0, <3>5 DEF BoundedReordering
  <2>. QED
    BY <2>1, <2>2 DEF Next, Main, Load, Filter, AddJob, Spawn, LoopEnd, Join, Create,
       Save, Report, Worker, Substitute, Substituted, SubstitutedDryRun, SendFails,
       SendSucceeds, SetLastResp, ResetBody, FillBody, BindMisses, BindExtracts,
       BindAssigns, BindsDone, Release, WgDone, MapFault, Finished, vars
<1>. QED
  BY <1>1, <1>2, Invariance, PTL DEF Spec

(* When no goroutine is live and the loop is over, the record is complete. *)
LEMMA RecordComplete ==
  ASSUME Inductive, At(Live) = {}, Len(pc) = NJobs
  PROVE  Complete(results) /\ \A n \in DOMAIN pc : pc[n] = "end"
<1>1. pc \in Seq(WorkerPc) /\ results \in Seq(Results)
  BY DEF Inductive, TypeOK
<1>2. At(Working) = {} /\ Cardinality({}) = 0
  BY FS_EmptySet DEF At, Live, Holding
<1>3. Len(results) = NJobs
  BY <1>1, <1>2, LenProperties DEF Inductive, RecordExact
<1>4. DOMAIN pc = Jobs
  BY <1>1, LenProperties DEF Jobs
<1>5. \A n \in DOMAIN pc : pc[n] \in WorkerPc /\ pc[n] \notin Live
  BY <1>1, LenProperties, ElementOfSeq DEF At
<1>. QED
  BY <1>2, <1>3, <1>4, <1>5 DEF Inductive, RecordExact, Complete, WorkerPc

(* The result file, once written, is complete, for every schedule and      *)
(* every pattern of failures (engine.go:115-131).                          *)
THEOREM FileComplete == Spec => []FileIsComplete
<1>1. Inductive => FileIsComplete
  BY RecordComplete DEF Inductive, FileIsComplete, FileExact, PhaseExact
<1>. QED
  BY <1>1, Invariance, PTL

(* Exit code 0 means that everything ran, nothing failed, and the file     *)
(* says so (main.go:314-333).                                              *)
THEOREM ExitZero == Spec => []ExitZeroIsComplete
<1>1. Inductive => ExitZeroIsComplete
  <2> SUFFICES ASSUME Inductive, mainPc = "exit0"
               PROVE  /\ Complete(results)
                      /\ \A p \in DOMAIN results : results[p].status # "failed"
                      /\ WantsFile => file = [state |-> "full", entries |-> results]
    BY DEF ExitZeroIsComplete
  <2>1. Complete(results)
    BY RecordComplete DEF Inductive, PhaseExact
  <2>2. file \in [state : {"absent", "partial", "full"}, entries : Seq(Results)]
    BY DEF Inductive, TypeOK
  <2>3. /\ \A p \in DOMAIN results : results[p].status # "failed"
        /\ WantsFile => file.state = "full" /\ file.entries = results
    BY DEF Inductive, FileExact
  <2>. QED
    BY <2>1, <2>2, <2>3
<1>. QED
  BY <1>1, Invariance, PTL

(* The file is not touched while a goroutine may still append.             *)
THEOREM FileLast == Spec => FileAfterWorkers
<1>1. Inductive /\ [Next]_vars
        => (file' # file => Len(pc) = NJobs /\ \A n \in DOMAIN pc : pc[n] = "end")
  <2> SUFFICES ASSUME Inductive, [Next]_vars, file' # file
               PROVE  Len(pc) = NJobs /\ \A n \in DOMAIN pc : pc[n] = "end"
    OBVIOUS
  <2>1. Create \/ Save
    BY DEF Next, Main, Load, Filter, AddJob, Spawn, LoopEnd, Join, Report, Worker,
       Substitute, Substituted, SubstitutedDryRun, SendFails, SendSucceeds,
       SetLastResp, ResetBody, FillBody, BindMisses, BindExtracts, BindAssigns,
       BindsDone, AppendResult, Release, WgDone, MapFault, Finished, Step, vars
  <2>2. At(Live) = {} /\ Len(pc) = NJobs
    BY <2>1 DEF Create, Save, Inductive, PhaseExact
  <2>. QED
    BY <2>2, RecordComplete
<1>2. [][Inductive]_vars /\ [][Next]_vars => FileAfterWorkers
  BY <1>1, PTL DEF FileAfterWorkers
<1>. QED
  BY <1>1, Invariance, PTL DEF Spec, FileAfterWorkers

(* A dry run never gets to a response.                                     *)
DryRunStaysDry ==
  dryRun => \A n \in DOMAIN pc : pc[n] \in {"subst", "append", "release", "wgdone", "end"}

(* No step changes --dry-run.                                              *)
LEMMA DryRunFixed == [Next]_vars => dryRun' = dryRun
<1>1. \A n \in DOMAIN pc : Worker(n) => dryRun' = dryRun
  BY DEF Worker, Substitute, Substituted, SubstitutedDryRun, SendFails, SendSucceeds,
     SetLastResp, ResetBody, FillBody, BindMisses, BindExtracts, BindAssigns,
     BindsDone, AppendResult, Release, WgDone, Step
<1>. QED
  BY <1>1 DEF Next, Main, Load, Filter, AddJob, Spawn, LoopEnd, Join, Create, Save,
     Report, MapFault, Finished, vars

(* In a dry run no goroutine gets past its substitution.                   *)
LEMMA Dry == Spec => []DryRunStaysDry
<1>1. Init => DryRunStaysDry
  BY DEF Init, DryRunStaysDry
<1>2. Inductive /\ DryRunStaysDry /\ [Next]_vars => DryRunStaysDry'
  <2> SUFFICES ASSUME Inductive, DryRunStaysDry, dryRun', [Next]_vars
               PROVE  \A n \in DOMAIN pc' :
                        pc'[n] \in {"subst", "append", "release", "wgdone", "end"}
    BY DEF DryRunStaysDry
  <2>0. dryRun
    BY DryRunFixed
  <2>1. pc \in Seq(WorkerPc)
    BY DEF Inductive, TypeOK
  <2>2. CASE Spawn
    BY <2>0, <2>1, <2>2, SpawnJoins, LenProperties DEF Spawn, DryRunStaysDry, Working
  <2>3. ASSUME NEW n \in DOMAIN pc, Worker(n)
        PROVE  \A m \in DOMAIN pc' :
                 pc'[m] \in {"subst", "append", "release", "wgdone", "end"}
    <3>1. PICK to \in {"subst", "append", "release", "wgdone", "end"} :
            \E from \in WorkerPc : Step(n, from, to)
      BY <2>0, <2>3 DEF DryRunStaysDry, Worker, Substitute, Substituted, SubstitutedDryRun,
         SendFails, SendSucceeds, SetLastResp, ResetBody, FillBody, BindMisses,
         BindExtracts, BindAssigns, BindsDone, AppendResult, Release, WgDone, Step,
         WorkerPc, Live, Holding, Working
    <3>2. to \in WorkerPc
      BY DEF WorkerPc, Live, Holding, Working
    <3>. QED
      BY <2>0, <2>1, <3>1, <3>2, StepMoves DEF DryRunStaysDry
  <2>4. CASE UNCHANGED pc
    BY <2>0, <2>4 DEF DryRunStaysDry
  <2>. QED
    BY <2>2, <2>3, <2>4 DEF Next, Main, Load, Filter, AddJob, LoopEnd, Join, Create,
       Save, Report, MapFault, Finished, vars
<1>. QED
  BY <1>1, <1>2, Invariance, PTL DEF Spec

(* With one token there is one goroutine at the store.                     *)
LEMMA SerialNeverRaces ==
  ASSUME Inductive, Limit = 1
  PROVE  ~Race
<1> SUFFICES ASSUME Race
             PROVE  FALSE
  OBVIOUS
<1>1. PICK m, n \in DOMAIN pc : m # n /\ {m, n} \subseteq At(Working)
  BY DEF Race, WritesStore, ReadsStore, WritesBody, ReadsBody, At, Working
<1>2. IsFiniteSet({m}) /\ Cardinality({m}) = 1
  BY FS_Singleton
<1>3. Cardinality({m} \cup {n}) = 2
  BY <1>1, <1>2, FS_AddElement
<1>4. IsFiniteSet(At(Working)) /\ {m} \cup {n} \in SUBSET At(Working)
  BY <1>1, AtFinite DEF Inductive, TypeOK
<1>5. Cardinality({m} \cup {n}) <= Cardinality(At(Working))
  BY <1>4, FS_Subset
<1>. QED
  BY <1>3, <1>5, WorkingBound

(* The store needs no lock when requests go one at a time, nor in a dry    *)
(* run of any width (variables.go:19, engine.go:88-91, 183-187).           *)
THEOREM NoRace == Spec => []RaceFree
<1>1. Inductive /\ DryRunStaysDry => RaceFree
  BY SerialNeverRaces DEF RaceFree, DryRunStaysDry, Race, WritesStore, WritesBody
<1>. QED
  BY <1>1, Invariance, Dry, PTL

----------------------------------------------------------------------------
(* The engine implements ReplayRun.                                        *)
LEMMA NoJobsOf ==
  ASSUME Kept = {}
  PROVE  NJobs = 0
  BY FS_EmptySet, LimitFacts DEF NJobs

(* Before the first goroutine there is nothing to map.                     *)
LEMMA EmptyRun ==
  ASSUME Inductive, pc = <<>>
  PROVE  /\ At(Working) = {} /\ Len(pc) = 0
         /\ results = <<>> /\ DOMAIN results = {}
<1>1. /\ Len(pc) = 0 /\ DOMAIN pc = {} /\ Cardinality({}) = 0
      /\ results \in Seq(Results)
  BY FS_EmptySet DEF Inductive, TypeOK
<1>2. At(Working) = {}
  BY <1>1 DEF At
<1>3. Len(results) = 0
  BY <1>1, <1>2, LenProperties DEF Inductive, RecordExact
<1>. QED
  BY <1>1, <1>2, <1>3, EmptySeq, LenProperties

(* The main goroutine's steps that the abstract run sees at most as an end. *)
LEMMA MainImplements ==
  ASSUME Inductive, Load \/ Filter \/ AddJob \/ LoopEnd \/ Join \/ Report
  PROVE  Abstract!Next \/ UNCHANGED Abstract!abstractVars
<1>1. UNCHANGED <<pc, results, file>> /\ At(Working)' = At(Working)
  BY DEF Load, Filter, AddJob, LoopEnd, Join, Report, At
<1>2. NJobs \in Nat
  BY KeptFacts DEF Inductive, TypeOK
<1>3. mainPc \in {"load", "filter"} =>
        /\ pc = <<>> /\ At(Working) = {} /\ Len(pc) = 0
        /\ results = <<>> /\ DOMAIN results = {} /\ file.state # "full"
  BY EmptyRun DEF Inductive, PhaseExact, FileExact
<1>4. UNCHANGED entries => NJobs' = NJobs /\ (HasNull' <=> HasNull)
  BY DEF NJobs, Kept, HasNull
<1>5. CASE Load
  <2>1. mainPc = "load" /\ entries = <<>> /\ Kept = {}
    BY <1>5, EmptySeq DEF Load, Inductive, PhaseExact, Kept
  <2>2. CASE mainPc' = "exit1" /\ UNCHANGED entries
    <3>1. NJobs' = 0
      BY <1>4, <2>1, <2>2, NoJobsOf
    <3>. QED
      BY <1>1, <1>3, <2>1, <2>2, <3>1
         DEF Abstract!Next, Abstract!End, Begun
  <2>3. CASE mainPc' = "filter"
    BY <1>1, <2>1, <2>3 DEF Abstract!abstractVars, Begun
  <2>. QED
    BY <1>5, <2>2, <2>3 DEF Load, Goto
<1>6. CASE Filter
  <2>1. mainPc = "filter" /\ UNCHANGED entries
    BY <1>6 DEF Filter
  <2>2. CASE HasNull /\ mainPc' = "crashed"
    BY <1>1, <1>3, <1>4, <2>1, <2>2 DEF Abstract!Next, Abstract!End, Begun
  <2>3. CASE Kept = {} /\ mainPc' = "exit1"
    BY <1>1, <1>3, <1>4, <2>1, <2>3, NoJobsOf DEF Abstract!Next, Abstract!End, Begun
  <2>4. CASE ~HasNull /\ mainPc' = "loop"
    BY <1>1, <1>2, <1>3, <1>4, <2>1, <2>4
       DEF Abstract!Next, Abstract!Begin, Abstract!Empty, Begun
  <2>. QED
    BY <1>6, <2>2, <2>3, <2>4 DEF Filter, Goto
<1>7. CASE AddJob \/ LoopEnd \/ Join
  <2>1. /\ mainPc \in {"loop", "join"} /\ UNCHANGED entries
        /\ mainPc' \in {"acquire", "join", "create", "report"}
    BY <1>7 DEF AddJob, LoopEnd, Join, Goto
  <2>. QED
    BY <1>1, <1>4, <2>1 DEF Abstract!abstractVars, Begun
<1>8. CASE Report
  <2>1. /\ mainPc = "report" /\ UNCHANGED entries
        /\ \/ mainPc' = "exit1"
           \/ /\ mainPc' = "exit0"
              /\ \A p \in DOMAIN results : results[p].status # "failed"
    BY <1>8 DEF Report, Goto
  <2>2. Len(pc) = NJobs /\ At(Working) = {} /\ ~HasNull
    BY <2>1 DEF Inductive, PhaseExact, At, Live, Holding
  <2>. QED
    BY <1>1, <1>4, <2>1, <2>2 DEF Abstract!Next, Abstract!End, Begun
<1>. QED
  BY <1>5, <1>6, <1>7, <1>8

(* Creating and saving the file publish the record or stutter.             *)
LEMMA FileImplements ==
  ASSUME Inductive, Create \/ Save
  PROVE  Abstract!Next \/ UNCHANGED Abstract!abstractVars
<1>1. /\ mainPc \in {"create", "save"} /\ UNCHANGED <<entries, pc, results>>
      /\ At(Working)' = At(Working) /\ NJobs' = NJobs /\ (HasNull' <=> HasNull)
  BY DEF Create, Save, At, NJobs, Kept, HasNull
<1>2. Len(pc) = NJobs /\ At(Working) = {} /\ ~HasNull /\ file.state # "full"
  BY <1>1 DEF Inductive, PhaseExact, FileExact, At, Live, Holding
<1>3. CASE mainPc' = "exit1" /\ UNCHANGED file
  BY <1>1, <1>2, <1>3 DEF Abstract!Next, Abstract!End, Begun
<1>4. CASE mainPc' = "save" /\ file' = [state |-> "partial", entries |-> <<>>]
  BY <1>1, <1>2, <1>4 DEF Abstract!abstractVars, Begun
<1>5. CASE mainPc' = "report" /\ file' = [state |-> "full", entries |-> results]
  BY <1>1, <1>2, <1>5 DEF Abstract!Next, Abstract!Publish, Begun
<1>. QED
  BY <1>3, <1>4, <1>5 DEF Create, Save, Goto

(* A new goroutine is an abstract start.                                   *)
LEMMA SpawnImplements ==
  ASSUME Inductive, Spawn
  PROVE  Abstract!Start
<1>1. /\ mainPc = "acquire" /\ mainPc' = "loop" /\ sem < Limit
      /\ UNCHANGED <<entries, results, file>>
      /\ NJobs' = NJobs /\ (HasNull' <=> HasNull)
  BY DEF Spawn, Goto, NJobs, Kept, HasNull
<1>2. Len(pc) < NJobs /\ ~HasNull
  BY <1>1 DEF Inductive, PhaseExact
<1>3. Len(pc') = Len(pc) + 1 /\ At(Working)' = At(Working) \cup {Len(pc) + 1}
  BY SpawnJoins DEF Spawn, Inductive, TypeOK, Working
<1>4. Cardinality(At(Working)) < Limit
  BY <1>1, WorkingBound, LimitFacts
<1>5. Begun /\ Begun'
  BY <1>1, <1>2 DEF Begun
<1>6. UNCHANGED (IF file.state = "full" THEN file.entries ELSE <<>>)
  BY <1>1
<1>7. Abstract!Cardinality(At(Working)) = Cardinality(At(Working))
  BY DEF Abstract!Cardinality, Cardinality
<1>. QED
  BY <1>1, <1>2, <1>3, <1>4, <1>5, <1>6, <1>7 DEF Abstract!Start

(* A goroutine's step is an abstract finish or a stutter.                  *)
LEMMA WorkerImplements ==
  ASSUME Inductive, NEW n \in DOMAIN pc, Worker(n)
  PROVE  Abstract!Next \/ UNCHANGED Abstract!abstractVars
<1>1. PICK from \in Live, to \in WorkerPc : Step(n, from, to)
  BY DEF Worker, Substitute, Substituted, SubstitutedDryRun, SendFails,
     SendSucceeds, SetLastResp, ResetBody, FillBody, BindMisses, BindExtracts,
     BindAssigns, BindsDone, AppendResult, Release, WgDone, WorkerPc, Live,
     Holding, Working
<1>2. /\ UNCHANGED <<mainPc, entries, file>> /\ mainPc \notin Ended
      /\ NJobs' = NJobs /\ (HasNull' <=> HasNull) /\ pc \in Seq(WorkerPc)
  BY <1>1 DEF Step, NJobs, Kept, HasNull, Inductive, TypeOK
<1>3. Len(pc') = Len(pc)
  BY <1>1, <1>2, StepMoves
<1>4. CASE AppendResult(n)
  <2>1. /\ Step(n, "append", "release")
        /\ results' = Append(results, [job |-> n, status |-> local[n].status])
    BY <1>4 DEF AppendResult
  <2>2. n \in At(Working) /\ At(Working)' = At(Working) \ {n}
    BY <1>2, <2>1, StepLeaves DEF Working, WorkerPc, Live, Holding
  <2>3. local[n].status \in {"dry_run", "failed", "success"}
    <3>1. local[n] \in WorkerType
      BY <1>2, LocalType, SplitTypes DEF Inductive
    <3>2. local[n].status # "pending"
      BY <2>1 DEF Inductive, RecordExact, Step
    <3>. QED
      BY <3>1, <3>2 DEF WorkerType
  <2>. QED
    BY <1>2, <1>3, <2>1, <2>2, <2>3 DEF Abstract!Next, Abstract!Finish, Begun, Ended
<1>5. CASE ~AppendResult(n)
  <2>1. /\ UNCHANGED results
        /\ \E f, t \in WorkerPc : Step(n, f, t) /\ (f \in Working <=> t \in Working)
    BY <1>5 DEF Worker, Substitute, Substituted, SubstitutedDryRun, SendFails,
       SendSucceeds, SetLastResp, ResetBody, FillBody, BindMisses, BindExtracts,
       BindAssigns, BindsDone, Release, WgDone, WorkerPc, Live, Holding, Working
  <2>2. At(Working)' = At(Working)
    BY <1>2, <2>1, StepStays
  <2>. QED
    BY <1>2, <1>3, <2>1, <2>2 DEF Abstract!abstractVars, Begun
<1>. QED
  BY <1>4, <1>5

(* Only a run of several at a time can be stopped by the runtime.          *)
LEMMA FaultImplements ==
  ASSUME Inductive, MapFault
  PROVE  Abstract!End
<1>1. /\ mainPc \notin Ended /\ mainPc' = "crashed" /\ UNCHANGED <<entries, pc, results, file>>
      /\ At(Working)' = At(Working) /\ NJobs' = NJobs /\ (HasNull' <=> HasNull)
  BY DEF MapFault, Goto, At, NJobs, Kept, HasNull
<1>2. Limit > 1
  BY SerialNeverRaces, LimitFacts DEF MapFault
<1>3. mainPc \in {"loop", "acquire", "join"}
  BY WhileOneLives DEF MapFault, Race, WritesStore, WritesBody, Live, Holding, Working
<1>. QED
  BY <1>1, <1>2, <1>3 DEF Abstract!End, Begun, Ended

(* Every behaviour of the engine is a behaviour of ReplayRun.              *)
THEOREM Implements == Spec => ImplementsRun
<1>1. Init => Abstract!Init
  <2> SUFFICES ASSUME Init
               PROVE  Abstract!Init
    OBVIOUS
  <2>1. At(Working) = {} /\ Len(pc) = 0
    BY EmptySeq DEF Init, At
  <2>. QED
    BY <2>1 DEF Init, Abstract!Init, Abstract!Empty, Begun, NoFile
<1>2. Inductive /\ [Next]_vars => [Abstract!Next]_(Abstract!abstractVars)
  <2> SUFFICES ASSUME Inductive, [Next]_vars
               PROVE  Abstract!Next \/ UNCHANGED Abstract!abstractVars
    OBVIOUS
  <2>1. CASE UNCHANGED vars
    BY <2>1 DEF vars, Abstract!abstractVars, At, Begun, HasNull, NJobs, Kept
  <2>2. CASE Spawn
    BY <2>2, SpawnImplements DEF Abstract!Next
  <2>3. CASE MapFault
    BY <2>3, FaultImplements DEF Abstract!Next
  <2>. QED
    BY <2>1, <2>2, <2>3, MainImplements, FileImplements, WorkerImplements
       DEF Next, Main, Finished
<1>. QED
  BY <1>1, <1>2, Invariance, PTL DEF Spec, ImplementsRun, Abstract!Spec
=============================================================================
