---------------------------- MODULE ReplayEngine ----------------------------
(***************************************************************************)
(* `replay run` (internal/replay/engine.go, variables.go): one loop that   *)
(* starts a goroutine per request under a semaphore, goroutines that       *)
(* substitute variables, send, and bind new variables from the response,   *)
(* and a result file written when all have ended.                          *)
(*                                                                         *)
(* Job n is the n-th request the loop starts; its goroutine is pc[n] and   *)
(* local[n].  The pacing calls of the loop (engine.go:99-105) change       *)
(* nothing here: TokenBucket models them.  A variable's value is the job   *)
(* whose response supplied it, so that a property can ask where it is      *)
(* from.  All goroutines share one VariableStore, which has no lock: a     *)
(* variable or pointer is read and written in single steps, and the Go     *)
(* runtime may stop the program when two of them are in the same map.      *)
(***************************************************************************)
EXTENDS Integers, Sequences, FiniteSets

CONSTANTS
  Sessions,     \* the request lists a session file may hold
  Loop,         \* --loop
  Concurrency,  \* --concurrency
  DryRuns,      \* the values of --dry-run that are considered
  WantsFile,    \* --output is not empty
  Vars,         \* names of variables
  Binds,        \* --bind: [name, source], in order
  EnvSet,       \* the names whose env bind finds a non-empty variable
  Answers       \* what a server may answer

(* An element of "requests": null, or an entry with or without a request,  *)
(* that the filter matches or not, with its placeholders in order.         *)
EntryType == [kind : {"null", "norequest", "request"},
              matches : BOOLEAN, uses : Seq(Vars)]

(* "json": the body is text that parses as a JSON object (one that could  *)
(* not be read to its end does not); "offers": the variables whose path,   *)
(* header or pattern is found in it.                                       *)
AnswerType == [json : BOOLEAN, offers : SUBSET Vars]

BindType == [name : Vars, source : {"env", "header", "json", "regex", "other"}]

ASSUME SessionsAssumption    == Sessions \subseteq Seq(EntryType)
ASSUME LoopAssumption        == Loop \in Int
ASSUME ConcurrencyAssumption == Concurrency \in Int
ASSUME FlagsAssumption       == DryRuns \subseteq BOOLEAN /\ WantsFile \in BOOLEAN
ASSUME BindsAssumption       == Binds \in Seq(BindType) /\ EnvSet \subseteq Vars
ASSUME AnswersAssumption     == Answers \subseteq AnswerType

VARIABLES
  mainPc,        \* where Run and the command around it stand
  entries,       \* s.Requests
  dryRun,        \* cfg.DryRun
  sem,           \* the number of tokens in the semaphore's channel
  wg,            \* the counter of the WaitGroup
  pc,            \* where each goroutine stands, in the order they start
  local,         \* what each goroutine knows
  store,         \* vs.store
  lastResp,      \* vs.lastResp: the job it answers, or 0
  lastRespBody,  \* vs.lastRespBody: the variables found in it
  results,       \* result.Entries: [job, status]
  file           \* the result file

storeVars == <<store, lastResp, lastRespBody>>
vars == <<mainPc, entries, dryRun, sem, wg, pc, local, storeVars, results, file>>

----------------------------------------------------------------------------
Unset   == -1  \* the placeholder stays in the text
FromEnv == 0
NoBody  == [v \in Vars |-> Unset]

(* filterEntries: the entries to replay, and the job numbers they get.     *)
Kept == {i \in DOMAIN entries :
           entries[i].kind = "request" /\ entries[i].matches}

Limit  == IF Concurrency <= 0 THEN 1 ELSE Concurrency
Passes == IF Loop <= 0 THEN 1 ELSE Loop
NJobs  == Passes * Cardinality(Kept)

EntryOf(n) ==
  LET k == ((n - 1) % Cardinality(Kept)) + 1
  IN  entries[CHOOSE i \in Kept : Cardinality({j \in Kept : j <= i}) = k]

Uses(n) == EntryOf(n).uses

(* Goroutines that have a token of the semaphore, that the WaitGroup waits *)
(* for, and that have appended their result.                               *)
Working   == {"subst", "send", "setresp", "reset", "fill", "bind", "assign", "append"}
Holding   == Working \cup {"release"}
Live      == Holding \cup {"wgdone"}
WorkerPc  == Live \cup {"end"}
At(pcs)   == {n \in DOMAIN pc : pc[n] \in pcs}
Ended     == {"exit0", "exit1", "crashed"}

NewWorker == [seen |-> <<>>, next |-> 1, val |-> Unset,
              answer |-> [json |-> FALSE, offers |-> {}],
              status |-> "pending"]

NoFile == [state |-> "absent", entries |-> <<>>]

Init ==
  /\ mainPc = "load"
  /\ entries = <<>>
  /\ dryRun \in DryRuns
  /\ sem = 0
  /\ wg = 0
  /\ pc = <<>>
  /\ local = <<>>
  /\ store = NoBody
  /\ lastResp = 0
  /\ lastRespBody = NoBody
  /\ results = <<>>
  /\ file = NoFile

----------------------------------------------------------------------------
(* Run, in the main goroutine.                                             *)

Goto(label) == mainPc' = label

(* session.Load *)
Load ==
  /\ mainPc = "load"
  /\ \/ Goto("exit1") /\ UNCHANGED entries
     \/ Goto("filter") /\ entries' \in Sessions
  /\ UNCHANGED <<dryRun, sem, wg, pc, local, storeVars, results, file>>

HasNull == \E i \in DOMAIN entries : entries[i].kind = "null"

EnvValue(v) ==
  IF v \in EnvSet /\ \E b \in DOMAIN Binds : Binds[b] = [name |-> v, source |-> "env"]
  THEN FromEnv ELSE Unset

(* filterEntries dereferences every element; then Run binds the            *)
(* environment's variables.                                                *)
Filter ==
  /\ mainPc = "filter"
  /\ \/ HasNull /\ Goto("crashed") /\ UNCHANGED store
     \/ ~HasNull /\ Kept = {} /\ Goto("exit1") /\ UNCHANGED store
     \/ /\ ~HasNull /\ Kept # {}
        /\ Goto("loop")
        /\ store' = [v \in Vars |-> EnvValue(v)]
  /\ UNCHANGED <<entries, dryRun, sem, wg, pc, local, lastResp, lastRespBody, results, file>>

(* Faulty variant: wg.Add is forgotten. *)
AddJobUncounted ==
  /\ mainPc = "loop"
  /\ Len(pc) < NJobs
  /\ Goto("acquire")
  /\ UNCHANGED <<entries, dryRun, sem, wg, pc, local, storeVars, results, file>>

AddJob ==
  /\ mainPc = "loop"
  /\ Len(pc) < NJobs
  /\ wg' = wg + 1
  /\ Goto("acquire")
  /\ UNCHANGED <<entries, dryRun, sem, pc, local, storeVars, results, file>>

(* Faulty variant: the channel has room for one token too many. *)
SpawnOneMore ==
  /\ mainPc = "acquire"
  /\ sem <= Limit
  /\ sem' = sem + 1
  /\ pc' = Append(pc, "subst")
  /\ local' = Append(local, NewWorker)
  /\ Goto("loop")
  /\ UNCHANGED <<entries, dryRun, wg, storeVars, results, file>>

(* The send on the semaphore's channel goes through; the goroutine starts. *)
Spawn ==
  /\ mainPc = "acquire"
  /\ sem < Limit
  /\ sem' = sem + 1
  /\ pc' = Append(pc, "subst")
  /\ local' = Append(local, NewWorker)
  /\ Goto("loop")
  /\ UNCHANGED <<entries, dryRun, wg, storeVars, results, file>>

LoopEnd ==
  /\ mainPc = "loop"
  /\ Len(pc) >= NJobs
  /\ Goto("join")
  /\ UNCHANGED <<entries, dryRun, sem, wg, pc, local, storeVars, results, file>>

(* Faulty variant: wg.Wait is forgotten. *)
JoinAtOnce ==
  /\ mainPc = "join"
  /\ Goto(IF WantsFile THEN "create" ELSE "report")
  /\ UNCHANGED <<entries, dryRun, sem, wg, pc, local, storeVars, results, file>>

Join ==
  /\ mainPc = "join"
  /\ wg = 0
  /\ Goto(IF WantsFile THEN "create" ELSE "report")
  /\ UNCHANGED <<entries, dryRun, sem, wg, pc, local, storeVars, results, file>>

(* ioutil.WriteFile truncates the file, then writes; each may fail.        *)
Create ==
  /\ mainPc = "create"
  /\ \/ Goto("exit1") /\ UNCHANGED file
     \/ Goto("save") /\ file' = [state |-> "partial", entries |-> <<>>]
  /\ UNCHANGED <<entries, dryRun, sem, wg, pc, local, storeVars, results>>

Save ==
  /\ mainPc = "save"
  /\ \/ Goto("exit1") /\ UNCHANGED file
     \/ Goto("report") /\ file' = [state |-> "full", entries |-> results]
  /\ UNCHANGED <<entries, dryRun, sem, wg, pc, local, storeVars, results>>

(* Faulty variant: only the last request's status is looked at. *)
ReportLast ==
  /\ mainPc = "report"
  /\ Goto(IF results # <<>> /\ results[Len(results)].status = "failed"
          THEN "exit1" ELSE "exit0")
  /\ UNCHANGED <<entries, dryRun, sem, wg, pc, local, storeVars, results, file>>

(* cmdRun counts the failed requests; main turns an error into exit 1.     *)
Report ==
  /\ mainPc = "report"
  /\ Goto(IF \E p \in DOMAIN results : results[p].status = "failed"
          THEN "exit1" ELSE "exit0")
  /\ UNCHANGED <<entries, dryRun, sem, wg, pc, local, storeVars, results, file>>

----------------------------------------------------------------------------
(* The goroutine of job n.                                                 *)

Step(n, from, to) ==
  /\ mainPc \notin Ended
  /\ pc[n] = from
  /\ pc' = [pc EXCEPT ![n] = to]
  /\ UNCHANGED <<mainPc, entries, dryRun, file>>

Pending(n) == Len(local[n].seen) < Len(Uses(n))

(* ReplaceInRequest reads the store once for every placeholder it meets.   *)
Substitute(n) ==
  /\ Pending(n)
  /\ Step(n, "subst", "subst")
  /\ local' = [local EXCEPT ![n].seen = Append(@, store[Uses(n)[Len(@) + 1]])]
  /\ UNCHANGED <<sem, wg, storeVars, results>>

(* Faulty variant: the dry-run test is missing. *)
SubstitutedAlways(n) ==
  /\ ~Pending(n)
  /\ Step(n, "subst", "send")
  /\ UNCHANGED <<sem, wg, local, storeVars, results>>

Substituted(n) ==
  /\ ~Pending(n)
  /\ ~dryRun
  /\ Step(n, "subst", "send")
  /\ UNCHANGED <<sem, wg, local, storeVars, results>>

SubstitutedDryRun(n) ==
  /\ ~Pending(n)
  /\ dryRun
  /\ Step(n, "subst", "append")
  /\ local' = [local EXCEPT ![n].status = "dry_run"]
  /\ UNCHANGED <<sem, wg, storeVars, results>>

(* sendRequest returns an error, at the latest at its 30 s timeout.        *)
SendFails(n) ==
  /\ Step(n, "send", "append")
  /\ local' = [local EXCEPT ![n].status = "failed"]
  /\ UNCHANGED <<sem, wg, storeVars, results>>

(* A response arrives and its body is read, the error of ReadAll dropped.  *)
SendSucceeds(n) ==
  /\ Step(n, "send", "setresp")
  /\ \E a \in Answers :
       local' = [local EXCEPT ![n].status = "success", ![n].answer = a]
  /\ UNCHANGED <<sem, wg, storeVars, results>>

(* SetResponse: the pointer, a new map, then json.Unmarshal into whatever  *)
(* map the store has by then.                                              *)
SetLastResp(n) ==
  /\ Step(n, "setresp", "reset")
  /\ lastResp' = n
  /\ UNCHANGED <<sem, wg, local, store, lastRespBody, results>>

ResetBody(n) ==
  /\ Step(n, "reset", IF local[n].answer.json THEN "fill" ELSE "bind")
  /\ lastRespBody' = NoBody
  /\ UNCHANGED <<sem, wg, local, store, lastResp, results>>

FillBody(n) ==
  /\ Step(n, "fill", "bind")
  /\ lastRespBody' = [v \in Vars |-> IF v \in local[n].answer.offers
                                     THEN n ELSE lastRespBody[v]]
  /\ UNCHANGED <<sem, wg, local, store, lastResp, results>>

(* ApplyBind on bind b: what extractFromResponse or extractByRegex finds.  *)
Extracted(b) ==
  CASE b.source = "json" -> lastRespBody[b.name]
    [] b.source \in {"header", "regex"} ->
         IF lastResp # 0 /\ b.name \in local[lastResp].answer.offers
         THEN lastResp ELSE Unset
    [] OTHER -> Unset   \* engine.go:216 applies no other source

CurrentBind(n) == Binds[local[n].next]
MoreBinds(n)   == local[n].next <= Len(Binds)

(* Faulty variant: a bind that finds nothing is tried again. *)
BindMissesRetries(n) ==
  /\ MoreBinds(n)
  /\ Step(n, "bind", "bind")
  /\ Extracted(CurrentBind(n)) = Unset
  /\ UNCHANGED <<sem, wg, local, storeVars, results>>

BindMisses(n) ==
  /\ MoreBinds(n)
  /\ Step(n, "bind", "bind")
  /\ Extracted(CurrentBind(n)) = Unset
  /\ local' = [local EXCEPT ![n].next = @ + 1]
  /\ UNCHANGED <<sem, wg, storeVars, results>>

BindExtracts(n) ==
  /\ MoreBinds(n)
  /\ Step(n, "bind", "assign")
  /\ Extracted(CurrentBind(n)) # Unset
  /\ local' = [local EXCEPT ![n].val = Extracted(CurrentBind(n))]
  /\ UNCHANGED <<sem, wg, storeVars, results>>

(* Faulty variant: a variable that is bound keeps its value. *)
BindAssignsOnce(n) ==
  /\ Step(n, "assign", "bind")
  /\ store' = [store EXCEPT ![CurrentBind(n).name] = IF @ = Unset THEN local[n].val ELSE @]
  /\ local' = [local EXCEPT ![n].next = @ + 1]
  /\ UNCHANGED <<sem, wg, lastResp, lastRespBody, results>>

BindAssigns(n) ==
  /\ Step(n, "assign", "bind")
  /\ store' = [store EXCEPT ![CurrentBind(n).name] = local[n].val]
  /\ local' = [local EXCEPT ![n].next = @ + 1]
  /\ UNCHANGED <<sem, wg, lastResp, lastRespBody, results>>

BindsDone(n) ==
  /\ ~MoreBinds(n)
  /\ Step(n, "bind", "append")
  /\ UNCHANGED <<sem, wg, local, storeVars, results>>

(* Faulty variant: a failed request is not recorded. *)
AppendResultUnlessFailed(n) ==
  /\ Step(n, "append", "release")
  /\ results' = IF local[n].status = "failed" THEN results
                ELSE Append(results, [job |-> n, status |-> local[n].status])
  /\ UNCHANGED <<sem, wg, local, storeVars>>

AppendResult(n) ==
  /\ Step(n, "append", "release")
  /\ results' = Append(results, [job |-> n, status |-> local[n].status])
  /\ UNCHANGED <<sem, wg, local, storeVars>>

(* The deferred calls, last one first.                                     *)
Release(n) ==
  /\ Step(n, "release", "wgdone")
  /\ sem' = sem - 1
  /\ UNCHANGED <<wg, local, storeVars, results>>

WgDone(n) ==
  /\ Step(n, "wgdone", "end")
  /\ wg' = wg - 1
  /\ UNCHANGED <<sem, local, storeVars, results>>

----------------------------------------------------------------------------
(* The maps of the store have no lock, and the runtime stops the program   *)
(* when it sees one goroutine write a map that another uses.               *)
WritesStore(n) == pc[n] = "assign"
ReadsStore(n)  == pc[n] = "subst" /\ Pending(n)
WritesBody(n)  == pc[n] = "fill"
ReadsBody(n)   == pc[n] = "bind" /\ MoreBinds(n) /\ CurrentBind(n).source = "json"

Race ==
  \E m, n \in DOMAIN pc :
    /\ m # n
    /\ \/ WritesStore(m) /\ (WritesStore(n) \/ ReadsStore(n))
       \/ WritesBody(m) /\ (WritesBody(n) \/ ReadsBody(n))

MapFault ==
  /\ mainPc \notin Ended
  /\ Race
  /\ Goto("crashed")
  /\ UNCHANGED <<entries, dryRun, sem, wg, pc, local, storeVars, results, file>>

----------------------------------------------------------------------------
Main == Load \/ Filter \/ AddJob \/ Spawn \/ LoopEnd \/ Join \/ Create \/ Save \/ Report

Worker(n) ==
  \/ Substitute(n) \/ Substituted(n) \/ SubstitutedDryRun(n)
  \/ SendFails(n) \/ SendSucceeds(n)
  \/ SetLastResp(n) \/ ResetBody(n) \/ FillBody(n)
  \/ BindMisses(n) \/ BindExtracts(n) \/ BindAssigns(n) \/ BindsDone(n)
  \/ AppendResult(n) \/ Release(n) \/ WgDone(n)

Finished == mainPc \in Ended /\ UNCHANGED vars

Next == Main \/ (\E n \in DOMAIN pc : Worker(n)) \/ MapFault \/ Finished

Spec == Init /\ [][Next]_vars

(* The scheduler keeps running goroutines that can run, the pacing calls   *)
(* of the loop return, and a request ends within its 30 s timeout.         *)
Fairness == WF_vars(Main) /\ WF_vars(\E n \in DOMAIN pc : Worker(n))

FairSpec == Spec /\ Fairness

----------------------------------------------------------------------------
Jobs    == 1..NJobs
Values  == {Unset, FromEnv} \cup 1..Len(pc)
Results == [job : 1..Len(pc), status : {"dry_run", "failed", "success"}]

WorkerType == [seen : Seq(Values), next : Nat \ {0}, val : Values,
               answer : AnswerType,
               status : {"pending", "dry_run", "failed", "success"}]

MainPc == {"load", "filter", "loop", "acquire", "join", "create", "save", "report"}
            \cup Ended

(* Every variable has its type, the channel never holds more tokens than   *)
(* its capacity, and the WaitGroup's counter never goes below zero (Go     *)
(* panics there).                                                          *)
TypeOK ==
  /\ mainPc \in MainPc
  /\ entries \in Seq(EntryType)
  /\ dryRun \in BOOLEAN
  /\ sem \in 0..Limit
  /\ wg \in Nat
  /\ pc \in Seq(WorkerPc)
  /\ local \in Seq(WorkerType)
  /\ Len(local) = Len(pc)
  /\ store \in [Vars -> Values]
  /\ lastResp \in 0..Len(pc)
  /\ lastRespBody \in [Vars -> Values]
  /\ results \in Seq(Results)
  /\ file \in [state : {"absent", "partial", "full"}, entries : Seq(Results)]

(* engine.go:93-112: never more requests in progress than --concurrency,   *)
(* although the token is taken by the loop and given back by a deferred    *)
(* call of another goroutine.                                              *)
ConcurrencyBound == Cardinality(At(Working)) <= Limit

(* engine.go:116: entries are appended as requests end, not as they start. *)
(* A request can still be recorded at most Limit - 1 places early: with    *)
(* one at a time, the record is in the order of the session file.          *)
BoundedReordering ==
  \A p \in DOMAIN results : results[p].job <= p + Limit - 1

Complete(record) ==
  /\ Len(record) = NJobs
  /\ {record[p].job : p \in DOMAIN record} = Jobs

(* The result file, once written, has every request of every pass exactly  *)
(* once, whatever the schedule and the failures (engine.go:115-131).       *)
FileIsComplete == file.state = "full" => Complete(file.entries)

(* main.go:314-333: exit 0 is only reached when every request of every     *)
(* pass was recorded, none failed, and the file the user asked for holds   *)
(* exactly this record.                                                    *)
ExitZeroIsComplete ==
  mainPc = "exit0" =>
    /\ Complete(results)
    /\ \A p \in DOMAIN results : results[p].status # "failed"
    /\ WantsFile => file = [state |-> "full", entries |-> results]

(* With one request at a time the VariableStore is safe without a lock, and *)
(* so is a dry run of any width, which only reads it (variables.go:19,     *)
(* engine.go:88-91, 183-187).                                              *)
RaceFree == Limit = 1 \/ dryRun => ~Race

(* The response of job m has what some bind of v looks for.                *)
Supplies(m, v) ==
  /\ local[m].status = "success"
  /\ v \in local[m].answer.offers
  /\ \E b \in DOMAIN Binds :
       /\ Binds[b].name = v
       /\ \/ Binds[b].source \in {"header", "regex"}
          \/ Binds[b].source = "json" /\ local[m].answer.json

(* What the placeholder of v in request n stands for: the latest response  *)
(* before n that supplies it, or else the environment.                     *)
Expected(n, v) ==
  LET S == {m \in 1..n-1 : Supplies(m, v)}
  IN  IF S = {} THEN EnvValue(v)
      ELSE CHOOSE m \in S : \A k \in S : k <= m

(* Every placeholder of every request took its value from the latest of    *)
(* the EARLIER responses that supply it.                                   *)
SubstitutionFollowsOrder ==
  \A n \in DOMAIN pc : \A k \in DOMAIN local[n].seen :
    local[n].seen[k] = Expected(n, Uses(n)[k])

(* So it is when requests go one at a time: neither a failed request, a    *)
(* missing field nor a body that is not JSON lets an older response's      *)
(* value or a later one's through (variables.go:32-86, engine.go:214-219). *)
SerialSubstitution == Limit = 1 => SubstitutionFollowsOrder

(* The result file is not touched while a goroutine may still append to    *)
(* the record (engine.go:122-129).                                         *)
FileAfterWorkers ==
  [][file' # file => /\ Len(pc) = NJobs
                     /\ \A n \in DOMAIN pc : pc[n] = "end"]_vars

(* Whatever the servers do, the run comes to an end: the semaphore and the *)
(* WaitGroup never leave the loop or a goroutine waiting for each other.   *)
Termination == <>(mainPc \in Ended)

(* What the task text says of a request that fails: the run goes on and    *)
(* every request gets its status.  So a run that has begun sending only    *)
(* ends with a complete record.                                            *)
RunSurvives == mainPc \in Ended /\ pc # <<>> => Complete(results)

----------------------------------------------------------------------------
(* Why the invariants above hold: how the main goroutine's position, the   *)
(* goroutines' positions, the two counters and the record hang together.   *)

(* The counters say what they stand for.                                   *)
CountersExact ==
  /\ sem = Cardinality(At(Holding))
  /\ mainPc # "crashed" =>
       wg = Cardinality(At(Live)) + (IF mainPc = "acquire" THEN 1 ELSE 0)

(* The record has the jobs that are past their append, each once.          *)
RecordExact ==
  /\ Len(results) + Cardinality(At(Working)) = Len(pc)
  /\ {results[p].job : p \in DOMAIN results} = DOMAIN pc \ At(Working)
  /\ \A n \in DOMAIN pc : pc[n] \notin {"subst", "send"} => local[n].status # "pending"

(* How far the main goroutine has come.                                    *)
PhaseExact ==
  /\ mainPc \in {"load", "filter"} => pc = <<>>
  /\ mainPc = "load" => entries = <<>>
  /\ mainPc \notin {"load", "filter", "exit1", "crashed"} => ~HasNull
  /\ pc # <<>> => Len(pc) <= NJobs
  /\ mainPc = "acquire" => Len(pc) < NJobs
  /\ mainPc \in {"join", "create", "save", "report", "exit0"} => Len(pc) = NJobs
  /\ mainPc \in {"create", "save", "report", "exit0", "exit1"} => At(Live) = {}

(* What has become of the file by then.                                    *)
FileExact ==
  /\ file.state # "absent" =>
       Len(pc) = NJobs /\ mainPc \in {"save", "report", "exit0", "exit1"}
  /\ file.state = "full" => /\ mainPc \in {"report", "exit0", "exit1"}
                            /\ file.entries = results
  /\ WantsFile /\ mainPc \in {"report", "exit0"} => file.state = "full"
  /\ mainPc = "exit0" => \A p \in DOMAIN results : results[p].status # "failed"

(* Inductive, and the invariants above follow from it; the goroutines hold *)
(* exactly the tokens and wait-group counts the code gave them             *)
(* (engine.go:93-120).                                                     *)
Inductive == TypeOK /\ CountersExact /\ RecordExact /\ PhaseExact /\ FileExact

----------------------------------------------------------------------------
(* The run as ReplayRun sees it.                                           *)
Begun == mainPc \notin {"load", "filter"} /\ ~HasNull

Abstract == INSTANCE ReplayRun WITH
  Width     <- Limit,
  Statuses  <- {"dry_run", "failed", "success"},
  total     <- IF Begun THEN NJobs ELSE 0,
  started   <- Len(pc),
  active    <- At(Working),
  finished  <- results,
  published <- IF file.state = "full" THEN file.entries ELSE <<>>,
  outcome   <- CASE mainPc = "exit0"   -> "ok"
                 [] mainPc = "exit1"   -> "error"
                 [] mainPc = "crashed" -> "abort"
                 [] OTHER              -> "running"

(* Every behaviour of the engine is one of ReplayRun (engine.go:54-135).   *)
ImplementsRun == Abstract!Spec
=============================================================================
