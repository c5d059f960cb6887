# Verification of `replay`

`replay` records HTTP traffic into a session file, sends it again, and compares
the answers. This directory holds TLA+ models of the program in `src/`, the
TLC configurations that check them, and TLAPS proofs about them. Line numbers
in the modules and in `PROJECT.json` refer to `src/`.

## 1. The system

| component | source | state | operations |
|---|---|---|---|
| rate limiter | `internal/replay/tokenbucket.go` | tokens, time of the last refill, a mutex | `Take`, `Wait` |
| replay engine | `internal/replay/engine.go` | request list, semaphore channel, WaitGroup, result list and its mutex, result file | `Run`: load, filter, pace, start, join, write; `executeEntry` per request: substitute, send, bind, append |
| variable store | `internal/replay/variables.go` | map of values, last response, map of its JSON body; no lock | `ApplyBind`, `SetResponse`, `ReplaceInRequest` |
| capture proxy | `internal/proxy/proxy.go`, `cmd/replay/main.go:159` | session in memory and its mutex, session file, the connections | plain exchange, CONNECT as tunnel or interception, record, `Stop` on a signal |
| session file | `internal/session/session.go` | the file | `Load`, `Save`, body encoding |
| response diff | `internal/diff/diff.go` | none | `Compare` and its parts |
| HAR import | `internal/har/har.go` | none | `Parse`, conversion |
| certificate cache | `internal/proxy/certs.go` | CA, map host to certificate, a mutex | `Get` |
| command line | `cmd/replay/main.go` | none | flags, sizes, exit codes |

How they interact. `record` and `capture` write a session file that `run` reads;
`run` writes a result file that `diff` reads next to the session. Within `run`,
the main goroutine asks the rate limiter, then sleeps a delay, then takes a
token of the semaphore, and one goroutine per request shares with it the
semaphore, the WaitGroup, the result list (under a mutex) and the variable store
(under nothing). Within `capture`, one goroutine per connection and one that
waits for a signal share the session, which `p.mu` protects, and the file it is
saved to; each connection has a client on one side and, on the other, the
proxy's HTTP client or a connection of its own.

What is hard:

* **replay engine.** Starts are in order and ends are not; the token of the
  semaphore is taken by the loop and given back by a deferred call of another
  goroutine; the file is marshalled without the mutex of the list; requests
  read variables that other requests' responses bind. Correct means: every
  request recorded once whatever fails, never more than `--concurrency` in
  progress, the file written after the last append, exit code 0 only for a
  complete record, a substitution that follows the order of the requests, and
  an end.
* **rate limiter and pacing.** A full bucket, a refill at every try, a sleep
  rounded down, and three gates in a row, of which the later ones may hold a
  request back while the earlier ones refill. Correct means: a bound on what any
  interval lets through, a least distance between starts, and no endless retry.
* **capture proxy.** Answer before record, a whole-file rewrite per exchange
  under a lock, ignored save errors, a process exit that stops goroutines where
  they stand, a filter asked before there is a URL. On an intercepted connection,
  two ways to the server, framing that gets lost, and a reader made anew for
  every excluded request. Correct means: nothing that was answered is lost or
  doubled, the file is the session whenever nobody is saving, the stop leaves a
  file that can be read, and each client gets its own response to its end.
* **diff, session body, HAR.** Conversions in a row: a difference is reported
  where the servers' answers differ and only there, and a body survives
  encoding, truncation, the file and decoding.

`PROJECT.json` lists the hazards at their lines and which property covers each.

## 2. Modules

| module | what it is |
|---|---|
| `TokenBucket` | the rate limiter with a clock and any number of callers |
| `Pacing` | extends it: the loop of `Run` at its three gates, on the same clock |
| `ReplayRun` | what a replay run promises, without goroutines: the abstract specification |
| `ReplayEngine` | `Run`, its goroutines and the variable store; implements `ReplayRun` |
| `CaptureProxy` | the proxy's connections, the lock, the session file and the stop |
| `HttpsLink` | the messages on one intercepted connection |
| `SessionBody` | operators: what a message becomes in a session file, and back |
| `HarImport` | operators: the responses of a HAR file as a session |
| `ResponseDiff` | operators: what `replay diff` says of two responses |
| `DiffPipeline` | the commands in a row that use the last three |
| `MC*` | small instances for TLC |
| `SetLemmas` | lemmas on least elements and on the k-th element of a set, for two of the proofs |
| `*Proofs` | the theorems and their proofs |

### TokenBucket and Pacing

`Take()` runs under a mutex and is one step, granted or refused; `Wait()` is the
loop around it. Time is an integer with `Second` ticks to the second. Tokens are
scaled by `Second`, which makes the float64 arithmetic of the code exact
fractions; rounding of floats is the one thing abstracted. `sleeps` and `grants`
are histories.

`Pacing` has the bucket's one caller in this program. `phase` walks through an
iteration of the loop: `top`, `wait` (inside `bucket.Wait()`, or past it at once
without `--rps`), `delay` and `nap` (`applyDelay`, which the first request
skips), `acquire` (the send on the semaphore), and back. The bucket's steps are
used as they are, with the clock. How long a request takes is free: `End` may
happen at any time after its start.

### ReplayEngine

`mainPc` walks through `Run` and the end of `cmdRun`: load, filter (a null
element ends the program there), for every request `wg.Add` and then the send on
the semaphore's channel, the join, create and write of the result file, each of
which may fail, and the exit code. `pc[n]` and `local[n]` are the goroutine of
the n-th request: it reads the store once per placeholder, ends there in a dry
run, sends (an error, or one of the answers), stores the response in three
steps, applies the binds of `--bind` one after the other, appends its result and
runs its two deferred calls. The pacing calls change none of this state.

The data are small. A request is whether the filter matches it and which
placeholders it has. A response is whether its body is a JSON object and which
variables can be found in it. The *value* of a variable is the number of the
request whose response supplied it; this is what lets `Expected` say which value
a placeholder should have had.

Two goroutines in the same map, one of them writing, enable `MapFault`, the Go
runtime's stop of the program. It is a possibility, never a certainty. Word-sized
fields are read and written in single steps.

`Abstract == INSTANCE ReplayRun WITH ...` at the end of the module is the
refinement mapping: requests in progress are the goroutines between their start
and their append, the published file is the file once written.

### CaptureProxy

A connection is not open, plain, intercepted (`tls`) or a tunnel, as `link[c]`
says; a plain connection may become one of the others by a CONNECT. `pc[c]`
is where its goroutine stands: `idle`, `serve` (between the request's arrival
and its answer, when anything may fail), `lock`, `append`, `create`, `write`,
`unlock`. The signal's goroutine, `Stopper`, goes through the same lock and save
and then to `exit`. `Exit` stops every other action for good, which is what
`os.Exit` does to goroutines. `Save` is two steps, truncate and write, that may
fail; the errors are dropped, as in the code, and `failed` remembers the last
one. Which patterns a URL or a CONNECT host contains is the constant `Hits`.
What the small `net/http` buffer holds back of a short answer on a plain
connection is not modelled: `answered` means handed to the connection.

### HttpsLink

What `CaptureProxy` has as one step, `serve`, seen from the wire. The client
sends one request at a time; `serveHTTPS` reads it (`read`), and either gives it
to the proxy's HTTP client (`do`) or, when it is not to be recorded, writes it on
the connection dialled at the CONNECT and reads the answer there (`raw`).
Responses are heads and bodies; of a head only how the end of its response is
found matters. The code's treatment of each is there: an excluded response loses
its body and keeps its length, a chunked one loses its framing in both
directions, and a `bufio.Reader` made for one response takes along whatever else
has arrived. What a tunnel copies is not here; `CaptureProxy` has tunnels by what
passes unseen through them.

`strayed` remembers that an unrecorded request had a chunked body, whose framing
`buildRawRequest` drops, so that the server takes it for something else: from
then on nothing is promised. `Inductive` says whose turn it is and what is on its
way then.

### SessionBody, HarImport, ResponseDiff, DiffPipeline

A byte is named by its part in UTF-8: `lead2`, `lead3` and `lead4` begin a
character of two, three or four bytes, `cont` continues one, `ef bf bd` is U+FFFD,
and every other name is a character of one byte. (The ranges that exclude overlong
forms and surrogates are not distinguished: there, such bytes count as
characters.) A stored content is a sequence of groups, a byte of a text or up to
three bytes in four characters of base64, which `Decoded` puts together again.
`Stored` is what marshalling and reading back makes of a content. In a text,
`encoding/json` writes U+FFFD, of three bytes, for each byte that is in no whole
character (`Broken`, `Filed`), so that what comes back may be longer than what was
kept; base64 is left alone. `Picked` is the loop that keeps some elements of a
list.

JSON values are the set `JSON`; `Depth` gives each a depth above that of its
parts, which says no more than that a text is finite, and `Documents` is
`json.Unmarshal`, a map from texts to values. `CompareValues` is
`compareJSONValues` as a recursive function on pairs of values. It returns what
differs *below* the values, and each caller puts its own step in front
(`Below`), where the code passes the path along as a prefix. The cases of
`compareBodies` are a chain of IFs in the order of the code, as more than one may
hold. Where the code ranges over a Go map and the result depends on the order,
the operator yields the set of all outcomes (`Found`, `CompareHeaders`,
`ParseSize`).

`DiffPipeline` runs the commands: `--max-body-size` is parsed, a session is
captured or imported, saved, replayed with some width and filter, and the two
files are compared. `served` and `answer` are histories of what the servers
really sent, so that the properties relate the report to the servers' bytes and
not to what the program made of them on the way; an entry of a HAR file has the
bytes that the server sent next to the text and the encoding that the file claims
(`IsEntry`), and what the import makes of these is its own affair (`BodyBytes`).
`BodySurvives` compares the two ends. A body stored in base64 comes back byte for
byte. Of a text, every beginning that consists of characters does; and if the
whole text did before it was cut, all else that comes back is U+FFFD, once for
each of the at most three bytes left of the character in the cut.

`FieldsExact` says what a field difference is without the comparison's recursion:
`Inside` lists everything in a value with its path, and `Disagreements` are the
paths at which two values differ and above which both have the same kind of
container. It speaks of responses with one content type under a spelling that
`getContentType` knows (`OnlyType`). `Inductive` traces every record to the response it was made from.

## 3. What is checked

| run | instance | shows |
|---|---|---|
| `run_serial` | 4 kinds of session file, 2 passes, one at a time, real and dry, all answers, env, JSON and header binds | `SerialSubstitution`, `RaceFree`, `ExitZeroIsComplete`, `Termination`, `TypeOK` |
| `run_concurrent` | 3 chained requests, two at a time, real and dry, a JSON bind | `Inductive` and the invariants it implies, `RaceFree` of the dry run, `FileAfterWorkers`, `ImplementsRun`, `Termination` |
| `run_crash` | two at a time | **violation**: the store's race ends the run and its record |
| `pacing` | 5 requests, 2 tokens/s, 3 ticks/s, 6 ticks, with and without bucket, fixed, random and no delay, width 1 and 2 | `WindowBound` of the bucket, `StartBound` of the requests, `DelayBound`, `BoundedRetry`, `PacedTypeOK` |
| `pacing_rate` | the same | **violation**: more requests than `--rps` in a second |
| `capture` | 2 connections, 2 exchanges each, URLs in the clear and over HTTPS, one pattern excluded | `Inductive`, `FileIsCurrent`, `AnsweredIsRecorded`, `RecordedInOrder`, `RecordedEventually`, `StopEnds` |
| `capture_stop` | 1 exchange each | **violation**: a torn file after a clean stop |
| `capture_include` | `--include-only /api` | **violation**: HTTPS traffic below `/api` passes unrecorded |
| `link` | 4 requests on one connection | `Inductive`, `OwnResponse`, `SizedNeverStands`, `SizedArrives`, `GoneEnds` |
| `link_excluded` | 3 requests | **violation**: an excluded request's client waits for a body nobody sends |
| `diff` | 1 entry with every response, 2 with a few, 12 HAR files, width 1 and 2 | `Inductive`, `BodySurvives`, `PairsMatch`, `ChangeIsShown`, `SameIsSilent`, `HeadersExact`, `FieldsExact` |
| `diff_blind` | the same | **violation**: different bodies, nothing reported or named as skipped |

The six violations are findings: each property is what a comment, a message, the
help or the task text says, and each counterexample is what the code does.
`PROJECT.json` quotes the sentence next to each. `RatePerSecond` is the help's "at
most N requests per second", which the full bucket at the start breaks;
`StartBound` is what the code does hold, a full bucket more than that and one
request more, and is no substitute for the promise.

Two things the models show without a run of their own. A recorded response on an
intercepted connection that came in chunks, over HTTP/2 without a length, or was
unzipped, is passed on without any framing (`proxy.go:357`, `DoReplies`), and its
client waits for the end of a connection that stays open: these exchanges are
what `SizedNeverStands` and `SizedArrives` leave out, and they do stand still. And
`parseSize` refuses `--max-body-size 1MB`, the help's own example
(`main.go:41`), whenever the map of units gives `"b"` before `"mb"`
(`main.go:381`): `ParseSize` yields both outcomes, and `phase` is `"refused"`
then. `BodySurvives` says that a size which is accepted is the one written.

**Bounds.** *run*: two requests in progress are what every race here needs;
three with two at a time let one overtake another and still leave one to start;
two passes let variables of the first reach the second. *pacing*: six ticks are
two seconds, in which a bucket of two is emptied, refilled and emptied again;
three ticks to the second and two tokens make the sleep round down; five
requests are more than one second lets through. *capture*: two connections and
the stopper contend for the lock; two exchanges each show order and repetition.
*link*: four requests are an excluded one whose leftovers meet the next, between
two others. *diff*: `Limits` 1 and 2 with two entries give every pairing that
goes wrong; the bodies are shorter than, as long as and longer than the eight
bytes of `--max-body-size`, with characters of two, three and four bytes before,
across and behind the cut; the JSON values are all of
depth one over three leaves and some of depth two. A session of two captured
entries takes them from `FewResponses`, as pairing does not look into them.

Only `pacing` and `pacing_rate` do not check for deadlock: the bound of their
clock stops them.

**Mutants.** Next to a definition stands, marked as a faulty variant, what a
plausible slip would make of it: a forgotten `wg.Add`, a semaphore with one
place too many, an append outside the lock, a lock kept on an error path, a
dropped body length, a tag taken off a body that was not cut, a text lost because
it claims to be base64, a loop over the shorter array only. Each property is
violated when such a variant takes the place of the definition.

**Fairness.** `ReplayEngine`: weak fairness of the main goroutine and of the
goroutines as a whole. The scheduler runs goroutines that can run, the pacing
calls return, and `sendRequest` has a 30 s timeout. Fairness for each goroutine
alone is not needed, as each has finitely many steps. `CaptureProxy`: weak
fairness of what an actor does under the lock, and strong fairness of taking it,
because `sync.Mutex` hands itself to a goroutine that has waited for a
millisecond. `HttpsLink`: weak fairness of the client's reading of what has
arrived, and of the proxy's turns that wait for nobody. Servers are never fair
(the proxy's client has no timeout), nor are clients in sending or leaving, nor
the signal: nothing is claimed about exchanges that get no answer. `TokenBucket` and `Pacing` have no liveness;
`BoundedRetry` is its safety form.

## 4. What is proved

All theorems are for every value of the constants that satisfies the named
assumptions, and TLC evaluates these in the runs. They are about types (a positive
rate, lists of entries, distinct actor names) and about what the standard library
gives: `net/http` has one spelling of a header's name in a response
(`ResponsesAssumption`), JSON values are nested finitely (`JSONAssumption`), no
text that parses as JSON contains what the diff shows of a binary body
(`DocumentsAssumption`), and `strings.EqualFold` takes the two spellings of
Content-Type for one (`FoldAssumption`).

* **TokenBucketProofs.** `Window`: any interval hands out at most the capacity
  and what it refills. A count of grants cannot bound an interval by itself; the
  invariant adds, for every grant, that the tokens left now and everything
  granted since fit into the capacity and what has been refilled since
  (`Credit`).
* **PacingProofs.** `PacedTyped`. `StartsBounded`: every start is paired with the
  grant of its own turn, which is not later, and the next grant is not earlier
  than the start (`Paired`); so `Window` carries over, short of one request. This
  is an upper bound on how far the code departs from `--rps`, not the promised rate.
  `DelaysKept`: a delay that is running ends no earlier than the least delay
  after the last start, and the next start waits for its end (`DelayInv`).
  `Retries`, for the bucket alone with the one caller, and `PacedRetries`: a
  refused caller sleeps `Second \div RPS` ticks, and two such sleeps refill a
  whole token when `RPS <= Second`, which is the theorem's hypothesis (`--rps` up
  to 10^9 in the code).
* **ReplayEngineProofs.** `Invariance`: `Inductive` holds always. It says that
  the semaphore and the WaitGroup count the goroutines at certain places
  (`CountersExact`), that the record has exactly the requests past their append,
  each once (`RecordExact`), how far the main goroutine is (`PhaseExact`) and
  what the file holds by then (`FileExact`). None of the promised invariants is
  inductive alone: that the file is complete needs that the join saw a zero,
  which needs that the counter is exact. From it follow `Concurrent`,
  `FileComplete`, `ExitZero`, `FileLast`, and, with an argument on positions,
  `Reordering`: a result recorded at place p is of a request that had started,
  and all but `Limit - 1` of the started ones are recorded. `NoRace` needs that
  with one token there is one goroutine at work, and that a dry run never gets
  to a bind. `Implements` shows that initial states map to initial states of
  `ReplayRun` and each step to a step or a stutter.
* **SubstitutionProofs.** `Substitution`: with one request at a time
  `SerialSubstitution` holds. The invariant `SerialInv` says that only the latest
  request can hold the token (`OneByOne`), and what the store is at each of its
  places (`StoreExact`): what it expects itself until its first bind, then some
  of its own values over that, then exactly what the *next* request expects; and
  that `lastResp` and `lastRespBody` are its own from the moment they can be used
  (`ResponseExact`). `ExpectedNext` is the recurrence behind it.
* **CaptureProxyProofs.** `Invariance`: the actors in the critical section are
  exactly the holder of `mu` (`LockExact`); the place of the holder says how file
  and session differ (`FileExact`); each connection's place in its own sequence
  (`ExchangeExact`). `Current`, `Answered` and `InOrder` follow.

* **HttpsLinkProofs.** `Invariance`: `Inductive` of `HttpsLink` holds always, for
  any number of requests. `OwnResponse` alone is not inductive: a response can
  only reach its own reader if nothing of an earlier one is left anywhere, so the
  invariant has that client and proxy take turns (`OneExchange`), and that what is
  on its way, on either connection, is of the request at hand, with the raw
  connection empty whenever the client may go on (`NoLeftovers`). The last parts
  of `NoLeftovers` are the `bufio.Reader` that is thrown away: it may be so only
  because whatever it took along was all there was. From this, `Own`.
  `SizedOnItsWay` has every sized response of a recorded request either before
  its head, in full, or before its body, alone; `NoStandoff` follows, as a
  standoff has nothing on its way.
* **DiffPipelineProofs.** `Invariance`: `Inductive` of `DiffPipeline`. Each entry of
  the session is what `NewBodyContent` and, once saved, the file make of the
  response at the same place (`SessionExact`), the same for the replay's records
  (`ResultsExact`), results and remaining requests together are the kept entries
  in order when one runs at a time (`ReplayInOrder`), and the report is of that
  session and those results (`ReportExact`). None of the properties speaks of two
  files at once; the invariant is what joins them. From it:
  * `Survives`: decoding gives back what was encoded, by arithmetic on groups of
    three (`Decoded` of `Base64`). For texts, the file's replacement moves the bytes
    behind a broken one: `Shift` says where each gets to, and is strictly monotone,
    so that every place of the result has one source (`ShiftSteps`, `ShiftSources`);
    a beginning of whole characters has no broken byte and is not moved
    (`WholeBeginning`, `FiledBeginning`); and a cut through a text of characters
    breaks only the bytes of the last one, fewer than its width (`BrokenCut`,
    `TextComesBack`). The tag of a cut body is a character of its own, so that it
    is found again behind whatever the file made of the rest (`TextTagged`).
  * `Matching`: when nothing is filtered the k-th kept entry is the k-th entry.
  * `HeaderReport`, `Silence`: with one spelling per name, what `compareHeaders`
    finds first and what it finds by folding are the same value.
  * `Showing`: two bodies look the same only in the cases `Blind` names.
  * `FieldReport`: the comparison reports exactly the topmost disagreements.

  The last two need what the recursive functions `CompareValues` and `Inside` are.
  The library's theorems on recursion take operators as parameters and cannot be
  used, so the module proves from the least counterexample in depth that a
  function with the recursion's equation exists on the values up to each depth
  (`EachComparison`, `EachListing`), that two such functions agree
  (`OneComparison`, `OneListing`), and so that the definition is what it says
  (`ValuesCompared`, `InsideIs`). `NothingToReport` (no differences exactly for
  equal values) and `TopmostFound` (differences are the disagreements) go down in
  depth the same way. Objects and arrays are one case there (`StepsCompared`).

What attempts at proofs have shown about the models: base64 was once put through
the replacement of bytes that are no characters (harmless for the values in the
runs, wrong for others); U+FFFD counted as one byte and characters had two at
most, which made an untrue statement about lengths provable; the cases of `compareBodies` and of a difference's kind
stood in a `CASE` whose guards overlap, which leaves the choice open; and
`FieldsExact` once spoke of responses that have JSON as *one* of their types,
which is false when they also have `text/html` or a spelling that
`getContentType` does not know, responses that no run had. All four are mended.

**Only model-checked.** Liveness under fairness, which the prover does not
support: `Termination`, `RecordedEventually`, `StopEnds`, `SizedArrives`,
`GoneEnds`. Every other property of a passing run is the statement
of a theorem. `Encode` in `MCDiffPipeline` is the one `RECURSIVE` operator; it
only makes texts for TLC.

## 5. Not modelled

* **Certificates and TLS** (`internal/proxy/certs.go`). The cache is one map
  under one mutex that is held while a certificate is made, so each `Get` is one
  step and there is nothing to interleave; the CA is made anew at every start.
  What matters elsewhere, that a host may get no certificate, is `Certified`.
* **What requests say.** Methods, URLs, queries, bodies of requests and the
  request side of a HAR file; addresses, and with them the port that is dropped
  at `proxy.go:308`. They pass through the program unchanged except for
  placeholders, which `ReplayEngine` has.
* **Parsing** of flags, of bind specifications, of JSON paths, and regular
  expressions: functions of a text that keep no state. `--offset` only rewrites
  a timestamp of the record.
* **Output.** The layout of the report, wording, progress lines and logging,
  timestamps and durations.
* **Numbers in JSON** are compared as float64 by the code; two numbers that
  differ beyond its precision are not in the models' values.
* **What a tunnel copies** (`proxy.go:224`): two calls of `io.Copy`, of which
  neither is told of the other's end, without state of the program.
* **A proxy that cannot listen**, and null entries in files given to `diff`.

## 6. What could come next

The request side of `SessionBody` and `HarImport` with the addresses of
`serveHTTPS`, to say that a replay asks what was recorded; an abstract
specification of the capture, a file that only grows, for `CaptureProxy` to
implement; and the same for `HttpsLink`, one exchange after the other.
