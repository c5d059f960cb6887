---------------------------- MODULE CaptureProxy ----------------------------
(***************************************************************************)
(* `replay capture` (internal/proxy/proxy.go, main.go:159): a proxy whose  *)
(* connections are served by concurrent goroutines, each of which answers  *)
(* the client, then takes p.mu to append the exchange to the session and   *)
(* to rewrite the whole session file; and the goroutine that, on a signal, *)
(* saves once more under the same lock and ends the program.               *)
(*                                                                         *)
(* A connection carries exchanges one after the other.  What matters of a  *)
(* URL is the host a client must CONNECT to for it (NoHost: none, the      *)
(* request comes to the proxy in the clear) and the patterns it contains.  *)
(* A file is "whole" when it holds a session, and "torn" from the moment   *)
(* it is truncated until it is written; what an earlier capture left is    *)
(* no file of this one.                                                    *)
(***************************************************************************)
EXTENDS Integers, Sequences, FiniteSets

CONSTANTS
  Conns,         \* client connections
  Stopper,       \* the goroutine that waits for the signal
  NoOne,         \* the holder of a mutex that is free
  Hosts, Urls,   \* what a CONNECT and a request can name
  NoHost,
  HostOf,        \* the host each URL needs a CONNECT to, or NoHost
  Certified,     \* the hosts the proxy can make a certificate for
  Patterns,      \* the strings of --exclude and --include-only
  Hits,          \* the patterns that each URL and each host contains
  Exclude, IncludeOnly,
  MaxExchanges   \* bound: exchanges on one connection

ASSUME ActorsAssumption ==
  Stopper \notin Conns /\ NoOne \notin Conns \cup {Stopper}
ASSUME HostsAssumption ==
  /\ NoHost \notin Hosts
  /\ HostOf \in [Urls -> Hosts \cup {NoHost}]
  /\ Certified \subseteq Hosts
ASSUME PatternsAssumption ==
  /\ Hits \in [Urls \cup Hosts -> SUBSET Patterns]
  /\ Exclude \subseteq Patterns /\ IncludeOnly \subseteq Patterns
ASSUME BoundAssumption == MaxExchanges \in Nat

VARIABLES
  pc,        \* where each connection's goroutine and the stopper stand
  link,      \* what each connection is: [kind, host]
  current,   \* the exchange it is at
  mu,        \* who holds p.mu
  log,       \* p.session.Requests
  file,      \* the session file
  failed,    \* history: the last save met an error, which is ignored
  answered,  \* history: exchanges to be recorded whose response was passed on
  unseen     \* history: exchanges that went through a tunnel

recording == <<mu, log, file, failed>>
vars == <<pc, link, current, recording, answered, unseen>>

----------------------------------------------------------------------------
Actors     == Conns \cup {Stopper}
Exchanges  == [conn : Conns, n : 1..MaxExchanges, url : Urls]
NoExchange == [n |-> 0]
NoLink     == [kind |-> "none", host |-> NoHost]
NoFile     == [state |-> "absent", entries |-> <<>>]
Running    == pc[Stopper] # "exited"

ShouldRecord(target) ==
  /\ Hits[target] \cap Exclude = {}
  /\ IncludeOnly # {} => Hits[target] \cap IncludeOnly # {}

Init ==
  /\ pc = [a \in Actors |-> "idle"]
  /\ link = [c \in Conns |-> NoLink]
  /\ current = [c \in Conns |-> NoExchange]
  /\ mu = NoOne
  /\ log = <<>>
  /\ file = NoFile
  /\ failed = FALSE
  /\ answered = {}
  /\ unseen = {}

----------------------------------------------------------------------------
(* Connections. *)

Open(c, kind, host) ==
  /\ Running
  /\ pc[c] = "idle"
  /\ link[c].kind \in {"none", "plain"}
  /\ link' = [link EXCEPT ![c] = [kind |-> kind, host |-> host]]
  /\ UNCHANGED <<pc, current, recording, answered, unseen>>

(* The first request is not a CONNECT. *)
OpenPlain(c) == Open(c, "plain", NoHost)

(* handleConnect: bytes are copied both ways, or the proxy plays the       *)
(* server; a host it has no certificate for gets a tunnel after all.       *)
Tunnel(c, h) ==
  /\ ~ShouldRecord(h) \/ h \notin Certified
  /\ Open(c, "tunnel", h)

Intercept(c, h) ==
  /\ ShouldRecord(h)
  /\ h \in Certified
  /\ Open(c, "tls", h)

(* The client goes away or sends what cannot be read, or a CONNECT fails.  *)
Close(c) ==
  /\ Running
  /\ pc[c] = "idle"
  /\ pc' = [pc EXCEPT ![c] = "closed"]
  /\ UNCHANGED <<link, current, recording, answered, unseen>>

NextExchange(c, u) == [conn |-> c, n |-> current[c].n + 1, url |-> u]

(* The client sends a request for u on an open connection. *)
Send(c, u) ==
  /\ Running
  /\ pc[c] = "idle"
  /\ link[c] # NoLink
  /\ HostOf[u] = link[c].host
  /\ current[c].n < MaxExchanges
  /\ current' = [current EXCEPT ![c] = NextExchange(c, u)]

(* io.Copy passes it on without a look. *)
PassUnseen(c, u) ==
  /\ Send(c, u)
  /\ link[c].kind = "tunnel"
  /\ unseen' = unseen \cup {NextExchange(c, u)}
  /\ UNCHANGED <<pc, link, recording, answered>>

(* handleHTTP, or a turn of serveHTTPS. *)
Receive(c, u) ==
  /\ Send(c, u)
  /\ link[c].kind # "tunnel"
  /\ pc' = [pc EXCEPT ![c] = "serve"]
  /\ UNCHANGED <<link, recording, answered, unseen>>

(* The rest of the request or the response cannot be read, or the server   *)
(* not be reached: an error reply in the clear, the end of a TLS link.     *)
Fail(c) ==
  /\ Running
  /\ pc[c] = "serve"
  /\ pc' = [pc EXCEPT ![c] = IF link[c].kind = "plain" THEN "idle" ELSE "closed"]
  /\ UNCHANGED <<link, current, recording, answered, unseen>>

(* forwardDirect, and the same in serveHTTPS: passed on, not recorded. *)
ForwardDirect(c) ==
  /\ Running
  /\ pc[c] = "serve"
  /\ ~ShouldRecord(current[c].url)
  /\ pc' = [pc EXCEPT ![c] = "idle"]
  /\ UNCHANGED <<link, current, recording, answered, unseen>>

(* The response is passed on before the exchange is recorded. *)
Reply(c) ==
  /\ Running
  /\ pc[c] = "serve"
  /\ ShouldRecord(current[c].url)
  /\ pc' = [pc EXCEPT ![c] = "lock"]
  /\ answered' = answered \cup {current[c]}
  /\ UNCHANGED <<link, current, recording, unseen>>

----------------------------------------------------------------------------
(* record, recordHTTPS and Stop. *)

Goto(a, from, to) ==
  /\ Running
  /\ pc[a] = from
  /\ pc' = [pc EXCEPT ![a] = to]
  /\ UNCHANGED <<link, current, answered, unseen>>

(* SIGINT or SIGTERM. *)
Signal ==
  /\ Goto(Stopper, "idle", "lock")
  /\ UNCHANGED recording

Locked(a) == IF a = Stopper THEN "create" ELSE "append"

(* Faulty variants: the mutex is not taken; a busy one is not waited for. *)
LockUnguarded(a) ==
  /\ Goto(a, "lock", Locked(a))
  /\ mu' = a
  /\ UNCHANGED <<log, file, failed>>

LockTried(a) ==
  /\ Goto(a, "lock", IF mu = NoOne THEN Locked(a) ELSE "idle")
  /\ mu' = IF mu = NoOne THEN a ELSE mu
  /\ UNCHANGED <<log, file, failed>>

Lock(a) ==
  /\ Goto(a, "lock", Locked(a))
  /\ mu = NoOne
  /\ mu' = a
  /\ UNCHANGED <<log, file, failed>>

(* Faulty variant: only the append is under the lock. *)
AppendEntryUnlocks(c) ==
  /\ Goto(c, "append", "create")
  /\ log' = Append(log, current[c])
  /\ mu' = NoOne
  /\ UNCHANGED <<file, failed>>

AppendEntry(c) ==
  /\ Goto(c, "append", "create")
  /\ log' = Append(log, current[c])
  /\ UNCHANGED <<mu, file, failed>>

(* session.Save: WriteFile truncates, then writes; each may fail. *)
Create(a) ==
  /\ Goto(a, "create", "write")
  /\ file' = [state |-> "torn", entries |-> <<>>]
  /\ UNCHANGED <<mu, log, failed>>

CreateFails(a) ==
  /\ Goto(a, "create", "unlock")
  /\ failed' = TRUE
  /\ UNCHANGED <<mu, log, file>>

Write(a) ==
  /\ Goto(a, "write", "unlock")
  /\ file' = [state |-> "whole", entries |-> log]
  /\ failed' = FALSE
  /\ UNCHANGED <<mu, log>>

(* Faulty variant: after an error the exchange is recorded again. *)
WriteFailsRetried(a) ==
  /\ Goto(a, "write", Locked(a))
  /\ failed' = TRUE
  /\ UNCHANGED <<mu, log, file>>

WriteFails(a) ==
  /\ Goto(a, "write", "unlock")
  /\ failed' = TRUE
  /\ UNCHANGED <<mu, log, file>>

Unlocked(a) == IF a = Stopper THEN "exit" ELSE "idle"

(* Faulty variant: the lock is not released on the way out of an error. *)
UnlockUnlessFailed(a) ==
  /\ Goto(a, "unlock", Unlocked(a))
  /\ mu' = IF failed THEN mu ELSE NoOne
  /\ UNCHANGED <<log, file, failed>>

(* The deferred p.mu.Unlock(). *)
Unlock(a) ==
  /\ Goto(a, "unlock", Unlocked(a))
  /\ mu' = NoOne
  /\ UNCHANGED <<log, file, failed>>

(* os.Exit(0) ends every goroutine where it stands. *)
Exit ==
  /\ Goto(Stopper, "exit", "exited")
  /\ UNCHANGED recording

----------------------------------------------------------------------------
Connect(c) ==
  OpenPlain(c) \/ (\E h \in Hosts : Tunnel(c, h) \/ Intercept(c, h)) \/ Close(c)

Serve(c) ==
  \/ \E u \in Urls : PassUnseen(c, u) \/ Receive(c, u)
  \/ Fail(c) \/ ForwardDirect(c) \/ Reply(c)

Saving(a) ==
  \/ Create(a) \/ CreateFails(a) \/ Write(a) \/ WriteFails(a) \/ Unlock(a)

Finished == ~Running /\ UNCHANGED vars

Next ==
  \/ \E c \in Conns : Connect(c) \/ Serve(c) \/ AppendEntry(c)
  \/ \E a \in Actors : Lock(a) \/ Saving(a)
  \/ Signal \/ Exit
  \/ Finished

Spec == Init /\ [][Next]_vars

(* A goroutine that holds the lock goes on, and sync.Mutex gives itself to *)
(* whoever has waited for a millisecond.  Clients and servers need not do  *)
(* anything, and there need never be a signal.                             *)
Fairness ==
  /\ \A c \in Conns : WF_vars(AppendEntry(c))
  /\ \A a \in Actors : WF_vars(Saving(a)) /\ SF_vars(Lock(a))
  /\ WF_vars(Exit)

FairSpec == Spec /\ Fairness

----------------------------------------------------------------------------
Critical == {"append", "create", "write", "unlock"}

TypeOK ==
  /\ pc \in [Actors -> {"idle", "serve", "closed", "lock", "exit", "exited"}
                         \cup Critical]
  /\ link \in [Conns -> [kind : {"none", "plain", "tunnel", "tls"},
                         host : Hosts \cup {NoHost}]]
  /\ current \in [Conns -> Exchanges \cup {NoExchange}]
  /\ mu \in Actors \cup {NoOne}
  /\ log \in Seq(Exchanges)
  /\ file \in [state : {"absent", "torn", "whole"}, entries : Seq(Exchanges)]
  /\ failed \in BOOLEAN
  /\ answered \subseteq Exchanges
  /\ unseen \subseteq Exchanges

(* session.Save under p.mu (proxy.go:441-447, 486-492): whenever nobody is *)
(* saving, the file is the session in memory, unless the last save failed; *)
(* so one good save also repairs what failed ones before it lost.  A file  *)
(* that can be read is never anything but a beginning of the session.      *)
FileIsCurrent ==
  /\ mu = NoOne /\ ~failed /\ log # <<>> =>
       file = [state |-> "whole", entries |-> log]
  /\ file.state = "whole" =>
       \E k \in 0..Len(log) : file.entries = SubSeq(log, 1, k)

InLog(x) == \E i \in DOMAIN log : log[i] = x

(* An exchange whose response was passed on is in the session, or its      *)
(* goroutine is about to add it (proxy.go:146-153, 357-359): recording     *)
(* after the answer loses nothing while the program runs, whatever other   *)
(* connections, failed saves and the stopper do meanwhile.                 *)
AnsweredIsRecorded ==
  \A x \in answered :
    \/ InLog(x)
    \/ current[x.conn] = x /\ pc[x.conn] \in {"lock", "append"}

(* Connections interleave in the session, but each one's exchanges are in  *)
(* the order they were made, and none is there twice, failed saves or not. *)
RecordedInOrder ==
  \A i, j \in DOMAIN log :
    i < j /\ log[i].conn = log[j].conn => log[i].n < log[j].n

(* Every exchange that was answered gets into the session unless the       *)
(* program is stopped: no error path of a save keeps the lock.             *)
RecordedEventually ==
  \A c \in Conns : pc[c] = "lock" ~> InLog(current[c]) \/ ~Running

(* A signal ends the program, however many connections want the lock       *)
(* (main.go:209-216).                                                      *)
StopEnds == pc[Stopper] = "lock" ~> ~Running

(* What the message at main.go:213 says: the data is saved at the stop.  A *)
(* program that exits after a stop without a save error has a file that    *)
(* can be read.                                                            *)
StopSaves == ~Running /\ ~failed => file.state = "whole"

(* What the task text says of --include-only and --exclude: traffic that   *)
(* passes unrecorded is what the filters leave out.                        *)
UnseenIsFiltered ==
  Certified = Hosts => \A x \in unseen : ~ShouldRecord(x.url)

----------------------------------------------------------------------------
(* Why the invariants hold: the mutex is held by exactly the actor between *)
(* its Lock and its Unlock, and how far this actor has come says how the   *)
(* file and the session differ.                                            *)
LockExact == \A a \in Actors : pc[a] \in Critical <=> mu = a

FileExact ==
  /\ file.state = "whole" =>
       \E k \in 0..Len(log) : file.entries = SubSeq(log, 1, k)
  /\ (mu = NoOne \/ pc[mu] \in {"append", "unlock"}) /\ ~failed /\ log # <<>> =>
       file = [state |-> "whole", entries |-> log]

(* Where a connection stands in its sequence of exchanges.                 *)
ExchangeExact ==
  /\ \A c \in Conns : pc[c] \notin {"idle", "closed"} => current[c] \in Exchanges
  /\ \A c \in Conns : current[c] \in Exchanges => current[c].conn = c
  /\ \A x \in answered : x.n <= current[x.conn].n
  /\ \A i \in DOMAIN log : log[i] \in answered
  /\ \A c \in Conns : pc[c] \in {"lock", "append"} => current[c] \in answered
  /\ \A c \in Conns : pc[c] \in {"serve", "lock", "append"} =>
       \A i \in DOMAIN log : log[i].conn = c => log[i].n < current[c].n
  /\ pc[Stopper] \in {"idle", "lock", "exit", "exited"} \cup (Critical \ {"append"})
  /\ \A c \in Conns : pc[c] \notin {"exit", "exited"}

(* Inductive: the lock in record, recordHTTPS and Stop, with what it       *)
(* protects (proxy.go:73-77, 441-447, 486-492).                            *)
Inductive ==
  /\ TypeOK /\ LockExact /\ FileExact /\ ExchangeExact
  /\ AnsweredIsRecorded /\ RecordedInOrder
=============================================================================
