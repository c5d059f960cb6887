------------------------- MODULE CaptureProxyProofs -------------------------
(***************************************************************************)
(* Proofs about CaptureProxy: Inductive is an invariant, for any number of *)
(* connections, URLs and patterns, and with it the invariants of the       *)
(* session file.                                                           *)
(*                                                                         *)
(* A connection's steps outside the lock change neither the session nor    *)
(* the file (Outside); the steps of an actor at or under the lock are      *)
(* taken one by one.                                                       *)
(***************************************************************************)
EXTENDS CaptureProxy, TLAPS

USE ActorsAssumption, HostsAssumption

(* The initial state has no exchange, no file and a free lock. *)
LEMMA InductiveInit == Init => Inductive
  <1> SUFFICES ASSUME Init PROVE Inductive
    OBVIOUS
  <1> USE DEF Init
  <1>1. TypeOK
    <2>1. file \in [state : {"absent", "torn", "whole"}, entries : Seq(Exchanges)]
      BY DEF NoFile
    <2>2. link \in [Conns -> [kind : {"none", "plain", "tunnel", "tls"},
                             host : Hosts \cup {NoHost}]]
      BY DEF NoLink
    <2>3. log \in Seq(Exchanges)
      OBVIOUS
    <2>4. pc \in [Actors -> {"idle", "serve", "closed", "lock", "exit", "exited"}
                         \cup Critical]
      OBVIOUS
    <2> QED
      BY <2>1, <2>2, <2>3, <2>4 DEF TypeOK
  <1>2. LockExact
    BY DEF LockExact, Actors, Critical
  <1>3. FileExact
    BY DEF FileExact, NoFile
  <1>4. ExchangeExact
    BY DEF ExchangeExact, Exchanges, NoExchange, Actors
  <1>5. AnsweredIsRecorded /\ RecordedInOrder
    BY DEF AnsweredIsRecorded, RecordedInOrder
  <1> QED
    BY <1>1, <1>2, <1>3, <1>4, <1>5 DEF Inductive

(* Only exchanges have a connection: NoExchange is not one of them. *)
LEMMA ExchangeFields ==
  \A x \in Exchanges : x.conn \in Conns /\ x.n \in 1..MaxExchanges /\ x.url \in Urls
  BY DEF Exchanges

(* No exchange of a connection is the one that stands for none.            *)
LEMMA NoExchangeApart == NoExchange \notin Exchanges
  BY BoundAssumption DEF NoExchange, Exchanges

(* A step of one actor that neither is nor comes under the lock, and that  *)
(* leaves the session and the file alone, keeps what is said of them.      *)
LEMMA Outside ==
  ASSUME Inductive, UNCHANGED recording,
         NEW a \in Actors, NEW to, to \notin Critical, pc[a] \notin Critical,
         pc' = [pc EXCEPT ![a] = to]
  PROVE  LockExact' /\ FileExact' /\ RecordedInOrder'
  <1> USE DEF recording
  <1>1. pc \in [Actors -> {"idle", "serve", "closed", "lock", "exit", "exited"}
                           \cup Critical]
        /\ mu \in Actors \cup {NoOne}
    BY DEF Inductive, TypeOK
  <1>2. LockExact'
    BY <1>1 DEF Inductive, LockExact
  <1>3. mu # NoOne => pc'[mu] = pc[mu]
    BY <1>1 DEF Inductive, LockExact
  <1>4. FileExact'
    BY <1>3 DEF Inductive, FileExact
  <1>5. RecordedInOrder'
    BY DEF Inductive, RecordedInOrder
  <1> QED
    BY <1>2, <1>4, <1>5

(* Opening, closing and tunnelled traffic. *)
LEMMA OpenKeeps ==
  ASSUME Inductive, NEW c \in Conns, NEW kind \in {"plain", "tunnel", "tls"},
         NEW host \in Hosts \cup {NoHost}, Open(c, kind, host)
  PROVE  Inductive'
  <1> USE DEF Inductive, Open, recording
  <1>1. TypeOK'
    BY DEF TypeOK
  <1>2. LockExact' /\ FileExact'
    BY DEF LockExact, FileExact
  <1>3. ExchangeExact' /\ AnsweredIsRecorded' /\ RecordedInOrder'
    BY DEF ExchangeExact, AnsweredIsRecorded, RecordedInOrder, InLog
  <1> QED
    BY <1>1, <1>2, <1>3

(* A connection that closes changes nothing that was recorded.             *)
LEMMA CloseKeeps ==
  ASSUME Inductive, NEW c \in Conns, Close(c)
  PROVE  Inductive'
  <1> USE DEF Close, Actors
  <1>1. TypeOK'
    BY DEF Inductive, TypeOK, recording
  <1>2. LockExact' /\ FileExact' /\ RecordedInOrder'
    BY Outside DEF Critical
  <1>3. ExchangeExact'
    BY DEF Inductive, TypeOK, ExchangeExact, recording
  <1>4. AnsweredIsRecorded'
    BY DEF Inductive, TypeOK, AnsweredIsRecorded, InLog, recording
  <1> QED
    BY <1>1, <1>2, <1>3, <1>4 DEF Inductive

(* A new exchange is later than every one of its connection so far. *)
LEMMA SendFacts ==
  ASSUME Inductive, NEW c \in Conns, NEW u \in Urls, Send(c, u)
  PROVE  /\ NextExchange(c, u) \in Exchanges
         /\ NextExchange(c, u).conn = c
         /\ NextExchange(c, u).n = current[c].n + 1
         /\ current[c].n \in Nat
         /\ current' = [current EXCEPT ![c] = NextExchange(c, u)]
         /\ current' \in [Conns -> Exchanges \cup {NoExchange}]
  <1>1. current[c].n \in 0..MaxExchanges
    BY BoundAssumption DEF Inductive, TypeOK, Exchanges, NoExchange
  <1>2. NextExchange(c, u) \in Exchanges
    BY <1>1, BoundAssumption DEF Send, NextExchange, Exchanges
  <1> QED
    BY <1>1, <1>2 DEF Send, NextExchange, Inductive, TypeOK

(* An exchange inside a tunnel leaves the record alone.                    *)
LEMMA PassUnseenKeeps ==
  ASSUME Inductive, NEW c \in Conns, NEW u \in Urls, PassUnseen(c, u)
  PROVE  Inductive'
  <1> DEFINE x == NextExchange(c, u)
  <1>0. Send(c, u) /\ pc[c] = "idle" /\ UNCHANGED <<pc, link, recording, answered>>
        /\ unseen' = unseen \cup {x}
    BY DEF PassUnseen, Send
  <1>1. /\ x \in Exchanges /\ x.conn = c /\ x.n = current[c].n + 1
        /\ current[c].n \in Nat
        /\ current' = [current EXCEPT ![c] = x]
        /\ current' \in [Conns -> Exchanges \cup {NoExchange}]
    BY <1>0, SendFacts
  <1> HIDE DEF x
  <1>2. TypeOK'
    BY <1>0, <1>1 DEF Inductive, TypeOK, recording
  <1>3. LockExact' /\ FileExact' /\ RecordedInOrder'
    BY <1>0 DEF Inductive, LockExact, FileExact, RecordedInOrder, recording
  <1>4. ExchangeExact'
    BY <1>0, <1>1, ExchangeFields DEF Inductive, TypeOK, ExchangeExact, recording
  <1>5. AnsweredIsRecorded'
    BY <1>0, <1>1 DEF Inductive, TypeOK, AnsweredIsRecorded, InLog, recording
  <1> QED
    BY <1>2, <1>3, <1>4, <1>5 DEF Inductive

(* An exchange that arrives is the connection's newest, and not recorded.  *)
LEMMA ReceiveKeeps ==
  ASSUME Inductive, NEW c \in Conns, NEW u \in Urls, Receive(c, u)
  PROVE  Inductive'
  <1> DEFINE x == NextExchange(c, u)
  <1>0. /\ Send(c, u) /\ pc[c] = "idle" /\ pc' = [pc EXCEPT ![c] = "serve"]
        /\ UNCHANGED <<link, recording, answered, unseen>>
    BY DEF Receive, Send
  <1>1. /\ x \in Exchanges /\ x.conn = c /\ x.n = current[c].n + 1
        /\ current[c].n \in Nat
        /\ current' = [current EXCEPT ![c] = x]
        /\ current' \in [Conns -> Exchanges \cup {NoExchange}]
    BY <1>0, SendFacts
  <1> HIDE DEF x
  <1>2. TypeOK'
    BY <1>0, <1>1 DEF Inductive, TypeOK, recording
  <1>3. LockExact' /\ FileExact' /\ RecordedInOrder'
    BY <1>0, Outside DEF Critical, Actors
  <1>4. ExchangeExact'
    <2>1. \A i \in DOMAIN log : log[i].conn = c => log[i].n <= current[c].n
      BY DEF Inductive, ExchangeExact
    <2>2. \A i \in DOMAIN log : log[i].n \in Nat
      BY ExchangeFields DEF Inductive, TypeOK
    <2> QED
      BY <1>0, <1>1, <2>1, <2>2, ExchangeFields
      DEF Inductive, TypeOK, ExchangeExact, recording, Actors
  <1>5. AnsweredIsRecorded'
    BY <1>0, <1>1 DEF Inductive, TypeOK, AnsweredIsRecorded, InLog, recording, Actors
  <1> QED
    BY <1>2, <1>3, <1>4, <1>5 DEF Inductive

(* An exchange that fails or is not to be recorded. *)
LEMMA UnrecordedKeeps ==
  ASSUME Inductive, NEW c \in Conns, Fail(c) \/ ForwardDirect(c)
  PROVE  Inductive'
  <1>0. PICK to \in {"idle", "closed"} : pc' = [pc EXCEPT ![c] = to]
    BY DEF Fail, ForwardDirect
  <1>1. pc[c] = "serve" /\ UNCHANGED <<link, current, recording, answered, unseen>>
    BY DEF Fail, ForwardDirect
  <1>2. TypeOK'
    BY <1>0, <1>1 DEF Inductive, TypeOK, recording
  <1>3. LockExact' /\ FileExact' /\ RecordedInOrder'
    BY <1>0, <1>1, Outside DEF Critical, Actors
  <1>4. ExchangeExact'
    BY <1>0, <1>1 DEF Inductive, TypeOK, ExchangeExact, recording, Actors
  <1>5. AnsweredIsRecorded'
    BY <1>0, <1>1 DEF Inductive, TypeOK, AnsweredIsRecorded, InLog, recording, Actors
  <1> QED
    BY <1>2, <1>3, <1>4, <1>5 DEF Inductive

(* An answer is given before its exchange is in the session.               *)
LEMMA ReplyKeeps ==
  ASSUME Inductive, NEW c \in Conns, Reply(c)
  PROVE  Inductive'
  <1>0. /\ pc[c] = "serve" /\ pc' = [pc EXCEPT ![c] = "lock"]
        /\ answered' = answered \cup {current[c]}
        /\ UNCHANGED <<link, current, recording, unseen>>
    BY DEF Reply
  <1>1. current[c] \in Exchanges /\ current[c].conn = c /\ current[c].n \in Nat
    BY <1>0, ExchangeFields DEF Inductive, ExchangeExact
  <1>2. TypeOK'
    BY <1>0, <1>1 DEF Inductive, TypeOK, recording
  <1>3. LockExact' /\ FileExact' /\ RecordedInOrder'
    BY <1>0, Outside DEF Critical, Actors
  <1>4. ExchangeExact'
    BY <1>0, <1>1 DEF Inductive, TypeOK, ExchangeExact, recording, Actors
  <1>5. AnsweredIsRecorded'
    BY <1>0, <1>1 DEF Inductive, TypeOK, AnsweredIsRecorded, InLog, recording, Actors
  <1> QED
    BY <1>2, <1>3, <1>4, <1>5 DEF Inductive

----------------------------------------------------------------------------
(* The steps at and under the lock. *)

(* What every such step leaves alone, and where the actor may be. *)
LEMMA GotoFacts ==
  ASSUME Inductive, NEW a \in Actors, NEW from, NEW to, Goto(a, from, to)
  PROVE  /\ pc[a] = from
         /\ pc' = [pc EXCEPT ![a] = to]
         /\ UNCHANGED <<link, current, answered, unseen>>
         /\ from \in Critical => mu = a
         /\ from \notin Critical => mu # a
         /\ pc \in [Actors -> {"idle", "serve", "closed", "lock", "exit", "exited"}
                               \cup Critical]
         /\ Stopper \in Actors /\ Conns \subseteq Actors /\ NoOne \notin Actors
  BY DEF Goto, Inductive, LockExact, TypeOK, Actors

(* The signal sends the stopper to the lock.                               *)
LEMMA SignalKeeps ==
  ASSUME Inductive, Signal
  PROVE  Inductive'
  <1>0. Goto(Stopper, "idle", "lock") /\ UNCHANGED recording
    BY DEF Signal
  <1>1. /\ pc[Stopper] = "idle" /\ pc' = [pc EXCEPT ![Stopper] = "lock"]
        /\ UNCHANGED <<link, current, answered, unseen>> /\ Stopper \in Actors
    BY <1>0, GotoFacts DEF Actors
  <1>2. TypeOK'
    BY <1>0, <1>1 DEF Inductive, TypeOK, recording
  <1>3. LockExact' /\ FileExact' /\ RecordedInOrder'
    BY <1>0, <1>1, Outside DEF Critical
  <1>4. ExchangeExact'
    BY <1>0, <1>1 DEF Inductive, TypeOK, ExchangeExact, recording, Actors
  <1>5. AnsweredIsRecorded'
    BY <1>0, <1>1, ExchangeFields
    DEF Inductive, TypeOK, AnsweredIsRecorded, InLog, recording, Actors
  <1> QED
    BY <1>2, <1>3, <1>4, <1>5 DEF Inductive

(* The exit happens outside the critical section.                          *)
LEMMA ExitKeeps ==
  ASSUME Inductive, Exit
  PROVE  Inductive'
  <1>0. Goto(Stopper, "exit", "exited") /\ UNCHANGED recording
    BY DEF Exit
  <1>1. /\ pc[Stopper] = "exit" /\ pc' = [pc EXCEPT ![Stopper] = "exited"]
        /\ UNCHANGED <<link, current, answered, unseen>> /\ Stopper \in Actors
    BY <1>0, GotoFacts DEF Actors
  <1>2. TypeOK'
    BY <1>0, <1>1 DEF Inductive, TypeOK, recording
  <1>3. LockExact' /\ FileExact' /\ RecordedInOrder'
    BY <1>0, <1>1, Outside DEF Critical
  <1>4. ExchangeExact'
    BY <1>0, <1>1 DEF Inductive, TypeOK, ExchangeExact, recording, Actors
  <1>5. AnsweredIsRecorded'
    BY <1>0, <1>1, ExchangeFields
    DEF Inductive, TypeOK, AnsweredIsRecorded, InLog, recording, Actors
  <1> QED
    BY <1>2, <1>3, <1>4, <1>5 DEF Inductive

(* Who takes the free lock is the only one in the critical section.        *)
LEMMA LockKeeps ==
  ASSUME Inductive, NEW a \in Actors, Lock(a)
  PROVE  Inductive'
  <1>0. Goto(a, "lock", Locked(a)) /\ mu = NoOne /\ mu' = a /\ UNCHANGED <<log, file, failed>>
    BY DEF Lock
  <1>1. /\ pc[a] = "lock" /\ pc' = [pc EXCEPT ![a] = Locked(a)]
        /\ UNCHANGED <<link, current, answered, unseen>>
        /\ pc \in [Actors -> {"idle", "serve", "closed", "lock", "exit", "exited"}
                               \cup Critical]
        /\ Stopper \in Actors /\ Conns \subseteq Actors /\ NoOne \notin Actors
    BY <1>0, GotoFacts
  <1>2. Locked(a) \in {"create", "append"} /\ (a = Stopper <=> Locked(a) = "create")
    BY DEF Locked
  <1>3. TypeOK'
    BY <1>0, <1>1, <1>2 DEF Inductive, TypeOK, Critical
  <1>4. LockExact'
    BY <1>0, <1>1, <1>2 DEF Inductive, LockExact, Critical
  <1>5. FileExact'
    BY <1>0, <1>1, <1>2 DEF Inductive, FileExact
  <1>6. ExchangeExact'
    BY <1>0, <1>1, <1>2 DEF Inductive, TypeOK, ExchangeExact, Actors, Critical
  <1>7. AnsweredIsRecorded' /\ RecordedInOrder'
    BY <1>0, <1>1, <1>2, ExchangeFields
    DEF Inductive, TypeOK, AnsweredIsRecorded, InLog, RecordedInOrder, Actors
  <1> QED
    BY <1>3, <1>4, <1>5, <1>6, <1>7 DEF Inductive

(* The exchange that is added is later than all of its connection. *)
LEMMA AppendEntryKeeps ==
  ASSUME Inductive, NEW c \in Conns, AppendEntry(c)
  PROVE  Inductive'
  <1> DEFINE x == current[c]
  <1>0. /\ Goto(c, "append", "create") /\ log' = Append(log, x)
        /\ UNCHANGED <<mu, file, failed>>
    BY DEF AppendEntry
  <1>1. /\ pc[c] = "append" /\ pc' = [pc EXCEPT ![c] = "create"]
        /\ UNCHANGED <<link, current, answered, unseen>>
        /\ mu = c
        /\ pc \in [Actors -> {"idle", "serve", "closed", "lock", "exit", "exited"}
                               \cup Critical]
        /\ Stopper \in Actors /\ Conns \subseteq Actors /\ NoOne \notin Actors
    BY <1>0, GotoFacts DEF Actors, Critical
  <1>2. x \in Exchanges /\ x.conn = c
    BY <1>1 DEF Inductive, ExchangeExact
  <1>3. /\ log \in Seq(Exchanges)
        /\ log' \in Seq(Exchanges)
        /\ Len(log') = Len(log) + 1
        /\ \A i \in DOMAIN log : log'[i] = log[i]
        /\ log'[Len(log) + 1] = x
        /\ DOMAIN log = 1..Len(log) /\ DOMAIN log' = 1..(Len(log) + 1)
    BY <1>0, <1>2 DEF Inductive, TypeOK
  <1>4. \A i \in DOMAIN log : log[i].conn = c => log[i].n < x.n
    BY <1>1 DEF Inductive, ExchangeExact
  <1>5. TypeOK'
    BY <1>0, <1>1, <1>3 DEF Inductive, TypeOK, Critical
  <1>6. LockExact'
    BY <1>0, <1>1 DEF Inductive, LockExact, Critical
  <1>7. FileExact'
    <2>1. \A k \in 0..Len(log) : k \in 0..Len(log') /\ SubSeq(log', 1, k) = SubSeq(log, 1, k)
      BY <1>3
    <2> QED
      BY <1>0, <1>1, <2>1 DEF Inductive, FileExact
  <1>8. ExchangeExact'
    <2>1. \A i \in DOMAIN log' : log'[i] \in answered
      BY <1>1, <1>3 DEF Inductive, ExchangeExact
    <2>2. \A d \in Conns : pc'[d] \in {"serve", "lock", "append"} =>
            \A i \in DOMAIN log' : log'[i].conn = d => log'[i].n < current[d].n
      BY <1>1, <1>2, <1>3 DEF Inductive, ExchangeExact
    <2> QED
      BY <1>1, <2>1, <2>2 DEF Inductive, ExchangeExact, Actors, Critical
  <1>9. AnsweredIsRecorded'
    <2> SUFFICES ASSUME NEW y \in answered
                 PROVE  \/ \E i \in DOMAIN log' : log'[i] = y
                        \/ current[y.conn] = y /\ pc'[y.conn] \in {"lock", "append"}
      BY <1>1 DEF AnsweredIsRecorded, InLog
    <2>1. y \in Exchanges /\ y.conn \in Conns
      BY ExchangeFields DEF Inductive, TypeOK
    <2>2. CASE \E i \in DOMAIN log : log[i] = y
      BY <2>2, <1>3
    <2>3. CASE current[y.conn] = y /\ pc[y.conn] \in {"lock", "append"} /\ y.conn # c
      BY <2>1, <2>3, <1>1
    <2>4. CASE current[y.conn] = y /\ y.conn = c
      BY <2>4, <1>3
    <2> QED
      BY <2>2, <2>3, <2>4 DEF Inductive, AnsweredIsRecorded, InLog
  <1>10. RecordedInOrder'
    BY <1>2, <1>3, <1>4 DEF Inductive, RecordedInOrder
  <1> QED
    BY <1>5, <1>6, <1>7, <1>8, <1>9, <1>10 DEF Inductive

(* A save leaves the session alone, and the actor stays under the lock. *)
LEMMA SavingOutside ==
  ASSUME Inductive, NEW a \in Actors, NEW from \in Critical \ {"append"},
         NEW to \in Critical \ {"append"}, Goto(a, from, to), UNCHANGED <<mu, log>>
  PROVE  /\ LockExact' /\ ExchangeExact' /\ AnsweredIsRecorded' /\ RecordedInOrder'
         /\ pc' \in [Actors -> {"idle", "serve", "closed", "lock", "exit", "exited"}
                               \cup Critical]
         /\ mu = a /\ pc[mu] = from /\ pc'[mu'] = to /\ mu' # NoOne
         /\ UNCHANGED <<link, current, answered, unseen>>
  <1>1. /\ pc[a] = from /\ pc' = [pc EXCEPT ![a] = to]
        /\ UNCHANGED <<link, current, answered, unseen>>
        /\ mu = a
        /\ pc \in [Actors -> {"idle", "serve", "closed", "lock", "exit", "exited"}
                               \cup Critical]
        /\ Stopper \in Actors /\ Conns \subseteq Actors /\ NoOne \notin Actors
    BY GotoFacts
  <1>2. LockExact'
    BY <1>1 DEF Inductive, LockExact
  <1>3. ExchangeExact'
    BY <1>1 DEF Inductive, TypeOK, ExchangeExact, Actors, Critical
  <1>4. AnsweredIsRecorded' /\ RecordedInOrder'
    BY <1>1, ExchangeFields
    DEF Inductive, TypeOK, AnsweredIsRecorded, InLog, RecordedInOrder, Critical
  <1> QED
    BY <1>1, <1>2, <1>3, <1>4

(* Truncating the file, or failing to, by the holder of the lock.          *)
LEMMA CreateKeeps ==
  ASSUME Inductive, NEW a \in Actors, Create(a) \/ CreateFails(a)
  PROVE  Inductive'
  <1>1. CASE Create(a)
    <2>0. /\ Goto(a, "create", "write")
          /\ file' = [state |-> "torn", entries |-> <<>>] /\ UNCHANGED <<mu, log, failed>>
      BY <1>1 DEF Create
    <2>1. /\ LockExact' /\ ExchangeExact' /\ AnsweredIsRecorded' /\ RecordedInOrder'
          /\ pc' \in [Actors -> {"idle", "serve", "closed", "lock", "exit", "exited"}
                               \cup Critical]
          /\ pc'[mu'] = "write" /\ mu' # NoOne
          /\ UNCHANGED <<link, current, answered, unseen>>
      BY <2>0, SavingOutside DEF Critical
    <2>2. TypeOK'
      <3>1. file' \in [state : {"absent", "torn", "whole"}, entries : Seq(Exchanges)]
        BY <2>0
      <3> QED
        BY <2>0, <2>1, <3>1 DEF Inductive, TypeOK
    <2>3. FileExact'
      BY <2>0, <2>1 DEF FileExact
    <2> QED
      BY <2>1, <2>2, <2>3 DEF Inductive
  <1>2. CASE CreateFails(a)
    <2>0. Goto(a, "create", "unlock") /\ failed' = TRUE /\ UNCHANGED <<mu, log, file>>
      BY <1>2 DEF CreateFails
    <2>1. /\ LockExact' /\ ExchangeExact' /\ AnsweredIsRecorded' /\ RecordedInOrder'
          /\ pc' \in [Actors -> {"idle", "serve", "closed", "lock", "exit", "exited"}
                               \cup Critical]
          /\ UNCHANGED <<link, current, answered, unseen>>
      BY <2>0, SavingOutside DEF Critical
    <2>2. TypeOK'
      BY <2>0, <2>1 DEF Inductive, TypeOK
    <2>3. FileExact'
      BY <2>0 DEF Inductive, FileExact
    <2> QED
      BY <2>1, <2>2, <2>3 DEF Inductive
  <1> QED
    BY <1>1, <1>2

(* Writing the file, or failing to, by the holder of the lock.             *)
LEMMA WriteKeeps ==
  ASSUME Inductive, NEW a \in Actors, Write(a) \/ WriteFails(a)
  PROVE  Inductive'
  <1>1. CASE Write(a)
    <2>0. /\ Goto(a, "write", "unlock") /\ failed' = FALSE /\ UNCHANGED <<mu, log>>
          /\ file' = [state |-> "whole", entries |-> log]
      BY <1>1 DEF Write
    <2>1. /\ LockExact' /\ ExchangeExact' /\ AnsweredIsRecorded' /\ RecordedInOrder'
          /\ pc' \in [Actors -> {"idle", "serve", "closed", "lock", "exit", "exited"}
                               \cup Critical]
          /\ UNCHANGED <<link, current, answered, unseen>>
      BY <2>0, SavingOutside DEF Critical
    <2>2. log \in Seq(Exchanges) /\ Len(log) \in 0..Len(log) /\ SubSeq(log, 1, Len(log)) = log
      BY DEF Inductive, TypeOK
    <2>3. TypeOK'
      <3>1. file' \in [state : {"absent", "torn", "whole"}, entries : Seq(Exchanges)]
        BY <2>0, <2>2
      <3> QED
        BY <2>0, <2>1, <3>1 DEF Inductive, TypeOK
    <2>4. FileExact'
      BY <2>0, <2>2 DEF FileExact
    <2> QED
      BY <2>1, <2>3, <2>4 DEF Inductive
  <1>2. CASE WriteFails(a)
    <2>0. Goto(a, "write", "unlock") /\ failed' = TRUE /\ UNCHANGED <<mu, log, file>>
      BY <1>2 DEF WriteFails
    <2>1. /\ LockExact' /\ ExchangeExact' /\ AnsweredIsRecorded' /\ RecordedInOrder'
          /\ pc' \in [Actors -> {"idle", "serve", "closed", "lock", "exit", "exited"}
                               \cup Critical]
          /\ UNCHANGED <<link, current, answered, unseen>>
      BY <2>0, SavingOutside DEF Critical
    <2>2. TypeOK'
      BY <2>0, <2>1 DEF Inductive, TypeOK
    <2>3. FileExact'
      BY <2>0 DEF Inductive, FileExact
    <2> QED
      BY <2>1, <2>2, <2>3 DEF Inductive
  <1> QED
    BY <1>1, <1>2

(* Giving the lock back leaves file and session in agreement.              *)
LEMMA UnlockKeeps ==
  ASSUME Inductive, NEW a \in Actors, Unlock(a)
  PROVE  Inductive'
  <1>0. Goto(a, "unlock", Unlocked(a)) /\ mu' = NoOne /\ UNCHANGED <<log, file, failed>>
    BY DEF Unlock
  <1>1. /\ pc[a] = "unlock" /\ pc' = [pc EXCEPT ![a] = Unlocked(a)]
        /\ UNCHANGED <<link, current, answered, unseen>>
        /\ mu = a
        /\ pc \in [Actors -> {"idle", "serve", "closed", "lock", "exit", "exited"}
                               \cup Critical]
        /\ Stopper \in Actors /\ Conns \subseteq Actors /\ NoOne \notin Actors
    BY <1>0, GotoFacts DEF Critical
  <1>2. /\ Unlocked(a) \in {"exit", "idle"} /\ (a = Stopper <=> Unlocked(a) = "exit")
        /\ Unlocked(a) \notin Critical
    BY DEF Unlocked, Critical
  <1>3. TypeOK'
    BY <1>0, <1>1, <1>2 DEF Inductive, TypeOK
  <1>4. LockExact'
    BY <1>0, <1>1, <1>2 DEF Inductive, LockExact
  <1>5. FileExact'
    BY <1>0, <1>1 DEF Inductive, FileExact
  <1>6. ExchangeExact'
    BY <1>0, <1>1, <1>2 DEF Inductive, TypeOK, ExchangeExact, Actors, Critical
  <1>7. AnsweredIsRecorded' /\ RecordedInOrder'
    BY <1>0, <1>1, <1>2, ExchangeFields
    DEF Inductive, TypeOK, AnsweredIsRecorded, InLog, RecordedInOrder, Actors
  <1> QED
    BY <1>3, <1>4, <1>5, <1>6, <1>7 DEF Inductive

----------------------------------------------------------------------------
(* Every step keeps the invariant.                                         *)
LEMMA InductiveStep == Inductive /\ [Next]_vars => Inductive'
  <1> SUFFICES ASSUME Inductive, [Next]_vars PROVE Inductive'
    OBVIOUS
  <1>1. ASSUME NEW c \in Conns, Connect(c) PROVE Inductive'
    <2>1. CASE OpenPlain(c)
      BY <2>1, OpenKeeps DEF OpenPlain
    <2>2. ASSUME NEW h \in Hosts, Tunnel(c, h) \/ Intercept(c, h) PROVE Inductive'
      BY <2>2, OpenKeeps DEF Tunnel, Intercept
    <2>3. CASE Close(c)
      BY <2>3, CloseKeeps
    <2> QED
      BY <1>1, <2>1, <2>2, <2>3 DEF Connect
  <1>2. ASSUME NEW c \in Conns, Serve(c) PROVE Inductive'
    BY <1>2, PassUnseenKeeps, ReceiveKeeps, UnrecordedKeeps, ReplyKeeps DEF Serve
  <1>3. ASSUME NEW c \in Conns, AppendEntry(c) PROVE Inductive'
    BY <1>3, AppendEntryKeeps
  <1>4. ASSUME NEW a \in Actors, Lock(a) \/ Saving(a) PROVE Inductive'
    BY <1>4, LockKeeps, CreateKeeps, WriteKeeps, UnlockKeeps DEF Saving
  <1>5. CASE Signal \/ Exit
    BY <1>5, SignalKeeps, ExitKeeps
  <1>6. CASE UNCHANGED vars
    BY <1>6 DEF vars, recording, Inductive, TypeOK, LockExact, FileExact,
                ExchangeExact, AnsweredIsRecorded, RecordedInOrder, InLog
  <1> QED
    BY <1>1, <1>2, <1>3, <1>4, <1>5, <1>6 DEF Next, Finished

(* The lock of record, recordHTTPS and Stop is held by the one actor       *)
(* between its Lock and its Unlock, whose progress says how the session    *)
(* and the file differ (proxy.go:73-77, 441-447, 486-492).                 *)
THEOREM Invariance == Spec => []Inductive
  BY InductiveInit, InductiveStep, PTL DEF Spec

(* Every variable has its type. *)
THEOREM Typed == Spec => []TypeOK
  BY Invariance, PTL DEF Inductive

(* Outside a save the session file is the session in memory, unless the    *)
(* last save failed, and it never holds anything but a beginning of it.    *)
THEOREM Current == Spec => []FileIsCurrent
  <1>1. Inductive => FileIsCurrent
    BY DEF Inductive, FileExact, FileIsCurrent
  <1> QED
    BY <1>1, Invariance, PTL

(* No exchange that was answered is lost while the program runs. *)
THEOREM Answered == Spec => []AnsweredIsRecorded
  BY Invariance, PTL DEF Inductive

(* Each connection's exchanges are recorded in order and only once. *)
THEOREM InOrder == Spec => []RecordedInOrder
  BY Invariance, PTL DEF Inductive

=============================================================================
