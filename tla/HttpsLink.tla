------------------------------ MODULE HttpsLink ------------------------------
(***************************************************************************)
(* The bytes of one intercepted HTTPS connection through `replay capture`  *)
(* (internal/proxy/proxy.go): serveHTTPS between a client that sends one   *)
(* request at a time and two ways to the server, p.client for what is      *)
(* recorded and the connection dialled at the CONNECT for what is not.     *)
(*                                                                         *)
(* What matters of a response is how its end is found: it has no body      *)
(* ("none": a length of 0, 204, 304, the answer to HEAD), a Content-Length *)
(* ("length"), neither ("unsized": chunks, HTTP/2, or a body that Go's     *)
(* transport has unzipped), or it is an "interim" 1xx with the real one    *)
(* behind it.  Only the connection dialled at the CONNECT shows the proxy  *)
(* interim responses, Go's transport keeps them to itself.                 *)
(***************************************************************************)
EXTENDS Integers, Sequences

CONSTANT MaxRequests  \* bound: requests on the connection

ASSUME BoundAssumption == MaxRequests \in Nat

VARIABLES
  client,    \* what the client does next
  request,   \* the request it is at: number, recorded or not, chunked or not
  toProxy,   \* requests on their way
  toClient,  \* heads and bodies on their way back
  proxy,     \* where serveHTTPS stands
  toServer,  \* requests on the connection of the CONNECT
  raw,       \* responses on their way back on it
  strayed,   \* history: the server took a body on it for a request
  due,       \* history: recorded exchanges answered by a sized response or 502
  got,       \* history: exchanges whose response the client has to its end
  taken      \* history: <<request, response>> pairs the client put together

server == <<toServer, raw, strayed>>
net    == <<toProxy, toClient, server>>
vars   == <<client, request, proxy, net, due, got, taken>>

----------------------------------------------------------------------------
Frames     == {"none", "length", "unsized", "interim"}
NoRequest  == [n |-> 0, recorded |-> FALSE, chunked |-> FALSE]
Requests   == [n : 1..MaxRequests, recorded : BOOLEAN, chunked : BOOLEAN]
Stray      == 0  \* the number of a response to no request
HeadOf(n, frame) == [part |-> "head", n |-> n, frame |-> frame]
Body(n)         == [part |-> "body", n |-> n, frame |-> "none"]
Units      == [part : {"head", "body"}, n : 0..MaxRequests, frame : Frames]
Waiting    == client \in {"head", "body", "drain"}
Asked      == toProxy # <<>> \/ proxy \in {"do", "raw"}  \* and not yet answered

Init ==
  /\ client = "idle"
  /\ request = NoRequest
  /\ toProxy = <<>> /\ toClient = <<>>
  /\ toServer = <<>> /\ raw = <<>>
  /\ strayed = FALSE
  /\ proxy = "read"
  /\ due = {} /\ got = {} /\ taken = {}

----------------------------------------------------------------------------
(* The client. *)

SendRequest ==
  /\ client = "idle" /\ request.n < MaxRequests
  /\ \E recorded, chunked \in BOOLEAN :
       request' = [n |-> request.n + 1, recorded |-> recorded, chunked |-> chunked]
  /\ toProxy' = Append(toProxy, request')
  /\ client' = "head"
  /\ UNCHANGED <<toClient, proxy, server, due, got, taken>>

(* The head says how the end is found; a 1xx is followed by another head.  *)
ReadHead ==
  /\ client = "head" /\ toClient # <<>>
  /\ LET unit == Head(toClient) IN
       /\ unit.part = "head"
       /\ client' = CASE unit.frame = "none"    -> "idle"
                      [] unit.frame = "length"  -> "body"
                      [] unit.frame = "unsized" -> "drain"
                      [] unit.frame = "interim" -> "head"
       /\ got' = IF unit.frame = "none" THEN got \cup {request.n} ELSE got
       /\ taken' = taken \cup {<<request.n, unit.n>>}
  /\ toClient' = Tail(toClient)
  /\ UNCHANGED <<request, toProxy, proxy, server, due>>

ReadBody ==
  /\ client \in {"body", "drain"} /\ toClient # <<>>
  /\ taken' = taken \cup {<<request.n, Head(toClient).n>>}
  /\ toClient' = Tail(toClient)
  /\ client' = IF client = "body" THEN "idle" ELSE "drain"
  /\ got' = IF client = "body" THEN got \cup {request.n} ELSE got
  /\ UNCHANGED <<request, toProxy, proxy, server, due>>

(* The proxy has closed: the end of an unsized response, or of the wait.   *)
ReadEnd ==
  /\ Waiting \/ client = "idle"
  /\ proxy = "ended" /\ toClient = <<>>
  /\ got' = IF client = "drain" THEN got \cup {request.n} ELSE got
  /\ client' = "closed"
  /\ UNCHANGED <<request, proxy, net, due, taken>>

(* The client is done, or tired of waiting. *)
Leave ==
  /\ client # "closed"
  /\ client' = "closed"
  /\ UNCHANGED <<request, proxy, net, due, got, taken>>

----------------------------------------------------------------------------
(* serveHTTPS. *)

(* What the client is sent of a response: writeResponse leaves the headers *)
(* that say its length, takes the one that says it comes in chunks away,   *)
(* and appends the body it is given.                                       *)
Written(n, frame, withBody) ==
  IF withBody /\ frame # "none" THEN <<HeadOf(n, frame), Body(n)>> ELSE <<HeadOf(n, frame)>>

(* Faulty variant: the loop goes on when no request can be read. *)
EndReadRetries ==
  /\ proxy = "read" /\ toProxy = <<>> /\ client = "closed"
  /\ UNCHANGED vars

(* http.ReadRequest fails: the client has closed, both connections do. *)
EndRead ==
  /\ proxy = "read" /\ toProxy = <<>> /\ client = "closed"
  /\ proxy' = "ended"
  /\ UNCHANGED <<client, request, net, due, got, taken>>

(* Faulty variant: buildRawRequest drops the length of every body. *)
ReadRequestUnframed ==
  /\ proxy = "read" /\ toProxy # <<>>
  /\ toProxy' = Tail(toProxy)
  /\ proxy' = IF Head(toProxy).recorded THEN "do" ELSE "raw"
  /\ toServer' = IF Head(toProxy).recorded THEN toServer
                 ELSE Append(toServer, [Head(toProxy) EXCEPT !.chunked = TRUE])
  /\ strayed' = (strayed \/ (~Head(toProxy).recorded /\ Head(toProxy).chunked))
  /\ UNCHANGED <<client, request, toClient, raw, due, got, taken>>

(* A request is read, to its end; what is not recorded goes to the server  *)
(* of the CONNECT as buildRawRequest writes it.                            *)
ReadRequest ==
  /\ proxy = "read" /\ toProxy # <<>>
  /\ toProxy' = Tail(toProxy)
  /\ proxy' = IF Head(toProxy).recorded THEN "do" ELSE "raw"
  /\ toServer' = IF Head(toProxy).recorded THEN toServer
                 ELSE Append(toServer, Head(toProxy))
  /\ strayed' = (strayed \/ (~Head(toProxy).recorded /\ Head(toProxy).chunked))
  /\ UNCHANGED <<client, request, toClient, raw, due, got, taken>>

(* The server of the CONNECT answers; an interim response is followed by   *)
(* the real one.  A chunked body has lost its framing on the way and is    *)
(* taken for a request that gets an answer of its own.                     *)
ServerAnswers ==
  /\ toServer # <<>>
  /\ toServer' = Tail(toServer)
  /\ LET asked == Head(toServer) IN
       \E frame \in Frames :
         raw' = raw \o <<HeadOf(asked.n, frame)>>
                \o (IF frame = "interim" THEN <<HeadOf(asked.n, "length")>> ELSE <<>>)
                \o (IF asked.chunked THEN <<HeadOf(Stray, "length")>> ELSE <<>>)
  /\ UNCHANGED <<client, request, toProxy, toClient, proxy, strayed, due, got, taken>>

(* http.ReadResponse, on a reader made for it: what it read ahead is lost. *)
(* resp.Body.Close() reads the body, and writeResponse is given none.      *)
PassHead ==
  /\ proxy = "raw" /\ raw # <<>>
  /\ \E rest \in 2..(Len(raw) + 1) : raw' = SubSeq(raw, rest, Len(raw))
  /\ toClient' = toClient \o Written(Head(raw).n, Head(raw).frame, FALSE)
  /\ proxy' = "read"
  /\ UNCHANGED <<client, request, toProxy, toServer, strayed, due, got, taken>>

(* The connection to the server breaks or is closed by it. *)
RawFails ==
  /\ proxy = "raw"
  /\ proxy' = "ended"
  /\ UNCHANGED <<client, request, net, due, got, taken>>

(* Faulty variant: the body of a recorded response is not passed on. *)
DoRepliesHeadOnly ==
  /\ proxy = "do"
  /\ \E frame \in Frames \ {"interim"} :
       /\ toClient' = toClient \o Written(request.n, frame, FALSE)
       /\ due' = IF frame = "unsized" THEN due ELSE due \cup {request.n}
  /\ proxy' = "read"
  /\ UNCHANGED <<client, request, toProxy, server, got, taken>>

(* p.client.Do and the body succeed: head and body are passed on.  The     *)
(* recording that follows is CaptureProxy's.                               *)
DoReplies ==
  /\ proxy = "do"
  /\ \E frame \in Frames \ {"interim"} :
       /\ toClient' = toClient \o Written(request.n, frame, TRUE)
       /\ due' = IF frame = "unsized" THEN due ELSE due \cup {request.n}
  /\ proxy' = "read"
  /\ UNCHANGED <<client, request, toProxy, server, got, taken>>

(* Faulty variant: the loop goes on after the 502. *)
DoFailsOn ==
  /\ proxy = "do"
  /\ toClient' = toClient \o Written(request.n, "unsized", FALSE)
  /\ due' = due \cup {request.n}
  /\ proxy' = "read"
  /\ UNCHANGED <<client, request, toProxy, server, got, taken>>

(* p.client.Do fails: a 502 without a body or a length, and the end. *)
DoFails ==
  /\ proxy = "do"
  /\ toClient' = toClient \o Written(request.n, "unsized", FALSE)
  /\ due' = due \cup {request.n}
  /\ proxy' = "ended"
  /\ UNCHANGED <<client, request, toProxy, server, got, taken>>

(* The body of the response cannot be read: the end, without an answer. *)
DoBreaks ==
  /\ proxy = "do"
  /\ proxy' = "ended"
  /\ UNCHANGED <<client, request, net, due, got, taken>>

----------------------------------------------------------------------------
ClientReads  == ReadHead \/ ReadBody \/ ReadEnd
ProxyTurns   == EndRead \/ ReadRequest \/ PassHead
Gone         == client = "closed" /\ UNCHANGED vars

Next ==
  \/ SendRequest \/ ReadHead \/ ReadBody \/ ReadEnd \/ Leave
  \/ EndRead \/ ReadRequest \/ ServerAnswers \/ PassHead \/ RawFails
  \/ DoReplies \/ DoFails \/ DoBreaks
  \/ Gone

Spec == Init /\ [][Next]_vars

(* The client reads what has arrived and the proxy's goroutine runs (Go's  *)
(* scheduler).  Servers may never answer (the proxy's client has no        *)
(* timeout), clients may never send or leave.                              *)
FairSpec ==
  /\ Spec
  /\ WF_vars(ClientReads)
  /\ WF_vars(ProxyTurns)

----------------------------------------------------------------------------
(* Client and proxy each wait for the other to send: nothing is on its way *)
(* and neither will move before the client gives up.                       *)
Standoff ==
  /\ Waiting /\ proxy = "read"
  /\ toProxy = <<>> /\ toClient = <<>>

(* A response belongs to the request it is taken for (proxy.go:297): heads *)
(* and bodies of one exchange never reach another one's reader, over any   *)
(* mixture of recorded and unrecorded requests, as long as no unrecorded   *)
(* request had a chunked body.                                             *)
OwnResponse == ~strayed => \A pair \in taken : pair[1] = pair[2]

(* Where a connection can get stuck: in an exchange that is not recorded,  *)
(* or whose response came without a length.  A recorded exchange with a    *)
(* sized response never is (proxy.go:343-357).                             *)
SizedNeverStands == Standoff => ~request.recorded \/ request.n \notin due

TypeOK ==
  /\ client \in {"idle", "head", "body", "drain", "closed"}
  /\ request \in Requests \cup {NoRequest}
  /\ proxy \in {"read", "do", "raw", "ended"}
  /\ toProxy \in Seq(Requests) /\ toServer \in Seq(Requests)
  /\ toClient \in Seq(Units) /\ raw \in Seq(Units)
  /\ strayed \in BOOLEAN
  /\ due \subseteq 0..request.n /\ got \subseteq 0..request.n

(* Client and proxy take turns: there is a request at the proxy or a       *)
(* response on its way to the client, and only one of the two.             *)
OneExchange ==
  client # "closed" =>
    /\ toProxy # <<>> =>
         toProxy = <<request>> /\ client = "head" /\ proxy \in {"read", "ended"}
    /\ proxy \in {"do", "raw"} =>
         toProxy = <<>> /\ client = "head" /\ request.recorded = (proxy = "do")
    /\ Asked \/ client = "idle" => toClient = <<>>
    /\ client = "head" /\ toClient # <<>> =>
         \E n \in 0..MaxRequests, frame \in Frames, withBody \in BOOLEAN :
           toClient = Written(n, frame, withBody) /\ ~(withBody /\ frame = "interim")
    /\ client \in {"body", "drain"} /\ toClient # <<>> =>
         \E n \in 0..MaxRequests : toClient = <<Body(n)>>

(* A sized response to a recorded request, as long as the client has not   *)
(* read it to its end, is on its way.                                      *)
SizedOnItsWay ==
  Waiting /\ proxy # "ended" /\ request.recorded /\ request.n \in due =>
    /\ ~Asked
    /\ \/ /\ client = "head"
          /\ \E frame \in {"none", "length"} : toClient = Written(request.n, frame, TRUE)
       \/ client = "body" /\ toClient = <<Body(request.n)>>

(* What is on its way belongs to the request at hand, and nothing is left  *)
(* on the connection of the CONNECT when a client may go on.               *)
NoLeftovers ==
  ~strayed /\ client # "closed" =>
    /\ \A i \in DOMAIN toClient : toClient[i].n = request.n
    /\ \A i \in DOMAIN raw : raw[i].n = request.n
    /\ toServer # <<>> =>
         /\ toServer = <<request>> /\ ~request.chunked
         /\ raw = <<>> /\ proxy \in {"raw", "ended"} /\ toClient = <<>>
    /\ client = "idle" \/ toProxy # <<>> \/ request.recorded => toServer = <<>> /\ raw = <<>>
    /\ proxy = "raw" /\ raw # <<>> /\ Head(raw).frame = "none" => Len(raw) = 1
    /\ ~request.recorded /\ toClient # <<>> =>
         /\ client = "head" /\ Len(toClient) = 1
         /\ Head(toClient).frame = "none" => raw = <<>>

(* Inductive: whose turn it is, and what is on its way then (proxy.go:297, *)
(* a loop that reads a request only when the last one was answered).       *)
Inductive == TypeOK /\ OneExchange /\ SizedOnItsWay /\ NoLeftovers /\ OwnResponse

(* A recorded exchange that was answered with a length, or by a 502, comes *)
(* to its end at a client that stays (proxy.go:343-357).                   *)
SizedArrives ==
  \A n \in 1..MaxRequests : n \in due ~> n \in got \/ client = "closed"

(* When the client has gone, serveHTTPS ends and closes both connections   *)
(* (proxy.go:298-306), unless a server keeps it waiting: nothing bounds    *)
(* that.                                                                   *)
GoneEnds ==
  client = "closed" ~> [](proxy # "read")

(* What excluding a URL means (PROMPT.txt:25): it is not logged.  It does  *)
(* not mean that the client is left waiting.                               *)
ExcludedIsServed == Standoff => request.recorded
=============================================================================
