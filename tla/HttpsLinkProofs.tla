--------------------------- MODULE HttpsLinkProofs ---------------------------
(***************************************************************************)
(* Proofs about HttpsLink: Inductive is an invariant, for any number of    *)
(* requests, and with it OwnResponse and SizedNeverStands.                 *)
(*                                                                         *)
(* The steps are taken one by one.  A client that has closed takes no more *)
(* steps, so that only the types are left to show once it has; the parts   *)
(* of the invariant are otherwise about whose turn it is.                  *)
(***************************************************************************)
EXTENDS HttpsLink, TLAPS

USE BoundAssumption

----------------------------------------------------------------------------
(* What the operators make. *)

LEMMA Joined ==
  ASSUME NEW S, NEW s \in Seq(S), NEW t \in Seq(S)
  PROVE  s \o t \in Seq(S)
  OBVIOUS

LEMMA JoinedToNone ==
  ASSUME NEW S, NEW t \in Seq(S)
  PROVE  <<>> \o t = t
  OBVIOUS

LEMMA OneOnly ==
  ASSUME NEW x
  PROVE  /\ Len(<<x>>) = 1 /\ Head(<<x>>) = x
         /\ \A i \in DOMAIN <<x>> : <<x>>[i] = x
  OBVIOUS

(* Heads and bodies are units, whatever their number. *)
LEMMA HeadMade ==
  ASSUME NEW n \in 0..MaxRequests, NEW frame \in Frames
  PROVE  HeadOf(n, frame) \in Units
  BY DEF Units, HeadOf

LEMMA BodyMade ==
  ASSUME NEW n \in 0..MaxRequests
  PROVE  Body(n) \in Units
  BY DEF Units, Body, Frames

LEMMA UnitFields ==
  /\ \A n, frame : HeadOf(n, frame).n = n /\ HeadOf(n, frame).frame = frame
  /\ \A n : Body(n).n = n
  BY DEF HeadOf, Body

(* What is written of a response is its head, and perhaps its body.        *)
LEMMA WrittenIs ==
  ASSUME NEW n, NEW frame, NEW withBody \in BOOLEAN
  PROVE  /\ Written(n, frame, withBody) =
              IF withBody /\ frame # "none" THEN <<HeadOf(n, frame), Body(n)>>
                                            ELSE <<HeadOf(n, frame)>>
         /\ Written(n, frame, withBody) # <<>>
         /\ Head(Written(n, frame, withBody)) = HeadOf(n, frame)
         /\ Tail(Written(n, frame, withBody)) =
              IF withBody /\ frame # "none" THEN <<Body(n)>> ELSE <<>>
  BY DEF Written

(* It consists of units with the number of the response. *)
LEMMA WrittenUnits ==
  ASSUME NEW n \in 0..MaxRequests, NEW frame \in Frames, NEW withBody \in BOOLEAN
  PROVE  /\ Written(n, frame, withBody) \in Seq(Units)
         /\ \A i \in DOMAIN Written(n, frame, withBody) : Written(n, frame, withBody)[i].n = n
  <1>1. HeadOf(n, frame) \in Units /\ Body(n) \in Units
    BY HeadMade, BodyMade
  <1>2. HeadOf(n, frame).n = n /\ Body(n).n = n
    BY UnitFields
  <1>3. CASE Written(n, frame, withBody) = <<HeadOf(n, frame), Body(n)>>
    BY <1>1, <1>2, <1>3
  <1>4. CASE Written(n, frame, withBody) = <<HeadOf(n, frame)>>
    BY <1>1, <1>2, <1>4
  <1> QED
    BY <1>3, <1>4, WrittenIs

(* A request has a number that is not Stray's. *)
LEMMA RequestFields ==
  ASSUME TypeOK
  PROVE  /\ request.n \in 0..MaxRequests
         /\ request.recorded \in BOOLEAN /\ request.chunked \in BOOLEAN
  <1>1. CASE request \in Requests
    BY <1>1 DEF Requests
  <1>2. CASE request = NoRequest
    BY <1>2 DEF NoRequest
  <1> QED
    BY <1>1, <1>2 DEF TypeOK

----------------------------------------------------------------------------
(* The number at hand may be added to a history of numbers up to it.       *)
LEMMA NumberAdded ==
  ASSUME TypeOK, NEW S, S \subseteq 0..request.n
  PROVE  S \cup {request.n} \subseteq 0..request.n
  <1>1. request.n \in Nat
    BY RequestFields
  <1>2. request.n \in 0..request.n
    BY <1>1
  <1> QED
    BY <1>2

LEMMA InductiveInit == Init => Inductive
  <1> SUFFICES ASSUME Init PROVE Inductive
    OBVIOUS
  <1> USE DEF Init
  <1>1. request.n = 0
    BY DEF NoRequest
  <1>2. <<>> \in Seq(Requests) /\ <<>> \in Seq(Units)
    OBVIOUS
  <1>3. TypeOK
    BY <1>1, <1>2 DEF TypeOK
  <1>4. OneExchange /\ SizedOnItsWay /\ NoLeftovers /\ OwnResponse
    BY DEF OneExchange, SizedOnItsWay, NoLeftovers, OwnResponse, Asked, Waiting
  <1> QED
    BY <1>3, <1>4 DEF Inductive

(* A step that leaves the client closed has only the types to keep, and    *)
(* the pairs it does not add to.                                           *)
LEMMA Closed ==
  ASSUME TypeOK', client' = "closed", OwnResponse, strayed => strayed', UNCHANGED taken
  PROVE  Inductive'
  BY DEF Inductive, OneExchange, SizedOnItsWay, NoLeftovers, OwnResponse, Waiting

LEMMA SendKeeps ==
  ASSUME Inductive, SendRequest
  PROVE  Inductive'
  <1> USE DEF SendRequest, server
  <1>1. request' \in Requests /\ request'.n = request.n + 1
    BY DEF Inductive, TypeOK, Requests, NoRequest
  <1>2. toProxy = <<>> /\ toClient = <<>> /\ proxy \in {"read", "ended"}
    BY DEF Inductive, OneExchange, TypeOK, Asked
  <1>3. toProxy' = <<request'>> /\ Asked'
    BY <1>2 DEF Asked
  <1>4. request.n \in Nat
    BY RequestFields DEF Inductive
  <1>5. TypeOK'
    BY <1>1, <1>3, <1>4 DEF Inductive, TypeOK
  <1>6. OneExchange'
    BY <1>2, <1>3 DEF OneExchange
  <1>7. SizedOnItsWay'
    BY <1>1, <1>4 DEF Inductive, TypeOK, SizedOnItsWay
  <1>8. NoLeftovers'
    BY <1>2, <1>3 DEF Inductive, NoLeftovers
  <1>9. OwnResponse'
    BY DEF Inductive, OwnResponse
  <1> QED
    BY <1>5, <1>6, <1>7, <1>8, <1>9 DEF Inductive

LEMMA ReadHeadKeeps ==
  ASSUME Inductive, ReadHead
  PROVE  Inductive'
  <1> USE DEF ReadHead, server
  <1>1. PICK n \in 0..MaxRequests, frame \in Frames, withBody \in BOOLEAN :
          toClient = Written(n, frame, withBody) /\ ~(withBody /\ frame = "interim")
    BY DEF Inductive, OneExchange
  <1>2. /\ Head(toClient).frame = frame /\ Head(toClient).n = n
        /\ toClient' = IF withBody /\ frame # "none" THEN <<Body(n)>> ELSE <<>>
    BY <1>1, WrittenIs, UnitFields
  <1>3. ~Asked /\ ~Asked' /\ toProxy = <<>> /\ proxy \in {"read", "ended"}
    BY DEF Inductive, OneExchange, TypeOK, Asked
  <1>4. client' = CASE frame = "none"    -> "idle"
                    [] frame = "length"  -> "body"
                    [] frame = "unsized" -> "drain"
                    [] frame = "interim" -> "head"
    BY <1>2
  <1>5. TypeOK'
    <2>1. toClient' \in Seq(Units)
      <3>1. <<Body(n)>> \in Seq(Units) /\ <<>> \in Seq(Units)
        BY BodyMade
      <3> QED
        BY <1>2, <3>1
    <2>2. client' \in {"idle", "head", "body", "drain", "closed"}
      BY <1>4 DEF Frames
    <2>3. got' \subseteq 0..request.n
      BY NumberAdded DEF Inductive, TypeOK
    <2> QED
      BY <2>1, <2>2, <2>3 DEF Inductive, TypeOK
  <1>6. OneExchange'
    <2>1. CASE frame = "none" \/ frame = "interim"
      BY <1>1, <1>2, <1>3, <1>4, <2>1 DEF OneExchange, Frames
    <2>2. CASE frame = "length" \/ frame = "unsized"
      <3>1. client' \in {"body", "drain"}
        BY <1>4, <2>2
      <3>2. toClient' = <<>> \/ toClient' = <<Body(n)>>
        BY <1>2
      <3> QED
        BY <1>3, <3>1, <3>2 DEF OneExchange
    <2> QED
      BY <2>1, <2>2 DEF Frames
  <1>7. SizedOnItsWay'
    <2> SUFFICES ASSUME Waiting', proxy # "ended", request.recorded, request.n \in due
                 PROVE  client' = "body" /\ toClient' = <<Body(request.n)>>
      BY <1>3 DEF SizedOnItsWay
    <2>1. PICK sized \in {"none", "length"} : toClient = Written(request.n, sized, TRUE)
      BY DEF Inductive, SizedOnItsWay, Waiting
    <2>2. frame = sized
      <3>1. Head(toClient) = HeadOf(request.n, sized)
        BY <2>1, WrittenIs
      <3> QED
        BY <1>2, <3>1, UnitFields
    <2>3. frame = "length"
      BY <1>4, <2>2 DEF Waiting
    <2>4. toClient' = <<Body(request.n)>>
      BY <2>1, <2>2, <2>3, WrittenIs
    <2> QED
      BY <1>4, <2>3, <2>4
  <1>8. ~strayed => n = request.n
    BY <1>2 DEF Inductive, NoLeftovers
  <1>9. NoLeftovers'
    <2> SUFFICES ASSUME ~strayed PROVE NoLeftovers'
      BY DEF NoLeftovers
    <2> USE DEF NoLeftovers
    <2>1. toServer = <<>>
      BY DEF Inductive
    <2>2. \A i \in DOMAIN toClient' : toClient'[i].n = request.n
      BY <1>2, <1>8, UnitFields
    <2>3. client' = "idle" => raw = <<>>
      BY <1>2, <1>4 DEF Inductive, Frames
    <2>4. ~request.recorded => toClient' = <<>>
      BY <1>2 DEF Inductive
    <2> QED
      BY <1>3, <2>1, <2>2, <2>3, <2>4 DEF Inductive
  <1>10. OwnResponse'
    BY <1>2, <1>8 DEF Inductive, OwnResponse
  <1> QED
    BY <1>5, <1>6, <1>7, <1>9, <1>10 DEF Inductive

LEMMA ReadBodyKeeps ==
  ASSUME Inductive, ReadBody
  PROVE  Inductive'
  <1> USE DEF ReadBody, server
  <1>1. PICK n \in 0..MaxRequests : toClient = <<Body(n)>>
    BY DEF Inductive, OneExchange
  <1>2. toClient' = <<>> /\ Head(toClient).n = n
    BY <1>1, UnitFields
  <1>3. ~Asked /\ ~Asked' /\ toProxy = <<>> /\ proxy \in {"read", "ended"}
    BY DEF Inductive, OneExchange, TypeOK, Asked
  <1>4. TypeOK'
    <2>1. <<>> \in Seq(Units)
      OBVIOUS
    <2>2. got' \subseteq 0..request.n
      BY NumberAdded DEF Inductive, TypeOK
    <2> QED
      BY <1>2, <2>1, <2>2 DEF Inductive, TypeOK
  <1>5. OneExchange'
    BY <1>2, <1>3 DEF OneExchange
  <1>6. SizedOnItsWay'
    BY DEF Inductive, SizedOnItsWay, Waiting
  <1>7. NoLeftovers'
    BY <1>2, <1>3 DEF Inductive, NoLeftovers, TypeOK
  <1>8. ~strayed => n = request.n
    BY <1>1, <1>2 DEF Inductive, NoLeftovers
  <1>9. OwnResponse'
    BY <1>2, <1>8 DEF Inductive, OwnResponse
  <1> QED
    BY <1>4, <1>5, <1>6, <1>7, <1>9 DEF Inductive

(* The client closes: it has read the end, or it leaves.                   *)
LEMMA ClosingKeeps ==
  ASSUME Inductive, ReadEnd \/ Leave
  PROVE  Inductive'
  <1>0. got' \subseteq 0..request.n
    BY NumberAdded DEF Inductive, TypeOK, ReadEnd, Leave
  <1>1. TypeOK' /\ client' = "closed" /\ UNCHANGED <<strayed, taken>>
    BY <1>0 DEF Inductive, TypeOK, ReadEnd, Leave, net, server
  <1> QED
    BY <1>1, Closed DEF Inductive

LEMMA EndReadKeeps ==
  ASSUME Inductive, EndRead
  PROVE  Inductive'
  <1>1. TypeOK' /\ client' = "closed" /\ UNCHANGED <<strayed, taken>>
    BY DEF Inductive, TypeOK, EndRead, net, server
  <1> QED
    BY <1>1, Closed DEF Inductive

LEMMA ReadRequestKeeps ==
  ASSUME Inductive, ReadRequest
  PROVE  Inductive'
  <1> USE DEF ReadRequest
  <1>0. Head(toProxy) \in Requests /\ Tail(toProxy) \in Seq(Requests)
    BY DEF Inductive, TypeOK
  <1>1. Head(toProxy).chunked \in BOOLEAN
    BY <1>0 DEF Requests
  <1>2. TypeOK'
    BY <1>0, <1>1 DEF Inductive, TypeOK
  <1>3. CASE client = "closed"
    BY <1>2, <1>3, Closed DEF Inductive
  <1>4. CASE client # "closed"
    <2>0. toProxy = <<request>> /\ client = "head"
      BY <1>4 DEF Inductive, OneExchange
    <2>1. Head(toProxy) = request /\ toProxy' = <<>>
      BY <2>0
    <2>2. toClient = <<>> /\ Asked /\ Asked'
      BY <1>4 DEF Inductive, OneExchange, Asked
    <2>3. OneExchange'
      BY <2>0, <2>1, <2>2, RequestFields DEF Inductive, OneExchange
    <2>4. SizedOnItsWay'
      BY <2>0, <2>2 DEF Inductive, SizedOnItsWay, Waiting
    <2>5. NoLeftovers'
      <3> SUFFICES ASSUME ~strayed' PROVE NoLeftovers'
        BY DEF NoLeftovers
      <3>1. ~strayed /\ toServer = <<>> /\ raw = <<>>
        BY <1>4 DEF Inductive, NoLeftovers
      <3>2. CASE request.recorded
        BY <2>0, <2>1, <2>2, <3>1, <3>2 DEF NoLeftovers
      <3>3. CASE ~request.recorded
        <4>1. toServer' = <<request>> /\ ~request.chunked /\ proxy' = "raw"
          BY <2>1, <3>1, <3>3, RequestFields DEF Inductive
        <4> QED
          BY <2>0, <2>1, <2>2, <3>1, <3>3, <4>1 DEF NoLeftovers
      <3> QED
        BY <3>2, <3>3
    <2>6. OwnResponse'
      BY DEF Inductive, OwnResponse
    <2> QED
      BY <1>2, <2>3, <2>4, <2>5, <2>6 DEF Inductive
  <1> QED
    BY <1>3, <1>4

LEMMA ServerAnswersKeeps ==
  ASSUME Inductive, ServerAnswers
  PROVE  Inductive'
  <1> USE DEF ServerAnswers
  <1> DEFINE asked == Head(toServer)
  <1>0. asked \in Requests /\ Tail(toServer) \in Seq(Requests)
    BY DEF Inductive, TypeOK
  <1>1. asked.n \in 0..MaxRequests
    BY <1>0 DEF Requests
  <1>2. PICK frame \in Frames :
          raw' = raw \o <<HeadOf(asked.n, frame)>>
                 \o (IF frame = "interim" THEN <<HeadOf(asked.n, "length")>> ELSE <<>>)
                 \o (IF asked.chunked THEN <<HeadOf(Stray, "length")>> ELSE <<>>)
    OBVIOUS
  <1>3. HeadOf(asked.n, frame) \in Units /\ HeadOf(asked.n, "length") \in Units
        /\ HeadOf(Stray, "length") \in Units
    BY <1>1, HeadMade DEF Frames, Stray
  <1>4. raw' \in Seq(Units)
    <2> DEFINE interim == IF frame = "interim" THEN <<HeadOf(asked.n, "length")>> ELSE <<>>
               stray   == IF asked.chunked THEN <<HeadOf(Stray, "length")>> ELSE <<>>
    <2>1. raw \in Seq(Units) /\ <<HeadOf(asked.n, frame)>> \in Seq(Units)
      BY <1>3 DEF Inductive, TypeOK
    <2>2. interim \in Seq(Units) /\ stray \in Seq(Units)
      BY <1>3
    <2>3. raw' = raw \o <<HeadOf(asked.n, frame)>> \o interim \o stray
      BY <1>2
    <2> HIDE DEF interim, stray
    <2>4. (raw \o <<HeadOf(asked.n, frame)>>) \o interim \in Seq(Units)
      BY <2>1, <2>2, Joined
    <2> QED
      BY <2>2, <2>3, <2>4, Joined
  <1>5. TypeOK'
    BY <1>0, <1>4 DEF Inductive, TypeOK
  <1>6. OneExchange' /\ SizedOnItsWay' /\ OwnResponse'
    BY DEF Inductive, OneExchange, SizedOnItsWay, OwnResponse, Waiting, Asked
  <1>7. NoLeftovers'
    <2> SUFFICES ASSUME ~strayed, client # "closed" PROVE NoLeftovers'
      BY DEF NoLeftovers
    <2>1. /\ toServer = <<request>> /\ ~request.chunked /\ raw = <<>>
          /\ proxy \in {"raw", "ended"} /\ toClient = <<>>
          /\ client # "idle" /\ toProxy = <<>> /\ ~request.recorded
      BY DEF Inductive, NoLeftovers
    <2>2. asked = request /\ toServer' = <<>>
      BY <2>1
    <2>3. raw' = IF frame = "interim"
                 THEN <<HeadOf(request.n, frame), HeadOf(request.n, "length")>>
                 ELSE <<HeadOf(request.n, frame)>>
      BY <1>2, <1>3, <2>1, <2>2
    <2>4. \A i \in DOMAIN raw' : raw'[i].n = request.n
      BY <2>3, UnitFields
    <2>5. raw' # <<>> /\ Head(raw').frame = "none" => Len(raw') = 1
      <3>1. Head(raw') = HeadOf(request.n, frame)
        BY <2>3
      <3>2. Head(raw').frame = frame
        BY <3>1, UnitFields
      <3> QED
        BY <2>3, <3>2
    <2> QED
      BY <2>1, <2>2, <2>4, <2>5 DEF NoLeftovers
  <1> QED
    BY <1>5, <1>6, <1>7 DEF Inductive

LEMMA PassHeadKeeps ==
  ASSUME Inductive, PassHead
  PROVE  Inductive'
  <1> USE DEF PassHead
  <1> DEFINE n == Head(raw).n  frame == Head(raw).frame
  <1>0. raw \in Seq(Units) /\ Head(raw) \in Units
    BY DEF Inductive, TypeOK
  <1>1. n \in 0..MaxRequests /\ frame \in Frames
    BY <1>0 DEF Units
  <1>2. PICK rest \in 2..(Len(raw) + 1) : raw' = SubSeq(raw, rest, Len(raw))
    OBVIOUS
  <1>3. raw' \in Seq(Units) /\ (Len(raw) = 1 => raw' = <<>>)
    BY <1>0, <1>2
  <1>4. \A i \in DOMAIN raw' : \E j \in DOMAIN raw : raw'[i] = raw[j]
    <2> SUFFICES ASSUME NEW i \in DOMAIN raw' PROVE \E j \in DOMAIN raw : raw'[i] = raw[j]
      OBVIOUS
    <2>1. Len(raw) \in Nat /\ DOMAIN raw = 1..Len(raw) /\ rest \in Int
      BY <1>0
    <2>2. DOMAIN raw' = 1..(Len(raw) - rest + 1)
      BY <1>0, <1>2, <2>1
    <2>3. i \in Int /\ i + rest - 1 \in DOMAIN raw
      BY <2>1, <2>2
    <2>4. raw'[i] = raw[rest + i - 1]
      BY <1>0, <1>2, <2>1, <2>2
    <2>5. rest + i - 1 = i + rest - 1
      BY <2>1, <2>3
    <2> QED
      BY <2>3, <2>4, <2>5
  <1>5. Written(n, frame, FALSE) = <<HeadOf(n, frame)>> /\ HeadOf(n, frame) \in Units
    BY <1>1, WrittenIs, HeadMade
  <1>6. TypeOK'
    <2>1. toClient \in Seq(Units) /\ <<HeadOf(n, frame)>> \in Seq(Units)
      BY <1>5 DEF Inductive, TypeOK
    <2>2. toClient' = toClient \o <<HeadOf(n, frame)>>
      BY <1>5
    <2>3. toClient' \in Seq(Units)
      BY <2>1, <2>2, Joined
    <2> QED
      BY <1>3, <2>3 DEF Inductive, TypeOK
  <1>7. CASE client = "closed"
    BY <1>6, <1>7, Closed DEF Inductive
  <1>8. CASE client # "closed"
    <2>1. /\ toProxy = <<>> /\ toClient = <<>> /\ client = "head" /\ ~request.recorded
          /\ ~Asked'
      BY <1>8, RequestFields DEF Inductive, OneExchange, Asked
    <2>2. toClient' = Written(n, frame, FALSE) /\ toClient' = <<HeadOf(n, frame)>>
      <3>1. <<HeadOf(n, frame)>> \in Seq(Units)
        BY <1>5
      <3>2. toClient' = <<>> \o <<HeadOf(n, frame)>>
        BY <1>5, <2>1
      <3>3. toClient' = <<HeadOf(n, frame)>>
        BY <3>1, <3>2, JoinedToNone
      <3> QED
        BY <1>5, <3>3
    <2>3. OneExchange'
      BY <1>1, <2>1, <2>2 DEF OneExchange
    <2>4. SizedOnItsWay'
      BY <2>1 DEF SizedOnItsWay
    <2>5. NoLeftovers'
      <3> SUFFICES ASSUME ~strayed PROVE NoLeftovers'
        BY DEF NoLeftovers
      <3>1. toServer = <<>> /\ \A i \in DOMAIN raw : raw[i].n = request.n
        BY <1>8 DEF Inductive, NoLeftovers
      <3>2. n = request.n
        BY <1>0, <3>1
      <3>3. \A i \in DOMAIN toClient' : toClient'[i].n = request.n
        <4>1. \A i \in DOMAIN toClient' : toClient'[i] = HeadOf(n, frame)
          BY <2>2, OneOnly
        <4>2. HeadOf(n, frame).n = request.n
          BY <3>2, UnitFields
        <4> QED
          BY <4>1, <4>2
      <3>4. frame = "none" => raw' = <<>>
        BY <1>3, <1>8 DEF Inductive, NoLeftovers
      <3>5. Len(toClient') = 1 /\ Head(toClient').frame = frame
        <4>1. Len(toClient') = 1 /\ Head(toClient') = HeadOf(n, frame)
          BY <2>2, OneOnly
        <4>2. HeadOf(n, frame).frame = frame
          BY UnitFields
        <4> QED
          BY <4>1, <4>2
      <3>6. \A i \in DOMAIN raw' : raw'[i].n = request.n
        BY <1>4, <3>1
      <3> QED
        BY <2>1, <3>1, <3>3, <3>4, <3>5, <3>6 DEF NoLeftovers
    <2>6. OwnResponse'
      BY DEF Inductive, OwnResponse
    <2> QED
      BY <1>6, <2>3, <2>4, <2>5, <2>6 DEF Inductive
  <1> QED
    BY <1>7, <1>8

(* RawFails and DoBreaks: the proxy ends, without an answer.               *)
LEMMA EndingKeeps ==
  ASSUME Inductive, RawFails \/ DoBreaks
  PROVE  Inductive'
  <1> USE DEF RawFails, DoBreaks, net, server
  <1>1. TypeOK' /\ OwnResponse' /\ SizedOnItsWay'
    BY DEF Inductive, TypeOK, OwnResponse, SizedOnItsWay
  <1>2. OneExchange'
    BY DEF Inductive, OneExchange, Asked
  <1>3. NoLeftovers'
    BY DEF Inductive, NoLeftovers
  <1> QED
    BY <1>1, <1>2, <1>3 DEF Inductive

LEMMA DoRepliesKeeps ==
  ASSUME Inductive, DoReplies
  PROVE  Inductive'
  <1> USE DEF DoReplies, server
  <1>1. PICK frame \in Frames \ {"interim"} :
          /\ toClient' = toClient \o Written(request.n, frame, TRUE)
          /\ due' = IF frame = "unsized" THEN due ELSE due \cup {request.n}
    OBVIOUS
  <1>2. /\ Written(request.n, frame, TRUE) \in Seq(Units)
        /\ \A i \in DOMAIN Written(request.n, frame, TRUE) :
             Written(request.n, frame, TRUE)[i].n = request.n
    BY WrittenUnits, RequestFields DEF Inductive
  <1>3. TypeOK'
    <2>0. toClient \in Seq(Units)
      BY DEF Inductive, TypeOK
    <2>1. toClient' \in Seq(Units)
      BY <1>1, <1>2, <2>0, Joined
    <2>2. due' \subseteq 0..request.n
      BY <1>1, NumberAdded DEF Inductive, TypeOK
    <2> QED
      BY <2>1, <2>2 DEF Inductive, TypeOK
  <1>4. CASE client = "closed"
    BY <1>3, <1>4, Closed DEF Inductive
  <1>5. CASE client # "closed"
    <2>1. /\ toProxy = <<>> /\ toClient = <<>> /\ client = "head" /\ request.recorded
          /\ ~Asked'
      BY <1>5 DEF Inductive, OneExchange, Asked
    <2>2. toClient' = Written(request.n, frame, TRUE)
      <3>1. toClient' = <<>> \o Written(request.n, frame, TRUE)
        BY <1>1, <2>1
      <3> QED
        BY <1>2, <3>1, JoinedToNone
    <2>3. OneExchange'
      BY <2>1, <2>2, RequestFields DEF OneExchange, Inductive
    <2>4. SizedOnItsWay'
      <3> SUFFICES ASSUME request.n \in due' PROVE frame \in {"none", "length"}
        BY <2>1, <2>2 DEF SizedOnItsWay
      <3>1. request.n \notin due
        BY <2>1 DEF Inductive, SizedOnItsWay, Waiting, Asked
      <3> QED
        BY <1>1, <3>1 DEF Frames
    <2>5. NoLeftovers'
      BY <1>2, <2>1, <2>2 DEF Inductive, NoLeftovers
    <2>6. OwnResponse'
      BY DEF Inductive, OwnResponse
    <2> QED
      BY <1>3, <2>3, <2>4, <2>5, <2>6 DEF Inductive
  <1> QED
    BY <1>4, <1>5

LEMMA DoFailsKeeps ==
  ASSUME Inductive, DoFails
  PROVE  Inductive'
  <1> USE DEF DoFails, server
  <1>1. /\ Written(request.n, "unsized", FALSE) \in Seq(Units)
        /\ \A i \in DOMAIN Written(request.n, "unsized", FALSE) :
             Written(request.n, "unsized", FALSE)[i].n = request.n
    BY WrittenUnits, RequestFields DEF Inductive, Frames
  <1>2. TypeOK'
    <2>0. toClient \in Seq(Units)
      BY DEF Inductive, TypeOK
    <2>1. toClient' \in Seq(Units)
      BY <1>1, <2>0, Joined
    <2>2. due' \subseteq 0..request.n
      BY NumberAdded DEF Inductive, TypeOK
    <2> QED
      BY <2>1, <2>2 DEF Inductive, TypeOK
  <1>3. CASE client = "closed"
    BY <1>2, <1>3, Closed DEF Inductive
  <1>4. CASE client # "closed"
    <2>1. /\ toProxy = <<>> /\ toClient = <<>> /\ client = "head" /\ request.recorded
      BY <1>4 DEF Inductive, OneExchange, Asked
    <2>2. toClient' = Written(request.n, "unsized", FALSE) /\ ~Asked'
      BY <1>1, <2>1 DEF Asked
    <2>3. OneExchange'
      BY <2>1, <2>2, RequestFields DEF OneExchange, Inductive, Frames
    <2>4. SizedOnItsWay' /\ OwnResponse'
      BY DEF Inductive, SizedOnItsWay, OwnResponse
    <2>5. NoLeftovers'
      BY <1>1, <2>1, <2>2 DEF Inductive, NoLeftovers
    <2> QED
      BY <1>2, <2>3, <2>4, <2>5 DEF Inductive
  <1> QED
    BY <1>3, <1>4

(* What changes nothing at all. *)
LEMMA StutterKeeps == Inductive /\ UNCHANGED vars => Inductive'
  <1> SUFFICES ASSUME Inductive, UNCHANGED vars PROVE Inductive'
    OBVIOUS
  <1> USE DEF vars, net, server
  <1>1. TypeOK'
    BY DEF Inductive, TypeOK
  <1>2. OneExchange' /\ SizedOnItsWay'
    BY DEF Inductive, OneExchange, SizedOnItsWay, Waiting, Asked
  <1>3. NoLeftovers' /\ OwnResponse'
    BY DEF Inductive, NoLeftovers, OwnResponse
  <1> QED
    BY <1>1, <1>2, <1>3 DEF Inductive

LEMMA InductiveStep == Inductive /\ [Next]_vars => Inductive'
  <1> SUFFICES ASSUME Inductive, [Next]_vars PROVE Inductive'
    OBVIOUS
  <1>1. CASE SendRequest \/ ReadHead \/ ReadBody \/ ReadEnd \/ Leave
    BY <1>1, SendKeeps, ReadHeadKeeps, ReadBodyKeeps, ClosingKeeps
  <1>2. CASE EndRead \/ ReadRequest \/ ServerAnswers \/ PassHead \/ RawFails
    BY <1>2, EndReadKeeps, ReadRequestKeeps, ServerAnswersKeeps, PassHeadKeeps, EndingKeeps
  <1>3. CASE DoReplies \/ DoFails \/ DoBreaks
    BY <1>3, DoRepliesKeeps, DoFailsKeeps, EndingKeeps
  <1>4. CASE Gone \/ UNCHANGED vars
    BY <1>4, StutterKeeps DEF Gone
  <1> QED
    BY <1>1, <1>2, <1>3, <1>4 DEF Next

(* Whose turn it is, and what is on its way then, in every state.          *)
THEOREM Invariance == Spec => []Inductive
  BY InductiveInit, InductiveStep, PTL DEF Spec

(* As long as no unrecorded request had a chunked body, a client takes     *)
(* heads and bodies only for the request they answer (proxy.go:297).       *)
THEOREM Own == Spec => []OwnResponse
  <1>1. Inductive => OwnResponse
    BY DEF Inductive
  <1> QED
    BY <1>1, Invariance, PTL

(* Client and proxy never wait for each other in a recorded exchange that  *)
(* was answered with a sized response (proxy.go:343-357).                  *)
THEOREM NoStandoff == Spec => []SizedNeverStands
  <1>1. Inductive => SizedNeverStands
    <2> SUFFICES ASSUME Inductive, Standoff, request.recorded, request.n \in due
                 PROVE  FALSE
      BY DEF SizedNeverStands
    <2>1. /\ \/ \E frame \in {"none", "length"} : toClient = Written(request.n, frame, TRUE)
             \/ toClient = <<Body(request.n)>>
          /\ toClient = <<>>
      BY DEF Inductive, SizedOnItsWay, Standoff
    <2> QED
      BY <2>1, WrittenIs
  <1> QED
    BY <1>1, Invariance, PTL
=============================================================================
