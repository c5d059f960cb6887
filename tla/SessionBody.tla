----------------------------- MODULE SessionBody -----------------------------
(***************************************************************************)
(* Messages in a session or result file (internal/session/session.go).     *)
(*                                                                         *)
(* Data is a sequence of bytes.  A byte is named by what it is in UTF-8:   *)
(* "lead2", "lead3" and "lead4" begin a character of so many bytes, "cont" *)
(* continues one, U+FFFD is <<"ef", "bf", "bd">>, and each other name is a *)
(* character of its own.  The content of a stored body is a sequence of    *)
(* groups: a byte of a text, or up to three in four letters of base64.     *)
(***************************************************************************)
EXTENDS Integers, SequencesExt

(* A line break and TruncatedTag, in one group. *)
TagByte == "tag"
Tag     == <<TagByte>>

(* A body that is nil, and the content type that is empty or missing.      *)
NoBody == [binary |-> FALSE, truncated |-> FALSE, content |-> <<>>]
NoType == ""

(* A type is the sequence of the values that were joined in it, and the    *)
(* tests are for a substring.                                              *)
IsTextContent(type) ==
  ToSet(type) \cap {"text/html", "text/plain", "application/json"} # {}

Text(data)   == [i \in DOMAIN data |-> <<data[i]>>]
Base64(data) == [q \in 1..((Len(data) + 2) \div 3) |->
                   SubSeq(data, 3 * q - 2, IF 3 * q < Len(data) THEN 3 * q ELSE Len(data))]

(* A limit of 0 is none. *)
NewBodyContent(data, type, maxSize) ==
  LET cut     == maxSize > 0 /\ Len(data) > maxSize
      kept    == IF cut THEN SubSeq(data, 1, maxSize) ELSE data
      content == IF IsTextContent(type) THEN Text(kept) ELSE Base64(kept)
  IN  IF data = <<>> THEN NoBody
      ELSE [binary    |-> ~IsTextContent(type),
            truncated |-> cut,
            content   |-> IF cut THEN Append(content, Tag) ELSE content]

(* Faulty variant: a tag is taken away from a body that was not cut. *)
UntaggedAlways(body) ==
  IF body.content # <<>> /\ Last(body.content) = Tag
  THEN Front(body.content) ELSE body.content

(* strings.TrimSuffix, which Bytes and the diff both apply.                *)
Untagged(body) ==
  IF body.truncated /\ body.content # <<>> /\ Last(body.content) = Tag
  THEN Front(body.content) ELSE body.content

TextBytes(content) == [i \in DOMAIN content |-> content[i][1]]

(* base64.StdEncoding.DecodeString: each group but the last has three. *)
Decoded(content) ==
  LET n    == Len(content)
      size == IF n = 0 THEN 0 ELSE 3 * (n - 1) + Len(content[n])
  IN  [i \in 1..size |-> content[((i - 1) \div 3) + 1][((i - 1) % 3) + 1]]

(* Bytes *)
BytesOf(body) == IF body.binary THEN Decoded(Untagged(body)) ELSE TextBytes(Untagged(body))

----------------------------------------------------------------------------
(* What a JSON file does to a text. *)

Replacement == <<"ef", "bf", "bd">>  \* U+FFFD

Continues == {"cont", "bf", "bd"}
Width(b)  == CASE b = "lead2" -> 2 [] b \in {"lead3", "ef"} -> 3 [] b = "lead4" -> 4 [] OTHER -> 1

(* The character that begins at the k-th byte is all there.                *)
IsChar(data, k) ==
  /\ data[k] \notin Continues /\ k + Width(data[k]) - 1 <= Len(data)
  /\ \A j \in k + 1..k + Width(data[k]) - 1 : data[j] \in Continues

(* The bytes that are in no character. *)
Broken(data) ==
  {i \in DOMAIN data : ~\E k \in 1..i : IsChar(data, k) /\ i < k + Width(data[k])}

(* Where the i-th byte gets to when three take the place of each one in S. *)
Shift(S, i) == i + 2 * Cardinality({j \in S : j < i})

(* The encoder writes U+FFFD, of three bytes, for each byte that is in no  *)
(* character.                                                              *)
Filed(data) ==
  LET S         == Broken(data)
      Source(p) == CHOOSE i \in DOMAIN data : p \in Shift(S, i)..Shift(S, i + 1) - 1
  IN  [p \in 1..Shift(S, Len(data) + 1) - 1 |->
         IF Source(p) \in S THEN Replacement[p - Shift(S, Source(p)) + 1] ELSE data[Source(p)]]

(* What a file gives back of a body; base64 consists of characters.        *)
Stored(body) ==
  [body EXCEPT !.content = IF body.binary THEN @ ELSE Text(Filed(TextBytes(@)))]

----------------------------------------------------------------------------
(* What a loop over s keeps of it, in order: the elements at S. *)
Kth(S, k)    == CHOOSE i \in S : Cardinality({j \in S : j <= i}) = k
Picked(s, S) == [k \in 1..Cardinality(S) |-> s[Kth(S, k)]]

(* Headers: a sequence of [name, value] in a message, a function from the  *)
(* names in a record.  A joined value is the sequence of its parts.        *)

Empty == <<NoType>>

HeadersToMap(headers) ==
  [name \in {h.name : h \in ToSet(headers)} |->
     LET named == Picked(headers, {i \in DOMAIN headers : headers[i].name = name})
     IN  [i \in DOMAIN named |-> named[i].value]]

Value(headers, name) == IF name \in DOMAIN headers THEN headers[name] ELSE Empty

(* A message without one: status 0, no headers, no body. *)
NoResponse == [status |-> 0, headers |-> HeadersToMap(<<>>), body |-> NoBody]

(* What record, recordHTTPS and executeEntry make of a response, with      *)
(* their limits: Header.Get is the first value, and net/http has given     *)
(* each name one spelling.                                                 *)
ResponseRecord(r, maxSize) ==
  LET headers == HeadersToMap(r.headers)
  IN  [status  |-> r.status,
       headers |-> headers,
       body    |-> NewBodyContent(r.data, <<Head(Value(headers, "Content-Type"))>>, maxSize)]
=============================================================================
