------------------------------ MODULE HarImport ------------------------------
(***************************************************************************)
(* `replay record`: the responses of a HAR file as a session               *)
(* (internal/har/har.go).  An entry of the file is a record of             *)
(*   method, url  whether they are given                                   *)
(*   status, headers, mime                                                 *)
(*   encoding     "base64" or ""                                           *)
(*   text         the bytes of the text as it stands in the file           *)
(*   decoded      the bytes it decodes to, or NotBase64                    *)
(*   data         history: the bytes that the server had sent              *)
(***************************************************************************)
EXTENDS SessionBody

NotBase64 == <<"not base64">>

(* convertRequest: an entry without a method or a URL is passed over.      *)
Usable(e) == e.method /\ e.url

(* Faulty variant: what claims base64 and is not has no bytes. *)
BodyBytesDecoded(e) ==
  IF e.encoding = "base64"
  THEN IF e.decoded # NotBase64 THEN e.decoded ELSE <<>>
  ELSE e.text

BodyBytes(e) ==
  IF e.encoding = "base64" /\ e.decoded # NotBase64 THEN e.decoded ELSE e.text

(* An entry holds what the server had sent, in base64 and saying so, or as *)
(* a text, which a tool may still call base64.                             *)
IsEntry(e) ==
  /\ e.data \in Seq(STRING)
  /\ e.text = <<>> => e.data = <<>>
  /\ \/ e.encoding = "base64" /\ e.decoded = e.data /\ e.decoded # NotBase64
     \/ e.encoding = "base64" /\ e.decoded = NotBase64 /\ e.text = e.data
     \/ e.encoding # "base64" /\ e.text = e.data

(* convertResponse: the type is the content's, or the header's under that  *)
(* one spelling, with all its values.                                      *)
ConvertResponse(e, maxSize) ==
  LET headers == HeadersToMap(e.headers)
      type    == IF e.mime # NoType THEN <<e.mime>> ELSE Value(headers, "Content-Type")
  IN  [status  |-> e.status,
       headers |-> headers,
       body    |-> IF e.text = <<>> THEN NoBody
                   ELSE NewBodyContent(BodyBytes(e), type, maxSize)]

(* Parse: the entries in order. *)
UsableOf(entries) == Picked(entries, {i \in DOMAIN entries : Usable(entries[i])})
Converted(entries, maxSize) ==
  [i \in DOMAIN UsableOf(entries) |-> ConvertResponse(UsableOf(entries)[i], maxSize)]

SupportedVersion(har) == har.version \in {"1.1", "1.2"}
=============================================================================
