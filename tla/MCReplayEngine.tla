--------------------------- MODULE MCReplayEngine ---------------------------
(* Instances of ReplayEngine for TLC. *)
EXTENDS ReplayEngine

CONSTANTS token, user

Request(uses) == [kind |-> "request", matches |-> TRUE, uses |-> uses]
Filtered      == [kind |-> "request", matches |-> FALSE, uses |-> <<token>>]
NoRequest     == [kind |-> "norequest", matches |-> TRUE, uses |-> <<>>]
Null          == [kind |-> "null", matches |-> TRUE, uses |-> <<>>]

(* A login, then a request that carries what it returned; a file with an   *)
(* entry that is skipped; one that the filter empties; one with a null.    *)
TwoVars    == {token, user}
LoginFirst == <<Request(<<>>), Request(<<token, user>>)>>
Chain      == <<Request(<<>>), Request(<<token>>), Request(<<token, user>>)>>
Skipping   == <<NoRequest, Request(<<token>>), Filtered>>
AllSkipped == <<NoRequest, Filtered>>
WithNull   == <<Request(<<token>>), Null>>

AllSessions == {LoginFirst, Skipping, AllSkipped, WithNull}
ChainOnly   == {Chain}
LoginOnly   == {LoginFirst}

Answer(json, offers) == [json |-> json, offers |-> offers]

(* A complete JSON body, one without the variables, and bodies that are no *)
(* JSON or were cut short, with and without a header that is looked for.   *)
AllAnswers == {Answer(TRUE, {token, user}), Answer(TRUE, {}),
               Answer(FALSE, {user}), Answer(FALSE, {})}
JsonAnswer == {Answer(TRUE, {token, user}), Answer(TRUE, {user})}
Whole      == {Answer(TRUE, {token, user})}

Bind(name, source) == [name |-> name, source |-> source]
AllBinds  == <<Bind(user, "env"), Bind(token, "json"), Bind(user, "header")>>
JsonBinds == <<Bind(token, "json")>>
NoBinds   == <<>>
UserOnly  == {user}

BothWays == BOOLEAN
NotDry   == {FALSE}
=============================================================================
