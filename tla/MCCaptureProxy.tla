--------------------------- MODULE MCCaptureProxy ---------------------------
(* Instances of CaptureProxy for TLC. *)
EXTENDS CaptureProxy

CONSTANTS c1, c2, site, quiet, api, noise

(* Two plain URLs, the second one excluded; two of an HTTPS site, the      *)
(* first one below /api; one of an HTTPS host that is excluded as such.    *)
MCConns  == {c1, c2}
MCHosts  == {site, quiet}
MCUrls   == {"plain", "health", "site/api", "site/page", "quiet/page"}
FewUrls  == MCUrls \ {"site/page"}
MCHostOf == [u \in Urls |-> CASE u \in {"site/api", "site/page"} -> site
                                [] u = "quiet/page"                -> quiet
                                [] OTHER                           -> NoHost]

MCPatterns == {api, noise}
MCHits     == [t \in Urls \cup MCHosts |->
                 CASE t \in {"health", "quiet/page", quiet} -> {noise}
                   [] t = "site/api"                        -> {api}
                   [] OTHER                                 -> {}]
NoPatterns == {}
NoiseOnly  == {noise}
ApiOnly    == {api}
=============================================================================
