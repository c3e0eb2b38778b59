--------------------------- MODULE MCHttpsTransport ---------------------------
(* Model-checking instances of HttpsTransport.                             *)
EXTENDS HttpsTransport

CONSTANTS t1, t2, o1, o2

TwoThreads == {t1, t2}
TwoOptions == {o1, o2}

(* One URL of each kind that parseUrl() tells apart.                       *)
SomeUrls == {[scheme |-> "none", host |-> TRUE, port |-> "none"],
             [scheme |-> "http", host |-> TRUE, port |-> "number"],
             [scheme |-> "https", host |-> TRUE, port |-> "none"],
             [scheme |-> "other", host |-> TRUE, port |-> "none"],
             [scheme |-> "http", host |-> TRUE, port |-> "bad"],
             [scheme |-> "none", host |-> FALSE, port |-> "none"]}

(* Default, half a second, and just more seconds than 16 bits hold.        *)
Ask(total, connecting) == [timeout |-> total, connect_timeout |-> connecting]
SomeRequests == {Ask(-1, -1), Ask(500, -1), Ask(65536000, 500)}
SomeSettings == {500, 65536000}

(* Two certificates, and a version of each kind.                           *)
SomeConfigs == {[options |-> o1, version |-> "known"], [options |-> o2, version |-> "unknown"],
                [options |-> o2, version |-> ""]}
=============================================================================
