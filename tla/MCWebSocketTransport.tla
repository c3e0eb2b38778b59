------------------------ MODULE MCWebSocketTransport ------------------------
(* Model-checking instances of WebSocketTransport.                         *)
EXTENDS WebSocketTransport

CONSTANTS t1, t2, u1, u2

OneThread == {t1}
TwoThreads == {t1, t2}
TwoUrls == {u1, u2}
=============================================================================
