--------------------------- MODULE MCTcpTransport ---------------------------
(* Model-checking instances of TcpTransport.                               *)
EXTENDS TcpTransport

CONSTANTS t1, t2, h1, h2

OneThread == {t1}
TwoThreads == {t1, t2}
OneHost == {h1}
TwoHosts == {h1, h2}
=============================================================================
