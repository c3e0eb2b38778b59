---------------------------- MODULE MCFileDownload ----------------------------
(* Model-checking instances of FileDownload.                               *)
EXTENDS FileDownload

Served(dispatched, syncWrites) ==
    [keepAlive : BOOLEAN, dispatched : dispatched, syncWrites : syncWrites]

(* pump() runs on the I/O thread only: the handler does, or no write calls *)
(* back on the pool thread.                                                *)
PumpOnIo == Served({FALSE}, BOOLEAN) \cup Served({TRUE}, {FALSE})
=============================================================================
