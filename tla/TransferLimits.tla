--------------------------- MODULE TransferLimits ---------------------------
(* The lengths of files, and the limits LegacyTransfer has for them.       *)
EXTENDS Integers

CONSTANTS MaxChunks,    \* bound: the chunks of a file
          Small,        \* a file of fewer chunks is small (kStreamThreshold)
          Threshold,    \* kBackpressureThreshold
          MaxWaits      \* kBackpressureTimeoutMs / kBackpressureWaitMs

ASSUME LimitsAssumption ==
    /\ {MaxChunks, Small, Threshold, MaxWaits} \subseteq Nat
    /\ MaxWaits > 0
=============================================================================
