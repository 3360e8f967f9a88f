-------------------------------- MODULE Backoff --------------------------------
(* The retry delays of adapter_agent24/reconciler.rs. *)
EXTENDS Naturals

CONSTANT BackoffCap  \* the 300 s of backoff_after

ASSUME BackoffAssumption == BackoffCap \in 1..512

\* 1 s, doubled per failure, capped; 1 << exponent saturates, and from the
\* tenth failure on it is beyond the cap anyway.
backoff_after(attempts_after_increment) ==
    LET exponent == IF attempts_after_increment = 0 THEN 0 ELSE attempts_after_increment - 1
    IN  IF exponent > 9 \/ 2 ^ exponent > BackoffCap THEN BackoffCap ELSE 2 ^ exponent
===============================================================================
