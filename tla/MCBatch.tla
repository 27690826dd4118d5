------------------------------- MODULE MCBatch -------------------------------
(* Each way of reporting; the quiet one without a revocation check.          *)
EXTENDS Batch

MCInit == Init /\ ~(opts.quiet /\ opts.structured) /\ opts.revocation = ~opts.quiet
MCSpec == MCInit /\ [][Next]_vars /\ Fairness
=============================================================================
