----------------------------- MODULE MCEventLog -----------------------------
(***************************************************************************)
(* An instance of EventLog for TLC: batches of one and of two events, one  *)
(* identifier reused between them.                                         *)
(***************************************************************************)
EXTENDS EventLog, TLC

CONSTANTS e1, e2, e3

MCBatches == {<<e1>>, <<e2, e3>>, <<e3>>}

WriterSymmetry == Permutations(Writers) \cup Permutations(Commands) \cup Permutations(Streams)
=============================================================================
