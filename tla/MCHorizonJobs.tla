--------------------------- MODULE MCHorizonJobs ---------------------------
(* Small instances of the Horizon jobs for TLC.                            *)
EXTENDS HorizonJobs, TLC

HorizonSymmetry ==
  Permutations(Requests) \cup Permutations(Users) \cup Permutations(Keys)
  \cup Permutations(Workers) \cup Permutations(Senders)
=============================================================================
