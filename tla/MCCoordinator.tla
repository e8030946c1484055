--------------------------- MODULE MCCoordinator ---------------------------
(* Small instances of the directional coordinator for TLC.                 *)
EXTENDS Coordinator

CONSTANTS o1, o2, h, a, s1, s2, k1, k2, f1, f2

Request(o, k, key, f, s, limit) ==
  [owner |-> o, kind |-> k, key |-> key, family |-> f, science |-> s,
   limit |-> limit]

\* Two owners share a calculation; o1 is limited to one unfinished job and
\* reuses its key for another family.
SharedRequests ==
  { Request(o1, a, k1, f1, s1, 1), Request(o2, a, k1, f1, s1, 0),
    Request(o1, a, k1, f2, s2, 1), Request(o1, a, k2, f2, s2, 1) }

\* An owner without limit keeps several calculations queued.
ManyRequests ==
  { Request(o1, a, k1, f1, s1, 0), Request(o1, a, k2, f2, s2, 0) }

\* A client that asks for the same again whenever it has cancelled or lost it.
OneRequest == { Request(o1, h, k1, f1, s1, 0) }

JobSymmetry == Permutations(JobIds) \cup Permutations(Workers)
=============================================================================
