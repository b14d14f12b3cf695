---------------------------- MODULE WorkerClaims -----------------------------
(***************************************************************************)
(* What a comment of the spool says of module Worker, taken at its word.   *)
(* A run refutes it; what holds instead is stated in module Worker.        *)
(***************************************************************************)
EXTENDS Worker

\* server/spool.rs: "A crash after 250 loses nothing: the spool is re-read on
\* restart."  Refuted: a kill inside settle's in-place rewrite leaves a json
\* that no later listing can read.  AcceptedIsKept names this exception.
CrashLosesNothing ==
  \A m \in Msgs : enq[m] = "accepted" =>
    \A t \in promised[m] : Served(m, t) \/ Kept(m, t) \/ Rewriting(m)
==============================================================================
