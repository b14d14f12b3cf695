------------------------------ MODULE MCWorker -------------------------------
(***************************************************************************)
(* Instances of module Worker for TLC.                                     *)
(***************************************************************************)
EXTENDS WorkerRefinement, TLC

CONSTANTS m1, m2, m3, m4, mailbox, webhook, outbound

\* A configuration with and one without the webhook: a restart may add it or
\* take it away.
MCConfigs == {{mailbox, outbound}, {mailbox, webhook, outbound}}

MCOneConfig == {{mailbox, outbound}}

\* Bodies of two bytes: a failed write leaves none or one of them.
MCTwoBytes == [m \in Msgs |-> 2]

MCOneByte == [m \in Msgs |-> 1]

Symmetric == Permutations(Msgs)
==============================================================================
