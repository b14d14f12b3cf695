--------------------------- MODULE MCWorkerClaims ----------------------------
(***************************************************************************)
(* The smallest instance on which TLC refutes module WorkerClaims.         *)
(***************************************************************************)
EXTENDS WorkerClaims

CONSTANTS m1, m2, mailbox, webhook, outbound

MCOneConfig == {Targets}

MCOneByte == [m \in Msgs |-> 1]
==============================================================================
