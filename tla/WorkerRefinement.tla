-------------------------- MODULE WorkerRefinement ---------------------------
(***************************************************************************)
(* Module Worker implements module MailQueue.  The abstract state is read  *)
(* off the two files of an entry:                                          *)
(*   - a whole json with a body is a queued message owing the targets that *)
(*     json lists as pending; without a body it is gone, since load can    *)
(*     never serve it again;                                               *)
(*   - a json torn by the rewrite of settle (it has an attempt on its      *)
(*     count) is still queued while the worker is about to fill it, and    *)
(*     damaged once that worker is dead or has given up;                   *)
(*   - a json torn while enqueue creates it is a message never taken in.   *)
(***************************************************************************)
EXTENDS Worker

Status(m) ==
  CASE Whole(m) /\ eml[m] > 0 -> "queued"
    [] Whole(m) /\ eml[m] = 0 -> "gone"
    [] Torn(m) /\ Rewriting(m) -> "queued"
    [] Torn(m) /\ ~ Rewriting(m) /\ meta[m].attempts > 0 -> "damaged"
    [] Torn(m) /\ ~ Rewriting(m) /\ meta[m].attempts = 0 -> "new"
    [] json[m] = "absent" -> IF promised[m] # {} /\ meta[m].pending = {}
                               THEN "gone" ELSE "new"

Handed == {p \in Msgs \X Targets : got[p[1]][p[2]] > 0}

Queue == INSTANCE MailQueue WITH
  status <- [m \in Msgs |-> Status(m)],
  owed <- [m \in Msgs |-> IF Status(m) = "queued" THEN meta[m].pending ELSE {}],
  handed <- Handed

\* Every behaviour of the spool and its worker, kills and disk errors
\* included, is a behaviour of the at-least-once queue.
ImplementsQueue == Queue!Spec
==============================================================================
