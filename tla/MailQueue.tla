------------------------------ MODULE MailQueue ------------------------------
(***************************************************************************)
(* What the spool and its worker promise, without files, steps or clocks:  *)
(* an at-least-once queue.  A message enters owing a set of targets.  A    *)
(* target leaves the debt only after it was handed the message, or after   *)
(* the queue gave it up on purpose; a message leaves the queue when its    *)
(* debt is settled that way.  The one thing that may go wrong is damage:   *)
(* a message whose record becomes unreadable and is served no more.        *)
(*                                                                         *)
(* Module WorkerRefinement shows that module Worker implements this one.   *)
(***************************************************************************)
CONSTANTS Msgs, Targets

VARIABLES
  status,    \* status[m]: "new", "queued", "gone" or "damaged"
  owed,      \* owed[m]: the targets a queued m is still due for
  handed,    \* the <<m, t>> such that t took m at least once
  waived     \* the <<m, t>> given up on purpose

qvars == <<status, owed, handed, waived>>

Init ==
  /\ status = [m \in Msgs |-> "new"]
  /\ owed = [m \in Msgs |-> {}]
  /\ handed = {}
  /\ waived = {}

Closed(m) == {t \in Targets : <<m, t>> \in handed \cup waived}

Accept(m) ==
  /\ status[m] = "new"
  /\ \E T \in (SUBSET Targets) \ {{}} : owed' = [owed EXCEPT ![m] = T]
  /\ status' = [status EXCEPT ![m] = "queued"]
  /\ UNCHANGED <<handed, waived>>

\* A target may be handed the same message again.
Hand(m, t) ==
  /\ status[m] = "queued" /\ t \in owed[m]
  /\ handed' = handed \cup {<<m, t>>}
  /\ UNCHANGED <<status, owed, waived>>

Waive(m, T) ==
  /\ status[m] = "queued" /\ T \subseteq owed[m]
  /\ waived' = waived \cup ({m} \X T)
  /\ UNCHANGED <<status, owed, handed>>

\* Closed targets leave the debt, open ones stay.
Record(m, T) ==
  /\ status[m] = "queued"
  /\ T # {} /\ T \subseteq owed[m] /\ owed[m] \ T \subseteq Closed(m)
  /\ owed' = [owed EXCEPT ![m] = T]
  /\ UNCHANGED <<status, handed, waived>>

Leave(m) ==
  /\ status[m] = "queued" /\ owed[m] \subseteq Closed(m)
  /\ status' = [status EXCEPT ![m] = "gone"]
  /\ owed' = [owed EXCEPT ![m] = {}]
  /\ UNCHANGED <<handed, waived>>

Damage(m) ==
  /\ status[m] = "queued"
  /\ status' = [status EXCEPT ![m] = "damaged"]
  /\ owed' = [owed EXCEPT ![m] = {}]
  /\ UNCHANGED <<handed, waived>>

Next ==
  \E m \in Msgs :
    \/ Accept(m) \/ Leave(m) \/ Damage(m)
    \/ \E t \in Targets : Hand(m, t)
    \/ \E T \in SUBSET Targets : Waive(m, T) \/ Record(m, T)

Spec == Init /\ [][Next]_qvars
==============================================================================
