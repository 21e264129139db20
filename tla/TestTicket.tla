----------------------------- MODULE TestTicket -----------------------------
(***************************************************************************)
(* What the bot's comments promise about one trigger cycle (design         *)
(* document, section 5): they follow the Jenkins job and never run ahead of *)
(* it, a completion is final, and a cycle once announced disappears or goes *)
(* back only if one of its comments could not be posted.                    *)
(***************************************************************************)
CONSTANT Tickets        \* correlation ids

VARIABLES job,          \* the Jenkins item or job of a ticket
          ticket,       \* what the pull request shows of it
          lost          \* tickets one of whose comments was not posted

Init ==
  /\ job = [t \in Tickets |-> "absent"]
  /\ ticket = [t \in Tickets |-> "none"]
  /\ lost = {}

Show(t, stage) ==
  /\ ticket' = [ticket EXCEPT ![t] = stage]
  /\ UNCHANGED <<job, lost>>

Advance(t, result) ==
  /\ \/ job[t] = "absent"  /\ result = "queued"
     \/ job[t] = "queued"  /\ result = "running"
     \/ job[t] = "running" /\ result \in {"success", "failure"}
  /\ job' = [job EXCEPT ![t] = result]
  /\ UNCHANGED <<ticket, lost>>

Announce(t) == job[t] # "absent" /\ ticket[t] = "none" /\ Show(t, "queued")

ShowRunning(t) == job[t] \notin {"absent", "queued"} /\ ticket[t] = "queued" /\ Show(t, "running")

ShowComplete(t) ==
  /\ job[t] \in {"success", "failure"}
  /\ ticket[t] \in {"queued", "running", "silent"}
  /\ Show(t, "complete")

Lose(t) == lost' = lost \union {t} /\ UNCHANGED <<job, ticket>>

Forget(t) ==
  /\ t \in lost
  /\ \/ ticket[t] \in {"queued", "running"} /\ Show(t, "silent")
     \/ ticket[t] = "running" /\ Show(t, "queued")

Next == \E t \in Tickets :
  \/ \E result \in {"queued", "running", "success", "failure"} : Advance(t, result)
  \/ Announce(t) \/ ShowRunning(t) \/ ShowComplete(t) \/ Lose(t) \/ Forget(t)

Spec == Init /\ [][Next]_<<job, ticket, lost>>
=============================================================================
