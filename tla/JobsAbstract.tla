---------------------------- MODULE JobsAbstract ----------------------------
(***************************************************************************)
(* What the job system promises its callers, with no queue, no slot and no *)
(* thread in it: a submitted job runs once, only after the job it depends  *)
(* on has finished, and every submitted job is eventually run.             *)
(***************************************************************************)

CONSTANTS Handles,   (* names of jobs: what fl_jobs_add_* returns           *)
          NoHandle   (* handle 0: "no dependency"                           *)

VARIABLES phase,     (* where each job is in its life                       *)
          dep        (* the job it was asked to run after, or NoHandle      *)

vars == <<phase, dep>>

Init == /\ phase = [h \in Handles |-> "none"]
        /\ dep = [h \in Handles |-> NoHandle]

Satisfied(h) == dep[h] = NoHandle \/ phase[dep[h]] = "done"

Submit(h, d) ==
  /\ phase[h] = "none"
  /\ d = NoHandle \/ phase[d] # "none"
  /\ phase' = [phase EXCEPT ![h] = "pending"]
  /\ dep' = [dep EXCEPT ![h] = d]

Start(h) ==
  /\ phase[h] = "pending"
  /\ Satisfied(h)
  /\ phase' = [phase EXCEPT ![h] = "running"]
  /\ UNCHANGED dep

Finish(h) ==
  /\ phase[h] = "running"
  /\ phase' = [phase EXCEPT ![h] = "done"]
  /\ UNCHANGED dep

Next == \E h \in Handles :
          \/ \E d \in Handles \union {NoHandle} : Submit(h, d)
          \/ Start(h)
          \/ Finish(h)

Fairness == \A h \in Handles : WF_vars(Start(h)) /\ WF_vars(Finish(h))

SafeSpec == Init /\ [][Next]_vars
Spec == SafeSpec /\ Fairness
=============================================================================
