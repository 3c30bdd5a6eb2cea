------------------------------ MODULE JobBoard ------------------------------
(***************************************************************************)
(* What the registry of background jobs promises those who start, list and *)
(* kill jobs (crates/mc-sandbox/src/jobs.rs), with the threads that keep   *)
(* the promise left out.                                                   *)
(*                                                                         *)
(* A job is begun once and ends once, on its own or killed, and what is    *)
(* said of its end is never taken back.  It is said to be killed only when *)
(* no process of it is left, and processes never come back.  The list has  *)
(* every running job; only finished ones are forgotten, and for good.      *)
(***************************************************************************)
CONSTANT
  Job

VARIABLES
  says,     \* what the listing says of each job; "none" before it is begun
  listed,   \* the jobs that can be listed, read and killed
  gone      \* jobs of which no process is left

boardVars == <<says, listed, gone>>

Over == {j \in Job : says[j] \in {"exited", "killed"}}

Init ==
  /\ says = [j \in Job |-> "none"]
  /\ listed = {}
  /\ gone = {}

Begins(j) ==
  /\ says[j] = "none"
  /\ says' = [says EXCEPT ![j] = "running"]
  /\ listed' = listed \cup {j}
  /\ UNCHANGED gone

Dies(j) ==
  /\ says[j] # "none"
  /\ gone' = gone \cup {j}
  /\ UNCHANGED <<says, listed>>

Exits(j) ==
  /\ says[j] = "running"
  /\ says' = [says EXCEPT ![j] = "exited"]
  /\ UNCHANGED <<listed, gone>>

IsKilled(j) ==
  /\ says[j] = "running" /\ j \in gone
  /\ says' = [says EXCEPT ![j] = "killed"]
  /\ UNCHANGED <<listed, gone>>

Forgets ==
  /\ \E old \in SUBSET (listed \cap Over) : listed' = listed \ old
  /\ UNCHANGED <<says, gone>>

Next == Forgets \/ \E j \in Job : Begins(j) \/ Dies(j) \/ Exits(j) \/ IsKilled(j)

Spec == Init /\ [][Next]_boardVars
=============================================================================
