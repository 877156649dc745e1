----------------------------- MODULE ParallelRun -----------------------------
(***************************************************************************)
(* What child_thread::run promises its caller, whatever the number of      *)
(* processors: every job is done at most once and none after the call is   *)
(* over, and the call ends as if a single thread had done the jobs one     *)
(* after the other: it returns when all of them are done, or it raises the *)
(* exception of the first job that fails, when that job and all before it  *)
(* are done.                                                               *)
(***************************************************************************)
EXTENDS Naturals

CONSTANT NoException

VARIABLES failing,     \* the jobs that throw; a job is a number, its place in the order
          times,       \* job |-> how many times it was done
          over,        \* the call has returned or raised
          exception    \* what it raised

vars == <<failing, times, over, exception>>

Jobs == DOMAIN times
Done == {j \in Jobs : times[j] = 1}

Init ==
  /\ times = [j \in Jobs |-> 0]
  /\ over = FALSE /\ exception = NoException

DoJob(j) ==
  /\ ~ over /\ times[j] = 0
  /\ times' = [times EXCEPT ![j] = 1]
  /\ UNCHANGED <<failing, over, exception>>

Return ==
  /\ ~ over /\ failing = {} /\ Done = Jobs
  /\ over' = TRUE
  /\ UNCHANGED <<failing, times, exception>>

Raise(j) ==
  /\ ~ over /\ j \in failing
  /\ \A k \in failing : j <= k
  /\ \A k \in Jobs : k <= j => k \in Done
  /\ over' = TRUE /\ exception' = j
  /\ UNCHANGED <<failing, times>>

Next == Return \/ (\E j \in Jobs : DoJob(j) \/ Raise(j))

Spec == Init /\ [][Next]_vars
=============================================================================
