----------------------------- MODULE ChildThreads -----------------------------
(***************************************************************************)
(* The thread groups of the BSR library, by which mex_contour_sides and    *)
(* the image library under it do their work in parallel: child_thread::run *)
(* on two runnable objects or on a collection, on top of thread.           *)
(*                                                                         *)
(* A runnable is a job or calls run itself, on its kids.  Runnables are    *)
(* numbered in the order a single thread would run them.  A thread is      *)
(* named by the way down to it: t \o <<k>> is the k-th child of t, and the *)
(* thread that makes the outermost call is <<>>.  Its join lock is held    *)
(* from "running" until "terminated".  pthread_create is assumed to        *)
(* succeed; the code does not look at what it returns.                     *)
(***************************************************************************)
EXTENDS Naturals, Sequences, FiniteSets

CONSTANTS Programs,      \* the programs considered: [kids, pairs]
          Processors     \* the numbers of processors considered

NoException == 0

ASSUME ProcessorsAssumption == Processors \subseteq Nat \ {0}

\* The outermost runnable is 1; run takes two arguments or a collection.
ASSUME ProgramsAssumption ==
  \A p \in Programs :
    /\ 1 \in DOMAIN p.kids
    /\ \A r \in DOMAIN p.kids : p.kids[r] \in Seq(DOMAIN p.kids)
    /\ \A r \in p.pairs \cap DOMAIN p.kids : Len(p.kids[r]) = 2

\* What r comes to: r and all runnables up to the next kid of an earlier one.
Scope(p, r) ==
  {q \in DOMAIN p.kids :
     r <= q /\ \A s \in DOMAIN p.kids : \A k \in DOMAIN p.kids[s] :
       s < r /\ r < p.kids[s][k] => q < p.kids[s][k]}

\* The order of the numbers: a runnable, then its kids, each with all of its own.
ASSUME NumberingAssumption ==
  \A p \in Programs :
    /\ DOMAIN p.kids \subseteq Nat \ {0}
    /\ \A r \in DOMAIN p.kids :
         /\ \A k \in DOMAIN p.kids[r] :
              /\ r < p.kids[r][k]
              /\ \A l \in DOMAIN p.kids[r] : k < l => p.kids[r][k] < p.kids[r][l]
         /\ Scope(p, r) = {r} \cup UNION {Scope(p, p.kids[r][k]) : k \in DOMAIN p.kids[r]}

VARIABLES
  program,   \* [kids : runnable |-> its kids, pairs : who calls run with two arguments]
  failing,   \* the jobs that throw an exception
  threads,   \* thread |-> what it has to run, its processors, its state, its children,
             \* how many of them it has started or joined, the exception it caught
  times      \* job |-> how many times it was done

vars == <<program, failing, threads, times>>

Main == <<>>
kids(r) == program.kids[r]
JobsOf(p) == {r \in DOMAIN p.kids : p.kids[r] = <<>>}
Thread(todo, n_processors, state) ==
  [todo |-> todo, n_processors |-> n_processors, state |-> state,
   children |-> 0, at |-> 0, exception |-> NoException]

Init ==
  /\ program \in Programs
  /\ failing \in SUBSET JobsOf(program)
  /\ \E n \in Processors : threads = [t \in {Main} |-> Thread(<<1>>, n, "running")]
  /\ times = [j \in JobsOf(program) |-> 0]
-----------------------------------------------------------------------------
(* How work and processors are divided.                                    *)

\* start of two threads and of a collection
PairShares(n_proc) ==
  IF n_proc > 2 THEN <<n_proc \div 2, n_proc - n_proc \div 2>> ELSE <<1, 1>>
AllToEach(n_procs, n_threads) == [k \in 1 .. n_threads |-> n_procs]   \* mutant
Shares(n_procs, n_threads) ==
  [k \in 1 .. n_threads |->
     IF n_procs <= n_threads THEN 1
     ELSE n_procs \div n_threads + (IF k <= n_procs % n_threads THEN 1 ELSE 0)]

\* The runnable groups: as many as processors, the first ones with one more.
EvenGroups(rs, n_procs) ==   \* mutant: what does not divide evenly is left out
  LET per == Len(rs) \div n_procs
  IN [g \in 1 .. n_procs |-> SubSeq(rs, (g - 1) * per + 1, g * per)]
Groups(rs, n_procs) ==
  LET per == Len(rs) \div n_procs
      extra == Len(rs) - per * n_procs
      end(g) == g * per + (IF g <= extra THEN g ELSE extra)
  IN [g \in 1 .. n_procs |-> SubSeq(rs, end(g - 1) + 1, end(g))]
-----------------------------------------------------------------------------
(* The steps of thread t.                                                  *)

Is(t, state) == threads[t].state = state
Child(t, k) == t \o <<k>>
Become(t, record) == threads' = [threads EXCEPT ![t] = record]

\* start, up to the loop that starts the threads.
Start(t, groups, shares) ==
  threads' = [u \in DOMAIN threads \cup {Child(t, k) : k \in DOMAIN groups} |->
                CASE u = t -> [threads[t] EXCEPT !.state = "starting", !.at = 0,
                                                 !.children = Len(groups)]
                  [] u # t /\ (\E k \in DOMAIN groups : u = Child(t, k)) ->
                       Thread(groups[u[Len(u)]], shares[u[Len(u)]], "created")
                  [] OTHER -> threads[u]]

\* run, of the next runnable, when that one calls run on its kids.
Run(t) ==
  /\ Is(t, "running") /\ threads[t].todo # <<>>
  /\ LET r == Head(threads[t].todo)
         n == threads[t].n_processors
         alone == [k \in DOMAIN kids(r) |-> <<kids(r)[k]>>]
     IN /\ kids(r) # <<>>
        /\ CASE r \in program.pairs /\ n > 1 -> Start(t, alone, PairShares(n))
             [] r \in program.pairs /\ n <= 1 ->
                  Become(t, [threads[t] EXCEPT !.todo = kids(r) \o Tail(@)])
             [] r \notin program.pairs /\ n >= Len(kids(r)) -> Start(t, alone, Shares(n, Len(kids(r))))
             [] r \notin program.pairs /\ n < Len(kids(r)) -> Start(t, Groups(kids(r), n), Shares(n, n))
  /\ UNCHANGED <<program, failing, times>>

\* A job; an exception ends everything the thread has to run.
Job(t) ==
  /\ Is(t, "running") /\ threads[t].todo # <<>>
  /\ LET r == Head(threads[t].todo)
     IN /\ kids(r) = <<>>
        /\ times' = [times EXCEPT ![r] = @ + 1]
        /\ Become(t, IF r \in failing THEN [threads[t] EXCEPT !.todo = <<>>, !.exception = r]
                     ELSE [threads[t] EXCEPT !.todo = Tail(@)])
  /\ UNCHANGED <<program, failing>>

StartThread(t) ==
  /\ Is(t, "starting")
  /\ LET k == threads[t].at + 1
         last == k = threads[t].children
     IN threads' = [threads EXCEPT ![t].at = IF last THEN 0 ELSE k,
                                   ![t].state = IF last THEN "joining" ELSE @,
                                   ![Child(t, k)].state = "running"]
  /\ UNCHANGED <<program, failing, times>>

\* The end of thread_run, where the join lock is released, or of the outermost call.
ExitUnlessThrown(t) ==   \* mutant: an exception skips the end of thread_run
  /\ Is(t, "running") /\ threads[t].todo = <<>> /\ threads[t].exception = NoException
  /\ Become(t, [threads[t] EXCEPT !.state = "terminated"])
  /\ UNCHANGED <<program, failing, times>>
Exit(t) ==
  /\ Is(t, "running") /\ threads[t].todo = <<>>
  /\ Become(t, [threads[t] EXCEPT !.state = "terminated"])
  /\ UNCHANGED <<program, failing, times>>

JoinThread(t) ==
  /\ Is(t, "joining") /\ threads[t].at < threads[t].children
  /\ Is(Child(t, threads[t].at + 1), "terminated")
  /\ Become(t, [threads[t] EXCEPT !.at = @ + 1])
  /\ UNCHANGED <<program, failing, times>>

\* After the joins: the first pending exception, if any, is raised again.
Rethrow(t) ==
  /\ Is(t, "joining") /\ threads[t].at = threads[t].children
  /\ LET thrown == {k \in 1 .. threads[t].children :
                      threads[Child(t, k)].exception # NoException}
     IN Become(t, IF thrown = {}
                  THEN [threads[t] EXCEPT !.state = "running", !.todo = Tail(@)]
                  ELSE LET first == CHOOSE k \in thrown : \A l \in thrown : k <= l
                       IN [threads[t] EXCEPT !.state = "running", !.todo = <<>>,
                             !.exception = threads[Child(t, first)].exception])
  /\ UNCHANGED <<program, failing, times>>

Step(t) ==
  Run(t) \/ Job(t) \/ StartThread(t) \/ Exit(t) \/ JoinThread(t) \/ Rethrow(t)
Next == \E t \in DOMAIN threads : Step(t)

\* The system runs some thread as long as one can go on.
Spec == Init /\ [][Next]_vars /\ WF_vars(Next)
-----------------------------------------------------------------------------
(* Properties.                                                             *)

\* However the calls are nested, no more threads work at a time than the
\* outermost caller has processors: what a thread hands out to its children is
\* no more than what it has, and it works itself only before they do.
ProcessorsRespected ==
  Cardinality({t \in DOMAIN threads : Is(t, "running") \/ Is(t, "starting")})
    <= threads[Main].n_processors

\* run keeps its promise to the caller for any number of processors and any
\* interleaving: no job is forgotten when groups are cut, none is done after
\* the call is over, and the exception that comes out is that of the first
\* failing job, not of the one that failed first.
Promise == INSTANCE ParallelRun WITH
  over <- Is(Main, "terminated"),
  exception <- IF Is(Main, "terminated") THEN threads[Main].exception ELSE NoException
IsParallelRun == Promise!Spec

\* The outermost call comes to its end although every thread waits for its
\* children and an exception may skip what a group still had to do.
ComesToItsEnd == <>Is(Main, "terminated")
=============================================================================
