-------------------------- MODULE ChildThreadsProofs --------------------------
(***************************************************************************)
(* Proofs about ChildThreads, for every tree of runnables, any number of   *)
(* processors and any jobs that fail: threads never wait for each other    *)
(* without end, none is left when the outermost call is over, no more of   *)
(* them work at a time than there are processors, and nested groups        *)
(* implement ParallelRun: the jobs are done as by a single thread.         *)
(***************************************************************************)
EXTENDS ChildThreads, FiniteSetTheorems, SequenceTheorems, TLAPS

Means == INSTANCE DataProofs   \* for its lemmas on least elements

-----------------------------------------------------------------------------
(* Names of threads.                                                       *)

LEMMA ChildName ==
  ASSUME NEW t \in Seq(Nat), NEW k \in Nat
  PROVE  /\ Child(t, k) \in Seq(Nat) /\ Len(Child(t, k)) = Len(t) + 1 /\ Len(t) \in Nat
         /\ Child(t, k)[Len(t) + 1] = k
         /\ \A i \in 1 .. Len(t) : Child(t, k)[i] = t[i]
         /\ Child(t, k) # t /\ Child(t, k) # Main
BY DEF Child, Main

LEMMA ChildInjective ==
  ASSUME NEW t \in Seq(Nat), NEW k \in Nat, NEW u \in Seq(Nat), NEW l \in Nat,
         Child(t, k) = Child(u, l)
  PROVE  t = u /\ k = l
<1> DEFINE c == Child(t, k)
           d == Child(u, l)
<1>1. /\ Len(c) = Len(t) + 1 /\ Len(t) \in Nat /\ c[Len(t) + 1] = k
      /\ \A i \in 1 .. Len(t) : c[i] = t[i]
  BY ChildName
<1>2. /\ Len(d) = Len(u) + 1 /\ Len(u) \in Nat /\ d[Len(u) + 1] = l
      /\ \A i \in 1 .. Len(u) : d[i] = u[i]
  BY ChildName
<1>3. c = d
  OBVIOUS
<1> HIDE DEF c, d
<1>4. Len(t) = Len(u)
  BY <1>1, <1>2, <1>3
<1>5. k = l /\ \A i \in 1 .. Len(t) : t[i] = u[i]
  BY <1>1, <1>2, <1>3, <1>4
<1> QED BY <1>4, <1>5, SeqEqual
-----------------------------------------------------------------------------
(* Shares and groups.                                                      *)

LEMMA Division ==
  ASSUME NEW a \in Nat, NEW n \in Nat \ {0}
  PROVE  /\ a \div n \in Nat /\ (a \div n) * n <= a
         /\ a >= n => a \div n >= 1
<1> DEFINE q == a \div n
           r == a % n
<1>1. q \in Int /\ r \in Int /\ 0 <= r /\ r < n
  OBVIOUS
<1>2. a = n * q + r
  OBVIOUS
<1> QED BY <1>1, <1>2

LEMMA Remainder ==
  ASSUME NEW a \in Nat, NEW n \in Nat \ {0}
  PROVE  a % n \in Nat /\ a % n < n /\ a = n * (a \div n) + (a % n)
<1>1. a % n \in Nat /\ a % n < n
  OBVIOUS
<1>2. a = n * (a \div n) + (a % n)
  OBVIOUS
<1> QED BY <1>1, <1>2

LEMMA SharesPositive ==
  ASSUME NEW n \in Nat \ {0}, NEW m \in Nat \ {0}
  PROVE  Shares(n, m) \in [1 .. m -> Nat \ {0}]
<1>1. n \div m \in Nat /\ (n > m => n \div m >= 1)
  BY Division
<1> DEFINE share(k) == IF n <= m THEN 1 ELSE n \div m + (IF k <= n % m THEN 1 ELSE 0)
<1>2. \A k \in 1 .. m : share(k) \in Nat \ {0}
  <2> DEFINE q == n \div m
  <2> TAKE k \in 1 .. m
  <2>1. q \in Nat /\ (n > m => q >= 1)
    BY <1>1
  <2> HIDE DEF q
  <2>2. q + 0 \in Nat /\ q + 1 \in Nat /\ (q >= 1 => q + 0 # 0 /\ q + 1 # 0)
    BY <2>1
  <2>3. n <= m \/ n > m
    OBVIOUS
  <2> QED BY <2>1, <2>2, <2>3 DEF q
<1>3. Shares(n, m) = [k \in 1 .. m |-> share(k)]
  BY DEF Shares
<1> HIDE DEF share
<1> QED BY <1>2, <1>3

LEMMA PairSharesPositive ==
  ASSUME NEW n \in Nat \ {0}
  PROVE  PairShares(n)[1] \in Nat \ {0} /\ PairShares(n)[2] \in Nat \ {0}
<1>1. n > 2 => n \div 2 \in Nat \ {0} /\ n - n \div 2 \in Nat \ {0}
  OBVIOUS
<1> QED BY <1>1 DEF PairShares

\* The groups are made of the elements of the list.
LEMMA GroupsOfList ==
  ASSUME NEW R, NEW rs \in Seq(R), NEW n \in Nat \ {0}
  PROVE  Groups(rs, n) \in [1 .. n -> Seq(R)]
<1> DEFINE per == Len(rs) \div n
           extra == Len(rs) - per * n
           end(g) == g * per + (IF g <= extra THEN g ELSE extra)
<1>1. Len(rs) \in Nat /\ \A i \in 1 .. Len(rs) : rs[i] \in R
  OBVIOUS
<1>2. per \in Nat /\ per * n <= Len(rs)
  BY <1>1, Division
<1>3. extra \in Nat /\ per * n \in Nat /\ per * n + extra = Len(rs)
  <2> HIDE DEF per
  <2>1. per * n \in Nat
    BY <1>2
  <2> QED BY <1>1, <1>2, <2>1
<1>4. Groups(rs, n) = [g \in 1 .. n |-> SubSeq(rs, end(g - 1) + 1, end(g))]
  BY DEF Groups
<1> HIDE DEF per, extra
<1>5. ASSUME NEW g \in 0 .. n
      PROVE  end(g) \in Nat /\ end(g) <= Len(rs)
  <2>1. PICK c \in Nat : n = g + c
    <3>1. n - g \in Nat /\ n = g + (n - g)
      OBVIOUS
    <3> QED BY <3>1
  <2>2. g * per \in Nat /\ c * per \in Nat /\ per * n = g * per + c * per
    BY <1>2, <2>1
  <2>3. (IF g <= extra THEN g ELSE extra) \in 0 .. extra
    BY <1>3
  <2> DEFINE first == IF g <= extra THEN g ELSE extra
  <2>4. first \in Nat /\ first <= extra
    BY <1>3, <2>3
  <2>5. end(g) = g * per + first
    OBVIOUS
  <2> HIDE DEF first, end
  <2> QED BY <1>3, <2>2, <2>4, <2>5
<1> HIDE DEF end
<1>6. ASSUME NEW g \in 1 .. n
      PROVE  SubSeq(rs, end(g - 1) + 1, end(g)) \in Seq(R)
  <2>1. g - 1 \in 0 .. n /\ g \in 0 .. n
    OBVIOUS
  <2>2. end(g - 1) \in Nat /\ end(g) \in Nat /\ end(g) <= Len(rs)
    BY <1>5, <2>1
  <2>3. \A i \in end(g - 1) + 1 .. end(g) : rs[i] \in R
    BY <1>1, <2>2
  <2> QED BY <2>2, <2>3, SubSeqProperties
<1> QED BY <1>4, <1>6
-----------------------------------------------------------------------------
(* The invariant.                                                          *)

Runnables == DOMAIN program.kids
Active == {"running", "starting", "joining"}
IsThread(thread) ==
  /\ thread \in [todo : Seq(Runnables), n_processors : Nat \ {0},
                 state : Active \cup {"created", "terminated"},
                 children : Nat, at : Nat, exception : Runnables \cup {NoException}]
  /\ thread.state \in {"starting", "joining"} => thread.todo # <<>>

\* The states of the children a thread has or had.
Places == Nat \ {0}
StateAt(t, k) == IF Child(t, k) \in DOMAIN threads THEN threads[Child(t, k)].state ELSE "none"
States(t) == [k \in Places |-> StateAt(t, k)]

\* A thread that has work of its own has no child left; one that starts its
\* children has started the first ones; one that joins them has started all.
Family(thread, states) ==
  /\ thread.state \notin {"starting", "joining"} => \A k \in Places : states[k] \in {"none", "terminated"}
  /\ thread.state = "starting" =>
       /\ thread.at < thread.children
       /\ \A k \in Places :
            /\ k <= thread.at => states[k] \in Active \cup {"terminated"}
            /\ k > thread.at /\ k <= thread.children => states[k] = "created"
            /\ k > thread.children => states[k] \in {"none", "terminated"}
  /\ thread.state = "joining" =>
       /\ thread.at <= thread.children
       /\ \A k \in Places :
            /\ k <= thread.at => states[k] = "terminated"
            /\ k <= thread.children => states[k] \in Active \cup {"terminated"}
            /\ k > thread.children => states[k] \in {"none", "terminated"}

\* Every thread but the first one is a child.
Tree ==
  /\ Main \in DOMAIN threads /\ ~ Is(Main, "created")
  /\ DOMAIN threads \subseteq Seq(Nat) /\ IsFiniteSet(DOMAIN threads)
  /\ \A u \in DOMAIN threads : u = Main \/ \E t \in DOMAIN threads, k \in Places : u = Child(t, k)

Threads ==
  /\ program \in Programs
  /\ threads = [t \in DOMAIN threads |-> threads[t]]
  /\ Tree
  /\ \A t \in DOMAIN threads : IsThread(threads[t]) /\ Family(threads[t], States(t))

LEMMA InitThreads == Init => Threads
<1> SUFFICES ASSUME Init PROVE Threads
  OBVIOUS
<1>1. PICK n \in Processors : threads = [t \in {Main} |-> Thread(<<1>>, n, "running")]
  BY DEF Init
<1>2. DOMAIN threads = {Main} /\ threads[Main] = Thread(<<1>>, n, "running")
  BY <1>1
<1>3. Main \in Seq(Nat)
  BY DEF Main
<1>4. program \in Programs /\ 1 \in Runnables /\ n \in Nat \ {0}
  BY ProgramsAssumption, ProcessorsAssumption DEF Init, Runnables
<1>5. IsThread(threads[Main]) /\ threads[Main].state = "running"
  BY <1>2, <1>4 DEF IsThread, Thread, Active
<1>6. IsFiniteSet({Main})
  BY FS_Singleton
<1>7. Tree
  BY <1>2, <1>3, <1>5, <1>6 DEF Tree, Is
<1>8. \A k \in Places : States(Main)[k] = "none"
  BY <1>2, <1>3, ChildName DEF States, StateAt, Places
<1>9. Family(threads[Main], States(Main))
  BY <1>5, <1>8 DEF Family
<1> QED BY <1>1, <1>2, <1>4, <1>5, <1>7, <1>9 DEF Threads

\* The family of a thread that does nothing is disturbed by no child that goes
\* on and does not become "created".
LEMMA FamilyKept ==
  ASSUME Threads, NEW u \in DOMAIN threads, threads'[u] = threads[u],
         \A k \in Places :
           \/ States(u)'[k] = States(u)[k]
           \/ States(u)[k] \in Active /\ States(u)'[k] \in Active \cup {"terminated"}
  PROVE  Family(threads[u], States(u))'
<1>1. Family(threads[u], States(u))
  BY DEF Threads
<1>2. Family(threads[u], States(u)')
  BY <1>1 DEF Family, Active
<1> QED BY <1>2

\* A step of one thread that leaves its children as they are.
LEMMA OneChanges ==
  ASSUME Threads, NEW t \in DOMAIN threads, threads[t].state \in Active,
         NEW thread, Become(t, thread), UNCHANGED program,
         IsThread(thread), thread.state # "created", Family(thread, States(t))
  PROVE  Threads'
<1>1. /\ DOMAIN threads' = DOMAIN threads /\ threads'[t] = thread
      /\ \A u \in DOMAIN threads : u # t => threads'[u] = threads[u]
      /\ threads' = [u \in DOMAIN threads' |-> threads'[u]]
  BY DEF Threads, Become
<1>2. t \in Seq(Nat) /\ DOMAIN threads \subseteq Seq(Nat)
  BY DEF Threads, Tree
<1>3. Tree'
  BY <1>1 DEF Threads, Tree, Is
<1>4. \A u \in DOMAIN threads : IsThread(threads[u])'
  BY <1>1 DEF Threads, IsThread, Runnables
<1>5. States(t)' = States(t)
  <2>1. \A k \in Places : Child(t, k) # t
    BY <1>2, ChildName DEF Places
  <2> QED BY <1>1, <2>1 DEF States, StateAt
<1>6. ASSUME NEW u \in DOMAIN threads, u # t
      PROVE  Family(threads[u], States(u))'
  <2>1. ASSUME NEW k \in Places
        PROVE  \/ States(u)'[k] = States(u)[k]
               \/ States(u)[k] \in Active /\ States(u)'[k] \in Active \cup {"terminated"}
    <3>1. CASE Child(u, k) # t
      BY <1>1, <3>1 DEF States, StateAt
    <3>2. CASE Child(u, k) = t
      <4>1. States(u)[k] = threads[t].state /\ States(u)'[k] = thread.state
        BY <1>1, <3>2 DEF States, StateAt
      <4> QED BY <4>1 DEF IsThread
    <3> QED BY <3>1, <3>2
  <2> QED BY <1>1, <1>6, <2>1, FamilyKept
<1>7. Family(threads[t], States(t))'
  BY <1>1, <1>5
<1> QED BY <1>1, <1>3, <1>4, <1>6, <1>7 DEF Threads

\* The next child is started.
LEMMA OneStarts ==
  ASSUME Threads, NEW t \in DOMAIN threads, threads[t].state = "starting", UNCHANGED program,
         NEW k \in Places, k = threads[t].at + 1, NEW c, c = Child(t, k),
         NEW self, IsThread(self), self.children = threads[t].children,
         IF k = threads[t].children THEN self.at = 0 /\ self.state = "joining"
                                    ELSE self.at = k /\ self.state = "starting",
         NEW child, child = [threads[c] EXCEPT !.state = "running"],
         threads' = [threads EXCEPT ![t] = self, ![c] = child]
  PROVE  Threads'
<1>1. /\ IsThread(threads[t]) /\ Family(threads[t], States(t))
      /\ t \in Seq(Nat) /\ DOMAIN threads \subseteq Seq(Nat)
  BY DEF Threads, Tree
<1>2. threads[t].at \in Nat /\ threads[t].children \in Nat /\ k <= threads[t].children /\ k \in Nat
  BY <1>1 DEF Family, IsThread, Places
<1>3. States(t)[k] = "created"
  BY <1>1, <1>2 DEF Family
<1>4. c \in DOMAIN threads /\ threads[c].state = "created"
  BY <1>3 DEF States, StateAt
<1>5. c # t /\ c # Main /\ c \in Seq(Nat) /\ Len(c) = Len(t) + 1 /\ Len(t) \in Nat
  BY <1>1, <1>2, ChildName
<1>6. /\ DOMAIN threads' = DOMAIN threads
      /\ threads'[t] = self /\ threads'[c] = child
      /\ \A u \in DOMAIN threads : u # t /\ u # c => threads'[u] = threads[u]
      /\ threads' = [u \in DOMAIN threads' |-> threads'[u]]
  BY <1>4, <1>5 DEF Threads
<1>7. IsThread(threads[c]) /\ Family(threads[c], States(c))
  BY <1>4 DEF Threads
<1>8. /\ self.state \in {"starting", "joining"}
      /\ IsThread(child) /\ child.state = "running"
  BY <1>7 DEF IsThread, Active
<1>9. Tree'
  BY <1>5, <1>6, <1>8 DEF Threads, Tree, Is
<1>10. \A u \in DOMAIN threads : IsThread(threads[u])'
  BY <1>6, <1>8 DEF Threads, IsThread, Runnables
<1>11. Family(threads[t], States(t))'
  <2>1. ASSUME NEW l \in Places
        PROVE  States(t)'[l] = IF l = k THEN "running" ELSE States(t)[l]
    <3>1. Child(t, l) # t
      BY <1>1, ChildName DEF Places
    <3>2. Child(t, l) = c => l = k
      BY <1>1, <1>2, ChildInjective DEF Places
    <3> QED BY <1>4, <1>6, <1>8, <3>1, <3>2 DEF States, StateAt
  <2> DEFINE now == States(t)'
  <2>2. /\ now[k] = "running"
        /\ \A l \in Places : l < k => now[l] \in Active \cup {"terminated"}
        /\ \A l \in Places : l > k /\ l <= threads[t].children => now[l] = "created"
        /\ \A l \in Places : l > threads[t].children => now[l] \in {"none", "terminated"}
    <3>1. now[k] = "running" /\ \A l \in Places : l # k => now[l] = States(t)[l]
      BY <2>1
    <3>2. \A l \in Places : l \in Nat /\ (l < k <=> l <= threads[t].at) /\ (l > k => l > threads[t].at)
      BY <1>2 DEF Places
    <3> HIDE DEF now
    <3>3. \A l \in Places : l > threads[t].children => l # k
      BY <1>2 DEF Places
    <3>4. \A l \in Places :
            /\ l <= threads[t].at => States(t)[l] \in Active \cup {"terminated"}
            /\ l > threads[t].at /\ l <= threads[t].children => States(t)[l] = "created"
            /\ l > threads[t].children => States(t)[l] \in {"none", "terminated"}
      BY <1>1 DEF Family
    <3>5. \A l \in Places : l < k \/ l > k => l # k
      BY <1>2 DEF Places
    <3> QED BY <3>1, <3>2, <3>3, <3>4, <3>5
  <2> HIDE DEF now
  <2>3. \A l \in Places : l \in Nat /\ (l <= k <=> l < k \/ l = k)
    BY <1>2 DEF Places
  <2>4. Family(self, now)
    <3>1. CASE k = threads[t].children
      BY <1>2, <2>2, <2>3, <3>1 DEF Family, Active, Places
    <3>2. CASE k # threads[t].children
      BY <1>2, <2>2, <2>3, <3>2 DEF Family, Active
    <3> QED BY <3>1, <3>2
  <2> QED BY <1>6, <2>4 DEF now
<1>12. Family(threads[c], States(c))'
  <2>1. ASSUME NEW l \in Places
        PROVE  Child(c, l) # c /\ Child(c, l) # t
    <3>1. Len(Child(c, l)) = Len(c) + 1
      BY <1>5, ChildName DEF Places
    <3> QED BY <1>5, <3>1
  <2>2. States(c)' = States(c)
    BY <1>6, <2>1 DEF States, StateAt
  <2>3. Family(child, States(c))
    BY <1>4, <1>7, <1>8 DEF Family
  <2> QED BY <1>6, <2>2, <2>3
<1>13. ASSUME NEW u \in DOMAIN threads, u # t, u # c
       PROVE  Family(threads[u], States(u))'
  <2>1. ASSUME NEW l \in Places
        PROVE  \/ States(u)'[l] = States(u)[l]
               \/ States(u)[l] \in Active /\ States(u)'[l] \in Active \cup {"terminated"}
    <3>1. Child(u, l) # c
      BY <1>1, <1>2, <1>13, ChildInjective DEF Places
    <3>2. CASE Child(u, l) # t
      BY <1>6, <3>1, <3>2 DEF States, StateAt
    <3>3. CASE Child(u, l) = t
      <4>1. States(u)[l] = threads[t].state /\ States(u)'[l] = self.state
        BY <1>6, <3>3 DEF States, StateAt
      <4> QED BY <1>1, <1>8, <4>1 DEF Active
    <3> QED BY <3>2, <3>3
  <2> QED BY <1>6, <1>13, <2>1, FamilyKept
<1> QED BY <1>6, <1>9, <1>10, <1>11, <1>12, <1>13 DEF Threads

LEMMA StartThreadKeeps ==
  ASSUME Threads, NEW t \in DOMAIN threads, StartThread(t)
  PROVE  Threads'
<1>1. threads[t].state = "starting" /\ IsThread(threads[t]) /\ Family(threads[t], States(t))
  BY DEF StartThread, Is, Threads
<1>2. PICK k \in Places : k = threads[t].at + 1
  BY <1>1 DEF IsThread, Places
<1>3. PICK c : c = Child(t, k)
  OBVIOUS
<1>4. k <= threads[t].children /\ threads[t].at \in Nat /\ threads[t].children \in Nat
  BY <1>1, <1>2 DEF Family, IsThread
<1>5. States(t)[k] = "created"
  BY <1>1, <1>2, <1>4 DEF Family
<1>6. c \in DOMAIN threads
  BY <1>3, <1>5 DEF States, StateAt
<1>7. c # t
  BY <1>2, <1>3, ChildName DEF Threads, Tree, Places
<1>8. PICK self : self = [threads[t] EXCEPT !.at = IF k = threads[t].children THEN 0 ELSE k,
                                            !.state = IF k = threads[t].children THEN "joining" ELSE @]
  OBVIOUS
<1>9. PICK child : child = [threads[c] EXCEPT !.state = "running"]
  OBVIOUS
<1>10. threads' = [threads EXCEPT ![t] = self, ![c] = child] /\ UNCHANGED program
  BY <1>2, <1>3, <1>6, <1>7, <1>8, <1>9 DEF StartThread, Threads
<1>11. /\ IsThread(self) /\ self.children = threads[t].children
       /\ IF k = threads[t].children THEN self.at = 0 /\ self.state = "joining"
                                     ELSE self.at = k /\ self.state = "starting"
  BY <1>1, <1>2, <1>4, <1>8 DEF IsThread, Active, Places
<1> QED BY <1>1, <1>2, <1>3, <1>9, <1>10, <1>11, OneStarts

\* What start leaves behind.
Started(t, m, groups, shares) ==
  /\ DOMAIN threads' = DOMAIN threads \cup {Child(t, k) : k \in 1 .. m}
  /\ threads'[t] = [threads[t] EXCEPT !.state = "starting", !.at = 0, !.children = m]
  /\ \A k \in 1 .. m : threads'[Child(t, k)] = Thread(groups[k], shares[k], "created")
  /\ \A u \in DOMAIN threads : u # t /\ u \notin {Child(t, k) : k \in 1 .. m} =>
       threads'[u] = threads[u]
  /\ threads' = [u \in DOMAIN threads' |-> threads'[u]]

LEMMA StartOutcome ==
  ASSUME NEW t \in Seq(Nat), t \in DOMAIN threads, NEW m \in Nat \ {0},
         NEW groups \in [1 .. m -> Seq(Runnables)],
         NEW shares \in [1 .. m -> Nat \ {0}], Start(t, groups, shares)
  PROVE  Started(t, m, groups, shares)
<1> DEFINE New == {Child(t, k) : k \in 1 .. m}
           After(u) == CASE u = t -> [threads[t] EXCEPT !.state = "starting", !.at = 0,
                                                        !.children = Len(groups)]
                         [] u # t /\ (\E k \in DOMAIN groups : u = Child(t, k)) ->
                              Thread(groups[u[Len(u)]], shares[u[Len(u)]], "created")
                         [] OTHER -> threads[u]
<1>1. Len(groups) = m /\ DOMAIN groups = 1 .. m /\ 1 .. m \subseteq Nat
  OBVIOUS
<1>2. threads' = [u \in DOMAIN threads \cup New |-> After(u)]
  BY <1>1 DEF Start
<1>3. After(t) = [threads[t] EXCEPT !.state = "starting", !.at = 0, !.children = m]
  BY <1>1
<1>4. ASSUME NEW k \in 1 .. m
      PROVE  After(Child(t, k)) = Thread(groups[k], shares[k], "created")
  <2>1. k \in Nat
    OBVIOUS
  <2>2. Child(t, k) # t /\ Child(t, k)[Len(Child(t, k))] = k
    <3> HIDE DEF After, New
    <3>1. Child(t, k) # t /\ Len(Child(t, k)) = Len(t) + 1 /\ Child(t, k)[Len(t) + 1] = k
      BY <2>1, ChildName
    <3> QED BY <3>1
  <2> QED BY <1>1, <2>2
<1>5. ASSUME NEW u \in DOMAIN threads, u # t, u \notin New
      PROVE  After(u) = threads[u]
  BY <1>1, <1>5
<1> HIDE DEF After
<1> QED BY <1>2, <1>3, <1>4, <1>5 DEF Started

\* The threads of a call of run are created.
LEMMA ChildrenCreated ==
  ASSUME Threads, NEW t \in DOMAIN threads, threads[t].state = "running",
         threads[t].todo # <<>>, UNCHANGED program,
         NEW m \in Nat \ {0}, NEW groups \in [1 .. m -> Seq(Runnables)],
         NEW shares \in [1 .. m -> Nat \ {0}], Start(t, groups, shares)
  PROVE  Threads'
<1> DEFINE New == {Child(t, k) : k \in 1 .. m}
<1>1. /\ IsThread(threads[t]) /\ Family(threads[t], States(t))
      /\ t \in Seq(Nat) /\ Len(t) \in Nat /\ DOMAIN threads \subseteq Seq(Nat)
  BY DEF Threads, Tree
<1>2. Len(groups) = m /\ DOMAIN groups = 1 .. m /\ 1 .. m \subseteq Places /\ Places \subseteq Nat
  BY DEF Places
<1>3. ASSUME NEW k \in Places
      PROVE  /\ Child(t, k) \in Seq(Nat) /\ Len(Child(t, k)) = Len(t) + 1
             /\ Child(t, k)[Len(Child(t, k))] = k
             /\ Child(t, k) # t /\ Child(t, k) # Main
             /\ Child(t, k) \in New <=> k <= m
  <2>1. k \in Nat
    BY DEF Places
  <2>2. \A l \in 1 .. m : Child(t, k) = Child(t, l) => k = l
    BY <1>1, <2>1, ChildInjective
  <2>3. Child(t, k) \in New <=> k \in 1 .. m
    BY <2>2
  <2>4. k \in 1 .. m <=> k <= m
    BY DEF Places
  <2> HIDE DEF New
  <2>5. Child(t, k) \in New <=> k <= m
    BY <2>3, <2>4
  <2>6. /\ Child(t, k) \in Seq(Nat) /\ Len(Child(t, k)) = Len(t) + 1
        /\ Child(t, k)[Len(t) + 1] = k
        /\ Child(t, k) # t /\ Child(t, k) # Main
    BY <1>1, <2>1, ChildName
  <2> QED BY <2>5, <2>6
<1>4. PICK self : self = [threads[t] EXCEPT !.state = "starting", !.at = 0, !.children = m]
  OBVIOUS
<1>5. /\ DOMAIN threads' = DOMAIN threads \cup New /\ threads'[t] = self
      /\ \A k \in 1 .. m : threads'[Child(t, k)] = Thread(groups[k], shares[k], "created")
      /\ \A u \in DOMAIN threads : u # t /\ u \notin New => threads'[u] = threads[u]
      /\ threads' = [u \in DOMAIN threads' |-> threads'[u]]
  <2>1. Started(t, m, groups, shares)
    BY <1>1, StartOutcome
  <2> QED BY <1>4, <2>1 DEF Started
<1> HIDE DEF New
<1>6. IsThread(self) /\ self.state = "starting" /\ self.at = 0 /\ self.children = m
  BY <1>1, <1>4 DEF IsThread, Active
<1>7. \A u \in New : \E k \in 1 .. m : u = Child(t, k)
  BY DEF New
<1>8. ASSUME NEW k \in 1 .. m
      PROVE  /\ IsThread(Thread(groups[k], shares[k], "created"))
             /\ Thread(groups[k], shares[k], "created").state = "created"
  BY DEF IsThread, Thread
<1>9. ASSUME NEW u \in DOMAIN threads'
      PROVE  IsThread(threads[u])'
  <2>1. IsThread(threads'[u])
    BY <1>5, <1>6, <1>7, <1>8 DEF Threads
  <2> QED BY <2>1 DEF IsThread, Runnables
<1>10. Tree'
  <2>1. Main \in DOMAIN threads' /\ ~ Is(Main, "created")'
    <3>1. Main \notin New
      BY <1>2, <1>3, <1>7
    <3> QED BY <1>5, <1>6, <3>1 DEF Threads, Tree, Is
  <2>2. New \subseteq Seq(Nat)
    BY <1>2, <1>3, <1>7
  <2>3. IsFiniteSet(New)
    <3>1. IsFiniteSet(1 .. m)
      <4>1. 1 \in Int /\ m \in Int
        OBVIOUS
      <4> QED BY <4>1, FS_Interval
    <3> DEFINE f == [k \in 1 .. m |-> Child(t, k)]
    <3>2. f \in Surjection(1 .. m, New)
      BY DEF New, Surjection
    <3> QED BY <3>1, <3>2, FS_Surjection DEF ExistsSurjection
  <2>4. IsFiniteSet(DOMAIN threads')
    <3>1. IsFiniteSet(DOMAIN threads)
      BY DEF Threads, Tree
    <3>2. IsFiniteSet(DOMAIN threads \cup New)
      BY <2>3, <3>1, FS_Union
    <3> QED BY <1>5, <3>2
  <2>5. \A u \in New : \E k \in Places : u = Child(t, k)
    BY <1>2, <1>7
  <2> QED BY <1>5, <2>1, <2>2, <2>4, <2>5 DEF Threads, Tree
<1>11. Family(threads[t], States(t))'
  <2>1. ASSUME NEW l \in Places
        PROVE  States(t)'[l] = IF l <= m THEN "created" ELSE States(t)[l]
    <3>1. l <= m <=> l \in 1 .. m
      BY DEF Places
    <3> QED BY <1>3, <1>5, <1>8, <3>1 DEF States, StateAt
  <2>2. \A l \in Places : States(t)[l] \in {"none", "terminated"}
    BY <1>1 DEF Family
  <2> DEFINE now == States(t)'
  <2>3. \A l \in Places : IF l <= m THEN now[l] = "created" ELSE now[l] \in {"none", "terminated"}
    BY <2>1, <2>2
  <2> HIDE DEF now
  <2>4. \A l \in Places : ~ l <= 0 /\ (l > m <=> ~ l <= m)
    BY DEF Places
  <2>5. Family(self, now)
    BY <1>6, <2>3, <2>4 DEF Family
  <2> QED BY <1>5, <2>5 DEF now
<1>12. ASSUME NEW k \in 1 .. m, NEW c, c = Child(t, k)
       PROVE  Family(threads[c], States(c))'
  <2>1. k \in Places /\ c \in Seq(Nat) /\ Len(c) = Len(t) + 1
    BY <1>2, <1>3, <1>12
  <2>2. ASSUME NEW l \in Places
        PROVE  States(c)'[l] \in {"none", "terminated"}
    <3> DEFINE d == Child(c, l)
    <3>1. d \in Seq(Nat) /\ Len(d) = Len(t) + 2 /\ d # Main
      <4>1. l \in Nat
        BY DEF Places
      <4>2. d \in Seq(Nat) /\ Len(d) = Len(c) + 1 /\ d # Main
        BY <2>1, <4>1, ChildName
      <4> HIDE DEF d
      <4> QED BY <1>1, <2>1, <4>2
    <3>2. d # t /\ d \notin New
      <4> HIDE DEF d
      <4>1. ASSUME NEW j \in 1 .. m
            PROVE  d # Child(t, j)
        <5>1. Len(Child(t, j)) = Len(t) + 1
          BY <1>2, <1>3
        <5> QED BY <1>1, <3>1, <5>1
      <4>2. d # t
        BY <1>1, <3>1
      <4> QED BY <1>7, <4>1, <4>2
    <3>3. CASE d \notin DOMAIN threads
      BY <1>5, <3>2, <3>3 DEF States, StateAt
    <3>4. CASE d \in DOMAIN threads
      <4>1. PICK p \in DOMAIN threads, q \in Places : d = Child(p, q)
        BY <3>1, <3>4 DEF Threads, Tree
      <4>2. p = c /\ q = l
        BY <1>1, <1>2, <2>1, <4>1, ChildInjective
      <4>3. c \in DOMAIN threads
        BY <4>2
      <4>4. threads[c].state = States(t)[k]
        BY <1>12, <2>1, <4>3 DEF States, StateAt
      <4>5. threads[c].state \in {"none", "terminated"}
        BY <1>1, <2>1, <4>4 DEF Family
      <4>6. Family(threads[c], States(c))
        BY <4>3 DEF Threads
      <4>7. States(c)[l] \in {"none", "terminated"}
        BY <4>5, <4>6 DEF Family
      <4>8. States(c)'[l] = States(c)[l]
        BY <1>5, <3>2, <3>4 DEF States, StateAt
      <4> QED BY <4>7, <4>8
    <3> QED BY <3>3, <3>4
  <2> DEFINE now == States(c)'
  <2>3. \A l \in Places : now[l] \in {"none", "terminated"}
    BY <2>2
  <2> HIDE DEF now
  <2>4. threads'[c].state = "created"
    BY <1>5, <1>8, <1>12
  <2>5. Family(threads'[c], now)
    BY <2>3, <2>4 DEF Family
  <2> QED BY <2>5 DEF now
<1>13. ASSUME NEW u \in DOMAIN threads, u # t, u \notin New
       PROVE  Family(threads[u], States(u))'
  <2>1. ASSUME NEW l \in Places
        PROVE  \/ States(u)'[l] = States(u)[l]
               \/ States(u)[l] \in Active /\ States(u)'[l] \in Active \cup {"terminated"}
    <3>1. Child(u, l) \notin New
      <4>1. \A k \in 1 .. m : Child(u, l) # Child(t, k)
        BY <1>1, <1>2, <1>13, ChildInjective
      <4> QED BY <1>7, <4>1
    <3>2. CASE Child(u, l) # t
      BY <1>5, <3>1, <3>2 DEF States, StateAt
    <3>3. CASE Child(u, l) = t
      <4>1. States(u)[l] = "running" /\ States(u)'[l] = "starting"
        BY <1>5, <1>6, <3>3 DEF States, StateAt
      <4> QED BY <4>1 DEF Active
    <3> QED BY <3>2, <3>3
  <2> QED BY <1>5, <1>13, <2>1, FamilyKept
<1>14. \A u \in DOMAIN threads' : Family(threads[u], States(u))'
  <2>1. ASSUME NEW u \in New
        PROVE  Family(threads[u], States(u))'
    <3>1. PICK k \in 1 .. m : u = Child(t, k)
      BY <1>7
    <3> QED BY <1>12, <3>1
  <2> QED BY <1>5, <1>11, <1>13, <2>1
<1> QED BY <1>5, <1>9, <1>10, <1>14 DEF Threads

LEMMA RunKeeps ==
  ASSUME Threads, NEW t \in DOMAIN threads, Run(t)
  PROVE  Threads'
<1>1. /\ threads[t].state = "running" /\ threads[t].todo # <<>> /\ UNCHANGED program
      /\ IsThread(threads[t]) /\ Family(threads[t], States(t))
  BY DEF Run, Is, Threads
<1>2. PICK r : r = Head(threads[t].todo)
  OBVIOUS
<1>3. PICK n : n = threads[t].n_processors
  OBVIOUS
<1>4. /\ r \in Runnables /\ Tail(threads[t].todo) \in Seq(Runnables) /\ n \in Nat \ {0}
  <2>1. threads[t].todo \in Seq(Runnables) /\ n \in Nat \ {0}
    BY <1>1, <1>3 DEF IsThread
  <2> QED BY <1>1, <1>2, <2>1
<1>5. PICK ks : ks = kids(r)
  OBVIOUS
<1>6. ks \in Seq(Runnables) /\ ks # <<>> /\ (r \in program.pairs => Len(ks) = 2)
  BY <1>2, <1>4, <1>5, ProgramsAssumption DEF Run, Threads, Runnables, kids
<1>7. PICK alone : alone = [k \in DOMAIN ks |-> <<ks[k]>>]
  OBVIOUS
<1>8. PICK m : m = Len(ks)
  OBVIOUS
<1>9. m \in Nat \ {0} /\ alone \in [1 .. m -> Seq(Runnables)]
  BY <1>6, <1>7, <1>8
<1>10. \/ r \in program.pairs /\ Start(t, alone, PairShares(n))
       \/ /\ r \in program.pairs
          /\ Become(t, [threads[t] EXCEPT !.todo = ks \o Tail(@)])
       \/ r \notin program.pairs /\ Start(t, alone, Shares(n, m))
       \/ r \notin program.pairs /\ Start(t, Groups(ks, n), Shares(n, n))
  <2>1. (n > 1 \/ n <= 1) /\ (n >= m \/ n < m)
    BY <1>4, <1>9
  <2> QED BY <1>2, <1>3, <1>5, <1>7, <1>8, <2>1 DEF Run
<1>11. CASE r \in program.pairs /\ Start(t, alone, PairShares(n))
  <2>1. m = 2
    BY <1>6, <1>8, <1>11
  <2>2. PairShares(n) \in [1 .. 2 -> Nat \ {0}]
    <3>1. PairShares(n)[1] \in Nat \ {0} /\ PairShares(n)[2] \in Nat \ {0}
      BY <1>4, PairSharesPositive
    <3>2. \E a, b : PairShares(n) = <<a, b>>
      BY DEF PairShares
    <3>3. PICK a, b : PairShares(n) = <<a, b>>
      BY <3>2
    <3> QED BY <3>1, <3>3
  <2> QED BY <1>1, <1>9, <1>11, <2>1, <2>2, ChildrenCreated
<1>12. CASE Become(t, [threads[t] EXCEPT !.todo = ks \o Tail(@)])
  <2>1. PICK self : self = [threads[t] EXCEPT !.todo = ks \o Tail(@)]
    OBVIOUS
  <2>2. IsThread(self) /\ self.state = "running"
    <3>1. ks \o Tail(threads[t].todo) \in Seq(Runnables)
      BY <1>4, <1>6
    <3> QED BY <1>1, <2>1, <3>1 DEF IsThread
  <2>3. Family(self, States(t))
    BY <1>1, <2>2 DEF Family
  <2> QED BY <1>1, <1>12, <2>1, <2>2, <2>3, OneChanges DEF Active
<1>13. CASE Start(t, alone, Shares(n, m))
  BY <1>1, <1>4, <1>9, <1>13, SharesPositive, ChildrenCreated
<1>14. CASE Start(t, Groups(ks, n), Shares(n, n))
  <2>1. Groups(ks, n) \in [1 .. n -> Seq(Runnables)] /\ Shares(n, n) \in [1 .. n -> Nat \ {0}]
    BY <1>4, <1>6, GroupsOfList, SharesPositive
  <2>2. PICK groups : groups = Groups(ks, n)
    OBVIOUS
  <2>3. PICK shares : shares = Shares(n, n)
    OBVIOUS
  <2> QED BY <1>1, <1>4, <1>14, <2>1, <2>2, <2>3, ChildrenCreated
<1> QED BY <1>10, <1>11, <1>12, <1>13, <1>14

LEMMA JobKeeps ==
  ASSUME Threads, NEW t \in DOMAIN threads, Job(t)
  PROVE  Threads'
<1>1. /\ threads[t].state = "running" /\ threads[t].todo # <<>> /\ UNCHANGED program
      /\ IsThread(threads[t]) /\ Family(threads[t], States(t))
  BY DEF Job, Is, Threads
<1>2. PICK r : r = Head(threads[t].todo)
  OBVIOUS
<1>3. r \in Runnables /\ Tail(threads[t].todo) \in Seq(Runnables)
  <2>1. threads[t].todo \in Seq(Runnables)
    BY <1>1 DEF IsThread
  <2> QED BY <1>1, <1>2, <2>1
<1>4. PICK self : self = IF r \in failing THEN [threads[t] EXCEPT !.todo = <<>>, !.exception = r]
                         ELSE [threads[t] EXCEPT !.todo = Tail(@)]
  OBVIOUS
<1>5. Become(t, self)
  BY <1>2, <1>4 DEF Job
<1>6. IsThread(self) /\ self.state = "running"
  <2>1. CASE r \in failing
    <3>1. <<>> \in Seq(Runnables)
      OBVIOUS
    <3> QED BY <1>1, <1>3, <1>4, <2>1, <3>1 DEF IsThread
  <2>2. CASE r \notin failing
    BY <1>1, <1>3, <1>4, <2>2 DEF IsThread
  <2> QED BY <2>1, <2>2
<1>7. Family(self, States(t))
  BY <1>1, <1>6 DEF Family
<1> QED BY <1>1, <1>5, <1>6, <1>7, OneChanges DEF Active

LEMMA ExitKeeps ==
  ASSUME Threads, NEW t \in DOMAIN threads, Exit(t)
  PROVE  Threads'
<1>1. /\ threads[t].state = "running" /\ UNCHANGED program
      /\ IsThread(threads[t]) /\ Family(threads[t], States(t))
  BY DEF Exit, Is, Threads
<1>2. PICK self : self = [threads[t] EXCEPT !.state = "terminated"]
  OBVIOUS
<1>3. IsThread(self) /\ self.state = "terminated"
  BY <1>1, <1>2 DEF IsThread
<1>4. Family(self, States(t))
  BY <1>1, <1>3 DEF Family
<1> QED BY <1>1, <1>2, <1>3, <1>4, OneChanges DEF Active, Exit

LEMMA JoinThreadKeeps ==
  ASSUME Threads, NEW t \in DOMAIN threads, JoinThread(t)
  PROVE  Threads'
<1>1. /\ threads[t].state = "joining" /\ UNCHANGED program /\ t \in Seq(Nat)
      /\ IsThread(threads[t]) /\ Family(threads[t], States(t))
  BY DEF JoinThread, Is, Threads, Tree
<1>2. PICK self : self = [threads[t] EXCEPT !.at = @ + 1]
  OBVIOUS
<1>3. PICK k \in Places : k = threads[t].at + 1
  BY <1>1 DEF IsThread, Places
<1>4. /\ IsThread(self) /\ self.state = "joining" /\ self.at = k
      /\ self.children = threads[t].children
  BY <1>1, <1>2, <1>3 DEF IsThread, Places
<1>5. /\ threads[t].at \in Nat /\ threads[t].children \in Nat /\ k \in Nat
      /\ threads[t].at < threads[t].children
  BY <1>1, <1>3 DEF IsThread, JoinThread, Places
<1>6. States(t)[k] = "terminated"
  <2>1. States(t)[k] \in Active \cup {"terminated"}
    BY <1>1, <1>3, <1>5 DEF Family
  <2>2. Child(t, k) \in DOMAIN threads
    BY <2>1 DEF States, StateAt, Active
  <2> QED BY <1>3, <2>2 DEF JoinThread, Is, States, StateAt
<1>7. Family(self, States(t))
  <2>1. \A l \in Places : l <= k => l <= threads[t].at \/ l = k
    BY <1>3, <1>5 DEF Places
  <2>2. k <= threads[t].children
    BY <1>3, <1>5
  <2> QED BY <1>1, <1>4, <1>6, <2>1, <2>2 DEF Family
<1> QED BY <1>1, <1>2, <1>4, <1>7, OneChanges DEF Active, JoinThread

LEMMA RethrowKeeps ==
  ASSUME Threads, NEW t \in DOMAIN threads, Rethrow(t)
  PROVE  Threads'
<1>1. /\ threads[t].state = "joining" /\ threads[t].at = threads[t].children
      /\ UNCHANGED program /\ t \in Seq(Nat)
      /\ IsThread(threads[t]) /\ Family(threads[t], States(t))
  BY DEF Rethrow, Is, Threads, Tree
<1>2. PICK thrown : thrown = {k \in 1 .. threads[t].children :
                                threads[Child(t, k)].exception # NoException}
  OBVIOUS
<1>3. PICK first : first = CHOOSE k \in thrown : \A l \in thrown : k <= l
  OBVIOUS
<1>4. PICK self : self = IF thrown = {}
                         THEN [threads[t] EXCEPT !.state = "running", !.todo = Tail(@)]
                         ELSE [threads[t] EXCEPT !.state = "running", !.todo = <<>>,
                                 !.exception = threads[Child(t, first)].exception]
  OBVIOUS
<1>5. Become(t, self)
  BY <1>2, <1>3, <1>4 DEF Rethrow
<1>6. threads[t].children \in Nat /\ threads[t].todo \in Seq(Runnables) /\ threads[t].todo # <<>>
  BY <1>1 DEF IsThread
<1>7. IsThread(self) /\ self.state = "running"
  <2>1. CASE thrown = {}
    <3>1. Tail(threads[t].todo) \in Seq(Runnables)
      BY <1>6
    <3> QED BY <1>1, <1>4, <2>1, <3>1 DEF IsThread, Active
  <2>2. CASE thrown # {}
    <3>1. thrown \in SUBSET Nat
      BY <1>2, <1>6
    <3>2. first \in thrown
      BY <1>3, <2>2, <3>1, Means!LeastElement
    <3>3. first \in Places /\ first <= threads[t].children
      BY <1>2, <1>6, <3>2 DEF Places
    <3>4. States(t)[first] # "none"
      BY <1>1, <3>3 DEF Family, Active
    <3>5. Child(t, first) \in DOMAIN threads
      BY <3>3, <3>4 DEF States, StateAt
    <3>6. threads[Child(t, first)].exception \in Runnables \cup {NoException}
      BY <3>5 DEF Threads, IsThread
    <3>7. <<>> \in Seq(Runnables)
      OBVIOUS
    <3> QED BY <1>1, <1>4, <2>2, <3>6, <3>7 DEF IsThread, Active
  <2> QED BY <2>1, <2>2
<1>8. \A k \in Places : States(t)[k] \in {"none", "terminated"}
  <2>1. \A k \in Places : k <= threads[t].children \/ k > threads[t].children
    BY <1>6 DEF Places
  <2> QED BY <1>1, <2>1 DEF Family
<1>9. Family(self, States(t))
  BY <1>7, <1>8 DEF Family
<1> QED BY <1>1, <1>5, <1>7, <1>9, OneChanges DEF Active

LEMMA ThreadsInvariant == Spec => []Threads
<1>1. Init => Threads
  BY InitThreads
<1>2. Threads /\ [Next]_vars => Threads'
  <2> SUFFICES ASSUME Threads, [Next]_vars PROVE Threads'
    OBVIOUS
  <2>1. ASSUME NEW t \in DOMAIN threads, Step(t)
        PROVE  Threads'
    BY <2>1, RunKeeps, JobKeeps, StartThreadKeeps, ExitKeeps, JoinThreadKeeps, RethrowKeeps DEF Step
  <2>2. CASE UNCHANGED vars
    BY <2>2 DEF vars, Threads, Tree, Is, IsThread, Runnables, Family, States, StateAt
  <2> QED BY <2>1, <2>2 DEF Next
<1> QED BY <1>1, <1>2, PTL DEF Spec
-----------------------------------------------------------------------------
(* What follows from it.                                                   *)

LEMMA Extremes ==
  ASSUME NEW A, IsFiniteSet(A), A \subseteq Seq(Nat), A # {}
  PROVE  /\ \E t \in A : \A u \in A : Len(t) <= Len(u)
         /\ \E t \in A : \A u \in A : Len(u) <= Len(t)
<1>1. \A t \in A : Len(t) \in Nat
  OBVIOUS
<1>2. \E t \in A : \A u \in A : Len(t) <= Len(u)
  <2> DEFINE L == {Len(t) : t \in A}
  <2>1. L \in SUBSET Nat /\ L # {}
    BY <1>1
  <2>2. PICK l \in L : \A n \in L : l <= n
    BY <2>1, Means!LeastElement
  <2> QED BY <2>2
<1>3. \E t \in A : \A u \in A : Len(u) <= Len(t)
  <2> DEFINE Longer(t) == {u \in A : Len(u) > Len(t)}
             T == {Longer(t) : t \in A}
  <2>1. T \in SUBSET (SUBSET A) /\ T # {}
    OBVIOUS
  <2>2. PICK U \in T : \A V \in T : V \subseteq U => V = U
    <3> HIDE DEF T
    <3>1. Means!IsFiniteSet(A)
      BY DEF IsFiniteSet, Means!IsFiniteSet
    <3> QED BY <2>1, <3>1, Means!MinimalSubset
  <2>3. PICK t \in A : U = Longer(t)
    OBVIOUS
  <2>4. ASSUME NEW u \in A, Len(u) > Len(t)
        PROVE  FALSE
    <3>1. Longer(u) \subseteq Longer(t) /\ u \in Longer(t) /\ u \notin Longer(u)
      BY <1>1, <2>4
    <3> QED BY <2>2, <2>3, <3>1
  <2> QED BY <1>1, <2>4
<1> QED BY <1>2, <1>3

\* When the outermost call is over, every thread it or its callees have created
\* has ended: no exception lets a run return without its joins.
THEOREM NothingLeftRunning ==
  Spec => [](Is(Main, "terminated") => \A t \in DOMAIN threads : Is(t, "terminated"))
<1>1. ASSUME Threads, Is(Main, "terminated"), NEW v \in DOMAIN threads, ~ Is(v, "terminated")
      PROVE  FALSE
  <2> DEFINE A == {t \in DOMAIN threads : ~ Is(t, "terminated")}
  <2>1. A \subseteq Seq(Nat) /\ A # {} /\ IsFiniteSet(A)
    <3>1. A \in SUBSET DOMAIN threads
      OBVIOUS
    <3> QED BY <1>1, <3>1, FS_Subset DEF Threads, Tree
  <2>2. PICK u \in A : \A t \in A : Len(u) <= Len(t)
    <3> HIDE DEF A
    <3> QED BY <2>1, Extremes
  <2>3. PICK t \in DOMAIN threads, k \in Places : u = Child(t, k)
    BY <1>1, <2>2 DEF Threads, Tree
  <2>4. Len(u) = Len(t) + 1 /\ Len(t) \in Nat
    BY <1>1, <2>3, ChildName DEF Threads, Tree, Places
  <2>5. t \notin A
    BY <2>2, <2>4
  <2>6. threads[t].state = "terminated" /\ Family(threads[t], States(t))
    BY <1>1, <2>5 DEF Is, Threads
  <2>7. States(t)[k] \in {"none", "terminated"}
    BY <2>6 DEF Family
  <2>8. States(t)[k] = threads[u].state
    BY <2>3 DEF States, StateAt
  <2>9. threads[u].state # "none"
    BY <1>1 DEF Threads, IsThread, Active
  <2> QED BY <2>7, <2>8, <2>9 DEF Is
<1>2. Threads => (Is(Main, "terminated") => \A t \in DOMAIN threads : Is(t, "terminated"))
  BY <1>1
<1> QED BY <1>2, ThreadsInvariant, PTL

\* The thread has something to do that waits for no other one.
CanGoOn(t) ==
  \/ Is(t, "running")
  \/ Is(t, "starting") /\ Child(t, threads[t].at + 1) \in DOMAIN threads
  \/ Is(t, "joining") /\ threads[t].at = threads[t].children
  \/ Is(t, "joining") /\ Is(Child(t, threads[t].at + 1), "terminated")

\* However the calls are nested and whatever fails, threads never wait for each
\* other all at once: until the outermost call is over one of them can go on.
THEOREM SomeThreadGoesOn ==
  Spec => [](Is(Main, "terminated") \/ \E t \in DOMAIN threads : CanGoOn(t))
<1>1. ASSUME Threads, ~ Is(Main, "terminated")
      PROVE  \E t \in DOMAIN threads : CanGoOn(t)
  <2> DEFINE A == {t \in DOMAIN threads : threads[t].state \in Active}
  <2>1. A \subseteq Seq(Nat) /\ A # {} /\ IsFiniteSet(A)
    <3>1. A \in SUBSET DOMAIN threads
      OBVIOUS
    <3>2. Main \in A
      BY <1>1 DEF Threads, Tree, IsThread, Is
    <3> QED BY <1>1, <3>1, <3>2, FS_Subset DEF Threads, Tree
  <2>2. PICK t \in A : \A u \in A : Len(u) <= Len(t)
    <3> HIDE DEF A
    <3> QED BY <2>1, Extremes
  <2>3. IsThread(threads[t]) /\ Family(threads[t], States(t)) /\ t \in Seq(Nat)
    BY <1>1 DEF Threads, Tree
  <2>4. PICK k \in Places : k = threads[t].at + 1
    BY <2>3 DEF IsThread, Places
  <2>5. threads[t].at \in Nat /\ threads[t].children \in Nat /\ k \in Nat
    BY <2>3 DEF IsThread, Places
  <2>6. CASE threads[t].state = "running"
    BY <2>6 DEF CanGoOn, Is
  <2>7. CASE threads[t].state = "starting"
    <3>1. k <= threads[t].children /\ k > threads[t].at
      BY <2>3, <2>4, <2>5, <2>7 DEF Family
    <3>2. States(t)[k] = "created"
      BY <2>3, <2>7, <3>1 DEF Family
    <3>3. Child(t, k) \in DOMAIN threads
      BY <3>2 DEF States, StateAt
    <3> QED BY <2>4, <2>7, <3>3 DEF CanGoOn, Is
  <2>8. CASE threads[t].state = "joining" /\ threads[t].at = threads[t].children
    BY <2>8 DEF CanGoOn, Is
  <2>9. CASE threads[t].state = "joining" /\ threads[t].at # threads[t].children
    <3>1. k <= threads[t].children
      BY <2>3, <2>4, <2>5, <2>9 DEF Family
    <3>2. States(t)[k] \in Active \cup {"terminated"}
      BY <2>3, <2>9, <3>1 DEF Family
    <3>3. Child(t, k) \in DOMAIN threads /\ States(t)[k] = threads[Child(t, k)].state
      BY <3>2 DEF States, StateAt, Active
    <3>4. Len(Child(t, k)) = Len(t) + 1 /\ Len(t) \in Nat
      BY <2>3, <2>5, ChildName
    <3>5. Child(t, k) \notin A
      BY <2>2, <3>4
    <3>6. threads[Child(t, k)].state = "terminated"
      BY <3>2, <3>3, <3>5
    <3> QED BY <2>4, <2>9, <3>6 DEF CanGoOn, Is
  <2> QED BY <2>6, <2>7, <2>8, <2>9 DEF Active
<1>2. Threads => Is(Main, "terminated") \/ \E t \in DOMAIN threads : CanGoOn(t)
  BY <1>1
<1> QED BY <1>2, ThreadsInvariant, PTL
-----------------------------------------------------------------------------
(* Processors.  Every thread that has not ended is given consecutive       *)
(* processors: those of a child are among those of its parent, those of    *)
(* siblings are different.                                                 *)

Live == {t \in DOMAIN threads : threads[t].state # "terminated"}
Procs(t) == threads[t].n_processors
\* u calls v, perhaps through other threads.
Above(u, v) == Len(u) < Len(v) /\ \A i \in 1 .. Len(u) : v[i] = u[i]
Within(f, u, v) == f[u] <= f[v] /\ f[v] + Procs(v) <= f[u] + Procs(u)
Apart(f, u, v) == f[u] + Procs(u) <= f[v] \/ f[v] + Procs(v) <= f[u]

\* Processors f[t] + 1 and following are those of t; the last one of a thread
\* that starts its children is one of those of its last child.
Placed(f) ==
  /\ f \in [Live -> Nat]
  /\ \A u, v \in Live :
       /\ Above(u, v) => Within(f, u, v)
       /\ u # v /\ ~ Above(u, v) /\ ~ Above(v, u) => Apart(f, u, v)
  /\ \A u \in Live : threads[u].state = "starting" =>
       LET z == Child(u, threads[u].children) IN f[z] + Procs(z) = f[u] + Procs(u)
Rooted == \A v \in Live, u \in Seq(Nat) : Above(u, v) => u \in Live
Shared == Rooted /\ \E f : Placed(f)

LEMMA AboveChild ==
  ASSUME NEW t \in Seq(Nat), NEW k \in Nat, NEW u \in Seq(Nat)
  PROVE  Above(u, Child(t, k)) <=> u = t \/ Above(u, t)
<1> DEFINE c == Child(t, k)
<1>1. /\ Len(c) = Len(t) + 1 /\ Len(t) \in Nat /\ Len(u) \in Nat
      /\ \A i \in 1 .. Len(t) : c[i] = t[i]
  BY ChildName
<1> HIDE DEF c
<1>2. ASSUME Above(u, c), Len(u) = Len(t)
      PROVE  u = t
  <2>1. \A i \in 1 .. Len(t) : u[i] = t[i]
    BY <1>1, <1>2 DEF Above
  <2> QED BY <1>2, <2>1, SeqEqual
<1>3. Above(u, c) => u = t \/ Above(u, t)
  <2> SUFFICES ASSUME Above(u, c), u # t PROVE Above(u, t)
    OBVIOUS
  <2>1. Len(u) < Len(t)
    BY <1>1, <1>2 DEF Above
  <2> QED BY <1>1, <2>1 DEF Above
<1>4. u = t \/ Above(u, t) => Above(u, c)
  BY <1>1 DEF Above
<1> QED BY <1>3, <1>4 DEF c

LEMMA ChildTowards ==
  ASSUME NEW u \in Seq(Nat), NEW v \in Seq(Nat), Above(u, v)
  PROVE  \E k \in Nat : v = Child(u, k) \/ Above(Child(u, k), v)
<1>1. Len(u) \in Nat /\ Len(v) \in Nat /\ Len(u) < Len(v)
  BY DEF Above
<1>2. v[Len(u) + 1] \in Nat
  BY <1>1
<1> DEFINE k == v[Len(u) + 1]
           c == Child(u, k)
<1>3. /\ c \in Seq(Nat) /\ Len(c) = Len(u) + 1 /\ c[Len(u) + 1] = k
      /\ \A i \in 1 .. Len(u) : c[i] = u[i]
  BY <1>2, ChildName
<1> HIDE DEF c
<1>4. \A i \in 1 .. Len(c) : v[i] = c[i]
  <2>1. \A i \in 1 .. Len(c) : i \in 1 .. Len(u) \/ i = Len(u) + 1
    BY <1>1, <1>3
  <2> QED BY <1>3, <2>1 DEF Above
<1>5. CASE Len(c) = Len(v)
  BY <1>2, <1>3, <1>4, <1>5, SeqEqual DEF c
<1>6. CASE Len(c) < Len(v)
  BY <1>2, <1>4, <1>6 DEF Above, c
<1> QED BY <1>1, <1>3, <1>5, <1>6

LEMMA AboveIsOrder ==
  ASSUME NEW u \in Seq(Nat), NEW v \in Seq(Nat), NEW w \in Seq(Nat), Above(u, v), Above(v, w)
  PROVE  Above(u, w) /\ ~ Above(v, u) /\ u # v
BY DEF Above

LEMMA ChildPlace ==
  ASSUME Threads, NEW t \in Seq(Nat), NEW k \in Nat, Child(t, k) \in DOMAIN threads
  PROVE  k \in Places
<1>1. Child(t, k) # Main
  BY ChildName
<1>2. PICK p \in DOMAIN threads, q \in Places : Child(t, k) = Child(p, q)
  BY <1>1 DEF Threads, Tree
<1>3. q \in Nat /\ p \in Seq(Nat)
  BY DEF Threads, Tree, Places
<1> QED BY <1>2, <1>3, ChildInjective

\* A thread with work of its own calls no other one.
LEMMA NoneBelow ==
  ASSUME Threads, Rooted, NEW t \in Live, threads[t].state \notin {"starting", "joining"},
         NEW v \in Live, Above(t, v)
  PROVE  FALSE
<1>1. t \in Seq(Nat) /\ v \in Seq(Nat) /\ t \in DOMAIN threads
  BY DEF Threads, Tree, Live
<1>2. PICK k \in Nat : v = Child(t, k) \/ Above(Child(t, k), v)
  BY <1>1, ChildTowards
<1>3. Child(t, k) \in Seq(Nat) /\ Child(t, k) # Main
  BY <1>1, <1>2, ChildName
<1>4. Child(t, k) \in Live
  BY <1>2, <1>3 DEF Rooted
<1>5. k \in Places
  BY <1>1, <1>4, ChildPlace DEF Live
<1>6. States(t)[k] \in {"none", "terminated"}
  BY <1>1, <1>5 DEF Threads, Family
<1>7. States(t)[k] = threads[Child(t, k)].state /\ threads[Child(t, k)].state # "none"
  BY <1>4, <1>5 DEF States, StateAt, Live, Threads, IsThread, Active
<1> QED BY <1>4, <1>6, <1>7 DEF Live

LEMMA InitShared == Init => Shared
<1> SUFFICES ASSUME Init PROVE Shared
  OBVIOUS
<1>1. PICK n \in Processors : threads = [t \in {Main} |-> Thread(<<1>>, n, "running")]
  BY DEF Init
<1>2. Live = {Main} /\ threads[Main].state = "running"
  BY <1>1 DEF Live, Thread
<1>3. Len(Main) = 0
  BY DEF Main
<1>4. \A u \in Seq(Nat) : ~ Above(u, Main)
  BY <1>3 DEF Above
<1>5. Placed([t \in {Main} |-> 0])
  BY <1>2, <1>3, <1>4 DEF Placed, Above
<1> QED BY <1>2, <1>4, <1>5 DEF Shared, Rooted

\* A thread that starts its children has its last child.
LEMMA LastChildLives ==
  ASSUME Threads, NEW u \in Live, threads[u].state = "starting"
  PROVE  /\ threads[u].children \in Places
         /\ Child(u, threads[u].children) \in Live
<1>1. /\ u \in DOMAIN threads /\ IsThread(threads[u]) /\ Family(threads[u], States(u))
  BY DEF Live, Threads
<1>2. PICK k : k = threads[u].children
  OBVIOUS
<1>3. k \in Places /\ k > threads[u].at /\ k <= k
  BY <1>1, <1>2 DEF Family, IsThread, Places
<1>4. States(u)[k] = "created"
  BY <1>1, <1>2, <1>3 DEF Family
<1> QED BY <1>2, <1>3, <1>4 DEF States, StateAt, Live

\* Steps that create and end no thread.
LEMMA SharedKept ==
  ASSUME Threads, Shared, Live' = Live, \A u \in Live : Procs(u)' = Procs(u),
         \A u \in Live : threads'[u].state = "starting" =>
           threads[u].state = "starting" /\ threads'[u].children = threads[u].children
  PROVE  Shared'
<1>1. PICK f : Placed(f)
  BY DEF Shared
<1>2. Placed(f)'
  <2>1. \A u, v \in Live : (Within(f, u, v)' <=> Within(f, u, v)) /\ (Apart(f, u, v)' <=> Apart(f, u, v))
    BY DEF Within, Apart
  <2>2. ASSUME NEW u \in Live, threads'[u].state = "starting", NEW z, z = Child(u, threads'[u].children)
        PROVE  f[z] + threads'[z].n_processors = f[u] + threads'[u].n_processors
    <3>1. threads[u].state = "starting" /\ z = Child(u, threads[u].children)
      BY <2>2
    <3>2. z \in Live
      BY <3>1, LastChildLives
    <3>3. f[z] + Procs(z) = f[u] + Procs(u)
      BY <1>1, <3>1 DEF Placed
    <3> QED BY <3>2, <3>3 DEF Procs
  <2>3. \A u \in Live' : threads'[u].state = "starting" =>
          LET z == Child(u, threads'[u].children)
          IN f[z] + threads'[z].n_processors = f[u] + threads'[u].n_processors
    BY <2>2
  <2>4. f \in [Live' -> Nat]
    BY <1>1 DEF Placed
  <2>5. \A u, v \in Live' :
          /\ Above(u, v) => Within(f, u, v)'
          /\ u # v /\ ~ Above(u, v) /\ ~ Above(v, u) => Apart(f, u, v)'
    BY <1>1, <2>1 DEF Placed
  <2> QED BY <2>3, <2>4, <2>5 DEF Placed, Procs
<1>3. Rooted'
  BY DEF Shared, Rooted
<1> QED BY <1>2, <1>3 DEF Shared

\* The processors of a thread are cut into those of its children.
Cut(off, shares, m, n) ==
  /\ \A k, l \in 1 .. m : k < l => off[k] + shares[k] <= off[l]
  /\ off[m] + shares[m] = n

LEMMA CutFits ==
  ASSUME NEW m \in Nat \ {0}, NEW n \in Nat, NEW shares \in [1 .. m -> Nat \ {0}],
         NEW off \in [1 .. m -> Nat], Cut(off, shares, m, n), NEW k \in 1 .. m
  PROVE  off[k] + shares[k] <= n
<1>1. m \in 1 .. m /\ off[m] \in Nat /\ shares[m] \in Nat /\ off[k] \in Nat /\ shares[k] \in Nat
  OBVIOUS
<1>2. k < m => off[k] + shares[k] <= off[m]
  BY <1>1 DEF Cut
<1> QED BY <1>1, <1>2 DEF Cut

LEMMA PairCut ==
  ASSUME NEW n \in Nat, n > 1
  PROVE  \E off \in [1 .. 2 -> Nat] : Cut(off, PairShares(n), 2, n)
<1>1. PICK a \in Nat : a = PairShares(n)[1] /\ a <= n /\ PairShares(n)[2] = n - a
  <2>1. CASE n > 2
    <3>1. n \div 2 \in Nat /\ n \div 2 <= n
      OBVIOUS
    <3> QED BY <2>1, <3>1 DEF PairShares
  <2>2. CASE n = 2
    BY <2>2 DEF PairShares
  <2> QED BY <2>1, <2>2
<1>2. Cut(<<0, a>>, PairShares(n), 2, n)
  <2>1. \A k, l \in 1 .. 2 : k < l => k = 1 /\ l = 2
    OBVIOUS
  <2> QED BY <1>1, <2>1 DEF Cut
<1> QED BY <1>2

LEMMA SharesCut ==
  ASSUME NEW n \in Nat \ {0}, NEW m \in Nat \ {0}, n >= m
  PROVE  \E off \in [1 .. m -> Nat] : Cut(off, Shares(n, m), m, n)
<1>1. CASE n = m
  <2> DEFINE off == [k \in 1 .. m |-> k - 1]
  <2>1. \A k \in 1 .. m : Shares(n, m)[k] = 1 /\ off[k] = k - 1
    BY <1>1 DEF Shares
  <2>2. off \in [1 .. m -> Nat]
    OBVIOUS
  <2> HIDE DEF off
  <2>3. Cut(off, Shares(n, m), m, n)
    BY <1>1, <2>1 DEF Cut
  <2> QED BY <2>2, <2>3
<1>2. CASE n > m
  <2>1. PICK q \in Nat, r \in Nat : q = n \div m /\ r = n % m /\ r < m /\ n = m * q + r
    <3>1. n \div m \in Nat
      BY Division
    <3>2. n % m \in Nat /\ n % m < m /\ n = m * (n \div m) + (n % m)
      BY Remainder
    <3> QED BY <3>1, <3>2
  <2> DEFINE first(k) == IF k <= r THEN k ELSE r
             end(k) == k * q + first(k)
             off == [k \in 1 .. m |-> end(k - 1)]
  <2>2. ASSUME NEW k \in 0 .. m
        PROVE  first(k) \in Nat /\ k * q \in Nat /\ end(k) \in Nat
    OBVIOUS
  <2>3. ASSUME NEW k \in 1 .. m
        PROVE  off[k] = end(k - 1) /\ off[k] + Shares(n, m)[k] = end(k)
    <3>1. off[k] = end(k - 1)
      OBVIOUS
    <3>2. Shares(n, m)[k] = q + (IF k <= r THEN 1 ELSE 0)
      BY <1>2, <2>1 DEF Shares
    <3>3. PICK j \in Nat : j = k - 1 /\ k = j + 1
      OBVIOUS
    <3>4. j * q \in Nat /\ k * q = j * q + q
      BY <3>3
    <3>5. first(k) = first(j) + (IF k <= r THEN 1 ELSE 0)
      BY <3>3
    <3>6. end(j) = j * q + first(j) /\ end(k) = k * q + first(k) /\ first(j) \in Nat
      OBVIOUS
    <3> HIDE DEF first, end, off
    <3> QED BY <3>1, <3>2, <3>3, <3>4, <3>5, <3>6
  <2>4. ASSUME NEW k \in 0 .. m, NEW l \in 0 .. m, k <= l
        PROVE  end(k) <= end(l)
    <3>1. PICK c \in Nat : l = k + c
      <4>1. l - k \in Nat /\ l = k + (l - k)
        BY <2>4
      <4> QED BY <4>1
    <3>2. k * q \in Nat /\ c * q \in Nat /\ l * q = k * q + c * q
      BY <3>1
    <3>3. first(k) <= first(l) /\ first(k) \in Nat /\ first(l) \in Nat
      BY <2>4
    <3>4. end(k) = k * q + first(k) /\ end(l) = l * q + first(l)
      OBVIOUS
    <3> HIDE DEF first, end
    <3> QED BY <3>2, <3>3, <3>4
  <2>5. end(m) = n
    <3>1. first(m) = r
      BY <2>1
    <3> QED BY <2>1, <3>1
  <2>6. off \in [1 .. m -> Nat]
    <3>1. \A k \in 1 .. m : k - 1 \in 0 .. m
      OBVIOUS
    <3> HIDE DEF end
    <3> QED BY <2>2, <3>1
  <2> HIDE DEF off, end, first
  <2>7. \A k, l \in 1 .. m : k < l => off[k] + Shares(n, m)[k] <= off[l]
    <3> TAKE k, l \in 1 .. m
    <3> HAVE k < l
    <3>1. k \in 0 .. m /\ l - 1 \in 0 .. m /\ k <= l - 1
      OBVIOUS
    <3> QED BY <2>3, <2>4, <3>1
  <2>8. m \in 1 .. m
    OBVIOUS
  <2>9. Cut(off, Shares(n, m), m, n)
    BY <2>3, <2>5, <2>7, <2>8 DEF Cut
  <2> QED BY <2>6, <2>9
<1> QED BY <1>1, <1>2

LEMMA StartShared ==
  ASSUME Threads, Shared, NEW t \in DOMAIN threads, threads[t].state = "running",
         NEW m \in Nat \ {0}, NEW groups \in [1 .. m -> Seq(Runnables)],
         NEW shares \in [1 .. m -> Nat \ {0}], Start(t, groups, shares),
         NEW off \in [1 .. m -> Nat], Cut(off, shares, m, threads[t].n_processors)
  PROVE  Shared'
<1> DEFINE New == {Child(t, k) : k \in 1 .. m}
<1>1. /\ t \in Seq(Nat) /\ t \in Live /\ Live \subseteq Seq(Nat) /\ Live \subseteq DOMAIN threads
      /\ \A u \in Live : Procs(u) \in Nat
  BY DEF Threads, Tree, Live, IsThread, Procs
<1>2. PICK f : Placed(f)
  BY DEF Shared
<1>3. f \in [Live -> Nat]
  BY <1>2 DEF Placed
<1>4. PICK n \in Nat : n = Procs(t)
  BY <1>1
<1>5. \A k \in 1 .. m : off[k] \in Nat /\ shares[k] \in Nat /\ off[k] + shares[k] <= n
  <2>1. Cut(off, shares, m, n)
    BY <1>4 DEF Procs
  <2> QED BY <2>1, CutFits
<1>6. \A u \in Live : ~ Above(t, u)
  BY <1>1, NoneBelow DEF Shared
<1>7. \A k \in 1 .. m : /\ Child(t, k) \in Seq(Nat) /\ Child(t, k)[Len(Child(t, k))] = k
                        /\ Len(Child(t, k)) = Len(t) + 1
                        /\ \A u \in Seq(Nat) : Above(u, Child(t, k)) <=> u = t \/ Above(u, t)
                        /\ Child(t, k) # t
  <2> TAKE k \in 1 .. m
  <2>1. k \in Nat
    OBVIOUS
  <2>2. Child(t, k) \in Seq(Nat) /\ Len(Child(t, k)) = Len(t) + 1 /\ Child(t, k)[Len(t) + 1] = k
        /\ Child(t, k) # t
    BY <1>1, <2>1, ChildName
  <2>3. \A u \in Seq(Nat) : Above(u, Child(t, k)) <=> u = t \/ Above(u, t)
    BY <1>1, <2>1, AboveChild
  <2> QED BY <2>2, <2>3
<1>8. \A k \in 1 .. m : Child(t, k) \notin Live
  BY <1>1, <1>6, <1>7
<1>9. /\ DOMAIN threads' = DOMAIN threads \cup New
      /\ threads'[t] = [threads[t] EXCEPT !.state = "starting", !.at = 0, !.children = m]
      /\ \A k \in 1 .. m : threads'[Child(t, k)] = Thread(groups[k], shares[k], "created")
      /\ \A u \in DOMAIN threads : u # t /\ u \notin New => threads'[u] = threads[u]
  <2>1. Started(t, m, groups, shares)
    BY <1>1, StartOutcome
  <2> QED BY <2>1 DEF Started
<1>10. \A k \in 1 .. m : Procs(Child(t, k))' = shares[k] /\ threads'[Child(t, k)].state = "created"
  <2> TAKE k \in 1 .. m
  <2>1. PICK c : c = Child(t, k)
    OBVIOUS
  <2>2. threads'[c] = Thread(groups[k], shares[k], "created")
    BY <1>9, <2>1
  <2>3. threads'[c].n_processors = shares[k] /\ threads'[c].state = "created"
    BY <2>2 DEF Thread
  <2> QED BY <2>1, <2>3 DEF Procs
<1>11. \A u \in New : \E k \in 1 .. m : u = Child(t, k)
  OBVIOUS
<1>12. \A k \in 1 .. m : Child(t, k) \in New
  OBVIOUS
<1> HIDE DEF New
<1>13. /\ threads'[t].state = "starting" /\ threads'[t].children = m /\ Procs(t)' = n
       /\ \A u \in Live : u # t => threads'[u] = threads[u]
       /\ \A u \in Live : Procs(u)' = Procs(u)
  <2>1. IsThread(threads[t])
    BY DEF Threads
  <2>2. threads'[t].state = "starting" /\ threads'[t].children = m /\ Procs(t)' = n
    BY <1>4, <1>9, <2>1 DEF IsThread, Procs
  <2>3. \A u \in Live : u # t => threads'[u] = threads[u]
    BY <1>1, <1>8, <1>9, <1>11
  <2> QED BY <1>4, <2>2, <2>3 DEF Procs
<1>14. Live' = Live \cup New
  <2>1. \A u \in New : u \in Live'
    BY <1>9, <1>10, <1>11 DEF Live
  <2>2. \A u \in Live : u \in Live'
    BY <1>9, <1>13 DEF Live
  <2>3. \A u \in Live' : u \in Live \/ u \in New
    BY <1>1, <1>9 DEF Live
  <2> QED BY <2>1, <2>2, <2>3
<1>15. PICK g : g = [u \in Live \cup New |-> IF u \in New THEN f[t] + off[u[Len(u)]] ELSE f[u]]
  OBVIOUS
<1>16. /\ \A u \in Live : g[u] = f[u]
       /\ \A k \in 1 .. m : g[Child(t, k)] = f[t] + off[k]
  <2>1. \A u \in Live : u \notin New
    BY <1>8, <1>11
  <2>2. ASSUME NEW k \in 1 .. m
        PROVE  g[Child(t, k)] = f[t] + off[k]
    <3>1. PICK c : c = Child(t, k)
      OBVIOUS
    <3>2. c \in New /\ c[Len(c)] = k
      BY <1>7, <1>12, <3>1
    <3> QED BY <1>15, <3>1, <3>2
  <2> QED BY <1>15, <2>1, <2>2
<1>17. g \in [Live' -> Nat]
  <2>1. ASSUME NEW u \in Live'
        PROVE  g[u] \in Nat
    <3>1. CASE u \in Live
      <4>1. g[u] = f[u]
        BY <1>16, <3>1
      <4> QED BY <1>3, <3>1, <4>1
    <3>2. CASE u \in New
      <4>1. PICK k \in 1 .. m : u = Child(t, k)
        BY <1>11, <3>2
      <4>2. g[u] = f[t] + off[k] /\ f[t] \in Nat /\ off[k] \in Nat
        BY <1>1, <1>3, <1>5, <1>16, <4>1
      <4> QED BY <4>2
    <3> QED BY <1>14, <3>1, <3>2
  <2> QED BY <1>14, <1>15, <2>1
<1>18. ASSUME NEW u \in Live, NEW k \in 1 .. m, NEW c, c = Child(t, k)
       PROVE  /\ Above(u, c) => Within(g, u, c)'
              /\ ~ Above(c, u)
              /\ ~ Above(u, c) => Apart(g, u, c)' /\ Apart(g, c, u)'
  <2>1. /\ u \in Seq(Nat) /\ c \in Seq(Nat) /\ f[u] \in Nat /\ f[t] \in Nat /\ Procs(u) \in Nat
        /\ off[k] \in Nat /\ shares[k] \in Nat /\ off[k] + shares[k] <= n
    BY <1>1, <1>3, <1>5, <1>7, <1>18
  <2>2. /\ g[u] = f[u] /\ Procs(u)' = Procs(u)
        /\ g[c] = f[t] + off[k] /\ Procs(c)' = shares[k]
    BY <1>10, <1>13, <1>16, <1>18
  <2>3. PICK fu \in Nat, ft \in Nat, pu \in Nat, o \in Nat, s \in Nat :
          fu = f[u] /\ ft = f[t] /\ pu = Procs(u) /\ o = off[k] /\ s = shares[k] /\ o + s <= n
    BY <2>1
  <2>4. /\ Within(g, u, c)' <=> fu <= ft + o /\ ft + o + s <= fu + pu
        /\ Apart(g, u, c)' <=> fu + pu <= ft + o \/ ft + o + s <= fu
        /\ Apart(g, c, u)' <=> ft + o + s <= fu \/ fu + pu <= ft + o
    BY <2>2, <2>3 DEF Within, Apart
  <2>5. CASE u = t
    <3>1. fu = ft /\ pu = n
      BY <1>4, <2>3, <2>5
    <3>2. Above(u, c)
      BY <1>7, <1>18, <2>1, <2>5
    <3>3. ~ Above(c, u)
      BY <2>1, <3>2, AboveIsOrder
    <3> QED BY <2>3, <2>4, <3>1, <3>2, <3>3
  <2>6. CASE u # t /\ Above(u, t)
    <3>1. Within(f, u, t)
      BY <1>1, <1>2, <2>6 DEF Placed
    <3>2. fu <= ft /\ ft + n <= fu + pu
      BY <1>4, <2>3, <3>1 DEF Within
    <3>3. Above(u, c)
      BY <1>7, <1>18, <2>1, <2>6
    <3>4. ~ Above(c, u)
      BY <2>1, <3>3, AboveIsOrder
    <3> QED BY <2>3, <2>4, <3>2, <3>3, <3>4
  <2>7. CASE u # t /\ ~ Above(u, t)
    <3>1. Apart(f, u, t)
      BY <1>1, <1>2, <1>6, <2>7 DEF Placed
    <3>2. fu + pu <= ft \/ ft + n <= fu
      BY <1>4, <2>3, <3>1 DEF Apart
    <3>3. ~ Above(u, c)
      BY <1>7, <1>18, <2>1, <2>7
    <3>4. ~ Above(c, u)
      <4>1. Above(t, c)
        BY <1>1, <1>7, <1>18
      <4> QED BY <1>1, <1>6, <2>1, <4>1, AboveIsOrder
    <3> QED BY <2>3, <2>4, <3>2, <3>3, <3>4
  <2> QED BY <2>5, <2>6, <2>7
<1>19. ASSUME NEW k \in 1 .. m, NEW l \in 1 .. m
       PROVE  /\ ~ Above(Child(t, k), Child(t, l))
              /\ k # l => Apart(g, Child(t, k), Child(t, l))'
  <2>1. ~ Above(Child(t, k), Child(t, l))
    <3>1. Len(Child(t, k)) = Len(t) + 1 /\ Len(Child(t, l)) = Len(t) + 1 /\ Len(t) \in Nat
      BY <1>1, <1>7
    <3> QED BY <3>1 DEF Above
  <2>2. ASSUME k # l
        PROVE  Apart(g, Child(t, k), Child(t, l))'
    <3>1. off[k] + shares[k] <= off[l] \/ off[l] + shares[l] <= off[k]
      BY <2>2 DEF Cut
    <3>2. /\ g[Child(t, k)] = f[t] + off[k] /\ g[Child(t, l)] = f[t] + off[l]
          /\ Procs(Child(t, k))' = shares[k] /\ Procs(Child(t, l))' = shares[l]
      BY <1>10, <1>16
    <3>3. f[t] \in Nat /\ off[k] \in Nat /\ off[l] \in Nat /\ shares[k] \in Nat /\ shares[l] \in Nat
      BY <1>1, <1>3, <1>5
    <3>4. PICK ft \in Nat, ok \in Nat, ol \in Nat, sk \in Nat, sl \in Nat :
            ft = f[t] /\ ok = off[k] /\ ol = off[l] /\ sk = shares[k] /\ sl = shares[l]
      BY <3>3
    <3>5. Apart(g, Child(t, k), Child(t, l))' <=> ft + ok + sk <= ft + ol \/ ft + ol + sl <= ft + ok
      BY <3>2, <3>4 DEF Apart
    <3>6. ok + sk <= ol \/ ol + sl <= ok
      BY <3>1, <3>4
    <3>7. ft + ok + sk <= ft + ol \/ ft + ol + sl <= ft + ok
      <4>1. ASSUME ok + sk <= ol PROVE ft + ok + sk <= ft + ol
        BY <4>1
      <4>2. ASSUME ol + sl <= ok PROVE ft + ol + sl <= ft + ok
        BY <4>2
      <4> QED BY <3>6, <4>1, <4>2
    <3> QED BY <3>5, <3>7
  <2> QED BY <2>1, <2>2
<1>20. ASSUME NEW u \in Live', NEW v \in Live'
       PROVE  /\ Above(u, v) => Within(g, u, v)'
              /\ u # v /\ ~ Above(u, v) /\ ~ Above(v, u) => Apart(g, u, v)'
  <2>1. CASE u \in Live /\ v \in Live
    <3>1. (Within(g, u, v)' <=> Within(f, u, v)) /\ (Apart(g, u, v)' <=> Apart(f, u, v))
      BY <1>13, <1>16, <2>1 DEF Within, Apart
    <3> QED BY <1>2, <2>1, <3>1 DEF Placed
  <2>2. CASE u \in Live /\ v \in New
    BY <1>11, <1>18, <2>2
  <2>3. CASE u \in New /\ v \in Live
    BY <1>11, <1>18, <2>3
  <2>4. CASE u \in New /\ v \in New
    BY <1>11, <1>19, <2>4
  <2> QED BY <1>14, <2>1, <2>2, <2>3, <2>4
<1>21. ASSUME NEW u \in Live', threads'[u].state = "starting", NEW z, z = Child(u, threads'[u].children)
       PROVE  g[z] + threads'[z].n_processors = g[u] + threads'[u].n_processors
  <2>1. u \notin New
    BY <1>10, <1>11, <1>21
  <2>2. CASE u = t
    <3>1. m \in 1 .. m /\ z = Child(t, m)
      BY <1>13, <1>21, <2>2
    <3>2. g[z] = f[t] + off[m] /\ Procs(z)' = shares[m] /\ g[t] = f[t] /\ Procs(t)' = n
      BY <1>1, <1>10, <1>13, <1>16, <3>1
    <3>3. off[m] + shares[m] = n
      BY <1>4 DEF Cut, Procs
    <3>4. f[t] \in Nat /\ off[m] \in Nat /\ shares[m] \in Nat
      BY <1>1, <1>3, <1>5, <3>1
    <3> QED BY <2>2, <3>2, <3>3, <3>4 DEF Procs
  <2>3. CASE u # t
    <3>1. u \in Live /\ threads'[u] = threads[u]
      BY <1>13, <1>14, <2>1, <2>3
    <3>2. threads[u].state = "starting" /\ z = Child(u, threads[u].children)
      BY <1>21, <3>1
    <3>3. z \in Live
      BY <3>1, <3>2, LastChildLives
    <3>4. f[z] + Procs(z) = f[u] + Procs(u)
      BY <1>2, <3>1, <3>2 DEF Placed
    <3>5. Procs(z)' = Procs(z) /\ Procs(u)' = Procs(u) /\ g[z] = f[z] /\ g[u] = f[u]
      BY <1>13, <1>16, <3>1, <3>3
    <3> QED BY <3>4, <3>5 DEF Procs
  <2> QED BY <2>2, <2>3
<1>22. Placed(g)'
  <2>1. \A u \in Live' : threads'[u].state = "starting" =>
          LET z == Child(u, threads'[u].children)
          IN g[z] + threads'[z].n_processors = g[u] + threads'[u].n_processors
    BY <1>21
  <2> QED BY <1>17, <1>20, <2>1 DEF Placed, Procs
<1>23. Rooted'
  <2>1. ASSUME NEW v \in Live', NEW u \in Seq(Nat), Above(u, v)
        PROVE  u \in Live'
    <3>1. CASE v \in Live
      BY <1>14, <2>1, <3>1 DEF Shared, Rooted
    <3>2. CASE v \in New
      <4>1. u = t \/ Above(u, t)
        BY <1>7, <1>11, <2>1, <3>2
      <4> QED BY <1>1, <1>14, <4>1 DEF Shared, Rooted
    <3> QED BY <1>14, <3>1, <3>2
  <2> QED BY <2>1 DEF Rooted
<1> QED BY <1>22, <1>23 DEF Shared

\* A step of one thread that neither starts children nor ends.
LEMMA QuietShared ==
  ASSUME Threads, Shared, NEW t \in DOMAIN threads, threads[t].state \in Active,
         NEW thread, Become(t, thread), thread.state \in Active, thread.state # "starting",
         thread.n_processors = threads[t].n_processors
  PROVE  Shared'
<1>1. /\ DOMAIN threads' = DOMAIN threads /\ threads'[t] = thread
      /\ \A u \in DOMAIN threads : u # t => threads'[u] = threads[u]
  BY DEF Threads, Become
<1>2. Live' = Live
  BY <1>1 DEF Live, Active
<1>3. \A u \in Live : Procs(u)' = Procs(u)
  BY <1>1 DEF Live, Procs
<1>4. \A u \in Live : threads'[u].state = "starting" =>
        threads[u].state = "starting" /\ threads'[u].children = threads[u].children
  BY <1>1 DEF Live
<1> QED BY <1>2, <1>3, <1>4, SharedKept

LEMMA RunShared ==
  ASSUME Threads, Shared, NEW t \in DOMAIN threads, Run(t)
  PROVE  Shared'
<1>1. threads[t].state = "running" /\ threads[t].todo # <<>> /\ IsThread(threads[t])
  BY DEF Run, Is, Threads
<1>2. PICK r : r = Head(threads[t].todo)
  OBVIOUS
<1>3. PICK n : n = threads[t].n_processors
  OBVIOUS
<1>4. r \in Runnables /\ n \in Nat \ {0}
  <2>1. threads[t].todo \in Seq(Runnables) /\ n \in Nat \ {0}
    BY <1>1, <1>3 DEF IsThread
  <2> QED BY <1>1, <1>2, <2>1
<1>5. PICK ks : ks = kids(r)
  OBVIOUS
<1>6. ks \in Seq(Runnables) /\ ks # <<>> /\ (r \in program.pairs => Len(ks) = 2)
  BY <1>2, <1>4, <1>5, ProgramsAssumption DEF Run, Threads, Runnables, kids
<1>7. PICK alone : alone = [k \in DOMAIN ks |-> <<ks[k]>>]
  OBVIOUS
<1>8. PICK m : m = Len(ks)
  OBVIOUS
<1>9. m \in Nat \ {0} /\ alone \in [1 .. m -> Seq(Runnables)]
  BY <1>6, <1>7, <1>8
<1>10. \/ r \in program.pairs /\ n > 1 /\ Start(t, alone, PairShares(n))
       \/ Become(t, [threads[t] EXCEPT !.todo = ks \o Tail(@)])
       \/ n >= m /\ Start(t, alone, Shares(n, m))
       \/ n < m /\ Start(t, Groups(ks, n), Shares(n, n))
  <2>1. (n > 1 \/ n <= 1) /\ (n >= m \/ n < m)
    BY <1>4, <1>9
  <2> QED BY <1>2, <1>3, <1>5, <1>7, <1>8, <2>1 DEF Run
<1>11. CASE r \in program.pairs /\ n > 1 /\ Start(t, alone, PairShares(n))
  <2>1. m = 2 /\ 2 \in Nat \ {0}
    BY <1>6, <1>8, <1>11
  <2>2. PICK shares : shares = PairShares(n)
    OBVIOUS
  <2>3. shares \in [1 .. 2 -> Nat \ {0}]
    <3>1. shares[1] \in Nat \ {0} /\ shares[2] \in Nat \ {0}
      BY <1>4, <2>2, PairSharesPositive
    <3>2. \E a, b : shares = <<a, b>>
      BY <2>2 DEF PairShares
    <3>3. PICK a, b : shares = <<a, b>>
      BY <3>2
    <3> QED BY <3>1, <3>3
  <2>4. PICK off \in [1 .. 2 -> Nat] : Cut(off, shares, 2, n)
    BY <1>4, <1>11, <2>2, PairCut
  <2> QED BY <1>1, <1>3, <1>9, <1>11, <2>1, <2>2, <2>3, <2>4, StartShared
<1>12. CASE Become(t, [threads[t] EXCEPT !.todo = ks \o Tail(@)])
  <2>1. PICK self : self = [threads[t] EXCEPT !.todo = ks \o Tail(@)]
    OBVIOUS
  <2>2. self.state = "running" /\ self.n_processors = threads[t].n_processors
    BY <1>1, <2>1 DEF IsThread
  <2> QED BY <1>1, <1>12, <2>1, <2>2, QuietShared DEF Active
<1>13. CASE n >= m /\ Start(t, alone, Shares(n, m))
  <2>1. PICK shares : shares = Shares(n, m)
    OBVIOUS
  <2>2. shares \in [1 .. m -> Nat \ {0}]
    BY <1>4, <1>9, <2>1, SharesPositive
  <2>3. PICK off \in [1 .. m -> Nat] : Cut(off, shares, m, n)
    BY <1>4, <1>9, <1>13, <2>1, SharesCut
  <2> QED BY <1>1, <1>3, <1>9, <1>13, <2>1, <2>2, <2>3, StartShared
<1>14. CASE n < m /\ Start(t, Groups(ks, n), Shares(n, n))
  <2>1. PICK groups : groups = Groups(ks, n)
    OBVIOUS
  <2>2. PICK shares : shares = Shares(n, n)
    OBVIOUS
  <2>3. groups \in [1 .. n -> Seq(Runnables)] /\ shares \in [1 .. n -> Nat \ {0}]
    BY <1>4, <1>6, <2>1, <2>2, GroupsOfList, SharesPositive
  <2>4. n >= n
    BY <1>4
  <2>5. PICK off \in [1 .. n -> Nat] : Cut(off, shares, n, n)
    BY <1>4, <2>2, <2>4, SharesCut
  <2> QED BY <1>1, <1>3, <1>4, <1>14, <2>1, <2>2, <2>3, <2>5, StartShared
<1> QED BY <1>10, <1>11, <1>12, <1>13, <1>14

LEMMA JobShared ==
  ASSUME Threads, Shared, NEW t \in DOMAIN threads, Job(t)
  PROVE  Shared'
<1>1. threads[t].state = "running" /\ IsThread(threads[t])
  BY DEF Job, Is, Threads
<1>2. PICK self : self = IF Head(threads[t].todo) \in failing
                         THEN [threads[t] EXCEPT !.todo = <<>>, !.exception = Head(threads[t].todo)]
                         ELSE [threads[t] EXCEPT !.todo = Tail(@)]
  OBVIOUS
<1>3. Become(t, self)
  BY <1>2 DEF Job
<1>4. self.state = "running" /\ self.n_processors = threads[t].n_processors
  BY <1>1, <1>2 DEF IsThread
<1> QED BY <1>1, <1>3, <1>4, QuietShared DEF Active

LEMMA JoinThreadShared ==
  ASSUME Threads, Shared, NEW t \in DOMAIN threads, JoinThread(t)
  PROVE  Shared'
<1>1. threads[t].state = "joining" /\ IsThread(threads[t])
  BY DEF JoinThread, Is, Threads
<1>2. PICK self : self = [threads[t] EXCEPT !.at = @ + 1]
  OBVIOUS
<1>3. self.state = "joining" /\ self.n_processors = threads[t].n_processors /\ Become(t, self)
  BY <1>1, <1>2 DEF IsThread, JoinThread
<1> QED BY <1>1, <1>3, QuietShared DEF Active

LEMMA RethrowShared ==
  ASSUME Threads, Shared, NEW t \in DOMAIN threads, Rethrow(t)
  PROVE  Shared'
<1>1. threads[t].state = "joining" /\ IsThread(threads[t])
  BY DEF Rethrow, Is, Threads
<1>2. PICK thrown : thrown = {k \in 1 .. threads[t].children :
                                threads[Child(t, k)].exception # NoException}
  OBVIOUS
<1>3. PICK first : first = CHOOSE k \in thrown : \A l \in thrown : k <= l
  OBVIOUS
<1>4. PICK self : self = IF thrown = {}
                         THEN [threads[t] EXCEPT !.state = "running", !.todo = Tail(@)]
                         ELSE [threads[t] EXCEPT !.state = "running", !.todo = <<>>,
                                 !.exception = threads[Child(t, first)].exception]
  OBVIOUS
<1>5. Become(t, self)
  BY <1>2, <1>3, <1>4 DEF Rethrow
<1>6. self.state = "running" /\ self.n_processors = threads[t].n_processors
  BY <1>1, <1>4 DEF IsThread
<1> QED BY <1>1, <1>5, <1>6, QuietShared DEF Active

LEMMA StartThreadShared ==
  ASSUME Threads, Shared, NEW t \in DOMAIN threads, StartThread(t)
  PROVE  Shared'
<1>1. /\ threads[t].state = "starting" /\ IsThread(threads[t]) /\ Family(threads[t], States(t))
      /\ t \in Seq(Nat)
  BY DEF StartThread, Is, Threads, Tree
<1>2. PICK k \in Places : k = threads[t].at + 1 /\ k <= threads[t].children
  BY <1>1 DEF IsThread, Places, Family
<1>3. PICK c : c = Child(t, k)
  OBVIOUS
<1>4. States(t)[k] = "created"
  <2>1. k > threads[t].at
    BY <1>1, <1>2 DEF IsThread
  <2> QED BY <1>1, <1>2, <2>1 DEF Family
<1>5. c \in DOMAIN threads /\ threads[c].state = "created" /\ IsThread(threads[c])
  BY <1>3, <1>4 DEF States, StateAt, Threads
<1>6. c # t
  BY <1>1, <1>5
<1>7. PICK last : last = (k = threads[t].children)
  OBVIOUS
<1>8. PICK self : self = [threads[t] EXCEPT !.at = IF last THEN 0 ELSE k,
                                            !.state = IF last THEN "joining" ELSE @]
  OBVIOUS
<1>9. PICK child : child = [threads[c] EXCEPT !.state = "running"]
  OBVIOUS
<1>10. threads' = [threads EXCEPT ![t] = self, ![c] = child]
  BY <1>2, <1>3, <1>5, <1>6, <1>7, <1>8, <1>9 DEF StartThread, Threads
<1>11. /\ DOMAIN threads' = DOMAIN threads
       /\ threads'[t] = self /\ threads'[c] = child
       /\ \A u \in DOMAIN threads : u # t /\ u # c => threads'[u] = threads[u]
  BY <1>5, <1>6, <1>10 DEF Threads
<1>12. /\ self.state \in {"starting", "joining"} /\ self.children = threads[t].children
       /\ self.n_processors = threads[t].n_processors
       /\ child.state = "running" /\ child.n_processors = threads[c].n_processors
  BY <1>1, <1>5, <1>8, <1>9 DEF IsThread
<1>13. Live' = Live
  BY <1>1, <1>5, <1>11, <1>12 DEF Live
<1>14. \A u \in Live : Procs(u)' = Procs(u)
  BY <1>11, <1>12 DEF Live, Procs
<1>15. \A u \in Live : threads'[u].state = "starting" =>
         threads[u].state = "starting" /\ threads'[u].children = threads[u].children
  BY <1>1, <1>11, <1>12 DEF Live
<1> QED BY <1>13, <1>14, <1>15, SharedKept

\* A thread that ends gives its processors back; it has no live callee.
LEMMA ExitShared ==
  ASSUME Threads, Shared, NEW t \in DOMAIN threads, Exit(t)
  PROVE  Shared'
<1>1. threads[t].state = "running" /\ IsThread(threads[t]) /\ t \in Live
  BY DEF Exit, Is, Threads, Live
<1>2. PICK self : self = [threads[t] EXCEPT !.state = "terminated"]
  OBVIOUS
<1>3. self.state = "terminated" /\ Become(t, self)
  BY <1>1, <1>2 DEF IsThread, Exit
<1>4. /\ DOMAIN threads' = DOMAIN threads /\ threads'[t] = self
      /\ \A u \in DOMAIN threads : u # t => threads'[u] = threads[u]
  BY <1>3 DEF Threads, Become
<1>5. Live' = Live \ {t} /\ \A u \in Live' : threads'[u] = threads[u] /\ Procs(u)' = Procs(u)
  BY <1>3, <1>4 DEF Live, Procs
<1>6. PICK f : Placed(f)
  BY DEF Shared
<1>7. PICK g : g = [u \in Live' |-> f[u]]
  OBVIOUS
<1>8. g \in [Live' -> Nat] /\ \A u \in Live' : g[u] = f[u]
  BY <1>5, <1>6, <1>7 DEF Placed
<1>9. \A u \in Live : ~ Above(t, u)
  BY <1>1, NoneBelow DEF Shared
<1>10. ASSUME NEW u \in Live', threads'[u].state = "starting", NEW z, z = Child(u, threads'[u].children)
       PROVE  g[z] + threads'[z].n_processors = g[u] + threads'[u].n_processors
  <2>1. u \in Live /\ threads[u].state = "starting" /\ z = Child(u, threads[u].children)
    BY <1>5, <1>10
  <2>2. z \in Live
    BY <2>1, LastChildLives
  <2>3. z # t
    <3>1. threads[u].children \in Places
      BY <2>1, LastChildLives
    <3>2. PICK k : k = threads[u].children
      OBVIOUS
    <3>3. k \in Places /\ k > threads[u].at /\ k <= threads[u].children
      BY <2>1, <3>1, <3>2 DEF Threads, Family, IsThread, Live, Places
    <3>4. States(u)[k] = "created"
      BY <2>1, <3>3 DEF Threads, Family, Live
    <3> QED BY <1>1, <2>1, <3>2, <3>3, <3>4 DEF States, StateAt
  <2>4. f[z] + Procs(z) = f[u] + Procs(u)
    BY <1>6, <2>1 DEF Placed
  <2> QED BY <1>5, <1>8, <2>2, <2>3, <2>4 DEF Procs
<1>11. Placed(g)'
  <2>1. \A u, v \in Live' : (Within(g, u, v)' <=> Within(f, u, v)) /\ (Apart(g, u, v)' <=> Apart(f, u, v))
    BY <1>5, <1>8 DEF Within, Apart
  <2>2. \A u, v \in Live' :
          /\ Above(u, v) => Within(g, u, v)'
          /\ u # v /\ ~ Above(u, v) /\ ~ Above(v, u) => Apart(g, u, v)'
    BY <1>5, <1>6, <2>1 DEF Placed
  <2>3. \A u \in Live' : threads'[u].state = "starting" =>
          LET z == Child(u, threads'[u].children)
          IN g[z] + threads'[z].n_processors = g[u] + threads'[u].n_processors
    BY <1>10
  <2> QED BY <1>8, <2>2, <2>3 DEF Placed, Procs
<1>12. Rooted'
  BY <1>5, <1>9 DEF Shared, Rooted
<1> QED BY <1>11, <1>12 DEF Shared

LEMMA SharedInvariant == Spec => []Shared
<1>1. Threads /\ Shared /\ [Next]_vars => Shared'
  <2> SUFFICES ASSUME Threads, Shared, [Next]_vars PROVE Shared'
    OBVIOUS
  <2>1. ASSUME NEW t \in DOMAIN threads, Step(t)
        PROVE  Shared'
    BY <2>1, RunShared, JobShared, StartThreadShared, ExitShared, JoinThreadShared, RethrowShared
       DEF Step
  <2>2. CASE UNCHANGED vars
    <3>1. /\ Live' = Live /\ (\A u \in Live : Procs(u)' = Procs(u)) /\ threads' = threads
      BY <2>2 DEF vars, Live, Procs
    <3> QED BY <3>1, SharedKept
  <2> QED BY <2>1, <2>2 DEF Next
<1> QED BY <1>1, InitShared, ThreadsInvariant, PTL DEF Spec

\* A thread that starts its children has its last processor to itself: the child
\* it belongs to has not been started.
LEMMA LastIsFree ==
  ASSUME Threads, Rooted, NEW f, Placed(f),
         NEW u \in Live, threads[u].state \in {"running", "starting"},
         NEW v \in Live, threads[v].state \in {"running", "starting"}, Above(u, v)
  PROVE  f[v] + Procs(v) < f[u] + Procs(u)
<1>1. /\ u \in Seq(Nat) /\ v \in Seq(Nat) /\ Live \subseteq DOMAIN threads
      /\ \A w \in Live : f[w] \in Nat /\ Procs(w) \in Nat \ {0}
  BY DEF Threads, Tree, Live, IsThread, Procs, Placed
<1>2. threads[u].state = "starting" /\ Family(threads[u], States(u)) /\ IsThread(threads[u])
  BY NoneBelow DEF Live, Threads
<1>3. PICK k \in Nat : v = Child(u, k) \/ Above(Child(u, k), v)
  BY <1>1, ChildTowards
<1>4. PICK w : w = Child(u, k)
  OBVIOUS
<1>5. w \in Seq(Nat) /\ Len(w) = Len(u) + 1 /\ Len(u) \in Nat
  BY <1>1, <1>4, ChildName
<1>6. w \in Live /\ Above(u, w)
  <2>1. w \in Live
    BY <1>3, <1>4, <1>5 DEF Rooted
  <2>2. Above(u, w)
    BY <1>1, <1>4, AboveChild
  <2> QED BY <2>1, <2>2
<1>7. k \in Places
  BY <1>1, <1>4, <1>6, ChildPlace
<1>8. threads[w].state \in Active /\ States(u)[k] = threads[w].state
  <2>1. threads[w].state \in {"running", "starting", "joining"}
    BY <1>3, <1>4, <1>6, NoneBelow
  <2> QED BY <1>1, <1>4, <1>6, <1>7, <2>1 DEF States, StateAt, Active
<1>9. PICK c : c = threads[u].children
  OBVIOUS
<1>10. k # c /\ c \in Nat
  <2>1. c \in Places /\ c > threads[u].at
    BY <1>2, <1>9 DEF IsThread, Family, Places
  <2>2. States(u)[c] = "created"
    BY <1>2, <1>9, <2>1 DEF Family, Places
  <2> QED BY <1>8, <2>1, <2>2 DEF Active, Places
<1>11. PICK z : z = Child(u, c)
  OBVIOUS
<1>12. z \in Live /\ z \in Seq(Nat) /\ Len(z) = Len(u) + 1 /\ z # w
  <2>1. z \in Live
    BY <1>2, <1>9, <1>11, LastChildLives
  <2>2. z \in Seq(Nat) /\ Len(z) = Len(u) + 1
    BY <1>1, <1>10, <1>11, ChildName
  <2>3. z # w
    BY <1>1, <1>4, <1>10, <1>11, ChildInjective
  <2> QED BY <2>1, <2>2, <2>3
<1>13. Within(f, u, w) /\ Apart(f, w, z) /\ f[z] + Procs(z) = f[u] + Procs(u)
  <2>1. ~ Above(w, z) /\ ~ Above(z, w)
    BY <1>5, <1>12 DEF Above
  <2> QED BY <1>2, <1>6, <1>9, <1>11, <1>12, <2>1 DEF Placed
<1>14. f[w] + Procs(w) < f[u] + Procs(u)
  <2>1. /\ f[u] \in Nat /\ f[w] \in Nat /\ f[z] \in Nat
        /\ Procs(u) \in Nat \ {0} /\ Procs(w) \in Nat \ {0} /\ Procs(z) \in Nat \ {0}
    BY <1>1, <1>6, <1>12
  <2>2. /\ f[u] <= f[w] /\ f[w] + Procs(w) <= f[u] + Procs(u)
        /\ f[w] + Procs(w) <= f[z] \/ f[z] + Procs(z) <= f[w]
    BY <1>13 DEF Within, Apart
  <2> QED BY <1>13, <2>1, <2>2
<1>15. f[v] + Procs(v) <= f[w] + Procs(w)
  <2>1. CASE v = w
    BY <1>1, <2>1
  <2>2. CASE Above(w, v)
    BY <1>6, <2>2 DEF Placed, Within
  <2> QED BY <1>3, <1>4, <2>1, <2>2
<1> QED
  <2>1. /\ f[u] + Procs(u) \in Nat /\ f[v] + Procs(v) \in Nat /\ f[w] + Procs(w) \in Nat
    BY <1>1, <1>6
  <2> QED BY <1>14, <1>15, <2>1

\* However the calls are nested and whatever numbers of processors they divide,
\* no more threads work at a time than the outermost caller has processors: the
\* last processor of each working thread is that of no other working thread.
THEOREM ProcessorsAreRespected == Spec => []ProcessorsRespected
<1>1. ASSUME Threads, Shared
      PROVE  ProcessorsRespected
  <2> DEFINE W == {t \in DOMAIN threads : Is(t, "running") \/ Is(t, "starting")}
  <2>1. PICK N \in Nat : N = threads[Main].n_processors
    BY <1>1 DEF Threads, Tree, IsThread
  <2>2. CASE W = {}
    BY <2>1, <2>2, FS_EmptySet DEF ProcessorsRespected
  <2>3. CASE W # {}
    <3>1. PICK f : Placed(f)
      BY <1>1 DEF Shared
    <3>2. /\ \A v \in W : v \in Live /\ v \in Seq(Nat) /\ threads[v].state \in {"running", "starting"}
          /\ \A v \in Live : f[v] \in Nat /\ Procs(v) \in Nat \ {0}
      BY <1>1, <3>1 DEF Live, Is, Threads, Tree, Placed, IsThread, Procs
    <3>3. Main \in Seq(Nat) /\ \A v \in Seq(Nat) : v = Main \/ Above(Main, v)
      BY DEF Main, Above
    <3>4. Main \in Live
      BY <1>1, <2>3, <3>2, <3>3 DEF Shared, Rooted
    <3>5. PICK b \in Nat : b = f[Main] /\ N = Procs(Main)
      BY <2>1, <3>2, <3>4 DEF Procs
    <3> DEFINE last(v) == f[v] + Procs(v)
               seat == [v \in W |-> last(v)]
               seats == b + 1 .. b + N
    <3>6. ASSUME NEW v \in W
          PROVE  last(v) \in seats
      <4>1. f[v] \in Nat /\ Procs(v) \in Nat \ {0}
        BY <3>2
      <4>2. v = Main \/ Within(f, Main, v)
        BY <3>1, <3>2, <3>3, <3>4 DEF Placed
      <4>3. b <= f[v] /\ f[v] + Procs(v) <= b + N
        BY <3>5, <4>1, <4>2 DEF Within
      <4> QED BY <4>1, <4>3
    <3>7. ASSUME NEW u \in W, NEW v \in W, u # v
          PROVE  last(u) # last(v)
      <4>1. /\ f[u] \in Nat /\ f[v] \in Nat /\ Procs(u) \in Nat \ {0} /\ Procs(v) \in Nat \ {0}
            /\ u \in Live /\ v \in Live
        BY <3>2
      <4>2. CASE Above(u, v)
        <5>1. f[v] + Procs(v) < f[u] + Procs(u)
          BY <1>1, <3>1, <3>2, <4>2, LastIsFree DEF Shared
        <5> QED BY <4>1, <5>1
      <4>3. CASE Above(v, u)
        <5>1. f[u] + Procs(u) < f[v] + Procs(v)
          BY <1>1, <3>1, <3>2, <4>3, LastIsFree DEF Shared
        <5> QED BY <4>1, <5>1
      <4>4. CASE ~ Above(u, v) /\ ~ Above(v, u)
        <5>1. Apart(f, u, v)
          BY <3>1, <3>7, <4>1, <4>4 DEF Placed
        <5> QED BY <4>1, <5>1 DEF Apart
      <4> QED BY <4>2, <4>3, <4>4
    <3>8. IsFiniteSet(seats) /\ Cardinality(seats) = N
      <4>1. PICK lo \in Int, hi \in Int : lo = b + 1 /\ hi = b + N
        OBVIOUS
      <4>2. IsFiniteSet(lo .. hi) /\ Cardinality(lo .. hi) = IF lo > hi THEN 0 ELSE hi - lo + 1
        BY FS_Interval
      <4>3. (IF lo > hi THEN 0 ELSE hi - lo + 1) = N
        BY <4>1
      <4> QED BY <4>1, <4>2, <4>3
    <3>9. seat \in Injection(W, seats)
      <4> HIDE DEF last, W, seats
      <4>1. seat \in [W -> seats]
        BY <3>6
      <4>2. \A u, v \in W : seat[u] = seat[v] => u = v
        BY <3>7
      <4> QED BY <4>1, <4>2 DEF Injection, IsInjective
    <3>10. Cardinality(W) <= Cardinality(seats)
      <4> HIDE DEF W, seats, seat
      <4> QED BY <3>8, <3>9, FS_Injection DEF ExistsInjection
    <3> QED BY <2>1, <3>8, <3>10 DEF ProcessorsRespected
  <2> QED BY <2>2, <2>3
<1>2. Threads /\ Shared => ProcessorsRespected
  BY <1>1
<1> QED BY <1>2, ThreadsInvariant, SharedInvariant, PTL
-----------------------------------------------------------------------------
(* The jobs of a list of runnables, in the order of their numbers.         *)

Jobs == JobsOf(program)
Span(r) == Scope(program, r) \cap Jobs
Reach(rs) == UNION {Span(rs[i]) : i \in DOMAIN rs}
\* Every element of A comes before every element of B.
Before(A, B) == \A a \in A, b \in B : a < b
Ordered(rs) == \A i, k \in DOMAIN rs : i < k => Before(Span(rs[i]), Span(rs[k]))

LEMMA NumberingFacts ==
  ASSUME program \in Programs, NEW r \in Runnables
  PROVE  /\ Runnables \subseteq Nat /\ Jobs \subseteq Runnables
         /\ kids(r) \in Seq(Runnables) /\ Ordered(kids(r))
         /\ kids(r) = <<>> => r \in Jobs /\ Span(r) = {r}
         /\ kids(r) # <<>> => r \notin Jobs /\ Span(r) = Reach(kids(r))
<1>1. /\ Runnables \subseteq Nat /\ r \in Nat
      /\ kids(r) \in Seq(Runnables)
      /\ \A k \in DOMAIN kids(r) :
           /\ r < kids(r)[k]
           /\ \A l \in DOMAIN kids(r) : k < l => kids(r)[k] < kids(r)[l]
      /\ Scope(program, r) = {r} \cup UNION {Scope(program, kids(r)[k]) : k \in DOMAIN kids(r)}
  BY ProgramsAssumption, NumberingAssumption DEF Runnables, kids
<1>2. Jobs \subseteq Runnables /\ (r \in Jobs <=> kids(r) = <<>>)
  BY DEF Jobs, JobsOf, Runnables, kids
<1>3. Ordered(kids(r))
  <2> SUFFICES ASSUME NEW i \in DOMAIN kids(r), NEW k \in DOMAIN kids(r), i < k,
                      NEW a \in Span(kids(r)[i]), NEW b \in Span(kids(r)[k])
               PROVE  a < b
    BY DEF Ordered, Before
  <2>1. r < kids(r)[i] /\ kids(r)[i] < kids(r)[k]
    BY <1>1
  <2>2. a < kids(r)[k]
    BY <1>1, <2>1 DEF Span, Scope, Runnables, kids
  <2>3. kids(r)[k] <= b
    BY DEF Span, Scope
  <2>4. a \in Nat /\ b \in Nat /\ kids(r)[k] \in Nat
    <3>1. kids(r)[k] \in Runnables
      BY <1>1
    <3> QED BY <1>1, <1>2, <3>1 DEF Span
  <2> QED BY <2>2, <2>3, <2>4
<1>4. ASSUME kids(r) = <<>>
      PROVE  r \in Jobs /\ Span(r) = {r}
  <2>1. DOMAIN kids(r) = {}
    BY <1>4
  <2> QED BY <1>1, <1>2, <1>4, <2>1 DEF Span
<1>5. ASSUME kids(r) # <<>>
      PROVE  r \notin Jobs /\ Span(r) = Reach(kids(r))
  BY <1>1, <1>2, <1>5 DEF Span, Reach
<1> QED BY <1>1, <1>2, <1>3, <1>4, <1>5

\* Taking the first runnable off a list.
LEMMA ReachTail ==
  ASSUME NEW rs \in Seq(Runnables), rs # <<>>
  PROVE  /\ Reach(rs) = Span(Head(rs)) \cup Reach(Tail(rs))
         /\ Ordered(rs) => Ordered(Tail(rs)) /\ Before(Span(Head(rs)), Reach(Tail(rs)))
<1>1. /\ Len(rs) \in Nat /\ DOMAIN rs = 1 .. Len(rs) /\ 1 \in DOMAIN rs /\ Head(rs) = rs[1]
      /\ DOMAIN Tail(rs) = 1 .. Len(rs) - 1 /\ Len(rs) >= 1
      /\ \A i \in DOMAIN Tail(rs) : Tail(rs)[i] = rs[i + 1] /\ i + 1 \in DOMAIN rs
  OBVIOUS
<1>2. PICK tl : tl = Tail(rs)
  OBVIOUS
<1>3. Reach(rs) \subseteq Span(rs[1]) \cup Reach(tl)
  <2> SUFFICES ASSUME NEW i \in DOMAIN rs, NEW j \in Span(rs[i])
               PROVE  j \in Span(rs[1]) \/ j \in Reach(tl)
    BY DEF Reach
  <2>1. CASE i = 1
    BY <2>1
  <2>2. CASE i # 1
    <3>1. i - 1 \in DOMAIN tl /\ i - 1 + 1 = i
      BY <1>1, <1>2, <2>2
    <3>2. tl[i - 1] = rs[i]
      BY <1>1, <1>2, <3>1
    <3> QED BY <3>1, <3>2 DEF Reach
  <2> QED BY <2>1, <2>2
<1>4. Span(rs[1]) \cup Reach(tl) \subseteq Reach(rs)
  BY <1>1, <1>2 DEF Reach
<1>5. ASSUME Ordered(rs)
      PROVE  Ordered(tl) /\ Before(Span(rs[1]), Reach(tl))
  <2>1. Ordered(tl)
    <3> SUFFICES ASSUME NEW i \in DOMAIN tl, NEW k \in DOMAIN tl, i < k
                 PROVE  Before(Span(tl[i]), Span(tl[k]))
      BY DEF Ordered
    <3>1. /\ tl[i] = rs[i + 1] /\ tl[k] = rs[k + 1] /\ i + 1 \in DOMAIN rs /\ k + 1 \in DOMAIN rs
          /\ i + 1 < k + 1
      BY <1>1, <1>2
    <3> QED BY <1>5, <3>1 DEF Ordered
  <2>2. Before(Span(rs[1]), Reach(tl))
    <3> SUFFICES ASSUME NEW i \in DOMAIN tl
                 PROVE  Before(Span(rs[1]), Span(tl[i]))
      BY DEF Reach, Before
    <3>1. tl[i] = rs[i + 1] /\ i + 1 \in DOMAIN rs /\ 1 < i + 1
      BY <1>1, <1>2
    <3> QED BY <1>1, <1>5, <3>1 DEF Ordered
  <2> QED BY <2>1, <2>2
<1> QED BY <1>1, <1>2, <1>3, <1>4, <1>5

\* A list in front of another.
LEMMA ReachConcat ==
  ASSUME NEW rs \in Seq(Runnables), NEW qs \in Seq(Runnables)
  PROVE  /\ Reach(rs \o qs) = Reach(rs) \cup Reach(qs)
         /\ Ordered(rs) /\ Ordered(qs) /\ Before(Reach(rs), Reach(qs)) => Ordered(rs \o qs)
<1>1. PICK c : c = rs \o qs
  OBVIOUS
<1>2. PICK m \in Nat, n \in Nat : m = Len(rs) /\ n = Len(qs)
  OBVIOUS
<1>3. /\ DOMAIN rs = 1 .. m /\ DOMAIN qs = 1 .. n /\ DOMAIN c = 1 .. m + n
      /\ \A i \in 1 .. m : c[i] = rs[i]
      /\ \A i \in 1 .. m + n : i > m => c[i] = qs[i - m] /\ i - m \in 1 .. n
      /\ \A i \in 1 .. n : c[m + i] = qs[i] /\ m + i \in 1 .. m + n
  BY <1>1, <1>2
<1>4. \A i \in 1 .. m + n : i \in 1 .. m \/ i > m
  OBVIOUS
<1>5. \A i \in DOMAIN rs : i \in DOMAIN c
  BY <1>3
<1>6. Reach(c) = Reach(rs) \cup Reach(qs)
  <2>1. ASSUME NEW j \in Reach(c)
        PROVE  j \in Reach(rs) \cup Reach(qs)
    <3>1. PICK i \in DOMAIN c : j \in Span(c[i])
      BY DEF Reach
    <3> QED BY <1>3, <1>4, <3>1 DEF Reach
  <2>2. ASSUME NEW j \in Reach(rs)
        PROVE  j \in Reach(c)
    BY <1>3, <1>5 DEF Reach
  <2>3. ASSUME NEW j \in Reach(qs)
        PROVE  j \in Reach(c)
    <3>1. PICK i \in DOMAIN qs : j \in Span(qs[i])
      BY DEF Reach
    <3>2. m + i \in DOMAIN c /\ c[m + i] = qs[i]
      BY <1>3
    <3> QED BY <3>1, <3>2 DEF Reach
  <2> QED BY <2>1, <2>2, <2>3
<1>7. ASSUME Ordered(rs), Ordered(qs), Before(Reach(rs), Reach(qs))
      PROVE  Ordered(c)
  <2> SUFFICES ASSUME NEW i \in DOMAIN c, NEW k \in DOMAIN c, i < k
               PROVE  Before(Span(c[i]), Span(c[k]))
    BY DEF Ordered
  <2>1. CASE i \in 1 .. m /\ k \in 1 .. m
    BY <1>3, <1>7, <2>1 DEF Ordered
  <2>2. CASE i \in 1 .. m /\ k > m
    BY <1>3, <1>7, <2>2 DEF Before, Reach
  <2>3. CASE i > m /\ k > m
    <3>1. i - m < k - m
      BY <1>3, <2>3
    <3> QED BY <1>3, <1>7, <2>3, <3>1 DEF Ordered
  <2> QED BY <1>3, <1>4, <2>1, <2>2, <2>3
<1> QED BY <1>1, <1>6, <1>7

\* The groups of a list share out its jobs, in order.
Deals(groups, m, rs) ==
  /\ \A k \in 1 .. m : Ordered(groups[k])
  /\ \A k, l \in 1 .. m : k < l => Before(Reach(groups[k]), Reach(groups[l]))
  /\ UNION {Reach(groups[k]) : k \in 1 .. m} = Reach(rs)

LEMMA AloneDeals ==
  ASSUME NEW rs \in Seq(Runnables), Ordered(rs)
  PROVE  Deals([k \in DOMAIN rs |-> <<rs[k]>>], Len(rs), rs)
<1>1. PICK g : g = [k \in DOMAIN rs |-> <<rs[k]>>]
  OBVIOUS
<1>2. DOMAIN rs = 1 .. Len(rs) /\ Len(rs) \in Nat
  OBVIOUS
<1>3. \A k \in DOMAIN rs : DOMAIN g[k] = {1} /\ g[k][1] = rs[k]
  BY <1>1
<1>4. \A k \in DOMAIN rs : Reach(g[k]) = Span(rs[k]) /\ Ordered(g[k])
  <2> TAKE k \in DOMAIN rs
  <2>1. Reach(g[k]) = Span(rs[k])
    BY <1>3 DEF Reach
  <2>2. Ordered(g[k])
    BY <1>3 DEF Ordered
  <2> QED BY <2>1, <2>2
<1>5. UNION {Reach(g[k]) : k \in 1 .. Len(rs)} = Reach(rs)
  BY <1>2, <1>4 DEF Reach
<1> QED BY <1>1, <1>2, <1>4, <1>5 DEF Deals, Ordered

\* The pieces of a list cut at places that do not go down.
Cuts(e, n, len) ==
  /\ e \in [0 .. n -> Nat] /\ e[0] = 0 /\ e[n] = len
  /\ \A g, h \in 0 .. n : g <= h => e[g] <= e[h]
Pieces(e, n, rs) == [g \in 1 .. n |-> SubSeq(rs, e[g - 1] + 1, e[g])]
IsPiece(piece, rs, a, b) ==
  /\ DOMAIN piece = 1 .. b - a
  /\ \A i \in 1 .. b - a : piece[i] = rs[a + i] /\ a + i \in DOMAIN rs

LEMMA CutsFacts ==
  ASSUME NEW n \in Nat \ {0}, NEW len \in Nat, NEW e, Cuts(e, n, len), NEW g \in 0 .. n, NEW h \in 0 .. n, g <= h
  PROVE  e[g] \in Nat /\ e[h] \in Nat /\ e[g] <= e[h] /\ e[h] <= len
<1>1. h <= n /\ n \in 0 .. n
  OBVIOUS
<1> QED BY <1>1 DEF Cuts

LEMMA PieceOfList ==
  ASSUME NEW rs \in Seq(Runnables), NEW n \in Nat \ {0}, NEW e, Cuts(e, n, Len(rs)), NEW g \in 1 .. n
  PROVE  \E a \in Nat, b \in Nat :
           /\ a = e[g - 1] /\ b = e[g] /\ a <= b /\ IsPiece(Pieces(e, n, rs)[g], rs, a, b)
<1>1. PICK f : f = g - 1
  OBVIOUS
<1>2. f \in 0 .. n /\ g \in 0 .. n /\ f <= g
  BY <1>1
<1>3. PICK len \in Nat : len = Len(rs)
  OBVIOUS
<1>4. e[f] \in Nat /\ e[g] \in Nat /\ e[f] <= e[g] /\ e[g] <= len
  BY <1>2, <1>3, CutsFacts
<1>5. PICK a \in Nat, b \in Nat : a = e[f] /\ b = e[g] /\ a <= b /\ b <= len
  BY <1>4
<1>6. PICK c \in Nat : c = a + 1
  OBVIOUS
<1>7. \A i \in c .. b : rs[i] \in Runnables
  <2>1. \A i \in c .. b : i \in 1 .. len
    BY <1>5, <1>6
  <2> QED BY <1>3, <2>1
<1>8. PICK p : p = SubSeq(rs, c, b)
  OBVIOUS
<1>9. /\ p \in Seq(Runnables) /\ Len(p) = IF c <= b THEN b - c + 1 ELSE 0
      /\ \A i \in 1 .. b - c + 1 : p[i] = rs[c + i - 1]
  <2>1. c \in Int /\ b \in Int
    OBVIOUS
  <2> QED BY <1>7, <1>8, <2>1, SubSeqProperties
<1>10. DOMAIN p = 1 .. b - a
  <2>1. Len(p) = b - a
    BY <1>5, <1>6, <1>9
  <2>2. DOMAIN p = 1 .. Len(p)
    BY <1>9
  <2> QED BY <2>1, <2>2
<1>11. \A i \in 1 .. b - a : p[i] = rs[a + i] /\ a + i \in DOMAIN rs
  <2> TAKE i \in 1 .. b - a
  <2>1. i \in 1 .. b - c + 1 /\ c + i - 1 = a + i /\ a + i \in 1 .. len
    <3>1. i \in Nat /\ i >= 1 /\ i <= b - a
      OBVIOUS
    <3>2. i <= b - c + 1 /\ c + i - 1 = a + i
      BY <1>6, <3>1
    <3>3. a + i \in Nat /\ a + i >= 1 /\ a + i <= len
      BY <1>5, <3>1
    <3>4. b - c + 1 \in Int
      OBVIOUS
    <3> QED BY <3>1, <3>2, <3>3, <3>4
  <2>2. p[i] = rs[c + i - 1]
    BY <1>9, <2>1
  <2> QED BY <1>3, <2>1, <2>2
<1>12. Pieces(e, n, rs)[g] = p
  BY <1>1, <1>5, <1>6, <1>8 DEF Pieces
<1> QED BY <1>1, <1>5, <1>10, <1>11, <1>12 DEF IsPiece

LEMMA PiecesDeal ==
  ASSUME NEW rs \in Seq(Runnables), Ordered(rs), NEW n \in Nat \ {0},
         NEW e, Cuts(e, n, Len(rs))
  PROVE  Deals(Pieces(e, n, rs), n, rs)
<1> DEFINE groups == Pieces(e, n, rs)
<1>1. DOMAIN rs = 1 .. Len(rs) /\ Len(rs) \in Nat
  OBVIOUS
<1>2. \A g \in 1 .. n : \E a \in Nat, b \in Nat :
        a = e[g - 1] /\ b = e[g] /\ a <= b /\ IsPiece(groups[g], rs, a, b)
  BY PieceOfList
<1> HIDE DEF groups
<1>3. ASSUME NEW g \in 1 .. n
      PROVE  Ordered(groups[g])
  <2>1. PICK a \in Nat, b \in Nat : IsPiece(groups[g], rs, a, b)
    BY <1>2
  <2> SUFFICES ASSUME NEW i \in DOMAIN groups[g], NEW k \in DOMAIN groups[g], i < k
               PROVE  Before(Span(groups[g][i]), Span(groups[g][k]))
    BY DEF Ordered
  <2>2. /\ a + i < a + k /\ a + i \in DOMAIN rs /\ a + k \in DOMAIN rs
        /\ groups[g][i] = rs[a + i] /\ groups[g][k] = rs[a + k]
    BY <2>1 DEF IsPiece
  <2> QED BY <2>2 DEF Ordered
<1>4. ASSUME NEW g \in 1 .. n, NEW h \in 1 .. n, g < h
      PROVE  Before(Reach(groups[g]), Reach(groups[h]))
  <2>1. PICK a \in Nat, b \in Nat : b = e[g] /\ a <= b /\ IsPiece(groups[g], rs, a, b)
    BY <1>2
  <2>2. PICK c \in Nat, d \in Nat : c = e[h - 1] /\ c <= d /\ IsPiece(groups[h], rs, c, d)
    BY <1>2
  <2>3. b <= c
    <3>1. PICK f \in Nat : f = h - 1
      OBVIOUS
    <3>2. g \in 0 .. n /\ f \in 0 .. n /\ g <= f
      BY <1>4, <3>1
    <3>3. e[g] <= e[f]
      BY <1>1, <3>2, CutsFacts
    <3> QED BY <2>1, <2>2, <3>1, <3>3
  <2>4. ASSUME NEW i \in DOMAIN groups[g], NEW k \in DOMAIN groups[h]
        PROVE  Before(Span(groups[g][i]), Span(groups[h][k]))
    <3>1. /\ i \in 1 .. b - a /\ a + i \in DOMAIN rs /\ groups[g][i] = rs[a + i]
          /\ k \in 1 .. d - c /\ c + k \in DOMAIN rs /\ groups[h][k] = rs[c + k]
      BY <2>1, <2>2 DEF IsPiece
    <3>2. a + i < c + k
      BY <2>3, <3>1
    <3> QED BY <3>1, <3>2 DEF Ordered
  <2> QED BY <2>4 DEF Reach, Before
<1>5. ASSUME NEW j \in Reach(rs)
      PROVE  j \in UNION {Reach(groups[g]) : g \in 1 .. n}
  <2>1. PICK p \in DOMAIN rs : j \in Span(rs[p])
    BY DEF Reach
  <2> DEFINE G == {g \in 0 .. n : p <= e[g]}
  <2>2. G \in SUBSET Nat /\ n \in G
    BY <1>1 DEF Cuts
  <2>3. PICK g \in G : \A h \in G : g <= h
    <3> HIDE DEF G
    <3>1. G # {}
      BY <2>2
    <3> QED BY <2>2, <3>1, Means!LeastElement
  <2>4. g # 0 /\ g \in 1 .. n
    BY <1>1, <2>3 DEF Cuts
  <2>5. PICK a \in Nat, b \in Nat :
          a = e[g - 1] /\ b = e[g] /\ a <= b /\ IsPiece(groups[g], rs, a, b)
    BY <1>2, <2>4
  <2>6. a < p /\ p <= b
    <3>1. g - 1 \in 0 .. n /\ g - 1 \notin G
      BY <2>3, <2>4
    <3> QED BY <1>1, <2>3, <2>5, <3>1
  <2>7. p - a \in 1 .. b - a /\ a + (p - a) = p
    BY <1>1, <2>5, <2>6
  <2>8. groups[g][p - a] = rs[p]
    BY <2>5, <2>7 DEF IsPiece
  <2>9. j \in Reach(groups[g])
    <3>1. p - a \in DOMAIN groups[g]
      BY <2>5, <2>7 DEF IsPiece
    <3> QED BY <2>1, <2>8, <3>1 DEF Reach
  <2> QED BY <2>4, <2>9
<1>6. ASSUME NEW g \in 1 .. n
      PROVE  Reach(groups[g]) \subseteq Reach(rs)
  <2>1. PICK a \in Nat, b \in Nat : IsPiece(groups[g], rs, a, b)
    BY <1>2
  <2>2. \A i \in DOMAIN groups[g] : groups[g][i] = rs[a + i] /\ a + i \in DOMAIN rs
    BY <2>1 DEF IsPiece
  <2> QED BY <2>2 DEF Reach
<1> QED BY <1>3, <1>4, <1>5, <1>6 DEF Deals, groups

LEMMA GroupsDeal ==
  ASSUME NEW rs \in Seq(Runnables), Ordered(rs), NEW n \in Nat \ {0}
  PROVE  Deals(Groups(rs, n), n, rs)
<1> DEFINE per == Len(rs) \div n
           extra == Len(rs) - per * n
           end(g) == g * per + (IF g <= extra THEN g ELSE extra)
<1>1. PICK groups : groups = Groups(rs, n)
  OBVIOUS
<1>2. groups = [g \in 1 .. n |-> SubSeq(rs, end(g - 1) + 1, end(g))]
  BY <1>1 DEF Groups
<1>3. Len(rs) \in Nat
  OBVIOUS
<1>4. PICK q \in Nat, x \in Nat : q = per /\ x = extra /\ x < n /\ Len(rs) = n * q + x
  <2>1. PICK l \in Nat : l = Len(rs)
    OBVIOUS
  <2>2. l % n \in Nat /\ l % n < n /\ l = n * (l \div n) + (l % n) /\ l \div n \in Nat
    BY Remainder, Division
  <2>3. PICK q \in Nat, x \in Nat : q = l \div n /\ x = l % n /\ x < n /\ l = n * q + x
    BY <2>2
  <2>4. l - q * n = x
    BY <2>3
  <2> QED BY <2>1, <2>3, <2>4
<1> HIDE DEF per, extra
<1>5. PICK e : e = [g \in 0 .. n |-> end(g)]
  OBVIOUS
<1>6. \A g \in 0 .. n : e[g] = g * q + (IF g <= x THEN g ELSE x)
  BY <1>4, <1>5
<1>7. e \in [0 .. n -> Nat]
  <2>1. \A g \in 0 .. n : g * q \in Nat
    OBVIOUS
  <2>2. \A g \in 0 .. n : end(g) \in Nat
    BY <1>4, <2>1
  <2> QED BY <1>5, <2>2
<1>8. e[0] = 0 /\ e[n] = Len(rs)
  <2>1. 0 \in 0 .. n /\ n \in 0 .. n
    OBVIOUS
  <2>2. 0 * q = 0
    OBVIOUS
  <2> QED BY <1>4, <1>6, <2>1, <2>2
<1>9. ASSUME NEW g \in 0 .. n, NEW h \in 0 .. n, g <= h
      PROVE  e[g] <= e[h]
  <2>1. PICK c \in Nat : h = g + c
    <3>1. h - g \in Nat /\ h = g + (h - g)
      BY <1>9
    <3> QED BY <3>1
  <2>2. h * q = g * q + c * q /\ g * q \in Nat /\ c * q \in Nat
    BY <2>1
  <2>3. (IF g <= x THEN g ELSE x) <= (IF h <= x THEN h ELSE x)
    BY <1>4, <1>9
  <2>4. PICK a \in Nat, b \in Nat : a = (IF g <= x THEN g ELSE x) /\ b = (IF h <= x THEN h ELSE x) /\ a <= b
    BY <1>4, <2>3
  <2> QED BY <1>6, <2>2, <2>4
<1>10. groups = Pieces(e, n, rs)
  <2>1. \A g \in 1 .. n : g - 1 \in 0 .. n /\ g \in 0 .. n
    OBVIOUS
  <2>2. \A g \in 1 .. n : e[g - 1] = end(g - 1) /\ e[g] = end(g)
    BY <1>5, <2>1
  <2> HIDE DEF end
  <2> QED BY <1>2, <2>2 DEF Pieces
<1>11. Cuts(e, n, Len(rs))
  BY <1>7, <1>8, <1>9 DEF Cuts
<1> QED BY <1>1, <1>10, <1>11, PiecesDeal
-----------------------------------------------------------------------------
(* Which jobs are a thread's own: those of the list it was created with.   *)

Calling == {"starting", "joining"}
\* The threads whose work has not been taken over by the thread that called
\* them: the outermost one, and the children of a call that is under way.
Current ==
  {t \in DOMAIN threads :
     t = Main \/ \E u \in DOMAIN threads, k \in Places :
       t = Child(u, k) /\ threads[u].state \in Calling /\ k <= threads[u].children}

\* What a thread has done of its own jobs: those that are not on its list any
\* more, in order, without an exception; or all up to the first that fails.
Progress(thread, own) ==
  /\ own \subseteq Jobs /\ Reach(thread.todo) \subseteq own /\ Ordered(thread.todo)
  /\ thread.exception = NoException =>
       /\ Before(own \ Reach(thread.todo), Reach(thread.todo))
       /\ \A j \in own \ Reach(thread.todo) : times[j] = 1 /\ j \notin failing
  /\ thread.exception # NoException =>
       /\ thread.todo = <<>> /\ thread.exception \in own \cap failing
       /\ \A j \in own : j <= thread.exception =>
            times[j] = 1 /\ (j \in failing => j = thread.exception)
  /\ thread.state \in {"created", "running"} => \A j \in Reach(thread.todo) : times[j] = 0
  /\ thread.state \in Calling => \A j \in Reach(Tail(thread.todo)) : times[j] = 0
  /\ thread.state = "terminated" => thread.todo = <<>>

\* A thread that calls others has handed them the jobs of its next runnable.
Front(t) == Span(Head(threads[t].todo))
Owned(own) ==
  /\ own[Main] = Jobs
  /\ \A t \in Current : Progress(threads[t], own[t])
  /\ \A t \in Current : threads[t].state \in Calling =>
       /\ \A k, l \in 1 .. threads[t].children :
            k < l => Before(own[Child(t, k)], own[Child(t, l)])
       /\ Front(t) = UNION {own[Child(t, k)] : k \in 1 .. threads[t].children}
  /\ \A u, v \in Current :
       /\ Above(u, v) => own[v] \subseteq Front(u)
       /\ u # v /\ ~ Above(u, v) /\ ~ Above(v, u) => own[u] \cap own[v] = {}
Pending ==
  /\ failing \subseteq Jobs /\ times \in [Jobs -> {0, 1}]
  /\ \E own : Owned(own)

LEMMA SpansStay ==
  ASSUME UNCHANGED program
  PROVE  /\ Jobs' = Jobs /\ \A r : Span(r)' = Span(r)
         /\ \A rs : Reach(rs)' = Reach(rs) /\ (Ordered(rs)' <=> Ordered(rs))
<1>1. Jobs' = Jobs /\ \A r : Span(r)' = Span(r)
  BY DEF Jobs, JobsOf, Span
<1>2. \A rs : Reach(rs)' = Reach(rs)
  BY <1>1 DEF Reach
<1>3. \A rs : Ordered(rs)' <=> Ordered(rs)
  BY <1>1 DEF Ordered
<1> QED BY <1>1, <1>2, <1>3

LEMMA JobsAreNumbers ==
  ASSUME program \in Programs
  PROVE  Jobs \subseteq Runnables /\ Runnables \subseteq Nat \ {0}
BY NumberingAssumption DEF Jobs, JobsOf, Runnables

\* A job that another thread does is not on the list of this one, or it is one
\* of those that were handed on.
LEMMA ProgressStays ==
  ASSUME program \in Programs, NEW thread, NEW own, Progress(thread, own),
         UNCHANGED <<program, failing>>,
         thread.todo \in Seq(Runnables), thread.state \in Calling => thread.todo # <<>>,
         NEW job, \A j \in own : j # job => times'[j] = times[j],
         job \in own => times'[job] = 1,
         job \in Reach(thread.todo) => thread.state \in Calling /\ job \in Span(Head(thread.todo))
  PROVE  Progress(thread, own)'
<1>1. Jobs' = Jobs /\ Reach(thread.todo)' = Reach(thread.todo)
      /\ (Ordered(thread.todo)' <=> Ordered(thread.todo))
      /\ Reach(Tail(thread.todo))' = Reach(Tail(thread.todo))
  BY SpansStay
<1>2. ASSUME thread.state \in Calling, job \in Reach(Tail(thread.todo))
      PROVE  FALSE
  <2>1. /\ job \in Reach(thread.todo)
        /\ Before(Span(Head(thread.todo)), Reach(Tail(thread.todo)))
    BY <1>2, ReachTail DEF Progress
  <2>2. job \in Span(Head(thread.todo))
    BY <2>1
  <2>3. job < job
    BY <1>2, <2>1, <2>2 DEF Before
  <2>4. job \in Nat
    BY <2>2, JobsAreNumbers DEF Span
  <2> QED BY <2>3, <2>4
<1>3. /\ own \subseteq Jobs' /\ Reach(thread.todo)' \subseteq own /\ Ordered(thread.todo)'
  BY <1>1 DEF Progress
<1>4. thread.exception = NoException =>
        /\ Before(own \ Reach(thread.todo)', Reach(thread.todo)')
        /\ \A j \in own \ Reach(thread.todo)' : times'[j] = 1 /\ j \notin failing'
  BY <1>1 DEF Progress
<1>5. thread.exception # NoException =>
        /\ thread.todo = <<>> /\ thread.exception \in own \cap failing'
        /\ \A j \in own : j <= thread.exception =>
             times'[j] = 1 /\ (j \in failing' => j = thread.exception)
  BY DEF Progress
<1>6. thread.state \in {"created", "running"} => \A j \in Reach(thread.todo)' : times'[j] = 0
  BY <1>1 DEF Progress, Calling
<1>7. thread.state \in Calling => \A j \in Reach(Tail(thread.todo))' : times'[j] = 0
  <2> SUFFICES ASSUME thread.state \in Calling, NEW j \in Reach(Tail(thread.todo))
               PROVE  times'[j] = 0
    BY <1>1
  <2>1. j \in own /\ times[j] = 0
    BY ReachTail DEF Progress
  <2> QED BY <1>2, <2>1
<1> QED BY <1>3, <1>4, <1>5, <1>6, <1>7 DEF Progress

LEMMA LiveCurrent ==
  ASSUME Threads
  PROVE  Live \subseteq Current /\ Current \subseteq DOMAIN threads /\ Current \subseteq Seq(Nat)
         /\ Main \in Current
<1>1. Current \subseteq DOMAIN threads /\ Current \subseteq Seq(Nat) /\ Main \in Current
  BY DEF Current, Threads, Tree
<1>2. ASSUME NEW v \in Live, v # Main
      PROVE  v \in Current
  <2>1. PICK u \in DOMAIN threads, k \in Places : v = Child(u, k)
    BY <1>2 DEF Live, Threads, Tree
  <2>2. Family(threads[u], States(u)) /\ IsThread(threads[u]) /\ IsThread(threads[v])
    BY DEF Threads, Live
  <2>3. States(u)[k] = threads[v].state /\ threads[v].state \notin {"none", "terminated"}
    BY <2>1, <2>2 DEF States, StateAt, Live, IsThread, Active
  <2>4. threads[u].state \in Calling
    BY <2>2, <2>3 DEF Family, Calling
  <2>5. ~ (k > threads[u].children)
    BY <2>2, <2>3, <2>4 DEF Family, Calling
  <2>6. k <= threads[u].children
    BY <2>2, <2>5 DEF IsThread, Places
  <2> QED BY <2>1, <2>4, <2>6 DEF Current, Live
<1> QED BY <1>1, <1>2

\* What is above a current thread is calling it.
LEMMA AboveCurrent ==
  ASSUME Threads, Rooted, NEW v \in Current, NEW u \in Seq(Nat), Above(u, v)
  PROVE  u \in Live /\ u \in Current /\ threads[u].state \in Calling
<1>1. v # Main
  <2>1. Len(Main) = 0 /\ Len(u) \in Nat
    BY DEF Main
  <2> QED BY <2>1 DEF Above
<1>2. PICK w \in DOMAIN threads, k \in Places : v = Child(w, k) /\ threads[w].state \in Calling
  BY <1>1 DEF Current
<1>3. w \in Live /\ w \in Seq(Nat) /\ k \in Nat
  BY <1>2 DEF Live, Calling, Threads, Tree, Places
<1>4. u = w \/ Above(u, w)
  BY <1>2, <1>3, AboveChild
<1>5. u \in Live /\ threads[u].state \in Calling
  <2>1. CASE u = w
    BY <1>2, <1>3, <2>1
  <2>2. CASE Above(u, w)
    BY <1>3, <2>2, NoneBelow DEF Rooted, Calling
  <2> QED BY <1>4, <2>1, <2>2
<1> QED BY <1>5, LiveCurrent

\* The children of a call that is under way are there.
LEMMA ChildrenCurrent ==
  ASSUME Threads, NEW t \in DOMAIN threads, threads[t].state \in Calling,
         NEW k \in 1 .. threads[t].children
  PROVE  /\ k \in Places /\ Child(t, k) \in Current
         /\ threads[t].state = "joining" /\ threads[t].at = threads[t].children =>
              threads[Child(t, k)].state = "terminated"
<1>1. Family(threads[t], States(t)) /\ IsThread(threads[t])
  BY DEF Threads
<1>2. PICK c \in Nat, a \in Nat : c = threads[t].children /\ a = threads[t].at
  BY <1>1 DEF IsThread
<1>3. k \in Places /\ k <= c /\ (k <= a \/ k > a)
  BY <1>2 DEF Places
<1>4. States(t)[k] # "none"
  BY <1>1, <1>2, <1>3 DEF Family, Calling, Active
<1>5. Child(t, k) \in DOMAIN threads /\ States(t)[k] = threads[Child(t, k)].state
  BY <1>3, <1>4 DEF States, StateAt
<1>6. threads[t].state = "joining" /\ a = c => States(t)[k] = "terminated"
  BY <1>1, <1>2, <1>3 DEF Family
<1> QED BY <1>2, <1>3, <1>5, <1>6 DEF Current

LEMMA CurrentKept ==
  ASSUME Threads, DOMAIN threads' = DOMAIN threads,
         \A u \in DOMAIN threads :
           /\ threads'[u].state \in Calling <=> threads[u].state \in Calling
           /\ threads[u].state \in Calling => threads'[u].children = threads[u].children
  PROVE  Current' = Current
BY DEF Current

\* Steps that change the lists of no thread that is calling.
LEMMA PendingKept ==
  ASSUME Threads, Pending, NEW own, Owned(own), UNCHANGED <<program, failing>>,
         times' \in [Jobs -> {0, 1}], Current' = Current,
         \A t \in Current : Progress(threads[t], own[t])',
         \A t \in Current : threads'[t].state \in Calling =>
           /\ threads[t].state \in Calling /\ threads'[t].children = threads[t].children
           /\ threads'[t].todo = threads[t].todo,
         \A u, v \in Current : Above(u, v) => threads'[u].todo = threads[u].todo
  PROVE  Pending'
<1>1. Jobs' = Jobs /\ \A r : Span(r)' = Span(r)
  BY SpansStay
<1>2. \A t \in Current : threads'[t].todo = threads[t].todo => Front(t)' = Front(t)
  BY <1>1 DEF Front
<1>3. ASSUME NEW t \in Current, threads'[t].state \in Calling
      PROVE  /\ \A k, l \in 1 .. threads'[t].children :
                  k < l => Before(own[Child(t, k)], own[Child(t, l)])
             /\ Front(t)' = UNION {own[Child(t, k)] : k \in 1 .. threads'[t].children}
  BY <1>2, <1>3 DEF Owned
<1>4. ASSUME NEW u \in Current, NEW v \in Current
      PROVE  /\ Above(u, v) => own[v] \subseteq Front(u)'
             /\ u # v /\ ~ Above(u, v) /\ ~ Above(v, u) => own[u] \cap own[v] = {}
  BY <1>2 DEF Owned
<1>5. own[Main] = Jobs
  BY DEF Owned
<1>6. Owned(own)'
  BY <1>1, <1>3, <1>4, <1>5 DEF Owned
<1> QED BY <1>1, <1>6 DEF Pending

LEMMA ProgressSame ==
  ASSUME NEW thread, NEW own, Progress(thread, own), UNCHANGED <<program, failing, times>>
  PROVE  Progress(thread, own)'
<1>1. Jobs' = Jobs /\ (\A rs : Reach(rs)' = Reach(rs) /\ (Ordered(rs)' <=> Ordered(rs)))
  BY SpansStay
<1>2. /\ Reach(thread.todo)' = Reach(thread.todo) /\ (Ordered(thread.todo)' <=> Ordered(thread.todo))
      /\ Reach(Tail(thread.todo))' = Reach(Tail(thread.todo))
  BY SpansStay
<1> QED BY <1>1, <1>2 DEF Progress

\* A step of a thread that goes on with a call or with its own work.
LEMMA OnePending ==
  ASSUME Threads, Shared, Pending, NEW own, Owned(own),
         NEW t \in DOMAIN threads, threads[t].state # "terminated",
         NEW self, Become(t, self), UNCHANGED <<program, failing>>,
         times' \in [Jobs -> {0, 1}],
         self.state \in Calling <=> threads[t].state \in Calling,
         threads[t].state \in Calling =>
           self.children = threads[t].children /\ self.todo = threads[t].todo,
         Progress(self, own[t])',
         \A u \in Current : u # t => \A thread : thread = threads[u] => Progress(thread, own[u])'
  PROVE  Pending'
<1>1. t \in Current /\ Current \subseteq DOMAIN threads /\ Current \subseteq Seq(Nat)
  BY LiveCurrent DEF Live
<1>2. /\ DOMAIN threads' = DOMAIN threads /\ threads'[t] = self
      /\ \A u \in DOMAIN threads : u # t => threads'[u] = threads[u]
  BY DEF Become, Threads
<1>3. Current' = Current
  BY <1>2, CurrentKept
<1>4. ASSUME NEW u \in Current
      PROVE  Progress(threads[u], own[u])'
  <2>1. CASE u = t
    <3>1. Progress(threads[t], own[t])'
      BY <1>2 DEF Progress
    <3> QED BY <2>1, <3>1
  <2>2. CASE u # t
    <3>1. PICK thread : thread = threads[u]
      OBVIOUS
    <3>2. Progress(thread, own[u])' /\ threads'[u] = thread
      BY <1>1, <1>2, <2>2, <3>1
    <3> QED BY <3>2 DEF Progress
  <2> QED BY <2>1, <2>2
<1>5. \A u \in Current : threads'[u].state \in Calling =>
        /\ threads[u].state \in Calling /\ threads'[u].children = threads[u].children
        /\ threads'[u].todo = threads[u].todo
  BY <1>1, <1>2
<1>6. ASSUME NEW u \in Current, NEW v \in Current, Above(u, v)
      PROVE  threads'[u].todo = threads[u].todo
  <2>1. u \in Seq(Nat) /\ u \in DOMAIN threads /\ Rooted
    BY <1>1 DEF Shared
  <2>2. threads[u].state \in Calling
    BY <1>6, <2>1, AboveCurrent
  <2> QED BY <1>2, <2>1, <2>2
<1> QED BY <1>3, <1>4, <1>5, <1>6, PendingKept

\* The same when no job is done.
LEMMA QuietPending ==
  ASSUME Threads, Shared, Pending, NEW own, Owned(own),
         NEW t \in DOMAIN threads, threads[t].state # "terminated",
         NEW self, Become(t, self), UNCHANGED <<program, failing, times>>,
         self.state \in Calling <=> threads[t].state \in Calling,
         threads[t].state \in Calling =>
           self.children = threads[t].children /\ self.todo = threads[t].todo,
         Progress(self, own[t])
  PROVE  Pending'
<1>1. Progress(self, own[t])'
  BY ProgressSame
<1>2. ASSUME NEW u \in Current, u # t, NEW thread, thread = threads[u]
      PROVE  Progress(thread, own[u])'
  <2>1. Progress(thread, own[u])
    BY <1>2 DEF Owned
  <2> QED BY <2>1, ProgressSame
<1>3. times' \in [Jobs -> {0, 1}]
  BY DEF Pending
<1> QED BY <1>1, <1>2, <1>3, OnePending

LEMMA ExitPending ==
  ASSUME Threads, Shared, Pending, NEW t \in DOMAIN threads, Exit(t)
  PROVE  Pending'
<1>1. /\ threads[t].state = "running" /\ threads[t].todo = <<>>
      /\ UNCHANGED <<program, failing, times>> /\ IsThread(threads[t])
  BY DEF Exit, Is, Threads
<1>2. PICK self : self = [threads[t] EXCEPT !.state = "terminated"]
  OBVIOUS
<1>3. Become(t, self)
  BY <1>2 DEF Exit
<1>4. /\ self.state = "terminated" /\ self.todo = threads[t].todo
      /\ self.exception = threads[t].exception
  BY <1>1, <1>2 DEF IsThread
<1>5. PICK own : Owned(own)
  BY DEF Pending
<1>6. Progress(threads[t], own[t])
  BY <1>1, <1>5, LiveCurrent DEF Owned, Live
<1>7. Progress(self, own[t])
  BY <1>1, <1>4, <1>6 DEF Progress, Calling
<1> QED BY <1>1, <1>3, <1>4, <1>5, <1>7, QuietPending DEF Calling

LEMMA JoinThreadPending ==
  ASSUME Threads, Shared, Pending, NEW t \in DOMAIN threads, JoinThread(t)
  PROVE  Pending'
<1>1. /\ threads[t].state = "joining"
      /\ UNCHANGED <<program, failing, times>> /\ IsThread(threads[t])
  BY DEF JoinThread, Is, Threads
<1>2. PICK self : self = [threads[t] EXCEPT !.at = @ + 1]
  OBVIOUS
<1>3. Become(t, self)
  BY <1>2 DEF JoinThread
<1>4. /\ self.state = threads[t].state /\ self.todo = threads[t].todo
      /\ self.exception = threads[t].exception /\ self.children = threads[t].children
  BY <1>1, <1>2 DEF IsThread
<1>5. PICK own : Owned(own)
  BY DEF Pending
<1>6. Progress(threads[t], own[t])
  BY <1>1, <1>5, LiveCurrent DEF Owned, Live
<1>7. Progress(self, own[t])
  BY <1>4, <1>6 DEF Progress
<1> QED BY <1>1, <1>3, <1>4, <1>5, <1>7, QuietPending

\* A child that is started goes on as it was created.
LEMMA StartThreadPending ==
  ASSUME Threads, Shared, Pending, NEW t \in DOMAIN threads, StartThread(t)
  PROVE  Pending'
<1>1. /\ threads[t].state = "starting" /\ UNCHANGED <<program, failing, times>>
      /\ IsThread(threads[t]) /\ Family(threads[t], States(t)) /\ t \in Seq(Nat)
  BY DEF StartThread, Is, Threads, Tree
<1>2. PICK k \in Places : k = threads[t].at + 1
  BY <1>1 DEF IsThread, Places
<1>3. PICK c : c = Child(t, k)
  OBVIOUS
<1>4. k <= threads[t].children /\ k > threads[t].at /\ k \in Nat
  BY <1>1, <1>2 DEF Family, IsThread, Places
<1>5. c \in DOMAIN threads /\ threads[c].state = "created" /\ c # t
  <2>1. States(t)[k] = "created"
    BY <1>1, <1>2, <1>4 DEF Family
  <2>2. c # t
    BY <1>1, <1>3, <1>4, ChildName
  <2> QED BY <1>3, <2>1, <2>2 DEF States, StateAt
<1>6. IsThread(threads[c])
  BY <1>5 DEF Threads
<1>7. /\ DOMAIN threads' = DOMAIN threads
      /\ \A u \in DOMAIN threads : u # t /\ u # c => threads'[u] = threads[u]
      /\ threads'[t].todo = threads[t].todo /\ threads'[t].exception = threads[t].exception
      /\ threads'[t].children = threads[t].children /\ threads'[t].state \in Calling
      /\ threads'[c].todo = threads[c].todo /\ threads'[c].exception = threads[c].exception
      /\ threads'[c].state = "running"
  <2>1. PICK self : self = [threads[t] EXCEPT !.at = IF k = threads[t].children THEN 0 ELSE k,
                                              !.state = IF k = threads[t].children THEN "joining" ELSE @]
    OBVIOUS
  <2>2. PICK child : child = [threads[c] EXCEPT !.state = "running"]
    OBVIOUS
  <2>3. threads' = [threads EXCEPT ![t] = self, ![c] = child]
    BY <1>2, <1>3, <1>5, <2>1, <2>2 DEF StartThread, Threads
  <2>4. /\ self.todo = threads[t].todo /\ self.exception = threads[t].exception
        /\ self.children = threads[t].children /\ self.state \in Calling
    BY <1>1, <2>1 DEF IsThread, Calling
  <2>5. /\ child.todo = threads[c].todo /\ child.exception = threads[c].exception
        /\ child.state = "running"
    BY <1>6, <2>2 DEF IsThread
  <2>6. /\ DOMAIN threads' = DOMAIN threads /\ threads'[t] = self /\ threads'[c] = child
        /\ \A u \in DOMAIN threads : u # t /\ u # c => threads'[u] = threads[u]
    BY <1>5, <2>3 DEF Threads
  <2> QED BY <2>4, <2>5, <2>6
<1>8. PICK own : Owned(own)
  BY DEF Pending
<1>9. Current \subseteq DOMAIN threads
  BY LiveCurrent
<1>10. ASSUME NEW u \in Current
       PROVE  Progress(threads[u], own[u])'
  <2>1. PICK thread : thread = threads'[u]
    OBVIOUS
  <2>2. /\ thread.todo = threads[u].todo /\ thread.exception = threads[u].exception
        /\ thread.state \in {"created", "running"} => threads[u].state \in {"created", "running"}
        /\ thread.state \in Calling => threads[u].state \in Calling
        /\ thread.state = "terminated" => threads[u].state = "terminated"
    BY <1>1, <1>5, <1>7, <1>9, <2>1 DEF Calling
  <2>3. Progress(threads[u], own[u])
    BY <1>8 DEF Owned
  <2>4. Progress(thread, own[u])
    BY <2>2, <2>3 DEF Progress
  <2>5. Progress(thread, own[u])'
    BY <1>1, <2>4, ProgressSame
  <2> QED BY <2>1, <2>5 DEF Progress
<1>11. Current' = Current
  <2>1. \A u \in DOMAIN threads :
          /\ threads'[u].state \in Calling <=> threads[u].state \in Calling
          /\ threads[u].state \in Calling => threads'[u].children = threads[u].children
    BY <1>1, <1>5, <1>7 DEF Calling
  <2> QED BY <1>7, <2>1, CurrentKept
<1>12. \A u \in Current :
         /\ threads'[u].todo = threads[u].todo
         /\ threads'[u].state \in Calling =>
              threads[u].state \in Calling /\ threads'[u].children = threads[u].children
  BY <1>1, <1>5, <1>7, <1>9 DEF Calling
<1>13. times' \in [Jobs -> {0, 1}]
  BY <1>1 DEF Pending
<1> QED BY <1>1, <1>8, <1>10, <1>11, <1>12, <1>13, PendingKept

\* What a working thread does next is its own.
LEMMA NextRunnable ==
  ASSUME Threads, NEW t \in DOMAIN threads, threads[t].state = "running",
         threads[t].todo # <<>>, NEW own, Owned(own), NEW r, r = Head(threads[t].todo)
  PROVE  /\ t \in Current /\ Progress(threads[t], own[t]) /\ program \in Programs
         /\ threads[t].exception = NoException
         /\ r \in Runnables /\ threads[t].todo \in Seq(Runnables)
         /\ Tail(threads[t].todo) \in Seq(Runnables)
         /\ Reach(threads[t].todo) = Span(r) \cup Reach(Tail(threads[t].todo))
         /\ Ordered(Tail(threads[t].todo)) /\ Before(Span(r), Reach(Tail(threads[t].todo)))
         /\ \A j \in Reach(threads[t].todo) : times[j] = 0
<1>1. t \in Current /\ Progress(threads[t], own[t]) /\ IsThread(threads[t]) /\ program \in Programs
  BY LiveCurrent DEF Live, Owned, Threads
<1>2. threads[t].todo \in Seq(Runnables)
  BY <1>1 DEF IsThread
<1>3. r \in Runnables /\ Tail(threads[t].todo) \in Seq(Runnables)
  BY <1>2
<1>4. /\ Reach(threads[t].todo) = Span(r) \cup Reach(Tail(threads[t].todo))
      /\ Ordered(threads[t].todo) =>
           Ordered(Tail(threads[t].todo)) /\ Before(Span(r), Reach(Tail(threads[t].todo)))
  BY <1>2, ReachTail
<1>5. /\ Ordered(threads[t].todo) /\ threads[t].exception = NoException
      /\ \A j \in Reach(threads[t].todo) : times[j] = 0
  BY <1>1 DEF Progress
<1> QED BY <1>1, <1>2, <1>3, <1>4, <1>5

LEMMA JobPending ==
  ASSUME Threads, Shared, Pending, NEW t \in DOMAIN threads, Job(t)
  PROVE  Pending' /\ times[Head(threads[t].todo)] = 0 /\ Head(threads[t].todo) \in Jobs
<1>1. /\ threads[t].state = "running" /\ threads[t].todo # <<>>
      /\ UNCHANGED <<program, failing>> /\ IsThread(threads[t]) /\ t \in Seq(Nat)
  BY DEF Job, Is, Threads, Tree
<1>2. PICK r : r = Head(threads[t].todo)
  OBVIOUS
<1>3. PICK tl : tl = Tail(threads[t].todo)
  OBVIOUS
<1>4. PICK own : Owned(own)
  BY DEF Pending
<1>5. /\ t \in Current /\ Progress(threads[t], own[t]) /\ program \in Programs
      /\ threads[t].exception = NoException
      /\ r \in Runnables /\ threads[t].todo \in Seq(Runnables) /\ tl \in Seq(Runnables)
      /\ Reach(threads[t].todo) = Span(r) \cup Reach(tl)
      /\ Ordered(tl) /\ Before(Span(r), Reach(tl))
      /\ \A j \in Reach(threads[t].todo) : times[j] = 0
  BY <1>1, <1>2, <1>3, <1>4, NextRunnable
<1>6. r \in Jobs /\ Span(r) = {r} /\ Jobs \subseteq Nat \ {0}
  <2>1. kids(r) = <<>>
    BY <1>2 DEF Job
  <2> QED BY <1>5, <2>1, NumberingFacts, JobsAreNumbers
<1>7. times[r] = 0 /\ r \in own[t]
  BY <1>5, <1>6 DEF Progress
<1>8. /\ times' = [times EXCEPT ![r] = @ + 1] /\ times \in [Jobs -> {0, 1}]
  BY <1>2 DEF Job, Pending
<1>9. /\ times' \in [Jobs -> {0, 1}] /\ times'[r] = 1
      /\ \A j \in Jobs : j # r => times'[j] = times[j]
  BY <1>6, <1>7, <1>8
<1>10. PICK self : self = IF r \in failing THEN [threads[t] EXCEPT !.todo = <<>>, !.exception = r]
                          ELSE [threads[t] EXCEPT !.todo = tl]
  OBVIOUS
<1>11. Become(t, self) /\ self.state = "running"
  BY <1>1, <1>2, <1>3, <1>10 DEF Job, IsThread
<1>12. ASSUME NEW u \in Current, u # t, NEW thread, thread = threads[u]
       PROVE  Progress(thread, own[u])'
  <2>1. /\ Progress(thread, own[u]) /\ IsThread(thread) /\ u \in Seq(Nat) /\ u \in DOMAIN threads
    BY <1>12, <1>4, LiveCurrent DEF Owned, Threads
  <2>2. ~ Above(t, u)
    BY <1>1, <1>12, AboveCurrent DEF Shared, Calling
  <2>3. r \in own[u] => Above(u, t)
    BY <1>4, <1>5, <1>7, <1>12, <2>2 DEF Owned
  <2>4. Above(u, t) => thread.state \in Calling /\ r \in Span(Head(thread.todo))
    BY <1>4, <1>5, <1>7, <1>12, <2>1, AboveCurrent DEF Owned, Front, Shared
  <2>5. /\ thread.todo \in Seq(Runnables) /\ (thread.state \in Calling => thread.todo # <<>>)
        /\ own[u] \subseteq Jobs /\ Reach(thread.todo) \subseteq own[u]
    BY <2>1 DEF IsThread, Calling, Progress
  <2>6. \A j \in own[u] : j # r => times'[j] = times[j]
    BY <1>9, <2>5
  <2> QED BY <1>1, <1>5, <1>9, <2>1, <2>3, <2>4, <2>5, <2>6, ProgressStays
<1>13. Progress(self, own[t])'
  <2> DEFINE o == own[t]
  <2>1. /\ o \subseteq Jobs /\ Reach(threads[t].todo) \subseteq o
        /\ Before(o \ Reach(threads[t].todo), Reach(threads[t].todo))
        /\ \A j \in o \ Reach(threads[t].todo) : times[j] = 1 /\ j \notin failing
    BY <1>5 DEF Progress
  <2> HIDE DEF o
  <2>2. r \notin Reach(tl)
    <3>1. ~ r < r
      BY <1>6
    <3> QED BY <1>5, <1>6, <3>1 DEF Before
  <2>3. /\ Jobs' = Jobs /\ Reach(tl)' = Reach(tl) /\ (Ordered(tl)' <=> Ordered(tl))
        /\ Reach(<<>>)' = {} /\ Ordered(<<>>)'
    <3>1. Reach(tl)' = Reach(tl) /\ (Ordered(tl)' <=> Ordered(tl)) /\ Jobs' = Jobs
      BY <1>1, SpansStay
    <3>2. Reach(<<>>)' = {} /\ Ordered(<<>>)'
      BY DEF Reach, Ordered
    <3> QED BY <3>1, <3>2
  <2>4. \A j \in Reach(tl) : times'[j] = 0
    <3>1. \A j \in Reach(tl) : j \in Jobs /\ j # r /\ times[j] = 0
      BY <1>5, <2>1, <2>2
    <3> QED BY <1>9, <3>1
  <2>5. CASE r \notin failing
    <3>1. self.todo = tl /\ self.exception = NoException
      BY <1>1, <1>5, <1>10, <2>5 DEF IsThread
    <3>2. o \ Reach(tl) = (o \ Reach(threads[t].todo)) \cup {r}
      BY <1>5, <1>6, <1>7, <2>2 DEF o
    <3>3. Before(o \ Reach(tl), Reach(tl))
      BY <1>5, <1>6, <2>1, <3>2 DEF Before
    <3>4. \A j \in o \ Reach(tl) : times'[j] = 1 /\ j \notin failing'
      BY <1>1, <1>9, <2>1, <2>5, <3>2
    <3> QED BY <1>5, <1>11, <2>1, <2>3, <2>4, <3>1, <3>3, <3>4 DEF Progress, Calling, Before, o
  <2>6. CASE r \in failing
    <3>1. self.todo = <<>> /\ self.exception = r /\ r # NoException
      BY <1>1, <1>6, <1>10, <2>6 DEF IsThread, NoException
    <3>2. \A j \in o : j <= r => times'[j] = 1 /\ (j \in failing' => j = r)
      <4> SUFFICES ASSUME NEW j \in o, j <= r
                   PROVE  times'[j] = 1 /\ (j \in failing => j = r)
        BY <1>1
      <4>1. CASE j = r
        BY <1>9, <4>1
      <4>2. CASE j # r
        <5>1. j \notin Reach(tl)
          <6>1. j \in Reach(tl) => r < j
            BY <1>5, <1>6 DEF Before
          <6>2. j \in Nat /\ r \in Nat
            BY <1>6, <2>1
          <6> QED BY <6>1, <6>2
        <5>2. j \in o \ Reach(threads[t].todo) /\ j \in Jobs
          BY <1>5, <1>6, <2>1, <4>2, <5>1
        <5> QED BY <1>9, <2>1, <4>2, <5>2
      <4> QED BY <4>1, <4>2
    <3> QED BY <1>1, <1>7, <1>11, <2>1, <2>3, <2>6, <3>1, <3>2 DEF Progress, Calling, o
  <2> QED BY <2>5, <2>6
<1>14. Pending'
  BY <1>1, <1>4, <1>9, <1>11, <1>12, <1>13, OnePending DEF Calling
<1> QED BY <1>2, <1>6, <1>7, <1>14

\* A call hands the jobs of the next runnable to the threads it creates.
LEMMA StartPending ==
  ASSUME Threads, Shared, Pending, NEW t \in DOMAIN threads, threads[t].state = "running",
         threads[t].todo # <<>>, UNCHANGED <<program, failing, times>>,
         NEW m \in Nat \ {0}, NEW groups \in [1 .. m -> Seq(Runnables)],
         NEW shares \in [1 .. m -> Nat \ {0}], Start(t, groups, shares),
         NEW ks, Deals(groups, m, ks), Span(Head(threads[t].todo)) = Reach(ks)
  PROVE  Pending'
<1> DEFINE New == {Child(t, k) : k \in 1 .. m}
<1>1. /\ t \in Seq(Nat) /\ IsThread(threads[t]) /\ Family(threads[t], States(t)) /\ Rooted
      /\ Current \subseteq DOMAIN threads /\ Current \subseteq Seq(Nat) /\ Main \in Current
      /\ threads[t].state \notin Calling
  BY LiveCurrent DEF Threads, Tree, Shared, Calling
<1>2. PICK own : Owned(own)
  BY DEF Pending
<1>3. PICK r : r = Head(threads[t].todo)
  OBVIOUS
<1>4. PICK tl : tl = Tail(threads[t].todo)
  OBVIOUS
<1>5. /\ t \in Current /\ Progress(threads[t], own[t])
      /\ threads[t].exception = NoException
      /\ Reach(threads[t].todo) = Span(r) \cup Reach(tl)
      /\ \A j \in Reach(threads[t].todo) : times[j] = 0
  BY <1>2, <1>3, <1>4, NextRunnable
<1>6. \A k \in 1 .. m : k \in Places /\ k \in Nat
  BY DEF Places
<1>7. ASSUME NEW k \in 1 .. m
      PROVE  /\ Child(t, k) \in Seq(Nat) /\ Child(t, k)[Len(Child(t, k))] = k
             /\ Len(Child(t, k)) = Len(t) + 1 /\ Len(t) \in Nat
             /\ Child(t, k) \notin Current /\ Child(t, k) # t
             /\ \A u \in Seq(Nat) : Above(u, Child(t, k)) <=> u = t \/ Above(u, t)
             /\ \A l \in 1 .. m : Child(t, k) = Child(t, l) => k = l
  <2>1. /\ Child(t, k) \in Seq(Nat) /\ Len(Child(t, k)) = Len(t) + 1 /\ Child(t, k)[Len(t) + 1] = k
        /\ Child(t, k) # t /\ Child(t, k) # Main /\ Len(t) \in Nat
    BY <1>1, <1>6, ChildName
  <2>2. \A u \in Seq(Nat) : Above(u, Child(t, k)) <=> u = t \/ Above(u, t)
    BY <1>1, <1>6, AboveChild
  <2>3. \A l \in 1 .. m : Child(t, k) = Child(t, l) => k = l
    BY <1>1, <1>6, ChildInjective
  <2>4. ASSUME Child(t, k) \in Current
        PROVE  FALSE
    <3>1. PICK u \in DOMAIN threads, j \in Places : Child(t, k) = Child(u, j) /\ threads[u].state \in Calling
      BY <2>1, <2>4 DEF Current
    <3>2. u \in Seq(Nat) /\ j \in Nat
      BY DEF Threads, Tree, Places
    <3>3. u = t
      BY <1>1, <1>6, <3>1, <3>2, ChildInjective
    <3> QED BY <1>1, <3>1, <3>3
  <2> QED BY <2>1, <2>2, <2>3, <2>4
<1>8. PICK self : self = [threads[t] EXCEPT !.state = "starting", !.at = 0, !.children = m]
  OBVIOUS
<1>9. /\ DOMAIN threads' = DOMAIN threads \cup New /\ threads'[t] = self
      /\ \A k \in 1 .. m : threads'[Child(t, k)] = Thread(groups[k], shares[k], "created")
      /\ \A u \in DOMAIN threads : u # t /\ u \notin New => threads'[u] = threads[u]
  <2>1. Started(t, m, groups, shares)
    BY <1>1, StartOutcome
  <2> QED BY <1>8, <2>1 DEF Started
<1>10. PICK own2 : own2 = [u \in Current \cup New |-> IF u \in New THEN Reach(groups[u[Len(u)]]) ELSE own[u]]
  OBVIOUS
<1>11. /\ \A k \in 1 .. m : Child(t, k) \in New
       /\ \A u \in New : \E k \in 1 .. m : u = Child(t, k)
       /\ \A u \in Current : u \notin New
  BY <1>7
<1>12. /\ \A u \in Current : own2[u] = own[u]
       /\ \A k \in 1 .. m : own2[Child(t, k)] = Reach(groups[k])
  BY <1>7, <1>10, <1>11
<1> HIDE DEF New
<1>13. /\ self.state = "starting" /\ self.children = m
       /\ self.todo = threads[t].todo /\ self.exception = threads[t].exception
  BY <1>1, <1>8 DEF IsThread
<1>14. \A u \in New : u \in DOMAIN threads => threads[u].state \notin Calling
  <2> SUFFICES ASSUME NEW k \in 1 .. m, Child(t, k) \in DOMAIN threads
               PROVE  threads[Child(t, k)].state \notin Calling
    BY <1>11
  <2>1. States(t)[k] \in {"none", "terminated"}
    BY <1>1, <1>6 DEF Family, Calling
  <2> QED BY <1>6, <2>1 DEF States, StateAt, Calling
<1>15. \A u \in New : threads'[u].state \notin Calling
  <2>1. \A k \in 1 .. m : Thread(groups[k], shares[k], "created").state \notin Calling
    BY DEF Thread, Calling
  <2> HIDE DEF Thread
  <2> QED BY <1>9, <1>11, <2>1
<1>16. Current' = Current \cup New
  <2>1. ASSUME NEW x \in Current'
        PROVE  x \in Current \cup New
    <3>1. CASE x = Main
      BY <1>1, <3>1
    <3>2. CASE x # Main
      <4>1. PICK u \in DOMAIN threads', k \in Places :
              x = Child(u, k) /\ threads'[u].state \in Calling /\ k <= threads'[u].children
        BY <3>2 DEF Current
      <4>2. CASE u = t
        <5>1. k \in 1 .. m
          BY <1>9, <1>13, <4>1, <4>2 DEF Places
        <5> QED BY <1>11, <4>1, <4>2, <5>1
      <4>3. CASE u # t
        <5>1. u \in DOMAIN threads /\ threads'[u] = threads[u]
          BY <1>9, <1>15, <4>1, <4>3
        <5>2. x \in DOMAIN threads \/ x \in New
          BY <1>9 DEF Current
        <5> QED BY <4>1, <5>1, <5>2 DEF Current
      <4> QED BY <4>2, <4>3
    <3> QED BY <3>1, <3>2
  <2>2. ASSUME NEW k \in 1 .. m
        PROVE  Child(t, k) \in Current'
    <3>1. t \in DOMAIN threads' /\ threads'[t].state \in Calling /\ k <= threads'[t].children
      BY <1>9, <1>13 DEF Calling
    <3>2. Child(t, k) \in DOMAIN threads' /\ k \in Places
      BY <1>6, <1>9, <1>11
    <3> QED BY <3>1, <3>2 DEF Current
  <2>3. ASSUME NEW x \in Current
        PROVE  x \in Current'
    <3>1. x \in DOMAIN threads'
      BY <1>1, <1>9
    <3>2. CASE x = Main
      BY <3>1, <3>2 DEF Current
    <3>3. CASE x # Main
      <4>1. PICK u \in DOMAIN threads, k \in Places :
              x = Child(u, k) /\ threads[u].state \in Calling /\ k <= threads[u].children
        BY <3>3 DEF Current
      <4>2. u # t /\ u \notin New
        BY <1>1, <1>14, <4>1
      <4>3. threads'[u] = threads[u] /\ u \in DOMAIN threads'
        BY <1>9, <4>2
      <4> QED BY <3>1, <4>1, <4>3 DEF Current
    <3> QED BY <3>2, <3>3
  <2> QED BY <1>11, <2>1, <2>2, <2>3
<1>17. /\ \A k \in 1 .. m : Ordered(groups[k]) /\ Reach(groups[k]) \subseteq Span(r)
       /\ \A k, l \in 1 .. m : k < l => Before(Reach(groups[k]), Reach(groups[l]))
       /\ Span(r) = UNION {Reach(groups[k]) : k \in 1 .. m}
  BY <1>3 DEF Deals
<1>18. /\ own[t] \subseteq Jobs /\ Reach(threads[t].todo) \subseteq own[t] /\ Span(r) \subseteq own[t]
       /\ \A j \in Span(r) : times[j] = 0
  BY <1>5 DEF Progress
<1>19. Jobs' = Jobs /\ (\A s : Span(s)' = Span(s)) /\ Jobs \subseteq Nat
  BY SpansStay, JobsAreNumbers DEF Threads
<1>20. ASSUME NEW u \in Current'
       PROVE  Progress(threads[u], own2[u])'
  <2>1. ASSUME NEW thread, thread = threads'[u], Progress(thread, own2[u])
        PROVE  Progress(threads[u], own2[u])'
    <3>1. Progress(thread, own2[u])'
      BY <2>1, ProgressSame
    <3> QED BY <2>1, <3>1 DEF Progress
  <2>2. CASE u = t
    <3>1. PICK thread : thread = threads'[u]
      OBVIOUS
    <3>2. thread.state = "starting" /\ thread.todo = threads[t].todo /\ thread.exception = NoException
      BY <1>5, <1>9, <1>13, <2>2, <3>1
    <3>3. \A j \in Reach(Tail(threads[t].todo)) : times[j] = 0
      BY <1>4, <1>5
    <3>4. Progress(thread, own[t])
      BY <1>5, <3>2, <3>3 DEF Progress, Calling
    <3> QED BY <1>5, <1>12, <2>1, <2>2, <3>1, <3>4
  <2>3. CASE u \in Current /\ u # t
    <3>1. PICK thread : thread = threads[u]
      OBVIOUS
    <3>2. threads'[u] = thread /\ Progress(thread, own2[u])
      BY <1>1, <1>2, <1>9, <1>11, <1>12, <2>3, <3>1 DEF Owned
    <3> QED BY <2>1, <3>2
  <2>4. CASE u \in New
    <3>1. PICK k \in 1 .. m : u = Child(t, k)
      BY <1>11, <2>4
    <3>2. PICK thread : thread = Thread(groups[k], shares[k], "created")
      OBVIOUS
    <3>3. /\ thread.todo = groups[k] /\ thread.exception = NoException /\ thread.state = "created"
      BY <3>2 DEF Thread
    <3>4. /\ Reach(groups[k]) \subseteq Jobs /\ Ordered(groups[k])
          /\ \A j \in Reach(groups[k]) : times[j] = 0
      BY <1>17, <1>18
    <3>5. Progress(thread, Reach(groups[k]))
      BY <3>3, <3>4 DEF Progress, Calling, Before
    <3> QED BY <1>9, <1>12, <2>1, <3>1, <3>2, <3>5
  <2> QED BY <1>16, <2>2, <2>3, <2>4
<1>21. ASSUME NEW u \in Current', threads'[u].state \in Calling
       PROVE  /\ \A k, l \in 1 .. threads'[u].children :
                   k < l => Before(own2[Child(u, k)], own2[Child(u, l)])
              /\ Front(u)' = UNION {own2[Child(u, k)] : k \in 1 .. threads'[u].children}
  <2>1. CASE u = t
    <3>1. threads'[t].children = m /\ Front(t)' = Span(r)
      BY <1>3, <1>9, <1>13, <1>19 DEF Front
    <3> QED BY <1>12, <1>17, <2>1, <3>1
  <2>2. CASE u # t
    <3>1. u \in Current /\ u \in DOMAIN threads /\ threads'[u] = threads[u]
      BY <1>1, <1>9, <1>11, <1>15, <1>16, <1>21, <2>2
    <3>2. \A k \in 1 .. threads[u].children : own2[Child(u, k)] = own[Child(u, k)]
      BY <1>12, <1>21, <3>1, ChildrenCurrent
    <3>3. /\ \A k, l \in 1 .. threads[u].children : k < l => Before(own[Child(u, k)], own[Child(u, l)])
          /\ Front(u) = UNION {own[Child(u, k)] : k \in 1 .. threads[u].children}
      BY <1>2, <1>21, <3>1 DEF Owned
    <3>4. Front(u)' = Front(u)
      BY <1>19, <3>1 DEF Front
    <3> QED BY <3>1, <3>2, <3>3, <3>4
  <2> QED BY <2>1, <2>2
<1>22. ASSUME NEW u \in Current
       PROVE  /\ ~ Above(t, u) /\ Front(u)' = Front(u)
              /\ Above(u, t) => own[t] \subseteq Front(u)
              /\ u # t /\ ~ Above(u, t) => own[u] \cap own[t] = {}
  <2>1. ~ Above(t, u)
    BY <1>1, AboveCurrent
  <2>2. threads'[u].todo = threads[u].todo
    BY <1>1, <1>9, <1>11, <1>13
  <2> QED BY <1>2, <1>5, <1>19, <2>1, <2>2 DEF Owned, Front
<1>23. ASSUME NEW u \in Current', NEW v \in Current'
       PROVE  /\ Above(u, v) => own2[v] \subseteq Front(u)'
              /\ u # v /\ ~ Above(u, v) /\ ~ Above(v, u) => own2[u] \cap own2[v] = {}
  <2>1. CASE u \in Current /\ v \in Current
    BY <1>2, <1>12, <1>22, <2>1 DEF Owned
  <2>2. ASSUME NEW w \in Current, NEW k \in 1 .. m, NEW c, c = Child(t, k)
        PROVE  /\ ~ Above(c, w)
               /\ Above(w, c) => own2[c] \subseteq Front(w)'
               /\ ~ Above(w, c) => own2[w] \cap own2[c] = {}
    <3>1. ~ Above(c, w)
      <4>1. c \in Seq(Nat) /\ w \in Seq(Nat) /\ Above(t, c)
        BY <1>1, <1>7, <2>2
      <4>2. Above(c, w) => Above(t, w)
        BY <1>1, <4>1, AboveIsOrder
      <4> QED BY <1>22, <4>2
    <3>2. Above(w, c) <=> w = t \/ Above(w, t)
      BY <1>1, <1>7, <2>2
    <3>3. own2[c] \subseteq Span(r) /\ own2[w] = own[w]
      BY <1>12, <1>17, <2>2
    <3>4. Front(t)' = Span(r)
      BY <1>3, <1>5, <1>22 DEF Front
    <3> QED BY <1>18, <1>22, <3>1, <3>2, <3>3, <3>4
  <2>3. CASE u \in Current /\ v \in New
    BY <1>11, <2>2, <2>3
  <2>4. CASE u \in New /\ v \in Current
    BY <1>11, <2>2, <2>4
  <2>5. CASE u \in New /\ v \in New
    <3>1. PICK k \in 1 .. m, l \in 1 .. m : u = Child(t, k) /\ v = Child(t, l)
      BY <1>11, <2>5
    <3>2. ~ Above(u, v)
      BY <1>7, <3>1 DEF Above
    <3>3. ASSUME u # v
          PROVE  own2[u] \cap own2[v] = {}
      <4>1. k < l \/ l < k
        BY <3>1, <3>3
      <4>2. Before(Reach(groups[k]), Reach(groups[l])) \/ Before(Reach(groups[l]), Reach(groups[k]))
        BY <1>17, <4>1
      <4>3. Reach(groups[k]) \subseteq Nat
        BY <1>17, <1>18, <1>19
      <4>4. Reach(groups[k]) \cap Reach(groups[l]) = {}
        BY <4>2, <4>3 DEF Before
      <4> QED BY <1>12, <3>1, <4>4
    <3> QED BY <3>2, <3>3
  <2> QED BY <1>16, <2>1, <2>3, <2>4, <2>5
<1>24. own2[Main] = Jobs'
  BY <1>1, <1>2, <1>12, <1>19 DEF Owned
<1>25. Owned(own2)'
  BY <1>20, <1>21, <1>23, <1>24 DEF Owned
<1> QED BY <1>19, <1>25 DEF Pending

LEMMA RunPending ==
  ASSUME Threads, Shared, Pending, NEW t \in DOMAIN threads, Run(t)
  PROVE  Pending'
<1>1. /\ threads[t].state = "running" /\ threads[t].todo # <<>>
      /\ UNCHANGED <<program, failing, times>> /\ IsThread(threads[t])
  BY DEF Run, Is, Threads
<1>2. PICK r : r = Head(threads[t].todo)
  OBVIOUS
<1>3. PICK n : n = threads[t].n_processors
  OBVIOUS
<1>4. PICK tl : tl = Tail(threads[t].todo)
  OBVIOUS
<1>5. PICK ks : ks = kids(r)
  OBVIOUS
<1>6. PICK own : Owned(own)
  BY DEF Pending
<1>7. /\ t \in Current /\ Progress(threads[t], own[t]) /\ program \in Programs
      /\ threads[t].exception = NoException
      /\ r \in Runnables /\ threads[t].todo \in Seq(Runnables) /\ tl \in Seq(Runnables)
      /\ Reach(threads[t].todo) = Span(r) \cup Reach(tl)
      /\ Ordered(tl) /\ Before(Span(r), Reach(tl))
      /\ \A j \in Reach(threads[t].todo) : times[j] = 0
  BY <1>1, <1>2, <1>4, <1>6, NextRunnable
<1>8. n \in Nat \ {0}
  BY <1>1, <1>3 DEF IsThread
<1>9. /\ ks \in Seq(Runnables) /\ ks # <<>> /\ (r \in program.pairs => Len(ks) = 2)
      /\ Ordered(ks) /\ Span(r) = Reach(ks)
  <2>1. ks # <<>>
    BY <1>2, <1>5 DEF Run
  <2>2. r \in program.pairs => Len(ks) = 2
    BY <1>5, <1>7, ProgramsAssumption DEF Runnables, kids
  <2> QED BY <1>5, <1>7, <2>1, <2>2, NumberingFacts
<1>10. PICK m : m = Len(ks)
  OBVIOUS
<1>11. PICK alone : alone = [k \in DOMAIN ks |-> <<ks[k]>>]
  OBVIOUS
<1>12. /\ m \in Nat \ {0} /\ alone \in [1 .. m -> Seq(Runnables)]
       /\ Deals(alone, m, ks)
  <2>1. m \in Nat \ {0} /\ alone \in [1 .. m -> Seq(Runnables)]
    BY <1>9, <1>10, <1>11
  <2> QED BY <1>9, <1>10, <1>11, <2>1, AloneDeals
<1>13. \/ r \in program.pairs /\ Start(t, alone, PairShares(n))
       \/ Become(t, [threads[t] EXCEPT !.todo = ks \o Tail(@)])
       \/ Start(t, alone, Shares(n, m))
       \/ Start(t, Groups(ks, n), Shares(n, n))
  <2>1. (n > 1 \/ n <= 1) /\ (n >= m \/ n < m)
    BY <1>8, <1>12
  <2> QED BY <1>2, <1>3, <1>5, <1>10, <1>11, <2>1 DEF Run
<1>14. CASE r \in program.pairs /\ Start(t, alone, PairShares(n))
  <2>1. m = 2
    BY <1>9, <1>10, <1>14
  <2>2. PairShares(n) \in [1 .. 2 -> Nat \ {0}]
    <3>1. PairShares(n)[1] \in Nat \ {0} /\ PairShares(n)[2] \in Nat \ {0}
      BY <1>8, PairSharesPositive
    <3>2. \E a, b : PairShares(n) = <<a, b>>
      BY DEF PairShares
    <3>3. PICK a, b : PairShares(n) = <<a, b>>
      BY <3>2
    <3> QED BY <3>1, <3>3
  <2> QED BY <1>1, <1>2, <1>9, <1>12, <1>14, <2>1, <2>2, StartPending
<1>15. CASE Become(t, [threads[t] EXCEPT !.todo = ks \o Tail(@)])
  <2>1. PICK self : self = [threads[t] EXCEPT !.todo = ks \o tl]
    OBVIOUS
  <2>2. self.state = "running" /\ self.todo = ks \o tl /\ self.exception = NoException
    BY <1>1, <1>7, <2>1 DEF IsThread
  <2>3. Reach(ks \o tl) = Reach(threads[t].todo) /\ Ordered(ks \o tl)
    BY <1>7, <1>9, ReachConcat
  <2>4. Progress(self, own[t])
    BY <1>1, <1>7, <2>2, <2>3 DEF Progress, Calling
  <2>5. Become(t, self)
    BY <1>4, <1>15, <2>1 DEF Become
  <2> QED BY <1>1, <1>6, <2>2, <2>4, <2>5, QuietPending DEF Calling
<1>16. CASE Start(t, alone, Shares(n, m))
  BY <1>1, <1>2, <1>8, <1>9, <1>12, <1>16, SharesPositive, StartPending
<1>17. CASE Start(t, Groups(ks, n), Shares(n, n))
  <2>1. Groups(ks, n) \in [1 .. n -> Seq(Runnables)] /\ Shares(n, n) \in [1 .. n -> Nat \ {0}]
        /\ Deals(Groups(ks, n), n, ks)
    BY <1>8, <1>9, GroupsOfList, SharesPositive, GroupsDeal
  <2>2. PICK groups : groups = Groups(ks, n)
    OBVIOUS
  <2>3. PICK shares : shares = Shares(n, n)
    OBVIOUS
  <2> QED BY <1>1, <1>2, <1>8, <1>9, <1>17, <2>1, <2>2, <2>3, StartPending
<1> QED BY <1>13, <1>14, <1>15, <1>16, <1>17

\* The work of the children is taken over, with the first exception among them.
LEMMA RethrowPending ==
  ASSUME Threads, Shared, Pending, NEW t \in DOMAIN threads, Rethrow(t)
  PROVE  Pending'
<1>1. /\ threads[t].state = "joining" /\ threads[t].at = threads[t].children
      /\ UNCHANGED <<program, failing, times>> /\ IsThread(threads[t]) /\ t \in Seq(Nat)
      /\ Family(threads[t], States(t)) /\ threads[t].state \in Calling /\ Rooted
      /\ t \in Current /\ Current \subseteq DOMAIN threads /\ Current \subseteq Seq(Nat)
  BY LiveCurrent DEF Rethrow, Is, Threads, Tree, Calling, Live, Shared
<1>2. PICK thrown : thrown = {k \in 1 .. threads[t].children :
                                threads[Child(t, k)].exception # NoException}
  OBVIOUS
<1>3. PICK first : first = CHOOSE k \in thrown : \A l \in thrown : k <= l
  OBVIOUS
<1>4. PICK e : e = threads[Child(t, first)].exception
  OBVIOUS
<1>5. PICK r : r = Head(threads[t].todo)
  OBVIOUS
<1>6. PICK tl : tl = Tail(threads[t].todo)
  OBVIOUS
<1>7. PICK self : self = IF thrown = {}
                         THEN [threads[t] EXCEPT !.state = "running", !.todo = tl]
                         ELSE [threads[t] EXCEPT !.state = "running", !.todo = <<>>,
                                 !.exception = e]
  OBVIOUS
<1>8. Become(t, self) /\ self.state = "running"
  <2>1. Become(t, self)
    BY <1>2, <1>3, <1>4, <1>6, <1>7 DEF Rethrow, Become
  <2> QED BY <1>1, <1>7, <2>1 DEF IsThread
<1>9. /\ DOMAIN threads' = DOMAIN threads /\ threads'[t] = self
      /\ \A u \in DOMAIN threads : u # t => threads'[u] = threads[u]
  BY <1>8 DEF Become, Threads
<1>10. PICK own : Owned(own)
  BY DEF Pending
<1>11. PICK c \in Nat : c = threads[t].children
  BY <1>1 DEF IsThread
<1>12. \A k \in Places : States(t)[k] \in {"none", "terminated"}
  <2>1. \A k \in Places : k <= c \/ k > c
    BY DEF Places
  <2> QED BY <1>1, <1>11, <2>1 DEF Family
<1>13. ASSUME NEW u \in Current'
       PROVE  u \in Current /\ u \in Seq(Nat) /\ ~ Above(t, u)
  <2>1. CASE u = Main
    <3>1. Len(Main) = 0 /\ Len(t) \in Nat
      BY <1>1 DEF Main
    <3> QED BY <1>1, <2>1, <3>1, LiveCurrent DEF Above
  <2>2. CASE u # Main
    <3>1. PICK w \in DOMAIN threads, k \in Places :
            u = Child(w, k) /\ threads'[w].state \in Calling /\ k <= threads'[w].children
      BY <1>9, <2>2 DEF Current
    <3>2. w # t /\ threads'[w] = threads[w] /\ w \in Seq(Nat) /\ k \in Nat
      BY <1>8, <1>9, <3>1 DEF Calling, Threads, Tree, Places
    <3>3. u \in DOMAIN threads
      BY <1>9 DEF Current
    <3>4. u \in Current
      BY <3>1, <3>2, <3>3 DEF Current
    <3>5. w \in Live
      BY <3>1, <3>2 DEF Live, Calling
    <3>6. ASSUME Above(t, u)
          PROVE  FALSE
      <4>1. Above(t, w)
        BY <1>1, <3>1, <3>2, <3>6, AboveChild
      <4>2. PICK j \in Nat : w = Child(t, j) \/ Above(Child(t, j), w)
        BY <1>1, <3>2, <4>1, ChildTowards
      <4>3. Child(t, j) \in Seq(Nat)
        BY <1>1, ChildName
      <4>4. Child(t, j) \in Live
        BY <1>1, <3>5, <4>2, <4>3 DEF Rooted
      <4>5. j \in Places
        BY <1>1, <4>4, ChildPlace DEF Live
      <4>6. States(t)[j] = threads[Child(t, j)].state /\ threads[Child(t, j)].state # "none"
        BY <4>4, <4>5 DEF States, StateAt, Live, Threads, IsThread, Active
      <4> QED BY <1>12, <4>4, <4>5, <4>6 DEF Live
    <3> QED BY <1>1, <3>4, <3>6
  <2> QED BY <2>1, <2>2
<1>14. /\ Progress(threads[t], own[t]) /\ threads[t].todo \in Seq(Runnables) /\ threads[t].todo # <<>>
       /\ program \in Programs
  BY <1>1, <1>10 DEF Owned, IsThread, Calling, Threads
<1> DEFINE o == own[t]
<1>15. /\ o \subseteq Jobs /\ Reach(threads[t].todo) \subseteq o /\ threads[t].exception = NoException
       /\ Before(o \ Reach(threads[t].todo), Reach(threads[t].todo))
       /\ \A j \in o \ Reach(threads[t].todo) : times[j] = 1 /\ j \notin failing
       /\ \A j \in Reach(tl) : times[j] = 0
  BY <1>1, <1>6, <1>14 DEF Progress
<1>16. /\ Reach(threads[t].todo) = Span(r) \cup Reach(tl)
       /\ Ordered(tl) /\ Before(Span(r), Reach(tl))
  BY <1>5, <1>6, <1>14, ReachTail DEF Progress
<1>17. Jobs \subseteq Nat \ {0}
  BY <1>14, JobsAreNumbers
<1>18. /\ Span(r) = UNION {own[Child(t, k)] : k \in 1 .. c}
       /\ \A k, l \in 1 .. c : k < l => Before(own[Child(t, k)], own[Child(t, l)])
  BY <1>1, <1>5, <1>10, <1>11 DEF Owned, Front
<1>19. ASSUME NEW k \in 1 .. c, NEW child, child = threads[Child(t, k)], NEW part, part = own[Child(t, k)]
       PROVE  /\ child.exception = NoException => \A j \in part : times[j] = 1 /\ j \notin failing
              /\ child.exception # NoException =>
                   /\ child.exception \in part \cap failing
                   /\ \A j \in part : j <= child.exception =>
                        times[j] = 1 /\ (j \in failing => j = child.exception)
  <2>1. Child(t, k) \in Current /\ child.state = "terminated"
    BY <1>1, <1>11, <1>19, ChildrenCurrent
  <2>2. Progress(child, part)
    BY <1>10, <1>19, <2>1 DEF Owned
  <2>3. Reach(<<>>) = {}
    BY DEF Reach
  <2> QED BY <2>1, <2>2, <2>3 DEF Progress
<1>20. Progress(self, o)
  <2>1. CASE thrown = {}
    <3>1. self.todo = tl /\ self.exception = NoException
      BY <1>1, <1>7, <1>15, <2>1 DEF IsThread
    <3>2. \A j \in Span(r) : times[j] = 1 /\ j \notin failing
      <4> SUFFICES ASSUME NEW k \in 1 .. c, NEW j \in own[Child(t, k)]
                   PROVE  times[j] = 1 /\ j \notin failing
        BY <1>18
      <4>1. threads[Child(t, k)].exception = NoException
        BY <1>2, <1>11, <2>1
      <4> QED BY <1>19, <4>1
    <3>3. \A j \in o \ Reach(tl) : j \in o \ Reach(threads[t].todo) \/ j \in Span(r)
      BY <1>16
    <3>4. Before(o \ Reach(tl), Reach(tl))
      BY <1>15, <1>16, <3>3 DEF Before
    <3>5. \A j \in o \ Reach(tl) : times[j] = 1 /\ j \notin failing
      BY <1>15, <3>2, <3>3
    <3> HIDE DEF o
    <3> QED BY <1>8, <1>15, <1>16, <3>1, <3>4, <3>5 DEF Progress, Calling
  <2>2. CASE thrown # {}
    <3>1. first \in thrown /\ \A l \in thrown : first <= l
      <4>1. thrown \in SUBSET Nat
        BY <1>2, <1>11
      <4> QED BY <1>3, <2>2, <4>1, Means!LeastElement
    <3>2. first \in 1 .. c /\ e # NoException
      BY <1>2, <1>4, <1>11, <3>1
    <3>3. self.todo = <<>> /\ self.exception = e
      BY <1>1, <1>7, <2>2 DEF IsThread
    <3>4. /\ e \in own[Child(t, first)] /\ e \in failing
          /\ \A j \in own[Child(t, first)] : j <= e => times[j] = 1 /\ (j \in failing => j = e)
      BY <1>4, <1>19, <3>2
    <3>5. e \in Span(r) /\ e \in o /\ e \in Nat
      BY <1>15, <1>16, <1>17, <1>18, <3>2, <3>4
    <3>6. ASSUME NEW j \in o, j <= e
          PROVE  times[j] = 1 /\ (j \in failing => j = e)
      <4>1. j \in Nat
        BY <1>15, <1>17
      <4>2. CASE j \notin Reach(threads[t].todo)
        BY <1>15, <4>2
      <4>3. CASE j \in Reach(tl)
        <5>1. e < j
          BY <1>16, <3>5, <4>3 DEF Before
        <5> QED BY <3>5, <3>6, <4>1, <5>1
      <4>4. CASE j \in Span(r)
        <5>1. PICK k \in 1 .. c : j \in own[Child(t, k)]
          BY <1>18, <4>4
        <5>2. CASE k < first
          <6>1. k \notin thrown
            BY <3>1, <3>2, <5>2
          <6>2. threads[Child(t, k)].exception = NoException
            BY <1>2, <1>11, <6>1
          <6> QED BY <1>19, <5>1, <6>2
        <5>3. CASE k = first
          BY <3>4, <3>6, <5>1, <5>3
        <5>4. CASE first < k
          <6>1. e < j
            BY <1>18, <3>2, <3>4, <5>1, <5>4 DEF Before
          <6> QED BY <3>5, <3>6, <4>1, <6>1
        <5>5. k < first \/ k = first \/ first < k
          BY <3>2
        <5> QED BY <5>2, <5>3, <5>4, <5>5
      <4> QED BY <1>16, <4>2, <4>3, <4>4
    <3>7. Reach(<<>>) = {} /\ Ordered(<<>>)
      BY DEF Reach, Ordered
    <3> HIDE DEF o
    <3> QED BY <1>8, <1>15, <3>2, <3>3, <3>4, <3>5, <3>6, <3>7 DEF Progress, Calling
  <2> QED BY <2>1, <2>2
<1>21. Jobs' = Jobs /\ \A s : Span(s)' = Span(s)
  BY <1>1, SpansStay
<1>22. ASSUME NEW u \in Current'
       PROVE  Progress(threads[u], own[u])'
  <2>1. PICK thread : thread = threads'[u]
    OBVIOUS
  <2>2. Progress(thread, own[u])
    <3>1. CASE u = t
      BY <1>9, <1>20, <2>1, <3>1
    <3>2. CASE u # t
      <4>1. thread = threads[u]
        BY <1>1, <1>9, <1>13, <2>1, <3>2
      <4> QED BY <1>10, <1>13, <4>1 DEF Owned
    <3> QED BY <3>1, <3>2
  <2>3. Progress(thread, own[u])'
    BY <1>1, <2>2, ProgressSame
  <2> QED BY <2>1, <2>3 DEF Progress
<1>23. ASSUME NEW u \in Current', threads'[u].state \in Calling
       PROVE  /\ \A k, l \in 1 .. threads'[u].children :
                   k < l => Before(own[Child(u, k)], own[Child(u, l)])
              /\ Front(u)' = UNION {own[Child(u, k)] : k \in 1 .. threads'[u].children}
  <2>1. u # t
    BY <1>8, <1>9, <1>23 DEF Calling
  <2>2. threads'[u] = threads[u] /\ u \in Current
    BY <1>1, <1>9, <1>13, <2>1
  <2>3. Front(u)' = Front(u)
    BY <1>21, <2>2 DEF Front
  <2> QED BY <1>10, <1>23, <2>2, <2>3 DEF Owned
<1>24. ASSUME NEW u \in Current', NEW v \in Current'
       PROVE  /\ Above(u, v) => own[v] \subseteq Front(u)'
              /\ u # v /\ ~ Above(u, v) /\ ~ Above(v, u) => own[u] \cap own[v] = {}
  <2>1. u \in Current /\ v \in Current /\ ~ Above(t, v)
    BY <1>13
  <2>2. ASSUME Above(u, v)
        PROVE  Front(u)' = Front(u)
    <3>1. u # t
      BY <2>1, <2>2
    <3>2. threads'[u] = threads[u]
      BY <1>1, <1>9, <2>1, <3>1
    <3> QED BY <1>21, <3>2 DEF Front
  <2> QED BY <1>10, <2>1, <2>2 DEF Owned
<1>25. own[Main] = Jobs'
  BY <1>10, <1>21 DEF Owned
<1>26. Owned(own)'
  BY <1>22, <1>23, <1>24, <1>25 DEF Owned
<1>27. failing' \subseteq Jobs' /\ times' \in [Jobs' -> {0, 1}]
  BY <1>1, <1>21 DEF Pending
<1> QED BY <1>26, <1>27 DEF Pending

LEMMA InitPending == Init => Pending
<1> SUFFICES ASSUME Init PROVE Pending
  OBVIOUS
<1>1. PICK n \in Processors : threads = [t \in {Main} |-> Thread(<<1>>, n, "running")]
  BY DEF Init
<1>2. PICK thread : thread = Thread(<<1>>, n, "running")
  OBVIOUS
<1>3. /\ thread.todo = <<1>> /\ thread.state = "running" /\ thread.exception = NoException
  BY <1>2 DEF Thread
<1>4. DOMAIN threads = {Main} /\ threads[Main] = thread
  BY <1>1, <1>2
<1>5. /\ program \in Programs /\ failing \subseteq Jobs /\ times = [j \in Jobs |-> 0]
  BY DEF Init, Jobs
<1>6. 1 \in Runnables /\ Runnables \subseteq Nat \ {0} /\ Jobs \subseteq Runnables
  BY <1>5, ProgramsAssumption, JobsAreNumbers DEF Runnables
<1>7. Span(1) = Jobs
  <2>1. ASSUME NEW q \in Jobs
        PROVE  q \in Scope(program, 1)
    <3>1. q \in Runnables /\ 1 <= q /\ \A s \in Runnables : ~ (s < 1)
      BY <1>6
    <3> QED BY <3>1 DEF Scope, Runnables
  <2> QED BY <2>1 DEF Span
<1>8. Reach(<<1>>) = Jobs /\ Ordered(<<1>>)
  <2>1. DOMAIN <<1>> = {1} /\ <<1>>[1] = 1
    OBVIOUS
  <2> QED BY <1>7, <2>1 DEF Reach, Ordered
<1>9. Progress(thread, Jobs)
  BY <1>3, <1>5, <1>8 DEF Progress, Calling, Before
<1>10. Current = {Main}
  BY <1>4 DEF Current
<1>11. Owned([t \in {Main} |-> Jobs])
  <2>1. Len(Main) = 0
    BY DEF Main
  <2> QED BY <1>3, <1>4, <1>9, <1>10, <2>1 DEF Owned, Calling, Above
<1> QED BY <1>5, <1>11 DEF Pending

LEMMA PendingInvariant == Spec => []Pending
<1>1. Init => Pending
  BY InitPending
<1>2. Threads /\ Shared /\ Pending /\ [Next]_vars => Pending'
  <2> SUFFICES ASSUME Threads, Shared, Pending, [Next]_vars PROVE Pending'
    OBVIOUS
  <2>1. ASSUME NEW t \in DOMAIN threads, Step(t)
        PROVE  Pending'
    BY <2>1, RunPending, JobPending, StartThreadPending, ExitPending, JoinThreadPending,
       RethrowPending DEF Step
  <2>2. CASE UNCHANGED vars
    <3>1. PICK own : Owned(own)
      BY DEF Pending
    <3>2. times' \in [Jobs -> {0, 1}] /\ UNCHANGED <<program, failing, times, threads>>
      BY <2>2 DEF vars, Pending
    <3>3. ASSUME NEW u \in Current
          PROVE  Progress(threads[u], own[u])'
      <4>1. PICK thread : thread = threads[u]
        OBVIOUS
      <4>2. Progress(thread, own[u])
        BY <3>1, <4>1 DEF Owned
      <4>3. Progress(thread, own[u])'
        BY <3>2, <4>2, ProgressSame
      <4> QED BY <3>2, <4>1, <4>3 DEF Progress
    <3>4. Current' = Current
      BY <3>2, CurrentKept
    <3> QED BY <3>1, <3>2, <3>3, <3>4, PendingKept
  <2> QED BY <2>1, <2>2 DEF Next
<1> QED BY <1>1, <1>2, ThreadsInvariant, SharedInvariant, PTL DEF Spec
-----------------------------------------------------------------------------
(* The refinement.                                                         *)

\* Only the end of the outermost call is seen by its caller.
Unseen ==
  /\ threads'[Main].state = "terminated" <=> threads[Main].state = "terminated"
  /\ threads[Main].state = "terminated" => threads'[Main] = threads[Main]

LEMMA StartUnseen ==
  ASSUME Threads, NEW t \in DOMAIN threads, threads[t].state = "running",
         NEW groups, NEW shares, Start(t, groups, shares)
  PROVE  Unseen
<1>1. /\ Main \in DOMAIN threads /\ t \in Seq(Nat) /\ IsThread(threads[t])
  BY DEF Threads, Tree
<1>2. ASSUME NEW k
      PROVE  Main # Child(t, k)
  <2>1. t \in Seq(Nat \cup {k}) /\ <<k>> \in Seq(Nat \cup {k})
    BY <1>1
  <2>2. Len(t \o <<k>>) = Len(t) + 1 /\ Len(t) \in Nat
    BY <2>1
  <2>3. Len(Main) = 0
    BY DEF Main
  <2> QED BY <2>2, <2>3 DEF Child
<1>3. PICK self : self = [threads[t] EXCEPT !.state = "starting", !.at = 0, !.children = Len(groups)]
  OBVIOUS
<1>4. self.state = "starting"
  BY <1>1, <1>3 DEF IsThread
<1>5. threads'[Main] = IF t = Main THEN self ELSE threads[Main]
  BY <1>1, <1>2, <1>3 DEF Start
<1> QED BY <1>4, <1>5 DEF Unseen

LEMMA BecomeUnseen ==
  ASSUME Threads, NEW t \in DOMAIN threads, threads[t].state # "terminated",
         NEW self, Become(t, self), t = Main => self.state # "terminated"
  PROVE  Unseen
<1>1. Main \in DOMAIN threads
  BY DEF Threads, Tree
<1> QED BY <1>1 DEF Become, Unseen, Threads

LEMMA MainUnseen ==
  ASSUME Threads, NEW t \in DOMAIN threads,
         Run(t) \/ Job(t) \/ StartThread(t) \/ JoinThread(t) \/ Rethrow(t) \/ (Exit(t) /\ t # Main)
  PROVE  Unseen
<1>1. Main \in DOMAIN threads /\ t \in Seq(Nat) /\ IsThread(threads[t])
  BY DEF Threads, Tree
<1>2. CASE Run(t)
  <2>1. threads[t].state = "running"
    BY <1>2 DEF Run, Is
  <2>2. CASE \E groups, shares : Start(t, groups, shares)
    BY <2>1, <2>2, StartUnseen
  <2>3. CASE \E todo : Become(t, [threads[t] EXCEPT !.todo = todo])
    <3>1. PICK todo : Become(t, [threads[t] EXCEPT !.todo = todo])
      BY <2>3
    <3>2. [threads[t] EXCEPT !.todo = todo].state = "running"
      BY <1>1, <2>1 DEF IsThread
    <3> QED BY <2>1, <3>1, <3>2, BecomeUnseen
  <2>4. \/ \E groups, shares : Start(t, groups, shares)
        \/ \E todo : Become(t, [threads[t] EXCEPT !.todo = todo])
    <3>1. PICK r : r = Head(threads[t].todo)
      OBVIOUS
    <3>2. PICK n \in Nat : n = threads[t].n_processors
      BY <1>1 DEF IsThread
    <3> DEFINE alone == [k \in DOMAIN kids(r) |-> <<kids(r)[k]>>]
    <3>3. PICK m \in Nat : m = Len(kids(r))
      <4>1. r \in Runnables
        <5>1. threads[t].todo \in Seq(Runnables) /\ threads[t].todo # <<>>
          BY <1>1, <1>2 DEF IsThread, Run
        <5> QED BY <3>1, <5>1
      <4>2. kids(r) \in Seq(Runnables)
        BY <4>1, ProgramsAssumption DEF Threads, Runnables, kids
      <4> QED BY <4>2
    <3>4. (n > 1 \/ n <= 1) /\ (n >= m \/ n < m)
      OBVIOUS
    <3>5. \/ Start(t, alone, PairShares(n)) \/ Start(t, alone, Shares(n, m))
          \/ Start(t, Groups(kids(r), n), Shares(n, n))
          \/ Become(t, [threads[t] EXCEPT !.todo = kids(r) \o Tail(@)])
      BY <1>2, <3>1, <3>2, <3>3, <3>4 DEF Run
    <3> HIDE DEF alone
    <3> QED BY <3>5
  <2> QED BY <2>2, <2>3, <2>4
<1>3. CASE Job(t)
  <2>1. threads[t].state = "running"
    BY <1>3 DEF Job, Is
  <2>2. PICK r : r = Head(threads[t].todo)
    OBVIOUS
  <2>3. PICK self : self = IF r \in failing THEN [threads[t] EXCEPT !.todo = <<>>, !.exception = r]
                           ELSE [threads[t] EXCEPT !.todo = Tail(@)]
    OBVIOUS
  <2>4. self.state = "running"
    BY <1>1, <2>1, <2>3 DEF IsThread
  <2>5. Become(t, self)
    BY <1>3, <2>2, <2>3 DEF Job
  <2> QED BY <2>1, <2>4, <2>5, BecomeUnseen
<1>4. CASE StartThread(t)
  <2>1. threads[t].state = "starting" /\ threads[t].at + 1 \in Nat
    BY <1>1, <1>4 DEF StartThread, Is, IsThread
  <2>2. PICK k \in Nat : k = threads[t].at + 1
    BY <2>1
  <2>3. Child(t, k) # Main /\ Child(t, k) # t
    BY <1>1, ChildName
  <2>4. PICK self : self = [threads[t] EXCEPT !.at = IF k = threads[t].children THEN 0 ELSE k,
                                              !.state = IF k = threads[t].children THEN "joining" ELSE @]
    OBVIOUS
  <2>5. self.state # "terminated"
    BY <1>1, <2>1, <2>4 DEF IsThread
  <2>6. threads'[Main] = IF t = Main THEN self ELSE threads[Main]
    BY <1>1, <1>4, <2>2, <2>3, <2>4 DEF StartThread, Threads
  <2> QED BY <2>1, <2>5, <2>6 DEF Unseen
<1>5. CASE JoinThread(t)
  <2>1. threads[t].state = "joining"
    BY <1>5 DEF JoinThread, Is
  <2>2. PICK self : self = [threads[t] EXCEPT !.at = @ + 1]
    OBVIOUS
  <2>3. self.state = "joining"
    BY <1>1, <2>1, <2>2 DEF IsThread
  <2>4. Become(t, self)
    BY <1>5, <2>2 DEF JoinThread
  <2> QED BY <2>1, <2>3, <2>4, BecomeUnseen
<1>6. CASE Rethrow(t)
  <2>1. threads[t].state = "joining"
    BY <1>6 DEF Rethrow, Is
  <2>2. PICK self : Become(t, self) /\ self.state = "running"
    <3> DEFINE thrown == {k \in 1 .. threads[t].children : threads[Child(t, k)].exception # NoException}
               first == CHOOSE k \in thrown : \A l \in thrown : k <= l
    <3> HIDE DEF thrown, first
    <3>1. PICK self : self = IF thrown = {}
                             THEN [threads[t] EXCEPT !.state = "running", !.todo = Tail(@)]
                             ELSE [threads[t] EXCEPT !.state = "running", !.todo = <<>>,
                                     !.exception = threads[Child(t, first)].exception]
      OBVIOUS
    <3>2. Become(t, self)
      BY <1>6, <3>1 DEF Rethrow, thrown, first
    <3>3. self.state = "running"
      BY <1>1, <3>1 DEF IsThread
    <3> QED BY <3>2, <3>3
  <2> QED BY <2>1, <2>2, BecomeUnseen
<1>7. CASE Exit(t) /\ t # Main
  BY <1>7, BecomeUnseen DEF Exit, Is
<1> QED BY <1>2, <1>3, <1>4, <1>5, <1>6, <1>7

\* A job is done before the call is over, and once.
LEMMA JobIsPromised ==
  ASSUME Threads, Shared, Pending, NEW t \in DOMAIN threads, Job(t)
  PROVE  Promise!Next
<1>1. PICK r : r = Head(threads[t].todo)
  OBVIOUS
<1>2. times[r] = 0 /\ r \in Jobs
  BY <1>1, JobPending
<1>3. times \in [Jobs -> {0, 1}] /\ times' = [times EXCEPT ![r] = @ + 1] /\ UNCHANGED failing
  BY <1>1 DEF Job, Pending
<1>4. r \in DOMAIN times /\ times' = [times EXCEPT ![r] = 1]
  BY <1>2, <1>3
<1>5. threads[Main].state # "terminated"
  <2>1. t \in Live /\ t \in Seq(Nat)
    BY DEF Live, Job, Is, Threads, Tree
  <2>2. t = Main \/ Above(Main, t)
    <3>1. Len(Main) = 0
      BY DEF Main
    <3>2. Len(t) = 0 => t = Main
      BY <2>1 DEF Main
    <3>3. Len(t) \in Nat
      BY <2>1
    <3> QED BY <3>1, <3>2, <3>3 DEF Above
  <2>3. Main \in Seq(Nat)
    BY DEF Main
  <2>4. Main \in Live
    BY <2>1, <2>2, <2>3 DEF Shared, Rooted
  <2> QED BY <2>4 DEF Live
<1>6. threads'[Main].state # "terminated"
  BY <1>5, MainUnseen DEF Unseen
<1>7. Promise!DoJob(r)
  BY <1>2, <1>3, <1>4, <1>5, <1>6 DEF Promise!DoJob, Is
<1> QED BY <1>4, <1>7 DEF Promise!Next, Promise!Jobs

\* The outermost call returns when all is done, or raises the first exception.
LEMMA EndIsPromised ==
  ASSUME Threads, Shared, Pending, Exit(Main)
  PROVE  Promise!Next
<1>1. /\ threads[Main].state = "running" /\ threads[Main].todo = <<>>
      /\ Main \in DOMAIN threads /\ IsThread(threads[Main]) /\ UNCHANGED <<failing, times>>
      /\ program \in Programs
  BY DEF Exit, Is, Threads, Tree
<1>2. threads'[Main].state = "terminated" /\ threads'[Main].exception = threads[Main].exception
  BY <1>1 DEF Exit, Become, Threads, IsThread
<1>3. PICK own : Owned(own)
  BY DEF Pending
<1>4. Progress(threads[Main], Jobs) /\ failing \subseteq Jobs /\ DOMAIN times = Jobs
      /\ Jobs \subseteq Nat \ {0}
  BY <1>1, <1>3, LiveCurrent, JobsAreNumbers DEF Owned, Pending
<1>5. Reach(<<>>) = {}
  BY DEF Reach
<1>6. PICK e : e = threads[Main].exception
  OBVIOUS
<1>7. CASE e = NoException
  <2>1. \A j \in Jobs : times[j] = 1 /\ j \notin failing
    BY <1>1, <1>4, <1>5, <1>6, <1>7 DEF Progress
  <2>2. failing = {} /\ Promise!Done = Promise!Jobs
    BY <1>4, <2>1 DEF Promise!Done, Promise!Jobs
  <2>3. Promise!Return
    BY <1>1, <1>2, <1>6, <1>7, <2>2 DEF Promise!Return, Is
  <2> QED BY <2>3 DEF Promise!Next
<1>8. CASE e # NoException
  <2>1. /\ e \in Jobs /\ e \in failing
        /\ \A j \in Jobs : j <= e => times[j] = 1 /\ (j \in failing => j = e)
    BY <1>4, <1>6, <1>8 DEF Progress
  <2>2. \A k \in failing : e <= k
    <3>1. \A k \in failing : k \in Nat /\ k \in Jobs /\ e \in Nat
      BY <1>4, <2>1
    <3>2. \A k \in failing : k <= e \/ e <= k
      BY <3>1
    <3> QED BY <2>1, <3>1, <3>2
  <2>3. \A k \in Promise!Jobs : k <= e => k \in Promise!Done
    BY <1>4, <2>1 DEF Promise!Done, Promise!Jobs
  <2>4. Promise!Raise(e)
    BY <1>1, <1>2, <1>6, <2>1, <2>2, <2>3 DEF Promise!Raise, Is
  <2> QED BY <1>4, <2>1, <2>4 DEF Promise!Next, Promise!Jobs
<1> QED BY <1>7, <1>8

\* For any tree of runnables, any number of processors, any jobs that fail and any
\* interleaving, child_thread::run does what a single thread would: no job is
\* forgotten or done twice, none is done after the call is over, and what the
\* call raises is the exception of the first job that fails.
THEOREM ParallelRunCorrect == Spec => IsParallelRun
<1>1. Init => Promise!Init
  <2> SUFFICES ASSUME Init PROVE Promise!Init
    OBVIOUS
  <2>1. threads[Main].state = "running"
    BY DEF Init, Thread
  <2>2. times = [j \in DOMAIN times |-> 0]
    BY DEF Init
  <2> QED BY <2>1, <2>2 DEF Promise!Init, Promise!Jobs, Is
<1>2. Threads /\ Shared /\ Pending /\ [Next]_vars => [Promise!Next]_Promise!vars
  <2> SUFFICES ASSUME Threads, Shared, Pending, [Next]_vars PROVE [Promise!Next]_Promise!vars
    OBVIOUS
  <2>1. ASSUME Unseen, UNCHANGED <<failing, times>>
        PROVE  UNCHANGED Promise!vars
    BY <2>1 DEF Unseen, Promise!vars, Is
  <2>2. ASSUME NEW t \in DOMAIN threads, Step(t)
        PROVE  [Promise!Next]_Promise!vars
    <3>1. CASE Job(t)
      BY <3>1, JobIsPromised
    <3>2. CASE Exit(t) /\ t = Main
      BY <3>2, EndIsPromised
    <3>3. CASE Run(t) \/ StartThread(t) \/ JoinThread(t) \/ Rethrow(t) \/ (Exit(t) /\ t # Main)
      <4>1. UNCHANGED <<failing, times>>
        BY <3>3 DEF Run, StartThread, JoinThread, Rethrow, Exit
      <4>2. Unseen
        BY <3>3, MainUnseen
      <4> QED BY <2>1, <4>1, <4>2
    <3> QED BY <2>2, <3>1, <3>2, <3>3 DEF Step
  <2>3. CASE UNCHANGED vars
    BY <2>3 DEF vars, Promise!vars, Is
  <2> QED BY <2>2, <2>3 DEF Next
<1> QED BY <1>1, <1>2, ThreadsInvariant, SharedInvariant, PendingInvariant, PTL
        DEF Spec, IsParallelRun, Promise!Spec
=============================================================================
