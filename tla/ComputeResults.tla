--------------------------- MODULE ComputeResults ---------------------------
(***************************************************************************)
(* compute_results.m: the submissions of all teams are scored on the test  *)
(* set.  A team submits methods, a method a directory of result files.     *)
(* The counts of an image are not looked into: a total is the sequence of  *)
(* the comparisons added to it, each a record of what was compared.        *)
(***************************************************************************)
EXTENDS Integers, Sequences, FiniteSets, SequencesExt

CONSTANTS
  TestFiles,           \* test_files, image ids in directory order
  Submissions,         \* what a team may submit: a sequence of methods, each
                       \* the sequence of its result files in directory order
  Teams,               \* length(teams)
  window_evaluation    \* whether windows are scored as well

ASSUME ConfigAssumption ==
  /\ Teams \in Nat /\ window_evaluation \in BOOLEAN
  /\ TestFiles \in Seq(Nat) /\ Submissions \subseteq Seq(Seq(Nat))

VARIABLES
  submission,      \* team |-> its methods
  jj, kk, ii,      \* the loop variables: team, method, result file
  pixelTotal,      \* the sums pixelTP, pixelFP, pixelFN, pixelTN
  windowTotal,     \* the sums windowTP, windowFN, windowFP
  printed,         \* the lines written to the two result files
  step

scoringVars == <<submission, jj, kk, ii, pixelTotal, windowTotal, printed, step>>

Methods == submission[jj]
ResultFiles == Methods[kk]

ScoringInit ==
  /\ submission \in [1 .. Teams -> Submissions]
  /\ jj = 0 /\ kk = 1 /\ ii = 1
  /\ pixelTotal = <<>> /\ windowTotal = <<>> /\ printed = <<>>
  /\ step = "team"

\* Mutant: the pixel sums go on from team to team.
StartTeamKeepsSums ==
  /\ step = "team" /\ jj < Teams
  /\ jj' = jj + 1 /\ kk' = 1 /\ ii' = 1
  /\ windowTotal' = <<>> /\ step' = "method"
  /\ UNCHANGED <<submission, pixelTotal, printed>>

\* The next team: all sums start from zero.
StartTeam ==
  /\ step = "team" /\ jj < Teams
  /\ jj' = jj + 1 /\ kk' = 1 /\ ii' = 1
  /\ pixelTotal' = <<>> /\ windowTotal' = <<>>
  /\ step' = "method"
  /\ UNCHANGED <<submission, printed>>

\* The ii-th result file is scored against the ii-th test file; running out of
\* test files is an error that ends the script.
ScoreFile ==
  /\ step = "method" /\ kk <= Len(Methods) /\ ii <= Len(ResultFiles)
  /\ IF ii <= Len(TestFiles)
     THEN LET c == [team |-> jj, method |-> kk, result |-> ResultFiles[ii], test |-> TestFiles[ii]]
          IN /\ pixelTotal' = Append(pixelTotal, c)
             /\ windowTotal' = IF window_evaluation THEN Append(windowTotal, c) ELSE windowTotal
             /\ ii' = ii + 1
             /\ UNCHANGED step
     ELSE /\ step' = "error"
          /\ UNCHANGED <<pixelTotal, windowTotal, ii>>
  /\ UNCHANGED <<submission, jj, kk, printed>>

\* The figures of a method are computed from the sums and written.
PrintMethod ==
  /\ step = "method" /\ kk <= Len(Methods) /\ ii > Len(ResultFiles)
  /\ printed' = Append(printed, [team |-> jj, method |-> kk, pixel |-> pixelTotal,
                                 window |-> windowTotal])
  /\ kk' = kk + 1 /\ ii' = 1
  /\ UNCHANGED <<submission, jj, pixelTotal, windowTotal, step>>

NextTeam ==
  /\ step = "method" /\ kk > Len(Methods)
  /\ step' = "team"
  /\ UNCHANGED <<submission, jj, kk, ii, pixelTotal, windowTotal, printed>>

Close ==
  /\ step = "team" /\ jj = Teams
  /\ step' = "done"
  /\ UNCHANGED <<submission, jj, kk, ii, pixelTotal, windowTotal, printed>>

ScoringNext == StartTeam \/ ScoreFile \/ PrintMethod \/ NextTeam \/ Close

ScoringSpec == ScoringInit /\ [][ScoringNext]_scoringVars
-----------------------------------------------------------------------------
Lines == ToSet(printed)
\* The comparisons of the first k methods of team t, in the order they are made.
ComparisonsUpTo(t, k) ==
  FlattenSeq([m \in 1 .. k |->
    [f \in DOMAIN submission[t][m] |->
      [team |-> t, method |-> m, result |-> submission[t][m][f], test |-> TestFiles[f]]]])

\* Teams are scored apart: the sums printed for a method hold every comparison
\* of the team's methods up to it, once, and none of another team (lines 28-29
\* and 52-55); pixels and windows are summed over the same images.
TeamsApart ==
  \A l \in Lines :
    /\ l.pixel = ComparisonsUpTo(l.team, l.method)
    /\ l.window = IF window_evaluation THEN l.pixel ELSE <<>>

=============================================================================
