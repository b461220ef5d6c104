-------------------------------- MODULE Reap --------------------------------
(***************************************************************************)
(* The programs that collect their children: wait.c with two wait()s,      *)
(* waitpid.c with a polling loop, remove_zombie.c in a SIGCHLD handler     *)
(* that interrupts its naps.  No program looks at what fork() or waitpid() *)
(* returns for an error: status may be unset, or an earlier child's.       *)
(* Sleeping takes any time.                                                *)
(***************************************************************************)
EXTENDS Naturals, Sequences, FiniteSets, Programs

CONSTANT MaxNaps    \* the sleeps of remove_zombie.c, 5 in the code

ASSUME ReapAssumption == MaxNaps \in Nat \ {0}

VARIABLES
  parent,     \* "fork", "wait", "report", "nap" or "done"
  kids,       \* the child of each fork(): "none", "runs", "zombie" or "reaped"
  forks,      \* calls of fork()
  status,     \* the child whose exit value status holds, 0 if unset
  reports,    \* the values of status printed
  calls,      \* calls of wait()
  naps,
  pending,    \* SIGCHLD is pending
  merged      \* history: signals that were pending already

reap == <<parent, kids, forks, status, reports, calls, naps, pending, merged>>

ReapPrograms == {"wait", "waitpid", "remove_zombie"}
Children == IF program = "waitpid" THEN 1..1 ELSE 1..2
In(s) == {k \in Children : kids[k] = s}

ReapFresh ==
  /\ parent = "fork" /\ kids = [k \in 1..2 |-> "none"] /\ forks = 0 /\ status = 0
  /\ reports = <<>> /\ calls = 0 /\ naps = 0 /\ pending = FALSE /\ merged = 0

ReapInit == program \in ReapPrograms /\ ReapFresh

\* After its last fork() a program waits, or naps.
AfterFork ==
  IF forks + 1 < Cardinality(Children) THEN "fork"
  ELSE IF program = "remove_zombie" THEN "nap" ELSE "wait"

Fork ==
  /\ parent = "fork"
  /\ forks' = forks + 1 /\ parent' = AfterFork
  /\ kids' = [kids EXCEPT ![forks + 1] = "runs"]
  /\ UNCHANGED <<status, reports, calls, naps, pending, merged>>

\* -1 is taken for a process number.
ForkFails ==
  /\ parent = "fork"
  /\ forks' = forks + 1 /\ parent' = AfterFork
  /\ UNCHANGED <<kids, status, reports, calls, naps, pending, merged>>

\* Without a handler the signal is ignored; two make one.
Exit(k) ==
  /\ kids[k] = "runs"
  /\ kids' = [kids EXCEPT ![k] = "zombie"]
  /\ IF program = "remove_zombie" /\ parent # "done"
     THEN pending' = TRUE /\ merged' = merged + (IF pending THEN 1 ELSE 0)
     ELSE UNCHANGED <<pending, merged>>
  /\ UNCHANGED <<parent, forks, status, reports, calls, naps>>

\* Deviation: the child is left a zombie.
PeekAt(k) == k \in In("zombie") /\ status' = k /\ UNCHANGED kids

Collect(k) ==
  /\ k \in In("zombie")
  /\ status' = k /\ kids' = [kids EXCEPT ![k] = "reaped"]

\* wait() waits while a child runs; it fails when there is none, as waitpid()
\* does, and status stays.
WaitReturns ==
  /\ parent = "wait"
  /\ \/ \E k \in Children : Collect(k)
     \/ In("zombie") \cup In("runs") = {} /\ UNCHANGED <<kids, status>>
  /\ calls' = calls + 1 /\ parent' = "report"
  /\ UNCHANGED <<forks, reports, naps, pending, merged>>

\* What is unset may say that a child exited.
Report ==
  /\ parent = "report"
  /\ \/ reports' = Append(reports, status)
     \/ status = 0 /\ UNCHANGED reports
  /\ parent' = IF calls < Cardinality(Children) THEN "wait" ELSE "done"
  /\ UNCHANGED <<kids, forks, status, calls, naps, pending, merged>>

\* read_proc(): one waitpid().  A nap ends, if it runs in one.
ReadProc ==
  /\ pending /\ parent # "done"
  /\ \E k \in Children : Collect(k) /\ reports' = Append(reports, k)
  /\ pending' = FALSE
  /\ naps' \in IF parent = "nap" THEN {naps, naps + 1} ELSE {naps}
  /\ parent' = IF parent = "nap" /\ naps' >= MaxNaps THEN "done" ELSE parent
  /\ UNCHANGED <<forks, calls, merged>>

NapOver ==
  /\ parent = "nap" /\ ~pending
  /\ naps' = naps + 1
  /\ parent' = IF naps + 1 >= MaxNaps THEN "done" ELSE parent
  /\ UNCHANGED <<kids, forks, status, reports, calls, pending, merged>>

Parent == Fork \/ ForkFails \/ WaitReturns \/ Report \/ ReadProc \/ NapOver

ReapNext == program \in ReapPrograms /\ (Parent \/ \E k \in Children : Exit(k))

ReapSpec == ReapInit /\ [][ReapNext /\ UNCHANGED program]_<<reap, program>>

-----------------------------------------------------------------------------
(* Properties. *)

\* Every variable stays in its type.
ReapTypeOK ==
  /\ parent \in {"fork", "wait", "report", "nap", "done"}
  /\ kids \in [1..2 -> {"none", "runs", "zombie", "reaped"}]
  /\ forks \in 0..2 /\ status \in 0..2 /\ reports \in Seq(0..2) /\ calls \in 0..2
  /\ naps \in 0..MaxNaps /\ pending \in BOOLEAN /\ merged \in 0..1

\* No child is reported twice or left behind, except: after a failed fork()
\* the last report is repeated or is of nothing; and remove_zombie.c, whose
\* handler collects one child a signal, leaves one when two signals became one
\* (wait.c:31-41, waitpid.c:21-27, remove_zombie.c:11).
Reaped ==
  /\ ReapTypeOK
  /\ {reports[i] : i \in DOMAIN reports} \ {0} \subseteq In("reaped")
  /\ \A i, j \in DOMAIN reports : reports[i] = reports[j] => i = j \/ In("none") # {}
  /\ program = "remove_zombie" =>
       Cardinality(In("zombie")) <= merged + (IF pending THEN 1 ELSE 0) \/ parent = "done"
  /\ parent = "done" /\ program # "remove_zombie" => In("zombie") \cup In("runs") = {}
=============================================================================
