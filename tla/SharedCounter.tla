--------------------------- MODULE SharedCounter ---------------------------
(***************************************************************************)
(* mutex.c and multi_thread2.c: half of the threads add one to the global  *)
(* num, Loops times, and half of them subtract one; main creates them,     *)
(* joins them and prints num.  multi_thread.c: two threads add the numbers *)
(* of a range each to the global sum, here num.  Only mutex.c has a mutex. *)
(***************************************************************************)
EXTENDS Integers, Programs

CONSTANTS
  NumThread,   \* threads of each program: NUM_THREAD is 100, multi_thread.c has 2
  Loops        \* length of a thread's loop: 500000, in multi_thread.c 5

CounterPrograms == {"mutex", "multi_thread2", "multi_thread"}

ASSUME CounterAssumption ==
  /\ NumThread \in [CounterPrograms -> Nat] /\ Loops \in [CounterPrograms -> Nat]
  /\ \A p \in CounterPrograms : NumThread[p] % 2 = 0

VARIABLES
  num, mutex,
  mpc, i,       \* main: "create", "join" or "done"; its loop index
  tpc, cnt,     \* threads: place, rounds done
  reg, times    \* what a thread loaded; the rounds it has in its register

counter == <<num, mutex, mpc, i, tpc, cnt, reg, times>>

Locked == program = "mutex"

Tids  == UNION {0..(NumThread[p] - 1) : p \in CounterPrograms}
Used  == IF program \in CounterPrograms THEN NumThread[program] ELSE 0
Turns == IF program \in CounterPrograms THEN Loops[program] ELSE 0
Free  == -1

CounterFresh ==
  /\ num = 0 /\ mutex = Free
  /\ mpc = "create" /\ i = 0
  /\ tpc = [t \in Tids |-> "none"] /\ cnt = [t \in Tids |-> 0]
  /\ reg = [t \in Tids |-> 0] /\ times = [t \in Tids |-> 1]

CounterInit == program \in CounterPrograms /\ CounterFresh

-----------------------------------------------------------------------------
(* main. *)

Create ==
  /\ mpc = "create" /\ i < Used
  /\ tpc' = [tpc EXCEPT ![i] = "loop"]
  /\ i' = i + 1
  /\ UNCHANGED <<num, mutex, mpc, cnt, reg, times>>

AllCreated ==
  /\ mpc = "create" /\ i = Used
  /\ mpc' = "join" /\ i' = 0
  /\ UNCHANGED <<num, mutex, tpc, cnt, reg, times>>

Join ==
  /\ mpc = "join" /\ i < Used /\ tpc[i] = "ended"
  /\ i' = i + 1
  /\ UNCHANGED <<num, mutex, mpc, tpc, cnt, reg, times>>

PrintNum ==
  /\ mpc = "join" /\ i = Used
  /\ mpc' = "done"
  /\ UNCHANGED <<num, mutex, i, tpc, cnt, reg, times>>

-----------------------------------------------------------------------------
(* thread_incr and thread_desc. *)

Step(t, from, to) == tpc[t] = from /\ tpc' = [tpc EXCEPT ![t] = to]

\* Deviation: the mutex is not waited for.
LockNone(t) ==
  /\ Step(t, "loop", "load") /\ cnt[t] < Turns
  /\ UNCHANGED <<num, mutex, mpc, i, cnt, reg, times>>

LockNum(t) ==
  /\ Step(t, "loop", "load") /\ cnt[t] < Turns
  /\ IF Locked THEN mutex = Free /\ mutex' = t ELSE UNCHANGED mutex
  /\ UNCHANGED <<num, mpc, i, cnt, reg, times>>

\* Without the mutex the compiler may keep num in a register for any number
\* of rounds.
LoadNum(t) ==
  /\ Step(t, "load", "store")
  /\ reg' = [reg EXCEPT ![t] = num]
  /\ \E n \in 1..(IF Locked THEN 1 ELSE Turns - cnt[t]) :
       times' = [times EXCEPT ![t] = n]
  /\ UNCHANGED <<num, mutex, mpc, i, cnt>>

\* Deviation: one iteration of thread_desc adds as well.
AddAlways(t) == times[t]

\* What the rounds in the register add: 1 each, -1 each, or the next numbers
\* of the thread's range.
Added(t) ==
  IF program = "multi_thread"
  THEN (times[t] * (2 * (t * Turns + cnt[t]) + times[t] + 1)) \div 2
  ELSE IF t % 2 = 0 THEN times[t] ELSE -times[t]

\* The register is dead afterwards.
StoreNum(t) ==
  /\ Step(t, "store", "unlock")
  /\ num' = reg[t] + Added(t)
  /\ cnt' = [cnt EXCEPT ![t] = @ + times[t]]
  /\ reg' = [reg EXCEPT ![t] = 0] /\ times' = [times EXCEPT ![t] = 1]
  /\ UNCHANGED <<mutex, mpc, i>>

\* Deviation: the mutex is kept.
UnlockNone(t) ==
  /\ Step(t, "unlock", "loop")
  /\ UNCHANGED <<num, mutex, mpc, i, cnt, reg, times>>

Unlock(t) ==
  /\ Step(t, "unlock", "loop")
  /\ mutex' = Free
  /\ UNCHANGED <<num, mpc, i, cnt, reg, times>>

End(t) ==
  /\ Step(t, "loop", "ended") /\ cnt[t] = Turns
  /\ UNCHANGED <<num, mutex, mpc, i, cnt, reg, times>>

Main == Create \/ AllCreated \/ Join \/ PrintNum
Thread(t) == LockNum(t) \/ LoadNum(t) \/ StoreNum(t) \/ Unlock(t) \/ End(t)

CounterNext ==
  program \in CounterPrograms /\ (Main \/ \E t \in Tids : Thread(t))

CounterSpec == CounterInit /\ [][CounterNext /\ UNCHANGED program]_<<counter, program>>

\* main and every thread are scheduled.
CounterFair ==
  /\ WF_counter(program \in CounterPrograms /\ Main)
  /\ \A t \in Tids : WF_counter(program \in CounterPrograms /\ Thread(t))

-----------------------------------------------------------------------------
(* Properties. *)

\* Every variable stays in its type; only created threads run.
CounterTypeOK ==
  /\ num \in Int /\ mutex \in Tids \cup {Free}
  /\ mpc \in {"create", "join", "done"} /\ i \in 0..Used
  /\ tpc \in [Tids -> {"none", "loop", "load", "store", "unlock", "ended"}]
  /\ cnt \in [Tids -> 0..Turns]
  /\ reg \in [Tids -> Int] /\ times \in [Tids -> Int]
  /\ mpc = "create" => \A t \in Tids : tpc[t] = "none" <=> t >= i

\* Under the mutex main prints zero, however the threads interleave (:71-75 of
\* mutex.c, "num: 0").
ZeroAtEnd == Locked /\ mpc = "done" => num = 0

\* Even without a mutex the counter never leaves what the additions alone and
\* the subtractions alone could make of it, and the sum never exceeds that of
\* both ranges (multi_thread2.c:44, 53, multi_thread.c:34).
InRange ==
  num \in IF program = "multi_thread" THEN 0..((Used * Turns * (Used * Turns + 1)) \div 2)
          ELSE LET most == (Used \div 2) * Turns IN -most..most

\* What main prints (mutex.c:45, multi_thread2.c:36, multi_thread.c:23).
CountSound == CounterTypeOK /\ ZeroAtEnd /\ InRange

\* main comes to its end: no thread keeps the mutex (:40-46 of mutex.c).
Prints == program \in CounterPrograms => <>(mpc = "done")
=============================================================================
