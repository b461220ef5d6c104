----------------------------- MODULE SemHandoff -----------------------------
(***************************************************************************)
(* semaphore.c: one thread reads Rounds times from the terminal and stores *)
(* the number in the global var, the other adds var to sum Rounds times;   *)
(* t2 keeps the first from overwriting a number not added yet, t1 keeps    *)
(* the second from adding an old one.                                      *)
(***************************************************************************)
EXTENDS Integers, Sequences, Programs

Seqs == INSTANCE SequencesExt

CONSTANTS
  Values,     \* the numbers that may be typed
  Rounds,     \* the length of both loops, 5 in the code
  MayEnd      \* read() may find no number: the input ended or fails

ASSUME HandoffAssumption ==
  Values \subseteq Int /\ Rounds \in Nat /\ MayEnd \in BOOLEAN

VARIABLES
  var, sum, t1, t2,
  putpc, puti, number,   \* put_global_var: place, i, what buf holds
  addpc, addi,           \* thread_sum_main: place, i
  ended,                 \* history: some read() found the end of the input
  given, taken           \* history: numbers stored, numbers added

handoff == <<var, sum, t1, t2, putpc, puti, number, addpc, addi, ended, given, taken>>

HandoffFresh ==
  /\ var = 0 /\ sum = 0 /\ t1 = 0 /\ t2 = 1
  /\ putpc = "read" /\ puti = 0 /\ number = 0
  /\ addpc = "wait" /\ addi = 0
  /\ ended = FALSE /\ given = <<>> /\ taken = <<>>

-----------------------------------------------------------------------------
(* put_global_var. *)

Read ==
  /\ putpc = "read" /\ puti < Rounds
  /\ number' \in Values
  /\ putpc' = "wait"
  /\ UNCHANGED <<var, sum, t1, t2, puti, addpc, addi, ended, given, taken>>

\* Nothing read: the round is skipped, semaphores and all.  The end of a
\* terminal's input is not the last of it: the next read() may find a number.
NoInput ==
  /\ putpc = "read" /\ puti < Rounds /\ MayEnd
  /\ ended' = TRUE
  /\ puti' = puti + 1
  /\ UNCHANGED <<var, sum, t1, t2, putpc, number, addpc, addi, given, taken>>

WaitT2 ==
  /\ putpc = "wait" /\ t2 > 0
  /\ t2' = t2 - 1
  /\ putpc' = "store"
  /\ UNCHANGED <<var, sum, t1, puti, number, addpc, addi, ended, given, taken>>

Store ==
  /\ putpc = "store"
  /\ var' = number /\ given' = Append(given, number)
  /\ putpc' = "post"
  /\ UNCHANGED <<sum, t1, t2, puti, number, addpc, addi, ended, taken>>

PostT1 ==
  /\ putpc = "post"
  /\ t1' = t1 + 1
  /\ puti' = puti + 1 /\ putpc' = "read"
  /\ UNCHANGED <<var, sum, t2, number, addpc, addi, ended, given, taken>>

-----------------------------------------------------------------------------
(* thread_sum_main. *)

WaitT1 ==
  /\ addpc = "wait" /\ addi < Rounds /\ t1 > 0
  /\ t1' = t1 - 1
  /\ addpc' = "add"
  /\ UNCHANGED <<var, sum, t2, putpc, puti, number, addi, ended, given, taken>>

Add ==
  /\ addpc = "add"
  /\ sum' = sum + var /\ taken' = Append(taken, var)
  /\ addpc' = "post"
  /\ UNCHANGED <<var, t1, t2, putpc, puti, number, addi, ended, given>>

\* Deviations: the semaphore posted is the wrong one; none is posted.
PostWrong ==
  /\ addpc = "post"
  /\ t1' = t1 + 1
  /\ addi' = addi + 1 /\ addpc' = "wait"
  /\ UNCHANGED <<var, sum, t2, putpc, puti, number, ended, given, taken>>
PostNone ==
  /\ addpc = "post"
  /\ addi' = addi + 1 /\ addpc' = "wait"
  /\ UNCHANGED <<var, sum, t1, t2, putpc, puti, number, ended, given, taken>>

PostT2 ==
  /\ addpc = "post"
  /\ t2' = t2 + 1
  /\ addi' = addi + 1 /\ addpc' = "wait"
  /\ UNCHANGED <<var, sum, t1, putpc, puti, number, ended, given, taken>>

Putter == Read \/ NoInput \/ WaitT2 \/ Store \/ PostT1
Adder  == WaitT1 \/ Add \/ PostT2

\* main's pthread_join() on both threads returned.
Joined == puti = Rounds /\ addi = Rounds

HandoffNext == program = "semaphore" /\ (Putter \/ Adder)

HandoffInit == program = "semaphore" /\ HandoffFresh
HandoffSpec == HandoffInit /\ [][HandoffNext /\ UNCHANGED program]_<<handoff, program>>

\* Both threads run, and the terminal delivers a number or its end.
HandoffFair ==
  /\ WF_handoff(program = "semaphore" /\ Putter)
  /\ WF_handoff(program = "semaphore" /\ Adder)

-----------------------------------------------------------------------------
(* Properties. *)

\* Every variable stays in its type; the semaphores never exceed one.
HandoffTypeOK ==
  /\ var \in Values \cup {0} /\ sum \in Int /\ t1 \in {0, 1} /\ t2 \in {0, 1}
  /\ putpc \in {"read", "wait", "store", "post"} /\ puti \in 0..Rounds
  /\ number \in Values \cup {0}
  /\ addpc \in {"wait", "add", "post"} /\ addi \in 0..Rounds
  /\ ended \in BOOLEAN /\ given \in Seq(Values) /\ taken \in Seq(Values)

Handoff == INSTANCE OneSlot

\* No number is overwritten before it is added and none is added twice: the
\* two semaphores make var a slot (:18-20).
SlotSpec == Handoff!HSpec

\* The threads never touch var at the same time (:18-20).
NoRaceOnVar == ~(putpc = "store" /\ addpc = "add")

\* What main prints at the end is the sum of the numbers typed (:36).
SumExact == HandoffTypeOK /\ (Joined => sum = Seqs!FoldSeq(+, 0, given))

\* The threads never wait for each other, nor the first for a second that is
\* through; the second waits for a first that is through only after the input
\* ended: the round skipped then posted no t1 (:44-57, :63-69).
NeitherInVain ==
  /\ putpc = "wait" /\ t2 = 0 => addi < Rounds /\ (addpc = "wait" => t1 > 0)
  /\ puti = Rounds /\ addi < Rounds /\ addpc = "wait" /\ t1 = 0 => ended

\* The sum is right when the threads end, and they do not hold each other up.
HandoffSound == SumExact /\ NeitherInVain

\* Both threads end and main prints the sum (:33-36), unless the input ended:
\* the round skipped then posts no t1 and the second thread waits for ever.
BothJoined == program = "semaphore" => <>(Joined \/ ended)
=============================================================================
