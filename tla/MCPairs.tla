------------------------------ MODULE MCPairs -------------------------------
(***************************************************************************)
(* Small instances of Transfer, SplitClient, Reap, Pipes, SharedCounter    *)
(* and SemHandoff: the programs whose processes or threads meet, one       *)
(* program a behaviour.                                                    *)
(***************************************************************************)
EXTENDS Transfer, SplitClient, Reap, Pipes, SharedCounter, SemHandoff

\* The threads race in pairs; the mutex has four of them.
Teams == [mutex |-> 4, multi_thread2 |-> 2, multi_thread |-> 2]
Turn  == [mutex |-> 3, multi_thread2 |-> 5, multi_thread |-> 5]

\* What is typed for semaphore.c.
Keyed == {0, 1, 3}

PairsInit ==
  /\ program \in UNION {XferPrograms, SplitPrograms, ReapPrograms, PipePrograms,
                       CounterPrograms, {"semaphore"}}
  /\ XferFresh /\ SplitFresh /\ ReapFresh /\ PipesFresh /\ CounterFresh /\ HandoffFresh

PairsNext ==
  /\ \/ XferNext /\ UNCHANGED <<split, reap, pipes, counter, handoff>>
     \/ SplitNext /\ UNCHANGED <<xfer, reap, pipes, counter, handoff>>
     \/ ReapNext /\ UNCHANGED <<xfer, split, pipes, counter, handoff>>
     \/ PipesNext /\ UNCHANGED <<xfer, split, reap, counter, handoff>>
     \/ HandoffNext /\ UNCHANGED <<xfer, split, reap, pipes, counter>>
     \/ CounterNext /\ UNCHANGED <<xfer, split, reap, pipes, handoff>>
  /\ UNCHANGED program

PairsSpec ==
  /\ PairsInit /\ [][PairsNext]_<<xfer, split, reap, pipes, counter, handoff, program>>
  /\ XferFair /\ SplitFair /\ CounterFair /\ HandoffFair

\* A parent and its child: what one leaves for the other, an exit status or a
\* message, is taken once and by the other (wait.c:31-41, remove_zombie.c:11,
\* pipe_2.c:20-29).
FamilySound == Reaped /\ Exchanged
=============================================================================
