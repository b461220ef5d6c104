------------------------------- MODULE Pipes -------------------------------
(***************************************************************************)
(* pipe_1.c, pipe_2.c and socketpair.c: a child and its parent tell each   *)
(* other a message.  The first two keep both ends of the pipe in both      *)
(* processes, and pipe_2.c answers on the same pipe, with sleep(2) to let  *)
(* the parent read first; socketpair.c closes the ends it does not use.    *)
(* Sleeping takes any time; the child may be killed, or never be born.     *)
(***************************************************************************)
EXTENDS Sequences, Programs

VARIABLES
  ppc, kpc,       \* parent: "fork", "read", "reply", "reap" or "done";
                  \* child: "none", "write", "read", "done" or "dead"
  inpipe,         \* whose messages are in the pipe
  pread, kread    \* whose message each has read, or "nothing", "eof"

pipes == <<ppc, kpc, inpipe, pread, kread>>

PipePrograms == {"pipe_1", "pipe_2", "socketpair"}
Ends == {"done", "dead"}

PipesFresh ==
  /\ ppc = "fork" /\ kpc = "none" /\ inpipe = <<>>
  /\ pread = "nothing" /\ kread = "nothing"

PipesInit == program \in PipePrograms /\ PipesFresh

\* A failed fork() leaves the parent's branch to run alone.
ForkKid ==
  /\ ppc = "fork"
  /\ ppc' = "read" /\ kpc' \in {"write", "dead"}
  /\ UNCHANGED <<inpipe, pread, kread>>

KidWrites ==
  /\ kpc = "write"
  /\ inpipe' = Append(inpipe, "child")
  /\ kpc' = IF program = "pipe_2" THEN "read" ELSE "done"
  /\ UNCHANGED <<ppc, pread, kread>>

\* After its sleep the child takes what is there.
KidReads ==
  /\ kpc = "read" /\ inpipe # <<>>
  /\ kread' = Head(inpipe) /\ inpipe' = Tail(inpipe)
  /\ kpc' = "done"
  /\ UNCHANGED <<ppc, pread>>

KidDies ==
  /\ kpc \in {"write", "read"}
  /\ kpc' = "dead"
  /\ UNCHANGED <<ppc, inpipe, pread, kread>>

AfterRead ==
  CASE program = "pipe_1" -> "done" [] program = "pipe_2" -> "reply" [] OTHER -> "reap"

\* Deviation: the parent reads whatever is in the pipe, or does not wait.
ParentPolls ==
  /\ ppc = "read"
  /\ pread' = IF inpipe = <<>> THEN "eof" ELSE Head(inpipe)
  /\ inpipe' = IF inpipe = <<>> THEN <<>> ELSE Tail(inpipe)
  /\ ppc' = AfterRead
  /\ UNCHANGED <<kpc, kread>>

\* EOF comes when no process has the other end: never while the parent has.
ParentReads ==
  /\ ppc = "read"
  /\ \/ inpipe # <<>> /\ pread' = Head(inpipe) /\ inpipe' = Tail(inpipe)
     \/ /\ inpipe = <<>> /\ program = "socketpair" /\ kpc \in Ends
        /\ pread' = "eof" /\ UNCHANGED inpipe
  /\ ppc' = AfterRead
  /\ UNCHANGED <<kpc, kread>>

ParentReplies ==
  /\ ppc = "reply"
  /\ inpipe' = Append(inpipe, "parent")
  /\ ppc' = "done"
  /\ UNCHANGED <<kpc, pread, kread>>

\* waitpid(pid, NULL, 0).
ParentReaps ==
  /\ ppc = "reap" /\ kpc \in Ends
  /\ ppc' = "done"
  /\ UNCHANGED <<kpc, inpipe, pread, kread>>

PipesNext ==
  /\ program \in PipePrograms
  /\ \/ ForkKid \/ KidWrites \/ KidReads \/ KidDies
     \/ ParentReads \/ ParentReplies \/ ParentReaps

PipesSpec == PipesInit /\ [][PipesNext /\ UNCHANGED program]_<<pipes, program>>

-----------------------------------------------------------------------------
(* Properties. *)

\* Every variable stays in its type; the parent never reads its own message.
PipesTypeOK ==
  /\ ppc \in {"fork", "read", "reply", "reap", "done"}
  /\ kpc \in {"none", "write", "read"} \cup Ends
  /\ inpipe \in Seq({"child", "parent"})
  /\ pread \in {"nothing", "eof", "child"} /\ kread \in {"nothing", "child", "parent"}

\* Each reads the other's message, except: the child of pipe_2.c whose sleep
\* was too short reads back its own (pipe_2.c:21-22), and the parent of
\* socketpair.c is told of a child that died without one.  A parent waits for
\* a message that cannot come only for such a child, or one that died, and
\* only while it has kept the writing end (pipe_1.c:28, pipe_2.c:27).
Exchanged ==
  /\ PipesTypeOK
  /\ kread = "parent" => pread = "child"
  /\ kread = "child" => program = "pipe_2" /\ pread = "nothing"
  /\ pread = "eof" => program = "socketpair" /\ kpc = "dead"
  /\ ppc = "read" /\ inpipe = <<>> /\ kpc = "done" => kread = "child"
=============================================================================
