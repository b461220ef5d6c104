----------------------------- MODULE Programs ------------------------------
(***************************************************************************)
(* The small programs of the repository run one at a time: a behaviour is  *)
(* one of the program chosen in its first state, with the programs it      *)
(* talks to.  Modules that model several programs, or are checked in one   *)
(* run with others, share this variable.                                   *)
(***************************************************************************)

VARIABLE program    \* the name of the file without ".c"; never changes
=============================================================================
