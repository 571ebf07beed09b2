-------------------------------- MODULE Program --------------------------------
(***************************************************************************)
(* The repository is many programs, and a behaviour is that of one: the    *)
(* modules that are checked together share this variable, which never      *)
(* changes, and a program's fairness is asked for only where it runs.      *)
(***************************************************************************)
VARIABLE program

Runs(name) == program = name
=============================================================================
