---------------------------- MODULE MCVxThreads ----------------------------
(***************************************************************************)
(* An instance of VxThreads: a program that creates up to five threads and *)
(* keeps main and them in loops they may or may not leave.                 *)
(***************************************************************************)
EXTENDS VxThreads

\* main: 0 crth, 1 loops or returns; a thread: 2 loops or goes on, 3 goes back or
\* returns; a thread that is created at -1 has nothing to do.
LoopIps == 0..3
LoopKind == [ip \in LoopIps |-> IF ip = 0 THEN "crth" ELSE "plain"]
LoopSucc == [ip \in LoopIps |->
               CASE ip = 0 -> {1}
                 [] ip = 1 -> {1, Returned}
                 [] ip = 2 -> {2, 3}
                 [] ip = 3 -> {2, Returned}]
LoopTargets == {2, Returned}
=============================================================================
