---------------------------- MODULE MCLogServer ----------------------------
(***************************************************************************)
(* Constants for model-checking LogServer.                                 *)
(***************************************************************************)
EXTENDS LogServer

CONSTANT c1

\* The second record of each process is long, the child's has arguments that
\* cannot be unpickled.
MCLong == [from : Processes, n : {2}]
MCPoison == {[from |-> c1, n |-> 2]}
============================================================================
