-------------------------- MODULE MCExceptionRerun --------------------------
(***************************************************************************)
(* Small instances of ExceptionRerun: the requests and the workers are     *)
(* interchangeable.                                                        *)
(***************************************************************************)
EXTENDS ExceptionRerun, TLC

Symmetric == Permutations(Requests) \cup Permutations(Workers)
=============================================================================
