------------------------------- MODULE Calls --------------------------------
(***************************************************************************)
(* A function without state of its own is checked call by call: the name   *)
(* of the function, its arguments and what it returns.                     *)
(***************************************************************************)
EXTENDS Integers, Sequences, FiniteSets, Null

VARIABLE call

NoCall == [fn |-> "none"]
Idle == call = NoCall
Called(fn, args, result) == call' = [fn |-> fn, args |-> args, result |-> result]
Is(fn) == call.fn = fn
=============================================================================
