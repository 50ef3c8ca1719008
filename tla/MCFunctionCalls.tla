--------------------------- MODULE MCFunctionCalls ---------------------------
(* Instances of FunctionCalls for TLC: two calls that authenticate, one of any *)
(* function and one of a function that keeps the channel busy.                 *)
EXTENDS FunctionCalls

CONSTANTS login, renewal, any, other

MCCalls == {login, renewal, any, other}
MCOffered ==
  [c \in MCCalls |->
     CASE c \in {login, renewal} -> {"authenticate"}
       [] c = any -> Functions
       [] OTHER -> {"unsubscribe"}]
=============================================================================
