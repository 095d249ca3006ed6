---------------------------- MODULE MCNetThreads ----------------------------
(* Instances of NetThreads for TLC: two simulations, the first with three  *)
(* requests for one port, of which the last is beyond the capacity, and    *)
(* one for another port.                                                   *)
EXTENDS NetThreads
Request(p, a, y) == [port |-> p, atomic |-> a, type |-> y]
MCMessageTypes == <<{"u"}, {"any", "t"}>>
MCRequests == <<<<Request(1, "a", "t"), Request(1, "b", "any"),
                  Request(2, "a", "any"), Request(1, "c", "any")>>,
                <<Request(1, "a", "t")>>>>
=============================================================================
