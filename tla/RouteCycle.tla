----------------------------- MODULE RouteCycle -----------------------------
(***************************************************************************)
(* What the graph promises the engine thread, and all it may know of it:   *)
(* a call runs every route of one chain exactly once, each after the       *)
(* routes that feed it, and then returns.  Threads, queues, semaphores and *)
(* the second chain are not visible here.                                  *)
(***************************************************************************)
EXTENDS RouteChain

CONSTANTS Chains     \* the chains a call may run

VARIABLES
    call,   \* "idle", "asked", "running" or "over"
    net,    \* the chain of the call that runs, or of the last one
    done    \* the routes of net that have been run

Init == call = "idle" /\ net \in Chains /\ done = {}

Ask == call = "idle" /\ call' = "asked" /\ UNCHANGED <<net, done>>

(* The chain is chosen when the call starts to run.                        *)
Begin ==
    /\ call = "asked"
    /\ net' \in Chains /\ done' = {}
    /\ call' = "running"

Run(n) ==
    /\ call = "running" /\ n \in net.nodes \ done
    /\ Feeders(net.act, n) \subseteq done
    /\ done' = done \cup {n}
    /\ UNCHANGED <<call, net>>

End ==
    /\ call = "running" /\ done = net.nodes
    /\ call' = "over"
    /\ UNCHANGED <<net, done>>

Return == call = "over" /\ call' = "idle" /\ UNCHANGED <<net, done>>

Next == Ask \/ Begin \/ (\E n \in net.nodes : Run(n)) \/ End \/ Return

Spec == Init /\ [][Next]_<<call, net, done>>

=============================================================================
