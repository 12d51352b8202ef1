----------------------------- MODULE ChildReaper -----------------------------
(* What the server promises about the CGI children it spawns: each is held  *)
(* by the connection that asked for it until it is reaped or killed, and a  *)
(* killed one waits in the purgatory until it is reaped.  None is lost, and *)
(* none goes back.  Several may move in one step (a timeout sweep).         *)
CONSTANT Pid
VARIABLE child

Phase == {"unborn", "held", "doomed", "reaped"}

Successors == [ unborn |-> {"unborn", "held"},
                held   |-> {"held", "doomed", "reaped"},
                doomed |-> {"doomed", "reaped"},
                reaped |-> {"reaped"} ]

Init == child = [p \in Pid |-> "unborn"]

Next == /\ child' \in [Pid -> Phase]
        /\ \A p \in Pid : child'[p] \in Successors[child[p]]

Spec == Init /\ [][Next]_child

(* Whoever is held ends reaped.                                            *)
AllReaped == \A p \in Pid : child[p] = "held" ~> child[p] = "reaped"
=============================================================================
