------------------------------ MODULE MCServer ------------------------------
(* Server on small instances: the children are interchangeable.            *)
EXTENDS Server, TLC

Symmetry == Permutations(Pid)

(* Something to do besides a silent script: a body that arrives, a file,   *)
(* an answer to write, the end.                                            *)
Busy(c) ==
    ~c.body_done \/ c.cgi_buffer \/ c.write_buffer \/ c.action = "Other" \/ c.closed

(* A bound on the clients that act at a time: two clients may each run a   *)
(* script, be idle or be overdue together, but states behind one in which  *)
(* both are busy are not searched.                                         *)
OneBusy ==
    \A t, u \in DOMAIN connections : Busy(connections[t]) /\ Busy(connections[u]) => t = u
=============================================================================
