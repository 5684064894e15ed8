------------------------------ MODULE Registry ------------------------------
(***************************************************************************)
(* What the routing table of a frontend promises.  It is a set of routes:  *)
(* backend be serves URI uri, says its answer to heartbeat seq.  A route   *)
(* is registered when a reply announces it, and goes only because its      *)
(* backend failed a request or because a newer heartbeat replaced it, each *)
(* time in one indivisible step.                                           *)
(***************************************************************************)
CONSTANTS Uri, Entry, Backend, Service, AnyService, SeqNum

VARIABLE routes

Route(u, e) == [uri |-> u, be |-> e.be, seq |-> e.seq]

Init == routes = {}

\* addService
Register(u, e) == routes' = routes \cup {Route(u, e)}

\* removeBackend: b no longer serves s, or anything if s is AnyService.
Retire(b, s) ==
    routes' = {r \in routes : ~(r.be = b /\ s \in {AnyService, r.uri.svc})}

\* latestSequence: only the answers to heartbeat s remain.
Cleanup(s) == routes' = {r \in routes : r.seq = s}

Next ==
    \/ \E u \in Uri, e \in Entry : Register(u, e)
    \/ \E b \in Backend, s \in Service \cup {AnyService} : Retire(b, s)
    \/ \E s \in SeqNum : Cleanup(s)

Spec == Init /\ [][Next]_routes
=============================================================================
