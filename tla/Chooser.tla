------------------------------- MODULE Chooser -------------------------------
(***************************************************************************)
(* What a forwarder promises (BackendForwarder.h): it keeps the list of    *)
(* the backends it was given, duplicates included, and picks one of their  *)
(* positions, whatever the strategy.  Module Services relies on no more.   *)
(***************************************************************************)
EXTENDS Naturals, Sequences

CONSTANTS Backend, MaxInfos

VARIABLES
    backends,   \* the backends, in the order they were added
    slot        \* the position picked since the list last changed, or 0

Init == backends = <<>> /\ slot = 0

\* addBackend
Add(b) ==
    /\ Len(backends) < MaxInfos
    /\ backends' = Append(backends, b)
    /\ slot' = 0

\* The first occurrence of b, if there is one.
IsFirst(i, b) ==
    backends[i] = b /\ \A j \in 1 .. i - 1 : backends[j] # b

\* removeBackend
Remove(b) ==
    /\ \E i \in DOMAIN backends :
          /\ IsFirst(i, b)
          /\ backends' = SubSeq(backends, 1, i - 1)
                            \o SubSeq(backends, i + 1, Len(backends))
    /\ slot' = 0

\* getBackend
Pick ==
    /\ slot' \in DOMAIN backends
    /\ UNCHANGED backends

Next ==
    \/ \E b \in Backend : Add(b) \/ Remove(b)
    \/ Pick

vars == <<backends, slot>>

Spec == Init /\ [][Next]_vars
=============================================================================
