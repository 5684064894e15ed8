---------------------------- MODULE MCForwarders ----------------------------
(* Forwarders on small instances. *)
EXTENDS Forwarders

CONSTANTS b1, b2, b3

\* X-Forwarded-For is whatever the client sends, the separator of the key
\* included: the second address with an empty User-Agent has the key of the
\* first with the longer one.
Addresses == {<<"x">>, <<"x", "|", "y">>}
Agents == {Empty, <<"y", "|">>}
Cookies == {<<"x">>}

\* Cookies rank the backends one way, clients in two others.
Ranks == [k \in Key |-> [b \in Backend |->
    CASE b = b1 -> IF k[1] = "c:" THEN 3 ELSE 1
      [] b = b2 -> IF k[1] = "u:" /\ Len(k) = 3 THEN 3 ELSE 2
      [] b = b3 -> IF k[1] = "c:" THEN 1 ELSE IF Len(k) = 3 THEN 2 ELSE 3]]

\* For sticky, a factor that is not a whole number, and one that the code
\* replaces by 2; a factor so large that the threshold overflows as soon as
\* every backend has two connections.
Settings ==
    [mode : Modes \ {"sticky"}, num : {2}, den : {1}, cookie : {TRUE}]
        \cup {[mode |-> "sticky", num |-> 3, den |-> 2, cookie |-> TRUE],
              [mode |-> "sticky", num |-> 1, den |-> 2, cookie |-> FALSE],
              [mode |-> "sticky", num |-> 4, den |-> 1, cookie |-> TRUE]}

\* The conversion gives the least int.
LeastInt == -MaxInt - 1
=============================================================================
