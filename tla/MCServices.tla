----------------------------- MODULE MCServices -----------------------------
(* Services on small instances. *)
EXTENDS Services

CONSTANTS b1, b2, a, ax

\* Both backends announce the same service.
SharedOffer == [b \in Backend |-> <<a>>]
\* b1 announces a, b2 announces ax.
SplitOffer == [b \in Backend |-> IF b = b1 THEN <<a>> ELSE <<ax>>]

NoPrefix == [b \in Backend |-> {}]
APrefix == [b \in Backend |-> {a}]

\* The backends are interchangeable where they offer the same.
Symmetry == Permutations(Backend)

\* a is "/": every other URI starts with it, those that processReply makes up
\* included; of one host, ax starts with a.
RootUnder ==
    {<<Public(ax), Public(a)>>}
        \cup {<<Direct(b, s), Public(a)>> : b \in Backend, s \in {a, ax}}
        \cup {<<Direct(b, ax), Direct(b, a)>> : b \in Backend}
=============================================================================
