------------------------- MODULE MCHandshakeRefinement -------------------------
(* Three intents planned at most once: a and b share a sanitised name, the    *)
(* API server refuses the manifest of c.                                      *)
EXTENDS HandshakeRefinement

CONSTANTS a, b, c, ab, n

MCIntents == {a, b, c}
MCNames == {ab, n}
MCSafeName == [i \in MCIntents |-> IF i = c THEN n ELSE ab]
MCUnwritable == {}
MCRejected == {c}
================================================================================
