--------------------------- MODULE MCHandshakeBridge ---------------------------
(* Two intents that share a sanitised name, each planned up to twice.         *)
EXTENDS HandshakeBridge

CONSTANTS a, b, ab

MCIntents == {a, b}
MCNames == {ab}
MCSafeName == [i \in MCIntents |-> ab]
MCNone == {}
================================================================================
