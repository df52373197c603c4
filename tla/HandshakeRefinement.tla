-------------------------- MODULE HandshakeRefinement --------------------------
(***************************************************************************)
(* HandshakeBridge implements AtLeastOnceDispatch when every intent_id is  *)
(* planned once, as the model field's description ("Unique identifier for  *)
(* this intent") has it.                                                   *)
(***************************************************************************)
EXTENDS HandshakeBridge

QueuedOnce == {i \in Intents : 1 \in queued[i]}

Promise == INSTANCE AtLeastOnceDispatch WITH
    Accepted <- Intents \ Rejected,
    waiting  <- {i \in QueuedOnce : processed[i] = NoFile},
    retired  <- {i \in QueuedOnce : processed[i] # NoFile},
    runs     <- [i \in Intents |-> tasks[i][1]]

\* Every behaviour of the bridge, with its fairness, is one that the promise
\* allows: no plan is retired before it ran or run after it was retired, and
\* each accepted plan is run and retired in spite of finitely many faults.
KeepsPromise == Promise!FairSpec
================================================================================
