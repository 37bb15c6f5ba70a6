---------------------------- MODULE MCFulfillment ----------------------------
EXTENDS Fulfillment, TLC

CONSTANTS h1

OneHold == [o \in Order |-> h1]

Symm == Permutations(Worker) \union Permutations(Job)
=============================================================================
