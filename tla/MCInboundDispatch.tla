-------------------------- MODULE MCInboundDispatch --------------------------
EXTENDS InboundDispatch, TLC

CONSTANTS c1, c2

DoublingFromOne == Doubling(1)
OneSubscriber == <<c1>>
TwoSubscribers == <<c1, c2>>

Symm == Permutations(Dispatcher) \union Permutations(Token)
=============================================================================
