------------------------------- MODULE MCMoney -------------------------------
EXTENDS Money, TLC

CONSTANTS main

OneWallet == [h \in Hold |-> main]

Symm == Permutations(Client) \union Permutations(Hold) \union Permutations(Key)
=============================================================================
