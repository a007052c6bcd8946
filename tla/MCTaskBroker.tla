----------------------------- MODULE MCTaskBroker -----------------------------
(* Constants of TaskBroker for the model checker.                           *)
EXTENDS TaskBrokerClaims, TLC

CONSTANTS alice, bob, s1, s2, s3, t1, t2, h1, h2

\* Ordinary credits orders: 10 credits, below the approval threshold of 15.
Rest == [creator |-> alice, owner |-> bob, quoted |-> 10, method |-> "credits",
         delegated |-> FALSE]
Delegated == [Rest EXCEPT !.delegated = TRUE]
\* The client hires an agent of its own.
SelfHired == [Rest EXCEPT !.owner = alice]
SelfDelegated == [Delegated EXCEPT !.owner = alice]
\* Orders above the threshold.
Costly == [Rest EXCEPT !.quoted = 20]
CostlyDelegated == [Delegated EXCEPT !.quoted = 20]
X402 == [Rest EXCEPT !.method = "x402"]
CostlyX402 == [X402 EXCEPT !.quoted = 20]
Free == [Rest EXCEPT !.quoted = 0]
\* bob hires an agent of alice.
Reverse == [Delegated EXCEPT !.creator = bob, !.owner = alice]

AnyOrder == {Rest, Delegated, SelfHired, SelfDelegated, Costly, CostlyDelegated, Free,
             X402, CostlyX402}
MixedOrders == {Rest, CostlyDelegated}
DelegationsOrFree == {Delegated, SelfDelegated, Reverse, Free}
RestOnly == {Rest}
CreditsOrX402 == {Rest, X402, CostlyX402}

SessionSymmetry == Permutations(Sessions)
=============================================================================
