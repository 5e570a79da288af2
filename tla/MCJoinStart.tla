---------------------------- MODULE MCJoinStart ----------------------------
\* Two tabs of one candidate, which nothing tells apart, and a recruiter.
EXTENDS JoinStart, TLC

MCOwner == [s \in Sessions |-> "acme"]

TwoTabs == Permutations(Starters)
=============================================================================
