----------------------------- MODULE MCSessions -----------------------------
\* Every session belongs to one organization; callers of any other are strangers.
EXTENDS Sessions

MCOwner == [s \in Sessions |-> "acme"]
=============================================================================
