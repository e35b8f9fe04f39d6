----------------------------- MODULE MCSessions -----------------------------
EXTENDS Sessions, TLC

\* What DeviceOwner asks of its constants.
ASSUME Promise!OwnerAssumption

\* Owner chooses among sessions, so only the requests are interchangeable.
Symmetric == Permutations(Requests)
=============================================================================
