-------------------------- MODULE MCRemoteConnection --------------------------
EXTENDS RemoteConnection, TLC

\* Calls are interchangeable.
Symmetric == Permutations(Callers)
=============================================================================
