---------------------------- MODULE MCRequestReads ----------------------------
EXTENDS RequestReads, TLC

\* Requests, reads and writes are interchangeable; keys are not, for Linkable
\* tells them apart.
Symmetric == Permutations(Memos) \cup Permutations(Reads) \cup Permutations(Writes)

=============================================================================
