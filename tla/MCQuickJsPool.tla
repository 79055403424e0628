---- MODULE MCQuickJsPool ----
EXTENDS QuickJsPool, TLC
CONSTANTS r1, r2, r3, s1, s2
Callers == Permutations(Requests) \cup Permutations(Slots)
====
