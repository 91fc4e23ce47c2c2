------------------------------- MODULE MC_T0Link -------------------------------
EXTENDS T0Link

Case1 == [cse |-> 1, lc |-> 0, le |-> 0, hasLe |-> FALSE]
Case2(n) == [cse |-> 2, lc |-> 0, le |-> n, hasLe |-> TRUE]
Case3(n) == [cse |-> 3, lc |-> n, le |-> 0, hasLe |-> FALSE]
Case4(n, m) == [cse |-> 4, lc |-> n, le |-> m, hasLe |-> TRUE]

Reading == <<Case2(2), Case2(0)>>
Writing == <<Case4(2, 1), Case2(2), Case3(3), Case1>>
Mixed == <<Case4(2, 2), Case2(0)>>
Twice == <<Case4(1, 1), Case4(1, 1)>>
===============================================================================
