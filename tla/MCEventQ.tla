----------------------------- MODULE MCEventQ -----------------------------
EXTENDS EventQSpec

CONSTANTS a, b, c, d, e

MCNode  == {a, b, c, d, e}
\* Two nodes share the middle level, two the last level of the array.
MCLevel == [n \in MCNode |-> CASE n = a -> 0 [] n = b -> 1 [] n = c -> 1 [] n = d -> 2
                        [] n = e -> 2]
=============================================================================
