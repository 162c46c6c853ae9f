--------------------------- MODULE MCSingleFlight ---------------------------
EXTENDS SingleFlight, TLC

RequestSymmetry == Permutations(Request)

=============================================================================
