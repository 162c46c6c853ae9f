------------------------- MODULE MCFlightReconciler -------------------------
EXTENDS FlightReconciler, TLC

RequestSymmetry == Permutations(Request)

=============================================================================
