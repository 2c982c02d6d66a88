-------------------------- MODULE MCLatencyHistogram --------------------------
EXTENDS LatencyHistogram, TLC

\* The recording threads are alike.
ThreadSymmetry == Permutations(Threads)
=============================================================================
