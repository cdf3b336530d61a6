---------------------------- MODULE MCSemaphore ----------------------------
\* Instances of Semaphore for TLC: calls are interchangeable model values.
EXTENDS Semaphore, TLC

CallSymmetry == Permutations(Call)
=============================================================================
