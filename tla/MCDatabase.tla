------------------------------ MODULE MCDatabase ------------------------------
EXTENDS Database, TLC

Interchangeable == Permutations(Processes)
=============================================================================
