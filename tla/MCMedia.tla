------------------------------ MODULE MCMedia ------------------------------
EXTENDS Media
\* defaultMaxAttempts and a tick that takes two jobs.
MCAttempts == 3
MCBatch == 2
=============================================================================
