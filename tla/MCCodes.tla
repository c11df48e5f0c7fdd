------------------------------ MODULE MCCodes ------------------------------
EXTENDS Codes, TLC

CodesSymmetry == Permutations(Handlers) \cup Permutations(Identifiers)
=============================================================================
