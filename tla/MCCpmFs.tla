------------------------------ MODULE MCCpmFs ------------------------------
EXTENDS CpmFs, TLC

FileNames == Permutations(Names)
=============================================================================
