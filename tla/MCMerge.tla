------------------------------- MODULE MCMerge ------------------------------
EXTENDS MergeHandshake
=============================================================================
