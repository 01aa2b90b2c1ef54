------------------------------ MODULE MCVBTree ------------------------------
EXTENDS VBTree
=============================================================================
