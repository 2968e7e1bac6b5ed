---------------------------- MODULE MCCommitStream ----------------------------
EXTENDS CommitStream

CONSTANTS s1, s2, t1, t2

TwoTrees == <<t1, t2>>
=============================================================================
