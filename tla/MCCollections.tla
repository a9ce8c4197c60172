---------------------------- MODULE MCCollections ----------------------------
EXTENDS Collections

MCMembers == {1, 2, 3}
MCScores == {0, 10}
MCIncrements == {-10, 10}
MCSpopCounts == {0, 1, 2}
=============================================================================
