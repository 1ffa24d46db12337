------------------------------ MODULE MCReplies ------------------------------
EXTENDS Replies
CONSTANTS ann, ben, dee
MCAuthorOf == [n \in 0 .. 4 |-> <<ann, dee, ben, dee, ben>>[n + 1]]
MCParentOf == [n \in 1 .. 4 |-> <<0, 1, 2, 0>>[n]]
=============================================================================
