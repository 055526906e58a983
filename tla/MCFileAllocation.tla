-------------------------- MODULE MCFileAllocation --------------------------
(* The programs of Assignment6/Q1 with three files on a small disk.        *)
EXTENDS FileAllocation, TLC

\* Two texts that fit next to each other, in any order, for the two programs at once.
MCTexts == {<<"a", "b">>, <<"b", "b", "a">>}

SmallTexts == {<<"a">>, <<"b", "a">>, <<"a", "b", "a">>}
As(size) == [k \in 1..size |-> "a"]

\* Texts that fit, one of a block more than there are, and one that is either
\* forgotten or lost.
MCContiguousTexts == SmallTexts \cup {As(NumBlocks + 1), As(NumBlocks + 3)}

\* Texts up to twice as long as the consecutive part, and one that is always
\* too long.
MCModifiedTexts == SmallTexts \cup {As(4), As(NumBlocks + 3)}

Symmetry == Permutations(Files)
=============================================================================
