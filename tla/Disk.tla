-------------------------------- MODULE Disk --------------------------------
(***************************************************************************)
(* What the file allocation programs of Assignment6/Q1 have in common: a   *)
(* disk of blocks that hold one character each, files with an id, and      *)
(* texts read from the input (one word, so never empty).                   *)
(***************************************************************************)
EXTENDS Integers, Sequences, FiniteSets

CONSTANTS Files, NumBlocks, Char, NUL, Texts

\* What the programs take for granted; the runs assume it of every instance.
DiskAssumption ==
    /\ NumBlocks \in Nat \ {0}
    /\ NUL \in Char
    /\ Texts \subseteq Seq(Char) \ {<<>>}

Blocks == 0..(NumBlocks - 1)

\* What "while (!isAvailable[i]) i++" finds when it is run n times: the n
\* lowest available blocks, in order.
LowestFree(available, n) ==
    [k \in 1..n |->
       CHOOSE b \in Blocks :
         available[b] /\ Cardinality({c \in 0..b : available[c]}) = k]

\* The elements of a sequence of blocks.
BlocksOf(s) == {s[k] : k \in DOMAIN s}

\* A map with one more entry, or one less.
With(map, f, value) == [g \in DOMAIN map \cup {f} |-> IF g = f THEN value ELSE map[g]]
Without(map, f) == [g \in DOMAIN map \ {f} |-> map[g]]
=============================================================================
