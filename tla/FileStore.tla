----------------------------- MODULE FileStore ------------------------------
(***************************************************************************)
(* What a file allocation program of Assignment6/Q1 promises, without      *)
(* blocks: a map from files to texts.  A write never touches another file, *)
(* and succeeds if and only if the text fits next to the other files (only *)
(* if, when free space may be in pieces); the old contents of the file are *)
(* gone even when it fails.                                                *)
(***************************************************************************)
EXTENDS Naturals, Sequences, Functions

CONSTANTS Files, Texts, NumBlocks,
          EmptyOnFailure,   \* does a failed write leave an empty file behind?
          Fragments         \* may a write fail although there is space?

VARIABLE files

Init == files = <<>>

\* A map with one more entry, or one less.
With(map, f, text) == [g \in DOMAIN map \cup {f} |-> IF g = f THEN text ELSE map[g]]
Without(map, f) == [g \in DOMAIN map \ {f} |-> map[g]]

Used(map) == SumFunctionOnSet([g \in DOMAIN map |-> Len(map[g])], DOMAIN map)
Fits(f, text) == Used(Without(files, f)) + Len(text) <= NumBlocks

Holds(f, text) == files' = With(files, f, text)
Delete(f) == files' = Without(files, f)

Fail(f) == \/ EmptyOnFailure /\ Holds(f, <<>>)
           \/ ~EmptyOnFailure /\ Delete(f)

Write(f, text) == \/ Fits(f, text) /\ Holds(f, text)
                  \/ (~Fits(f, text) \/ Fragments) /\ Fail(f)

Next == \E f \in Files : Delete(f) \/ \E text \in Texts : Write(f, text)

Spec == Init /\ [][Next]_files
=============================================================================
