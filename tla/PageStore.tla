----------------------------- MODULE PageStore ------------------------------
(***************************************************************************)
(* What the demand paging system of Assignment6/Q2 promises, without       *)
(* frames, swap space or replacement: a page is read only after it was     *)
(* written, and what is shown of it is what was last written to it, cut to *)
(* the size of a page.                                                     *)
(***************************************************************************)
EXTENDS Integers, Sequences

CONSTANTS Pages, PageSize, Texts

VARIABLES pages,    \* page -> what was last written to it
          shown     \* what the last request printed

vars == <<pages, shown>>

\* The part of a text that fits into a page.
CutLen(text) == IF Len(text) > PageSize THEN PageSize ELSE Len(text)
Cut(text) == [k \in 1..CutLen(text) |-> text[k]]

Init == /\ pages = [p \in Pages |-> <<>>]
        /\ shown = <<>>

Read(p) == /\ pages[p] # <<>>
           /\ shown' = pages[p]
           /\ UNCHANGED pages

Write(p, text) == /\ pages' = [pages EXCEPT ![p] = Cut(text)]
                  /\ shown' = Cut(text)

Next == \E p \in Pages : Read(p) \/ \E text \in Texts : Write(p, text)

Spec == Init /\ [][Next]_vars
=============================================================================
