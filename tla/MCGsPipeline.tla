---------------------------- MODULE MCGsPipeline ----------------------------
(* Templates for the runs of GsPipeline.                                   *)
EXTENDS GsPipeline

Copies(n, pages) == [c \in 1..n |-> pages]

\* Two copies that differ, with and without a second kind of face page.
TwoKinds == {<<{"first", "other"}, {"first"}>>, <<{"first", "over"}>>}

\* One copy with whatever pages besides the first one, and five copies without
\* and with pages to join.
Joinable ==
  {<<{"first"} \cup q>> : q \in SUBSET {"other", "over", "last"}}
    \cup {Copies(5, {"first", "other"}), Copies(5, {"first"})}

\* Two copies, of which the pages of several are joined.
TwoCopies == {Copies(2, {"first", "other"})}

=============================================================================
