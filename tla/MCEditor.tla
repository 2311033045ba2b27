------------------------------ MODULE MCEditor ------------------------------
(* A template with a text and a picture, for the run of Editor. *)
EXTENDS Editor

TextAndPicture ==
  LET two == CHOOSE s \in [1 .. 2 -> Items] : s[1] # s[2]
      tag == <<CHOOSE t \in Tags : TRUE, Picture>>
  IN [i \in {two[1], two[2]} |->
        [tag |-> IF i = two[1] THEN tag[1] ELSE tag[2], look |-> 0, angle |-> 0]]

TheTemplate == {TextAndPicture}

\* Nothing tells the file names apart.
NamesAlike == Permutations(Files)
=============================================================================
