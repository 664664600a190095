---------------------------- MODULE MCReadability ---------------------------
(* Small instances of Readability. *)
EXTENDS Readability

\* A word in two spellings, another word, a name and an Aramaic word, as far as
\* an instance has them: one verse mixes the second spelling and the Aramaic
\* word, the other holds both spellings and the name.
MCVkey == [s \in Surfaces |-> IF s = "a2" THEN "a1" ELSE s]
MCWords == [v \in Verses |->
              Surfaces \cap (IF v = "v1" THEN {"a2", "m", "b"} ELSE {"a1", "a2", "n"})]
=============================================================================
