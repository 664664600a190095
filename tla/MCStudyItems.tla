---------------------------- MODULE MCStudyItems ----------------------------
(* A small instance of StudyItems. *)
EXTENDS StudyItems

CONSTANTS consonant, vowel

\* 1 is the Qal of a root, 2 a derived form of it, 3 the Qal with a proclitic,
\* 4 a name.
MCVkey == [s \in Surfaces |-> s]
MCBareKey == [s \in Hebrew |-> IF s = 3 THEN 1 ELSE s]
MCRoot == [s \in Surfaces |-> IF s = 4 THEN "none" ELSE "root"]
MCTier == [s \in Surfaces |-> CASE s = 2 -> 7 [] s = 4 -> 0 [] OTHER -> 5]
MCRulesOf == [s \in Surfaces |-> CASE s = 2 -> {"stem"} [] s = 3 -> {"prefix"} [] OTHER -> {}]
MCBucket == [r \in Rules |-> IF r = "prefix" THEN 0 ELSE 1]
MCGlyphsOf == [s \in Surfaces |-> IF s = 2 THEN {consonant} ELSE {consonant, vowel}]
MCWords == [v \in Verses |-> CASE v = 1 -> {1} [] v = 2 -> {3, 4} [] v = 3 -> {1, 2, 3}]
MCLetterOf == [g \in {consonant} |-> consonant]
MCFrequent == {{2}}
=============================================================================
