--------------------------- MODULE MCDocumentSync --------------------------
(* Small instances of DocumentSync. *)
EXTENDS DocumentSync

GlossOnly == {<<"gloss_overrides", "w1">>}
EveryTable == {<<"study_state", "1">>, <<"lexicon_entry_overrides", "w1">>,
               <<"gloss_overrides", "w1">>, <<"issue_reports", "r1">>,
               <<"commentary_notes", "n1">>, <<"memory_passage", "p1">>,
               <<"memory_settings", "1">>}
=============================================================================
