--------------------------- MODULE MCIssueReview ---------------------------
(* Small instances of IssueReview. *)
EXTENDS IssueReview

TwoReports == {<<"issue_reports", "r1">>, <<"issue_reports", "r2">>}
=============================================================================
