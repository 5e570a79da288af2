--------------------------- MODULE MCInterviewer ---------------------------
EXTENDS Interviewer

TwoQuestions == <<"design", "testing">>
=============================================================================
