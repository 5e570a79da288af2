----------------------------- MODULE MCScoring -----------------------------
\* Judges that answer anything.
EXTENDS Scoring

PrimaryAnything == {NoResult, 250}

FallbackAnything == {NoResult, NoScoreField, -5}
=============================================================================
