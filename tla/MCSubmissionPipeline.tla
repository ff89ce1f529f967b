------------------------ MODULE MCSubmissionPipeline ------------------------
EXTENDS SubmissionPipeline

CONSTANTS s1, s2, a1, a2

\* Two submissions of one app.
OneApp == [s \in Subs |-> a1]
\* One submission each of two apps that hold the same balance: they share
\* Redis keys.
TwoApps == [s \in Subs |-> IF s = s1 THEN a1 ELSE a2]

\* A bill of two credits, one from each balance; the user could pay twice.
SplitQuotes == [s \in Subs |-> {2}]
OneCredit == [a \in Apps |-> 1]
TwoCredits == [a \in Apps |-> 2]
OneQuote == [s \in Subs |-> {1}]
\* The estimate of the first submission changes between its attempts.
MovingQuote == [s \in Subs |-> IF s = s1 THEN {1, 2} ELSE {2}]

\* Below zero, between, and above the limit.
SomeCounts == {-1, 1, 3}
=============================================================================
