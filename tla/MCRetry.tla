------------------------------ MODULE MCRetry ------------------------------
(* Retry with the code's budget of four sends, on a scale of few ticks: half   *)
(* a second each, 15 the longest Duration, 30 the last instant of a Time.      *)
EXTENDS Retry

\* Past, within the cap, beyond it, and two that do not fit: 18 ticks come to
\* -14, and 34 to 2.
MCSeconds == {-1, 2, 4, 9, 17}

\* Past, within the cap, beyond it, beyond a Duration and beyond the horizon.
MCInstants == {-3, 3, 7, 20, 40}

\* An answer, a limit or a missing scope, an ordinary absence, a server error:
\* the other statuses share a branch of the code with one of these.
MCStatuses == {200, 403, 404, 503}
=============================================================================
