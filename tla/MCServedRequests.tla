--------------------------- MODULE MCServedRequests ---------------------------
\* What is left of a served request: the metering of UsageMetering, and the
\* operators of Listing and ScreeningDecision, which have no state.  Their
\* properties speak of no variable: one evaluation, in the initial state, is
\* one over all their bounded inputs.
EXTENDS UsageMetering, Listing, ScreeningDecision

\* Following the cursors misses no row that stays as it is, and repeats a row
\* only if it was moved (ListedOnce, about app.py's list endpoints).
PagesComplete == Init => ListedOnce

\* SQLite and Postgres give one answer to a list request (BackendsAgree, about
\* the queries of db.py and db_pg.py).
DatabasesAgree == Init => BackendsAgree

\* A pack found by its screening key is what a new one would be (KeyDetermines,
\* about compute_list_version and compute_screening_key).
PackReusable == Init => KeyDetermines

\* Every allow and every block has its reason in the artifact (DecisionExplained,
\* about ingest_sources and screen_subject_name).
DecisionsExplained == Init => DecisionExplained
=============================================================================
