--------------------------- MODULE MCIngestSchedule ---------------------------
\* IngestSchedule for TLC: the configuration gives every constant its value.
EXTENDS IngestSchedule
=============================================================================
