---------------------------- MODULE MCObservation ----------------------------
EXTENDS Observation
\* One of the readers is attached: a reader's step looks at the log, at `closing`
\* and at itself, and no reader changes what another sees.
OneReader == \A r, q \in Readers : r = q \/ reader[r].at = "none" \/ reader[q].at = "none"
==============================================================================
