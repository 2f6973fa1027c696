----------------------------- MODULE MCTracking -----------------------------
\* Model values for Tracking.
EXTENDS Tracking

CONSTANTS c1, c2
=============================================================================
