-------------------------- MODULE MCEventsWorker --------------------------
EXTENDS EventsWorker

CONSTANTS p1, p2, s1, s2, f1, w, b, e1, e2
=============================================================================
