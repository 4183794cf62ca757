---------------------------- MODULE MCAppSessions ----------------------------
\* Instances of AppSessions for TLC.
EXTENDS AppSessions
=============================================================================
