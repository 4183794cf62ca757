---------------------------- MODULE MCTokenRefresh ----------------------------
\* Instances of TokenRefresh for TLC.
EXTENDS TokenRefresh
=============================================================================
