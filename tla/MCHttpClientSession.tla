-------------------------- MODULE MCHttpClientSession --------------------------
\* Instances of HttpClientSession for TLC.
EXTENDS HttpClientSession
=============================================================================
