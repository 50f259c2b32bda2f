---------------------------- MODULE MCTransport ----------------------------
\* A small instance of Transport.
EXTENDS Transport
=============================================================================
