----------------------------- MODULE MCNfsState -----------------------------
\* NfsState on small instances.
EXTENDS NfsState
=============================================================================
