--------------------------- MODULE MCFuseSession ---------------------------
\* FuseSession with two requests outstanding, five ids and two files.
EXTENDS FuseSession, TLC

CONSTANTS r1, r2
=============================================================================
