---------------------------- MODULE MCDavTransfer ----------------------------
\* DavTransfer on small files: three units, read two at a time.
EXTENDS DavTransfer
=============================================================================
