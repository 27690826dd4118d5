----------------------------- MODULE MCConnection -----------------------------
EXTENDS Connection
=============================================================================
