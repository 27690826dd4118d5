---------------------------- MODULE MCRevocation ----------------------------
EXTENDS Revocation

\* The orders in which an entry about the leaf and a critical one can come.
MCEntries == {<< >>, <<"other", "leaf">>, <<"leaf", "critical">>, <<"critical", "leaf">>}
=============================================================================
