------------------------------ MODULE MCCommand ------------------------------
EXTENDS Command
=============================================================================
