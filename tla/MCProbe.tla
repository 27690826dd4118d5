------------------------------- MODULE MCProbe -------------------------------
EXTENDS Probe

\* A peer's preference over two suites can be empty, partial, or in either order;
\* a peer with RC4 alone only answers the probes.
MCSuites == {"aes", "rc4"}
MCDefaultSuites == {"aes"}
=============================================================================
