------------------------------ MODULE MCAdmin ------------------------------
EXTENDS Admin

CONSTANTS c1, c2

\* Two clients, so that one can be served while the other waits in the
\* backlog when the accept loop fails.
MCClients == {c1, c2}
=============================================================================
