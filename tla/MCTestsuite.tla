----------------------------- MODULE MCTestsuite -----------------------------
EXTENDS MCConfigLoad, Testsuite

\* Up to three documents: a Config and a TestConfig, and one more after them.
MCMaxDocs == 3
=============================================================================
