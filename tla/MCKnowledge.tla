---------------------------- MODULE MCKnowledge -----------------------------
\* The constants of Knowledge for TLC.
EXTENDS Knowledge

CONSTANTS Empty, Good, Bad

MCContent == {Empty, Good, Bad}
MCBroken  == {Bad}
=============================================================================
