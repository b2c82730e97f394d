---------------------------- MODULE MCServerStop ----------------------------
\* Two workers, so that a teardown meets the loop of StopServer; two
\* connections; a limit of zero stands for the five of the code.
EXTENDS ServerStop, TLC

=============================================================================
