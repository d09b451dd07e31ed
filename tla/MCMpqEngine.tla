---------------------------- MODULE MCMpqEngine -----------------------------
EXTENDS MpqEngine, TLC

\* Contexts: with both optional handlers and with none.
MCContexts == {[hh |-> TRUE, th |-> TRUE], [hh |-> FALSE, th |-> FALSE]}

=============================================================================
