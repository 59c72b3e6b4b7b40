------------------------------- MODULE MCClerk -------------------------------
\* Clerk for TLC: the servers are interchangeable, and so are the clerks.
EXTENDS Clerk

Symmetry == Permutations(Server) \cup Permutations(Client)

=============================================================================
