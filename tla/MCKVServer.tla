----------------------------- MODULE MCKVServer -----------------------------
\* KVServer for TLC: the calls of Get are interchangeable.
EXTENDS KVServer, TLC

Readers == Permutations(Reader)

=============================================================================
