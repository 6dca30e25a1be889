---------------------------- MODULE MCChainStore ----------------------------
EXTENDS ChainStore

=============================================================================
