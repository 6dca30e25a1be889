---------------------------- MODULE MCTransport ----------------------------
EXTENDS Transport

AllNames == DOMAIN Schemas
AlteredNames ==
    {"Transaction", "BlockHeader", "Block", "BFTVotes", "rmtProof", "responseMsg", "CommitRequest", "Event"}
SomeBytes == {0, 8, 101, 128}

=============================================================================
