CONSTANTS
    b1 = b1
    b2 = b2
    b3 = b3
    bad = bad
    Nil = Nil
    Peers = {p}
    Source = p
    Blocks = {b1, b2, b3, bad}
    MaxCalls = 2
    messageMaxRetries = 1
    Answers <- SomeAnswers
    Common = common
    Branch <- PeerBranch
    End = b2
    Valid <- ValidBlocks
    ChannelSize = 1
SPECIFICATION FairSpec
CHECK_DEADLOCK FALSE
INVARIANTS
    AnswerIsOwn
    ChannelsAreOwned
    DownloadIsComplete
PROPERTIES
    CallsReturn
    RequestsEnd
