SPECIFICATION FormatsSpec
CONSTANTS
    IntMax = 11
    Lexemes <- MCLexemes
    MaxLexemes = 6
    Limit = 2
    Ids <- MCIds
    Addrs <- MCAddrs
    Garbage <- MCGarbage
    MaxChanges = 1
    Texts <- MCTexts
    Dates = {0, 7}
    PieceLengths = {0, 2}
    Sources <- MCSources
    Values <- MCValues
    Totals <- MCTotals
    MaxSetters = 2
    RevealTorrents = {"h1"}
    RevealPeers <- MCRevealPeers
    PieceCount = 10
    FoundPieces = {1, 8, 10}
    MaxQueued = 2
CHECK_DEADLOCK FALSE
INVARIANTS
    OneEncoding
    SentIsRead
    AcceptedIsSound
    
    
    
    PeersKnowOurPieces
