CONSTANTS
    MaxAsked = 3
    MaxSaid = 3
SPECIFICATION FairSpec
INVARIANT
    CutOffOnlyByLateSend
PROPERTIES
    RelayIsTwoPipes
    HangsUpForCause
    EndSpreads
    SpeechFreesRelay
CHECK_DEADLOCK FALSE
