SPECIFICATION Spec
CONSTANTS
    Sounds <- TelephoneSounds
    OnsetFrames    = 2
    NormalSilence  = 2
    ChoiceSilence  = 2
    BargeInSilence = 3
    NumericSilence = 4
    StrongFrames   = 2
    StrongConfirm  = 3
    QuietFrames    = 2
    NormalConfirm  = 4
    SlowConfirm    = 5
    HumFrames      = 2
    RingFrames     = 2
    PreRoll        = 1
    MaxFrames      = 6
INVARIANTS
    HumsNeverInterrupt
    StrongSpeechInterrupts
    NothingIsTranscribedTwice
    NothingIsLost
    NobodyIsCutOff
PROPERTY
    TurnsAreTaken
