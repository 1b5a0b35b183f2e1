SPECIFICATION Spec
CONSTANTS
    w1 = w1
    w2 = w2
    None = None
    Windows <- MCWindows
    Ladder <- MCLadder
    Configured = {"push", "sms", "voice"}
    Cost <- MCCost
    t1 = t1
    t2 = t2
    Ticks <- MCTicks
    Hooks = {h1}
    MaxVoice = 1
    MaxSms = 1
    MaxSpend = 2
    VoiceHorizon = 2
    SmsHorizon = 1
    Day = 1
    MaxTime = 1
SYMMETRY Symmetry
INVARIANTS
    Inv
    CeilingsHold
