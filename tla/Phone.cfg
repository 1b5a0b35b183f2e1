SPECIFICATION PhoneSpec
CONSTANTS
    p1 = p1
    p2 = p2
    k1 = k1
    k2 = k2
    i1 = i1
    i2 = i2
    NoKey = NoKey
    NoInvite = NoInvite
    Contexts <- MCContexts
    Keys <- MCKeys
    Invites <- MCInvites
    MaxPushes = 2
SYMMETRY Symmetry
INVARIANTS
    PhoneInv
    AnswerIsTrue
PROPERTIES
    PushStaysBound
