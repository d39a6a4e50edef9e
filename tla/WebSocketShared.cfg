\* Two visible connections with a zlib stream each; a rule rewrites one or both.
SPECIFICATION Spec
CONSTANTS
    c1 = c1
    c2 = c2
    Connections = {c1, c2}
    Texts <- MCTexts
    Sent <- PlainSent
    NoText = NoText
    Garbled = Garbled
    Replace <- MCReplace
    Mask <- MCMask
    Secrets = {"token"}
    Markers = {}
    NotUtf8 = {}
    Large = {}
    Cut <- MCCut
    OneShot = {FALSE}
    NoOwner = NoOwner
    Mixed = Mixed
    Policies <- SharedPolicies
    MaxMessages = 4
    MaxSaves = 1
INVARIANTS
    PeerReads
CHECK_DEADLOCK FALSE
