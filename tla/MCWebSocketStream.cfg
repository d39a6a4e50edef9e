\* Two connections whose messages may be pieces of streams; the user switches rules, guard and
\* hidden hosts once, at any moment.
SPECIFICATION Spec
CONSTANTS
    c1 = c1
    c2 = c2
    Connections = {c1, c2}
    Texts <- MCTexts
    Sent <- MCSent
    NoText = NoText
    Garbled = Garbled
    Replace <- MCReplace
    Mask <- MCMask
    Secrets = {"token"}
    Markers = {}
    NotUtf8 = {}
    Large = {"long"}
    Cut <- MCCut
    OneShot = {TRUE, FALSE}
    NoOwner = NoOwner
    Mixed = Mixed
    Policies <- MCPolicies
    MaxMessages = 3
    MaxSaves = 1
INVARIANTS
    TypeOK
    PeerReadsRow
    Transparent
PROPERTIES
    SecretsGuarded
    ImplementsRewritingChannels
CHECK_DEADLOCK FALSE
