SPECIFICATION Spec
CONSTANTS
    plugin = plugin
    sound = sound
    bridge = bridge
    one = one
    two = two
    Absent = Absent
    NoReceipt = NoReceipt
    NoPlan = NoPlan
    NoVersion = NoVersion
    File <- MCFile
    BridgeFile <- MCBridgeFile
    Version = {1, 2}
    Content <- MCContent
    Payload <- MCPayload
    MaxDisturbances = 3
INVARIANT TypeOK
PROPERTY KeepsPromise
