\* Up to three handshakes in succession, in either direction.
CONSTANTS
    A = A
    B = B
    ab = ab
    ba = ba
    wa = wa
    wb = wb
    Device = {A, B}
    Peer = {ab, ba}
    Worker = {wa, wb}
    Zero = z0
    Index = {z0, i1, i2, i3, i4}
    DeviceOf <- MCDeviceOf
    Counterpart <- MCCounterpart
    HostOf <- MCHostOf
    MaxEph = 6
    Nil = Nil
SPECIFICATION Spec
CONSTRAINTS
    NeverZeroed
    ZeroNotDrawn
    OneHandshakeAtATime
SYMMETRY Symmetry
INVARIANTS
    PreviousOrNext
    ConfirmedBeforeUse
