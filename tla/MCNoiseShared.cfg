\* Two handshake workers on one device: the two ends hold different keys.
CONSTANTS
    A = A
    B = B
    ab = ab
    ba = ba
    wa1 = wa1
    wa2 = wa2
    wb = wb
    Device = {A, B}
    Peer = {ab, ba}
    Worker = {wa1, wa2, wb}
    Zero = z0
    Index = {z0, i1, i2}
    DeviceOf <- MCDeviceOf
    Counterpart <- MCCounterpart
    HostOf <- MCHostOf
    MaxEph = 4
    Nil = Nil
SPECIFICATION Spec
CONSTRAINT NeverZeroed
INVARIANT InitiatorKeyShared
