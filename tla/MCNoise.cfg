\* One handshake worker per device, as on a single-CPU host.
CONSTANTS
    A = A
    B = B
    ab = ab
    ba = ba
    wa = wa
    wb = wb
    Device = {A, B}
    Peer = {ab, ba}
    Worker = {wa, wb}
    Zero = z0
    Index = {z0, i1, i2}
    DeviceOf <- MCDeviceOf
    Counterpart <- MCCounterpart
    HostOf <- MCHostOf
    MaxEph = 3
    Nil = Nil
SPECIFICATION Spec
SYMMETRY Symmetry
INVARIANT InitiatorKeyShared
PROPERTY NoInitiationReplayed
