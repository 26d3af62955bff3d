\* Two peers of one device share its index table.
CONSTANTS
    A = A
    B = B
    C = C
    ab = ab
    ba = ba
    ac = ac
    ca = ca
    wa = wa
    wb = wb
    wc = wc
    Device = {A, B, C}
    Peer = {ab, ba, ac, ca}
    Worker = {wa, wb, wc}
    Zero = z0
    Index = {z0, i1, i2, i3}
    DeviceOf <- MCDeviceOf
    Counterpart <- MCCounterpart
    HostOf <- MCHostOf
    MaxEph = 4
    Nil = Nil
SPECIFICATION Spec
CONSTRAINTS
    NeverZeroed
    ZeroNotDrawn
SYMMETRY Symmetry
INVARIANT IndexReachesOwner
