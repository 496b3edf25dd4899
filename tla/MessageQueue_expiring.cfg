SPECIFICATION Spec
CONSTANTS
    s1 = s1 s2 = s2 s3 = s3 r1 = r1 r2 = r2
    m1 = m1 m2 = m2 m3 = m3 m4 = m4
    Senders = {s1, s2}
    Receivers = {r1, r2}
    Messages = {m1, m2, m3, m4}
    Mortal = {m1, m2, m3, m4}
    MaxSize = 2
    NoMsg = NoMsg
SYMMETRY Symmetry
INVARIANTS TypeOK NoLostReceiverWakeup FifoOrder OnlyExpiredDropped
PROPERTY NeverDeliversExpired
