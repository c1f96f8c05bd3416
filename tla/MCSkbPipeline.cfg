\* Two CPUs, handle_skb takes two packets.
SPECIFICATION FairSpec
CONSTANTS
    NumCpus = 2
    Packets = {p1, p2, p3}
    Threshold = 2
INVARIANT InOrder
INVARIANT ClearedMeansDrained
PROPERTY PacketResent
PROPERTY UnloadEnds
