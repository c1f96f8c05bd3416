\* Two CPUs, handle_skb takes two packets; mexit may stay on one CPU.
SPECIFICATION FairSpec
CONSTANTS
    NumCpus = 2
    Packets = {p1, p2, p3}
    Threshold = 2
PROPERTY UnloadEndsAlways
