SPECIFICATION Spec
CONSTANTS
    Track = {"lora", "harness"}
    MaxVersion = 3
    Setups <- Apart
    MaxFaults = 2
INVARIANTS TypeOK CurrentIsWhole
PROPERTIES CatchesUp
