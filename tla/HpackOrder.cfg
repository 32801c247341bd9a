SPECIFICATION Spec
CONSTANTS
    MaxSize = 20
    Overhead = 4
    NodeHdr = 3
    Unit = 2
    MaxEvict = 2
    Fields <- MCFields
    Settings = {0, 12, 30}
    Streams = {1, 2}
    MaxAdds = 5
INVARIANT AlwaysDecodedRight
CHECK_DEADLOCK FALSE
