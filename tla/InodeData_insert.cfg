CONSTANTS
    Zero = zero
    Bytes = {zero, a, b}
    Strings <- ShortStrings
    D = 2
    Direct = 1
    Room = 3
    MaxSize = 6
SPECIFICATION Spec
INVARIANT InsertShifts
