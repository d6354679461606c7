SPECIFICATION SubmitSpec
CONSTANTS
    a = a  b = b  c = c  d = d  k = k
    NoWorker = NoWorker  Given = Given
    Submitters = {a, b, c, d}
    Requests = {"first", "second", "third"}
    RequestOf <- MCRequestOf
    ConvOf <- MCConvOf
INVARIANT NobodyIsTurnedAway
CHECK_DEADLOCK FALSE
