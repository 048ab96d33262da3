CONSTANTS
    r1 = r1
    r2 = r2
    w1 = w1
    w2 = w2
    None = None
    Readers <- TwoReaders
    Writers <- TwoWriters
    Closable = TRUE
    Size = 4
    MaxBytes = 5
SPECIFICATION MCSpec
INVARIANTS ReceivedInOrder NobodySleepsOverWork AddressIsLeased AnswersAreRight
PROPERTIES AllDelivered AppliedOnce RequestsEnd
\* A closed pipe that is empty, and dispatchers with nothing more to send.
CHECK_DEADLOCK FALSE
