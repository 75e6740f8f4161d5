\* Blocks of two bits, all keys, all messages of up to two full blocks.
CONSTANTS
    Size = 2
    Feedback = {1, 2}
    MaxFull = 2
SPECIFICATION Spec
INVARIANTS
    RoundTrip
\* The message is decrypted.
CHECK_DEADLOCK FALSE
