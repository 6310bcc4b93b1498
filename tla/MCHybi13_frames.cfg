CONSTANTS
    Basic = 1
    Extended = 2
    Width = 8
    MaxMessage = 3
    NoMsg = NoMsg
    MaxFrames = 3
    MaxBytes = 4
SPECIFICATION Spec
INVARIANT Reassembled
INVARIANT RefusedRightly
INVARIANT TextsValid
CHECK_DEADLOCK FALSE
