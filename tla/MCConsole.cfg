CONSTANTS
    KEYBOARD_IN_BYTES = 3
    Irq = {Clock, Kbd, Serial}
    IRQ_KEYBOARD = Kbd
    Enabled = {Clock, Kbd}
    MaxKeys = 5
SPECIFICATION CSpec
INVARIANTS
    NoPhantom
    Fifo
    DecodesPresses
    LedsAnswered
    FifoUnlessRaced
PROPERTIES
    Drains
    ReadReturns
\* [ttyd] waits for keys, and the numbers of keys, characters and lines are
\* bounded.
CHECK_DEADLOCK FALSE
