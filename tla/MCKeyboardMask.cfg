CONSTANTS
    KEYBOARD_IN_BYTES = 3
    Irq = {Clock, Kbd, Serial}
    IRQ_KEYBOARD = Kbd
    Enabled = {Clock, Kbd}
    MaxKeys = 7
SPECIFICATION Spec
INVARIANT
    Quiet
CHECK_DEADLOCK FALSE
