CONSTANTS
    Sessions = 2
    Addresses = {1, 2}
SPECIFICATION Spec
CHECK_DEADLOCK FALSE
PROPERTIES
    HandshakeCompletes
