SPECIFICATION Spec
CONSTANTS
    Transports = {t1, t2}
    NoTransport = NoTransport
    MaxIdle = 2
    MaxQueue = 3
PROPERTIES FocusLostWithItsLink
