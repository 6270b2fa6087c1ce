SPECIFICATION Spec
CONSTANTS
    Breaks = {b1}
    NoBreak = NoBreak
    Rooms = {r1}
    NoRoom = NoRoom
    Handlers = {h1, h2}
PROPERTIES
    ServiceFinalized
