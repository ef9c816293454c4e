SPECIFICATION Spec
CONSTANTS
    Stations = {d1, d2, c1}
    Modes = {"pad", "tap"}
INVARIANTS
    
    DoorsStayHeard
    CommandsReachTheCaller
