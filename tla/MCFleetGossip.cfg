SPECIFICATION LiveSpec
CONSTANTS
    Nodes = {a, b, c}
    Seeds = {a}
    Restarting = {b}
    MaxVersion = 2
    MaxLosses = 1
INVARIANTS TypeOK  
PROPERTIES  FleetConverges
