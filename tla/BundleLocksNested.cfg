SPECIFICATION Spec
CONSTANTS
    t1 = t1
    t2 = t2
    t3 = t3
    Nobody = Nobody
    Threads <- MCPair
    Packages = {"spiffebundle"}
    Methods <- MCNested
PROPERTY CallsReturn
CHECK_DEADLOCK FALSE
