CONSTANTS
    WPA2 = FALSE
    Fails = {"pair2", "pair3", "pair4", "group2"}
    MaxJoins = 2
    MaxRekeys = 1
    Cap = 2
    Prompt = TRUE
SPECIFICATION Spec
INVARIANTS KeysAgree EstablishedAtBothEnds PortOpensOnKeys HandshakeTimed RetriesBounded
CHECK_DEADLOCK FALSE
