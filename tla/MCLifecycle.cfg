CONSTANTS
    Sandboxes = {sb1, sb2}
    Containers = {c1, c2}
    Ops = {o1, o2, o3, o4, o5}
    Specs = {p1}
    None = None
SPECIFICATION Spec
INVARIANT GraphConsistent
INVARIANT IntentsConsistent
INVARIANT HostResourcesAccounted
PROPERTY RecordsFinal
PROPERTY OutcomesTruthful
SYMMETRY Symmetry
CHECK_DEADLOCK FALSE
