SPECIFICATION Spec
CONSTANT Ports = 4
INVARIANTS CountedWasNG OneResult ResultsAgree
PROPERTY SecondNGAsks
