SPECIFICATION Spec
CONSTANT MaxPresses = 2
PROPERTY CtrlCEnds
\* The program ends.
CHECK_DEADLOCK FALSE
