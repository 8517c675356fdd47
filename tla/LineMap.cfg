CONSTANT Lines = 5
SPECIFICATION Spec
INVARIANTS TypeOK MapsToSurvivor 
CHECK_DEADLOCK FALSE
