--------------------------- MODULE MCFocusCadence ---------------------------
EXTENDS FocusCadence

CadenceMs == {Parked, Pinned, Active}
=============================================================================
