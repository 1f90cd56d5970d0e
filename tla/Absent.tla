------------------------------- MODULE Absent -------------------------------
CONSTANT Nil  \* Go's nil, and an absent map entry
=============================================================================
