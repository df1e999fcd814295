------------------------------- MODULE Parts --------------------------------
(***************************************************************************)
(* The parts of the system that meet only through what they leave on disk   *)
(* are modelled one by one.  A behaviour of a run exercises one of them,    *)
(* its subject; the variables of the others are None.                       *)
(***************************************************************************)
CONSTANTS
    Subjects,    \* the parts a run exercises
    None         \* the absent value

VARIABLES
    subject,     \* the part this behaviour exercises
    op           \* the running operation of it, or of each of its processes
=============================================================================
