------------------------------- MODULE Values --------------------------------
(* Members of the facts a program is given that are not values.               *)
CONSTANTS
  None,     \* what is not there
  Malformed \* what is there in another form than the one wanted

ASSUME ValuesAssumption == None # Malformed
=============================================================================
