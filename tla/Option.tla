------------------------------- MODULE Option -------------------------------
(* Option::None of the code, the value of whatever is not there.  Shared by *)
(* the modules on the journals.                                             *)
CONSTANT None
=============================================================================
