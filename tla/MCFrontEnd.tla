------------------------------ MODULE MCFrontEnd ------------------------------
(***************************************************************************)
(* Constants for model checking FrontEnd on small address spaces.          *)
(***************************************************************************)
EXTENDS FrontEndStream

Kind(extra, branch, arg, ill) == [extra |-> extra, branch |-> branch, arg |-> arg, illegal |-> ill]

Plain == {Kind(0, "none", 0, FALSE), Kind(1, "none", 0, FALSE)}
PlainOrIllegal == {Kind(1, "none", 0, FALSE), Kind(0, "none", 0, TRUE)}
PlainOrBack == {Kind(1, "none", 0, FALSE), Kind(0, "relative", 4, FALSE)}
ShortOrBack == {Kind(0, "none", 0, FALSE), Kind(0, "relative", 4, FALSE)}
=============================================================================
