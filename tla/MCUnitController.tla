------------------------- MODULE MCUnitController -------------------------
(* Instances of UnitController: a unit that gains SSH and loses its ports,  *)
(* one whose edited spec does not render, and one from a package without    *)
(* device selectors.                                                        *)
EXTENDS UnitController

Plain == [image |-> "a", ports |-> "http", side |-> {}, selectors |-> TRUE, problem |-> None]
WithSSH == [Plain EXCEPT !.ports = None, !.side = {"ssh"}]
Broken == [Plain EXCEPT !.problem = "SSHConfigInvalid"]

Simple == {Plain}
Edited == {Plain, WithSSH, Broken}
NoSelectors == {[Plain EXCEPT !.selectors = FALSE]}
=============================================================================
