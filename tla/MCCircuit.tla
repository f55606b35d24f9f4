------------------------------ MODULE MCCircuit ------------------------------
(* A small instance of Circuit: two knob positions, four decades, caps one above *)
(* what convergence needs.                                                       *)
EXTENDS Circuit

MCKnobs == {"default", "turned"}
=============================================================================
