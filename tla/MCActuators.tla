------------------------------ MODULE MCActuators ------------------------------
(* Actuators of one phone number, whose threads and clients may overlap.      *)
EXTENDS Actuators
===============================================================================
