------------------------------- MODULE MCSensor -------------------------------
(* An instance of Sensor for TLC: two interfaces that see the same flows.  *)
EXTENDS Sensor
===============================================================================
