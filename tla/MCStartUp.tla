------------------------------ MODULE MCStartUp ------------------------------
(* Instances of StartUp for TLC: all names are model values. *)
EXTENDS StartUp

AllNames == Names
ClientNames == Containers
===============================================================================
