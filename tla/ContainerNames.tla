---------------------------- MODULE ContainerNames ----------------------------
(***************************************************************************)
(* What may become of the name of a container, as the other components of  *)
(* the data store see it: a name is created, removed, and free again only  *)
(* once the collector is done with it.  A removed container never comes    *)
(* back and no container goes without having been removed, whatever the    *)
(* process dies of.  The end of the process may settle several names at    *)
(* once.                                                                   *)
(***************************************************************************)
CONSTANT Names

VARIABLE states  \* what each name stands for

States == {"absent", "active", "deleted"}

(* A creation that the process did not survive ends as a container that    *)
(* waits for the collector.                                                *)
Create == <<"absent", "active">>
Remove == <<"active", "deleted">>
Collect == <<"deleted", "absent">>
Abandon == <<"absent", "deleted">>
Moves == {Create, Remove, Collect, Abandon}

Init == states = [n \in Names |-> "absent"]

Next ==
    /\ states' \in [Names -> States]
    /\ \A n \in Names : states'[n] = states[n] \/ <<states[n], states'[n]>> \in Moves

Spec == Init /\ [][Next]_states
===============================================================================
