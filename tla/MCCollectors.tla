---------------------------- MODULE MCCollectors ----------------------------
(***************************************************************************)
(* Instance of Collectors for TLC: the nine collectors of the repository   *)
(* and three others, in lists short enough that every text of up to five   *)
(* lines, every walk over two devices that change at any moment, and every *)
(* collision of two collectors is in it.                                   *)
(***************************************************************************)
EXTENDS Collectors

CONSTANTS facts1, facts2, components1

FactNames ==
    {"facts_agent", "facts_network", "facts_os", "facts_system", facts1, facts2}

ComponentNames == {"cpu", "disks", "gpu", "memory", "nics", components1}

ImportLists ==
    {<<"cpu">>,
     <<"disks">>,
     <<"gpu", components1, "memory">>,
     <<"facts_agent", "facts_network", "facts_os">>,
     <<facts1, "facts_system", facts2>>,
     <<"nics">>,
     <<facts1, components1, facts1>>}

TwoSockets == {0, 1}

OneTwoOrBad == {1, 2, Bad}

ThreeDevices == {1, 2, 3}

OneOrBad == {1, Bad}

OneVirtual == {3}
=============================================================================
