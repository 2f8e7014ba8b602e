-------------------------- MODULE MCAuthentication --------------------------
(* Instances of Authentication and Personalization: the SDK and the        *)
(* graphical UI, with a server that ends the dialogue when it is told of   *)
(* an error and with one that need not.                                    *)
EXTENDS Personalization

Instance(action, ui, ends, honest, maxFaults, maxTransmits, maxRedirects) ==
    [action |-> action, ui |-> ui, ends |-> ends, honest |-> honest,
     maxFaults |-> maxFaults, maxTransmits |-> maxTransmits, maxRedirects |-> maxRedirects]

MCSetups ==
    {Instance("auth", "json", {"kill"}, TRUE, 1, 1, 1),
     Instance("auth", "qml", {"cancel"}, FALSE, 1, 1, 0),
     Instance("selfAuth", "qml", {"kill"}, FALSE, 1, 1, 1),
     Instance("personalization", "qml", {"cancel"}, TRUE, 1, 1, 0),
     Instance("personalization", "qml", {"kill"}, TRUE, 0, 2, 0)}
=============================================================================
