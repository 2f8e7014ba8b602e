---------------------------- MODULE MCChangePin ----------------------------
(***************************************************************************)
(* Instances of ChangePin: the graphical UI with every retry counter that  *)
(* is treated differently and several entries, the SDK with more faults,   *)
(* and small ones for the claims the code does not keep.                   *)
(***************************************************************************)
EXTENDS ChangePin

Setup(ui, only, tries, maxFaults, maxEntries) ==
    [ui |-> ui, onlyCheck |-> only, tries |-> tries, faults |-> maxFaults,
     entries |-> maxEntries]

MCSetups    == {Setup("qml", FALSE, tries, 1, 3) : tries \in {0, 1, 3}}
                   \cup {Setup("qml", TRUE, tries, 1, 2) : tries \in {0, 1}}
                   \cup {Setup("json", FALSE, 3, 3, 1)}
SmallSetups == {Setup("json", FALSE, 3, 1, 1)}
=============================================================================
