------------------------------ MODULE MCUpdates ------------------------------
(* Instances of Updates: automatic checks on, off, and not in this build;  *)
(* files and a package there from the beginning or not; with automatic     *)
(* checks on the daily timer expires once, at any time, so that a check    *)
(* may become due in the middle of a download.                             *)
EXTENDS Updates

Instance(auto, cached, package, days, exits) ==
    [auto |-> auto, cached |-> cached, package |-> package, days |-> days, exits |-> exits]

MCSetups ==
    {Instance("off", FALSE, "bad", 0, FALSE), Instance("off", TRUE, "bad", 1, FALSE),
     Instance("on", TRUE, "good", 1, TRUE), Instance("unavailable", FALSE, "none", 2, FALSE)}
=============================================================================
