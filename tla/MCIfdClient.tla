----------------------------- MODULE MCIfdClient -----------------------------
(* Instances of IfdClient: one explores how connections are made and lost, *)
(* the others what happens on a connection.                                *)
EXTENDS IfdClient

Instance(attempts, pairs, vanish, drops, stops, removals, uses, card) ==
    [attempts |-> attempts, pairs |-> pairs, vanish |-> vanish, drops |-> drops, stops |-> stops,
     removals |-> removals, uses |-> uses, card |-> card, moved |-> FALSE]

MCBounds == {Instance(3, 0, 1, 1, 0, 0, 0, FALSE), Instance(1, 1, 1, 1, 0, 0, 0, FALSE),
             Instance(2, 0, 0, 1, 1, 0, 0, TRUE), Instance(1, 0, 0, 1, 0, 1, 2, TRUE)}
=============================================================================
