---------------------------- MODULE MCIfdService ----------------------------
(* Instances of IfdService: each run explores several combinations of      *)
(* bounds, as all of them at once are too many states.                     *)
EXTENDS IfdService

Instance(messages, clients, queue, swaps, entries) ==
    [messages |-> messages, clients |-> clients, queue |-> queue, swaps |-> swaps,
     entries |-> entries]

(* One client with a card that stays, two with fewer messages, and one     *)
(* whose card is removed.                                                  *)
MCBounds == {Instance(3, 1, 1, 0, 1), Instance(2, 2, 2, 0, 1), Instance(2, 1, 1, 1, 0)}
=============================================================================
