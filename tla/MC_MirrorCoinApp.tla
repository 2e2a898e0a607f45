-------------------------- MODULE MC_MirrorCoinApp --------------------------
(* Model-checking instance of MirrorCoinApp: two contracts, one pipe,    *)
(* five incoming messages that differ in checkpoint, sender, receiver     *)
(* and user, this wallet's keys pk1 and pk2 and a foreign key k3.         *)
EXTENDS MirrorCoinApp, TLC

CONSTANTS c1, c2, p1, z, pk1, pk2, k3

MCCids == {c1, c2}
MCKeys == {z, pk1, pk2, k3}
MCMyPk == (c1 :> pk1 @@ c2 :> pk2)
MCMsgs ==
    { [cp |-> 0, idx |-> 0, sender |-> c2, receiver |-> c1, user |-> pk1, amount |-> 5],
      [cp |-> 1, idx |-> 0, sender |-> c2, receiver |-> c1, user |-> k3,  amount |-> 5],
      [cp |-> 1, idx |-> 1, sender |-> c1, receiver |-> c2, user |-> pk2, amount |-> 5],
      [cp |-> 1, idx |-> 2, sender |-> c1, receiver |-> c1, user |-> pk1, amount |-> 5],
      [cp |-> 0, idx |-> 1, sender |-> c2, receiver |-> c2, user |-> pk1, amount |-> 5] }
=============================================================================
