------------------------------ MODULE MCAdmission ------------------------------
(* Constants of Admission for TLC: functions and records a .cfg cannot hold. *)
EXTENDS Admission, TLC

CONSTANTS me, peer, k1, k2, k3

MCKeysOf    == (me :> {k1}) @@ (peer :> {k2, k3})
MCAllowed   == [t \in {"CAL", "BTC-A", "BTC-C", "FEE"} |-> 1]
MCPerBlocks == [t \in {"CAL", "BTC-A", "BTC-C", "FEE"} |-> 2]
MCVote      == [vote |-> [id |-> peer, power |-> 0], height |-> 4]

=============================================================================
