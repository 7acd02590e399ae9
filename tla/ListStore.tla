----------------------------- MODULE ListStore -----------------------------
(***************************************************************************)
(* What the callers of KVStore's array methods rely on: a list under every *)
(* key, on which an addition, the removal of one value and the removal of  *)
(* the whole list are single steps.                                        *)
(***************************************************************************)
EXTENDS Sequences, SequencesExt

CONSTANTS Keys, Values

VARIABLE list

ListInit == list = [k \in Keys |-> <<>>]

AppendTo(k, v)   == list' = [list EXCEPT ![k] = Append(list[k], v)]
RemoveFrom(k, v) == list' = [list EXCEPT ![k] = RemoveFirst(list[k], v)]
Clear(k)         == list' = [list EXCEPT ![k] = <<>>]

ListNext ==
    \E k \in Keys :
        \/ \E v \in Values : AppendTo(k, v) \/ RemoveFrom(k, v)
        \/ Clear(k)

ListSpec == ListInit /\ [][ListNext]_list
=============================================================================
