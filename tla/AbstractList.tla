---------------------------- MODULE AbstractList -----------------------------
(***************************************************************************)
(* What lib/kernel/list.h promises: every list is a sequence, an element   *)
(* is on one list or in one client's hands, and the list changes at its    *)
(* ends, or anywhere by taking an element out.                             *)
(***************************************************************************)
EXTENDS Sequences, Integers

CONSTANTS Clients, Lists, Elements, None

VARIABLES contents,     \* contents[l]: the elements on l, first to last
          user          \* user[e]: the client that has e, None while on a list

listVars == <<contents, user>>

Init ==
    /\ contents = [l \in Lists |-> <<>>]
    /\ user \in [Elements -> Clients]

Put(c, e) == user[e] = c /\ user' = [user EXCEPT ![e] = None]

Push(c, l, e) ==
    Put(c, e) /\ contents' = [contents EXCEPT ![l] = <<e>> \o @]

AppendTo(c, l, e) ==
    Put(c, e) /\ contents' = [contents EXCEPT ![l] = Append(@, e)]

\* Pop takes the first, Remove any.
Take(c, l, i) ==
    /\ user' = [user EXCEPT ![contents[l][i]] = c]
    /\ contents' = [contents EXCEPT ![l] = SubSeq(@, 1, i - 1) \o SubSeq(@, i + 1, Len(@))]

Next ==
    \E c \in Clients, l \in Lists :
        \/ \E e \in Elements : Push(c, l, e) \/ AppendTo(c, l, e)
        \/ \E i \in 1 .. Len(contents[l]) : Take(c, l, i)

Spec == Init /\ [][Next]_listVars
=============================================================================
