---------------------------- MODULE LeasedQueue -----------------------------
(***************************************************************************)
(* What a queue of Voidlark promises, without its columns, its order of    *)
(* claims or its workers' loops: an item is accepted once, is owned by at  *)
(* most one owner at a time, changes hands only when the lease of its      *)
(* owner has lapsed, and is settled only by the owner of the moment.  A    *)
(* settled item stays settled; only an operator revives a dead one.        *)
(***************************************************************************)
CONSTANTS Item, Owner, None

VARIABLES phase, owner, lapsed

qvars == <<phase, owner, lapsed>>

TypeOK ==
  /\ phase  \in [Item -> {"absent", "pending", "done", "dead"}]
  /\ owner  \in [Item -> Owner \cup {None}]
  /\ lapsed \in [Item -> BOOLEAN]

Init ==
  /\ phase  = [i \in Item |-> "absent"]
  /\ owner  = [i \in Item |-> None]
  /\ lapsed = [i \in Item |-> FALSE]

\* What cannot be delivered to anyone is accepted as dead.
Accept(i, p) ==
  /\ phase[i] = "absent"
  /\ p \in {"pending", "dead"}
  /\ phase' = [phase EXCEPT ![i] = p]
  /\ UNCHANGED <<owner, lapsed>>

Take(o, i) ==
  /\ phase[i] = "pending"
  /\ owner[i] = None \/ lapsed[i]
  /\ owner'  = [owner  EXCEPT ![i] = o]
  /\ lapsed' = [lapsed EXCEPT ![i] = FALSE]
  /\ UNCHANGED phase

Lapse(i) ==
  /\ owner[i] # None
  /\ lapsed' = [lapsed EXCEPT ![i] = TRUE]
  /\ UNCHANGED <<phase, owner>>

\* The owner settles the item, or gives it back for another attempt.
Leave(o, i, p) ==
  /\ owner[i] = o
  /\ p \in {"pending", "done", "dead"}
  /\ phase'  = [phase  EXCEPT ![i] = p]
  /\ owner'  = [owner  EXCEPT ![i] = None]
  /\ lapsed' = [lapsed EXCEPT ![i] = FALSE]

Revive(i) ==
  /\ phase[i] = "dead"
  /\ phase' = [phase EXCEPT ![i] = "pending"]
  /\ UNCHANGED <<owner, lapsed>>

Next ==
  \E i \in Item :
    \/ Lapse(i) \/ Revive(i)
    \/ \E p \in {"pending", "dead"} : Accept(i, p)
    \/ \E o \in Owner : Take(o, i)
    \/ \E o \in Owner, p \in {"pending", "done", "dead"} : Leave(o, i, p)

Spec == Init /\ [][Next]_qvars
=============================================================================
