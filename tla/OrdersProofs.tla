---------------------------- MODULE OrdersProofs ----------------------------
(***************************************************************************)
(* Proofs about Orders, for any customers, requests, events and bounds.    *)
(* The inductive invariant OInv adds to the properties why they hold:      *)
(*  - statuses only grow in Rank, so an order reaches each at most once,   *)
(*    and the key order:<id>:<status> is never asked for twice;            *)
(*  - every notice that exists anywhere, also in a stale batch, tells of   *)
(*    the trail of its order, and no two notices share a key;              *)
(*  - what a request has read is stale only in ways the transactions see.  *)
(*                                                                         *)
(* And at the end about Recommendations, what a customer is led to order,  *)
(* for any catalogue, any needs and whatever a lookup finds.  What sorts   *)
(* in the code is Sorted in the model; the lemmas say what Sorted returns. *)
(***************************************************************************)
EXTENDS Orders, Recommendations, FiniteSetTheorems, SequenceTheorems, WellFoundedInduction, TLAPS

PaidLike == {"paid", "shipped", "completed"}

Rank == [draft |-> 0, confirmed |-> 1, awaiting_payment |-> 2, paid |-> 3,
         shipped |-> 4, completed |-> 5, cancelled |-> 6]

Notices == intents \cup outbound \cup batch

Tells(i) == \E n \in 1..Len(audit[i.order]) : audit[i.order][n].to = i.status

\* Every status in the trail lies behind the present one.
RankOK ==
  \A o \in Order : \A n \in 1..Len(audit[o]) : Rank[audit[o][n].to] =< Rank[status[o]]

\* Notices tell of the trail, and a key belongs to one notice.
NoticesOK ==
  /\ \A i \in Notices : Tells(i)
  /\ \A i, m \in Notices : i.order = m.order /\ i.status = m.status => i = m
  /\ \A i \in batch : i \in intents \/ jid[i.order] = Deleted

Moves == {"confirm", "pay", "advance", "deliver"}

\* What the requests rely on.
JobsOK ==
  /\ \A r \in Request : job[r].op \in Moves =>
       /\ job[r].order \in Order
       /\ Exists(job[r].order)
       /\ jid[job[r].order] \in Customer => job[r].jid = jid[job[r].order]
  /\ \A d \in Delivery : job[d].op = "deliver" =>
       /\ job[d].order = Bill[Carries[d]]
       /\ job[d].seen = "paid" => status[job[d].order] \in PaidLike

OInv == TypeOK /\ AuditTrail /\ RankOK /\ NoticesOK /\ JobsOK
        /\ SettledIsPaid /\ NoticesMatchTrail /\ ProjectedIsSent

-----------------------------------------------------------------------------

\* ORDER_TRANSITIONS never goes back, and from a paid order only on.
LEMMA TransitionsAdvance ==
  ASSUME NEW from \in Status, NEW to \in OrderTransitions[from]
  PROVE  /\ to \in Status
         /\ Rank[from] < Rank[to]
         /\ from \in PaidLike => to \in PaidLike
         /\ to # "draft"
<1>1. CASE from = "draft" BY <1>1 DEF OrderTransitions, Status, Rank, PaidLike
<1>2. CASE from = "confirmed" BY <1>2 DEF OrderTransitions, Status, Rank, PaidLike
<1>3. CASE from = "awaiting_payment" BY <1>3 DEF OrderTransitions, Status, Rank, PaidLike
<1>4. CASE from = "paid" BY <1>4 DEF OrderTransitions, Status, Rank, PaidLike
<1>5. CASE from = "shipped" BY <1>5 DEF OrderTransitions, Status, Rank, PaidLike
<1>6. CASE from = "completed" BY <1>6 DEF OrderTransitions, Status, Rank, PaidLike
<1>7. CASE from = "cancelled" BY <1>7 DEF OrderTransitions, Status, Rank, PaidLike
<1> QED BY <1>1, <1>2, <1>3, <1>4, <1>5, <1>6, <1>7 DEF Status

LEMMA RankNat == \A s \in Status : Rank[s] \in Nat
BY DEF Rank, Status

\* What Append does to the trail of an order.
LEMMA TrailGrows ==
  ASSUME NEW s \in Seq(Entry), NEW e \in Entry
  PROVE  /\ Append(s, e) \in Seq(Entry)
         /\ Len(Append(s, e)) = Len(s) + 1
         /\ Len(s) \in Nat
         /\ Append(s, e)[Len(s) + 1] = e
         /\ \A n \in 1..Len(s) : Append(s, e)[n] = s[n]
         /\ Append(s, e) # <<>>
OBVIOUS

-----------------------------------------------------------------------------
(* A transition.                                                            *)

\* What a transition does, without EXCEPT.
LEMMA TransitionFacts ==
  ASSUME TypeOK, NEW o \in Order, NEW from \in Status, NEW to, NEW j \in Jid,
         Transition(o, from, to, j)
  PROVE  /\ to \in Status /\ to \in OrderTransitions[from]
         /\ status[o] = from /\ Exists(o)
         /\ status' \in [Order -> Status \cup {"absent"}]
         /\ status'[o] = to /\ \A p \in Order \ {o} : status'[p] = status[p]
         /\ audit' \in [Order -> Seq(Entry)]
         /\ audit'[o] = Append(audit[o], [from |-> from, to |-> to])
         /\ \A p \in Order \ {o} : audit'[p] = audit[p]
         /\ [from |-> from, to |-> to] \in Entry
         /\ jid' = jid /\ filled' = filled
<1>1. to \in OrderTransitions[from] /\ to \in Status
  BY TransitionsAdvance DEF Transition
<1>2. status[o] = from /\ status' = [status EXCEPT ![o] = to]
      /\ audit' = [audit EXCEPT ![o] = Append(audit[o], [from |-> from, to |-> to])]
      /\ jid' = jid /\ filled' = filled
  BY DEF Transition, Unchanged
<1>3. [from |-> from, to |-> to] \in Entry
  BY <1>1 DEF Entry
<1>4. audit[o] \in Seq(Entry)
  BY DEF TypeOK
<1>5. Append(audit[o], [from |-> from, to |-> to]) \in Seq(Entry)
  BY <1>3, <1>4, TrailGrows
<1>6. Exists(o)
  BY <1>2 DEF Exists, Status
<1>7. status \in [Order -> Status \cup {"absent"}] /\ audit \in [Order -> Seq(Entry)]
  BY DEF TypeOK
<1>. QED BY <1>1, <1>2, <1>3, <1>5, <1>6, <1>7

LEMMA TransitionTrail ==
  ASSUME TypeOK, AuditTrail, RankOK,
         NEW o \in Order, NEW from \in Status, NEW to, NEW j \in Jid,
         Transition(o, from, to, j)
  PROVE  /\ AuditTrail' /\ RankOK'
         /\ \A n \in 1..Len(audit[o]) : audit[o][n].to # to
         /\ \A p \in Order : \A n \in 1..Len(audit[p]) :
              n \in 1..Len(audit'[p]) /\ audit'[p][n] = audit[p][n]
         /\ \E n \in 1..Len(audit'[o]) : audit'[o][n].to = to
         /\ \A p \in Order : \A n \in 1..Len(audit'[p]) :
              n \in 1..Len(audit[p]) \/ (p = o /\ audit'[p][n].to = to)
<1> DEFINE e == [from |-> from, to |-> to]
<1> DEFINE L == Len(audit[o])
<1>1. /\ to \in Status /\ to \in OrderTransitions[from] /\ status[o] = from /\ Exists(o)
      /\ status'[o] = to /\ (\A p \in Order \ {o} : status'[p] = status[p])
      /\ audit'[o] = Append(audit[o], e) /\ (\A p \in Order \ {o} : audit'[p] = audit[p])
      /\ e \in Entry
  BY TransitionFacts
<1>2. audit[o] \in Seq(Entry)
  BY DEF TypeOK
<1>3. /\ Len(audit'[o]) = L + 1 /\ L \in Nat /\ audit'[o][L + 1] = e
      /\ (\A n \in 1..L : audit'[o][n] = audit[o][n]) /\ audit'[o] # <<>>
  <2> HIDE DEF e
  <2>. QED BY <1>1, <1>2, TrailGrows
<1>4. e.from = from /\ e.to = to
  OBVIOUS
<1>5. status[o] = LastStatus(o)
  BY <1>1 DEF AuditTrail
<1>6. \A n \in 1..L : audit[o][n].to \in Status
  <2>1. \A n \in 1..L : audit[o][n] \in Entry
    BY <1>2
  <2>2. \A x \in Entry : x.to \in Status
    BY DEF Entry
  <2>. QED BY <2>1, <2>2
<1>7. Rank[from] < Rank[to] /\ Rank[from] \in Nat /\ Rank[to] \in Nat
  BY <1>1, TransitionsAdvance, RankNat
<1>8. \A n \in 1..L : Rank[audit[o][n].to] =< Rank[from] /\ Rank[audit[o][n].to] \in Nat
  BY <1>1, <1>6, RankNat DEF RankOK
<1>9. \A n \in 1..L : audit[o][n].to # to
  BY <1>7, <1>8
<1> HIDE DEF e, L
<1>10. AuditTrail'
  <2> SUFFICES ASSUME NEW p \in Order
               PROVE  /\ Exists(p)' => status'[p] = LastStatus(p)'
                      /\ ~Exists(p)' => audit'[p] = <<>>
                      /\ \A n \in 1..Len(audit'[p]) :
                           /\ audit'[p][n].to \in OrderTransitions[audit'[p][n].from]
                           /\ audit'[p][n].from = IF n = 1 THEN "draft" ELSE audit'[p][n - 1].to
    BY DEF AuditTrail
  <2>1. CASE p # o
    BY <2>1, <1>1 DEF AuditTrail, Exists, LastStatus
  <2>2. CASE p = o
    <3>1. status'[o] = LastStatus(o)'
      BY <1>1, <1>3, <1>4 DEF LastStatus
    <3>2. Exists(o)'
      BY <1>1 DEF Exists, Status
    <3>3. ASSUME NEW n \in 1..L
          PROVE  /\ audit'[o][n].to \in OrderTransitions[audit'[o][n].from]
                 /\ audit'[o][n].from = IF n = 1 THEN "draft" ELSE audit'[o][n - 1].to
      <4>1. /\ audit[o][n].to \in OrderTransitions[audit[o][n].from]
            /\ audit[o][n].from = IF n = 1 THEN "draft" ELSE audit[o][n - 1].to
        BY <3>3 DEF AuditTrail, L
      <4>2. n # 1 => n - 1 \in 1..L
        BY <1>3
      <4>. QED BY <4>1, <4>2, <1>3
    <3>4. /\ audit'[o][L + 1].to \in OrderTransitions[audit'[o][L + 1].from]
          /\ audit'[o][L + 1].from = IF L + 1 = 1 THEN "draft" ELSE audit'[o][L].to
      <4>1. L = 0 => audit[o] = <<>>
        BY <1>2 DEF L
      <4>2. L = 0 => from = "draft"
        BY <4>1, <1>1, <1>5 DEF LastStatus
      <4>3. L # 0 => audit[o] # <<>> /\ L \in 1..L
        BY <1>2, <1>3 DEF L
      <4>4. L # 0 => from = audit'[o][L].to
        BY <4>3, <1>1, <1>3, <1>5 DEF LastStatus, L
      <4>. QED BY <4>2, <4>4, <1>1, <1>3, <1>4
    <3>5. \A n \in 1..(L + 1) : n \in 1..L \/ n = L + 1
      BY <1>3
    <3>6. L + 1 - 1 = L
      BY <1>3
    <3>. QED BY <2>2, <3>1, <3>2, <3>3, <3>4, <3>5, <3>6, <1>3
  <2>. QED BY <2>1, <2>2
<1>11. RankOK'
  <2> SUFFICES ASSUME NEW p \in Order, NEW n \in 1..Len(audit'[p])
               PROVE  Rank[audit'[p][n].to] =< Rank[status'[p]]
    BY DEF RankOK
  <2>1. CASE p # o
    BY <2>1, <1>1 DEF RankOK
  <2>2. CASE p = o /\ n \in 1..L
    BY <2>2, <1>1, <1>3, <1>7, <1>8
  <2>3. CASE p = o /\ n = L + 1
    BY <2>3, <1>1, <1>3, <1>4, <1>7
  <2>. QED BY <2>1, <2>2, <2>3, <1>3
<1>12. \A p \in Order : \A n \in 1..Len(audit[p]) :
         n \in 1..Len(audit'[p]) /\ audit'[p][n] = audit[p][n]
  BY <1>1, <1>3 DEF L
<1>13. \E n \in 1..Len(audit'[o]) : audit'[o][n].to = to
  <2>1. L + 1 \in 1..Len(audit'[o])
    BY <1>3
  <2>. QED BY <2>1, <1>3, <1>4
<1>14. \A p \in Order : \A n \in 1..Len(audit'[p]) :
              n \in 1..Len(audit[p]) \/ (p = o /\ audit'[p][n].to = to)
  BY <1>1, <1>3, <1>4 DEF L
<1>. QED BY <1>9, <1>10, <1>11, <1>12, <1>13, <1>14 DEF L

\* The notice of a transition is new, and its key was never used.
LEMMA TransitionNotices ==
  ASSUME TypeOK, AuditTrail, RankOK, NoticesOK, NoticesMatchTrail, ProjectedIsSent,
         NEW o \in Order, NEW from \in Status, NEW to, NEW j \in Jid,
         jid[o] \in Customer => j = jid[o],
         Transition(o, from, to, j),
         UNCHANGED <<processed, outbound, batch>>
  PROVE  /\ intents' = intents \cup {[order |-> o, status |-> to, jid |-> j]}
         /\ [order |-> o, status |-> to, jid |-> j] \in Notice
         /\ NoticesOK' /\ NoticesMatchTrail' /\ ProjectedIsSent'
<1> DEFINE new == [order |-> o, status |-> to, jid |-> j]
<1>1. /\ to \in Status /\ jid' = jid
      /\ \A n \in 1..Len(audit[o]) : audit[o][n].to # to
  <2>1. to \in Status /\ jid' = jid
    BY TransitionFacts
  <2>2. \A n \in 1..Len(audit[o]) : audit[o][n].to # to
    BY TransitionTrail
  <2>. QED BY <2>1, <2>2
<1>2. /\ \A p \in Order : \A n \in 1..Len(audit[p]) :
           n \in 1..Len(audit'[p]) /\ audit'[p][n] = audit[p][n]
      /\ \E n \in 1..Len(audit'[o]) : audit'[o][n].to = to
      /\ \A p \in Order : \A n \in 1..Len(audit'[p]) :
           n \in 1..Len(audit[p]) \/ (p = o /\ audit'[p][n].to = to)
  BY TransitionTrail
<1>3. Notices \subseteq Notice
  BY DEF TypeOK, Notices
<1>4. \A i \in Notice : i.order \in Order /\ i.status \in Status /\ i.jid \in Jid
  BY DEF Notice
<1>5. ~(\E i \in Notices : i.order = o /\ i.status = to)
  BY <1>1 DEF NoticesOK, Tells
<1>6. intents' = intents \cup {new}
  BY <1>5 DEF Transition, Told, Notices
<1>7. new \in Notice /\ new.order = o /\ new.status = to /\ new.jid = j
  BY <1>1 DEF Notice
<1> HIDE DEF new
<1>8. Notices' = Notices \cup {new}
  BY <1>6 DEF Notices
<1>9. NoticesOK'
  <2>1. \A i \in Notices' : Tells(i)'
    <3> SUFFICES ASSUME NEW i \in Notices' PROVE Tells(i)'
      OBVIOUS
    <3>1. CASE i = new
      BY <3>1, <1>2, <1>7 DEF Tells
    <3>2. CASE i \in Notices
      <4>1. PICK n \in 1..Len(audit[i.order]) : audit[i.order][n].to = i.status
        BY <3>2 DEF NoticesOK, Tells
      <4>2. n \in 1..Len(audit'[i.order]) /\ audit'[i.order][n].to = i.status
        BY <3>2, <4>1, <1>2, <1>3, <1>4
      <4>. QED BY <4>2 DEF Tells
    <3>. QED BY <3>1, <3>2, <1>8
  <2>2. \A i, m \in Notices' : i.order = m.order /\ i.status = m.status => i = m
    BY <1>5, <1>7, <1>8 DEF NoticesOK
  <2>3. \A i \in batch' : i \in intents' \/ jid'[i.order] = Deleted
    BY <1>1, <1>6 DEF NoticesOK
  <2>. QED BY <2>1, <2>2, <2>3 DEF NoticesOK
<1>10. NoticesMatchTrail'
  <2> SUFFICES ASSUME NEW p \in Order, jid[p] \in Customer
               PROVE  /\ \A n \in 1..Len(audit'[p]) :
                           [order |-> p, status |-> audit'[p][n].to, jid |-> jid[p]] \in intents'
                      /\ \A i \in intents' : i.order = p =>
                           /\ i.jid = jid[p]
                           /\ \E n \in 1..Len(audit'[p]) : audit'[p][n].to = i.status
    BY <1>1 DEF NoticesMatchTrail
  <2>1. ASSUME NEW n \in 1..Len(audit'[p])
        PROVE  [order |-> p, status |-> audit'[p][n].to, jid |-> jid[p]] \in intents'
    <3>1. CASE n \in 1..Len(audit[p])
      BY <3>1, <1>2, <1>6 DEF NoticesMatchTrail
    <3>2. CASE p = o /\ audit'[p][n].to = to
      BY <3>2, <1>6 DEF new
    <3>. QED BY <3>1, <3>2, <1>2
  <2>2. ASSUME NEW i \in intents', i.order = p
        PROVE  i.jid = jid[p] /\ \E n \in 1..Len(audit'[p]) : audit'[p][n].to = i.status
    <3>1. i.jid = jid[p]
      BY <2>2, <1>6, <1>7 DEF NoticesMatchTrail
    <3>2. Tells(i)'
      BY <1>9 DEF NoticesOK, Notices
    <3>. QED BY <2>2, <3>1, <3>2 DEF Tells
  <2>. QED BY <2>1, <2>2
<1>11. ProjectedIsSent'
  BY <1>1 DEF ProjectedIsSent
<1>. QED BY <1>6, <1>7, <1>9, <1>10, <1>11 DEF new

-----------------------------------------------------------------------------
(* The invariant.                                                           *)

\* Steps that change neither a status nor the trail nor the notices.
LEMMA RowsStay ==
  ASSUME OInv, UNCHANGED <<status, jid, audit, intents, processed, outbound, batch>>
  PROVE  /\ AuditTrail' /\ RankOK' /\ NoticesOK' /\ NoticesMatchTrail' /\ ProjectedIsSent'
<1>1. AuditTrail' /\ RankOK'
  BY DEF OInv, AuditTrail, RankOK, Exists, LastStatus
<1>2. NoticesOK'
  BY DEF OInv, NoticesOK, Notices, Tells
<1>3. NoticesMatchTrail' /\ ProjectedIsSent'
  BY DEF OInv, NoticesMatchTrail, ProjectedIsSent
<1>. QED BY <1>1, <1>2, <1>3

\* A request that has read an order as it stands.
LEMMA ReaderOK ==
  ASSUME OInv, NEW r \in Request \ Delivery, NEW op \in Ops, NEW o \in Order, Exists(o),
         op # "deliver", NEW seen \in Status, NEW to \in Status,
         Take(r, Doing(op, o, seen, jid[o], to)),
         UNCHANGED <<rowVars, intents, processed, outbound, events, batch, boundVars>>
  PROVE  OInv'
<1> DEFINE work == Doing(op, o, seen, jid[o], to)
<1>1. /\ work.op = op /\ work.order = o /\ work.jid = jid[o] /\ work \in Job
  BY DEF Doing, Job, OInv, TypeOK
<1> HIDE DEF work
<1>2. job' = [job EXCEPT ![r] = work] /\ job \in [Request -> Job]
  BY DEF Take, OInv, TypeOK, work
<1>3. job'[r] = work /\ \A q \in Request \ {r} : job'[q] = job[q]
  BY <1>2
<1>4. TypeOK'
  BY <1>1, <1>2 DEF OInv, TypeOK, rowVars, boundVars
<1>5. JobsOK'
  <2>1. status' = status /\ jid' = jid
    BY DEF rowVars
  <2>2. \A d \in Delivery : d \in Request /\ d # r
    BY DEF Request
  <2>. QED BY <1>1, <1>3, <2>1, <2>2 DEF OInv, JobsOK, Exists
<1>6. SettledIsPaid'
  BY DEF OInv, SettledIsPaid, rowVars
<1>. QED BY <1>4, <1>5, <1>6, RowsStay DEF OInv, rowVars

\* The jobs stay right when rows only move on and no new job relies on them.
LEMMA JobsStay ==
  ASSUME OInv,
         \A p \in Order : Exists(p) => Exists(p)' /\ jid'[p] \in {jid[p], Deleted},
         \A p \in Order : status[p] \in PaidLike => status'[p] \in PaidLike,
         \A q \in Request : job'[q] = job[q] \/ job'[q].op \notin Moves
  PROVE  JobsOK'
<1>1. ASSUME NEW r \in Request, job'[r].op \in Moves
      PROVE  /\ job'[r].order \in Order
             /\ Exists(job[r].order)'
             /\ jid'[job'[r].order] \in Customer => job'[r].jid = jid'[job'[r].order]
  <2>1. job'[r] = job[r]
    BY <1>1
  <2>2. job[r].order \in Order /\ Exists(job[r].order)
        /\ (jid[job[r].order] \in Customer => job[r].jid = jid[job[r].order])
    BY <1>1, <2>1 DEF OInv, JobsOK
  <2>3. Deleted \notin Customer
    BY OrdersAssumption
  <2>. QED BY <2>1, <2>2, <2>3 DEF Exists
<1>2. ASSUME NEW d \in Delivery, job'[d].op = "deliver"
      PROVE  /\ job'[d].order = Bill[Carries[d]]
             /\ job'[d].seen = "paid" => status'[job'[d].order] \in PaidLike
  <2>1. d \in Request /\ "deliver" \in Moves
    BY DEF Request, Moves
  <2>2. job'[d] = job[d]
    BY <1>2, <2>1
  <2>3. job[d].order \in Order
    BY <1>2, <2>1, <2>2 DEF OInv, JobsOK
  <2>. QED BY <1>2, <2>2, <2>3 DEF OInv, JobsOK
<1>3. \A r \in Request : job'[r].op \in Moves => job'[r] = job[r]
  OBVIOUS
<1>. QED BY <1>1, <1>2, <1>3 DEF JobsOK, Exists

LEMMA IdleJob == Idle \in Job /\ Idle.op \notin Moves
BY DEF Idle, Job, Ops, Moves, Status, Jid

\* A step of a request that leaves it with a job that relies on nothing, or
\* with none, and at most fills in a draft.
LEMMA QuietStep ==
  ASSUME OInv, NEW r \in Request, NEW work \in Job, work.op \notin Moves, Take(r, work),
         filled' \in [Order -> BOOLEAN],
         UNCHANGED <<status, jid, audit, intents, processed, outbound, events, batch, boundVars>>
  PROVE  OInv'
<1>1. job' = [job EXCEPT ![r] = work] /\ job \in [Request -> Job]
  BY DEF Take, OInv, TypeOK
<1>2. job'[r] = work /\ \A q \in Request \ {r} : job'[q] = job[q]
  BY <1>1
<1>3. TypeOK'
  BY <1>1 DEF OInv, TypeOK, boundVars
<1>4. JobsOK'
  BY <1>2, JobsStay DEF Exists
<1>5. SettledIsPaid'
  BY DEF OInv, SettledIsPaid
<1>. QED BY <1>3, <1>4, <1>5, RowsStay DEF OInv

\* A transaction that moves an order on, whoever asked for it.
LEMMA MoveOK ==
  ASSUME OInv, NEW r \in Request, NEW o \in Order, NEW from \in Status, NEW to, NEW j \in Jid,
         jid[o] \in Customer => j = jid[o],
         Transition(o, from, to, j), Finish(r),
         UNCHANGED <<processed, outbound, batch, boundVars>>,
         events' \subseteq Event,
         \A e \in events' \cap Settling : e \in events \/ (Bill[e] = o /\ to = "paid")
  PROVE  OInv'
<1>1. TypeOK /\ AuditTrail /\ RankOK /\ NoticesOK /\ NoticesMatchTrail /\ ProjectedIsSent
  BY DEF OInv
<1>2. AuditTrail' /\ RankOK'
  BY <1>1, TransitionTrail
<1>3. /\ intents' = intents \cup {[order |-> o, status |-> to, jid |-> j]}
      /\ [order |-> o, status |-> to, jid |-> j] \in Notice
      /\ NoticesOK' /\ NoticesMatchTrail' /\ ProjectedIsSent'
  BY <1>1, TransitionNotices
<1>4. /\ to \in Status /\ to \in OrderTransitions[from] /\ status[o] = from
      /\ status' \in [Order -> Status \cup {"absent"}] /\ audit' \in [Order -> Seq(Entry)]
      /\ status'[o] = to /\ \A p \in Order \ {o} : status'[p] = status[p]
      /\ jid' = jid /\ filled' = filled
  <2>1. TypeOK
    BY <1>1
  <2>2. to \in Status /\ to \in OrderTransitions[from] /\ status[o] = from
    BY <2>1, TransitionFacts
  <2>3. status'[o] = to /\ (\A p \in Order \ {o} : status'[p] = status[p])
    <3>1. status' = [status EXCEPT ![o] = to]
      BY DEF Transition
    <3>. QED BY <1>1, <3>1 DEF TypeOK
  <2>4. jid' = jid /\ filled' = filled
    BY <2>1, TransitionFacts
  <2>5. status' \in [Order -> Status \cup {"absent"}]
    BY <2>1, TransitionFacts
  <2>6. audit' \in [Order -> Seq(Entry)]
    BY <2>1, TransitionFacts
  <2>. QED BY <2>2, <2>3, <2>4, <2>5, <2>6
<1>5. job' = [job EXCEPT ![r] = Idle] /\ job \in [Request -> Job]
  BY <1>1 DEF Finish, Take, TypeOK
<1>6. TypeOK'
  <2>1. job' \in [Request -> Job]
    BY <1>5, IdleJob
  <2>. QED BY <1>1, <1>3, <1>4, <2>1 DEF TypeOK, boundVars
<1>7. \A p \in Order : status[p] \in PaidLike => status'[p] \in PaidLike
  BY <1>4, TransitionsAdvance
<1>8. \A p \in Order : Exists(p) => Exists(p)'
  BY <1>4 DEF Exists, Status
<1>9. JobsOK'
  <2>1. \A q \in Request : job'[q] = job[q] \/ job'[q].op \notin Moves
    BY <1>5, IdleJob
  <2>. QED BY <1>4, <1>7, <1>8, <2>1, JobsStay
<1>10. SettledIsPaid'
  <2>1. \A e \in Event : Bill[e] \in Order
    BY OrdersAssumption
  <2>2. \A e \in events \cap Settling : status[Bill[e]] \in PaidLike
    BY DEF OInv, SettledIsPaid, PaidLike
  <2>3. ASSUME NEW e \in events' \cap Settling PROVE status'[Bill[e]] \in PaidLike
    BY <1>4, <1>7, <2>1, <2>2 DEF PaidLike
  <2>. QED BY <2>3 DEF SettledIsPaid, PaidLike
<1>. QED BY <1>2, <1>3, <1>6, <1>9, <1>10 DEF OInv

\* A request does what it has prepared, or fails.
LEMMA TryOK ==
  ASSUME OInv, NEW r \in Request, job[r].op \in Moves, Try(r)
  PROVE  OInv'
<1>1. /\ job[r] \in Job /\ job[r].order \in Order
      /\ jid[job[r].order] \in Customer => job[r].jid = jid[job[r].order]
  BY DEF OInv, TypeOK, JobsOK
<1>2. job[r].seen \in Status /\ job[r].jid \in Jid
  BY <1>1 DEF Job
<1>3. CASE Transition(job[r].order, job[r].seen, job[r].to, job[r].jid)
  <2>1. Finish(r) /\ UNCHANGED <<processed, outbound, events, batch, boundVars>>
    BY DEF Try
  <2>2. events' \subseteq Event /\ \A e \in events' \cap Settling : e \in events
    BY <2>1 DEF OInv, TypeOK
  <2>. QED BY <1>1, <1>2, <1>3, <2>1, <2>2, MoveOK
<1>4. CASE Refused(job[r].order, job[r].seen, job[r].to)
  <2>1. /\ Take(r, Idle)
        /\ UNCHANGED <<status, jid, audit, intents, processed, outbound, events, batch, boundVars>>
        /\ filled' = filled
    BY <1>4 DEF Try, Refused, Finish, rowVars
  <2>2. filled' \in [Order -> BOOLEAN]
    BY <2>1 DEF OInv, TypeOK
  <2>. QED BY <2>1, <2>2, IdleJob, QuietStep
<1>. QED BY <1>3, <1>4 DEF Try

-----------------------------------------------------------------------------
(* Every step keeps the invariant.                                          *)

LEMMA InitOInv == Init => OInv
<1> SUFFICES ASSUME Init PROVE OInv
  OBVIOUS
<1>1. \A o \in Order : status[o] = "absent" /\ jid[o] = Deleted /\ audit[o] = <<>>
  BY DEF Init
<1>2. intents = {} /\ processed = {} /\ outbound = {} /\ events = {} /\ batch = {}
  BY DEF Init
<1>3. job = [r \in Request |-> Idle]
  BY DEF Init
<1>4. TypeOK
  <2>1. <<>> \in Seq(Entry)
    OBVIOUS
  <2>2. audit \in [Order -> Seq(Entry)]
    BY <2>1 DEF Init
  <2>3. jid \in [Order -> Jid]
    BY DEF Init, Jid
  <2>4. forgets \in 0..MaxIncidents /\ faults \in 0..MaxIncidents
    BY OrdersAssumption DEF Init
  <2>. QED BY <1>2, <1>3, <2>2, <2>3, <2>4, IdleJob DEF Init, TypeOK
<1>5. AuditTrail /\ RankOK
  BY <1>1 DEF AuditTrail, RankOK, Exists
<1>6. NoticesOK /\ SettledIsPaid /\ ProjectedIsSent
  BY <1>2 DEF NoticesOK, Notices, SettledIsPaid, ProjectedIsSent
<1>7. NoticesMatchTrail
  BY <1>1, OrdersAssumption DEF NoticesMatchTrail
<1>8. JobsOK
  <2>1. \A r \in Request : job[r].op \notin Moves
    BY <1>3, IdleJob
  <2>2. \A d \in Delivery : d \in Request
    BY DEF Request
  <2>. QED BY <2>1, <2>2 DEF JobsOK, Moves
<1>. QED BY <1>4, <1>5, <1>6, <1>7, <1>8 DEF OInv

\* Work that relies on nothing.
LEMMA QuietJob ==
  ASSUME NEW op \in {"cleared", "save"}, NEW o \in Order \cup {NoOrder}, NEW j \in Jid
  PROVE  /\ Doing(op, o, "draft", j, "draft") \in Job
         /\ Doing(op, o, "draft", j, "draft").op \notin Moves
BY DEF Doing, Job, Ops, Status, Moves

LEMMA InsertOK ==
  ASSUME OInv, NEW t \in Turn, NEW o \in Order, InsertDraft(t, o)
  PROVE  OInv'
<1>1. /\ t \in Request /\ job[t] \in Job /\ job[t].jid \in Jid
  BY DEF OInv, TypeOK, Request, Job
<1>2. /\ status' = [status EXCEPT ![o] = "draft"] /\ jid' = [jid EXCEPT ![o] = job[t].jid]
      /\ ~Exists(o)
      /\ job' = [job EXCEPT ![t] = Idle]
      /\ UNCHANGED <<audit, intents, processed, outbound, events, batch, boundVars>>
  BY DEF InsertDraft, Finish, Take
<1>3. PICK full \in BOOLEAN : filled' = [filled EXCEPT ![o] = full]
  BY DEF InsertDraft
<1>4. /\ status \in [Order -> Status \cup {"absent"}] /\ jid \in [Order -> Jid]
      /\ filled \in [Order -> BOOLEAN] /\ job \in [Request -> Job]
  BY DEF OInv, TypeOK
<1>5. /\ status'[o] = "draft" /\ (\A p \in Order \ {o} : status'[p] = status[p])
      /\ (\A p \in Order \ {o} : jid'[p] = jid[p])
      /\ audit[o] = <<>> /\ status[o] = "absent"
  BY <1>2, <1>4 DEF OInv, AuditTrail, Exists
<1>6. TypeOK'
  <2>1. "draft" \in Status
    BY DEF Status
  <2>. QED BY <1>1, <1>2, <1>3, <1>4, <2>1, IdleJob DEF OInv, TypeOK, boundVars
<1>7. AuditTrail' /\ RankOK'
  BY <1>2, <1>5 DEF OInv, AuditTrail, RankOK, Exists, LastStatus
<1>8. \A i \in Notices : i.order \in Order \ {o}
  <2>1. Notices \subseteq Notice
    BY DEF OInv, TypeOK, Notices
  <2>2. \A i \in Notices : i.order # o
    BY <1>5 DEF OInv, NoticesOK, Tells
  <2>. QED BY <2>1, <2>2 DEF Notice
<1>9. NoticesOK'
  <2>1. Notices' = Notices /\ \A i \in Notices : Tells(i)' <=> Tells(i)
    BY <1>2 DEF Notices, Tells
  <2>2. \A i \in batch : i \in Notices
    BY DEF Notices
  <2>. QED BY <1>2, <1>5, <1>8, <2>1, <2>2 DEF OInv, NoticesOK
<1>10. NoticesMatchTrail'
  <2>1. \A i \in intents : i \in Notices
    BY DEF Notices
  <2>. QED BY <1>2, <1>5, <1>8, <2>1 DEF OInv, NoticesMatchTrail
<1>11. ProjectedIsSent'
  <2>1. \A i \in outbound : i \in Notices
    BY DEF Notices
  <2>. QED BY <1>2, <1>5, <1>8, <2>1 DEF OInv, ProjectedIsSent
<1>12. JobsOK'
  <2>1. \A p \in Order : Exists(p) => Exists(p)' /\ jid'[p] \in {jid[p], Deleted}
    BY <1>5 DEF Exists
  <2>2. \A p \in Order : status[p] \in PaidLike => status'[p] \in PaidLike
    BY <1>5 DEF PaidLike
  <2>3. \A q \in Request : job'[q] = job[q] \/ job'[q].op \notin Moves
    BY <1>2, <1>4, IdleJob
  <2>. QED BY <2>1, <2>2, <2>3, JobsStay
<1>13. SettledIsPaid'
  <2>1. \A e \in Event : Bill[e] \in Order
    BY OrdersAssumption
  <2>. QED BY <1>2, <1>5, <2>1 DEF OInv, TypeOK, SettledIsPaid
<1>. QED BY <1>6, <1>7, <1>9, <1>10, <1>11, <1>12, <1>13 DEF OInv

LEMMA TurnStepOK ==
  ASSUME OInv, NEW t \in Turn, TurnStep(t)
  PROVE  OInv'
<1>0. t \in Request /\ t \in Request \ Delivery /\ filled \in [Order -> BOOLEAN]
      /\ job[t] \in Job
  BY OrdersAssumption DEF Request, OInv, TypeOK
<1>1. ASSUME NEW c \in Customer, ClearDraftProductName(t, c) PROVE OInv'
  <2>1. Take(t, Doing("cleared", NoOrder, "draft", c, "draft"))
    BY <1>1 DEF ClearDraftProductName
  <2>2. filled' = [o \in Order |-> filled[o] /\ o \notin Drafts(c)]
    BY <1>1 DEF ClearDraftProductName
  <2>3. filled' \in [Order -> BOOLEAN]
    BY <2>2
  <2>4. UNCHANGED <<status, jid, audit, intents, processed, outbound, events, batch, boundVars>>
    BY <1>1 DEF ClearDraftProductName
  <2>5. c \in Jid
    BY DEF Jid
  <2>. QED BY <1>0, <2>1, <2>3, <2>4, <2>5, QuietJob, QuietStep
<1>2. ASSUME NEW c \in Customer, FindDraft(t, c) PROVE OInv'
  <2>1. PICK o \in IF Drafts(c) = {} THEN {NoOrder} ELSE Drafts(c) :
          Take(t, Doing("save", o, "draft", c, "draft"))
    BY <1>2 DEF FindDraft
  <2>2. o \in Order \cup {NoOrder}
    BY <2>1 DEF Drafts
  <2>3. UNCHANGED <<status, jid, audit, intents, processed, outbound, events, batch, boundVars>>
        /\ filled' = filled
    BY <1>2 DEF FindDraft, rowVars
  <2>4. c \in Jid
    BY DEF Jid
  <2>. QED BY <1>0, <2>1, <2>2, <2>3, <2>4, QuietJob, QuietStep
<1>3. ASSUME NEW c \in Customer, ReadDraft(t, c) PROVE OInv'
  <2>1. PICK o \in Drafts(c) : Take(t, Doing("confirm", o, "draft", c, "awaiting_payment"))
    BY <1>3 DEF ReadDraft
  <2>2. o \in Order /\ Exists(o) /\ jid[o] = c
    BY DEF Drafts, Exists
  <2>3. "confirm" \in Ops /\ "confirm" # "deliver" /\ "draft" \in Status /\ "awaiting_payment" \in Status
    BY DEF Ops, Status
  <2>4. UNCHANGED <<rowVars, intents, processed, outbound, events, batch, boundVars>>
    BY <1>3 DEF ReadDraft
  <2>5. Take(t, Doing("confirm", o, "draft", jid[o], "awaiting_payment"))
    BY <2>1, <2>2
  <2>. QED BY <1>0, <2>2, <2>3, <2>4, <2>5, ReaderOK
<1>4. ASSUME NEW o \in Order, InsertDraft(t, o) PROVE OInv'
  BY <1>4, InsertOK
<1>5. CASE UpdateDraft(t)
  <2>1. PICK full \in BOOLEAN : filled' = [filled EXCEPT ![job[t].order] = full]
    BY <1>5 DEF UpdateDraft
  <2>2. Take(t, Idle)
        /\ UNCHANGED <<status, jid, audit, intents, processed, outbound, events, batch, boundVars>>
    BY <1>5 DEF UpdateDraft, Finish
  <2>3. filled' \in [Order -> BOOLEAN]
    BY <1>0, <2>1
  <2>. QED BY <1>0, <2>2, <2>3, IdleJob, QuietStep
<1>6. CASE ConfirmDraftOrder(t)
  BY <1>0, <1>6, TryOK DEF ConfirmDraftOrder, Moves
<1>. QED BY <1>1, <1>2, <1>3, <1>4, <1>5, <1>6 DEF TurnStep

LEMMA ClerkStepOK ==
  ASSUME OInv, NEW k \in Clerk, ClerkStep(k)
  PROVE  OInv'
<1>0. k \in Request /\ k \in Request \ Delivery
  BY OrdersAssumption DEF Request
<1>1. ASSUME NEW o \in Order, Exists(o) PROVE status[o] \in Status
  BY <1>1 DEF Exists, OInv, TypeOK
<1>2. ASSUME NEW o \in Order, ReadForPayment(k, o) PROVE OInv'
  <2>1. /\ Exists(o) /\ Take(k, Doing("pay", o, status[o], jid[o], "paid"))
        /\ UNCHANGED <<rowVars, intents, processed, outbound, events, batch, boundVars>>
    BY <1>2 DEF ReadForPayment
  <2>2. "pay" \in Ops /\ "pay" # "deliver" /\ "paid" \in Status
    BY DEF Ops, Status
  <2>. QED BY <1>0, <1>1, <2>1, <2>2, ReaderOK
<1>3. ASSUME NEW o \in Order, NEW to \in Status, ReadForAdvance(k, o, to) PROVE OInv'
  <2>1. /\ Exists(o) /\ Take(k, Doing("advance", o, status[o], jid[o], to))
        /\ UNCHANGED <<rowVars, intents, processed, outbound, events, batch, boundVars>>
    BY <1>3 DEF ReadForAdvance
  <2>2. "advance" \in Ops /\ "advance" # "deliver"
    BY DEF Ops
  <2>. QED BY <1>0, <1>1, <2>1, <2>2, ReaderOK
<1>4. CASE MarkOrderPaid(k)
  BY <1>0, <1>4, TryOK DEF MarkOrderPaid, Moves
<1>5. CASE AdvanceOrderStatus(k)
  BY <1>0, <1>5, TryOK DEF AdvanceOrderStatus, Moves
<1>. QED BY <1>2, <1>3, <1>4, <1>5 DEF ClerkStep

LEMMA ReceiveOK ==
  ASSUME OInv, NEW d \in Delivery, Receive(d)
  PROVE  OInv'
<1> DEFINE o == Bill[Carries[d]]
<1> DEFINE work == Doing("deliver", o, status[o], jid[o], "paid")
<1>1. d \in Request /\ o \in Order
  BY OrdersAssumption DEF Request
<1>2. /\ Exists(o) /\ job' = [job EXCEPT ![d] = work]
      /\ UNCHANGED <<rowVars, intents, processed, outbound, events, batch, boundVars>>
  BY DEF Receive, Take
<1>3. status[o] \in Status /\ jid[o] \in Jid
  BY <1>1, <1>2 DEF Exists, OInv, TypeOK
<1>4. /\ work \in Job /\ work.op = "deliver" /\ work.order = o /\ work.jid = jid[o]
      /\ work.seen = status[o]
  BY <1>1, <1>3 DEF Doing, Job, Ops, Status
<1> HIDE DEF work
<1>5. job'[d] = work /\ \A q \in Request \ {d} : job'[q] = job[q]
  BY <1>1, <1>2 DEF OInv, TypeOK
<1>6. TypeOK'
  BY <1>1, <1>2, <1>4 DEF OInv, TypeOK, rowVars, boundVars
<1>7. status' = status /\ jid' = jid
  BY <1>2 DEF rowVars
<1>8. JobsOK'
  <2>1. \A r \in Request : job'[r].op \in Moves =>
          /\ job'[r].order \in Order
          /\ Exists(job'[r].order)
          /\ jid[job'[r].order] \in Customer => job'[r].jid = jid[job'[r].order]
    BY <1>1, <1>2, <1>4, <1>5 DEF OInv, JobsOK
  <2>2. \A q \in Delivery : job'[q].op = "deliver" =>
          /\ job'[q].order = Bill[Carries[q]]
          /\ job'[q].seen = "paid" => status[job'[q].order] \in PaidLike
    BY <1>4, <1>5 DEF OInv, JobsOK, Request, PaidLike
  <2>. QED BY <1>7, <2>1, <2>2 DEF JobsOK, Exists
<1>9. SettledIsPaid'
  BY <1>2 DEF OInv, SettledIsPaid, rowVars
<1>. QED BY <1>2, <1>6, <1>8, <1>9, RowsStay DEF OInv, rowVars

LEMMA SettleOK ==
  ASSUME OInv, NEW d \in Delivery, Settle(d)
  PROVE  OInv'
<1> DEFINE o == job[d].order
<1> DEFINE e == Carries[d]
<1>1. /\ d \in Request /\ e \in Event /\ job[d].op = "deliver" /\ "deliver" \in Moves
      /\ events' = events \cup {e} /\ Finish(d)
      /\ UNCHANGED <<processed, outbound, batch, boundVars>>
  BY OrdersAssumption DEF Settle, Request, Moves
<1>2. /\ o \in Order /\ Exists(o) /\ o = Bill[e]
      /\ job[d].seen = "paid" => status[o] \in PaidLike
  BY <1>1 DEF OInv, JobsOK
<1>3. events' \subseteq Event
  BY <1>1 DEF OInv, TypeOK
<1>4. CASE Pays(d)
  <2>1. Transition(o, status[o], "paid", jid[o])
    BY <1>4 DEF Settle
  <2>2. status[o] \in Status /\ jid[o] \in Jid
    BY <1>2 DEF OInv, TypeOK, Exists
  <2>3. \A x \in events' \cap Settling : x \in events \/ (Bill[x] = o /\ "paid" = "paid")
    BY <1>1, <1>2
  <2>. QED BY <1>1, <1>2, <1>3, <2>1, <2>2, <2>3, MoveOK
<1>5. CASE ~Pays(d)
  <2>1. UNCHANGED <<status, jid, filled, audit, intents>>
    BY <1>5 DEF Settle, rowVars
  <2>2. job' = [job EXCEPT ![d] = Idle] /\ job \in [Request -> Job]
    BY <1>1 DEF Finish, Take, OInv, TypeOK
  <2>3. TypeOK'
    BY <1>1, <1>3, <2>1, <2>2, IdleJob DEF OInv, TypeOK, boundVars
  <2>4. JobsOK'
    BY <2>1, <2>2, IdleJob, JobsStay DEF Exists
  <2>5. SettledIsPaid'
    <3>1. e \in Settling => status[Bill[e]] \in PaidLike
      BY <1>2, <1>5 DEF Pays
    <3>. QED BY <1>1, <2>1, <3>1 DEF OInv, SettledIsPaid, PaidLike
  <2>. QED BY <1>1, <2>1, <2>3, <2>4, <2>5, RowsStay DEF OInv
<1>. QED BY <1>4, <1>5

LEMMA DeliveryStepOK ==
  ASSUME OInv, NEW d \in Delivery, DeliveryStep(d)
  PROVE  OInv'
<1>1. CASE Reject(d)
  <2>1. d \in Request
    BY DEF Request
  <2>2. Take(d, Idle) /\ filled' = filled
        /\ UNCHANGED <<status, jid, audit, intents, processed, outbound, events, batch, boundVars>>
    BY <1>1 DEF Reject, Finish, rowVars
  <2>3. filled' \in [Order -> BOOLEAN]
    BY <2>2 DEF OInv, TypeOK
  <2>. QED BY <2>1, <2>2, <2>3, IdleJob, QuietStep
<1>. QED BY <1>1, ReceiveOK, SettleOK DEF DeliveryStep

LEMMA DeleteOK ==
  ASSUME OInv, NEW c \in Customer, DeleteCustomerData(c)
  PROVE  OInv'
<1>1. /\ intents' = {i \in intents : i.jid # c}
      /\ processed' = {i \in processed : i.jid # c}
      /\ outbound' = {i \in outbound : i.jid # c}
      /\ jid' = [o \in Order |-> IF jid[o] = c THEN Deleted ELSE jid[o]]
      /\ filled' = [o \in Order |-> filled[o] /\ jid[o] # c]
      /\ forgets' = forgets + 1 /\ forgets + faults < MaxIncidents
      /\ status' = status /\ audit' = audit /\ events' = events
      /\ job' = job /\ batch' = batch /\ faults' = faults
  BY DEF DeleteCustomerData
<1>2. TypeOK /\ NoticesOK /\ NoticesMatchTrail /\ ProjectedIsSent /\ Deleted \notin Customer
  BY OrdersAssumption DEF OInv
<1>3. \A o \in Order : jid'[o] = IF jid[o] = c THEN Deleted ELSE jid[o]
  BY <1>1
<1>4. TypeOK'
  <2>1. jid' \in [Order -> Jid]
    BY <1>1, <1>2 DEF TypeOK, Jid
  <2>2. forgets' \in 0..MaxIncidents
    BY <1>1, <1>2, OrdersAssumption DEF TypeOK
  <2>3. intents' \subseteq Notice /\ processed' \subseteq intents' /\ outbound' \subseteq Notice
    BY <1>1, <1>2 DEF TypeOK
  <2>. QED BY <1>1, <1>2, <2>1, <2>2, <2>3 DEF TypeOK
<1>5. AuditTrail' /\ RankOK' /\ SettledIsPaid'
  BY <1>1 DEF OInv, AuditTrail, RankOK, SettledIsPaid, Exists, LastStatus
<1>6. \A i \in batch \cup intents \cup outbound : i.order \in Order
  BY <1>2 DEF TypeOK, Notice
<1>7. NoticesOK'
  <2>1. Notices' \subseteq Notices
    BY <1>1 DEF Notices
  <2>2. \A i \in Notices : Tells(i)' <=> Tells(i)
    BY <1>1 DEF Tells
  <2>3. ASSUME NEW i \in batch, i \notin intents' PROVE jid'[i.order] = Deleted
    <3>1. CASE i \notin intents
      BY <1>2, <1>3, <1>6, <3>1 DEF NoticesOK
    <3>2. CASE i \in intents
      <4>1. i.jid = c /\ i.order \in Order
        BY <1>1, <1>6, <2>3, <3>2
      <4>2. jid[i.order] \in Customer => jid[i.order] = c
        BY <1>2, <3>2, <4>1 DEF NoticesMatchTrail
      <4>3. jid[i.order] \in Customer \/ jid[i.order] = Deleted
        BY <1>2, <4>1 DEF TypeOK, Jid
      <4>. QED BY <1>3, <4>1, <4>2, <4>3
    <3>. QED BY <3>1, <3>2
  <2>. QED BY <1>1, <1>2, <2>1, <2>2, <2>3 DEF NoticesOK
<1>8. NoticesMatchTrail'
  <2> SUFFICES ASSUME NEW o \in Order, jid'[o] \in Customer
               PROVE  /\ \A n \in 1..Len(audit[o]) :
                           [order |-> o, status |-> audit[o][n].to, jid |-> jid'[o]] \in intents'
                      /\ \A i \in intents' : i.order = o =>
                           /\ i.jid = jid'[o]
                           /\ \E n \in 1..Len(audit[o]) : audit[o][n].to = i.status
    BY <1>1 DEF NoticesMatchTrail
  <2>1. jid'[o] = jid[o] /\ jid[o] # c /\ jid[o] \in Customer
    BY <1>2, <1>3
  <2>2. ASSUME NEW n \in 1..Len(audit[o])
        PROVE  [order |-> o, status |-> audit[o][n].to, jid |-> jid[o]] \in intents'
    BY <1>1, <1>2, <2>1 DEF NoticesMatchTrail
  <2>. QED BY <1>1, <1>2, <2>1, <2>2 DEF NoticesMatchTrail
<1>9. ProjectedIsSent'
  <2>1. processed' \subseteq outbound'
    BY <1>1, <1>2 DEF ProjectedIsSent
  <2>2. ASSUME NEW m \in outbound' PROVE m \in processed' \/ jid'[m.order] = Deleted
    BY <1>1, <1>2, <1>3, <1>6 DEF ProjectedIsSent
  <2>. QED BY <2>1, <2>2 DEF ProjectedIsSent
<1>10. JobsOK'
  <2>1. \A p \in Order : jid'[p] \in {jid[p], Deleted}
    BY <1>3
  <2>. QED BY <1>1, <2>1, JobsStay DEF Exists
<1>. QED BY <1>4, <1>5, <1>7, <1>8, <1>9, <1>10 DEF OInv

\* A projection: its key in the outbox can only be its own row.
LEMMA ProjectOK ==
  ASSUME OInv, NEW i \in batch, Project(i)
  PROVE  OInv'
<1>1. /\ outbound' = IF SameKey(i) THEN outbound ELSE outbound \cup {i}
      /\ processed' = processed \cup ({i} \cap intents)
      /\ batch' = batch \ {i}
      /\ status' = status /\ jid' = jid /\ filled' = filled /\ audit' = audit
      /\ intents' = intents /\ events' = events /\ job' = job
      /\ forgets' = forgets /\ faults' = faults
  BY DEF Project, Stamped, rowVars, boundVars
<1>2. TypeOK /\ NoticesOK /\ NoticesMatchTrail /\ ProjectedIsSent
  BY DEF OInv
<1>3. SameKey(i) => i \in outbound
  BY <1>2 DEF NoticesOK, SameKey, Notices
<1>4. outbound' = outbound \cup {i}
  BY <1>1, <1>3
<1>5. i \in Notices /\ Notices' \subseteq Notices
  BY <1>1, <1>4 DEF Notices
<1>6. TypeOK'
  BY <1>1, <1>2, <1>4 DEF TypeOK
<1>7. AuditTrail' /\ RankOK' /\ SettledIsPaid' /\ NoticesMatchTrail'
  BY <1>1 DEF OInv, AuditTrail, RankOK, SettledIsPaid, NoticesMatchTrail, Exists, LastStatus
<1>8. NoticesOK'
  <2>1. \A m \in Notices : Tells(m)' <=> Tells(m)
    BY <1>1 DEF Tells
  <2>. QED BY <1>1, <1>2, <1>5, <2>1 DEF NoticesOK
<1>9. ProjectedIsSent'
  <2>1. i \in intents \/ jid[i.order] = Deleted
    BY <1>2 DEF NoticesOK
  <2>. QED BY <1>1, <1>2, <1>4, <2>1 DEF ProjectedIsSent
<1>10. JobsOK'
  BY <1>1, JobsStay DEF Exists
<1>. QED BY <1>6, <1>7, <1>8, <1>9, <1>10 DEF OInv

\* Steps of the worker and of the process that touch its batch only.
LEMMA BatchOK ==
  ASSUME OInv, batch' \subseteq batch \cup intents, forgets' = forgets,
         faults' \in 0..MaxIncidents, job' \in [Request -> Job],
         \A q \in Request : job'[q] = job[q] \/ job'[q].op \notin Moves,
         UNCHANGED <<rowVars, intents, processed, outbound, events>>
  PROVE  OInv'
<1>1. TypeOK'
  <2>1. TypeOK
    BY DEF OInv
  <2>2. batch' \subseteq Notice
    BY <2>1 DEF TypeOK
  <2>. QED BY <2>1, <2>2 DEF TypeOK, rowVars
<1>2. AuditTrail' /\ RankOK' /\ SettledIsPaid' /\ NoticesMatchTrail' /\ ProjectedIsSent'
  <2>1. AuditTrail' /\ RankOK'
    BY DEF OInv, AuditTrail, RankOK, Exists, LastStatus, rowVars
  <2>2. SettledIsPaid'
    BY DEF OInv, SettledIsPaid, rowVars
  <2>3. NoticesMatchTrail' /\ ProjectedIsSent'
    BY DEF OInv, NoticesMatchTrail, ProjectedIsSent, rowVars
  <2>. QED BY <2>1, <2>2, <2>3
<1>3. NoticesOK'
  <2>1. Notices' \subseteq Notices
    BY DEF Notices
  <2>2. \A m \in Notices : Tells(m)' <=> Tells(m)
    BY DEF Tells, rowVars
  <2>. QED BY <2>1, <2>2 DEF OInv, NoticesOK, rowVars
<1>4. JobsOK'
  BY JobsStay DEF Exists, rowVars
<1>. QED BY <1>1, <1>2, <1>3, <1>4 DEF OInv

LEMMA StepOInv == OInv /\ [Next]_vars => OInv'
<1> SUFFICES ASSUME OInv, [Next]_vars PROVE OInv'
  OBVIOUS
<1>0. faults \in 0..MaxIncidents /\ forgets \in 0..MaxIncidents /\ job \in [Request -> Job]
  BY DEF OInv, TypeOK
<1>1. CASE \E t \in Turn : TurnStep(t)
  BY <1>1, TurnStepOK
<1>2. CASE \E k \in Clerk : ClerkStep(k)
  BY <1>2, ClerkStepOK
<1>3. CASE \E d \in Delivery : DeliveryStep(d)
  BY <1>3, DeliveryStepOK
<1>4. CASE \E c \in Customer : DeleteCustomerData(c)
  BY <1>4, DeleteOK
<1>5. CASE ReadIntents
  BY <1>0, <1>5, BatchOK DEF ReadIntents, Pending, boundVars
<1>6. CASE ProjectStep
  <2>1. ASSUME NEW i \in batch, ProjectFails(i) PROVE OInv'
    <3>1. faults' \in 0..MaxIncidents
      BY <1>0, <2>1, OrdersAssumption DEF ProjectFails
    <3>. QED BY <1>0, <2>1, <3>1, BatchOK DEF ProjectFails
  <2>. QED BY <1>6, <2>1, ProjectOK DEF ProjectStep
<1>7. CASE Crash
  <2>1. faults' \in 0..MaxIncidents
    BY <1>0, <1>7, OrdersAssumption DEF Crash
  <2>2. job' \in [Request -> Job] /\ \A q \in Request : job'[q].op \notin Moves
    BY <1>7, IdleJob DEF Crash
  <2>. QED BY <1>7, <2>1, <2>2, BatchOK DEF Crash
<1>8. CASE UNCHANGED vars
  BY <1>0, <1>8, BatchOK DEF vars, rowVars
<1>. QED BY <1>1, <1>2, <1>3, <1>4, <1>5, <1>6, <1>7, <1>8 DEF Next

LEMMA OInvHolds == Spec => []OInv
BY InitOInv, StepOInv, PTL DEF Spec

\* The types of the tables, the requests and the worker.
THEOREM OrdersTypeCorrect == Spec => []TypeOK
<1>1. OInv => TypeOK
  BY DEF OInv
<1>. QED BY <1>1, OInvHolds, PTL

\* Whoever moves an order, and whatever stale row made him do it: the audit
\* events are one path along ORDER_TRANSITIONS that ends in the present status.
THEOREM OrdersLeaveATrail == Spec => []AuditTrail
<1>1. OInv => AuditTrail
  BY DEF OInv
<1>. QED BY <1>1, OInvHolds, PTL

\* A settled payment event stands for an order that was paid.
THEOREM SettledOrdersArePaid == Spec => []SettledIsPaid
<1>1. OInv => SettledIsPaid
  BY DEF OInv
<1>. QED BY <1>1, OInvHolds, PTL

\* Each transition of a customer who was not deleted has its one intent.
THEOREM NoticesTellTheTrail == Spec => []NoticesMatchTrail
<1>1. OInv => NoticesMatchTrail
  BY DEF OInv
<1>. QED BY <1>1, OInvHolds, PTL

\* What is stamped as processed is in the outbox, and the reverse.
THEOREM StampsAreHonest == Spec => []ProjectedIsSent
<1>1. OInv => ProjectedIsSent
  BY DEF OInv
<1>. QED BY <1>1, OInvHolds, PTL

\* The two invariants of the run: orders and payments agree, and customers
\* are told of what happened, and of nothing else.
THEOREM OrdersAlwaysAgree == Spec => []OrdersAgree
BY OrdersLeaveATrail, SettledOrdersArePaid, PTL DEF OrdersAgree

THEOREM CustomersAreAlwaysTold == Spec => []CustomersAreTold
BY NoticesTellTheTrail, StampsAreHonest, PTL DEF CustomersAreTold

-----------------------------------------------------------------------------
(* Recommendations.  A lookup bears out a row of the catalogue, each once  *)
(* (Borne), and what is left to look up was not yet (Looking): a reply is  *)
(* a ranking of the rows borne out, and RecommendationsFit says what it is *)
(* worth.                                                                  *)

(* Of some numbers one is the least.                                       *)
LEMMA LeastNat ==
  ASSUME NEW S \in SUBSET Nat, S # {}
  PROVE  \E i \in S : \A k \in S : i <= k
<1> DEFINE R == OpToRel(<, Nat)
<1>1. IsWellFoundedOn(R, Nat)
  BY NatLessThanWellFounded
<1>2. \A i, k \in Nat : <<i, k>> \in R <=> i < k
  BY DEF OpToRel
<1> HIDE DEF R
<1>3. PICK i \in S : \A k \in S : ~(<<k, i>> \in R)
  BY <1>1, WFMin
<1>4. ASSUME NEW k \in S PROVE i <= k
  <2>1. i \in Nat /\ k \in Nat /\ ~(k < i)
    BY <1>2, <1>3
  <2> QED BY <2>1
<1> QED BY <1>4

(* Keys of n numbers, no two alike.                                        *)
Keyed(S, key, n) ==
  /\ \A x \in S : DOMAIN key[x] = 1..n /\ \A k \in 1..n : key[x][k] \in Int
  /\ \A x, y \in S : x # y => \E k \in 1..n : key[x][k] # key[y][k]

LEMMA SoonerIsStrict ==
  ASSUME NEW n \in Nat, NEW a, NEW b, DOMAIN a = 1..n, DOMAIN b = 1..n,
         \A k \in 1..n : a[k] \in Int /\ b[k] \in Int, Sooner(a, b)
  PROVE  ~Sooner(b, a)
<1>1. PICK i \in 1..n : a[i] < b[i] /\ \A l \in 1..(i - 1) : a[l] = b[l]
  BY DEF Sooner
<1>2. ASSUME NEW j \in 1..n, b[j] < a[j], \A l \in 1..(j - 1) : b[l] = a[l] PROVE FALSE
  <2>1. i < j \/ i = j \/ j < i
    OBVIOUS
  <2>2. i < j => FALSE
    BY <1>1, <1>2
  <2>3. j < i => FALSE
    BY <1>1, <1>2
  <2>4. i = j => FALSE
    BY <1>1, <1>2
  <2> QED BY <2>1, <2>2, <2>3, <2>4
<1> QED BY <1>2 DEF Sooner

LEMMA SoonerIsTransitive ==
  ASSUME NEW n \in Nat, NEW a, NEW b, NEW c, DOMAIN a = 1..n, DOMAIN b = 1..n, DOMAIN c = 1..n,
         \A k \in 1..n : a[k] \in Int /\ b[k] \in Int /\ c[k] \in Int, Sooner(a, b), Sooner(b, c)
  PROVE  Sooner(a, c)
<1>1. PICK i \in 1..n : a[i] < b[i] /\ \A l \in 1..(i - 1) : a[l] = b[l]
  BY DEF Sooner
<1>2. PICK j \in 1..n : b[j] < c[j] /\ \A l \in 1..(j - 1) : b[l] = c[l]
  BY DEF Sooner
<1>3. CASE i <= j
  <2>1. a[i] < c[i]
    <3>1. CASE i = j
      BY <1>1, <1>2, <3>1
    <3>2. CASE i < j
      BY <1>1, <1>2, <3>2
    <3> QED BY <1>3, <3>1, <3>2
  <2>2. \A l \in 1..(i - 1) : a[l] = c[l]
    BY <1>1, <1>2, <1>3
  <2> QED BY <2>1, <2>2 DEF Sooner
<1>4. CASE j < i
  <2>1. a[j] < c[j]
    BY <1>1, <1>2, <1>4
  <2>2. \A l \in 1..(j - 1) : a[l] = c[l]
    BY <1>1, <1>2, <1>4
  <2> QED BY <2>1, <2>2 DEF Sooner
<1> QED BY <1>3, <1>4

LEMMA SoonerIsTotal ==
  ASSUME NEW n \in Nat, NEW a, NEW b, DOMAIN a = 1..n, DOMAIN b = 1..n,
         \A k \in 1..n : a[k] \in Int /\ b[k] \in Int, \E k \in 1..n : a[k] # b[k]
  PROVE  Sooner(a, b) \/ Sooner(b, a)
<1> DEFINE D == {k \in 1..n : a[k] # b[k]}
<1>1. PICK i \in D : \A k \in D : i <= k
  <2>1. D # {} /\ D \in SUBSET Nat
    OBVIOUS
  <2> QED BY <2>1, LeastNat
<1>2. \A l \in 1..(i - 1) : a[l] = b[l]
  <2>1. SUFFICES ASSUME NEW l \in 1..(i - 1), a[l] # b[l] PROVE FALSE
    OBVIOUS
  <2>2. l \in D
    BY <1>1, <2>1
  <2> QED BY <1>1, <2>2
<1>3. a[i] < b[i] \/ b[i] < a[i]
  BY <1>1
<1> QED BY <1>1, <1>2, <1>3 DEF Sooner

(* A set in the order of its keys: each member once, one after the other.  *)
LEMMA SortedSorts ==
  ASSUME NEW S, IsFiniteSet(S), NEW n \in Nat, NEW key, Keyed(S, key, n)
  PROVE  /\ Cardinality(S) \in Nat
         /\ Sorted(S, key) \in [1..Cardinality(S) -> S]
         /\ \A x \in S : \E k \in 1..Cardinality(S) : Sorted(S, key)[k] = x
         /\ \A i, j \in 1..Cardinality(S) : i < j => Sooner(key[Sorted(S, key)[i]], key[Sorted(S, key)[j]])
         /\ \A i, j \in 1..Cardinality(S) : i # j => Sorted(S, key)[i] # Sorted(S, key)[j]
<1> DEFINE N == Cardinality(S)
           Before(x) == {y \in S : Sooner(key[y], key[x])}
           g == [x \in S |-> Cardinality(Before(x)) + 1]
<1>1. N \in Nat
  BY FS_CardinalityType
<1>2. ASSUME NEW x \in S PROVE x \notin Before(x)
  BY SoonerIsStrict DEF Keyed
<1>3. ASSUME NEW x \in S PROVE IsFiniteSet(Before(x)) /\ Cardinality(Before(x)) \in Nat /\ Cardinality(Before(x)) < N
  <2>1. Before(x) \in SUBSET S /\ Before(x) # S
    BY <1>2
  <2>2. IsFiniteSet(Before(x)) /\ Cardinality(Before(x)) <= N /\ Cardinality(Before(x)) # N
    BY <2>1, FS_Subset
  <2>3. Cardinality(Before(x)) \in Nat
    BY <2>2, FS_CardinalityType
  <2> QED BY <1>1, <2>2, <2>3
<1>4. ASSUME NEW x \in S, NEW y \in S, Sooner(key[x], key[y]) PROVE g[x] < g[y]
  <2>1. Before(x) \subseteq Before(y)
    <3>1. SUFFICES ASSUME NEW z \in Before(x) PROVE Sooner(key[z], key[y])
      OBVIOUS
    <3>2. z \in S /\ Sooner(key[z], key[x])
      OBVIOUS
    <3> QED BY <1>4, <3>2, SoonerIsTransitive DEF Keyed
  <2>2. Before(x) # Before(y)
    BY <1>2, <1>4
  <2>3. IsFiniteSet(Before(y)) /\ IsFiniteSet(Before(x))
    BY <1>3
  <2>4. Cardinality(Before(x)) <= Cardinality(Before(y)) /\ Cardinality(Before(x)) # Cardinality(Before(y))
    BY <2>1, <2>2, <2>3, FS_Subset
  <2>5. Cardinality(Before(x)) \in Nat /\ Cardinality(Before(y)) \in Nat
    BY <1>3
  <2>6. g[x] = Cardinality(Before(x)) + 1 /\ g[y] = Cardinality(Before(y)) + 1
    OBVIOUS
  <2> HIDE DEF g, Before
  <2> QED BY <2>4, <2>5, <2>6
<1>5. ASSUME NEW x \in S, NEW y \in S, x # y PROVE Sooner(key[x], key[y]) \/ Sooner(key[y], key[x])
  BY <1>5, SoonerIsTotal DEF Keyed
<1>6. g \in [S -> 1..N]
  BY <1>1, <1>3
<1>7. \A x, y \in S : g[x] = g[y] => x = y
  <2>1. SUFFICES ASSUME NEW x \in S, NEW y \in S, x # y PROVE g[x] # g[y]
    OBVIOUS
  <2>2. g[x] \in 1..N /\ g[y] \in 1..N
    BY <1>6
  <2> QED BY <1>1, <1>4, <1>5, <2>1, <2>2
<1>8. g \in Surjection(S, 1..N)
  <2>1. g \in Injection(S, 1..N)
    BY <1>6, <1>7 DEF Injection, IsInjective
  <2>2. IsFiniteSet(1..N) /\ Cardinality(1..N) = N
    BY <1>1, FS_Interval
  <2> QED BY <2>1, <2>2, FS_Injection
<1>9. ASSUME NEW k \in 1..N PROVE Sorted(S, key)[k] \in S /\ g[Sorted(S, key)[k]] = k
  <2>1. PICK x \in S : g[x] = k
    BY <1>8 DEF Surjection
  <2>2. x \in S /\ Cardinality({y \in S : Sooner(key[y], key[x])}) = k - 1
    BY <1>3, <2>1
  <2>3. Sorted(S, key)[k] = CHOOSE x_1 \in S : Cardinality({y \in S : Sooner(key[y], key[x_1])}) = k - 1
    BY DEF Sorted
  <2>4. Sorted(S, key)[k] \in S /\ Cardinality({y \in S : Sooner(key[y], key[Sorted(S, key)[k]])}) = k - 1
    BY <2>2, <2>3
  <2> QED BY <1>1, <2>4
<1> HIDE DEF g
<1>10. Sorted(S, key) \in [1..N -> S]
  <2> DEFINE picked(k) == CHOOSE x \in S : Cardinality({y \in S : Sooner(key[y], key[x])}) = k - 1
  <2>1. Sorted(S, key) = [k \in 1..N |-> picked(k)]
    BY DEF Sorted
  <2> HIDE DEF picked
  <2>2. \A k \in 1..N : picked(k) = Sorted(S, key)[k]
    BY <2>1
  <2> QED BY <1>9, <2>1, <2>2
<1>11. \A x \in S : \E k \in 1..N : Sorted(S, key)[k] = x
  <2>1. SUFFICES ASSUME NEW x \in S PROVE \E k \in 1..N : Sorted(S, key)[k] = x
    OBVIOUS
  <2>2. g[x] \in 1..N
    BY <1>6
  <2>3. Sorted(S, key)[g[x]] = x
    BY <1>7, <1>9, <2>2
  <2> QED BY <2>2, <2>3
<1>12. ASSUME NEW i \in 1..N, NEW j \in 1..N, i # j PROVE Sorted(S, key)[i] # Sorted(S, key)[j]
  BY <1>9, <1>12
<1>13. ASSUME NEW i \in 1..N, NEW j \in 1..N, i < j PROVE Sooner(key[Sorted(S, key)[i]], key[Sorted(S, key)[j]])
  <2>1. Sorted(S, key)[i] \in S /\ g[Sorted(S, key)[i]] = i /\ Sorted(S, key)[j] \in S /\ g[Sorted(S, key)[j]] = j
    BY <1>9
  <2>2. ~Sooner(key[Sorted(S, key)[j]], key[Sorted(S, key)[i]])
    <3>1. SUFFICES ASSUME Sooner(key[Sorted(S, key)[j]], key[Sorted(S, key)[i]]) PROVE FALSE
      OBVIOUS
    <3>2. g[Sorted(S, key)[j]] < g[Sorted(S, key)[i]]
      BY <1>4, <2>1, <3>1
    <3> QED BY <1>13, <2>1, <3>2
  <2>3. Sorted(S, key)[i] # Sorted(S, key)[j]
    BY <1>13, <2>1
  <2> QED BY <1>5, <2>1, <2>2, <2>3
<1> QED BY <1>1, <1>10, <1>11, <1>12, <1>13

(* No two places of a sequence hold the same.                              *)
Distinct(s) == \A i, j \in DOMAIN s : i # j => s[i] # s[j]

LEMMA SortedIsSeq ==
  ASSUME NEW S, IsFiniteSet(S), NEW n \in Nat, NEW key, Keyed(S, key, n)
  PROVE  /\ Sorted(S, key) \in Seq(S) /\ Len(Sorted(S, key)) = Cardinality(S) /\ Distinct(Sorted(S, key))
         /\ \A x \in S : \E k \in 1..Len(Sorted(S, key)) : Sorted(S, key)[k] = x
         /\ \A i, j \in 1..Len(Sorted(S, key)) : i < j => Sooner(key[Sorted(S, key)[i]], key[Sorted(S, key)[j]])
<1> DEFINE s == Sorted(S, key)
<1>1. /\ Cardinality(S) \in Nat /\ s \in [1..Cardinality(S) -> S]
      /\ \A x \in S : \E k \in 1..Cardinality(S) : s[k] = x
      /\ \A i, j \in 1..Cardinality(S) : i < j => Sooner(key[s[i]], key[s[j]])
      /\ \A i, j \in 1..Cardinality(S) : i # j => s[i] # s[j]
  BY SortedSorts
<1> HIDE DEF s
<1>2. s \in Seq(S) /\ Len(s) = Cardinality(S) /\ DOMAIN s = 1..Cardinality(S)
  BY <1>1
<1>3. Distinct(s)
  BY <1>1, <1>2 DEF Distinct
<1> QED BY <1>1, <1>2, <1>3 DEF s

LEMMA SortedFirst ==
  ASSUME NEW S, IsFiniteSet(S), NEW n \in Nat, NEW key, Keyed(S, key, n), S # {}
  PROVE  /\ Sorted(S, key)[1] \in S
         /\ \A x \in S : x = Sorted(S, key)[1] \/ Sooner(key[Sorted(S, key)[1]], key[x])
<1> DEFINE s == Sorted(S, key)
<1>1. /\ s \in Seq(S) /\ \A x \in S : \E k \in 1..Len(s) : s[k] = x
      /\ \A i, j \in 1..Len(s) : i < j => Sooner(key[s[i]], key[s[j]])
  BY SortedIsSeq
<1> HIDE DEF s
<1>2. 1 \in 1..Len(s)
  BY <1>1
<1>3. s[1] \in S
  BY <1>1, <1>2
<1>4. ASSUME NEW x \in S PROVE x = s[1] \/ Sooner(key[s[1]], key[x])
  <2>1. PICK k \in 1..Len(s) : s[k] = x
    BY <1>1
  <2>2. k = 1 \/ 1 < k
    BY <2>1
  <2> QED BY <1>1, <1>2, <2>1, <2>2
<1> QED BY <1>3, <1>4 DEF s

LEMMA ShortenedFits ==
  ASSUME NEW T, NEW s \in Seq(T), NEW n \in Nat
  PROVE  /\ Shortened(s, n) \in Seq(T)
         /\ Len(Shortened(s, n)) = IF Len(s) < n THEN Len(s) ELSE n
         /\ \A i \in 1..Len(Shortened(s, n)) : i \in 1..Len(s) /\ Shortened(s, n)[i] = s[i]
<1> DEFINE m == IF Len(s) < n THEN Len(s) ELSE n
<1>1. m \in 0..Len(s)
  OBVIOUS
<1> HIDE DEF m
<1>2. /\ SubSeq(s, 1, m) \in Seq(T) /\ Len(SubSeq(s, 1, m)) = m
      /\ \A i \in 1..m : SubSeq(s, 1, m)[i] = s[i]
  BY <1>1, SubSeqProperties
<1>3. Shortened(s, n) = SubSeq(s, 1, m)
  BY DEF Shortened, m
<1> QED BY <1>1, <1>2, <1>3 DEF m

LEMMA RowsAreNumbers == IsFiniteSet(Row) /\ Row \subseteq Nat
<1>1. Row = 1..Len(Rows) /\ Len(Rows) \in Nat
  BY RecommendationsAssumption DEF Row
<1> QED BY <1>1, FS_Interval

LEMMA RowsAreNamed ==
  ASSUME NEW r \in Row
  PROVE  Rows[r].mix \in Int /\ Rows[r].perfume \in Int
<1> DEFINE Shape == [perfume : Int, mix : Int, family : STRING, hints : SUBSET STRING, sweet : BOOLEAN]
<1>1. Rows \in Seq(Shape)
  BY RecommendationsAssumption
<1> HIDE DEF Shape
<1>2. Rows[r] \in Shape
  BY <1>1 DEF Row
<1> QED BY <1>2 DEF Shape

LEMMA ScoreIsNat ==
  ASSUME NEW r, NEW q, q.families \in Seq(STRING)
  PROVE  FamilyScore(r, q) \in Nat
<1> DEFINE I == {i \in 1..Len(q.families) : q.families[i] = Rows[r].family}
           at == IF I # {} THEN CHOOSE x \in I : \A y \in I : x <= y ELSE 0
<1>1. at \in 0..Len(q.families)
  <2>1. CASE I = {}
    BY <2>1
  <2>2. CASE I # {}
    <3>1. I \in SUBSET Nat
      OBVIOUS
    <3>2. \E x \in I : \A y \in I : x <= y
      BY <2>2, <3>1, LeastNat
    <3>3. at \in I
      BY <2>2, <3>2
    <3> QED BY <3>3
  <2> QED BY <2>1, <2>2
<1>2. FamilyScore(r, q) = IF at = 0 THEN 0 ELSE Len(q.families) - at + 1
  BY DEF FamilyScore, SelectInSeq, Min
<1> HIDE DEF at
<1> QED BY <1>1, <1>2

LEMMA NameScoreIsInt ==
  ASSUME NEW r, NEW a
  PROVE  NameScore(r, a) \in Int
BY DEF NameScore

LEMMA CandidatesFit ==
  ASSUME NEW from \in SUBSET Row, NEW q, q.families \in Seq(STRING)
  PROVE  Candidates(from, q) \in Seq(from) /\ Distinct(Candidates(from, q))
<1> DEFINE suited == {r \in from : FamilyScore(r, q) > 0}
           key == [r \in suited |-> <<-FamilyScore(r, q), r>>]
           s == Sorted(suited, key)
<1>1. IsFiniteSet(suited) /\ suited \subseteq Nat /\ suited \subseteq from
  <2>1. suited \in SUBSET Row
    OBVIOUS
  <2> QED BY <2>1, RowsAreNumbers, FS_Subset
<1>2. Keyed(suited, key, 2)
  <2>1. ASSUME NEW x \in suited
        PROVE  key[x] = <<-FamilyScore(x, q), x>> /\ DOMAIN key[x] = 1..2 /\ key[x][1] \in Int /\ key[x][2] = x /\ x \in Int
    BY <1>1, ScoreIsNat
  <2> HIDE DEF key
  <2>2. ASSUME NEW x \in suited PROVE \A k \in 1..2 : key[x][k] \in Int
    BY <2>1
  <2>3. ASSUME NEW x \in suited, NEW y \in suited, x # y PROVE key[x][2] # key[y][2]
    BY <2>1, <2>3
  <2> QED BY <2>1, <2>2, <2>3 DEF Keyed
<1> HIDE DEF key
<1>3. s \in Seq(suited) /\ Distinct(s)
  BY <1>1, <1>2, SortedIsSeq
<1>4. Candidates(from, q) = Shortened(s, MaxCandidates)
  BY DEF Candidates, key
<1> HIDE DEF s, suited
<1>5. MaxCandidates \in Nat
  BY RecommendationsAssumption
<1>6. /\ Shortened(s, MaxCandidates) \in Seq(suited)
      /\ \A i \in 1..Len(Shortened(s, MaxCandidates)) : i \in 1..Len(s) /\ Shortened(s, MaxCandidates)[i] = s[i]
  BY <1>3, <1>5, ShortenedFits
<1>7. Shortened(s, MaxCandidates) \in Seq(from)
  BY <1>1, <1>6, SeqMonotonic
<1> QED BY <1>3, <1>4, <1>6, <1>7 DEF Distinct

LEMMA LookupOrderFits ==
  ASSUME NEW from \in SUBSET Row, NEW q, q.families \in Seq(STRING)
  PROVE  LookupOrder(from, q) \in Seq(from) /\ Distinct(LookupOrder(from, q))
<1> DEFINE candidates == Candidates(from, q)
           kept == {i \in DOMAIN candidates : q.dry => ~Rows[candidates[i]].sweet}
           key == [i \in kept |-> <<-NameScore(candidates[i], q.audiences), i>>]
           order == Sorted(kept, key)
<1>1. candidates \in Seq(from) /\ Distinct(candidates)
  BY CandidatesFit
<1> HIDE DEF candidates
<1>2. IsFiniteSet(kept) /\ kept \subseteq DOMAIN candidates /\ kept \subseteq Nat
  <2>1. DOMAIN candidates = 1..Len(candidates) /\ Len(candidates) \in Nat
    BY <1>1
  <2>2. kept \in SUBSET (1..Len(candidates))
    BY <2>1
  <2>3. IsFiniteSet(1..Len(candidates))
    BY <2>1, FS_Interval
  <2>4. IsFiniteSet(kept)
    BY <2>2, <2>3, FS_Subset
  <2> HIDE DEF kept
  <2> QED BY <2>1, <2>2, <2>4
<1>3. Keyed(kept, key, 2)
  <2>1. ASSUME NEW x \in kept
        PROVE  key[x] = <<-NameScore(candidates[x], q.audiences), x>> /\ DOMAIN key[x] = 1..2 /\ key[x][1] \in Int /\ key[x][2] = x /\ x \in Int
    BY <1>2, NameScoreIsInt
  <2> HIDE DEF key
  <2>2. ASSUME NEW x \in kept PROVE \A k \in 1..2 : key[x][k] \in Int
    BY <2>1
  <2>3. ASSUME NEW x \in kept, NEW y \in kept, x # y PROVE key[x][2] # key[y][2]
    BY <2>1, <2>3
  <2> QED BY <2>1, <2>2, <2>3 DEF Keyed
<1> HIDE DEF key
<1>4. order \in Seq(kept) /\ Distinct(order)
  BY <1>2, <1>3, SortedIsSeq
<1>5. LookupOrder(from, q) = [k \in DOMAIN order |-> candidates[order[k]]]
  BY DEF LookupOrder, candidates, key
<1> HIDE DEF order, kept
<1>6. ASSUME NEW k \in DOMAIN order PROVE order[k] \in DOMAIN candidates /\ candidates[order[k]] \in from
  BY <1>1, <1>2, <1>4
<1>7. LookupOrder(from, q) \in Seq(from)
  BY <1>4, <1>5, <1>6
<1>8. Distinct(LookupOrder(from, q))
  BY <1>1, <1>4, <1>5, <1>6 DEF Distinct
<1> QED BY <1>7, <1>8

LEMMA ResolvedFits ==
  ASSUME NEW from \in SUBSET Row, NEW q, IsFiniteSet(q.said)
  PROVE  Resolved(from, q) \in Seq(from) /\ Len(Resolved(from, q)) <= 1 /\ Distinct(Resolved(from, q))
<1> DEFINE longest == LongestNamed(from, q)
           found == {x[1] : x \in longest}
           S == IF q.kind = "detail" THEN found ELSE longest
<1>1. found \subseteq from
  BY DEF LongestNamed
<1>2. CASE Cardinality(S) = 1
  <2>1. IsFiniteSet(found)
    BY <1>1, RowsAreNumbers, FS_Subset
  <2>2. Cardinality(found) = 1
    <3>1. CASE q.kind = "detail"
      BY <1>2, <3>1
    <3>2. CASE q.kind # "detail"
      <4>1. Cardinality(longest) = 1
        BY <1>2, <3>2
      <4>2. longest \in SUBSET (from \X q.said)
        BY DEF LongestNamed
      <4>3. IsFiniteSet(from)
        BY RowsAreNumbers, FS_Subset
      <4>4. IsFiniteSet(from \X q.said)
        BY <4>3, FS_Product
      <4>5. IsFiniteSet(longest)
        BY <4>2, <4>4, FS_Subset
      <4>6. PICK x : longest = {x}
        BY <4>1, <4>5, FS_Singleton
      <4>7. found = {x[1]}
        BY <4>6
      <4> QED BY <4>7, FS_Singleton
    <3> QED BY <3>1, <3>2
  <2>3. PICK r : found = {r}
    BY <2>1, <2>2, FS_Singleton
  <2> DEFINE f == [i \in 1..1 |-> r]
  <2>4. f \in [1..1 -> found] /\ IsInjective(f)
    BY <2>3 DEF IsInjective
  <2>5. Resolved(from, q) \in [1..1 -> found]
    BY <1>2, <2>2, <2>4 DEF Resolved, SetToSeq
  <2>6. r \in from
    BY <1>1, <2>3
  <2> HIDE DEF found, longest, S, f
  <2>7. DOMAIN Resolved(from, q) = 1..1 /\ Resolved(from, q) \in [1..1 -> from]
    BY <2>3, <2>5, <2>6
  <2>8. Resolved(from, q) \in Seq(from) /\ Len(Resolved(from, q)) = 1
    <3> DEFINE z == Resolved(from, q)
    <3>1. z \in [1..1 -> from]
      BY <2>7
    <3> HIDE DEF z
    <3>2. z \in Seq(from)
      BY <3>1, SeqDef
    <3>3. Len(z) \in Nat /\ DOMAIN z = 1..Len(z)
      BY <3>2, LenProperties
    <3>4. Len(z) = 1
      BY <3>1, <3>3
    <3> QED BY <3>2, <3>4 DEF z
  <2>9. Distinct(Resolved(from, q))
    BY <2>7 DEF Distinct
  <2> QED BY <2>8, <2>9
<1>3. CASE Cardinality(S) # 1
  <2>1. Resolved(from, q) = << >>
    BY <1>3 DEF Resolved
  <2> QED BY <2>1 DEF Distinct
<1> QED BY <1>2, <1>3

LEMMA SoonerAtFirst ==
  ASSUME NEW n \in Nat, NEW a, NEW b, DOMAIN a = 1..n, DOMAIN b = 1..n,
         \A k \in 1..n : a[k] \in Int /\ b[k] \in Int, Sooner(a, b)
  PROVE  a[1] <= b[1]
<1>1. PICK i \in 1..n : a[i] < b[i] /\ \A l \in 1..(i - 1) : a[l] = b[l]
  BY DEF Sooner
<1>2. a[1] \in Int /\ b[1] \in Int
  OBVIOUS
<1>3. i = 1 \/ 1 \in 1..(i - 1)
  OBVIOUS
<1>4. CASE i = 1
  BY <1>1, <1>2, <1>4
<1>5. CASE 1 \in 1..(i - 1)
  BY <1>1, <1>2, <1>5
<1> QED BY <1>3, <1>4, <1>5

(* The rows to look up are of the catalogue, each once.                    *)
LEMMA ToLookUpFits ==
  ASSUME NEW from \in SUBSET Row, NEW q \in Needs
  PROVE  ToLookUp(from, q) \in Seq(from) /\ Distinct(ToLookUp(from, q))
<1>1. /\ q.families \in Seq(STRING) /\ IsFiniteSet(q.said)
      /\ LookupLimit(q) \in Nat /\ q.kind \in {"recommend", "match", "detail", "fit"}
  BY RecommendationsAssumption DEF LookupLimit
<1>2. << >> \in Seq(from) /\ Distinct(<< >>)
  BY DEF Distinct
<1>3. CASE q.kind = "recommend"
  <2> DEFINE s == LookupOrder(from, q)
  <2>1. s \in Seq(from) /\ Distinct(s)
    BY <1>1, LookupOrderFits
  <2> HIDE DEF s
  <2>2. /\ Shortened(s, LookupLimit(q)) \in Seq(from)
        /\ \A i \in 1..Len(Shortened(s, LookupLimit(q))) : i \in 1..Len(s) /\ Shortened(s, LookupLimit(q))[i] = s[i]
    BY <1>1, <2>1, ShortenedFits
  <2>3. Distinct(Shortened(s, LookupLimit(q)))
    BY <2>1, <2>2 DEF Distinct
  <2>4. ToLookUp(from, q) = IF q.online THEN Shortened(s, LookupLimit(q)) ELSE << >>
    BY <1>3 DEF ToLookUp, s
  <2> QED BY <1>2, <2>2, <2>3, <2>4
<1>4. CASE q.kind = "match"
  BY <1>1, <1>4, CandidatesFit DEF ToLookUp
<1>5. CASE q.kind \in {"detail", "fit"}
  <2>1. ToLookUp(from, q) = IF q.online THEN Resolved(from, q) ELSE << >>
    BY <1>5 DEF ToLookUp
  <2> QED BY <1>1, <1>2, <2>1, ResolvedFits
<1> QED BY <1>1, <1>3, <1>4, <1>5

Hits ==
  [about : BOOLEAN, notes : SUBSET STRING, families : SUBSET STRING,
   audiences : SUBSET STRING, qualities : SUBSET STRING, score : Int]
Noted(from) == [row : from, ref : Hits, notes : Nat, overlap : Nat, audience : 0..2]

(* Evidence is a hit that meets what is asked of it.                       *)
LEMMA EvidenceMeets ==
  ASSUME NEW page \in Pages, NEW a, NEW u, Evidence(page, a, u) # Nothing
  PROVE  /\ Evidence(page, a, u) \in Hits
         /\ Compatible(a, Evidence(page, a, u).audiences) /\ u \subseteq Evidence(page, a, u).qualities
<1> DEFINE met == {i \in DOMAIN page : /\ page[i].about
                                       /\ Compatible(a, page[i].audiences)
                                       /\ u \subseteq page[i].qualities}
           worth(i) == page[i].score + (IF a # {} /\ a \subseteq page[i].audiences THEN 4 ELSE 0)
           key == [i \in met |-> <<-worth(i), i>>]
<1>1. page \in Seq(Hits)
  BY RecommendationsAssumption DEF Hits
<1>2. IsFiniteSet(met) /\ met \subseteq 1..Len(page) /\ Len(page) \in Nat
  <2>1. DOMAIN page = 1..Len(page) /\ Len(page) \in Nat
    BY <1>1
  <2>2. IsFiniteSet(1..Len(page)) /\ met \in SUBSET (1..Len(page))
    BY <2>1, FS_Interval
  <2>3. IsFiniteSet(met)
    BY <2>2, FS_Subset
  <2> HIDE DEF met
  <2> QED BY <2>1, <2>2, <2>3
<1>3. Keyed(met, key, 2)
  <2>1. ASSUME NEW x \in met
        PROVE  key[x] = <<-worth(x), x>> /\ DOMAIN key[x] = 1..2 /\ key[x][1] \in Int /\ key[x][2] = x /\ x \in Int
    <3>1. page[x].score \in Int /\ x \in Int
      <4>1. x \in 1..Len(page)
        BY <1>2
      <4>2. page[x] \in Hits /\ x \in Int
        BY <1>1, <1>2, <4>1
      <4> QED BY <4>2 DEF Hits
    <3>2. worth(x) \in Int
      BY <3>1
    <3> HIDE DEF worth, met
    <3> QED BY <3>1, <3>2
  <2> HIDE DEF key, met
  <2>2. ASSUME NEW x \in met PROVE \A k \in 1..2 : key[x][k] \in Int
    BY <2>1
  <2>3. ASSUME NEW x \in met, NEW y \in met, x # y PROVE key[x][2] # key[y][2]
    BY <2>1, <2>3
  <2> QED BY <2>1, <2>2, <2>3 DEF Keyed
<1> HIDE DEF key
<1>4. Evidence(page, a, u) = IF met = {} THEN Nothing ELSE page[Sorted(met, key)[1]]
  BY DEF Evidence, key
<1>5. met # {}
  BY <1>4
<1>6. Sorted(met, key)[1] \in met
  BY <1>2, <1>3, <1>5, SortedFirst
<1>7. Evidence(page, a, u) = page[Sorted(met, key)[1]]
  BY <1>4, <1>5
<1> DEFINE best == Sorted(met, key)[1]
<1> HIDE DEF best
<1>8. page[best] \in Hits
  <2>1. best \in met
    BY <1>6 DEF best
  <2> HIDE DEF met
  <2> QED BY <1>1, <1>2, <2>1
<1> QED BY <1>6, <1>7, <1>8 DEF best

LEMMA InspectionIsNoted ==
  ASSUME NEW from, NEW r \in from, NEW ref \in Hits, NEW q \in Needs
  PROVE  Inspection(r, ref, q) \in Noted(from)
<1>1. IsFiniteSet(q.notes) /\ q.families \in Seq(STRING)
  BY RecommendationsAssumption
<1>2. Cardinality(q.notes \cap ref.notes) \in Nat
  <2>1. IsFiniteSet(q.notes \cap ref.notes)
    BY <1>1, FS_Subset
  <2> QED BY <2>1, FS_CardinalityType
<1>3. Cardinality(ToSet(q.families) \cap ref.families) \in Nat
  <2>1. IsFiniteSet(ToSet(q.families))
    <3>1. IsFiniteSet(1..Len(q.families)) /\ DOMAIN q.families = 1..Len(q.families)
      BY <1>1, FS_Interval
    <3> DEFINE f == [i \in 1..Len(q.families) |-> q.families[i]]
    <3>2. f \in Surjection(1..Len(q.families), ToSet(q.families))
      BY <3>1 DEF Surjection, ToSet
    <3> QED BY <3>1, <3>2, FS_Surjection
  <2>2. IsFiniteSet(ToSet(q.families) \cap ref.families)
    BY <2>1, FS_Subset
  <2> QED BY <2>2, FS_CardinalityType
<1> DEFINE notes == Cardinality(q.notes \cap ref.notes)
           overlap == Cardinality(ToSet(q.families) \cap ref.families)
           audience == IF q.audiences = {} \/ ref.audiences = {} THEN 0
                       ELSE IF q.audiences \subseteq ref.audiences THEN 2 ELSE 1
<1>4. audience \in 0..2
  OBVIOUS
<1>5. Inspection(r, ref, q) = [row |-> r, ref |-> ref, notes |-> notes, overlap |-> overlap, audience |-> audience]
  BY DEF Inspection
<1> HIDE DEF notes, overlap, audience
<1> QED BY <1>2, <1>3, <1>4, <1>5 DEF Noted, notes, overlap

LEMMA FiveNumbers ==
  ASSUME NEW a \in Int, NEW b \in Int, NEW c \in Int, NEW d \in Int, NEW e \in Int
  PROVE  /\ DOMAIN <<a, b, c, d, e>> = 1..5 /\ \A k \in 1..5 : <<a, b, c, d, e>>[k] \in Int
         /\ <<a, b, c, d, e>>[1] = a /\ <<a, b, c, d, e>>[5] = e
<1>1. \A k \in 1..5 : k = 1 \/ k = 2 \/ k = 3 \/ k = 4 \/ k = 5
  OBVIOUS
<1>2. DOMAIN <<a, b, c, d, e>> = 1..5
  OBVIOUS
<1> QED BY <1>1, <1>2

(* Ranking keeps every inspection, and puts the best first.                *)
LEMMA RankedFits ==
  ASSUME NEW from \in SUBSET Row, NEW q, q.families \in Seq(STRING), NEW seen \in Seq(Noted(from)),
         \A i, j \in DOMAIN seen : i # j => seen[i].row # seen[j].row
  PROVE  /\ Ranked(seen, q) \in Seq(Noted(from)) /\ Len(Ranked(seen, q)) = Len(seen)
         /\ \A i \in DOMAIN Ranked(seen, q) : \E k \in DOMAIN seen : Ranked(seen, q)[i] = seen[k]
         /\ \A k \in DOMAIN seen : \E i \in DOMAIN Ranked(seen, q) : Ranked(seen, q)[i] = seen[k]
         /\ \A i, j \in DOMAIN Ranked(seen, q) : i # j => Ranked(seen, q)[i].row # Ranked(seen, q)[j].row
         /\ \A i, j \in DOMAIN Ranked(seen, q) : i < j =>
              IF q.kind = "match" THEN Ranked(seen, q)[j].notes <= Ranked(seen, q)[i].notes
              ELSE Ranked(seen, q)[j].overlap <= Ranked(seen, q)[i].overlap
<1> DEFINE score(i) == FamilyScore(seen[i].row, q)
           key(i) == IF q.kind = "match" THEN <<-seen[i].notes, -seen[i].overlap, -score(i), Rows[seen[i].row].mix, i>>
                     ELSE <<-seen[i].overlap, -seen[i].audience, -score(i), Rows[seen[i].row].perfume, i>>
           keys == [i \in DOMAIN seen |-> key(i)]
           order == Sorted(DOMAIN seen, keys)
           z == Ranked(seen, q)
<1>1. DOMAIN seen = 1..Len(seen) /\ Len(seen) \in Nat /\ IsFiniteSet(DOMAIN seen) /\ Cardinality(DOMAIN seen) = Len(seen)
  BY FS_Interval
<1>2. ASSUME NEW i \in DOMAIN seen
      PROVE  /\ seen[i].row \in from /\ seen[i].notes \in Nat /\ seen[i].overlap \in Nat /\ seen[i].audience \in 0..2
             /\ score(i) \in Nat /\ i \in Nat
             /\ Rows[seen[i].row].mix \in Int /\ Rows[seen[i].row].perfume \in Int
  <2>1. seen[i] \in Noted(from) /\ i \in Nat
    BY <1>1
  <2>2. /\ seen[i].row \in from /\ seen[i].notes \in Nat /\ seen[i].overlap \in Nat /\ seen[i].audience \in 0..2
    BY <2>1 DEF Noted
  <2>4. Rows[seen[i].row].mix \in Int /\ Rows[seen[i].row].perfume \in Int
    BY <2>2, RowsAreNamed
  <2>5. score(i) \in Nat
    BY ScoreIsNat
  <2> QED BY <2>1, <2>2, <2>4, <2>5
<1>3. ASSUME NEW i \in DOMAIN seen
      PROVE  /\ DOMAIN keys[i] = 1..5 /\ \A k \in 1..5 : keys[i][k] \in Int
             /\ keys[i][5] = i
             /\ keys[i][1] = IF q.kind = "match" THEN -seen[i].notes ELSE -seen[i].overlap
  <2> HIDE DEF score
  <2>1. keys[i] = key(i)
    OBVIOUS
  <2>2. CASE q.kind = "match"
    <3>1. keys[i] = <<-seen[i].notes, -seen[i].overlap, -score(i), Rows[seen[i].row].mix, i>>
      BY <2>1, <2>2
    <3>2. -seen[i].notes \in Int /\ -seen[i].overlap \in Int /\ -score(i) \in Int /\ i \in Int
      BY <1>2
    <3> QED BY <1>2, <2>2, <3>1, <3>2, FiveNumbers
  <2>3. CASE q.kind # "match"
    <3>1. keys[i] = <<-seen[i].overlap, -seen[i].audience, -score(i), Rows[seen[i].row].perfume, i>>
      BY <2>1, <2>3
    <3>2. -seen[i].overlap \in Int /\ -seen[i].audience \in Int /\ -score(i) \in Int /\ i \in Int
      BY <1>2
    <3> QED BY <1>2, <2>3, <3>1, <3>2, FiveNumbers
  <2> QED BY <2>2, <2>3
<1> HIDE DEF keys
<1>4. Keyed(DOMAIN seen, keys, 5)
  BY <1>3 DEF Keyed
<1>5. /\ order \in Seq(DOMAIN seen) /\ Len(order) = Len(seen) /\ Distinct(order)
      /\ \A k \in DOMAIN seen : \E i \in 1..Len(order) : order[i] = k
      /\ \A i, j \in 1..Len(order) : i < j => Sooner(keys[order[i]], keys[order[j]])
  <2> DEFINE S == DOMAIN seen
  <2>1. IsFiniteSet(S) /\ Keyed(S, keys, 5) /\ Cardinality(S) = Len(seen)
    BY <1>1, <1>4
  <2> HIDE DEF S
  <2>2. /\ Sorted(S, keys) \in Seq(S) /\ Len(Sorted(S, keys)) = Cardinality(S) /\ Distinct(Sorted(S, keys))
        /\ \A x \in S : \E k \in 1..Len(Sorted(S, keys)) : Sorted(S, keys)[k] = x
        /\ \A i, j \in 1..Len(Sorted(S, keys)) : i < j => Sooner(keys[Sorted(S, keys)[i]], keys[Sorted(S, keys)[j]])
    BY <2>1, SortedIsSeq
  <2> QED BY <2>1, <2>2 DEF S
<1>6. z = [k \in DOMAIN order |-> seen[order[k]]]
  BY DEF Ranked, keys
<1> HIDE DEF order, z, key, score
<1>7. DOMAIN order = 1..Len(seen) /\ \A k \in 1..Len(seen) : order[k] \in DOMAIN seen /\ z[k] = seen[order[k]]
  BY <1>1, <1>5, <1>6
<1>8. z \in Seq(Noted(from)) /\ Len(z) = Len(seen) /\ DOMAIN z = 1..Len(seen)
  <2>1. \A k \in 1..Len(seen) : seen[order[k]] \in Noted(from)
    BY <1>7
  <2> QED BY <1>1, <1>6, <1>7, <2>1
<1>9. \A i \in DOMAIN z : \E k \in DOMAIN seen : z[i] = seen[k]
  BY <1>7, <1>8
<1>10. \A k \in DOMAIN seen : \E i \in DOMAIN z : z[i] = seen[k]
  <2>1. SUFFICES ASSUME NEW k \in DOMAIN seen PROVE \E i \in DOMAIN z : z[i] = seen[k]
    OBVIOUS
  <2>2. PICK i \in 1..Len(order) : order[i] = k
    BY <1>5
  <2>3. i \in DOMAIN z /\ i \in 1..Len(seen)
    BY <1>5, <1>8
  <2> QED BY <1>7, <2>2, <2>3
<1>11. ASSUME NEW i \in DOMAIN z, NEW j \in DOMAIN z, i # j PROVE z[i].row # z[j].row
  <2>1. order[i] # order[j]
    BY <1>5, <1>7, <1>8, <1>11 DEF Distinct
  <2> QED BY <1>7, <1>8, <2>1
<1>12. ASSUME NEW i \in DOMAIN z, NEW j \in DOMAIN z, i < j
       PROVE  IF q.kind = "match" THEN z[j].notes <= z[i].notes ELSE z[j].overlap <= z[i].overlap
  <2>1. order[i] \in DOMAIN seen /\ order[j] \in DOMAIN seen /\ z[i] = seen[order[i]] /\ z[j] = seen[order[j]]
    BY <1>7, <1>8
  <2>2. Sooner(keys[order[i]], keys[order[j]])
    BY <1>5, <1>8, <1>12
  <2>3. keys[order[i]][1] <= keys[order[j]][1]
    BY <1>3, <2>1, <2>2, SoonerAtFirst
  <2>4. CASE q.kind = "match"
    <3>1. keys[order[i]][1] = -z[i].notes /\ keys[order[j]][1] = -z[j].notes /\ z[i].notes \in Nat /\ z[j].notes \in Nat
      BY <1>2, <1>3, <2>1, <2>4
    <3>2. z[j].notes <= z[i].notes
      BY <2>3, <3>1
    <3> QED BY <2>4, <3>2
  <2>5. CASE q.kind # "match"
    <3>1. keys[order[i]][1] = -z[i].overlap /\ keys[order[j]][1] = -z[j].overlap /\ z[i].overlap \in Nat /\ z[j].overlap \in Nat
      BY <1>2, <1>3, <2>1, <2>5
    <3>2. z[j].overlap <= z[i].overlap
      BY <2>3, <3>1
    <3> QED BY <2>5, <3>2
  <2> QED BY <2>4, <2>5
<1> QED BY <1>8, <1>9, <1>10, <1>11, <1>12 DEF z

LEMMA PlacesAreFinite ==
  ASSUME NEW m \in Nat, NEW S \in SUBSET (1..m)
  PROVE  IsFiniteSet(S)
<1>1. IsFiniteSet(1..m)
  BY FS_Interval
<1> QED BY <1>1, FS_Subset

(* Places in their order.                                                  *)
LEMMA PlacesFit ==
  ASSUME NEW m \in Nat, NEW S \in SUBSET (1..m)
  PROVE  /\ Sorted(S, [i \in S |-> <<i>>]) \in Seq(S) /\ Distinct(Sorted(S, [i \in S |-> <<i>>]))
         /\ \A x \in S : \E k \in DOMAIN Sorted(S, [i \in S |-> <<i>>]) : Sorted(S, [i \in S |-> <<i>>])[k] = x
         /\ \A i, j \in DOMAIN Sorted(S, [i \in S |-> <<i>>]) :
              i < j => Sorted(S, [i_1 \in S |-> <<i_1>>])[i] < Sorted(S, [i_1 \in S |-> <<i_1>>])[j]
<1> DEFINE key == [i \in S |-> <<i>>]
           s == Sorted(S, key)
<1>1. IsFiniteSet(S)
  BY PlacesAreFinite
<1>2. ASSUME NEW x \in S PROVE DOMAIN key[x] = 1..1 /\ key[x][1] = x /\ x \in Int
  OBVIOUS
<1> HIDE DEF key
<1>3. Keyed(S, key, 1)
  BY <1>2 DEF Keyed
<1>4. /\ s \in Seq(S) /\ Distinct(s)
      /\ \A x \in S : \E k \in 1..Len(s) : s[k] = x
      /\ \A i, j \in 1..Len(s) : i < j => Sooner(key[s[i]], key[s[j]])
  BY <1>1, <1>3, SortedIsSeq
<1> HIDE DEF s
<1>5. DOMAIN s = 1..Len(s) /\ Len(s) \in Nat
  BY <1>4
<1>6. ASSUME NEW i \in DOMAIN s, NEW j \in DOMAIN s, i < j PROVE s[i] < s[j]
  <2>1. s[i] \in S /\ s[j] \in S /\ Sooner(key[s[i]], key[s[j]])
    BY <1>4, <1>5, <1>6
  <2>2. PICK k \in DOMAIN key[s[i]] : key[s[i]][k] < key[s[j]][k]
    BY <2>1 DEF Sooner
  <2>3. DOMAIN key[s[i]] = 1..1 /\ key[s[i]][1] = s[i] /\ key[s[j]][1] = s[j]
    BY <1>2, <2>1
  <2>4. k = 1
    BY <2>2, <2>3
  <2> QED BY <2>2, <2>3, <2>4
<1> QED BY <1>4, <1>5, <1>6 DEF s, key

(* The Map keeps the first of each name, with a row of that name.          *)
LEMMA UniqueFits ==
  ASSUME NEW T, NEW seq \in Seq(T), NEW q
  PROVE  /\ Unique(seq, q) \in Seq(T)
         /\ \A i, j \in DOMAIN Unique(seq, q) :
              i # j => Presented(Unique(seq, q)[i], q) # Presented(Unique(seq, q)[j], q)
         /\ seq # << >> => /\ Len(Unique(seq, q)) >= 1
                           /\ Presented(Unique(seq, q)[1], q) = Presented(seq[1], q)
<1> DEFINE name(i) == Presented(seq[i], q)
           first == {i \in DOMAIN seq : \A j \in 1..(i - 1) : name(j) # name(i)}
           places == Sorted(first, [i \in first |-> <<i>>])
           named(i) == {j \in DOMAIN seq : name(j) = name(i)}
           last(i) == Sorted(named(i), [j \in DOMAIN seq |-> <<-j>>])[1]
           u == Unique(seq, q)
<1>1. DOMAIN seq = 1..Len(seq) /\ Len(seq) \in Nat
  OBVIOUS
<1>2. first \in SUBSET (1..Len(seq))
  BY <1>1
<1>3. u = [k \in DOMAIN places |-> seq[last(places[k])]]
  BY DEF Unique
<1> HIDE DEF u
<1>4. ASSUME NEW i \in DOMAIN seq PROVE last(i) \in DOMAIN seq /\ name(last(i)) = name(i)
  <2> DEFINE key == [j \in DOMAIN seq |-> <<-j>>]
  <2>1. named(i) # {} /\ named(i) \in SUBSET (1..Len(seq))
    BY <1>1
  <2>2. IsFiniteSet(named(i))
    BY <1>1, <2>1, PlacesAreFinite
  <2>3. ASSUME NEW x \in DOMAIN seq PROVE DOMAIN key[x] = 1..1 /\ key[x][1] = -x /\ x \in Int
    BY <1>1
  <2> HIDE DEF key
  <2>4. Keyed(named(i), key, 1)
    <3>1. \A x \in named(i) : x \in DOMAIN seq
      OBVIOUS
    <3> HIDE DEF named
    <3> QED BY <2>3, <3>1 DEF Keyed
  <2>5. Sorted(named(i), key)[1] \in named(i)
    <3> HIDE DEF named
    <3> QED BY <2>1, <2>2, <2>4, SortedFirst
  <2> QED BY <2>5 DEF key
<1> HIDE DEF last, named
<1>5. /\ places \in Seq(first) /\ Distinct(places)
      /\ \A x \in first : \E k \in DOMAIN places : places[k] = x
      /\ \A i, j \in DOMAIN places : i < j => places[i] < places[j]
  <2> HIDE DEF first
  <2> QED BY <1>1, <1>2, PlacesFit
<1> HIDE DEF places
<1>6. ASSUME NEW k \in DOMAIN places PROVE places[k] \in first /\ u[k] \in T /\ Presented(u[k], q) = name(places[k])
  <2>1. places[k] \in first /\ places[k] \in DOMAIN seq
    <3>1. first \subseteq DOMAIN seq
      OBVIOUS
    <3> HIDE DEF first
    <3> QED BY <1>5, <3>1
  <2>2. last(places[k]) \in DOMAIN seq /\ name(last(places[k])) = name(places[k])
    BY <1>4, <2>1
  <2>3. u[k] = seq[last(places[k])]
    BY <1>3
  <2> QED BY <1>1, <2>1, <2>2, <2>3
<1>7. u \in Seq(T) /\ DOMAIN u = DOMAIN places /\ Len(u) = Len(places)
  <2>1. DOMAIN places = 1..Len(places) /\ Len(places) \in Nat
    BY <1>5
  <2>2. DOMAIN u = DOMAIN places /\ u = [k \in 1..Len(places) |-> u[k]]
    BY <1>3, <2>1
  <2>3. \A k \in 1..Len(places) : u[k] \in T
    BY <1>6, <2>1
  <2> QED BY <2>1, <2>2, <2>3
<1>8. ASSUME NEW i \in first, NEW j \in first, i # j PROVE name(i) # name(j)
  <2>1. i \in Nat /\ j \in Nat /\ i >= 1 /\ j >= 1
    BY <1>1
  <2>2. CASE i < j
    <3>1. i \in 1..(j - 1)
      BY <2>1, <2>2
    <3> QED BY <3>1
  <2>3. CASE j < i
    <3>1. j \in 1..(i - 1)
      BY <2>1, <2>3
    <3> QED BY <3>1
  <2> QED BY <1>8, <2>1, <2>2, <2>3
<1>9. ASSUME NEW i \in DOMAIN u, NEW j \in DOMAIN u, i # j PROVE Presented(u[i], q) # Presented(u[j], q)
  <2>1. places[i] # places[j] /\ places[i] \in first /\ places[j] \in first
    BY <1>5, <1>6, <1>7, <1>9 DEF Distinct
  <2> HIDE DEF first, name
  <2> QED BY <1>6, <1>7, <1>8, <2>1
<1>10. ASSUME seq # << >> PROVE Len(u) >= 1 /\ Presented(u[1], q) = name(1)
  <2>1. 1 \in first
    BY <1>1, <1>10
  <2>2. PICK k \in DOMAIN places : places[k] = 1
    BY <1>5, <2>1
  <2>3. DOMAIN places = 1..Len(places) /\ Len(places) \in Nat
    BY <1>5
  <2>4. k = 1
    <3>1. CASE 1 < k
      <4>1. 1 \in DOMAIN places /\ k \in DOMAIN places
        BY <2>2, <2>3, <3>1
      <4>3. places[1] < places[k]
        BY <1>5, <3>1, <4>1
      <4>2. places[1] \in 1..Len(seq)
        BY <1>2, <1>6, <4>1
      <4> QED BY <2>2, <4>2, <4>3
    <3> QED BY <2>3, <3>1
  <2>5. Presented(u[1], q) = name(1)
    BY <1>6, <2>2, <2>4
  <2> QED BY <1>7, <2>2, <2>3, <2>4, <2>5
<1> QED BY <1>7, <1>9, <1>10 DEF u

(* What the lookups bore out: rows of the catalogue, each once, and for a  *)
(* recommendation nothing that the need rules out.                         *)
Borne ==
  /\ need \in Needs /\ rows \in SUBSET Row /\ inspected \in Seq(Noted(rows))
  /\ \A i, j \in DOMAIN inspected : i # j => inspected[i].row # inspected[j].row
  /\ need.kind = "recommend" =>
       \A i \in DOMAIN inspected : /\ Compatible(need.audiences, inspected[i].ref.audiences)
                                   /\ ~(need.dry /\ "sweet" \in inspected[i].ref.qualities)

VerifiedRows == {inspected[i].row : i \in DOMAIN inspected}
Among(S, r) == CHOOSE i \in S : i.row = r
InspectionOf(r) == Among(ToSet(inspected), r)

(* What RecommendationsFit says of a reply, in parts.                      *)
OfTheCatalogue(answer) ==
  /\ ToSet(answer) \subseteq rows
  /\ Len(answer) <= IF need.kind \in {"recommend", "match"} THEN need.count ELSE 1
  /\ need.kind # "match" =>
       \A i, j \in DOMAIN answer : i # j => Presented(answer[i], need) # Presented(answer[j], need)
FirstIsVerified(answer) ==
  need.kind = "recommend" /\ need.online /\ need.audiences # {} =>
    \E r \in VerifiedRows : /\ Presented(r, need) = Presented(answer[1], need)
                            /\ Compatible(need.audiences, InspectionOf(r).ref.audiences)
                            /\ ~(need.dry /\ "sweet" \in InspectionOf(r).ref.qualities)
                            /\ \A s \in VerifiedRows : InspectionOf(s).overlap <= InspectionOf(r).overlap
IsAMatch(answer) ==
  need.kind = "match" =>
    /\ ToSet(answer) \subseteq VerifiedRows
    /\ \A s \in VerifiedRows : InspectionOf(s).notes <= InspectionOf(answer[1]).notes
    /\ \A i, j \in DOMAIN answer :
         i < j /\ Rows[answer[i]].mix = Rows[answer[j]].mix =>
           i > 1 /\ Rows[answer[i]].family # Rows[answer[j]].family
    /\ Len(answer) > 1 /\ Rows[answer[2]].family = Rows[answer[1]].family =>
         \A s \in VerifiedRows : Rows[s].mix # Rows[answer[1]].mix => Rows[s].family = Rows[answer[1]].family

LEMMA NeedsAreTyped ==
  ASSUME NEW q \in Needs
  PROVE  /\ q.kind \in {"recommend", "match", "detail", "fit"} /\ q.families \in Seq(STRING)
         /\ IsFiniteSet(q.notes) /\ IsFiniteSet(q.said) /\ q.count \in Nat /\ q.count >= 1
<1>1. /\ q.kind \in {"recommend", "match", "detail", "fit"} /\ q.families \in Seq(STRING)
      /\ IsFiniteSet(q.notes) /\ IsFiniteSet(q.said) /\ q.count \in 1..3
  BY RecommendationsAssumption
<1>2. q.count \in Nat /\ q.count >= 1
  BY <1>1
<1> QED BY <1>1, <1>2

\* The rows of a question are those of the text in memory, unless that was empty.
InMemory == basis # {} => rows = basis

LEMMA FitIsItsParts ==
  InMemory =>
   (RecommendationsFit <=>
    (stage = "idle" /\ reply # << >> => OfTheCatalogue(reply) /\ FirstIsVerified(reply) /\ IsAMatch(reply)))
BY DEF InMemory, RecommendationsFit, OfTheCatalogue, FirstIsVerified, IsAMatch, VerifiedRows, InspectionOf, Among

LEMMA InspectionsAreUnique ==
  ASSUME Borne, NEW k \in DOMAIN inspected
  PROVE  InspectionOf(inspected[k].row) = inspected[k] /\ inspected[k].row \in VerifiedRows
<1>1. inspected[k] \in ToSet(inspected)
  BY DEF ToSet
<1>2. ASSUME NEW i \in ToSet(inspected), i.row = inspected[k].row PROVE i = inspected[k]
  <2>1. PICK j \in DOMAIN inspected : i = inspected[j]
    BY DEF ToSet
  <2> QED BY <1>2, <2>1 DEF Borne
<1> QED BY <1>1, <1>2 DEF InspectionOf, Among, VerifiedRows

(* The ranking, of what was looked up.                                     *)
LEMMA RankedInspections ==
  ASSUME Borne, NEW ranked, ranked = Ranked(inspected, need)
  PROVE  /\ ranked \in Seq(Noted(rows)) /\ (ranked = << >> <=> inspected = << >>)
         /\ \A i \in DOMAIN ranked : /\ ranked[i].row \in rows /\ ranked[i].row \in VerifiedRows
                                     /\ InspectionOf(ranked[i].row) = ranked[i]
         /\ \A s \in VerifiedRows : \E i \in DOMAIN ranked : ranked[i].row = s /\ InspectionOf(s) = ranked[i]
         /\ \A i, j \in DOMAIN ranked : i # j => ranked[i].row # ranked[j].row
         /\ \A i, j \in DOMAIN ranked : i <= j =>
              IF need.kind = "match" THEN ranked[j].notes <= ranked[i].notes ELSE ranked[j].overlap <= ranked[i].overlap
<1>1. need.families \in Seq(STRING) /\ rows \in SUBSET Row /\ inspected \in Seq(Noted(rows))
  BY RecommendationsAssumption DEF Borne
<1>2. \A i, j \in DOMAIN inspected : i # j => inspected[i].row # inspected[j].row
  BY DEF Borne
<1>3. /\ ranked \in Seq(Noted(rows)) /\ Len(ranked) = Len(inspected)
      /\ \A i \in DOMAIN ranked : \E k \in DOMAIN inspected : ranked[i] = inspected[k]
      /\ \A k \in DOMAIN inspected : \E i \in DOMAIN ranked : ranked[i] = inspected[k]
      /\ \A i, j \in DOMAIN ranked : i # j => ranked[i].row # ranked[j].row
      /\ \A i, j \in DOMAIN ranked : i < j =>
           IF need.kind = "match" THEN ranked[j].notes <= ranked[i].notes ELSE ranked[j].overlap <= ranked[i].overlap
  <2> DEFINE z == Ranked(inspected, need)
  <2>1. /\ z \in Seq(Noted(rows)) /\ Len(z) = Len(inspected)
        /\ \A i \in DOMAIN z : \E k \in DOMAIN inspected : z[i] = inspected[k]
        /\ \A k \in DOMAIN inspected : \E i \in DOMAIN z : z[i] = inspected[k]
        /\ \A i, j \in DOMAIN z : i # j => z[i].row # z[j].row
        /\ \A i, j \in DOMAIN z :
             i < j => IF need.kind = "match" THEN z[j].notes <= z[i].notes ELSE z[j].overlap <= z[i].overlap
    BY <1>1, <1>2, RankedFits
  <2>2. ranked = z
    OBVIOUS
  <2> HIDE DEF z
  <2> QED BY <2>1, <2>2
<1>4. ASSUME NEW i \in DOMAIN ranked
      PROVE  /\ ranked[i] \in Noted(rows) /\ ranked[i].row \in rows /\ ranked[i].row \in VerifiedRows
             /\ InspectionOf(ranked[i].row) = ranked[i] /\ ranked[i].notes \in Nat /\ ranked[i].overlap \in Nat
  <2>1. ranked[i] \in Noted(rows)
    BY <1>3
  <2>2. PICK k \in DOMAIN inspected : ranked[i] = inspected[k]
    BY <1>3
  <2> QED BY <2>1, <2>2, InspectionsAreUnique DEF Noted
<1>5. ASSUME NEW s \in VerifiedRows PROVE \E i \in DOMAIN ranked : ranked[i].row = s /\ InspectionOf(s) = ranked[i]
  <2>1. PICK k \in DOMAIN inspected : s = inspected[k].row
    BY DEF VerifiedRows
  <2>2. PICK i \in DOMAIN ranked : ranked[i] = inspected[k]
    BY <1>3
  <2> QED BY <1>4, <2>1, <2>2
<1>6. ranked = << >> <=> inspected = << >>
  BY <1>1, <1>3
<1>7. ASSUME NEW i \in DOMAIN ranked, NEW j \in DOMAIN ranked, i <= j
      PROVE  IF need.kind = "match" THEN ranked[j].notes <= ranked[i].notes ELSE ranked[j].overlap <= ranked[i].overlap
  <2>1. i \in Nat /\ j \in Nat
    BY <1>3
  <2>2. CASE i = j
    BY <1>4, <2>2
  <2>3. CASE i < j
    BY <1>3, <2>3
  <2> QED BY <1>7, <2>1, <2>2, <2>3
<1> QED BY <1>3, <1>4, <1>5, <1>6, <1>7

LEMMA RecommendedFits ==
  ASSUME Borne, need.kind = "recommend", NEW answer, answer = Recommended(need), answer # << >>
  PROVE  OfTheCatalogue(answer) /\ FirstIsVerified(answer)
<1> DEFINE ranked == Ranked(inspected, need)
           verified == [i \in DOMAIN ranked |-> ranked[i].row]
           all == verified \o LookupOrder(rows, need)
           u == Unique(all, need)
<1>1. need.families \in Seq(STRING) /\ need.count \in Nat /\ need.count >= 1 /\ rows \in SUBSET Row
  BY NeedsAreTyped DEF Borne
<1>2. /\ ranked \in Seq(Noted(rows))
      /\ \A i \in DOMAIN ranked : /\ ranked[i].row \in rows /\ ranked[i].row \in VerifiedRows
                                  /\ InspectionOf(ranked[i].row) = ranked[i]
  BY RankedInspections
<1>3. answer = Shortened(u, need.count) /\ ~(need.online /\ need.audiences # {} /\ ranked = << >>)
  BY DEF Recommended
<1> HIDE DEF ranked
<1>4. verified \in Seq(rows) /\ Len(verified) = Len(ranked)
  BY <1>2
<1>5. LookupOrder(rows, need) \in Seq(rows)
  BY <1>1, LookupOrderFits
<1>6. all \in Seq(rows)
  BY <1>4, <1>5
<1> HIDE DEF u
<1>7. /\ u \in Seq(rows)
      /\ \A i, j \in DOMAIN u : i # j => Presented(u[i], need) # Presented(u[j], need)
      /\ all # << >> => Len(u) >= 1 /\ Presented(u[1], need) = Presented(all[1], need)
  <2> HIDE DEF all
  <2> QED BY <1>6, UniqueFits DEF u
<1>8. /\ answer \in Seq(rows)
      /\ Len(answer) = IF Len(u) < need.count THEN Len(u) ELSE need.count
      /\ \A i \in 1..Len(answer) : i \in 1..Len(u) /\ answer[i] = u[i]
  BY <1>1, <1>3, <1>7, ShortenedFits
<1>9. OfTheCatalogue(answer)
  <2>1. ToSet(answer) \subseteq rows
    BY <1>8 DEF ToSet
  <2>2. Len(answer) <= need.count
    BY <1>1, <1>7, <1>8
  <2>3. \A i, j \in DOMAIN answer : i # j => Presented(answer[i], need) # Presented(answer[j], need)
    BY <1>7, <1>8
  <2> QED BY <2>1, <2>2, <2>3 DEF OfTheCatalogue
<1>10. ASSUME need.online, need.audiences # {}
       PROVE  \E r \in VerifiedRows : /\ Presented(r, need) = Presented(answer[1], need)
                                      /\ Compatible(need.audiences, InspectionOf(r).ref.audiences)
                                      /\ ~(need.dry /\ "sweet" \in InspectionOf(r).ref.qualities)
                                      /\ \A s \in VerifiedRows : InspectionOf(s).overlap <= InspectionOf(r).overlap
  <2>1. ranked # << >>
    BY <1>3, <1>10
  <2>2. 1 \in DOMAIN ranked /\ 1 \in 1..Len(verified) /\ verified[1] = ranked[1].row
    BY <1>2, <1>4, <2>1
  <2>3. all # << >> /\ all[1] = ranked[1].row
    BY <1>4, <1>5, <2>2
  <2>4. Presented(ranked[1].row, need) = Presented(answer[1], need)
    <3>1. Len(answer) >= 1
      BY <1>1, <1>7, <1>8, <2>3
    <3>2. answer[1] = u[1]
      BY <1>8, <3>1
    <3> QED BY <1>7, <2>3, <3>2
  <2> DEFINE r == ranked[1].row
  <2>5. r \in VerifiedRows /\ InspectionOf(r) = ranked[1]
    BY <1>2, <2>2
  <2>6. PICK k \in DOMAIN inspected : ranked[1] = inspected[k]
    <3>1. PICK k \in DOMAIN inspected : r = inspected[k].row
      BY <2>5 DEF VerifiedRows
    <3> QED BY <2>5, <3>1, InspectionsAreUnique
  <2>7. Compatible(need.audiences, InspectionOf(r).ref.audiences) /\ ~(need.dry /\ "sweet" \in InspectionOf(r).ref.qualities)
    BY <2>5, <2>6 DEF Borne
  <2>8. ASSUME NEW s \in VerifiedRows PROVE InspectionOf(s).overlap <= InspectionOf(r).overlap
    <3>1. PICK i \in DOMAIN ranked : ranked[i].row = s /\ InspectionOf(s) = ranked[i]
      BY RankedInspections DEF ranked
    <3>2. 1 <= i
      BY <1>2
    <3>3. ranked[i].overlap <= ranked[1].overlap
      BY <2>2, <3>2, RankedInspections DEF ranked
    <3> QED BY <2>5, <3>1, <3>3
  <2> QED BY <2>4, <2>5, <2>7, <2>8
<1> QED BY <1>9, <1>10 DEF FirstIsVerified

LEMMA DescribedFits ==
  ASSUME Borne, need.kind \in {"detail", "fit"}, NEW answer, answer = Described(need), answer # << >>
  PROVE  OfTheCatalogue(answer)
<1>1. IsFiniteSet(need.said) /\ rows \in SUBSET Row
  BY RecommendationsAssumption DEF Borne
<1>2. answer = Resolved(rows, need)
  BY DEF Described
<1>3. answer \in Seq(rows) /\ Len(answer) <= 1
  BY <1>1, <1>2, ResolvedFits
<1>4. ToSet(answer) \subseteq rows
  BY <1>3 DEF ToSet
<1>5. \A i, j \in DOMAIN answer : i = j
  BY <1>3
<1> QED BY <1>3, <1>4, <1>5 DEF OfTheCatalogue

LEMMA MatchedFits ==
  ASSUME Borne, need.kind = "match", NEW answer, answer = Matched(Ranked(inspected, need), need), answer # << >>
  PROVE  OfTheCatalogue(answer) /\ IsAMatch(answer)
<1> DEFINE ranked == Ranked(inspected, need)
           row(i) == Rows[ranked[i].row]
           others == {i \in DOMAIN ranked : row(i).mix # row(1).mix}
           leading == {i \in others : \A j \in others \union {1} : j < i => row(j).family # row(i).family}
           lead == Sorted(leading, [i \in leading |-> <<i>>])
           next == Shortened(lead, 2)
           spread == <<1>> \o next
           left == {i \in others : /\ \A j \in others : j < i => row(j).mix # row(i).mix
                                   /\ \A k \in DOMAIN spread : row(spread[k]).mix # row(i).mix}
           fill == Sorted(left, [i \in left |-> <<i>>])
           all == spread \o fill
           picked == Shortened(all, need.count)
<1>1. need.count \in Nat /\ need.count >= 1
  BY NeedsAreTyped DEF Borne
<1>2. ranked # << >> /\ answer = [k \in DOMAIN picked |-> ranked[picked[k]].row]
  <2>1. Matched(Ranked(inspected, need), need) = IF ranked = << >> \/ (need.notes # {} /\ \A i \in DOMAIN ranked : ranked[i].notes = 0) THEN << >>
                        ELSE [k \in DOMAIN picked |-> ranked[picked[k]].row]
    BY DEF Matched
  <2> HIDE DEF ranked, picked
  <2> QED BY <2>1
<1>3. /\ ranked \in Seq(Noted(rows))
      /\ \A i \in DOMAIN ranked : /\ ranked[i].row \in rows /\ ranked[i].row \in VerifiedRows
                                  /\ InspectionOf(ranked[i].row) = ranked[i]
      /\ \A s \in VerifiedRows : \E i \in DOMAIN ranked : ranked[i].row = s /\ InspectionOf(s) = ranked[i]
      /\ \A i, j \in DOMAIN ranked : i <= j => ranked[j].notes <= ranked[i].notes
  BY RankedInspections
<1> HIDE DEF ranked
<1>4. DOMAIN ranked = 1..Len(ranked) /\ Len(ranked) \in Nat /\ 1 \in DOMAIN ranked
  <2>1. ranked \in Seq(Noted(rows)) /\ ranked # << >>
    BY <1>2, <1>3
  <2> QED BY <2>1
<1>5. /\ others \in SUBSET (1..Len(ranked)) /\ leading \in SUBSET (1..Len(ranked)) /\ left \in SUBSET (1..Len(ranked))
      /\ leading \subseteq others /\ left \subseteq others /\ 1 \notin others
  BY <1>4
<1>6. ASSUME NEW i \in leading, NEW j \in leading, i # j PROVE row(i).family # row(j).family
  <2>1. i \in Nat /\ j \in Nat /\ i \in others /\ j \in others
    <3> HIDE DEF leading, others, left
    <3> QED BY <1>4, <1>5
  <2>2. i < j => row(i).family # row(j).family
    BY <2>1
  <2>3. j < i => row(j).family # row(i).family
    BY <2>1
  <2> HIDE DEF row
  <2> QED BY <1>6, <2>1, <2>2, <2>3
<1>7. ASSUME NEW i \in left, NEW j \in left, i # j PROVE row(i).mix # row(j).mix
  <2>1. i \in Nat /\ j \in Nat /\ i \in others /\ j \in others
    <3> HIDE DEF leading, others, left
    <3> QED BY <1>4, <1>5
  <2>2. i < j => row(i).mix # row(j).mix
    BY <2>1
  <2>3. j < i => row(j).mix # row(i).mix
    BY <2>1
  <2> HIDE DEF row
  <2> QED BY <1>7, <2>1, <2>2, <2>3
<1>8. ASSUME NEW i \in left, NEW k \in DOMAIN spread PROVE row(spread[k]).mix # row(i).mix
  OBVIOUS
<1>9. ASSUME NEW i \in leading PROVE row(i).family # row(1).family
  <2>1. 1 < i
    <3> HIDE DEF leading, others, left
    <3> QED BY <1>4, <1>5
  <2> QED BY <2>1
<1>10. ASSUME NEW i \in others PROVE row(i).mix # row(1).mix
  OBVIOUS
<1>11. ASSUME NEW i \in others, row(i).family # row(1).family PROVE leading # {}
  <2> DEFINE odd == {k \in others : row(k).family # row(1).family}
  <2>1. odd \in SUBSET Nat /\ odd # {}
    BY <1>4, <1>11
  <2>2. PICK k \in odd : \A l \in odd : k <= l
    BY <2>1, LeastNat
  <2>3. ASSUME NEW j \in others \union {1}, j < k PROVE row(j).family # row(k).family
    <3>1. j \in Nat /\ k \in Nat
      BY <1>4, <2>1
    <3>2. j \notin odd
      <4> HIDE DEF odd
      <4> QED BY <2>2, <2>3, <3>1
    <3>3. row(j).family = row(1).family
      BY <3>2
    <3> QED BY <3>3
  <2>4. k \in leading
    BY <2>3
  <2> QED BY <2>4
<1>12. /\ lead \in Seq(leading) /\ Distinct(lead) /\ \A x \in leading : \E k \in DOMAIN lead : lead[k] = x
  <2> HIDE DEF leading
  <2> QED BY <1>4, <1>5, PlacesFit
<1>13. fill \in Seq(left) /\ Distinct(fill)
  <2> HIDE DEF left
  <2> QED BY <1>4, <1>5, PlacesFit
<1> HIDE DEF row, others, leading, left, lead, fill
<1>14. /\ next \in Seq(leading) /\ Len(next) = (IF Len(lead) < 2 THEN Len(lead) ELSE 2)
       /\ \A i \in 1..Len(next) : i \in 1..Len(lead) /\ next[i] = lead[i]
  <2>1. lead \in Seq(leading) /\ 2 \in Nat
    BY <1>12
  <2>2. /\ Shortened(lead, 2) \in Seq(leading)
        /\ Len(Shortened(lead, 2)) = IF Len(lead) < 2 THEN Len(lead) ELSE 2
        /\ \A i \in 1..Len(Shortened(lead, 2)) : i \in 1..Len(lead) /\ Shortened(lead, 2)[i] = lead[i]
    BY <2>1, ShortenedFits
  <2> QED BY <2>2
<1> HIDE DEF next
<1>15. /\ spread \in Seq(1..Len(ranked)) /\ Len(spread) = 1 + Len(next) /\ spread[1] = 1
       /\ \A k \in 2..Len(spread) : k - 1 \in 1..Len(next) /\ spread[k] = next[k - 1] /\ spread[k] \in leading
  <2>1. next \in Seq(1..Len(ranked))
    BY <1>5, <1>14, SeqMonotonic
  <2>2. <<1>> \in Seq(1..Len(ranked)) /\ Len(<<1>>) = 1 /\ <<1>>[1] = 1
    BY <1>4
  <2>3. /\ spread \in Seq(1..Len(ranked)) /\ Len(spread) = 1 + Len(next)
        /\ \A k \in 1..Len(spread) : spread[k] = IF k <= 1 THEN <<1>>[k] ELSE next[k - 1]
    BY <2>1, <2>2, ConcatProperties
  <2>4. spread[1] = 1
    BY <2>1, <2>2, <2>3
  <2>5. ASSUME NEW k \in 2..Len(spread) PROVE k - 1 \in 1..Len(next) /\ spread[k] = next[k - 1] /\ spread[k] \in leading
    <3>1. k - 1 \in 1..Len(next) /\ k \in 1..Len(spread) /\ ~(k <= 1)
      BY <1>14, <2>3
    <3> QED BY <1>14, <2>3, <3>1
  <2> QED BY <2>3, <2>4, <2>5
<1> HIDE DEF spread
<1>16. /\ all \in Seq(1..Len(ranked)) /\ Len(all) = Len(spread) + Len(fill)
       /\ \A k \in 1..Len(all) : all[k] = IF k <= Len(spread) THEN spread[k] ELSE fill[k - Len(spread)]
  <2>1. fill \in Seq(1..Len(ranked))
    BY <1>5, <1>13, SeqMonotonic
  <2>2. spread \in Seq(1..Len(ranked))
    BY <1>15
  <2>3. /\ spread \o fill \in Seq(1..Len(ranked)) /\ Len(spread \o fill) = Len(spread) + Len(fill)
        /\ \A k \in 1..Len(spread) + Len(fill) :
             (spread \o fill)[k] = IF k <= Len(spread) THEN spread[k] ELSE fill[k - Len(spread)]
    BY <2>1, <2>2, ConcatProperties
  <2> QED BY <2>3
<1> HIDE DEF all
<1>17. /\ picked \in Seq(1..Len(ranked)) /\ Len(picked) = (IF Len(all) < need.count THEN Len(all) ELSE need.count)
       /\ \A i \in 1..Len(picked) : i \in 1..Len(all) /\ picked[i] = all[i]
  BY <1>1, <1>16, ShortenedFits
<1> HIDE DEF picked
<1>18. Len(picked) >= 1 /\ picked[1] = 1
  <2>1. Len(spread) \in Nat /\ Len(spread) >= 1 /\ Len(fill) \in Nat
    BY <1>13, <1>14, <1>15
  <2>2. Len(picked) >= 1
    BY <1>1, <1>16, <1>17, <2>1
  <2>3. picked[1] = all[1] /\ 1 \in 1..Len(all)
    BY <1>17, <2>2
  <2> QED BY <1>15, <1>16, <2>1, <2>2, <2>3
<1>19. DOMAIN answer = 1..Len(picked) /\ answer \in Seq(rows) /\ Len(answer) = Len(picked)
  <2>1. \A k \in 1..Len(picked) : ranked[picked[k]].row \in rows
    BY <1>3, <1>4, <1>17
  <2>2. DOMAIN picked = 1..Len(picked) /\ Len(picked) \in Nat
    BY <1>17
  <2> QED BY <1>2, <2>1, <2>2
<1>20. ASSUME NEW k \in DOMAIN answer
       PROVE  picked[k] \in DOMAIN ranked /\ answer[k] = ranked[picked[k]].row /\ Rows[answer[k]] = row(picked[k])
  BY <1>2, <1>4, <1>17, <1>19 DEF row
<1>21. ASSUME NEW k \in DOMAIN answer, k > 1
       PROVE  \/ k <= Len(spread) /\ picked[k] = spread[k] /\ picked[k] \in leading
              \/ k > Len(spread) /\ k - Len(spread) \in DOMAIN fill /\ picked[k] = fill[k - Len(spread)] /\ picked[k] \in left
  <2>1. k \in 1..Len(all) /\ picked[k] = all[k] /\ k \in Nat /\ Len(spread) \in Nat
    BY <1>15, <1>17, <1>19
  <2>2. CASE k <= Len(spread)
    <3>1. k \in 2..Len(spread) /\ picked[k] = spread[k]
      BY <1>16, <1>21, <2>1, <2>2
    <3> QED BY <1>15, <2>2, <3>1
  <2>3. CASE k > Len(spread)
    <3>1. k - Len(spread) \in 1..Len(fill) /\ picked[k] = fill[k - Len(spread)]
      BY <1>13, <1>16, <2>1, <2>3
    <3> QED BY <1>13, <2>3, <3>1
  <2> QED BY <2>1, <2>2, <2>3
<1>22. OfTheCatalogue(answer)
  <2>1. ToSet(answer) \subseteq rows
    BY <1>19 DEF ToSet
  <2>2. Len(answer) <= need.count
    BY <1>1, <1>16, <1>17, <1>19
  <2> QED BY <2>1, <2>2 DEF OfTheCatalogue
<1>23. ToSet(answer) \subseteq VerifiedRows
  BY <1>3, <1>20 DEF ToSet
<1>24. answer[1] = ranked[1].row /\ 1 \in DOMAIN answer /\ Rows[answer[1]] = row(1)
  BY <1>18, <1>19, <1>20
<1>25. ASSUME NEW s \in VerifiedRows PROVE InspectionOf(s).notes <= InspectionOf(answer[1]).notes
  <2>1. PICK i \in DOMAIN ranked : ranked[i].row = s /\ InspectionOf(s) = ranked[i]
    BY <1>3
  <2>2. 1 <= i /\ InspectionOf(answer[1]) = ranked[1]
    BY <1>3, <1>4, <1>24
  <2> QED BY <1>3, <1>4, <2>1, <2>2
<1>26. ASSUME NEW i \in DOMAIN answer, NEW j \in DOMAIN answer, i < j, Rows[answer[i]].mix = Rows[answer[j]].mix
       PROVE  i > 1 /\ Rows[answer[i]].family # Rows[answer[j]].family
  <2>1. i \in Nat /\ j \in Nat /\ i >= 1 /\ j > 1 /\ row(picked[i]).mix = row(picked[j]).mix
    BY <1>19, <1>20, <1>26
  <2>2. picked[j] \in others
    BY <1>5, <1>21, <2>1
  <2>3. i > 1
    <3>1. SUFFICES ASSUME i = 1 PROVE FALSE
      BY <2>1
    <3>2. row(picked[j]).mix # row(1).mix
      BY <1>10, <2>2
    <3> QED BY <1>18, <2>1, <3>1, <3>2
  <2>4. CASE j > Len(spread) /\ picked[j] \in left
    <3>1. CASE i <= Len(spread) /\ picked[i] = spread[i]
      <4>1. i \in DOMAIN spread
        BY <1>15, <2>1, <3>1
      <4> QED BY <1>8, <2>1, <2>4, <3>1, <4>1
    <3>2. CASE i > Len(spread) /\ picked[i] \in left
      <4>1. /\ i - Len(spread) \in DOMAIN fill /\ picked[i] = fill[i - Len(spread)]
            /\ j - Len(spread) \in DOMAIN fill /\ picked[j] = fill[j - Len(spread)]
        BY <1>21, <2>1, <2>3, <2>4, <3>2, <1>15
      <4>2. i - Len(spread) # j - Len(spread)
        BY <1>15, <1>26, <2>1
      <4>3. picked[i] # picked[j]
        BY <1>13, <4>1, <4>2 DEF Distinct
      <4> QED BY <1>7, <2>1, <2>4, <3>2, <4>3
    <3> QED BY <1>21, <2>3, <3>1, <3>2
  <2>5. CASE j <= Len(spread) /\ picked[j] = spread[j] /\ picked[j] \in leading
    <3>1. i <= Len(spread) /\ i \in 2..Len(spread) /\ j \in 2..Len(spread)
      BY <1>15, <1>26, <2>1, <2>3, <2>5
    <3>2. picked[i] = spread[i] /\ picked[i] \in leading
      BY <1>15, <1>21, <2>1, <2>3, <3>1
    <3>3. /\ spread[i] = lead[i - 1] /\ spread[j] = lead[j - 1]
          /\ i - 1 \in DOMAIN lead /\ j - 1 \in DOMAIN lead /\ i - 1 # j - 1
      BY <1>12, <1>14, <1>15, <1>26, <2>1, <3>1
    <3>4. picked[i] # picked[j]
      BY <1>12, <2>5, <3>2, <3>3 DEF Distinct
    <3>5. row(picked[i]).family # row(picked[j]).family
      BY <1>6, <2>5, <3>2, <3>4
    <3> QED BY <1>20, <2>3, <3>5
  <2> QED BY <1>21, <2>1, <2>4, <2>5
<1>27. ASSUME Len(answer) > 1, Rows[answer[2]].family = Rows[answer[1]].family,
              NEW s \in VerifiedRows, Rows[s].mix # Rows[answer[1]].mix
       PROVE  Rows[s].family = Rows[answer[1]].family
  <2>1. PICK i \in DOMAIN ranked : ranked[i].row = s
    BY <1>3
  <2>2. row(i) = Rows[s] /\ i \in others
    BY <1>24, <1>27, <2>1 DEF row, others
  <2>3. SUFFICES ASSUME row(i).family # row(1).family PROVE FALSE
    BY <1>24, <2>2
  <2>4. leading # {}
    BY <1>11, <2>2, <2>3
  <2>5. Len(lead) >= 1 /\ Len(lead) \in Nat
    BY <1>12, <2>4
  <2>6. Len(spread) >= 2
    BY <1>14, <1>15, <2>5
  <2>7. 2 \in DOMAIN answer /\ picked[2] \in leading
    <3>1. 2 \in DOMAIN answer /\ Len(spread) \in Nat /\ ~(2 > Len(spread))
      BY <1>15, <1>17, <1>19, <1>27, <2>6
    <3> QED BY <1>21, <3>1
  <2> QED BY <1>9, <1>20, <1>24, <1>27, <2>7
<1>28. IsAMatch(answer)
  BY <1>23, <1>25, <1>26, <1>27 DEF IsAMatch
<1> QED BY <1>22, <1>28

(* The lookups under way, and everything a question is answered from.      *)
Looking ==
  /\ Borne
  /\ lookups \in Seq(rows) /\ Distinct(lookups)
  /\ \A i \in DOMAIN inspected, j \in DOMAIN lookups : inspected[i].row # lookups[j]

RecommendationsIInv ==
  /\ stored \in SUBSET Row /\ held \in SUBSET Row
  /\ cached # Nothing => cached.rows \in SUBSET Row /\ cached.source \in {{}, cached.rows}
  /\ InMemory
  /\ stage \in {"idle", "reading", "looking"} /\ (stage # "idle" => need \in Needs)
  /\ stage = "looking" => Looking
  /\ RecommendationsFit

RecommendationsSpec == RecommendationsInit /\ [][RecommendationsNext]_recommendationVars

LEMMA RecommendationsInitInv == RecommendationsInit => RecommendationsIInv
BY DEF RecommendationsInit, RecommendationsIInv, RecommendationsFit, InMemory

LEMMA StartLooks ==
  ASSUME NEW from \in SUBSET Row, NEW q \in Needs, NEW memory \in {{}, from}, need' = q,
         StartWith(from, memory, q)
  PROVE  Looking' /\ stage' = "looking" /\ InMemory'
<1>1. /\ rows' = from /\ lookups' = ToLookUp(from, q) /\ inspected' = << >> /\ reply' = << >> /\ stage' = "looking"
      /\ basis' = memory
  BY DEF StartWith
<1>2. lookups' \in Seq(rows') /\ Distinct(lookups')
  BY <1>1, ToLookUpFits
<1>3. inspected' \in Seq(Noted(rows')) /\ DOMAIN inspected' = {}
  BY <1>1
<1>4. Borne'
  BY <1>1, <1>3 DEF Borne
<1> QED BY <1>1, <1>2, <1>3, <1>4 DEF Looking, Distinct, InMemory

LEMMA AskKeeps ==
  ASSUME RecommendationsIInv, NEW q \in Needs, Ask(q)
  PROVE  RecommendationsIInv'
<1>1. stage = "idle" /\ need' = q /\ stored' = stored /\ held' = held
  BY DEF Ask
<1>2. CASE cached # Nothing /\ cached.source = held
  <2>1. StartWith(cached.rows, held, q) /\ cached' = cached
    BY <1>2 DEF Ask
  <2>2. Looking' /\ stage' = "looking" /\ InMemory'
    BY <1>1, <1>2, <2>1, StartLooks DEF RecommendationsIInv
  <2> QED BY <1>1, <2>1, <2>2 DEF RecommendationsIInv, RecommendationsFit
<1>3. CASE ~(cached # Nothing /\ cached.source = held) /\ held # {}
  <2>1. StartWith(held, held, q) /\ cached' = [source |-> held, rows |-> held]
    BY <1>3 DEF Ask
  <2>2. Looking' /\ stage' = "looking" /\ InMemory'
    BY <1>1, <2>1, StartLooks DEF RecommendationsIInv
  <2>3. cached'.rows = held /\ cached'.source = held
    BY <2>1
  <2> QED BY <1>1, <2>1, <2>2, <2>3 DEF RecommendationsIInv, RecommendationsFit
<1>4. CASE ~(cached # Nothing /\ cached.source = held) /\ held = {}
  <2>1. stage' = "reading" /\ cached' = cached /\ rows' = rows /\ basis' = basis
    BY <1>4 DEF Ask
  <2> QED BY <1>1, <2>1 DEF RecommendationsIInv, RecommendationsFit, InMemory
<1> QED BY <1>2, <1>3, <1>4

LEMMA ReadAgainKeeps ==
  ASSUME RecommendationsIInv, ReadAgain
  PROVE  RecommendationsIInv'
<1>1. /\ stage = "reading" /\ held' = stored /\ cached' \in {cached, [source |-> {}, rows |-> stored]}
      /\ StartWith(stored, stored, need) /\ stored' = stored /\ need' = need
  BY DEF ReadAgain
<1>2. stored \in SUBSET Row /\ need \in Needs
  BY <1>1 DEF RecommendationsIInv
<1>3. Looking' /\ stage' = "looking" /\ InMemory'
  BY <1>1, <1>2, StartLooks
<1>4. cached' = cached \/ (cached'.rows = stored /\ cached'.source = {})
  BY <1>1
<1> QED BY <1>1, <1>2, <1>3, <1>4 DEF RecommendationsIInv, RecommendationsFit

LEMMA LookUpKeeps ==
  ASSUME RecommendationsIInv, NEW page \in Pages, LookUp(page)
  PROVE  RecommendationsIInv'
<1> DEFINE ref == IF need.kind = "match" THEN Evidence(page, {}, {})
                  ELSE Evidence(page, need.audiences, need.qualities)
           r == Head(lookups)
           found == Inspection(r, ref, need)
<1>1. /\ stage = "looking" /\ lookups # << >>
      /\ inspected' = IF Passes(ref, need) THEN Append(inspected, found) ELSE inspected
      /\ lookups' = << >> \/ lookups' = Tail(lookups)
      /\ stored' = stored /\ held' = held /\ cached' = cached /\ need' = need /\ stage' = stage /\ rows' = rows
      /\ basis' = basis
  BY DEF LookUp
<1>2. /\ Borne /\ lookups \in Seq(rows) /\ Distinct(lookups)
      /\ \A i \in DOMAIN inspected, j \in DOMAIN lookups : inspected[i].row # lookups[j]
  BY <1>1 DEF RecommendationsIInv, Looking
<1>3. /\ need \in Needs /\ rows \in SUBSET Row /\ inspected \in Seq(Noted(rows))
      /\ \A i, j \in DOMAIN inspected : i # j => inspected[i].row # inspected[j].row
  BY <1>2 DEF Borne
<1>4. r \in rows /\ r = lookups[1] /\ 1 \in DOMAIN lookups /\ found.row = r /\ found.ref = ref
  BY <1>1, <1>2 DEF Inspection
<1>5. /\ lookups' \in Seq(rows) /\ Distinct(lookups')
      /\ \A j \in DOMAIN lookups' : lookups'[j] # r /\ \E k \in DOMAIN lookups : lookups'[j] = lookups[k]
  <2>1. CASE lookups' = << >>
    BY <2>1 DEF Distinct
  <2>2. CASE lookups' = Tail(lookups)
    <3>1. /\ lookups' \in Seq(rows) /\ DOMAIN lookups = 1..Len(lookups) /\ Len(lookups) \in Nat
          /\ DOMAIN lookups' = 1..(Len(lookups) - 1)
          /\ \A j \in 1..(Len(lookups) - 1) : lookups'[j] = lookups[j + 1]
      BY <1>1, <1>2, <2>2
    <3>2. ASSUME NEW j \in DOMAIN lookups'
          PROVE  j + 1 \in DOMAIN lookups /\ j + 1 # 1 /\ lookups'[j] = lookups[j + 1] /\ j \in Int
      BY <3>1
    <3>3. Distinct(lookups')
      <4>1. SUFFICES ASSUME NEW i \in DOMAIN lookups', NEW j \in DOMAIN lookups', i # j
                     PROVE  lookups'[i] # lookups'[j]
        BY DEF Distinct
      <4>2. i + 1 # j + 1
        BY <3>2, <4>1
      <4> QED BY <1>2, <3>2, <4>2 DEF Distinct
    <3> QED BY <1>2, <1>4, <3>1, <3>2, <3>3 DEF Distinct
  <2> QED BY <1>1, <2>1, <2>2
<1>6. CASE ~Passes(ref, need)
  <2>1. inspected' = inspected
    BY <1>1, <1>6
  <2>2. Looking'
    <3>1. Borne'
      BY <1>1, <1>2, <2>1 DEF Borne
    <3>2. \A i \in DOMAIN inspected', j \in DOMAIN lookups' : inspected'[i].row # lookups'[j]
      BY <1>2, <1>5, <2>1
    <3> QED BY <1>1, <1>5, <3>1, <3>2 DEF Looking
  <2> QED BY <1>1, <2>2 DEF RecommendationsIInv, RecommendationsFit, InMemory
<1>7. CASE Passes(ref, need)
  <2>1. inspected' = Append(inspected, found)
    BY <1>1, <1>7
  <2>2. /\ ref \in Hits
        /\ need.kind = "recommend" => /\ Compatible(need.audiences, ref.audiences)
                                      /\ ~(need.dry /\ "sweet" \in ref.qualities)
    <3>1. ref # Nothing /\ (need.kind = "recommend" => ~(need.dry /\ "sweet" \in ref.qualities))
      BY <1>7 DEF Passes
    <3>2. CASE need.kind = "match"
      <4>1. ref = Evidence(page, {}, {})
        BY <3>2
      <4> QED BY <3>1, <3>2, <4>1, EvidenceMeets
    <3>3. CASE need.kind # "match"
      <4>1. ref = Evidence(page, need.audiences, need.qualities)
        BY <3>3
      <4> HIDE DEF ref
      <4> QED BY <3>1, <4>1, EvidenceMeets
    <3> QED BY <3>2, <3>3
  <2> HIDE DEF ref
  <2>3. found \in Noted(rows)
    BY <1>3, <1>4, <2>2, InspectionIsNoted
  <2> HIDE DEF found, r
  <2>4. /\ inspected' \in Seq(Noted(rows)) /\ Len(inspected') = Len(inspected) + 1
        /\ DOMAIN inspected' = 1..(Len(inspected) + 1) /\ Len(inspected) \in Nat
        /\ \A i \in 1..Len(inspected) : inspected'[i] = inspected[i]
        /\ inspected'[Len(inspected) + 1] = found
    BY <1>3, <2>1, <2>3
  <2>5. ASSUME NEW i \in DOMAIN inspected'
        PROVE  \/ i \in DOMAIN inspected /\ inspected'[i] = inspected[i]
               \/ i = Len(inspected) + 1 /\ inspected'[i] = found
    BY <1>3, <2>4
  <2>6. ASSUME NEW i \in DOMAIN inspected, NEW j \in DOMAIN lookups PROVE inspected[i].row # lookups[j]
    BY <1>2
  <2>7. ASSUME NEW i \in DOMAIN inspected PROVE inspected[i].row # found.row
    BY <1>4, <2>6
  <2>8. ASSUME NEW i \in DOMAIN inspected', NEW j \in DOMAIN inspected', i # j
        PROVE  inspected'[i].row # inspected'[j].row
    BY <1>3, <2>5, <2>7, <2>8
  <2>9. ASSUME NEW i \in DOMAIN inspected', NEW j \in DOMAIN lookups' PROVE inspected'[i].row # lookups'[j]
    <3>1. PICK k \in DOMAIN lookups : lookups'[j] = lookups[k]
      BY <1>5
    <3>2. lookups'[j] # found.row
      BY <1>4, <1>5
    <3> QED BY <2>5, <2>6, <3>1, <3>2
  <2>10. need.kind = "recommend" =>
           \A i \in DOMAIN inspected' : /\ Compatible(need.audiences, inspected'[i].ref.audiences)
                                        /\ ~(need.dry /\ "sweet" \in inspected'[i].ref.qualities)
    <3>1. SUFFICES ASSUME need.kind = "recommend", NEW i \in DOMAIN inspected'
                   PROVE  /\ Compatible(need.audiences, inspected'[i].ref.audiences)
                          /\ ~(need.dry /\ "sweet" \in inspected'[i].ref.qualities)
      OBVIOUS
    <3>2. CASE i \in DOMAIN inspected /\ inspected'[i] = inspected[i]
      BY <1>2, <3>1, <3>2 DEF Borne
    <3>3. CASE inspected'[i] = found
      BY <1>4, <2>2, <3>1, <3>3
    <3> QED BY <2>5, <3>2, <3>3
  <2>11. Borne'
    <3>1. need' = need /\ rows' = rows
      BY <1>1
    <3> QED BY <1>3, <2>4, <2>8, <2>10, <3>1 DEF Borne
  <2>12. Looking'
    <3>1. rows' = rows
      BY <1>1
    <3> QED BY <1>5, <2>9, <2>11, <3>1 DEF Looking
  <2> QED BY <1>1, <2>12 DEF RecommendationsIInv, RecommendationsFit, InMemory
<1> QED BY <1>6, <1>7

(* Nothing but the reply and the stage has changed.                        *)
LEMMA FitIsKept ==
  ASSUME rows' = rows, basis' = basis, InMemory, need' = need, inspected' = inspected,
         reply' # << >> => OfTheCatalogue(reply') /\ FirstIsVerified(reply') /\ IsAMatch(reply')
  PROVE  RecommendationsFit'
<1>1. VerifiedRows' = VerifiedRows
  BY DEF VerifiedRows
<1>2. ASSUME NEW r PROVE InspectionOf(r)' = InspectionOf(r)
  BY DEF InspectionOf
<1>3. SUFFICES ASSUME stage' = "idle" /\ reply' # << >>
               PROVE  OfTheCatalogue(reply)' /\ FirstIsVerified(reply)' /\ IsAMatch(reply)'
  BY DEF InMemory, RecommendationsFit, OfTheCatalogue, FirstIsVerified, IsAMatch, VerifiedRows, InspectionOf, Among
<1>4. OfTheCatalogue(reply)'
  BY <1>3 DEF OfTheCatalogue
<1>5. FirstIsVerified(reply)'
  BY <1>1, <1>2, <1>3 DEF FirstIsVerified
<1>6. IsAMatch(reply)'
  BY <1>1, <1>2, <1>3 DEF IsAMatch
<1> QED BY <1>4, <1>5, <1>6

(* What the questions are answered from has not changed.                   *)
LEMMA LookingIsKept ==
  ASSUME need' = need, stage' = stage, rows' = rows, basis' = basis, lookups' = lookups, inspected' = inspected, reply' = reply,
         RecommendationsIInv
  PROVE  /\ stage' = "looking" => Looking'
         /\ RecommendationsFit' /\ InMemory'
<1>1. Borne => Borne'
  BY DEF Borne
<1>2. Looking => Looking'
  BY <1>1 DEF Looking
<1>3. stage = "idle" /\ reply # << >> => OfTheCatalogue(reply) /\ FirstIsVerified(reply) /\ IsAMatch(reply)
  BY FitIsItsParts DEF RecommendationsIInv
<1>4. RecommendationsFit'
  <2>1. CASE stage = "idle" /\ reply # << >>
    BY <1>3, <2>1, FitIsKept DEF RecommendationsIInv
  <2>2. CASE ~(stage = "idle" /\ reply # << >>)
    BY <2>2 DEF RecommendationsFit
  <2> QED BY <2>1, <2>2
<1> QED BY <1>2, <1>4 DEF RecommendationsIInv, InMemory

LEMMA ConcludeKeeps ==
  ASSUME RecommendationsIInv, Conclude
  PROVE  RecommendationsIInv'
<1>1. /\ stage = "looking" /\ stage' = "idle" /\ stored' = stored /\ held' = held /\ cached' = cached
      /\ need' = need /\ rows' = rows /\ basis' = basis /\ inspected' = inspected
      /\ reply' = CASE need.kind = "recommend" -> Recommended(need)
                    [] need.kind = "match" -> Matched(Ranked(inspected, need), need)
                    [] OTHER -> Described(need)
  BY DEF Conclude
<1>2. Borne
  BY <1>1 DEF RecommendationsIInv, Looking
<1>3. need.kind \in {"recommend", "match", "detail", "fit"}
  BY <1>2, NeedsAreTyped DEF Borne
<1> DEFINE answer == reply'
<1>4. ASSUME answer # << >> PROVE OfTheCatalogue(answer) /\ FirstIsVerified(answer) /\ IsAMatch(answer)
  <2>1. CASE need.kind = "recommend"
    <3>1. answer = Recommended(need)
      BY <1>1, <2>1
    <3> HIDE DEF answer
    <3>2. OfTheCatalogue(answer) /\ FirstIsVerified(answer)
      BY <1>2, <1>4, <2>1, <3>1, RecommendedFits
    <3> QED BY <2>1, <3>2 DEF IsAMatch
  <2>2. CASE need.kind = "match"
    <3>1. answer = Matched(Ranked(inspected, need), need)
      BY <1>1, <2>2
    <3> HIDE DEF answer
    <3>2. OfTheCatalogue(answer) /\ IsAMatch(answer)
      BY <1>2, <1>4, <2>2, <3>1, MatchedFits
    <3> QED BY <2>2, <3>2 DEF FirstIsVerified
  <2>3. CASE need.kind \in {"detail", "fit"}
    <3>1. answer = Described(need)
      BY <1>1, <2>3
    <3> HIDE DEF answer
    <3>2. OfTheCatalogue(answer)
      BY <1>2, <1>4, <2>3, <3>1, DescribedFits
    <3> QED BY <2>3, <3>2 DEF FirstIsVerified, IsAMatch
  <2> QED BY <1>3, <2>1, <2>2, <2>3
<1>5. reply' # << >> => OfTheCatalogue(reply') /\ FirstIsVerified(reply') /\ IsAMatch(reply')
  BY <1>4
<1> HIDE DEF answer
<1>6. RecommendationsFit'
  BY <1>1, <1>5, FitIsKept DEF RecommendationsIInv
<1> QED BY <1>1, <1>6 DEF RecommendationsIInv, InMemory

LEMMA RecommendationsStep ==
  RecommendationsIInv /\ [RecommendationsNext]_recommendationVars => RecommendationsIInv'
<1> SUFFICES ASSUME RecommendationsIInv, [RecommendationsNext]_recommendationVars
             PROVE  RecommendationsIInv'
  OBVIOUS
<1>1. ASSUME NEW q \in Needs, Ask(q) PROVE RecommendationsIInv'
  BY <1>1, AskKeeps
<1>2. CASE ReadAgain
  BY <1>2, ReadAgainKeeps
<1>3. ASSUME NEW page \in Pages, LookUp(page) PROVE RecommendationsIInv'
  BY <1>3, LookUpKeeps
<1>4. CASE Conclude
  BY <1>4, ConcludeKeeps
<1>5. ASSUME NEW version \in Versions, Publish(version) PROVE RecommendationsIInv'
  <2>1. /\ stored' \in SUBSET Row /\ held' = held /\ cached' = cached /\ need' = need /\ stage' = stage
        /\ rows' = rows /\ basis' = basis /\ lookups' = lookups /\ inspected' = inspected /\ reply' = reply
    BY <1>5, RecommendationsAssumption DEF Publish
  <2>2. (stage' = "looking" => Looking') /\ RecommendationsFit' /\ InMemory'
    BY <2>1, LookingIsKept
  <2> QED BY <2>1, <2>2 DEF RecommendationsIInv
<1>6. CASE Refresh
  <2>1. /\ held' = stored /\ stored' = stored /\ cached' = cached /\ need' = need /\ stage' = stage
        /\ rows' = rows /\ basis' = basis /\ lookups' = lookups /\ inspected' = inspected /\ reply' = reply
    BY <1>6 DEF Refresh
  <2>2. (stage' = "looking" => Looking') /\ RecommendationsFit' /\ InMemory'
    BY <2>1, LookingIsKept
  <2> QED BY <2>1, <2>2 DEF RecommendationsIInv
<1>7. CASE UNCHANGED recommendationVars
  <2>1. /\ stored' = stored /\ held' = held /\ cached' = cached /\ need' = need /\ stage' = stage
        /\ rows' = rows /\ basis' = basis /\ lookups' = lookups /\ inspected' = inspected /\ reply' = reply
    BY <1>7 DEF recommendationVars
  <2>2. (stage' = "looking" => Looking') /\ RecommendationsFit' /\ InMemory'
    BY <2>1, LookingIsKept
  <2> QED BY <2>1, <2>2 DEF RecommendationsIInv
<1> QED BY <1>1, <1>2, <1>3, <1>4, <1>5, <1>6, <1>7 DEF RecommendationsNext

(* What a customer is recommended is of the catalogue, was borne out and   *)
(* is named once: for any catalogue, any needs and whatever the web says.  *)
THEOREM RecommendationsAlwaysFit == RecommendationsSpec => []RecommendationsFit
<1>1. RecommendationsSpec => []RecommendationsIInv
  BY RecommendationsInitInv, RecommendationsStep, PTL DEF RecommendationsSpec
<1>2. RecommendationsIInv => RecommendationsFit
  BY DEF RecommendationsIInv
<1> QED BY <1>1, <1>2, PTL
=============================================================================
