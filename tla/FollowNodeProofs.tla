-------------------------- MODULE FollowNodeProofs --------------------------
(***************************************************************************)
(* Proofs about one node of the database and its client, for every set of  *)
(* names, every closure and every bound.                                   *)
(***************************************************************************)
EXTENDS FollowNode, SequenceTheorems, TLAPS

\* Writes reach the server oldest first, from the start again after a reconnection.
AppliedInOrder ==
  \A i, j \in DOMAIN pend : i < j /\ pend[j].applied => pend[i].applied

\* The newest of the unacknowledged writes of a name exists when there are any.
NewestExists ==
  \A n \in Names :
    (\E i \in DOMAIN pend : pend[i].name = n)
      => \E k \in DOMAIN pend : pend[k].name = n /\ Newest(pend, k)

\* While nobody overrides what this client last wrote of a name, its newest
\* unacknowledged write of the name is that one, and what the server holds is
\* its result as soon as it is applied and until it is acknowledged.
Settled ==
  \A n \in Names : intent[n] # "none" =>
    /\ \A i \in DOMAIN pend : pend[i].name = n /\ Newest(pend, i) =>
         /\ pend[i].op = intent[n]
         /\ pend[i].applied => (n \in server <=> intent[n] = "add")
    /\ (\A i \in DOMAIN pend : pend[i].name # n)
         => (n \in server <=> intent[n] = "add")

NodeInv == NodeTypeOK /\ AppliedInOrder /\ NewestExists /\ Settled

-----------------------------------------------------------------------------
(* What the changes of the sequence of pending writes do to its elements.  *)

\* Setting the flag of one write changes nothing else.
LEMMA MarkApplied ==
  ASSUME NEW p \in Seq(WriteRec), NEW i \in DOMAIN p, NEW q,
         q = [p EXCEPT ![i].applied = TRUE]
  PROVE  /\ q \in Seq(WriteRec)
         /\ DOMAIN q = DOMAIN p
         /\ \A j \in DOMAIN p :
              /\ q[j].name = p[j].name /\ q[j].op = p[j].op
              /\ q[j].applied = IF j = i THEN TRUE ELSE p[j].applied
<1> DEFINE e == [p[i] EXCEPT !.applied = TRUE]
<1>1. p \in [1 .. Len(p) -> WriteRec] /\ i \in 1 .. Len(p)
  BY LenProperties
<1>2. p[i] \in WriteRec
  BY <1>1
<1>3. e \in WriteRec /\ e.name = p[i].name /\ e.op = p[i].op /\ e.applied = TRUE
  BY <1>2 DEF WriteRec
<1>4. q = [p EXCEPT ![i] = e]
  OBVIOUS
<1> HIDE DEF e
<1>5. q \in [1 .. Len(p) -> WriteRec]
  BY <1>1, <1>3, <1>4
<1>6. q \in Seq(WriteRec)
  BY <1>5, LenProperties
<1>7. QED
  BY <1>1, <1>3, <1>4, <1>5, <1>6

\* After a reconnection every write counts as not applied.
LEMMA MarkUnapplied ==
  ASSUME NEW p \in Seq(WriteRec), NEW q,
         q = [i \in DOMAIN p |-> [p[i] EXCEPT !.applied = FALSE]]
  PROVE  /\ q \in Seq(WriteRec)
         /\ DOMAIN q = DOMAIN p
         /\ \A j \in DOMAIN p :
              q[j].name = p[j].name /\ q[j].op = p[j].op /\ q[j].applied = FALSE
<1>1. Len(p) \in Nat /\ p \in [1 .. Len(p) -> WriteRec]
  BY LenProperties
<1>2. \A j \in DOMAIN p :
        /\ q[j] \in WriteRec
        /\ q[j].name = p[j].name /\ q[j].op = p[j].op /\ q[j].applied = FALSE
  BY <1>1 DEF WriteRec
<1>3. q \in [1 .. Len(p) -> WriteRec]
  BY <1>1, <1>2
<1>4. QED
  BY <1>1, <1>2, <1>3

\* Dropping the oldest write shifts the others.
LEMMA DropOldest ==
  ASSUME NEW p \in Seq(WriteRec), p # <<>>
  PROVE  /\ Tail(p) \in Seq(WriteRec)
         /\ Head(p) = p[1] /\ Head(p) \in WriteRec
         /\ Len(p) \in Nat \ {0}
         /\ DOMAIN p = 1 .. Len(p)
         /\ DOMAIN Tail(p) = 1 .. Len(p) - 1
         /\ \A j \in 1 .. Len(p) - 1 : Tail(p)[j] = p[j + 1]
<1>1. Len(p) \in Nat \ {0} /\ p \in [1 .. Len(p) -> WriteRec]
  BY LenProperties, EmptySeq
<1>2. /\ Tail(p) \in Seq(WriteRec) /\ Len(Tail(p)) = Len(p) - 1
      /\ \A j \in 1 .. Len(Tail(p)) : Tail(p)[j] = p[j + 1]
  BY HeadTailProperties
<1>3. QED
  BY <1>1, <1>2, LenProperties

-----------------------------------------------------------------------------
(* Types.                                                                  *)

\* A step of the node, whoever takes it, keeps the types of its variables.
LEMMA NodeStepTyping ==
  ASSUME NodeTypeOK, NodeStep
  PROVE  NodeTypeOK'
<1> USE DEF NodeTypeOK
<1>1. CASE ServerApply
  <2>1. PICK i \in DOMAIN pend :
          /\ server' \in {server \cup {pend[i].name}, server \ {pend[i].name}}
          /\ pend' = [pend EXCEPT ![i].applied = TRUE]
          /\ UNCHANGED <<reads, mainQueue, intent>>
    BY <1>1 DEF ServerApply
  <2>2. pend' \in Seq(WriteRec)
    BY <2>1, MarkApplied
  <2>3. pend[i].name \in Names
    <3>1. pend \in [1 .. Len(pend) -> WriteRec]
      BY LenProperties
    <3>2. pend[i] \in WriteRec
      BY <2>1, <3>1
    <3>3. QED
      BY <3>2 DEF WriteRec
  <2>4. QED
    BY <2>1, <2>2, <2>3
<1>2. CASE AckWrite \/ RefuseWrite
  <2>1. /\ pend # <<>> /\ pend' = Tail(pend)
        /\ UNCHANGED <<server, reads>>
    BY <1>2 DEF AckWrite, RefuseWrite, Answered
  <2>2. Tail(pend) \in Seq(WriteRec) /\ Head(pend) \in WriteRec
    BY <2>1, DropOldest
  <2>3. mainQueue' \in Seq(MainItem)
    <3>1. CASE Head(pend).done = NoCallback
      BY <1>2, <3>1 DEF AckWrite, RefuseWrite, Answered
    <3>2. CASE Head(pend).done # NoCallback
      <4>1. PICK ok \in BOOLEAN :
              mainQueue' = Append(mainQueue, Ack(Head(pend).done, ok))
        BY <1>2, <3>2 DEF AckWrite, RefuseWrite, Answered
      <4>2. Ack(Head(pend).done, ok) \in MainItem
        BY <2>2, <3>2 DEF WriteRec, Ack, MainItem
      <4>3. QED
        BY <4>1, <4>2, AppendProperties
    <3>3. QED
      BY <3>1, <3>2
  <2>4. intent' \in [Names -> Ops \cup {"none"}]
    BY <1>2 DEF AckWrite, RefuseWrite
  <2>5. QED
    BY <2>1, <2>2, <2>3, <2>4
<1>3. CASE ConnectionLost
  BY <1>3, MarkUnapplied DEF ConnectionLost
<1>4. CASE RaiseValue
  <2>1. /\ reads # <<>>
        /\ mainQueue' = Append(mainQueue,
                               Value(Head(reads), Overlay(server, pend)))
        /\ reads' = Tail(reads)
        /\ UNCHANGED <<server, pend, intent>>
    BY <1>4 DEF RaiseValue
  <2>2. Head(reads) \in Callbacks /\ Tail(reads) \in Seq(Callbacks)
    BY <2>1, HeadTailProperties
  <2>3. Value(Head(reads), Overlay(server, pend)) \in MainItem
    BY <2>2 DEF Value, MainItem, Overlay
  <2>4. QED
    BY <2>1, <2>2, <2>3, AppendProperties
<1>5. CASE OtherDevice
  BY <1>5 DEF OtherDevice
<1>6. QED
  BY <1>1, <1>2, <1>3, <1>4, <1>5 DEF NodeStep

-----------------------------------------------------------------------------
(* Reading one's own writes.                                               *)

\* Adding a write of one name makes it the newest of that name and leaves the
\* newest of every other name the newest.
LEMMA WriteKeepsInv ==
  ASSUME NodeInv, NodeTypeOK', NEW op \in Ops, NEW n \in Names, NEW c,
         Write(op, n, c), UNCHANGED server
  PROVE  NodeInv'
<1> DEFINE w == [op |-> op, name |-> n, applied |-> FALSE, done |-> c]
<1>1. pend \in Seq(WriteRec) /\ pend' \in Seq(WriteRec) /\ pend' = Append(pend, w)
  BY DEF NodeInv, NodeTypeOK, Write
<1>2. /\ Len(pend) \in Nat /\ DOMAIN pend = 1 .. Len(pend)
      /\ DOMAIN pend' = 1 .. Len(pend) + 1
      /\ \A i \in 1 .. Len(pend) : pend'[i] = pend[i]
      /\ pend'[Len(pend) + 1] = w
  BY <1>1, LenProperties
<1>3. intent' = [intent EXCEPT ![n] = op] /\ intent \in [Names -> Ops \cup {"none"}]
  BY DEF NodeInv, NodeTypeOK, Write
<1>4. AppliedInOrder'
  BY <1>2 DEF NodeInv, AppliedInOrder
<1>5. NewestExists'
  <2> SUFFICES ASSUME NEW m \in Names, NEW i \in DOMAIN pend', pend'[i].name = m
               PROVE  \E k \in DOMAIN pend' : pend'[k].name = m /\ Newest(pend', k)
    BY DEF NewestExists
  <2>1. CASE m = n
    BY <2>1, <1>2 DEF Newest
  <2>2. CASE m # n
    <3>1. i \in DOMAIN pend /\ pend[i].name = m
      BY <2>2, <1>2
    <3>2. PICK k \in DOMAIN pend : pend[k].name = m /\ Newest(pend, k)
      BY <3>1 DEF NodeInv, NewestExists
    <3>3. QED
      BY <2>2, <3>2, <1>2 DEF Newest
  <2>3. QED
    BY <2>1, <2>2
<1>6. Settled'
  <2> SUFFICES ASSUME NEW m \in Names, intent'[m] # "none"
               PROVE  /\ \A i \in DOMAIN pend' :
                           pend'[i].name = m /\ Newest(pend', i) =>
                             /\ pend'[i].op = intent'[m]
                             /\ pend'[i].applied =>
                                  (m \in server' <=> intent'[m] = "add")
                      /\ (\A i \in DOMAIN pend' : pend'[i].name # m)
                           => (m \in server' <=> intent'[m] = "add")
    BY DEF Settled
  <2>1. CASE m = n
    <3>1. \A i \in DOMAIN pend' : pend'[i].name = m /\ Newest(pend', i)
            => i = Len(pend) + 1
      BY <2>1, <1>2 DEF Newest
    <3>2. QED
      BY <2>1, <3>1, <1>2, <1>3
  <2>2. CASE m # n
    <3>1. \A i \in DOMAIN pend' : pend'[i].name = m /\ Newest(pend', i)
            => i \in DOMAIN pend /\ Newest(pend, i)
      BY <2>2, <1>2 DEF Newest
    <3>2. (\A i \in DOMAIN pend' : pend'[i].name # m)
            => \A i \in DOMAIN pend : pend[i].name # m
      BY <1>2
    <3>3. intent'[m] = intent[m]
      BY <2>2, <1>3
    <3>4. QED
      BY <2>2, <3>1, <3>2, <3>3, <1>2 DEF NodeInv, Settled
  <2>3. QED
    BY <2>1, <2>2
<1>7. QED
  BY <1>4, <1>5, <1>6 DEF NodeInv

\* The server applies a write: it is the oldest that was not, so when it is
\* the newest of its name the server now holds what that name should be, and
\* when it is not, the newest one is not applied yet.
LEMMA ServerApplyKeepsInv ==
  ASSUME NodeInv, NodeTypeOK', ServerApply
  PROVE  NodeInv'
<1>1. PICK i \in DOMAIN pend :
        /\ ~pend[i].applied
        /\ \A j \in DOMAIN pend : j < i => pend[j].applied
        /\ server' = IF pend[i].op = "add" THEN server \cup {pend[i].name}
                                            ELSE server \ {pend[i].name}
        /\ pend' = [pend EXCEPT ![i].applied = TRUE]
        /\ intent' = intent
  BY DEF ServerApply
<1>2. pend \in Seq(WriteRec) /\ DOMAIN pend = 1 .. Len(pend) /\ Len(pend) \in Nat
  BY LenProperties DEF NodeInv, NodeTypeOK
<1>3. /\ DOMAIN pend' = DOMAIN pend
      /\ \A j \in DOMAIN pend :
           /\ pend'[j].name = pend[j].name /\ pend'[j].op = pend[j].op
           /\ pend'[j].applied = IF j = i THEN TRUE ELSE pend[j].applied
  BY <1>1, <1>2, MarkApplied
<1>4. \A j \in DOMAIN pend : Newest(pend', j) <=> Newest(pend, j)
  BY <1>3 DEF Newest
<1>5. AppliedInOrder'
  BY <1>1, <1>2, <1>3 DEF NodeInv, AppliedInOrder
<1>6. NewestExists'
  BY <1>3, <1>4 DEF NodeInv, NewestExists
<1>7. Settled'
  <2> SUFFICES ASSUME NEW m \in Names, intent'[m] # "none"
               PROVE  /\ \A k \in DOMAIN pend' :
                           pend'[k].name = m /\ Newest(pend', k) =>
                             /\ pend'[k].op = intent'[m]
                             /\ pend'[k].applied =>
                                  (m \in server' <=> intent'[m] = "add")
                      /\ (\A k \in DOMAIN pend' : pend'[k].name # m)
                           => (m \in server' <=> intent'[m] = "add")
    BY DEF Settled
  <2>1. intent'[m] = intent[m] /\ intent[m] \in Ops
    BY <1>1 DEF NodeInv, NodeTypeOK
  <2>2. /\ \A k \in DOMAIN pend : pend[k].name = m /\ Newest(pend, k) =>
             /\ pend[k].op = intent[m]
             /\ pend[k].applied => (m \in server <=> intent[m] = "add")
        /\ (\A k \in DOMAIN pend : pend[k].name # m)
             => (m \in server <=> intent[m] = "add")
    BY <2>1 DEF NodeInv, Settled
  <2>3. CASE pend[i].name = m
    <3>1. \A k \in DOMAIN pend : pend[k].name = m /\ Newest(pend, k)
            => k = i \/ ~pend[k].applied
      BY <1>1, <1>2, <2>3 DEF NodeInv, AppliedInOrder, Newest
    <3>2. m \in server' <=> pend[i].op = "add"
      BY <1>1, <2>3
    <3>3. QED
      BY <1>3, <1>4, <2>1, <2>2, <2>3, <3>1, <3>2
  <2>4. CASE pend[i].name # m
    <3>1. m \in server' <=> m \in server
      BY <1>1, <2>4
    <3>2. QED
      BY <1>3, <1>4, <2>1, <2>2, <2>4, <3>1
  <2>5. QED
    BY <2>3, <2>4
<1>8. QED
  BY <1>5, <1>6, <1>7 DEF NodeInv

\* The oldest write is dropped, acknowledged or refused: the others keep their
\* order, and what it leaves behind is on the server if it was acknowledged.
LEMMA AnswerKeepsInv ==
  ASSUME NodeInv, NodeTypeOK', AckWrite \/ RefuseWrite
  PROVE  NodeInv'
<1>1. pend # <<>> /\ pend' = Tail(pend) /\ server' = server
  BY DEF AckWrite, RefuseWrite, Answered
<1>2. pend \in Seq(WriteRec)
  BY DEF NodeInv, NodeTypeOK
<1>3. /\ Head(pend) = pend[1] /\ Head(pend) \in WriteRec
      /\ Len(pend) \in Nat \ {0}
      /\ DOMAIN pend = 1 .. Len(pend)
      /\ DOMAIN pend' = 1 .. Len(pend) - 1
      /\ \A j \in 1 .. Len(pend) - 1 : pend'[j] = pend[j + 1]
  BY <1>1, <1>2, DropOldest
<1>4. \A j \in DOMAIN pend' :
        /\ j + 1 \in DOMAIN pend
        /\ Newest(pend', j) <=> Newest(pend, j + 1)
  <2> SUFFICES ASSUME NEW j \in DOMAIN pend'
               PROVE  j + 1 \in DOMAIN pend
                      /\ (Newest(pend', j) <=> Newest(pend, j + 1))
    OBVIOUS
  <2>1. j + 1 \in DOMAIN pend
    BY <1>3
  <2>2. ASSUME Newest(pend', j), NEW k \in DOMAIN pend, k > j + 1
        PROVE  pend[k].name # pend[j + 1].name
    <3>1. k - 1 \in DOMAIN pend' /\ k - 1 > j /\ (k - 1) + 1 = k
      BY <1>3, <2>2
    <3>2. QED
      BY <1>3, <2>2, <3>1 DEF Newest
  <2>3. ASSUME Newest(pend, j + 1), NEW k \in DOMAIN pend', k > j
        PROVE  pend'[k].name # pend'[j].name
    BY <1>3, <2>3 DEF Newest
  <2>4. QED
    BY <2>1, <2>2, <2>3 DEF Newest
<1>5. \A k \in DOMAIN pend : k # 1 => k - 1 \in DOMAIN pend' /\ pend'[k - 1] = pend[k]
  <2> SUFFICES ASSUME NEW k \in DOMAIN pend, k # 1
               PROVE  k - 1 \in DOMAIN pend' /\ pend'[k - 1] = pend[k]
    OBVIOUS
  <2>1. k - 1 \in 1 .. Len(pend) - 1 /\ (k - 1) + 1 = k
    BY <1>3
  <2>2. QED
    BY <1>3, <2>1
<1>6. AppliedInOrder'
  <2> SUFFICES ASSUME NEW i \in DOMAIN pend', NEW j \in DOMAIN pend', i < j,
                      pend'[j].applied
               PROVE  pend'[i].applied
    BY DEF AppliedInOrder
  <2>1. /\ i + 1 \in DOMAIN pend /\ j + 1 \in DOMAIN pend /\ i + 1 < j + 1
        /\ pend'[i] = pend[i + 1] /\ pend'[j] = pend[j + 1]
    BY <1>3
  <2>2. QED
    BY <2>1 DEF NodeInv, AppliedInOrder
<1>7. NewestExists'
  <2> SUFFICES ASSUME NEW m \in Names, NEW i \in DOMAIN pend', pend'[i].name = m
               PROVE  \E k \in DOMAIN pend' : pend'[k].name = m /\ Newest(pend', k)
    BY DEF NewestExists
  <2>1. i + 1 \in DOMAIN pend /\ pend[i + 1].name = m
    BY <1>3, <1>4
  <2>2. PICK k \in DOMAIN pend : pend[k].name = m /\ Newest(pend, k)
    BY <2>1 DEF NodeInv, NewestExists
  <2>3. k # 1
    BY <2>1, <2>2, <1>3 DEF Newest
  <2>4. k - 1 \in DOMAIN pend' /\ pend'[k - 1] = pend[k] /\ (k - 1) + 1 = k
    BY <1>3, <1>5, <2>3
  <2>5. QED
    BY <1>4, <2>2, <2>4
<1>8. Settled'
  <2> SUFFICES ASSUME NEW m \in Names, intent'[m] # "none"
               PROVE  /\ \A i \in DOMAIN pend' :
                           pend'[i].name = m /\ Newest(pend', i) =>
                             /\ pend'[i].op = intent'[m]
                             /\ pend'[i].applied =>
                                  (m \in server' <=> intent'[m] = "add")
                      /\ (\A i \in DOMAIN pend' : pend'[i].name # m)
                           => (m \in server' <=> intent'[m] = "add")
    BY DEF Settled
  <2>1. intent'[m] = intent[m] /\ (RefuseWrite => pend[1].name # m)
    <3>1. intent \in [Names -> Ops \cup {"none"}]
      BY DEF NodeInv, NodeTypeOK
    <3>2. CASE AckWrite
      <4>1. ~RefuseWrite
        BY <3>2 DEF AckWrite, RefuseWrite
      <4>2. QED
        BY <3>2, <4>1 DEF AckWrite
    <3>3. CASE RefuseWrite
      <4>1. intent' = [intent EXCEPT ![pend[1].name] = "none"]
        BY <1>3, <3>3 DEF RefuseWrite
      <4>2. QED
        BY <3>1, <4>1
    <3>4. QED
      BY <3>2, <3>3
  <2>2. \A i \in DOMAIN pend : pend[i].name = m /\ Newest(pend, i) =>
          /\ pend[i].op = intent[m]
          /\ pend[i].applied => (m \in server <=> intent[m] = "add")
    BY <2>1 DEF NodeInv, Settled
  <2>3. \A i \in DOMAIN pend' : pend'[i].name = m /\ Newest(pend', i) =>
          /\ pend'[i].op = intent'[m]
          /\ pend'[i].applied => (m \in server' <=> intent'[m] = "add")
    <3> SUFFICES ASSUME NEW i \in DOMAIN pend', pend'[i].name = m, Newest(pend', i)
                 PROVE  /\ pend'[i].op = intent'[m]
                        /\ pend'[i].applied => (m \in server' <=> intent'[m] = "add")
      OBVIOUS
    <3>1. i + 1 \in DOMAIN pend /\ Newest(pend, i + 1) /\ pend'[i] = pend[i + 1]
      BY <1>3, <1>4
    <3>2. QED
      BY <1>1, <2>1, <2>2, <3>1
  <2>4. ASSUME \A i \in DOMAIN pend' : pend'[i].name # m
        PROVE  m \in server' <=> intent'[m] = "add"
    <3>1. \A k \in DOMAIN pend : pend[k].name = m => k = 1
      BY <1>5, <2>4
    <3>2. CASE pend[1].name = m
      <4>1. AckWrite /\ pend[1].applied
        BY <2>1, <3>2, <1>3 DEF AckWrite
      <4>2. 1 \in DOMAIN pend /\ Newest(pend, 1)
        BY <1>3, <3>1, <3>2 DEF Newest
      <4>3. QED
        BY <1>1, <2>1, <2>2, <3>2, <4>1, <4>2
    <3>3. CASE pend[1].name # m
      <4>1. \A k \in DOMAIN pend : pend[k].name # m
        BY <3>1, <3>3
      <4>2. QED
        BY <1>1, <2>1, <4>1 DEF NodeInv, Settled
    <3>4. QED
      BY <3>2, <3>3
  <2>5. QED
    BY <2>3, <2>4
<1>9. QED
  BY <1>6, <1>7, <1>8 DEF NodeInv

\* Sending everything again after a reconnection promises less of the server
\* and changes nothing else.
LEMMA ConnectionLostKeepsInv ==
  ASSUME NodeInv, NodeTypeOK', ConnectionLost
  PROVE  NodeInv'
<1>1. /\ DOMAIN pend' = DOMAIN pend /\ server' = server /\ intent' = intent
      /\ \A j \in DOMAIN pend :
           /\ pend'[j].name = pend[j].name /\ pend'[j].op = pend[j].op
           /\ pend'[j].applied = FALSE
  <2>1. /\ pend \in Seq(WriteRec) /\ server' = server /\ intent' = intent
        /\ pend' = [i \in DOMAIN pend |-> [pend[i] EXCEPT !.applied = FALSE]]
    BY DEF ConnectionLost, NodeInv, NodeTypeOK
  <2>2. /\ DOMAIN pend' = DOMAIN pend
        /\ \A j \in DOMAIN pend :
             pend'[j].name = pend[j].name /\ pend'[j].op = pend[j].op /\ pend'[j].applied = FALSE
    <3>1. \A j \in DOMAIN pend : pend[j] \in WriteRec
      BY <2>1
    <3>2. DOMAIN pend' = DOMAIN pend
      BY <2>1
    <3>3. \A j \in DOMAIN pend : pend'[j] = [pend[j] EXCEPT !.applied = FALSE]
      BY <2>1
    <3>4. QED
      BY <3>1, <3>2, <3>3 DEF WriteRec
  <2>3. QED
    BY <2>1, <2>2
<1>2. \A j \in DOMAIN pend : Newest(pend', j) <=> Newest(pend, j)
  BY <1>1 DEF Newest
<1>3. AppliedInOrder' /\ NewestExists'
  BY <1>1, <1>2 DEF NodeInv, AppliedInOrder, NewestExists
<1>4. Settled'
  <2> SUFFICES ASSUME NEW m \in Names, intent'[m] # "none"
               PROVE  /\ \A i \in DOMAIN pend' :
                           pend'[i].name = m /\ Newest(pend', i) =>
                             /\ pend'[i].op = intent'[m]
                             /\ pend'[i].applied =>
                                  (m \in server' <=> intent'[m] = "add")
                      /\ (\A i \in DOMAIN pend' : pend'[i].name # m)
                           => (m \in server' <=> intent'[m] = "add")
    BY DEF Settled
  <2>1. QED
    BY <1>1, <1>2 DEF NodeInv, Settled
<1>5. QED
  BY <1>3, <1>4 DEF NodeInv

\* What another device writes overrides the intent of that name only.
LEMMA OtherDeviceKeepsInv ==
  ASSUME NodeInv, NodeTypeOK', OtherDevice
  PROVE  NodeInv'
<1>1. PICK n \in Names :
        /\ server' \in {server \cup {n}, server \ {n}}
        /\ intent' = [intent EXCEPT ![n] = "none"]
        /\ pend' = pend
  BY DEF OtherDevice
<1>2. \A m \in Names : intent'[m] # "none" =>
        m # n /\ intent'[m] = intent[m] /\ (m \in server' <=> m \in server)
  BY <1>1 DEF NodeInv, NodeTypeOK
<1>3. Settled'
  BY <1>1, <1>2 DEF NodeInv, Settled, Newest
<1>4. QED
  BY <1>1, <1>3 DEF NodeInv, AppliedInOrder, NewestExists, Newest

\* With the process go its writes; a name keeps its intent only if the server
\* has the last of them.
LEMMA ClientLostKeepsInv ==
  ASSUME NodeInv, NodeTypeOK', ClientLost
  PROVE  NodeInv'
<1>1. pend' = <<>> /\ server' = server /\ DOMAIN pend' = {}
  BY DEF ClientLost
<1>2. ASSUME NEW m \in Names, intent'[m] # "none"
      PROVE  m \in server' <=> intent'[m] = "add"
  <2>1. /\ intent'[m] = intent[m]
        /\ \A i \in DOMAIN pend : pend[i].name = m => pend[i].applied
    BY <1>2 DEF ClientLost
  <2>2. CASE \A i \in DOMAIN pend : pend[i].name # m
    BY <1>1, <1>2, <2>1, <2>2 DEF NodeInv, Settled
  <2>3. CASE \E i \in DOMAIN pend : pend[i].name = m
    <3>1. PICK k \in DOMAIN pend : pend[k].name = m /\ Newest(pend, k)
      BY <2>3 DEF NodeInv, NewestExists
    <3>2. QED
      BY <1>1, <1>2, <2>1, <3>1 DEF NodeInv, Settled
  <2>4. QED
    BY <2>2, <2>3
<1>3. AppliedInOrder' /\ NewestExists' /\ Settled'
  BY <1>1, <1>2 DEF AppliedInOrder, NewestExists, Settled
<1>4. QED
  BY <1>3 DEF NodeInv

\* Every variable of the node keeps its type: in particular the main queue
\* holds completions only of writes that have one.
LEMMA NodeTyping == NodeSpec => []NodeTypeOK
<1>1. NodeInit => NodeTypeOK
  BY DEF NodeInit, NodeTypeOK, Ops
<1>2. NodeTypeOK /\ [NodeNext]_nodeVars => NodeTypeOK'
  <2> SUFFICES ASSUME NodeTypeOK, [NodeNext]_nodeVars PROVE NodeTypeOK'
    OBVIOUS
  <2> USE DEF NodeTypeOK
  <2>1. CASE ClientWrite
    BY <2>1, AppendProperties DEF ClientWrite, Write, WriteRec
  <2>2. CASE ClientObserve
    BY <2>2 DEF ClientObserve, Observe
  <2>3. CASE ClientDispatch
    BY <2>3, HeadTailProperties DEF ClientDispatch, Dispatch
  <2>4. CASE NodeStep
    BY <2>4, NodeStepTyping
  <2>5. CASE ClientLost
    BY <2>5 DEF ClientLost, Ops
  <2>6. CASE UNCHANGED nodeVars
    BY <2>6 DEF nodeVars
  <2>7. QED
    BY <2>1, <2>2, <2>3, <2>4, <2>5, <2>6 DEF NodeNext
<1>3. QED
  BY <1>1, <1>2, PTL DEF NodeSpec

\* A step that touches neither the writes nor the server keeps the invariant.
LEMMA QuietKeepsInv ==
  ASSUME NodeInv, NodeTypeOK', UNCHANGED <<server, pend, intent>>
  PROVE  NodeInv'
BY DEF NodeInv, AppliedInOrder, NewestExists, Settled, Newest

\* The steps of the client, the server and the network keep the invariant.
LEMMA NodeStepKeepsInv ==
  ASSUME NodeInv, NodeStep
  PROVE  NodeInv'
<1>1. NodeTypeOK'
  BY NodeStepTyping DEF NodeInv
<1>2. CASE ServerApply
  BY <1>1, <1>2, ServerApplyKeepsInv
<1>3. CASE AckWrite \/ RefuseWrite
  BY <1>1, <1>3, AnswerKeepsInv
<1>4. CASE ConnectionLost
  BY <1>1, <1>4, ConnectionLostKeepsInv
<1>5. CASE RaiseValue
  BY <1>1, <1>5, QuietKeepsInv DEF RaiseValue
<1>6. CASE OtherDevice
  BY <1>1, <1>6, OtherDeviceKeepsInv
<1>7. QED
  BY <1>2, <1>3, <1>4, <1>5, <1>6 DEF NodeStep

\* The invariant holds before anything is written.
LEMMA NodeInitInv == NodeInit => NodeInv
<1> SUFFICES ASSUME NodeInit PROVE NodeInv
  OBVIOUS
<1>1. NodeTypeOK
  BY DEF NodeInit, NodeTypeOK, Ops
<1>2. DOMAIN pend = {} /\ \A n \in Names : intent[n] = "none"
  BY DEF NodeInit
<1>3. QED
  BY <1>1, <1>2 DEF NodeInv, AppliedInOrder, NewestExists, Settled

\* What the invariant says of the writes is what a reader of the overlay needs.
LEMMA InvReadsOwnWrites == NodeInv => ReadYourWrites
<1> SUFFICES ASSUME NodeInv, NEW n \in Names
             PROVE  /\ intent[n] = "add" => n \in Overlay(server, pend)
                    /\ intent[n] = "remove" => n \notin Overlay(server, pend)
  BY DEF ReadYourWrites
<1>1. CASE \A i \in DOMAIN pend : pend[i].name # n
  BY <1>1 DEF NodeInv, Settled, Overlay
<1>2. CASE \E i \in DOMAIN pend : pend[i].name = n
  <2>1. PICK k \in DOMAIN pend : pend[k].name = n /\ Newest(pend, k)
    BY <1>2 DEF NodeInv, NewestExists
  <2>2. intent[n] # "none" => \A i \in DOMAIN pend :
          pend[i].name = n /\ Newest(pend, i) => pend[i].op = intent[n]
    BY DEF NodeInv, Settled
  <2>3. QED
    BY <1>2, <2>1, <2>2 DEF Overlay
<1>3. QED
  BY <1>1, <1>2

\* The invariant of the node, for any use of it.
THEOREM NodeInvariant == NodeSpec => []NodeInv
<1>1. NodeInit => NodeInv
  BY NodeInitInv
<1>2. NodeInv /\ NodeTypeOK' /\ [NodeNext]_nodeVars => NodeInv'
  <2> SUFFICES ASSUME NodeInv, NodeTypeOK', [NodeNext]_nodeVars PROVE NodeInv'
    OBVIOUS
  <2>1. CASE ClientWrite
    BY <2>1, WriteKeepsInv DEF ClientWrite
  <2>2. CASE ClientObserve
    BY <2>2, QuietKeepsInv DEF ClientObserve
  <2>3. CASE ClientDispatch
    BY <2>3, QuietKeepsInv DEF ClientDispatch
  <2>4. CASE NodeStep
    BY <2>4, NodeStepKeepsInv
  <2>5. CASE ClientLost
    BY <2>5, ClientLostKeepsInv
  <2>6. CASE UNCHANGED nodeVars
    BY <2>6, QuietKeepsInv DEF nodeVars
  <2>7. QED
    BY <2>1, <2>2, <2>3, <2>4, <2>5, <2>6 DEF NodeNext
<1>3. QED
  BY <1>1, <1>2, NodeTyping, PTL DEF NodeSpec

\* Every snapshot the client raises agrees with what it last wrote itself
\* (FSyncTree's overlay of the write tree), acknowledged or not.
THEOREM OwnWritesAreRead == NodeSpec => []ReadYourWrites
BY NodeInvariant, InvReadsOwnWrites, PTL

\* A completion without an error is the truth: the newest write of a name that
\* nobody has overridden is on the server when it is acknowledged.
THEOREM AcknowledgedIsStored == NodeSpec => AckMeansStored
<1>1. NodeInv => [AckWrite /\ Newest(pend, 1) /\ intent[Head(pend).name] = Head(pend).op
        => (Head(pend).name \in server <=> Head(pend).op = "add")]_nodeVars
  <2> SUFFICES ASSUME NodeInv, AckWrite, Newest(pend, 1),
                      intent[Head(pend).name] = Head(pend).op
               PROVE  Head(pend).name \in server <=> Head(pend).op = "add"
    OBVIOUS
  <2>1. pend \in Seq(WriteRec) /\ pend # <<>> /\ Head(pend).applied
    BY DEF NodeInv, NodeTypeOK, AckWrite, Answered
  <2>2. 1 \in DOMAIN pend /\ Head(pend) = pend[1] /\ pend[1] \in WriteRec
    BY <2>1, DropOldest
  <2>3. pend[1].name \in Names /\ pend[1].op # "none"
    BY <2>2 DEF WriteRec, Ops
  <2>4. QED
    BY <2>1, <2>2, <2>3 DEF NodeInv, Settled
<1>2. QED
  BY <1>1, NodeInvariant, PTL DEF AckMeansStored
=============================================================================
