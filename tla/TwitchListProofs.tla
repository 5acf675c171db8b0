-------------------------- MODULE TwitchListProofs --------------------------
(***************************************************************************)
(* Proofs about the list of the followed streamers, for every finite set   *)
(* of names and every bound.                                               *)
(***************************************************************************)
EXTENDS TwitchList, FollowNodeProofs, FiniteSetTheorems

-----------------------------------------------------------------------------
(* The operators the actions are built from.                               *)

\* An order of a set of names is a sequence of its members without repetition.
LEMMA OrderFacts ==
  ASSUME NEW S \in SUBSET Names, NEW order \in SetToSeqs(S)
  PROVE  /\ order \in Seq(S)
         /\ order \in Seq(Names)
         /\ \A i, j \in DOMAIN order : order[i] = order[j] => i = j
<1>1. Cardinality(S) \in Nat
  BY NamesAssumption, FS_Subset, FS_CardinalityType
<1>2. /\ order \in [1 .. Cardinality(S) -> S]
      /\ \A i, j \in 1 .. Cardinality(S) : i # j => order[i] # order[j]
  BY DEF SetToSeqs
<1>3. order \in Seq(S)
  BY <1>1, <1>2
<1>4. order \in Seq(Names)
  BY <1>3, SeqMonotonic
<1>5. QED
  BY <1>2, <1>3, <1>4

\* Marking what was asked for before a clear keeps the types and leaves no
\* fresh fetch.
LEMMA LateFacts ==
  ASSUME NodeTypeOK
  PROVE  /\ LateReads \in Seq(Callbacks)
         /\ \A i \in DOMAIN LateReads : LateReads[i] # FreshFetch
         /\ LateQueue \in Seq(MainItem)
         /\ DOMAIN LateQueue = DOMAIN mainQueue
         /\ \A i \in DOMAIN mainQueue :
              LateQueue[i].c # FreshFetch /\ LateQueue[i].names = mainQueue[i].names
<1>1. /\ Len(reads) \in Nat /\ reads \in [1 .. Len(reads) -> Callbacks]
      /\ Len(mainQueue) \in Nat /\ mainQueue \in [1 .. Len(mainQueue) -> MainItem]
  BY LenProperties DEF NodeTypeOK
<1>2. FreshFetch \in Callbacks /\ LateFetch \in Callbacks /\ FreshFetch # LateFetch
  <2>1. FreshFetch.late # LateFetch.late
    BY DEF FreshFetch, LateFetch
  <2>2. QED
    BY <2>1, FetchAssumption DEF FetchCallbacks
<1>3. \A c \in Callbacks : Late(c) \in Callbacks /\ Late(c) # FreshFetch
  BY <1>2 DEF Late, FetchCallbacks
<1>4. LateReads \in [1 .. Len(reads) -> Callbacks]
  BY <1>1, <1>3 DEF LateReads
<1>5. \A i \in DOMAIN LateReads : LateReads[i] # FreshFetch
  BY <1>1, <1>3 DEF LateReads
<1>6. \A i \in DOMAIN mainQueue :
        /\ LateQueue[i] \in MainItem
        /\ LateQueue[i].c # FreshFetch
        /\ LateQueue[i].names = mainQueue[i].names
  <2> SUFFICES ASSUME NEW i \in DOMAIN mainQueue
               PROVE  /\ LateQueue[i] \in MainItem
                      /\ LateQueue[i].c # FreshFetch
                      /\ LateQueue[i].names = mainQueue[i].names
    OBVIOUS
  <2>1. mainQueue[i] \in MainItem
    BY <1>1
  <2>2. LateQueue[i] = [mainQueue[i] EXCEPT !.c = Late(mainQueue[i].c)]
    BY DEF LateQueue
  <2>3. QED
    BY <2>1, <2>2, <1>3 DEF MainItem
<1>7. LateQueue \in [1 .. Len(mainQueue) -> MainItem]
  BY <1>1, <1>6 DEF LateQueue
<1>8. LateReads \in Seq(Callbacks) /\ LateQueue \in Seq(MainItem)
  <2>1. LateReads \in Seq(Callbacks)
    BY <1>1, <1>4
  <2>2. LateQueue \in Seq(MainItem)
    BY <1>1, <1>7
  <2>3. QED
    BY <2>1, <2>2
<1>9. DOMAIN LateQueue = DOMAIN mainQueue
  BY <1>1, <1>7
<1>10. QED
  BY <1>5, <1>6, <1>8, <1>9

-----------------------------------------------------------------------------
(* Types.                                                                  *)

\* A request made for a row that is there has the type of a request.
LEMMA RequestTyping ==
  ASSUME rows \in Seq(Names), NEW i \in DOMAIN rows, NEW by \in {"cell", "select"}
  PROVE  Request(by, i) \in Requests
<1>1. Len(rows) \in Nat /\ rows \in [1 .. Len(rows) -> Names]
  BY LenProperties
<1>2. rows[i] \in Names /\ i \in Nat \ {0}
  BY <1>1
<1>3. QED
  BY <1>2 DEF Request, Requests

LEMMA NoAlertTyping == NoAlert \in Alerts
BY DEF NoAlert, Alerts

\* Asking adds only requests.
LEMMA AskTyping ==
  ASSUME live \subseteq Requests, NEW qs \in SUBSET Requests, Ask(qs)
  PROVE  live' \subseteq Requests
BY DEF Ask

\* Clearing keeps the types of what it changes.
LEMMA ClearTyping ==
  ASSUME TypeOK, ClearArrays
  PROVE  /\ rows' \in Seq(Names) /\ live' \subseteq Requests
         /\ mainQueue' \in Seq(MainItem)
         /\ answered' \in BOOLEAN /\ lateRows' \in BOOLEAN
<1>1. \A q \in live : [q EXCEPT !.cleared = TRUE] \in Requests
  BY DEF TypeOK, Requests
<1>2. mainQueue' \in Seq(MainItem)
  BY LateFacts DEF ClearArrays, TypeOK
<1>3. rows' \in Seq(Names) /\ live' \subseteq Requests
  BY <1>1 DEF ClearArrays
<1>4. answered' \in BOOLEAN /\ lateRows' \in BOOLEAN
  BY Zenon DEF ClearArrays
<1>5. QED
  BY <1>2, <1>3, <1>4

\* Every variable keeps its type.
LEMMA TwitchListTyping == Spec => []TypeOK
<1>1. Init => TypeOK
  <2> SUFFICES ASSUME Init PROVE TypeOK
    OBVIOUS
  <2>1. NodeTypeOK
    BY NodeInitInv DEF Init, NodeInv
  <2>2. rows \in Seq(Names) /\ cells \in Seq(Names) /\ live \subseteq Requests
    BY DEF Init
  <2>3. /\ onScreen \in BOOLEAN /\ dirty \in BOOLEAN /\ emptyLabel \in BOOLEAN
        /\ answered \in BOOLEAN /\ lateRows \in BOOLEAN
    BY Zenon DEF Init
  <2>4. app = "running" /\ alert \in Alerts
    BY NoAlertTyping DEF Init
  <2>5. QED
    BY <2>1, <2>2, <2>3, <2>4 DEF TypeOK
<1>2. TypeOK /\ [Next]_vars => TypeOK'
  <2> SUFFICES ASSUME TypeOK, [Next]_vars PROVE TypeOK'
    OBVIOUS
  <2> USE DEF CrashSites
  <2>0. /\ NodeTypeOK /\ rows \in Seq(Names) /\ cells \in Seq(Names)
        /\ FreshFetch \in Callbacks
    BY FetchAssumption DEF TypeOK, FetchCallbacks
  <2>1. CASE FetchDelivered
    <3>1. /\ mainQueue # <<>> /\ mainQueue' = Tail(mainQueue)
          /\ answered' = TRUE /\ lateRows' = (lateRows \/ Head(mainQueue).c = LateFetch)
          /\ UNCHANGED <<server, pend, reads, intent, app, onScreen, cells,
                         alert, live>>
      BY <2>1 DEF FetchDelivered, Dispatch
    <3>2. Head(mainQueue) \in MainItem /\ mainQueue' \in Seq(MainItem)
      BY <3>1, <2>0, HeadTailProperties DEF NodeTypeOK
    <3>3. rows' \in Seq(Names) /\ dirty' \in BOOLEAN /\ emptyLabel' \in BOOLEAN
      <4>1. CASE UNCHANGED <<rows, dirty, emptyLabel>>
        BY <4>1 DEF TypeOK
      <4>2. CASE \E order \in SetToSeqs(Head(mainQueue).names) :
                   /\ rows' = rows \o order
                   /\ emptyLabel' = (rows' = <<>>)
                   /\ dirty' = TRUE
        <5>1. Head(mainQueue).names \in SUBSET Names
          BY <3>2 DEF MainItem
        <5>2. QED
          BY <4>2, <5>1, <2>0, OrderFacts, ConcatProperties
      <4>3. QED
        BY <2>1, <4>1, <4>2 DEF FetchDelivered
    <3>4. QED
      BY <3>1, <3>2, <3>3 DEF TypeOK, NodeTypeOK
  <2>2. CASE viewWillAppear
    BY <2>2, <2>0, AppendProperties
    DEF viewWillAppear, fetchStreamerData, Observe, TypeOK, NodeTypeOK
  <2>3. CASE viewWillDisappear \/ logOut
    BY <2>3, <2>0, ClearTyping, LateFacts
    DEF viewWillDisappear, logOut, TypeOK, NodeTypeOK
  <2>4. CASE refreshs \/ DelSuccessPresented
    <3>1. reads' = Append(LateReads, FreshFetch) /\ ClearArrays
      BY <2>4 DEF refreshs, DelSuccessPresented, ClearAndFetch,
                  fetchStreamerData, Observe
    <3>2. reads' \in Seq(Callbacks)
      BY <3>1, <2>0, LateFacts, AppendProperties
    <3>3. alert' \in Alerts
      BY <2>4 DEF refreshs, DelSuccessPresented, TypeOK, Alerts
    <3>4. QED
      BY <2>4, <3>1, <3>2, <3>3, ClearTyping
      DEF refreshs, DelSuccessPresented, TypeOK, NodeTypeOK
  <2>5. CASE Layout
    <3>1. \A i \in DOMAIN rows : Request("cell", i) \in Requests
      BY <2>0, RequestTyping
    <3>2. live' \subseteq Requests
      BY <2>5, <3>1 DEF Layout, Ask, TypeOK
    <3>3. QED
      BY <2>5, <3>2 DEF Layout, TypeOK, NodeTypeOK, nodeVars
  <2>6. CASE cellForItemAt
    <3>1. PICK i \in DOMAIN cells :
            \/ /\ \E j \in DOMAIN cells : cells' = [cells EXCEPT ![i] = cells[j]]
               /\ UNCHANGED <<app, live>>
            \/ /\ rows # <<>> /\ i <= Len(rows)
               /\ cells' = [cells EXCEPT ![i] = rows[i]]
               /\ Ask({Request("cell", i)})
               /\ UNCHANGED app
            \/ app' = "cellForItem" /\ UNCHANGED <<cells, live>>
      BY <2>6 DEF cellForItemAt
    <3>2. /\ DOMAIN cells = 1 .. Len(cells) /\ Len(cells) \in Nat
          /\ cells \in [1 .. Len(cells) -> Names]
          /\ DOMAIN rows = 1 .. Len(rows) /\ Len(rows) \in Nat
          /\ rows \in [1 .. Len(rows) -> Names]
      BY <2>0, LenProperties
    <3>3. i <= Len(rows) => i \in DOMAIN rows
      BY <3>1, <3>2
    <3>4. cells' \in [1 .. Len(cells) -> Names]
      BY <3>1, <3>2, <3>3
    <3>5. cells' \in Seq(Names)
      BY <3>2, <3>4
    <3>6. live' \subseteq Requests
      <4>1. i \in DOMAIN rows => Request("cell", i) \in Requests
        BY <2>0, RequestTyping
      <4>2. QED
        BY <3>1, <3>3, <4>1, AskTyping DEF TypeOK
    <3>7. app' \in {"running", "loggedOut"} \cup CrashSites
      BY <3>1 DEF TypeOK
    <3>8. QED
      BY <2>6, <3>5, <3>6, <3>7 DEF cellForItemAt, TypeOK, NodeTypeOK, nodeVars
  <2>7. CASE didSelectItemAt
    <3>1. PICK i \in DOMAIN cells :
            IF i <= Len(rows)
            THEN Ask({Request("select", i)}) /\ UNCHANGED app
            ELSE app' = "didSelect" /\ UNCHANGED live
      BY <2>7 DEF didSelectItemAt
    <3>2. i <= Len(rows) => i \in DOMAIN rows
      BY <2>0, LenProperties
    <3>3. live' \subseteq Requests /\ app' \in {"running", "loggedOut"} \cup CrashSites
      <4>1. i \in DOMAIN rows => Request("select", i) \in Requests
        BY <2>0, RequestTyping
      <4>2. QED
        BY <3>1, <3>2, <4>1, AskTyping DEF TypeOK
    <3>4. QED
      BY <2>7, <3>3 DEF didSelectItemAt, TypeOK, NodeTypeOK, nodeVars
  <2>8. CASE CellReply \/ SelectReply
    <3>1. live' \subseteq live
      BY <2>8 DEF CellReply, SelectReply, Take
    <3>2. alert' \in Alerts
      BY <2>8 DEF CellReply, SelectReply, TypeOK, Alerts
    <3>3. QED
      BY <2>8, <3>1, <3>2
      DEF CellReply, SelectReply, TypeOK, NodeTypeOK, nodeVars
  <2>9. CASE delDatabase
    <3>1. PICK i \in DOMAIN cells :
            IF i <= Len(rows)
            THEN alert' = Confirm(rows[i], cells[i]) /\ UNCHANGED app
            ELSE app' = "delDatabase" /\ UNCHANGED alert
      BY <2>9 DEF delDatabase
    <3>2. cells[i] \in Names /\ (i <= Len(rows) => rows[i] \in Names)
      BY <2>0, LenProperties
    <3>3. alert' \in Alerts /\ app' \in {"running", "loggedOut"} \cup CrashSites
      BY <3>1, <3>2 DEF TypeOK, Alerts, Confirm
    <3>4. QED
      BY <2>9, <3>3 DEF delDatabase, TypeOK, NodeTypeOK, nodeVars
  <2>10. CASE cancelDelete \/ dismissAlert
    BY <2>10
    DEF cancelDelete, dismissAlert, TypeOK, NodeTypeOK, nodeVars, Alerts, NoAlert
  <2>11. CASE confirmDelete
    <3>1. alert.streamer \in Names
      BY <2>11 DEF confirmDelete, TypeOK, Alerts
    <3>2. QED
      BY <2>11, <3>1, AppendProperties
      DEF confirmDelete, Write, WriteRec, Ops, TypeOK, NodeTypeOK, Alerts
  <2>12. CASE SearchAdds
    BY <2>12, AppendProperties
    DEF SearchAdds, Write, WriteRec, Ops, TypeOK, NodeTypeOK, listVars
  <2>13. CASE Relaunch
    <3>1. NodeTypeOK'
      BY <2>13, <2>0 DEF Relaunch, ClientLost, Ops, NodeTypeOK
    <3>2. rows' \in Seq(Names) /\ cells' \in Seq(Names) /\ live' \subseteq Requests
      BY <2>13 DEF Relaunch
    <3>3. /\ onScreen' \in BOOLEAN /\ dirty' \in BOOLEAN /\ emptyLabel' \in BOOLEAN
          /\ answered' \in BOOLEAN /\ lateRows' \in BOOLEAN
      BY <2>13, Zenon DEF Relaunch
    <3>4. app' = "running" /\ alert' \in Alerts
      BY <2>13, NoAlertTyping DEF Relaunch
    <3>5. QED
      BY <3>1, <3>2, <3>3, <3>4 DEF TypeOK
  <2>14. CASE NodeGoesOn
    BY <2>14, NodeStepTyping DEF NodeGoesOn, TypeOK, listVars
  <2>15. CASE UNCHANGED vars
    BY <2>15 DEF vars, nodeVars, listVars, TypeOK, NodeTypeOK
  <2>16. QED
    BY <2>1, <2>2, <2>3, <2>4, <2>5, <2>6, <2>7, <2>8, <2>9, <2>10, <2>11,
       <2>12, <2>13, <2>14, <2>15 DEF Next
<1>3. QED
  BY <1>1, <1>2, PTL DEF Spec

-----------------------------------------------------------------------------
(* Indices.  The cells follow the rows also off screen; with that, the     *)
(* three facts about indices are inductive together.                       *)

CellsFollowRows == ~dirty /\ rows # <<>> => cells = rows

RowInv == CellsFollowRows /\ DeleteTargetsShown /\ UnclearedRequestsValid

\* A request that is asked for a row that is there is valid.
LEMMA AskKeepsValid ==
  ASSUME UnclearedRequestsValid, UNCHANGED rows,
         NEW by, NEW S \in SUBSET (DOMAIN rows),
         Ask({Request(by, i) : i \in S})
  PROVE  UnclearedRequestsValid'
<1>1. \A q \in live' : q \in live \/ \E i \in S : q = Request(by, i)
  BY DEF Ask
<1>2. \A i \in S : Request(by, i).row = i /\ Request(by, i).name = rows[i]
  BY DEF Request
<1>3. QED
  BY <1>1, <1>2 DEF UnclearedRequestsValid

\* A clear leaves nothing to be valid, and no row.
LEMMA ClearKeepsRows ==
  ASSUME TypeOK, RowInv, ClearArrays, UNCHANGED <<cells, dirty>>,
         alert'.type = "confirm" => alert' = alert
  PROVE  RowInv'
<1>1. rows' = <<>> /\ \A q \in live' : q.cleared
  <2>1. \A q \in live : [q EXCEPT !.cleared = TRUE].cleared = TRUE
    BY DEF TypeOK, Requests
  <2>2. rows' = <<>> /\ live' = {[q EXCEPT !.cleared = TRUE] : q \in live}
    BY DEF ClearArrays
  <2>3. QED
    BY <2>1, <2>2
<1>2. CellsFollowRows' /\ UnclearedRequestsValid'
  BY <1>1 DEF CellsFollowRows, UnclearedRequestsValid
<1>3. DeleteTargetsShown'
  BY DEF RowInv, DeleteTargetsShown
<1>4. QED
  BY <1>2, <1>3 DEF RowInv

\* What RowInv says of a cell that is touched or laid out.
LEMMA TouchedCell ==
  ASSUME TypeOK, CellsFollowRows, ~dirty, NEW i \in DOMAIN cells
  PROVE  /\ i \in Nat /\ Len(rows) \in Nat /\ DOMAIN rows = 1 .. Len(rows)
         /\ i <= Len(rows) => i \in DOMAIN rows /\ rows # <<>> /\ cells = rows
         /\ ~(i <= Len(rows)) => rows = <<>>
<1>1. /\ Len(cells) \in Nat /\ DOMAIN cells = 1 .. Len(cells)
      /\ Len(rows) \in Nat /\ DOMAIN rows = 1 .. Len(rows)
      /\ (Len(rows) = 0 <=> rows = <<>>)
  BY LenProperties, EmptySeq DEF TypeOK
<1>2. rows # <<>> => cells = rows
  BY DEF CellsFollowRows
<1>3. QED
  BY <1>1, <1>2

\* Every step keeps the facts about indices.
LEMMA RowStep ==
  ASSUME TypeOK, RowInv, [Next]_vars
  PROVE  RowInv'
<1> USE DEF RowInv
<1>0. rows \in Seq(Names) /\ Len(rows) \in Nat /\ DOMAIN rows = 1 .. Len(rows)
  BY LenProperties DEF TypeOK
<1>1. CASE FetchDelivered
  <2>1. /\ UNCHANGED <<cells, alert, live>> /\ mainQueue # <<>>
        /\ \/ UNCHANGED <<rows, dirty>>
           \/ \E order \in SetToSeqs(Head(mainQueue).names) :
                rows' = rows \o order /\ dirty' = TRUE
    BY <1>1 DEF FetchDelivered, Dispatch
  <2>2. CASE UNCHANGED <<rows, dirty>>
    BY <2>1, <2>2 DEF CellsFollowRows, DeleteTargetsShown, UnclearedRequestsValid
  <2>3. ASSUME NEW order \in SetToSeqs(Head(mainQueue).names),
               rows' = rows \o order, dirty' = TRUE
        PROVE  RowInv'
    <3>1. Head(mainQueue).names \in SUBSET Names
      <4>1. Head(mainQueue) \in MainItem
        BY <2>1, HeadTailProperties DEF TypeOK, NodeTypeOK
      <4>2. QED
        BY <4>1 DEF MainItem
    <3>2. order \in Seq(Names)
      BY <3>1, OrderFacts
    <3>3. \A k \in DOMAIN rows : k \in DOMAIN rows' /\ rows'[k] = rows[k]
      BY <1>0, <2>3, <3>2, ConcatProperties, LenProperties
    <3>4. UnclearedRequestsValid'
      BY <2>1, <3>3 DEF UnclearedRequestsValid
    <3>5. QED
      BY <2>1, <2>3, <3>4 DEF CellsFollowRows, DeleteTargetsShown
  <2>4. QED
    BY <2>1, <2>2, <2>3
<1>2. CASE viewWillDisappear \/ logOut
  BY <1>2, ClearKeepsRows DEF viewWillDisappear, logOut
<1>3. CASE refreshs \/ DelSuccessPresented
  <2>1. ClearArrays /\ UNCHANGED <<cells, dirty>>
    BY <1>3 DEF refreshs, DelSuccessPresented, ClearAndFetch
  <2>2. alert'.type = "confirm" => alert' = alert
    BY <1>3 DEF refreshs, DelSuccessPresented
  <2>3. QED
    BY <2>1, <2>2, ClearKeepsRows
<1>4. CASE Layout
  <2>1. /\ dirty' = FALSE /\ cells' = rows /\ UNCHANGED <<rows, alert>>
        /\ Ask({Request("cell", i) : i \in DOMAIN rows})
    BY <1>4 DEF Layout
  <2>2. UnclearedRequestsValid'
    BY <2>1, AskKeepsValid
  <2>3. QED
    BY <2>1, <2>2 DEF CellsFollowRows, DeleteTargetsShown
<1>5. CASE cellForItemAt
  <2>1. ~dirty /\ UNCHANGED <<rows, dirty, alert>>
    BY <1>5 DEF cellForItemAt
  <2>2. PICK i \in DOMAIN cells :
          \/ rows = <<>> /\ UNCHANGED live
          \/ /\ rows # <<>> /\ i <= Len(rows)
             /\ cells' = [cells EXCEPT ![i] = rows[i]]
             /\ Ask({Request("cell", i)})
          \/ UNCHANGED <<cells, live>>
    BY <1>5 DEF cellForItemAt
  <2>3. CASE (rows = <<>> /\ UNCHANGED live) \/ UNCHANGED <<cells, live>>
    BY <2>1, <2>3 DEF CellsFollowRows, DeleteTargetsShown, UnclearedRequestsValid
  <2>4. CASE /\ rows # <<>> /\ i <= Len(rows)
             /\ cells' = [cells EXCEPT ![i] = rows[i]]
             /\ Ask({Request("cell", i)})
    <3>1. cells = rows /\ i \in DOMAIN rows
      BY <2>1, <2>4, TouchedCell
    <3>2. cells' = rows
      BY <3>1, <2>4, <1>0, LenProperties
    <3>3. {Request("cell", i)} = {Request("cell", k) : k \in {i}}
      OBVIOUS
    <3>4. UnclearedRequestsValid'
      BY <2>1, <2>4, <3>1, <3>3, AskKeepsValid
    <3>5. QED
      BY <2>1, <3>2, <3>4 DEF CellsFollowRows, DeleteTargetsShown
  <2>5. QED
    BY <2>2, <2>3, <2>4
<1>6. CASE didSelectItemAt
  <2>1. ~dirty /\ UNCHANGED <<rows, cells, dirty, alert>>
    BY <1>6 DEF didSelectItemAt, Touchable
  <2>2. PICK i \in DOMAIN cells :
          \/ i <= Len(rows) /\ Ask({Request("select", i)})
          \/ UNCHANGED live
    BY <1>6 DEF didSelectItemAt
  <2>3. UnclearedRequestsValid'
    <3>1. CASE UNCHANGED live
      BY <2>1, <3>1 DEF UnclearedRequestsValid
    <3>2. CASE i <= Len(rows) /\ Ask({Request("select", i)})
      <4>1. i \in DOMAIN rows
        BY <2>1, <3>2, TouchedCell
      <4>2. {Request("select", i)} = {Request("select", k) : k \in {i}}
        OBVIOUS
      <4>3. QED
        BY <2>1, <3>2, <4>1, <4>2, AskKeepsValid
    <3>3. QED
      BY <2>2, <3>1, <3>2
  <2>4. QED
    BY <2>1, <2>3 DEF CellsFollowRows, DeleteTargetsShown
<1>7. CASE CellReply \/ SelectReply
  <2>1. live' \subseteq live /\ UNCHANGED <<rows, cells, dirty>>
    BY <1>7 DEF CellReply, SelectReply, Take
  <2>2. alert'.type = "confirm" => alert' = alert
    BY <1>7 DEF CellReply, SelectReply
  <2>3. QED
    BY <2>1, <2>2 DEF CellsFollowRows, DeleteTargetsShown, UnclearedRequestsValid
<1>8. CASE delDatabase
  <2>1. ~dirty /\ UNCHANGED <<rows, cells, dirty, live>>
    BY <1>8 DEF delDatabase, Touchable
  <2>2. PICK i \in DOMAIN cells :
          \/ i <= Len(rows) /\ alert' = Confirm(rows[i], cells[i])
          \/ UNCHANGED alert
    BY <1>8 DEF delDatabase
  <2>3. DeleteTargetsShown'
    <3>1. CASE UNCHANGED alert
      BY <3>1 DEF DeleteTargetsShown
    <3>2. CASE i <= Len(rows) /\ alert' = Confirm(rows[i], cells[i])
      <4>1. rows[i] = cells[i]
        BY <2>1, <3>2, TouchedCell
      <4>2. QED
        BY <3>2, <4>1 DEF DeleteTargetsShown, Confirm
    <3>3. QED
      BY <2>2, <3>1, <3>2
  <2>4. QED
    BY <2>1, <2>3 DEF CellsFollowRows, UnclearedRequestsValid
<1>9. CASE cancelDelete \/ confirmDelete \/ dismissAlert
  <2>1. alert'.type # "confirm" /\ UNCHANGED <<rows, cells, dirty, live>>
    BY <1>9 DEF cancelDelete, confirmDelete, dismissAlert, NoAlert
  <2>2. QED
    BY <2>1 DEF CellsFollowRows, DeleteTargetsShown, UnclearedRequestsValid
<1>10. CASE Relaunch
  <2>1. rows' = <<>> /\ live' = {} /\ alert' = NoAlert
    BY <1>10 DEF Relaunch
  <2>2. QED
    BY <2>1 DEF CellsFollowRows, DeleteTargetsShown, UnclearedRequestsValid, NoAlert
<1>11. CASE viewWillAppear \/ SearchAdds \/ NodeGoesOn \/ UNCHANGED vars
  <2>1. UNCHANGED <<rows, cells, dirty, alert, live>>
    BY <1>11 DEF viewWillAppear, SearchAdds, NodeGoesOn, vars, listVars
  <2>2. QED
    BY <2>1 DEF CellsFollowRows, DeleteTargetsShown, UnclearedRequestsValid
<1>12. QED
  BY <1>1, <1>2, <1>3, <1>4, <1>5, <1>6, <1>7, <1>8, <1>9, <1>10, <1>11 DEF Next

\* The facts about indices hold in every state.
THEOREM RowInvariant == Spec => []RowInv
<1>1. Init => RowInv
  <2> SUFFICES ASSUME Init PROVE RowInv
    OBVIOUS
  <2>1. rows = <<>> /\ live = {} /\ alert = NoAlert
    BY DEF Init
  <2>2. QED
    BY <2>1 DEF RowInv, CellsFollowRows, DeleteTargetsShown,
                UnclearedRequestsValid, NoAlert
<1>2. TypeOK /\ RowInv /\ [Next]_vars => RowInv'
  BY RowStep
<1>3. QED
  BY <1>1, <1>2, TwitchListTyping, PTL DEF Spec

\* Every cell that can be touched shows the streamer its item designates, as
\* long as the arrays hold anything.
THEOREM CellsMatchRows == Spec => []CellsShowRows
<1>1. RowInv => CellsShowRows
  BY DEF RowInv, CellsFollowRows, CellsShowRows
<1>2. QED
  BY <1>1, RowInvariant, PTL

\* The delete alert is about the streamer whose cell was touched.
THEOREM DeleteAsksForTheShown == Spec => []DeleteTargetsShown
<1>1. RowInv => DeleteTargetsShown
  BY DEF RowInv
<1>2. QED
  BY <1>1, RowInvariant, PTL

\* The row of a question that no clear overtook still holds its streamer.
THEOREM QuestionsKeepTheirRow == Spec => []UnclearedRequestsValid
<1>1. RowInv => UnclearedRequestsValid
  BY DEF RowInv
<1>2. QED
  BY <1>1, RowInvariant, PTL

\* An index traps only between a clear and the snapshot that ends it, or for an
\* answer that a clear overtook.
THEOREM TrapsNeedClear == Spec => CrashNeedsClear
<1>1. TypeOK /\ RowInv =>
        [Next => (app' # app /\ app' \in CrashSites =>
           \/ app' \in {"delDatabase", "didSelect"} /\ rows = <<>>
           \/ app' \in {"cellReply", "selectReply"} /\ \E q \in live : q.cleared)]_vars
  <2> SUFFICES ASSUME TypeOK, RowInv, Next, app' # app, app' \in CrashSites
               PROVE  \/ app' \in {"delDatabase", "didSelect"} /\ rows = <<>>
                      \/ /\ app' \in {"cellReply", "selectReply"}
                         /\ \E q \in live : q.cleared
    OBVIOUS
  <2>1. CASE delDatabase \/ didSelectItemAt
    <3>1. ~dirty /\ \E i \in DOMAIN cells :
                      ~(i <= Len(rows)) /\ app' \in {"delDatabase", "didSelect"}
      BY <2>1 DEF delDatabase, didSelectItemAt, Touchable
    <3>2. QED
      BY <3>1, TouchedCell DEF RowInv
  <2>2. CASE cellForItemAt
    <3>1. ~dirty /\ \E i \in DOMAIN cells : rows # <<>> /\ i > Len(rows)
      BY <2>2 DEF cellForItemAt
    <3>2. QED
      BY <3>1, TouchedCell DEF RowInv
  <2>3. CASE CellReply \/ SelectReply
    <3>1. PICK q \in live : q.row > Len(rows) /\ app' \in {"cellReply", "selectReply"}
      BY <2>3 DEF CellReply, SelectReply
    <3>2. q.row \notin DOMAIN rows
      BY <3>1, LenProperties DEF TypeOK
    <3>3. QED
      BY <3>1, <3>2 DEF RowInv, UnclearedRequestsValid
  <2>4. CASE logOut \/ Relaunch
    BY <2>4 DEF logOut, Relaunch, CrashSites
  <2>5. QED
    BY <2>1, <2>2, <2>3, <2>4
    DEF Next, FetchDelivered, viewWillAppear, viewWillDisappear, refreshs, Layout,
        cancelDelete, confirmDelete, DelSuccessPresented, dismissAlert, SearchAdds,
        NodeGoesOn, listVars
<1>2. QED
  BY <1>1, TwitchListTyping, RowInvariant, PTL DEF Spec, CrashNeedsClear

-----------------------------------------------------------------------------
(* Duplicates.  Between two clears at most one fetch that is not late is    *)
(* under way; its snapshot finds the rows empty unless a late one came      *)
(* first.                                                                   *)

FreshReads == {i \in DOMAIN reads : reads[i] = FreshFetch}

FreshItems == {i \in DOMAIN mainQueue : /\ mainQueue[i].type = "value"
                                        /\ mainQueue[i].c = FreshFetch}

NoneFresh == FreshReads = {} /\ FreshItems = {}

OneFresh ==
  \/ FreshReads = {} /\ (\A i, j \in FreshItems : i = j)
  \/ FreshItems = {} /\ (\A i, j \in FreshReads : i = j)

FetchInv ==
  /\ ~onScreen => NoneFresh /\ (answered => lateRows)
  /\ ~lateRows /\ answered => NoneFresh
  /\ ~lateRows /\ ~answered => OneFresh /\ rows = <<>>
  /\ DuplicatesNeedLateSnapshot

\* What the list knows of the sequences of the node.
LEMMA NodeSequences ==
  ASSUME NodeTypeOK
  PROVE  /\ Len(reads) \in Nat /\ reads \in [1 .. Len(reads) -> Callbacks]
         /\ Len(mainQueue) \in Nat /\ mainQueue \in [1 .. Len(mainQueue) -> MainItem]
BY LenProperties DEF NodeTypeOK

\* A snapshot that is raised carries the mark of its read.
LEMMA RaiseKeepsFresh ==
  ASSUME NodeTypeOK, RaiseValue
  PROVE  (NoneFresh => NoneFresh') /\ (OneFresh => OneFresh')
<1>0. /\ Len(reads) \in Nat /\ reads \in [1 .. Len(reads) -> Callbacks]
      /\ Len(mainQueue) \in Nat /\ mainQueue \in [1 .. Len(mainQueue) -> MainItem]
  BY NodeSequences
<1>1. /\ reads # <<>> /\ reads' = Tail(reads)
      /\ mainQueue' = Append(mainQueue, Value(Head(reads), Overlay(server, pend)))
  BY DEF RaiseValue
<1>2. /\ Len(reads) > 0 /\ Head(reads) = reads[1]
      /\ DOMAIN reads' = 1 .. Len(reads) - 1
      /\ \A i \in 1 .. Len(reads) - 1 : reads'[i] = reads[i + 1]
  BY <1>0, <1>1, HeadTailProperties, EmptySeq DEF NodeTypeOK
<1>3. /\ DOMAIN mainQueue' = 1 .. Len(mainQueue) + 1
      /\ \A i \in 1 .. Len(mainQueue) : mainQueue'[i] = mainQueue[i]
      /\ mainQueue'[Len(mainQueue) + 1] = Value(reads[1], Overlay(server, pend))
  BY <1>0, <1>1, <1>2
<1>4. FreshReads' = {i \in 1 .. Len(reads) - 1 : i + 1 \in FreshReads}
  BY <1>0, <1>2 DEF FreshReads
<1>5. FreshItems' = FreshItems \cup {i \in {Len(mainQueue) + 1} : 1 \in FreshReads}
  BY <1>0, <1>2, <1>3 DEF FreshItems, FreshReads, Value
<1>6. FreshReads \subseteq 1 .. Len(reads) /\ FreshItems \subseteq 1 .. Len(mainQueue)
  BY <1>0 DEF FreshReads, FreshItems
<1>7. NoneFresh => NoneFresh'
  BY <1>4, <1>5 DEF NoneFresh
<1>8. CASE FreshReads = {} /\ (\A i, j \in FreshItems : i = j)
  <2>1. FreshReads' = {} /\ FreshItems' = FreshItems
    BY <1>4, <1>5, <1>8
  <2>2. QED
    BY <1>7, <1>8, <2>1 DEF OneFresh
<1>9. CASE FreshItems = {} /\ (\A i, j \in FreshReads : i = j)
  <2>1. CASE 1 \in FreshReads
    <3>1. \A i \in 1 .. Len(reads) - 1 : i + 1 # 1
      BY <1>0
    <3>2. FreshReads' = {} /\ FreshItems' = {Len(mainQueue) + 1}
      BY <1>4, <1>5, <1>9, <2>1, <3>1
    <3>3. QED
      BY <1>7, <3>2 DEF OneFresh
  <2>2. CASE 1 \notin FreshReads
    <3>1. FreshItems' = {}
      BY <1>5, <1>9, <2>2
    <3>2. \A i, j \in FreshReads' : i + 1 = j + 1 /\ i \in Nat /\ j \in Nat
      BY <1>0, <1>4, <1>9
    <3>3. \A i, j \in FreshReads' : i = j
      BY <3>2
    <3>4. QED
      BY <1>7, <3>1, <3>3 DEF OneFresh
  <2>3. QED
    BY <2>1, <2>2
<1>10. QED
  BY <1>7, <1>8, <1>9 DEF OneFresh

\* No other step of the node starts a fetch or delivers one.
LEMMA NodeKeepsFresh ==
  ASSUME NodeTypeOK, NodeStep
  PROVE  (NoneFresh => NoneFresh') /\ (OneFresh => OneFresh')
<1>0. Len(mainQueue) \in Nat /\ mainQueue \in [1 .. Len(mainQueue) -> MainItem]
  BY NodeSequences
<1>1. CASE RaiseValue
  BY <1>1, RaiseKeepsFresh
<1>2. CASE AckWrite \/ RefuseWrite
  <2>1. /\ UNCHANGED reads
        /\ \/ UNCHANGED mainQueue
           \/ \E ok \in BOOLEAN : mainQueue' = Append(mainQueue, Ack(Head(pend).done, ok))
    BY <1>2 DEF AckWrite, RefuseWrite, Answered
  <2>2. FreshItems' = FreshItems
    <3>1. CASE UNCHANGED mainQueue
      BY <3>1 DEF FreshItems
    <3>2. ASSUME NEW ok \in BOOLEAN,
                 mainQueue' = Append(mainQueue, Ack(Head(pend).done, ok))
          PROVE  FreshItems' = FreshItems
      <4>1. /\ DOMAIN mainQueue' = 1 .. Len(mainQueue) + 1
            /\ \A i \in 1 .. Len(mainQueue) : mainQueue'[i] = mainQueue[i]
            /\ mainQueue'[Len(mainQueue) + 1].type = "ack"
        BY <1>0, <3>2 DEF Ack
      <4>2. QED
        BY <1>0, <4>1 DEF FreshItems
    <3>3. QED
      BY <2>1, <3>1, <3>2
  <2>3. QED
    BY <2>1, <2>2 DEF NoneFresh, OneFresh, FreshReads
<1>3. CASE ServerApply \/ ConnectionLost \/ OtherDevice
  <2>1. UNCHANGED <<reads, mainQueue>>
    BY <1>3 DEF ServerApply, ConnectionLost, OtherDevice
  <2>2. QED
    BY <2>1 DEF NoneFresh, OneFresh, FreshReads, FreshItems
<1>4. QED
  BY <1>1, <1>2, <1>3 DEF NodeStep

\* A clear leaves no fresh fetch; the fetch that follows it is the only one.
LEMMA ClearThenFetch ==
  ASSUME TypeOK, ClearArrays
  PROVE  /\ reads' = LateReads => FetchInv'
         /\ fetchStreamerData(LateReads) /\ onScreen' => FetchInv'
<1>0. Len(mainQueue) \in Nat /\ mainQueue \in [1 .. Len(mainQueue) -> MainItem]
      /\ NodeTypeOK
  BY NodeSequences DEF TypeOK
<1>1. /\ rows' = <<>> /\ mainQueue' = LateQueue /\ ~answered' /\ ~lateRows'
  BY DEF ClearArrays
<1>2. FreshItems' = {} /\ DuplicatesNeedLateSnapshot'
  BY <1>0, <1>1, LateFacts DEF FreshItems, DuplicatesNeedLateSnapshot
<1>3. ASSUME reads' = LateReads
      PROVE  FetchInv'
  <2>1. FreshReads' = {}
    BY <1>0, <1>3, LateFacts DEF FreshReads
  <2>2. QED
    BY <1>1, <1>2, <2>1 DEF FetchInv, NoneFresh, OneFresh
<1>4. ASSUME fetchStreamerData(LateReads), onScreen'
      PROVE  FetchInv'
  <2>1. /\ LateReads \in Seq(Callbacks) /\ reads' = Append(LateReads, FreshFetch)
        /\ \A i \in DOMAIN LateReads : LateReads[i] # FreshFetch
    BY <1>0, <1>4, LateFacts DEF fetchStreamerData, Observe
  <2>2. /\ Len(LateReads) \in Nat /\ DOMAIN LateReads = 1 .. Len(LateReads)
        /\ DOMAIN reads' = 1 .. Len(LateReads) + 1
        /\ \A i \in 1 .. Len(LateReads) : reads'[i] = LateReads[i]
    BY <2>1
  <2>3. \A i \in FreshReads' : i = Len(LateReads) + 1
    BY <2>1, <2>2 DEF FreshReads
  <2>4. QED
    BY <1>1, <1>2, <1>4, <2>3 DEF FetchInv, OneFresh
<1>5. QED
  BY <1>3, <1>4

\* A snapshot that is delivered first after a clear fills empty rows.
LEMMA DeliveryStep ==
  ASSUME TypeOK, FetchInv, FetchDelivered
  PROVE  FetchInv'
<1>0. /\ Len(mainQueue) \in Nat /\ mainQueue \in [1 .. Len(mainQueue) -> MainItem]
      /\ NodeTypeOK /\ rows \in Seq(Names)
  BY NodeSequences DEF TypeOK
<1>1. /\ mainQueue # <<>> /\ mainQueue' = Tail(mainQueue)
      /\ UNCHANGED <<reads, onScreen>>
      /\ Head(mainQueue).type = "value" /\ Head(mainQueue).c \in FetchCallbacks
      /\ answered' = TRUE /\ lateRows' = (lateRows \/ Head(mainQueue).c = LateFetch)
      /\ \/ UNCHANGED rows
         \/ \E order \in SetToSeqs(Head(mainQueue).names) : rows' = rows \o order
  BY DEF FetchDelivered, Dispatch
<1>2. /\ Len(mainQueue) > 0 /\ Head(mainQueue) = mainQueue[1]
      /\ mainQueue[1] \in MainItem
      /\ DOMAIN mainQueue' = 1 .. Len(mainQueue) - 1
      /\ \A i \in 1 .. Len(mainQueue) - 1 : mainQueue'[i] = mainQueue[i + 1]
  BY <1>0, <1>1, HeadTailProperties, EmptySeq DEF NodeTypeOK
<1>3. /\ FreshItems' = {i \in 1 .. Len(mainQueue) - 1 : i + 1 \in FreshItems}
      /\ FreshItems \subseteq 1 .. Len(mainQueue) /\ FreshReads' = FreshReads
  BY <1>0, <1>1, <1>2 DEF FreshItems, FreshReads
<1>4. NoneFresh => NoneFresh'
  BY <1>3 DEF NoneFresh
<1>5. ~lateRows' => 1 \in FreshItems /\ ~lateRows
  <2> SUFFICES ASSUME ~lateRows' PROVE 1 \in FreshItems /\ ~lateRows
    OBVIOUS
  <2>1. Head(mainQueue).c # LateFetch /\ ~lateRows
    BY <1>1
  <2>2. QED
    BY <1>0, <1>1, <1>2, <2>1 DEF FetchCallbacks, FreshItems
<1>6. ~lateRows' => NoneFresh'
  BY <1>2, <1>3, <1>5 DEF FetchInv, OneFresh, NoneFresh
<1>7. ~lateRows' => rows = <<>>
  BY <1>5 DEF FetchInv, NoneFresh
<1>8. DuplicatesNeedLateSnapshot'
  <2> SUFFICES ASSUME rows = <<>>
               PROVE  \A i, j \in DOMAIN rows' : rows'[i] = rows'[j] => i = j
    BY <1>7 DEF DuplicatesNeedLateSnapshot
  <2>1. CASE UNCHANGED rows
    BY <2>1
  <2>2. ASSUME NEW order \in SetToSeqs(Head(mainQueue).names), rows' = rows \o order
        PROVE  \A i, j \in DOMAIN rows' : rows'[i] = rows'[j] => i = j
    <3>1. Head(mainQueue).names \in SUBSET Names
      BY <1>2 DEF MainItem
    <3>2. order \in Seq(Names) /\ \A i, j \in DOMAIN order : order[i] = order[j] => i = j
      BY <3>1, OrderFacts
    <3>3. rows' = order
      BY <2>2, <3>2, ConcatEmptySeq
    <3>4. QED
      BY <3>2, <3>3
  <2>3. QED
    BY <1>1, <2>1, <2>2
<1>9. ~onScreen => NoneFresh' /\ lateRows'
  BY <1>4, <1>5 DEF FetchInv, NoneFresh
<1>10. QED
  BY <1>1, <1>6, <1>8, <1>9 DEF FetchInv

\* The screen appears with the rows it was left with, and asks once.
LEMMA AppearStep ==
  ASSUME TypeOK, FetchInv, viewWillAppear
  PROVE  FetchInv'
<1>0. NodeTypeOK /\ FreshFetch \in Callbacks
  BY FetchAssumption DEF TypeOK, FetchCallbacks
<1>1. /\ ~onScreen /\ onScreen' = TRUE /\ reads' = Append(reads, FreshFetch)
      /\ UNCHANGED <<mainQueue, rows, answered, lateRows>>
  BY DEF viewWillAppear, fetchStreamerData, Observe
<1>2. NoneFresh /\ (answered => lateRows)
  BY <1>1 DEF FetchInv
<1>3. FreshItems' = {}
  BY <1>1, <1>2 DEF FreshItems, NoneFresh
<1>4. \A i \in FreshReads' : i = Len(reads) + 1
  <2>1. /\ Len(reads) \in Nat /\ DOMAIN reads = 1 .. Len(reads)
        /\ DOMAIN reads' = 1 .. Len(reads) + 1
        /\ \A i \in 1 .. Len(reads) : reads'[i] = reads[i]
    BY <1>0, <1>1 DEF NodeTypeOK
  <2>2. QED
    BY <1>2, <2>1 DEF FreshReads, NoneFresh
<1>5. OneFresh'
  BY <1>3, <1>4 DEF OneFresh
<1>6. QED
  BY <1>1, <1>2, <1>5 DEF FetchInv, DuplicatesNeedLateSnapshot

\* Every step keeps what is known of the fetches.
LEMMA FetchStep ==
  ASSUME TypeOK, FetchInv, [Next]_vars
  PROVE  FetchInv'
<1>1. CASE FetchDelivered
  BY <1>1, DeliveryStep
<1>2. CASE viewWillAppear
  BY <1>2, AppearStep
<1>3. CASE viewWillDisappear \/ logOut
  BY <1>3, ClearThenFetch DEF viewWillDisappear, logOut
<1>4. CASE refreshs \/ DelSuccessPresented
  BY <1>4, ClearThenFetch DEF refreshs, DelSuccessPresented, ClearAndFetch,
                              Touchable, Showing
<1>5. CASE Relaunch
  <2>1. /\ reads' = <<>> /\ mainQueue' = <<>> /\ rows' = <<>>
        /\ ~answered' /\ ~lateRows'
    BY <1>5 DEF Relaunch, ClientLost
  <2>2. QED
    BY <2>1 DEF FetchInv, NoneFresh, OneFresh, FreshReads, FreshItems,
                DuplicatesNeedLateSnapshot
<1>6. CASE NodeGoesOn
  <2>1. (NoneFresh => NoneFresh') /\ (OneFresh => OneFresh')
    BY <1>6, NodeKeepsFresh DEF NodeGoesOn, TypeOK
  <2>2. UNCHANGED <<onScreen, rows, answered, lateRows>>
    BY <1>6 DEF NodeGoesOn, listVars
  <2>3. QED
    BY <2>1, <2>2 DEF FetchInv, DuplicatesNeedLateSnapshot
<1>7. CASE \/ Layout \/ cellForItemAt \/ didSelectItemAt \/ CellReply \/ SelectReply
           \/ delDatabase \/ cancelDelete \/ confirmDelete \/ dismissAlert
           \/ SearchAdds \/ UNCHANGED vars
  <2>1. UNCHANGED <<reads, mainQueue, onScreen, rows, answered, lateRows>>
    BY <1>7
    DEF Layout, cellForItemAt, didSelectItemAt, CellReply, SelectReply, delDatabase,
        cancelDelete, confirmDelete, dismissAlert, SearchAdds, vars, nodeVars, listVars
  <2>2. QED
    BY <2>1 DEF FetchInv, NoneFresh, OneFresh, FreshReads, FreshItems,
                DuplicatesNeedLateSnapshot
<1>8. QED
  BY <1>1, <1>2, <1>3, <1>4, <1>5, <1>6, <1>7 DEF Next

\* A streamer has two rows only when a snapshot asked for before the last clear
\* is among them: each clear admits one fetch, whatever is delivered, refused or
\* raised in between.
THEOREM DuplicatesAreLate == Spec => []DuplicatesNeedLateSnapshot
<1>1. Init => FetchInv
  <2> SUFFICES ASSUME Init PROVE FetchInv
    OBVIOUS
  <2>1. /\ reads = <<>> /\ mainQueue = <<>> /\ rows = <<>>
        /\ ~answered /\ ~lateRows
    BY DEF Init, NodeInit
  <2>2. QED
    BY <2>1 DEF FetchInv, NoneFresh, OneFresh, FreshReads, FreshItems,
                DuplicatesNeedLateSnapshot
<1>2. TypeOK /\ FetchInv /\ [Next]_vars => FetchInv'
  BY FetchStep
<1>3. FetchInv => DuplicatesNeedLateSnapshot
  BY DEF FetchInv
<1>4. QED
  BY <1>1, <1>2, <1>3, TwitchListTyping, PTL DEF Spec

-----------------------------------------------------------------------------
(* Deletion.  The invariant of the node says what a snapshot contains; what *)
(* the screen holds of a deleted streamer follows from it.                 *)

\* Every step of the screen is a use of the node that keeps its invariant.
LEMMA NodeUse ==
  ASSUME TypeOK, TypeOK', NodeInv, [Next]_vars
  PROVE  NodeInv'
<1>0. NodeTypeOK'
  BY DEF TypeOK
<1>1. CASE confirmDelete
  <2>1. alert.streamer \in Names
    BY <1>1 DEF confirmDelete, TypeOK, Alerts
  <2>2. QED
    BY <1>0, <1>1, <2>1, WriteKeepsInv DEF confirmDelete, Ops
<1>2. CASE SearchAdds
  BY <1>0, <1>2, WriteKeepsInv DEF SearchAdds, Ops
<1>3. CASE Relaunch
  BY <1>0, <1>3, ClientLostKeepsInv DEF Relaunch
<1>4. CASE NodeGoesOn
  BY <1>4, NodeStepKeepsInv DEF NodeGoesOn
<1>5. CASE \/ FetchDelivered \/ viewWillAppear \/ viewWillDisappear \/ logOut
           \/ refreshs \/ Layout \/ cellForItemAt \/ didSelectItemAt \/ CellReply
           \/ SelectReply \/ delDatabase \/ cancelDelete \/ DelSuccessPresented
           \/ dismissAlert \/ UNCHANGED vars
  <2>1. UNCHANGED <<server, pend, intent>>
    BY <1>5
    DEF FetchDelivered, viewWillAppear, viewWillDisappear, logOut, refreshs,
        Layout, cellForItemAt, didSelectItemAt, CellReply, SelectReply,
        delDatabase, cancelDelete, DelSuccessPresented, dismissAlert, vars, nodeVars
  <2>2. QED
    BY <1>0, <2>1, QuietKeepsInv
<1>6. QED
  BY <1>1, <1>2, <1>3, <1>4, <1>5 DEF Next

\* The list's use of the node keeps the invariant of the node.
LEMMA NodeInvInList == Spec => []NodeInv
<1>1. Init => NodeInv
  BY NodeInitInv DEF Init
<1>2. TypeOK /\ TypeOK' /\ NodeInv /\ [Next]_vars => NodeInv'
  BY NodeUse
<1>3. QED
  BY <1>1, <1>2, TwitchListTyping, PTL DEF Spec

\* What the screen and the main queue hold of the name n.
Forgotten(n) ==
  /\ \A i \in DOMAIN rows : rows[i] # n
  /\ \A i \in DOMAIN mainQueue : n \notin mainQueue[i].names

\* A node step raises no snapshot with a name this client has removed.
LEMMA NodeStepForgets ==
  ASSUME NodeTypeOK, NodeTypeOK', ReadYourWrites, NodeStep, UNCHANGED rows,
         NEW n \in Names, intent[n] = "remove" => Forgotten(n)
  PROVE  intent'[n] = "remove" => Forgotten(n)'
<1>0. mainQueue \in Seq(MainItem) /\ Len(mainQueue) \in Nat
      /\ DOMAIN mainQueue = 1 .. Len(mainQueue)
  BY LenProperties DEF NodeTypeOK
<1>1. intent'[n] = "remove" => intent[n] = "remove"
  BY DEF NodeStep, ServerApply, AckWrite, RefuseWrite, ConnectionLost, RaiseValue,
         OtherDevice, NodeTypeOK
<1>2. ASSUME NEW item, mainQueue' = Append(mainQueue, item), n \notin item.names,
             intent[n] = "remove"
      PROVE  Forgotten(n)'
  <2>1. /\ DOMAIN mainQueue' = 1 .. Len(mainQueue) + 1
        /\ \A i \in 1 .. Len(mainQueue) : mainQueue'[i] = mainQueue[i]
        /\ mainQueue'[Len(mainQueue) + 1] = item
    BY <1>0, <1>2
  <2>2. QED
    BY <1>0, <1>2, <2>1 DEF Forgotten
<1>3. CASE RaiseValue
  <2>1. /\ mainQueue' = Append(mainQueue, Value(Head(reads), Overlay(server, pend)))
        /\ UNCHANGED intent
    BY <1>3 DEF RaiseValue
  <2>2. intent[n] = "remove" => n \notin Overlay(server, pend)
    BY DEF ReadYourWrites
  <2>3. QED
    BY <2>1, <2>2, <1>2 DEF Value
<1>4. CASE AckWrite \/ RefuseWrite
  <2>1. \/ UNCHANGED mainQueue
        \/ \E ok \in BOOLEAN : mainQueue' = Append(mainQueue, Ack(Head(pend).done, ok))
    BY <1>4 DEF AckWrite, RefuseWrite, Answered
  <2>2. \A ok \in BOOLEAN : n \notin Ack(Head(pend).done, ok).names
    BY DEF Ack
  <2>3. QED
    BY <1>1, <1>2, <2>1, <2>2 DEF Forgotten
<1>5. CASE ServerApply \/ ConnectionLost \/ OtherDevice
  <2>1. UNCHANGED mainQueue
    BY <1>5 DEF ServerApply, ConnectionLost, OtherDevice
  <2>2. QED
    BY <1>1, <2>1 DEF Forgotten
<1>6. QED
  BY <1>3, <1>4, <1>5 DEF NodeStep

\* Every step keeps deleted streamers off the rows and the snapshots.
LEMMA DeletedStep ==
  ASSUME TypeOK, TypeOK', NodeInv, DeletedRowsGone, [Next]_vars
  PROVE  DeletedRowsGone'
<1> SUFFICES ASSUME alert'.type # "presenting", NEW n \in Names, intent'[n] = "remove"
             PROVE  Forgotten(n)'
  BY DEF DeletedRowsGone, Forgotten
<1>0. /\ rows \in Seq(Names) /\ mainQueue \in Seq(MainItem)
      /\ intent \in [Names -> Ops \cup {"none"}]
  BY DEF TypeOK, NodeTypeOK
<1>1. alert.type # "presenting" /\ intent[n] = "remove" => Forgotten(n)
  BY DEF DeletedRowsGone, Forgotten
<1>2. CASE FetchDelivered
  <2>1. /\ UNCHANGED <<intent, alert>> /\ mainQueue # <<>>
        /\ mainQueue' = Tail(mainQueue)
        /\ \/ UNCHANGED rows
           \/ \E order \in SetToSeqs(Head(mainQueue).names) : rows' = rows \o order
    BY <1>2 DEF FetchDelivered, Dispatch
  <2>2. Forgotten(n)
    BY <1>1, <2>1
  <2>3. /\ Len(mainQueue) \in Nat \ {0} /\ DOMAIN mainQueue = 1 .. Len(mainQueue)
        /\ DOMAIN mainQueue' = 1 .. Len(mainQueue) - 1
        /\ \A i \in 1 .. Len(mainQueue) - 1 : mainQueue'[i] = mainQueue[i + 1]
        /\ Head(mainQueue) = mainQueue[1] /\ mainQueue[1] \in MainItem
    <3>1. Len(mainQueue) \in Nat \ {0} /\ mainQueue \in [1 .. Len(mainQueue) -> MainItem]
      BY <1>0, <2>1, LenProperties, EmptySeq
    <3>2. QED
      BY <1>0, <2>1, <3>1, HeadTailProperties
  <2>4. \A i \in DOMAIN mainQueue' : n \notin mainQueue'[i].names
    BY <2>2, <2>3 DEF Forgotten
  <2>5. ASSUME NEW order \in SetToSeqs(Head(mainQueue).names), rows' = rows \o order
        PROVE  \A i \in DOMAIN rows' : rows'[i] # n
    <3>1. Head(mainQueue).names \in SUBSET Names /\ n \notin Head(mainQueue).names
      BY <2>2, <2>3 DEF MainItem, Forgotten
    <3>2. order \in Seq(Head(mainQueue).names)
      BY <3>1, OrderFacts
    <3>3. /\ Len(order) \in Nat /\ order \in [1 .. Len(order) -> Head(mainQueue).names]
          /\ Len(rows) \in Nat /\ rows \in [1 .. Len(rows) -> Names]
      BY <1>0, <3>2, LenProperties
    <3>4. \A i \in 1 .. Len(order) : order[i] # n
      BY <3>1, <3>3
    <3>5. \A i \in 1 .. Len(rows) : rows[i] # n
      BY <2>2, <3>3 DEF Forgotten
    <3>6. /\ DOMAIN rows' = 1 .. Len(rows) + Len(order)
          /\ \A i \in 1 .. Len(rows) + Len(order) :
               rows'[i] = IF i <= Len(rows) THEN rows[i] ELSE order[i - Len(rows)]
      BY <2>5, <3>3
    <3>7. QED
      BY <3>3, <3>4, <3>5, <3>6
  <2>6. QED
    BY <2>1, <2>2, <2>4, <2>5 DEF Forgotten
<1>3. CASE viewWillDisappear \/ logOut \/ refreshs
  <2>1. /\ UNCHANGED <<intent, alert>> /\ rows' = <<>> /\ mainQueue' = LateQueue
    BY <1>3 DEF viewWillDisappear, logOut, refreshs, ClearAndFetch, ClearArrays
  <2>2. Forgotten(n)
    BY <1>1, <2>1
  <2>3. QED
    BY <2>1, <2>2, LateFacts DEF Forgotten, TypeOK
<1>4. CASE DelSuccessPresented
  <2>1. rows' = <<>> /\ mainQueue' = LateQueue /\ mainQueue = <<>>
    BY <1>4 DEF DelSuccessPresented, ClearAndFetch, ClearArrays
  <2>2. DOMAIN mainQueue' = {}
    BY <2>1 DEF LateQueue
  <2>3. QED
    BY <2>1, <2>2 DEF Forgotten
<1>5. CASE confirmDelete
  BY <1>5 DEF confirmDelete
<1>6. CASE SearchAdds
  <2>1. UNCHANGED <<rows, mainQueue, alert>> /\ \E m \in Names :
          intent' = [intent EXCEPT ![m] = "add"]
    BY <1>6 DEF SearchAdds, Write, listVars
  <2>2. intent[n] = "remove"
    BY <2>1, <1>0
  <2>3. QED
    BY <1>1, <2>1, <2>2 DEF Forgotten
<1>7. CASE Relaunch
  BY <1>7 DEF Relaunch, ClientLost, Forgotten
<1>8. CASE NodeGoesOn
  BY <1>1, <1>8, NodeStepForgets, InvReadsOwnWrites DEF NodeGoesOn, listVars, TypeOK
<1>9. CASE \/ viewWillAppear \/ Layout \/ cellForItemAt \/ didSelectItemAt
           \/ CellReply \/ SelectReply \/ delDatabase \/ cancelDelete
           \/ dismissAlert \/ UNCHANGED vars
  <2>1. UNCHANGED <<rows, mainQueue, intent>>
    BY <1>9
    DEF viewWillAppear, Layout, cellForItemAt, didSelectItemAt, CellReply,
        SelectReply, delDatabase, cancelDelete, dismissAlert, vars, nodeVars, listVars
  <2>2. alert.type # "presenting"
    BY <1>9
    DEF viewWillAppear, Layout, cellForItemAt, didSelectItemAt, CellReply,
        SelectReply, delDatabase, cancelDelete, dismissAlert, vars, listVars,
        Touchable, NoAlert
  <2>3. QED
    BY <1>1, <2>1, <2>2 DEF Forgotten
<1>10. QED
  BY <1>2, <1>3, <1>4, <1>5, <1>6, <1>7, <1>8, <1>9 DEF Next

\* A deleted streamer is in no row, and in no snapshot that waits, once the alert
\* that reports the deletion has been presented.
THEOREM DeletedStaysDeleted == Spec => []DeletedRowsGone
<1>1. Init => DeletedRowsGone
  BY DEF Init, NodeInit, DeletedRowsGone
<1>2. TypeOK /\ TypeOK' /\ NodeInv /\ DeletedRowsGone /\ [Next]_vars => DeletedRowsGone'
  BY DeletedStep
<1>3. QED
  BY <1>1, <1>2, TwitchListTyping, NodeInvInList, PTL DEF Spec
=============================================================================
