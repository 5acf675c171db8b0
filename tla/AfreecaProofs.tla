---------------------------- MODULE AfreecaProofs ----------------------------
(***************************************************************************)
(* Proofs about the Afreeca tab, for every finite set of names and cell    *)
(* objects, whatever a search may find, and every bound.                   *)
(***************************************************************************)
EXTENDS Afreeca, FollowNodeProofs, FiniteSetTheorems

\* TypeOK in parts: what the actions change together.
SessionTypes ==
  /\ app \in {"running"} \cup CrashSites
  /\ user \in {"owner", "none"}
  /\ tab \in {"twitch", "afreeca"} /\ top \in {"list", "search"}

CellRec == [item : Nat, tag : Nat, label : Names \cup {NoName},
            delShown : BOOLEAN, sure : BOOLEAN]

Questions == [cell : Cells \cup {NoCell}, row : Nat \ {0}, newest : BOOLEAN,
              cleared : BOOLEAN]

CellTypes == cells \in [Cells -> CellRec]
LiveTypes == live \subseteq Questions
RowTypes == rows \in Seq(Names) /\ items \in Nat /\ dirty \in BOOLEAN

AlertOK == alert \in [type : AlertTypes] \cup [type : {"confirm"}, bj : Names]

SearchTypes ==
  /\ searches \in Seq(Found)
  /\ searchData \in Found /\ searchCells \in Found /\ typed \in Found
  /\ searchDirty \in BOOLEAN /\ spinner \in BOOLEAN /\ disturbed \in BOOLEAN

\* The buttons of the search cells stand for the rows of searchData once they
\* are laid out; without it a button's tag might point past the end.
ButtonsStand == ~searchDirty => searchCells = searchData

TypeInv == TypeOK /\ ButtonsStand

LEMMA TypeParts ==
  TypeOK <=> /\ NodeTypeOK /\ SessionTypes /\ RowTypes /\ CellTypes /\ LiveTypes
             /\ AlertOK /\ SearchTypes
<1>1. {dirty, searchDirty, spinner, disturbed} \subseteq BOOLEAN
        <=> /\ dirty \in BOOLEAN /\ searchDirty \in BOOLEAN
            /\ spinner \in BOOLEAN /\ disturbed \in BOOLEAN
  BY Zenon
<1>2. {searchData, searchCells, typed} \subseteq Found
        <=> searchData \in Found /\ searchCells \in Found /\ typed \in Found
  BY Zenon
<1>3. QED
  BY <1>1, <1>2, Zenon
  DEF TypeOK, SessionTypes, RowTypes, CellTypes, CellRec, LiveTypes, Questions,
      AlertOK, SearchTypes

-----------------------------------------------------------------------------
(* The operators the actions are built from.                               *)

\* An order of a set of names is a sequence of names.
LEMMA OrderTyping ==
  ASSUME NEW S \in SUBSET Names, NEW order \in SetToSeqs(S)
  PROVE  order \in Seq(Names)
<1>1. Cardinality(S) \in Nat
  BY NameAssumption, FS_Subset, FS_CardinalityType
<1>2. order \in [1 .. Cardinality(S) -> S]
  BY DEF SetToSeqs
<1>3. order \in [1 .. Cardinality(S) -> Names]
  BY <1>2
<1>4. QED
  BY <1>1, <1>3

\* Taking a search out of those under way leaves searches.
LEMMA RemoveTyping ==
  ASSUME NEW s \in Seq(Found), NEW i \in DOMAIN s
  PROVE  RemoveAt(s, i) \in Seq(Found) /\ s[i] \in Found
<1>1. /\ Len(s) \in Nat /\ DOMAIN s = 1 .. Len(s)
      /\ s \in [1 .. Len(s) -> Found]
  BY LenProperties
<1>2. SubSeq(s, 1, i - 1) \in Seq(Found) /\ SubSeq(s, i + 1, Len(s)) \in Seq(Found)
  BY <1>1
<1>3. QED
  BY <1>1, <1>2, ConcatProperties DEF RemoveAt

\* A closure whose screen was left is still one.
LEMMA LeaveBlockTyping ==
  ASSUME NEW c
  PROVE  /\ c \in Callbacks => LeaveBlock(c) \in Callbacks
         /\ c = NoCallback => LeaveBlock(c) = NoCallback
<1>1. c \in Callbacks /\ c # FetchBlock =>
        c \in [by : {"addDatabase", "updateChildValues"}, name : Names, left : BOOLEAN]
  BY BlockAssumption DEF Blocks
<1>2. c \in Callbacks => LeaveBlock(c) \in Callbacks
  BY <1>1, BlockAssumption DEF LeaveBlock, Blocks
<1>3. QED
  BY <1>2, CallbackAssumption DEF LeaveBlock

\* Leaving the search screen keeps the types of the closures' containers.
LEMMA LeaveTyping ==
  ASSUME NodeTypeOK
  PROVE  /\ LeaveQueue \in Seq(MainItem)
         /\ LeavePend \in Seq(WriteRec)
         /\ LeaveReads \in Seq(Callbacks)
<1>1. /\ Len(reads) \in Nat /\ reads \in [1 .. Len(reads) -> Callbacks]
      /\ Len(pend) \in Nat /\ pend \in [1 .. Len(pend) -> WriteRec]
      /\ Len(mainQueue) \in Nat /\ mainQueue \in [1 .. Len(mainQueue) -> MainItem]
  BY LenProperties DEF NodeTypeOK
<1>2. LeaveQueue \in [1 .. Len(mainQueue) -> MainItem]
  <2>1. \A m \in MainItem : [m EXCEPT !.c = LeaveBlock(m.c)] \in MainItem
    BY LeaveBlockTyping DEF MainItem
  <2>2. QED
    BY <1>1, <2>1 DEF LeaveQueue
<1>3. LeavePend \in [1 .. Len(pend) -> WriteRec]
  <2>1. \A w \in WriteRec : [w EXCEPT !.done = LeaveBlock(w.done)] \in WriteRec
    BY LeaveBlockTyping DEF WriteRec
  <2>2. QED
    BY <1>1, <2>1 DEF LeavePend
<1>4. LeaveReads \in [1 .. Len(reads) -> Callbacks]
  BY <1>1, LeaveBlockTyping DEF LeaveReads
<1>5. LeaveQueue \in Seq(MainItem)
  BY <1>1, <1>2
<1>6. LeavePend \in Seq(WriteRec)
  BY <1>1, <1>3
<1>7. LeaveReads \in Seq(Callbacks)
  BY <1>1, <1>4
<1>8. QED
  BY <1>5, <1>6, <1>7

\* A question about a row of the arrays has the type of a question, and asking
\* adds only questions.
LEMMA AskTyping ==
  ASSUME LiveTypes, NEW qs \in SUBSET Questions, Ask(qs)
  PROVE  LiveTypes'
<1>1. \A q \in live : \A b \in BOOLEAN : [q EXCEPT !.newest = b] \in Questions
  BY DEF LiveTypes, Questions
<1>2. QED
  BY <1>1, Zenon DEF LiveTypes, Ask

-----------------------------------------------------------------------------
(* Types, one part at a time.                                              *)

\* The cells, whoever is laid out in them.
LEMMA CellStep ==
  ASSUME TypeInv, [Next]_vars
  PROVE  CellTypes'
<1>0. cells \in [Cells -> CellRec] /\ rows \in Seq(Names) /\ live \subseteq Questions
  BY TypeParts DEF TypeInv, CellTypes, RowTypes, LiveTypes
<1>1. \A i \in Nat, e \in CellRec :
        Dequeued(e, i) \in CellRec /\ [e EXCEPT !.item = i] \in CellRec
  BY DEF Dequeued, CellRec
<1>2. NewCell \in CellRec
  BY DEF NewCell, CellRec
<1>3. CASE Layout
  <2>1. PICK place \in [1 .. Lowest(Len(rows), Cardinality(Cells)) -> Cells] :
          cells' = [c \in Cells |->
            IF \E i \in DOMAIN place : place[i] = c
            THEN Dequeued(cells[c], CHOOSE i \in DOMAIN place : place[i] = c)
            ELSE [cells[c] EXCEPT !.item = 0]]
    BY <1>3 DEF Layout
  <2>2. DOMAIN place \subseteq Nat
    BY <1>0, LenProperties DEF Lowest
  <2>3. \A c \in Cells : cells'[c] \in CellRec
    <3>1. TAKE c \in Cells
    <3>2. CASE \E i \in DOMAIN place : place[i] = c
      <4> DEFINE k == CHOOSE i \in DOMAIN place : place[i] = c
      <4>1. k \in Nat
        BY <2>2, <3>2
      <4>2. cells'[c] = Dequeued(cells[c], k)
        BY <2>1, <3>2
      <4>3. QED
        BY <1>0, <1>1, <4>1, <4>2
    <3>3. CASE ~ \E i \in DOMAIN place : place[i] = c
      <4>1. cells'[c] = [cells[c] EXCEPT !.item = 0]
        BY <2>1, <3>3
      <4>2. cells[c] \in CellRec /\ 0 \in Nat
        BY <1>0
      <4>3. [cells[c] EXCEPT !.item = 0] \in CellRec
        BY <1>1, <4>2, Zenon
      <4>4. QED
        BY <4>1, <4>3
    <3>4. QED
      BY <3>2, <3>3
  <2>4. QED
    BY <2>1, <2>3 DEF CellTypes
<1>4. CASE cellForItemAt
  <2>1. items \in Nat
    BY TypeParts DEF TypeInv, RowTypes
  <2>2. PICK c \in Cells, i \in 1 .. items :
          \/ cells' = [cells EXCEPT ![c].item = i]
          \/ cells' = [cells EXCEPT ![c] = Dequeued(cells[c], i)]
          \/ UNCHANGED cells
    BY <1>4 DEF cellForItemAt
  <2>3. i \in Nat
    BY <2>1, <2>2
  <2>4. QED
    BY <1>0, <1>1, <2>2, <2>3 DEF CellTypes
<1>5. CASE CellReply
  <2>1. CASE UNCHANGED cells
    BY <2>1, <1>0 DEF CellTypes
  <2>2. CASE ~ UNCHANGED cells
    <3>1. PICK q \in live :
            /\ q.cell # NoCell /\ q.row \in DOMAIN rows
            /\ cells' = [cells EXCEPT ![q.cell].label = rows[q.row],
                                      ![q.cell].delShown = TRUE,
                                      ![q.cell].sure = q.newest]
      BY <1>5, <2>2 DEF CellReply
    <3>2. q.cell \in Cells /\ q.newest \in BOOLEAN /\ rows[q.row] \in Names
      BY <1>0, <3>1, LenProperties DEF Questions
    <3>3. [cells[q.cell] EXCEPT !.label = rows[q.row], !.delShown = TRUE,
                                !.sure = q.newest] \in CellRec
      BY <1>0, <3>2 DEF CellRec
    <3>4. QED
      BY <1>0, <3>1, <3>2, <3>3 DEF CellTypes
  <2>3. QED
    BY <2>1, <2>2
<1>6. CASE Relaunch
  BY <1>2, <1>6 DEF Relaunch, CellTypes
<1>7. CASE UNCHANGED cells
  BY <1>0, <1>7 DEF CellTypes
<1>8. QED
  BY <1>3, <1>4, <1>5, <1>6, <1>7, Zenon
  DEF Next, FetchDelivered, viewWillDisappear, chooseTab, popSearch, hideSearch,
      logOut, refreshs, didSelectItemAt, SelectReply, delDatabase, confirmDelete,
      DelSuccessPresented, dismissAlert, textFieldShouldReturn, SearchReply,
      SearchLayout, addDatabase, FollowRead, FollowWritten, NodeGoesOn, listVars,
      vars

\* The questions under way.
LEMMA LiveStep ==
  ASSUME TypeInv, [Next]_vars
  PROVE  LiveTypes'
<1>0. /\ live \subseteq Questions /\ LiveTypes /\ rows \in Seq(Names)
      /\ cells \in [Cells -> CellRec] /\ items \in Nat
  BY TypeParts DEF TypeInv, CellTypes, RowTypes, LiveTypes
<1>1. \A c \in Cells \cup {NoCell}, i \in Nat \ {0} : Question(c, i) \in Questions
  BY DEF Question, Questions
<1>2. CASE Layout
  <2>1. PICK place \in [1 .. Lowest(Len(rows), Cardinality(Cells)) -> Cells] :
          Ask({Question(place[i], i) : i \in DOMAIN place})
    BY <1>2 DEF Layout
  <2>2. \A i \in DOMAIN place : i \in Nat \ {0} /\ place[i] \in Cells
    BY <1>0, LenProperties DEF Lowest
  <2>3. {Question(place[i], i) : i \in DOMAIN place} \in SUBSET Questions
    BY <1>1, <2>2
  <2>4. QED
    BY <1>0, <2>1, <2>3, AskTyping
<1>3. CASE cellForItemAt
  <2>1. PICK c \in Cells, i \in 1 .. items :
          UNCHANGED live \/ Ask({Question(c, i)})
    BY <1>3 DEF cellForItemAt
  <2>2. {Question(c, i)} \in SUBSET Questions
    BY <1>0, <1>1
  <2>3. QED
    BY <1>0, <2>1, <2>2, AskTyping DEF LiveTypes
<1>4. CASE didSelectItemAt
  <2>1. PICK c \in Cells :
          /\ cells[c].item # 0
          /\ UNCHANGED live \/ Ask({Question(NoCell, cells[c].item)})
    BY <1>4 DEF didSelectItemAt
  <2>2. cells[c].item \in Nat \ {0}
    BY <1>0, <2>1 DEF CellRec
  <2>3. {Question(NoCell, cells[c].item)} \in SUBSET Questions
    BY <1>1, <2>2
  <2>4. QED
    BY <1>0, <2>1, <2>3, AskTyping DEF LiveTypes
<1>5. CASE viewWillDisappear \/ refreshs \/ DelSuccessPresented
  <2>1. live' = {[q EXCEPT !.cleared = TRUE] : q \in live}
    BY <1>5 DEF viewWillDisappear, refreshs, DelSuccessPresented, ClearArrays
  <2>2. \A q \in live : [q EXCEPT !.cleared = TRUE] \in Questions
    BY <1>0 DEF Questions
  <2>3. QED
    BY <2>1, <2>2 DEF LiveTypes
<1>6. CASE CellReply \/ SelectReply
  BY <1>0, <1>6 DEF CellReply, SelectReply, Take, LiveTypes
<1>7. CASE Relaunch
  BY <1>7 DEF Relaunch, LiveTypes
<1>8. CASE UNCHANGED live
  BY <1>0, <1>8 DEF LiveTypes
<1>9. QED
  BY <1>2, <1>3, <1>4, <1>5, <1>6, <1>7, <1>8, Zenon
  DEF Next, FetchDelivered, chooseTab, popSearch, hideSearch, logOut, delDatabase,
      confirmDelete, dismissAlert, textFieldShouldReturn, SearchReply, SearchLayout,
      addDatabase, FollowRead, FollowWritten, NodeGoesOn, listVars, vars

\* The arrays.
LEMMA RowStep ==
  ASSUME TypeInv, [Next]_vars
  PROVE  RowTypes'
<1>0. /\ rows \in Seq(Names) /\ items \in Nat /\ dirty \in BOOLEAN
      /\ mainQueue \in Seq(MainItem)
  BY TypeParts DEF TypeInv, RowTypes, NodeTypeOK
<1>1. CASE FetchDelivered
  <2>1. CASE UNCHANGED <<rows, dirty>>
    BY <1>0, <1>1, <2>1 DEF FetchDelivered, RowTypes
  <2>2. CASE ~ UNCHANGED <<rows, dirty>>
    <3>1. PICK order \in SetToSeqs(Head(mainQueue).names) :
            rows' = rows \o order /\ dirty' = TRUE /\ items' = items
      BY <1>1, <2>2 DEF FetchDelivered
    <3>2. Head(mainQueue) \in MainItem
      BY <1>0, <1>1, HeadTailProperties DEF FetchDelivered, Dispatch
    <3>3. Head(mainQueue).names \in SUBSET Names
      BY <3>2 DEF MainItem
    <3>4. order \in Seq(Names)
      BY <3>1, <3>3, OrderTyping
    <3>5. QED
      BY <1>0, <3>1, <3>4, ConcatProperties DEF RowTypes
  <2>3. QED
    BY <2>1, <2>2
<1>2. CASE viewWillDisappear \/ refreshs \/ DelSuccessPresented
  <2>1. rows' = <<>> /\ items' = items /\ dirty' = dirty
    BY <1>2 DEF viewWillDisappear, refreshs, DelSuccessPresented, ClearArrays
  <2>2. QED
    BY <1>0, <2>1 DEF RowTypes
<1>3. CASE Layout
  <2>1. rows' = rows /\ items' = Len(rows) /\ dirty' = FALSE
    BY <1>3 DEF Layout
  <2>2. QED
    BY <1>0, <2>1, LenProperties DEF RowTypes
<1>4. CASE Relaunch
  <2>1. rows' = <<>> /\ items' = 0 /\ dirty' = FALSE
    BY <1>4 DEF Relaunch
  <2>2. <<>> \in Seq(Names) /\ 0 \in Nat
    OBVIOUS
  <2>3. QED
    BY <2>1, <2>2, Zenon DEF RowTypes
<1>5. CASE UNCHANGED <<rows, items, dirty>>
  BY <1>0, <1>5 DEF RowTypes
<1>6. CASE \/ chooseTab \/ popSearch \/ hideSearch \/ logOut \/ cellForItemAt
           \/ CellReply \/ didSelectItemAt \/ SelectReply \/ delDatabase
           \/ confirmDelete \/ dismissAlert \/ textFieldShouldReturn \/ SearchReply
           \/ SearchLayout \/ addDatabase \/ FollowRead \/ FollowWritten
           \/ NodeGoesOn \/ UNCHANGED vars
  <2>1. UNCHANGED <<rows, items, dirty>>
    BY <1>6
    DEF chooseTab, popSearch, hideSearch, logOut, cellForItemAt, CellReply,
        didSelectItemAt, SelectReply, delDatabase, confirmDelete, dismissAlert,
        textFieldShouldReturn, SearchReply, SearchLayout, addDatabase, FollowRead,
        FollowWritten, NodeGoesOn, listVars, vars
  <2>2. QED
    BY <1>5, <2>1
<1>7. QED
  BY <1>1, <1>2, <1>3, <1>4, <1>6 DEF Next

\* The session and the alert.
LEMMA SessionStep ==
  ASSUME TypeInv, [Next]_vars
  PROVE  SessionTypes'
<1>0. SessionTypes
  BY TypeParts DEF TypeInv
<1>1. CASE viewWillDisappear \/ chooseTab \/ popSearch \/ hideSearch \/ logOut
           \/ Relaunch
  BY <1>0, <1>1
  DEF viewWillDisappear, chooseTab, viewWillAppear, popSearch, hideSearch, logOut,
      Relaunch, SessionTypes
<1>2. CASE cellForItemAt \/ CellReply \/ didSelectItemAt \/ SelectReply
           \/ delDatabase \/ FollowRead
  <2>1. app' = app \/ app' \in CrashSites
    BY <1>2 DEF cellForItemAt, CellReply, didSelectItemAt, SelectReply, delDatabase,
                FollowRead, CrashSites
  <2>2. user' = user /\ tab' = tab /\ top' = top
    BY <1>2 DEF cellForItemAt, CellReply, didSelectItemAt, SelectReply, delDatabase,
                FollowRead
  <2>3. QED
    BY <1>0, <2>1, <2>2 DEF SessionTypes
<1>3. CASE \/ FetchDelivered \/ refreshs \/ Layout \/ confirmDelete
           \/ DelSuccessPresented \/ dismissAlert \/ textFieldShouldReturn
           \/ SearchReply \/ SearchLayout \/ addDatabase \/ FollowWritten
           \/ NodeGoesOn \/ UNCHANGED vars
  <2>1. UNCHANGED <<app, user, tab, top>>
    BY <1>3
    DEF FetchDelivered, refreshs, Layout, confirmDelete, DelSuccessPresented,
        dismissAlert, textFieldShouldReturn, SearchReply, SearchLayout, addDatabase,
        FollowWritten, NodeGoesOn, sessionVars, vars
  <2>2. QED
    BY <1>0, <2>1 DEF SessionTypes
<1>4. QED
  BY <1>1, <1>2, <1>3 DEF Next

LEMMA PresentTyping ==
  ASSUME NEW type \in AlertTypes, NEW shows, NEW a,
         a \in [type : AlertTypes] \cup [type : {"confirm"}, bj : Names]
  PROVE  Present(type, shows, a)
           \in [type : AlertTypes] \cup [type : {"confirm"}, bj : Names]
BY DEF Present

LEMMA AlertStep ==
  ASSUME TypeInv, [Next]_vars
  PROVE  AlertOK'
<1>0. AlertOK /\ rows \in Seq(Names) /\ cells \in [Cells -> CellRec]
  BY TypeParts DEF TypeInv, RowTypes, CellTypes
<1>1. CASE SelectReply \/ textFieldShouldReturn \/ FollowRead \/ FollowWritten
  <2>1. \A t \in {"AfreecaStore", "SearchError", "FollowOverlap", "FollowError",
                  "FollowSuccess"} : t \in AlertTypes
    BY DEF AlertTypes
  <2>2. CASE FollowWritten
    <3>1. PICK shows, first :
            /\ first = alert \/ first = Present("FollowError", shows, alert)
            /\ alert' = Present("FollowSuccess", shows, first)
      BY <2>2, Zenon DEF FollowWritten
    <3>2. first \in [type : AlertTypes] \cup [type : {"confirm"}, bj : Names]
      BY <1>0, <2>1, <3>1, PresentTyping DEF AlertOK
    <3>3. QED
      BY <2>1, <3>1, <3>2, PresentTyping DEF AlertOK
  <2>3. CASE SelectReply \/ textFieldShouldReturn \/ FollowRead
    <3>1. \/ alert' = alert
          \/ \E t \in {"AfreecaStore", "SearchError", "FollowOverlap"} : \E shows :
               alert' = Present(t, shows, alert)
      BY <2>3, Zenon DEF SelectReply, textFieldShouldReturn, FollowRead
    <3>2. QED
      BY <1>0, <2>1, <3>1, PresentTyping DEF AlertOK
  <2>4. QED
    BY <1>1, <2>2, <2>3
<1>2. CASE delDatabase
  <2>1. CASE alert' = alert
    BY <1>0, <2>1 DEF AlertOK
  <2>2. CASE alert' # alert
    <3>1. PICK c \in Cells : cells[c].tag \in DOMAIN rows
                             /\ alert' = Confirm(rows[cells[c].tag])
      BY <1>2, <2>2 DEF delDatabase
    <3>2. rows[cells[c].tag] \in Names
      BY <1>0, <3>1, LenProperties
    <3>3. QED
      BY <3>1, <3>2 DEF AlertOK, Confirm
  <2>3. QED
    BY <2>1, <2>2
<1>3. CASE confirmDelete \/ DelSuccessPresented \/ dismissAlert \/ Relaunch
  BY <1>3
  DEF confirmDelete, DelSuccessPresented, dismissAlert, Relaunch, NoAlert, AlertOK,
      AlertTypes
<1>4. CASE \/ FetchDelivered \/ viewWillDisappear \/ chooseTab \/ popSearch
           \/ hideSearch \/ logOut \/ refreshs \/ Layout \/ cellForItemAt
           \/ CellReply \/ didSelectItemAt \/ SearchReply \/ SearchLayout
           \/ addDatabase \/ NodeGoesOn \/ UNCHANGED vars
  <2>1. UNCHANGED alert
    BY <1>4
    DEF FetchDelivered, viewWillDisappear, chooseTab, popSearch, hideSearch, logOut,
        refreshs, Layout, cellForItemAt, CellReply, didSelectItemAt, SearchReply,
        SearchLayout, addDatabase, NodeGoesOn, vars
  <2>2. QED
    BY <1>0, <2>1 DEF AlertOK
<1>5. QED
  BY <1>1, <1>2, <1>3, <1>4 DEF Next

\* The search screen, with the labels its buttons stand for.
LEMMA SearchStep ==
  ASSUME TypeInv, [Next]_vars
  PROVE  SearchTypes' /\ ButtonsStand'
<1>0. SearchTypes /\ ButtonsStand
  BY TypeParts DEF TypeInv
<1>1. CASE popSearch \/ logOut \/ Relaunch
  <2>1. FreshSearch
    BY <1>1 DEF popSearch, logOut, Relaunch
  <2>2. <<>> \in Seq(Found) /\ <<>> \in Found
    BY FoundAssumption
  <2>3. QED
    BY <2>1, <2>2, Zenon DEF FreshSearch, SearchTypes, ButtonsStand
<1>2. CASE textFieldShouldReturn
  <2>1. /\ UNCHANGED <<searchData, searchCells, searchDirty>>
        /\ \/ UNCHANGED <<searches, typed, spinner, disturbed>>
           \/ /\ typed' \in Found /\ searches' = Append(searches, typed')
              /\ spinner' = TRUE /\ disturbed' = (searches # <<>>)
    BY <1>2 DEF textFieldShouldReturn
  <2>2. searches' \in Seq(Found) /\ typed' \in Found
    BY <1>0, <2>1, AppendProperties DEF SearchTypes
  <2>3. (spinner' = spinner \/ spinner' = TRUE)
        /\ (disturbed' = disturbed \/ disturbed' = (searches # <<>>))
    BY <2>1
  <2>4. spinner' \in BOOLEAN /\ disturbed' \in BOOLEAN
    BY <1>0, <2>3, Zenon DEF SearchTypes
  <2>5. QED
    BY <1>0, <2>1, <2>2, <2>4 DEF SearchTypes, ButtonsStand
<1>3. CASE SearchReply
  <2>1. PICK i \in DOMAIN searches :
          /\ searches' = RemoveAt(searches, i)
          /\ \/ /\ searchData' = searches[i] /\ searchDirty' = TRUE
                /\ spinner' = FALSE /\ UNCHANGED disturbed
             \/ /\ disturbed' = TRUE
                /\ UNCHANGED <<searchData, searchDirty, spinner>>
    BY <1>3 DEF SearchReply
  <2>2. searches' \in Seq(Found) /\ searches[i] \in Found
    BY <1>0, <2>1, RemoveTyping DEF SearchTypes
  <2>3. typed' = typed /\ searchCells' = searchCells
    BY <1>3 DEF SearchReply
  <2>4. CASE /\ searchData' = searches[i] /\ searchDirty' = TRUE
             /\ spinner' = FALSE /\ disturbed' = disturbed
    BY <1>0, <2>2, <2>3, <2>4, Zenon DEF SearchTypes, ButtonsStand
  <2>5. CASE /\ disturbed' = TRUE /\ searchData' = searchData
             /\ searchDirty' = searchDirty /\ spinner' = spinner
    BY <1>0, <2>2, <2>3, <2>5, Zenon DEF SearchTypes, ButtonsStand
  <2>6. QED
    BY <2>1, <2>4, <2>5
<1>4. CASE SearchLayout
  <2>1. /\ searchCells' = searchData /\ searchDirty' = FALSE
        /\ searches' = searches /\ searchData' = searchData /\ typed' = typed
        /\ spinner' = spinner /\ disturbed' = disturbed
    BY <1>4 DEF SearchLayout
  <2>2. QED
    BY <1>0, <2>1, Zenon DEF SearchTypes, ButtonsStand
<1>5. CASE \/ FetchDelivered \/ viewWillDisappear \/ chooseTab \/ hideSearch
           \/ refreshs \/ Layout \/ cellForItemAt \/ CellReply \/ didSelectItemAt
           \/ SelectReply \/ delDatabase \/ confirmDelete \/ DelSuccessPresented
           \/ dismissAlert \/ addDatabase \/ FollowRead \/ FollowWritten
           \/ NodeGoesOn \/ UNCHANGED vars
  <2>1. UNCHANGED searchVars
    BY <1>5
    DEF FetchDelivered, viewWillDisappear, chooseTab, hideSearch, refreshs, Layout,
        cellForItemAt, CellReply, didSelectItemAt, SelectReply, delDatabase,
        confirmDelete, DelSuccessPresented, dismissAlert, addDatabase, FollowRead,
        FollowWritten, NodeGoesOn, vars
  <2>2. QED
    BY <1>0, <2>1 DEF searchVars, SearchTypes, ButtonsStand
<1>6. QED
  BY <1>1, <1>2, <1>3, <1>4, <1>5 DEF Next

\* Every block the screens hand over is one the client can call back.
LEMMA BlockTyping ==
  /\ FetchBlock \in Callbacks
  /\ \A n \in Names : FollowBlock("addDatabase", n) \in Callbacks
  /\ \A c \in Callbacks : c.by = "addDatabase" =>
       c.name \in Names /\ [c EXCEPT !.by = "updateChildValues"] \in Callbacks
BY BlockAssumption DEF Blocks, FetchBlock, FollowBlock

\* The node, which the tab uses.
LEMMA TabNodeStep ==
  ASSUME TypeInv, [Next]_vars
  PROVE  NodeTypeOK'
<1>0. /\ NodeTypeOK /\ reads \in Seq(Callbacks) /\ mainQueue \in Seq(MainItem)
      /\ FetchBlock \in Callbacks
  BY BlockTyping DEF TypeInv, TypeOK, NodeTypeOK
<1>1. CASE chooseTab \/ refreshs \/ DelSuccessPresented
  <2>1. reads' = reads \/ reads' = Append(reads, FetchBlock)
    BY <1>1 DEF chooseTab, viewWillAppear, refreshs, DelSuccessPresented, fetchBjData,
                Observe
  <2>2. reads' \in Seq(Callbacks)
    BY <1>0, <2>1, AppendProperties
  <2>3. UNCHANGED <<server, pend, mainQueue, intent>>
    BY <1>1 DEF chooseTab, refreshs, DelSuccessPresented
  <2>4. QED
    BY <1>0, <2>2, <2>3 DEF NodeTypeOK
<1>2. CASE popSearch \/ logOut
  <2>1. /\ mainQueue' = LeaveQueue /\ pend' = LeavePend
        /\ reads' = LeaveReads \/ reads' = Append(LeaveReads, FetchBlock)
        /\ UNCHANGED <<server, intent>>
    BY <1>2 DEF popSearch, logOut, Observe
  <2>2. reads' \in Seq(Callbacks)
    <3>1. LeaveReads \in Seq(Callbacks)
      BY <1>0, LeaveTyping
    <3>2. QED
      BY <1>0, <2>1, <3>1, AppendProperties
  <2>3. QED
    BY <1>0, <2>1, <2>2, LeaveTyping DEF NodeTypeOK
<1>3. CASE addDatabase
  <2>1. PICK i \in DOMAIN searchCells :
          reads' = Append(reads, FollowBlock("addDatabase", searchData[i]))
    BY <1>3 DEF addDatabase, Observe
  <2>2. searchCells = searchData /\ searchData \in Seq(Names)
    BY <1>3, TypeParts, FoundAssumption
    DEF addDatabase, SearchTouchable, TypeInv, ButtonsStand, SearchTypes
  <2>3. searchData[i] \in Names
    BY <2>1, <2>2, LenProperties
  <2> DEFINE b == FollowBlock("addDatabase", searchData[i])
  <2>4. b \in Callbacks /\ reads' = Append(reads, b)
    BY <2>1, <2>3, BlockTyping, Zenon
  <2> HIDE DEF b
  <2>5. reads' \in Seq(Callbacks)
    BY <1>0, <2>4, AppendProperties
  <2>6. QED
    BY <1>0, <1>3, <2>5 DEF addDatabase, NodeTypeOK
<1>4. CASE FollowRead
  <2>1. mainQueue # <<>> /\ mainQueue' = Tail(mainQueue) /\ UNCHANGED <<server, reads>>
    BY <1>4 DEF FollowRead, Dispatch
  <2>2. Head(mainQueue) \in MainItem /\ mainQueue' \in Seq(MainItem)
    BY <1>0, <2>1, HeadTailProperties
  <2>3. CASE UNCHANGED <<pend, intent>>
    BY <1>0, <2>1, <2>2, <2>3 DEF NodeTypeOK
  <2>4. CASE /\ Head(mainQueue).c.by = "addDatabase"
             /\ Write("add", Head(mainQueue).c.name,
                      [Head(mainQueue).c EXCEPT !.by = "updateChildValues"])
    <3> DEFINE c == Head(mainQueue).c
               w == [op |-> "add", name |-> c.name, applied |-> FALSE,
                     done |-> [c EXCEPT !.by = "updateChildValues"]]
    <3>1. c \in Callbacks
      BY <2>2 DEF MainItem
    <3>2. c.name \in Names /\ [c EXCEPT !.by = "updateChildValues"] \in Callbacks
      BY <2>4, <3>1, BlockTyping
    <3>3. w \in WriteRec
      BY <3>2 DEF WriteRec, Ops
    <3>4. pend' = Append(pend, w) /\ intent' = [intent EXCEPT ![c.name] = "add"]
      BY <2>4 DEF Write
    <3>5. pend' \in Seq(WriteRec)
      BY <1>0, <3>3, <3>4, AppendProperties DEF NodeTypeOK
    <3>6. intent' \in [Names -> Ops \cup {"none"}]
      BY <1>0, <3>2, <3>4 DEF NodeTypeOK, Ops
    <3>7. QED
      BY <1>0, <2>1, <2>2, <3>5, <3>6 DEF NodeTypeOK
  <2>5. QED
    BY <1>4, <2>3, <2>4 DEF FollowRead
<1>5. CASE FetchDelivered \/ FollowWritten
  <2>1. /\ mainQueue # <<>> /\ mainQueue' = Tail(mainQueue)
        /\ UNCHANGED <<server, pend, reads, intent>>
    BY <1>5 DEF FetchDelivered, FollowWritten, Dispatch
  <2>2. mainQueue' \in Seq(MainItem)
    BY <1>0, <2>1, HeadTailProperties
  <2>3. QED
    BY <1>0, <2>1, <2>2 DEF NodeTypeOK
<1>6. CASE confirmDelete
  <2>1. alert.bj \in Names
    BY <1>6, TypeParts DEF confirmDelete, TypeInv, AlertOK, AlertTypes
  <2>2. QED
    BY <1>0, <1>6, <2>1, AppendProperties
    DEF confirmDelete, Write, WriteRec, Ops, NodeTypeOK
<1>7. CASE Relaunch
  BY <1>0, <1>7 DEF Relaunch, ClientLost, Ops, NodeTypeOK
<1>8. CASE NodeGoesOn
  BY <1>0, <1>8, NodeStepTyping DEF NodeGoesOn
<1>9. CASE \/ viewWillDisappear \/ hideSearch \/ Layout \/ cellForItemAt \/ CellReply
           \/ didSelectItemAt \/ SelectReply \/ delDatabase \/ dismissAlert
           \/ textFieldShouldReturn \/ SearchReply \/ SearchLayout \/ UNCHANGED vars
  <2>1. UNCHANGED nodeVars
    BY <1>9
    DEF viewWillDisappear, hideSearch, Layout, cellForItemAt, CellReply,
        didSelectItemAt, SelectReply, delDatabase, dismissAlert,
        textFieldShouldReturn, SearchReply, SearchLayout, vars
  <2>2. QED
    BY <1>0, <2>1 DEF nodeVars, NodeTypeOK
<1>10. QED
  BY <1>1, <1>2, <1>3, <1>4, <1>5, <1>6, <1>7, <1>8, <1>9 DEF Next

\* Every variable keeps its type, and the buttons of the search cells stand for
\* what was found.
LEMMA AfreecaTypeInv == Spec => []TypeInv
<1>1. Init => TypeInv
  <2> SUFFICES ASSUME Init PROVE TypeInv
    OBVIOUS
  <2>1. NodeTypeOK
    BY NodeInitInv DEF Init, NodeInv
  <2>2. SessionTypes
    BY DEF Init, SessionTypes
  <2>3. CellTypes /\ LiveTypes
    BY DEF Init, CellTypes, LiveTypes, CellRec, NewCell
  <2>4. <<>> \in Seq(Names) /\ <<>> \in Seq(Found) /\ <<>> \in Found /\ 0 \in Nat
    BY FoundAssumption
  <2>5. RowTypes
    BY <2>4, Zenon DEF Init, RowTypes
  <2>6. SearchTypes /\ ButtonsStand
    BY <2>4, Zenon DEF Init, SearchTypes, ButtonsStand
  <2>7. AlertOK
    BY DEF Init, AlertOK, NoAlert, AlertTypes
  <2>8. QED
    BY <2>1, <2>2, <2>3, <2>5, <2>6, <2>7, TypeParts DEF TypeInv
<1>2. TypeInv /\ [Next]_vars => TypeInv'
  <2> SUFFICES ASSUME TypeInv, [Next]_vars PROVE TypeInv'
    OBVIOUS
  <2>1. /\ NodeTypeOK' /\ SessionTypes' /\ RowTypes' /\ CellTypes' /\ LiveTypes'
        /\ AlertOK' /\ SearchTypes' /\ ButtonsStand'
    BY TabNodeStep, SessionStep, RowStep, CellStep, LiveStep, AlertStep, SearchStep
  <2>2. TypeOK'
    <3>1. (NodeTypeOK /\ SessionTypes /\ RowTypes /\ CellTypes /\ LiveTypes
           /\ AlertOK /\ SearchTypes => TypeOK)'
      BY TypeParts, PTL
    <3>2. QED
      BY <2>1, <3>1
  <2>3. QED
    BY <2>1, <2>2 DEF TypeInv
<1>3. QED
  BY <1>1, <1>2, PTL DEF Spec

\* Every variable keeps its type.
THEOREM AfreecaTyping == Spec => []TypeOK
<1>1. TypeInv => TypeOK
  BY DEF TypeInv
<1>2. QED
  BY <1>1, AfreecaTypeInv, PTL

-----------------------------------------------------------------------------
(* The cells, the arrays and the questions.                                *)

\* The row a question captured is there until the arrays are cleared.
QuestionsInRange == \A q \in live : q.cleared \/ q.row \in DOMAIN rows

\* The question asked last for a cell asks for the row its button stands for.
NewestIsTag == \A q \in live : q.newest /\ q.cell # NoCell => q.row = cells[q.cell].tag

\* A cell on the screen is laid out for a row, and its name, when the answer to
\* its last question wrote it, is that row's.
CellsInRange ==
  ~dirty /\ rows # <<>> =>
    /\ items = Len(rows)
    /\ \A c \in Cells : cells[c].item # 0 =>
         /\ cells[c].item \in DOMAIN rows /\ cells[c].tag \in DOMAIN rows
         /\ cells[c].sure => rows[cells[c].tag] = cells[c].label

ListInv == QuestionsInRange /\ NewestIsTag /\ CellsInRange

\* A question asked after the cells were laid out keeps the two facts about
\* questions, if it asks for a row that is there and it is its cell's tag.
LEMMA AskKeepsQuestions ==
  ASSUME TypeInv, QuestionsInRange, NewestIsTag, UNCHANGED rows,
         NEW qs \in SUBSET Questions, Ask(qs),
         \A q \in qs : q.row \in DOMAIN rows
                       /\ (q.cell # NoCell => q.row = cells'[q.cell].tag),
         \A c \in Cells : (\A q \in qs : q.cell # c) => cells'[c].tag = cells[c].tag
  PROVE  QuestionsInRange' /\ NewestIsTag'
<1>0. live \subseteq Questions /\ NoCell \notin Cells
  BY TypeParts, CellAssumption DEF TypeInv, LiveTypes
<1> DEFINE asked == {q.cell : q \in qs} \ {NoCell}
           old(q) == [q EXCEPT !.newest = q.newest /\ q.cell \notin asked]
<1>1. \A p \in live' : p \in qs \/ \E q \in live : p = old(q)
  BY DEF Ask
<1>2. ASSUME NEW q \in live
      PROVE  /\ old(q).row = q.row /\ old(q).cell = q.cell
             /\ q.cleared => old(q).cleared
             /\ old(q).newest => q.newest /\ q.cell \notin asked
  BY <1>0, <1>2 DEF Questions
<1>3. QuestionsInRange'
  <2> SUFFICES ASSUME NEW p \in live'
               PROVE  p.cleared \/ p.row \in DOMAIN rows
    BY DEF QuestionsInRange
  <2>1. CASE p \in qs
    BY <2>1
  <2>2. CASE \E q \in live : p = old(q)
    <3>1. PICK q \in live : p = old(q)
      BY <2>2
    <3>2. (q.cleared => p.cleared) /\ p.row = q.row
      BY <1>2, <3>1, Zenon
    <3>3. QED
      BY <3>2 DEF QuestionsInRange
  <2>3. QED
    BY <1>1, <2>1, <2>2
<1>4. NewestIsTag'
  <2> SUFFICES ASSUME NEW p \in live', p.newest, p.cell # NoCell
               PROVE  p.row = cells'[p.cell].tag
    BY DEF NewestIsTag
  <2>1. CASE p \in qs
    BY <2>1
  <2>2. CASE \E q \in live : p = old(q)
    <3>1. PICK q \in live : p = old(q)
      BY <2>2
    <3>2. q.newest /\ q.cell = p.cell /\ q.row = p.row /\ p.cell \notin asked
      BY <1>2, <3>1
    <3>3. p.cell \in Cells /\ \A r \in qs : r.cell # p.cell
      BY <1>0, <3>2 DEF Questions
    <3>4. QED
      BY <3>2, <3>3 DEF NewestIsTag
  <2>3. QED
    BY <1>1, <2>1, <2>2
<1>5. QED
  BY <1>3, <1>4

\* Clearing leaves no row to be in range of.
LEMMA ClearKeepsList ==
  ASSUME TypeInv, ListInv, ClearArrays, UNCHANGED cells
  PROVE  ListInv'
<1>0. live \subseteq Questions
  BY TypeParts DEF TypeInv, LiveTypes
<1>1. \A p \in live' : p.cleared = TRUE
        /\ \E q \in live : p.row = q.row /\ p.cell = q.cell /\ p.newest = q.newest
  BY <1>0 DEF ClearArrays, Questions
<1>2. rows' = <<>>
  BY DEF ClearArrays
<1>3. QED
  BY <1>1, <1>2 DEF ListInv, QuestionsInRange, NewestIsTag, CellsInRange

\* After a layout each cell on the screen is laid out for its item and asks.
LEMMA LayoutKeepsList ==
  ASSUME TypeInv, ListInv, Layout
  PROVE  ListInv'
<1>0. /\ cells \in [Cells -> CellRec] /\ rows \in Seq(Names)
      /\ Len(rows) \in Nat /\ DOMAIN rows = 1 .. Len(rows)
      /\ Cardinality(Cells) \in Nat /\ NoCell \notin Cells
  BY TypeParts, CellAssumption, FS_CardinalityType, LenProperties
  DEF TypeInv, CellTypes, RowTypes
<1>1. PICK place \in [1 .. Lowest(Len(rows), Cardinality(Cells)) -> Cells] :
        /\ IsInjective(place)
        /\ cells' = [c \in Cells |->
             IF \E i \in DOMAIN place : place[i] = c
             THEN Dequeued(cells[c], CHOOSE i \in DOMAIN place : place[i] = c)
             ELSE [cells[c] EXCEPT !.item = 0]]
        /\ Ask({Question(place[i], i) : i \in DOMAIN place})
  BY DEF Layout
<1>2. rows' = rows /\ items' = Len(rows)
  BY DEF Layout
<1>3. \A i \in DOMAIN place : i \in DOMAIN rows /\ i \in Nat \ {0} /\ place[i] \in Cells
  BY <1>0 DEF Lowest
<1>4. ASSUME NEW i \in DOMAIN place
      PROVE  cells'[place[i]] = Dequeued(cells[place[i]], i)
  <2> DEFINE k == CHOOSE j \in DOMAIN place : place[j] = place[i]
  <2>1. k \in DOMAIN place /\ place[k] = place[i]
    BY <1>4
  <2>2. k = i
    BY <1>1, <2>1 DEF IsInjective
  <2>3. cells'[place[i]] = Dequeued(cells[place[i]], k)
    BY <1>1, <1>3
  <2>4. QED
    BY <2>2, <2>3
<1>5. \A c \in Cells : (\A i \in DOMAIN place : place[i] # c) =>
        cells'[c].item = 0 /\ cells'[c].tag = cells[c].tag
  BY <1>0, <1>1 DEF CellRec
<1>6. \A e \in CellRec, i \in Nat :
        /\ Dequeued(e, i).item = i /\ Dequeued(e, i).tag = i
        /\ Dequeued(e, i).sure = FALSE
  BY DEF Dequeued, CellRec
<1>7. \A i \in DOMAIN place :
        /\ cells'[place[i]].item = i /\ cells'[place[i]].tag = i
        /\ cells'[place[i]].sure = FALSE
  BY <1>0, <1>3, <1>4, <1>6
<1>8. CellsInRange'
  <2> SUFFICES ASSUME NEW c \in Cells, cells'[c].item # 0
               PROVE  /\ cells'[c].item \in DOMAIN rows /\ cells'[c].tag \in DOMAIN rows
                      /\ cells'[c].sure => rows[cells'[c].tag] = cells'[c].label
    BY <1>2 DEF CellsInRange
  <2>1. PICK i \in DOMAIN place : place[i] = c
    BY <1>5
  <2>2. QED
    BY <1>3, <1>7, <2>1
<1>9. QuestionsInRange' /\ NewestIsTag'
  <2> DEFINE qs == {Question(place[i], i) : i \in DOMAIN place}
  <2>1. qs \in SUBSET Questions
    <3>1. \A c \in Cells, i \in Nat \ {0} : Question(c, i) \in Questions
      BY DEF Question, Questions
    <3>2. QED
      BY <1>3, <3>1
  <2>2. \A i \in DOMAIN place : Question(place[i], i).row = i
                                /\ Question(place[i], i).cell = place[i]
    BY DEF Question
  <2>3. \A q \in qs : q.row \in DOMAIN rows
                      /\ (q.cell # NoCell => q.row = cells'[q.cell].tag)
    BY <1>3, <1>7, <2>2
  <2>4. \A c \in Cells : (\A q \in qs : q.cell # c) => cells'[c].tag = cells[c].tag
    BY <1>5, <2>2
  <2>5. Ask(qs)
    BY <1>1
  <2> HIDE DEF qs
  <2>6. QED
    BY <1>2, <2>1, <2>3, <2>4, <2>5, AskKeepsQuestions DEF ListInv
<1>10. QED
  BY <1>8, <1>9 DEF ListInv

\* A cell that is reused asks for the row its button will stand for.
LEMMA ReuseKeepsList ==
  ASSUME TypeInv, ListInv, cellForItemAt
  PROVE  ListInv'
<1>0. /\ cells \in [Cells -> CellRec] /\ rows \in Seq(Names) /\ items \in Nat
      /\ Len(rows) \in Nat /\ DOMAIN rows = 1 .. Len(rows)
      /\ NoCell \notin Cells /\ live \subseteq Questions
  BY TypeParts, CellAssumption, LenProperties
  DEF TypeInv, CellTypes, RowTypes, LiveTypes
<1>1. UNCHANGED <<rows, items, dirty>> /\ ~dirty
  BY DEF cellForItemAt
<1>2. PICK c \in Cells, i \in 1 .. items :
        \/ rows = <<>> /\ cells' = [cells EXCEPT ![c].item = i] /\ UNCHANGED live
        \/ /\ rows # <<>> /\ i \in DOMAIN rows
           /\ cells' = [cells EXCEPT ![c] = Dequeued(cells[c], i)]
           /\ Ask({Question(c, i)})
        \/ UNCHANGED <<live, cells>>
  BY DEF cellForItemAt
<1>3. CASE UNCHANGED <<live, cells>>
  BY <1>1, <1>3 DEF ListInv, QuestionsInRange, NewestIsTag, CellsInRange
<1>4. CASE rows = <<>> /\ cells' = [cells EXCEPT ![c].item = i] /\ UNCHANGED live
  <2>1. \A d \in Cells : cells'[d].tag = cells[d].tag
    BY <1>0, <1>4 DEF CellRec
  <2>2. QuestionsInRange' /\ NewestIsTag'
    BY <1>0, <1>1, <1>4, <2>1 DEF ListInv, QuestionsInRange, NewestIsTag, Questions
  <2>3. CellsInRange'
    BY <1>1, <1>4 DEF CellsInRange
  <2>4. QED
    BY <2>2, <2>3 DEF ListInv
<1>5. CASE /\ rows # <<>> /\ i \in DOMAIN rows
           /\ cells' = [cells EXCEPT ![c] = Dequeued(cells[c], i)]
           /\ Ask({Question(c, i)})
  <2>1. /\ cells'[c].item = i /\ cells'[c].tag = i /\ cells'[c].sure = FALSE
        /\ \A d \in Cells \ {c} : cells'[d] = cells[d]
    BY <1>0, <1>5 DEF Dequeued, CellRec
  <2>2. QuestionsInRange' /\ NewestIsTag'
    <3> DEFINE qs == {Question(c, i)}
    <3>1. qs \in SUBSET Questions
      BY <1>0 DEF Question, Questions
    <3>2. \A q \in qs : q.row = i /\ q.cell = c
      BY DEF Question
    <3>3. \A q \in qs : q.row \in DOMAIN rows
                        /\ (q.cell # NoCell => q.row = cells'[q.cell].tag)
      BY <1>5, <2>1, <3>2
    <3>4. \A d \in Cells : (\A q \in qs : q.cell # d) => cells'[d].tag = cells[d].tag
      BY <2>1, <3>2
    <3>5. Ask(qs)
      BY <1>5
    <3> HIDE DEF qs
    <3>6. QED
      BY <1>1, <3>1, <3>3, <3>4, <3>5, AskKeepsQuestions DEF ListInv
  <2>3. CellsInRange'
    BY <1>1, <1>5, <2>1 DEF ListInv, CellsInRange
  <2>4. QED
    BY <2>2, <2>3 DEF ListInv
<1>6. QED
  BY <1>2, <1>3, <1>4, <1>5

\* An answer writes the name of the row it asked for; it counts as sure only if
\* that is the row of the button.
LEMMA ReplyKeepsList ==
  ASSUME TypeInv, ListInv, CellReply
  PROVE  ListInv'
<1>0. /\ cells \in [Cells -> CellRec] /\ live \subseteq Questions
      /\ rows \in Seq(Names)
  BY TypeParts DEF TypeInv, CellTypes, RowTypes, LiveTypes
<1>1. UNCHANGED <<rows, items, dirty>> /\ live' \subseteq live
  BY DEF CellReply, Take
<1>2. CASE UNCHANGED cells
  BY <1>1, <1>2 DEF ListInv, QuestionsInRange, NewestIsTag, CellsInRange
<1>3. CASE ~ UNCHANGED cells
  <2>1. PICK q \in live :
          /\ q.cell # NoCell /\ q.row \in DOMAIN rows
          /\ cells' = [cells EXCEPT ![q.cell].label = rows[q.row],
                                    ![q.cell].delShown = TRUE,
                                    ![q.cell].sure = q.newest]
    BY <1>3 DEF CellReply
  <2>2. q.cell \in Cells
    BY <1>0, <2>1 DEF Questions
  <2>3. /\ \A c \in Cells : cells'[c].item = cells[c].item /\ cells'[c].tag = cells[c].tag
        /\ \A c \in Cells \ {q.cell} : cells'[c] = cells[c]
        /\ cells'[q.cell].label = rows[q.row]
        /\ cells'[q.cell].sure => q.newest
    BY <1>0, <2>1, <2>2 DEF CellRec
  <2>4. QuestionsInRange' /\ NewestIsTag'
    <3>1. \A p \in live : p.cell # NoCell => p.cell \in Cells
      BY <1>0 DEF Questions
    <3>2. QED
      BY <1>1, <2>3, <3>1 DEF ListInv, QuestionsInRange, NewestIsTag
  <2>5. q.newest => q.row = cells[q.cell].tag
    BY <2>1 DEF ListInv, NewestIsTag
  <2>6. CellsInRange'
    <3> SUFFICES ASSUME ~dirty, rows # <<>>
                 PROVE  /\ items = Len(rows)
                        /\ \A c \in Cells : cells'[c].item # 0 =>
                             /\ cells'[c].item \in DOMAIN rows
                             /\ cells'[c].tag \in DOMAIN rows
                             /\ cells'[c].sure => rows[cells'[c].tag] = cells'[c].label
      BY <1>1 DEF CellsInRange
    <3>1. items = Len(rows)
      BY DEF ListInv, CellsInRange
    <3>2. \A c \in Cells : cells'[c].item # 0 =>
            cells'[c].item \in DOMAIN rows /\ cells'[c].tag \in DOMAIN rows
      BY <2>3 DEF ListInv, CellsInRange
    <3>3. \A c \in Cells : cells'[c].item # 0 /\ cells'[c].sure =>
            rows[cells'[c].tag] = cells'[c].label
      BY <2>2, <2>3, <2>5 DEF ListInv, CellsInRange
    <3>4. QED
      BY <3>1, <3>2, <3>3
  <2>7. QED
    BY <2>4, <2>6 DEF ListInv
<1>4. QED
  BY <1>2, <1>3

\* Every step of the list keeps the three facts.
LEMMA ListStep ==
  ASSUME TypeInv, ListInv, [Next]_vars
  PROVE  ListInv'
<1>0. /\ cells \in [Cells -> CellRec] /\ live \subseteq Questions
      /\ rows \in Seq(Names) /\ mainQueue \in Seq(MainItem)
  BY TypeParts DEF TypeInv, CellTypes, RowTypes, LiveTypes, NodeTypeOK
<1>1. CASE FetchDelivered
  <2>1. UNCHANGED <<items, cells, live>>
    BY <1>1 DEF FetchDelivered
  <2>2. CASE UNCHANGED <<rows, dirty>>
    BY <2>1, <2>2 DEF ListInv, QuestionsInRange, NewestIsTag, CellsInRange
  <2>3. CASE ~ UNCHANGED <<rows, dirty>>
    <3>1. PICK order \in SetToSeqs(Head(mainQueue).names) :
            rows' = rows \o order /\ dirty' = TRUE
      BY <1>1, <2>3 DEF FetchDelivered
    <3>2. Head(mainQueue) \in MainItem
      BY <1>0, <1>1, HeadTailProperties DEF FetchDelivered, Dispatch
    <3>3. Head(mainQueue).names \in SUBSET Names
      BY <3>2 DEF MainItem
    <3>4. order \in Seq(Names)
      BY <3>1, <3>3, OrderTyping
    <3>5. DOMAIN rows \subseteq DOMAIN rows'
      BY <1>0, <3>1, <3>4, LenProperties, ConcatProperties
    <3>6. QED
      BY <2>1, <3>1, <3>5 DEF ListInv, QuestionsInRange, NewestIsTag, CellsInRange
  <2>4. QED
    BY <2>2, <2>3
<1>2. CASE viewWillDisappear \/ refreshs \/ DelSuccessPresented
  <2>1. ClearArrays /\ UNCHANGED cells
    BY <1>2 DEF viewWillDisappear, refreshs, DelSuccessPresented
  <2>2. QED
    BY <2>1, ClearKeepsList
<1>3. CASE Layout
  BY <1>3, LayoutKeepsList
<1>4. CASE cellForItemAt
  BY <1>4, ReuseKeepsList
<1>5. CASE CellReply
  BY <1>5, ReplyKeepsList
<1>6. CASE didSelectItemAt
  <2>1. PICK c \in Cells :
          /\ cells[c].item # 0
          /\ \/ UNCHANGED live
             \/ cells[c].item \in DOMAIN rows /\ Ask({Question(NoCell, cells[c].item)})
    BY <1>6 DEF didSelectItemAt
  <2>2. UNCHANGED <<rows, items, cells, dirty>>
    BY <1>6 DEF didSelectItemAt
  <2>3. CASE UNCHANGED live
    BY <2>2, <2>3 DEF ListInv, QuestionsInRange, NewestIsTag, CellsInRange
  <2>4. CASE cells[c].item \in DOMAIN rows /\ Ask({Question(NoCell, cells[c].item)})
    <3> DEFINE qs == {Question(NoCell, cells[c].item)}
    <3>1. cells[c].item \in Nat \ {0}
      BY <1>0, <2>1 DEF CellRec
    <3>2. qs \in SUBSET Questions
      BY <3>1 DEF Question, Questions
    <3>3. \A q \in qs : q.row = cells[c].item /\ q.cell = NoCell
      BY DEF Question
    <3>4. \A q \in qs : q.row \in DOMAIN rows
                        /\ (q.cell # NoCell => q.row = cells'[q.cell].tag)
      BY <2>4, <3>3
    <3>5. \A d \in Cells : (\A q \in qs : q.cell # d) => cells'[d].tag = cells[d].tag
      BY <2>2
    <3>6. Ask(qs)
      BY <2>4
    <3> HIDE DEF qs
    <3>7. QuestionsInRange' /\ NewestIsTag'
      BY <2>2, <3>2, <3>4, <3>5, <3>6, AskKeepsQuestions DEF ListInv
    <3>8. QED
      BY <2>2, <3>7 DEF ListInv, CellsInRange
  <2>5. QED
    BY <2>1, <2>3, <2>4
<1>7. CASE SelectReply
  <2>1. UNCHANGED <<rows, items, cells, dirty>> /\ live' \subseteq live
    BY <1>7 DEF SelectReply, Take
  <2>2. QED
    BY <2>1 DEF ListInv, QuestionsInRange, NewestIsTag, CellsInRange
<1>8. CASE Relaunch
  BY <1>8 DEF Relaunch, ListInv, QuestionsInRange, NewestIsTag, CellsInRange
<1>9. CASE \/ chooseTab \/ popSearch \/ hideSearch \/ logOut \/ delDatabase
           \/ confirmDelete \/ dismissAlert \/ textFieldShouldReturn \/ SearchReply
           \/ SearchLayout \/ addDatabase \/ FollowRead \/ FollowWritten
           \/ NodeGoesOn \/ UNCHANGED vars
  <2>1. UNCHANGED listVars
    BY <1>9
    DEF chooseTab, popSearch, hideSearch, logOut, delDatabase, confirmDelete,
        dismissAlert, textFieldShouldReturn, SearchReply, SearchLayout, addDatabase,
        FollowRead, FollowWritten, NodeGoesOn, vars
  <2>2. QED
    BY <2>1 DEF listVars, ListInv, QuestionsInRange, NewestIsTag, CellsInRange
<1>10. QED
  BY <1>1, <1>2, <1>3, <1>4, <1>5, <1>6, <1>7, <1>8, <1>9 DEF Next

\* The facts about cells, arrays and questions hold in every state.
LEMMA ListInvariant == Spec => []ListInv
<1>1. Init => ListInv
  BY DEF Init, ListInv, QuestionsInRange, NewestIsTag, CellsInRange
<1>2. TypeInv /\ ListInv /\ [Next]_vars => ListInv'
  BY ListStep
<1>3. QED
  BY <1>1, <1>2, AfreecaTypeInv, PTL DEF Spec

\* The delete button deletes the BJ the cell names, whenever the name was
\* written by the answer to the last question.
THEOREM SureLabelsAreDeleted == Spec => []SureLabelIsDeleted
<1>1. ListInv => SureLabelIsDeleted
  BY DEF ListInv, CellsInRange, SureLabelIsDeleted, ListTouchable
<1>2. QED
  BY <1>1, ListInvariant, PTL

\* A trap needs a clear, or for a follow the end of the session.
THEOREM TrapsNeedClearOrLogOut == Spec => TrapNeedsClearOrLogOut
<1>1. TypeInv /\ ListInv =>
        [Next => (Running /\ app' # "running" =>
           \/ app' \in {"delDatabase", "didSelect"} /\ rows = <<>>
           \/ app' = "liveReply" /\ \A q \in live : q.row \notin DOMAIN rows => q.cleared
           \/ app' = "followRead" /\ user = "none")]_vars
  <2> SUFFICES ASSUME TypeInv, ListInv, Next, Running, app' # "running"
               PROVE  \/ app' \in {"delDatabase", "didSelect"} /\ rows = <<>>
                      \/ /\ app' = "liveReply"
                         /\ \A q \in live : q.row \notin DOMAIN rows => q.cleared
                      \/ app' = "followRead" /\ user = "none"
    BY DEF Running, vars, sessionVars
  <2>0. app = "running" /\ rows \in Seq(Names) /\ DOMAIN rows = 1 .. Len(rows)
    BY TypeParts, LenProperties DEF Running, TypeInv, RowTypes
  <2>1. CASE delDatabase \/ didSelectItemAt
    <3>1. /\ ~dirty /\ app' \in {"delDatabase", "didSelect"}
          /\ \E c \in Cells : cells[c].item # 0 /\ (cells[c].tag \notin DOMAIN rows
                                                    \/ cells[c].item \notin DOMAIN rows)
      BY <2>0, <2>1 DEF delDatabase, didSelectItemAt, ListTouchable
    <3>2. QED
      BY <3>1 DEF ListInv, CellsInRange
  <2>2. CASE cellForItemAt
    <3>1. ~dirty /\ rows # <<>> /\ \E i \in 1 .. items : i \notin DOMAIN rows
      BY <2>0, <2>2 DEF cellForItemAt
    <3>2. QED
      BY <2>0, <3>1 DEF ListInv, CellsInRange
  <2>3. CASE CellReply \/ SelectReply
    <3>1. app' = "liveReply"
      BY <2>0, <2>3 DEF CellReply, SelectReply
    <3>2. QED
      BY <3>1 DEF ListInv, QuestionsInRange
  <2>4. CASE FollowRead
    BY <2>0, <2>4 DEF FollowRead
  <2>5. CASE \/ FetchDelivered \/ viewWillDisappear \/ chooseTab \/ popSearch
             \/ hideSearch \/ logOut \/ refreshs \/ Layout \/ confirmDelete
             \/ DelSuccessPresented \/ dismissAlert \/ textFieldShouldReturn
             \/ SearchReply \/ SearchLayout \/ addDatabase \/ FollowWritten
             \/ NodeGoesOn \/ Relaunch
    <3>1. app' = app \/ app' = "running"
      BY <2>5
      DEF FetchDelivered, viewWillDisappear, chooseTab, popSearch, hideSearch, logOut,
          refreshs, Layout, confirmDelete, DelSuccessPresented, dismissAlert,
          textFieldShouldReturn, SearchReply, SearchLayout, addDatabase,
          FollowWritten, NodeGoesOn, Relaunch, sessionVars
    <3>2. QED
      BY <2>0, <3>1
  <2>6. QED
    BY <2>1, <2>2, <2>3, <2>4, <2>5 DEF Next
<1>2. QED
  BY <1>1, AfreecaTypeInv, ListInvariant, PTL DEF Spec, TrapNeedsClearOrLogOut

-----------------------------------------------------------------------------
(* The search.                                                             *)

\* An undisturbed search is the only one under way and the one typed last; when
\* it is over the screen's data are what it found.
Undisturbed ==
  ~disturbed =>
    IF searches = <<>> THEN searchData = typed /\ ~spinner ELSE searches = <<typed>>

\* Of one search nothing is left when it is answered.
LEMMA RemoveOnly ==
  ASSUME NEW x, NEW s, s = <<x>>, NEW i \in DOMAIN s
  PROVE  RemoveAt(s, i) = <<>> /\ s[i] = x
<1>1. i = 1 /\ Len(s) = 1
  OBVIOUS
<1>2. SubSeq(s, 1, 0) = <<>> /\ SubSeq(s, 2, 1) = <<>>
  BY SubSeqEmpty
<1>3. RemoveAt(s, i) = <<>> \o <<>>
  BY <1>1, <1>2 DEF RemoveAt
<1>4. QED
  BY <1>1, <1>3

LEMMA UndisturbedStep ==
  ASSUME TypeInv, Undisturbed, [Next]_vars
  PROVE  Undisturbed'
<1>1. CASE popSearch \/ logOut \/ Relaunch
  <2>1. FreshSearch
    BY <1>1 DEF popSearch, logOut, Relaunch
  <2>2. QED
    BY <2>1, Zenon DEF FreshSearch, Undisturbed
<1>2. CASE textFieldShouldReturn
  <2>1. CASE UNCHANGED <<searches, typed, spinner, disturbed>>
    BY <1>2, <2>1 DEF textFieldShouldReturn, Undisturbed
  <2>2. CASE searches' = Append(searches, typed') /\ disturbed' = (searches # <<>>)
    <3>1. CASE searches = <<>>
      <4>1. searches' = <<typed'>>
        BY <2>2, <3>1
      <4>2. <<typed'>> # <<>>
        OBVIOUS
      <4>3. QED
        BY <4>1, <4>2 DEF Undisturbed
    <3>2. CASE searches # <<>>
      BY <2>2, <3>2, Zenon DEF Undisturbed
    <3>3. QED
      BY <3>1, <3>2
  <2>3. QED
    BY <1>2, <2>1, <2>2 DEF textFieldShouldReturn
<1>3. CASE SearchReply
  <2>1. PICK i \in DOMAIN searches :
          /\ searches' = RemoveAt(searches, i)
          /\ \/ /\ searchData' = searches[i] /\ spinner' = FALSE
                /\ disturbed' = disturbed
             \/ disturbed' = TRUE
    BY <1>3 DEF SearchReply
  <2>2. typed' = typed
    BY <1>3 DEF SearchReply
  <2>3. CASE disturbed' = TRUE
    BY <2>3, Zenon DEF Undisturbed
  <2>4. CASE /\ searchData' = searches[i] /\ spinner' = FALSE
             /\ disturbed' = disturbed
    <3> SUFFICES ASSUME ~disturbed PROVE Undisturbed'
      BY <2>4, Zenon DEF Undisturbed
    <3>1. searches # <<>>
      BY <2>1
    <3>2. searches = <<typed>>
      BY <3>1, Zenon DEF Undisturbed
    <3>3. searches' = <<>> /\ searchData' = typed
      BY <2>1, <2>4, <3>2, RemoveOnly
    <3>4. QED
      BY <2>2, <2>4, <3>3, Zenon DEF Undisturbed
  <2>5. QED
    BY <2>1, <2>3, <2>4
<1>4. CASE SearchLayout
  BY <1>4 DEF SearchLayout, Undisturbed
<1>5. CASE \/ FetchDelivered \/ viewWillDisappear \/ chooseTab \/ hideSearch
           \/ refreshs \/ Layout \/ cellForItemAt \/ CellReply \/ didSelectItemAt
           \/ SelectReply \/ delDatabase \/ confirmDelete \/ DelSuccessPresented
           \/ dismissAlert \/ addDatabase \/ FollowRead \/ FollowWritten
           \/ NodeGoesOn \/ UNCHANGED vars
  <2>1. UNCHANGED searchVars
    BY <1>5
    DEF FetchDelivered, viewWillDisappear, chooseTab, hideSearch, refreshs, Layout,
        cellForItemAt, CellReply, didSelectItemAt, SelectReply, delDatabase,
        confirmDelete, DelSuccessPresented, dismissAlert, addDatabase, FollowRead,
        FollowWritten, NodeGoesOn, vars
  <2>2. QED
    BY <2>1 DEF searchVars, Undisturbed
<1>6. QED
  BY <1>1, <1>2, <1>3, <1>4, <1>5 DEF Next

\* A search that was not disturbed is shown when it is over.
THEOREM UndisturbedSearchIsShown == Spec => []SettledSearchShown
<1>1. Init => Undisturbed
  BY Zenon DEF Init, Undisturbed
<1>2. TypeInv /\ Undisturbed /\ [Next]_vars => Undisturbed'
  BY UndisturbedStep
<1>3. TypeInv /\ Undisturbed => SettledSearchShown
  <2> SUFFICES ASSUME TypeInv, Undisturbed, SearchTouchable, searches = <<>>, ~disturbed
               PROVE  searchCells = typed /\ searchData = typed /\ ~spinner
    BY Zenon DEF SettledSearchShown
  <2>1. searchData = typed /\ ~spinner
    BY Zenon DEF Undisturbed
  <2>2. searchCells = searchData
    BY Zenon DEF SearchTouchable, TypeInv, ButtonsStand
  <2>3. QED
    BY <2>1, <2>2
<1>4. QED
  BY <1>1, <1>2, <1>3, AfreecaTypeInv, PTL DEF Spec
=============================================================================
