----------------------------- MODULE TwitchList -----------------------------
(***************************************************************************)
(* TwitchViewController: the list of the followed streamers.               *)
(*                                                                         *)
(* The screen keeps three parallel arrays that are cleared and refilled    *)
(* together (names, ids, picture addresses); rows stands for the three.    *)
(* It hands an index into the arrays to every cell (the tag of the delete  *)
(* button), to every question "is this streamer live?" and to the user,    *)
(* and it clears the arrays at once but refills them only when a snapshot  *)
(* of the node arrives.  The model follows each such index through every   *)
(* order in which snapshots, live answers, alerts and touches can come.    *)
(*                                                                         *)
(* UIKit, from how the code uses it: a reloaded collection is laid out     *)
(* before the next touch is handed over; present(_:) does nothing when the *)
(* controller is off screen or already presents something; an alert takes  *)
(* all touches.                                                            *)
(***************************************************************************)
EXTENDS FollowNode, SequencesExt

CONSTANT MaxLive    \* bound: questions under way whose answer will come

ASSUME LiveAssumption == MaxLive \in Nat
ASSUME NamesAssumption == IsFiniteSet(Names)

FreshFetch == [by |-> "TwitchList", late |-> FALSE]
LateFetch  == [by |-> "TwitchList", late |-> TRUE]
FetchCallbacks == {FreshFetch, LateFetch}

ASSUME FetchAssumption == FetchCallbacks \subseteq Callbacks

VARIABLES
  app,        \* "running", "loggedOut", or where the process trapped
  onScreen,   \* between viewWillAppear and viewWillDisappear
  rows,       \* nameArr, and with it idArr and urlArr
  cells,      \* the label of the cell at each item of the laid out collection
  dirty,      \* reloadData was called and the layout has not run
  emptyLabel, \* followLabel is visible
  alert,      \* the alert this controller presents
  live,       \* checkLive requests whose completion has not run
  answered,   \* history: a snapshot was delivered since the last clear
  lateRows    \* history: a snapshot asked for before it was among these

listVars == <<app, onScreen, rows, cells, dirty, emptyLabel, alert, live,
              answered, lateRows>>
vars == <<nodeVars, listVars>>

CrashSites == {"delDatabase", "didSelect", "cellForItem", "cellReply",
               "selectReply"}

NoAlert == [type |-> "none"]
Confirm(streamer, label) ==
  [type |-> "confirm", streamer |-> streamer, label |-> label]
Alerts == [type : {"none", "presenting", "DelSuccess", "TwitchStore"}]
            \cup [type : {"confirm"}, streamer : Names, label : Names]

\* A request remembers the row it was made for, and, as history, the streamer
\* of that row and whether the arrays were cleared since.
\* Mutant: the row counts from zero.
RequestFromZero(by, i) ==
  [by |-> by, row |-> i - 1, name |-> rows[i], cleared |-> FALSE]

Request(by, i) == [by |-> by, row |-> i, name |-> rows[i], cleared |-> FALSE]
Requests == [by : {"cell", "select"}, row : Nat \ {0}, name : Names,
             cleared : BOOLEAN]

TypeOK ==
  /\ NodeTypeOK
  /\ app \in {"running", "loggedOut"} \cup CrashSites
  /\ onScreen \in BOOLEAN
  /\ rows \in Seq(Names)
  /\ cells \in Seq(Names)
  /\ dirty \in BOOLEAN
  /\ emptyLabel \in BOOLEAN
  /\ alert \in Alerts
  /\ live \subseteq Requests
  /\ answered \in BOOLEAN
  /\ lateRows \in BOOLEAN

Init ==
  /\ NodeInit
  /\ app = "running"
  /\ onScreen = FALSE
  /\ rows = <<>>
  /\ cells = <<>>
  /\ dirty = FALSE
  /\ emptyLabel = FALSE
  /\ alert = NoAlert
  /\ live = {}
  /\ answered = FALSE
  /\ lateRows = FALSE

Alive == app \in {"running", "loggedOut"}
Showing == app = "running" /\ onScreen
Touchable == Showing /\ ~dirty /\ alert = NoAlert

-----------------------------------------------------------------------------
(* The arrays.                                                             *)

Late(c) == IF c \in FetchCallbacks THEN LateFetch ELSE c
LateReads == [i \in DOMAIN reads |-> Late(reads[i])]
LateQueue == [i \in DOMAIN mainQueue |-> [mainQueue[i] EXCEPT !.c = Late(@)]]

\* The three removeAll calls.  Nothing is reloaded: the cells stay.
ClearArrays ==
  /\ rows' = <<>>
  /\ live' = {[q EXCEPT !.cleared = TRUE] : q \in live}
  /\ mainQueue' = LateQueue
  /\ answered' = FALSE
  /\ lateRows' = FALSE

fetchStreamerData(rs) == Observe(FreshFetch, rs)

ClearAndFetch == ClearArrays /\ fetchStreamerData(LateReads)

\* Mutant: the collection is reloaded only when it grew.
FetchReloadsGrown ==
  /\ Alive
  /\ Dispatch
  /\ LET item == Head(mainQueue) IN
       /\ item.type = "value"
       /\ item.c \in FetchCallbacks
       /\ IF item.names = {}
          THEN UNCHANGED <<rows, dirty, emptyLabel>>
          ELSE \E order \in SetToSeqs(item.names) :
                 /\ rows' = rows \o order
                 /\ emptyLabel' = (rows' = <<>>)
                 /\ dirty' = (dirty \/ Len(rows') > Len(cells))
       /\ answered' = TRUE
       /\ lateRows' = (lateRows \/ item.c = LateFetch)
  /\ UNCHANGED <<server, pend, reads, intent, app, onScreen, cells, alert, live>>

\* Mutant: the streamers are inserted before those that are there.
FetchPrepends ==
  /\ Alive
  /\ Dispatch
  /\ LET item == Head(mainQueue) IN
       /\ item.type = "value"
       /\ item.c \in FetchCallbacks
       /\ IF item.names = {}
          THEN UNCHANGED <<rows, dirty, emptyLabel>>
          ELSE \E order \in SetToSeqs(item.names) :
                 /\ rows' = order \o rows
                 /\ emptyLabel' = (rows' = <<>>)
                 /\ dirty' = TRUE
       /\ answered' = TRUE
       /\ lateRows' = (lateRows \/ item.c = LateFetch)
  /\ UNCHANGED <<server, pend, reads, intent, app, onScreen, cells, alert, live>>

\* The snapshot block of fetchStreamerData.  A dictionary has no order.
FetchDelivered ==
  /\ Alive
  /\ Dispatch
  /\ LET item == Head(mainQueue) IN
       /\ item.type = "value"
       /\ item.c \in FetchCallbacks
       /\ IF item.names = {}
          THEN UNCHANGED <<rows, dirty, emptyLabel>>
          ELSE \E order \in SetToSeqs(item.names) :
                 /\ rows' = rows \o order
                 /\ emptyLabel' = (rows' = <<>>)
                 /\ dirty' = TRUE
       /\ answered' = TRUE
       /\ lateRows' = (lateRows \/ item.c = LateFetch)
  /\ UNCHANGED <<server, pend, reads, intent, app, onScreen, cells, alert, live>>

-----------------------------------------------------------------------------
(* The life of the screen.                                                 *)

viewWillAppear ==
  /\ app = "running" /\ ~onScreen
  /\ onScreen' = TRUE
  /\ emptyLabel' = FALSE
  /\ fetchStreamerData(reads)
  /\ UNCHANGED <<server, pend, mainQueue, intent, app, rows, cells, dirty,
                 alert, live, answered, lateRows>>

\* The search screen is pushed or the other tab is chosen.
viewWillDisappear ==
  /\ Touchable
  /\ onScreen' = FALSE
  /\ ClearArrays
  /\ reads' = LateReads
  /\ UNCHANGED <<server, pend, intent, app, cells, dirty, emptyLabel, alert>>

\* signOut, and the root controller is replaced: the list disappears but the
\* blocks that wait for an answer keep it alive.
logOut ==
  /\ Touchable
  /\ app' = "loggedOut"
  /\ onScreen' = FALSE
  /\ ClearArrays
  /\ reads' = LateReads
  /\ UNCHANGED <<server, pend, intent, cells, dirty, emptyLabel, alert>>

\* Mutant: the arrays are not cleared before they are filled again.
RefreshKeepsRows ==
  /\ Touchable
  /\ fetchStreamerData(reads)
  /\ UNCHANGED <<server, pend, mainQueue, intent, app, onScreen, rows, cells,
                 dirty, emptyLabel, alert, live, answered, lateRows>>

\* Mutant: the arrays are cleared and nothing is fetched.
RefreshOnlyClears ==
  /\ Touchable
  /\ ClearArrays
  /\ reads' = LateReads
  /\ UNCHANGED <<server, pend, intent, app, onScreen, cells, dirty, emptyLabel,
                 alert>>

refreshs ==
  /\ Touchable
  /\ ClearAndFetch
  /\ UNCHANGED <<server, pend, intent, app, onScreen, cells, dirty, emptyLabel,
                 alert>>

-----------------------------------------------------------------------------
(* Cells.                                                                  *)

\* Questions beyond the bound get no answer: a failed request never calls its
\* completion.
Ask(qs) ==
  \E asked \in SUBSET qs :
    /\ Cardinality(live \cup asked) <= MaxLive
    /\ live' = live \cup asked

\* The layout after reloadData: numberOfItems, then cellForItemAt for each.
Layout ==
  /\ Showing /\ dirty
  /\ dirty' = FALSE
  /\ cells' = rows
  /\ Ask({Request("cell", i) : i \in DOMAIN rows})
  /\ UNCHANGED <<nodeVars, app, onScreen, rows, emptyLabel, alert, answered,
                 lateRows>>

\* A cell that scrolls in is asked for by its item.  With empty arrays it keeps
\* the label of the cell that is reused.
cellForItemAt ==
  /\ Showing /\ ~dirty
  /\ \E i \in DOMAIN cells :
       \/ /\ rows = <<>>
          /\ \E j \in DOMAIN cells : cells' = [cells EXCEPT ![i] = cells[j]]
          /\ UNCHANGED <<app, live>>
       \/ /\ rows # <<>> /\ i <= Len(rows)
          /\ cells' = [cells EXCEPT ![i] = rows[i]]
          /\ Ask({Request("cell", i)})
          /\ UNCHANGED app
       \/ /\ rows # <<>> /\ i > Len(rows)
          /\ app' = "cellForItem"
          /\ UNCHANGED <<cells, live>>
  /\ UNCHANGED <<nodeVars, onScreen, rows, dirty, emptyLabel, alert, answered,
                 lateRows>>

\* The user taps a cell.
didSelectItemAt ==
  /\ Touchable
  /\ \E i \in DOMAIN cells :
       IF i <= Len(rows)
       THEN Ask({Request("select", i)}) /\ UNCHANGED app
       ELSE app' = "didSelect" /\ UNCHANGED live
  /\ UNCHANGED <<nodeVars, onScreen, rows, cells, dirty, emptyLabel, alert,
                 answered, lateRows>>

\* One of the equal requests is answered; equal ones may still be under way.
Take(q) == q \in live /\ live' \in {live, live \ {q}}

\* The answer OFF to a cell reads the picture's address from the arrays.
\* The answer ON reads none of them.
CellReply ==
  /\ Alive
  /\ \E q \in live :
       /\ q.by = "cell"
       /\ Take(q)
       /\ \/ UNCHANGED app
          \/ q.row > Len(rows) /\ app' = "cellReply"
  /\ UNCHANGED <<nodeVars, onScreen, rows, cells, dirty, emptyLabel, alert,
                 answered, lateRows>>

\* Mutant: the store is offered over whatever is presented.
SelectReplyOverAlert ==
  /\ Alive
  /\ \E q \in live :
       /\ q.by = "select"
       /\ Take(q)
       /\ Showing
       /\ alert' = [type |-> "TwitchStore"]
  /\ UNCHANGED <<nodeVars, app, onScreen, rows, cells, dirty, emptyLabel,
                 answered, lateRows>>

\* The answer to a tap.  ON reads the id of the streamer from the arrays and
\* opens Twitch, or offers the store; OFF does nothing.
SelectReply ==
  /\ Alive
  /\ \E q \in live :
       /\ q.by = "select"
       /\ Take(q)
       /\ \/ UNCHANGED <<app, alert>>
          \/ q.row > Len(rows) /\ app' = "selectReply" /\ UNCHANGED alert
          \/ /\ q.row <= Len(rows)
             /\ Showing /\ alert = NoAlert
             /\ alert' = [type |-> "TwitchStore"]
             /\ UNCHANGED app
  /\ UNCHANGED <<nodeVars, onScreen, rows, cells, dirty, emptyLabel, answered,
                 lateRows>>

-----------------------------------------------------------------------------
(* Deleting.                                                               *)

\* The delete button of a cell: the tag is looked up in the arrays.
delDatabase ==
  /\ Touchable
  /\ \E i \in DOMAIN cells :
       IF i <= Len(rows)
       THEN alert' = Confirm(rows[i], cells[i]) /\ UNCHANGED app
       ELSE app' = "delDatabase" /\ UNCHANGED alert
  /\ UNCHANGED <<nodeVars, onScreen, rows, cells, dirty, emptyLabel, live,
                 answered, lateRows>>

cancelDelete ==
  /\ Showing
  /\ alert.type = "confirm"
  /\ alert' = NoAlert
  /\ UNCHANGED <<nodeVars, app, onScreen, rows, cells, dirty, emptyLabel, live,
                 answered, lateRows>>

\* removeValue, and DelSuccess begins to be presented.
confirmDelete ==
  /\ Showing
  /\ alert.type = "confirm"
  /\ Write("remove", alert.streamer, NoCallback)
  /\ alert' = [type |-> "presenting"]
  /\ UNCHANGED <<server, reads, mainQueue, app, onScreen, rows, cells, dirty,
                 emptyLabel, live, answered, lateRows>>

\* Mutant: the completion fetches without clearing the arrays.
PresentedKeepsRows ==
  /\ Showing
  /\ alert.type = "presenting"
  /\ mainQueue = <<>>
  /\ alert' = [type |-> "DelSuccess"]
  /\ fetchStreamerData(reads)
  /\ UNCHANGED <<server, pend, mainQueue, intent, app, onScreen, rows, cells,
                 dirty, emptyLabel, live, answered, lateRows>>

\* The completion of the presentation.  It comes at the end of an animation,
\* after whatever waited on the main queue.
DelSuccessPresented ==
  /\ Showing
  /\ alert.type = "presenting"
  /\ mainQueue = <<>>
  /\ alert' = [type |-> "DelSuccess"]
  /\ ClearAndFetch
  /\ UNCHANGED <<server, pend, intent, app, onScreen, cells, dirty, emptyLabel>>

dismissAlert ==
  /\ Showing
  /\ alert.type \in {"DelSuccess", "TwitchStore"}
  /\ alert' = NoAlert
  /\ UNCHANGED <<nodeVars, app, onScreen, rows, cells, dirty, emptyLabel, live,
                 answered, lateRows>>

-----------------------------------------------------------------------------
(* The surroundings.                                                       *)

\* The search screen's addDatabase writes the streamer under his name.
SearchAdds ==
  /\ app = "running"
  /\ \E n \in Names : Write("add", n, NoCallback)
  /\ UNCHANGED <<server, reads, mainQueue, listVars>>

\* The process is killed, or has trapped, and is started again.
Relaunch ==
  /\ ClientLost
  /\ app' = "running"
  /\ onScreen' = FALSE
  /\ rows' = <<>>
  /\ cells' = <<>>
  /\ dirty' = FALSE
  /\ emptyLabel' = FALSE
  /\ alert' = NoAlert
  /\ live' = {}
  /\ answered' = FALSE
  /\ lateRows' = FALSE

NodeGoesOn == Alive /\ NodeStep /\ UNCHANGED listVars

Next ==
  \/ FetchDelivered
  \/ viewWillAppear
  \/ viewWillDisappear
  \/ logOut
  \/ refreshs
  \/ Layout
  \/ cellForItemAt
  \/ didSelectItemAt
  \/ CellReply
  \/ SelectReply
  \/ delDatabase
  \/ cancelDelete
  \/ confirmDelete
  \/ DelSuccessPresented
  \/ dismissAlert
  \/ SearchAdds
  \/ Relaunch
  \/ NodeGoesOn

Spec == Init /\ [][Next]_vars

\* The database answers a read, the main queue is run, an animation ends.
Fairness ==
  /\ WF_vars(Alive /\ RaiseValue /\ UNCHANGED listVars)
  /\ WF_vars(FetchDelivered)
  /\ WF_vars(DelSuccessPresented)

FairSpec == Spec /\ Fairness
-----------------------------------------------------------------------------
(* Properties.                                                             *)

\* Nothing is reloaded when the arrays are cleared, and everything is when
\* they are filled: as long as the arrays hold anything, every cell that can be
\* touched shows the streamer its item designates.
CellsShowRows ==
  Showing /\ ~dirty /\ rows # <<>> => cells = rows

\* The streamer the delete alert is about is the one whose cell was touched.
DeleteTargetsShown ==
  alert.type = "confirm" => alert.streamer = alert.label

\* Between two clears the arrays only grow, so the row a question was asked for
\* is still there, with the same streamer, when the answer comes.
UnclearedRequestsValid ==
  \A q \in live :
    ~q.cleared => q.row \in DOMAIN rows /\ rows[q.row] = q.name

\* The process traps on an index only in the window between a clear and the
\* snapshot that ends it, for a touch, or after a clear that overtook the
\* question, for an answer; laying out a cell never traps.
CrashNeedsClear ==
  [][app' # app /\ app' \in CrashSites =>
       \/ app' \in {"delDatabase", "didSelect"} /\ rows = <<>>
       \/ app' \in {"cellReply", "selectReply"} /\ \E q \in live : q.cleared]_vars

\* A streamer has two rows only when a snapshot asked for before the last clear
\* was appended after it: each clear admits one fetch.
DuplicatesNeedLateSnapshot ==
  ~lateRows => \A i, j \in DOMAIN rows : rows[i] = rows[j] => i = j

\* A streamer the user deleted is in no row once the alert that reports it has
\* been presented, and no snapshot that waits brings him back, until another
\* device or the search screen adds him or the server refuses the deletion.
DeletedRowsGone ==
  alert.type # "presenting" =>
    \A n \in Names : intent[n] = "remove" =>
      /\ \A i \in DOMAIN rows : rows[i] # n
      /\ \A i \in DOMAIN mainQueue : n \notin mainQueue[i].names

\* A list that was cleared on screen, by a refresh or a deletion, or that has
\* just appeared, is answered by a snapshot unless it leaves the screen.
ClearedIsAnswered ==
  (Showing /\ ~answered) ~> (answered \/ ~Showing)

\* A confirmed deletion ends with the report and a new fetch, whatever arrives
\* in between, or the process traps or is killed.
DeletionReported ==
  (alert.type = "presenting") ~> (alert.type = "DelSuccess" \/ ~Showing)

\* The label "아직 팔로우한 스트리머가 없습니다." (nobody is followed yet) is on
\* the screen when the list has been read, is empty and no read is under way.
EmptyListSaysSo ==
  Showing /\ answered /\ rows = <<>> /\ Outstanding = 0 => emptyLabel
=============================================================================
