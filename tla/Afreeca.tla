------------------------------- MODULE Afreeca -------------------------------
(***************************************************************************)
(* The Afreeca tab: AfreecaViewController, the list of the followed BJs,   *)
(* and AfreecaSearchViewController, which is pushed over it.               *)
(*                                                                         *)
(* As in TwitchList the list keeps parallel arrays (rows) that are cleared *)
(* at once and refilled by a snapshot.  It differs in when a cell says     *)
(* whose it is: the tag of its delete button is set when the cell is laid  *)
(* out, its name is written, and its button shown, by the answer to        *)
(* "is he live?", which looks the name up by the row it captured.  Cells   *)
(* are reused and keep their name and button until the next answer.        *)
(*                                                                         *)
(* The search shows every BJ that matches.  The only log out button is on  *)
(* the Twitch tab, so the search screen may still be pushed, and its       *)
(* blocks under way, when the session ends.  Signing in again makes new    *)
(* controllers; the model ends with the session.                           *)
(*                                                                         *)
(* The pictures, the "nobody is followed" label (as in TwitchList) and     *)
(* checkBJ, which reads the node and uses nothing of it, are left out.     *)
(* UIKit is as in TwitchList.                                              *)
(***************************************************************************)
EXTENDS FollowNode, SequencesExt

CONSTANTS
  Cells,        \* the cell objects of the list's collection
  NoCell,       \* a question that is not asked for a cell
  NoName,       \* the label of a cell that no answer has reached
  Found,        \* what a search may find: lists of BJs
  MaxLive,      \* bound: checkLive requests whose answer will come
  MaxSearches   \* bound: searches whose answer will come

ASSUME CellAssumption == IsFiniteSet(Cells) /\ NoCell \notin Cells
ASSUME NameAssumption == IsFiniteSet(Names) /\ NoName \notin Names
ASSUME FoundAssumption == Found \subseteq Seq(Names) /\ <<>> \in Found
ASSUME LiveAssumption == MaxLive \in Nat /\ MaxSearches \in Nat

\* The blocks handed to the database.  Those of a search screen that was left
\* belong to no screen.
FetchBlock == [by |-> "fetchBjData", name |-> NoName, left |-> FALSE]
FollowBlock(by, n) == [by |-> by, name |-> n, left |-> FALSE]
Blocks == {FetchBlock} \cup
  [by : {"addDatabase", "updateChildValues"}, name : Names, left : BOOLEAN]

ASSUME BlockAssumption == Callbacks = Blocks

VARIABLES
  app,         \* "running", or where the process trapped
  user,        \* "owner" of the node, or "none"
  tab, top,    \* the tab that shows; the top screen of the Afreeca tab
  rows,        \* nameArr, and with it idArr and urlArr
  items,       \* numberOfItems at the last layout
  cells,       \* the cell objects
  dirty,       \* reloadData was called and the layout has not run
  live,        \* checkLive requests whose completion has not run
  alert,       \* the alert that is presented
  searches,    \* searches whose completion has not run: what each will find
  searchData,  \* what the search that was answered last found
  searchCells, \* the labels of the laid out search cells
  searchDirty, \* the search collection's reloadData was called
  spinner,     \* activityView of the search screen is animating
  typed,       \* history: what the search made last will find
  disturbed    \* history: it overlapped another one, or failed

listVars   == <<rows, items, cells, dirty, live>>
searchVars == <<searches, searchData, searchCells, searchDirty, spinner, typed,
                disturbed>>
sessionVars == <<app, user, tab, top>>
vars == <<nodeVars, sessionVars, listVars, alert, searchVars>>

CrashSites == {"delDatabase", "didSelect", "cellForItem", "liveReply", "followRead"}

AlertTypes == {"none", "presenting", "DelSuccess", "AfreecaStore", "SearchError",
               "FollowSuccess", "FollowError", "FollowOverlap"}
NoAlert == [type |-> "none"]
Confirm(bj) == [type |-> "confirm", bj |-> bj]

\* item 0 is a cell off the screen.  sure is history: the cell's name was
\* written last by the answer to the last question asked for it.
NewCell == [item |-> 0, tag |-> 0, label |-> NoName, delShown |-> FALSE,
            sure |-> FALSE]

\* Mutant: the row counts from zero.
QuestionFromZero(c, i) == [cell |-> c, row |-> i - 1, newest |-> TRUE,
                           cleared |-> FALSE]

\* newest and cleared are history: no later question was asked for the cell,
\* the arrays were not cleared since.
Question(c, i) == [cell |-> c, row |-> i, newest |-> TRUE, cleared |-> FALSE]

TypeOK ==
  /\ NodeTypeOK
  /\ app \in {"running"} \cup CrashSites
  /\ user \in {"owner", "none"}
  /\ tab \in {"twitch", "afreeca"} /\ top \in {"list", "search"}
  /\ rows \in Seq(Names) /\ items \in Nat
  /\ cells \in [Cells -> [item : Nat, tag : Nat, label : Names \cup {NoName},
                          delShown : BOOLEAN, sure : BOOLEAN]]
  /\ live \subseteq [cell : Cells \cup {NoCell}, row : Nat \ {0},
                     newest : BOOLEAN, cleared : BOOLEAN]
  /\ alert \in [type : AlertTypes] \cup [type : {"confirm"}, bj : Names]
  /\ searches \in Seq(Found) /\ {searchData, searchCells, typed} \subseteq Found
  /\ {dirty, searchDirty, spinner, disturbed} \subseteq BOOLEAN

FreshSearch ==
  /\ searches' = <<>>
  /\ searchData' = <<>>
  /\ searchCells' = <<>>
  /\ searchDirty' = FALSE
  /\ spinner' = FALSE
  /\ typed' = <<>>
  /\ disturbed' = FALSE

Init ==
  /\ NodeInit
  /\ app = "running" /\ user = "owner"
  /\ tab = "twitch" /\ top = "list"
  /\ rows = <<>> /\ items = 0
  /\ cells = [c \in Cells |-> NewCell]
  /\ dirty = FALSE
  /\ live = {}
  /\ alert = NoAlert
  /\ searches = <<>> /\ searchData = <<>> /\ searchCells = <<>>
  /\ searchDirty = FALSE /\ spinner = FALSE
  /\ typed = <<>> /\ disturbed = FALSE

Running == app = "running"
OnList == Running /\ tab = "afreeca" /\ top = "list"
OnSearch == Running /\ tab = "afreeca" /\ top = "search"
ListTouchable == OnList /\ ~dirty /\ alert = NoAlert
SearchTouchable == OnSearch /\ ~searchDirty /\ alert = NoAlert

\* present over an alert, or off screen, does nothing.
Present(type, shows, a) == IF shows /\ a = NoAlert THEN [type |-> type] ELSE a

-----------------------------------------------------------------------------
(* The arrays and the screens.                                             *)

ClearArrays ==
  /\ rows' = <<>>
  /\ live' = {[q EXCEPT !.cleared = TRUE] : q \in live}

fetchBjData == Observe(FetchBlock, reads)

\* The snapshot block of fetchBjData.  Without a dictionary it returns at once.
FetchDelivered ==
  /\ Running
  /\ Dispatch
  /\ Head(mainQueue).type = "value" /\ Head(mainQueue).c = FetchBlock
  /\ IF Head(mainQueue).names = {}
     THEN UNCHANGED <<rows, dirty>>
     ELSE /\ \E order \in SetToSeqs(Head(mainQueue).names) : rows' = rows \o order
          /\ dirty' = TRUE
  /\ UNCHANGED <<server, pend, reads, intent, sessionVars, items, cells, live,
                 alert, searchVars>>

\* viewWillAppear: the tab is chosen, or the search screen is popped.
viewWillAppear ==
  /\ top' = "list" /\ tab' = "afreeca"
  /\ fetchBjData

\* viewWillDisappear: the other tab is chosen, or the search screen is pushed.
viewWillDisappear ==
  /\ ListTouchable
  /\ ClearArrays
  /\ \/ tab' = "twitch" /\ UNCHANGED top
     \/ top' = "search" /\ UNCHANGED tab
  /\ UNCHANGED <<nodeVars, app, user, items, cells, dirty, alert, searchVars>>

chooseTab ==
  /\ Running /\ user = "owner" /\ tab = "twitch"
  /\ IF top = "list" THEN viewWillAppear
                     ELSE tab' = "afreeca" /\ UNCHANGED <<top, reads>>
  /\ UNCHANGED <<server, pend, mainQueue, intent, app, user, listVars, alert,
                 searchVars>>

LeaveBlock(c) == IF c \in Callbacks /\ c # FetchBlock
                 THEN [c EXCEPT !.left = TRUE] ELSE c
LeaveQueue == [i \in DOMAIN mainQueue |-> [mainQueue[i] EXCEPT !.c = LeaveBlock(@)]]
LeavePend  == [i \in DOMAIN pend |-> [pend[i] EXCEPT !.done = LeaveBlock(@)]]
LeaveReads == [i \in DOMAIN reads |-> LeaveBlock(reads[i])]

\* Back to the list; nothing the search screen still does is seen.
popSearch ==
  /\ SearchTouchable
  /\ top' = "list"
  /\ Observe(FetchBlock, LeaveReads)
  /\ mainQueue' = LeaveQueue
  /\ pend' = LeavePend
  /\ FreshSearch
  /\ UNCHANGED <<server, intent, app, user, tab, listVars, alert>>

hideSearch ==
  /\ SearchTouchable
  /\ tab' = "twitch"
  /\ UNCHANGED <<nodeVars, app, user, top, listVars, alert, searchVars>>

\* The Twitch tab's log out.  The root controller is replaced.
logOut ==
  /\ Running /\ tab = "twitch" /\ user = "owner"
  /\ user' = "none"
  /\ mainQueue' = LeaveQueue /\ pend' = LeavePend /\ reads' = LeaveReads
  /\ FreshSearch
  /\ UNCHANGED <<server, intent, app, tab, top, listVars, alert>>

refreshs ==
  /\ ListTouchable
  /\ ClearArrays
  /\ fetchBjData
  /\ UNCHANGED <<server, pend, mainQueue, intent, sessionVars, items, cells,
                 dirty, alert, searchVars>>

-----------------------------------------------------------------------------
(* The cells of the list.                                                  *)

\* The requests qs are made.  Those beyond the bound, like those that fail,
\* never call their completion.
Ask(qs) ==
  LET asked == {q.cell : q \in qs} \ {NoCell}
      older == {[q EXCEPT !.newest = @ /\ q.cell \notin asked] : q \in live}
  IN  \E heard \in SUBSET qs :
        /\ Cardinality(older \cup heard) <= MaxLive
        /\ live' = older \cup heard

\* Mutant: the tag is not set when the cell is reused.
DequeuedKeepsTag(cell, i) ==
  [cell EXCEPT !.item = i, !.tag = IF @ = 0 THEN i ELSE @, !.sure = FALSE]

\* cellForItemAt for the item i: the cell keeps its name and its button.
Dequeued(cell, i) == [cell EXCEPT !.item = i, !.tag = i, !.sure = FALSE]

Lowest(m, n) == IF m < n THEN m ELSE n

\* The layout after reloadData fills the screen from the first item on.
Layout ==
  /\ OnList /\ dirty
  /\ dirty' = FALSE
  /\ items' = Len(rows)
  /\ \E place \in [1 .. Lowest(Len(rows), Cardinality(Cells)) -> Cells] :
       /\ IsInjective(place)
       /\ cells' = [c \in Cells |->
            IF \E i \in DOMAIN place : place[i] = c
            THEN Dequeued(cells[c], CHOOSE i \in DOMAIN place : place[i] = c)
            ELSE [cells[c] EXCEPT !.item = 0]]
       /\ Ask({Question(place[i], i) : i \in DOMAIN place})
  /\ UNCHANGED <<nodeVars, sessionVars, rows, alert, searchVars>>

\* A cell scrolls out and is reused for an item that scrolls in.  With empty
\* arrays it is returned as it is.
cellForItemAt ==
  /\ OnList /\ ~dirty
  /\ \E c \in Cells, i \in 1 .. items :
       /\ \A d \in Cells \ {c} : cells[d].item # i
       /\ \/ /\ rows = <<>>
             /\ cells' = [cells EXCEPT ![c].item = i]
             /\ UNCHANGED <<live, app>>
          \/ /\ rows # <<>> /\ i \in DOMAIN rows
             /\ cells' = [cells EXCEPT ![c] = Dequeued(@, i)]
             /\ Ask({Question(c, i)})
             /\ UNCHANGED app
          \/ /\ rows # <<>> /\ i \notin DOMAIN rows
             /\ app' = "cellForItem"
             /\ UNCHANGED <<live, cells>>
  /\ UNCHANGED <<nodeVars, user, tab, top, rows, items, dirty, alert, searchVars>>

\* One of the equal requests is answered; equal ones may still be under way.
Take(q) == q \in live /\ live' \in {live, live \ {q}}

\* The answer for a cell, ON or OFF: the name is looked up by the captured row
\* and the delete button is shown.
CellReply ==
  /\ Running
  /\ \E q \in live :
       /\ q.cell # NoCell
       /\ Take(q)
       /\ IF q.row \in DOMAIN rows
          THEN /\ cells' = [cells EXCEPT ![q.cell].label = rows[q.row],
                                         ![q.cell].delShown = TRUE,
                                         ![q.cell].sure = q.newest]
               /\ UNCHANGED app
          ELSE app' = "liveReply" /\ UNCHANGED cells
  /\ UNCHANGED <<nodeVars, user, tab, top, rows, items, dirty, alert, searchVars>>

didSelectItemAt ==
  /\ ListTouchable
  /\ \E c \in Cells :
       /\ cells[c].item # 0
       /\ IF cells[c].item \in DOMAIN rows
          THEN Ask({Question(NoCell, cells[c].item)}) /\ UNCHANGED app
          ELSE app' = "didSelect" /\ UNCHANGED live
  /\ UNCHANGED <<nodeVars, user, tab, top, rows, items, cells, dirty, alert,
                 searchVars>>

\* The answer to a tap: ON reads the id by the captured row and opens the
\* player, or offers the store; OFF does nothing.
SelectReply ==
  /\ Running
  /\ \E q \in live :
       /\ q.cell = NoCell
       /\ Take(q)
       /\ \/ UNCHANGED <<app, alert>>
          \/ /\ q.row \in DOMAIN rows
             /\ alert' = Present("AfreecaStore", OnList, alert)
             /\ UNCHANGED app
          \/ /\ q.row \notin DOMAIN rows
             /\ app' = "liveReply"
             /\ UNCHANGED alert
  /\ UNCHANGED <<nodeVars, user, tab, top, rows, items, cells, dirty, searchVars>>

\* The delete button, once it is shown: its tag is looked up in the arrays.
delDatabase ==
  /\ ListTouchable
  /\ \E c \in Cells :
       /\ cells[c].item # 0 /\ cells[c].delShown
       /\ IF cells[c].tag \in DOMAIN rows
          THEN alert' = Confirm(rows[cells[c].tag]) /\ UNCHANGED app
          ELSE app' = "delDatabase" /\ UNCHANGED alert
  /\ UNCHANGED <<nodeVars, user, tab, top, listVars, searchVars>>

\* Mutant: the row is taken out of the arrays at once.
ConfirmDropsRow ==
  /\ OnList
  /\ alert.type = "confirm"
  /\ Write("remove", alert.bj, NoCallback)
  /\ rows' = SelectSeq(rows, LAMBDA n : n # alert.bj)
  /\ dirty' = TRUE
  /\ alert' = [type |-> "presenting"]
  /\ UNCHANGED <<server, reads, mainQueue, sessionVars, items, cells, live,
                 searchVars>>

confirmDelete ==
  /\ OnList
  /\ alert.type = "confirm"
  /\ Write("remove", alert.bj, NoCallback)
  /\ alert' = [type |-> "presenting"]
  /\ UNCHANGED <<server, reads, mainQueue, sessionVars, listVars, searchVars>>

\* The completion of the presentation comes at the end of an animation.
DelSuccessPresented ==
  /\ OnList
  /\ alert.type = "presenting"
  /\ mainQueue = <<>>
  /\ alert' = [type |-> "DelSuccess"]
  /\ ClearArrays
  /\ fetchBjData
  /\ UNCHANGED <<server, pend, mainQueue, intent, sessionVars, items, cells,
                 dirty, searchVars>>

\* An alert is dismissed, or the deletion is cancelled.
dismissAlert ==
  /\ Running
  /\ alert.type \notin {"none", "presenting"}
  /\ alert' = NoAlert
  /\ UNCHANGED <<nodeVars, sessionVars, listVars, searchVars>>

-----------------------------------------------------------------------------
(* The search screen.                                                      *)

\* The keyboard's return key.
textFieldShouldReturn ==
  /\ SearchTouchable
  /\ \/ /\ alert' = Present("SearchError", TRUE, alert)
        /\ UNCHANGED <<searches, typed, spinner, disturbed>>
     \/ /\ Len(searches) < MaxSearches
        /\ typed' \in Found
        /\ searches' = Append(searches, typed')
        /\ spinner' = TRUE
        /\ disturbed' = (searches # <<>>)
        /\ UNCHANGED alert
  /\ UNCHANGED <<nodeVars, sessionVars, listVars, searchData, searchCells,
                 searchDirty>>

\* Mutant: the collection is reloaded only when somebody was found.
SearchReplyReloadsFound ==
  /\ Running
  /\ \E i \in DOMAIN searches :
       /\ searches' = RemoveAt(searches, i)
       /\ searchData' = searches[i]
       /\ searchDirty' = (searchDirty \/ searchData' # <<>>)
       /\ spinner' = FALSE
  /\ UNCHANGED <<nodeVars, sessionVars, listVars, alert, searchCells, typed,
                 disturbed>>

\* The answers may come in any order.  A failure shows a toast, or nothing when
\* the answer cannot be decoded, and leaves the spinner turning.
SearchReply ==
  /\ Running
  /\ \E i \in DOMAIN searches :
       /\ searches' = RemoveAt(searches, i)
       /\ \/ /\ searchData' = searches[i]
             /\ searchDirty' = TRUE
             /\ spinner' = FALSE
             /\ UNCHANGED disturbed
          \/ /\ disturbed' = TRUE
             /\ UNCHANGED <<searchData, searchDirty, spinner>>
  /\ UNCHANGED <<nodeVars, sessionVars, listVars, alert, searchCells, typed>>

SearchLayout ==
  /\ OnSearch /\ searchDirty
  /\ searchCells' = searchData
  /\ searchDirty' = FALSE
  /\ UNCHANGED <<nodeVars, sessionVars, listVars, alert, searches, searchData,
                 spinner, typed, disturbed>>

\* The add button of a cell; its tag is its row in searchData.
addDatabase ==
  /\ SearchTouchable
  /\ \E i \in DOMAIN searchCells :
       Observe(FollowBlock("addDatabase", searchData[i]), reads)
  /\ UNCHANGED <<server, pend, mainQueue, intent, sessionVars, listVars, alert,
                 searchVars>>

\* The snapshot block of addDatabase looks up the user again before it writes.
FollowRead ==
  /\ Running
  /\ Dispatch
  /\ LET item  == Head(mainQueue)
         n     == item.c.name
         shows == OnSearch /\ ~item.c.left
     IN  /\ item.type = "value" /\ item.c.by = "addDatabase"
         /\ \/ /\ n \in item.names
               /\ alert' = Present("FollowOverlap", shows, alert)
               /\ UNCHANGED <<pend, intent, app>>
            \/ /\ n \notin item.names /\ user = "owner"
               /\ Write("add", n, [item.c EXCEPT !.by = "updateChildValues"])
               /\ UNCHANGED <<alert, app>>
            \/ /\ n \notin item.names /\ user = "none"
               /\ app' = "followRead"
               /\ UNCHANGED <<pend, intent, alert>>
  /\ UNCHANGED <<server, reads, user, tab, top, listVars, searchVars>>

\* The completion of updateChildValues: after an error it goes on to report
\* success, over the alert that reports the error.
FollowWritten ==
  /\ Running
  /\ Dispatch
  /\ LET item  == Head(mainQueue)
         shows == OnSearch /\ ~item.c.left
         first == IF item.ok THEN alert ELSE Present("FollowError", shows, alert)
     IN  /\ item.type = "ack" /\ item.c.by = "updateChildValues"
         /\ alert' = Present("FollowSuccess", shows, first)
  /\ UNCHANGED <<server, pend, reads, intent, sessionVars, listVars, searchVars>>

-----------------------------------------------------------------------------
NodeGoesOn == Running /\ NodeStep /\ UNCHANGED <<sessionVars, listVars, alert, searchVars>>

\* The process is killed, or has trapped; it is started again, and the user
\* signs in if he had signed out.
Relaunch ==
  /\ ClientLost
  /\ app' = "running" /\ user' = "owner"
  /\ tab' = "twitch" /\ top' = "list"
  /\ rows' = <<>> /\ items' = 0
  /\ cells' = [c \in Cells |-> NewCell]
  /\ dirty' = FALSE
  /\ live' = {}
  /\ alert' = NoAlert
  /\ FreshSearch

Next ==
  \/ FetchDelivered
  \/ viewWillDisappear
  \/ chooseTab
  \/ popSearch
  \/ hideSearch
  \/ logOut
  \/ refreshs
  \/ Layout
  \/ cellForItemAt
  \/ CellReply
  \/ didSelectItemAt
  \/ SelectReply
  \/ delDatabase
  \/ confirmDelete
  \/ DelSuccessPresented
  \/ dismissAlert
  \/ textFieldShouldReturn
  \/ SearchReply
  \/ SearchLayout
  \/ addDatabase
  \/ FollowRead
  \/ FollowWritten
  \/ NodeGoesOn
  \/ Relaunch

Spec == Init /\ [][Next]_vars

-----------------------------------------------------------------------------
(* Properties.                                                             *)

\* The delete button of a cell deletes the BJ whose name the cell shows, if the
\* name was written by the answer to the question asked last for the cell.  It
\* may delete somebody else while that answer is awaited, after it failed, and
\* after an earlier question's answer came later: nothing in the code keeps the
\* button from being touched then.
SureLabelIsDeleted ==
  ListTouchable /\ rows # <<>> =>
    \A c \in Cells :
      cells[c].item # 0 /\ cells[c].delShown /\ cells[c].sure =>
        cells[c].tag \in DOMAIN rows /\ rows[cells[c].tag] = cells[c].label

\* The process traps for a touch only between a clear and the snapshot that
\* ends it, for a live answer only if the arrays were cleared since it was
\* asked for, for a follow only after the session has ended; laying out never.
TrapNeedsClearOrLogOut ==
  [][Running /\ app' # "running" =>
       \/ app' \in {"delDatabase", "didSelect"} /\ rows = <<>>
       \/ app' = "liveReply" /\ \A q \in live : q.row \notin DOMAIN rows => q.cleared
       \/ app' = "followRead" /\ user = "none"]_vars

\* Once a search that neither failed nor overlapped another one is over, the
\* screen shows what it found, for whom the add buttons stand, and the spinner
\* has stopped.
SettledSearchShown ==
  SearchTouchable /\ searches = <<>> /\ ~disturbed =>
    searchCells = typed /\ searchData = typed /\ ~spinner
=============================================================================
