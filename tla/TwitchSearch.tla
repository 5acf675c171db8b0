---------------------------- MODULE TwitchSearch ----------------------------
(***************************************************************************)
(* TwitchSearchViewController: a streamer is looked up by login and        *)
(* followed.                                                               *)
(*                                                                         *)
(* A search asks two questions in turn, the streamer and his videos.  The  *)
(* answer to the first replaces searchData at once; the collection is      *)
(* reloaded only by the answer to the second, or at once when nobody was   *)
(* found.  Nothing keeps a second search from starting while the first is  *)
(* under way.                                                              *)
(*                                                                         *)
(* Following reads the node, and writes the streamer if his name is not in *)
(* it.  The blocks keep the screen alive, so the write is made after the   *)
(* user has left the screen too, and even after he has logged out: they    *)
(* look up the current user again.                                         *)
(*                                                                         *)
(* A login names at most one streamer: searchData has no or one element.   *)
(* UIKit is as in TwitchList: layout comes before the next touch, present  *)
(* does nothing off screen or over another alert.                          *)
(***************************************************************************)
EXTENDS FollowNode, SequencesExt

CONSTANTS
  NoName,       \* nobody
  MaxVisits,    \* bound: how often the screen is opened
  MaxRequests   \* bound: questions to Twitch whose answer will come

ASSUME NoNameAssumption == NoName \notin Names
ASSUME SearchBoundAssumption == MaxVisits \in Nat /\ MaxRequests \in Nat

\* The blocks of addDatabase belong to the instance of the screen that made them.
AddRead(n, v)  == [by |-> "addDatabase", name |-> n, visit |-> v]
AddWrite(n, v) == [by |-> "updateChildValues", name |-> n, visit |-> v]
SearchCallbacks == [by : {"addDatabase", "updateChildValues"}, name : Names,
                    visit : 1 .. MaxVisits]

ASSUME SearchCallbackAssumption == Callbacks = SearchCallbacks

VARIABLES
  app,        \* "running", or "trapped"
  user,       \* who is signed in: the owner of the node, nobody, another account
  visit,      \* how often the screen was opened; its current instance
  screen,     \* "closed", "hidden" behind the other tab, or "shown"
  launchedBefore, \* the flag in the user defaults
  requests,   \* questions to Twitch under way
  searchData, \* the streamer found last, or NoName
  videoData,  \* whose videos were found last, or NoName
  channel,    \* the label of the laid out channel cell, or NoName
  dirty,      \* reloadData was called and the layout has not run
  noResult,   \* imageView and mentLabel are visible
  spinner,    \* activityView is animating
  alert,      \* the alert this controller presents
  nilAnswer,  \* history: the last snapshot for addDatabase had no dictionary
  failed,     \* history: whose videos failed since the last reload
  disturbed,  \* history: the last search overlapped another one, or failed
  elsewhere   \* history: names written to the node of another account

sessionVars == <<app, user, visit, screen, launchedBefore, elsewhere>>
resultVars  == <<requests, searchData, videoData, channel, dirty, noResult,
                 failed, disturbed>>
followVars  == <<spinner, nilAnswer>>
searchVars  == <<sessionVars, resultVars, followVars, alert>>
vars == <<nodeVars, searchVars>>

People == Names \cup {NoName}
AlertTypes == {"none", "FirstLaunch", "SearchError", "FollowSuccess",
               "FollowError", "FollowOverlap", "TwitchStore"}

TypeOK ==
  /\ NodeTypeOK
  /\ app \in {"running", "trapped"}
  /\ user \in {"owner", "none", "other"}
  /\ visit \in 0 .. MaxVisits
  /\ screen \in {"closed", "hidden", "shown"}
  /\ launchedBefore \in BOOLEAN
  /\ requests \in Seq([stage : {"streamer", "videos"}, name : Names])
  /\ searchData \in People /\ videoData \in People /\ channel \in People
  /\ dirty \in BOOLEAN /\ noResult \in BOOLEAN /\ spinner \in BOOLEAN
  /\ alert \in AlertTypes
  /\ nilAnswer \in BOOLEAN
  /\ failed \subseteq Names
  /\ disturbed \in BOOLEAN
  /\ elsewhere \subseteq Names

\* A new instance of the screen holds nothing.
FreshScreen ==
  /\ requests' = <<>>
  /\ searchData' = NoName
  /\ videoData' = NoName
  /\ channel' = NoName
  /\ dirty' = FALSE
  /\ noResult' = FALSE
  /\ spinner' = FALSE
  /\ nilAnswer' = FALSE
  /\ failed' = {}
  /\ disturbed' = FALSE

Init ==
  /\ NodeInit
  /\ app = "running"
  /\ user = "owner"
  /\ visit = 0
  /\ screen = "closed"
  /\ launchedBefore \in BOOLEAN
  /\ requests = <<>>
  /\ searchData = NoName
  /\ videoData = NoName
  /\ channel = NoName
  /\ dirty = FALSE
  /\ noResult = FALSE
  /\ spinner = FALSE
  /\ alert = "none"
  /\ nilAnswer = FALSE
  /\ failed = {}
  /\ disturbed = FALSE
  /\ elsewhere = {}

Running == app = "running"
Touchable == Running /\ screen = "shown" /\ ~dirty /\ alert = "none"
InForce(c) == screen # "closed" /\ c.visit = visit

\* present on what is presented already: the second call does nothing.
Present(type, a) == IF screen = "shown" /\ a = "none" THEN type ELSE a

-----------------------------------------------------------------------------
(* The life of the screen and of the session.                              *)

\* The screen is pushed.  Whether UIKit shows an alert that viewDidLoad
\* presents depends on the push; the flag is set in any case.
viewDidLoad ==
  /\ Running /\ screen = "closed" /\ user = "owner"
  /\ visit < MaxVisits
  /\ visit' = visit + 1
  /\ screen' = "shown"
  /\ FreshScreen
  /\ alert' \in IF launchedBefore THEN {"none"} ELSE {"none", "FirstLaunch"}
  /\ launchedBefore' = TRUE
  /\ UNCHANGED <<nodeVars, app, user, elsewhere>>

\* Back to the list.  What is still under way for this instance can change
\* nothing that is seen.
popScreen ==
  /\ Touchable
  /\ screen' = "closed"
  /\ FreshScreen
  /\ UNCHANGED <<nodeVars, app, user, visit, launchedBefore, alert, elsewhere>>

changeTab ==
  /\ Running /\ alert = "none"
  /\ \/ screen = "shown" /\ ~dirty /\ screen' = "hidden"
     \/ screen = "hidden" /\ screen' = "shown"
  /\ UNCHANGED <<nodeVars, app, user, visit, launchedBefore, elsewhere,
                 resultVars, followVars, alert>>

\* Mutant: the log out button is on every screen.
LogOutAnywhere ==
  /\ Running /\ alert = "none"
  /\ \/ user # "none" /\ user' = "none"
     \/ user = "none" /\ user' \in {"owner", "other"}
  /\ UNCHANGED <<nodeVars, app, visit, screen, launchedBefore, elsewhere,
                 resultVars, followVars, alert>>

\* The list below the search screen has the only log out button.
LogOutOrIn ==
  /\ Running /\ screen = "closed"
  /\ \/ user # "none" /\ user' = "none"
     \/ user = "none" /\ user' \in {"owner", "other"}
  /\ UNCHANGED <<nodeVars, app, visit, screen, launchedBefore, elsewhere,
                 resultVars, followVars, alert>>

\* The list's removeValue, from its delete alert.
ListDeletes ==
  /\ Running /\ screen = "closed" /\ user = "owner"
  /\ \E n \in Names : Write("remove", n, NoCallback)
  /\ UNCHANGED <<server, reads, mainQueue, searchVars>>

\* The process is killed, or has trapped, and is started again.
Relaunch ==
  /\ ClientLost
  /\ app' = "running"
  /\ screen' = "closed"
  /\ FreshScreen
  /\ alert' = "none"
  /\ UNCHANGED <<user, visit, launchedBefore, elsewhere>>

NodeGoesOn == Running /\ NodeStep /\ UNCHANGED searchVars

-----------------------------------------------------------------------------
(* Searching.                                                              *)

\* The keyboard's return key.  Requests beyond the bound get no answer.
textFieldShouldReturn ==
  /\ Touchable
  /\ \/ /\ alert' = Present("SearchError", alert)
        /\ UNCHANGED <<requests, disturbed>>
     \/ /\ Len(requests) < MaxRequests
        /\ \E n \in Names :
             requests' = Append(requests, [stage |-> "streamer", name |-> n])
        /\ disturbed' = (requests # <<>>)
        /\ UNCHANGED alert
  /\ UNCHANGED <<nodeVars, sessionVars, followVars, searchData, videoData,
                 channel, dirty, noResult, failed>>

Reload == dirty' = TRUE /\ failed' = {}

\* Mutant: the empty answer is not shown.
StreamerReplyNotReloaded ==
  /\ Running
  /\ \E i \in DOMAIN requests :
       /\ requests[i].stage = "streamer"
       /\ \/ /\ searchData' = requests[i].name
             /\ requests' = Append(RemoveAt(requests, i),
                                   [stage |-> "videos", name |-> searchData'])
             /\ UNCHANGED <<videoData, noResult, dirty, failed, disturbed>>
          \/ /\ searchData' = NoName
             /\ requests' = RemoveAt(requests, i)
             /\ videoData' = NoName
             /\ noResult' = TRUE
             /\ UNCHANGED <<dirty, failed, disturbed>>
  /\ UNCHANGED <<nodeVars, sessionVars, followVars, alert, channel>>

\* Mutant: the videos of the streamer before are kept.
StreamerReplyKeepsVideos ==
  /\ Running
  /\ \E i \in DOMAIN requests :
       /\ requests[i].stage = "streamer"
       /\ \/ /\ searchData' = requests[i].name
             /\ requests' = Append(RemoveAt(requests, i),
                                   [stage |-> "videos", name |-> searchData'])
             /\ UNCHANGED <<videoData, noResult, dirty, failed, disturbed>>
          \/ /\ searchData' = NoName
             /\ requests' = RemoveAt(requests, i)
             /\ noResult' = TRUE
             /\ Reload
             /\ UNCHANGED <<videoData, disturbed>>
  /\ UNCHANGED <<nodeVars, sessionVars, followVars, alert, channel>>

\* The answer to the first question: found, nobody, or a failure (a toast, or
\* nothing when the answer cannot be decoded).
StreamerReply ==
  /\ Running
  /\ \E i \in DOMAIN requests :
       /\ requests[i].stage = "streamer"
       /\ \/ /\ searchData' = requests[i].name
             /\ requests' = Append(RemoveAt(requests, i),
                                   [stage |-> "videos", name |-> searchData'])
             /\ UNCHANGED <<videoData, noResult, dirty, failed, disturbed>>
          \/ /\ searchData' = NoName
             /\ requests' = RemoveAt(requests, i)
             /\ videoData' = NoName
             /\ noResult' = TRUE
             /\ Reload
             /\ UNCHANGED disturbed
          \/ /\ requests' = RemoveAt(requests, i)
             /\ disturbed' = TRUE
             /\ UNCHANGED <<searchData, videoData, noResult, dirty, failed>>
  /\ UNCHANGED <<nodeVars, sessionVars, followVars, alert, channel>>

\* Mutant: the collection is reloaded for the first streamer only.
VideosReplyReloadsOnce ==
  /\ Running
  /\ \E i \in DOMAIN requests :
       /\ requests[i].stage = "videos"
       /\ requests' = RemoveAt(requests, i)
       /\ videoData' = requests[i].name
       /\ noResult' = FALSE
       /\ IF channel = NoName THEN Reload ELSE UNCHANGED <<dirty, failed>>
  /\ UNCHANGED <<nodeVars, sessionVars, followVars, alert, searchData, channel, disturbed>>

\* The answer to the second question, or its failure.
VideosReply ==
  /\ Running
  /\ \E i \in DOMAIN requests :
       /\ requests[i].stage = "videos"
       /\ requests' = RemoveAt(requests, i)
       /\ \/ /\ videoData' = requests[i].name
             /\ noResult' = FALSE
             /\ Reload
             /\ UNCHANGED disturbed
          \/ /\ failed' = failed \cup {requests[i].name}
             /\ disturbed' = TRUE
             /\ UNCHANGED <<videoData, noResult, dirty>>
  /\ UNCHANGED <<nodeVars, sessionVars, followVars, alert, searchData, channel>>

\* The layout after a reload, or the channel cell scrolls out and in again.
cellForItemAt ==
  /\ Running /\ screen = "shown"
  /\ dirty \/ (channel # NoName /\ searchData # NoName)
  /\ channel' = searchData
  /\ dirty' = FALSE
  /\ UNCHANGED <<nodeVars, sessionVars, followVars, alert, requests, searchData,
                 videoData, noResult, failed, disturbed>>

\* A video is tapped: Twitch opens, or the store is offered.
didSelectItemAt ==
  /\ Touchable
  /\ videoData # NoName
  /\ alert' = Present("TwitchStore", alert)
  /\ UNCHANGED <<nodeVars, sessionVars, resultVars, followVars>>

dismissAlert ==
  /\ Running
  /\ alert # "none"
  /\ alert' = "none"
  /\ UNCHANGED <<nodeVars, sessionVars, resultVars, followVars>>

-----------------------------------------------------------------------------
(* Following.                                                              *)

\* The add button of the channel cell.
addDatabase ==
  /\ Touchable
  /\ channel # NoName
  /\ IF searchData = NoName
     THEN app' = "trapped" /\ UNCHANGED <<reads, spinner>>
     ELSE /\ spinner' = TRUE
          /\ Observe(AddRead(searchData, visit), reads)
          /\ UNCHANGED app
  /\ UNCHANGED <<server, pend, mainQueue, intent, user, visit, screen,
                 launchedBefore, elsewhere, resultVars, alert, nilAnswer>>

\* updateChildValues below the node of whoever is signed in now.
WriteStreamer(c) ==
  \/ /\ user = "owner"
     /\ Write("add", c.name, AddWrite(c.name, c.visit))
     /\ UNCHANGED <<app, elsewhere>>
  \/ /\ user = "other"
     /\ elsewhere' = elsewhere \cup {c.name}
     /\ UNCHANGED <<pend, intent, app>>
  \/ /\ user = "none"
     /\ app' = "trapped"
     /\ UNCHANGED <<pend, intent, elsewhere>>

\* The spinner and the alerts belong to the instance that asked.
Seen(item, stops) ==
  IF InForce(item.c)
  THEN /\ alert' = IF item.c.name \in item.names
                   THEN Present("FollowOverlap", alert) ELSE alert
       /\ spinner' = (spinner /\ ~stops)
       /\ nilAnswer' = (item.names = {})
  ELSE UNCHANGED <<alert, spinner, nilAnswer>>

\* Mutant: the spinner is stopped only after a write.
FollowReadSpinsOn ==
  /\ Running
  /\ Dispatch
  /\ LET item == Head(mainQueue) IN
       /\ item.type = "value"
       /\ item.c.by = "addDatabase"
       /\ Seen(item, item.names # {} /\ item.c.name \notin item.names)
       /\ IF item.c.name \in item.names
          THEN UNCHANGED <<pend, intent, app, elsewhere>>
          ELSE WriteStreamer(item.c)
  /\ UNCHANGED <<server, reads, user, visit, screen, launchedBefore, resultVars>>

\* The snapshot block of addDatabase.  Without a dictionary the streamer is
\* written and the block returns; otherwise the names are compared first, and
\* the spinner is stopped.
FollowRead ==
  /\ Running
  /\ Dispatch
  /\ LET item == Head(mainQueue) IN
       /\ item.type = "value"
       /\ item.c.by = "addDatabase"
       /\ Seen(item, item.names # {})
       /\ IF item.c.name \in item.names
          THEN UNCHANGED <<pend, intent, app, elsewhere>>
          ELSE WriteStreamer(item.c)
  /\ UNCHANGED <<server, reads, user, visit, screen, launchedBefore, resultVars>>

\* Mutant: success is reported before the error is looked at.
FollowWrittenSuccessFirst ==
  /\ Running
  /\ Dispatch
  /\ LET item  == Head(mainQueue)
         first == Present("FollowSuccess", alert)
     IN  /\ item.type = "ack"
         /\ item.c.by = "updateChildValues"
         /\ IF InForce(item.c)
            THEN alert' = IF item.ok THEN first ELSE Present("FollowError", first)
            ELSE UNCHANGED alert
  /\ UNCHANGED <<server, pend, reads, intent, sessionVars, resultVars, followVars>>

\* The completion of updateChildValues.  After an error it goes on to the line
\* that reports success: both alerts are asked for, in this order.
FollowWritten ==
  /\ Running
  /\ Dispatch
  /\ LET item  == Head(mainQueue)
         first == IF item.ok THEN alert ELSE Present("FollowError", alert)
     IN  /\ item.type = "ack"
         /\ item.c.by = "updateChildValues"
         /\ alert' = IF InForce(item.c) THEN Present("FollowSuccess", first) ELSE alert
  /\ UNCHANGED <<server, pend, reads, intent, sessionVars, resultVars, followVars>>

Next ==
  \/ viewDidLoad
  \/ popScreen
  \/ changeTab
  \/ LogOutOrIn
  \/ ListDeletes
  \/ textFieldShouldReturn
  \/ StreamerReply
  \/ VideosReply
  \/ cellForItemAt
  \/ didSelectItemAt
  \/ dismissAlert
  \/ addDatabase
  \/ FollowRead
  \/ FollowWritten
  \/ Relaunch
  \/ NodeGoesOn

Spec == Init /\ [][Next]_vars

\* The database answers reads and writes, and the main queue is run.
Fairness ==
  /\ WF_vars(Running /\ ServerApply /\ UNCHANGED searchVars)
  /\ SF_vars(Running /\ AckWrite /\ UNCHANGED searchVars)
  /\ WF_vars(Running /\ RaiseValue /\ UNCHANGED searchVars)
  /\ WF_vars(FollowRead)
  /\ WF_vars(FollowWritten)

FairSpec == Spec /\ Fairness
-----------------------------------------------------------------------------
(* Properties.                                                             *)

\* Every answer that finds nobody reloads: the add button of a cell that can be
\* touched never reads an empty searchData, whichever searches overlap.
NoEmptyAdd == ~dirty /\ channel # NoName => searchData # NoName

\* The add button follows searchData, not what the cell says.  The two differ
\* only while the videos of the streamer found last are awaited, or after they
\* failed and until the next reload.
ChannelSkewIsBounded ==
  ~dirty /\ channel # searchData =>
    \/ searchData \in failed
    \/ \E i \in DOMAIN requests : requests[i] = [stage |-> "videos", name |-> searchData]

\* Once a search that neither failed nor overlapped another one is over, the
\* channel, the videos and the "no result" label agree.
SettledSearchAgrees ==
  requests = <<>> /\ ~disturbed =>
    /\ videoData = searchData
    /\ noResult => searchData = NoName
    /\ ~dirty => channel = searchData

\* The process traps for want of a user, and a streamer is written to another
\* account, only in a block whose screen the user had left: the screen itself
\* cannot outlive the session.
ShownFollowsAreOwned ==
  [][(app' = "trapped" /\ app = "running") \/ elsewhere' # elsewhere
       => mainQueue # <<>> /\ ~InForce(Head(mainQueue).c)]_vars

\* The spinner turns without a read under way only after a snapshot that had no
\* dictionary: the first streamer a user follows leaves it turning.
SpinnerNeedsRead ==
  spinner /\ ~nilAnswer =>
    \/ \E i \in DOMAIN reads : reads[i].by = "addDatabase" /\ InForce(reads[i])
    \/ \E i \in DOMAIN mainQueue :
         mainQueue[i].type = "value" /\ InForce(mainQueue[i].c)

\* A write that was refused is not reported as a success, although the block
\* asks for the success alert after the error alert.
RefusalNotReportedAsSuccess ==
  [][FollowWritten /\ ~Head(mainQueue).ok /\ alert' # alert
       => alert' = "FollowError"]_vars

\* "Already followed" is never said of a streamer this client has deleted since
\* anyone else last wrote him, acknowledged or not.
OverlapIsNotStale ==
  [][alert' = "FollowOverlap" /\ alert # "FollowOverlap"
       => intent[Head(mainQueue).c.name] # "remove"]_vars

\* The spinner of a follow stops, unless the snapshot has no dictionary, the
\* user leaves the screen or the process ends.
SpinnerStops == spinner ~> (~spinner \/ nilAnswer)
=============================================================================
