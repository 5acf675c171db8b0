-------------------------- MODULE TwitchSearchProofs --------------------------
(***************************************************************************)
(* Proofs about searching for a streamer and following him, for every set  *)
(* of names and every bound.                                               *)
(***************************************************************************)
EXTENDS TwitchSearch, FollowNodeProofs

RequestRec == [stage : {"streamer", "videos"}, name : Names]

\* TypeOK in parts: what the actions change together.
VisitTypes ==
  /\ app \in {"running", "trapped"}
  /\ user \in {"owner", "none", "other"}
  /\ visit \in 0 .. MaxVisits
  /\ screen \in {"closed", "hidden", "shown"}
  /\ launchedBefore \in BOOLEAN
  /\ elsewhere \subseteq Names

ResultTypes ==
  /\ requests \in Seq(RequestRec)
  /\ searchData \in People /\ videoData \in People /\ channel \in People
  /\ failed \subseteq Names
  /\ dirty \in BOOLEAN /\ noResult \in BOOLEAN /\ disturbed \in BOOLEAN

FollowTypes ==
  /\ alert \in AlertTypes
  /\ spinner \in BOOLEAN /\ nilAnswer \in BOOLEAN

\* A screen that is open was opened, and not by a user who is gone.
OpenScreens == screen # "closed" => visit >= 1 /\ user = "owner"

TypeInv == TypeOK /\ OpenScreens

LEMMA TypeParts ==
  TypeOK <=> NodeTypeOK /\ VisitTypes /\ ResultTypes /\ FollowTypes
BY Zenon DEF TypeOK, VisitTypes, ResultTypes, FollowTypes, RequestRec

-----------------------------------------------------------------------------
(* Taking an answered request out of those under way.                      *)

LEMMA RemoveFacts ==
  ASSUME NEW s \in Seq(RequestRec), NEW i \in DOMAIN s
  PROVE  /\ RemoveAt(s, i) \in Seq(RequestRec) /\ s[i] \in RequestRec
         /\ Len(RemoveAt(s, i)) = Len(s) - 1
         /\ \A j \in DOMAIN s \ {i} :
              \E k \in DOMAIN RemoveAt(s, i) : RemoveAt(s, i)[k] = s[j]
<1>1. /\ Len(s) \in Nat /\ DOMAIN s = 1 .. Len(s) /\ i \in 1 .. Len(s)
      /\ s \in [1 .. Len(s) -> RequestRec]
  BY LenProperties
<1> DEFINE a == SubSeq(s, 1, i - 1)
           b == SubSeq(s, i + 1, Len(s))
<1>2. /\ a \in Seq(RequestRec) /\ Len(a) = i - 1
      /\ \A j \in 1 .. i - 1 : a[j] = s[j]
  BY <1>1
<1>3. /\ b \in Seq(RequestRec) /\ Len(b) = Len(s) - i
      /\ \A j \in 1 .. Len(s) - i : b[j] = s[j + i]
  <2>1. i + 1 \in Int /\ Len(s) \in Int /\ \A j \in i + 1 .. Len(s) : s[j] \in RequestRec
    BY <1>1
  <2>2. /\ b \in Seq(RequestRec)
        /\ Len(b) = IF i + 1 <= Len(s) THEN Len(s) - (i + 1) + 1 ELSE 0
        /\ \A j \in 1 .. Len(s) - (i + 1) + 1 : b[j] = s[i + 1 + j - 1]
    BY <2>1, SubSeqProperties
  <2>3. Len(s) - (i + 1) + 1 = Len(s) - i /\ \A j \in Int : i + 1 + j - 1 = j + i
    BY <1>1
  <2>4. Len(b) = Len(s) - i
    BY <1>1, <2>2, <2>3
  <2>5. ASSUME NEW j \in 1 .. Len(s) - i PROVE b[j] = s[j + i]
    <3>1. b[j] = s[i + 1 + j - 1]
      BY <2>2, <2>3
    <3>2. i + 1 + j - 1 = j + i
      BY <1>1
    <3>3. QED
      BY <3>1, <3>2
  <2>6. QED
    BY <2>2, <2>4, <2>5
<1>4. RemoveAt(s, i) = a \o b
  BY DEF RemoveAt
<1> HIDE DEF a, b
<1>5. /\ a \o b \in Seq(RequestRec) /\ Len(a \o b) = Len(s) - 1
      /\ DOMAIN (a \o b) = 1 .. Len(s) - 1
      /\ \A j \in 1 .. Len(s) - 1 : (a \o b)[j] = IF j <= i - 1 THEN a[j] ELSE b[j - (i - 1)]
  <2>1. Len(a) + Len(b) = Len(s) - 1
    BY <1>1, <1>2, <1>3
  <2>2. a \o b \in Seq(RequestRec) /\ Len(a \o b) = Len(s) - 1
    BY <1>2, <1>3, <2>1, ConcatProperties
  <2>3. DOMAIN (a \o b) = 1 .. Len(s) - 1
    BY <2>2, LenProperties
  <2>4. \A j \in 1 .. Len(s) - 1 : (a \o b)[j] = IF j <= i - 1 THEN a[j] ELSE b[j - (i - 1)]
    BY <1>2, <1>3, <2>1, ConcatProperties
  <2>5. QED
    BY <2>2, <2>3, <2>4
<1>6. ASSUME NEW j \in DOMAIN s \ {i}
      PROVE  \E k \in 1 .. Len(s) - 1 : (a \o b)[k] = s[j]
  <2>1. CASE j < i
    <3>1. j \in 1 .. i - 1 /\ j \in 1 .. Len(s) - 1
      BY <1>1, <2>1
    <3>2. (a \o b)[j] = s[j]
      BY <1>2, <1>5, <3>1
    <3>3. QED
      BY <3>1, <3>2
  <2>2. CASE j > i
    <3>1. j - 1 \in 1 .. Len(s) - 1 /\ ~(j - 1 <= i - 1) /\ j - i \in 1 .. Len(s) - i
          /\ (j - 1) - (i - 1) = j - i /\ (j - i) + i = j
      BY <1>1, <2>2
    <3>2. (a \o b)[j - 1] = b[j - i] /\ b[j - i] = s[j]
      BY <1>3, <1>5, <3>1
    <3> DEFINE k == j - 1
    <3>3. k \in 1 .. Len(s) - 1 /\ (a \o b)[k] = s[j]
      BY <3>1, <3>2
    <3> HIDE DEF k
    <3>4. QED
      BY <3>3
  <2>3. j < i \/ j > i
    BY <1>1, <1>6
  <2>4. QED
    BY <2>1, <2>2, <2>3
<1>7. s[i] \in RequestRec
  BY <1>1
<1>8. QED
  BY <1>4, <1>5, <1>6, <1>7

\* A request that is appended is there, and the others are still.
LEMMA AppendFacts ==
  ASSUME NEW s \in Seq(RequestRec), NEW r \in RequestRec
  PROVE  /\ Append(s, r) \in Seq(RequestRec)
         /\ \E k \in DOMAIN Append(s, r) : Append(s, r)[k] = r
         /\ \A j \in DOMAIN s : \E k \in DOMAIN Append(s, r) : Append(s, r)[k] = s[j]
<1>1. /\ Len(s) \in Nat /\ DOMAIN s = 1 .. Len(s)
      /\ Append(s, r) \in Seq(RequestRec)
      /\ DOMAIN Append(s, r) = 1 .. Len(s) + 1
      /\ Append(s, r)[Len(s) + 1] = r
      /\ \A j \in 1 .. Len(s) : Append(s, r)[j] = s[j]
  BY AppendProperties, LenProperties
<1>2. Len(s) + 1 \in 1 .. Len(s) + 1 /\ 1 .. Len(s) \subseteq 1 .. Len(s) + 1
  BY <1>1
<1>3. QED
  BY <1>1, <1>2

-----------------------------------------------------------------------------
(* Types.                                                                  *)

\* The screen and the session.
LEMMA VisitStep ==
  ASSUME TypeInv, [Next]_vars
  PROVE  VisitTypes' /\ OpenScreens'
<1>0. VisitTypes /\ OpenScreens /\ MaxVisits \in Nat
  BY TypeParts, SearchBoundAssumption DEF TypeInv
<1>1. CASE viewDidLoad
  <2>1. /\ visit' = visit + 1 /\ visit < MaxVisits /\ screen' = "shown"
        /\ launchedBefore' = TRUE /\ user = "owner"
        /\ UNCHANGED <<app, user, elsewhere>>
    BY <1>1 DEF viewDidLoad
  <2>2. visit' \in 0 .. MaxVisits /\ visit' >= 1
    BY <1>0, <2>1 DEF VisitTypes
  <2>3. launchedBefore' \in BOOLEAN
    BY <2>1, Zenon
  <2>4. QED
    BY <1>0, <2>1, <2>2, <2>3 DEF VisitTypes, OpenScreens
<1>2. CASE popScreen \/ changeTab \/ LogOutOrIn \/ Relaunch
  <2>1. /\ UNCHANGED <<visit, launchedBefore, elsewhere>>
        /\ app' \in {app, "running"}
        /\ user' \in {"owner", "none", "other", user}
        /\ screen' \in {screen, "closed", "hidden", "shown"}
        /\ screen' = "closed" \/ (screen # "closed" /\ user' = user)
    BY <1>2 DEF popScreen, changeTab, LogOutOrIn, Relaunch
  <2>2. QED
    BY <1>0, <2>1 DEF VisitTypes, OpenScreens
<1>3. CASE addDatabase \/ FollowRead
  <2>1. /\ UNCHANGED <<visit, launchedBefore, user, screen>> /\ app' \in {app, "trapped"}
    BY <1>3 DEF addDatabase, FollowRead, WriteStreamer
  <2>2. elsewhere' \subseteq Names
    <3>1. CASE addDatabase
      BY <1>0, <3>1 DEF addDatabase, VisitTypes
    <3>2. CASE FollowRead
      <4>1. mainQueue # <<>> /\ mainQueue \in Seq(MainItem)
        BY <3>2 DEF FollowRead, Dispatch, TypeInv, TypeOK, NodeTypeOK
      <4>2. Head(mainQueue).c \in Callbacks
        <5>1. Head(mainQueue) \in MainItem
          BY <4>1, HeadTailProperties
        <5>2. QED
          BY <5>1 DEF MainItem
      <4>3. Head(mainQueue).c.name \in Names
        BY <4>2, SearchCallbackAssumption DEF SearchCallbacks
      <4>4. elsewhere' = elsewhere \/ elsewhere' = elsewhere \cup {Head(mainQueue).c.name}
        BY <3>2 DEF FollowRead, WriteStreamer
      <4>5. QED
        BY <1>0, <4>3, <4>4 DEF VisitTypes
    <3>3. QED
      BY <1>3, <3>1, <3>2
  <2>3. QED
    BY <1>0, <2>1, <2>2 DEF VisitTypes, OpenScreens
<1>4. CASE \/ ListDeletes \/ textFieldShouldReturn \/ StreamerReply \/ VideosReply
           \/ cellForItemAt \/ didSelectItemAt \/ dismissAlert \/ FollowWritten
           \/ NodeGoesOn \/ UNCHANGED vars
  <2>1. UNCHANGED sessionVars
    BY <1>4
    DEF ListDeletes, textFieldShouldReturn, StreamerReply, VideosReply, cellForItemAt,
        didSelectItemAt, dismissAlert, FollowWritten, NodeGoesOn, searchVars, vars
  <2>2. QED
    BY <1>0, <2>1 DEF sessionVars, VisitTypes, OpenScreens
<1>5. QED
  BY <1>1, <1>2, <1>3, <1>4 DEF Next

\* What is searched for and shown.
LEMMA ResultStep ==
  ASSUME TypeInv, [Next]_vars
  PROVE  ResultTypes'
<1>0. ResultTypes /\ NoName \in People /\ Names \subseteq People
  BY TypeParts DEF TypeInv, People
<1>1. CASE viewDidLoad \/ popScreen \/ Relaunch
  <2>1. FreshScreen
    BY <1>1 DEF viewDidLoad, popScreen, Relaunch
  <2>2. <<>> \in Seq(RequestRec)
    OBVIOUS
  <2>3. QED
    BY <1>0, <2>1, <2>2, Zenon DEF FreshScreen, ResultTypes
<1>2. CASE textFieldShouldReturn
  <2>1. /\ UNCHANGED <<searchData, videoData, channel, dirty, noResult, failed>>
        /\ \/ UNCHANGED <<requests, disturbed>>
           \/ /\ \E n \in Names :
                   requests' = Append(requests, [stage |-> "streamer", name |-> n])
              /\ disturbed' = (requests # <<>>)
    BY <1>2 DEF textFieldShouldReturn
  <2>2. requests' \in Seq(RequestRec)
    <3>1. requests' = requests \/ \E r \in RequestRec : requests' = Append(requests, r)
      BY <2>1 DEF RequestRec
    <3>2. QED
      BY <1>0, <3>1, AppendProperties DEF ResultTypes
  <2>3. disturbed' \in BOOLEAN
    <3>1. disturbed' = disturbed \/ disturbed' = (requests # <<>>)
      BY <2>1
    <3>2. QED
      BY <1>0, <3>1, Zenon DEF ResultTypes
  <2>4. QED
    BY <1>0, <2>1, <2>2, <2>3 DEF ResultTypes
<1>3. CASE StreamerReply \/ VideosReply
  <2>1. PICK i \in DOMAIN requests :
          /\ \/ requests' = RemoveAt(requests, i)
             \/ requests' = Append(RemoveAt(requests, i),
                                   [stage |-> "videos", name |-> requests[i].name])
          /\ searchData' \in {searchData, NoName, requests[i].name}
          /\ videoData' \in {videoData, NoName, requests[i].name}
          /\ failed' \in {failed, {}, failed \cup {requests[i].name}}
          /\ channel' = channel
    BY <1>3 DEF StreamerReply, VideosReply, Reload
  <2>2. RemoveAt(requests, i) \in Seq(RequestRec) /\ requests[i] \in RequestRec
    BY <1>0, <2>1, RemoveFacts DEF ResultTypes
  <2>3. requests[i].name \in Names
        /\ [stage |-> "videos", name |-> requests[i].name] \in RequestRec
    BY <2>2 DEF RequestRec
  <2> DEFINE rest == RemoveAt(requests, i)
             next == [stage |-> "videos", name |-> requests[i].name]
  <2>4. requests' \in Seq(RequestRec)
    <3>1. requests' = rest \/ requests' = Append(rest, next)
      BY <2>1
    <3>2. rest \in Seq(RequestRec) /\ next \in RequestRec
      BY <2>2, <2>3
    <3> HIDE DEF rest, next
    <3>3. QED
      BY <3>1, <3>2, AppendProperties
  <2>5. /\ dirty' = dirty \/ dirty' = TRUE
        /\ noResult' = noResult \/ noResult' = TRUE \/ noResult' = FALSE
        /\ disturbed' = disturbed \/ disturbed' = TRUE
    BY <1>3 DEF StreamerReply, VideosReply, Reload
  <2>6. dirty' \in BOOLEAN /\ noResult' \in BOOLEAN /\ disturbed' \in BOOLEAN
    BY <1>0, <2>5, Zenon DEF ResultTypes
  <2>7. /\ searchData' \in People /\ videoData' \in People /\ channel' \in People
        /\ failed' \subseteq Names
    BY <1>0, <2>1, <2>3 DEF ResultTypes
  <2>8. QED
    BY <2>4, <2>6, <2>7 DEF ResultTypes
<1>4. CASE cellForItemAt
  <2>1. /\ channel' = searchData /\ dirty' = FALSE /\ requests' = requests
        /\ searchData' = searchData /\ videoData' = videoData /\ failed' = failed
        /\ noResult' = noResult /\ disturbed' = disturbed
    BY <1>4 DEF cellForItemAt
  <2>2. QED
    BY <1>0, <2>1, Zenon DEF ResultTypes
<1>5. CASE \/ changeTab \/ LogOutOrIn \/ ListDeletes \/ didSelectItemAt \/ dismissAlert
           \/ addDatabase \/ FollowRead \/ FollowWritten \/ NodeGoesOn
           \/ UNCHANGED vars
  <2>1. UNCHANGED resultVars
    BY <1>5
    DEF changeTab, LogOutOrIn, ListDeletes, didSelectItemAt, dismissAlert, addDatabase,
        FollowRead, FollowWritten, NodeGoesOn, searchVars, vars
  <2>2. QED
    BY <1>0, <2>1 DEF resultVars, ResultTypes
<1>6. QED
  BY <1>1, <1>2, <1>3, <1>4, <1>5 DEF Next

LEMMA PresentTyping ==
  ASSUME NEW type \in AlertTypes, NEW a \in AlertTypes
  PROVE  Present(type, a) \in AlertTypes
BY DEF Present

\* The alert and the spinner.
LEMMA FollowStep ==
  ASSUME TypeInv, [Next]_vars
  PROVE  FollowTypes'
<1>0. /\ FollowTypes
      /\ {"none", "FirstLaunch", "SearchError", "FollowSuccess", "FollowError",
          "FollowOverlap", "TwitchStore"} \subseteq AlertTypes
  BY TypeParts DEF TypeInv, AlertTypes
<1>1. alert' \in AlertTypes
  <2>1. CASE FollowWritten
    <3>1. PICK first \in {alert, Present("FollowError", alert)} :
            alert' \in {alert, Present("FollowSuccess", first)}
      BY <2>1 DEF FollowWritten
    <3>2. first \in AlertTypes
      BY <1>0, <3>1, PresentTyping DEF FollowTypes
    <3>3. QED
      BY <1>0, <3>1, <3>2, PresentTyping DEF FollowTypes
  <2>2. CASE textFieldShouldReturn \/ didSelectItemAt \/ FollowRead
    <3>1. alert' = alert \/ \E type \in {"SearchError", "TwitchStore", "FollowOverlap"} :
                              alert' = Present(type, alert)
      BY <2>2 DEF textFieldShouldReturn, didSelectItemAt, FollowRead, Seen
    <3>2. QED
      BY <1>0, <3>1, PresentTyping DEF FollowTypes
  <2>3. CASE viewDidLoad \/ dismissAlert \/ Relaunch
    <3>1. alert' \in {"none", "FirstLaunch"}
      BY <2>3 DEF viewDidLoad, dismissAlert, Relaunch
    <3>2. QED
      BY <1>0, <3>1
  <2>4. CASE \/ popScreen \/ changeTab \/ LogOutOrIn \/ ListDeletes \/ StreamerReply
             \/ VideosReply \/ cellForItemAt \/ addDatabase \/ NodeGoesOn
             \/ UNCHANGED vars
    <3>1. alert' = alert
      BY <2>4
      DEF popScreen, changeTab, LogOutOrIn, ListDeletes, StreamerReply, VideosReply,
          cellForItemAt, addDatabase, NodeGoesOn, searchVars, vars
    <3>2. QED
      BY <1>0, <3>1 DEF FollowTypes
  <2>5. QED
    BY <2>1, <2>2, <2>3, <2>4 DEF Next
<1>2. spinner' \in BOOLEAN /\ nilAnswer' \in BOOLEAN
  <2>1. CASE viewDidLoad \/ popScreen \/ Relaunch
    <3>1. FreshScreen
      BY <2>1 DEF viewDidLoad, popScreen, Relaunch
    <3>2. QED
      BY <3>1, Zenon DEF FreshScreen
  <2>2. CASE addDatabase
    <3>1. (spinner' = spinner \/ spinner' = TRUE) /\ nilAnswer' = nilAnswer
      BY <2>2 DEF addDatabase
    <3>2. QED
      BY <1>0, <3>1, Zenon DEF FollowTypes
  <2>3. CASE FollowRead
    <3>1. PICK item : Seen(item, item.names # {})
      BY <2>3 DEF FollowRead
    <3>2. \/ spinner' = spinner /\ nilAnswer' = nilAnswer
          \/ /\ spinner' = (spinner /\ ~(item.names # {}))
             /\ nilAnswer' = (item.names = {})
      BY <3>1 DEF Seen
    <3>3. QED
      BY <1>0, <3>2, Zenon DEF FollowTypes
  <2>4. CASE \/ changeTab \/ LogOutOrIn \/ ListDeletes \/ textFieldShouldReturn
             \/ StreamerReply \/ VideosReply \/ cellForItemAt \/ didSelectItemAt
             \/ dismissAlert \/ FollowWritten \/ NodeGoesOn \/ UNCHANGED vars
    <3>1. UNCHANGED <<spinner, nilAnswer>>
      BY <2>4
      DEF changeTab, LogOutOrIn, ListDeletes, textFieldShouldReturn, StreamerReply,
          VideosReply, cellForItemAt, didSelectItemAt, dismissAlert, FollowWritten,
          NodeGoesOn, searchVars, followVars, vars
    <3>2. QED
      BY <1>0, <3>1 DEF FollowTypes
  <2>5. QED
    BY <2>1, <2>2, <2>3, <2>4 DEF Next
<1>3. QED
  BY <1>1, <1>2 DEF FollowTypes

\* The block of a follow whose snapshot has come is one that can be called back.
LEMMA BlockTyping ==
  ASSUME NEW c \in Callbacks
  PROVE  c.name \in Names /\ AddWrite(c.name, c.visit) \in Callbacks
BY SearchCallbackAssumption DEF SearchCallbacks, AddWrite

\* The node, as the screen uses it.
LEMMA ScreenNodeStep ==
  ASSUME TypeInv, [Next]_vars
  PROVE  NodeTypeOK'
<1>0. /\ NodeTypeOK /\ reads \in Seq(Callbacks) /\ mainQueue \in Seq(MainItem)
      /\ pend \in Seq(WriteRec)
  BY DEF TypeInv, TypeOK, NodeTypeOK
<1>1. CASE addDatabase
  <2>1. reads' = reads \/ (searchData # NoName /\ screen = "shown"
                           /\ reads' = Append(reads, AddRead(searchData, visit)))
    BY <1>1 DEF addDatabase, Observe, Touchable
  <2>2. searchData \in People /\ visit \in 0 .. MaxVisits
        /\ (screen = "shown" => visit >= 1)
    BY TypeParts DEF TypeInv, ResultTypes, VisitTypes, OpenScreens
  <2> DEFINE r == AddRead(searchData, visit)
  <2>3. searchData # NoName /\ screen = "shown" => r \in Callbacks
    BY <2>2, SearchCallbackAssumption DEF AddRead, SearchCallbacks, People
  <2> HIDE DEF r
  <2>4. reads' \in Seq(Callbacks)
    BY <1>0, <2>1, <2>3, AppendProperties DEF r
  <2>5. QED
    BY <1>0, <1>1, <2>4 DEF addDatabase, NodeTypeOK
<1>2. CASE FollowRead
  <2> DEFINE c == Head(mainQueue).c
             w == [op |-> "add", name |-> c.name, applied |-> FALSE,
                   done |-> AddWrite(c.name, c.visit)]
  <2>1. /\ mainQueue # <<>> /\ mainQueue' = Tail(mainQueue)
        /\ UNCHANGED <<server, reads>>
        /\ \/ UNCHANGED <<pend, intent>>
           \/ pend' = Append(pend, w) /\ intent' = [intent EXCEPT ![c.name] = "add"]
    BY <1>2 DEF FollowRead, WriteStreamer, Dispatch, Write
  <2>2. Head(mainQueue) \in MainItem /\ mainQueue' \in Seq(MainItem)
    BY <1>0, <2>1, HeadTailProperties
  <2>3. c \in Callbacks
    BY <2>2 DEF MainItem
  <2>4. c.name \in Names /\ w \in WriteRec
    <3>1. c.name \in Names /\ AddWrite(c.name, c.visit) \in Callbacks
      BY <2>3, BlockTyping
    <3>2. QED
      BY <3>1 DEF WriteRec, Ops
  <2> HIDE DEF c, w
  <2>5. pend' \in Seq(WriteRec)
    <3>1. Append(pend, w) \in Seq(WriteRec)
      BY <1>0, <2>4, AppendProperties
    <3>2. QED
      BY <1>0, <2>1, <3>1
  <2>6. intent' \in [Names -> Ops \cup {"none"}]
    BY <1>0, <2>1, <2>4 DEF NodeTypeOK, Ops
  <2>7. QED
    BY <1>0, <2>1, <2>2, <2>5, <2>6 DEF NodeTypeOK
<1>3. CASE FollowWritten
  <2>1. mainQueue # <<>> /\ mainQueue' = Tail(mainQueue)
        /\ UNCHANGED <<server, pend, reads, intent>>
    BY <1>3 DEF FollowWritten, Dispatch
  <2>2. mainQueue' \in Seq(MainItem)
    BY <1>0, <2>1, HeadTailProperties
  <2>3. QED
    BY <1>0, <2>1, <2>2 DEF NodeTypeOK
<1>4. CASE ListDeletes
  BY <1>0, <1>4, AppendProperties DEF ListDeletes, Write, WriteRec, Ops, NodeTypeOK
<1>5. CASE Relaunch
  BY <1>0, <1>5 DEF Relaunch, ClientLost, Ops, NodeTypeOK
<1>6. CASE NodeGoesOn
  BY <1>0, <1>6, NodeStepTyping DEF NodeGoesOn
<1>7. CASE \/ viewDidLoad \/ popScreen \/ changeTab \/ LogOutOrIn
           \/ textFieldShouldReturn \/ StreamerReply \/ VideosReply \/ cellForItemAt
           \/ didSelectItemAt \/ dismissAlert \/ UNCHANGED vars
  <2>1. UNCHANGED nodeVars
    BY <1>7
    DEF viewDidLoad, popScreen, changeTab, LogOutOrIn, textFieldShouldReturn,
        StreamerReply, VideosReply, cellForItemAt, didSelectItemAt, dismissAlert, vars
  <2>2. QED
    BY <1>0, <2>1 DEF nodeVars, NodeTypeOK
<1>8. QED
  BY <1>1, <1>2, <1>3, <1>4, <1>5, <1>6, <1>7 DEF Next

\* Every variable keeps its type, and an open screen its user.
LEMMA SearchTypeInv == Spec => []TypeInv
<1>1. Init => TypeInv
  <2> SUFFICES ASSUME Init PROVE TypeInv
    OBVIOUS
  <2>1. NodeTypeOK
    BY NodeInitInv DEF Init, NodeInv
  <2>2. VisitTypes /\ OpenScreens
    <3>1. /\ app = "running" /\ user = "owner" /\ visit = 0 /\ screen = "closed"
          /\ elsewhere = {}
      BY DEF Init
    <3>2. launchedBefore \in BOOLEAN
      BY Zenon DEF Init
    <3>3. QED
      BY <3>1, <3>2, SearchBoundAssumption DEF VisitTypes, OpenScreens
  <2>3. ResultTypes
    <3>1. <<>> \in Seq(RequestRec) /\ NoName \in People
      BY DEF People
    <3>2. QED
      BY <3>1, Zenon DEF Init, ResultTypes
  <2>4. FollowTypes
    <3>1. "none" \in AlertTypes
      BY DEF AlertTypes
    <3>2. QED
      BY <3>1, Zenon DEF Init, FollowTypes
  <2>5. QED
    BY <2>1, <2>2, <2>3, <2>4, TypeParts DEF TypeInv
<1>2. TypeInv /\ [Next]_vars => TypeInv'
  <2> SUFFICES ASSUME TypeInv, [Next]_vars PROVE TypeInv'
    OBVIOUS
  <2>1. NodeTypeOK' /\ VisitTypes' /\ OpenScreens' /\ ResultTypes' /\ FollowTypes'
    BY ScreenNodeStep, VisitStep, ResultStep, FollowStep
  <2>2. TypeOK'
    <3>1. (NodeTypeOK /\ VisitTypes /\ ResultTypes /\ FollowTypes => TypeOK)'
      BY TypeParts, PTL
    <3>2. QED
      BY <2>1, <3>1
  <2>3. QED
    BY <2>1, <2>2 DEF TypeInv
<1>3. QED
  BY <1>1, <1>2, PTL DEF Spec

\* Every variable keeps its type.
THEOREM TwitchSearchTyping == Spec => []TypeOK
<1>1. TypeInv => TypeOK
  BY DEF TypeInv
<1>2. QED
  BY <1>1, SearchTypeInv, PTL

-----------------------------------------------------------------------------
(* What is found and what is shown.                                        *)

\* The one question of an undisturbed search: the videos are those of the
\* streamer found.
OneSearch ==
  ~disturbed => \/ requests = <<>>
                \/ /\ Len(requests) = 1
                   /\ requests[1].stage = "videos" => requests[1].name = searchData

ResultInv == NoEmptyAdd /\ ChannelSkewIsBounded /\ OneSearch /\ SettledSearchAgrees

\* An answer that comes leaves no cell that has lost its streamer unnoticed.
LEMMA ReplyKeepsResults ==
  ASSUME TypeInv, ResultInv, StreamerReply \/ VideosReply
  PROVE  ResultInv'
<1>0. /\ requests \in Seq(RequestRec) /\ searchData \in People /\ channel' = channel
      /\ NoName \notin Names
  BY TypeParts, NoNameAssumption DEF TypeInv, ResultTypes, StreamerReply, VideosReply
<1> DEFINE Next2(n) == [stage |-> "videos", name |-> n]
           Found(i) == /\ requests[i].stage = "streamer"
                       /\ searchData' = requests[i].name
                       /\ requests' = Append(RemoveAt(requests, i), Next2(searchData'))
                       /\ UNCHANGED <<videoData, noResult, dirty, failed, disturbed>>
           Nobody(i) == /\ requests[i].stage = "streamer"
                        /\ searchData' = NoName /\ videoData' = NoName
                        /\ requests' = RemoveAt(requests, i)
                        /\ dirty' = TRUE /\ disturbed' = disturbed
           Lost(i) == /\ requests[i].stage = "streamer"
                      /\ requests' = RemoveAt(requests, i) /\ disturbed' = TRUE
                      /\ UNCHANGED <<searchData, dirty, failed>>
           Videos(i) == /\ requests[i].stage = "videos"
                        /\ requests' = RemoveAt(requests, i)
                        /\ videoData' = requests[i].name /\ noResult' = FALSE
                        /\ dirty' = TRUE
                        /\ searchData' = searchData /\ disturbed' = disturbed
           NoVideos(i) == /\ requests[i].stage = "videos"
                          /\ requests' = RemoveAt(requests, i) /\ disturbed' = TRUE
                          /\ failed' = failed \cup {requests[i].name}
                          /\ UNCHANGED <<searchData, dirty>>
<1>1. PICK i \in DOMAIN requests :
        Found(i) \/ Nobody(i) \/ Lost(i) \/ Videos(i) \/ NoVideos(i)
  <2>1. CASE StreamerReply
    BY <2>1, Zenon DEF StreamerReply, Reload
  <2>2. CASE VideosReply
    BY <2>2, Zenon DEF VideosReply, Reload
  <2>3. QED
    BY <2>1, <2>2
<1> DEFINE rest == RemoveAt(requests, i)
<1>2. /\ rest \in Seq(RequestRec) /\ requests[i] \in RequestRec
      /\ Len(rest) = Len(requests) - 1
      /\ \A j \in DOMAIN requests \ {i} : \E k \in DOMAIN rest : rest[k] = requests[j]
  BY <1>0, RemoveFacts
<1>3. /\ Len(requests) = 1 => rest = <<>> /\ i = 1
      /\ requests # <<>>
  <2>1. Len(rest) = 0 => rest = <<>>
    BY <1>2, EmptySeq
  <2>2. Len(requests) \in Nat /\ DOMAIN requests = 1 .. Len(requests)
    BY <1>0, LenProperties
  <2>3. Len(requests) = 1 => i = 1
    BY <2>2
  <2>4. QED
    BY <1>2, <2>1, <2>2, <2>3
<1> HIDE DEF rest
<1>4. requests[i].name \in Names
  BY <1>2 DEF RequestRec
<1>5. ~disturbed => Len(requests) = 1
                    /\ (requests[i].stage = "videos" => requests[i].name = searchData)
  <2> SUFFICES ASSUME ~disturbed
               PROVE  Len(requests) = 1
                      /\ (requests[i].stage = "videos" => requests[i].name = searchData)
    OBVIOUS
  <2>1. /\ Len(requests) = 1
        /\ requests[1].stage = "videos" => requests[1].name = searchData
    BY <1>3 DEF ResultInv, OneSearch
  <2>2. QED
    BY <1>3, <2>1
<1>6. CASE Found(i)
  <2> DEFINE next == Next2(searchData')
  <2>1. next \in RequestRec /\ searchData' # NoName
    BY <1>0, <1>4, <1>6 DEF RequestRec
  <2>2. requests' = Append(rest, next)
    BY <1>6 DEF rest
  <2>3. \E k \in DOMAIN requests' : requests'[k] = next
    <3> HIDE DEF next
    <3>1. QED
      BY <1>2, <2>1, <2>2, AppendFacts
  <2>4. NoEmptyAdd' /\ ChannelSkewIsBounded'
    BY <2>1, <2>3 DEF NoEmptyAdd, ChannelSkewIsBounded
  <2>5. requests' # <<>>
    BY <2>3
  <2>6. OneSearch'
    <3> SUFFICES ASSUME ~disturbed
                 PROVE  /\ Len(requests') = 1
                        /\ requests'[1].stage = "videos" => requests'[1].name = searchData'
      BY <1>6, Zenon DEF OneSearch
    <3>1. requests' = <<next>>
      BY <1>3, <1>5, <2>2
    <3>2. QED
      BY <3>1
  <2>7. SettledSearchAgrees'
    BY <2>5 DEF SettledSearchAgrees
  <2>8. QED
    BY <2>4, <2>6, <2>7 DEF ResultInv
<1>7. CASE Nobody(i)
  <2>1. requests' = rest /\ dirty' /\ searchData' = NoName /\ videoData' = NoName
        /\ disturbed' = disturbed
    BY <1>7 DEF rest
  <2>2. ~disturbed => rest = <<>>
    BY <1>3, <1>5
  <2>3. QED
    BY <2>1, <2>2, Zenon
    DEF ResultInv, NoEmptyAdd, ChannelSkewIsBounded, OneSearch, SettledSearchAgrees
<1>8. CASE Lost(i) \/ NoVideos(i)
  <2>1. /\ requests' = rest /\ disturbed' = TRUE
        /\ searchData' = searchData /\ dirty' = dirty
        /\ \/ requests[i].stage = "streamer" /\ failed' = failed
           \/ failed' = failed \cup {requests[i].name}
    BY <1>8 DEF rest
  <2>2. OneSearch' /\ SettledSearchAgrees'
    BY <2>1, Zenon DEF OneSearch, SettledSearchAgrees
  <2>3. NoEmptyAdd'
    BY <1>0, <2>1, Zenon DEF ResultInv, NoEmptyAdd
  <2>4. ChannelSkewIsBounded'
    <3> SUFFICES ASSUME ~dirty, channel # searchData
                 PROVE  \/ searchData \in failed'
                        \/ \E k \in DOMAIN rest : rest[k] = Next2(searchData)
      BY <1>0, <2>1, Zenon DEF ChannelSkewIsBounded
    <3>1. searchData \in failed
          \/ \E j \in DOMAIN requests : requests[j] = Next2(searchData)
      BY Zenon DEF ResultInv, ChannelSkewIsBounded
    <3>2. CASE searchData \in failed
      BY <2>1, <3>2
    <3>3. CASE \E j \in DOMAIN requests : requests[j] = Next2(searchData)
      <4>1. PICK j \in DOMAIN requests : requests[j] = Next2(searchData)
        BY <3>3
      <4>2. CASE j = i
        <5>1. requests[i].stage = "videos" /\ requests[i].name = searchData
          BY <4>1, <4>2
        <5>2. QED
          BY <2>1, <5>1
      <4>3. CASE j # i
        BY <1>2, <4>1, <4>3
      <4>4. QED
        BY <4>2, <4>3
    <3>4. QED
      BY <3>1, <3>2, <3>3
  <2>5. QED
    BY <2>2, <2>3, <2>4 DEF ResultInv
<1>9. CASE Videos(i)
  <2>1. requests' = rest /\ dirty' /\ searchData' = searchData /\ noResult' = FALSE
        /\ videoData' = requests[i].name /\ disturbed' = disturbed
    BY <1>9 DEF rest
  <2>2. ~disturbed => rest = <<>> /\ requests[i].name = searchData
    BY <1>3, <1>5, <1>9
  <2>3. QED
    BY <2>1, <2>2, Zenon
    DEF ResultInv, NoEmptyAdd, ChannelSkewIsBounded, OneSearch, SettledSearchAgrees
<1>10. QED
  BY <1>1, <1>6, <1>7, <1>8, <1>9

\* Every other step.
LEMMA ResultInvStep ==
  ASSUME TypeInv, ResultInv, [Next]_vars
  PROVE  ResultInv'
<1>0. requests \in Seq(RequestRec)
  BY TypeParts DEF TypeInv, ResultTypes
<1>1. CASE StreamerReply \/ VideosReply
  BY <1>1, ReplyKeepsResults
<1>2. CASE viewDidLoad \/ popScreen \/ Relaunch
  <2>1. FreshScreen
    BY <1>2 DEF viewDidLoad, popScreen, Relaunch
  <2>2. /\ requests' = <<>> /\ searchData' = NoName /\ videoData' = NoName
        /\ channel' = NoName /\ dirty' = FALSE /\ noResult' = FALSE
    BY <2>1 DEF FreshScreen
  <2>3. QED
    BY <2>2, Zenon
    DEF ResultInv, NoEmptyAdd, ChannelSkewIsBounded, OneSearch, SettledSearchAgrees
<1>3. CASE textFieldShouldReturn
  <2>1. UNCHANGED <<searchData, videoData, channel, dirty, noResult, failed>>
    BY <1>3 DEF textFieldShouldReturn
  <2>2. CASE UNCHANGED <<requests, disturbed>>
    BY <2>1, <2>2
    DEF ResultInv, NoEmptyAdd, ChannelSkewIsBounded, OneSearch, SettledSearchAgrees
  <2>3. CASE \E n \in Names :
                /\ requests' = Append(requests, [stage |-> "streamer", name |-> n])
                /\ disturbed' = (requests # <<>>)
    <3>1. PICK n \in Names :
            /\ requests' = Append(requests, [stage |-> "streamer", name |-> n])
            /\ disturbed' = (requests # <<>>)
      BY <2>3
    <3> DEFINE r == [stage |-> "streamer", name |-> n]
    <3>2. r \in RequestRec /\ r.stage # "videos"
      BY DEF RequestRec
    <3>3. /\ \E k \in DOMAIN requests' : requests'[k] = r
          /\ \A j \in DOMAIN requests : \E k \in DOMAIN requests' : requests'[k] = requests[j]
      <4>1. requests' = Append(requests, r)
        BY <3>1
      <4> HIDE DEF r
      <4>2. QED
        BY <1>0, <3>2, <4>1, AppendFacts
    <3>4. requests' # <<>>
      BY <3>3
    <3>5. OneSearch'
      <4> SUFFICES ASSUME ~disturbed'
                   PROVE  Len(requests') = 1 /\ requests'[1].stage # "videos"
        BY Zenon DEF OneSearch
      <4>1. requests = <<>>
        BY <3>1, Zenon
      <4>2. requests' = <<r>>
        BY <3>1, <4>1
      <4>3. QED
        BY <3>2, <4>2
    <3>6. NoEmptyAdd'
      BY <2>1 DEF ResultInv, NoEmptyAdd
    <3>7. ChannelSkewIsBounded'
      <4> SUFFICES ASSUME ~dirty, channel # searchData
                   PROVE  \/ searchData \in failed
                          \/ \E k \in DOMAIN requests' :
                               requests'[k] = [stage |-> "videos", name |-> searchData]
        BY <2>1 DEF ChannelSkewIsBounded
      <4>1. CASE searchData \in failed
        BY <4>1
      <4>2. CASE \E j \in DOMAIN requests :
                   requests[j] = [stage |-> "videos", name |-> searchData]
        BY <3>3, <4>2
      <4>3. QED
        BY <4>1, <4>2 DEF ResultInv, ChannelSkewIsBounded
    <3>8. SettledSearchAgrees'
      BY <3>4 DEF SettledSearchAgrees
    <3>9. QED
      BY <3>5, <3>6, <3>7, <3>8 DEF ResultInv
  <2>4. QED
    BY <1>3, <2>2, <2>3 DEF textFieldShouldReturn
<1>4. CASE cellForItemAt
  <2>1. /\ channel' = searchData /\ dirty' = FALSE
        /\ UNCHANGED <<requests, searchData, videoData, noResult, failed, disturbed>>
    BY <1>4 DEF cellForItemAt
  <2>2. QED
    BY <2>1 DEF ResultInv, NoEmptyAdd, ChannelSkewIsBounded, OneSearch, SettledSearchAgrees
<1>5. CASE \/ changeTab \/ LogOutOrIn \/ ListDeletes \/ didSelectItemAt \/ dismissAlert
           \/ addDatabase \/ FollowRead \/ FollowWritten \/ NodeGoesOn
           \/ UNCHANGED vars
  <2>1. UNCHANGED resultVars
    BY <1>5
    DEF changeTab, LogOutOrIn, ListDeletes, didSelectItemAt, dismissAlert, addDatabase,
        FollowRead, FollowWritten, NodeGoesOn, searchVars, vars
  <2>2. QED
    BY <2>1
    DEF resultVars, ResultInv, NoEmptyAdd, ChannelSkewIsBounded, OneSearch,
        SettledSearchAgrees
<1>6. QED
  BY <1>1, <1>2, <1>3, <1>4, <1>5 DEF Next

LEMMA SearchResultInv == Spec => []ResultInv
<1>1. Init => ResultInv
  BY Zenon
  DEF Init, ResultInv, NoEmptyAdd, ChannelSkewIsBounded, OneSearch, SettledSearchAgrees
<1>2. TypeInv /\ ResultInv /\ [Next]_vars => ResultInv'
  BY ResultInvStep
<1>3. QED
  BY <1>1, <1>2, SearchTypeInv, PTL DEF Spec

\* The add button of a cell that can be touched never reads an empty searchData,
\* however many searches overlap.
THEOREM EmptyAddIsImpossible == Spec => []NoEmptyAdd
<1>1. ResultInv => NoEmptyAdd
  BY DEF ResultInv
<1>2. QED
  BY <1>1, SearchResultInv, PTL

\* The channel cell names another streamer than the add button follows only
\* while videos are awaited, or after they failed.
THEOREM SkewIsBounded == Spec => []ChannelSkewIsBounded
<1>1. ResultInv => ChannelSkewIsBounded
  BY DEF ResultInv
<1>2. QED
  BY <1>1, SearchResultInv, PTL

\* What an undisturbed search leaves on the screen agrees with itself.
THEOREM SettledSearchesAgree == Spec => []SettledSearchAgrees
<1>1. ResultInv => SettledSearchAgrees
  BY DEF ResultInv
<1>2. QED
  BY <1>1, SearchResultInv, PTL

-----------------------------------------------------------------------------
(* Following.                                                              *)

\* The screen cannot outlive the session, its blocks can: only they trap or
\* write to another account's node.
THEOREM ShownScreensOwnFollows == Spec => ShownFollowsAreOwned
<1>1. ASSUME TypeInv, NoEmptyAdd, [Next]_vars,
             (app' = "trapped" /\ app = "running") \/ elsewhere' # elsewhere
      PROVE  mainQueue # <<>> /\ ~InForce(Head(mainQueue).c)
  <2>1. OpenScreens
    BY <1>1 DEF TypeInv
  <2>2. CASE FollowRead
    <3>1. mainQueue # <<>>
      BY <2>2 DEF FollowRead, Dispatch
    <3>2. user # "owner"
      BY <1>1, <2>2 DEF FollowRead, WriteStreamer
    <3>3. QED
      BY <2>1, <3>1, <3>2 DEF OpenScreens, InForce
  <2>3. CASE addDatabase
    <3>1. searchData # NoName
      BY <2>3, <1>1 DEF addDatabase, Touchable, NoEmptyAdd
    <3>2. QED
      BY <1>1, <2>3, <3>1 DEF addDatabase
  <2>4. CASE Relaunch
    BY <1>1, <2>4 DEF Relaunch
  <2>5. CASE \/ viewDidLoad \/ popScreen \/ changeTab \/ LogOutOrIn \/ ListDeletes
             \/ textFieldShouldReturn \/ StreamerReply \/ VideosReply \/ cellForItemAt
             \/ didSelectItemAt \/ dismissAlert \/ FollowWritten \/ NodeGoesOn
             \/ UNCHANGED vars
    <3>1. UNCHANGED <<app, elsewhere>>
      BY <2>5
      DEF viewDidLoad, popScreen, changeTab, LogOutOrIn, ListDeletes, sessionVars,
          textFieldShouldReturn, StreamerReply, VideosReply, cellForItemAt,
          didSelectItemAt, dismissAlert, FollowWritten, NodeGoesOn, searchVars, vars
    <3>2. QED
      BY <1>1, <3>1
  <2>6. QED
    BY <1>1, <2>2, <2>3, <2>4, <2>5 DEF Next
<1>2. TypeInv /\ NoEmptyAdd /\ [Next]_vars
        => [(app' = "trapped" /\ app = "running") \/ elsewhere' # elsewhere
              => mainQueue # <<>> /\ ~InForce(Head(mainQueue).c)]_vars
  BY <1>1, Zenon
<1>3. QED
  BY <1>2, SearchTypeInv, EmptyAddIsImpossible, PTL DEF Spec, ShownFollowsAreOwned

\* The error alert comes first and the second alert is not presented over it.
THEOREM RefusalsAreReported == Spec => RefusalNotReportedAsSuccess
<1>1. FollowWritten /\ ~Head(mainQueue).ok /\ alert' # alert => alert' = "FollowError"
  <2> SUFFICES ASSUME FollowWritten, ~Head(mainQueue).ok, alert' # alert
               PROVE  alert' = "FollowError"
    OBVIOUS
  <2>1. alert' = Present("FollowSuccess", Present("FollowError", alert))
    BY Zenon DEF FollowWritten
  <2>2. QED
    BY <2>1 DEF Present
<1>2. QED
  BY <1>1, PTL DEF RefusalNotReportedAsSuccess

-----------------------------------------------------------------------------
(* What the blocks of the follows may still do.                            *)

\* What a queue holds before and after one item is taken or put.
LEMMA TailRange ==
  ASSUME NEW S, NEW s \in Seq(S), s # <<>>
  PROVE  Range(s) = {Head(s)} \cup Range(Tail(s))
<1>1. /\ Len(s) \in Nat \ {0} /\ DOMAIN s = 1 .. Len(s)
      /\ Tail(s) \in Seq(S) /\ Len(Tail(s)) = Len(s) - 1
      /\ \A j \in 1 .. Len(s) - 1 : Tail(s)[j] = s[j + 1]
      /\ Head(s) = s[1]
  BY HeadTailProperties, LenProperties, EmptySeq
<1>2. DOMAIN Tail(s) = 1 .. Len(s) - 1
  BY <1>1, LenProperties
<1>3. \A i \in 1 .. Len(s) : i = 1 \/ (i - 1 \in 1 .. Len(s) - 1 /\ (i - 1) + 1 = i)
  BY <1>1
<1>4. 1 \in 1 .. Len(s) /\ \A j \in 1 .. Len(s) - 1 : j + 1 \in 1 .. Len(s)
  BY <1>1
<1>5. Range(s) \subseteq {Head(s)} \cup Range(Tail(s))
  <2> SUFFICES ASSUME NEW i \in 1 .. Len(s)
               PROVE  s[i] = Head(s) \/ s[i] \in Range(Tail(s))
    BY <1>1 DEF Range
  <2>1. CASE i = 1
    BY <1>1, <2>1
  <2>2. CASE i # 1
    <3>1. i - 1 \in 1 .. Len(s) - 1 /\ Tail(s)[i - 1] = s[i]
      BY <1>1, <1>3, <2>2
    <3>2. QED
      BY <1>2, <3>1 DEF Range
  <2>3. QED
    BY <2>1, <2>2
<1>6. {Head(s)} \cup Range(Tail(s)) \subseteq Range(s)
  BY <1>1, <1>2, <1>4 DEF Range
<1>7. QED
  BY <1>5, <1>6

LEMMA AppendRange ==
  ASSUME NEW S, NEW s \in Seq(S), NEW x \in S
  PROVE  Range(Append(s, x)) = Range(s) \cup {x}
<1>1. /\ Len(s) \in Nat /\ DOMAIN s = 1 .. Len(s)
      /\ DOMAIN Append(s, x) = 1 .. Len(s) + 1
      /\ Append(s, x)[Len(s) + 1] = x
      /\ \A j \in 1 .. Len(s) : Append(s, x)[j] = s[j]
  BY AppendProperties, LenProperties
<1>2. 1 .. Len(s) + 1 = (1 .. Len(s)) \cup {Len(s) + 1}
  BY <1>1
<1>3. QED
  BY <1>1, <1>2 DEF Range

\* The blocks of reads, waiting or answered, are of this visit or an earlier one.
PastVisits ==
  /\ \A c \in Range(reads) : c.visit <= visit
  /\ \A m \in Range(mainQueue) : m.type = "value" => m.c.visit <= visit

\* A snapshot the screen will look at does not hold a streamer this client has
\* deleted: nothing is deleted while the screen is open.
FreshOverlaps ==
  \A m \in Range(mainQueue) :
    m.type = "value" /\ InForce(m.c) /\ m.c.name \in m.names
      => intent[m.c.name] # "remove"

\* SpinnerNeedsRead, of the members of the queues.
SpinnerHasRead ==
  spinner /\ ~nilAnswer =>
    \/ \E c \in Range(reads) : c.by = "addDatabase" /\ InForce(c)
    \/ \E m \in Range(mainQueue) : m.type = "value" /\ InForce(m.c)

\* The node's invariant under the screens' use of it.
LEMMA ScreenNodeInv ==
  ASSUME TypeInv, NodeInv, [Next]_vars
  PROVE  NodeInv'
<1>0. NodeTypeOK'
  BY ScreenNodeStep
<1>1. CASE ListDeletes
  <2>1. PICK n \in Names : Write("remove", n, NoCallback)
    BY <1>1 DEF ListDeletes
  <2>2. "remove" \in Ops /\ UNCHANGED server
    BY <1>1 DEF ListDeletes, Ops
  <2>3. QED
    BY <1>0, <2>1, <2>2, WriteKeepsInv
<1>2. CASE FollowRead
  <2> DEFINE c == Head(mainQueue).c
  <2>1. UNCHANGED server /\ mainQueue # <<>>
    BY <1>2 DEF FollowRead, Dispatch
  <2>2. UNCHANGED <<pend, intent>> \/ Write("add", c.name, AddWrite(c.name, c.visit))
    BY <1>2 DEF FollowRead, WriteStreamer
  <2>3. c.name \in Names
    <3>1. mainQueue \in Seq(MainItem)
      BY DEF NodeInv, NodeTypeOK
    <3>2. Head(mainQueue) \in MainItem
      BY <2>1, <3>1, HeadTailProperties
    <3>3. c \in Callbacks
      BY <3>2 DEF MainItem
    <3>4. QED
      BY <3>3, BlockTyping
  <2>4. "add" \in Ops
    BY DEF Ops
  <2> HIDE DEF c
  <2>5. CASE UNCHANGED <<pend, intent>>
    BY <1>0, <2>1, <2>5, QuietKeepsInv
  <2>6. CASE Write("add", c.name, AddWrite(c.name, c.visit))
    BY <1>0, <2>1, <2>3, <2>4, <2>6, WriteKeepsInv
  <2>7. QED
    BY <2>2, <2>5, <2>6
<1>3. CASE Relaunch
  BY <1>0, <1>3, ClientLostKeepsInv DEF Relaunch
<1>4. CASE NodeGoesOn
  BY <1>4, NodeStepKeepsInv DEF NodeGoesOn
<1>5. CASE \/ viewDidLoad \/ popScreen \/ changeTab \/ LogOutOrIn
           \/ textFieldShouldReturn \/ StreamerReply \/ VideosReply \/ cellForItemAt
           \/ didSelectItemAt \/ dismissAlert \/ addDatabase \/ FollowWritten
           \/ UNCHANGED vars
  <2>1. UNCHANGED <<server, pend, intent>>
    BY <1>5
    DEF viewDidLoad, popScreen, changeTab, LogOutOrIn, textFieldShouldReturn,
        StreamerReply, VideosReply, cellForItemAt, didSelectItemAt, dismissAlert,
        addDatabase, FollowWritten, nodeVars, vars
  <2>2. QED
    BY <1>0, <2>1, QuietKeepsInv
<1>6. QED
  BY <1>1, <1>2, <1>3, <1>4, <1>5 DEF Next

ReadInv == PastVisits /\ FreshOverlaps /\ SpinnerHasRead

\* The client's own steps: a snapshot is raised, or the completion of a write.
LEMMA NodeStepKeepsReads ==
  ASSUME NodeInv, ReadInv, NodeStep, UNCHANGED <<visit, screen, spinner, nilAnswer>>
  PROVE  ReadInv'
<1>0. /\ reads \in Seq(Callbacks) /\ mainQueue \in Seq(MainItem) /\ pend \in Seq(WriteRec)
      /\ intent \in [Names -> Ops \cup {"none"}]
      /\ \A c : InForce(c)' <=> InForce(c)
  BY DEF NodeInv, NodeTypeOK, InForce
<1>1. CASE RaiseValue
  <2> DEFINE c == Head(reads)
             m == Value(c, Overlay(server, pend))
  <2>1. /\ reads # <<>> /\ reads' = Tail(reads) /\ mainQueue' = Append(mainQueue, m)
        /\ UNCHANGED <<server, pend, intent>>
    BY <1>1 DEF RaiseValue
  <2>2. c \in Callbacks
    BY <1>0, <2>1, HeadTailProperties
  <2>3. /\ m \in MainItem /\ m.type = "value" /\ m.c = c
        /\ m.names = Overlay(server, pend)
    BY <2>2 DEF Value, MainItem, Overlay
  <2>4. c.name \in Names
    BY <2>2, BlockTyping
  <2>5. c.name \in Overlay(server, pend) => intent[c.name] # "remove"
    BY <2>4, InvReadsOwnWrites DEF ReadYourWrites
  <2> HIDE DEF m, c
  <2>6. Range(reads) = {c} \cup Range(reads')
    BY <1>0, <2>1, TailRange DEF c
  <2>7. Range(mainQueue') = Range(mainQueue) \cup {m}
    BY <1>0, <2>1, <2>3, AppendRange
  <2>8. PastVisits'
    BY <2>3, <2>6, <2>7 DEF ReadInv, PastVisits
  <2>9. FreshOverlaps'
    BY <1>0, <2>1, <2>3, <2>5, <2>7 DEF ReadInv, FreshOverlaps
  <2>10. SpinnerHasRead'
    <3> SUFFICES ASSUME spinner, ~nilAnswer
                 PROVE  \/ \E d \in Range(reads') : d.by = "addDatabase" /\ InForce(d)
                        \/ \E i \in Range(mainQueue') : i.type = "value" /\ InForce(i.c)
      BY <1>0, Zenon DEF SpinnerHasRead
    <3>1. \/ \E d \in Range(reads) : d.by = "addDatabase" /\ InForce(d)
          \/ \E i \in Range(mainQueue) : i.type = "value" /\ InForce(i.c)
      BY Zenon DEF ReadInv, SpinnerHasRead
    <3>2. QED
      BY <2>3, <2>6, <2>7, <3>1
  <2>11. QED
    BY <2>8, <2>9, <2>10 DEF ReadInv
<1>2. CASE ServerApply \/ AckWrite \/ RefuseWrite \/ ConnectionLost \/ OtherDevice
  <2>1. reads' = reads
        /\ \/ intent' = intent
           \/ \E n \in Names : intent' = [intent EXCEPT ![n] = "none"]
    <3>1. CASE RefuseWrite
      <4>1. reads' = reads /\ intent' = [intent EXCEPT ![Head(pend).name] = "none"]
            /\ pend # <<>>
        BY <3>1 DEF RefuseWrite, Answered
      <4>2. Head(pend) \in WriteRec
        BY <1>0, <4>1, HeadTailProperties
      <4>3. Head(pend).name \in Names
        BY <4>2 DEF WriteRec
      <4>4. QED
        BY <4>1, <4>3
    <3>2. CASE ServerApply \/ AckWrite \/ ConnectionLost \/ OtherDevice
      BY <3>2 DEF ServerApply, AckWrite, ConnectionLost, OtherDevice
    <3>3. QED
      BY <1>2, <3>1, <3>2
  <2>2. \A n \in Names : intent'[n] = "remove" => intent[n] = "remove"
    BY <1>0, <2>1
  <2>3. mainQueue' = mainQueue
        \/ \E ok \in BOOLEAN : /\ pend # <<>> /\ Head(pend).done # NoCallback
                               /\ mainQueue' = Append(mainQueue, Ack(Head(pend).done, ok))
    BY <1>2 DEF ServerApply, AckWrite, RefuseWrite, ConnectionLost, OtherDevice, Answered
  <2>4. /\ Range(mainQueue) \subseteq Range(mainQueue')
        /\ \A m \in Range(mainQueue') : m \in Range(mainQueue) \/ m.type = "ack"
    <3>1. CASE mainQueue' = mainQueue
      BY <3>1
    <3>2. CASE \E ok \in BOOLEAN :
                 /\ pend # <<>> /\ Head(pend).done # NoCallback
                 /\ mainQueue' = Append(mainQueue, Ack(Head(pend).done, ok))
      <4>1. PICK ok \in BOOLEAN :
              /\ pend # <<>> /\ Head(pend).done # NoCallback
              /\ mainQueue' = Append(mainQueue, Ack(Head(pend).done, ok))
        BY <3>2
      <4>2. Head(pend) \in WriteRec
        BY <1>0, <4>1, HeadTailProperties
      <4>3. Ack(Head(pend).done, ok) \in MainItem /\ Ack(Head(pend).done, ok).type = "ack"
        BY <4>1, <4>2 DEF WriteRec, Ack, MainItem
      <4>4. Range(mainQueue') = Range(mainQueue) \cup {Ack(Head(pend).done, ok)}
        BY <1>0, <4>1, <4>3, AppendRange
      <4>5. QED
        BY <4>3, <4>4
    <3>3. QED
      BY <2>3, <3>1, <3>2
  <2>5. \A m \in Range(mainQueue) : m.c.name \in Names
    <3>1. Range(mainQueue) \subseteq MainItem
      BY <1>0 DEF Range
    <3>2. QED
      BY <3>1, BlockTyping DEF MainItem
  <2>6. PastVisits'
    BY <2>1, <2>4 DEF ReadInv, PastVisits
  <2>7. FreshOverlaps'
    BY <1>0, <2>2, <2>4, <2>5 DEF ReadInv, FreshOverlaps
  <2>8. SpinnerHasRead'
    <3> SUFFICES ASSUME spinner, ~nilAnswer
                 PROVE  \/ \E d \in Range(reads') : d.by = "addDatabase" /\ InForce(d)
                        \/ \E i \in Range(mainQueue') : i.type = "value" /\ InForce(i.c)
      BY <1>0, Zenon DEF SpinnerHasRead
    <3>1. \/ \E d \in Range(reads) : d.by = "addDatabase" /\ InForce(d)
          \/ \E i \in Range(mainQueue) : i.type = "value" /\ InForce(i.c)
      BY Zenon DEF ReadInv, SpinnerHasRead
    <3>2. QED
      BY <2>1, <2>4, <3>1
  <2>9. QED
    BY <2>6, <2>7, <2>8 DEF ReadInv
<1>3. QED
  BY <1>1, <1>2 DEF NodeStep

\* The steps of the screen.
LEMMA ScreenStepKeepsReads ==
  ASSUME TypeInv, NodeInv, ReadInv, [Next]_vars
  PROVE  ReadInv'
<1>0. /\ reads \in Seq(Callbacks) /\ mainQueue \in Seq(MainItem)
      /\ intent \in [Names -> Ops \cup {"none"}]
      /\ visit \in 0 .. MaxVisits /\ MaxVisits \in Nat
      /\ PastVisits /\ FreshOverlaps /\ SpinnerHasRead
      /\ Range(mainQueue) \subseteq MainItem /\ Range(reads) \subseteq Callbacks
  BY TypeParts, SearchBoundAssumption DEF NodeInv, NodeTypeOK, TypeInv, VisitTypes, ReadInv, Range
<1>1. CASE NodeGoesOn
  <2>1. UNCHANGED <<visit, screen, spinner, nilAnswer>>
    BY <1>1 DEF NodeGoesOn, searchVars, sessionVars, followVars
  <2>2. QED
    BY <1>1, <2>1, NodeStepKeepsReads DEF NodeGoesOn
<1>2. CASE viewDidLoad
  <2>1. /\ UNCHANGED <<reads, mainQueue, intent>> /\ visit' = visit + 1
        /\ spinner' = FALSE
    BY <1>2 DEF viewDidLoad, nodeVars, FreshScreen
  <2>2. PastVisits'
    <3>1. visit <= visit + 1 /\ \A v \in 1 .. MaxVisits : v <= visit => v <= visit + 1
      BY <1>0
    <3>2. \A c \in Callbacks : c.visit \in 1 .. MaxVisits
      BY SearchCallbackAssumption DEF SearchCallbacks
    <3>3. \A m \in MainItem : m.c \in Callbacks
      BY DEF MainItem
    <3>4. QED
      BY <1>0, <2>1, <3>1, <3>2, <3>3 DEF PastVisits
  <2>3. FreshOverlaps'
    <3>1. \A m \in Range(mainQueue) : m.type = "value" => ~InForce(m.c)'
      BY <1>0, <2>1 DEF PastVisits, InForce
    <3>2. QED
      BY <2>1, <3>1 DEF FreshOverlaps
  <2>4. SpinnerHasRead'
    BY <2>1, Zenon DEF SpinnerHasRead
  <2>5. QED
    BY <2>2, <2>3, <2>4 DEF ReadInv
<1>3. CASE popScreen
  <2>1. UNCHANGED <<reads, mainQueue, intent, visit>> /\ screen' = "closed"
        /\ spinner' = FALSE
    BY <1>3 DEF popScreen, nodeVars, FreshScreen
  <2>2. \A c : ~InForce(c)'
    BY <2>1 DEF InForce
  <2>3. QED
    BY <1>0, <2>1, <2>2 DEF ReadInv, PastVisits, FreshOverlaps, SpinnerHasRead
<1>4. CASE Relaunch
  <2>1. reads' = <<>> /\ mainQueue' = <<>> /\ spinner' = FALSE
    BY <1>4 DEF Relaunch, ClientLost, FreshScreen
  <2>2. Range(reads') = {} /\ Range(mainQueue') = {}
    BY <2>1 DEF Range
  <2>3. QED
    BY <2>1, <2>2 DEF ReadInv, PastVisits, FreshOverlaps, SpinnerHasRead
<1>5. CASE ListDeletes
  <2>1. /\ UNCHANGED <<reads, mainQueue, visit, screen, spinner, nilAnswer>>
        /\ screen = "closed"
    BY <1>5 DEF ListDeletes, searchVars, sessionVars, followVars
  <2>2. \A c : ~InForce(c)' /\ ~InForce(c)
    BY <2>1 DEF InForce
  <2>3. QED
    BY <1>0, <2>1, <2>2 DEF ReadInv, PastVisits, FreshOverlaps, SpinnerHasRead
<1>6. CASE addDatabase
  <2> DEFINE r == AddRead(searchData, visit)
  <2>1. /\ UNCHANGED <<mainQueue, intent, visit, screen, nilAnswer>> /\ screen = "shown"
        /\ \/ UNCHANGED <<reads, spinner>>
           \/ searchData # NoName /\ spinner' = TRUE /\ reads' = Append(reads, r)
    BY <1>6 DEF addDatabase, Observe, Touchable
  <2>2. \A c : InForce(c)' <=> InForce(c)
    BY <2>1 DEF InForce
  <2>3. CASE UNCHANGED <<reads, spinner>>
    BY <1>0, <2>1, <2>2, <2>3 DEF ReadInv, PastVisits, FreshOverlaps, SpinnerHasRead
  <2>4. CASE searchData # NoName /\ spinner' = TRUE /\ reads' = Append(reads, r)
    <3>1. visit >= 1 /\ searchData \in Names
      BY <2>1, <2>4, TypeParts DEF TypeInv, OpenScreens, ResultTypes, People
    <3>2. r \in Callbacks
      BY <1>0, <3>1, SearchCallbackAssumption DEF AddRead, SearchCallbacks
    <3>3. r.visit = visit /\ r.by = "addDatabase" /\ InForce(r)
      BY <2>1 DEF AddRead, InForce
    <3> HIDE DEF r
    <3>4. Range(reads') = Range(reads) \cup {r}
      BY <1>0, <2>4, <3>2, AppendRange
    <3>5. visit <= visit
      BY <1>0
    <3>6. PastVisits'
      BY <1>0, <2>1, <3>3, <3>4, <3>5 DEF PastVisits
    <3>7. FreshOverlaps'
      BY <1>0, <2>1, <2>2 DEF FreshOverlaps
    <3>8. SpinnerHasRead'
      BY <2>2, <3>3, <3>4 DEF SpinnerHasRead
    <3>9. QED
      BY <3>6, <3>7, <3>8 DEF ReadInv
  <2>5. QED
    BY <2>1, <2>3, <2>4
<1>7. CASE FollowRead \/ FollowWritten
  <2> DEFINE item == Head(mainQueue)
  <2>1. /\ mainQueue # <<>> /\ mainQueue' = Tail(mainQueue)
        /\ UNCHANGED <<reads, visit, screen>>
    BY <1>7 DEF FollowRead, FollowWritten, Dispatch, sessionVars
  <2>2. Range(mainQueue) = {item} \cup Range(mainQueue')
    BY <1>0, <2>1, TailRange
  <2>3. item.c.name \in Names
    <3>1. item \in MainItem
      BY <1>0, <2>2
    <3>2. item.c \in Callbacks
      BY <3>1 DEF MainItem
    <3>3. QED
      BY <3>2, BlockTyping
  <2>4. \A c : InForce(c)' <=> InForce(c)
    BY <2>1 DEF InForce
  <2>5. intent' = intent \/ intent' = [intent EXCEPT ![item.c.name] = "add"]
    BY <1>7 DEF FollowRead, FollowWritten, WriteStreamer, Write
  <2>6. \A n \in Names : intent'[n] = "remove" => intent[n] = "remove"
    <3> HIDE DEF item
    <3>1. QED
      BY <1>0, <2>3, <2>5
  <2>7. PastVisits'
    BY <1>0, <2>1, <2>2 DEF PastVisits
  <2>8. FreshOverlaps'
    <3>1. \A m \in Range(mainQueue) : m.c.name \in Names
      <4>1. \A m \in Range(mainQueue) : m.c \in Callbacks
        BY <1>0 DEF MainItem
      <4>2. QED
        BY <4>1, BlockTyping
    <3>2. QED
      BY <1>0, <2>2, <2>4, <2>6, <3>1 DEF FreshOverlaps
  <2>9. SpinnerHasRead'
    <3>1. CASE FollowWritten
      <4>1. item.type = "ack" /\ UNCHANGED <<spinner, nilAnswer>>
        BY <3>1 DEF FollowWritten, followVars
      <4> HIDE DEF item
      <4>2. QED
        BY <1>0, <2>1, <2>2, <2>4, <4>1 DEF SpinnerHasRead
    <3>2. CASE FollowRead /\ InForce(item.c)
      <4>1. /\ spinner' = (spinner /\ ~(item.names # {}))
            /\ nilAnswer' = (item.names = {})
        BY <3>2, Zenon DEF FollowRead, Seen
      <4>2. ~(spinner' /\ ~nilAnswer')
        BY <4>1, Zenon
      <4>3. QED
        BY <4>2, Zenon DEF SpinnerHasRead
    <3>3. CASE FollowRead /\ ~InForce(item.c)
      <4>1. UNCHANGED <<spinner, nilAnswer>>
        BY <3>3 DEF FollowRead, Seen
      <4> HIDE DEF item
      <4>2. QED
        BY <1>0, <2>1, <2>2, <2>4, <3>3, <4>1 DEF SpinnerHasRead
    <3>4. QED
      BY <1>7, <3>1, <3>2, <3>3
  <2>10. QED
    BY <2>7, <2>8, <2>9 DEF ReadInv
<1>8. CASE changeTab
  <2>1. /\ UNCHANGED <<reads, mainQueue, intent, visit, spinner, nilAnswer>>
        /\ screen # "closed" <=> screen' # "closed"
    BY <1>8 DEF changeTab, nodeVars, followVars
  <2>2. \A c : InForce(c)' <=> InForce(c)
    BY <2>1 DEF InForce
  <2>3. QED
    BY <1>0, <2>1, <2>2 DEF ReadInv, PastVisits, FreshOverlaps, SpinnerHasRead
<1>9. CASE \/ LogOutOrIn \/ textFieldShouldReturn \/ StreamerReply \/ VideosReply
           \/ cellForItemAt \/ didSelectItemAt \/ dismissAlert \/ UNCHANGED vars
  <2>1. UNCHANGED <<reads, mainQueue, intent, visit, screen, spinner, nilAnswer>>
    BY <1>9
    DEF LogOutOrIn, textFieldShouldReturn, StreamerReply, VideosReply, cellForItemAt,
        didSelectItemAt, dismissAlert, nodeVars, sessionVars, followVars, searchVars, vars
  <2>2. \A c : InForce(c)' <=> InForce(c)
    BY <2>1 DEF InForce
  <2>3. QED
    BY <1>0, <2>1, <2>2 DEF ReadInv, PastVisits, FreshOverlaps, SpinnerHasRead
<1>10. QED
  BY <1>1, <1>2, <1>3, <1>4, <1>5, <1>6, <1>7, <1>8, <1>9 DEF Next

LEMMA SearchReadInv == Spec => [](NodeInv /\ ReadInv)
<1>1. Init => NodeInv /\ ReadInv
  <2> SUFFICES ASSUME Init PROVE NodeInv /\ ReadInv
    OBVIOUS
  <2>1. NodeInv
    BY NodeInitInv DEF Init
  <2>2. reads = <<>> /\ mainQueue = <<>> /\ spinner = FALSE
    BY DEF Init, NodeInit
  <2>3. Range(reads) = {} /\ Range(mainQueue) = {}
    BY <2>2 DEF Range
  <2>4. QED
    BY <2>1, <2>2, <2>3 DEF ReadInv, PastVisits, FreshOverlaps, SpinnerHasRead
<1>2. TypeInv /\ NodeInv /\ ReadInv /\ [Next]_vars => (NodeInv /\ ReadInv)'
  BY ScreenNodeInv, ScreenStepKeepsReads
<1>3. QED
  BY <1>1, <1>2, SearchTypeInv, PTL DEF Spec

\* The spinner turns only while its read is under way, or after a snapshot
\* without a dictionary.
THEOREM SpinnerHasItsRead == Spec => []SpinnerNeedsRead
<1>1. ReadInv => SpinnerNeedsRead
  BY DEF ReadInv, SpinnerHasRead, SpinnerNeedsRead, Range
<1>2. QED
  BY <1>1, SearchReadInv, PTL

\* "Already followed" is never said of a streamer this client has deleted: the
\* snapshot that says it was raised, and looked at, while the screen was open.
THEOREM OverlapsAreFresh == Spec => OverlapIsNotStale
<1>1. ASSUME TypeInv, ReadInv, [Next]_vars,
             alert' = "FollowOverlap", alert # "FollowOverlap"
      PROVE  intent[Head(mainQueue).c.name] # "remove"
  <2>1. FollowRead
    BY <1>1
    DEF Next, viewDidLoad, popScreen, changeTab, LogOutOrIn, ListDeletes, Present,
        textFieldShouldReturn, StreamerReply, VideosReply, cellForItemAt, searchVars,
        didSelectItemAt, dismissAlert, addDatabase, FollowWritten, Relaunch,
        NodeGoesOn, vars
  <2> DEFINE item == Head(mainQueue)
  <2>2. item.type = "value" /\ InForce(item.c) /\ item.c.name \in item.names
    BY <1>1, <2>1 DEF FollowRead, Seen
  <2>3. item \in Range(mainQueue)
    <3>1. mainQueue \in Seq(MainItem) /\ mainQueue # <<>>
      BY <1>1, <2>1 DEF TypeInv, TypeOK, NodeTypeOK, FollowRead, Dispatch
    <3>2. QED
      BY <3>1, TailRange
  <2>4. QED
    BY <1>1, <2>2, <2>3 DEF ReadInv, FreshOverlaps
<1>2. TypeInv /\ ReadInv /\ [Next]_vars
        => [alert' = "FollowOverlap" /\ alert # "FollowOverlap"
              => intent[Head(mainQueue).c.name] # "remove"]_vars
  BY <1>1, Zenon
<1>3. QED
  BY <1>2, SearchTypeInv, SearchReadInv, PTL DEF Spec, OverlapIsNotStale

=============================================================================
