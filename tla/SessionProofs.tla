---------------------------- MODULE SessionProofs ----------------------------
(***************************************************************************)
(* Proofs about who is signed in and which screens are up, for every set   *)
(* of addresses and passwords and any number of calls at a time.           *)
(***************************************************************************)
EXTENDS Session, SequenceTheorems, TLAPS

\* The root of the main screen comes from a launch: nothing is under way then.
MainRoot ==
  root = "main" =>
    currentUser # NoOne /\ modal = "none" /\ mains = 0
    /\ calls = <<>> /\ done = <<>> /\ signOuts = 0

\* While no calls overlapped, at most one thing is under way.
OneUnderway ==
  \/ calls = <<>> /\ done = <<>>
  \/ Len(calls) = 1 /\ done = <<>> /\ signOuts = 0
  \/ calls = <<>> /\ Len(done) = 1 /\ signOuts = 0

\* A main screen was pushed by the only call there was, for the user it signed in.
PushedMain ==
  mains > 0 => /\ currentUser # NoOne /\ modal = "none"
               /\ calls = <<>> /\ done = <<>> /\ signOuts = 0

\* The screen that made the call is still there.
CallersStay ==
  /\ \A i \in DOMAIN calls :
       calls[i].here /\ (calls[i].op = "createUser" => modal = "register")
                     /\ (calls[i].op = "signIn" => modal = "none")
  /\ \A i \in DOMAIN done :
       done[i].here /\ (done[i].op = "createUser" => modal = "register")
                    /\ (done[i].op = "signIn" => modal = "none")

\* Whether the completion that waits has signed somebody in.
SignedInUnseen == done # <<>> /\ Head(done).ok /\ Head(done).op # "sendPasswordReset"

\* Behind the login screen somebody is signed in exactly as long as a completion
\* or a dismissal has to follow, or nobody has been.
HiddenUser ==
  root = "login" /\ mains = 0 =>
    /\ SignedInUnseen => currentUser # NoOne
    /\ ~SignedInUnseen /\ signOuts = 0 => currentUser = NoOne

Quiet == OneUnderway /\ signOuts <= 1 /\ PushedMain /\ CallersStay /\ HiddenUser

SessionInv == MainRoot /\ (~overlap => Quiet)

-----------------------------------------------------------------------------
(* Types.                                                                  *)

\* Taking an answered call out of those under way leaves calls.
LEMMA RemoveTyping ==
  ASSUME NEW s \in Seq(Calls), NEW i \in DOMAIN s
  PROVE  RemoveAt(s, i) \in Seq(Calls) /\ s[i] \in Calls
<1>1. /\ Len(s) \in Nat /\ DOMAIN s = 1 .. Len(s)
      /\ s \in [1 .. Len(s) -> Calls]
  BY LenProperties
<1>2. SubSeq(s, 1, i - 1) \in Seq(Calls) /\ SubSeq(s, i + 1, Len(s)) \in Seq(Calls)
  BY <1>1
<1>3. QED
  BY <1>1, <1>2, ConcatProperties DEF RemoveAt

\* Leaving screens marks calls and completions and changes nothing else of them.
LEMMA LeaveTyping ==
  ASSUME calls \in Seq(Calls), done \in Seq(Completions), NEW ops, LeaveScreens(ops)
  PROVE  /\ calls' \in Seq(Calls) /\ done' \in Seq(Completions)
         /\ calls = <<>> => calls' = <<>>
         /\ done = <<>> => done' = <<>>
<1>1. /\ Len(calls) \in Nat /\ calls \in [1 .. Len(calls) -> Calls]
      /\ Len(done) \in Nat /\ done \in [1 .. Len(done) -> Completions]
  BY LenProperties
<1>2. \A c \in Calls : \A b \in BOOLEAN : [c EXCEPT !.here = b] \in Calls
  BY DEF Calls
<1>3. \A c \in Completions : \A b \in BOOLEAN : [c EXCEPT !.here = b] \in Completions
  BY DEF Completions
<1>4. \A i \in 1 .. Len(calls) :
        [calls[i] EXCEPT !.here = calls[i].here /\ calls[i].op \notin ops] \in Calls
  <2>1. \A i \in 1 .. Len(calls) : (calls[i].here /\ calls[i].op \notin ops) \in BOOLEAN
    BY Zenon
  <2>2. QED
    BY <1>1, <1>2, <2>1
<1>5. \A i \in 1 .. Len(done) :
        [done[i] EXCEPT !.here = done[i].here /\ done[i].op \notin ops] \in Completions
  <2>1. \A i \in 1 .. Len(done) : (done[i].here /\ done[i].op \notin ops) \in BOOLEAN
    BY Zenon
  <2>2. QED
    BY <1>1, <1>3, <2>1
<1>6. calls' \in [1 .. Len(calls) -> Calls] /\ done' \in [1 .. Len(done) -> Completions]
  BY <1>1, <1>4, <1>5 DEF LeaveScreens, Left
<1>7. calls' \in Seq(Calls)
  BY <1>1, <1>6
<1>8. done' \in Seq(Completions)
  BY <1>1, <1>6
<1>9. (calls = <<>> => calls' = <<>>) /\ (done = <<>> => done' = <<>>)
  BY <1>1, <1>6, <1>7, <1>8
<1>10. QED
  BY <1>7, <1>8, <1>9

\* An answer to a call and the completion made of it have their types.
LEMMA AnswerTyping ==
  ASSUME TypeOK, AuthAnswers
  PROVE  TypeOK'
<1>1. PICK i \in DOMAIN calls, ok \in BOOLEAN :
        /\ calls' = RemoveAt(calls, i)
        /\ done' = Append(done, Completion(calls[i], ok))
        /\ \/ UNCHANGED accounts
           \/ accounts' = accounts \cup {calls[i].email}
        /\ currentUser' = calls[i].email \/ currentUser' = currentUser
  BY DEF AuthAnswers
<1>2. calls' \in Seq(Calls) /\ calls[i] \in Calls
  BY <1>1, RemoveTyping DEF TypeOK
<1>3. Completion(calls[i], ok) \in Completions /\ calls[i].email \in Emails
  BY <1>2 DEF Completion, Calls, Completions
<1>4. done' \in Seq(Completions)
  BY <1>1, <1>3, AppendProperties DEF TypeOK
<1>5. accounts' \subseteq Emails /\ currentUser' \in Emails \cup {NoOne}
  BY <1>1, <1>3 DEF TypeOK
<1>6. UNCHANGED <<app, root, mains, modal, alert, signOuts, labels, overlap>>
  BY DEF AuthAnswers
<1>7. QED
  BY <1>2, <1>4, <1>5, <1>6 DEF TypeOK

LEMMA CallTyping ==
  ASSUME TypeOK, NEW op \in Ops, NEW e \in Emails, Call(op, e)
  PROVE  calls' \in Seq(Calls) /\ overlap' \in BOOLEAN
<1>1. [op |-> op, email |-> e, here |-> TRUE] \in Calls
  BY DEF Calls
<1>2. calls' \in Seq(Calls)
  BY <1>1, AppendProperties DEF Call, TypeOK
<1>3. overlap' \in BOOLEAN
  BY Zenon DEF Call, Overlapping
<1>4. QED
  BY <1>2, <1>3

\* Every variable keeps its type.
THEOREM SessionTyping == Spec => []TypeOK
<1>1. Init => TypeOK
  <2> SUFFICES ASSUME Init PROVE TypeOK
    OBVIOUS
  <2>1. /\ app = "running" /\ accounts \subseteq Emails
        /\ currentUser \in Emails \cup {NoOne} /\ root \in {"login", "main"}
        /\ mains = 0 /\ modal = "none" /\ alert = "none" /\ signOuts = 0
        /\ labels = {} /\ calls = <<>> /\ done = <<>>
    BY DEF Init, Launched
  <2>2. overlap \in BOOLEAN
    BY Zenon DEF Init
  <2>3. QED
    BY <2>1, <2>2 DEF TypeOK
<1>2. TypeOK /\ [Next]_vars => TypeOK'
  <2> SUFFICES ASSUME TypeOK, [Next]_vars PROVE TypeOK'
    OBVIOUS
  <2>1. CASE AuthAnswers
    BY <2>1, AnswerTyping
  <2>2. CASE loginBtn \/ submitEmail
    <3>1. PICK e \in Emails : Call("signIn", e) \/ Call("sendPasswordReset", e)
      BY <2>2 DEF loginBtn, submitEmail
    <3>2. calls' \in Seq(Calls) /\ overlap' \in BOOLEAN
      BY <3>1, CallTyping DEF Ops
    <3>3. UNCHANGED <<app, accounts, currentUser, done, root, mains, modal, alert,
                      signOuts, labels>>
      BY <2>2 DEF loginBtn, submitEmail
    <3>4. QED
      BY <3>2, <3>3 DEF TypeOK
  <2>3. CASE finishBtn
    <3>1. PICK e \in Emails \cup {Malformed} :
            \/ e \in Emails /\ Call("createUser", e) /\ UNCHANGED labels
            \/ labels' = {"email", "password"} /\ UNCHANGED <<calls, overlap>>
      BY <2>3 DEF finishBtn, Inputs, emailRegex
    <3>2. calls' \in Seq(Calls) /\ overlap' \in BOOLEAN
      BY <3>1, CallTyping DEF Ops, TypeOK
    <3>3. labels' \subseteq {"email", "password"}
      BY <3>1 DEF TypeOK
    <3>4. UNCHANGED <<app, accounts, currentUser, done, root, mains, modal, alert,
                      signOuts>>
      BY <2>3 DEF finishBtn
    <3>5. QED
      BY <3>2, <3>3, <3>4 DEF TypeOK
  <2>4. CASE LoginCompleted \/ RegisterCompleted \/ ResetCompleted
    <3>1. /\ done # <<>> /\ done' = Tail(done)
          /\ UNCHANGED <<app, accounts, currentUser, calls, root, labels, overlap>>
          /\ mains' \in {mains, mains + 1} /\ signOuts' \in {signOuts, signOuts + 1}
          /\ modal' \in {modal, "none"}
          /\ alert' \in {alert, "none", "RegisterError", "FailPassword",
                         "SuccessPassword"}
      BY <2>4 DEF LoginCompleted, RegisterCompleted, ResetCompleted, Completed
    <3>2. done' \in Seq(Completions)
      BY <3>1, HeadTailProperties DEF TypeOK
    <3>3. QED
      BY <3>1, <3>2 DEF TypeOK
  <2>5. CASE backBtn \/ logOut
    <3>1. \E ops : LeaveScreens(ops)
      BY <2>5 DEF backBtn, logOut
    <3>2. calls' \in Seq(Calls) /\ done' \in Seq(Completions)
      BY <3>1, LeaveTyping DEF TypeOK
    <3>3. overlap' \in BOOLEAN
      <4>1. CASE backBtn
        BY <4>1, Zenon DEF backBtn, Overlapping
      <4>2. CASE logOut
        <5>1. (Underway > 0) \in BOOLEAN
          OBVIOUS
        <5>2. QED
          BY <4>2, <5>1, Zenon DEF logOut
      <4>3. QED
        BY <2>5, <4>1, <4>2
    <3>4. /\ UNCHANGED <<app, accounts, alert, signOuts, labels>>
          /\ currentUser' \in {currentUser, NoOne} /\ root' \in {root, "login"}
          /\ mains' \in {mains, 0} /\ modal' \in {modal, "none"}
      BY <2>5 DEF backBtn, logOut
    <3>5. QED
      BY <3>2, <3>3, <3>4 DEF TypeOK
  <2>6. CASE presentScreen
    <3>1. overlap' \in BOOLEAN
      BY <2>6, Zenon DEF presentScreen, Overlapping
    <3>2. QED
      BY <2>6, <3>1 DEF presentScreen, TypeOK
  <2>7. CASE Relaunch
    <3>1. accounts' \subseteq Emails
      <4>1. \A i \in DOMAIN calls : calls[i].email \in Emails
        <5>1. calls \in [1 .. Len(calls) -> Calls]
          BY LenProperties DEF TypeOK
        <5>2. QED
          BY <5>1 DEF Calls
      <4>2. QED
        BY <2>7, <4>1 DEF Relaunch, TypeOK
    <3>2. overlap' \in BOOLEAN
      BY <2>7, Zenon DEF Relaunch
    <3>3. QED
      BY <2>7, <3>1, <3>2 DEF Relaunch, Launched, TypeOK
  <2>8. CASE textFieldDidEndEditing \/ RegisterDismissed \/ SuccessPasswordPresented
             \/ dismissAlert \/ fetchWithoutUser
    <3>1. /\ UNCHANGED <<accounts, calls, done, root, mains, modal, overlap>>
          /\ app' \in {app, "trapped"} /\ currentUser' \in {currentUser, NoOne}
          /\ alert' \in {alert, "none"}
          /\ signOuts' = signOuts \/ (signOuts > 0 /\ signOuts' = signOuts - 1)
          /\ labels' \in {labels, labels \cup {"email"}, labels \cup {"password"}}
      BY <2>8
      DEF textFieldDidEndEditing, RegisterDismissed, SuccessPasswordPresented,
          dismissAlert, fetchWithoutUser
    <3>2. QED
      BY <3>1 DEF TypeOK
  <2>9. CASE UNCHANGED vars
    BY <2>9 DEF vars, TypeOK
  <2>10. QED
    BY <2>1, <2>2, <2>3, <2>4, <2>5, <2>6, <2>7, <2>8, <2>9 DEF Next
<1>3. QED
  BY <1>1, <1>2, PTL DEF Spec

-----------------------------------------------------------------------------
(* Who is signed in.                                                       *)

\* Underway counts what OneUnderway says.
LEMMA UnderwayFacts ==
  ASSUME TypeOK
  PROVE  /\ Underway > 0 \/ (calls = <<>> /\ done = <<>> /\ signOuts = 0)
         /\ Underway = 0 => calls = <<>> /\ done = <<>> /\ signOuts = 0
         /\ Underway \in Nat
<1>1. /\ Len(calls) \in Nat /\ Len(done) \in Nat /\ signOuts \in Nat
      /\ (Len(calls) = 0 => calls = <<>>) /\ (Len(done) = 0 => done = <<>>)
  BY LenProperties, EmptySeq DEF TypeOK
<1>2. QED
  BY <1>1 DEF Underway

\* A call made while nothing is under way is the only one.
LEMMA CallKeepsQuiet ==
  ASSUME TypeOK, SessionInv, NEW op \in Ops, NEW e \in Emails, Call(op, e),
         root = "login", mains = 0 \/ modal # "none",
         op = "createUser" => modal = "register",
         op = "signIn" => modal = "none",
         UNCHANGED <<currentUser, done, root, mains, modal, signOuts>>
  PROVE  SessionInv'
<1> SUFFICES ASSUME ~overlap' PROVE Quiet'
  BY DEF SessionInv, MainRoot
<1>1. ~overlap /\ calls = <<>> /\ done = <<>> /\ signOuts = 0 /\ mains = 0
  <2>1. ~overlap /\ ~(Underway > 0)
    BY Zenon DEF Call, Overlapping
  <2>2. QED
    BY <2>1, UnderwayFacts DEF SessionInv, Quiet, PushedMain, TypeOK
<1>2. calls' = <<[op |-> op, email |-> e, here |-> TRUE]>>
  BY <1>1 DEF Call
<1>3. /\ Len(calls') = 1 /\ DOMAIN calls' = {1}
      /\ calls'[1].here /\ calls'[1].op = op
  BY <1>2
<1>4. done' = <<>> /\ DOMAIN done' = {} /\ signOuts' = 0 /\ mains' = 0
  BY <1>1
<1>5. OneUnderway' /\ PushedMain' /\ signOuts' <= 1
  BY <1>3, <1>4 DEF OneUnderway, PushedMain
<1>6. CallersStay'
  BY <1>3, <1>4 DEF CallersStay
<1>7. HiddenUser'
  BY <1>1, <1>4 DEF HiddenUser, SignedInUnseen, SessionInv, Quiet
<1>8. QED
  BY <1>5, <1>6, <1>7 DEF Quiet

\* An answer signs in only the user whose call it is; he is not seen yet.
LEMMA AnswerKeepsQuiet ==
  ASSUME TypeOK, SessionInv, AuthAnswers
  PROVE  SessionInv'
<1>0. UNCHANGED <<app, root, mains, modal, alert, signOuts, labels, overlap>>
      /\ NoOne \notin Emails
  BY EmailAssumption DEF AuthAnswers
<1>1. PICK i \in DOMAIN calls, ok \in BOOLEAN :
        /\ calls' = RemoveAt(calls, i)
        /\ done' = Append(done, Completion(calls[i], ok))
        /\ currentUser' = IF ok /\ calls[i].op # "sendPasswordReset"
                          THEN calls[i].email ELSE currentUser
  BY DEF AuthAnswers
<1>2. calls # <<>> /\ calls[i] \in Calls
  BY <1>1, RemoveTyping DEF TypeOK
<1>3. root = "login" /\ MainRoot'
  BY <1>0, <1>2 DEF SessionInv, MainRoot, TypeOK
<1> SUFFICES ASSUME ~overlap PROVE Quiet'
  BY <1>0, <1>3 DEF SessionInv
<1>4. Len(calls) = 1 /\ done = <<>> /\ signOuts = 0 /\ mains = 0
  BY <1>2 DEF SessionInv, Quiet, OneUnderway, PushedMain, TypeOK
<1>5. i = 1 /\ calls' = <<>>
  <2>1. DOMAIN calls = 1 .. Len(calls)
    BY LenProperties DEF TypeOK
  <2>2. i = 1
    BY <1>1, <1>4, <2>1
  <2>3. SubSeq(calls, 1, 0) = <<>> /\ SubSeq(calls, 2, 1) = <<>>
    BY SubSeqEmpty
  <2>4. calls' = <<>> \o <<>>
    BY <1>1, <1>4, <2>2, <2>3 DEF RemoveAt
  <2>5. QED
    BY <2>2, <2>4
<1> DEFINE c == Completion(calls[i], ok)
<1>6. done' = <<c>> /\ Len(done') = 1 /\ DOMAIN done' = {1} /\ Head(done') = c
      /\ done'[1] = c /\ done' # <<>> /\ DOMAIN calls' = {}
  BY <1>1, <1>4, <1>5
<1>7. c.op = calls[i].op /\ c.here = calls[i].here /\ c.ok = ok
  BY DEF Completion
<1> HIDE DEF c
<1>8. OneUnderway' /\ PushedMain' /\ signOuts' <= 1
  BY <1>0, <1>4, <1>5, <1>6 DEF OneUnderway, PushedMain
<1>9. CallersStay'
  BY <1>0, <1>1, <1>6, <1>7 DEF CallersStay, SessionInv, Quiet
<1>10. HiddenUser'
  <2>1. currentUser = NoOne
    BY <1>3, <1>4 DEF SessionInv, Quiet, HiddenUser, SignedInUnseen
  <2>2. ok /\ calls[i].op # "sendPasswordReset" => currentUser' # NoOne
    BY <1>0, <1>1, <1>2 DEF Calls
  <2>3. ~(ok /\ calls[i].op # "sendPasswordReset") => currentUser' = NoOne
    BY <1>1, <2>1
  <2>4. QED
    BY <1>6, <1>7, <2>2, <2>3 DEF HiddenUser, SignedInUnseen
<1>11. QED
  BY <1>8, <1>9, <1>10 DEF Quiet

\* A completion or a dismissal that is run ends what was under way, and leaves a
\* user only where he is seen.
LEMMA CompletionKeepsQuiet ==
  ASSUME TypeOK, SessionInv,
         LoginCompleted \/ RegisterCompleted \/ ResetCompleted \/ RegisterDismissed
  PROVE  SessionInv'
<1>0. UNCHANGED <<calls, root, overlap>>
  BY DEF LoginCompleted, RegisterCompleted, ResetCompleted, RegisterDismissed
<1>1. root = "login" /\ MainRoot'
  <2>1. done # <<>> \/ signOuts > 0
    BY DEF LoginCompleted, RegisterCompleted, ResetCompleted, RegisterDismissed,
           Completed
  <2>2. QED
    BY <1>0, <2>1 DEF SessionInv, MainRoot, TypeOK
<1> SUFFICES ASSUME ~overlap PROVE Quiet'
  BY <1>0, <1>1 DEF SessionInv
<1>2. CASE RegisterDismissed
  <2>1. signOuts' = signOuts - 1 /\ signOuts > 0 /\ currentUser' = NoOne
        /\ UNCHANGED <<calls, done, mains, modal>>
    BY <1>2 DEF RegisterDismissed
  <2>2. mains = 0 /\ done = <<>> /\ calls = <<>> /\ signOuts = 1
    BY <2>1 DEF SessionInv, Quiet, PushedMain, OneUnderway, TypeOK
  <2>3. DOMAIN done = {} /\ DOMAIN calls = {}
    BY <2>2
  <2>4. QED
    BY <2>1, <2>2, <2>3
    DEF Quiet, OneUnderway, PushedMain, CallersStay, HiddenUser, SignedInUnseen
<1>3. CASE LoginCompleted \/ RegisterCompleted \/ ResetCompleted
  <2>1. done # <<>> /\ done' = Tail(done) /\ UNCHANGED currentUser
    BY <1>3 DEF LoginCompleted, RegisterCompleted, ResetCompleted, Completed
  <2>2. calls = <<>> /\ Len(done) = 1 /\ signOuts = 0 /\ mains = 0
    BY <2>1 DEF SessionInv, Quiet, PushedMain, OneUnderway, TypeOK
  <2>3. done' = <<>> /\ DOMAIN done' = {} /\ DOMAIN calls' = {} /\ calls' = <<>>
    <3>1. done' \in Seq(Completions) /\ Len(done') = 0
      BY <2>1, <2>2, HeadTailProperties DEF TypeOK
    <3>2. done' = <<>>
      BY <3>1, EmptySeq
    <3>3. QED
      BY <1>0, <2>2, <3>2
  <2>4. Head(done) = done[1] /\ 1 \in DOMAIN done
    BY <2>1, <2>2, LenProperties DEF TypeOK
  <2>5. /\ Head(done).here
        /\ Head(done).op = "createUser" => modal = "register"
        /\ Head(done).op = "signIn" => modal = "none"
    BY <2>4 DEF SessionInv, Quiet, CallersStay
  <2>6. /\ SignedInUnseen => currentUser # NoOne
        /\ ~SignedInUnseen => currentUser = NoOne
    BY <1>1, <2>2 DEF SessionInv, Quiet, HiddenUser
  <2>7. CASE LoginCompleted
    <3>1. /\ Head(done).op = "signIn" /\ UNCHANGED <<modal, signOuts>>
          /\ mains' = IF Head(done).ok THEN 1 ELSE 0
      BY <2>2, <2>5, <2>7 DEF LoginCompleted, Completed
    <3>2. Head(done).ok <=> SignedInUnseen
      BY <2>1, <3>1 DEF SignedInUnseen
    <3>3. OneUnderway' /\ signOuts' <= 1 /\ CallersStay' /\ ~SignedInUnseen'
      BY <2>2, <2>3, <3>1 DEF OneUnderway, CallersStay, SignedInUnseen
    <3>4. PushedMain'
      BY <2>1, <2>2, <2>3, <2>5, <2>6, <3>1, <3>2 DEF PushedMain
    <3>5. HiddenUser'
      BY <2>1, <2>6, <3>1, <3>2, <3>3 DEF HiddenUser
    <3>6. QED
      BY <3>3, <3>4, <3>5 DEF Quiet
  <2>8. CASE RegisterCompleted
    <3>1. /\ Head(done).op = "createUser" /\ mains' = mains
          /\ \/ Head(done).ok /\ signOuts' = 1
             \/ ~Head(done).ok /\ signOuts' = 0
      BY <2>2, <2>5, <2>8 DEF RegisterCompleted, Completed
    <3>2. Head(done).ok <=> SignedInUnseen
      BY <2>1, <3>1 DEF SignedInUnseen
    <3>3. OneUnderway' /\ signOuts' <= 1 /\ CallersStay' /\ ~SignedInUnseen'
      BY <2>2, <2>3, <3>1 DEF OneUnderway, CallersStay, SignedInUnseen
    <3>4. PushedMain'
      BY <2>2, <3>1 DEF PushedMain
    <3>5. HiddenUser'
      BY <2>1, <2>6, <3>1, <3>2, <3>3 DEF HiddenUser
    <3>6. QED
      BY <3>3, <3>4, <3>5 DEF Quiet
  <2>9. CASE ResetCompleted
    <3>1. Head(done).op = "sendPasswordReset" /\ UNCHANGED <<mains, modal, signOuts>>
      BY <2>9 DEF ResetCompleted, Completed
    <3>2. ~SignedInUnseen /\ ~SignedInUnseen'
      BY <2>3, <3>1 DEF SignedInUnseen
    <3>3. QED
      BY <2>1, <2>2, <2>3, <2>6, <3>1, <3>2
      DEF Quiet, OneUnderway, PushedMain, CallersStay, HiddenUser
  <2>10. QED
    BY <1>3, <2>7, <2>8, <2>9
<1>4. QED
  BY <1>2, <1>3

\* Screens come and go while nothing is under way, or the overlap is noted.
LEMMA ScreenKeepsQuiet ==
  ASSUME TypeOK, SessionInv, presentScreen \/ backBtn \/ logOut
  PROVE  SessionInv'
<1>0. /\ \/ root' \in {root, "login"} /\ root' # "main"
         \/ root = "main" /\ backBtn
      /\ signOuts' = signOuts
  BY DEF presentScreen, LoginOnTop, backBtn, logOut, TypeOK
<1>1. root' # "main"
  BY <1>0 DEF backBtn, SessionInv, MainRoot
<1> SUFFICES ASSUME ~overlap' PROVE Quiet'
  BY <1>1 DEF SessionInv, MainRoot
<1>2. calls = <<>> /\ done = <<>> /\ signOuts = 0
  <2>1. overlap' = (overlap \/ Underway > 0) \/ overlap' = (Underway > 0)
    BY DEF presentScreen, backBtn, logOut, Overlapping
  <2>2. ~(Underway > 0)
    BY <2>1, Zenon
  <2>3. QED
    BY <2>2, UnderwayFacts
<1>3. calls' = <<>> /\ done' = <<>>
  <2>1. UNCHANGED <<calls, done>> \/ \E ops : LeaveScreens(ops)
    BY DEF presentScreen, backBtn, logOut
  <2>2. QED
    BY <1>2, <2>1, LeaveTyping DEF TypeOK
<1>4. /\ OneUnderway' /\ signOuts' <= 1 /\ ~SignedInUnseen' /\ ~SignedInUnseen
      /\ DOMAIN calls' = {} /\ DOMAIN done' = {}
  BY <1>0, <1>2, <1>3 DEF OneUnderway, SignedInUnseen
<1>5. CASE logOut
  BY <1>4, <1>5 DEF logOut, Quiet, PushedMain, CallersStay, HiddenUser
<1>6. CASE presentScreen \/ backBtn
  <2>1. ~overlap
    BY <1>6, Zenon DEF presentScreen, backBtn, Overlapping
  <2>2. mains = 0 /\ UNCHANGED <<currentUser, mains, root>>
    BY <1>6, <2>1
    DEF presentScreen, backBtn, LoginOnTop, SessionInv, Quiet, PushedMain, TypeOK
  <2>3. QED
    BY <1>2, <1>4, <2>1, <2>2
    DEF SessionInv, Quiet, PushedMain, CallersStay, HiddenUser
<1>7. QED
  BY <1>5, <1>6

\* What is known of the session holds in every state.
THEOREM SessionInvariant == Spec => []SessionInv
<1>1. Init => SessionInv
  <2> SUFFICES ASSUME Init PROVE SessionInv
    OBVIOUS
  <2>1. /\ calls = <<>> /\ done = <<>> /\ DOMAIN calls = {} /\ DOMAIN done = {}
        /\ mains = 0 /\ modal = "none" /\ signOuts = 0
        /\ root = IF currentUser = NoOne THEN "login" ELSE "main"
    BY DEF Init, Launched
  <2>2. QED
    BY <2>1 DEF SessionInv, MainRoot, Quiet, OneUnderway, PushedMain, CallersStay,
                HiddenUser, SignedInUnseen
<1>2. TypeOK /\ SessionInv /\ [Next]_vars => SessionInv'
  <2> SUFFICES ASSUME TypeOK, SessionInv, [Next]_vars PROVE SessionInv'
    OBVIOUS
  <2>1. CASE AuthAnswers
    BY <2>1, AnswerKeepsQuiet
  <2>2. CASE loginBtn
    BY <2>2, CallKeepsQuiet DEF loginBtn, LoginOnTop, Ops
  <2>3. CASE submitEmail \/ finishBtn
    <3>1. root = "login" /\ modal # "none"
      BY <2>3 DEF submitEmail, finishBtn, SessionInv, MainRoot, TypeOK
    <3>2. UNCHANGED <<currentUser, done, root, mains, modal, signOuts>>
      BY <2>3 DEF submitEmail, finishBtn
    <3>3. \/ \E e \in Emails : Call("sendPasswordReset", e)
          \/ modal = "register" /\ \E e \in Emails : Call("createUser", e)
          \/ UNCHANGED <<calls, overlap>>
      BY <2>3 DEF submitEmail, finishBtn, Inputs, emailRegex
    <3>4. CASE UNCHANGED <<calls, overlap>>
      BY <3>2, <3>4 DEF SessionInv, MainRoot, Quiet, OneUnderway, PushedMain,
                        CallersStay, HiddenUser, SignedInUnseen
    <3>5. QED
      BY <3>1, <3>2, <3>3, <3>4, CallKeepsQuiet DEF Ops
  <2>4. CASE LoginCompleted \/ RegisterCompleted \/ ResetCompleted \/ RegisterDismissed
    BY <2>4, CompletionKeepsQuiet
  <2>5. CASE presentScreen \/ backBtn \/ logOut
    BY <2>5, ScreenKeepsQuiet
  <2>6. CASE Relaunch
    <3>1. /\ calls' = <<>> /\ done' = <<>> /\ DOMAIN calls' = {} /\ DOMAIN done' = {}
          /\ mains' = 0 /\ modal' = "none" /\ signOuts' = 0
          /\ root' = (IF currentUser = NoOne THEN "login" ELSE "main")
          /\ UNCHANGED currentUser
      BY <2>6 DEF Relaunch, Launched
    <3>2. QED
      BY <3>1 DEF SessionInv, MainRoot, Quiet, OneUnderway, PushedMain, CallersStay,
                  HiddenUser, SignedInUnseen
  <2>7. CASE textFieldDidEndEditing \/ SuccessPasswordPresented \/ dismissAlert
             \/ fetchWithoutUser \/ UNCHANGED vars
    <3>1. UNCHANGED <<currentUser, calls, done, root, mains, modal, signOuts, overlap>>
      BY <2>7 DEF textFieldDidEndEditing, SuccessPasswordPresented, dismissAlert,
                  fetchWithoutUser, vars
    <3>2. QED
      BY <3>1 DEF SessionInv, MainRoot, Quiet, OneUnderway, PushedMain, CallersStay,
                  HiddenUser, SignedInUnseen
  <2>8. QED
    BY <2>1, <2>2, <2>3, <2>4, <2>5, <2>6, <2>7 DEF Next
<1>3. QED
  BY <1>1, <1>2, SessionTyping, PTL DEF Spec

\* The main screen has a user unless calls overlapped.
THEOREM MainScreenHasUser == Spec => []MainHasUser
<1>1. SessionInv => MainHasUser
  BY DEF SessionInv, MainRoot, Quiet, PushedMain, MainHasUser, MainOnTop
<1>2. QED
  BY <1>1, SessionInvariant, PTL

\* The quiet login screen means that nobody is signed in, unless calls overlapped.
THEOREM LoginScreenSignedOut == Spec => []LoginMeansSignedOut
<1>1. TypeOK /\ SessionInv => LoginMeansSignedOut
  <2> SUFFICES ASSUME TypeOK, SessionInv, LoginOnTop, Underway = 0, ~overlap
               PROVE  currentUser = NoOne
    BY Zenon DEF LoginMeansSignedOut
  <2>1. done = <<>> /\ signOuts = 0
    BY UnderwayFacts
  <2>2. QED
    BY <2>1 DEF SessionInv, Quiet, HiddenUser, SignedInUnseen, LoginOnTop
<1>2. QED
  BY <1>1, SessionTyping, SessionInvariant, PTL
=============================================================================
