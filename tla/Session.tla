------------------------------- MODULE Session -------------------------------
(***************************************************************************)
(* Who is signed in and which screens are up: AppDelegate, the login       *)
(* screen, the registration and the password screen presented over it, and *)
(* the log out button of the main screen.                                  *)
(*                                                                         *)
(* A call to Auth changes the current user before its completion is queued *)
(* on the main queue, and the current user survives the process.  Creating *)
(* an account signs it in; the registration screen signs it out again when *)
(* its dismissal is over.  No button is disabled while a call is under way.*)
(*                                                                         *)
(* UIKit, from how the code uses it: touches go to the topmost screen and  *)
(* to none while a dismissal runs; dismiss closes the alert a screen       *)
(* presents, if there is one, and otherwise the screen; whether dismiss    *)
(* calls its block for a screen that is not presented is left open.        *)
(***************************************************************************)
EXTENDS Naturals, SequencesExt

CONSTANTS
  Emails,      \* well formed addresses
  Malformed,   \* an address that is not
  Passwords,   \* what a password field holds: length and kinds of characters
  NoOne,       \* nobody is signed in
  MaxCalls     \* bound: calls to Auth at a time, their completions included

ASSUME EmailAssumption == Malformed \notin Emails /\ NoOne \notin Emails
ASSUME PasswordAssumption ==
  Passwords \subseteq [len : Nat, letter : BOOLEAN, digit : BOOLEAN, special : BOOLEAN]
ASSUME CallBoundAssumption == MaxCalls \in Nat

VARIABLES
  app,         \* "running" or "trapped"
  accounts,    \* the addresses registered with Auth
  currentUser, \* Auth.auth().currentUser
  calls,       \* calls to Auth under way
  done,        \* completions on the main queue
  root,        \* the window's root: the login screen's stack, or the main screen
  mains,       \* main screens pushed over the login screen
  modal,       \* what is presented over the login screen
  alert,       \* the alert of the presented screen
  signOuts,    \* dismissals of the registration screen that end with signOut
  labels,      \* the error labels of the registration screen that have a text
  overlap      \* history: since the start or the last quiet log out, a call
               \* overlapped another one, or its screen was left or covered

vars == <<app, accounts, currentUser, calls, done, root, mains, modal, alert,
          signOuts, labels, overlap>>

Ops == {"signIn", "createUser", "sendPasswordReset"}
Inputs == [email : Emails \cup {Malformed}, password : Passwords]
\* here: the screen that made the call is still there.
Calls == [op : Ops, email : Emails, here : BOOLEAN]
Completions == [op : Ops, email : Emails, here : BOOLEAN, ok : BOOLEAN]

TypeOK ==
  /\ app \in {"running", "trapped"}
  /\ accounts \subseteq Emails
  /\ currentUser \in Emails \cup {NoOne}
  /\ calls \in Seq(Calls)
  /\ done \in Seq(Completions)
  /\ root \in {"login", "main"}
  /\ mains \in Nat
  /\ modal \in {"none", "register", "password"}
  /\ alert \in {"none", "RegisterError", "FailPassword", "SuccessPassword"}
  /\ signOuts \in Nat
  /\ labels \subseteq {"email", "password"}
  /\ overlap \in BOOLEAN

\* Mutant: the main screen comes up for everyone.
LaunchedMain(user) == "main"

\* didFinishLaunchingWithOptions: the main screen if there is a current user.
Launched(user) == IF user = NoOne THEN "login" ELSE "main"

Init ==
  /\ app = "running"
  /\ accounts \in SUBSET Emails
  /\ currentUser \in accounts \cup {NoOne}
  /\ calls = <<>>
  /\ done = <<>>
  /\ root = Launched(currentUser)
  /\ mains = 0
  /\ modal = "none"
  /\ alert = "none"
  /\ signOuts = 0
  /\ labels = {}
  /\ overlap = FALSE

Running == app = "running"
Underway == Len(calls) + Len(done) + signOuts
Touchable == Running /\ alert = "none" /\ signOuts = 0
LoginOnTop == root = "login" /\ mains = 0 /\ modal = "none"
MainOnTop == (root = "main" \/ mains > 0) /\ modal = "none"

-----------------------------------------------------------------------------
(* What is typed.                                                          *)

\* A letter, a digit, something that is neither, and 8 to 20 characters.
passwordRegex(p) == p.letter /\ p.digit /\ p.special /\ p.len \in 8 .. 20

emailRegex(e) == e \in Emails

-----------------------------------------------------------------------------
(* Calls to Auth.                                                          *)

Overlapping == overlap' = (overlap \/ Underway > 0)

Call(op, email) ==
  /\ Underway < MaxCalls
  /\ calls' = Append(calls, [op |-> op, email |-> email, here |-> TRUE])
  /\ Overlapping

Completion(q, ok) ==
  [op |-> q.op, email |-> q.email, here |-> q.here, ok |-> ok]

\* Auth answers a call.  An account may have been created although the call
\* fails, when the answer is lost.
AuthAnswers ==
  /\ Running
  /\ \E i \in DOMAIN calls, ok \in BOOLEAN :
       LET q == calls[i] IN
       /\ calls' = RemoveAt(calls, i)
       /\ done' = Append(done, Completion(q, ok))
       /\ \/ /\ q.op = "signIn"
             /\ ok => q.email \in accounts
             /\ UNCHANGED accounts
          \/ /\ q.op = "createUser"
             /\ ok => q.email \notin accounts
             /\ accounts' \in IF ok THEN {accounts \cup {q.email}}
                              ELSE {accounts, accounts \cup {q.email}}
          \/ /\ q.op = "sendPasswordReset"
             /\ ok => q.email \in accounts
             /\ UNCHANGED accounts
       /\ currentUser' = IF ok /\ q.op # "sendPasswordReset"
                         THEN q.email ELSE currentUser
  /\ UNCHANGED <<app, root, mains, modal, alert, signOuts, labels, overlap>>

\* The next completion on the main queue, of a call op.
Completed(op) ==
  /\ Running
  /\ done # <<>>
  /\ Head(done).op = op
  /\ done' = Tail(done)

\* The screens that made these calls are gone.
Left(seq, ops) ==
  [i \in DOMAIN seq |-> [seq[i] EXCEPT !.here = @ /\ seq[i].op \notin ops]]

LeaveScreens(ops) ==
  /\ calls' = Left(calls, ops)
  /\ done' = Left(done, ops)

-----------------------------------------------------------------------------
(* The login screen.                                                       *)

loginBtn ==
  /\ Touchable /\ LoginOnTop
  /\ \E e \in Emails : Call("signIn", e)
  /\ UNCHANGED <<app, accounts, currentUser, done, root, mains, modal, alert,
                 signOuts, labels>>

\* The main screen is pushed, also under a presented screen and over another
\* main screen.  An error is printed.
LoginCompleted ==
  /\ Completed("signIn")
  /\ mains' = IF Head(done).ok /\ Head(done).here THEN mains + 1 ELSE mains
  /\ UNCHANGED <<app, accounts, currentUser, calls, root, modal, alert, signOuts,
                 labels, overlap>>

\* The segues to the other screens.
presentScreen ==
  /\ Touchable /\ LoginOnTop
  /\ modal' \in {"register", "password"}
  /\ labels' = {}
  /\ Overlapping
  /\ UNCHANGED <<app, accounts, currentUser, calls, done, root, mains, alert,
                 signOuts>>

-----------------------------------------------------------------------------
(* The registration screen.                                                *)

\* Mutant: the address is not checked.
finishBtnUnchecked ==
  /\ Touchable /\ modal = "register"
  /\ \E input \in Inputs :
       /\ IF passwordRegex(input.password)
          THEN Call("createUser", input.email) /\ UNCHANGED labels
          ELSE labels' = {"email", "password"} /\ UNCHANGED <<calls, overlap>>
  /\ UNCHANGED <<app, accounts, currentUser, done, root, mains, modal, alert,
                 signOuts>>

finishBtn ==
  /\ Touchable /\ modal = "register"
  /\ \E input \in Inputs :
       /\ IF emailRegex(input.email) /\ passwordRegex(input.password)
          THEN Call("createUser", input.email) /\ UNCHANGED labels
          ELSE labels' = {"email", "password"} /\ UNCHANGED <<calls, overlap>>
  /\ UNCHANGED <<app, accounts, currentUser, done, root, mains, modal, alert,
                 signOuts>>

\* A field that holds something wrong gets its label; no label is taken back.
textFieldDidEndEditing ==
  /\ Touchable /\ modal = "register"
  /\ \E input \in Inputs :
       \/ ~emailRegex(input.email) /\ labels' = labels \cup {"email"}
       \/ ~passwordRegex(input.password) /\ labels' = labels \cup {"password"}
  /\ UNCHANGED <<app, accounts, currentUser, calls, done, root, mains, modal,
                 alert, signOuts, overlap>>

\* Mutant: the new account stays signed in.
RegisterKeepsUser ==
  /\ Completed("createUser")
  /\ IF Head(done).ok
     THEN IF Head(done).here /\ alert = "none" /\ signOuts = 0
          THEN modal' = "none" /\ UNCHANGED alert
          ELSE alert' = "none" /\ UNCHANGED modal
     ELSE /\ alert' = IF Head(done).here /\ alert = "none" THEN "RegisterError" ELSE alert
          /\ UNCHANGED modal
  /\ UNCHANGED <<app, accounts, currentUser, calls, root, mains, signOuts, labels, overlap>>

\* Success dismisses the screen, or only the alert it shows, and will sign out.
\* The block of a dismissal that finds nothing to dismiss may not be called.
RegisterCompleted ==
  /\ Completed("createUser")
  /\ LET here == Head(done).here /\ modal = "register" IN
     \/ /\ Head(done).ok /\ here
        /\ IF alert = "none" THEN modal' = "none" /\ UNCHANGED alert
                             ELSE alert' = "none" /\ UNCHANGED modal
        /\ signOuts' = signOuts + 1
     \/ /\ Head(done).ok /\ ~here
        /\ signOuts' \in {signOuts, signOuts + 1}
        /\ UNCHANGED <<modal, alert>>
     \/ /\ ~Head(done).ok
        /\ alert' = IF here /\ alert = "none" THEN "RegisterError" ELSE alert
        /\ UNCHANGED <<modal, signOuts>>
  /\ UNCHANGED <<app, accounts, currentUser, calls, root, mains, labels,
                 overlap>>

\* The end of the dismissal: signOut, whoever is signed in by now.
RegisterDismissed ==
  /\ Running
  /\ signOuts > 0
  /\ signOuts' = signOuts - 1
  /\ currentUser' = NoOne
  /\ UNCHANGED <<app, accounts, calls, done, root, mains, modal, alert, labels, overlap>>

-----------------------------------------------------------------------------
(* The password screen.                                                    *)

submitEmail ==
  /\ Touchable /\ modal = "password"
  /\ \E e \in Emails : Call("sendPasswordReset", e)
  /\ UNCHANGED <<app, accounts, currentUser, done, root, mains, modal, alert,
                 signOuts, labels>>

ResetCompleted ==
  /\ Completed("sendPasswordReset")
  /\ alert' = IF Head(done).here /\ alert = "none"
              THEN IF Head(done).ok THEN "SuccessPassword" ELSE "FailPassword"
              ELSE alert
  /\ UNCHANGED <<app, accounts, currentUser, calls, root, mains, modal, signOuts,
                 labels, overlap>>

\* When the success alert has been presented, dismiss closes the alert itself.
SuccessPasswordPresented ==
  /\ Running
  /\ alert = "SuccessPassword"
  /\ alert' = "none"
  /\ UNCHANGED <<app, accounts, currentUser, calls, done, root, mains, modal,
                 signOuts, labels, overlap>>

-----------------------------------------------------------------------------
(* The rest.                                                               *)

backBtn ==
  /\ Touchable /\ modal # "none"
  /\ modal' = "none"
  /\ LeaveScreens({"createUser", "sendPasswordReset"})
  /\ Overlapping
  /\ UNCHANGED <<app, accounts, currentUser, root, mains, alert, signOuts, labels>>

dismissAlert ==
  /\ Running
  /\ alert \in {"RegisterError", "FailPassword"}
  /\ alert' = "none"
  /\ UNCHANGED <<app, accounts, currentUser, calls, done, root, mains, modal,
                 signOuts, labels, overlap>>

\* Mutant: the root controller is replaced, and the user stays signed in.
logOutScreenOnly ==
  /\ Touchable /\ MainOnTop
  /\ root' = "login"
  /\ mains' = 0
  /\ LeaveScreens(Ops)
  /\ overlap' = (Underway > 0)
  /\ UNCHANGED <<app, accounts, currentUser, modal, alert, signOuts, labels>>

\* The main screen's log out button: a new login screen becomes the root.
logOut ==
  /\ Touchable /\ MainOnTop
  /\ currentUser' = NoOne
  /\ root' = "login"
  /\ mains' = 0
  /\ LeaveScreens(Ops)
  /\ overlap' = (Underway > 0)
  /\ UNCHANGED <<app, accounts, modal, alert, signOuts, labels>>

\* The main screen fetches: currentUser is unwrapped.
fetchWithoutUser ==
  /\ Running /\ MainOnTop
  /\ currentUser = NoOne
  /\ app' = "trapped"
  /\ UNCHANGED <<accounts, currentUser, calls, done, root, mains, modal, alert,
                 signOuts, labels, overlap>>

\* The process ends and is started again; a call that was sent may still take
\* effect on the server.
Relaunch ==
  /\ app' = "running"
  /\ \/ UNCHANGED accounts
     \/ \E i \in DOMAIN calls :
          calls[i].op = "createUser" /\ accounts' = accounts \cup {calls[i].email}
  /\ calls' = <<>>
  /\ done' = <<>>
  /\ root' = Launched(currentUser)
  /\ mains' = 0
  /\ modal' = "none"
  /\ alert' = "none"
  /\ signOuts' = 0
  /\ labels' = {}
  /\ overlap' = FALSE
  /\ UNCHANGED currentUser

Next ==
  \/ AuthAnswers
  \/ loginBtn
  \/ LoginCompleted
  \/ presentScreen
  \/ finishBtn
  \/ textFieldDidEndEditing
  \/ RegisterCompleted
  \/ RegisterDismissed
  \/ submitEmail
  \/ ResetCompleted
  \/ SuccessPasswordPresented
  \/ backBtn
  \/ dismissAlert
  \/ logOut
  \/ fetchWithoutUser
  \/ Relaunch

Spec == Init /\ [][Next]_vars

\* Auth answers, the main queue is run, a dismissal ends.
Fairness ==
  /\ WF_vars(AuthAnswers)
  /\ WF_vars(LoginCompleted)
  /\ WF_vars(RegisterCompleted)
  /\ WF_vars(RegisterDismissed)
  /\ WF_vars(ResetCompleted)

FairSpec == Spec /\ Fairness
-----------------------------------------------------------------------------
(* Properties.                                                             *)

\* The main screen reads the current user's node without asking whether there
\* is one.  There is one, unless a call overlapped another, or its screen was left
\* or covered, since the last quiet log out or the start.
MainHasUser == MainOnTop /\ ~overlap => currentUser # NoOne

\* When nothing is under way the login screen means that nobody is signed in:
\* a registration, which signs in, has signed out again, and a log out is not
\* undone, unless a call overlapped another, or its screen was left or covered,
\* since the last quiet log out or the start.
LoginMeansSignedOut ==
  LoginOnTop /\ Underway = 0 /\ ~overlap => currentUser = NoOne

\* A user who got signed in under the login screen, by a login or a registration,
\* does not stay there: the main screen comes or he is signed out, unless calls
\* overlap.
SignInResolves ==
  (currentUser # NoOne /\ root = "login" /\ mains = 0)
    ~> (mains > 0 \/ root = "main" \/ currentUser = NoOne \/ overlap)

=============================================================================
