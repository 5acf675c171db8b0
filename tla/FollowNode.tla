----------------------------- MODULE FollowNode -----------------------------
(***************************************************************************)
(* One node of the Realtime Database, "<uid>/Twitch" or "<uid>/Afreeca",   *)
(* together with the part of the database client that stands between it    *)
(* and the screens: the tree of writes the server has not acknowledged,    *)
(* the single-shot reads that wait for their snapshot, and the main        *)
(* dispatch queue on which snapshots and completions reach the screens.    *)
(*                                                                         *)
(* A child of the node is the record of one followed streamer.  Every      *)
(* write of the app replaces or removes a whole child, so the node is the  *)
(* set of the names that have a child; an empty node reads as nil.         *)
(***************************************************************************)
EXTENDS Naturals, Sequences

CONSTANTS
  Names,       \* the names under which streamers are stored
  Callbacks,   \* the closures handed to the client with a read or a write
  NoCallback,  \* a write without a completion block
  MaxPend,     \* bound: unacknowledged writes at a time
  MaxReads,    \* bound: single reads at a time, waiting or raised
  MaxQueue     \* bound: items waiting on the main dispatch queue

ASSUME CallbackAssumption == NoCallback \notin Callbacks
ASSUME BoundAssumption == MaxPend \in Nat /\ MaxReads \in Nat /\ MaxQueue \in Nat

VARIABLES
  server,     \* the names stored on the server
  pend,       \* this client's writes the server has not acknowledged, in order
  reads,      \* closures of the single reads whose snapshot is not raised yet
  mainQueue,  \* snapshots and completions dispatched to the main queue
  intent      \* history: what this client last wrote of a name, until another
              \* device, a refusal or a crash overrides it

nodeVars == <<server, pend, reads, mainQueue, intent>>

Ops == {"add", "remove"}

WriteRec == [op : Ops, name : Names, applied : BOOLEAN,
             done : Callbacks \cup {NoCallback}]

Value(c, names) == [type |-> "value", c |-> c, names |-> names, ok |-> TRUE]
Ack(c, ok)      == [type |-> "ack", c |-> c, names |-> {}, ok |-> ok]

MainItem == [type : {"value", "ack"}, c : Callbacks, names : SUBSET Names,
             ok : BOOLEAN]

NodeTypeOK ==
  /\ server \in SUBSET Names
  /\ pend \in Seq(WriteRec)
  /\ reads \in Seq(Callbacks)
  /\ mainQueue \in Seq(MainItem)
  /\ intent \in [Names -> Ops \cup {"none"}]

NodeInit ==
  /\ server \in SUBSET Names
  /\ pend = <<>>
  /\ reads = <<>>
  /\ mainQueue = <<>>
  /\ intent = [n \in Names |-> "none"]

-----------------------------------------------------------------------------
(* What the client shows a reader: its unacknowledged writes, the latest   *)
(* last, laid over the server's data.                                      *)

Newest(p, i) == \A j \in DOMAIN p : j > i => p[j].name # p[i].name

\* Mutant: the write tree is not consulted.
OverlayServerOnly(s, p) == s

Overlay(s, p) ==
  {n \in Names :
     \/ \E i \in DOMAIN p : p[i].name = n /\ p[i].op = "add" /\ Newest(p, i)
     \/ n \in s /\ \A i \in DOMAIN p : p[i].name # n}

Outstanding == Len(reads) + Len(mainQueue)

-----------------------------------------------------------------------------
(* Calls of the screens.  They set part of the variables; the action that  *)
(* makes the call says the rest.                                           *)

\* updateChildValues or removeValue on the child n.
Write(op, n, done) ==
  /\ Len(pend) < MaxPend
  /\ pend' = Append(pend, [op |-> op, name |-> n, applied |-> FALSE,
                           done |-> done])
  /\ intent' = [intent EXCEPT ![n] = op]

CanObserve == Outstanding < MaxReads

\* observeSingleEvent, issued when rs are the reads that wait.
Observe(c, rs) ==
  /\ CanObserve
  /\ reads' = Append(rs, c)

\* The next item of the main queue is taken off it and run.
Dispatch == mainQueue # <<>> /\ mainQueue' = Tail(mainQueue)

-----------------------------------------------------------------------------
(* Steps of the client, the server and the network.                        *)

\* The server applies the oldest write that has not reached it.
ServerApply ==
  \E i \in DOMAIN pend :
    /\ ~pend[i].applied
    /\ \A j \in DOMAIN pend : j < i => pend[j].applied
    /\ server' = IF pend[i].op = "add" THEN server \cup {pend[i].name}
                                        ELSE server \ {pend[i].name}
    /\ pend' = [pend EXCEPT ![i].applied = TRUE]
    /\ UNCHANGED <<reads, mainQueue, intent>>

\* Mutant: the completion is called without asking whether there is one.
AnsweredAlways(ok) ==
  /\ pend # <<>>
  /\ pend' = Tail(pend)
  /\ Len(mainQueue) < MaxQueue
  /\ mainQueue' = Append(mainQueue, Ack(Head(pend).done, ok))

\* The server answers the oldest write; the client drops it from the write
\* tree and runs its completion block, if there is one.
Answered(ok) ==
  /\ pend # <<>>
  /\ pend' = Tail(pend)
  /\ IF Head(pend).done = NoCallback
     THEN UNCHANGED mainQueue
     ELSE /\ Len(mainQueue) < MaxQueue
          /\ mainQueue' = Append(mainQueue, Ack(Head(pend).done, ok))

\* Mutant: a write counts as acknowledged once it is sent.
AckWhenSent ==
  /\ Answered(TRUE)
  /\ UNCHANGED <<server, reads, intent>>

AckWrite ==
  /\ Answered(TRUE)
  /\ Head(pend).applied
  /\ UNCHANGED <<server, reads, intent>>

\* A refused write was never applied: dropping it reverts its effect.
RefuseWrite ==
  /\ Answered(FALSE)
  /\ ~Head(pend).applied
  /\ intent' = [intent EXCEPT ![Head(pend).name] = "none"]
  /\ UNCHANGED <<server, reads>>

\* The connection drops.  After it is restored every write that has no answer
\* is sent again, whether or not the server had applied it.
ConnectionLost ==
  /\ \E i \in DOMAIN pend : pend[i].applied
  /\ pend' = [i \in DOMAIN pend |-> [pend[i] EXCEPT !.applied = FALSE]]
  /\ UNCHANGED <<server, reads, mainQueue, intent>>

\* The oldest read has its data: the snapshot goes to the main queue.
RaiseValue ==
  /\ reads # <<>>
  /\ Len(mainQueue) < MaxQueue
  /\ mainQueue' = Append(mainQueue, Value(Head(reads), Overlay(server, pend)))
  /\ reads' = Tail(reads)
  /\ UNCHANGED <<server, pend, intent>>

\* The same account, signed in on another device, follows or unfollows n.
OtherDevice ==
  \E n \in Names :
    /\ server' \in {server \cup {n}, server \ {n}}
    /\ server' # server
    /\ intent' = [intent EXCEPT ![n] = "none"]
    /\ UNCHANGED <<pend, reads, mainQueue>>

\* The process ends: nothing of the client is on disk, so what the server has
\* not applied is lost.
ClientLost ==
  /\ pend' = <<>>
  /\ reads' = <<>>
  /\ mainQueue' = <<>>
  /\ intent' = [n \in Names |->
                  IF \E i \in DOMAIN pend : pend[i].name = n /\ ~pend[i].applied
                  THEN "none" ELSE intent[n]]
  /\ UNCHANGED server

NodeStep ==
  \/ ServerApply
  \/ AckWrite
  \/ RefuseWrite
  \/ ConnectionLost
  \/ RaiseValue
  \/ OtherDevice

-----------------------------------------------------------------------------
(* The node alone, under any use the screens may make of it.               *)

ClientWrite ==
  \E op \in Ops, n \in Names, c \in Callbacks \cup {NoCallback} :
    Write(op, n, c) /\ UNCHANGED <<server, reads, mainQueue>>

ClientObserve ==
  \E c \in Callbacks :
    Observe(c, reads) /\ UNCHANGED <<server, pend, mainQueue, intent>>

ClientDispatch == Dispatch /\ UNCHANGED <<server, pend, reads, intent>>

NodeNext ==
  \/ ClientWrite
  \/ ClientObserve
  \/ ClientDispatch
  \/ NodeStep
  \/ ClientLost

NodeSpec == NodeInit /\ [][NodeNext]_nodeVars

-----------------------------------------------------------------------------
(* Properties.                                                             *)

\* What this client last wrote of a name is what it reads back, before and
\* after the acknowledgement, through reconnections that send the write a
\* second time, until someone else's write, a refusal or a crash overrides it.
ReadYourWrites ==
  \A n \in Names :
    /\ intent[n] = "add" => n \in Overlay(server, pend)
    /\ intent[n] = "remove" => n \notin Overlay(server, pend)

\* A completion that reports no error is the truth: when the client takes the
\* acknowledgement of a write that it has not followed by another one of the
\* same name and that nobody has overridden, the server holds its result,
\* whatever older writes of the name were sent again before.
AckMeansStored ==
  [][AckWrite /\ Newest(pend, 1) /\ intent[Head(pend).name] = Head(pend).op
       => (Head(pend).name \in server <=> Head(pend).op = "add")]_nodeVars
=============================================================================
