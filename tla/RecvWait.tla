------------------------------ MODULE RecvWait ------------------------------
(***************************************************************************)
(* How recv() waits for messages, flow.go: it looks at the buffer under a  *)
(* mutex and sleeps on a condition variable, while the session's           *)
(* dispatcher, which runs on_userdata, and close() take no mutex before    *)
(* they signal.  Module Flow has recv() as one step; here its steps are    *)
(* apart, and a message is its number, in one chunk.                       *)
(*                                                                         *)
(* ordered_recv_buf is a container/list, which the dispatcher appends to   *)
(* without the mutex.  PushBack has two ends, and what may come of removals*)
(* between them is a choice: a wrong length, a list whose front is lost,   *)
(* or a panic.                                                             *)
(***************************************************************************)
EXTENDS Integers, Sequences, FiniteSets

CONSTANTS
  Receivers,       \* the goroutines that call recv(), again and again
  MaxMessages      \* bound: the messages that arrive

Nobody == "nobody"

ASSUME WaitAssumption == MaxMessages \in Nat /\ Nobody \notin Receivers

VARIABLES
  arrived,         \* how many messages on_userdata has put in order
  buffer,          \* ordered_recv_buf, from its front
  count,           \* its length, the field that Front() looks at
  list,            \* "torn": its root no longer leads to its chunks
  pushing,         \* PushBack has begun
  before,          \* the length when it began
  signals,         \* the goroutines about to call recv_cond.Signal
  waiting,         \* the goroutines asleep, the first to wait first
  mutex,           \* who holds recv_buf_mutex
  pc,              \* pc[r]: where r is in recv()
  found,           \* found[r]: the message read_message found
  closed,
  taken,           \* history: the messages removed from the buffer
  returned         \* history: the messages recv() returned

bufferVars == <<arrived, buffer, count, list, pushing, before>>
condVars == <<signals, waiting>>
recvVars == <<mutex, pc, found, taken, returned>>
vars == <<bufferVars, condVars, recvVars, closed>>

Init ==
  /\ arrived = 0 /\ buffer = <<>> /\ count = 0 /\ list = "sound"
  /\ pushing = FALSE /\ before = 0
  /\ signals = {} /\ waiting = <<>> /\ mutex = Nobody
  /\ pc = [r \in Receivers |-> "check"] /\ found = [r \in Receivers |-> 0]
  /\ closed = FALSE /\ taken = <<>> /\ returned = {}

\* A panic ends the process.
Runs == list # "panicked"

Goes(r, place) == pc' = [pc EXCEPT ![r] = place]

(***************************************************************************)
(* The dispatcher and close(): a write, then Signal, which wakes the first *)
(* that waits, if any.                                                     *)
(***************************************************************************)
PushBegins ==
  /\ Runs
  /\ ~ pushing /\ "dispatcher" \notin signals
  /\ arrived < MaxMessages
  /\ pushing' = TRUE /\ before' = count
  /\ UNCHANGED <<arrived, buffer, count, list, condVars, recvVars, closed>>

\* Chunks were removed since PushBack began.
Raced == count # before

OnUserData ==
  /\ Runs
  /\ pushing
  /\ pushing' = FALSE
  /\ arrived' = arrived + 1
  /\ buffer' = Append(buffer, arrived + 1)
  /\ count' \in IF Raced THEN count .. before + 1 ELSE {count + 1}
  /\ list' \in IF Raced /\ buffer = <<>> THEN {"sound", "torn", "panicked"} ELSE {list}
  /\ signals' = signals \cup {"dispatcher"}
  /\ UNCHANGED <<before, waiting, recvVars, closed>>

Close ==
  /\ Runs
  /\ ~ closed
  /\ closed' = TRUE
  /\ signals' = signals \cup {"closer"}
  /\ UNCHANGED <<bufferVars, waiting, recvVars>>

Signal ==
  /\ Runs
  /\ \E g \in signals : signals' = signals \ {g}
  /\ IF waiting = <<>> THEN UNCHANGED <<waiting, pc>>
     ELSE Goes(Head(waiting), "wake") /\ waiting' = Tail(waiting)
  /\ UNCHANGED <<bufferVars, mutex, found, taken, returned, closed>>

(***************************************************************************)
(* recv().                                                                 *)
(***************************************************************************)
Check(r) ==
  /\ pc[r] = "check"
  /\ Goes(r, IF closed THEN "failed" ELSE "lock")
  /\ UNCHANGED <<bufferVars, condVars, mutex, found, taken, returned, closed>>

\* Mutant: the mutex keeps nobody out.
MayLockAlways(r) == r \in Receivers

MayLock(r) == mutex = Nobody

\* Front() is nil when the length is 0, and else what the root leads to: the
\* root itself, which holds no chunk, when it leads nowhere.
Nothing(r) ==
  count = 0 /\ mutex' = r /\ Goes(r, "wait") /\ UNCHANGED <<found, list>>

Message(r) ==
  /\ count # 0 /\ list = "sound" /\ buffer # <<>>
  /\ found' = [found EXCEPT ![r] = Head(buffer)]
  /\ mutex' = r /\ Goes(r, "remove")
  /\ UNCHANGED list

NoChunk ==
  /\ count # 0 /\ (list = "torn" \/ buffer = <<>>)
  /\ list' = "panicked"
  /\ UNCHANGED <<mutex, pc, found>>

Lock(r) ==
  /\ pc[r] = "lock" /\ MayLock(r)
  /\ Nothing(r) \/ Message(r) \/ NoChunk
  /\ UNCHANGED <<arrived, buffer, count, pushing, before, condVars, taken, returned,
                 closed>>

\* read_message removes the chunks after it found them, from the front; to remove
\* one that is no longer in the list does nothing.  A flow closed in the meantime
\* loses the message.
Remove(r) ==
  /\ pc[r] = "remove"
  /\ IF buffer # <<>> /\ Head(buffer) = found[r]
     THEN buffer' = Tail(buffer) /\ count' = count - 1
     ELSE UNCHANGED <<buffer, count>>
  /\ taken' = Append(taken, found[r])
  /\ mutex' = Nobody
  /\ Goes(r, IF closed THEN "failed" ELSE "check")
  /\ returned' = IF closed THEN returned ELSE returned \cup {found[r]}
  /\ UNCHANGED <<arrived, list, pushing, before, condVars, found, closed>>

Wait(r) ==
  /\ pc[r] = "wait"
  /\ waiting' = Append(waiting, r)
  /\ mutex' = Nobody
  /\ Goes(r, "asleep")
  /\ UNCHANGED <<bufferVars, signals, found, taken, returned, closed>>

\* Wait takes the mutex again before it returns, and recv() gives it back.
Wake(r) ==
  /\ pc[r] = "wake" /\ MayLock(r)
  /\ Goes(r, "check")
  /\ UNCHANGED <<bufferVars, condVars, mutex, found, taken, returned, closed>>

Receive(r) == Runs /\ (Check(r) \/ Lock(r) \/ Remove(r) \/ Wait(r) \/ Wake(r))

Next ==
  PushBegins \/ OnUserData \/ Close \/ Signal \/ \E r \in Receivers : Receive(r)

Spec == Init /\ [][Next]_vars

\* Goroutines run; nothing makes messages arrive or the flow close.
FairSpec ==
  /\ Spec /\ WF_vars(OnUserData) /\ WF_vars(Signal)
  /\ \A r \in Receivers : WF_vars(Receive(r))
-----------------------------------------------------------------------------
(***************************************************************************)
(* The types of the variables; only one that sleeps is in the list.        *)
(***************************************************************************)
TypeOK ==
  /\ arrived \in 0 .. MaxMessages
  /\ buffer \in Seq(1 .. arrived) /\ taken \in Seq(1 .. arrived)
  /\ count \in Int /\ before \in Int /\ pushing \in BOOLEAN
  /\ list \in {"sound", "torn", "panicked"}
  /\ signals \subseteq {"dispatcher", "closer"}
  /\ mutex \in Receivers \cup {Nobody}
  /\ pc \in [Receivers -> {"check", "lock", "remove", "wait", "asleep", "wake", "failed"}]
  /\ found \in [Receivers -> 0 .. arrived] /\ closed \in BOOLEAN
  /\ returned \subseteq 1 .. arrived
  /\ {waiting[i] : i \in DOMAIN waiting} = {r \in Receivers : pc[r] = "asleep"}

(***************************************************************************)
(* Every message leaves the buffer once, in the order of arrival, and is   *)
(* returned unless the flow was closed: as long as the process runs, the   *)
(* mutex between receivers is enough for that, although the dispatcher     *)
(* takes none.                                                             *)
(***************************************************************************)
InOrderOnce ==
  /\ taken \o buffer = [i \in 1 .. arrived |-> i]
  /\ closed \/ returned = {taken[i] : i \in DOMAIN taken}

(***************************************************************************)
(* What InOrderOnce rests on: who looks at the buffer or goes to sleep     *)
(* holds the mutex, what it found is still the oldest message when it      *)
(* removes it, nobody is in the list of those that wait twice, and one     *)
(* message arrives at a time.                                              *)
(***************************************************************************)
IInv ==
  /\ TypeOK
  /\ InOrderOnce
  /\ \A r \in Receivers : pc[r] \in {"remove", "wait"} <=> mutex = r
  /\ \A r \in Receivers : pc[r] = "remove" => buffer # <<>> /\ found[r] = Head(buffer)
  /\ pushing => arrived < MaxMessages
  /\ waiting \in Seq(Receivers)
  /\ \A i, j \in DOMAIN waiting : waiting[i] = waiting[j] => i = j

(***************************************************************************)
(* No message arrives at a moment that ends the process.                   *)
(***************************************************************************)
NoPanic == Runs

(***************************************************************************)
(* "notify can recv": a receiver waits for more data, and on_userdata      *)
(* notifies it, so that every message that arrives is received unless the  *)
(* flow is closed.                                                         *)
(***************************************************************************)
AllReceived ==
  \A n \in 1 .. MaxMessages : arrived >= n ~> (n \in returned \/ closed)
=============================================================================
