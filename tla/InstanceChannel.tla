--------------------------- MODULE InstanceChannel ---------------------------
(***************************************************************************)
(* The channel between the executor and one instance of a node              *)
(* (src/crates/br-graph-contract/src/instance): inputs one way, at most one *)
(* terminal event the other way, and the news that the executor let go.     *)
(* Each action is one critical section of Core.inner.  Wakers taken out of  *)
(* it are woken after the lock is released: they are in waking meanwhile.   *)
(***************************************************************************)
EXTENDS Naturals, Sequences

CONSTANTS
    MaxInputs,  \* bound: inputs the executor gives
    Watchers    \* the Dropped futures of the sender

ASSUME ChannelAssumption == MaxInputs \in Nat /\ {"reader", "event"} \cap Watchers = {}

VARIABLES
    queue,       \* Inner.queue: the inputs by their rank
    node,        \* Inner.node: Working as Open or Closed, Sent, Ended, Vanished
    executor,    \* Inner.executor
    registered,  \* which of Inner.reader_waker and Inner.event_waker are Some
    dropped_waiters,  \* Inner.dropped_waiters
    waking,      \* the wakers taken and not yet woken
    reader,      \* the node's task: out of next, about to poll it, or parked
    receiver,    \* the executor's task in recv, likewise
    watch,       \* the task of each Dropped future, likewise
    sender,      \* the EventSender: held, finished but not dropped, or gone
    inputEnd,    \* the InputEnd: held or gone
    given,       \* history: inputs accepted
    taken,       \* history: inputs the node took, in order
    settled,     \* history: the inputs taken when the node found the closed queue empty
    received     \* history: what recv returned

inner == <<queue, node, executor, registered, dropped_waiters>>
tasks == <<reader, receiver, watch, sender, inputEnd>>
history == <<given, taken, settled, received>>
vars == <<inner, waking, tasks, history>>

BugAcceptsClosed == node \in {"Open", "Closed"}
AcceptsInput == node = "Open"

WakeReader == registered \cap {"reader"}
WakeEvent == registered \cap {"event"}

\* Inner.retire: the queue goes, and both sides' wakers with it.
Retire ==
    /\ queue' = <<>>
    /\ registered' = {}

-----------------------------------------------------------------------------
\* The executor's side.

Give ==
    /\ inputEnd = "held" /\ given < MaxInputs /\ AcceptsInput
    /\ queue' = Append(queue, given + 1)
    /\ given' = given + 1
    /\ registered' = registered \ {"reader"}
    /\ waking' = waking \cup WakeReader
    /\ UNCHANGED <<node, executor, dropped_waiters, tasks, taken, settled, received>>

Recv == receiver = "away" /\ receiver' = "polling"
        /\ UNCHANGED <<inner, waking, reader, watch, sender, inputEnd, history>>

PollRecv ==
    /\ receiver = "polling"
    /\ \/ /\ node = "Sent"
          /\ node' = "Ended" /\ received' = "event"
          /\ receiver' = "away" /\ registered' = registered \ {"event"}
       \/ /\ node \in {"Ended", "Vanished"}
          /\ received' = IF received = "event" THEN received ELSE node
          /\ receiver' = "away" /\ registered' = registered \ {"event"}
          /\ UNCHANGED node
       \/ /\ node \in {"Open", "Closed"}
          /\ receiver' = "parked" /\ registered' = registered \cup {"event"}
          /\ UNCHANGED <<node, received>>
    /\ UNCHANGED <<queue, executor, dropped_waiters, waking, reader, watch, sender,
                   inputEnd, given, taken, settled>>

\* The recv future is dropped before it is ready.
ForgetRecv ==
    /\ receiver \in {"polling", "parked"}
    /\ receiver' = "away" /\ registered' = registered \ {"event"}
    /\ UNCHANGED <<queue, node, executor, dropped_waiters, waking, reader, watch, sender,
                   inputEnd, history>>

BugWakesNoWatcher(discardsEvent) ==
    /\ executor' = "Dropped"
    /\ node' = IF node = "Vanished" THEN "Vanished" ELSE "Ended"
    /\ Retire
    /\ dropped_waiters' = {}
    /\ waking' = waking \cup WakeReader \cup WakeEvent
\* detach: the node side ends unless it already sent an event or vanished.
Detach(discardsEvent) ==
    /\ executor' = "Dropped"
    /\ node' = CASE node = "Sent" -> IF discardsEvent THEN "Ended" ELSE "Sent"
                 [] node = "Vanished" -> "Vanished"
                 [] OTHER -> "Ended"
    /\ Retire
    /\ dropped_waiters' = {}
    /\ waking' = waking \cup WakeReader \cup WakeEvent \cup dropped_waiters

InputEndDropped ==
    /\ inputEnd = "held" /\ inputEnd' = "gone"
    /\ Detach(FALSE)
    /\ UNCHANGED <<reader, receiver, watch, sender, history>>

EventEndDropped ==
    /\ receiver = "away" /\ receiver' = "gone"
    /\ Detach(TRUE)
    /\ UNCHANGED <<reader, watch, sender, inputEnd, history>>

-----------------------------------------------------------------------------
\* The node's side.

AwaitNext == reader = "away" /\ reader' = "polling"
         /\ UNCHANGED <<inner, waking, receiver, watch, sender, inputEnd, history>>

PollNext ==
    /\ reader = "polling"
    /\ \/ /\ queue # <<>>
          /\ taken' = Append(taken, Head(queue))
          /\ queue' = Tail(queue)
          /\ reader' = "away" /\ registered' = registered \ {"reader"}
          /\ UNCHANGED settled
       \/ /\ queue = <<>> /\ ~AcceptsInput
          /\ settled' = IF node = "Closed" THEN settled \cup {Len(taken)} ELSE settled
          /\ reader' = "away" /\ registered' = registered \ {"reader"}
          /\ UNCHANGED <<queue, taken>>
       \/ /\ queue = <<>> /\ AcceptsInput
          /\ reader' = "parked" /\ registered' = registered \cup {"reader"}
          /\ UNCHANGED <<queue, taken, settled>>
    /\ UNCHANGED <<node, executor, dropped_waiters, waking, receiver, watch, sender,
                   inputEnd, given, received>>

ForgetNext ==
    /\ reader \in {"polling", "parked"}
    /\ reader' = "away" /\ registered' = registered \ {"reader"}
    /\ UNCHANGED <<queue, node, executor, dropped_waiters, waking, receiver, watch, sender,
                   inputEnd, history>>

\* close of the reader or of the sender, and the drop of the reader.
CloseInput ==
    /\ node = "Open" /\ (reader # "gone" \/ sender = "held")
    /\ node' = "Closed"
    /\ registered' = registered \ {"reader"}
    /\ waking' = waking \cup WakeReader
    /\ UNCHANGED <<queue, executor, dropped_waiters, tasks, history>>

ReaderDropped ==
    /\ reader = "away" /\ reader' = "gone"
    /\ node' = IF node = "Open" THEN "Closed" ELSE node
    /\ IF node = "Open"
       THEN registered' = registered \ {"reader"} /\ waking' = waking \cup WakeReader
       ELSE UNCHANGED <<registered, waking>>
    /\ UNCHANGED <<queue, executor, dropped_waiters, receiver, watch, sender, inputEnd,
                   history>>

Drain ==
    /\ reader = "away"
    /\ taken' = taken \o queue
    /\ queue' = <<>>
    /\ settled' = IF node = "Closed" THEN settled \cup {Len(taken) + Len(queue)} ELSE settled
    /\ UNCHANGED <<node, executor, registered, dropped_waiters, waking, tasks, given,
                   received>>

\* finish takes the sender, which is dropped right after: sender_gone.
Finish ==
    /\ sender = "held" /\ sender' = "finished"
    /\ node' = IF node \in {"Open", "Closed"} THEN "Sent" ELSE node
    /\ Retire
    /\ waking' = waking \cup WakeReader \cup WakeEvent
    /\ UNCHANGED <<executor, dropped_waiters, reader, receiver, watch, inputEnd, history>>

SenderGone ==
    /\ sender \in {"held", "finished"} /\ sender' = "gone"
    /\ node' = IF node \in {"Open", "Closed"} THEN "Vanished" ELSE node
    /\ Retire
    /\ waking' = waking \cup WakeReader \cup WakeEvent
    /\ UNCHANGED <<executor, dropped_waiters, reader, receiver, watch, inputEnd, history>>

PollDropped(w) ==
    /\ watch[w] = "polling"
    /\ IF executor = "Dropped"
       THEN watch' = [watch EXCEPT ![w] = "fired"] /\ UNCHANGED dropped_waiters
       ELSE watch' = [watch EXCEPT ![w] = "parked"] /\ dropped_waiters' = dropped_waiters \cup {w}
    /\ UNCHANGED <<queue, node, executor, registered, waking, reader, receiver,
                   sender, inputEnd, history>>

ForgetDropped(w) ==
    /\ watch[w] \in {"polling", "parked"}
    /\ watch' = [watch EXCEPT ![w] = "gone"]
    /\ dropped_waiters' = dropped_waiters \ {w}
    /\ UNCHANGED <<queue, node, executor, registered, waking, reader, receiver,
                   sender, inputEnd, history>>

-----------------------------------------------------------------------------
\* The wake of a waker, once its taker is out of the lock.
Woken(state) == IF state = "parked" THEN "polling" ELSE state

Wake(w) ==
    /\ w \in waking
    /\ waking' = waking \ {w}
    /\ reader' = IF w = "reader" THEN Woken(reader) ELSE reader
    /\ receiver' = IF w = "event" THEN Woken(receiver) ELSE receiver
    /\ watch' = [v \in Watchers |-> IF v = w THEN Woken(watch[v]) ELSE watch[v]]
    /\ UNCHANGED <<inner, sender, inputEnd, history>>

\* A parked future is polled again for another future of its task.
PollAgain ==
    /\ \/ reader = "parked" /\ reader' = "polling" /\ UNCHANGED <<receiver, watch>>
       \/ receiver = "parked" /\ receiver' = "polling" /\ UNCHANGED <<reader, watch>>
       \/ \E w \in Watchers : /\ watch[w] = "parked"
                              /\ watch' = [watch EXCEPT ![w] = "polling"]
                              /\ UNCHANGED <<reader, receiver>>
    /\ UNCHANGED <<inner, waking, sender, inputEnd, history>>

Init ==
    /\ queue = <<>> /\ node = "Open" /\ executor = "Attached"
    /\ registered = {} /\ dropped_waiters = {} /\ waking = {}
    /\ reader = "away" /\ receiver = "away" /\ sender = "held" /\ inputEnd = "held"
    /\ watch = [w \in Watchers |-> "polling"]
    /\ given = 0 /\ taken = <<>> /\ settled = {} /\ received = "nothing"

ExecutorStep == Give \/ Recv \/ PollRecv \/ ForgetRecv \/ InputEndDropped \/ EventEndDropped
NodeStep == AwaitNext \/ PollNext \/ ForgetNext \/ CloseInput \/ ReaderDropped \/ Drain
            \/ Finish \/ SenderGone
WatchStep == \E w \in Watchers : PollDropped(w) \/ ForgetDropped(w)
WakeStep == \E w \in waking : Wake(w)

Next == ExecutorStep \/ NodeStep \/ WatchStep \/ WakeStep \/ PollAgain

\* A waker taken is woken, and a task made ready polls.
Fairness ==
    /\ WF_vars(PollNext) /\ WF_vars(PollRecv)
    /\ \A w \in Watchers : WF_vars(PollDropped(w))
    /\ \A w \in {"reader", "event"} \cup Watchers : WF_vars(Wake(w))

Spec == Init /\ [][Next]_vars
FairSpec == Spec /\ Fairness

-----------------------------------------------------------------------------
TaskState == {"away", "polling", "parked", "gone"}
TypeOK ==
    /\ queue \in Seq(Nat)
    /\ node \in {"Open", "Closed", "Sent", "Ended", "Vanished"}
    /\ executor \in {"Attached", "Dropped"}
    /\ registered \subseteq {"reader", "event"}
    /\ dropped_waiters \subseteq Watchers
    /\ waking \subseteq {"reader", "event"} \cup Watchers
    /\ reader \in TaskState /\ receiver \in TaskState
    /\ watch \in [Watchers -> {"polling", "parked", "fired", "gone"}]
    /\ sender \in {"held", "finished", "gone"} /\ inputEnd \in {"held", "gone"}
    /\ given \in Nat /\ taken \in Seq(Nat)
    /\ settled \subseteq Nat
    /\ received \in {"nothing", "event", "Ended", "Vanished"}
    /\ executor = "Attached" <=> inputEnd = "held" /\ receiver # "gone"
    /\ executor = "Dropped" => node \notin {"Open", "Closed"}

\* No wake-up is lost: a parked task whose future is ready is about to be woken.
NoLostWakeup ==
    /\ reader = "parked" /\ (queue # <<>> \/ ~AcceptsInput) => "reader" \in waking
    /\ receiver = "parked" /\ node \notin {"Open", "Closed"} => "event" \in waking
    /\ \A w \in Watchers : watch[w] = "parked" /\ executor = "Dropped" => w \in waking

\* The inputs the node took are the accepted ones, first come first taken, with
\* what is queued next in line; and a give is ordered against the close: a node
\* that closed its input and then found the queue empty has taken every input
\* that was ever accepted, so its result covers them all.
TakenInOrder ==
    /\ \A i \in DOMAIN taken : taken[i] = i
    /\ \A i \in DOMAIN queue : queue[i] = Len(taken) + i
    /\ AcceptsInput => Len(taken) + Len(queue) = given
    /\ \A n \in settled : n = Len(taken) /\ n = given

\* A sent event is not lost while the EventEnd is held, whatever else is
\* dropped: it leaves the channel by a recv, or with the EventEnd.
EventKept ==
    [][node = "Sent" /\ node' # "Sent" => received' = "event" \/ receiver' = "gone"]_vars

\* The node hears of a dropped end, and a sent event reaches a waiting recv.
ReadyIsHeard ==
    /\ \A w \in Watchers : executor = "Dropped" ~> watch[w] \in {"fired", "gone"}
    /\ node = "Sent" /\ receiver = "parked" ~> receiver # "parked"
=============================================================================
