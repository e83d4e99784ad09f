---------------------------- MODULE Contract_proofs ----------------------------
(***************************************************************************)
(* What three parts of br-graph-contract guarantee: the channel of an instance,  *)
(* for every number of inputs and of dropped futures; the tree of cancel tokens,  *)
(* for every tree that can grow, every number of triggers at a time and of       *)
(* futures; the build of a graph, for every family of declared graphs and every   *)
(* answer of their edges.                                                     *)
(***************************************************************************)
EXTENDS InstanceChannel, CancelTree, GraphCheck, Lists_proofs

\* Every state variable has its type, whatever the two sides do; the executor
\* is dropped exactly when one of its ends is.
THEOREM ChannelTypeCorrect == Spec => []TypeOK
<1> USE ChannelAssumption DEF TypeOK, TaskState
<1>1. Init => TypeOK
  BY DEF Init
<1>2. TypeOK /\ [Next]_vars => TypeOK'
  <2> SUFFICES ASSUME TypeOK, [Next]_vars PROVE TypeOK'
    OBVIOUS
  <2> USE DEF AcceptsInput, WakeReader, WakeEvent, Retire, inner, tasks, history
  <2>1. CASE Give
    BY <2>1 DEF Give
  <2>2. CASE Recv
    BY <2>2 DEF Recv
  <2>3. CASE PollRecv
    BY <2>3 DEF PollRecv
  <2>4. CASE ForgetRecv
    BY <2>4 DEF ForgetRecv
  <2>5. CASE InputEndDropped
    BY <2>5 DEF InputEndDropped, Detach
  <2>6. CASE EventEndDropped
    BY <2>6 DEF EventEndDropped, Detach
  <2>7. CASE AwaitNext
    BY <2>7 DEF AwaitNext
  <2>8. CASE PollNext
    <3>1. queue # <<>> => Head(queue) \in Nat /\ Tail(queue) \in Seq(Nat)
      OBVIOUS
    <3>2. Len(taken) \in Nat
      OBVIOUS
    <3>3. queue # <<>> => Append(taken, Head(queue)) \in Seq(Nat)
      BY <3>1
    <3>4. queue' \in Seq(Nat) /\ taken' \in Seq(Nat) /\ settled' \subseteq Nat
      BY <2>8, <3>1, <3>2, <3>3 DEF PollNext
    <3> QED
      BY <2>8, <3>4 DEF PollNext
  <2>9. CASE ForgetNext
    BY <2>9 DEF ForgetNext
  <2>10. CASE CloseInput
    BY <2>10 DEF CloseInput
  <2>11. CASE ReaderDropped
    BY <2>11 DEF ReaderDropped
  <2>12. CASE Drain
    <3>1. Len(taken) + Len(queue) \in Nat /\ taken \o queue \in Seq(Nat)
      OBVIOUS
    <3>2. queue' \in Seq(Nat) /\ taken' \in Seq(Nat)
      BY <2>12, <3>1 DEF Drain
    <3>3. settled' \subseteq Nat
      BY <2>12, <3>1 DEF Drain
    <3> QED
      BY <2>12, <3>2, <3>3 DEF Drain
  <2>13. CASE Finish
    BY <2>13 DEF Finish
  <2>14. CASE SenderGone
    BY <2>14 DEF SenderGone
  <2>15. CASE WatchStep
    <3>1. watch' \in [Watchers -> {"polling", "parked", "fired", "gone"}]
          /\ dropped_waiters' \subseteq Watchers
      BY <2>15 DEF WatchStep, PollDropped, ForgetDropped
    <3>2. UNCHANGED <<queue, node, executor, registered, waking, reader, receiver, sender,
                      inputEnd, given, taken, settled, received>>
      BY <2>15 DEF WatchStep, PollDropped, ForgetDropped
    <3> QED
      BY <3>1, <3>2
  <2>16. CASE WakeStep
    BY <2>16 DEF WakeStep, Wake, Woken
  <2>17. CASE PollAgain
    BY <2>17 DEF PollAgain
  <2>18. CASE UNCHANGED vars
    BY <2>18 DEF vars
  <2> QED
    BY <2>1, <2>2, <2>3, <2>4, <2>5, <2>6, <2>7, <2>8, <2>9, <2>10, <2>11, <2>12, <2>13,
       <2>14, <2>15, <2>16, <2>17, <2>18 DEF Next, ExecutorStep, NodeStep
<1> QED
  BY <1>1, <1>2, PTL DEF Spec

-----------------------------------------------------------------------------
\* A parked task is known to the channel or about to be woken, and the channel
\* knows a waker only while the future it stands for is not ready.
Registered ==
    /\ reader = "parked" => "reader" \in registered \cup waking
    /\ receiver = "parked" => "event" \in registered \cup waking
    /\ \A w \in Watchers : watch[w] = "parked" => w \in dropped_waiters \cup waking
NotReady ==
    /\ "reader" \in registered => queue = <<>> /\ AcceptsInput
    /\ "event" \in registered => node \in {"Open", "Closed"}
    /\ dropped_waiters # {} => executor = "Attached"
WakeInv == Registered /\ NotReady

\* No parked next, recv or Dropped future is left asleep once it is ready.
THEOREM WakeupIsNotLost == Spec => []NoLostWakeup
<1>1. Init => WakeInv
  BY DEF Init, WakeInv, Registered, NotReady
<1>2. TypeOK /\ WakeInv /\ [Next]_vars => WakeInv'
  <2> SUFFICES ASSUME TypeOK, WakeInv, [Next]_vars PROVE WakeInv'
    OBVIOUS
  <2> USE ChannelAssumption
      DEF WakeInv, Registered, NotReady, AcceptsInput, WakeReader, WakeEvent, Retire, inner,
          tasks, history
  <2>1. CASE Give
    BY <2>1 DEF Give
  <2>2. CASE Recv
    BY <2>2 DEF Recv
  <2>3. CASE PollRecv
    BY <2>3 DEF PollRecv
  <2>4. CASE ForgetRecv
    BY <2>4 DEF ForgetRecv
  <2>5. CASE InputEndDropped
    BY <2>5 DEF InputEndDropped, Detach
  <2>6. CASE EventEndDropped
    BY <2>6 DEF EventEndDropped, Detach
  <2>7. CASE AwaitNext
    BY <2>7 DEF AwaitNext
  <2>8. CASE PollNext
    BY <2>8 DEF PollNext, TypeOK
  <2>9. CASE ForgetNext
    BY <2>9 DEF ForgetNext
  <2>10. CASE CloseInput
    BY <2>10 DEF CloseInput
  <2>11. CASE ReaderDropped
    BY <2>11 DEF ReaderDropped
  <2>12. CASE Drain
    BY <2>12 DEF Drain
  <2>13. CASE Finish
    BY <2>13 DEF Finish
  <2>14. CASE SenderGone
    BY <2>14 DEF SenderGone
  <2>15. CASE WatchStep
    BY <2>15 DEF WatchStep, PollDropped, ForgetDropped, TypeOK
  <2>16. CASE WakeStep
    BY <2>16 DEF WakeStep, Wake, Woken, TypeOK
  <2>17. CASE PollAgain
    BY <2>17 DEF PollAgain, TypeOK
  <2>18. CASE UNCHANGED vars
    BY <2>18 DEF vars
  <2> QED
    BY <2>1, <2>2, <2>3, <2>4, <2>5, <2>6, <2>7, <2>8, <2>9, <2>10, <2>11, <2>12, <2>13,
       <2>14, <2>15, <2>16, <2>17, <2>18 DEF Next, ExecutorStep, NodeStep
<1>3. TypeOK /\ WakeInv => NoLostWakeup
  BY DEF TypeOK, WakeInv, Registered, NotReady, NoLostWakeup
<1> QED
  BY <1>1, <1>2, <1>3, ChannelTypeCorrect, PTL DEF Spec

-----------------------------------------------------------------------------
\* While the node works, nothing accepted is missing; and a node that settled
\* leaves nothing to be taken.
Accounted ==
    /\ node \in {"Open", "Closed"} => Len(taken) + Len(queue) = given
    /\ settled # {} => ~AcceptsInput /\ queue = <<>>
OrderInv == TakenInOrder /\ Accounted

\* The inputs accepted are taken in order, and a node that closed its input and
\* found the queue empty has taken them all.
THEOREM InputsTakenInOrder == Spec => []TakenInOrder
<1>1. Init => OrderInv
  BY DEF Init, OrderInv, Accounted, TakenInOrder, AcceptsInput
<1>2. TypeOK /\ OrderInv /\ [Next]_vars => OrderInv'
  <2> SUFFICES ASSUME TypeOK, OrderInv, [Next]_vars PROVE OrderInv'
    OBVIOUS
  <2> DEFINE kept == <<queue, taken, given, settled>>
  <2> USE DEF OrderInv, Accounted, TakenInOrder, AcceptsInput
  <2>1. CASE Give
    <3>1. /\ Len(queue') = Len(queue) + 1 /\ Len(queue') \in Nat
          /\ queue'[Len(queue) + 1] = given + 1
          /\ \A i \in 1..Len(queue) : queue'[i] = queue[i]
          /\ DOMAIN queue = 1..Len(queue) /\ DOMAIN queue' = 1..(Len(queue) + 1)
      BY <2>1 DEF Give, TypeOK
    <3>2. Len(taken) + Len(queue) = given /\ Len(taken) \in Nat /\ Len(queue) \in Nat
          /\ given \in Nat
      BY <2>1 DEF Give, TypeOK
    <3>3. \A i \in DOMAIN queue' : queue'[i] = Len(taken) + i
      <4> SUFFICES ASSUME NEW i \in 1..(Len(queue) + 1) PROVE queue'[i] = Len(taken) + i
        BY <2>1, <3>1 DEF Give, TypeOK
      <4>1. CASE i = Len(queue) + 1
        BY <4>1, <3>1, <3>2
      <4>2. CASE i \in 1..Len(queue)
        BY <4>2, <3>1
      <4> QED
        BY <4>1, <4>2, <3>2
    <3>4. taken' = taken /\ settled' = {} /\ given' = given + 1
      BY <2>1 DEF Give, history
    <3>5. Len(taken') + Len(queue') = given'
      BY <3>1, <3>2, <3>4
    <3> QED
      BY <3>3, <3>4, <3>5
  <2>2. CASE PollNext
    <3>1. CASE queue # <<>> /\ taken' = Append(taken, Head(queue)) /\ queue' = Tail(queue)
      <4>1. /\ Len(taken') = Len(taken) + 1 /\ Len(queue') = Len(queue) - 1
            /\ taken'[Len(taken) + 1] = queue[1]
            /\ \A i \in 1..Len(taken) : taken'[i] = taken[i]
            /\ \A i \in DOMAIN queue' : queue'[i] = queue[i + 1] /\ i + 1 \in DOMAIN queue
            /\ Len(queue) \in Nat /\ Len(taken) \in Nat /\ 1 \in DOMAIN queue
            /\ DOMAIN taken' = 1..(Len(taken) + 1) /\ taken' \in Seq(Nat)
            /\ queue' \in Seq(Nat)
        BY <3>1 DEF TypeOK
      <4>2. \A i \in DOMAIN taken' : taken'[i] = i
        <5> SUFFICES ASSUME NEW i \in 1..(Len(taken) + 1) PROVE taken'[i] = i
          BY <4>1
        <5>1. CASE i = Len(taken) + 1
          BY <5>1, <4>1
        <5>2. CASE i \in 1..Len(taken)
          <6>1. i \in DOMAIN taken
            BY <5>2 DEF TypeOK
          <6> QED
            BY <5>2, <6>1, <4>1
        <5> QED
          BY <5>1, <5>2, <4>1
      <4>3. \A i \in DOMAIN queue' : queue'[i] = Len(taken') + i
        <5> SUFFICES ASSUME NEW i \in DOMAIN queue' PROVE queue'[i] = Len(taken') + i
          OBVIOUS
        <5>1. i \in Nat /\ queue'[i] = queue[i + 1] /\ i + 1 \in DOMAIN queue
          BY <4>1
        <5> QED
          BY <5>1, <4>1
      <4>4. settled = {} /\ settled' = settled /\ given' = given /\ node' = node
        BY <2>2, <3>1 DEF PollNext
      <4>5. Len(taken') + Len(queue') = Len(taken) + Len(queue)
        BY <4>1
      <4> QED
        BY <4>2, <4>3, <4>4, <4>5
    <3>2. CASE queue = <<>> /\ queue' = queue /\ taken' = taken
      <4>. given' = given /\ node' = node
        BY <2>2 DEF PollNext
      <4>1. settled' = settled \/ (settled' = settled \cup {Len(taken)} /\ node = "Closed")
        BY <2>2, <3>2 DEF PollNext
      <4>2. Len(taken) \in Nat /\ Len(queue) \in Nat /\ (queue = <<>> => Len(queue) = 0)
            /\ given \in Nat
        BY DEF TypeOK
      <4>3. \A n \in settled' : n = Len(taken) /\ n = given
        BY <3>2, <4>1, <4>2
      <4> QED
        BY <3>2, <4>1, <4>3
    <3> QED
      BY <2>2, <3>1, <3>2 DEF PollNext
  <2>3. CASE Drain
    <3>1. /\ Len(taken') = Len(taken) + Len(queue)
          /\ \A i \in 1..Len(taken) : taken'[i] = taken[i]
          /\ \A i \in DOMAIN taken' :
                i > Len(taken) => taken'[i] = queue[i - Len(taken)]
                                  /\ i - Len(taken) \in DOMAIN queue
          /\ Len(queue) \in Nat /\ Len(taken) \in Nat
          /\ DOMAIN taken' = 1..(Len(taken) + Len(queue))
      BY <2>3 DEF Drain, TypeOK
    <3>2. \A i \in DOMAIN taken' : taken'[i] = i
      <4> SUFFICES ASSUME NEW i \in DOMAIN taken' PROVE taken'[i] = i
        OBVIOUS
      <4>1. CASE i > Len(taken)
        BY <4>1, <3>1
      <4>2. CASE i \in 1..Len(taken)
        BY <4>2, <3>1 DEF TypeOK
      <4> QED
        BY <4>1, <4>2, <3>1
    <3>3. queue' = <<>> /\ given' = given /\ node' = node
      BY <2>3 DEF Drain
    <3> QED
      BY <2>3, <3>1, <3>2, <3>3 DEF Drain, TypeOK
  <2>4. CASE /\ UNCHANGED <<taken, given, settled>>
             /\ queue' \in {queue, <<>>}
             /\ node' # node => node' # "Open"
             /\ node' \in {"Open", "Closed"} => queue' = queue /\ node \in {"Open", "Closed"}
    <3>1. CASE queue' = queue
      BY <2>4, <3>1 DEF TypeOK
    <3>2. CASE queue' = <<>> /\ node' \notin {"Open", "Closed"}
      BY <2>4, <3>2 DEF TypeOK
    <3> QED
      BY <2>4, <3>1, <3>2
  <2>5. CASE Recv \/ ForgetRecv \/ AwaitNext \/ ForgetNext
    BY <2>5, <2>4 DEF Recv, ForgetRecv, AwaitNext, ForgetNext, inner, tasks, history
  <2>6. CASE PollRecv
    BY <2>6, <2>4 DEF PollRecv
  <2>7. CASE InputEndDropped \/ EventEndDropped
    BY <2>7, <2>4 DEF InputEndDropped, EventEndDropped, Detach, Retire, history
  <2>8. CASE CloseInput \/ ReaderDropped
    BY <2>8, <2>4 DEF CloseInput, ReaderDropped, tasks, history
  <2>9. CASE Finish \/ SenderGone
    BY <2>9, <2>4 DEF Finish, SenderGone, Retire, history
  <2>10. CASE WatchStep
    BY <2>10, <2>4 DEF WatchStep, PollDropped, ForgetDropped, history
  <2>11. CASE WakeStep \/ PollAgain
    BY <2>11, <2>4 DEF WakeStep, Wake, PollAgain, inner, history
  <2>12. CASE UNCHANGED vars
    BY <2>12, <2>4 DEF vars, inner, history
  <2> QED
    BY <2>1, <2>2, <2>3, <2>5, <2>6, <2>7, <2>8, <2>9, <2>10, <2>11, <2>12
       DEF Next, ExecutorStep, NodeStep
<1>3. OrderInv => TakenInOrder
  BY DEF OrderInv
<1> QED
  BY <1>1, <1>2, <1>3, ChannelTypeCorrect, PTL DEF Spec

-----------------------------------------------------------------------------
\* A sent event leaves the channel by a recv, or with the EventEnd.
THEOREM SentEventIsKept == Spec => EventKept
<1>1. [Next]_vars /\ node = "Sent" /\ node' # "Sent"
        => received' = "event" \/ receiver' = "gone"
  BY DEF Next, ExecutorStep, NodeStep, WatchStep, WakeStep, Give, Recv, PollRecv, ForgetRecv,
         InputEndDropped, EventEndDropped, Detach, AwaitNext, PollNext, ForgetNext, CloseInput,
         ReaderDropped, Drain, Finish, SenderGone, PollDropped, ForgetDropped, Wake, PollAgain,
         AcceptsInput, vars, inner
<1> QED
  BY <1>1, PTL DEF Spec, EventKept

-----------------------------------------------------------------------------
\* The tree of cancel tokens.

\* Every state variable has its type; what a call or a future refers to is alive.
THEOREM TreeTypeCorrect == TreeSpec => []TreeTypeOK
<1> USE CancelAssumption
<1>1. TreeInit => TreeTypeOK
  BY DEF TreeInit, TreeTypeOK
<1>2. TreeTypeOK /\ [TreeNext]_treeVars => TreeTypeOK'
  <2> SUFFICES ASSUME TreeTypeOK, [TreeNext]_treeVars PROVE TreeTypeOK'
    OBVIOUS
  <2> USE DEF tree, call, future
  <2>1. ASSUME NEW c \in Tokens, NEW p \in Tokens, Child(p, c) PROVE TreeTypeOK'
    <3>1. CASE p \in flag
      BY <2>1, <3>1 DEF Child, Link, TreeTypeOK
    <3>2. CASE p \notin flag
      <4>1. Pruned(p) \subseteq Tokens
        BY DEF Pruned, TreeTypeOK
      <4>2. children' \in [Tokens -> SUBSET Tokens]
        BY <2>1, <3>2, <4>1 DEF Child, Link, TreeTypeOK
      <4>3. peak' \in [Tokens -> Nat]
        <5>1. IsFiniteSet(LiveChildren(p))
          BY FS_Subset DEF LiveChildren, TreeTypeOK
        <5>2. Cardinality(LiveChildren(p)) \in Nat
          BY <5>1, FS_CardinalityType
        <5> QED
          BY <2>1, <3>2, <5>2 DEF Child, Link, TreeTypeOK
      <4> QED
        BY <2>1, <3>2, <4>2, <4>3 DEF Child, Link, TreeTypeOK
    <3> QED
      BY <3>1, <3>2
  <2>2. ASSUME NEW c \in Tokens, HostDrops(c) PROVE TreeTypeOK'
    BY <2>2 DEF HostDrops, TreeTypeOK
  <2>3. ASSUME NEW c \in Tokens, Freed(c) PROVE TreeTypeOK'
    BY <2>3 DEF Freed, Strong, TreeTypeOK
  <2>4. ASSUME NEW t \in Threads, NEW c \in Tokens, Trigger(t, c) PROVE TreeTypeOK'
    BY <2>4 DEF Trigger, TreeTypeOK
  <2>5. ASSUME NEW t \in Threads, NEW c \in Tokens, Fire(t, c) PROVE TreeTypeOK'
    BY <2>5 DEF Fire, TreeTypeOK
  <2>6. ASSUME NEW t \in Threads, NEW c \in Tokens, FiredBefore(t, c) PROVE TreeTypeOK'
    BY <2>6 DEF FiredBefore, TreeTypeOK
  <2>7. ASSUME NEW t \in Threads, NEW p \in Futures, WakeWaiter(t, p) PROVE TreeTypeOK'
    BY <2>7 DEF WakeWaiter, TreeTypeOK
  <2>8. ASSUME NEW t \in Threads, Return(t) PROVE TreeTypeOK'
    BY <2>8 DEF Return, TreeTypeOK
  <2>9. ASSUME NEW p \in Futures, NEW c \in Tokens, Watch(p, c) PROVE TreeTypeOK'
    BY <2>9 DEF Watch, TreeTypeOK
  <2>10. ASSUME NEW p \in Futures, PollStep(p) PROVE TreeTypeOK'
    <3>1. CASE Poll(p)
      <4>1. watched[p] \in Tokens \cup {Nil}
        BY DEF TreeTypeOK
      <4>2. mustSee' \subseteq Futures
        BY <3>1 DEF Poll, TreeTypeOK
      <4>3. /\ at' \in [Futures -> Tokens \cup {Nil}]
            /\ stage' = [stage EXCEPT ![p] = "walking"]
            /\ UNCHANGED <<tree, alive, held, flag, waiters, call, watched, returned>>
        BY <3>1, <4>1 DEF Poll, TreeTypeOK
      <4> QED
        BY <4>2, <4>3 DEF TreeTypeOK
    <3>2. CASE WalkUp(p)
      BY <3>2 DEF WalkUp, NextUp, TreeTypeOK
    <3>3. CASE WalkFinds(p)
      BY <3>3 DEF WalkFinds, TreeTypeOK
    <3>4. CASE Locks(p)
      <4>1. watched[p] \in Tokens \cup {Nil}
        BY DEF TreeTypeOK
      <4> QED
        BY <3>4, <4>1 DEF Locks, TreeTypeOK
    <3>5. CASE Registers(p)
      BY <3>5 DEF Registers, TreeTypeOK
    <3> QED
      BY <2>10, <3>1, <3>2, <3>3, <3>4, <3>5 DEF PollStep
  <2>11. ASSUME NEW p \in Futures, FutureDropped(p) PROVE TreeTypeOK'
    BY <2>11 DEF FutureDropped, TreeTypeOK
  <2>12. CASE UNCHANGED treeVars
    BY <2>12 DEF treeVars, TreeTypeOK
  <2> QED
    BY <2>1, <2>2, <2>3, <2>4, <2>5, <2>6, <2>7, <2>8, <2>9, <2>10, <2>11, <2>12
       DEF TreeNext, Host, Call
<1> QED
  BY <1>1, <1>2, PTL DEF TreeSpec

-----------------------------------------------------------------------------
\* How the tree is built: a token's ancestors are those of its parent.
TreeInv ==
    /\ \A c \in Tokens : parent[c] = Nil => above[c] = {c}
    /\ \A c \in Tokens : parent[c] # Nil => above[c] = {c} \cup above[parent[c]]
    /\ \A c \in Tokens : parent[c] # Nil => c \in made /\ parent[c] \in made

LEMMA TreeGrows == TreeSpec => []TreeInv
<1> USE CancelAssumption
<1>1. TreeInit => TreeInv
  BY DEF TreeInit, TreeInv
<1>2. TreeTypeOK /\ TreeInv /\ [TreeNext]_treeVars => TreeInv'
  <2> SUFFICES ASSUME TreeTypeOK, TreeInv, [TreeNext]_treeVars PROVE TreeInv'
    OBVIOUS
  <2>1. ASSUME NEW c \in Tokens, NEW p \in Tokens, Child(p, c) PROVE TreeInv'
    <3>1. p \in made /\ c \notin made /\ made' = made \cup {c} /\ parent[c] = Nil
      BY <2>1 DEF Child, TreeTypeOK, TreeInv
    <3>2. CASE p \in flag
      <4>1. parent' = parent /\ above' = [above EXCEPT ![c] = {c}]
        BY <2>1, <3>2 DEF Child, Link
      <4> QED
        BY <3>1, <4>1 DEF TreeInv, TreeTypeOK
    <3>3. CASE p \notin flag
      <4>1. /\ parent' = [parent EXCEPT ![c] = p]
            /\ above' = [above EXCEPT ![c] = {c} \cup above[p]]
        BY <2>1, <3>3 DEF Child, Link
      <4>2. ASSUME NEW d \in Tokens PROVE
              /\ parent'[d] = Nil => above'[d] = {d}
              /\ parent'[d] # Nil => /\ above'[d] = {d} \cup above'[parent'[d]]
                                     /\ d \in made' /\ parent'[d] \in made'
        <5>1. CASE d = c
          BY <5>1, <3>1, <4>1 DEF TreeTypeOK
        <5>2. CASE d # c
          BY <5>2, <3>1, <4>1 DEF TreeTypeOK, TreeInv
        <5> QED
          BY <5>1, <5>2
      <4> QED
        BY <4>2 DEF TreeInv
    <3> QED
      BY <3>2, <3>3
  <2>2. CASE UNCHANGED <<parent, above, made>>
    BY <2>2 DEF TreeInv
  <2> QED
    BY <2>1, <2>2 DEF TreeNext, Host, HostDrops, Freed, Call, Trigger, Fire, FiredBefore,
                      WakeWaiter, Return,
       PollStep, Poll, WalkUp, WalkFinds, Locks, Registers, FutureDropped, Watch, tree, treeVars
<1> QED
  BY <1>1, <1>2, TreeTypeCorrect, PTL DEF TreeSpec

-----------------------------------------------------------------------------
\* A trigger that returned has flagged its token, and a walk that must see one
\* has a triggered token still ahead of it.
ReturnInv ==
    /\ returned \subseteq flag
    /\ \A t \in Threads : target[t] # Nil => target[t] \in flag \cup pending[t]
WalkInv ==
    /\ \A p \in Futures : stage[p] \in {"woken", "walking", "locked", "parked", "ready"}
                            => watched[p] \in Tokens
    /\ \A p \in mustSee : /\ at[p] \in Tokens
                             /\ above[at[p]] \cap flag # {}
SeenInv == ReturnInv /\ WalkInv

\* A descendant never reads untriggered once an ancestor's trigger returned.
THEOREM TriggerIsSeen == TreeSpec => []SeenAfterReturn
<1> USE CancelAssumption
<1>1. TreeInit => SeenInv
  BY DEF TreeInit, SeenInv, ReturnInv, WalkInv
<1>2. TreeTypeOK /\ TreeInv /\ SeenInv => SeenAfterReturn
  BY DEF TreeTypeOK, TreeInv, SeenInv, WalkInv, SeenAfterReturn, AtTop, NextUp
<1>3. TreeTypeOK /\ TreeInv /\ SeenInv /\ [TreeNext]_treeVars => SeenInv'
  <2> SUFFICES ASSUME TreeTypeOK, TreeInv, SeenInv, [TreeNext]_treeVars PROVE SeenInv'
    OBVIOUS
  <2> USE DEF tree, call, future
  <2>1. ASSUME NEW c \in Tokens, NEW p \in Tokens, Child(p, c) PROVE SeenInv'
    <3>1. /\ c \notin made /\ flag \subseteq made /\ flag \subseteq flag'
          /\ \A d \in Tokens : d # c => above'[d] = above[d]
          /\ c \in above'[c] /\ above[c] = {c}
      <4>1. parent[c] = Nil /\ above[c] = {c} /\ c \notin made
        BY <2>1 DEF Child, TreeInv
      <4> QED
        BY <2>1, <4>1 DEF Child, Link, TreeTypeOK
    <3>2. UNCHANGED <<call, future, returned>>
      BY <2>1 DEF Child
    <3>3. ReturnInv'
      BY <3>1, <3>2 DEF SeenInv, ReturnInv
    <3>4. ASSUME NEW q \in mustSee PROVE above'[at[q]] \cap flag' # {}
      BY <3>1, <3>4 DEF SeenInv, WalkInv
    <3>5. WalkInv'
      BY <3>2, <3>4 DEF SeenInv, WalkInv
    <3> QED
      BY <3>3, <3>5 DEF SeenInv
  <2>2. CASE /\ flag \subseteq flag' /\ UNCHANGED <<above, watched, at, mustSee>>
             /\ \A p \in Futures : stage'[p] = stage[p] \/ watched[p] \in Tokens
             /\ ReturnInv'
    BY <2>2 DEF SeenInv, WalkInv
  <2>3. ASSUME NEW c \in Tokens, HostDrops(c) \/ Freed(c) PROVE SeenInv'
    BY <2>3, <2>2 DEF HostDrops, Freed, SeenInv, ReturnInv
  <2>4. ASSUME NEW t \in Threads, NEW c \in Tokens, Trigger(t, c) PROVE SeenInv'
    <3>1. ReturnInv'
      BY <2>4 DEF Trigger, SeenInv, ReturnInv, TreeTypeOK
    <3> QED
      BY <2>4, <3>1, <2>2 DEF Trigger
  <2>5. ASSUME NEW t \in Threads, NEW c \in Tokens, Fire(t, c) PROVE SeenInv'
    <3>1. ReturnInv'
      BY <2>5 DEF Fire, SeenInv, ReturnInv, TreeTypeOK
    <3> QED
      BY <2>5, <3>1, <2>2 DEF Fire
  <2>6. ASSUME NEW t \in Threads, NEW c \in Tokens, FiredBefore(t, c) PROVE SeenInv'
    <3>1. ReturnInv'
      BY <2>6 DEF FiredBefore, SeenInv, ReturnInv, TreeTypeOK
    <3> QED
      BY <2>6, <3>1, <2>2 DEF FiredBefore
  <2>7. ASSUME NEW t \in Threads, NEW p \in Futures, WakeWaiter(t, p) PROVE SeenInv'
    <3>1. ReturnInv'
      BY <2>7 DEF WakeWaiter, SeenInv, ReturnInv, TreeTypeOK
    <3>2. stage' = stage \/ (stage[p] = "parked" /\ stage' = [stage EXCEPT ![p] = "woken"])
      BY <2>7 DEF WakeWaiter
    <3>3. \A q \in Futures : stage'[q] = stage[q] \/ watched[q] \in Tokens
      BY <3>2 DEF SeenInv, WalkInv, TreeTypeOK
    <3> QED
      BY <2>7, <3>1, <3>3, <2>2 DEF WakeWaiter
  <2>8. ASSUME NEW t \in Threads, Return(t) PROVE SeenInv'
    <3>1. ReturnInv'
      BY <2>8 DEF Return, SeenInv, ReturnInv, TreeTypeOK
    <3> QED
      BY <2>8, <3>1, <2>2 DEF Return
  <2>9. ASSUME NEW p \in Futures, NEW c \in Tokens, Watch(p, c) PROVE SeenInv'
    BY <2>9 DEF Watch, SeenInv, ReturnInv, WalkInv, TreeTypeOK
  <2>10. ASSUME NEW p \in Futures, Poll(p) PROVE SeenInv'
    <3>1. watched[p] \in Tokens
      BY <2>10 DEF Poll, SeenInv, WalkInv
    <3>2. ASSUME NEW q \in mustSee' PROVE at'[q] \in Tokens /\ above[at'[q]] \cap flag # {}
      <4>1. CASE q = p
        BY <4>1, <3>1, <3>2, <2>10 DEF Poll, SeenInv, ReturnInv, TreeTypeOK
      <4>2. CASE q # p
        BY <4>2, <3>2, <2>10 DEF Poll, SeenInv, WalkInv, TreeTypeOK
      <4> QED
        BY <4>1, <4>2
    <3>3. WalkInv'
      BY <2>10, <3>1, <3>2 DEF Poll, SeenInv, WalkInv, TreeTypeOK
    <3> QED
      BY <2>10, <3>3 DEF Poll, SeenInv, ReturnInv
  <2>11. ASSUME NEW p \in Futures, WalkUp(p) PROVE SeenInv'
    <3>1. /\ at[p] \in Tokens /\ at[p] \notin flag /\ parent[at[p]] \in Tokens
          /\ above[at[p]] = {at[p]} \cup above[parent[at[p]]]
      BY <2>11 DEF WalkUp, NextUp, TreeInv, TreeTypeOK
    <3>2. ASSUME NEW q \in mustSee PROVE at'[q] \in Tokens /\ above[at'[q]] \cap flag # {}
      <4>1. CASE q = p
        BY <4>1, <3>1, <3>2, <2>11 DEF WalkUp, NextUp, SeenInv, WalkInv, TreeTypeOK
      <4>2. CASE q # p
        BY <4>2, <3>2, <2>11 DEF WalkUp, SeenInv, WalkInv, TreeTypeOK
      <4> QED
        BY <4>1, <4>2
    <3> QED
      BY <2>11, <3>2 DEF WalkUp, SeenInv, ReturnInv, WalkInv
  <2>12. ASSUME NEW p \in Futures, WalkFinds(p) \/ Registers(p) PROVE SeenInv'
    BY <2>12 DEF WalkFinds, Registers, SeenInv, ReturnInv, WalkInv, TreeTypeOK
  <2>13. ASSUME NEW p \in Futures, Locks(p) PROVE SeenInv'
    <3>1. p \notin mustSee
      BY <2>13, <1>2 DEF Locks, SeenAfterReturn
    <3> QED
      BY <2>13, <3>1 DEF Locks, SeenInv, ReturnInv, WalkInv, TreeTypeOK
  <2>14. ASSUME NEW p \in Futures, FutureDropped(p) PROVE SeenInv'
    <3>1. WalkInv'
      BY <2>14 DEF FutureDropped, SeenInv, WalkInv, TreeTypeOK
    <3> QED
      BY <2>14, <3>1 DEF FutureDropped, SeenInv, ReturnInv
  <2>15. CASE UNCHANGED treeVars
    BY <2>15, <2>2 DEF treeVars, SeenInv, ReturnInv
  <2> QED
    BY <2>1, <2>3, <2>4, <2>5, <2>6, <2>7, <2>8, <2>9, <2>10, <2>11, <2>12, <2>13, <2>14, <2>15
       DEF TreeNext, Host, Call, PollStep
<1> QED
  BY <1>1, <1>2, <1>3, TreeTypeCorrect, TreeGrows, PTL DEF TreeSpec

-----------------------------------------------------------------------------
\* A token no Arc is left of does not come back.
LEMMA GoneForGood ==
    ASSUME TreeTypeOK, TreeInv, [TreeNext]_treeVars, NEW d \in made, Strong(d)'
    PROVE  Strong(d)
<1> USE CancelAssumption DEF tree, call, future
<1>1. ASSUME NEW c \in Tokens, NEW p \in Tokens, Child(p, c) PROVE Strong(d)
  <2>1. p \in held /\ c \notin made /\ held' = held \cup {c} /\ alive' = alive \cup {c}
        /\ UNCHANGED <<call, watched>>
    BY <1>1 DEF Child
  <2>2. CASE d = p
    BY <2>1, <2>2 DEF Strong
  <2>3. CASE d # p
    <3>1. \A e \in Tokens : parent'[e] = d => parent[e] = d /\ e # c
      BY <1>1, <2>1, <2>3 DEF Child, Link, TreeTypeOK, TreeInv
    <3>2. LiveChildren(d)' \subseteq LiveChildren(d)
      BY <2>1, <3>1 DEF LiveChildren, TreeTypeOK
    <3> QED
      BY <2>1, <3>2 DEF Strong, TreeTypeOK
  <2> QED
    BY <2>2, <2>3
<1>2. CASE /\ held' \subseteq held /\ alive' \subseteq alive
           /\ UNCHANGED <<parent, watched>>
           /\ \A t \in Threads : target'[t] # target[t] => target'[t] \in held \cup {Nil}
           /\ \A t \in Threads : \A e \in pending'[t] :
                 e \in pending[t] \cup held \/ Strong(e)
  <2>1. LiveChildren(d)' \subseteq LiveChildren(d)
    BY <1>2 DEF LiveChildren
  <2>2. ASSUME NEW t \in Threads, target'[t] = d \/ d \in pending'[t] PROVE Strong(d)
    BY <2>2, <1>2 DEF Strong, TreeTypeOK
  <2> QED
    BY <1>2, <2>1, <2>2 DEF Strong
<1>3. ASSUME NEW c \in Tokens, HostDrops(c) \/ Freed(c) PROVE Strong(d)
  BY <1>3, <1>2 DEF HostDrops, Freed
<1>4. ASSUME NEW t \in Threads, NEW c \in Tokens, Trigger(t, c) PROVE Strong(d)
  BY <1>4, <1>2 DEF Trigger, TreeTypeOK
<1>5. ASSUME NEW t \in Threads, NEW c \in Tokens, Fire(t, c) PROVE Strong(d)
  <2>1. \A u \in Threads : \A e \in pending'[u] : e \in pending[u] \/ Strong(e)
    BY <1>5 DEF Fire, TreeTypeOK
  <2> QED
    BY <1>5, <2>1, <1>2 DEF Fire
<1>6. ASSUME NEW t \in Threads, NEW c \in Tokens, FiredBefore(t, c) PROVE Strong(d)
  BY <1>6, <1>2 DEF FiredBefore, TreeTypeOK
<1>7. ASSUME NEW t \in Threads, NEW p \in Futures, WakeWaiter(t, p) PROVE Strong(d)
  BY <1>7, <1>2 DEF WakeWaiter
<1>8. ASSUME NEW t \in Threads, Return(t) PROVE Strong(d)
  BY <1>8, <1>2 DEF Return, TreeTypeOK
<1>9. ASSUME NEW p \in Futures, NEW c \in Tokens, Watch(p, c) PROVE Strong(d)
  <2>1. c \in held /\ watched' = [watched EXCEPT ![p] = c] /\ LiveChildren(d)' = LiveChildren(d)
        /\ UNCHANGED <<held, call>>
    BY <1>9 DEF Watch, LiveChildren
  <2> QED
    BY <2>1 DEF Strong, TreeTypeOK
<1>10. ASSUME NEW p \in Futures, PollStep(p) PROVE Strong(d)
  BY <1>10, <1>2 DEF PollStep, Poll, WalkUp, WalkFinds, Locks, Registers
<1>11. ASSUME NEW p \in Futures, FutureDropped(p) PROVE Strong(d)
  <2>1. watched' = [watched EXCEPT ![p] = Nil] /\ LiveChildren(d)' = LiveChildren(d)
        /\ UNCHANGED <<held, call>>
    BY <1>11 DEF FutureDropped, LiveChildren
  <2> QED
    BY <2>1 DEF Strong, TreeTypeOK
<1>12. CASE UNCHANGED treeVars
  BY <1>12, <1>2 DEF treeVars
<1> QED
  BY <1>1, <1>3, <1>4, <1>5, <1>6, <1>7, <1>8, <1>9, <1>10, <1>11, <1>12
     DEF TreeNext, Host, Call

\* A token below a triggered one is triggered, or a trigger in progress has it
\* on its stack; below any other, its parent knows it.
THEOREM TriggerSpreads == TreeSpec => []SpreadGoesOn
<1> USE CancelAssumption
<1>1. TreeInit => SpreadGoesOn
  BY DEF TreeInit, SpreadGoesOn
<1>2. TreeTypeOK /\ TreeInv /\ SpreadGoesOn /\ [TreeNext]_treeVars => SpreadGoesOn'
  <2> SUFFICES ASSUME TreeTypeOK, TreeInv, SpreadGoesOn, [TreeNext]_treeVars,
                      NEW d \in alive', Strong(d)', parent'[d] # Nil
               PROVE  IF parent'[d] \in flag'
                      THEN d \in flag' \/ \E t \in Threads : d \in pending'[t]
                      ELSE d \in children'[parent'[d]]
    BY DEF SpreadGoesOn
  <2> DEFINE Spread == IF parent'[d] \in flag'
                       THEN d \in flag' \/ \E t \in Threads : d \in pending'[t]
                       ELSE d \in children'[parent'[d]]
  <2> USE DEF tree, call, future
  <2>1. d \in made => Strong(d)
    BY GoneForGood
  <2>2. ASSUME NEW c \in Tokens, NEW p \in Tokens, Child(p, c) PROVE Spread
    <3>1. /\ c \notin made /\ c \notin alive /\ p \in made /\ alive' = alive \cup {c}
          /\ p # c /\ flag \subseteq made /\ alive \subseteq made /\ UNCHANGED pending
      BY <2>2 DEF Child, TreeTypeOK
    <3>2. CASE p \in flag
      <4>1. flag' = flag \cup {c} /\ UNCHANGED <<parent, children>>
        BY <2>2, <3>2 DEF Child, Link
      <4>2. d # c
        BY <3>1, <4>1 DEF TreeInv
      <4> QED
        BY <2>1, <3>1, <4>1, <4>2 DEF SpreadGoesOn, TreeInv, TreeTypeOK
    <3>3. CASE p \notin flag
      <4>1. /\ flag' = flag /\ parent' = [parent EXCEPT ![c] = p]
            /\ children' = [children EXCEPT ![p] = Pruned(p) \cup {c}]
        BY <2>2, <3>3 DEF Child, Link
      <4>2. CASE d = c
        BY <3>1, <3>3, <4>1, <4>2 DEF TreeTypeOK
      <4>3. CASE d # c
        <5>1. d \in alive /\ d \in made /\ Strong(d) /\ parent'[d] = parent[d]
          BY <2>1, <3>1, <4>1, <4>3 DEF TreeTypeOK
        <5>2. d \in children[p] => d \in Pruned(p)
          BY <5>1 DEF Pruned
        <5>3. CASE parent[d] \in flag
          BY <5>1, <5>3, <3>1, <4>1 DEF SpreadGoesOn
        <5>4. CASE parent[d] \notin flag
          <6>1. d \in children[parent[d]] /\ parent[d] \in made
            BY <5>1, <5>4 DEF SpreadGoesOn, TreeInv, TreeTypeOK
          <6> QED
            BY <5>1, <5>2, <5>4, <6>1, <4>1 DEF TreeTypeOK
        <5> QED
          BY <5>3, <5>4
      <4> QED
        BY <4>2, <4>3
    <3> QED
      BY <3>2, <3>3
  <2>3. ASSUME alive' \subseteq alive, UNCHANGED <<parent, made>>
        PROVE /\ d \in alive /\ Strong(d) /\ parent[d] # Nil /\ parent'[d] = parent[d]
              /\ parent[d] \in flag =>
                    d \in flag \/ \E t \in Threads : d \in pending[t]
              /\ parent[d] \notin flag => d \in children[parent[d]]
    BY <2>1, <2>3 DEF SpreadGoesOn, TreeTypeOK
  <2>4. CASE /\ alive' \subseteq alive
             /\ UNCHANGED <<parent, made, flag, children>>
             /\ \A t \in Threads : \A e \in pending[t] : e \in flag \cup pending'[t]
    BY <2>3, <2>4
  <2>5. ASSUME NEW c \in Tokens, HostDrops(c) \/ Freed(c) PROVE Spread
    BY <2>5, <2>4 DEF HostDrops, Freed
  <2>6. ASSUME NEW t \in Threads, NEW c \in Tokens, Fire(t, c) PROVE Spread
    <3>1. /\ c \in pending[t] /\ flag' = flag \cup {c} /\ c \notin flag
          /\ UNCHANGED <<parent, made, alive>>
          /\ children' = [children EXCEPT ![c] = {}]
          /\ \A e \in children[c] : e \in alive /\ Strong(e) => e \in pending'[t]
          /\ \A u \in Threads : \A e \in pending[u] : e \in flag' \cup pending'[u]
      BY <2>6 DEF Fire, TreeTypeOK
    <3>2. CASE parent[d] = c
      BY <3>1, <3>2, <2>3
    <3>3. CASE parent[d] # c
      BY <3>1, <3>3, <2>3 DEF TreeTypeOK
    <3> QED
      BY <3>2, <3>3
  <2>7. ASSUME NEW t \in Threads, NEW c \in Tokens, Trigger(t, c) \/ FiredBefore(t, c)
        PROVE Spread
    <3>1. CASE Trigger(t, c)
      <4>1. ASSUME NEW u \in Threads, NEW e \in pending[u] PROVE e \in flag \cup pending'[u]
        BY <3>1, <4>1 DEF Trigger, TreeTypeOK
      <4> QED
        BY <3>1, <4>1, <2>4 DEF Trigger
    <3>2. CASE FiredBefore(t, c)
      <4>1. \A u \in Threads : \A e \in pending[u] : e \in flag \cup pending'[u]
        BY <3>2 DEF FiredBefore, TreeTypeOK
      <4> QED
        BY <3>2, <4>1, <2>4 DEF FiredBefore
    <3> QED
      BY <2>7, <3>1, <3>2
  <2>8. ASSUME NEW t \in Threads, NEW p \in Futures, WakeWaiter(t, p) PROVE Spread
    BY <2>8, <2>4 DEF WakeWaiter
  <2>9. ASSUME NEW t \in Threads, Return(t) PROVE Spread
    BY <2>9, <2>4 DEF Return
  <2>10. ASSUME NEW p \in Futures, PollStep(p) \/ FutureDropped(p) PROVE Spread
    BY <2>10, <2>4 DEF PollStep, Poll, WalkUp, WalkFinds, Locks, Registers, FutureDropped
  <2>11. ASSUME NEW p \in Futures, NEW c \in Tokens, Watch(p, c) PROVE Spread
    BY <2>11, <2>4 DEF Watch
  <2>12. CASE UNCHANGED treeVars
    BY <2>12, <2>4 DEF treeVars
  <2> QED
    BY <2>2, <2>5, <2>6, <2>7, <2>8, <2>9, <2>10, <2>11, <2>12 DEF TreeNext, Host, Call
<1> QED
  BY <1>1, <1>2, TreeTypeCorrect, TreeGrows, PTL DEF TreeSpec

-----------------------------------------------------------------------------
\* A future under its lock has seen its own token untriggered, unless it is
\* still to read it; a parked one is registered, or its token was triggered and
\* the trigger has its waker.
ParkInv ==
    /\ \A p \in Futures : stage[p] \in {"woken", "walking", "locked", "parked", "ready"}
                            => watched[p] \in alive
    /\ \A p \in Futures : stage[p] = "locked" =>
          watched[p] \notin flag \/ at[p] = watched[p]
    /\ \A p \in Futures : stage[p] = "parked" /\ watched[p] \notin flag =>
          p \in waiters[watched[p]]

\* A future parked on a triggered token is about to be woken.
THEOREM WaiterIsNotLost == TreeSpec => []NoLostWaiter
<1> DEFINE IInv == ParkInv /\ NoLostWaiter
<1> USE CancelAssumption
<1>1. TreeInit => IInv
  BY DEF TreeInit, ParkInv, NoLostWaiter
<1>2. TreeTypeOK /\ IInv /\ [TreeNext]_treeVars => IInv'
  <2> SUFFICES ASSUME TreeTypeOK, IInv, [TreeNext]_treeVars PROVE IInv'
    OBVIOUS
  <2> USE DEF tree, call, future
  <2>1. CASE /\ UNCHANGED <<flag, waiters, wakers, watched, stage, at>>
             /\ alive' = alive \/ \A p \in Futures : watched[p] # Nil => watched[p] \in alive'
    BY <2>1 DEF ParkInv, NoLostWaiter, TreeTypeOK
  <2>2. ASSUME NEW c \in Tokens, NEW p \in Tokens, Child(p, c) PROVE IInv'
    <3>1. c \notin made /\ flag' \subseteq flag \cup {c} /\ flag \subseteq flag'
          /\ alive' = alive \cup {c} /\ UNCHANGED <<waiters, wakers, watched, stage, at>>
      BY <2>2 DEF Child, Link
    <3>2. \A q \in Futures : watched[q] \in alive =>
              (watched[q] \in flag' <=> watched[q] \in flag)
      BY <3>1 DEF TreeTypeOK
    <3> QED
      BY <3>1, <3>2 DEF ParkInv, NoLostWaiter
  <2>3. ASSUME NEW c \in Tokens, HostDrops(c) PROVE IInv'
    BY <2>3, <2>1 DEF HostDrops
  <2>4. ASSUME NEW c \in Tokens, Freed(c) PROVE IInv'
    <3>1. \A p \in Futures : watched[p] # Nil => watched[p] \in alive'
      BY <2>4 DEF Freed, Strong, TreeTypeOK
    <3> QED
      BY <2>4, <3>1, <2>1 DEF Freed
  <2>5. ASSUME NEW t \in Threads, NEW c \in Tokens, Trigger(t, c) \/ FiredBefore(t, c) PROVE IInv'
    BY <2>5, <2>1 DEF Trigger, FiredBefore
  <2>6. ASSUME NEW t \in Threads, NEW c \in Tokens, Fire(t, c) PROVE IInv'
    <3>1. /\ flag' = flag \cup {c} /\ c \notin flag /\ Unlocked(c)
          /\ wakers' = [wakers EXCEPT ![t] = @ \cup waiters[c]]
          /\ waiters' = [waiters EXCEPT ![c] = {}]
          /\ UNCHANGED <<alive, watched, stage, at>>
      BY <2>6 DEF Fire
    <3>2. ParkInv'
      BY <3>1 DEF ParkInv, Unlocked, TreeTypeOK
    <3>3. NoLostWaiter'
      <4> SUFFICES ASSUME NEW p \in Futures, stage[p] = "parked", watched[p] \in flag'
                   PROVE  \E u \in Threads : p \in wakers'[u]
        BY <3>1 DEF NoLostWaiter
      <4>1. CASE watched[p] = c
        BY <3>1, <4>1 DEF ParkInv, TreeTypeOK
      <4>2. CASE watched[p] # c
        BY <3>1, <4>2 DEF NoLostWaiter, TreeTypeOK
      <4> QED
        BY <4>1, <4>2
    <3> QED
      BY <3>2, <3>3
  <2>7. ASSUME NEW t \in Threads, NEW q \in Futures, WakeWaiter(t, q) PROVE IInv'
    <3>1. /\ wakers' = [wakers EXCEPT ![t] = @ \ {q}]
          /\ stage' = stage \/ (stage[q] = "parked" /\ stage' = [stage EXCEPT ![q] = "woken"])
          /\ stage'[q] # "parked"
          /\ UNCHANGED <<alive, flag, waiters, watched, at>>
      BY <2>7 DEF WakeWaiter, TreeTypeOK
    <3>2. ParkInv'
      BY <3>1 DEF ParkInv, TreeTypeOK
    <3>3. NoLostWaiter'
      BY <3>1 DEF NoLostWaiter, TreeTypeOK
    <3> QED
      BY <3>2, <3>3
  <2>8. ASSUME NEW t \in Threads, Return(t) PROVE IInv'
    BY <2>8, <2>1 DEF Return
  <2>9. ASSUME NEW p \in Futures, NEW c \in Tokens, Watch(p, c) PROVE IInv'
    <3>1. /\ c \in alive /\ watched' = [watched EXCEPT ![p] = c]
          /\ stage' = [stage EXCEPT ![p] = "woken"]
          /\ UNCHANGED <<alive, flag, waiters, wakers, at>>
      BY <2>9 DEF Watch, TreeTypeOK
    <3> QED
      BY <3>1 DEF ParkInv, NoLostWaiter, TreeTypeOK
  <2>10. ASSUME NEW p \in Futures, Poll(p) PROVE IInv'
    BY <2>10 DEF Poll, ParkInv, NoLostWaiter, TreeTypeOK
  <2>11. ASSUME NEW p \in Futures, WalkUp(p) PROVE IInv'
    BY <2>11 DEF WalkUp, ParkInv, NoLostWaiter, TreeTypeOK
  <2>12. ASSUME NEW p \in Futures, WalkFinds(p) PROVE IInv'
    BY <2>12 DEF WalkFinds, ParkInv, NoLostWaiter, TreeTypeOK
  <2>13. ASSUME NEW p \in Futures, Locks(p) PROVE IInv'
    BY <2>13 DEF Locks, ParkInv, NoLostWaiter, TreeTypeOK
  <2>14. ASSUME NEW p \in Futures, Registers(p) PROVE IInv'
    <3>1. watched[p] \notin flag /\ watched[p] \in Tokens
      BY <2>14 DEF Registers, AtTop, ParkInv, TreeTypeOK
    <3> QED
      BY <2>14, <3>1 DEF Registers, ParkInv, NoLostWaiter, TreeTypeOK
  <2>15. ASSUME NEW p \in Futures, FutureDropped(p) PROVE IInv'
    <3>1. watched[p] \in Tokens
      BY <2>15 DEF FutureDropped, ParkInv, TreeTypeOK
    <3>2. /\ stage' = [stage EXCEPT ![p] = "gone"]
          /\ waiters' = [waiters EXCEPT ![watched[p]] = @ \ {p}]
          /\ watched' = [watched EXCEPT ![p] = Nil]
          /\ UNCHANGED <<alive, flag, wakers, at>>
      BY <2>15 DEF FutureDropped
    <3> QED
      BY <3>1, <3>2 DEF ParkInv, NoLostWaiter, TreeTypeOK
  <2>16. CASE UNCHANGED treeVars
    BY <2>16, <2>1 DEF treeVars
  <2> QED
    BY <2>2, <2>3, <2>4, <2>5, <2>6, <2>7, <2>8, <2>9, <2>10, <2>11, <2>12, <2>13, <2>14,
       <2>15, <2>16 DEF TreeNext, Host, Call, PollStep
<1> QED
  BY <1>1, <1>2, TreeTypeCorrect, PTL DEF TreeSpec

-----------------------------------------------------------------------------
\* A token is listed by no other than its parent.
Listed == \A c \in Tokens : \A d \in children[c] : parent[d] = c
BoundInv == Listed /\ ChildrenBounded

\* The list after the child c was linked below p: pruned to what lives, or not
\* yet grown to where it is pruned.
LEMMA LinkedListIsBounded ==
    ASSUME TreeTypeOK, Listed, NEW p \in Tokens, NEW c \in Tokens
    PROVE  /\ Cardinality(Pruned(p) \cup {c}) \in Nat /\ Cardinality(LiveChildren(p)) \in Nat
           /\ Cardinality(Pruned(p) \cup {c}) <= 2 * (Cardinality(LiveChildren(p)) + 1) + Slack
<1> DEFINE living == Cardinality(LiveChildren(p))
<1>1. IsFiniteSet(children[p]) /\ IsFiniteSet(LiveChildren(p)) /\ IsFiniteSet(Pruned(p))
  <2>1. children[p] \subseteq Tokens /\ LiveChildren(p) \subseteq Tokens
        /\ Pruned(p) \subseteq Tokens
    BY DEF TreeTypeOK, LiveChildren, Pruned
  <2> QED
    BY <2>1, CancelAssumption, FS_Subset
<1>2. /\ living \in Nat /\ Cardinality(Pruned(p)) \in Nat /\ Slack \in Nat
      /\ Cardinality(children[p]) \in Nat /\ Cardinality(Pruned(p) \cup {c}) \in Nat
      /\ Cardinality(Pruned(p) \cup {c}) <= Cardinality(Pruned(p)) + 1
  <2>1. IsFiniteSet(Pruned(p) \cup {c})
    BY <1>1, FS_AddElement
  <2>2. \/ Cardinality(Pruned(p) \cup {c}) = Cardinality(Pruned(p))
        \/ Cardinality(Pruned(p) \cup {c}) = Cardinality(Pruned(p)) + 1
    BY <1>1, FS_AddElement
  <2>3. /\ living \in Nat /\ Cardinality(Pruned(p)) \in Nat /\ Slack \in Nat
        /\ Cardinality(children[p]) \in Nat /\ Cardinality(Pruned(p) \cup {c}) \in Nat
    BY <1>1, <2>1, FS_CardinalityType, CancelAssumption
  <2> HIDE DEF living
  <2> QED
    BY <2>2, <2>3
<1>3. CASE Cardinality(children[p]) >= 2 * living + Slack
  <2>1. Pruned(p) \subseteq LiveChildren(p)
    BY <1>3 DEF Pruned, LiveChildren, Listed
  <2>2. Cardinality(Pruned(p)) <= living
    BY <1>1, <2>1, FS_Subset
  <2> HIDE DEF living
  <2> QED
    BY <1>2, <2>2 DEF living
<1>4. CASE ~(Cardinality(children[p]) >= 2 * living + Slack)
  <2>1. Pruned(p) = children[p]
    BY <1>4 DEF Pruned
  <2>2. Cardinality(Pruned(p)) < 2 * living + Slack
    BY <1>2, <1>4, <2>1
  <2> HIDE DEF living
  <2> QED
    BY <1>2, <2>2 DEF living
<1> QED
  BY <1>3, <1>4

LEMMA LinkKeepsBound ==
    ASSUME TreeTypeOK, TreeInv, BoundInv, NEW p \in Tokens, NEW c \in Tokens, Child(p, c)
    PROVE  BoundInv'
<1> USE CancelAssumption
<1>1. CASE p \in flag
  BY <1>1 DEF Child, Link, BoundInv, Listed, ChildrenBounded
<1>2. CASE p \notin flag
  <2>1. /\ parent' = [parent EXCEPT ![c] = p]
        /\ children' = [children EXCEPT ![p] = Pruned(p) \cup {c}]
        /\ peak' = IF peak[p] > Cardinality(LiveChildren(p)) THEN peak
                   ELSE [peak EXCEPT ![p] = Cardinality(LiveChildren(p)) + 1]
    BY <1>2 DEF Child, Link
  <2>2. parent[c] = Nil /\ p # Nil /\ Pruned(p) \subseteq children[p]
    BY DEF Child, TreeInv, Pruned
  <2>3. Listed'
    <3> SUFFICES ASSUME NEW q \in Tokens, NEW d \in children'[q] PROVE parent'[d] = q
      BY DEF Listed
    <3>1. d \in children[q] \/ (q = p /\ d = c)
      BY <2>1, <2>2 DEF TreeTypeOK
    <3>2. CASE d \in children[q]
      <4>1. parent[d] = q /\ d \in Tokens /\ q # Nil
        BY <3>2 DEF BoundInv, Listed, TreeTypeOK
      <4> QED
        BY <2>1, <2>2, <4>1 DEF TreeTypeOK
    <3> QED
      BY <2>1, <3>1, <3>2 DEF TreeTypeOK
  <2>4. ASSUME NEW q \in Tokens PROVE Cardinality(children'[q]) <= 2 * peak'[q] + Slack
    <3>1. CASE q # p
      <4>1. children'[q] = children[q] /\ peak'[q] = peak[q]
        BY <2>1, <3>1 DEF TreeTypeOK
      <4> QED
        BY <4>1 DEF BoundInv, ChildrenBounded
    <3>2. CASE q = p
      <4>1. children'[p] = Pruned(p) \cup {c}
        BY <2>1 DEF TreeTypeOK
      <4>2. /\ Cardinality(Pruned(p) \cup {c}) \in Nat /\ Cardinality(LiveChildren(p)) \in Nat
            /\ Cardinality(Pruned(p) \cup {c})
                  <= 2 * (Cardinality(LiveChildren(p)) + 1) + Slack
        BY LinkedListIsBounded DEF BoundInv
      <4>3. peak[p] \in Nat /\ Slack \in Nat
        BY DEF TreeTypeOK
      <4>4. peak'[p] \in Nat /\ peak'[p] >= Cardinality(LiveChildren(p)) + 1
        BY <2>1, <4>2, <4>3 DEF TreeTypeOK
      <4> QED
        BY <3>2, <4>1, <4>2, <4>3, <4>4
    <3> QED
      BY <3>1, <3>2
  <2> QED
    BY <2>3, <2>4 DEF BoundInv, ChildrenBounded
<1> QED
  BY <1>1, <1>2

\* A parent's list of children never holds more than twice as many as lived below
\* it at a time, and the slack: what is dropped is pruned before it piles up.
THEOREM ChildrenAreBounded == TreeSpec => []ChildrenBounded
<1> USE CancelAssumption
<1>1. TreeInit => BoundInv
  <2> SUFFICES ASSUME TreeInit, NEW c \in Tokens
               PROVE  children[c] = {} /\ Cardinality(children[c]) <= 2 * peak[c] + Slack
    BY DEF BoundInv, Listed, ChildrenBounded
  <2>1. children[c] = {} /\ peak[c] = 0
    BY DEF TreeInit
  <2> QED
    BY <2>1, FS_EmptySet
<1>2. TreeTypeOK /\ TreeInv /\ BoundInv /\ [TreeNext]_treeVars => BoundInv'
  <2> SUFFICES ASSUME TreeTypeOK, TreeInv, BoundInv, [TreeNext]_treeVars PROVE BoundInv'
    OBVIOUS
  <2> USE DEF tree, call, future
  <2>1. ASSUME NEW c \in Tokens, NEW p \in Tokens, Child(p, c) PROVE BoundInv'
    BY <2>1, LinkKeepsBound
  <2>2. ASSUME NEW t \in Threads, NEW c \in Tokens, Fire(t, c) PROVE BoundInv'
    <3>1. UNCHANGED <<parent, peak>> /\ children' = [children EXCEPT ![c] = {}]
      BY <2>2 DEF Fire
    <3>2. ASSUME NEW q \in Tokens
          PROVE  /\ \A d \in children'[q] : parent'[d] = q
                 /\ Cardinality(children'[q]) <= 2 * peak'[q] + Slack
      <4>1. CASE q # c
        <5>1. children'[q] = children[q]
          BY <3>1, <4>1 DEF TreeTypeOK
        <5> QED
          BY <3>1, <5>1 DEF BoundInv, Listed, ChildrenBounded
      <4>2. CASE q = c
        <5>1. children'[q] = {} /\ peak'[q] \in Nat
          BY <3>1, <4>2 DEF TreeTypeOK
        <5>2. Cardinality(children'[q]) = 0
          BY <5>1, FS_EmptySet
        <5>3. 0 <= 2 * peak'[q] + Slack
          BY <5>1
        <5> QED
          BY <5>1, <5>2, <5>3
      <4> QED
        BY <4>1, <4>2
    <3> QED
      BY <3>2 DEF BoundInv, Listed, ChildrenBounded
  <2>3. CASE UNCHANGED <<parent, children, peak>>
    BY <2>3 DEF BoundInv, Listed, ChildrenBounded
  <2> QED
    BY <2>1, <2>2, <2>3 DEF TreeNext, Host, HostDrops, Freed, Call, Trigger, FiredBefore,
                           WakeWaiter, Return,
       PollStep, Poll, WalkUp, WalkFinds, Locks, Registers, FutureDropped, Watch, tree, treeVars
<1>3. BoundInv => ChildrenBounded
  BY DEF BoundInv
<1> QED
  BY <1>1, <1>2, <1>3, TreeTypeCorrect, TreeGrows, PTL DEF TreeSpec

-----------------------------------------------------------------------------
(***************************************************************************)
(* The rules one after the other: the first that is broken is the error, and     *)
(* nothing is refused exactly when none is.                                    *)
(***************************************************************************)
OfReach == {"UnreachableNode", "EndUnreachable"}
OfNodes == {"NoNodes", "InvalidNodeName", "InvalidNodeKind", "InvalidNodeSubkind", "DuplicateNodeName"}
OfEntries == {"NoEntry", "DuplicateEntry", "EntryNotANode"}
OfTargets == {"EmptyTargets", "DuplicateTarget", "UnknownTarget"}
OfEdges == {"InvalidEdgeName", "DuplicateEdgeName", "EdgeSourceNotANode", "NodeWithSeveralEdges",
            "NodeWithoutEdge"}
OfRules == {"InvalidVersion"} \cup OfNodes \cup OfEntries \cup OfTargets \cup OfEdges
Verdicts == {Ok} \cup [error : OfRules, name : Nat]

\* The errors the rules give, none of them of reach.
LEMMA RuleRefuses ==
    ASSUME NEW what \in OfRules, NEW name \in Nat
    PROVE  [error |-> what, name |-> name] \in Verdicts \ {Ok} /\ Ok \in Verdicts
<1> DEFINE r == [error |-> what, name |-> name]
<1>1. r \in [error : OfRules, name : Nat] OBVIOUS
<1>2. r.error = what /\ Ok.error = "none" /\ what # "none"
  BY DEF Ok, OfRules, OfNodes, OfEntries, OfTargets, OfEdges
<1>3. r # Ok
  <2> HIDE DEF r
  <2> QED BY <1>2
<1> HIDE DEF r
<1>4. r \in Verdicts \ {Ok} /\ Ok \in Verdicts BY <1>1, <1>3 DEF Verdicts
<1> QED BY <1>4 DEF r

LEMMA FirstRefusal ==
    ASSUME NEW checks \in Seq(Verdicts)
    PROVE  /\ FirstOf(checks) \in Verdicts
           /\ FirstOf(checks) = Ok <=> \A i \in DOMAIN checks : checks[i] = Ok
<1> DEFINE refused == {i \in DOMAIN checks : checks[i] # Ok}
           least == CHOOSE i \in refused : \A j \in refused : i <= j
<1>1. FirstOf(checks) = IF refused = {} THEN Ok ELSE checks[least] BY DEF FirstOf
<1>2. CASE refused = {}
  <2>1. Ok \in Verdicts BY DEF Verdicts
  <2> QED BY <1>1, <1>2, <2>1
<1>3. CASE refused # {}
  <2>1. refused \in SUBSET Nat OBVIOUS
  <2>2. \E i \in refused : \A j \in refused : i <= j
    <3> HIDE DEF refused
    <3> QED BY <2>1, <1>3, LeastNumber
  <2>3. least \in refused BY <2>2
  <2>4. least \in DOMAIN checks /\ checks[least] # Ok /\ checks[least] \in Verdicts
    <3> HIDE DEF least
    <3> QED BY <2>3
  <2> HIDE DEF least
  <2> QED BY <1>1, <1>3, <2>4
<1> QED BY <1>2, <1>3

LEMMA FirstOfTwo ==
    ASSUME NEW a \in Verdicts, NEW b \in Verdicts
    PROVE  /\ FirstOf(<<a, b>>) \in Verdicts
           /\ FirstOf(<<a, b>>) = Ok <=> a = Ok /\ b = Ok
<1> DEFINE checks == <<a, b>>
<1>1. checks \in Seq(Verdicts) /\ DOMAIN checks = 1..2 /\ checks[1] = a /\ checks[2] = b OBVIOUS
<1>2. \A i : i \in 1..2 <=> i = 1 \/ i = 2 OBVIOUS
<1> HIDE DEF checks
<1>3. (\A i \in DOMAIN checks : checks[i] = Ok) <=> a = Ok /\ b = Ok BY <1>1, <1>2
<1>4. FirstOf(checks) \in Verdicts /\ (FirstOf(checks) = Ok <=> a = Ok /\ b = Ok)
  BY <1>1, <1>3, FirstRefusal
<1> QED BY <1>4 DEF checks

LEMMA FirstOfFour ==
    ASSUME NEW a \in Verdicts, NEW b \in Verdicts, NEW c \in Verdicts, NEW d \in Verdicts
    PROVE  /\ FirstOf(<<a, b, c, d>>) \in Verdicts
           /\ FirstOf(<<a, b, c, d>>) = Ok <=> a = Ok /\ b = Ok /\ c = Ok /\ d = Ok
<1> DEFINE checks == <<a, b, c, d>>
<1>1. /\ checks \in Seq(Verdicts) /\ DOMAIN checks = 1..4
      /\ checks[1] = a /\ checks[2] = b /\ checks[3] = c /\ checks[4] = d
  OBVIOUS
<1>2. \A i : i \in 1..4 <=> i = 1 \/ i = 2 \/ i = 3 \/ i = 4 OBVIOUS
<1> HIDE DEF checks
<1>3. (\A i \in DOMAIN checks : checks[i] = Ok) <=> a = Ok /\ b = Ok /\ c = Ok /\ d = Ok
  BY <1>1, <1>2
<1>4. /\ FirstOf(checks) \in Verdicts
      /\ FirstOf(checks) = Ok <=> a = Ok /\ b = Ok /\ c = Ok /\ d = Ok
  BY <1>1, <1>3, FirstRefusal
<1> QED BY <1>4 DEF checks

LEMMA FirstOfJoined ==
    ASSUME NEW s \in Seq(Verdicts), NEW t \in Seq(Verdicts)
    PROVE  /\ FirstOf(s \o t) \in Verdicts
           /\ FirstOf(s \o t) = Ok <=>
                 /\ \A i \in DOMAIN s : s[i] = Ok
                 /\ \A i \in DOMAIN t : t[i] = Ok
<1> DEFINE u == s \o t
<1>1. /\ u \in Seq(Verdicts) /\ Len(s) \in Nat /\ Len(t) \in Nat
      /\ DOMAIN u = 1..(Len(s) + Len(t)) /\ DOMAIN s = 1..Len(s) /\ DOMAIN t = 1..Len(t)
  OBVIOUS
<1>2. /\ \A i \in 1..Len(s) : u[i] = s[i]
      /\ \A i \in 1..Len(t) : u[Len(s) + i] = t[i]
  OBVIOUS
<1>3. /\ \A i \in 1..Len(s) : i \in 1..(Len(s) + Len(t))
      /\ \A i \in 1..Len(t) : Len(s) + i \in 1..(Len(s) + Len(t))
      /\ \A i \in 1..(Len(s) + Len(t)) :
            i \in 1..Len(s) \/ (i - Len(s) \in 1..Len(t) /\ Len(s) + (i - Len(s)) = i)
  BY <1>1
<1> HIDE DEF u
<1>4. (\A i \in DOMAIN u : u[i] = Ok) <=>
         (\A i \in DOMAIN s : s[i] = Ok) /\ (\A i \in DOMAIN t : t[i] = Ok)
  <2>1. ASSUME \A i \in DOMAIN u : u[i] = Ok
        PROVE  (\A i \in DOMAIN s : s[i] = Ok) /\ (\A i \in DOMAIN t : t[i] = Ok)
    BY <2>1, <1>1, <1>2, <1>3
  <2>2. ASSUME \A i \in DOMAIN s : s[i] = Ok, \A i \in DOMAIN t : t[i] = Ok,
               NEW i \in DOMAIN u
        PROVE  u[i] = Ok
    <3>1. CASE i \in 1..Len(s) BY <3>1, <2>2, <1>1, <1>2
    <3>2. CASE i - Len(s) \in 1..Len(t) /\ Len(s) + (i - Len(s)) = i
      <4>1. u[Len(s) + (i - Len(s))] = t[i - Len(s)] BY <3>2, <1>2
      <4> QED BY <4>1, <3>2, <2>2, <1>1
    <3> QED BY <3>1, <3>2, <1>1, <1>3
  <2> QED BY <2>1, <2>2
<1>5. /\ FirstOf(u) \in Verdicts
      /\ FirstOf(u) = Ok <=>
            (\A i \in DOMAIN s : s[i] = Ok) /\ (\A i \in DOMAIN t : t[i] = Ok)
  BY <1>1, <1>4, FirstRefusal
<1> QED BY <1>5 DEF u

-----------------------------------------------------------------------------
(***************************************************************************)
(* A shape that passes the rules is one that follows them: rule after rule, what  *)
(* a check reads at one place of a sequence is what the rule says of its set.     *)
(***************************************************************************)
Nodes == [name : Nat \ {END}, kind : Nat, subkind : Nat]
Edges == [name : Nat, source : Nat \ {END}, targets : Seq(Nat)]

LEMMA ShapeParts ==
    ASSUME NEW g \in Shapes
    PROVE  /\ g.version \in Nat /\ g.nodes \in Seq(Nodes) /\ g.edges \in Seq(Edges)
           /\ g.entries \in Seq(Nat \ {END})
           /\ \A i \in DOMAIN g.nodes : g.nodes[i] \in Nodes
           /\ \A i \in DOMAIN g.edges : g.edges[i] \in Edges
           /\ \A i \in DOMAIN g.entries : g.entries[i] \in Nat \ {END}
<1>1. /\ g.version \in Nat /\ g.nodes \in Seq(Nodes) /\ g.edges \in Seq(Edges)
      /\ g.entries \in Seq(Nat \ {END})
  BY DEF Shapes, Nodes, Edges
<1> QED BY <1>1

\* The names told apart, place by place: none is met again.
LEMMA FirstMet ==
    ASSUME NEW S, NEW s \in Seq(S)
    PROVE  (\A i \in DOMAIN s : ~\E j \in 1..i - 1 : s[j].name = s[i].name) <=> Unique(s)
<1>1. DOMAIN s = 1..Len(s) /\ Len(s) \in Nat OBVIOUS
<1>2. ASSUME Unique(s), NEW i \in DOMAIN s, NEW j \in 1..i - 1, s[j].name = s[i].name
      PROVE  FALSE
  <2>1. i \in Nat /\ j \in DOMAIN s /\ j # i BY <1>1
  <2> QED BY <1>2, <2>1 DEF Unique
<1>3. ASSUME \A i \in DOMAIN s : ~\E j \in 1..i - 1 : s[j].name = s[i].name
      PROVE  Unique(s)
  <2> SUFFICES ASSUME NEW i \in DOMAIN s, NEW j \in DOMAIN s, s[i].name = s[j].name, i # j
               PROVE  FALSE
    BY DEF Unique
  <2>1. i \in 1..j - 1 \/ j \in 1..i - 1 BY <1>1
  <2> QED BY <1>3, <2>1
<1> QED BY <1>2, <1>3

LEMMA FirstStood ==
    ASSUME NEW S, NEW s \in Seq(S)
    PROVE  (\A i \in DOMAIN s : s[i] \notin Before(s, i)) <=> IsInjective(s)
<1>1. DOMAIN s = 1..Len(s) /\ Len(s) \in Nat OBVIOUS
<1>2. ASSUME IsInjective(s), NEW i \in DOMAIN s, s[i] \in Before(s, i)
      PROVE  FALSE
  <2>1. PICK j \in 1..i - 1 : s[j] = s[i] BY <1>2 DEF Before
  <2>2. i \in Nat /\ j \in DOMAIN s /\ j # i BY <1>1
  <2> QED BY <1>2, <2>1, <2>2 DEF IsInjective
<1>3. ASSUME \A i \in DOMAIN s : s[i] \notin Before(s, i)
      PROVE  IsInjective(s)
  <2> SUFFICES ASSUME NEW i \in DOMAIN s, NEW j \in DOMAIN s, s[i] = s[j], i # j
               PROVE  FALSE
    BY DEF IsInjective
  <2>1. i \in 1..j - 1 \/ j \in 1..i - 1 BY <1>1
  <2> QED BY <1>3, <2>1 DEF Before
<1> QED BY <1>2, <1>3

LEMMA NodesChecked ==
    ASSUME NEW g \in Shapes
    PROVE  /\ CheckNodes(g) \in Verdicts
           /\ CheckNodes(g) = Ok <=>
                 /\ g.nodes # <<>> /\ Unique(g.nodes)
                 /\ \A i \in DOMAIN g.nodes :
                       {g.nodes[i].name, g.nodes[i].kind, g.nodes[i].subkind} \cap Malformed = {}
<1> DEFINE nodes == g.nodes
           first == Refusal(nodes = <<>>, "NoNodes", END)
           each == [i \in DOMAIN nodes |-> NodeCheck(nodes, i)]
           again(i) == \E j \in 1..i - 1 : nodes[j].name = nodes[i].name
           sound(i) == {nodes[i].name, nodes[i].kind, nodes[i].subkind} \cap Malformed = {}
<1>1. nodes \in Seq(Nodes) /\ \A i \in DOMAIN nodes : nodes[i] \in Nodes BY ShapeParts
<1>2. first \in Verdicts /\ (first = Ok <=> nodes # <<>>)
  <2>1. "NoNodes" \in OfRules /\ END \in Nat BY DEF OfRules, OfNodes, END
  <2>2. [error |-> "NoNodes", name |-> END] \in Verdicts \ {Ok} /\ Ok \in Verdicts
    BY <2>1, RuleRefuses
  <2> QED BY <2>2 DEF Refusal
<1>3. ASSUME NEW i \in DOMAIN nodes
      PROVE  each[i] \in Verdicts /\ (each[i] = Ok <=> ~again(i) /\ sound(i))
  <2> DEFINE this == nodes[i]
             a == Refusal(this.name \in Malformed, "InvalidNodeName", this.name)
             b == Refusal(this.kind \in Malformed, "InvalidNodeKind", this.name)
             c == Refusal(this.subkind \in Malformed, "InvalidNodeSubkind", this.name)
             d == Refusal(again(i), "DuplicateNodeName", this.name)
  <2>1. this.name \in Nat BY <1>1 DEF Nodes
  <2> HIDE DEF nodes
  <2>2. /\ a \in Verdicts /\ (a = Ok <=> this.name \notin Malformed)
        /\ b \in Verdicts /\ (b = Ok <=> this.kind \notin Malformed)
        /\ c \in Verdicts /\ (c = Ok <=> this.subkind \notin Malformed)
        /\ d \in Verdicts /\ (d = Ok <=> ~again(i))
    <3>1. \A what \in OfNodes :
             [error |-> what, name |-> this.name] \in Verdicts \ {Ok} /\ Ok \in Verdicts
      BY <2>1, RuleRefuses DEF OfRules
    <3> HIDE DEF again
    <3> QED BY <3>1 DEF Refusal, OfNodes
  <2>3. each[i] = FirstOf(<<a, b, c, d>>) BY <1>3 DEF NodeCheck
  <2> HIDE DEF a, b, c, d
  <2>4. each[i] \in Verdicts /\ (each[i] = Ok <=> a = Ok /\ b = Ok /\ c = Ok /\ d = Ok)
    BY <2>2, <2>3, FirstOfFour
  <2>5. sound(i) <=> this.name \notin Malformed /\ this.kind \notin Malformed
                        /\ this.subkind \notin Malformed
    OBVIOUS
  <2> QED BY <2>2, <2>4, <2>5
<1>4. <<first>> \in Seq(Verdicts) /\ DOMAIN <<first>> = 1..1 /\ <<first>>[1] = first
  <2> HIDE DEF first
  <2> QED BY <1>2
<1>5. each \in Seq(Verdicts) /\ DOMAIN each = DOMAIN nodes
  <2>1. DOMAIN nodes = 1..Len(nodes) /\ Len(nodes) \in Nat BY <1>1
  <2>2. \A i \in DOMAIN nodes : each[i] \in Verdicts BY <1>3
  <2>3. each \in [1..Len(nodes) -> Verdicts] BY <2>1, <2>2
  <2> QED BY <2>1, <2>3
<1>6. CheckNodes(g) = FirstOf(<<first>> \o each) BY DEF CheckNodes
<1>7. /\ CheckNodes(g) \in Verdicts
      /\ CheckNodes(g) = Ok <=> first = Ok /\ \A i \in DOMAIN nodes : each[i] = Ok
  <2> HIDE DEF first, each
  <2>1. (\A i \in DOMAIN <<first>> : <<first>>[i] = Ok) <=> first = Ok BY <1>4
  <2> QED BY <2>1, <1>4, <1>5, <1>6, FirstOfJoined
<1>8. (\A i \in DOMAIN nodes : ~again(i)) <=> Unique(nodes) BY <1>1, FirstMet
<1>9. (\A i \in DOMAIN nodes : each[i] = Ok) <=>
         (\A i \in DOMAIN nodes : ~again(i)) /\ (\A i \in DOMAIN nodes : sound(i))
  <2> HIDE DEF each, again, sound
  <2> QED BY <1>3
<1> HIDE DEF first, each, again
<1> QED BY <1>2, <1>7, <1>8, <1>9

\* One check, and then one at each place of a sequence.
LEMMA FirstOfEach ==
    ASSUME NEW first \in Verdicts, NEW S, NEW s \in Seq(S), NEW each,
           each = [i \in DOMAIN s |-> each[i]],
           \A i \in DOMAIN s : each[i] \in Verdicts
    PROVE  /\ FirstOf(<<first>> \o each) \in Verdicts
           /\ FirstOf(<<first>> \o each) = Ok <=> first = Ok /\ \A i \in DOMAIN s : each[i] = Ok
<1>1. DOMAIN s = 1..Len(s) /\ Len(s) \in Nat OBVIOUS
<1>2. each \in Seq(Verdicts) /\ DOMAIN each = DOMAIN s
  <2>1. each \in [1..Len(s) -> Verdicts] BY <1>1
  <2> QED BY <1>1, <2>1
<1>3. /\ <<first>> \in Seq(Verdicts) /\ DOMAIN <<first>> = 1..1 /\ <<first>>[1] = first
      /\ \A i : i \in 1..1 <=> i = 1
  OBVIOUS
<1>4. (\A i \in DOMAIN <<first>> : <<first>>[i] = Ok) <=> first = Ok BY <1>3
<1> QED BY <1>2, <1>3, <1>4, FirstOfJoined

LEMMA EntriesChecked ==
    ASSUME NEW g \in Shapes
    PROVE  /\ CheckEntries(g) \in Verdicts
           /\ CheckEntries(g) = Ok <=>
                 g.entries # <<>> /\ IsInjective(g.entries) /\ Entries(g) \subseteq Names(g)
<1> DEFINE entries == g.entries
           first == Refusal(entries = <<>>, "NoEntry", END)
           each == [i \in DOMAIN entries |-> EntryCheck(g, i)]
<1>1. entries \in Seq(Nat \ {END}) /\ \A i \in DOMAIN entries : entries[i] \in Nat BY ShapeParts
<1> HIDE DEF entries
<1>2. first \in Verdicts /\ (first = Ok <=> entries # <<>>)
  <2>1. "NoEntry" \in OfRules /\ END \in Nat BY DEF OfRules, OfEntries, END
  <2>2. [error |-> "NoEntry", name |-> END] \in Verdicts \ {Ok} /\ Ok \in Verdicts
    BY <2>1, RuleRefuses
  <2> QED BY <2>2 DEF Refusal
<1>3. ASSUME NEW i \in DOMAIN entries
      PROVE  /\ each[i] \in Verdicts
             /\ each[i] = Ok <=> entries[i] \notin Before(entries, i) /\ entries[i] \in Names(g)
  <2> DEFINE a == Refusal(entries[i] \in Before(entries, i), "DuplicateEntry", entries[i])
             b == Refusal(entries[i] \notin Names(g), "EntryNotANode", entries[i])
  <2>1. \A what \in OfEntries :
           [error |-> what, name |-> entries[i]] \in Verdicts \ {Ok} /\ Ok \in Verdicts
    BY <1>1, <1>3, RuleRefuses DEF OfRules
  <2>2. /\ a \in Verdicts /\ (a = Ok <=> entries[i] \notin Before(entries, i))
        /\ b \in Verdicts /\ (b = Ok <=> entries[i] \in Names(g))
    BY <2>1 DEF Refusal, OfEntries
  <2>3. each[i] = FirstOf(<<a, b>>) BY <1>3 DEF EntryCheck, entries
  <2> HIDE DEF a, b, each
  <2> QED BY <2>2, <2>3, FirstOfTwo
<1>4. CheckEntries(g) = FirstOf(<<first>> \o each) BY DEF CheckEntries, entries
<1>5. /\ CheckEntries(g) \in Verdicts
      /\ CheckEntries(g) = Ok <=> first = Ok /\ \A i \in DOMAIN entries : each[i] = Ok
  <2>1. each = [i \in DOMAIN entries |-> each[i]] OBVIOUS
  <2> HIDE DEF first, each
  <2> QED BY <2>1, <1>1, <1>2, <1>3, <1>4, FirstOfEach
<1>6. (\A i \in DOMAIN entries : entries[i] \notin Before(entries, i)) <=> IsInjective(entries)
  BY <1>1, FirstStood
<1>7. (\A i \in DOMAIN entries : entries[i] \in Names(g)) <=> Entries(g) \subseteq Names(g)
  BY DEF Entries, entries
<1> HIDE DEF first, each
<1>8. (\A i \in DOMAIN entries : each[i] = Ok) <=>
         IsInjective(entries) /\ Entries(g) \subseteq Names(g)
  BY <1>3, <1>6, <1>7
<1>9. /\ CheckEntries(g) \in Verdicts
      /\ CheckEntries(g) = Ok <=>
            entries # <<>> /\ IsInjective(entries) /\ Entries(g) \subseteq Names(g)
  BY <1>2, <1>5, <1>8
<1> QED BY <1>9 DEF entries

LEMMA TargetsChecked ==
    ASSUME NEW g, NEW e \in Edges
    PROVE  /\ CheckTargets(g, e) \in Verdicts
           /\ CheckTargets(g, e) = Ok <=>
                 /\ e.targets # <<>> /\ IsInjective(e.targets)
                 /\ TargetsOf(e) \subseteq Names(g) \cup {END}
<1> DEFINE targets == e.targets
           name == e.name
           first == Refusal(targets = <<>>, "EmptyTargets", name)
           each == [i \in DOMAIN targets |-> TargetCheck(g, e, i)]
<1>1. targets \in Seq(Nat) /\ name \in Nat BY DEF Edges
<1> HIDE DEF targets, name
<1>2. \A what \in OfTargets :
         [error |-> what, name |-> name] \in Verdicts \ {Ok} /\ Ok \in Verdicts
  BY <1>1, RuleRefuses DEF OfRules
<1>3. first \in Verdicts /\ (first = Ok <=> targets # <<>>) BY <1>2 DEF Refusal, OfTargets
<1>4. ASSUME NEW i \in DOMAIN targets
      PROVE  /\ each[i] \in Verdicts
             /\ each[i] = Ok <=> targets[i] \notin Before(targets, i)
                                    /\ targets[i] \in Names(g) \cup {END}
  <2> DEFINE a == Refusal(targets[i] \in Before(targets, i), "DuplicateTarget", name)
             b == Refusal(targets[i] \notin Names(g) \cup {END}, "UnknownTarget", name)
  <2>1. /\ a \in Verdicts /\ (a = Ok <=> targets[i] \notin Before(targets, i))
        /\ b \in Verdicts /\ (b = Ok <=> targets[i] \in Names(g) \cup {END})
    BY <1>2 DEF Refusal, OfTargets
  <2>2. each[i] = FirstOf(<<a, b>>) BY <1>4 DEF TargetCheck, targets, name
  <2> HIDE DEF a, b, each
  <2> QED BY <2>1, <2>2, FirstOfTwo
<1>5. CheckTargets(g, e) = FirstOf(<<first>> \o each) BY DEF CheckTargets, targets, name
<1>6. /\ CheckTargets(g, e) \in Verdicts
      /\ CheckTargets(g, e) = Ok <=> first = Ok /\ \A i \in DOMAIN targets : each[i] = Ok
  <2>1. each = [i \in DOMAIN targets |-> each[i]] OBVIOUS
  <2> HIDE DEF first, each
  <2> QED BY <2>1, <1>1, <1>3, <1>4, <1>5, FirstOfEach
<1>7. (\A i \in DOMAIN targets : targets[i] \notin Before(targets, i)) <=> IsInjective(targets)
  BY <1>1, FirstStood
<1>8. (\A i \in DOMAIN targets : targets[i] \in Names(g) \cup {END})
         <=> TargetsOf(e) \subseteq Names(g) \cup {END}
  BY DEF TargetsOf, targets
<1> HIDE DEF first, each
<1>9. (\A i \in DOMAIN targets : each[i] = Ok) <=>
         IsInjective(targets) /\ TargetsOf(e) \subseteq Names(g) \cup {END}
  BY <1>4, <1>7, <1>8
<1>10. /\ CheckTargets(g, e) \in Verdicts
       /\ CheckTargets(g, e) = Ok <=>
             targets # <<>> /\ IsInjective(targets) /\ TargetsOf(e) \subseteq Names(g) \cup {END}
  BY <1>3, <1>6, <1>9
<1> QED BY <1>10 DEF targets

LEMMA FirstOfFive ==
    ASSUME NEW a \in Verdicts, NEW b \in Verdicts, NEW c \in Verdicts, NEW d \in Verdicts,
           NEW e \in Verdicts
    PROVE  /\ FirstOf(<<a, b, c, d, e>>) \in Verdicts
           /\ FirstOf(<<a, b, c, d, e>>) = Ok <=> a = Ok /\ b = Ok /\ c = Ok /\ d = Ok /\ e = Ok
<1> DEFINE checks == <<a, b, c, d, e>>
<1>1. /\ checks \in Seq(Verdicts) /\ DOMAIN checks = 1..5
      /\ checks[1] = a /\ checks[2] = b /\ checks[3] = c /\ checks[4] = d /\ checks[5] = e
  OBVIOUS
<1>2. \A i : i \in 1..5 <=> i = 1 \/ i = 2 \/ i = 3 \/ i = 4 \/ i = 5 OBVIOUS
<1> HIDE DEF checks
<1>3. (\A i \in DOMAIN checks : checks[i] = Ok)
         <=> a = Ok /\ b = Ok /\ c = Ok /\ d = Ok /\ e = Ok
  BY <1>1, <1>2
<1>4. /\ FirstOf(checks) \in Verdicts
      /\ FirstOf(checks) = Ok <=> a = Ok /\ b = Ok /\ c = Ok /\ d = Ok /\ e = Ok
  BY <1>1, <1>3, FirstRefusal
<1> QED BY <1>4 DEF checks

\* What the edges must be, place by place, and as the rules say it.
OneEach(g) ==
    \A n \in Names(g) : \E i \in DOMAIN g.edges :
        /\ g.edges[i].source = n
        /\ \A j \in DOMAIN g.edges : g.edges[j].source = n => i = j
SoundTargets(g, e) ==
    TargetsOf(e) # {} /\ IsInjective(e.targets) /\ TargetsOf(e) \subseteq Names(g) \cup {END}
SourcesAgain(g, i) == \E j \in 1..i - 1 : g.edges[j].source = g.edges[i].source

LEMMA SourcesOnce ==
    ASSUME NEW g \in Shapes, \A i \in DOMAIN g.edges : g.edges[i].source \in Names(g)
    PROVE  /\ \A i \in DOMAIN g.edges : ~SourcesAgain(g, i)
           /\ \A n \in Names(g) : \E i \in DOMAIN g.edges : g.edges[i].source = n
           <=> OneEach(g)
<1> DEFINE edges == g.edges
<1>1. DOMAIN edges = 1..Len(edges) /\ Len(edges) \in Nat BY ShapeParts
<1>2. ASSUME OneEach(g), NEW i \in DOMAIN edges, SourcesAgain(g, i) PROVE FALSE
  <2>1. PICK j \in 1..i - 1 : edges[j].source = edges[i].source BY <1>2 DEF SourcesAgain
  <2>2. i \in Nat /\ j \in DOMAIN edges /\ j # i BY <1>1
  <2>3. edges[i].source \in Names(g) OBVIOUS
  <2> QED BY <1>2, <2>1, <2>2, <2>3 DEF OneEach
<1>3. ASSUME \A i \in DOMAIN edges : ~SourcesAgain(g, i),
             \A n \in Names(g) : \E i \in DOMAIN edges : edges[i].source = n
      PROVE  OneEach(g)
  <2> SUFFICES ASSUME NEW n \in Names(g)
               PROVE  \E i \in DOMAIN edges :
                         /\ edges[i].source = n
                         /\ \A j \in DOMAIN edges : edges[j].source = n => i = j
    BY DEF OneEach
  <2>1. PICK i \in DOMAIN edges : edges[i].source = n BY <1>3
  <2>2. ASSUME NEW j \in DOMAIN edges, edges[j].source = n, i # j PROVE FALSE
    <3>1. i \in 1..j - 1 \/ j \in 1..i - 1 BY <1>1, <2>2
    <3>2. ~SourcesAgain(g, i) /\ ~SourcesAgain(g, j) BY <1>3
    <3> QED BY <3>1, <3>2, <2>1, <2>2 DEF SourcesAgain
  <2> QED BY <2>1, <2>2
<1>4. OneEach(g) => \A n \in Names(g) : \E i \in DOMAIN edges : edges[i].source = n
  BY DEF OneEach
<1> QED BY <1>2, <1>3, <1>4

LEMMA EdgeChecked ==
    ASSUME NEW g \in Shapes, NEW i \in DOMAIN g.edges
    PROVE  /\ EdgeCheck(g, i) \in Verdicts
           /\ EdgeCheck(g, i) = Ok <=>
                 /\ g.edges[i].name \notin Malformed
                 /\ ~\E j \in 1..i - 1 : g.edges[j].name = g.edges[i].name
                 /\ g.edges[i].source \in Names(g) /\ ~SourcesAgain(g, i)
                 /\ SoundTargets(g, g.edges[i])
<1> DEFINE edge == g.edges[i]
           again == \E j \in 1..i - 1 : g.edges[j].name = edge.name
           more == \E j \in 1..i - 1 : g.edges[j].source = edge.source
           a == Refusal(edge.name \in Malformed, "InvalidEdgeName", edge.name)
           b == Refusal(again, "DuplicateEdgeName", edge.name)
           c == Refusal(edge.source \notin Names(g), "EdgeSourceNotANode", edge.name)
           d == Refusal(more, "NodeWithSeveralEdges", edge.source)
           e == CheckTargets(g, edge)
<1>1. edge \in Edges /\ edge.name \in Nat /\ edge.source \in Nat BY ShapeParts DEF Edges
<1>2. EdgeCheck(g, i) = FirstOf(<<a, b, c, d, e>>) BY DEF EdgeCheck
<1>3. more <=> SourcesAgain(g, i) BY DEF SourcesAgain
<1>4. e \in Verdicts /\ (e = Ok <=> SoundTargets(g, edge))
  <2>1. /\ e \in Verdicts
        /\ e = Ok <=> /\ edge.targets # <<>> /\ IsInjective(edge.targets)
                      /\ TargetsOf(edge) \subseteq Names(g) \cup {END}
    BY <1>1, TargetsChecked
  <2>2. edge.targets # <<>> <=> TargetsOf(edge) # {}
    <3> HIDE DEF edge
    <3>1. edge.targets \in Seq(Nat) BY <1>1 DEF Edges
    <3>2. edge.targets # <<>> <=> 1 \in DOMAIN edge.targets BY <3>1
    <3>3. edge.targets = <<>> => DOMAIN edge.targets = {} BY <3>1
    <3> QED BY <3>2, <3>3 DEF TargetsOf
  <2> QED BY <2>1, <2>2 DEF SoundTargets
<1>5. \A what \in OfEdges :
         /\ [error |-> what, name |-> edge.name] \in Verdicts \ {Ok}
         /\ [error |-> what, name |-> edge.source] \in Verdicts \ {Ok}
         /\ Ok \in Verdicts
  BY <1>1, RuleRefuses DEF OfRules
<1>6. /\ a \in Verdicts /\ (a = Ok <=> edge.name \notin Malformed)
      /\ b \in Verdicts /\ (b = Ok <=> ~again)
      /\ c \in Verdicts /\ (c = Ok <=> edge.source \in Names(g))
      /\ d \in Verdicts /\ (d = Ok <=> ~more)
  <2> HIDE DEF edge, again, more
  <2> QED BY <1>5 DEF Refusal, OfEdges
<1> HIDE DEF a, b, c, d, e
<1>7. /\ EdgeCheck(g, i) \in Verdicts
      /\ EdgeCheck(g, i) = Ok <=> a = Ok /\ b = Ok /\ c = Ok /\ d = Ok /\ e = Ok
  BY <1>2, <1>4, <1>6, FirstOfFive
<1> QED BY <1>3, <1>4, <1>6, <1>7

LEMMA EdgesChecked ==
    ASSUME NEW g \in Shapes
    PROVE  /\ CheckEdges(g) \in Verdicts
           /\ CheckEdges(g) = Ok <=>
                 /\ Unique(g.edges) /\ OneEach(g)
                 /\ \A i \in DOMAIN g.edges :
                       /\ g.edges[i].name \notin Malformed /\ g.edges[i].source \in Names(g)
                       /\ SoundTargets(g, g.edges[i])
<1> DEFINE edges == g.edges
           nodes == g.nodes
           each == [i \in DOMAIN edges |-> EdgeCheck(g, i)]
           without == [i \in DOMAIN nodes |-> WithoutEdge(g, i)]
           again(i) == \E j \in 1..i - 1 : edges[j].name = edges[i].name
           sound(i) == /\ edges[i].name \notin Malformed /\ edges[i].source \in Names(g)
                       /\ SoundTargets(g, edges[i])
           led(n) == \E i \in DOMAIN edges : edges[i].source = n
<1>1. /\ edges \in Seq(Edges) /\ DOMAIN edges = 1..Len(edges) /\ Len(edges) \in Nat
      /\ nodes \in Seq(Nodes) /\ DOMAIN nodes = 1..Len(nodes) /\ Len(nodes) \in Nat
      /\ \A i \in DOMAIN nodes : nodes[i].name \in Nat
  <2>1. edges \in Seq(Edges) /\ nodes \in Seq(Nodes) /\ \A i \in DOMAIN nodes : nodes[i] \in Nodes
    BY ShapeParts
  <2> HIDE DEF edges, nodes
  <2>2. \A i \in DOMAIN nodes : nodes[i].name \in Nat BY <2>1 DEF Nodes
  <2> QED BY <2>1, <2>2
<1>2. \A i \in DOMAIN edges :
         /\ each[i] \in Verdicts
         /\ each[i] = Ok <=> ~again(i) /\ ~SourcesAgain(g, i) /\ sound(i)
  BY EdgeChecked
<1>3. ASSUME NEW i \in DOMAIN nodes
      PROVE  without[i] \in Verdicts /\ (without[i] = Ok <=> led(nodes[i].name))
  <2> DEFINE alone == \A e \in EdgesOf(g) : e.source # nodes[i].name
  <2>1. [error |-> "NodeWithoutEdge", name |-> nodes[i].name] \in Verdicts \ {Ok} /\ Ok \in Verdicts
    <3>1. "NodeWithoutEdge" \in OfRules BY DEF OfRules, OfEdges
    <3> QED BY <1>1, <3>1, RuleRefuses
  <2>2. without[i] = Refusal(alone, "NodeWithoutEdge", nodes[i].name) BY <1>3 DEF WithoutEdge
  <2>3. alone <=> ~led(nodes[i].name) BY DEF EdgesOf
  <2> HIDE DEF alone, led, without, nodes
  <2> QED BY <2>1, <2>2, <2>3 DEF Refusal
<1>4. each \in Seq(Verdicts) /\ DOMAIN each = DOMAIN edges
  <2>1. each \in [1..Len(edges) -> Verdicts] BY <1>1, <1>2
  <2> QED BY <1>1, <2>1
<1>5. without \in Seq(Verdicts) /\ DOMAIN without = DOMAIN nodes
  <2>1. without \in [1..Len(nodes) -> Verdicts] BY <1>1, <1>3
  <2> QED BY <1>1, <2>1
<1>6. CheckEdges(g) = FirstOf(each \o without) BY DEF CheckEdges
<1>7. (\A i \in DOMAIN nodes : led(nodes[i].name)) <=> \A n \in Names(g) : led(n)
  BY DEF Names
<1>8. (\A i \in DOMAIN edges : ~again(i)) <=> Unique(edges) BY <1>1, FirstMet
<1>9. (\A i \in DOMAIN edges : sound(i)) =>
         (OneEach(g) <=> (\A i \in DOMAIN edges : ~SourcesAgain(g, i)) /\ \A n \in Names(g) : led(n))
  BY SourcesOnce
<1> HIDE DEF each, without, again, sound, led
<1>10. /\ CheckEdges(g) \in Verdicts
       /\ CheckEdges(g) = Ok <=>
             /\ \A i \in DOMAIN edges : each[i] = Ok
             /\ \A i \in DOMAIN nodes : without[i] = Ok
  BY <1>4, <1>5, <1>6, FirstOfJoined
<1>11. CheckEdges(g) = Ok <=>
          /\ \A i \in DOMAIN edges : ~again(i)
          /\ \A i \in DOMAIN edges : ~SourcesAgain(g, i)
          /\ \A i \in DOMAIN edges : sound(i)
          /\ \A n \in Names(g) : led(n)
  BY <1>2, <1>3, <1>7, <1>10
<1> QED BY <1>8, <1>9, <1>10, <1>11 DEF sound

\* A shape is refused by its rules exactly when it breaks one, and never for reach.
LEMMA RulesChecked ==
    ASSUME NEW g \in Shapes
    PROVE  Validate(g) \in Verdicts /\ (Validate(g) = Ok <=> FollowsRules(g))
<1> DEFINE a == Refusal(g.version \in Malformed, "InvalidVersion", END)
<1>1. a \in Verdicts /\ (a = Ok <=> g.version \notin Malformed)
  <2>1. "InvalidVersion" \in OfRules /\ END \in Nat BY DEF OfRules, END
  <2>2. [error |-> "InvalidVersion", name |-> END] \in Verdicts \ {Ok} /\ Ok \in Verdicts
    BY <2>1, RuleRefuses
  <2> QED BY <2>2 DEF Refusal
<1>2. Validate(g) = IF FirstOf(<<a, CheckNodes(g)>>) # Ok THEN FirstOf(<<a, CheckNodes(g)>>)
                    ELSE FirstOf(<<CheckEntries(g), CheckEdges(g)>>)
  BY DEF Validate
<1> HIDE DEF a
<1>3. /\ Validate(g) \in Verdicts
      /\ Validate(g) = Ok <=>
            a = Ok /\ CheckNodes(g) = Ok /\ CheckEntries(g) = Ok /\ CheckEdges(g) = Ok
  BY <1>1, <1>2, FirstOfTwo, NodesChecked, EntriesChecked, EdgesChecked
<1>4. /\ g.version \in Nat
      /\ \A i \in DOMAIN g.nodes : g.nodes[i].name \in Nat
      /\ \A i \in DOMAIN g.edges : g.edges[i].name \in Nat
      /\ g.nodes \in Seq(Nodes) /\ g.entries \in Seq(Nat \ {END})
  BY ShapeParts DEF Nodes, Edges
<1>5. FollowsRules(g) <=>
         /\ g.version \notin Malformed
         /\ \A i \in DOMAIN g.nodes :
               {g.nodes[i].name, g.nodes[i].kind, g.nodes[i].subkind} \cap Malformed = {}
         /\ Unique(g.nodes) /\ Unique(g.edges) /\ IsInjective(g.entries)
         /\ Entries(g) # {} /\ Entries(g) \subseteq Names(g) /\ OneEach(g)
         /\ \A i \in DOMAIN g.edges :
               /\ g.edges[i].name \notin Malformed /\ g.edges[i].source \in Names(g)
               /\ SoundTargets(g, g.edges[i])
  <2>1. {g.version} \cup Names(g) \cup UNION {{e.name} : e \in EdgesOf(g)} \subseteq Nat \ Malformed
        <=> /\ g.version \notin Malformed
            /\ \A i \in DOMAIN g.nodes : g.nodes[i].name \notin Malformed
            /\ \A i \in DOMAIN g.edges : g.edges[i].name \notin Malformed
    BY <1>4 DEF Names, EdgesOf
  <2>2. (\A e \in EdgesOf(g) :
            /\ e.source \in Names(g) /\ IsInjective(e.targets)
            /\ TargetsOf(e) # {} /\ TargetsOf(e) \subseteq Names(g) \cup {END})
        <=> \A i \in DOMAIN g.edges :
               g.edges[i].source \in Names(g) /\ SoundTargets(g, g.edges[i])
    BY DEF EdgesOf, SoundTargets
  <2>3. (\A i \in DOMAIN g.nodes :
            {g.nodes[i].name, g.nodes[i].kind, g.nodes[i].subkind} \cap Malformed = {})
        <=> /\ \A i \in DOMAIN g.nodes : g.nodes[i].name \notin Malformed
            /\ \A i \in DOMAIN g.nodes : {g.nodes[i].kind, g.nodes[i].subkind} \cap Malformed = {}
    OBVIOUS
  <2> QED BY <2>1, <2>2, <2>3, Zenon DEF FollowsRules, OneEach
<1>6. g.entries # <<>> <=> Entries(g) # {}
  <2>1. g.entries # <<>> <=> 1 \in DOMAIN g.entries BY <1>4
  <2>2. g.entries = <<>> => DOMAIN g.entries = {} BY <1>4
  <2> QED BY <2>1, <2>2 DEF Entries
<1>7. Entries(g) # {} /\ Entries(g) \subseteq Names(g) => g.nodes # <<>>
  <2>1. g.nodes = <<>> => DOMAIN g.nodes = {} BY <1>4
  <2>2. g.nodes = <<>> => Names(g) = {} BY <2>1 DEF Names
  <2> QED BY <2>2
<1> QED BY <1>1, <1>3, <1>5, <1>6, <1>7, NodesChecked, EntriesChecked, EdgesChecked

-----------------------------------------------------------------------------
(***************************************************************************)
(* The canonical order changes nothing of what the rules and reach speak of:     *)
(* each sequence is permuted, and they speak of sets.                          *)
(***************************************************************************)
LEMMA PermutedAlike ==
    ASSUME NEW s, NEW t, Arranged(t, s)
    PROVE  /\ {t[i] : i \in DOMAIN t} = {s[i] : i \in DOMAIN s}
           /\ {t[i].name : i \in DOMAIN t} = {s[i].name : i \in DOMAIN s}
           /\ Unique(t) <=> Unique(s)
           /\ IsInjective(t) <=> IsInjective(s)
<1> DEFINE D == DOMAIN s
<1>0. DOMAIN t = D BY DEF Arranged
<1>a. PICK p : Permutes(p, D) /\ \A r \in D : t[r] = s[p[r]] BY DEF Arranged
<1>b. DOMAIN s = D OBVIOUS
<1> HIDE DEF D
<1>1. /\ \A r \in D : p[r] \in D
      /\ \A i, j \in D : p[i] = p[j] => i = j
      /\ \A i \in D : \E r \in D : p[r] = i
  BY <1>a DEF Permutes
<1>2. \A i \in D : \E r \in D : p[r] = i /\ t[r] = s[i] BY <1>1, <1>a
<1>3. Unique(s) => Unique(t) BY <1>0, <1>a, <1>b, <1>1 DEF Unique
<1>4. ASSUME Unique(t), NEW i \in D, NEW j \in D, s[i].name = s[j].name PROVE i = j
  <2>1. PICK k \in D : p[k] = i /\ t[k] = s[i] BY <1>2
  <2>2. PICK l \in D : p[l] = j /\ t[l] = s[j] BY <1>2
  <2>3. k = l BY <2>1, <2>2, <1>0, <1>4 DEF Unique
  <2> QED BY <2>1, <2>2, <2>3
<1>5. IsInjective(s) => IsInjective(t) BY <1>0, <1>a, <1>b, <1>1 DEF IsInjective
<1>6. ASSUME IsInjective(t), NEW i \in D, NEW j \in D, s[i] = s[j] PROVE i = j
  <2>1. PICK k \in D : p[k] = i /\ t[k] = s[i] BY <1>2
  <2>2. PICK l \in D : p[l] = j /\ t[l] = s[j] BY <1>2
  <2>3. k = l BY <2>1, <2>2, <1>0, <1>6 DEF IsInjective
  <2> QED BY <2>1, <2>2, <2>3
<1>7. \A i \in D : (\E j \in D : t[i] = s[j]) /\ (\E j \in D : s[i] = t[j]) BY <1>1, <1>2, <1>a
<1>8. {t[i] : i \in D} = {s[i] : i \in D}
  <2>1. ASSUME NEW x \in {t[i] : i \in D} PROVE x \in {s[i] : i \in D} BY <1>7
  <2>2. ASSUME NEW x \in {s[i] : i \in D} PROVE x \in {t[i] : i \in D} BY <1>7
  <2> QED BY <2>1, <2>2
<1>9. {t[i].name : i \in D} = {s[i].name : i \in D}
  <2>1. ASSUME NEW x \in {t[i].name : i \in D} PROVE x \in {s[i].name : i \in D}
    <3>1. PICK i \in D : x = t[i].name OBVIOUS
    <3>2. PICK j \in D : t[i] = s[j] BY <1>7
    <3> QED BY <3>1, <3>2
  <2>2. ASSUME NEW x \in {s[i].name : i \in D} PROVE x \in {t[i].name : i \in D}
    <3>1. PICK i \in D : x = s[i].name OBVIOUS
    <3>2. PICK j \in D : s[i] = t[j] BY <1>7
    <3> QED BY <3>1, <3>2
  <2> QED BY <2>1, <2>2
<1> QED BY <1>0, <1>b, <1>3, <1>4, <1>5, <1>6, <1>8, <1>9 DEF Unique, IsInjective

LEMMA NamedInOrder ==
    ASSUME NEW S, NEW s \in Seq(S), \A i \in DOMAIN s : s[i].name \in Nat
    PROVE  ByName(s) \in Seq(S) /\ Arranged(ByName(s), s)
<1> DEFINE keys == [i \in DOMAIN s |-> s[i].name]
<1>1. DOMAIN s = 1..Len(s) /\ Len(s) \in Nat OBVIOUS
<1>2. keys \in [1..Len(s) -> Nat] BY <1>1
<1>3. keys \in Seq(Nat) /\ Len(keys) = Len(s)
  <2> HIDE DEF keys
  <2> QED BY <1>1, <1>2
<1>4. ByName(s) = Sorted(s, keys) BY DEF ByName
<1> HIDE DEF keys
<1> QED BY <1>3, <1>4, SortedPermutes

LEMMA CanonicalIsAlike ==
    ASSUME NEW g \in Shapes
    PROVE  /\ Canonical(g) \in Shapes /\ Names(Canonical(g)) = Names(g)
           /\ Entries(Canonical(g)) = Entries(g) /\ EdgesOf(Canonical(g)) = EdgesOf(g)
           /\ FollowsRules(Canonical(g)) <=> FollowsRules(g)
<1> DEFINE c == Canonical(g)
<1>1. /\ g.version \in Nat /\ g.nodes \in Seq(Nodes) /\ g.edges \in Seq(Edges)
      /\ g.entries \in Seq(Nat \ {END})
      /\ \A i \in DOMAIN g.nodes : g.nodes[i].name \in Nat
      /\ \A i \in DOMAIN g.edges : g.edges[i].name \in Nat
  BY ShapeParts DEF Nodes, Edges
<1>2. /\ c.version = g.version /\ c.nodes = ByName(g.nodes) /\ c.edges = ByName(g.edges)
      /\ c.entries = Sorted(g.entries, g.entries)
      /\ c = [version |-> c.version, nodes |-> c.nodes, edges |-> c.edges, entries |-> c.entries]
  BY DEF Canonical
<1> HIDE DEF c
<1>3. c.nodes \in Seq(Nodes) /\ Arranged(c.nodes, g.nodes) BY <1>1, <1>2, NamedInOrder
<1>4. c.edges \in Seq(Edges) /\ Arranged(c.edges, g.edges) BY <1>1, <1>2, NamedInOrder
<1>5. c.entries \in Seq(Nat \ {END}) /\ Arranged(c.entries, g.entries)
  <2>1. g.entries \in Seq(Nat) BY <1>1
  <2> QED BY <1>1, <1>2, <2>1, SortedPermutes
<1>9. c \in Shapes BY <1>1, <1>2, <1>3, <1>4, <1>5 DEF Shapes, Nodes, Edges
<1>10. /\ Names(c) = Names(g) /\ (Unique(c.nodes) <=> Unique(g.nodes))
       /\ {c.nodes[i] : i \in DOMAIN c.nodes} = {g.nodes[i] : i \in DOMAIN g.nodes}
  <2> DEFINE t == c.nodes
             s == g.nodes
  <2>1. Arranged(t, s) BY <1>3
  <2> HIDE DEF t, s
  <2>2. /\ {t[i] : i \in DOMAIN t} = {s[i] : i \in DOMAIN s}
        /\ {t[i].name : i \in DOMAIN t} = {s[i].name : i \in DOMAIN s}
        /\ Unique(t) <=> Unique(s)
        /\ IsInjective(t) <=> IsInjective(s)
    BY <2>1, PermutedAlike
  <2> QED BY <2>2 DEF Names, t, s
<1>11. EdgesOf(c) = EdgesOf(g) /\ (Unique(c.edges) <=> Unique(g.edges))
  <2> DEFINE t == c.edges
             s == g.edges
  <2>1. Arranged(t, s) BY <1>4
  <2> HIDE DEF t, s
  <2>2. /\ {t[i] : i \in DOMAIN t} = {s[i] : i \in DOMAIN s}
        /\ {t[i].name : i \in DOMAIN t} = {s[i].name : i \in DOMAIN s}
        /\ Unique(t) <=> Unique(s)
        /\ IsInjective(t) <=> IsInjective(s)
    BY <2>1, PermutedAlike
  <2> QED BY <2>2 DEF EdgesOf, t, s
<1>12. Entries(c) = Entries(g) /\ (IsInjective(c.entries) <=> IsInjective(g.entries))
  <2> DEFINE t == c.entries
             s == g.entries
  <2>1. Arranged(t, s) BY <1>5
  <2> HIDE DEF t, s
  <2>2. /\ {t[i] : i \in DOMAIN t} = {s[i] : i \in DOMAIN s}
        /\ {t[i].name : i \in DOMAIN t} = {s[i].name : i \in DOMAIN s}
        /\ Unique(t) <=> Unique(s)
        /\ IsInjective(t) <=> IsInjective(s)
    BY <2>1, PermutedAlike
  <2> QED BY <2>2 DEF Entries, t, s
<1>13. OneEach(c) <=> OneEach(g)
  <2> DEFINE s == g.edges
             t == c.edges
             D == DOMAIN s
  <2>0. PICK q : Permutes(q, D) /\ \A r \in D : t[r] = s[q[r]] BY <1>4 DEF Arranged
  <2>1. /\ \A r \in D : q[r] \in D /\ t[r] = s[q[r]]
        /\ \A i, j \in D : q[i] = q[j] => i = j
        /\ \A i \in D : \E r \in D : q[r] = i
    <3> HIDE DEF s, t, D
    <3> QED BY <2>0 DEF Permutes
  <2>2. DOMAIN t = D BY <1>4 DEF Arranged
  <2> HIDE DEF s, t, D
  <2>3. ASSUME NEW n, NEW i \in D, s[i].source = n, \A j \in D : s[j].source = n => i = j
        PROVE  \E r \in D : t[r].source = n /\ \A k \in D : t[k].source = n => r = k
    <3>1. PICK r \in D : q[r] = i BY <2>1
    <3>2. t[r].source = n BY <3>1, <2>1, <2>3
    <3>3. ASSUME NEW k \in D, t[k].source = n PROVE r = k
      <4>1. q[k] \in D /\ s[q[k]].source = n BY <3>3, <2>1
      <4>2. i = q[k] BY <4>1, <2>3
      <4> QED BY <4>2, <3>1, <2>1
    <3> QED BY <3>2, <3>3
  <2>4. ASSUME NEW n, NEW r \in D, t[r].source = n, \A k \in D : t[k].source = n => r = k
        PROVE  \E i \in D : s[i].source = n /\ \A j \in D : s[j].source = n => i = j
    <3>1. q[r] \in D /\ s[q[r]].source = n BY <2>1, <2>4
    <3>2. ASSUME NEW j \in D, s[j].source = n PROVE q[r] = j
      <4>1. PICK k \in D : q[k] = j BY <2>1
      <4>2. t[k].source = n BY <4>1, <2>1, <3>2
      <4> QED BY <4>1, <4>2, <2>4
    <3> QED BY <3>1, <3>2
  <2>5. OneEach(g) => OneEach(c) BY <2>2, <2>3, <1>10 DEF OneEach, s, t, D
  <2>6. OneEach(c) => OneEach(g) BY <2>2, <2>4, <1>10 DEF OneEach, s, t, D
  <2> QED BY <2>5, <2>6
<1>14. (\A i \in DOMAIN c.nodes : {c.nodes[i].kind, c.nodes[i].subkind} \cap Malformed = {})
       <=> \A i \in DOMAIN g.nodes : {g.nodes[i].kind, g.nodes[i].subkind} \cap Malformed = {}
  <2> DEFINE fine(n) == {n.kind, n.subkind} \cap Malformed = {}
  <2>1. (\A i \in DOMAIN c.nodes : fine(c.nodes[i]))
        <=> \A n \in {c.nodes[i] : i \in DOMAIN c.nodes} : fine(n)
    OBVIOUS
  <2>2. (\A i \in DOMAIN g.nodes : fine(g.nodes[i]))
        <=> \A n \in {g.nodes[i] : i \in DOMAIN g.nodes} : fine(n)
    OBVIOUS
  <2> HIDE DEF fine
  <2>3. (\A i \in DOMAIN c.nodes : fine(c.nodes[i])) <=> \A i \in DOMAIN g.nodes : fine(g.nodes[i])
    BY <2>1, <2>2, <1>10
  <2> QED BY <2>3 DEF fine
<1>15. FollowsRules(c) <=> FollowsRules(g)
  <2>1. /\ FollowsRules(g) <=>
           /\ {g.version} \cup Names(g) \cup UNION {{e.name} : e \in EdgesOf(g)}
                 \subseteq Nat \ Malformed
           /\ \A i \in DOMAIN g.nodes : {g.nodes[i].kind, g.nodes[i].subkind} \cap Malformed = {}
           /\ Unique(g.nodes) /\ Unique(g.edges) /\ IsInjective(g.entries)
           /\ Entries(g) # {} /\ Entries(g) \subseteq Names(g) /\ OneEach(g)
           /\ \A e \in EdgesOf(g) : e.source \in Names(g) /\ SoundTargets(g, e)
    BY Zenon DEF FollowsRules, OneEach, SoundTargets
  <2>2. /\ FollowsRules(c) <=>
           /\ {c.version} \cup Names(c) \cup UNION {{e.name} : e \in EdgesOf(c)}
                 \subseteq Nat \ Malformed
           /\ \A i \in DOMAIN c.nodes : {c.nodes[i].kind, c.nodes[i].subkind} \cap Malformed = {}
           /\ Unique(c.nodes) /\ Unique(c.edges) /\ IsInjective(c.entries)
           /\ Entries(c) # {} /\ Entries(c) \subseteq Names(c) /\ OneEach(c)
           /\ \A e \in EdgesOf(c) : e.source \in Names(c) /\ SoundTargets(c, e)
    BY Zenon DEF FollowsRules, OneEach, SoundTargets
  <2>3. \A e : SoundTargets(c, e) <=> SoundTargets(g, e) BY <1>10 DEF SoundTargets
  <2> QED BY <2>1, <2>2, <2>3, <1>2, <1>10, <1>11, <1>12, <1>13, <1>14
<1> QED BY <1>9, <1>10, <1>11, <1>12, <1>15 DEF c

LEMMA CanonicalLeadsAlike ==
    ASSUME NEW g \in Shapes
    PROVE  /\ Unreached(Canonical(g)) = Unreached(g)
           /\ Endless(Canonical(g)) = Endless(g)
<1> DEFINE c == Canonical(g)
<1>1. Names(c) = Names(g) /\ Entries(c) = Entries(g) /\ EdgesOf(c) = EdgesOf(g) BY CanonicalIsAlike
<1> HIDE DEF c
<1>2. \A n : Targets(c, n) = Targets(g, n) BY <1>1 DEF Targets
<1>3. \A seeds : Leads(c, seeds) = Leads(g, seeds) BY <1>1, <1>2 DEF Leads
<1>4. Unreached(c) = Unreached(g) /\ Endless(c) = Endless(g) BY <1>1, <1>3 DEF Unreached, Endless
<1> QED BY <1>4 DEF c

-----------------------------------------------------------------------------
(***************************************************************************)
(* What a flood has seen when it ends: all that its seeds lead to, since what it  *)
(* saw is closed, or, back from END, all that leads there, since what it did not  *)
(* see is closed and END is not in it.                                         *)
(***************************************************************************)
Closed(g, set) == \A m \in set : Targets(g, m) \subseteq set

LEMMA ShapeTargets ==
    ASSUME NEW g \in Shapes, FollowsRules(g)
    PROVE  /\ END \notin Names(g) /\ Targets(g, END) = {}
           /\ \A n : Targets(g, n) \subseteq Names(g) \cup {END}
<1>1. END \notin Names(g)
  <2>1. \A i \in DOMAIN g.nodes : g.nodes[i].name # END BY ShapeParts DEF Nodes
  <2> QED BY <2>1 DEF Names
<1>2. \A e \in EdgesOf(g) : e.source \in Names(g) /\ TargetsOf(e) \subseteq Names(g) \cup {END}
  BY DEF FollowsRules
<1>3. Targets(g, END) = {} BY <1>1, <1>2 DEF Targets
<1> QED BY <1>1, <1>2, <1>3 DEF Targets

LEMMA LeadsIs ==
    ASSUME NEW g, NEW seeds, NEW t
    PROVE  t \in Leads(g, seeds) <=>
              /\ t \in Names(g) \cup {END}
              /\ \A set \in SUBSET (Names(g) \cup {END}) :
                    seeds \subseteq set /\ Closed(g, set) => t \in set
BY DEF Leads, Closed

LEMMA LedOn ==
    ASSUME NEW g \in Shapes, FollowsRules(g), NEW seeds, NEW n \in Leads(g, seeds),
           NEW t \in Targets(g, n)
    PROVE  t \in Leads(g, seeds)
<1>1. t \in Names(g) \cup {END} BY ShapeTargets
<1>2. ASSUME NEW set \in SUBSET (Names(g) \cup {END}), seeds \subseteq set, Closed(g, set)
      PROVE  t \in set
  <2>1. n \in set BY <1>2, LeadsIs
  <2> QED BY <1>2, <2>1 DEF Closed
<1> QED BY <1>1, <1>2, LeadsIs

LEMMA LedBack ==
    ASSUME NEW g, NEW o, NEW n \in Targets(g, o), END \in Leads(g, {n})
    PROVE  END \in Leads(g, {o})
<1>1. ASSUME NEW set \in SUBSET (Names(g) \cup {END}), {o} \subseteq set, Closed(g, set)
      PROVE  END \in set
  <2>1. {n} \subseteq set BY <1>1 DEF Closed
  <2> QED BY <1>1, <2>1, LeadsIs
<1> QED BY <1>1, LeadsIs

LEMMA SeedsLead ==
    ASSUME NEW g, NEW seeds \in SUBSET (Names(g) \cup {END})
    PROVE  seeds \subseteq Leads(g, seeds)
BY LeadsIs

LEMMA ForwardMisses ==
    ASSUME NEW g \in Shapes, FollowsRules(g), NEW met \in SUBSET Names(g),
           Entries(g) \subseteq met, met \subseteq Leads(g, Entries(g)),
           \A n \in met : Forward(g, n) \subseteq met
    PROVE  Names(g) \ met = Unreached(g)
<1> DEFINE set == met \cup {END}
<1>1. set \in SUBSET (Names(g) \cup {END}) /\ Entries(g) \subseteq set OBVIOUS
<1>2. Closed(g, set)
  <2> SUFFICES ASSUME NEW m \in set, NEW t \in Targets(g, m) PROVE t \in set BY DEF Closed
  <2>1. m # END BY ShapeTargets
  <2>2. m \in met BY <2>1
  <2>3. t \in Names(g) \cup {END} BY ShapeTargets
  <2>4. CASE t \in Names(g) BY <2>2, <2>4 DEF Forward
  <2> QED BY <2>3, <2>4
<1> HIDE DEF set
<1>3. Leads(g, Entries(g)) \subseteq set BY <1>1, <1>2, LeadsIs
<1>4. END \notin Names(g) BY ShapeTargets
<1> QED BY <1>3, <1>4 DEF Unreached, set

LEMMA BackwardMisses ==
    ASSUME NEW g \in Shapes, FollowsRules(g), NEW met \in SUBSET Names(g),
           Exits(g) \subseteq met, \A n \in met : END \in Leads(g, {n}),
           \A n \in met : Backward(g, n) \subseteq met
    PROVE  Names(g) \ met = Endless(g)
<1> DEFINE set == Names(g) \ met
<1>1. set \in SUBSET (Names(g) \cup {END}) /\ END \notin set BY ShapeTargets
<1>2. Closed(g, set)
  <2> SUFFICES ASSUME NEW m \in set, NEW t \in Targets(g, m) PROVE t \in set BY DEF Closed
  <2>1. t \in Names(g) \cup {END} BY ShapeTargets
  <2>2. t # END BY DEF Exits
  <2>3. t \notin met
    <3> SUFFICES ASSUME t \in met PROVE FALSE OBVIOUS
    <3>1. m \in Backward(g, t) BY DEF Backward
    <3> QED BY <3>1
  <2> QED BY <2>1, <2>2, <2>3
<1> HIDE DEF set
<1>3. ASSUME NEW n \in set, END \in Leads(g, {n}) PROVE FALSE
  <2>1. {n} \subseteq set OBVIOUS
  <2>2. \A s \in SUBSET (Names(g) \cup {END}) : {n} \subseteq s /\ Closed(g, s) => END \in s
    BY <1>3, LeadsIs
  <2> QED BY <2>1, <2>2, <1>1, <1>2
<1> QED BY <1>3 DEF Endless, set

-----------------------------------------------------------------------------
(***************************************************************************)
(* What an edge answers: END alone, or nodes it declares, each once.             *)
(***************************************************************************)
LEMMA AnswersSound ==
    ASSUME NEW n \in Names(structure), NEW back \in Returned,
           structure \in Shapes, FollowsRules(structure), Endless(structure) = {}
    PROVE  LET reply == Evaluated(n, back) IN
           \/ reply.targets = <<END>>
           \/ /\ IsInjective(reply.targets)
              /\ TargetsOf(reply) \subseteq Names(structure) \ Endless(structure)
<1> DEFINE reply == Evaluated(n, back)
           edge == EdgeOf(n)
           asked == {back[i] : i \in DOMAIN back}
           Sound(a) == \/ a.targets = <<END>>
                       \/ /\ IsInjective(a.targets)
                          /\ TargetsOf(a) \subseteq Names(structure) \ Endless(structure)
<1>1. \A why : Sound(Failed(why))
  <2> TAKE why
  <2>1. Failed(why).targets = <<>> BY DEF Failed
  <2>2. DOMAIN <<>> = {} OBVIOUS
  <2> QED BY <2>1, <2>2 DEF IsInjective, TargetsOf
<1>2. /\ edge \in EdgesOf(structure) /\ edge \in Edges
      /\ IsInjective(edge.targets) /\ TargetsOf(edge) \subseteq Names(structure) \cup {END}
  <2>1. \E e \in EdgesOf(structure) : e.source = n BY DEF FollowsRules, EdgesOf
  <2>2. edge \in EdgesOf(structure) BY <2>1 DEF EdgeOf
  <2> HIDE DEF edge
  <2>3. edge \in Edges BY <2>2, ShapeParts DEF EdgesOf
  <2> QED BY <2>2, <2>3 DEF FollowsRules
<1> HIDE DEF edge
<1>3. edge.targets \in Seq(Nat) /\ Apart(edge.targets)
  <2>1. edge.targets \in Seq(Nat) BY <1>2 DEF Edges
  <2> QED BY <1>2, <2>1 DEF IsInjective, Apart
<1> DEFINE chosen == Among(edge.targets, asked)
<1>4. /\ chosen \in Seq(Nat) /\ Apart(chosen)
      /\ ToSet(chosen) = ToSet(edge.targets) \cap asked
  BY <1>3, AmongKeeps
<1>5. ToSet(edge.targets) = TargetsOf(edge) BY DEF ToSet, TargetsOf
<1>6. ASSUME back # <<>>, asked \subseteq TargetsOf(edge),
             ~\E i, j \in DOMAIN back : back[i] = END /\ back[j] # END
      PROVE  Sound(Chose(chosen))
  <2> HIDE DEF chosen
  <2>1. Chose(chosen).targets = chosen BY DEF Chose
  <2>2. CASE END \notin asked
    <3>1. ToSet(chosen) \subseteq Names(structure) BY <2>2, <1>2, <1>4, <1>5
    <3>2. IsInjective(chosen) BY <1>4 DEF IsInjective, Apart
    <3>3. TargetsOf(Chose(chosen)) = ToSet(chosen) BY <2>1 DEF TargetsOf, ToSet
    <3> QED BY <2>1, <3>1, <3>2, <3>3
  <2>3. CASE END \in asked
    <3>1. asked = {END} BY <2>3, <1>6
    <3>2. ToSet(chosen) = {END} BY <3>1, <1>4, <1>5, <1>6
    <3>3. /\ DOMAIN chosen = 1..Len(chosen) /\ Len(chosen) \in Nat
          /\ \A i \in DOMAIN chosen : chosen[i] = END
          /\ DOMAIN chosen # {}
      <4>1. DOMAIN chosen = 1..Len(chosen) /\ Len(chosen) \in Nat BY <1>4
      <4>2. \A i \in DOMAIN chosen : chosen[i] = END BY <3>2 DEF ToSet
      <4>3. DOMAIN chosen # {} BY <3>2 DEF ToSet
      <4> QED BY <4>1, <4>2, <4>3
    <3>4. \A i, j \in DOMAIN chosen : i = j BY <3>3, <1>4 DEF Apart
    <3>5. Len(chosen) = 1
      <4>1. Len(chosen) # 0 BY <3>3
      <4>2. 1 \in DOMAIN chosen /\ Len(chosen) \in DOMAIN chosen BY <3>3, <4>1
      <4> QED BY <3>4, <4>2
    <3>6. chosen = <<END>> BY <3>3, <3>5, <1>4
    <3> QED BY <2>1, <3>6
  <2> QED BY <2>2, <2>3
<1>7. \/ \E why : reply = Failed(why)
      \/ /\ reply = Chose(chosen) /\ back # <<>> /\ asked \subseteq TargetsOf(edge)
         /\ ~\E i, j \in DOMAIN back : back[i] = END /\ back[j] # END
  <2> HIDE DEF chosen
  <2>1. Chosen(n, back) = IF \E i \in DOMAIN back : back[i] \notin TargetsOf(edge)
                              THEN Failed("UndeclaredTarget") ELSE Chose(chosen)
    BY DEF Chosen, edge, chosen
  <2>2. reply = IF back = <<>> THEN Failed("EmptyTargets")
                ELSE IF \E i, j \in DOMAIN back : back[i] = END /\ back[j] # END
                     THEN Failed("EndMixedWithNodes")
                ELSE Chosen(n, back)
    BY DEF Evaluated
  <2> HIDE DEF reply
  <2> QED BY <2>1, <2>2
<1> HIDE DEF reply, chosen, Sound
<1>8. Sound(reply) BY <1>1, <1>6, <1>7
<1> QED BY <1>8 DEF Sound, reply

-----------------------------------------------------------------------------
(***************************************************************************)
(* The invariant: what a flood has seen is led to, or leads back, and all it has  *)
(* left behind has its neighbours seen; what was decided is what the rules and     *)
(* reach ask of the declared shape.                                            *)
(***************************************************************************)
Checked ==
    /\ source \in Sources
    /\ phase \in {"declared", "forward", "backward", "built", "refused"}
    /\ phase # "declared" => structure = Canonical(source.shape)
    /\ phase \in {"forward", "backward", "built"} => FollowsRules(structure)
    /\ phase \in {"forward", "backward"} => frontier \subseteq seen /\ seen \subseteq Names(structure)
    /\ phase # "built" => answer = Chose(<<>>)

FloodedForward ==
    phase = "forward" =>
        /\ Entries(structure) \subseteq seen /\ seen \subseteq Leads(structure, Entries(structure))
        /\ \A n \in seen \ frontier : Forward(structure, n) \subseteq seen

FloodedBackward ==
    phase = "backward" =>
        /\ Unreached(structure) = {} /\ Exits(structure) \subseteq seen
        /\ \A n \in seen : END \in Leads(structure, {n})
        /\ \A n \in seen \ frontier : Backward(structure, n) \subseteq seen

GraphInv == Checked /\ FloodedForward /\ FloodedBackward /\ SoundGraphs

\* What every step finds of a shape and of its canonical form.
LEMMA StructureIs ==
    ASSUME GraphInv
    PROVE  /\ source.shape \in Shapes
           /\ phase # "declared" =>
                 /\ structure \in Shapes
                 /\ FollowsRules(structure) <=> FollowsRules(source.shape)
                 /\ Unreached(structure) = Unreached(source.shape)
                 /\ Endless(structure) = Endless(source.shape)
<1>1. source.shape \in Shapes BY GraphCheckAssumption DEF GraphInv, Checked
<1>2. phase # "declared" => structure = Canonical(source.shape) BY DEF GraphInv, Checked
<1> QED BY <1>1, <1>2, CanonicalIsAlike, CanonicalLeadsAlike

LEMMA InitKeeps == GraphInit => GraphInv
<1> SUFFICES ASSUME GraphInit PROVE GraphInv OBVIOUS
<1>1. Checked BY DEF GraphInit, Checked
<1> QED BY <1>1 DEF GraphInit, GraphInv, FloodedForward, FloodedBackward, SoundGraphs, BuiltIfSound,
            NeverStranded

LEMMA CheckKeeps ==
    ASSUME GraphInv, Check
    PROVE  GraphInv'
<1> DEFINE g == source.shape
           c == Canonical(source.shape)
<1>1. /\ g \in Shapes /\ c \in Shapes /\ (FollowsRules(c) <=> FollowsRules(g))
      /\ Unreached(c) = Unreached(g) /\ Endless(c) = Endless(g)
  BY StructureIs, CanonicalIsAlike, CanonicalLeadsAlike
<1>2. /\ phase = "declared" /\ structure' = c /\ source' = source /\ answer' = answer
      /\ source \in Sources /\ answer = Chose(<<>>)
  BY DEF Check, GraphInv, Checked
<1>3. Validate(c) \in Verdicts /\ (Validate(c) = Ok <=> FollowsRules(c)) BY <1>1, RulesChecked
<1>4. \/ /\ IsMalformed(source.keys) /\ phase' = "refused"
      \/ /\ Validate(c) # Ok /\ phase' = "refused" /\ verdict' = Validate(c)
      \/ /\ Validate(c) = Ok /\ phase' = "forward"
         /\ seen' = Entries(c) /\ frontier' = Entries(c)
  BY <1>2 DEF Check, Refuse, Seed
<1> HIDE DEF c
<1>5. CASE IsMalformed(source.keys) /\ phase' = "refused"
  <2>1. Checked' BY <1>2, <1>5 DEF Checked, c
  <2>2. SoundGraphs' BY <1>2, <1>5 DEF SoundGraphs, BuiltIfSound, NeverStranded
  <2> QED BY <1>5, <2>1, <2>2 DEF GraphInv, FloodedForward, FloodedBackward
<1>6. CASE Validate(c) # Ok /\ phase' = "refused" /\ verdict' = Validate(c)
  <2>1. Checked' BY <1>2, <1>6 DEF Checked, c
  <2>2. verdict'.error \notin {"UnreachableNode", "EndUnreachable"}
    <3>1. verdict' \in [error : OfRules, name : Nat] BY <1>3, <1>6 DEF Verdicts
    <3>2. verdict'.error \in OfRules BY <3>1
    <3> QED BY <3>2 DEF OfRules, OfNodes, OfEntries, OfTargets, OfEdges
  <2>3. ~FollowsRules(g) BY <1>1, <1>3, <1>6
  <2>4. BuiltIfSound' BY <1>2, <1>6, <2>2, <2>3 DEF BuiltIfSound, g
  <2>5. NeverStranded' BY <1>6 DEF NeverStranded
  <2> QED BY <1>6, <2>1, <2>4, <2>5 DEF GraphInv, FloodedForward, FloodedBackward, SoundGraphs
<1>7. CASE /\ Validate(c) = Ok /\ phase' = "forward"
           /\ seen' = Entries(c) /\ frontier' = Entries(c)
  <2>1. FollowsRules(c) /\ Entries(c) \subseteq Names(c) BY <1>3, <1>7 DEF FollowsRules
  <2>2. Checked' BY <1>2, <1>7, <2>1 DEF Checked, c
  <2>3. Entries(c) \subseteq Leads(c, Entries(c)) BY <2>1, SeedsLead
  <2>4. FloodedForward' BY <1>2, <1>7, <2>3 DEF FloodedForward
  <2>5. SoundGraphs' BY <1>7 DEF SoundGraphs, BuiltIfSound, NeverStranded
  <2> QED BY <1>7, <2>2, <2>4, <2>5 DEF GraphInv, FloodedBackward
<1> QED BY <1>4, <1>5, <1>6, <1>7

LEMMA PopKeeps ==
    ASSUME GraphInv, NEW n \in frontier, Pop(n)
    PROVE  GraphInv'
<1>1. /\ phase \in {"forward", "backward"} /\ phase # "declared"
      /\ seen' = seen \cup Neighbours(n) /\ frontier' = (frontier \ {n}) \cup (Neighbours(n) \ seen)
      /\ source' = source /\ structure' = structure /\ phase' = phase /\ answer' = answer
  BY DEF Pop, Visit
<1>2. /\ structure \in Shapes /\ FollowsRules(structure)
      /\ frontier \subseteq seen /\ seen \subseteq Names(structure) /\ n \in seen
  BY <1>1, StructureIs DEF GraphInv, Checked
<1>3. Neighbours(n) \subseteq Names(structure) BY DEF Neighbours, Forward, Backward
<1>4. Checked' BY <1>1, <1>2, <1>3 DEF GraphInv, Checked
<1>5. SoundGraphs' BY <1>1 DEF SoundGraphs, BuiltIfSound, NeverStranded
<1>6. CASE phase = "forward"
  <2>1. Neighbours(n) = Forward(structure, n) BY <1>6 DEF Neighbours
  <2>2. /\ Entries(structure) \subseteq seen /\ seen \subseteq Leads(structure, Entries(structure))
        /\ \A o \in seen \ frontier : Forward(structure, o) \subseteq seen
    BY <1>6 DEF GraphInv, FloodedForward
  <2>3. Forward(structure, n) \subseteq Leads(structure, Entries(structure))
    BY <1>2, <2>2, LedOn DEF Forward
  <2>4. \A o \in seen' \ frontier' : o = n \/ o \in seen \ frontier BY <1>1
  <2>5. FloodedForward' BY <1>1, <2>1, <2>2, <2>3, <2>4 DEF FloodedForward
  <2> QED BY <1>1, <1>4, <1>5, <1>6, <2>5 DEF GraphInv, FloodedBackward
<1>7. CASE phase = "backward"
  <2>1. Neighbours(n) = Backward(structure, n) BY <1>7 DEF Neighbours
  <2>2. /\ Unreached(structure) = {} /\ Exits(structure) \subseteq seen
        /\ \A o \in seen : END \in Leads(structure, {o})
        /\ \A o \in seen \ frontier : Backward(structure, o) \subseteq seen
    BY <1>7 DEF GraphInv, FloodedBackward
  <2>3. \A o \in Backward(structure, n) : END \in Leads(structure, {o})
    BY <1>2, <2>2, LedBack DEF Backward
  <2>4. \A o \in seen' \ frontier' : o = n \/ o \in seen \ frontier BY <1>1
  <2>5. FloodedBackward' BY <1>1, <2>1, <2>2, <2>3, <2>4 DEF FloodedBackward
  <2> QED BY <1>1, <1>4, <1>5, <1>7, <2>5 DEF GraphInv, FloodedForward
<1> QED BY <1>1, <1>6, <1>7

LEMMA EndForwardKeeps ==
    ASSUME GraphInv, EndForward
    PROVE  GraphInv'
<1>1. /\ phase = "forward" /\ frontier = {}
      /\ source' = source /\ structure' = structure /\ answer' = answer
  BY DEF EndForward
<1>2. /\ structure \in Shapes /\ FollowsRules(structure) /\ seen \subseteq Names(structure)
      /\ FollowsRules(source.shape) /\ Unreached(structure) = Unreached(source.shape)
  BY <1>1, StructureIs DEF GraphInv, Checked
<1>3. Missed = Unreached(structure)
  BY <1>1, <1>2, ForwardMisses DEF Missed, GraphInv, FloodedForward
<1>4. CASE Missed # {}
  <2>1. /\ phase' = "refused"
        /\ verdict' = [error |-> "UnreachableNode", name |-> First(Unreached(source.shape))]
    BY <1>2, <1>3, <1>4 DEF EndForward, Refuse
  <2>2. Checked' BY <1>1, <2>1 DEF GraphInv, Checked
  <2>3. BuiltIfSound' BY <1>1, <1>2, <1>3, <1>4, <2>1 DEF BuiltIfSound
  <2> QED BY <2>1, <2>2, <2>3 DEF GraphInv, FloodedForward, FloodedBackward, SoundGraphs,
                                  NeverStranded
<1>5. CASE Missed = {}
  <2>1. phase' = "backward" /\ seen' = Exits(structure) /\ frontier' = Exits(structure)
    BY <1>5 DEF EndForward, Seed
  <2>2. Checked' BY <1>1, <1>2, <2>1 DEF GraphInv, Checked, Exits
  <2>3. \A n \in Exits(structure) : END \in Leads(structure, {n})
    <3> TAKE n \in Exits(structure)
    <3>1. END \in Targets(structure, n) /\ n \in Names(structure) BY DEF Exits
    <3>2. n \in Leads(structure, {n}) BY <3>1, SeedsLead
    <3> QED BY <3>1, <3>2, <1>2, LedOn
  <2>4. FloodedBackward' BY <1>1, <1>3, <1>5, <2>1, <2>3 DEF FloodedBackward
  <2> QED BY <2>1, <2>2, <2>4 DEF GraphInv, FloodedForward, SoundGraphs, BuiltIfSound, NeverStranded
<1> QED BY <1>4, <1>5

LEMMA EndBackwardKeeps ==
    ASSUME GraphInv, EndBackward
    PROVE  GraphInv'
<1>1. /\ phase = "backward" /\ frontier = {}
      /\ source' = source /\ structure' = structure /\ answer' = answer
      /\ answer = Chose(<<>>)
  BY DEF EndBackward, GraphInv, Checked
<1>2. /\ structure \in Shapes /\ FollowsRules(structure) /\ seen \subseteq Names(structure)
      /\ FollowsRules(source.shape) /\ Unreached(structure) = Unreached(source.shape)
      /\ Endless(structure) = Endless(source.shape) /\ Unreached(structure) = {}
  BY <1>1, StructureIs DEF GraphInv, Checked, FloodedBackward
<1>3. Missed = Endless(structure)
  BY <1>1, <1>2, BackwardMisses DEF Missed, GraphInv, FloodedBackward
<1>4. CASE Missed # {}
  <2>1. /\ phase' = "refused"
        /\ verdict' = [error |-> "EndUnreachable", name |-> First(Endless(source.shape))]
    BY <1>2, <1>3, <1>4 DEF EndBackward, Refuse
  <2>2. Checked' BY <1>1, <2>1 DEF GraphInv, Checked
  <2>3. BuiltIfSound' BY <1>1, <1>2, <1>3, <1>4, <2>1 DEF BuiltIfSound
  <2> QED BY <2>1, <2>2, <2>3 DEF GraphInv, FloodedForward, FloodedBackward, SoundGraphs,
                                  NeverStranded
<1>5. CASE Missed = {}
  <2>1. phase' = "built" BY <1>5 DEF EndBackward
  <2>2. Checked' BY <1>1, <1>2, <2>1 DEF GraphInv, Checked
  <2>3. BuiltIfSound' BY <1>1, <1>2, <1>3, <1>5, <2>1 DEF BuiltIfSound
  <2>4. NeverStranded'
    <3>1. answer'.targets = <<>> BY <1>1 DEF Chose
    <3>2. DOMAIN <<>> = {} OBVIOUS
    <3> QED BY <3>1, <3>2 DEF NeverStranded, IsInjective, TargetsOf
  <2> QED BY <2>1, <2>2, <2>3, <2>4 DEF GraphInv, FloodedForward, FloodedBackward, SoundGraphs
<1> QED BY <1>4, <1>5

LEMMA EvaluateKeeps ==
    ASSUME GraphInv, NEW n, NEW back \in Returned, Evaluate(n, back)
    PROVE  GraphInv'
<1>1. /\ phase = "built" /\ answer' = Evaluated(n, back)
      /\ UNCHANGED <<source, structure, phase, seen, frontier, verdict>>
  BY DEF Evaluate
<1>2. /\ structure \in Shapes /\ FollowsRules(structure) /\ Endless(structure) = {}
  BY <1>1, StructureIs DEF GraphInv, Checked, SoundGraphs, BuiltIfSound
<1>3. Checked' BY <1>1 DEF GraphInv, Checked
<1>4. BuiltIfSound' BY <1>1 DEF GraphInv, SoundGraphs, BuiltIfSound
<1>5. NeverStranded'
  <2>1. CASE n \in Names(structure)
    <3>1. \/ answer'.targets = <<END>>
          \/ /\ IsInjective(answer'.targets)
             /\ TargetsOf(answer') \subseteq Names(structure) \ Endless(structure)
      BY <1>1, <1>2, <2>1, AnswersSound
    <3> QED BY <1>1, <3>1 DEF NeverStranded
  <2>2. CASE n \notin Names(structure)
    <3>1. answer'.targets = <<>> BY <1>1, <2>2 DEF Evaluated, Failed
    <3>2. DOMAIN <<>> = {} OBVIOUS
    <3> QED BY <3>1, <3>2 DEF NeverStranded, IsInjective, TargetsOf
  <2> QED BY <2>1, <2>2
<1> QED BY <1>1, <1>3, <1>4, <1>5 DEF GraphInv, FloodedForward, FloodedBackward, SoundGraphs

\* A graph is built when, and only when, its shape follows every rule, every node is
\* reached from an entry and END from every node; a refusal for reach blames the first
\* node that is not; and the edges of a built graph lead where END can be reached.
THEOREM GraphsSound == GraphSpec => []SoundGraphs
<1>1. GraphInit => GraphInv BY InitKeeps
<1>2. GraphInv /\ [GraphNext]_gvars => GraphInv'
  <2> SUFFICES ASSUME GraphInv, [GraphNext]_gvars PROVE GraphInv' OBVIOUS
  <2>1. CASE Check BY <2>1, CheckKeeps
  <2>2. CASE EndForward BY <2>2, EndForwardKeeps
  <2>3. CASE EndBackward BY <2>3, EndBackwardKeeps
  <2>4. CASE \E n \in frontier : Pop(n) BY <2>4, PopKeeps
  <2>5. CASE \E n \in Names(structure) \cup Malformed, back \in Returned : Evaluate(n, back)
    BY <2>5, EvaluateKeeps
  <2>6. CASE UNCHANGED gvars
    BY <2>6 DEF gvars, GraphInv, Checked, FloodedForward, FloodedBackward, SoundGraphs,
                BuiltIfSound, NeverStranded, Forward, Backward
  <2> QED BY <2>1, <2>2, <2>3, <2>4, <2>5, <2>6 DEF GraphNext
<1>3. GraphInv => SoundGraphs BY DEF GraphInv
<1> QED BY <1>1, <1>2, <1>3, PTL DEF GraphSpec
=====================================================================================
