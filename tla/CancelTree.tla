----------------------------- MODULE CancelTree -----------------------------
(***************************************************************************)
(* The cancel tokens of br-graph-contract (src/crates/br-graph-contract/    *)
(* src/cancel): a tree that grows from its leaves, a trigger that spreads   *)
(* down it one lock at a time, reads that walk up it without a lock, and    *)
(* Triggered futures that register a waker under the lock of their token.   *)
(***************************************************************************)
EXTENDS Naturals, FiniteSets

CONSTANTS
    Tokens,     \* the Shared nodes, in the order the model makes them
    Root,       \* the token made by CancelToken::new
    Nil,        \* no token
    Threads,    \* the calls of trigger in progress at a time
    Futures,    \* the Triggered futures
    Slack       \* PRUNE_SLACK

ASSUME CancelAssumption ==
    /\ Root \in Tokens /\ Nil \notin Tokens
    /\ Slack \in Nat
    /\ IsFiniteSet(Tokens)

VARIABLES
    parent,     \* Shared.parent
    above,      \* history: the ancestors of each token and itself
    made,       \* the tokens made so far
    alive,      \* those whose Shared is not dropped
    held,       \* those the host holds a CancelToken, a handle or a view of
    flag,       \* those whose triggered is true, the atomic and Inner's alike
    children,   \* Inner.children, with the dead ones
    waiters,    \* Inner.waiters
    target,     \* the token each trigger was called on
    pending,    \* its stack of tokens to fire
    wakers,     \* the wakers it took
    watched,    \* the token of each future
    stage,      \* where its poll is: the walk before the lock or under it
    at,         \* the token its walk reads next
    returned,   \* history: tokens on which a trigger has returned
    mustSee,    \* history: futures whose walk began after an ancestor's trigger returned
    peak        \* history: the most live children a token has had

tree == <<parent, above, made, children, peak>>
call == <<target, pending, wakers>>
future == <<watched, stage, at, mustSee>>
treeVars == <<tree, alive, held, flag, waiters, call, future, returned>>

LiveChildren(c) == {d \in alive : parent[d] = c}

\* An Arc of the token exists: the host's, a trigger's, a future's or a child's.
Strong(c) ==
    \/ c \in held
    \/ \E t \in Threads : target[t] = c \/ c \in pending[t]
    \/ \E p \in Futures : watched[p] = c
    \/ LiveChildren(c) # {}

\* poll_triggered walks up under the lock of the future's token.
Unlocked(c) == \A p \in Futures : ~(watched[p] = c /\ stage[p] = "locked")

-----------------------------------------------------------------------------
\* child: of a triggered token it is a fresh triggered one; else it is linked
\* under the lock, and the list is pruned of its dead when it has grown.
BugNeverPrunes(p) == children[p]
Pruned(p) ==
    IF Cardinality(children[p]) >= 2 * Cardinality(LiveChildren(p)) + Slack
    THEN {d \in children[p] : d \in alive /\ Strong(d)}
    ELSE children[p]

Link(p, c) ==
    IF p \in flag
    THEN /\ flag' = flag \cup {c}
         /\ above' = [above EXCEPT ![c] = {c}]
         /\ UNCHANGED <<parent, children, peak>>
    ELSE /\ parent' = [parent EXCEPT ![c] = p]
         /\ above' = [above EXCEPT ![c] = {c} \cup above[p]]
         /\ children' = [children EXCEPT ![p] = Pruned(p) \cup {c}]
         /\ peak' = IF peak[p] > Cardinality(LiveChildren(p)) THEN peak
                    ELSE [peak EXCEPT ![p] = Cardinality(LiveChildren(p)) + 1]
         /\ UNCHANGED flag

Child(p, c) ==
    /\ p \in held /\ Unlocked(p) /\ c \in Tokens \ made
    /\ Link(p, c)
    /\ made' = made \cup {c} /\ alive' = alive \cup {c} /\ held' = held \cup {c}
    /\ UNCHANGED <<waiters, call, future, returned>>

HostDrops(c) ==
    /\ c \in held /\ held' = held \ {c}
    /\ UNCHANGED <<tree, alive, flag, waiters, call, future, returned>>

\* Drop with release_parent: the last Arc is gone, and the parent's counter and
\* Arc follow; the loop of the drop is one such step after another.
Freed(c) ==
    /\ c \in alive /\ ~Strong(c)
    /\ alive' = alive \ {c}
    /\ UNCHANGED <<tree, held, flag, waiters, call, future, returned>>

-----------------------------------------------------------------------------
\* trigger: a loop of fire over the stack, and the wakers once it is empty.
Trigger(t, c) ==
    /\ target[t] = Nil /\ c \in held
    /\ target' = [target EXCEPT ![t] = c]
    /\ pending' = [pending EXCEPT ![t] = {c}]
    /\ UNCHANGED <<tree, alive, held, flag, waiters, wakers, future, returned>>

\* Fire of a token not yet triggered.  Its children that are gone by the time
\* their turn comes are those no Arc is left of.
BugForgetsWaiters(t, c) ==
    /\ c \in pending[t] \ flag /\ Unlocked(c)
    /\ flag' = flag \cup {c}
    /\ wakers' = wakers
    /\ waiters' = waiters
    /\ pending' = [pending EXCEPT ![t] =
                      (@ \ {c}) \cup {d \in children[c] : d \in alive /\ Strong(d)}]
    /\ children' = [children EXCEPT ![c] = {}]
    /\ UNCHANGED <<parent, above, made, peak, alive, held, target, future, returned>>
Fire(t, c) ==
    /\ c \in pending[t] \ flag /\ Unlocked(c)
    /\ flag' = flag \cup {c}
    /\ wakers' = [wakers EXCEPT ![t] = @ \cup waiters[c]]
    /\ waiters' = [waiters EXCEPT ![c] = {}]
    /\ pending' = [pending EXCEPT ![t] =
                      (@ \ {c}) \cup {d \in children[c] : d \in alive /\ Strong(d)}]
    /\ children' = [children EXCEPT ![c] = {}]
    /\ UNCHANGED <<parent, above, made, peak, alive, held, target, future, returned>>

FiredBefore(t, c) ==
    /\ c \in pending[t] \cap flag /\ Unlocked(c)
    /\ pending' = [pending EXCEPT ![t] = @ \ {c}]
    /\ UNCHANGED <<tree, alive, held, flag, waiters, target, wakers, future, returned>>

WakeWaiter(t, p) ==
    /\ target[t] # Nil /\ pending[t] = {} /\ p \in wakers[t]
    /\ wakers' = [wakers EXCEPT ![t] = @ \ {p}]
    /\ IF stage[p] = "parked"
       THEN /\ stage' = [stage EXCEPT ![p] = "woken"]
            /\ UNCHANGED <<watched, at, mustSee>>
       ELSE UNCHANGED future
    /\ UNCHANGED <<tree, alive, held, flag, waiters, target, pending, returned>>

Return(t) ==
    /\ target[t] # Nil /\ pending[t] = {} /\ wakers[t] = {}
    /\ returned' = returned \cup {target[t]}
    /\ target' = [target EXCEPT ![t] = Nil]
    /\ UNCHANGED <<tree, alive, held, flag, waiters, pending, wakers, future>>

-----------------------------------------------------------------------------
\* Triggered: its poll reads is_triggered, then again under the lock.
Watch(p, c) ==
    /\ stage[p] = "unused" /\ c \in held
    /\ watched' = [watched EXCEPT ![p] = c]
    /\ stage' = [stage EXCEPT ![p] = "woken"]
    /\ UNCHANGED <<tree, alive, held, flag, waiters, call, at, mustSee, returned>>

Poll(p) ==
    /\ stage[p] = "woken"
    /\ stage' = [stage EXCEPT ![p] = "walking"]
    /\ at' = [at EXCEPT ![p] = watched[p]]
    /\ mustSee' = IF above[watched[p]] \cap returned = {} THEN mustSee \ {p}
                  ELSE mustSee \cup {p}
    /\ UNCHANGED <<tree, alive, held, flag, waiters, call, watched, returned>>

\* is_triggered: one atomic load per token on the way up.
BugReadsItselfOnly(c) == Nil
NextUp(c) == parent[c]

WalkUp(p) ==
    /\ stage[p] \in {"walking", "locked"}
    /\ at[p] \in Tokens \ flag /\ NextUp(at[p]) # Nil
    /\ at' = [at EXCEPT ![p] = NextUp(@)]
    /\ UNCHANGED <<tree, alive, held, flag, waiters, call, watched, stage, mustSee, returned>>

WalkFinds(p) ==
    /\ stage[p] \in {"walking", "locked"} /\ at[p] \in flag
    /\ stage' = [stage EXCEPT ![p] = "ready"]
    /\ at' = [at EXCEPT ![p] = Nil]
    /\ mustSee' = mustSee \ {p}
    /\ UNCHANGED <<tree, alive, held, flag, waiters, call, watched, returned>>

AtTop(p) == at[p] \in Tokens \ flag /\ NextUp(at[p]) = Nil

Locks(p) ==
    /\ stage[p] = "walking" /\ AtTop(p) /\ Unlocked(watched[p])
    /\ stage' = [stage EXCEPT ![p] = "locked"]
    /\ at' = [at EXCEPT ![p] = watched[p]]
    /\ UNCHANGED <<tree, alive, held, flag, waiters, call, watched, mustSee, returned>>

Registers(p) ==
    /\ stage[p] = "locked" /\ AtTop(p)
    /\ waiters' = [waiters EXCEPT ![watched[p]] = @ \cup {p}]
    /\ stage' = [stage EXCEPT ![p] = "parked"]
    /\ at' = [at EXCEPT ![p] = Nil]
    /\ mustSee' = mustSee \ {p}
    /\ UNCHANGED <<tree, alive, held, flag, call, watched, returned>>

FutureDropped(p) ==
    /\ stage[p] \in {"woken", "parked", "ready"} /\ Unlocked(watched[p])
    /\ stage' = [stage EXCEPT ![p] = "gone"]
    /\ waiters' = [waiters EXCEPT ![watched[p]] = @ \ {p}]
    /\ watched' = [watched EXCEPT ![p] = Nil]
    /\ UNCHANGED <<tree, alive, held, flag, call, at, mustSee, returned>>

-----------------------------------------------------------------------------
TreeInit ==
    /\ parent = [c \in Tokens |-> Nil]
    /\ above = [c \in Tokens |-> {c}]
    /\ made = {Root} /\ alive = {Root} /\ held = {Root} /\ flag = {}
    /\ children = [c \in Tokens |-> {}] /\ waiters = [c \in Tokens |-> {}]
    /\ target = [t \in Threads |-> Nil]
    /\ pending = [t \in Threads |-> {}] /\ wakers = [t \in Threads |-> {}]
    /\ watched = [p \in Futures |-> Nil] /\ stage = [p \in Futures |-> "unused"]
    /\ at = [p \in Futures |-> Nil] /\ mustSee = {}
    /\ returned = {} /\ peak = [c \in Tokens |-> 0]

Host == \E c \in Tokens : HostDrops(c) \/ Freed(c) \/ \E p \in Tokens : Child(p, c)
Call(t) ==
    \/ \E c \in Tokens : Fire(t, c) \/ FiredBefore(t, c)
    \/ \E p \in Futures : WakeWaiter(t, p)
    \/ Return(t)
PollStep(p) == Poll(p) \/ WalkUp(p) \/ WalkFinds(p) \/ Locks(p) \/ Registers(p)

TreeNext ==
    \/ Host
    \/ \E t \in Threads : Call(t) \/ \E c \in Tokens : Trigger(t, c)
    \/ \E p \in Futures : PollStep(p) \/ FutureDropped(p) \/ \E c \in Tokens : Watch(p, c)

\* A trigger that was called goes on, and a poll that has begun.
TreeFairness ==
    /\ \A t \in Threads : WF_treeVars(Call(t))
    /\ \A p \in Futures : WF_treeVars(PollStep(p))

TreeSpec == TreeInit /\ [][TreeNext]_treeVars
TreeFairSpec == TreeSpec /\ TreeFairness

-----------------------------------------------------------------------------
TreeTypeOK ==
    /\ parent \in [Tokens -> Tokens \cup {Nil}]
    /\ above \in [Tokens -> SUBSET Tokens]
    /\ made \in SUBSET Tokens
    /\ alive \subseteq made /\ held \subseteq alive /\ flag \subseteq made
    /\ children \in [Tokens -> SUBSET Tokens]
    /\ waiters \in [Tokens -> SUBSET Futures]
    /\ target \in [Threads -> alive \cup {Nil}]
    /\ pending \in [Threads -> SUBSET made]
    /\ wakers \in [Threads -> SUBSET Futures]
    /\ \A t \in Threads : target[t] = Nil => pending[t] = {} /\ wakers[t] = {}
    /\ watched \in [Futures -> alive \cup {Nil}]
    /\ stage \in [Futures -> {"unused", "woken", "walking", "locked", "parked", "ready", "gone"}]
    /\ at \in [Futures -> Tokens \cup {Nil}]
    /\ returned \subseteq made
    /\ mustSee \subseteq Futures
    /\ peak \in [Tokens -> Nat]

\* A descendant never reads untriggered once an ancestor's trigger returned,
\* even if that call found another one still spreading: the walk meets a flag.
SeenAfterReturn == \A p \in mustSee : ~AtTop(p)

\* A trigger in progress will reach every live token below a triggered one, and
\* every token registered below an untriggered one is known to it.
SpreadGoesOn ==
    \A c \in alive : Strong(c) /\ parent[c] # Nil =>
        IF parent[c] \in flag
        THEN c \in flag \/ \E t \in Threads : c \in pending[t]
        ELSE c \in children[parent[c]]

\* No wake-up is lost between the check and the registration: a future parked
\* on a triggered token is among the wakers of a trigger in progress.
NoLostWaiter ==
    \A p \in Futures :
        stage[p] = "parked" /\ watched[p] \in flag => \E t \in Threads : p \in wakers[t]

\* The list of children stays within twice the most that ever lived at a time.
ChildrenBounded ==
    \A c \in Tokens : Cardinality(children[c]) <= 2 * peak[c] + Slack

\* Every future on a token of a triggered branch becomes ready, or is dropped.
TriggerIsHeard ==
    \A p \in Futures :
        stage[p] = "parked" /\ above[watched[p]] \cap flag # {} ~> stage[p] # "parked"
=============================================================================
