---------------------------- MODULE MCDurableAgent ----------------------------
\* A small instance of DurableAgent.
EXTENDS DurableAgent

React(d, l) ==
    [agent |-> "react", durable |-> d, onLimit |-> l]
Critic(d, l, b, r, f) ==
    [agent |-> "critic", durable |-> d, onLimit |-> l, budget |-> b, revisions |-> r, final |-> f,
     retries |-> b]

MCConfs ==
    {React(d, l) : d \in BOOLEAN, l \in {"None", "Error", "Continue", "End"}}
        \cup {Critic(d, "End", b, 1, TRUE) : d \in BOOLEAN, b \in 0..1}
        \cup {Critic(d, "None", 1, 0, FALSE) : d \in BOOLEAN}

Turned(author, items) == [by |-> author, items |-> items]
MCOpenings ==
    {<<>>, <<Turned("generator", <<"call", "ran">>)>>, <<Turned("generator", <<"call", "refused">>)>>,
     <<Turned("generator", <<"blank">>)>>,
     <<Turned("generator", <<"text">>), Turned("critic", <<"critique">>)>>}
===============================================================================
