---- MODULE MCAgenticNode ----
(***************************************************************************)
(* Small instances of AgenticNode and AgentMail: a behaviour is one of an     *)
(* instance over its thread and its inbox, or one of agents that send mail    *)
(* to each other.                                                            *)
(***************************************************************************)
EXTENDS AgenticNode, AgentMail

CONSTANTS c1, c2, notice, mail, p, q

Final == [calls |-> {}, more |-> FALSE]
Continued == [calls |-> {}, more |-> TRUE]
Ask1 == [calls |-> {c1}, more |-> FALSE]
Ask2 == [calls |-> {c1, c2}, more |-> FALSE]

Node(kind, steps, rule, rounds, limit, items, answers) ==
    [kind |-> kind, steps |-> steps, inbox |-> items # {}, rule |-> rule, rounds |-> rounds,
     limit |-> limit, items |-> items, answers |-> answers]

React(items, answers) == Node("react", 2, FALSE, "Fail", "WithoutCriticCall", items, answers)

MCReact == {React({}, {Final, Continued, Ask2}), React({notice, mail}, {Final, Ask1})}
MCGc == {Node("gc", 3, TRUE, "FinalGeneration", "WithCriticCall", {mail}, {Final}),
         Node("gc", 2, FALSE, "FinalGeneration", "WithoutCriticCall", {notice, mail}, {Final}),
         Node("gc", 2, TRUE, "KeepRejectedGeneration", "WithoutCriticCall", {}, {Final, Ask1}),
         Node("gc", 2, FALSE, "Fail", "WithCriticCall", {}, {Final, Continued})}
MCConfigs == MCReact \cup MCGc

Draft(to, cc, documents) == [to |-> to, cc |-> cc, documents |-> documents]
MCDrafts == {Draft(<<>>, <<p>>, <<>>), Draft(<<p, q>>, <<p>>, <<>>),
             Draft(<<p>>, <<q>>, <<"doc">>), Draft(<<q>>, <<>>, <<>>)}
Scene(working, waiting, arrivals, bound) ==
    [working |-> working, waiting |-> waiting, arrivals |-> arrivals, losses |-> bound]
MCScenes == {Scene({p}, {}, 3, 1), Scene({}, {p}, 3, 0), Scene({p}, {p}, 2, 0), Scene({p, q}, {}, 2, 1)}
NoMail == Scene({}, {}, 0, 0)

-----------------------------------------------------------------------------
MailIdle ==
    /\ scene = NoMail /\ arrived = <<>> /\ marked = {} /\ shelf = {} /\ rung = 0
    /\ waits = [a \in Peers |-> Awake] /\ desk = [a \in Peers |-> EmptyDesk]
    /\ letters = [a \in Peers |-> <<>>] /\ given = {} /\ losses = 0
NodeIdle ==
    /\ config = React({}, {Final, Continued, Ask2})
    /\ thread = <<>> /\ copy = <<>> /\ inbox = <<>> /\ read = {} /\ objects = {}
    /\ count = Zero /\ w = [Created EXCEPT !.pc = "done"] /\ faults = 0 /\ restarts = 0

MCInit == \/ Init /\ MailIdle
          \/ MailInit /\ NodeIdle
NodeStep == scene = NoMail /\ Next /\ UNCHANGED mailvars
MailStep == scene # NoMail /\ MailNext /\ UNCHANGED vars
MCNext == NodeStep \/ MailStep
MCSpec == MCInit /\ [][MCNext]_<<vars, mailvars>> /\ Fairness
====
