------------------------------- MODULE AgentMail -------------------------------
(***************************************************************************)
(* The mail of agents: the tools send_mail and get_mail_files                *)
(* (br-agentic-nodes, mail_tools.rs), the inbox they call, in its form in     *)
(* memory (br-agentic-contract, memory/inbox.rs), and the reads, page by      *)
(* page, that bring what arrived to the conversation of each agent (read.rs,  *)
(* queue.rs, boundary.rs).  An arrival is named by its place in the inbox,    *)
(* which is also the sequence number a cursor holds.                          *)
(***************************************************************************)
EXTENDS Lists, SequencesExt

CONSTANTS
    Peers,       \* the agents that share the inbox
    Drafts,      \* what an agent may send: [to, cc, documents], sequences
    Library,     \* the documents the host may store
    Batch,       \* the items of a page
    MaxArrived,  \* bound: the mails and entries that arrive
    Scenes       \* who has an instance, whose host waits, and the bounds, see SceneType

\* arrivals and losses: bounds of the arrivals and of the instances that are lost.
SceneType == [working : SUBSET Peers, waiting : SUBSET Peers, arrivals : 0..MaxArrived, losses : Nat]

ASSUME MailAssumption ==
    /\ \A d \in Drafts : /\ {d.to, d.cc} \subseteq Seq(Peers)
                         /\ d.documents \in Seq(Library)
    /\ Batch \in Nat \ {0} /\ MaxArrived \in Nat
    /\ \A s \in Scenes : s \in SceneType

VARIABLES
    scene,
    arrived,  \* State::mails and entries, in the order they were numbered
    marked,   \* State::read: pairs of an agent and an arrival
    shelf,    \* State::documents
    rung,     \* the count the arrivals channel holds, at most the arrivals
    waits,    \* each call of wait: [pc, heard]
    desk,     \* the memory of each instance: [reading, after, got, marks]
    letters,  \* the incoming entries of each conversation, in order
    given,    \* the agents and mails whose documents a tool gave
    losses

mailvars == <<scene, arrived, marked, shelf, rung, waits, desk, letters, given, losses>>

Awake == [pc |-> "idle", heard |-> 0]
NoRead == "none"
EmptyDesk == [reading |-> NoRead, after |-> 0, got |-> <<>>, marks |-> <<>>]

MailInit ==
    /\ scene \in Scenes
    /\ arrived = <<>> /\ marked = {} /\ shelf = {} /\ rung = 0
    /\ waits = [a \in Peers |-> Awake]
    /\ desk = [a \in Peers |-> EmptyDesk]
    /\ letters = [a \in Peers |-> <<>>]
    /\ given = {} /\ losses = 0

-----------------------------------------------------------------------------
\* The inbox.

\* What an arrival is for an agent: a mail to it, a copy, an entry of the host.
ItemFor(a, i) ==
    CASE arrived[i].kind = "entry" -> IF arrived[i].to = <<a>> THEN "entry" ELSE "none"
      [] arrived[i].kind = "mail" /\ a \in ToSet(arrived[i].to) -> "to"
      [] arrived[i].kind = "mail" /\ a \in ToSet(arrived[i].cc) \ ToSet(arrived[i].to) -> "cc"
      [] OTHER -> "none"

\* What is listed for an agent: mails and entries are sorted by their number, so
\* in the order they arrived; a mail names an agent once (NewMail::refusal).
Places == [i \in 1..Len(arrived) |-> i]
For(a) == {i \in DOMAIN arrived : ItemFor(a, i) # "none"}
Listed(a) == Among(Places, For(a))

UnreadBy(a) == Among(Listed(a), {i \in For(a) : <<a, i>> \notin marked})

\* A page, and the cursor of the next one: 0 when there is none.
BugCountsPlaces(a, after) ==
    LET rest == SubSeq(UnreadBy(a), after + 1, Len(UnreadBy(a)))
        page == SubSeq(rest, 1, Batch)
    IN IF Len(rest) > Batch THEN [items |-> page, next |-> after + Batch]
       ELSE [items |-> rest, next |-> 0]
Page(a, after) ==
    LET rest == Among(UnreadBy(a), (after + 1)..Len(arrived))
        page == SubSeq(rest, 1, Batch)
    IN IF Len(rest) > Batch THEN [items |-> page, next |-> Last(page)]
       ELSE [items |-> rest, next |-> 0]

\* NewMail::refusal.
Refuses(draft) == draft.to = <<>> \/ ~IsInjective(draft.to \o draft.cc)

Arrives(record) ==
    /\ Len(arrived) < scene.arrivals
    /\ arrived' = Append(arrived, record)

\* send_mail: a fresh identity each time; a mail that is refused changes nothing.
SendMail(a) ==
    /\ \E d \in {d \in Drafts : ~Refuses(d)} :
        Arrives([kind |-> "mail", to |-> d.to, cc |-> d.cc, documents |-> d.documents])
    /\ UNCHANGED <<scene, marked, shelf, rung, waits, desk, letters, given, losses>>

DeliverEntry(a) ==
    /\ Arrives([kind |-> "entry", to |-> <<a>>, cc |-> <<>>, documents |-> <<>>])
    /\ UNCHANGED <<scene, marked, shelf, rung, waits, desk, letters, given, losses>>

\* The channel is rung once the state is unlocked: others may look in between.
Announce ==
    /\ rung < Len(arrived)
    /\ rung' = rung + 1
    /\ UNCHANGED <<scene, arrived, marked, shelf, waits, desk, letters, given, losses>>

PutDocument ==
    /\ \E d \in Library \ shelf : shelf' = shelf \cup {d}
    /\ UNCHANGED <<scene, arrived, marked, rung, waits, desk, letters, given, losses>>

\* get_mail_files: the gate holds the incoming entries of the conversation.  What is
\* refused, by the gate or by the inbox, and a document that is missing give an error.
FilesFor(a, i) == ItemFor(a, i) = "to"

GetMailFiles(a) ==
    /\ \E i \in ToSet(letters[a]) :
        /\ FilesFor(a, i)
        /\ ToSet(arrived[i].documents) \subseteq shelf
        /\ given' = given \cup {<<a, i>>}
    /\ UNCHANGED <<scene, arrived, marked, shelf, rung, waits, desk, letters, losses>>

-----------------------------------------------------------------------------
\* wait: subscribes, then looks, and listens to the channel between two looks.

Subscribe(a) ==
    /\ a \in scene.waiting /\ waits[a].pc = "idle"
    /\ waits' = [waits EXCEPT ![a] = [pc |-> "looks", heard |-> rung]]
    /\ UNCHANGED <<scene, arrived, marked, shelf, rung, desk, letters, given, losses>>

Look(a) ==
    /\ waits[a].pc = "looks"
    /\ waits' = [waits EXCEPT ![a] = IF UnreadBy(a) # <<>> THEN Awake ELSE [@ EXCEPT !.pc = "listens"]]
    /\ UNCHANGED <<scene, arrived, marked, shelf, rung, desk, letters, given, losses>>

\* changed(): a count it has not heard is there, or comes later.
BugListensLate(a) == [pc |-> "sleeps", heard |-> rung]
Asleep(a) == [waits[a] EXCEPT !.pc = "sleeps"]

Listen(a) ==
    /\ waits[a].pc = "listens"
    /\ waits' = [waits EXCEPT ![a] = Asleep(a)]
    /\ UNCHANGED <<scene, arrived, marked, shelf, rung, desk, letters, given, losses>>

Hear(a) ==
    /\ waits[a].pc = "sleeps" /\ waits[a].heard # rung
    /\ waits' = [waits EXCEPT ![a] = [pc |-> "looks", heard |-> rung]]
    /\ UNCHANGED <<scene, arrived, marked, shelf, rung, desk, letters, given, losses>>

-----------------------------------------------------------------------------
\* The instance of an agent: Queue::read in the background, then the boundary.

WithPage(a, d) ==
    LET page == Page(a, d.after) IN
    [d EXCEPT !.got = @ \o Among(page.items, For(a) \ ToSet(d.got)),
              !.after = page.next,
              !.reading = IF page.next = 0 THEN "ended" ELSE "going"]

ReadPage(a) ==
    /\ desk[a].reading = "going"
    /\ desk' = [desk EXCEPT ![a] = WithPage(a, @)]
    /\ UNCHANGED <<scene, arrived, marked, shelf, rung, waits, letters, given, losses>>

\* refresh_read takes a read that ended and spawns the next; store_at_boundary then
\* stores what the conversation does not hold, and goes on to mark it all.
Drain(a) ==
    /\ a \in scene.working
    /\ desk[a].marks = <<>> /\ desk[a].reading # "going"
    /\ LET held == Among(desk[a].got, ToSet(letters[a]))
           fresh == Among(desk[a].got, For(a) \ ToSet(letters[a]))
       IN /\ letters' = [letters EXCEPT ![a] = @ \o fresh]
          /\ desk' = [desk EXCEPT ![a] = [reading |-> "going", after |-> 0, got |-> <<>>,
                                        marks |-> held \o fresh]]
    /\ UNCHANGED <<scene, arrived, marked, shelf, rung, waits, given, losses>>

MarkRead(a) ==
    /\ desk[a].marks # <<>>
    /\ marked' = marked \cup {<<a, Head(desk[a].marks)>>}
    /\ desk' = [desk EXCEPT ![a].marks = Tail(@)]
    /\ UNCHANGED <<scene, arrived, shelf, rung, waits, letters, given, losses>>

\* The instance ends or is lost; the next one of the thread starts with an empty queue.
LoseDesk(a) ==
    /\ losses < scene.losses /\ desk[a] # EmptyDesk
    /\ losses' = losses + 1
    /\ desk' = [desk EXCEPT ![a] = EmptyDesk]
    /\ UNCHANGED <<scene, arrived, marked, shelf, rung, waits, letters, given>>

MailNext ==
    \/ PutDocument \/ Announce
    \/ \E a \in Peers :
        \/ SendMail(a) \/ DeliverEntry(a) \/ GetMailFiles(a)
        \/ Subscribe(a) \/ Look(a) \/ Listen(a) \/ Hear(a)
        \/ ReadPage(a) \/ Drain(a) \/ MarkRead(a) \/ LoseDesk(a)

MailSpec == MailInit /\ [][MailNext]_mailvars

-----------------------------------------------------------------------------
\* Properties.

\* A conversation holds a prefix of what arrived for its agent, in the order it
\* arrived: no page skips an arrival while others come or are marked, none is
\* stored twice, also after an instance was lost between its store and its marks.
NoLetterSkipped ==
    \A a \in Peers : IsPrefix(letters[a], Listed(a))

\* The documents of a mail are given only to an agent it is addressed to, never to
\* one in copy, and only once its conversation holds the mail.
FilesStayWithTo ==
    \A g \in given : g[2] \in ToSet(letters[g[1]]) /\ g[1] \in ToSet(arrived[g[2]].to)

\* What arrived for an agent is in its conversation or still unread by it: the marks
\* of another agent, a mark before a loss or a page hide nothing from it.
NoLetterHidden ==
    \A a \in Peers, i \in DOMAIN arrived :
        ItemFor(a, i) # "none" => i \in ToSet(letters[a]) \cup ToSet(UnreadBy(a))

\* What was sent reaches the conversations it is for, and its documents no one else.
MailReachesItsOwn == NoLetterSkipped /\ NoLetterHidden /\ FilesStayWithTo

\* A wait that goes to sleep while something is unread was rung since it subscribed,
\* or is about to be: an arrival between its look and its sleep is not missed.
NoDeafSleeper ==
    \A a \in Peers :
        waits[a].pc \in {"listens", "sleeps"} /\ UnreadBy(a) # <<>> =>
            waits[a].heard # rung \/ rung < Len(arrived)
=============================================================================
