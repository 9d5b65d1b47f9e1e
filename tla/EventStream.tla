---------------------------- MODULE EventStream -----------------------------
(***************************************************************************)
(* The event log of one workspace and its delivery to browsers.  Writers   *)
(* are database transactions: they lock agent rows, append events under    *)
(* the row lock of the workspace's counter and commit or roll back.        *)
(* Readers are SSE connections of the actevents function: each polls the   *)
(* log behind its own cursor, page by page, and may be lost at any moment; *)
(* the client then reconnects behind the last event it handled.            *)
(***************************************************************************)
EXTENDS Naturals, Sequences

CONSTANTS
    Agents,      \* agent ids, in the order of the ids
    TeamOf,      \* the team of an agent
    Txs,         \* concurrent transactions
    Dashboards,  \* clients that open a new URL with their cursor
    Natives,     \* clients that reconnect to the same URL with Last-Event-ID
    Scope,       \* the team a client follows, or All
    Page,        \* events read per poll (100 in the code)
    MaxSeq,      \* bound: events ever appended
    All, None

Clients == Dashboards \cup Natives
Seqs    == 1..MaxSeq
Events  == [seq : Seqs, team : {TeamOf[a] : a \in Agents}]

ASSUME StreamAssumption ==
    /\ Agents \subseteq Nat
    /\ \E m \in Agents \cup {0} : Agents \subseteq 0..m
    /\ None \notin Txs
    /\ Page \in Nat \ {0}
    /\ MaxSeq \in Nat

VARIABLES
    want,     \* agents a transaction has yet to lock
    held,     \* agents it holds locked
    pending,  \* events it has inserted and not committed
    cowner,   \* owner of the counter row's lock
    counter,  \* next_sequence as committed
    next,     \* next_sequence as its owner sees it
    events,   \* committed rows of agent_events
    link,     \* a client's connection: down, up, or ended by the server
    spos,     \* cursor of the server's loop; 0 when there is none
    wire,     \* events sent and not yet handled by the client
    cursor,   \* sequence of the last event the client handled
    shown     \* sequences the client has shown, oldest first

writers == <<want, held, pending, cowner, counter, next, events>>
readers == <<link, spos, wire, cursor, shown>>
vars    == <<writers, readers>>

Init ==
    /\ want = [t \in Txs |-> {}] /\ held = [t \in Txs |-> {}]
    /\ pending = [t \in Txs |-> {}]
    /\ cowner = None /\ counter = 1 /\ next = 1 /\ events = {}
    /\ link = [c \in Clients |-> "down"]
    /\ spos = [c \in Clients |-> 0] /\ wire = [c \in Clients |-> <<>>]
    /\ cursor = [c \in Clients |-> 0] /\ shown = [c \in Clients |-> <<>>]

-----------------------------------------------------------------------------
(* Transactions. *)

Idle(t) == want[t] = {} /\ held[t] = {}
Free(a) == \A t \in Txs : a \notin held[t]
First(a, A) == a \in A /\ \A b \in A : a <= b

\* A start of all agents locks every agent row, in the order of the ids; every
\* other command locks the row of one agent.
Begin(t) ==
    /\ Idle(t)
    /\ \E A \in {Agents} \cup {{a} : a \in Agents} : want' = [want EXCEPT ![t] = A]
    /\ UNCHANGED <<held, pending, cowner, counter, next, events, readers>>

\* A simulation step takes the agent row only if nobody holds it: SKIP LOCKED.
BeginStep(t) ==
    /\ Idle(t)
    /\ \E a \in Agents : Free(a) /\ held' = [held EXCEPT ![t] = {a}]
    /\ UNCHANGED <<want, pending, cowner, counter, next, events, readers>>

LockNext(t) ==
    /\ \E a \in want[t] :
         /\ First(a, want[t]) /\ Free(a)
         /\ want' = [want EXCEPT ![t] = @ \ {a}]
         /\ held' = [held EXCEPT ![t] = @ \cup {a}]
    /\ UNCHANGED <<pending, cowner, counter, next, events, readers>>

\* A transaction inserts events only once it holds every agent row it needs.
EventsFollowLocksBug(t) == TRUE
EventsFollowLocks(t) == want[t] = {}

\* The counter row is updated in place: its lock is kept until the end of the
\* transaction, and nobody else reads or takes a sequence in between.
CounterFreeBug(t) == TRUE
CounterFree(t) == cowner \in {None, t}

AppendEvent(t) ==
    /\ EventsFollowLocks(t) /\ CounterFree(t)
    /\ next <= MaxSeq
    /\ \E a \in held[t] :
         pending' = [pending EXCEPT ![t] = @ \cup {[seq |-> next, team |-> TeamOf[a]]}]
    /\ cowner' = t /\ next' = next + 1
    /\ UNCHANGED <<want, held, counter, events, readers>>

Release(t) ==
    /\ want' = [want EXCEPT ![t] = {}] /\ held' = [held EXCEPT ![t] = {}]
    /\ pending' = [pending EXCEPT ![t] = {}]
    /\ cowner' = IF cowner = t THEN None ELSE cowner

Commit(t) ==
    /\ held[t] # {} /\ want[t] = {}
    /\ events' = events \cup pending[t]
    /\ counter' = IF cowner = t THEN next ELSE counter
    /\ Release(t)
    /\ UNCHANGED <<next, readers>>

\* A rollback takes back the counter with the events: it leaves no gap.
RolledBackGap(t) == next
RolledBackBug(t) == next - 1
RolledBack(t) == IF cowner = t THEN counter ELSE next

Abort(t) ==
    /\ ~Idle(t)
    /\ next' = RolledBack(t)
    /\ Release(t)
    /\ UNCHANGED <<counter, events, readers>>

-----------------------------------------------------------------------------
(* Connections. *)

Follows(c, e) == Scope[c] \in {All, e.team}

\* The stream starts behind the larger of the URL's after_sequence and the
\* Last-Event-ID header.  A dashboard's URL carries its cursor; a native
\* EventSource keeps a URL without one and sends the header.
ResumeBug(c) == IF c \in Dashboards THEN cursor[c] ELSE 0
Resume(c) ==
    LET query  == IF c \in Dashboards THEN cursor[c] ELSE 0
        header == IF c \in Natives THEN cursor[c] ELSE 0
    IN  IF query < header THEN header ELSE query

Connect(c) ==
    /\ link[c] = "down"
    /\ link' = [link EXCEPT ![c] = "up"]
    /\ spos' = [spos EXCEPT ![c] = Resume(c)]
    /\ wire' = [wire EXCEPT ![c] = <<>>]
    /\ UNCHANGED <<writers, cursor, shown>>

\* The rows the server selects: those behind its cursor.
BehindBug(e, p) == e.seq >= p
Behind(e, p) == e.seq > p

\* rows is what the query of a poll returns: the first rows behind the cursor,
\* in the order of the sequence, Page of them if there are as many.
IsPage(c, rows) ==
    LET sel  == {e \in events : Follows(c, e) /\ Behind(e, spos[c])}
        read == {rows[i] : i \in 1..Len(rows)}
    IN  /\ Len(rows) \in 1..Page
        /\ read \subseteq sel
        /\ \A i, j \in 1..Len(rows) : i < j => rows[i].seq < rows[j].seq
        /\ \A e \in sel \ read : Len(rows) = Page /\ rows[Page].seq < e.seq

\* One round of the server's loop that finds rows.
Poll(c) ==
    /\ link[c] = "up"
    /\ \E n \in 1..Page : \E rows \in [1..n -> events] :
         /\ IsPage(c, rows)
         /\ spos' = [spos EXCEPT ![c] = rows[n].seq]
         /\ wire' = [wire EXCEPT ![c] = @ \o rows]
    /\ UNCHANGED <<writers, link, cursor, shown>>

\* A dashboard ignores an event that is not behind its cursor.
Receive(c) ==
    /\ wire[c] # <<>>
    /\ wire' = [wire EXCEPT ![c] = Tail(@)]
    /\ LET s == Head(wire[c]).seq
       IN  IF c \in Dashboards /\ s <= cursor[c]
           THEN UNCHANGED <<cursor, shown>>
           ELSE /\ cursor' = [cursor EXCEPT ![c] = s]
                /\ shown' = [shown EXCEPT ![c] = Append(@, s)]
    /\ UNCHANGED <<writers, link, spos>>

\* A step of the simulation threw: the loop ends and the stream is closed;
\* what was sent before is still delivered.
End(c) ==
    /\ link[c] = "up"
    /\ link' = [link EXCEPT ![c] = "ended"]
    /\ spos' = [spos EXCEPT ![c] = 0]
    /\ UNCHANGED <<writers, wire, cursor, shown>>

\* The connection breaks, or the client closes it: on an error event, at the
\* rotation of its token.  What is on the way is lost.
Lose(c) ==
    /\ link[c] # "down"
    /\ link' = [link EXCEPT ![c] = "down"]
    /\ spos' = [spos EXCEPT ![c] = 0]
    /\ wire' = [wire EXCEPT ![c] = <<>>]
    /\ UNCHANGED <<writers, cursor, shown>>

\* The client has handled all that came before the end, and retries.
NoticeEnd(c) ==
    /\ link[c] = "ended" /\ wire[c] = <<>>
    /\ link' = [link EXCEPT ![c] = "down"]
    /\ UNCHANGED <<writers, spos, wire, cursor, shown>>

Next ==
    \/ \E t \in Txs : \/ Begin(t) \/ BeginStep(t) \/ LockNext(t)
                      \/ AppendEvent(t) \/ Commit(t) \/ Abort(t)
    \/ \E c \in Clients : \/ Connect(c) \/ Poll(c) \/ Receive(c)
                          \/ End(c) \/ NoticeEnd(c) \/ Lose(c)

\* A client that lost its stream retries.  Connections may break for ever, but
\* not always before the loop's next poll or before what it read arrives.
Fairness ==
    \A c \in Clients :
        /\ WF_vars(Connect(c)) /\ WF_vars(NoticeEnd(c))
        /\ SF_vars(Poll(c)) /\ SF_vars(Receive(c))

Spec == Init /\ [][Next]_vars /\ Fairness

-----------------------------------------------------------------------------
(* Correctness. *)

TypeOK ==
    /\ want \in [Txs -> SUBSET Agents] /\ held \in [Txs -> SUBSET Agents]
    /\ pending \in [Txs -> SUBSET Events]
    /\ cowner \in Txs \cup {None}
    /\ counter \in 1..MaxSeq + 1 /\ next \in 1..MaxSeq + 1
    /\ events \in SUBSET Events
    /\ link \in [Clients -> {"down", "up", "ended"}]
    /\ spos \in [Clients -> 0..MaxSeq] /\ cursor \in [Clients -> 0..MaxSeq]
    /\ wire \in [Clients -> Seq(Events)] /\ shown \in [Clients -> Seq(Seqs)]

\* Event sequences of a workspace have no gap and no duplicate, whatever
\* transactions roll back: assign_workspace_event_sequence.
SequencesDense ==
    /\ {e.seq : e \in events} = 1..counter - 1
    /\ \A e, f \in events : e.seq = f.seq => e = f

Ascending(s) == \A i, j \in 1..Len(s) : i < j => s[i] < s[j]

\* A client has shown exactly the committed events of its team up to its
\* cursor, in order and each once, however often its stream broke: an event
\* never commits behind a reader that has already passed its sequence.
NothingSkipped ==
    \A c \in Clients :
        /\ Ascending(shown[c])
        /\ {shown[c][i] : i \in 1..Len(shown[c])} =
               {e.seq : e \in {f \in events : Follows(c, f) /\ f.seq <= cursor[c]}}

\* t cannot take its next step before u ends: u holds the agent row t locks
\* next, or the counter row.
WaitsFor(t, u) ==
    /\ t # u
    /\ \/ \E a \in held[u] : First(a, want[t])
       \/ held[t] # {} /\ EventsFollowLocks(t) /\ cowner = u

\* No transactions wait for each other in a circle: agent rows are locked in
\* the order of their ids, and before the counter row.
NoWaitCycle ==
    \A S \in (SUBSET Txs) \ {{}} : \E t \in S : \A u \in S : ~WaitsFor(t, u)

\* The log and its delivery implement the abstract feed: the log grows at its
\* end, a client is shown the earliest event it has not seen, and every event of
\* its team in the end, however often its stream breaks or the function ends it.
F == INSTANCE Feed WITH Entries <- Events, log <- events, seen <- shown
ImplementsFeed == F!Spec
=============================================================================
