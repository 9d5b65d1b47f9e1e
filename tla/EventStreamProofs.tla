------------------------- MODULE EventStreamProofs --------------------------
(***************************************************************************)
(* Theorems of EventStream, for any agents, transactions, clients, page    *)
(* size and number of events.                                              *)
(***************************************************************************)
EXTENDS EventStream, TLAPS, SequenceTheorems, WellFoundedInduction

-----------------------------------------------------------------------------
(* Types, apart for the writers and the readers. *)

WriterTypes ==
    /\ want \in [Txs -> SUBSET Agents] /\ held \in [Txs -> SUBSET Agents]
    /\ pending \in [Txs -> SUBSET Events]
    /\ cowner \in Txs \cup {None}
    /\ counter \in 1..MaxSeq + 1 /\ next \in 1..MaxSeq + 1
    /\ events \in SUBSET Events

ReaderTypes ==
    /\ link \in [Clients -> {"down", "up", "ended"}]
    /\ spos \in [Clients -> 0..MaxSeq] /\ cursor \in [Clients -> 0..MaxSeq]
    /\ wire \in [Clients -> Seq(Events)] /\ shown \in [Clients -> Seq(Seqs)]

\* The owner of the counter row holds agents and waits for none; it alone has
\* uncommitted events, numbered from the committed counter on.
CounterOwned ==
    /\ cowner = None => next = counter
    /\ cowner # None => want[cowner] = {} /\ held[cowner] # {}
    /\ \A t \in Txs : t # cowner => pending[t] = {}
    /\ counter <= next
    /\ \A t \in Txs : \A e \in pending[t] : counter <= e.seq /\ e.seq < next
    /\ \A t \in Txs : \A e, f \in pending[t] : e.seq = f.seq => e = f
    /\ cowner # None =>
         \A s \in counter..next - 1 : \E e \in pending[cowner] : e.seq = s

\* SequencesDense, element by element.
Dense ==
    /\ \A e \in events : 1 <= e.seq /\ e.seq < counter
    /\ \A e, f \in events : e.seq = f.seq => e = f
    /\ \A s \in 1..counter - 1 : \E e \in events : e.seq = s

WInv == WriterTypes /\ CounterOwned /\ Dense

WriterStep(t) ==
    \/ Begin(t) \/ BeginStep(t) \/ LockNext(t)
    \/ AppendEvent(t) \/ Commit(t) \/ Abort(t)

\* Sequence numbers are natural numbers.
LEMMA SeqsNat == Seqs \subseteq Nat /\ \A e \in Events : e.seq \in Seqs
  BY StreamAssumption DEF Seqs, Events

\* The log is empty and dense initially.
LEMMA WriterInit == Init => WInv
  BY StreamAssumption DEF Init, WInv, WriterTypes, CounterOwned, Dense

\* Transactions do not touch the clients' state.
LEMMA WriterReaders ==
    ASSUME NEW t \in Txs, WriterStep(t) PROVE UNCHANGED readers
  BY DEF WriterStep, Begin, BeginStep, LockNext, AppendEvent, Commit, Abort, Release

\* Locking changes no event and no counter.
LEMMA LockingKeeps ==
    ASSUME WInv, NEW t \in Txs, Begin(t) \/ BeginStep(t) \/ LockNext(t)
    PROVE  WInv'
<1>1. WriterTypes'
  BY DEF WInv, WriterTypes, Begin, BeginStep, LockNext
<1>2. UNCHANGED <<pending, cowner, counter, next, events>>
  BY DEF Begin, BeginStep, LockNext
<1>3. cowner # None => want'[cowner] = {} /\ held'[cowner] # {}
  <2>1. CASE cowner = t
    <3>1. (want[t] = {} /\ held[t] # {}) \/ cowner = None
      BY <2>1 DEF WInv, CounterOwned
    <3>2. ~Idle(t) \/ cowner = None
      BY <3>1 DEF Idle
    <3> QED BY <3>1, <3>2 DEF Begin, BeginStep, LockNext
  <2>2. CASE cowner # t
    <3>1. cowner # None => want'[cowner] = want[cowner] /\ held'[cowner] = held[cowner]
      BY <2>2 DEF Begin, BeginStep, LockNext, WInv, WriterTypes
    <3> QED BY <3>1 DEF WInv, CounterOwned
  <2> QED BY <2>1, <2>2
<1>4. CounterOwned'
  BY <1>2, <1>3 DEF WInv, CounterOwned
<1>5. Dense'
  BY <1>2 DEF WInv, Dense
<1> QED BY <1>1, <1>4, <1>5 DEF WInv

\* An append takes the sequence after the last one, under the counter's lock.
LEMMA AppendKeeps ==
    ASSUME WInv, NEW t \in Txs, AppendEvent(t)
    PROVE  WInv'
<1>1. PICK a \in held[t] :
          pending' = [pending EXCEPT ![t] = @ \cup {[seq |-> next, team |-> TeamOf[a]]}]
  BY DEF AppendEvent
<1> DEFINE new == [seq |-> next, team |-> TeamOf[a]]
<1>2. a \in Agents /\ next \in Seqs /\ new \in Events
  <2>1. a \in Agents BY DEF WInv, WriterTypes
  <2>2. next \in Seqs BY StreamAssumption DEF WInv, WriterTypes, AppendEvent, Seqs
  <2> QED BY <2>1, <2>2 DEF Events
<1>3. pending'[t] = pending[t] \cup {new} /\ \A u \in Txs \ {t} : pending'[u] = pending[u]
  BY <1>1 DEF WInv, WriterTypes
<1>4. WriterTypes'
  <2>1. pending' \in [Txs -> SUBSET Events]
    BY <1>1, <1>2 DEF WInv, WriterTypes
  <2>2. next' \in 1..MaxSeq + 1
    BY StreamAssumption DEF WInv, WriterTypes, AppendEvent
  <2> QED BY <2>1, <2>2 DEF WInv, WriterTypes, AppendEvent
<1>5. cowner' = t /\ next' = next + 1 /\ UNCHANGED <<want, held, counter, events>>
  BY DEF AppendEvent
<1>6. \A u \in Txs \ {t} : pending[u] = {}
  <2>1. cowner \in {None, t} BY DEF AppendEvent, CounterFree
  <2> QED BY <2>1, StreamAssumption DEF WInv, CounterOwned
<1>7. \A e \in pending[t] : e.seq \in Nat /\ counter <= e.seq /\ e.seq < next
  BY SeqsNat DEF WInv, WriterTypes, CounterOwned
<1>8. counter \in Nat /\ next \in Nat /\ counter <= next /\ new.seq = next
  BY StreamAssumption DEF WInv, WriterTypes, CounterOwned
<1>9. \A s \in counter..next - 1 : \E e \in pending[t] : e.seq = s
  <2>1. CASE cowner = None
    <3>1. next = counter BY <2>1 DEF WInv, CounterOwned
    <3> QED BY <3>1, <1>8
  <2>2. CASE cowner = t
    BY <2>2, StreamAssumption DEF WInv, CounterOwned
  <2> QED BY <2>1, <2>2 DEF AppendEvent, CounterFree
<1>10. CounterOwned'
  <2>1. want'[cowner'] = {} /\ held'[cowner'] # {} /\ cowner' # None
    BY <1>1, <1>5, StreamAssumption DEF AppendEvent, EventsFollowLocks
  <2>2. \A u \in Txs : u # cowner' => pending'[u] = {}
    BY <1>3, <1>5, <1>6
  <2>3. counter' <= next' BY <1>5, <1>8
  <2>4. \A u \in Txs : \A e \in pending'[u] : counter' <= e.seq /\ e.seq < next'
    BY <1>3, <1>5, <1>6, <1>7, <1>8
  <2>5. \A u \in Txs : \A e, f \in pending'[u] : e.seq = f.seq => e = f
    BY <1>3, <1>6, <1>7, <1>8 DEF WInv, CounterOwned
  <2>6. \A s \in counter'..next' - 1 : \E e \in pending'[t] : e.seq = s
    <3>1. SUFFICES ASSUME NEW s \in counter..next PROVE \E e \in pending'[t] : e.seq = s
      BY <1>5, <1>8
    <3>2. s = next \/ s \in counter..next - 1
      BY <1>8
    <3>3. new \in pending'[t] /\ pending[t] \subseteq pending'[t]
      BY <1>3
    <3> QED BY <3>2, <3>3, <1>8, <1>9
  <2> QED BY <2>1, <2>2, <2>3, <2>4, <2>5, <2>6, <1>5 DEF CounterOwned
<1>11. Dense'
  BY <1>5 DEF WInv, Dense
<1> QED BY <1>4, <1>10, <1>11 DEF WInv

\* What a commit publishes is numbered behind everything committed before.
LEMMA CommitPublishes ==
    ASSUME WInv, NEW t \in Txs, Commit(t)
    PROVE  /\ counter \in Nat /\ counter' \in Nat /\ counter <= counter'
           /\ events' = events \cup pending[t] /\ pending[t] \subseteq Events
           /\ \A e \in pending[t] : counter <= e.seq
           /\ \A e \in events : e.seq < counter
  BY StreamAssumption DEF WInv, WriterTypes, CounterOwned, Dense, Commit

\* A commit publishes the events pending with the counter that follows them.
LEMMA CommitKeeps ==
    ASSUME WInv, NEW t \in Txs, Commit(t)
    PROVE  WInv'
<1>1. WriterTypes'
  BY StreamAssumption DEF WInv, WriterTypes, Commit, Release
<1>2. /\ \A u \in Txs : pending'[u] \in {{}, pending[u]}
      /\ pending'[t] = {}
      /\ \A u \in Txs \ {t} : pending'[u] = pending[u] /\ want'[u] = want[u] /\ held'[u] = held[u]
  BY DEF WInv, WriterTypes, Commit, Release
<1>3. counter \in Nat /\ next \in Nat /\ counter <= next /\ next' = next
  BY StreamAssumption DEF WInv, WriterTypes, CounterOwned, Commit
<1>4. \A e \in pending[t] : e.seq \in Nat /\ counter <= e.seq /\ e.seq < next
  BY SeqsNat DEF WInv, WriterTypes, CounterOwned
<1>5. \A e \in events : e.seq \in Nat /\ 1 <= e.seq /\ e.seq < counter
  BY SeqsNat DEF WInv, WriterTypes, Dense
<1>6. CASE cowner = t
  <2>1. cowner' = None /\ counter' = next /\ events' = events \cup pending[t]
    BY <1>6 DEF Commit, Release
  <2>2. \A u \in Txs : pending'[u] = {}
    BY <1>2, <1>6 DEF WInv, CounterOwned
  <2>3. CounterOwned'
    BY <2>1, <2>2, <1>3 DEF CounterOwned
  <2>4. Dense'
    <3>1. \A s \in counter..next - 1 : \E e \in pending[t] : e.seq = s
      BY <1>6, StreamAssumption DEF WInv, CounterOwned
    <3>2. \A s \in 1..next - 1 : \E e \in events \cup pending[t] : e.seq = s
      BY <3>1, <1>3 DEF WInv, Dense
    <3>3. \A e, f \in events \cup pending[t] : e.seq = f.seq => e = f
      BY <1>4, <1>5, <1>3 DEF WInv, Dense, CounterOwned
    <3>4. \A e \in events \cup pending[t] : 1 <= e.seq /\ e.seq < next
      <4>1. 1 <= counter BY StreamAssumption DEF WInv, WriterTypes
      <4> QED BY <4>1, <1>3, <1>4, <1>5
    <3> QED BY <2>1, <3>2, <3>3, <3>4 DEF Dense
  <2> QED BY <1>1, <2>3, <2>4 DEF WInv
<1>7. CASE cowner # t
  <2>1. cowner' = cowner /\ counter' = counter /\ events' = events
    BY <1>7 DEF Commit, Release, WInv, CounterOwned
  <2>2. CounterOwned'
    <3>1. cowner # None => want'[cowner] = want[cowner] /\ held'[cowner] = held[cowner]
                             /\ pending'[cowner] = pending[cowner]
      BY <1>2, <1>7 DEF WInv, WriterTypes
    <3> QED BY <1>2, <1>3, <2>1, <3>1 DEF WInv, CounterOwned
  <2>3. Dense' BY <2>1 DEF WInv, Dense
  <2> QED BY <1>1, <2>2, <2>3 DEF WInv
<1> QED BY <1>6, <1>7

\* A rollback takes back the counter with the events.
LEMMA AbortKeeps ==
    ASSUME WInv, NEW t \in Txs, Abort(t)
    PROVE  WInv'
<1>1. WriterTypes'
  BY StreamAssumption DEF WInv, WriterTypes, Abort, Release, RolledBack
<1>2. /\ pending'[t] = {}
      /\ \A u \in Txs \ {t} : pending'[u] = pending[u] /\ want'[u] = want[u] /\ held'[u] = held[u]
  BY DEF WInv, WriterTypes, Abort, Release
<1>3. counter' = counter /\ events' = events
  BY DEF Abort
<1>4. Dense' BY <1>3 DEF WInv, Dense
<1>5. CASE cowner = t
  <2>1. cowner' = None /\ next' = counter
    BY <1>5 DEF Abort, Release, RolledBack
  <2>2. \A u \in Txs : pending'[u] = {}
    BY <1>2, <1>5 DEF WInv, CounterOwned
  <2>3. counter \in Nat BY StreamAssumption DEF WInv, WriterTypes
  <2> QED BY <1>1, <1>3, <1>4, <2>1, <2>2, <2>3 DEF WInv, CounterOwned
<1>6. CASE cowner # t
  <2>1. cowner' = cowner /\ next' = next
    BY <1>6 DEF Abort, Release, RolledBack
  <2>2. cowner # None => want'[cowner] = want[cowner] /\ held'[cowner] = held[cowner]
                           /\ pending'[cowner] = pending[cowner]
    BY <1>2, <1>6 DEF WInv, WriterTypes
  <2>3. \A u \in Txs : pending'[u] = pending[u]
    BY <1>2, <1>6 DEF WInv, CounterOwned
  <2>4. CounterOwned'
    BY <1>3, <2>1, <2>2, <2>3 DEF WInv, CounterOwned
  <2> QED BY <1>1, <1>4, <2>4 DEF WInv
<1> QED BY <1>5, <1>6

\* Every step of a transaction keeps the log's invariant.
LEMMA WriterKeeps ==
    ASSUME WInv, NEW t \in Txs, WriterStep(t)
    PROVE  WInv'
  BY LockingKeeps, AppendKeeps, CommitKeeps, AbortKeeps DEF WriterStep

\* Every action keeps the log's invariant.
LEMMA WriterInvariant ==
    ASSUME WInv, [Next]_vars PROVE WInv'
<1>1. CASE \E t \in Txs : WriterStep(t)
  BY <1>1, WriterKeeps
<1>2. CASE UNCHANGED writers
  BY <1>2 DEF writers, WInv, WriterTypes, CounterOwned, Dense
<1> QED
  BY <1>1, <1>2 DEF Next, WriterStep, vars, Connect, Poll, Receive, End, NoticeEnd, Lose

-----------------------------------------------------------------------------
(* Readers.  What is on the way to a client continues what the client has    *)
(* handled: it is the committed events of its team from its cursor on, in    *)
(* order, as far as the server has read.                                     *)

Handled(c) == {shown[c][i] : i \in 1..Len(shown[c])}

Positions(c) ==
    /\ cursor[c] < counter /\ spos[c] < counter
    /\ link[c] = "down" => wire[c] = <<>>
    /\ link[c] = "up" => cursor[c] <= spos[c]

WireOrdered(c) ==
    /\ \A i \in 1..Len(wire[c]) :
          /\ wire[c][i] \in events /\ Follows(c, wire[c][i])
          /\ cursor[c] < wire[c][i].seq
          /\ link[c] = "up" => wire[c][i].seq <= spos[c]
    /\ \A i, j \in 1..Len(wire[c]) : i < j => wire[c][i].seq < wire[c][j].seq

\* Whatever the client follows behind its cursor and before p is on the wire.
CompleteTo(c, p) ==
    \A e \in events :
        Follows(c, e) /\ cursor[c] < e.seq /\ e.seq <= p =>
            \E j \in 1..Len(wire[c]) : wire[c][j] = e

WireComplete(c) ==
    /\ \A i \in 1..Len(wire[c]) : CompleteTo(c, wire[c][i].seq)
    /\ link[c] = "up" => CompleteTo(c, spos[c])

ShownExactly(c) ==
    /\ \A i, j \in 1..Len(shown[c]) : i < j => shown[c][i] < shown[c][j]
    /\ \A s \in Handled(c) : \E e \in events : Follows(c, e) /\ e.seq <= cursor[c] /\ e.seq = s
    /\ \A e \in events : Follows(c, e) /\ e.seq <= cursor[c] => e.seq \in Handled(c)

CInv(c) == Positions(c) /\ WireOrdered(c) /\ WireComplete(c) /\ ShownExactly(c)

RInv == ReaderTypes /\ \A c \in Clients : CInv(c)

ClientStep(c) ==
    Connect(c) \/ Poll(c) \/ Receive(c) \/ End(c) \/ NoticeEnd(c) \/ Lose(c)

\* Nothing is shown, sent or handled initially.
LEMMA ReaderInit == Init => RInv
<1> SUFFICES ASSUME Init PROVE RInv
  OBVIOUS
<1>1. ReaderTypes
  BY StreamAssumption DEF Init, ReaderTypes
<1>2. ASSUME NEW c \in Clients PROVE CInv(c)
  BY DEF Init, CInv, Positions, WireOrdered, WireComplete, CompleteTo, ShownExactly, Handled
<1> QED BY <1>1, <1>2 DEF RInv

\* A committed event is behind every position a reader has reached.
LEMMA CommitBehind ==
    ASSUME WInv, RInv, NEW t \in Txs, WriterStep(t)
    PROVE  /\ events \subseteq events' /\ counter \in Nat /\ counter' \in Nat /\ counter <= counter'
           /\ \A e \in events' \ events : e \in Events /\ counter <= e.seq
<1>1. counter \in Nat
  BY StreamAssumption DEF WInv, WriterTypes
<1>2. CASE Commit(t)
  BY <1>2, CommitPublishes
<1>3. CASE ~Commit(t)
  <2>1. events' = events /\ counter' = counter
    BY <1>3 DEF WriterStep, Begin, BeginStep, LockNext, AppendEvent, Abort
  <2> QED BY <1>1, <2>1
<1> QED BY <1>2, <1>3

\* A commit adds events behind every cursor only, so a client misses none.
LEMMA WriterKeepsClient ==
    ASSUME WInv, RInv, NEW t \in Txs, WriterStep(t), NEW c \in Clients
    PROVE  CInv(c)'
<1>1. /\ link'[c] = link[c] /\ spos'[c] = spos[c] /\ wire'[c] = wire[c]
      /\ cursor'[c] = cursor[c] /\ shown'[c] = shown[c]
  BY WriterReaders DEF readers
<1>2. /\ events \subseteq events' /\ counter \in Nat /\ counter' \in Nat /\ counter <= counter'
      /\ \A e \in events' \ events : e.seq \in Nat /\ counter <= e.seq
  BY CommitBehind, SeqsNat
<1>3. /\ CInv(c) /\ cursor[c] \in Nat /\ spos[c] \in Nat /\ wire[c] \in Seq(Events)
      /\ Len(wire[c]) \in Nat
  BY StreamAssumption DEF RInv, ReaderTypes
<1>4. \A i \in 1..Len(wire[c]) : wire[c][i] \in events /\ wire[c][i].seq < counter
  BY <1>3 DEF CInv, WireOrdered, WInv, Dense
<1>5. Positions(c)'
  BY <1>1, <1>2, <1>3 DEF CInv, Positions
<1>6. WireOrdered(c)'
  BY <1>1, <1>2, <1>3 DEF CInv, WireOrdered, Follows
<1>7. WireComplete(c)'
  <2>1. \A i \in 1..Len(wire[c]) : wire[c][i].seq \in Nat
    BY <1>4, SeqsNat DEF WInv, WriterTypes, Seqs
  <2>2. \A i \in 1..Len(wire[c]) : CompleteTo(c, wire[c][i].seq)'
    <3> TAKE i \in 1..Len(wire[c])
    <3> DEFINE p == wire[c][i].seq
    <3>1. p \in Nat /\ p < counter /\ CompleteTo(c, p) /\ wire'[c][i].seq = p
      BY <2>1, <1>1, <1>3, <1>4 DEF CInv, WireComplete
    <3> HIDE DEF p
    <3> QED BY <3>1, <1>1, <1>2 DEF CompleteTo, Follows
  <2>3. link[c] = "up" => CompleteTo(c, spos[c])'
    BY <1>1, <1>2, <1>3 DEF CInv, WireComplete, CompleteTo, Follows, Positions
  <2> QED BY <1>1, <2>2, <2>3 DEF WireComplete
<1>8. ShownExactly(c)'
  <2>1. ShownExactly(c) /\ Handled(c)' = Handled(c)
    BY <1>1, <1>3 DEF CInv, Handled
  <2>2. \A e \in events' : Follows(c, e)' = Follows(c, e)
    BY DEF Follows
  <2>3. \A e \in events' : e.seq <= cursor[c] => e \in events
    BY <1>2, <1>3 DEF CInv, Positions
  <2>4. \A s \in Handled(c)' : \E e \in events' : Follows(c, e)' /\ e.seq <= cursor'[c] /\ e.seq = s
    BY <1>1, <1>2, <2>1, <2>2 DEF ShownExactly
  <2>5. \A e \in events' : Follows(c, e)' /\ e.seq <= cursor'[c] => e.seq \in Handled(c)'
    BY <1>1, <2>1, <2>2, <2>3 DEF ShownExactly
  <2> QED BY <1>1, <2>1, <2>4, <2>5 DEF ShownExactly
<1> QED BY <1>5, <1>6, <1>7, <1>8 DEF CInv

\* A step of one client leaves the log and the other clients alone.
LEMMA ClientFrame ==
    ASSUME RInv, NEW c \in Clients, ClientStep(c)
    PROVE  /\ UNCHANGED writers
           /\ \A d \in Clients \ {c} :
                /\ link'[d] = link[d] /\ spos'[d] = spos[d] /\ wire'[d] = wire[d]
                /\ cursor'[d] = cursor[d] /\ shown'[d] = shown[d]
  BY DEF RInv, ReaderTypes, ClientStep, Connect, Poll, Receive, End, NoticeEnd, Lose

\* What the invariants say of one client and of the events.
LEMMA ClientFacts ==
    ASSUME WInv, RInv, NEW c \in Clients
    PROVE  /\ CInv(c)
           /\ cursor[c] \in Nat /\ spos[c] \in Nat /\ counter \in Nat /\ 1 <= counter
           /\ wire[c] \in Seq(Events) /\ shown[c] \in Seq(Seqs)
           /\ \A e \in events : e \in Events /\ e.seq \in Nat /\ e.seq \in 0..MaxSeq /\ e.seq < counter
           /\ \A e, f \in events : e.seq = f.seq => e = f
  BY StreamAssumption, SeqsNat DEF RInv, ReaderTypes, WInv, WriterTypes, Dense, Seqs

\* A client resumes at its cursor, by its URL or by its header.
LEMMA ResumesAtCursor ==
    ASSUME RInv, NEW c \in Clients PROVE Resume(c) = cursor[c]
<1>1. cursor[c] \in Nat /\ (c \in Dashboards \/ c \in Natives)
  BY StreamAssumption DEF RInv, ReaderTypes, Clients
<1> QED BY <1>1 DEF Resume

\* What a client has shown is exact as long as its cursor stays.
LEMMA ShownKept ==
    ASSUME NEW c, ShownExactly(c), events' = events, cursor'[c] = cursor[c], shown'[c] = shown[c]
    PROVE  ShownExactly(c)'
<1>1. Handled(c)' = Handled(c)
  BY DEF Handled
<1>2. \A e : Follows(c, e)' = Follows(c, e)
  BY DEF Follows
<1> QED BY <1>1, <1>2 DEF ShownExactly

\* What is on the way is ordered and complete as long as it and the cursors stay.
LEMMA WireKept ==
    ASSUME NEW c, WireOrdered(c), WireComplete(c),
           events' = events, cursor'[c] = cursor[c], wire'[c] = wire[c],
           link'[c] = "up" => link[c] = "up" /\ spos'[c] = spos[c]
    PROVE  WireOrdered(c)' /\ WireComplete(c)'
<1>1. \A e : Follows(c, e)' = Follows(c, e)
  BY DEF Follows
<1>2. WireOrdered(c)'
  BY <1>1 DEF WireOrdered
<1>3. \A i \in 1..Len(wire'[c]) : CompleteTo(c, wire[c][i].seq)'
  BY <1>1 DEF WireComplete, CompleteTo
<1>4. link'[c] = "up" => CompleteTo(c, spos[c])'
  BY <1>1 DEF WireComplete, CompleteTo
<1> QED BY <1>2, <1>3, <1>4 DEF WireComplete

\* A step of one client leaves the invariant of the others.
LEMMA OthersKeep ==
    ASSUME RInv, NEW c \in Clients, ClientStep(c), NEW d \in Clients \ {c}
    PROVE  CInv(d)'
<1>1. /\ link'[d] = link[d] /\ spos'[d] = spos[d] /\ wire'[d] = wire[d]
      /\ cursor'[d] = cursor[d] /\ shown'[d] = shown[d]
      /\ events' = events /\ counter' = counter
  BY ClientFrame DEF writers
<1>2. CInv(d)
  BY DEF RInv
<1>3. Positions(d)'
  BY <1>1, <1>2 DEF CInv, Positions
<1> QED BY <1>1, <1>2, <1>3, ShownKept, WireKept DEF CInv

\* Length and elements of a concatenation.
LEMMA ConcatFacts ==
    ASSUME NEW S, NEW s \in Seq(S), NEW t \in Seq(S)
    PROVE  /\ s \o t \in Seq(S) /\ Len(s) \in Nat /\ Len(t) \in Nat
           /\ Len(s \o t) = Len(s) + Len(t)
           /\ \A i \in 1..Len(s) : (s \o t)[i] = s[i]
           /\ \A i \in 1..Len(t) : (s \o t)[Len(s) + i] = t[i]
  OBVIOUS

\* A position of a concatenation lies in the first part or in the second.
LEMMA Halves ==
    ASSUME NEW m \in Nat, NEW n \in Nat, NEW i \in 1..m + n
    PROVE  i \in 1..m \/ \E k \in 1..n : i = m + k
<1>1. CASE i <= m
  BY <1>1
<1>2. CASE i > m
  <2>1. i - m \in 1..n /\ i = m + (i - m) BY <1>2
  <2> QED BY <2>1
<1> QED BY <1>1, <1>2

\* Connecting, noticing the end and losing a stream leave nothing on the way.
LEMMA NothingOnTheWay ==
    ASSUME WInv, RInv, NEW c \in Clients, Connect(c) \/ NoticeEnd(c) \/ Lose(c)
    PROVE  ReaderTypes' /\ CInv(c)'
<1>1. UNCHANGED <<writers, cursor, shown>>
  BY DEF Connect, NoticeEnd, Lose
<1>2. wire'[c] = <<>> /\ spos'[c] \in {0, cursor[c], spos[c]} /\ (link'[c] = "up" => spos'[c] = cursor[c])
  BY ResumesAtCursor DEF Connect, NoticeEnd, Lose, RInv, ReaderTypes
<1>3. ReaderTypes'
  <2>1. CASE Connect(c)
    BY <2>1, ResumesAtCursor DEF Connect, RInv, ReaderTypes
  <2>2. CASE NoticeEnd(c)
    BY <2>2 DEF NoticeEnd, RInv, ReaderTypes
  <2>3. CASE Lose(c)
    BY <2>3, StreamAssumption DEF Lose, RInv, ReaderTypes
  <2> QED BY <2>1, <2>2, <2>3
<1>4. Positions(c)'
  BY <1>1, <1>2, ClientFacts DEF CInv, Positions, writers
<1>5. WireOrdered(c)' /\ WireComplete(c)'
  <2>1. Len(wire'[c]) = 0 BY <1>2
  <2>2. link'[c] = "up" => CompleteTo(c, spos[c])'
    BY <1>1, <1>2, ClientFacts DEF CompleteTo, writers
  <2> QED BY <2>1, <2>2 DEF WireOrdered, WireComplete
<1>6. ShownExactly(c)'
  BY <1>1, ClientFacts, ShownKept DEF CInv, writers
<1> QED BY <1>3, <1>4, <1>5, <1>6 DEF CInv

\* The end of the server's loop keeps what was sent.
LEMMA EndKeeps ==
    ASSUME WInv, RInv, NEW c \in Clients, End(c)
    PROVE  ReaderTypes' /\ CInv(c)'
<1>1. UNCHANGED <<writers, wire, cursor, shown>> /\ link'[c] = "ended" /\ spos'[c] = 0
  BY DEF End, RInv, ReaderTypes
<1>2. ReaderTypes'
  BY StreamAssumption DEF End, RInv, ReaderTypes
<1>3. Positions(c)'
  BY <1>1, ClientFacts DEF CInv, Positions, writers
<1>4. WireOrdered(c)' /\ WireComplete(c)' /\ ShownExactly(c)'
  BY <1>1, ClientFacts, ShownKept, WireKept DEF CInv, writers
<1> QED BY <1>2, <1>3, <1>4 DEF CInv

\* A page that is sent continues what is on the way, without a gap.
LEMMA PollKeeps ==
    ASSUME WInv, RInv, NEW c \in Clients, Poll(c)
    PROVE  ReaderTypes' /\ CInv(c)'
<1>1. PICK n \in 1..Page : \E rows \in [1..n -> events] :
          /\ IsPage(c, rows)
          /\ spos' = [spos EXCEPT ![c] = rows[n].seq]
          /\ wire' = [wire EXCEPT ![c] = @ \o rows]
  BY DEF Poll
<1>2. PICK rows \in [1..n -> events] :
          /\ IsPage(c, rows)
          /\ spos' = [spos EXCEPT ![c] = rows[n].seq]
          /\ wire' = [wire EXCEPT ![c] = @ \o rows]
  BY <1>1
<1>3. n \in Nat /\ 1 <= n
  BY StreamAssumption
<1>4. rows \in Seq(Events) /\ Len(rows) = n
  <2>1. events \subseteq Events BY DEF WInv, WriterTypes
  <2>2. rows \in [1..n -> Events] BY <2>1
  <2> QED BY <2>2, <1>3, SeqDef
<1>5. link[c] = "up" /\ UNCHANGED <<writers, link, cursor, shown>>
  BY DEF Poll
<1>6. spos'[c] = rows[n].seq /\ wire'[c] = wire[c] \o rows
  BY <1>2 DEF RInv, ReaderTypes
<1>7. /\ \A i \in 1..n : rows[i] \in events /\ Follows(c, rows[i]) /\ rows[i].seq > spos[c]
      /\ \A i, j \in 1..n : i < j => rows[i].seq < rows[j].seq
      /\ \A e \in events : Follows(c, e) /\ e.seq > spos[c] /\ e.seq <= rows[n].seq =>
            \E i \in 1..n : rows[i] = e
  <2>1. \A i \in 1..n : rows[i] \in events /\ Follows(c, rows[i]) /\ rows[i].seq > spos[c]
    BY <1>2, <1>4 DEF IsPage, Behind
  <2>2. \A i, j \in 1..n : i < j => rows[i].seq < rows[j].seq
    BY <1>2, <1>4 DEF IsPage
  <2>3. ASSUME NEW e \in events, Follows(c, e), e.seq > spos[c], e.seq <= rows[n].seq
        PROVE  \E i \in 1..n : rows[i] = e
    <3>1. SUFFICES ASSUME ~ \E i \in 1..n : rows[i] = e PROVE FALSE
      OBVIOUS
    <3>2. e \notin {rows[i] : i \in 1..Len(rows)}
      BY <3>1, <1>4
    <3>3. Len(rows) = Page /\ rows[Page].seq < e.seq
      BY <1>2, <2>3, <3>2 DEF IsPage, Behind
    <3>4. e.seq \in Nat /\ rows[n].seq \in Nat
      BY <1>3, ClientFacts
    <3> QED BY <3>3, <3>4, <2>3, <1>4
  <2> QED BY <2>1, <2>2, <2>3
<1>8. rows[n] \in events /\ rows[n].seq \in Nat /\ rows[n].seq \in 0..MaxSeq /\ rows[n].seq < counter
  BY <1>3, ClientFacts
<1>9. ReaderTypes'
  <2>1. spos' \in [Clients -> 0..MaxSeq]
    BY <1>2, <1>8 DEF RInv, ReaderTypes
  <2>2. wire[c] \o rows \in Seq(Events)
    BY <1>4, ClientFacts
  <2>3. wire' \in [Clients -> Seq(Events)]
    BY <1>2, <2>2 DEF RInv, ReaderTypes
  <2> QED BY <1>5, <2>1, <2>3 DEF RInv, ReaderTypes
<1>10. cursor[c] <= spos[c] /\ spos[c] < rows[n].seq /\ cursor[c] < counter
  BY <1>3, <1>5, <1>7, <1>8, ClientFacts DEF CInv, Positions
<1>11. Positions(c)'
  BY <1>5, <1>6, <1>8, <1>10, ClientFacts DEF Positions, writers
<1> DEFINE m == Len(wire[c])
<1> DEFINE w == wire'[c]
<1>12. /\ m \in Nat /\ Len(w) = m + n
       /\ \A i \in 1..m : w[i] = wire[c][i]
       /\ \A i \in 1..n : w[m + i] = rows[i]
  <2>1. wire[c] \in Seq(Events) /\ rows \in Seq(Events) /\ Len(rows) = n
    BY <1>4, ClientFacts
  <2>2. w = wire[c] \o rows
    BY <1>6
  <2>3. /\ m \in Nat /\ Len(wire[c] \o rows) = m + n
        /\ \A i \in 1..m : (wire[c] \o rows)[i] = wire[c][i]
        /\ \A i \in 1..n : (wire[c] \o rows)[m + i] = rows[i]
    <3>1. /\ Len(wire[c]) \in Nat /\ Len(wire[c] \o rows) = Len(wire[c]) + Len(rows)
          /\ \A i \in 1..Len(wire[c]) : (wire[c] \o rows)[i] = wire[c][i]
          /\ \A i \in 1..Len(rows) : (wire[c] \o rows)[Len(wire[c]) + i] = rows[i]
      BY ONLY <2>1
    <3> QED BY ONLY <3>1, <2>1 DEF m
  <2> HIDE DEF w, m
  <2> QED BY ONLY <2>2, <2>3
<1>13. /\ \A i \in 1..m : /\ wire[c][i] \in events /\ Follows(c, wire[c][i])
                          /\ cursor[c] < wire[c][i].seq /\ wire[c][i].seq <= spos[c]
                          /\ wire[c][i].seq \in Nat
       /\ \A i, j \in 1..m : i < j => wire[c][i].seq < wire[c][j].seq
  BY <1>5, ClientFacts DEF CInv, WireOrdered
<1>14. \A i \in 1..n : rows[i].seq \in Nat /\ rows[i].seq <= rows[n].seq
  BY <1>3, <1>7, ClientFacts
<1>15. cursor[c] \in Nat /\ spos[c] \in Nat
  BY ClientFacts
<1> HIDE DEF m, w
<1>16. \A i \in 1..m + n : /\ w[i] \in events /\ Follows(c, w[i]) /\ w[i].seq \in Nat
                           /\ cursor[c] < w[i].seq /\ w[i].seq <= rows[n].seq
  <2> TAKE i \in 1..m + n
  <2>1. CASE i \in 1..m
    BY <2>1, <1>8, <1>10, <1>12, <1>13, <1>15
  <2>2. ASSUME NEW k \in 1..n, i = m + k
        PROVE  /\ w[i] \in events /\ Follows(c, w[i]) /\ w[i].seq \in Nat
               /\ cursor[c] < w[i].seq /\ w[i].seq <= rows[n].seq
    <3>1. w[i] = rows[k]
      BY <2>2, <1>12
    <3>2. /\ rows[k] \in events /\ Follows(c, rows[k]) /\ rows[k].seq > spos[c]
          /\ rows[k].seq \in Nat /\ rows[k].seq <= rows[n].seq
      BY <1>7, <1>14
    <3>3. cursor[c] < rows[k].seq
      BY ONLY <3>2, <1>10, <1>15
    <3> QED BY <3>1, <3>2, <3>3
  <2> QED BY <2>1, <2>2, <1>3, <1>12, Halves
<1>17. \A i, j \in 1..m + n : i < j => w[i].seq < w[j].seq
  <2> TAKE i, j \in 1..m + n
  <2> HAVE i < j
  <2>1. CASE i \in 1..m /\ j \in 1..m
    BY <2>1, <1>12, <1>13
  <2>2. ASSUME NEW k \in 1..n, i \in 1..m, j = m + k PROVE w[i].seq < w[j].seq
    <3>1. w[i].seq \in Nat /\ w[i].seq <= spos[c]
      BY <2>2, <1>12, <1>13
    <3>2. w[j].seq \in Nat /\ w[j].seq > spos[c]
      BY <2>2, <1>7, <1>12, <1>14
    <3> QED BY <3>1, <3>2, <1>15
  <2>3. ASSUME NEW h \in 1..n, NEW k \in 1..n, i = m + h, j = m + k
        PROVE  w[i].seq < w[j].seq
    <3>1. h < k BY <2>3, <1>12
    <3> QED BY <2>3, <3>1, <1>7, <1>12
  <2>4. ASSUME NEW h \in 1..n, i = m + h, j \in 1..m PROVE FALSE
    BY <2>4, <1>12
  <2>5. i \in 1..m \/ \E h \in 1..n : i = m + h
    BY <1>3, <1>12, Halves
  <2>6. j \in 1..m \/ \E k \in 1..n : j = m + k
    BY <1>3, <1>12, Halves
  <2> QED BY <2>1, <2>2, <2>3, <2>4, <2>5, <2>6
<1>18. \A e \in events : Follows(c, e) /\ cursor[c] < e.seq /\ e.seq <= rows[n].seq =>
            \E j \in 1..m + n : w[j] = e
  <2> TAKE e \in events
  <2> HAVE Follows(c, e) /\ cursor[c] < e.seq /\ e.seq <= rows[n].seq
  <2>1. CASE e.seq <= spos[c]
    <3>1. \E j \in 1..m : wire[c][j] = e
      BY <2>1, <1>5, ClientFacts DEF CInv, WireComplete, CompleteTo, m
    <3>2. \A j \in 1..m : j \in 1..m + n
      BY <1>3, <1>12
    <3> QED BY <3>1, <3>2, <1>12
  <2>2. CASE e.seq > spos[c]
    <3>1. \E i \in 1..n : rows[i] = e
      BY <2>2, <1>7
    <3>2. \A i \in 1..n : m + i \in 1..m + n
      BY <1>3, <1>12
    <3> QED BY <3>1, <3>2, <1>12
  <2> QED BY <2>1, <2>2, ClientFacts
<1>19. \A e : Follows(c, e)' = Follows(c, e)
  BY DEF Follows
<1>20. events' = events /\ cursor'[c] = cursor[c] /\ spos'[c] = rows[n].seq
  BY <1>5, <1>6 DEF writers
<1>21. WireOrdered(c)'
  BY <1>12, <1>16, <1>17, <1>19, <1>20 DEF WireOrdered, w
<1>22. WireComplete(c)'
  <2>1. CompleteTo(c, spos[c])'
    BY <1>8, <1>12, <1>18, <1>19, <1>20 DEF CompleteTo, w
  <2>2. ASSUME NEW i \in 1..m + n PROVE CompleteTo(c, wire[c][i].seq)'
    <3>1. \A e \in events : e.seq <= w[i].seq => e.seq <= rows[n].seq
      BY <1>8, <1>16, ClientFacts
    <3> QED BY <3>1, <1>12, <1>18, <1>19, <1>20 DEF CompleteTo, w
  <2> QED BY <2>1, <2>2, <1>12 DEF WireComplete, w
<1>23. ShownExactly(c)'
  BY <1>20, <1>5, ClientFacts, ShownKept DEF CInv
<1> QED BY <1>9, <1>11, <1>21, <1>22, <1>23 DEF CInv

\* Length and elements of a tail.
LEMMA TailFacts ==
    ASSUME NEW S, NEW s \in Seq(S), s # <<>>
    PROVE  /\ Len(s) \in Nat /\ 1 \in 1..Len(s) /\ Head(s) = s[1] /\ Tail(s) \in Seq(S)
           /\ Len(Tail(s)) = Len(s) - 1
           /\ \A i \in 1..Len(s) - 1 : Tail(s)[i] = s[i + 1]
  OBVIOUS

\* Length and elements of a sequence with one element appended.
LEMMA AppendFacts ==
    ASSUME NEW S, NEW s \in Seq(S), NEW x \in S
    PROVE  /\ Append(s, x) \in Seq(S) /\ Len(s) \in Nat /\ Len(Append(s, x)) = Len(s) + 1
           /\ \A i \in 1..Len(s) : Append(s, x)[i] = s[i]
           /\ Append(s, x)[Len(s) + 1] = x
  OBVIOUS

\* The event a client handles next is the first of its team behind its cursor.
LEMMA NextInLine ==
    ASSUME WInv, RInv, NEW c \in Clients, Receive(c)
    PROVE  LET e == wire[c][1]
           IN  /\ e \in events /\ Follows(c, e) /\ cursor[c] < e.seq
               /\ \A f \in events : Follows(c, f) /\ cursor[c] < f.seq /\ f.seq <= e.seq => f = e
               /\ wire' = [wire EXCEPT ![c] = Tail(@)]
               /\ cursor' = [cursor EXCEPT ![c] = e.seq]
               /\ shown' = [shown EXCEPT ![c] = Append(@, e.seq)]
               /\ UNCHANGED <<writers, link, spos>>
<1> DEFINE e == wire[c][1]
<1>1. /\ wire[c] # <<>> /\ wire[c] \in Seq(Events)
      /\ WireOrdered(c) /\ WireComplete(c) /\ cursor[c] \in Nat
  BY ClientFacts DEF Receive, CInv
<1>2. 1 \in 1..Len(wire[c]) /\ Head(wire[c]) = e /\ Len(wire[c]) \in Nat
  BY <1>1, TailFacts
<1>3. e \in events /\ Follows(c, e) /\ cursor[c] < e.seq
  BY <1>1, <1>2 DEF WireOrdered
<1>4. e.seq \in Nat /\ ~(e.seq <= cursor[c])
  BY <1>1, <1>3, ClientFacts
<1>5. /\ wire' = [wire EXCEPT ![c] = Tail(@)]
      /\ cursor' = [cursor EXCEPT ![c] = e.seq]
      /\ shown' = [shown EXCEPT ![c] = Append(@, e.seq)]
      /\ UNCHANGED <<writers, link, spos>>
  BY <1>2, <1>4 DEF Receive
<1>6. ASSUME NEW f \in events, Follows(c, f), cursor[c] < f.seq, f.seq <= e.seq
      PROVE  f = e
  <2>1. PICK j \in 1..Len(wire[c]) : wire[c][j] = f
    BY <1>1, <1>2, <1>6 DEF WireComplete, CompleteTo
  <2>2. 1 < j => e.seq < f.seq
    BY <1>1, <1>2, <2>1 DEF WireOrdered
  <2>3. f.seq \in Nat BY ClientFacts
  <2>4. j = 1 BY <2>2, <2>3, <1>2, <1>4, <1>6
  <2> QED BY <2>1, <2>4
<1> QED BY <1>3, <1>5, <1>6

\* The event handled is the next of the client's team, and is not behind its cursor.
LEMMA ReceiveKeeps ==
    ASSUME WInv, RInv, NEW c \in Clients, Receive(c)
    PROVE  ReaderTypes' /\ CInv(c)'
<1> DEFINE e == wire[c][1]
           w == wire[c]
           t == wire'[c]
<1>1. /\ w # <<>> /\ w \in Seq(Events) /\ shown[c] \in Seq(Seqs)
      /\ cursor[c] \in Nat /\ spos[c] \in Nat /\ counter \in Nat
      /\ CInv(c)
  BY ClientFacts DEF Receive
<1>2. /\ e \in events /\ Follows(c, e) /\ cursor[c] < e.seq
      /\ \A f \in events : Follows(c, f) /\ cursor[c] < f.seq /\ f.seq <= e.seq => f = e
      /\ wire' = [wire EXCEPT ![c] = Tail(@)]
      /\ cursor' = [cursor EXCEPT ![c] = e.seq]
      /\ shown' = [shown EXCEPT ![c] = Append(@, e.seq)]
      /\ UNCHANGED <<writers, link, spos>>
  BY NextInLine
<1>3. e.seq \in Nat /\ e.seq \in 0..MaxSeq /\ e.seq \in Seqs /\ e.seq < counter
  BY <1>2, ClientFacts, SeqsNat
<1>4. t = Tail(w) /\ cursor'[c] = e.seq /\ shown'[c] = Append(shown[c], e.seq)
  BY <1>2 DEF RInv, ReaderTypes
<1>5. /\ link'[c] = link[c] /\ spos'[c] = spos[c] /\ events' = events /\ counter' = counter
  BY <1>2 DEF writers
<1>6. /\ Len(w) \in Nat /\ 1 \in 1..Len(w) /\ t \in Seq(Events) /\ Len(t) = Len(w) - 1
      /\ \A i \in 1..Len(t) : t[i] = w[i + 1] /\ i + 1 \in 1..Len(w)
  <2>1. /\ Len(w) \in Nat /\ 1 \in 1..Len(w) /\ Tail(w) \in Seq(Events)
        /\ Len(Tail(w)) = Len(w) - 1 /\ \A i \in 1..Len(w) - 1 : Tail(w)[i] = w[i + 1]
    BY <1>1, TailFacts
  <2> HIDE DEF w, t
  <2> QED BY <2>1, <1>4
<1>7. ReaderTypes'
  <2>1. wire' \in [Clients -> Seq(Events)] /\ cursor' \in [Clients -> 0..MaxSeq]
    BY <1>2, <1>3, <1>4, <1>6 DEF RInv, ReaderTypes
  <2>2. shown' \in [Clients -> Seq(Seqs)]
    BY <1>1, <1>2, <1>3, AppendFacts DEF RInv, ReaderTypes
  <2> QED BY <1>2, <2>1, <2>2 DEF RInv, ReaderTypes
<1>8. /\ \A i \in 1..Len(w) : /\ w[i] \in events /\ Follows(c, w[i])
                              /\ link[c] = "up" => w[i].seq <= spos[c]
      /\ \A i, j \in 1..Len(w) : i < j => w[i].seq < w[j].seq
      /\ \A i \in 1..Len(w) : CompleteTo(c, w[i].seq)
      /\ link[c] = "up" => CompleteTo(c, spos[c])
      /\ link[c] # "down"
  BY <1>1 DEF CInv, Positions, WireOrdered, WireComplete
<1>9. Positions(c)'
  BY <1>1, <1>3, <1>4, <1>5, <1>6, <1>8 DEF CInv, Positions
<1>10. \A f : Follows(c, f)' = Follows(c, f)
  BY DEF Follows
<1> HIDE DEF t
<1>11. WireOrdered(c)'
  <2>1. ASSUME NEW i \in 1..Len(t)
        PROVE  /\ t[i] \in events /\ Follows(c, t[i]) /\ e.seq < t[i].seq
               /\ link[c] = "up" => t[i].seq <= spos[c]
    <3>1. i + 1 \in 1..Len(w) /\ 1 < i + 1 /\ t[i] = w[i + 1]
      BY <1>6
    <3> QED BY <3>1, <1>6, <1>8
  <2>2. ASSUME NEW i \in 1..Len(t), NEW j \in 1..Len(t), i < j
        PROVE  t[i].seq < t[j].seq
    <3>1. i + 1 < j + 1 BY <2>2, <1>6
    <3> QED BY <3>1, <1>6, <1>8
  <2> QED BY <2>1, <2>2, <1>4, <1>5, <1>10 DEF WireOrdered, t
<1>12. ASSUME NEW p, CompleteTo(c, p), NEW f \in events, Follows(c, f), e.seq < f.seq, f.seq <= p
       PROVE  \E j \in 1..Len(t) : t[j] = f
  <2>1. f.seq \in Nat /\ cursor[c] < f.seq
    BY <1>1, <1>2, <1>3, <1>12, ClientFacts
  <2>2. PICK j \in 1..Len(w) : w[j] = f
    BY <1>12, <2>1 DEF CompleteTo
  <2>3. j # 1 BY <2>1, <2>2, <1>3, <1>12
  <2>4. j - 1 \in 1..Len(t) /\ (j - 1) + 1 = j
    BY <2>3, <1>6
  <2> QED BY <2>2, <2>4, <1>6
<1>13. WireComplete(c)'
  <2>1. ASSUME NEW i \in 1..Len(t) PROVE CompleteTo(c, wire[c][i].seq)'
    <3>1. t[i] = w[i + 1] /\ i + 1 \in 1..Len(w)
      BY <1>6
    <3>2. CompleteTo(c, t[i].seq)
      BY <3>1, <1>8
    <3>3. \A f \in events : Follows(c, f) /\ e.seq < f.seq /\ f.seq <= t[i].seq =>
              \E j \in 1..Len(t) : t[j] = f
      BY <3>2, <1>12
    <3> QED BY <3>3, <1>4, <1>5, <1>10 DEF CompleteTo, t
  <2>2. link'[c] = "up" => CompleteTo(c, spos[c])'
    BY <1>4, <1>5, <1>8, <1>10, <1>12 DEF CompleteTo, t
  <2> QED BY <2>1, <2>2 DEF WireComplete, t
<1>14. Handled(c)' = Handled(c) \cup {e.seq} /\ \A s \in Handled(c) : s \in Nat /\ s <= cursor[c]
  <2> DEFINE h == shown[c]
  <2>1. /\ Len(h) \in Nat /\ shown'[c] = Append(h, e.seq) /\ Len(shown'[c]) = Len(h) + 1
        /\ \A i \in 1..Len(h) : shown'[c][i] = h[i]
        /\ shown'[c][Len(h) + 1] = e.seq
    BY <1>1, <1>3, <1>4, AppendFacts
  <2>2. Handled(c)' = Handled(c) \cup {e.seq}
    <3>1. \A i \in 1..Len(h) + 1 : i \in 1..Len(h) \/ i = Len(h) + 1
      BY <2>1
    <3>2. \A i \in 1..Len(h) : i \in 1..Len(h) + 1
      BY <2>1
    <3>3. Len(h) + 1 \in 1..Len(h) + 1
      BY <2>1
    <3> QED BY <2>1, <3>1, <3>2, <3>3 DEF Handled
  <2>3. \A s \in Handled(c) : s \in Nat /\ s <= cursor[c]
    BY <1>1, ClientFacts DEF CInv, ShownExactly
  <2> QED BY <2>2, <2>3
<1>15. ShownExactly(c)'
  <2>1. ShownExactly(c) BY <1>1 DEF CInv
  <2>2. \A i, j \in 1..Len(shown'[c]) : i < j => shown'[c][i] < shown'[c][j]
    <3> DEFINE h == shown[c]
    <3>1. /\ Len(h) \in Nat /\ shown'[c] = Append(h, e.seq) /\ Len(shown'[c]) = Len(h) + 1
          /\ \A i \in 1..Len(h) : shown'[c][i] = h[i]
          /\ shown'[c][Len(h) + 1] = e.seq
      BY <1>1, <1>3, <1>4, AppendFacts
    <3>2. \A i \in 1..Len(h) : h[i] < e.seq
      <4>1. \A i \in 1..Len(h) : h[i] \in Handled(c)
        BY DEF Handled
      <4> QED BY <4>1, <1>14, <1>1, <1>2, <1>3
    <3>3. \A i, j \in 1..Len(h) : i < j => h[i] < h[j]
      BY <2>1 DEF ShownExactly
    <3> HIDE DEF h
    <3>4. \A i, j \in 1..Len(h) + 1 : i < j => i \in 1..Len(h) /\ (j \in 1..Len(h) \/ j = Len(h) + 1)
      BY <3>1
    <3> QED BY <3>1, <3>2, <3>3, <3>4
  <2>3. \A s \in Handled(c)' : \E f \in events : Follows(c, f) /\ f.seq <= e.seq /\ f.seq = s
    <3>1. \A s \in Handled(c) : s <= e.seq
      BY <1>14, <1>1, <1>2, <1>3
    <3>2. e.seq <= e.seq BY <1>3
    <3> QED BY <1>2, <1>14, <2>1, <3>1, <3>2 DEF ShownExactly
  <2>4. \A f \in events : Follows(c, f) /\ f.seq <= e.seq => f.seq \in Handled(c)'
    <3>1. \A f \in events : f.seq <= cursor[c] \/ cursor[c] < f.seq
      BY <1>1, ClientFacts
    <3> QED BY <1>2, <1>14, <2>1, <3>1 DEF ShownExactly
  <2> QED BY <1>4, <1>5, <1>10, <2>2, <2>3, <2>4 DEF ShownExactly
<1> QED BY <1>7, <1>9, <1>11, <1>13, <1>15 DEF CInv

\* Every action keeps the clients' invariant.
LEMMA ReaderInvariant ==
    ASSUME WInv, RInv, [Next]_vars PROVE RInv'
<1>1. ASSUME NEW t \in Txs, WriterStep(t) PROVE RInv'
  <2>1. ReaderTypes'
    BY <1>1, WriterReaders DEF readers, RInv, ReaderTypes
  <2> QED BY <1>1, <2>1, WriterKeepsClient DEF RInv
<1>2. ASSUME NEW c \in Clients, ClientStep(c) PROVE RInv'
  <2>1. ReaderTypes' /\ CInv(c)'
    BY <1>2, NothingOnTheWay, EndKeeps, PollKeeps, ReceiveKeeps DEF ClientStep
  <2> QED BY <1>2, <2>1, OthersKeep DEF RInv
<1>3. CASE UNCHANGED vars
  <2>1. /\ events' = events /\ counter' = counter /\ UNCHANGED readers
    BY <1>3 DEF vars, writers
  <2>2. ReaderTypes' BY <2>1 DEF RInv, ReaderTypes, readers
  <2>3. ASSUME NEW c \in Clients PROVE CInv(c)'
    <3>1. CInv(c) BY DEF RInv
    <3> QED BY <2>1, <3>1, ShownKept, WireKept DEF CInv, Positions, readers
  <2> QED BY <2>2, <2>3 DEF RInv
<1> QED BY <1>1, <1>2, <1>3 DEF Next, WriterStep, ClientStep

-----------------------------------------------------------------------------
(* Theorems. *)

Inv == WInv /\ RInv

\* The log's and the clients' invariants hold in every behaviour: writers append under
\* the counter's lock, readers page behind their cursors.
THEOREM Invariant == Spec => []Inv
<1>1. Init => Inv
  BY WriterInit, ReaderInit DEF Inv
<1>2. Inv /\ [Next]_vars => Inv'
  BY WriterInvariant, ReaderInvariant DEF Inv
<1> QED BY <1>1, <1>2, PTL DEF Spec

\* Writers and readers stay within their types.
THEOREM TypeCorrect == Spec => []TypeOK
<1>1. Inv => TypeOK
  BY DEF Inv, WInv, RInv, WriterTypes, ReaderTypes, TypeOK
<1> QED BY <1>1, Invariant, PTL

\* Event sequences have no gap and no duplicate, whatever rolls back.
THEOREM Density == Spec => []SequencesDense
<1>1. Inv => SequencesDense
  <2> SUFFICES ASSUME Inv PROVE SequencesDense
    OBVIOUS
  <2>1. /\ \A e \in events : e.seq \in Nat /\ 1 <= e.seq /\ e.seq < counter
        /\ \A s \in 1..counter - 1 : \E e \in events : e.seq = s
        /\ \A e, f \in events : e.seq = f.seq => e = f
    BY SeqsNat DEF Inv, WInv, WriterTypes, Dense, Seqs
  <2>2. counter \in Nat
    BY StreamAssumption DEF Inv, WInv, WriterTypes
  <2>3. \A e \in events : e.seq \in 1..counter - 1
    BY <2>1, <2>2
  <2> QED BY <2>1, <2>3 DEF SequencesDense
<1> QED BY <1>1, Invariant, PTL

\* A client has shown all committed events of its team up to its cursor, each
\* once and in order, however often its stream broke.
THEOREM Completeness == Spec => []NothingSkipped
<1>1. Inv => NothingSkipped
  <2> SUFFICES ASSUME Inv, NEW c \in Clients
               PROVE  /\ Ascending(shown[c])
                      /\ Handled(c) = {e.seq : e \in {f \in events : Follows(c, f) /\ f.seq <= cursor[c]}}
    BY DEF NothingSkipped, Handled
  <2>1. ShownExactly(c) BY DEF Inv, RInv, CInv
  <2> QED BY <2>1 DEF ShownExactly, Ascending
<1> QED BY <1>1, Invariant, PTL

\* The log and its delivery implement the abstract feed: every commit is an
\* append, every event handled is the next one of the client's team.
THEOREM FeedRefinement == Spec => F!Init /\ [][F!Next]_(F!vars)
<1>1. Init => F!Init
  BY DEF Init, F!Init
<1>2. ASSUME Inv, [Next]_vars PROVE [F!Next]_(F!vars)
  <2>1. ASSUME NEW t \in Txs, WriterStep(t) PROVE [F!Next]_(F!vars)
    <3>1. shown' = shown BY <2>1, WriterReaders DEF readers
    <3>2. CASE Commit(t)
      <4>1. /\ events' = events \cup pending[t] /\ pending[t] \in SUBSET Events
            /\ \A e \in pending[t], f \in events : f.seq < e.seq
        <5>1. \A e \in pending[t] : e.seq \in Nat
          BY <1>2, SeqsNat DEF Inv, WInv, WriterTypes, Seqs
        <5>2. \A f \in events : f.seq \in Nat
          BY <1>2, SeqsNat DEF Inv, WInv, WriterTypes, Seqs
        <5>3. counter \in Nat /\ \A e \in pending[t] : counter <= e.seq
          BY <1>2, <3>2, CommitPublishes DEF Inv
        <5>4. \A f \in events : f.seq < counter
          BY <1>2, <3>2, CommitPublishes DEF Inv
        <5>5. events' = events \cup pending[t] /\ pending[t] \in SUBSET Events
          BY <1>2, <3>2, CommitPublishes DEF Inv
        <5> QED BY <5>1, <5>2, <5>3, <5>4, <5>5
      <4> QED BY <3>1, <4>1 DEF F!Next, F!Publish
    <3>3. CASE ~Commit(t)
      <4>1. events' = events
        BY <2>1, <3>3 DEF WriterStep, Begin, BeginStep, LockNext, AppendEvent, Abort
      <4> QED BY <3>1, <4>1 DEF F!vars
    <3> QED BY <3>2, <3>3
  <2>2. ASSUME NEW c \in Clients, ClientStep(c) PROVE [F!Next]_(F!vars)
    <3>1. CASE Receive(c)
      <4> DEFINE e == wire[c][1]
      <4>1. /\ e \in events /\ Follows(c, e) /\ cursor[c] < e.seq
            /\ \A f \in events : Follows(c, f) /\ cursor[c] < f.seq /\ f.seq <= e.seq => f = e
            /\ shown' = [shown EXCEPT ![c] = Append(@, e.seq)] /\ events' = events
        BY <1>2, <3>1, NextInLine DEF Inv, writers
      <4>2. ShownExactly(c) /\ cursor[c] \in Nat /\ \A f \in events : f.seq \in Nat
        BY <1>2, ClientFacts DEF Inv, CInv
      <4>3. \A s \in Handled(c) : s < e.seq
        BY <4>1, <4>2 DEF ShownExactly
      <4>4. \A f \in events : Follows(c, f) /\ f.seq < e.seq => f.seq \in Handled(c)
        BY <4>1, <4>2 DEF ShownExactly
      <4>5. Handled(c) = F!Delivered(c) /\ \A f : Follows(c, f) <=> F!Follows(c, f)
        BY DEF Handled, F!Delivered, Follows, F!Follows
      <4>6. F!Deliver(c)
        BY <4>1, <4>3, <4>4, <4>5 DEF F!Deliver
      <4> QED BY <4>6 DEF F!Next
    <3>2. CASE ~Receive(c)
      BY <2>2, <3>2 DEF ClientStep, Connect, Poll, End, NoticeEnd, Lose, writers, F!vars
    <3> QED BY <3>1, <3>2
  <2>3. CASE UNCHANGED vars
    BY <2>3 DEF vars, writers, readers, F!vars
  <2> QED BY <1>2, <2>1, <2>2, <2>3 DEF Next, WriterStep, ClientStep
<1> QED BY <1>1, <1>2, Invariant, PTL DEF Spec

-----------------------------------------------------------------------------
(* No circle of transactions: whoever waits for an agent row waits for a     *)
(* larger id than it holds, and the owner of the counter waits for nobody.   *)

LockOrder == \A t \in Txs : \A a \in held[t], b \in want[t] : a < b

\* Agent rows are locked in the order of their ids, and before any event is appended.
LEMMA LockOrderKept ==
    ASSUME WInv, LockOrder, [Next]_vars PROVE LockOrder'
<1>1. \A a \in Agents : a \in Nat
  BY StreamAssumption
<1>2. ASSUME NEW t \in Txs, Begin(t) \/ BeginStep(t) PROVE LockOrder'
  BY <1>2 DEF LockOrder, Begin, BeginStep, Idle, WInv, WriterTypes
<1>3. ASSUME NEW t \in Txs, LockNext(t) PROVE LockOrder'
  <2>1. PICK a \in want[t] :
            /\ First(a, want[t])
            /\ want' = [want EXCEPT ![t] = @ \ {a}]
            /\ held' = [held EXCEPT ![t] = @ \cup {a}]
    BY <1>3 DEF LockNext
  <2>2. want[t] \subseteq Agents
    BY DEF WInv, WriterTypes
  <2>3. \A b \in want[t] \ {a} : a < b
    BY <2>1, <2>2, <1>1 DEF First
  <2> QED BY <2>1, <2>3 DEF LockOrder, WInv, WriterTypes
<1>4. ASSUME NEW t \in Txs, Commit(t) \/ Abort(t) PROVE LockOrder'
  BY <1>4 DEF LockOrder, Commit, Abort, Release, WInv, WriterTypes
<1>5. CASE UNCHANGED <<want, held>>
  BY <1>5 DEF LockOrder
<1> QED
  BY <1>2, <1>3, <1>4, <1>5
     DEF Next, vars, writers, AppendEvent, Connect, Poll, Receive, End, NoticeEnd, Lose

\* Every nonempty set of agents has a largest one.
LEMMA LargestAgent ==
    ASSUME NEW M \in SUBSET Agents, M # {}
    PROVE  \E a \in M : \A b \in M : ~(a < b)
<1>1. PICK m \in Nat : Agents \subseteq 0..m
  BY StreamAssumption
<1> DEFINE R == OpToRel(<, Nat)
           T == {m - a : a \in M}
<1>2. \A x, y \in Nat : <<x, y>> \in R <=> x < y
  BY DEF OpToRel
<1>3. IsWellFoundedOn(R, Nat)
  BY NatLessThanWellFounded
<1>4. T \subseteq Nat /\ T # {}
  BY <1>1
<1> HIDE DEF R
<1>5. PICK x \in T : \A y \in T : ~(<<y, x>> \in R)
  <2> HIDE DEF T
  <2> QED BY <1>3, <1>4, WFMin
<1>6. PICK a \in M : x = m - a
  BY <1>5
<1>7. ASSUME NEW b \in M PROVE ~(a < b)
  <2>1. m - b \in T /\ m - b \in Nat /\ x \in Nat
    BY <1>4
  <2>2. ~(m - b < x)
    BY <2>1, <1>2, <1>5
  <2> QED BY <2>2, <1>1, <1>6
<1> QED BY <1>6, <1>7

\* Of transactions that wait, the one furthest in the order waits for none of the others.
LEMMA NoCircle ==
    ASSUME WInv, LockOrder PROVE NoWaitCycle
<1> SUFFICES ASSUME NEW S \in SUBSET Txs, S # {},
                    \A t \in S : \E u \in S : WaitsFor(t, u)
             PROVE  FALSE
  BY DEF NoWaitCycle
<1>1. cowner \notin S
  <2> SUFFICES ASSUME cowner \in S PROVE FALSE
    OBVIOUS
  <2>1. want[cowner] = {}
    BY StreamAssumption DEF WInv, CounterOwned
  <2> QED BY <2>1 DEF WaitsFor, First
<1>2. \A t \in S : \E u \in S : \E a \in held[u] : First(a, want[t])
  BY <1>1 DEF WaitsFor
<1> DEFINE M == {a \in Agents : \E t \in S : First(a, want[t])}
<1>3. M # {}
  BY <1>2 DEF WInv, WriterTypes
<1>4. ASSUME NEW a \in M PROVE \E b \in M : a < b
  <2>1. PICK t \in S : First(a, want[t])
    OBVIOUS
  <2>2. PICK u \in S : \E c \in held[u] : First(c, want[t])
    BY <1>2
  <2>3. a \in held[u]
    <3>1. PICK c \in held[u] : First(c, want[t])
      BY <2>2
    <3>2. a \in Nat /\ c \in Nat
      BY StreamAssumption DEF WInv, WriterTypes
    <3> QED BY <2>1, <3>1, <3>2 DEF First
  <2>4. PICK v \in S : \E b \in held[v] : First(b, want[u])
    BY <1>2
  <2>5. PICK b \in held[v] : First(b, want[u])
    BY <2>4
  <2>6. b \in M
    BY <2>5 DEF WInv, WriterTypes
  <2>7. a < b
    BY <2>3, <2>5 DEF LockOrder, First
  <2> QED BY <2>6, <2>7
<1>5. PICK a \in M : \A b \in M : ~(a < b)
  <2> HIDE DEF M
  <2>1. M \in SUBSET Agents BY DEF M
  <2> QED BY <2>1, <1>3, LargestAgent
<1> QED BY <1>4, <1>5

\* Transactions never wait for each other in a circle.
THEOREM DeadlockFree == Spec => []NoWaitCycle
<1>1. Init => WInv /\ LockOrder
  BY WriterInit DEF Init, LockOrder
<1>2. WInv /\ LockOrder /\ [Next]_vars => (WInv /\ LockOrder)'
  BY WriterInvariant, LockOrderKept
<1>3. WInv /\ LockOrder => NoWaitCycle
  BY NoCircle
<1> QED BY <1>1, <1>2, <1>3, PTL DEF Spec
=============================================================================
