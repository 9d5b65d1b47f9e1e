---------------------------- MODULE AccessProofs ----------------------------
(***************************************************************************)
(* Theorems of Access, for any number of tabs and workspaces and any       *)
(* window, leeway and skews.                                               *)
(***************************************************************************)
EXTENDS Access, TLAPS

Records == [ws : Workspaces, made : BOOLEAN]

\* No workspace is named that has not been given out.
Issued ==
    /\ cookie <= issued
    /\ \A t \in Tabs : shown[t] <= issued
    /\ \A t \in Tabs : \A k \in Kinds : entering[t][k] # None => entering[t][k].ws <= issued
    /\ \A t \in Tabs : \A a \in asks[t] : a.ws <= issued

\* What the cookie, a tab or a finished request names has its rows, once.
Seeding ==
    /\ \A w \in Workspaces : seeded[w] <= 1
    /\ cookie # 0 => seeded[cookie] = 1
    /\ \A t \in Tabs : shown[t] # 0 => seeded[shown[t]] = 1
    /\ \A t \in Tabs : \A k \in Kinds :
         entering[t][k] # None /\ entering[t][k].made => seeded[entering[t][k].ws] = 1

\* A fresh session that is being made is in no cookie and in no other request.
FreshApart ==
    \A t \in Tabs : entering[t]["fresh"] # None =>
        /\ entering[t]["fresh"].ws # cookie
        /\ \A u \in Tabs : \A k \in Kinds :
             entering[u][k] # None /\ (u # t \/ k # "fresh") =>
                 entering[u][k].ws # entering[t]["fresh"].ws

\* A tab asks for one token of a session at a time, for sessions it has entered.
Asking ==
    \A t \in Tabs :
        /\ shown[t] = 0 => asks[t] = {}
        /\ \A a, b \in asks[t] : a.ws = b.ws => a = b
        /\ \A k \in Kinds : entering[t][k] # None =>
             /\ entering[t][k].ws # shown[t]
             /\ \A a \in asks[t] : a.ws # entering[t][k].ws

IInv == TypeOK /\ Issued /\ Seeding /\ FreshApart /\ Asking /\ OneChain /\ StreamIsOwn

\* The steps that change what a session request has reached, and the others.
SessionStep(t) ==
    \/ Load(t) \/ NewSession(t) \/ Unload(t)
    \/ \E k \in Kinds : Create(t, k) \/ Entered(t, k) \/ EnterFails(t, k)
StreamStep(t) ==
    TokenAnswer(t) \/ StreamOpens(t) \/ TokenFails(t) \/ Retry(t) \/ SourceError(t) \/ Rotate(t)

\* A step belongs to a session request, to a stream or to a command.
LEMMA Split ==
    ASSUME [Next]_vars
    PROVE  \/ \E t \in Tabs : SessionStep(t) \/ StreamStep(t) \/ Send(t)
           \/ Expire \/ Travel \/ Arrive \/ UNCHANGED vars
  BY DEF Next, SessionStep, StreamStep

\* No request looks like the absence of one.
LEMMA NoRecord == None \notin Records
  BY AccessAssumption DEF Records

\* The invariant holds before the first request.
LEMMA InitIInv == Init => IInv
<1> SUFFICES ASSUME Init PROVE IInv
  OBVIOUS
<1>1. TypeOK
  BY AccessAssumption DEF Init, TypeOK
<1>2. Issued /\ FreshApart
  BY DEF Init, Issued, FreshApart, Kinds
<1>3. Seeding
  BY DEF Init, Seeding
<1>4. Asking
  BY DEF Init, Asking
<1>5. OneChain /\ StreamIsOwn
  BY DEF Init, OneChain, Chain, StreamIsOwn
<1> QED BY <1>1, <1>2, <1>3, <1>4, <1>5 DEF IInv

-----------------------------------------------------------------------------
(* Session requests. *)

\* A request that is sent: a fresh id, or that of the cookie for a tab that
\* shows nothing.
LEMMA EnterKeeps ==
    ASSUME IInv, NEW t \in Tabs, NEW k \in Kinds, NEW w \in Workspaces, Enter(t, k, w),
           \/ w = issued + 1
           \/ k = "load" /\ w = cookie /\ shown[t] = 0
           \/ k = "load" /\ w = issued + 1 /\ shown[t] = 0
    PROVE  IInv'
<1> DEFINE r == [ws |-> w, made |-> FALSE]
<1>1. r \in Records /\ r # None /\ r.ws = w /\ r.made = FALSE
  <2>1. r \in Records
    BY DEF Records
  <2> QED BY <2>1, NoRecord
<1>2. /\ issued \in Nat /\ issued' \in Nat /\ issued <= issued' /\ w <= issued' /\ issued' \in 0..MaxWs
      /\ cookie \in Nat
  BY AccessAssumption DEF IInv, TypeOK, Enter, Workspaces
<1>3. /\ entering[t][k] = None
      /\ entering' = [entering EXCEPT ![t][k] = r]
      /\ UNCHANGED <<cookie, seeded, shown, asks, source, rotation, retry, live, command, answer>>
  BY DEF Enter, streamVars, commandVars
<1>4. /\ entering'[t][k] = r
      /\ \A u \in Tabs : \A j \in Kinds : (u # t \/ j # k) => entering'[u][j] = entering[u][j]
  BY <1>3 DEF IInv, TypeOK
<1>5. \A u \in Tabs : \A j \in Kinds : entering[u][j] \in Records \cup {None}
  BY DEF IInv, TypeOK, Records
<1> HIDE DEF r
<1>6. TypeOK'
  <2>1. entering' \in [Tabs -> [Kinds -> Records \cup {None}]]
    BY <1>1, <1>3 DEF IInv, TypeOK, Records
  <2> QED BY <2>1, <1>2, <1>3 DEF IInv, TypeOK, Records
<1>7. Issued'
  <2>1. \A u \in Tabs : \A j \in Kinds :
          entering'[u][j] # None => entering'[u][j].ws <= issued'
    BY <1>1, <1>2, <1>4, <1>5 DEF IInv, Issued, Records, Workspaces
  <2>2. \A u \in Tabs : shown[u] <= issued'
    BY <1>2 DEF IInv, Issued, TypeOK
  <2>3. \A u \in Tabs : \A a \in asks[u] : a.ws <= issued'
    <3> SUFFICES ASSUME NEW u \in Tabs, NEW a \in asks[u] PROVE a.ws <= issued'
      OBVIOUS
    <3>1. a \in [ws : Workspaces, vouched : BOOLEAN]
      BY DEF IInv, TypeOK
    <3>2. a.ws \in Nat /\ a.ws <= issued
      BY <3>1 DEF IInv, Issued, Workspaces
    <3> QED BY <3>2, <1>2
  <2>4. cookie <= issued'
    BY <1>2 DEF IInv, Issued
  <2> QED BY <2>1, <2>2, <2>3, <2>4, <1>3 DEF Issued
<1>8. Seeding'
  BY <1>1, <1>3, <1>4 DEF IInv, Seeding
<1>9. \A u \in Tabs : \A j \in Kinds :
        entering[u][j] # None /\ (k = "fresh" \/ j = "fresh") => entering[u][j].ws # w
  <2> SUFFICES ASSUME NEW u \in Tabs, NEW j \in Kinds, entering[u][j] # None,
                      k = "fresh" \/ j = "fresh"
               PROVE  entering[u][j].ws # w
    OBVIOUS
  <2>1. entering[u][j].ws \in Nat /\ entering[u][j].ws <= issued
    BY <1>5 DEF IInv, Issued, Records, Workspaces
  <2>2. CASE w = issued + 1
    BY <2>1, <2>2, <1>2
  <2>3. CASE w # issued + 1
    BY <2>3 DEF IInv, FreshApart
  <2> QED BY <2>2, <2>3
<1>10. FreshApart'
  <2>1. k = "fresh" => w # cookie
    BY <1>2 DEF IInv, Issued
  <2> QED BY <1>1, <1>3, <1>4, <1>9, <2>1 DEF IInv, FreshApart, Kinds
<1>11. Asking'
  <2>1. w # shown[t] /\ \A a \in asks[t] : a.ws # w
    <3>1. CASE w = issued + 1
      <4>1. shown[t] # w
        BY <3>1, <1>2 DEF IInv, Issued
      <4>2. \A a \in asks[t] : a.ws <= issued
        BY DEF IInv, Issued
      <4> QED BY <3>1, <4>1, <4>2, <1>2
    <3>2. CASE w # issued + 1
      BY <3>2 DEF IInv, Asking, Workspaces
    <3> QED BY <3>1, <3>2
  <2> QED BY <1>1, <1>3, <1>4, <2>1 DEF IInv, Asking
<1>12. OneChain' /\ StreamIsOwn'
  BY <1>3 DEF IInv, OneChain, Chain, Current, StreamIsOwn
<1> QED BY <1>6, <1>7, <1>8, <1>10, <1>11, <1>12 DEF IInv

\* The rows are inserted once and the request remembers that they are there.
LEMMA CreateKeeps ==
    ASSUME IInv, NEW t \in Tabs, NEW k \in Kinds, Create(t, k)
    PROVE  IInv'
<1> DEFINE w == entering[t][k].ws
<1>1. entering[t][k] \in Records /\ entering[t][k] # None /\ w \in Workspaces
  BY DEF IInv, TypeOK, Create, Records
<1>2. /\ seeded' = Seed(w)
      /\ entering' = [entering EXCEPT ![t][k].made = TRUE]
      /\ UNCHANGED <<cookie, issued, shown, asks, source, rotation, retry, live, command, answer>>
  BY DEF Create, streamVars, commandVars
<1>3. /\ seeded'[w] = 1 /\ seeded' \in [Workspaces -> Nat]
      /\ \A v \in Workspaces : v # w => seeded'[v] = seeded[v]
  <2>1. seeded \in [Workspaces -> Nat] /\ seeded[w] <= 1
    BY <1>1 DEF IInv, TypeOK, Seeding
  <2> QED BY <1>1, <1>2, <2>1 DEF Seed
<1>4. /\ entering'[t][k] \in Records /\ entering'[t][k].ws = w /\ entering'[t][k] # None
      /\ \A u \in Tabs : \A j \in Kinds : (u # t \/ j # k) => entering'[u][j] = entering[u][j]
  <2>1. entering'[t][k] = [entering[t][k] EXCEPT !.made = TRUE]
    BY <1>2 DEF IInv, TypeOK
  <2>2. entering'[t][k] \in Records /\ entering'[t][k].ws = w
    BY <1>1, <2>1 DEF Records
  <2> QED BY <1>2, <2>2, NoRecord DEF IInv, TypeOK
<1>5. entering' \in [Tabs -> [Kinds -> Records \cup {None}]]
  BY <1>2, <1>4 DEF IInv, TypeOK, Records
<1> HIDE DEF w
<1>6. TypeOK'
  BY <1>2, <1>3, <1>5 DEF IInv, TypeOK, Records
<1>7. \A u \in Tabs : \A j \in Kinds : entering'[u][j] # None =>
        entering[u][j] # None /\ entering'[u][j].ws = entering[u][j].ws
  BY <1>1, <1>4 DEF w
<1>8. Issued'
  BY <1>2, <1>7 DEF IInv, Issued
<1>9. \A v \in Workspaces : seeded[v] = 1 => seeded'[v] = 1
  BY <1>3
<1>10. Seeding'
  <2>1. \A v \in Workspaces : seeded'[v] <= 1
    BY <1>3 DEF IInv, Seeding
  <2>2. cookie # 0 => seeded'[cookie] = 1
    BY <1>9, AccessAssumption DEF IInv, TypeOK, Seeding, Workspaces
  <2>3. \A u \in Tabs : shown[u] # 0 => seeded'[shown[u]] = 1
    BY <1>9, AccessAssumption DEF IInv, TypeOK, Seeding, Workspaces
  <2>4. \A u \in Tabs : \A j \in Kinds :
          entering'[u][j] # None /\ entering'[u][j].made => seeded'[entering'[u][j].ws] = 1
    <3> SUFFICES ASSUME NEW u \in Tabs, NEW j \in Kinds,
                        entering'[u][j] # None, entering'[u][j].made
                 PROVE  seeded'[entering'[u][j].ws] = 1
      OBVIOUS
    <3>1. CASE u = t /\ j = k
      BY <3>1, <1>3, <1>4
    <3>2. CASE u # t \/ j # k
      <4>1. entering'[u][j] = entering[u][j] /\ entering[u][j] \in Records
        BY <3>2, <1>4 DEF IInv, TypeOK, Records
      <4>2. seeded[entering[u][j].ws] = 1 /\ entering[u][j].ws \in Workspaces
        BY <4>1 DEF IInv, Seeding, Records
      <4> QED BY <4>1, <4>2, <1>9
    <3> QED BY <3>1, <3>2
  <2> QED BY <2>1, <2>2, <2>3, <2>4, <1>2 DEF Seeding
<1>11. FreshApart'
  BY <1>2, <1>7 DEF IInv, FreshApart, Kinds
<1>12. Asking'
  BY <1>2, <1>7 DEF IInv, Asking
<1>13. OneChain' /\ StreamIsOwn'
  BY <1>2 DEF IInv, OneChain, Chain, Current, StreamIsOwn
<1> QED BY <1>6, <1>8, <1>10, <1>11, <1>12, <1>13 DEF IInv

\* The answer: the session that is shown now is asked for once, and no other
\* request of the tab names it.
LEMMA EnteredKeeps ==
    ASSUME IInv, NEW t \in Tabs, NEW k \in Kinds, Entered(t, k)
    PROVE  IInv'
<1> DEFINE w == entering[t][k].ws
<1>1. PICK v \in BOOLEAN : asks' = [asks EXCEPT ![t] = @ \cup {[ws |-> w, vouched |-> v]}]
  BY DEF Entered
<1> DEFINE n == [ws |-> w, vouched |-> v]
<1>2. /\ entering[t][k] \in Records /\ entering[t][k] # None /\ entering[t][k].made
      /\ w \in Workspaces /\ w \in Nat /\ w # 0 /\ w <= issued /\ w \in 0..MaxWs
  <2>1. entering[t][k] \in Records /\ entering[t][k] # None /\ entering[t][k].made
    BY DEF IInv, TypeOK, Entered, Records
  <2>2. w <= issued
    BY <2>1 DEF IInv, Issued
  <2>3. w \in Workspaces
    BY <2>1 DEF Records
  <2> QED BY <2>1, <2>2, <2>3, AccessAssumption DEF Workspaces
<1>3. n \in [ws : Workspaces, vouched : BOOLEAN] /\ n.ws = w
  BY <1>1, <1>2
<1>4. /\ cookie' = w /\ shown' = [shown EXCEPT ![t] = w]
      /\ entering' = [entering EXCEPT ![t][k] = None]
      /\ source' = [source EXCEPT ![t] = 0] /\ rotation' = [rotation EXCEPT ![t] = FALSE]
      /\ retry' = [retry EXCEPT ![t] = FALSE] /\ live' = [live EXCEPT ![t] = FALSE]
      /\ UNCHANGED <<issued, seeded, command, answer>>
  BY DEF Entered, Leave, commandVars
<1>5. asks' = [asks EXCEPT ![t] = @ \cup {n}]
  BY <1>1
<1>6. seeded[w] = 1
  BY <1>2 DEF IInv, Seeding
<1>7. \A a \in asks[t] : a.ws # w
  BY <1>2 DEF IInv, Asking
<1>8. \A j \in Kinds : j # k /\ entering[t][j] # None => entering[t][j].ws # w
  BY <1>2 DEF IInv, FreshApart, Kinds
<1>9. \A u \in Tabs : entering[u]["fresh"] # None /\ (u # t \/ k # "fresh") =>
        entering[u]["fresh"].ws # w
  BY <1>2 DEF IInv, FreshApart, Kinds
<1> HIDE DEF w, n
<1>10. /\ entering'[t][k] = None /\ shown'[t] = w /\ asks'[t] = asks[t] \cup {n}
       /\ source'[t] = 0 /\ rotation'[t] = FALSE /\ retry'[t] = FALSE /\ live'[t] = FALSE
       /\ \A u \in Tabs : \A j \in Kinds : (u # t \/ j # k) => entering'[u][j] = entering[u][j]
       /\ \A u \in Tabs \ {t} :
            /\ shown'[u] = shown[u] /\ asks'[u] = asks[u] /\ source'[u] = source[u]
            /\ rotation'[u] = rotation[u] /\ retry'[u] = retry[u] /\ live'[u] = live[u]
  BY <1>4, <1>5 DEF IInv, TypeOK
<1>11. TypeOK'
  <2>1. entering' \in [Tabs -> [Kinds -> Records \cup {None}]]
    BY <1>4 DEF IInv, TypeOK, Records
  <2>2. asks' \in [Tabs -> SUBSET [ws : Workspaces, vouched : BOOLEAN]]
    BY <1>3, <1>5 DEF IInv, TypeOK
  <2>3. /\ source' \in [Tabs -> 0..MaxWs] /\ rotation' \in [Tabs -> BOOLEAN]
        /\ retry' \in [Tabs -> BOOLEAN] /\ live' \in [Tabs -> BOOLEAN]
        /\ shown' \in [Tabs -> 0..MaxWs]
    BY <1>2, <1>4, AccessAssumption DEF IInv, TypeOK
  <2> QED BY <1>2, <1>4, <2>1, <2>2, <2>3 DEF IInv, TypeOK, Records
<1>12. Issued'
  BY <1>2, <1>3, <1>4, <1>10 DEF IInv, Issued
<1>13. Seeding'
  BY <1>4, <1>6, <1>10 DEF IInv, Seeding
<1>14. FreshApart'
  BY <1>4, <1>9, <1>10 DEF IInv, FreshApart, Kinds
<1>15. Asking'
  <2> SUFFICES ASSUME NEW u \in Tabs
               PROVE  /\ shown'[u] = 0 => asks'[u] = {}
                      /\ \A a, b \in asks'[u] : a.ws = b.ws => a = b
                      /\ \A j \in Kinds : entering'[u][j] # None =>
                           /\ entering'[u][j].ws # shown'[u]
                           /\ \A a \in asks'[u] : a.ws # entering'[u][j].ws
    BY DEF Asking
  <2>1. CASE u = t
    <3>1. shown'[t] # 0
      BY <1>2, <1>10
    <3>2. \A a, b \in asks'[t] : a.ws = b.ws => a = b
      BY <1>3, <1>7, <1>10 DEF IInv, Asking
    <3>3. \A j \in Kinds : entering'[t][j] # None =>
             /\ entering'[t][j].ws # shown'[t]
             /\ \A a \in asks'[t] : a.ws # entering'[t][j].ws
      BY <1>3, <1>8, <1>10 DEF IInv, Asking
    <3> QED BY <2>1, <3>1, <3>2, <3>3
  <2>2. CASE u # t
    BY <2>2, <1>10 DEF IInv, Asking
  <2> QED BY <2>1, <2>2
<1>16. OneChain'
  <2> SUFFICES ASSUME NEW u \in Tabs PROVE Chain(u)'
    BY DEF OneChain
  <2>1. CASE u = t
    BY <2>1, <1>2, <1>3, <1>10 DEF Chain, Current
  <2>2. CASE u # t
    BY <2>2, <1>10 DEF IInv, OneChain, Chain, Current
  <2> QED BY <2>1, <2>2
<1>17. StreamIsOwn'
  BY <1>10 DEF IInv, StreamIsOwn
<1> QED BY <1>11, <1>12, <1>13, <1>14, <1>15, <1>16, <1>17 DEF IInv

\* A request that fails is forgotten; rows it has inserted stay.
LEMMA EnterFailsKeeps ==
    ASSUME IInv, NEW t \in Tabs, NEW k \in Kinds, EnterFails(t, k)
    PROVE  IInv'
<1>1. /\ entering' = [entering EXCEPT ![t][k] = None]
      /\ UNCHANGED <<cookie, issued, seeded, shown, asks, source, rotation, retry, live,
                     command, answer>>
  BY DEF EnterFails, streamVars, commandVars
<1>2. \A u \in Tabs : \A j \in Kinds : entering'[u][j] # None => entering'[u][j] = entering[u][j]
  BY <1>1 DEF IInv, TypeOK
<1>3. entering' \in [Tabs -> [Kinds -> Records \cup {None}]]
  BY <1>1 DEF IInv, TypeOK, Records
<1>4. TypeOK'
  BY <1>1, <1>3 DEF IInv, TypeOK, Records
<1>5. Issued' /\ Seeding'
  BY <1>1, <1>2 DEF IInv, Issued, Seeding
<1>6. FreshApart'
  BY <1>1, <1>2 DEF IInv, FreshApart, Kinds
<1>7. Asking'
  BY <1>1, <1>2 DEF IInv, Asking
<1>8. OneChain' /\ StreamIsOwn'
  BY <1>1 DEF IInv, OneChain, Chain, Current, StreamIsOwn
<1> QED BY <1>4, <1>5, <1>6, <1>7, <1>8 DEF IInv

\* The cookie that ends names nothing any more.
LEMMA ExpireKeeps ==
    ASSUME IInv, Expire
    PROVE  IInv'
<1>1. /\ cookie' = 0
      /\ UNCHANGED <<issued, seeded, entering, shown, asks, source, rotation, retry, live,
                     command, answer>>
  BY DEF Expire, streamVars, commandVars
<1>2. TypeOK'
  BY <1>1, AccessAssumption DEF IInv, TypeOK
<1>3. Issued' /\ Seeding'
  BY <1>1 DEF IInv, Issued, Seeding, TypeOK
<1>4. FreshApart'
  <2>1. \A t \in Tabs : entering[t]["fresh"] # None => entering[t]["fresh"].ws # 0
    BY DEF IInv, TypeOK, Workspaces, Kinds
  <2> QED BY <1>1, <2>1 DEF IInv, FreshApart
<1>5. Asking' /\ OneChain' /\ StreamIsOwn'
  BY <1>1 DEF IInv, Asking, OneChain, Chain, Current, StreamIsOwn
<1> QED BY <1>2, <1>3, <1>4, <1>5 DEF IInv

\* Nothing is left of a tab that is closed.
LEMMA UnloadKeeps ==
    ASSUME IInv, NEW t \in Tabs, Unload(t)
    PROVE  IInv'
<1>1. /\ shown' = [shown EXCEPT ![t] = 0]
      /\ entering' = [entering EXCEPT ![t] = [k \in Kinds |-> None]]
      /\ asks' = [asks EXCEPT ![t] = {}]
      /\ source' = [source EXCEPT ![t] = 0] /\ rotation' = [rotation EXCEPT ![t] = FALSE]
      /\ retry' = [retry EXCEPT ![t] = FALSE] /\ live' = [live EXCEPT ![t] = FALSE]
      /\ UNCHANGED <<cookie, issued, seeded, command, answer>>
  BY DEF Unload, Leave, commandVars
<1>2. /\ shown'[t] = 0 /\ asks'[t] = {} /\ \A k \in Kinds : entering'[t][k] = None
      /\ source'[t] = 0 /\ rotation'[t] = FALSE /\ retry'[t] = FALSE /\ live'[t] = FALSE
      /\ \A u \in Tabs \ {t} :
           /\ entering'[u] = entering[u]
           /\ shown'[u] = shown[u] /\ asks'[u] = asks[u] /\ source'[u] = source[u]
           /\ rotation'[u] = rotation[u] /\ retry'[u] = retry[u] /\ live'[u] = live[u]
  BY <1>1 DEF IInv, TypeOK
<1>3. TypeOK'
  <2>1. entering' \in [Tabs -> [Kinds -> Records \cup {None}]]
    BY <1>1 DEF IInv, TypeOK, Records
  <2>2. asks' \in [Tabs -> SUBSET [ws : Workspaces, vouched : BOOLEAN]]
    BY <1>1 DEF IInv, TypeOK
  <2>3. /\ source' \in [Tabs -> 0..MaxWs] /\ rotation' \in [Tabs -> BOOLEAN]
        /\ retry' \in [Tabs -> BOOLEAN] /\ live' \in [Tabs -> BOOLEAN]
        /\ shown' \in [Tabs -> 0..MaxWs]
    BY <1>1, AccessAssumption DEF IInv, TypeOK
  <2> QED BY <1>1, <2>1, <2>2, <2>3 DEF IInv, TypeOK, Records
<1>4. issued \in Nat
  BY AccessAssumption DEF IInv, TypeOK
<1>5. Issued'
  BY <1>1, <1>2, <1>4 DEF IInv, Issued
<1>6. Seeding'
  BY <1>1, <1>2 DEF IInv, Seeding
<1>7. FreshApart'
  BY <1>1, <1>2 DEF IInv, FreshApart, Kinds
<1>8. Asking'
  BY <1>1, <1>2 DEF IInv, Asking
<1>9. OneChain'
  <2> SUFFICES ASSUME NEW u \in Tabs PROVE Chain(u)'
    BY DEF OneChain
  <2>1. CASE u = t
    BY <2>1, <1>2 DEF Chain
  <2>2. CASE u # t
    BY <2>2, <1>2 DEF IInv, OneChain, Chain, Current
  <2> QED BY <2>1, <2>2
<1>10. StreamIsOwn'
  BY <1>2 DEF IInv, StreamIsOwn
<1> QED BY <1>3, <1>5, <1>6, <1>7, <1>8, <1>9, <1>10 DEF IInv

-----------------------------------------------------------------------------
(* Streams. *)

\* Chain, of the values a step gives the variables of one tab.
Linked(sh, q, s, o, y, l) ==
    /\ sh # 0 =>
         \/ (\E a \in q : a.ws = sh) /\ s = 0 /\ ~y
         \/ s # 0 /\ ~y /\ \A a \in q : a.ws # sh
         \/ y /\ ~l /\ s = 0 /\ \A a \in q : a.ws # sh
    /\ sh = 0 => s = 0 /\ ~y /\ ~l
    /\ o <=> s # 0

\* What a step may do to the stream of a tab: drop token requests and add one
\* of the shown session, if the tab goes on asking for one of it at most.
Edit(t, q, s, o, y, l) ==
    /\ UNCHANGED sessionVars /\ UNCHANGED commandVars
    /\ asks' = [asks EXCEPT ![t] = q] /\ source' = [source EXCEPT ![t] = s]
    /\ rotation' = [rotation EXCEPT ![t] = o] /\ retry' = [retry EXCEPT ![t] = y]
    /\ live' = [live EXCEPT ![t] = l]
    /\ q \in SUBSET [ws : Workspaces, vouched : BOOLEAN] /\ s \in {0, shown[t]}
    /\ o \in BOOLEAN /\ y \in BOOLEAN /\ l \in BOOLEAN
    /\ \A a \in q : a \in asks[t] \/ (a.ws = shown[t] /\ shown[t] # 0)
    /\ \A a, b \in q : a.ws = b.ws => a = b
    /\ Linked(shown[t], q, s, o, y, l)

\* Such a step keeps the invariant.
LEMMA StreamFrame ==
    ASSUME IInv, NEW t \in Tabs, NEW q, NEW s, NEW o, NEW y, NEW l, Edit(t, q, s, o, y, l)
    PROVE  IInv'
<1> USE DEF Edit
<1>1. UNCHANGED <<cookie, issued, seeded, entering, shown, command, answer>>
  BY DEF sessionVars, commandVars
<1>2. /\ asks'[t] = q /\ source'[t] = s /\ rotation'[t] = o /\ retry'[t] = y /\ live'[t] = l
      /\ \A u \in Tabs \ {t} :
           /\ asks'[u] = asks[u] /\ source'[u] = source[u]
           /\ rotation'[u] = rotation[u] /\ retry'[u] = retry[u] /\ live'[u] = live[u]
  BY DEF IInv, TypeOK
<1>3. TypeOK'
  <2>1. asks' \in [Tabs -> SUBSET [ws : Workspaces, vouched : BOOLEAN]]
    BY DEF IInv, TypeOK
  <2>2. /\ source' \in [Tabs -> 0..MaxWs] /\ rotation' \in [Tabs -> BOOLEAN]
        /\ retry' \in [Tabs -> BOOLEAN] /\ live' \in [Tabs -> BOOLEAN]
    BY AccessAssumption DEF IInv, TypeOK
  <2> QED BY <1>1, <2>1, <2>2 DEF IInv, TypeOK
<1>4. Issued'
  BY <1>1, <1>2 DEF IInv, Issued
<1>5. Seeding' /\ FreshApart'
  BY <1>1 DEF IInv, Seeding, FreshApart
<1>6. Asking'
  <2>1. shown[t] = 0 => q = {}
    BY DEF IInv, Asking
  <2>2. \A k \in Kinds : entering[t][k] # None => \A a \in q : a.ws # entering[t][k].ws
    BY DEF IInv, Asking
  <2> QED BY <1>1, <1>2, <2>1, <2>2 DEF IInv, Asking
<1>7. OneChain'
  <2> SUFFICES ASSUME NEW u \in Tabs PROVE Chain(u)'
    BY DEF OneChain
  <2>1. CASE u = t
    BY <2>1, <1>1, <1>2 DEF Chain, Current, Linked
  <2>2. CASE u # t
    BY <2>2, <1>1, <1>2 DEF IInv, OneChain, Chain, Current
  <2> QED BY <2>1, <2>2
<1>8. StreamIsOwn'
  BY <1>1, <1>2 DEF IInv, StreamIsOwn
<1> QED BY <1>3, <1>4, <1>5, <1>6, <1>7, <1>8 DEF IInv

\* The facts about one tab that the invariant gives a stream step.
LEMMA TabFacts ==
    ASSUME IInv, NEW t \in Tabs
    PROVE  /\ asks[t] \in SUBSET [ws : Workspaces, vouched : BOOLEAN]
           /\ rotation[t] \in BOOLEAN /\ retry[t] \in BOOLEAN /\ live[t] \in BOOLEAN
           /\ source[t] \in {0, shown[t]}
           /\ shown[t] # 0 => shown[t] \in Workspaces
           /\ \A a, b \in asks[t] : a.ws = b.ws => a = b
           /\ shown[t] = 0 => asks[t] = {}
           /\ Linked(shown[t], asks[t], source[t], rotation[t], retry[t], live[t])
           /\ asks = [asks EXCEPT ![t] = asks[t]] /\ source = [source EXCEPT ![t] = source[t]]
           /\ rotation = [rotation EXCEPT ![t] = rotation[t]]
           /\ retry = [retry EXCEPT ![t] = retry[t]] /\ live = [live EXCEPT ![t] = live[t]]
<1>1. /\ shown[t] # 0 => shown[t] \in Workspaces
      /\ source[t] \in {0, shown[t]}
  BY AccessAssumption DEF IInv, TypeOK, StreamIsOwn, Workspaces
<1>2. Linked(shown[t], asks[t], source[t], rotation[t], retry[t], live[t])
  BY DEF IInv, OneChain, Chain, Current, Linked
<1> QED BY <1>1, <1>2 DEF IInv, TypeOK, Asking

\* The one current request that is answered opens the source, any other answer
\* is dropped.
LEMMA TokenAnswerKeeps ==
    ASSUME IInv, NEW t \in Tabs, TokenAnswer(t)
    PROVE  IInv'
<1>1. PICK a \in asks[t] :
        /\ asks' = [asks EXCEPT ![t] = @ \ {a}]
        /\ IF Current(t, a)
           THEN /\ source' = [source EXCEPT ![t] = a.ws]
                /\ rotation' = [rotation EXCEPT ![t] = TRUE]
           ELSE UNCHANGED <<source, rotation>>
  BY DEF TokenAnswer
<1>2. UNCHANGED sessionVars /\ UNCHANGED commandVars /\ UNCHANGED <<retry, live>>
  BY DEF TokenAnswer
<1> DEFINE q == asks[t] \ {a}
<1>3. asks' = [asks EXCEPT ![t] = q] /\ q \in SUBSET [ws : Workspaces, vouched : BOOLEAN]
  BY <1>1, TabFacts
<1>4. CASE a.ws = shown[t]
  <2>1. source' = [source EXCEPT ![t] = shown[t]] /\ rotation' = [rotation EXCEPT ![t] = TRUE]
    BY <1>1, <1>4 DEF Current
  <2>2. Linked(shown[t], q, shown[t], TRUE, retry[t], live[t])
    <3>1. shown[t] # 0 /\ ~retry[t]
      BY <1>4, TabFacts DEF Linked
    <3>2. \A b \in q : b.ws # shown[t]
      BY <1>4, TabFacts
    <3> QED BY <3>1, <3>2 DEF Linked
  <2> HIDE DEF q
  <2>3. retry' = [retry EXCEPT ![t] = retry[t]] /\ live' = [live EXCEPT ![t] = live[t]]
    BY <1>2, TabFacts
  <2>4. \A b \in q : b \in asks[t]
    BY DEF q
  <2>5. \A b, c \in q : b.ws = c.ws => b = c
    BY <2>4, TabFacts
  <2>6. Edit(t, q, shown[t], TRUE, retry[t], live[t])
    BY <1>2, <1>3, <2>1, <2>2, <2>3, <2>4, <2>5, TabFacts DEF Edit
  <2> QED BY <2>6, StreamFrame
<1>5. CASE a.ws # shown[t]
  <2>1. source' = source /\ rotation' = rotation
    BY <1>1, <1>5 DEF Current
  <2>2. Linked(shown[t], q, source[t], rotation[t], retry[t], live[t])
    BY <1>5, TabFacts DEF Linked
  <2> HIDE DEF q
  <2>3. \A b \in q : b \in asks[t]
    BY DEF q
  <2>4. \A b, c \in q : b.ws = c.ws => b = c
    BY <2>3, TabFacts
  <2>5. /\ retry' = [retry EXCEPT ![t] = retry[t]] /\ live' = [live EXCEPT ![t] = live[t]]
        /\ source' = [source EXCEPT ![t] = source[t]]
        /\ rotation' = [rotation EXCEPT ![t] = rotation[t]]
    BY <1>2, <2>1, TabFacts
  <2>6. Edit(t, q, source[t], rotation[t], retry[t], live[t])
    BY <1>2, <1>3, <2>2, <2>3, <2>4, <2>5, TabFacts DEF Edit
  <2> QED BY <2>6, StreamFrame
<1> QED BY <1>4, <1>5

\* A current request that fails leaves a retry.
LEMMA TokenFailsKeeps ==
    ASSUME IInv, NEW t \in Tabs, TokenFails(t)
    PROVE  IInv'
<1>1. PICK a \in asks[t] :
        /\ asks' = [asks EXCEPT ![t] = @ \ {a}]
        /\ retry' = [retry EXCEPT ![t] = @ \/ Current(t, a)]
        /\ live' = [live EXCEPT ![t] = @ /\ ~Current(t, a)]
  BY DEF TokenFails
<1>2. UNCHANGED sessionVars /\ UNCHANGED commandVars /\ UNCHANGED <<source, rotation>>
  BY DEF TokenFails
<1> DEFINE q == asks[t] \ {a}
           y == retry[t] \/ a.ws = shown[t]
           l == live[t] /\ a.ws # shown[t]
<1>3. asks' = [asks EXCEPT ![t] = q] /\ q \in SUBSET [ws : Workspaces, vouched : BOOLEAN]
  BY <1>1, TabFacts
<1>4. retry' = [retry EXCEPT ![t] = y] /\ live' = [live EXCEPT ![t] = l]
  BY <1>1 DEF Current
<1>5. Linked(shown[t], q, source[t], rotation[t], y, l)
  <2>1. CASE a.ws = shown[t]
    <3>1. source[t] = 0 /\ shown[t] # 0
      BY <2>1, TabFacts DEF Linked
    <3>2. \A b \in q : b.ws # shown[t]
      BY <2>1, TabFacts
    <3> QED BY <2>1, <3>1, <3>2, TabFacts DEF Linked
  <2>2. CASE a.ws # shown[t]
    BY <2>2, TabFacts DEF Linked
  <2> QED BY <2>1, <2>2
<1>6. y \in BOOLEAN /\ l \in BOOLEAN
  OBVIOUS
<1>7. \A b \in q : b \in asks[t]
  OBVIOUS
<1> HIDE DEF q, y, l
<1>8. \A b, c \in q : b.ws = c.ws => b = c
  BY <1>7, TabFacts
<1>9. source' = [source EXCEPT ![t] = source[t]] /\ rotation' = [rotation EXCEPT ![t] = rotation[t]]
  BY <1>2, TabFacts
<1>10. Edit(t, q, source[t], rotation[t], y, l)
  BY <1>2, <1>3, <1>4, <1>5, <1>6, <1>7, <1>8, <1>9, TabFacts DEF Edit
<1> QED BY <1>10, StreamFrame

\* A tab connects again when no request of its session is under way: its retry
\* has come due, or its source is due to be renewed.
LEMMA AskedAgain ==
    ASSUME IInv, NEW t \in Tabs, UNCHANGED sessionVars, UNCHANGED commandVars, Asked(t),
           \A a \in asks[t] : a.ws # shown[t], shown[t] # 0,
           source' = [source EXCEPT ![t] = 0], rotation' = [rotation EXCEPT ![t] = FALSE],
           retry' = [retry EXCEPT ![t] = FALSE], live' = live
    PROVE  IInv'
<1> DEFINE n == TokenRequest(t)
           q == asks[t] \cup {n}
<1>1. n \in [ws : Workspaces, vouched : BOOLEAN] /\ n.ws = shown[t]
  BY TabFacts DEF TokenRequest, VouchedFor
<1>2. asks' = [asks EXCEPT ![t] = q]
  BY DEF Asked
<1> HIDE DEF n
<1>3. /\ q \in SUBSET [ws : Workspaces, vouched : BOOLEAN]
      /\ \A a \in q : a \in asks[t] \/ (a.ws = shown[t] /\ shown[t] # 0)
  BY <1>1, TabFacts
<1>4. \A a, b \in q : a.ws = b.ws => a = b
  BY <1>1, TabFacts
<1>5. Linked(shown[t], q, 0, FALSE, FALSE, live[t])
  BY <1>1 DEF Linked
<1>6. live' = [live EXCEPT ![t] = live[t]]
  BY TabFacts
<1> HIDE DEF q
<1>7. Edit(t, q, 0, FALSE, FALSE, live[t])
  BY <1>2, <1>3, <1>4, <1>5, <1>6, TabFacts DEF Edit
<1> QED BY <1>7, StreamFrame

\* Each step of a tab's stream keeps the invariant.
LEMMA StreamKeeps ==
    ASSUME IInv, NEW t \in Tabs, StreamStep(t)
    PROVE  IInv'
<1>1. CASE TokenAnswer(t)
  BY <1>1, TokenAnswerKeeps
<1>2. CASE TokenFails(t)
  BY <1>2, TokenFailsKeeps
<1>3. CASE Retry(t)
  <2>1. /\ UNCHANGED sessionVars /\ UNCHANGED commandVars /\ Asked(t)
        /\ retry' = [retry EXCEPT ![t] = FALSE] /\ UNCHANGED <<source, rotation, live>>
        /\ retry[t]
    BY <1>3 DEF Retry
  <2>2. /\ shown[t] # 0 /\ source[t] = 0 /\ rotation[t] = FALSE
        /\ \A a \in asks[t] : a.ws # shown[t]
    BY <2>1, TabFacts DEF Linked
  <2>3. source' = [source EXCEPT ![t] = 0] /\ rotation' = [rotation EXCEPT ![t] = FALSE]
    BY <2>1, <2>2, TabFacts
  <2> QED BY <2>1, <2>2, <2>3, AskedAgain
<1>4. CASE Rotate(t)
  <2>1. /\ UNCHANGED sessionVars /\ UNCHANGED commandVars /\ Asked(t)
        /\ rotation' = [rotation EXCEPT ![t] = FALSE] /\ source' = [source EXCEPT ![t] = 0]
        /\ UNCHANGED <<retry, live>> /\ rotation[t]
    BY <1>4 DEF Rotate
  <2>2. /\ shown[t] # 0 /\ retry[t] = FALSE /\ \A a \in asks[t] : a.ws # shown[t]
    BY <2>1, TabFacts DEF Linked
  <2>3. retry' = [retry EXCEPT ![t] = FALSE]
    BY <2>1, <2>2, TabFacts
  <2> QED BY <2>1, <2>2, <2>3, AskedAgain
<1>5. CASE StreamOpens(t)
  <2>1. /\ UNCHANGED sessionVars /\ UNCHANGED commandVars /\ source[t] # 0
        /\ live' = [live EXCEPT ![t] = TRUE] /\ UNCHANGED <<asks, source, rotation, retry>>
    BY <1>5 DEF StreamOpens
  <2>2. Linked(shown[t], asks[t], source[t], rotation[t], retry[t], TRUE)
    BY <2>1, TabFacts DEF Linked
  <2>3. /\ asks' = [asks EXCEPT ![t] = asks[t]] /\ source' = [source EXCEPT ![t] = source[t]]
        /\ rotation' = [rotation EXCEPT ![t] = rotation[t]]
        /\ retry' = [retry EXCEPT ![t] = retry[t]]
    BY <2>1, TabFacts
  <2>4. Edit(t, asks[t], source[t], rotation[t], retry[t], TRUE)
    BY <2>1, <2>2, <2>3, TabFacts DEF Edit
  <2> QED BY <2>4, StreamFrame
<1>6. CASE SourceError(t)
  <2>1. /\ UNCHANGED sessionVars /\ UNCHANGED commandVars /\ source[t] # 0 /\ UNCHANGED asks
        /\ source' = [source EXCEPT ![t] = 0] /\ rotation' = [rotation EXCEPT ![t] = FALSE]
        /\ retry' = [retry EXCEPT ![t] = TRUE] /\ live' = [live EXCEPT ![t] = FALSE]
    BY <1>6 DEF SourceError, RotationAfterError
  <2>2. Linked(shown[t], asks[t], 0, FALSE, TRUE, FALSE)
    BY <2>1, TabFacts DEF Linked
  <2>3. asks' = [asks EXCEPT ![t] = asks[t]]
    BY <2>1, TabFacts
  <2>4. Edit(t, asks[t], 0, FALSE, TRUE, FALSE)
    BY <2>1, <2>2, <2>3, TabFacts DEF Edit
  <2> QED BY <2>4, StreamFrame
<1> QED BY <1>1, <1>2, <1>3, <1>4, <1>5, <1>6 DEF StreamStep

-----------------------------------------------------------------------------
(* All steps. *)

\* Each step of a tab's session requests keeps the invariant.
LEMMA SessionKeeps ==
    ASSUME IInv, NEW t \in Tabs, SessionStep(t)
    PROVE  IInv'
<1>1. CASE Load(t)
  <2>1. PICK w \in Workspaces :
          /\ w = IF cookie # 0 THEN cookie ELSE issued + 1
          /\ Enter(t, "load", w) /\ shown[t] = 0
    BY <1>1 DEF Load
  <2> QED BY <2>1, EnterKeeps DEF Kinds
<1>2. CASE NewSession(t)
  <2>1. PICK w \in Workspaces : w = issued + 1 /\ Enter(t, "fresh", w)
    BY <1>2 DEF NewSession
  <2> QED BY <2>1, EnterKeeps DEF Kinds
<1>3. CASE Unload(t)
  BY <1>3, UnloadKeeps
<1>4. CASE \E k \in Kinds : Create(t, k) \/ Entered(t, k) \/ EnterFails(t, k)
  BY <1>4, CreateKeeps, EnteredKeeps, EnterFailsKeeps
<1> QED BY <1>1, <1>2, <1>3, <1>4 DEF SessionStep

\* Commands change no session and no stream.
LEMMA CommandKeeps ==
    ASSUME IInv, (\E t \in Tabs : Send(t)) \/ Travel \/ Arrive \/ UNCHANGED vars
    PROVE  IInv'
<1>1. UNCHANGED <<sessionVars, streamVars>>
  BY DEF Send, Travel, Arrive, vars, sessionVars, streamVars
<1>2. UNCHANGED <<cookie, issued, seeded, entering, shown, asks, source, rotation, retry, live>>
  BY <1>1 DEF sessionVars, streamVars
<1>3. /\ command' \in [ws : Workspaces, age : 0..MaxAge] \cup {None}
      /\ answer' \in {"none", "done", "unauthorized", "forbidden"}
  <2>1. ASSUME NEW t \in Tabs, Send(t)
        PROVE  /\ command' \in [ws : Workspaces, age : 0..MaxAge] \cup {None}
               /\ answer' \in {"none", "done", "unauthorized", "forbidden"}
    <3>1. shown[t] \in Workspaces
      BY <2>1, TabFacts DEF Send, HasSession
    <3>2. Signed(shown[t]) \in [ws : Workspaces, age : 0..MaxAge]
      BY <3>1, AccessAssumption DEF Signed
    <3> QED BY <2>1, <3>2 DEF Send, Refusal, IInv, TypeOK
  <2>2. CASE Travel
    <3>1. command \in [ws : Workspaces, age : 0..MaxAge]
      BY <2>2 DEF Travel, IInv, TypeOK
    <3> QED BY <2>2, <3>1, AccessAssumption DEF Travel, IInv, TypeOK
  <2>3. CASE Arrive
    BY <2>3 DEF Arrive
  <2>4. CASE UNCHANGED vars
    BY <2>4 DEF vars, IInv, TypeOK
  <2> QED BY <2>1, <2>2, <2>3, <2>4
<1>4. TypeOK'
  BY <1>2, <1>3 DEF IInv, TypeOK
<1>5. Issued' /\ Seeding' /\ FreshApart' /\ Asking'
  BY <1>2 DEF IInv, Issued, Seeding, FreshApart, Asking
<1>6. OneChain' /\ StreamIsOwn'
  BY <1>2 DEF IInv, OneChain, Chain, Current, StreamIsOwn
<1> QED BY <1>4, <1>5, <1>6 DEF IInv

\* The inductive invariant holds in every reachable state.
THEOREM Invariant == Spec => []IInv
<1>1. Init => IInv
  BY InitIInv
<1>2. IInv /\ [Next]_vars => IInv'
  BY Split, SessionKeeps, StreamKeeps, CommandKeeps, ExpireKeeps
<1> QED BY <1>1, <1>2, PTL DEF Spec

\* The browser, the tabs and the functions keep their types.
THEOREM TypeCorrect == Spec => []TypeOK
<1>1. IInv => TypeOK
  BY DEF IInv
<1> QED BY <1>1, Invariant, PTL

\* createDemoSession inserts the rows of a workspace once however many requests
\* race for it, and no cookie and no tab is ahead of them.
THEOREM RowsOnce == Spec => []SeededOnce
<1>1. IInv => SeededOnce
  BY DEF IInv, Seeding, SeededOnce
<1> QED BY <1>1, Invariant, PTL

\* A tab of AgentStream never has two ways to its next source, nor none.
THEOREM ChainUnbroken == Spec => []OneChain
<1>1. IInv => OneChain
  BY DEF IInv
<1> QED BY <1>1, Invariant, PTL

\* A late token never opens the stream of a session the tab has left.
THEOREM NoForeignStream == Spec => []StreamIsOwn
<1>1. IInv => StreamIsOwn
  BY DEF IInv
<1> QED BY <1>1, Invariant, PTL

\* verifySitesWorkload within clocks that differ by the leeway: a prompt command
\* is not refused, and an old one is not carried out.
THEOREM ClocksForgiven == Spec => WindowHolds
<1> DEFINE Judged ==
      command # None /\ command' = None =>
        /\ answer' = "unauthorized" => command.age >= Window - Leeway
        /\ answer' = "done" => command.age < Window + Leeway
<1>1. ASSUME IInv, Arrive PROVE Judged
  <2>1. PICK s \in Skews : answer' = IF Timely(command.age + s) THEN "done" ELSE "unauthorized"
    BY <1>1 DEF Arrive
  <2>2. s \in Int /\ -Leeway <= s /\ s <= Leeway /\ Leeway \in Nat /\ Window \in Nat
    BY AccessAssumption
  <2>3. command.age \in Nat
    BY <1>1, AccessAssumption DEF Arrive, IInv, TypeOK
  <2> QED BY <2>1, <2>2, <2>3 DEF Timely
<1>2. ASSUME IInv, Next, ~Arrive PROVE Judged
  <2>1. CASE UNCHANGED commandVars
    BY <2>1 DEF commandVars
  <2>2. CASE Travel
    <3>1. command \in [ws : Workspaces, age : 0..MaxAge]
      BY <1>2, <2>2 DEF Travel, IInv, TypeOK
    <3>2. command' \in [ws : Workspaces, age : 0..MaxAge]
      BY <2>2, <3>1, AccessAssumption DEF Travel
    <3> QED BY <3>2, AccessAssumption
  <2>3. CASE \E t \in Tabs : Send(t)
    BY <2>3 DEF Send
  <2> QED
    BY <1>2, <2>1, <2>2, <2>3
       DEF Next, Load, NewSession, Enter, Unload, Create, Entered, EnterFails, Expire,
           TokenAnswer, StreamOpens, TokenFails, Retry, SourceError, Rotate
<1>3. IInv /\ [Next]_vars => [Judged]_vars
  BY <1>1, <1>2
<1> QED BY <1>3, Invariant, PTL DEF Spec, WindowHolds

=============================================================================
