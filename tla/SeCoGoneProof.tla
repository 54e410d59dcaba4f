---------------------------- MODULE SeCoGoneProof ----------------------------
(***************************************************************************)
(* Proofs about SeCo: a client that has gone leaves no trace.  A node that *)
(* knows of a client has a neighbour towards it that does so as well, or   *)
(* the news of its end are on their way, or there is an end of a node that *)
(* has still to be noticed.                                                *)
(***************************************************************************)
EXTENDS SeCoEndProof

----------------------------------------------------------------------------
(* The invariant *)

Here(c) == conn[c] \in {"on", "closed"}

\* A message that the nodes it comes to keep.
Marks(p, s) == p.cmd \in {"MSG", "SYNC_MSG"} /\ p.client = s

HasHistory(n, c) == \E g \in AllGroups : history[n][g][c] # <<>>
Marked(n, c) == c \in routes[n] \/ HasHistory(n, c)
Coming(l, c) == \E i \in 1..Len(queue[l]) : Marks(queue[l][i], c)
Tells(pkts, c) == \E i \in 1..Len(pkts) : IsEnd(pkts[i], c)
EndIn(l, c) == Tells(queue[l], c)

\* A node has the clients alone that are there in the tables of its own, and
\* of the others nothing is to be read.
Home ==
  \A n \in Nodes, c \in Clients :
    ~Dead(n) /\ (c \in local[n] \/ \E g \in AllGroups : c \in members[n][g])
      => Parent[c] = n /\ Here(c)
Quit == \A c \in Clients : ~Here(c) => queue[Up(c)] = <<>>

\* Every child node that a client has connected through has it listed.
Listed ==
  \A c \in Clients : conn[c] # "off" =>
    \A m \in Children : m \in Chain[c] => c \in myClients[m]

\* A node that has not said hello has kept nothing.
Fresh ==
  \A m \in Children : m \notin secoPPSet[Parent[m]] =>
    \A c \in Clients : ~HasHistory(m, c) /\ ~Coming(Down(m), c)

\* There are routes to clients that have connected, and the root is on.
Routed == \A n \in Nodes : \A c \in routes[n] : conn[c] # "off"
RootOn == status[Root] # "off"

\* A node above a client that knows of it: the next one below does so, or the
\* news are on their way, or it has ended and that has not been noticed ...
Above ==
  \A c \in Clients : \A x \in Chain[c] :
    ~Dead(Parent[x]) /\ (Marked(Parent[x], c) \/ Coming(Up(x), c)) =>
      IF x = c THEN Here(c)
      ELSE (~Dead(x) /\ Marked(x, c)) \/ EndIn(Up(x), c) \/ status[x] = "down"

\* ... and a node elsewhere: the next one above does so, or the news are on
\* their way, or it has ended.
Beside ==
  \A c \in Clients : \A m \in Children : m \notin Chain[c] =>
    (~Dead(m) /\ (Marked(m, c) \/ Coming(Down(m), c)) =>
       Marked(Parent[m], c) \/ EndIn(Down(m), c) \/ Dead(Parent[m]))

GoneInv ==
  /\ EndInv /\ Home /\ Quit /\ Listed /\ Fresh /\ Routed /\ RootOn
  /\ Above /\ Beside

\* Lemma: the invariant holds initially.
LEMMA GoneInvInit ==
  ASSUME Init
  PROVE  GoneInv
<1>1. EndInv
  BY EndInvInit
<1>2. \A x \in Ends : Parent[x] \in Nodes /\ Up(x) \in Links /\ Down(x) \in Links
  BY TreeAssumption, LinksDiffer
<1>3. \A c \in Clients : c \in Ends
  BY ClientEnds
<1>4. \A m \in Children : m \in Ends /\ m \in Nodes
  BY ChildEnds
<1>5. \A c \in Clients : \A x \in Chain[c] : x \in Ends
  BY <1>3, ChainRises
<1>6. /\ \A n \in Nodes, c \in Clients : ~Marked(n, c)
      /\ \A l \in Links, c \in Clients : ~Coming(l, c)
  BY DEF Init, Marked, HasHistory, Coming
<1>7. Home /\ Quit /\ Listed /\ Routed /\ RootOn
  BY <1>2, <1>3 DEF Init, Home, Quit, Listed, Routed, RootOn, Nodes
<1>8. Fresh
  BY <1>2, <1>4, <1>6 DEF Fresh, Marked
<1>9. Above
  BY <1>2, <1>5, <1>6 DEF Above
<1>10. Beside
  BY <1>2, <1>4, <1>6 DEF Beside
<1> QED BY <1>1, <1>7, <1>8, <1>9, <1>10 DEF GoneInv

----------------------------------------------------------------------------
(* The tree, the queues and the histories *)

\* Lemma: a chain ends below the root.
LEMMA ChainTop ==
  ASSUME NEW x \in Ends
  PROVE  \E y \in Chain[x] : Parent[y] = Root
<1> SUFFICES ASSUME \A y \in Chain[x] : Parent[y] # Root
             PROVE  FALSE
  OBVIOUS
<1>1. PICK depth \in [Nodes -> 0..Cardinality(Children)] :
             \A m \in Children : depth[Parent[m]] < depth[m]
  BY TreeAssumption
<1>2. Cardinality(Children) \in Nat
  BY TreeAssumption, FS_CardinalityType
<1>3. \A y \in Chain[x] : y \in Ends /\ Parent[y] \in Nodes
                          /\ Parent[y] \in Chain[x] /\ Parent[y] \in Children
  BY ChainRises, TreeAssumption
<1>4. \A n \in Nodes : depth[n] \in Nat
  BY <1>2
<1> DEFINE D == {depth[Parent[y]] : y \in Chain[x]}
<1>5. D \in SUBSET Nat /\ D # {}
  BY <1>3, <1>4, ChainRises
<1>6. PICK d \in D : \A e \in D : d <= e
  BY <1>5, Least
<1>7. PICK y \in Chain[x] : d = depth[Parent[y]]
  BY <1>6
<1>8. depth[Parent[Parent[y]]] \in D
  BY <1>3, <1>7
<1>9. depth[Parent[Parent[y]]] < depth[Parent[y]]
  BY <1>1, <1>3, <1>7
<1>10. d \in Nat /\ depth[Parent[Parent[y]]] \in Nat
  BY <1>5, <1>6, <1>8
<1> HIDE DEF D
<1> QED BY <1>6, <1>7, <1>8, <1>9, <1>10

\* Lemma: a node of a chain is the parent of an end of it.
LEMMA ChainBelow ==
  ASSUME NEW x \in Ends, NEW y \in Chain[x], y # x
  PROVE  \E z \in Chain[x] : Parent[z] = y
<1> SUFFICES ASSUME \A z \in Chain[x] : Parent[z] # y
             PROVE  FALSE
  OBVIOUS
<1> DEFINE S == Chain[x] \ {y}
<1>1. S \in SUBSET Ends /\ x \in S
  BY ChainRises
<1>2. Rising(S)
  BY ChainRises DEF Rising
<1>3. Chain[x] \subseteq S
  BY <1>1, <1>2, ChainLeast
<1> QED BY <1>3

\* Lemma: a message that marks is one of its client.
LEMMA MarksAre ==
  ASSUME NEW p, NEW s, Marks(p, s)
  PROVE  IsFrom(p, s) /\ Bound(p) /\ p.client = s /\ p.cmd \notin Asks
BY DEF Marks, IsFrom, Bound, MsgCommands, Asks

\* Lemmas: what is on its way goes away from its client.
LEMMA ComingAway ==
  ASSUME Outward, NEW l \in Links, NEW c, Coming(l, c) \/ EndIn(l, c)
  PROVE  Away(l, c) /\ conn[c] # "off"
<1>1. PICK i \in 1..Len(queue[l]) : Bound(queue[l][i]) /\ queue[l][i].client = c
  BY MarksAre DEF Coming, EndIn, Tells, IsEnd, Bound
<1> QED BY <1>1 DEF Outward

\* Lemma: and so it has been there.
LEMMA MarkedOn ==
  ASSUME Outward, Routed, NEW n \in Nodes, NEW c \in Clients, Marked(n, c)
  PROVE  conn[c] # "off"
BY DEF Outward, Routed, Marked, HasHistory

\* Lemma: what comes over a link when these packets are sent.
LEMMA ComingFlows ==
  ASSUME TypeInv, NEW links, NEW pkts \in Seq(Cargoes), Flows(links, pkts),
         NEW l \in Links, NEW c, Coming(l, c)'
  PROVE  \/ Coming(l, c)
         \/ l \in links /\ Open(l) /\ \E u \in 1..Len(pkts) : Marks(pkts[u], c)
<1>1. PICK i \in 1..Len(queue'[l]) : Marks(queue'[l][i], c)
  BY DEF Coming, Marks
<1>2. \/ \E k \in 1..Len(queue[l]) : queue'[l][i] = queue[l][k]
      \/ /\ l \in links /\ Open(l)
         /\ \E u \in 1..Len(pkts) : queue'[l][i] = pkts[u]
  BY FlowHolds
<1> QED BY <1>1, <1>2 DEF Coming

\* Lemma: messages come from a node that keeps them, which has been greeted by
\* the child nodes it sends them to, or from their client.
LEMMA ComingGrows ==
  ASSUME TypeInv, Placed, HelloFirst, Outward, KindsOfSteps,
         NEW l \in Links, l[2] \in Nodes, NEW c \in Clients, Coming(l, c)'
  PROVE  \/ Coming(l, c)
         \/ l = Up(c) /\ conn[c] = "on"
         \/ /\ l[1] \in Nodes /\ status[l[1]] = "up" /\ HasHistory(l[1], c)'
            /\ \A m \in Children : l = Down(m) => m \in secoPPSet'[Parent[m]]
<1>1. ASSUME NEW links, NEW pkts \in Seq(Cargoes), Flows(links, pkts),
             \A u \in 1..Len(pkts) : pkts[u].cmd \notin {"MSG", "SYNC_MSG"}
      PROVE  Coming(l, c)
  BY <1>1, ComingFlows DEF Marks
<1>2. CASE Quietly
  <2>a. PICK links : \E pkts \in Seq(Packets) :
          Flows(links, pkts) /\ \A u \in 1..Len(pkts) : pkts[u].cmd \in Asks
    BY <1>2 DEF Quietly
  <2>1. PICK pkts \in Seq(Packets) :
          Flows(links, pkts) /\ \A u \in 1..Len(pkts) : pkts[u].cmd \in Asks
    BY <2>a
  <2>2. \A u \in 1..Len(pkts) : pkts[u].cmd \notin {"MSG", "SYNC_MSG"}
    BY <2>1 DEF Asks
  <2> QED BY <1>1, <2>1, <2>2, CargoSeqs
<1>3. CASE SendsHistory
  <2>1. PICK d \in Clients, pkts \in Seq(Packets) : Flows({Down(d)}, pkts)
    BY <1>3 DEF SendsHistory
  <2>2. l \notin {Down(d)}
    BY ClientEnds, LinkEnds
  <2> QED BY <2>1, <2>2, CargoSeqs, ComingFlows
<1>4. CASE Synchronizes
  <2>1. PICK m \in Children : synchronizeNewSeCo(m)
    BY <1>4 DEF Synchronizes
  <2>2. PICK pkts \in Seq(Packets) :
          /\ Flows({Down(m)}, pkts)
          /\ \A u \in 1..Len(pkts) : \E g \in AllGroups :
               pkts[u] \in Kept(Parent[m], g, pkts[u].client)
    BY <2>1, SynchronizeFacts
  <2>3. UNCHANGED <<history, got>> /\ status[Parent[m]] = "up"
    BY <2>1, SynchronizeFacts
  <2>4. m \in Ends /\ Parent[m] \in Nodes
    BY ChildEnds
  <2>5. ASSUME l = Down(m), NEW u \in 1..Len(pkts), Marks(pkts[u], c)
        PROVE  /\ l[1] \in Nodes /\ status[l[1]] = "up" /\ HasHistory(l[1], c)'
               /\ \A k \in Children : l = Down(k) => k \in secoPPSet'[Parent[k]]
    <3>1. PICK g \in AllGroups : pkts[u] \in Kept(Parent[m], g, c)
      BY <2>2, <2>5, MarksAre
    <3>2. history[Parent[m]][g][c] # <<>>
      BY <3>1 DEF Kept, ToSet
    <3>3. l[1] = Parent[m]
      BY <2>5, LinkEnds
    <3>4. HasHistory(l[1], c)'
      BY <2>3, <3>2, <3>3 DEF HasHistory
    <3>5. m \in secoPPSet'[Parent[m]]
      BY <2>1, <2>4, TypeInvIs DEF synchronizeNewSeCo
    <3>6. \A k \in Children : l = Down(k) => k = m
      BY <2>4, <2>5, ChildEnds, LinksDiffer
    <3> QED BY <2>3, <2>4, <3>3, <3>4, <3>5, <3>6
  <2> QED BY <2>2, <2>5, CargoSeqs, ComingFlows
<1>5. CASE Sends
  <2>1. PICK d \in Clients, p \in Msgs :
          p.client = d /\ conn[d] = "on" /\ Flows({Up(d)}, <<p>>)
    BY <1>5 DEF Sends
  <2>2. PICK pkts : pkts = <<p>>
    OBVIOUS
  <2>3. pkts \in Seq(Cargoes) /\ Flows({Up(d)}, pkts)
        /\ \A u \in 1..Len(pkts) : pkts[u] = p
    BY <2>1, <2>2, CargoSeqs
  <2>4. \/ Coming(l, c)
        \/ l \in {Up(d)} /\ \E u \in 1..Len(pkts) : Marks(pkts[u], c)
    BY <2>3, ComingFlows
  <2> QED BY <2>1, <2>3, <2>4 DEF Marks
<1>6. CASE Routes
  <2>a. PICK n \in Nodes, k \in Links, p \in Msgs : \E targets :
          /\ status[n] = "up" /\ Flows(targets, <<p>>)
          /\ \A t \in targets : t[1] = n /\ Away(t, p.client)
          /\ \A m \in Children : Down(m) \in targets => m \in secoPPSet[n]
          /\ IF p.cmd = "NO_HISTORY_MSG" THEN history' = history
             ELSE \E g \in AllGroups : history'[n][g][p.client] # <<>>
    BY <1>6 DEF Routes
  <2>1. PICK targets :
          /\ status[n] = "up" /\ Flows(targets, <<p>>)
          /\ \A t \in targets : t[1] = n /\ Away(t, p.client)
          /\ \A m \in Children : Down(m) \in targets => m \in secoPPSet[n]
          /\ IF p.cmd = "NO_HISTORY_MSG" THEN history' = history
             ELSE \E g \in AllGroups : history'[n][g][p.client] # <<>>
    BY <2>a
  <2>2. PICK pkts : pkts = <<p>>
    OBVIOUS
  <2>3. pkts \in Seq(Cargoes) /\ Flows(targets, pkts)
        /\ \A u \in 1..Len(pkts) : pkts[u] = p
    BY <2>1, <2>2, CargoSeqs
  <2>4. \/ Coming(l, c)
        \/ l \in targets /\ \E u \in 1..Len(pkts) : Marks(pkts[u], c)
    BY <2>3, ComingFlows
  <2>5. ASSUME l \in targets, Marks(p, c)
        PROVE  /\ l[1] \in Nodes /\ status[l[1]] = "up" /\ HasHistory(l[1], c)'
               /\ \A m \in Children : l = Down(m) => m \in secoPPSet'[Parent[m]]
    <3>1. l[1] = n /\ secoPPSet' = secoPPSet
      BY <1>6, <2>1, <2>5 DEF Routes
    <3>2. HasHistory(n, c)'
      BY <2>1, <2>5 DEF Marks, HasHistory
    <3>3. \A m \in Children : l = Down(m) => Parent[m] = n
      BY <3>1, LinkEnds
    <3>4. \A m \in Children : l = Down(m) => m \in secoPPSet'[Parent[m]]
      BY <2>1, <2>5, <3>1, <3>3
    <3> QED BY <2>1, <2>5, <3>1, <3>2, <3>4
  <2>6. Coming(l, c) \/ (l \in targets /\ Marks(p, c))
    BY <2>3, <2>4
  <2> QED BY <2>5, <2>6
<1>7. CASE Buries
  <2>a. PICK cs \in SUBSET Clients : \E links : \E news \in Obituaries(cs) :
          Flows(links, news)
    BY <1>7 DEF Buries
  <2>1. PICK links : \E news \in Obituaries(cs) : Flows(links, news)
    BY <2>a
  <2>2. PICK news \in Obituaries(cs) : Flows(links, news)
    BY <2>1
  <2>3. news \in Seq(Cargoes)
        /\ \A u \in 1..Len(news) : news[u].cmd = "CLIENT_DISCONNECTED"
    BY DEF Obituaries, Cargoes, Packets
  <2>4. PICK pkts : pkts = news
    OBVIOUS
  <2>5. /\ pkts \in Seq(Cargoes) /\ Flows(links, pkts)
        /\ \A u \in 1..Len(pkts) : ~Marks(pkts[u], c)
    BY <2>2, <2>3, <2>4 DEF Marks
  <2>6. Coming(l, c) \/ \E u \in 1..Len(pkts) : Marks(pkts[u], c)
    BY <2>5, ComingFlows
  <2> QED BY <2>5, <2>6
<1>8. CASE Receives
  <2>1. PICK d \in Clients : ClientReceive(d)
    BY <1>8 DEF Receives
  <2>2. PICK links, pkts : links = {} /\ pkts = <<>>
    OBVIOUS
  <2>3. pkts \in Seq(Cargoes) /\ Flows(links, pkts)
    BY <2>1, <2>2, ClientReceiveTypes, CargoSeqs
  <2>4. Coming(l, c) \/ l \in links
    BY <2>3, ComingFlows
  <2> QED BY <2>2, <2>4
<1>9. CASE Starts
  <2>1. PICK m \in Children : NodeStart(m)
    BY <1>9 DEF Starts
  <2>2. PICK hello \in Hellos : Flows({Up(m)}, <<hello>>)
    BY <2>1, NodeStartFlows
  <2>3. PICK pkts : pkts = <<hello>>
    OBVIOUS
  <2>4. pkts \in Seq(Cargoes) /\ \A u \in 1..Len(pkts) : pkts[u] = hello
    BY <2>3 DEF Cargoes
  <2>5. \A u \in 1..Len(pkts) : pkts[u].cmd \notin {"MSG", "SYNC_MSG"}
    BY <2>4, PacketKinds
  <2> QED BY <1>1, <2>2, <2>3, <2>4, <2>5
<1> QED BY <1>2, <1>3, <1>4, <1>5, <1>6, <1>7, <1>8, <1>9
        DEF KindsOfSteps, OtherKinds

\* Lemma: a history begins with a message that has come.
LEMMA HistoryGrows ==
  ASSUME TypeInv, KindsOfSteps, NEW n \in Nodes, NEW c \in Clients,
         HasHistory(n, c)'
  PROVE  \/ HasHistory(n, c)
         \/ \E l \in Links : l[2] = n /\ Coming(l, c)
<1>1. CASE history' = history
  BY <1>1 DEF HasHistory
<1>2. CASE Buries
  <2>1. \A x \in Nodes, g \in AllGroups, s \in Clients :
          history'[x][g][s] = <<>> \/ history'[x][g][s] = history[x][g][s]
    <3>a. PICK x \in Nodes, cs \in SUBSET Clients :
            \A y \in Nodes, g \in AllGroups, s \in Clients : history'[y][g][s] =
              IF y = x /\ s \in cs THEN <<>> ELSE history[y][g][s]
      BY <1>2, ZenonT(60) DEF Buries
    <3> QED BY <3>a
  <2> QED BY <2>1 DEF HasHistory
<1>3. CASE Routes
  <2>1. PICK x \in Nodes, k \in Links, p \in Msgs :
          /\ k[2] = x /\ 1 \in 1..Len(queue[k]) /\ p = queue[k][1]
          /\ \A y \in Nodes, g \in AllGroups, s \in Clients :
               history'[y][g][s] = history[y][g][s] \/ (y = x /\ s = p.client)
          /\ p.cmd = "NO_HISTORY_MSG" => history' = history
    BY <1>3 DEF Routes
  <2>2. CASE n = x /\ c = p.client /\ p.cmd # "NO_HISTORY_MSG"
    <3>1. p.cmd \in {"MSG", "SYNC_MSG"}
      BY <2>2, PacketKinds DEF MsgCommands
    <3>2. Marks(queue[k][1], c)
      BY <2>1, <2>2, <3>1 DEF Marks
    <3> QED BY <2>1, <2>2, <3>2 DEF Coming
  <2>3. CASE ~(n = x /\ c = p.client) \/ p.cmd = "NO_HISTORY_MSG"
    BY <2>1, <2>3 DEF HasHistory
  <2> QED BY <2>2, <2>3
<1>4. CASE Synchronizes
  BY <1>1, <1>4 DEF Synchronizes, synchronizeNewSeCo
<1>5. CASE Receives
  BY <1>1, <1>5 DEF Receives, ClientReceive, tables
<1>6. CASE Starts
  BY <1>1, <1>6 DEF Starts, NodeStart, tables
<1>7. CASE Quietly \/ SendsHistory \/ Sends
  BY <1>1, <1>7 DEF Quietly, SendsHistory, Sends, same
<1> QED BY <1>2, <1>3, <1>4, <1>5, <1>6, <1>7 DEF KindsOfSteps, OtherKinds

\* Lemma: and does not end but with a burial.
LEMMA HistoryStays ==
  ASSUME TypeInv, OtherKinds, NEW n \in Nodes, NEW c \in Clients,
         HasHistory(n, c)
  PROVE  HasHistory(n, c)'
<1>1. CASE history' = history
  BY <1>1 DEF HasHistory
<1>3. CASE Routes
  <2>1. PICK x \in Nodes, p \in Msgs :
          /\ \A y \in Nodes, g \in AllGroups, s \in Clients :
               history'[y][g][s] = history[y][g][s] \/ (y = x /\ s = p.client)
          /\ IF p.cmd = "NO_HISTORY_MSG" THEN history' = history
             ELSE \E g \in AllGroups : history'[x][g][p.client] # <<>>
    BY <1>3 DEF Routes
  <2>2. CASE n = x /\ c = p.client
    BY <2>1, <2>2 DEF HasHistory
  <2>3. CASE ~(n = x /\ c = p.client)
    BY <2>1, <2>3 DEF HasHistory
  <2> QED BY <2>2, <2>3
<1>4. CASE Synchronizes
  BY <1>1, <1>4 DEF Synchronizes, synchronizeNewSeCo
<1>5. CASE Receives
  BY <1>1, <1>5 DEF Receives, ClientReceive, tables
<1>6. CASE Starts
  BY <1>1, <1>6 DEF Starts, NodeStart, tables
<1>7. CASE Quietly \/ SendsHistory \/ Sends
  BY <1>1, <1>7 DEF Quietly, SendsHistory, Sends, same
<1> QED BY <1>3, <1>4, <1>5, <1>6, <1>7 DEF OtherKinds

----------------------------------------------------------------------------
(* The news that are on their way *)

\* Lemmas: the news stay when packets are added ...
LEMMA TellsConcat ==
  ASSUME NEW S, NEW s \in Seq(S), NEW t \in Seq(S), NEW c,
         Tells(s, c) \/ Tells(t, c)
  PROVE  Tells(s \o t, c)
<1>1. /\ Len(s) \in Nat /\ Len(t) \in Nat /\ Len(s \o t) = Len(s) + Len(t)
      /\ \A i \in 1..Len(s) : i \in 1..Len(s \o t) /\ (s \o t)[i] = s[i]
      /\ \A i \in 1..Len(t) : Len(s) + i \in 1..Len(s \o t)
                              /\ (s \o t)[Len(s) + i] = t[i]
  OBVIOUS
<1> QED BY <1>1 DEF Tells

\* ... when another packet is taken ...
LEMMA TellsTail ==
  ASSUME NEW S, NEW s \in Seq(S), s # <<>>, NEW c, Tells(s, c), ~IsEnd(s[1], c)
  PROVE  Tells(Tail(s), c)
<1>1. PICK i \in 1..Len(s) : IsEnd(s[i], c)
  BY DEF Tells
<1>2. i # 1
  BY <1>1
<1>3. /\ Len(s) \in Nat /\ Len(Tail(s)) = Len(s) - 1
      /\ \A j \in 1..Len(Tail(s)) : Tail(s)[j] = s[j + 1]
  OBVIOUS
<1>4. i - 1 \in 1..Len(Tail(s)) /\ (i - 1) + 1 = i
  BY <1>2, <1>3
<1>5. Tail(s)[i - 1] = s[i]
  BY <1>3, <1>4
<1> QED BY <1>1, <1>4, <1>5 DEF Tells

\* ... and when messages are deprecated.
LEMMA TellsPurged ==
  ASSUME NEW S, NEW s \in Seq(S), NEW D \in SUBSET Msgs, NEW c, Tells(s, c)
  PROVE  Tells(Purged(s, D), c)
<1>1. PICK i \in 1..Len(s) : IsEnd(s[i], c)
  BY DEF Tells
<1>2. s[i] \notin D
  BY <1>1, PacketKinds DEF IsEnd, MsgCommands
<1>3. PICK t : t = Purged(s, D)
  OBVIOUS
<1>4. Sifts(t, s, D)
  BY <1>3, PurgedSifts
<1>5. PICK at \in [1..Len(t) -> 1..Len(s)] :
        /\ \A j \in 1..Len(t) : t[j] = s[at[j]]
        /\ \A k \in 1..Len(s) : s[k] \notin D <=> \E j \in 1..Len(t) : at[j] = k
  BY <1>4 DEF Sifts
<1>6. PICK j \in 1..Len(t) : at[j] = i
  BY <1>2, <1>5
<1>7. IsEnd(t[j], c)
  BY <1>1, <1>5, <1>6
<1> QED BY <1>3, <1>6, <1>7 DEF Tells

\* Lemma: so PPSender.run does not skip them.
LEMMA TellsSkipped ==
  ASSUME NEW S, NEW s \in Seq(S), NEW k \in 0..Len(s), NEW D \in SUBSET Msgs,
         NEW c, Tells(s, c)
  PROVE  Tells(Skipped(s, k, D), c)
<1>0. Len(s) \in Nat /\ k \in Nat /\ k <= Len(s)
  OBVIOUS
<1>1. PICK a, b, d : /\ a = SubSeq(s, 1, k) /\ b = SubSeq(s, k + 1, Len(s))
                     /\ d = Purged(b, D)
  OBVIOUS
<1>2. a \in Seq(S) /\ b \in Seq(S)
  BY <1>0, <1>1
<1>3. d \in Seq(S)
  BY <1>1, <1>2, PurgedSifts
<1>4. Skipped(s, k, D) = a \o d
  BY <1>1 DEF Skipped
<1>5. PICK i \in 1..Len(s) : IsEnd(s[i], c)
  BY DEF Tells
<1>6. CASE i <= k
  <2>1. i \in 1..Len(a) /\ a[i] = s[i]
    BY <1>0, <1>1, <1>6
  <2>2. Tells(a, c)
    BY <1>5, <2>1 DEF Tells
  <2> QED BY <1>2, <1>3, <1>4, <2>2, TellsConcat
<1>7. CASE ~(i <= k)
  <2>1. i - k \in 1..Len(b) /\ b[i - k] = s[i]
    <3>1. Len(b) = Len(s) - k
      BY <1>0, <1>1
    <3>2. i - k \in 1..Len(b) /\ k + (i - k) = i
      BY <1>0, <1>7, <3>1
    <3> QED BY <1>0, <1>1, <3>1, <3>2
  <2>2. Tells(b, c)
    BY <1>5, <2>1 DEF Tells
  <2>3. Tells(d, c)
    BY <1>1, <1>2, <2>2, TellsPurged
  <2> QED BY <1>2, <1>3, <1>4, <2>3, TellsConcat
<1> QED BY <1>6, <1>7

\* Lemma: nor does a node that cleans its histories.
LEMMA TellsDeprecated ==
  ASSUME NEW q \in Queues, NEW n, NEW D \in SUBSET Msgs,
         NEW r \in Deprecations(q, n, D), NEW l \in Links, NEW c, Tells(q[l], c)
  PROVE  Tells(r[l], c)
<1>1. PICK s : s = q[l]
  OBVIOUS
<1>2. s \in Seq(Cargoes)
  BY <1>1 DEF Queues, Cargoes
<1>3. PICK touched : touched = {x \in Links : /\ x[1] = n
                                              /\ ToSet(q[x]) \cap D # {}}
  OBVIOUS
<1>4. PICK k \in [touched -> UNION {0..Len(q[x]) : x \in touched}] :
        /\ \A x \in touched : k[x] <= Len(q[x])
        /\ r = [x \in Links |-> IF x \in touched THEN Skipped(q[x], k[x], D)
                                                 ELSE q[x]]
  BY <1>3 DEF Deprecations
<1>5. CASE l \in touched
  <2>1. k[l] \in UNION {0..Len(q[x]) : x \in touched} /\ k[l] <= Len(s)
    BY <1>1, <1>4, <1>5
  <2>2. PICK x \in touched : k[l] \in 0..Len(q[x])
    BY <2>1
  <2>3. k[l] \in Nat /\ Len(s) \in Nat
    BY <1>2, <2>2
  <2>4. k[l] \in 0..Len(s)
    BY <2>1, <2>3
  <2>5. PICK j \in 0..Len(s) : j = k[l]
    BY <2>4
  <2>6. r[l] = Skipped(s, j, D)
    BY <1>1, <1>4, <1>5, <2>5
  <2> QED BY <1>1, <1>2, <2>6, TellsSkipped
<1>6. CASE l \notin touched
  BY <1>4, <1>6
<1> QED BY <1>5, <1>6

\* Lemma: and what is sent comes after them.
LEMMA TellsSent ==
  ASSUME NEW q \in Queues, NEW links, NEW pkts \in Seq(Packets),
         queue' = Sent(q, links, pkts), NEW l \in Links, NEW c, Tells(q[l], c)
  PROVE  EndIn(l, c)'
<1>1. queue'[l] = IF l \in links /\ Open(l) THEN q[l] \o pkts ELSE q[l]
  BY SentIs
<1>2. q[l] \in Seq(Cargoes) /\ pkts \in Seq(Cargoes)
  BY CargoSeqs DEF Queues, Cargoes
<1>3. Tells(q[l] \o pkts, c)
  BY <1>2, TellsConcat
<1>4. Tells(queue'[l], c)
  BY <1>1, <1>3
<1> QED BY <1>4 DEF EndIn, Tells

\* Lemma: the news stay where another packet is taken.
LEMMA TellsTaken ==
  ASSUME TypeInv, NEW k \in Links, queue[k] # <<>>, NEW l \in Links, NEW c,
         EndIn(l, c), l = k => ~IsEnd(queue[k][1], c)
  PROVE  Tells(Taken(k)[l], c)
<1>1. Taken(k)[l] = IF l = k THEN Tail(queue[l]) ELSE queue[l]
  BY TypeInvIs, TakenIs
<1>2. PICK s : s = queue[l]
  OBVIOUS
<1>3. s \in Seq(Cargoes)
  BY <1>2, TypeInvIs DEF Queues, Cargoes
<1>4. Tells(s, c)
  BY <1>2 DEF EndIn
<1>5. CASE l = k
  <2>1. Tells(Tail(s), c)
    BY <1>2, <1>3, <1>4, <1>5, TellsTail
  <2> QED BY <1>1, <1>2, <1>5, <2>1
<1> QED BY <1>1, <1>2, <1>4, <1>5

----------------------------------------------------------------------------
(* The steps that bury nobody and end nothing *)

\* The news for nodes are still in q, or after the step.
NewsIn(q) ==
  \A l \in Links, c \in Clients : l[2] \in Nodes /\ EndIn(l, c) => Tells(q[l], c)
NewsStay ==
  \A l \in Links, c \in Clients : l[2] \in Nodes /\ EndIn(l, c) => EndIn(l, c)'

\* The clients that become members are there and the node's own.
MembersJoin ==
  \A n \in Nodes, g \in AllGroups : \A c \in members'[n][g] :
    c \in members[n][g] \/ c \in local[n] \/ (Parent[c] = n /\ Here(c))

Plain ==
  /\ UNCHANGED <<status, conn, routes, myClients, local>>
  /\ NewsStay /\ MembersJoin

\* Lemmas: what keeps the news.
LEMMA NewsTaken ==
  ASSUME TypeInv, NEW k \in Links, queue[k] # <<>>,
         k[2] \in Nodes => Head(queue[k]).cmd # "CLIENT_DISCONNECTED"
  PROVE  Taken(k) \in Queues /\ NewsIn(Taken(k))
<1>1. Taken(k) \in Queues
  BY TypeInvIs, TakenIs
<1>2. Head(queue[k]) = queue[k][1]
  BY TypeInvIs, HeadIs
<1>3. ASSUME NEW l \in Links, NEW c \in Clients, l[2] \in Nodes, EndIn(l, c)
      PROVE  Tells(Taken(k)[l], c)
  <2>1. l = k => ~IsEnd(queue[k][1], c)
    BY <1>2, <1>3 DEF IsEnd
  <2> QED BY <1>3, <2>1, TellsTaken
<1> QED BY <1>1, <1>3 DEF NewsIn

\* Lemma: messages are no news.
LEMMA NewsDeprecated ==
  ASSUME NEW q \in Queues, NewsIn(q), NEW n, NEW D \in SUBSET Msgs,
         NEW r \in Deprecations(q, n, D)
  PROVE  r \in Queues /\ NewsIn(r)
<1>1. r \in Queues
  BY DeprecationsThin
<1>2. ASSUME NEW l \in Links, NEW c \in Clients, l[2] \in Nodes, EndIn(l, c)
      PROVE  Tells(r[l], c)
  <2>1. Tells(q[l], c)
    BY <1>2 DEF NewsIn
  <2> QED BY <2>1, TellsDeprecated
<1> QED BY <1>1, <1>2 DEF NewsIn

\* Lemma: what is sent comes after the news.
LEMMA NewsSent ==
  ASSUME NEW q \in Queues, NewsIn(q), NEW links, NEW pkts \in Seq(Packets),
         queue' = Sent(q, links, pkts)
  PROVE  NewsStay
<1>1. ASSUME NEW l \in Links, NEW c \in Clients, l[2] \in Nodes, EndIn(l, c)
      PROVE  EndIn(l, c)'
  <2>1. Tells(q[l], c)
    BY <1>1 DEF NewsIn
  <2> QED BY <2>1, TellsSent
<1> QED BY <1>1 DEF NewsStay

\* Lemma: nothing is sent.
LEMMA NewsNotSent ==
  ASSUME NEW q, NewsIn(q), queue' = q
  PROVE  NewsStay
<1>1. ASSUME NEW l \in Links, NEW c \in Clients, l[2] \in Nodes, EndIn(l, c)
      PROVE  EndIn(l, c)'
  <2>1. Tells(queue'[l], c)
    BY <1>1 DEF NewsIn
  <2> QED BY <2>1 DEF EndIn, Tells
<1> QED BY <1>1 DEF NewsStay

\* Lemma: and the news are where they are.
LEMMA NewsHere ==
  NewsIn(queue)
BY DEF NewsIn, EndIn

\* Lemma: a message is routed.
LEMMA NewsRoute ==
  ASSUME TypeInv, NEW n, NEW k \in Links, queue[k] # <<>>, n \in Nodes,
         k[2] \in Nodes => Head(queue[k]).cmd # "CLIENT_DISCONNECTED",
         NEW p \in Msgs, NEW targets, Route(n, k, p, targets)
  PROVE  Plain
<1>1. PICK D : D = IF p.cmd = "SYNC_MSG" THEN Kept(n, p.group, p.client) ELSE {}
  OBVIOUS
<1>2. PICK q, pkts : q = Taken(k) /\ pkts = <<p>>
  OBVIOUS
<1>3. PICK r \in Deprecations(q, n, D) : queue' = Sent(r, targets, pkts)
  BY <1>1, <1>2 DEF Route
<1>4. q \in Queues /\ NewsIn(q)
  BY <1>2, NewsTaken
<1>5. D \in SUBSET Msgs
  BY <1>1, PacketKinds, KeptAreMsgs DEF AllGroups
<1>6. r \in Queues /\ NewsIn(r)
  BY <1>3, <1>4, <1>5, NewsDeprecated
<1>7. pkts \in Seq(Packets)
  BY <1>2, PacketKinds
<1>8. NewsStay
  BY <1>3, <1>6, <1>7, NewsSent
<1>9. MembersJoin
  BY DEF Route, MembersJoin
<1>10. UNCHANGED <<conn, myClients, local, routes, status>>
  BY DEF Route
<1> QED BY <1>8, <1>9, <1>10 DEF Plain

\* Lemma: a node that reads a packet of a client has the client.
LEMMA ReadsHere ==
  ASSUME TypeInv, Quit, NEW c \in Clients, NEW cmds, Reads(c, cmds)
  PROVE  Here(c)
BY DEF Reads, Quit

\* Lemma: a client becomes a member of a group.
LEMMA MemberJoins ==
  ASSUME TypeInv, NEW n \in Nodes, NEW h, NEW c \in Clients,
         (Parent[c] = n /\ Here(c)) \/ c \in local[n],
         members' = [members EXCEPT ![n][h] = @ \cup {c}]
  PROVE  MembersJoin
<1>1. members \in [Nodes -> [AllGroups -> SUBSET Clients]]
  BY TypeInvIs
<1>2. \A x \in Nodes, g \in AllGroups :
        members'[x][g] \subseteq members[x][g] \cup (IF x = n THEN {c} ELSE {})
  BY <1>1
<1> QED BY <1>2 DEF MembersJoin

\* Lemma: the thread of a client.
LEMMA PlainClient ==
  ASSUME TypeInv, Placed, Quit, NEW c \in Clients, ClientLink(c), ~ClientGone(c)
  PROVE  Plain
<1>0. c \in Ends /\ Parent[c] \in Nodes /\ queue \in Queues /\ NewsIn(queue)
  BY ClientEnds, TypeInvIs, NewsHere
<1>1. UNCHANGED <<status, conn, routes, myClients, local>>
  BY DEF ClientLink, RootJoin, KnownJoin, JoinStep, JoinReply, JoinHistory,
     JoinSend, DownReply, DownForward, leaveGroup, routeToGroup, Route,
     IgnoreMessage, tables
<1>2. ASSUME NEW cmds, Reads(c, cmds), "CLIENT_DISCONNECTED" \notin cmds
      PROVE  /\ Up(c) \in Links /\ queue[Up(c)] # <<>>
             /\ Head(queue[Up(c)]).cmd # "CLIENT_DISCONNECTED"
             /\ Taken(Up(c)) \in Queues /\ NewsIn(Taken(Up(c)))
  <2>1. Up(c) \in Links /\ queue[Up(c)] # <<>> /\ Head(queue[Up(c)]).cmd \in cmds
    BY <1>0, <1>2, ReadsIs
  <2> QED BY <1>2, <2>1, NewsTaken
<1>3. ASSUME members' = members
      PROVE  MembersJoin
  BY <1>3 DEF MembersJoin
<1>4. CASE RootJoin(c)
  <2>1. PICK p, msgs, pkts : /\ p = Head(queue[Up(c)])
                             /\ msgs = getMsgs(Root, p.group)
                             /\ pkts = <<p>> \o msgs
    OBVIOUS
  <2>2. /\ Parent[c] = Root /\ Reads(c, {"JOIN_GROUP"})
        /\ queue' = Sent(Taken(Up(c)), {Down(c)}, pkts)
        /\ members' = [members EXCEPT ![Root][p.group] = @ \cup {c}]
    BY <1>4, <2>1 DEF RootJoin
  <2>3. p \in Packets /\ p.cmd = "JOIN_GROUP"
    BY <1>0, <2>1, <2>2, ReadsIs
  <2>4. p.group \in AllGroups
    BY <2>3, PacketKinds DEF MsgCommands
  <2>5. msgs \in Seq(Packets)
    BY <2>1, <2>4, HistoriesAre, MsgsArePackets DEF Nodes
  <2>6. pkts \in Seq(Packets)
    BY <2>1, <2>3, <2>5
  <2>7. NewsStay
    BY <1>2, <2>2, <2>6, NewsSent
  <2>8. MembersJoin
    BY <1>0, <2>2, ReadsHere, MemberJoins
  <2> QED BY <1>1, <2>7, <2>8 DEF Plain
<1>5. CASE KnownJoin(c)
  <2>1. PICK n, p : n = Parent[c] /\ p = Head(queue[Up(c)])
    OBVIOUS
  <2>2. /\ Reads(c, {"JOIN_GROUP"}) /\ queue' = Taken(Up(c))
        /\ members' = [members EXCEPT ![n][p.group] = @ \cup {c}]
    BY <1>5, <2>1 DEF KnownJoin
  <2>3. NewsStay
    BY <1>2, <2>2, NewsNotSent
  <2>4. MembersJoin
    BY <1>0, <2>1, <2>2, ReadsHere, MemberJoins
  <2> QED BY <1>1, <2>3, <2>4 DEF Plain
<1>6. CASE JoinStep(c)
  <2>0. MembersJoin
    BY <1>3, <1>6 DEF JoinStep, JoinReply, JoinHistory, JoinSend, tables
  <2>1. CASE JoinReply(c)
    <3>1. PICK p, pkts : /\ p = Packet("JOIN_GROUP", c, join[c].group, 0)
                         /\ pkts = <<p>>
      OBVIOUS
    <3>2. queue' = Sent(queue, {Down(c)}, pkts)
      BY <2>1, <3>1 DEF JoinReply
    <3>3. join[c] \in JoinStates
      BY TypeInvIs
    <3>4. pkts \in Seq(Packets)
      BY <3>1, <3>3 DEF Packet, Packets, Notes, Asks, JoinStates
    <3>5. NewsStay
      BY <1>0, <3>2, <3>4, NewsSent
    <3> QED BY <1>1, <2>0, <3>5 DEF Plain
  <2>2. CASE JoinHistory(c)
    <3>1. queue' = queue
      BY <2>2 DEF JoinHistory
    <3>2. NewsStay
      BY <1>0, <3>1, NewsNotSent
    <3> QED BY <1>1, <2>0, <3>2 DEF Plain
  <2>3. CASE JoinSend(c)
    <3>1. PICK rest : rest = join[c].rest
      OBVIOUS
    <3>2. CASE rest = <<>>
      <4>1. queue' = queue
        BY <2>3, <3>1, <3>2 DEF JoinSend
      <4>2. NewsStay
        BY <1>0, <4>1, NewsNotSent
      <4> QED BY <1>1, <2>0, <4>2 DEF Plain
    <3>3. CASE rest # <<>>
      <4>1. PICK pkts : pkts = <<Head(rest)>>
        OBVIOUS
      <4>2. queue' = Sent(queue, {Down(c)}, pkts)
        BY <2>3, <3>1, <3>3, <4>1 DEF JoinSend
      <4>3. join[c] \in JoinStates
        BY TypeInvIs
      <4>4. rest \in Seq(Msgs)
        BY <3>1, <4>3 DEF JoinStates
      <4>5. Head(rest) \in Packets
        BY <3>3, <4>4 DEF Packets
      <4>6. pkts \in Seq(Packets)
        BY <4>1, <4>5
      <4>7. NewsStay
        BY <1>0, <4>2, <4>6, NewsSent
      <4> QED BY <1>1, <2>0, <4>7 DEF Plain
    <3> QED BY <3>2, <3>3
  <2> QED BY <1>6, <2>1, <2>2, <2>3 DEF JoinStep
<1>7. CASE DownReply(c) \/ DownForward(c)
  <2>1. PICK p, pkts : p = Head(queue[Up(c)]) /\ pkts = <<p>>
    OBVIOUS
  <2>2. PICK cmds : Reads(c, cmds) /\ cmds \subseteq {"GET_GROUP_ID", "JOIN_GROUP"}
    <3>1. CASE DownForward(c)
      BY <3>1 DEF DownForward
    <3>2. CASE DownReply(c)
      BY <3>2 DEF DownReply
    <3> QED BY <1>7, <3>1, <3>2
  <2>3. "HELLO_SECO" \notin cmds /\ "CLIENT_DISCONNECTED" \notin cmds
    BY <2>2
  <2>4. pkts \in Seq(Packets)
    BY <1>0, <2>1, <2>2, <2>3, ReadsIs
  <2>5. MembersJoin
    BY <1>3, <1>7 DEF DownReply, DownForward, tables
  <2>6. \E links : queue' = Sent(Taken(Up(c)), links, pkts)
    BY <1>7, <2>1 DEF DownReply, DownForward
  <2>7. NewsStay
    BY <1>2, <2>2, <2>3, <2>4, <2>6, NewsSent
  <2> QED BY <1>1, <2>5, <2>7 DEF Plain
<1>8. CASE leaveGroup(c) \/ IgnoreMessage(c)
  <2>1. queue' = Taken(Up(c))
    BY <1>8 DEF leaveGroup, IgnoreMessage
  <2>2. PICK cmds : Reads(c, cmds) /\ "CLIENT_DISCONNECTED" \notin cmds
    <3>1. CASE leaveGroup(c)
      BY <3>1 DEF leaveGroup
    <3>2. CASE IgnoreMessage(c)
      BY <3>2 DEF IgnoreMessage, MsgCommands
    <3> QED BY <1>8, <3>1, <3>2
  <2>3. NewsStay
    BY <1>2, <2>1, <2>2, NewsNotSent
  <2>4. MembersJoin
    <3>1. CASE IgnoreMessage(c)
      BY <1>3, <3>1 DEF IgnoreMessage, tables
    <3>2. CASE leaveGroup(c)
      <4>1. PICK n, p : n = Parent[c] /\ p = Head(queue[Up(c)])
        OBVIOUS
      <4>2. \/ members' = [members EXCEPT ![n][p.group] = @ \ {c}]
            \/ members' = members
        BY <3>2, <4>1 DEF leaveGroup
      <4>3. members \in [Nodes -> [AllGroups -> SUBSET Clients]]
        BY TypeInvIs
      <4>4. \A x \in Nodes, g \in AllGroups : members'[x][g] \subseteq members[x][g]
        BY <4>2, <4>3
      <4> QED BY <4>4 DEF MembersJoin
    <3> QED BY <1>8, <3>1, <3>2
  <2> QED BY <1>1, <2>3, <2>4 DEF Plain
<1>9. CASE routeToGroup(c)
  <2>a. PICK p \in Msgs :
          Route(Parent[c], Up(c), p, DownTargets(Parent[c], c, p.group))
    BY <1>0, <1>9, DownRouteTypes
  <2>1. PICK targets : Route(Parent[c], Up(c), p, targets)
    BY <2>a
  <2>2. Reads(c, MsgCommands) /\ "CLIENT_DISCONNECTED" \notin MsgCommands
    BY <1>9 DEF routeToGroup, MsgCommands
  <2> QED BY <1>0, <1>2, <2>1, <2>2, NewsRoute
<1> QED BY <1>4, <1>5, <1>6, <1>7, <1>8, <1>9 DEF ClientLink

\* Lemma: the thread of a child node.
LEMMA PlainChild ==
  ASSUME TypeInv, NEW m \in Children, ChildLink(m), ~DownGone(m), ~NodeGone(m)
  PROVE  Plain
<1>0. m \in Ends /\ Parent[m] \in Nodes /\ queue \in Queues /\ NewsIn(queue)
  BY ChildEnds, TypeInvIs, NewsHere
<1>1. UNCHANGED <<status, conn, routes, myClients, local>>
  BY DEF ChildLink, synchronizeNewSeCo, DownReply, DownForward, routeToGroup,
     Route, tables
<1>2. ASSUME NEW cmds, Reads(m, cmds), "CLIENT_DISCONNECTED" \notin cmds
      PROVE  /\ Up(m) \in Links /\ queue[Up(m)] # <<>>
             /\ Head(queue[Up(m)]).cmd # "CLIENT_DISCONNECTED"
             /\ Taken(Up(m)) \in Queues /\ NewsIn(Taken(Up(m)))
  <2>1. Up(m) \in Links /\ queue[Up(m)] # <<>> /\ Head(queue[Up(m)]).cmd \in cmds
    BY <1>0, <1>2, ReadsIs
  <2> QED BY <1>2, <2>1, NewsTaken
<1>3. MembersJoin
  <2>1. members' = members
    BY DEF ChildLink, synchronizeNewSeCo, DownReply, DownForward, routeToGroup,
       Route, tables
  <2> QED BY <2>1 DEF MembersJoin
<1>4. CASE synchronizeNewSeCo(m)
  <2>1. PICK pkts : pkts = getAllMsgs(Parent[m])
    OBVIOUS
  <2>2. /\ Reads(m, {"HELLO_SECO"})
        /\ queue' = Sent(Taken(Up(m)), {Down(m)}, pkts)
    BY <1>4, <2>1 DEF synchronizeNewSeCo
  <2>3. pkts \in Seq(Packets)
    BY <1>0, <2>1, HistoriesAre, MsgsArePackets
  <2>4. NewsStay
    BY <1>2, <2>2, <2>3, NewsSent
  <2> QED BY <1>1, <1>3, <2>4 DEF Plain
<1>5. CASE DownReply(m) \/ DownForward(m)
  <2>1. PICK p, pkts : p = Head(queue[Up(m)]) /\ pkts = <<p>>
    OBVIOUS
  <2>2. PICK cmds : Reads(m, cmds) /\ cmds \subseteq {"GET_GROUP_ID", "JOIN_GROUP"}
    <3>1. CASE DownForward(m)
      BY <3>1 DEF DownForward
    <3>2. CASE DownReply(m)
      BY <3>2 DEF DownReply
    <3> QED BY <1>5, <3>1, <3>2
  <2>3. "HELLO_SECO" \notin cmds /\ "CLIENT_DISCONNECTED" \notin cmds
    BY <2>2
  <2>4. pkts \in Seq(Packets)
    BY <1>0, <2>1, <2>2, <2>3, ReadsIs
  <2>5. \E links : queue' = Sent(Taken(Up(m)), links, pkts)
    BY <1>5, <2>1 DEF DownReply, DownForward
  <2>6. NewsStay
    BY <1>2, <2>2, <2>3, <2>4, <2>5, NewsSent
  <2> QED BY <1>1, <1>3, <2>6 DEF Plain
<1>6. CASE routeToGroup(m)
  <2>a. PICK p \in Msgs :
          Route(Parent[m], Up(m), p, DownTargets(Parent[m], m, p.group))
    BY <1>0, <1>6, DownRouteTypes
  <2>1. PICK targets : Route(Parent[m], Up(m), p, targets)
    BY <2>a
  <2>2. Reads(m, MsgCommands) /\ "CLIENT_DISCONNECTED" \notin MsgCommands
    BY <1>6 DEF routeToGroup, MsgCommands
  <2> QED BY <1>0, <1>2, <2>1, <2>2, NewsRoute
<1> QED BY <1>4, <1>5, <1>6 DEF ChildLink

\* Lemma: the thread of a node that serves its parent.
LEMMA PlainUp ==
  ASSUME TypeInv, NEW m \in Children, UpLink(m), ~UpGone(m), ~UpNoRoute(m)
  PROVE  Plain
<1>0. m \in Ends /\ m \in Nodes /\ queue \in Queues /\ NewsIn(queue)
  BY ChildEnds, TypeInvIs, NewsHere
<1>1. UNCHANGED <<status, conn, routes, myClients, local>>
  BY DEF UpLink, RouteToGroup, Route, UpLookup, UpReply, UpForward, tables
<1>2. ASSUME NEW cmds, Hears(m, cmds), "CLIENT_DISCONNECTED" \notin cmds
      PROVE  /\ Down(m) \in Links /\ queue[Down(m)] # <<>>
             /\ Head(queue[Down(m)]).cmd # "CLIENT_DISCONNECTED"
             /\ Taken(Down(m)) \in Queues /\ NewsIn(Taken(Down(m)))
  <2>1. /\ Down(m) \in Links /\ queue[Down(m)] # <<>>
        /\ Head(queue[Down(m)]).cmd \in cmds
    BY <1>2, HearsIs
  <2> QED BY <1>2, <2>1, NewsTaken
<1>3. ASSUME members' = members
      PROVE  MembersJoin
  BY <1>3 DEF MembersJoin
<1>4. CASE RouteToGroup(m)
  <2>a. PICK p \in Msgs : Route(m, Down(m), p, UpTargets(m, p.group))
    BY <1>4, UpRouteTypes
  <2>1. PICK targets : Route(m, Down(m), p, targets)
    BY <2>a
  <2>2. Hears(m, MsgCommands) /\ "CLIENT_DISCONNECTED" \notin MsgCommands
    BY <1>4 DEF RouteToGroup, MsgCommands
  <2> QED BY <1>0, <1>2, <2>1, <2>2, NewsRoute
<1>5. CASE UpLookup(m)
  <2>1. queue' = queue /\ members' = members
    BY <1>5 DEF UpLookup, tables
  <2>2. NewsStay
    BY <1>0, <2>1, NewsNotSent
  <2> QED BY <1>1, <1>3, <2>1, <2>2 DEF Plain
<1>6. CASE UpReply(m) \/ UpForward(m)
  <2>1. PICK p, links : p = Head(queue[Down(m)]) /\ links = {<<m, lookup[m]>>}
    OBVIOUS
  <2>2. Hears(m, {"JOIN_GROUP", "GET_GROUP_ID"})
    BY <1>6 DEF UpReply, UpForward
  <2>3. p \in Packets /\ p.cmd \in {"JOIN_GROUP", "GET_GROUP_ID"}
    BY <2>1, <2>2, HearsIs
  <2>4. p.group \in AllGroups /\ p.client \in Clients
    BY <2>3, PacketKinds DEF MsgCommands
  <2>5. PICK q : q = Taken(Down(m))
    OBVIOUS
  <2>6. q \in Queues /\ NewsIn(q)
    BY <1>2, <2>2, <2>5
  <2>7. \E pkts \in Seq(Packets) : queue' = Sent(q, links, pkts)
    <3>1. CASE UpForward(m)
      <4>1. PICK pkts : pkts = <<p>>
        OBVIOUS
      <4>2. queue' = Sent(q, links, pkts)
        BY <2>1, <2>5, <3>1, <4>1 DEF UpForward
      <4>3. pkts \in Seq(Packets)
        BY <2>3, <4>1
      <4> QED BY <4>2, <4>3
    <3>2. CASE UpReply(m)
      <4>1. PICK msgs : msgs = IF p.cmd = "JOIN_GROUP" THEN getMsgs(m, p.group)
                                                       ELSE <<>>
        OBVIOUS
      <4>2. queue' = Sent(q, links, <<p>> \o msgs)
        BY <2>1, <2>5, <3>2, <4>1 DEF UpReply
      <4>3. getMsgs(m, p.group) \in Seq(Packets)
        BY <1>0, <2>4, HistoriesAre, MsgsArePackets
      <4>4. msgs \in Seq(Packets)
        BY <4>1, <4>3
      <4>5. <<p>> \o msgs \in Seq(Packets)
        BY <2>3, <4>4
      <4> QED BY <4>2, <4>5
    <3> QED BY <1>6, <3>1, <3>2
  <2>8. NewsStay
    BY <2>6, <2>7, NewsSent
  <2>9. MembersJoin
    <3>1. CASE members' = members
      BY <1>3, <3>1
    <3>2. CASE UpReply(m) /\ p.cmd = "JOIN_GROUP"
      <4>1. PICK d : d = p.client
        OBVIOUS
      <4>2. /\ d \in Clients /\ d \in local[m]
            /\ members' = [members EXCEPT ![m][p.group] = @ \cup {d}]
        BY <2>1, <2>4, <3>2, <4>1 DEF UpReply
      <4> QED BY <1>0, <4>2, MemberJoins
    <3> QED BY <1>6, <2>1, <3>1, <3>2 DEF UpReply, UpForward, tables
  <2> QED BY <1>1, <2>8, <2>9 DEF Plain
<1> QED BY <1>4, <1>5, <1>6 DEF UpLink

\* Lemma: every step is plain, or it buries somebody, or it connects, starts or
\* ends something.
LEMMA PlainStep ==
  ASSUME TypeInv, Placed, Quit, [Next]_vars
  PROVE  \/ Plain \/ Burial
         \/ \E c \in Clients : Connect(c) \/ Disconnect(c)
         \/ \E m \in Children : NodeStart(m)
         \/ \E m \in Children : Ended(m) /\ status[m] = "up"
<1>0. queue \in Queues /\ NewsIn(queue)
  BY TypeInvIs, NewsHere
<1>1. ASSUME UNCHANGED <<status, conn, routes, myClients, local, members>>, NewsStay
      PROVE  Plain
  BY <1>1 DEF Plain, MembersJoin
<1>2. ASSUME NEW c \in Clients, NEW p \in Packets,
             UNCHANGED <<status, conn, tables>>,
             queue' = Sent(queue, {Up(c)}, <<p>>)
      PROVE  Plain
  <2>1. PICK links, pkts : links = {Up(c)} /\ pkts = <<p>>
    OBVIOUS
  <2>2. pkts \in Seq(Packets) /\ queue' = Sent(queue, links, pkts)
    BY <1>2, <2>1
  <2>3. NewsStay
    BY <1>0, <2>2, NewsSent
  <2> QED BY <1>1, <1>2, <2>3 DEF tables
<1>3. ASSUME NEW c \in Clients,
             \/ Request(c) \/ ClientReceive(c)
             \/ \E cmd \in Kinds, g \in Groups : Send(c, cmd, g)
      PROVE  Plain
  <2>0. Down(c) \in Links /\ Down(c)[2] \notin Nodes
    BY ClientEnds, LinksDiffer, LinkEnds
  <2>1. CASE Request(c)
    <3>1. PICK ask : ask = Requests[c][requests[c] + 1]
      OBVIOUS
    <3>2. PICK p : p = Packet(ask[1], c, ask[2], 0)
      OBVIOUS
    <3>3. /\ UNCHANGED <<status, conn, tables>>
          /\ queue' = Sent(queue, {Up(c)}, <<p>>)
          /\ requests[c] < Len(Requests[c])
      BY <2>1, <3>1, <3>2 DEF Request
    <3>4. p \in Packets
      <4>1. requests[c] \in Nat /\ Requests[c] \in Seq(Asks \X AllGroups)
        BY TypeInvIs, TreeAssumption
      <4>2. ask \in Asks \X AllGroups
        BY <3>1, <3>3, <4>1
      <4> QED BY <3>2, <4>2 DEF Packet, Packets, Notes
    <3> QED BY <1>2, <3>3, <3>4
  <2>2. CASE ClientReceive(c)
    <3>1. /\ UNCHANGED <<status, conn, tables>>
          /\ queue[Down(c)] # <<>> /\ queue' = Taken(Down(c))
      BY <2>2 DEF ClientReceive
    <3>2. Taken(Down(c)) \in Queues /\ NewsIn(Taken(Down(c)))
      BY <2>0, <3>1, NewsTaken
    <3>3. NewsStay
      BY <3>1, <3>2, NewsNotSent
    <3> QED BY <1>1, <3>1, <3>3 DEF tables
  <2>3. ASSUME NEW cmd \in Kinds, NEW g \in Groups, Send(c, cmd, g)
        PROVE  Plain
    <3>1. PICK p : p = Packet(cmd, c, g, sends[c] + 1)
      OBVIOUS
    <3>2. /\ UNCHANGED <<status, conn, tables>>
          /\ queue' = Sent(queue, {Up(c)}, <<p>>)
      BY <2>3, <3>1 DEF Send
    <3>3. p \in Packets
      <4>1. sends[c] \in Nat /\ cmd \in MsgCommands
        BY TypeInvIs, TreeAssumption
      <4> QED BY <3>1, <4>1 DEF Packet, Packets, Msgs
    <3> QED BY <1>2, <3>2, <3>3
  <2> QED BY <1>3, <2>1, <2>2, <2>3
<1>4. CASE UNCHANGED vars
  <2>1. UNCHANGED <<status, conn, tables>> /\ queue' = queue
    BY <1>4 DEF vars
  <2>2. NewsStay
    BY <1>0, <2>1, NewsNotSent
  <2> QED BY <1>1, <2>1, <2>2 DEF tables
<1>5. ASSUME NEW m \in Children, UpNoRoute(m) \/ NodeFail(m)
      PROVE  Ended(m) /\ status[m] = "up"
  BY <1>5 DEF UpNoRoute, NodeFail, Hears
<1>6. ASSUME NEW c \in Clients, ClientLink(c)
      PROVE  Plain \/ Burial
  BY <1>6, PlainClient DEF Burial
<1>7. ASSUME NEW m \in Children, ChildLink(m)
      PROVE  Plain \/ Burial
  BY <1>7, PlainChild DEF Burial
<1>8. ASSUME NEW m \in Children, UpLink(m), ~UpNoRoute(m)
      PROVE  Plain \/ Burial
  BY <1>8, PlainUp DEF Burial
<1> QED BY <1>3, <1>4, <1>5, <1>6, <1>7, <1>8 DEF Next

----------------------------------------------------------------------------
(* What all steps keep but the burials *)

\* Nobody is gone unnoticed, and the news for a node get lost with one of its
\* ends alone; those that a node has sent to its parent stay after its end.
Steady ==
  /\ \A n \in Nodes : /\ status[n] = "down" => status'[n] = "down"
                      /\ ~Dead(n) => ~Dead(n)' \/ status'[n] = "down"
  /\ \A c \in Clients : Here(c) => Here(c)' \/ Dead(Parent[c])'
  /\ \A l \in Links, c \in Clients : l[2] \in Nodes /\ EndIn(l, c) =>
       EndIn(l, c)' \/ Dead(l[2])' \/ (Dead(l[1])' /\ l # Up(l[1]))

\* Lemma: a node that knows of a client, or is told of it, has started.
LEMMA NothingWhenOff ==
  ASSUME Placed, HelloFirst, NEW c \in Clients, conn[c] # "off",
         NEW m \in Children, m \in Chain[c]
  PROVE  m \in secoPPSet[Parent[m]] /\ status[m] # "off"
<1>1. m # c
  BY ClientEnds
<1> QED BY <1>1 DEF Placed, HelloFirst

\* Lemma: a node ends.
LEMMA SteadyEnded ==
  ASSUME TypeInv, NEW m \in Children, Ended(m), status[m] = "up"
  PROVE  Steady
<1>0. m \in Nodes /\ m \in Ends /\ m \notin Clients
  BY ChildEnds
<1>1. \A n \in Nodes : status'[n] = IF n = m THEN "down" ELSE status[n]
  BY TypeInvIs DEF Ended
<1>2. \A c \in Clients : conn'[c] = conn[c] \/ Parent[c] = m
  BY DEF Ended
<1>3. \A l \in Links : \/ queue'[l] = queue[l]
                       \/ l[2] = m
                       \/ l[1] = m /\ l # Up(m)
  BY DEF Ended
<1>4. Dead(m)'
  BY <1>0, <1>1 DEF Dead
<1>5. \A n \in Nodes : /\ status[n] = "down" => status'[n] = "down"
                       /\ ~Dead(n) => ~Dead(n)' \/ status'[n] = "down"
  BY <1>1 DEF Dead
<1>6. \A c \in Clients : Here(c) => Here(c)' \/ Dead(Parent[c])'
  BY <1>2, <1>4 DEF Here
<1>7. \A l \in Links, c \in Clients : l[2] \in Nodes /\ EndIn(l, c) =>
        EndIn(l, c)' \/ Dead(l[2])' \/ (Dead(l[1])' /\ l # Up(l[1]))
  BY <1>3, <1>4 DEF EndIn, Tells
<1> QED BY <1>5, <1>6, <1>7 DEF Steady

\* Lemma: a node starts.
LEMMA SteadyStart ==
  ASSUME TypeInv, Placed, HelloFirst, Outward, NEW m \in Children, NodeStart(m)
  PROVE  Steady
<1>0. m \in Nodes /\ m \in Ends /\ m \notin Clients /\ Up(m) \in Links
  BY ChildEnds, LinksDiffer
<1>1. \A n \in Nodes : status'[n] = IF n = m THEN "up" ELSE status[n]
  BY TypeInvIs DEF NodeStart
<1>2. status[m] = "off" /\ conn' = conn
  BY DEF NodeStart
<1>3. \A l \in Links : l # Up(m) => queue'[l] = queue[l]
  BY NodeStartFlows
<1>4. ASSUME NEW c \in Clients, EndIn(Up(m), c)
      PROVE  FALSE
  <2>1. Away(Up(m), c) /\ conn[c] # "off"
    BY <1>0, <1>4, ComingAway
  <2>2. m \in Chain[c]
    BY <1>0, <2>1 DEF Away
  <2> QED BY <1>2, <2>1, <2>2, NothingWhenOff
<1>5. \A n \in Nodes : /\ status[n] = "down" => status'[n] = "down"
                       /\ ~Dead(n) => ~Dead(n)' \/ status'[n] = "down"
  BY <1>1, <1>2 DEF Dead
<1>6. \A c \in Clients : Here(c) => Here(c)' \/ Dead(Parent[c])'
  BY <1>2 DEF Here
<1>7. \A l \in Links, c \in Clients : l[2] \in Nodes /\ EndIn(l, c) =>
        EndIn(l, c)' \/ Dead(l[2])' \/ (Dead(l[1])' /\ l # Up(l[1]))
  BY <1>3, <1>4 DEF EndIn, Tells
<1> QED BY <1>5, <1>6, <1>7 DEF Steady

\* Lemma: a client connects or disconnects.
LEMMA SteadyClient ==
  ASSUME TypeInv, NEW d \in Clients, Connect(d) \/ Disconnect(d)
  PROVE  Steady
<1>0. Down(d) \in Links /\ Down(d)[2] \notin Nodes
  BY ClientEnds, LinksDiffer, LinkEnds
<1>1. status' = status
  BY DEF Connect, Disconnect
<1>2. \A c \in Clients : Here(c) => Here(c)'
  <2>1. conn \in [Clients -> {"off", "on", "closed", "gone"}]
    BY TypeInvIs
  <2> QED BY <2>1 DEF Connect, Disconnect, Here
<1>3. \A l \in Links : l[2] \in Nodes => queue'[l] = queue[l]
  <2>1. CASE Connect(d)
    BY <2>1 DEF Connect
  <2>2. CASE Disconnect(d)
    <3>1. PICK q : q = [queue EXCEPT ![Down(d)] = <<>>]
      OBVIOUS
    <3>2. queue' = q
      BY <2>2, <3>1 DEF Disconnect
    <3>3. \A l \in Links : l # Down(d) => q[l] = queue[l]
      BY <1>0, <3>1, TypeInvIs, EmptiedIs
    <3> QED BY <1>0, <3>2, <3>3
  <2> QED BY <2>1, <2>2
<1>4. \A l \in Links, c \in Clients : l[2] \in Nodes /\ EndIn(l, c) => EndIn(l, c)'
  BY <1>3 DEF EndIn, Tells
<1> QED BY <1>1, <1>2, <1>4 DEF Steady, Dead

\* Lemma: every step is steady or a burial.
LEMMA Steadily ==
  ASSUME TypeInv, Placed, HelloFirst, Outward, Quit, [Next]_vars
  PROVE  Burial \/ Steady
<1>1. CASE Plain
  BY <1>1 DEF Plain, NewsStay, Steady, Dead, Here
<1> QED BY <1>1, PlainStep, SteadyEnded, SteadyStart, SteadyClient

\* Lemma: and routes come with the clients that connect, and go with burials.
LEMMA RoutesStep ==
  ASSUME TypeInv, Placed, Quit, [Next]_vars
  PROVE  \/ Burial \/ (routes' = routes /\ myClients' = myClients)
         \/ \E c \in Clients : Connect(c)
<1>1. CASE Plain
  BY <1>1 DEF Plain
<1>2. ASSUME NEW c \in Clients, Disconnect(c)
      PROVE  routes' = routes /\ myClients' = myClients
  BY <1>2 DEF Disconnect, tables
<1>3. ASSUME NEW m \in Children, NodeStart(m)
      PROVE  routes' = routes /\ myClients' = myClients
  BY <1>3 DEF NodeStart, tables
<1>4. ASSUME NEW m \in Children, Ended(m)
      PROVE  routes' = routes /\ myClients' = myClients
  BY <1>4 DEF Ended, tables
<1> QED BY <1>1, <1>2, <1>3, <1>4, PlainStep

\* Lemma: the step of a client that connects.
LEMMA ConnectIs ==
  ASSUME TypeInv, NEW c \in Clients, Connect(c)
  PROVE  /\ conn[c] = "off" /\ conn'[c] = "on"
         /\ \A d \in Clients : d # c => conn'[d] = conn[d]
         /\ Attached(c)
         /\ UNCHANGED <<status, queue, members, history>>
         /\ \A n \in Nodes : local'[n] \subseteq local[n] \cup
              (IF Parent[c] = n THEN {c} ELSE {})
         /\ \A n \in Nodes : routes'[n] = routes[n] \cup
              (IF \E x \in Chain[c] : Parent[x] = n THEN {c} ELSE {})
         /\ \A m \in Children : myClients'[m] = myClients[m] \cup
              (IF m \in Chain[c] THEN {c} ELSE {})
<1>0. /\ conn \in [Clients -> {"off", "on", "closed", "gone"}]
      /\ local \in [Nodes -> SUBSET Clients]
      /\ routes \in [Nodes -> SUBSET Clients]
      /\ myClients \in [Children -> SUBSET Clients]
  BY TypeInvIs
<1>1. /\ conn[c] = "off" /\ conn'[c] = "on"
      /\ \A d \in Clients : d # c => conn'[d] = conn[d]
      /\ Attached(c)
      /\ UNCHANGED <<status, queue, members, history>>
  BY <1>0 DEF Connect
<1>2. \A n \in Nodes : local'[n] \subseteq local[n] \cup
        (IF Parent[c] = n THEN {c} ELSE {})
  BY <1>0 DEF Connect
<1>3. \A n \in Nodes : routes'[n] = routes[n] \cup
        (IF \E x \in Chain[c] : Parent[x] = n THEN {c} ELSE {})
  BY <1>0 DEF Connect
<1>4. \A m \in Children : myClients'[m] = myClients[m] \cup
        (IF m \in Chain[c] THEN {c} ELSE {})
  BY <1>0 DEF Connect
<1> QED BY <1>1, <1>2, <1>3, <1>4

----------------------------------------------------------------------------
(* The burials *)

\* Node n buries the clients in cs ...
Cleaned(n, cs) ==
  \A x \in Nodes :
    /\ routes'[x] = IF x = n THEN routes[x] \ cs ELSE routes[x]
    /\ local'[x] = IF x = n THEN local[x] \ cs ELSE local[x]
    /\ \A g \in AllGroups :
         /\ members'[x][g] = IF x = n THEN members[x][g] \ cs ELSE members[x][g]
         /\ \A c \in Clients : history'[x][g][c] =
              IF x = n /\ c \in cs THEN <<>> ELSE history[x][g][c]

\* ... all its neighbours away from them are told, and no other news get lost ...
ToldOthers(n, cs) ==
  /\ \A c \in cs :
       /\ n # Root /\ n \in Chain[c] /\ Open(Up(n)) => EndIn(Up(n), c)'
       /\ \A y \in secoPPSet[n] :
            y \notin Chain[c] /\ Open(Down(y)) => EndIn(Down(y), c)'
  /\ \A l \in Links, c \in Clients : l[2] \in Nodes /\ EndIn(l, c) =>
       EndIn(l, c)' \/ (l[2] = n /\ c \in cs)

\* ... and no messages of them come to it any more.
NoMore(n, cs) ==
  \A l \in Links, c \in Clients :
    Coming(l, c)' => Coming(l, c) /\ ~(l[2] = n /\ c \in cs)

\* Of the others, one child node of n may have been noticed to have ended, and
\* then all its clients are buried, or one client of n to have gone.
Noticed(n, cs) ==
  /\ \A y \in Nodes :
       \/ status'[y] = status[y]
       \/ /\ status[y] = "down" /\ status'[y] = "gone" /\ Parent[y] = n
          /\ \A c \in Clients : y \in Chain[c] /\ conn[c] # "off" => c \in cs
  /\ \A c \in Clients :
       \/ conn'[c] = conn[c]
       \/ cs = {c} /\ Parent[c] = n /\ conn'[c] = "gone" /\ queue'[Up(c)] = <<>>

Funeral(n, cs) ==
  /\ UNCHANGED <<secoPPSet, myClients>>
  /\ cs \in SUBSET Clients
  /\ Cleaned(n, cs) /\ ToldOthers(n, cs) /\ NoMore(n, cs) /\ Noticed(n, cs)

\* Lemma: cleanupClient of the clients in cs.
LEMMA CleanupClears ==
  ASSUME TypeInv, NEW n \in Nodes, NEW cs, CleanupTables(n, cs)
  PROVE  Cleaned(n, cs)
<1>1. /\ local \in [Nodes -> SUBSET Clients]
      /\ routes \in [Nodes -> SUBSET Clients]
      /\ members \in [Nodes -> [AllGroups -> SUBSET Clients]]
  BY TypeInvIs
<1>2. \A x \in Nodes :
        /\ routes'[x] = IF x = n THEN routes[x] \ cs ELSE routes[x]
        /\ local'[x] = IF x = n THEN local[x] \ cs ELSE local[x]
  BY <1>1 DEF CleanupTables
<1>3. \A x \in Nodes, g \in AllGroups :
        members'[x][g] = IF x = n THEN members[x][g] \ cs ELSE members[x][g]
  BY <1>1 DEF CleanupTables
<1>4. \A x \in Nodes, g \in AllGroups, c \in Clients : history'[x][g][c] =
        IF x = n /\ c \in cs THEN <<>> ELSE history[x][g][c]
  BY CleanupIs
<1> QED BY <1>2, <1>3, <1>4 DEF Cleaned

\* Lemma: the news of a burial.
LEMMA BuryTells ==
  ASSUME TypeInv, NEW n \in Nodes, NEW q \in Queues, NEW cs \in SUBSET Clients,
         NEW targets, Bury(n, q, cs, targets), NEW l \in Links, NEW c,
         Tells(q[l], c) \/ (l \in targets /\ Open(l) /\ c \in cs)
  PROVE  EndIn(l, c)'
<1> DEFINE order == SetToSeq(cs)
           news == [i \in 1..Len(order) |->
                      Packet("CLIENT_DISCONNECTED", order[i], DISCONNECTIONS, 0)]
<1>1. IsFiniteSet(cs)
  BY TreeAssumption, FS_Subset
<1>2. order \in Seq(cs) /\ \A s \in cs : \E i \in 1..Len(order) : order[i] = s
  BY <1>1, OrderOf
<1>3. PICK D : D = KeptFrom(n, cs)
  OBVIOUS
<1>4. PICK r \in Deprecations(q, n, D) : queue' = Sent(r, targets, news)
  BY <1>3 DEF Bury
<1>5. D \in SUBSET Msgs
  BY <1>3, KeptAreMsgs DEF KeptFrom
<1> HIDE DEF order
<1>6. news \in Seq(Notes) /\ Len(news) = Len(order)
      /\ \A i \in 1..Len(order) : news[i] =
           Packet("CLIENT_DISCONNECTED", order[i], DISCONNECTIONS, 0)
  <2>1. \A i \in 1..Len(order) :
          Packet("CLIENT_DISCONNECTED", order[i], DISCONNECTIONS, 0) \in Notes
    BY <1>2 DEF Packet, Notes, AllGroups
  <2>2. Len(order) \in Nat
    BY <1>2
  <2> QED BY <2>1, <2>2
<1> HIDE DEF news
<1>7. news \in Seq(Packets)
  BY <1>6, SeqMonotonic DEF Packets
<1>8. r \in Queues
  BY <1>4, DeprecationsThin
<1>9. CASE Tells(q[l], c)
  <2>1. Tells(r[l], c)
    BY <1>4, <1>5, <1>9, TellsDeprecated
  <2> QED BY <1>4, <1>7, <1>8, <2>1, TellsSent
<1>10. CASE l \in targets /\ Open(l) /\ c \in cs
  <2>1. queue'[l] = r[l] \o news
    BY <1>4, <1>7, <1>8, <1>10, SentIs, ZenonT(60)
  <2>2. r[l] \in Seq(Cargoes) /\ news \in Seq(Cargoes)
    BY <1>7, <1>8, CargoSeqs DEF Queues, Cargoes
  <2>3. PICK i \in 1..Len(order) : order[i] = c
    BY <1>2, <1>10
  <2>4. i \in 1..Len(news) /\ IsEnd(news[i], c)
    <3>1. i \in 1..Len(news)
      BY <1>6, <2>3
    <3>2. news[i] = Packet("CLIENT_DISCONNECTED", c, DISCONNECTIONS, 0)
      BY <1>6, <2>3
    <3>3. news[i].cmd = "CLIENT_DISCONNECTED" /\ news[i].client = c
      BY <3>2 DEF Packet
    <3> QED BY <3>1, <3>3 DEF IsEnd
  <2>5. Tells(news, c)
    BY <2>4 DEF Tells
  <2>6. Tells(queue'[l], c)
    BY <2>1, <2>2, <2>5, TellsConcat
  <2> QED BY <2>6 DEF EndIn, Tells
<1> QED BY <1>9, <1>10

\* Lemma: what else there is to know of a burial.
LEMMA FuneralIf ==
  ASSUME TypeInv, Outward, Ending, NEW n \in Nodes, NEW q \in Queues,
         \A l \in Links : Thins(q[l], queue[l]), NEW cs \in SUBSET Clients,
         \A s \in cs : Learns(n, q, s), NEW targets, Bury(n, q, cs, targets),
         \E news \in Obituaries(cs) :
           Flows(targets, news) /\ FlowsFrom(q, targets, news),
         \A l \in Links, c \in Clients : l[2] \in Nodes /\ EndIn(l, c) =>
           Tells(q[l], c) \/ (l[2] = n /\ c \in cs),
         \A c \in cs : n # Root /\ n \in Chain[c] => Up(n) \in targets,
         \A c \in cs : \A y \in secoPPSet[n] :
           y \notin Chain[c] => Down(y) \in targets,
         Noticed(n, cs)
  PROVE  Funeral(n, cs)
<1>1. UNCHANGED <<secoPPSet, myClients>> /\ CleanupTables(n, cs)
  BY DEF Bury
<1>2. Cleaned(n, cs)
  BY <1>1, CleanupClears
<1>3. secoPPSet[n] \subseteq Children
  BY TypeInvIs
<1>4. \A y \in Children : Up(y) \in Links /\ Down(y) \in Links
  BY ChildEnds, LinksDiffer
<1>5. ToldOthers(n, cs)
  <2>1. ASSUME NEW c \in cs, n # Root, n \in Chain[c], Open(Up(n))
        PROVE  EndIn(Up(n), c)'
    <3>1. Up(n) \in Links /\ Up(n) \in targets
      BY <1>4, <2>1 DEF Nodes
    <3>2. PICK l \in Links : l = Up(n)
      BY <3>1
    <3>3. EndIn(l, c)'
      BY <2>1, <3>1, <3>2, BuryTells
    <3> QED BY <3>2, <3>3
  <2>2. ASSUME NEW c \in cs, NEW y \in secoPPSet[n], y \notin Chain[c],
               Open(Down(y))
        PROVE  EndIn(Down(y), c)'
    <3>1. Down(y) \in Links /\ Down(y) \in targets
      BY <1>3, <1>4, <2>2
    <3>2. PICK l \in Links : l = Down(y)
      BY <3>1
    <3>3. EndIn(l, c)'
      BY <2>2, <3>1, <3>2, BuryTells
    <3> QED BY <3>2, <3>3
  <2>3. ASSUME NEW l \in Links, NEW c \in Clients, l[2] \in Nodes, EndIn(l, c),
               ~(l[2] = n /\ c \in cs)
        PROVE  EndIn(l, c)'
    <3>1. Tells(q[l], c)
      BY <2>3
    <3> QED BY <3>1, BuryTells
  <2> QED BY <2>1, <2>2, <2>3 DEF ToldOthers
<1>6. NoMore(n, cs)
  <2>1. PICK news \in Obituaries(cs) :
          Flows(targets, news) /\ FlowsFrom(q, targets, news)
    OBVIOUS
  <2>2. PICK pkts : pkts = news
    OBVIOUS
  <2>3. /\ pkts \in Seq(Cargoes)
        /\ Flows(targets, pkts) /\ FlowsFrom(q, targets, pkts)
        /\ \A u \in 1..Len(pkts) : pkts[u].cmd = "CLIENT_DISCONNECTED"
    BY <2>1, <2>2 DEF Obituaries, Cargoes, Packets
  <2>4. \A u \in 1..Len(pkts), s \in Clients : ~Marks(pkts[u], s)
    BY <2>3 DEF Marks
  <2> SUFFICES ASSUME NEW l \in Links, NEW c \in Clients, Coming(l, c)'
               PROVE  Coming(l, c) /\ ~(l[2] = n /\ c \in cs)
    BY DEF NoMore
  <2>5. Coming(l, c)
    BY <2>3, <2>4, ComingFlows
  <2>6. ASSUME l[2] = n, c \in cs
        PROVE  FALSE
    <3>1. PICK F \in SUBSET Nodes : HaveBeenTold(c, F)
      BY DEF Ending
    <3>2. \A i \in 1..Len(q[l]) : ~IsFrom(q[l][i], c)
      BY <2>6, <3>1, LearnsFacts
    <3>3. PICK i \in 1..Len(queue'[l]) : Marks(queue'[l][i], c)
      BY DEF Coming, Marks
    <3>4. PICK at \in [1..Len(queue'[l]) -> Nat] :
            \A j \in 1..Len(queue'[l]) :
              \/ at[j] \in 1..Len(q[l]) /\ queue'[l][j] = q[l][at[j]]
              \/ \E u \in 1..Len(pkts) : queue'[l][j] = pkts[u]
      BY <2>3, FlowPlaces
    <3>5. at[i] \in 1..Len(q[l]) /\ Marks(q[l][at[i]], c)
      BY <2>4, <3>3, <3>4
    <3>6. IsFrom(q[l][at[i]], c)
      BY <3>5, MarksAre
    <3> QED BY <3>2, <3>5, <3>6
  <2> QED BY <2>5, <2>6
<1> QED BY <1>1, <1>2, <1>5, <1>6 DEF Funeral

\* Somebody is buried somewhere.
Funerals ==
  \E n \in Nodes, cs \in SUBSET Clients : status[n] = "up" /\ Funeral(n, cs)

\* Lemma: whom a DownDataLink and an UpDataLink tell of an end.
LEMMA TargetsCover ==
  ASSUME NEW n, NEW x, NEW g, NEW c, x \in Chain[c]
  PROVE  /\ n # Root => Up(n) \in DownTargets(n, x, g)
         /\ \A y \in secoPPSet[n] : y \notin Chain[c] =>
              Down(y) \in DownTargets(n, x, g)
         /\ \A y \in secoPPSet[n] : Down(y) \in UpTargets(n, g)
BY DEF DownTargets, UpTargets

\* Lemmas: what each kind of burial is.  The end of a client below ...
LEMMA DownGoneFuneral ==
  ASSUME TypeInv, Placed, Outward, Ending, NEW m \in Children, DownGone(m)
  PROVE  Funerals
<1>1. PICK p \in Notes, q \in Queues :
        LET cs == {p.client}
            n == Parent[m]
            targets == DownTargets(n, m, DISCONNECTIONS) IN
        /\ p = queue[Up(m)][1] /\ 1 \in 1..Len(queue[Up(m)])
        /\ p.cmd = "CLIENT_DISCONNECTED"
        /\ q = Taken(Up(m)) /\ Bury(n, q, cs, targets)
        /\ \E news \in Obituaries(cs) :
             Flows(targets, news) /\ FlowsFrom(q, targets, news)
  BY DownGoneTypes
<1>2. PICK n, s, cs, targets :
        /\ n = Parent[m] /\ s = p.client /\ cs = {s}
        /\ targets = DownTargets(n, m, DISCONNECTIONS)
  OBVIOUS
<1>3. /\ p = queue[Up(m)][1] /\ 1 \in 1..Len(queue[Up(m)]) /\ IsEnd(p, s)
      /\ q = Taken(Up(m)) /\ Bury(n, q, cs, targets)
      /\ \E news \in Obituaries(cs) :
           Flows(targets, news) /\ FlowsFrom(q, targets, news)
  BY <1>1, <1>2 DEF IsEnd
<1>4. m \in Ends
  BY ChildEnds
<1>5. /\ Up(m) \in Links /\ n \in Nodes /\ status[n] = "up"
      /\ Up(m)[2] = n /\ queue[Up(m)] # <<>>
  BY <1>2, <1>4, ReadsIs, LinkEnds DEF DownGone
<1>6. s \in Clients /\ Bound(p)
  BY <1>2, <1>3, PacketKinds DEF Bound, IsEnd
<1>7. m \in Chain[s]
  BY <1>2, <1>3, <1>4, <1>6, ReadUpAway
<1>8. \A l \in Links : Thins(q[l], queue[l])
  BY <1>3, <1>5, TypeInvIs, TakenThins
<1>9. Learns(n, q, s)
  BY <1>3, <1>5 DEF Learns
<1>10. cs \in SUBSET Clients /\ \A t \in cs : Learns(n, q, t)
  BY <1>2, <1>6, <1>9
<1>11. ASSUME NEW l \in Links, NEW c \in Clients, l[2] \in Nodes, EndIn(l, c)
       PROVE  Tells(q[l], c) \/ (l[2] = n /\ c \in cs)
  <2>1. CASE l = Up(m) => c # s
    <3>1. l = Up(m) => ~IsEnd(queue[Up(m)][1], c)
      BY <1>2, <1>3, <2>1 DEF IsEnd
    <3> QED BY <1>3, <1>5, <1>11, <3>1, TellsTaken
  <2>2. CASE l = Up(m) /\ c = s
    BY <1>2, <1>5, <2>2
  <2> QED BY <2>1, <2>2
<1>12. \A c \in cs : n # Root /\ n \in Chain[c] => Up(n) \in targets
  BY <1>2, <1>7, TargetsCover
<1>13. \A c \in cs : \A y \in secoPPSet[n] : y \notin Chain[c] => Down(y) \in targets
  BY <1>2, <1>7, TargetsCover
<1>14. Noticed(n, cs)
  BY DEF DownGone, Noticed
<1>15. Funeral(n, cs)
  BY <1>3, <1>5, <1>8, <1>10, <1>11, <1>12, <1>13, <1>14, FuneralIf
<1> QED BY <1>5, <1>10, <1>15 DEF Funerals

\* ... and of a client elsewhere.
LEMMA UpGoneFuneral ==
  ASSUME TypeInv, Placed, Outward, Ending, NEW n \in Children, UpGone(n)
  PROVE  Funerals
<1>1. PICK p \in Notes, q \in Queues :
        LET cs == {p.client}
            targets == UpTargets(n, DISCONNECTIONS) IN
        /\ p = queue[Down(n)][1] /\ 1 \in 1..Len(queue[Down(n)])
        /\ p.cmd = "CLIENT_DISCONNECTED"
        /\ q = Taken(Down(n)) /\ Bury(n, q, cs, targets)
        /\ \E news \in Obituaries(cs) :
             Flows(targets, news) /\ FlowsFrom(q, targets, news)
  BY UpGoneTypes
<1>2. PICK s, cs, targets :
        s = p.client /\ cs = {s} /\ targets = UpTargets(n, DISCONNECTIONS)
  OBVIOUS
<1>3. /\ p = queue[Down(n)][1] /\ 1 \in 1..Len(queue[Down(n)]) /\ IsEnd(p, s)
      /\ q = Taken(Down(n)) /\ Bury(n, q, cs, targets)
      /\ \E news \in Obituaries(cs) :
           Flows(targets, news) /\ FlowsFrom(q, targets, news)
  BY <1>1, <1>2 DEF IsEnd
<1>4. /\ Down(n) \in Links /\ n \in Nodes /\ status[n] = "up"
      /\ Down(n)[2] = n /\ queue[Down(n)] # <<>>
  BY HearsIs, LinkEnds DEF UpGone
<1>5. s \in Clients /\ Bound(p)
  BY <1>2, <1>3, PacketKinds DEF Bound, IsEnd
<1>6. n \notin Chain[s]
  BY <1>2, <1>3, <1>5, ReadDownAway
<1>7. \A l \in Links : Thins(q[l], queue[l])
  BY <1>3, <1>4, TypeInvIs, TakenThins
<1>8. Learns(n, q, s)
  BY <1>3, <1>4 DEF Learns
<1>9. cs \in SUBSET Clients /\ \A t \in cs : Learns(n, q, t)
  BY <1>2, <1>5, <1>8
<1>10. ASSUME NEW l \in Links, NEW c \in Clients, l[2] \in Nodes, EndIn(l, c)
       PROVE  Tells(q[l], c) \/ (l[2] = n /\ c \in cs)
  <2>1. CASE l = Down(n) => c # s
    <3>1. l = Down(n) => ~IsEnd(queue[Down(n)][1], c)
      BY <1>2, <1>3, <2>1 DEF IsEnd
    <3> QED BY <1>3, <1>4, <1>10, <3>1, TellsTaken
  <2>2. CASE l = Down(n) /\ c = s
    BY <1>2, <1>4, <2>2
  <2> QED BY <2>1, <2>2
<1>11. \A c \in cs : n # Root /\ n \in Chain[c] => Up(n) \in targets
  BY <1>2, <1>6
<1>12. \A c \in cs : \A y \in secoPPSet[n] : y \notin Chain[c] => Down(y) \in targets
  BY <1>2 DEF UpTargets
<1>13. Noticed(n, cs)
  BY DEF UpGone, Noticed
<1>14. Funeral(n, cs)
  BY <1>3, <1>4, <1>7, <1>9, <1>10, <1>11, <1>12, <1>13, FuneralIf
<1> QED BY <1>4, <1>9, <1>14 DEF Funerals

\* Lemma: nothing is thinner than an empty queue but itself.
LEMMA ThinsOfNone ==
  ASSUME NEW S, NEW t \in Seq(S), NEW s, s = <<>>, Thins(t, s)
  PROVE  t = <<>>
<1>1. PICK at \in [1..Len(t) -> 1..Len(s)] : TRUE
  BY DEF Thins
<1>2. 1..Len(s) = {}
  OBVIOUS
<1>3. 1..Len(t) = {}
  BY <1>1, <1>2
<1>4. Len(t) = 0
  <2>1. Len(t) \in Nat /\ ~(1 <= Len(t))
    BY <1>3
  <2> QED BY <2>1
<1> QED BY <1>4, EmptySeq

\* Lemma: an empty queue stays empty unless something is sent.
LEMMA EmptyStays ==
  ASSUME NEW q \in Queues, NEW links, NEW pkts, FlowsFrom(q, links, pkts),
         NEW l \in Links, l \notin links, q[l] = <<>>
  PROVE  queue'[l] = <<>>
<1>1. queue'[l] \in Seq(Packets \cup Hellos) /\ Thins(queue'[l], q[l])
  BY DEF FlowsFrom, Queues
<1>2. PICK s, t : s = q[l] /\ t = queue'[l]
  OBVIOUS
<1> QED BY <1>1, <1>2, ThinsOfNone

\* ... of a client of the node itself ...
LEMMA ClientGoneFuneral ==
  ASSUME TypeInv, Placed, Outward, Ending, NEW d \in Clients, ClientGone(d)
  PROVE  Funerals
<1>1. PICK n, cs, targets :
        /\ n = Parent[d] /\ cs = {d}
        /\ targets = DownTargets(n, d, DISCONNECTIONS)
  OBVIOUS
<1>2. PICK q \in Queues :
        /\ q = [queue EXCEPT ![Up(d)] = <<>>] /\ Bury(n, q, cs, targets)
        /\ \E news \in Obituaries(cs) :
             Flows(targets, news) /\ FlowsFrom(q, targets, news)
  BY <1>1, ClientGoneTypes
<1>3. /\ d \in Ends /\ n \in Nodes /\ Up(d) \in Links /\ d \in Chain[d]
      /\ d \notin Nodes /\ d \notin Children
  BY <1>1, ClientEnds, LinksDiffer, ChainRises
<1>4. /\ status[n] = "up" /\ conn'[d] = "gone" /\ status' = status
      /\ \A c \in Clients : c # d => conn'[c] = conn[c]
  BY <1>1, TypeInvIs DEF ClientGone
<1>5. /\ \A l \in Links : Thins(q[l], queue[l])
      /\ \A l \in Links : q[l] = IF l = Up(d) THEN <<>> ELSE queue[l]
  <2>1. queue \in Queues
    BY TypeInvIs
  <2>2. \A l \in Links : Thins(q[l], queue[l])
    BY <1>2, <1>3, <2>1, EmptiedThins
  <2>3. \A l \in Links : q[l] = IF l = Up(d) THEN <<>> ELSE queue[l]
    BY <1>2, <1>3, <2>1, EmptiedIs
  <2> QED BY <2>2, <2>3
<1>6. Learns(n, q, d)
  BY <1>1, <1>2, <1>3, <1>4 DEF Learns
<1>7. cs \in SUBSET Clients /\ \A t \in cs : Learns(n, q, t)
  BY <1>1, <1>6
<1>8. ASSUME NEW l \in Links, NEW c \in Clients, l[2] \in Nodes, EndIn(l, c)
      PROVE  Tells(q[l], c) \/ (l[2] = n /\ c \in cs)
  <2>1. CASE l = Up(d)
    <3>1. Away(l, c) /\ l[2] = n
      BY <1>1, <1>8, <2>1, ComingAway, LinkEnds
    <3>2. d \in Chain[c]
      BY <1>3, <2>1, <3>1 DEF Away
    <3>3. d = c
      BY <1>3, <3>2, ChainNodes
    <3> QED BY <1>1, <3>1, <3>3
  <2>2. CASE l # Up(d)
    BY <1>5, <1>8, <2>2 DEF EndIn
  <2> QED BY <2>1, <2>2
<1>9. \A c \in cs : n # Root /\ n \in Chain[c] => Up(n) \in targets
  BY <1>1, <1>3, TargetsCover
<1>10. \A c \in cs : \A y \in secoPPSet[n] : y \notin Chain[c] => Down(y) \in targets
  BY <1>1, <1>3, TargetsCover
<1>11. queue'[Up(d)] = <<>>
  <2>1. Up(d) \notin targets
    BY <1>1, <1>3, DownTargetsFrom, LinkEnds
  <2>2. PICK news : FlowsFrom(q, targets, news)
    BY <1>2
  <2>3. PICK l \in Links : l = Up(d)
    BY <1>3
  <2>4. queue'[l] = <<>>
    BY <1>5, <2>1, <2>2, <2>3, EmptyStays
  <2> QED BY <2>3, <2>4
<1>12. Noticed(n, cs)
  BY <1>1, <1>4, <1>11 DEF Noticed
<1>13. Funeral(n, cs)
  BY <1>2, <1>3, <1>5, <1>7, <1>8, <1>9, <1>10, <1>12, FuneralIf
<1> QED BY <1>3, <1>4, <1>7, <1>13 DEF Funerals

\* ... and of all those of a child node.
LEMMA NodeGoneFuneral ==
  ASSUME TypeInv, Placed, Outward, Ending, Listed, NEW m \in Children, NodeGone(m)
  PROVE  Funerals
<1>1. PICK n, targets :
        n = Parent[m] /\ targets = DownTargets(n, m, DISCONNECTIONS)
  OBVIOUS
<1>2. PICK q \in Queues, cs \in SUBSET Clients :
        /\ cs = myClients[m]
        /\ q = [queue EXCEPT ![Up(m)] = <<>>] /\ Bury(n, q, cs, targets)
        /\ \E news \in Obituaries(cs) :
             Flows(targets, news) /\ FlowsFrom(q, targets, news)
  BY <1>1, NodeGoneTypes
<1>3. m \in Ends /\ n \in Nodes /\ Up(m) \in Links /\ m \notin Clients
  BY <1>1, ChildEnds, LinksDiffer
<1>4. /\ status[n] = "up" /\ status[m] = "down" /\ status'[m] = "gone"
      /\ \A y \in Nodes : y # m => status'[y] = status[y]
      /\ conn' = conn
  BY <1>1, ChildEnds, TypeInvIs DEF NodeGone
<1>5. \A s \in cs : s \in Clients /\ m \in Chain[s]
  BY <1>2 DEF Placed
<1>6. /\ \A l \in Links : Thins(q[l], queue[l])
      /\ \A l \in Links : q[l] = IF l = Up(m) THEN <<>> ELSE queue[l]
  <2>1. queue \in Queues
    BY TypeInvIs
  <2>2. \A l \in Links : Thins(q[l], queue[l])
    BY <1>2, <1>3, <2>1, EmptiedThins
  <2>3. \A l \in Links : q[l] = IF l = Up(m) THEN <<>> ELSE queue[l]
    BY <1>2, <1>3, <2>1, EmptiedIs
  <2> QED BY <2>2, <2>3
<1>7. \A s \in cs : Learns(n, q, s)
  <2> SUFFICES ASSUME NEW s \in cs
               PROVE  Learns(n, q, s)
    OBVIOUS
  <2>1. m \in Chain[s] /\ m # s /\ Parent[m] = n /\ Dead(m)
    BY <1>1, <1>3, <1>4, <1>5 DEF Dead
  <2> QED BY <1>2, <2>1 DEF Learns
<1>8. ASSUME NEW l \in Links, NEW c \in Clients, l[2] \in Nodes, EndIn(l, c)
      PROVE  Tells(q[l], c) \/ (l[2] = n /\ c \in cs)
  <2>1. CASE l = Up(m)
    <3>1. Away(l, c) /\ l[2] = n /\ conn[c] # "off"
      BY <1>1, <1>8, <2>1, ComingAway, LinkEnds
    <3>2. m \in Chain[c]
      BY <1>3, <2>1, <3>1 DEF Away
    <3>3. c \in cs
      BY <1>2, <3>1, <3>2 DEF Listed
    <3> QED BY <3>1, <3>3
  <2>2. CASE l # Up(m)
    BY <1>6, <1>8, <2>2 DEF EndIn
  <2> QED BY <2>1, <2>2
<1>9. \A c \in cs : n # Root /\ n \in Chain[c] => Up(n) \in targets
  BY <1>1, <1>5, TargetsCover
<1>10. \A c \in cs : \A y \in secoPPSet[n] : y \notin Chain[c] => Down(y) \in targets
  BY <1>1, <1>5, TargetsCover
<1>11. Noticed(n, cs)
  <2>1. \A c \in Clients : m \in Chain[c] /\ conn[c] # "off" => c \in cs
    BY <1>2 DEF Listed
  <2> QED BY <1>1, <1>4, <2>1 DEF Noticed
<1>12. Funeral(n, cs)
  BY <1>2, <1>3, <1>6, <1>7, <1>8, <1>9, <1>10, <1>11, FuneralIf
<1> QED BY <1>2, <1>3, <1>4, <1>12 DEF Funerals

\* Lemma: and so, of every burial.
LEMMA BurialIs ==
  ASSUME TypeInv, Placed, Outward, Ending, Listed, Burial
  PROVE  Funerals
BY DownGoneFuneral, UpGoneFuneral, ClientGoneFuneral, NodeGoneFuneral DEF Burial

----------------------------------------------------------------------------
(* What every step keeps of the tables and of the links of the clients *)

\* Lemma: nothing is sent to a node by a client that is not there.
LEMMA UpEmptyStays ==
  ASSUME TypeInv, KindsOfSteps, NEW c \in Clients, conn[c] # "on",
         queue[Up(c)] = <<>>
  PROVE  queue'[Up(c)] = <<>>
<1>0. c \in Ends /\ c \notin Nodes /\ queue \in Queues
  BY ClientEnds, TypeInvIs
<1>1. PICK l \in Links : l = Up(c)
  BY <1>0, LinksDiffer
<1>2. l[1] = c /\ queue[l] = <<>>
  BY <1>1, LinkEnds
<1>3. ASSUME NEW links, NEW pkts, Flows(links, pkts), l \notin links
      PROVE  queue'[l] = <<>>
  BY <1>0, <1>2, <1>3, FlowsIs, EmptyStays
<1>4. CASE Quietly
  <2>1. PICK links : \E pkts \in Seq(Packets) : Flows(links, pkts) /\ Own(links)
    BY <1>4 DEF Quietly
  <2>2. l \notin links
    BY <1>0, <1>2, <2>1 DEF Own
  <2> QED BY <1>1, <1>3, <2>1, <2>2
<1>5. CASE SendsHistory
  <2>1. PICK d \in Clients : \E pkts \in Seq(Packets) : Flows({Down(d)}, pkts)
    BY <1>5 DEF SendsHistory
  <2>2. l \notin {Down(d)}
    BY <1>0, <1>1, ClientEnds, LinksDiffer
  <2> QED BY <1>1, <1>3, <2>1, <2>2
<1>6. CASE Synchronizes
  <2>1. PICK m \in Children : synchronizeNewSeCo(m)
    BY <1>6 DEF Synchronizes
  <2>2. Flows({Down(m)}, getAllMsgs(Parent[m]))
    BY <2>1, SynchronizeTypes
  <2>3. l \notin {Down(m)}
    BY <1>0, <1>1, ChildEnds, LinksDiffer
  <2> QED BY <1>1, <1>3, <2>2, <2>3
<1>7. CASE Sends
  <2>1. PICK d \in Clients, p \in Msgs : conn[d] = "on" /\ Flows({Up(d)}, <<p>>)
    BY <1>7 DEF Sends
  <2>2. l \notin {Up(d)}
    BY <1>0, <1>1, <2>1, ClientEnds, LinksDiffer
  <2> QED BY <1>1, <1>3, <2>1, <2>2
<1>8. CASE Routes
  <2>1. PICK n \in Nodes, p \in Msgs : \E targets :
          Flows(targets, <<p>>) /\ \A t \in targets : t[1] = n
    BY <1>8, ZenonT(60) DEF Routes
  <2> QED BY <1>0, <1>2, <1>1, <1>3, <2>1
<1>9. CASE Buries
  <2>1. PICK n \in Nodes : \E targets : \E news :
          Flows(targets, news) /\ \A t \in targets : t[1] = n
    BY <1>9 DEF Buries
  <2> QED BY <1>0, <1>2, <1>1, <1>3, <2>1
<1>10. CASE Receives
  <2>1. PICK d \in Clients : ClientReceive(d)
    BY <1>10 DEF Receives
  <2>2. Flows({}, <<>>)
    BY <2>1, ClientReceiveTypes
  <2> QED BY <1>1, <1>3, <2>2
<1>11. CASE Starts
  <2>1. PICK m \in Children : NodeStart(m)
    BY <1>11 DEF Starts
  <2>2. PICK hello : Flows({Up(m)}, <<hello>>)
    BY <2>1, NodeStartFlows
  <2>3. l \notin {Up(m)}
    BY <1>0, <1>1, <2>1, ClientEnds, ChildEnds, LinksDiffer
  <2> QED BY <1>1, <1>3, <2>2, <2>3
<1> QED BY <1>1, <1>4, <1>5, <1>6, <1>7, <1>8, <1>9, <1>10, <1>11
        DEF KindsOfSteps, OtherKinds

\* Lemma: Quit is kept.
LEMMA QuitStep ==
  ASSUME TypeInv, Placed, Outward, Ending, Listed, Quit, KindsOfSteps,
         [Next]_vars
  PROVE  Quit'
<1> SUFFICES ASSUME NEW c \in Clients, ~Here(c)'
             PROVE  queue'[Up(c)] = <<>>
  BY DEF Quit
<1>1. CASE ~Here(c)
  BY <1>1, UpEmptyStays DEF Quit, Here
<1>2. CASE Here(c)
  <2>1. conn'[c] # conn[c] /\ conn'[c] \notin {"on", "closed"}
    BY <1>2 DEF Here
  <2>2. CASE Plain
    BY <2>1, <2>2 DEF Plain
  <2>3. CASE Burial
    <3>1. PICK n \in Nodes, cs \in SUBSET Clients : Funeral(n, cs)
      BY <2>3, BurialIs DEF Funerals
    <3> QED BY <2>1, <3>1 DEF Funeral, Noticed
  <2>4. ASSUME NEW d \in Clients, Connect(d)
        PROVE  FALSE
    BY <2>1, <2>4, ConnectIs
  <2>5. ASSUME NEW d \in Clients, Disconnect(d)
        PROVE  FALSE
    BY <2>1, <2>5, TypeInvIs DEF Disconnect
  <2>6. ASSUME NEW m \in Children, NodeStart(m)
        PROVE  FALSE
    BY <2>1, <2>6 DEF NodeStart
  <2>7. ASSUME NEW m \in Children, Ended(m)
        PROVE  queue'[Up(c)] = <<>>
    <3>1. Parent[c] = m
      BY <2>1, <2>7 DEF Ended
    <3>2. Up(c) \in Links /\ Up(c)[2] = m /\ Up(c) # Up(m)
      BY <3>1, ClientEnds, ChildEnds, LinksDiffer, LinkEnds
    <3> QED BY <2>7, <3>2 DEF Ended
  <2> QED BY <2>2, <2>3, <2>4, <2>5, <2>6, <2>7, PlainStep
<1> QED BY <1>1, <1>2

\* Lemma: Home is kept.
LEMMA HomeStep ==
  ASSUME TypeInv, Placed, Outward, Ending, Listed, Quit, Home, Onward,
         [Next]_vars
  PROVE  Home'
<1> SUFFICES ASSUME NEW n \in Nodes, NEW c \in Clients, ~Dead(n)',
                    c \in local'[n] \/ \E g \in AllGroups : c \in members'[n][g]
             PROVE  Parent[c] = n /\ Here(c)'
  BY DEF Home
<1>0. ~Dead(n)
  BY DEF Dead, Onward
<1>1. CASE Plain
  <2>1. local' = local /\ conn' = conn
    BY <1>1 DEF Plain
  <2>2. Parent[c] = n /\ Here(c)
    <3>1. CASE c \in local[n]
      BY <1>0, <3>1 DEF Home
    <3>2. CASE c \notin local[n]
      <4>1. PICK g \in AllGroups : c \in members'[n][g]
        BY <2>1, <3>2
      <4>2. c \in members[n][g] \/ (Parent[c] = n /\ Here(c))
        BY <1>1, <3>2, <4>1 DEF Plain, MembersJoin
      <4> QED BY <1>0, <4>2 DEF Home
    <3> QED BY <3>1, <3>2
  <2> QED BY <2>1, <2>2 DEF Here
<1>2. CASE Burial
  <2>1. PICK N \in Nodes, cs \in SUBSET Clients : Funeral(N, cs)
    BY <1>2, BurialIs DEF Funerals
  <2>2. /\ local'[n] = IF n = N THEN local[n] \ cs ELSE local[n]
        /\ \A g \in AllGroups :
             members'[n][g] = IF n = N THEN members[n][g] \ cs ELSE members[n][g]
    BY <2>1 DEF Funeral, Cleaned
  <2>3. /\ c \in local[n] \/ \E g \in AllGroups : c \in members[n][g]
        /\ ~(n = N /\ c \in cs)
    BY <2>2
  <2>4. Parent[c] = n /\ Here(c)
    BY <1>0, <2>3 DEF Home
  <2>5. conn'[c] = conn[c] \/ (cs = {c} /\ Parent[c] = N)
    BY <2>1 DEF Funeral, Noticed
  <2> QED BY <2>3, <2>4, <2>5 DEF Here
<1>3. ASSUME NEW d \in Clients, Connect(d)
      PROVE  Parent[c] = n /\ Here(c)'
  <2>1. /\ conn'[d] = "on" /\ \A e \in Clients : e # d => conn'[e] = conn[e]
        /\ local'[n] \subseteq local[n] \cup (IF Parent[d] = n THEN {d} ELSE {})
        /\ members' = members
    BY <1>3, ConnectIs
  <2>2. (c = d /\ Parent[c] = n) \/ (Parent[c] = n /\ Here(c))
    BY <1>0, <2>1 DEF Home
  <2> QED BY <2>1, <2>2 DEF Here
<1>4. ASSUME NEW d \in Clients, Disconnect(d)
      PROVE  Parent[c] = n /\ Here(c)'
  <2>1. Parent[c] = n /\ Here(c)
    BY <1>0, <1>4 DEF Home, Disconnect, tables
  <2> QED BY <1>4, <2>1, TypeInvIs DEF Disconnect, Here
<1>5. ASSUME NEW m \in Children, NodeStart(m)
      PROVE  Parent[c] = n /\ Here(c)'
  BY <1>0, <1>5 DEF Home, NodeStart, tables, Here
<1>6. ASSUME NEW m \in Children, Ended(m), status[m] = "up"
      PROVE  Parent[c] = n /\ Here(c)'
  <2>1. Parent[c] = n /\ Here(c)
    BY <1>0, <1>6 DEF Home, Ended, tables
  <2>2. n # m
    BY <1>6, TypeInvIs, ChildEnds DEF Ended, Dead
  <2>3. conn'[c] = conn[c]
    BY <1>6, <2>1, <2>2 DEF Ended
  <2> QED BY <2>1, <2>3 DEF Here
<1> QED BY <1>1, <1>2, <1>3, <1>4, <1>5, <1>6, PlainStep

\* Lemma: who is there has been there, or connects.
LEMMA WhoComes ==
  ASSUME TypeInv, Placed, Quit, [Next]_vars, NEW c \in Clients, conn'[c] # "off"
  PROVE  conn[c] # "off" \/ Connect(c)
<1>1. CASE Plain
  BY <1>1 DEF Plain
<1>2. CASE Burial
  <2>1. ASSUME NEW d \in Clients, ClientGone(d)
        PROVE  conn[c] # "off"
    BY <2>1, TypeInvIs DEF ClientGone
  <2>2. ASSUME NEW m \in Children, DownGone(m) \/ UpGone(m) \/ NodeGone(m)
        PROVE  conn[c] # "off"
    BY <2>2 DEF DownGone, UpGone, NodeGone
  <2> QED BY <1>2, <2>1, <2>2 DEF Burial
<1>3. ASSUME NEW d \in Clients, Connect(d)
      PROVE  conn[c] # "off" \/ Connect(c)
  BY <1>3, ConnectIs
<1>4. ASSUME NEW d \in Clients, Disconnect(d)
      PROVE  conn[c] # "off"
  BY <1>4, TypeInvIs DEF Disconnect
<1>5. ASSUME NEW m \in Children, NodeStart(m)
      PROVE  conn[c] # "off"
  BY <1>5 DEF NodeStart
<1>6. ASSUME NEW m \in Children, Ended(m)
      PROVE  conn[c] # "off"
  BY <1>6 DEF Ended
<1> QED BY <1>1, <1>2, <1>3, <1>4, <1>5, <1>6, PlainStep

\* Lemma: Listed is kept.
LEMMA ListedStep ==
  ASSUME TypeInv, Placed, Outward, Ending, Quit, Listed, [Next]_vars
  PROVE  Listed'
<1> SUFFICES ASSUME NEW c \in Clients, conn'[c] # "off", NEW m \in Children,
                    m \in Chain[c]
             PROVE  c \in myClients'[m]
  BY DEF Listed
<1>1. CASE Connect(c)
  BY <1>1, ConnectIs
<1>2. CASE conn[c] # "off"
  <2>1. c \in myClients[m]
    BY <1>2 DEF Listed
  <2>2. CASE Burial
    <3>1. PICK n \in Nodes, cs \in SUBSET Clients : Funeral(n, cs)
      BY <2>2, BurialIs DEF Funerals
    <3> QED BY <2>1, <3>1 DEF Funeral
  <2>3. ASSUME NEW d \in Clients, Connect(d)
        PROVE  c \in myClients'[m]
    BY <2>1, <2>3, ConnectIs
  <2> QED BY <2>1, <2>2, <2>3, RoutesStep
<1> QED BY <1>1, <1>2, WhoComes

\* Lemma: Routed and RootOn are kept.
LEMMA RoutedStep ==
  ASSUME TypeInv, TypeInv', Placed, Outward, Ending, Quit, Listed, Routed,
         Onward, [Next]_vars
  PROVE  Routed'
<1> SUFFICES ASSUME NEW n \in Nodes, NEW c \in routes'[n]
             PROVE  conn'[c] # "off"
  BY DEF Routed
<1>0. c \in Clients
  <2>1. routes' \in [Nodes -> SUBSET Clients]
    BY DEF TypeInv, TypeOK
  <2> QED BY <2>1
<1>1. CASE c \in routes[n]
  BY <1>0, <1>1 DEF Routed, Onward
<1>2. CASE c \notin routes[n]
  <2>1. CASE Burial
    <3>1. PICK N \in Nodes, cs \in SUBSET Clients : Funeral(N, cs)
      BY <2>1, BurialIs DEF Funerals
    <3> QED BY <1>2, <3>1 DEF Funeral, Cleaned
  <2>2. ASSUME NEW d \in Clients, Connect(d)
        PROVE  conn'[c] # "off"
    BY <1>2, <2>2, ConnectIs
  <2> QED BY <1>2, <2>1, <2>2, RoutesStep
<1> QED BY <1>1, <1>2

\* Lemma: a child node that has said hello stays one.
LEMMA GreetedStays ==
  ASSUME TypeInv, KindsOfSteps, NEW n \in Nodes
  PROVE  secoPPSet[n] \subseteq secoPPSet'[n]
<1>1. CASE secoPPSet' = secoPPSet
  BY <1>1
<1>2. CASE Synchronizes
  <2>1. PICK m \in Children : synchronizeNewSeCo(m)
    BY <1>2 DEF Synchronizes
  <2>2. PICK k : k = Parent[m] /\ secoPPSet' = [secoPPSet EXCEPT ![k] = @ \cup {m}]
    BY <2>1 DEF synchronizeNewSeCo
  <2> QED BY <2>2, TypeInvIs
<1>3. Quietly \/ SendsHistory \/ Sends \/ Routes \/ Buries \/ Receives \/ Starts
        => secoPPSet' = secoPPSet
  <2>1. Quietly \/ SendsHistory \/ Sends \/ Routes \/ Buries
          => secoPPSet' = secoPPSet
    BY DEF Quietly, SendsHistory, Sends, Routes, Buries, same
  <2>2. Receives => secoPPSet' = secoPPSet
    BY DEF Receives, ClientReceive, tables
  <2>3. Starts => secoPPSet' = secoPPSet
    BY DEF Starts, NodeStart, tables
  <2> QED BY <2>1, <2>2, <2>3
<1> QED BY <1>1, <1>2, <1>3 DEF KindsOfSteps, OtherKinds

\* Lemma: the link over which the messages of a client come to a node below
\* that it has not connected through.
LEMMA ComesDown ==
  ASSUME TypeInv, Outward, NEW c \in Clients, NEW m \in Children, m \notin Chain[c],
         NEW l \in Links, l[2] = m, Coming(l, c)
  PROVE  l = Down(m)
<1>1. m \in Ends /\ m \in Nodes /\ Down(m) \in Links /\ Down(m)[2] = m
  BY ChildEnds, LinksDiffer, LinkEnds
<1>2. Away(Down(m), c) /\ Away(l, c)
  BY <1>1, DownChildAway, ComingAway
<1>3. PICK k \in Links : k = Down(m)
  BY <1>1
<1> QED BY <1>1, <1>2, <1>3, OneLinkAway

\* Lemma: Fresh is kept.
LEMMA FreshStep ==
  ASSUME TypeInv, Placed, HelloFirst, Outward, Fresh, KindsOfSteps
  PROVE  Fresh'
<1> SUFFICES ASSUME NEW m \in Children, m \notin secoPPSet'[Parent[m]],
                    NEW c \in Clients
             PROVE  ~HasHistory(m, c)' /\ ~Coming(Down(m), c)'
  BY DEF Fresh
<1>0. m \in Nodes /\ m \in Ends /\ Parent[m] \in Nodes
  BY ChildEnds
<1>1. m \notin secoPPSet[Parent[m]]
  BY <1>0, GreetedStays
<1>2. ~HasHistory(m, c) /\ ~Coming(Down(m), c)
  BY <1>1 DEF Fresh
<1>3. ASSUME HasHistory(m, c)'
      PROVE  FALSE
  <2>1. PICK l \in Links : l[2] = m /\ Coming(l, c)
    BY <1>0, <1>2, <1>3, HistoryGrows
  <2>2. conn[c] # "off"
    BY <2>1, ComingAway
  <2>3. m \notin Chain[c]
    BY <1>1, <2>2, NothingWhenOff
  <2> QED BY <1>2, <2>1, <2>3, ComesDown
<1>4. ASSUME Coming(Down(m), c)'
      PROVE  FALSE
  <2>1. PICK l \in Links : l = Down(m)
    BY <1>0, LinksDiffer
  <2>2. l[2] \in Nodes /\ l # Up(c)
    BY <1>0, <2>1, LinkEnds, LinksDiffer, ClientEnds
  <2>3. Coming(l, c)'
    BY <1>4, <2>1
  <2> QED BY <1>1, <1>2, <2>1, <2>2, <2>3, ComingGrows
<1> QED BY <1>3, <1>4

----------------------------------------------------------------------------
(* Above and Beside: the steps that bury nobody *)

\* Lemma: a node that knows of a client goes on doing so.
LEMMA MarkedStays ==
  ASSUME TypeInv, OtherKinds, NEW n \in Nodes, NEW c \in Clients,
         c \in routes[n] => c \in routes'[n], Marked(n, c)
  PROVE  Marked(n, c)'
<1>1. CASE c \in routes[n]
  BY <1>1 DEF Marked
<1>2. CASE HasHistory(n, c)
  BY <1>2, HistoryStays DEF Marked
<1> QED BY <1>1, <1>2 DEF Marked

\* Lemma: Above stays for a client whose routes stay.
LEMMA AboveStays ==
  ASSUME TypeInv, Placed, HelloFirst, Outward, Onward, Above, Steady, OtherKinds,
         NEW c \in Clients, \A n \in Nodes : c \in routes'[n] <=> c \in routes[n],
         NEW x \in Chain[c], ~Dead(Parent[x])',
         Marked(Parent[x], c)' \/ Coming(Up(x), c)'
  PROVE  IF x = c THEN Here(c)'
         ELSE (~Dead(x)' /\ Marked(x, c)') \/ EndIn(Up(x), c)' \/ status'[x] = "down"
<1>0. /\ c \in Ends /\ x \in Ends /\ (x # c => x \in Children /\ x \in Nodes)
      /\ KindsOfSteps
  BY ClientEnds, ChainRises, ChainNodes, ChildEnds DEF KindsOfSteps
<1>1. PICK p \in Nodes, l \in Links : p = Parent[x] /\ l = Up(x)
  BY <1>0, TreeAssumption, LinksDiffer
<1>2. l[1] = x /\ l[2] = p /\ Away(l, c)
  BY <1>0, <1>1, LinkEnds, UpAway
<1>3. ~Dead(p)' /\ ~Dead(p) /\ (Marked(p, c)' \/ Coming(l, c)')
  BY <1>1 DEF Dead, Onward
<1>4. ASSUME Marked(p, c) \/ Coming(l, c)
      PROVE  IF x = c THEN Here(c)'
             ELSE (~Dead(x)' /\ Marked(x, c)') \/ EndIn(l, c)' \/ status'[x] = "down"
  <2>1. IF x = c THEN Here(c)
        ELSE (~Dead(x) /\ Marked(x, c)) \/ EndIn(l, c) \/ status[x] = "down"
    BY <1>1, <1>3, <1>4 DEF Above
  <2>2. CASE x = c
    BY <1>1, <1>3, <2>1, <2>2 DEF Steady
  <2>3. CASE x # c /\ ~Dead(x) /\ Marked(x, c)
    <3>1. Marked(x, c)'
      BY <1>0, <2>3, MarkedStays
    <3>2. ~Dead(x)' \/ status'[x] = "down"
      BY <1>0, <2>3 DEF Steady
    <3> QED BY <2>3, <3>1, <3>2
  <2>4. CASE x # c /\ EndIn(l, c)
    <3>1. l[2] \in Nodes /\ ~Dead(l[2])' /\ l = Up(l[1])
      BY <1>1, <1>2, <1>3
    <3> QED BY <2>4, <3>1 DEF Steady
  <2>5. CASE x # c /\ status[x] = "down"
    BY <1>0, <2>5 DEF Steady
  <2> QED BY <2>1, <2>2, <2>3, <2>4, <2>5
<1>5. CASE Marked(p, c)'
  <2>1. CASE c \in routes[p]
    BY <1>1, <1>4, <2>1 DEF Marked
  <2>2. CASE HasHistory(p, c)
    BY <1>1, <1>4, <2>2 DEF Marked
  <2>3. CASE \E k \in Links : k[2] = p /\ Coming(k, c)
    <3>1. PICK k \in Links : k[2] = p /\ Coming(k, c)
      BY <2>3
    <3>2. Away(k, c)
      BY <3>1, ComingAway
    <3>3. k = l
      BY <1>2, <3>1, <3>2, OneLinkAway
    <3> QED BY <1>1, <1>4, <3>1, <3>3
  <2>4. c \in routes'[p] \/ HasHistory(p, c)'
    BY <1>5 DEF Marked
  <2>5. HasHistory(p, c)' =>
          HasHistory(p, c) \/ \E k \in Links : k[2] = p /\ Coming(k, c)
    BY <1>0, HistoryGrows
  <2> QED BY <2>1, <2>2, <2>3, <2>4, <2>5
<1>6. CASE Coming(l, c)'
  <2>1. CASE Coming(l, c)
    BY <1>1, <1>4, <2>1
  <2>2. CASE l = Up(c) /\ conn[c] = "on"
    <3>1. x = c
      BY <1>0, <1>1, <2>2, LinksDiffer
    <3>2. Here(c)
      BY <2>2 DEF Here
    <3> QED BY <1>1, <1>3, <3>1, <3>2 DEF Steady
  <2>3. CASE l[1] \in Nodes /\ status[l[1]] = "up" /\ HasHistory(l[1], c)'
    <3>1. x # c /\ x \in Nodes /\ status[x] = "up" /\ HasHistory(x, c)'
      BY <1>2, <2>3, ClientEnds
    <3>2. ~Dead(x)' \/ status'[x] = "down"
      BY <3>1 DEF Steady, Dead
    <3> QED BY <3>1, <3>2 DEF Marked
  <2> QED BY <1>0, <1>2, <1>6, <2>1, <2>2, <2>3, ComingGrows
<1> QED BY <1>3, <1>5, <1>6

\* Lemma: and so does Beside.
LEMMA BesideStays ==
  ASSUME TypeInv, Placed, HelloFirst, Outward, Onward, Beside, Steady, OtherKinds,
         NEW c \in Clients, \A n \in Nodes : c \in routes'[n] <=> c \in routes[n],
         NEW m \in Children, m \notin Chain[c], ~Dead(m)',
         Marked(m, c)' \/ Coming(Down(m), c)'
  PROVE  Marked(Parent[m], c)' \/ EndIn(Down(m), c)' \/ Dead(Parent[m])'
<1>0. c \in Ends /\ m \in Ends /\ m \in Nodes /\ KindsOfSteps
  BY ClientEnds, ChildEnds DEF KindsOfSteps
<1>1. PICK p \in Nodes, l \in Links : p = Parent[m] /\ l = Down(m)
  BY <1>0, TreeAssumption, LinksDiffer
<1>2. l[1] = p /\ l[2] = m
  BY <1>0, <1>1, LinkEnds
<1>3. ~Dead(m) /\ (Marked(m, c)' \/ Coming(l, c)')
  BY <1>0, <1>1 DEF Dead, Onward
<1>4. ASSUME Marked(m, c) \/ Coming(l, c)
      PROVE  Marked(p, c)' \/ EndIn(l, c)' \/ Dead(p)'
  <2>1. Marked(p, c) \/ EndIn(l, c) \/ Dead(p)
    BY <1>1, <1>3, <1>4 DEF Beside
  <2>2. CASE Marked(p, c)
    BY <2>2, MarkedStays
  <2>3. CASE EndIn(l, c)
    BY <1>0, <1>2, <2>3 DEF Steady
  <2>4. CASE Dead(p)
    BY <2>4 DEF Onward, Dead
  <2> QED BY <2>1, <2>2, <2>3, <2>4
<1>5. CASE Marked(m, c)'
  <2>1. CASE c \in routes[m]
    BY <1>1, <1>4, <2>1 DEF Marked
  <2>2. CASE HasHistory(m, c)
    BY <1>1, <1>4, <2>2 DEF Marked
  <2>3. CASE \E k \in Links : k[2] = m /\ Coming(k, c)
    <3>1. PICK k \in Links : k[2] = m /\ Coming(k, c)
      BY <2>3
    <3>2. k = l
      BY <1>1, <3>1, ComesDown
    <3> QED BY <1>1, <1>4, <3>1, <3>2
  <2>4. c \in routes'[m] \/ HasHistory(m, c)'
    BY <1>5 DEF Marked
  <2>5. HasHistory(m, c)' =>
          HasHistory(m, c) \/ \E k \in Links : k[2] = m /\ Coming(k, c)
    BY <1>0, HistoryGrows
  <2> QED BY <1>0, <2>1, <2>2, <2>3, <2>4, <2>5
<1>6. CASE Coming(l, c)'
  <2>1. CASE Coming(l, c)
    BY <1>1, <1>4, <2>1
  <2>2. CASE HasHistory(l[1], c)'
    BY <1>1, <1>2, <2>2 DEF Marked
  <2>3. l # Up(c)
    BY <1>0, <1>1, LinksDiffer
  <2> QED BY <1>0, <1>2, <1>6, <2>1, <2>2, <2>3, ComingGrows
<1> QED BY <1>3, <1>5, <1>6

\* Lemma: a client that connects is known to every node above it and to no
\* other.
LEMMA ConnectMarks ==
  ASSUME TypeInv, Outward, Routed, NEW c \in Clients, Connect(c)
  PROVE  /\ Here(c)'
         /\ \A x \in Chain[c] : x # c => ~Dead(x)' /\ Marked(x, c)'
         /\ \A m \in Children : m \notin Chain[c] =>
              ~Marked(m, c)' /\ ~Coming(Down(m), c)'
<1>0. c \in Ends
  BY ClientEnds
<1>1. /\ conn[c] = "off" /\ conn'[c] = "on" /\ Attached(c)
      /\ status' = status /\ queue' = queue /\ history' = history
      /\ \A n \in Nodes : routes'[n] = routes[n] \cup
              (IF \E x \in Chain[c] : Parent[x] = n THEN {c} ELSE {})
  BY ConnectIs
<1>2. Here(c)'
  BY <1>1 DEF Here
<1>3. ASSUME NEW x \in Chain[c], x # c
      PROVE  ~Dead(x)' /\ Marked(x, c)'
  <2>1. x \in Children /\ x \in Nodes
    BY <1>3, ChainNodes, ChildEnds
  <2>2. \E z \in Chain[c] : Parent[z] = x
    BY <1>0, <1>3, ChainBelow
  <2>3. c \in routes'[x]
    BY <1>1, <2>1, <2>2
  <2>4. status[x] = "up"
    BY <1>1, <1>3 DEF Attached
  <2> QED BY <1>1, <2>3, <2>4 DEF Marked, Dead
<1>4. ASSUME NEW m \in Children, m \notin Chain[c]
      PROVE  ~Marked(m, c)' /\ ~Coming(Down(m), c)'
  <2>1. m \in Nodes /\ m # Root
    BY ChildEnds
  <2>2. ~Marked(m, c)
    BY <1>1, <2>1, MarkedOn
  <2>3. ~ \E x \in Chain[c] : Parent[x] = m
    BY <1>0, <1>4, <2>1, ChainRises
  <2>4. ~Marked(m, c)'
    BY <1>1, <2>1, <2>2, <2>3 DEF Marked, HasHistory
  <2>5. PICK l \in Links : l = Down(m)
    BY ChildEnds, LinksDiffer
  <2>6. ~Coming(l, c)
    BY <1>1, ComingAway
  <2>7. ~Coming(l, c)'
    BY <1>1, <2>6 DEF Coming
  <2> QED BY <2>4, <2>5, <2>7
<1> QED BY <1>2, <1>3, <1>4

\* Lemma: Above and Beside are kept by the steps that bury nobody.
LEMMA StepsStay ==
  ASSUME TypeInv, Placed, HelloFirst, Outward, Onward, Quit, Routed, Above, Beside,
         Steady, OtherKinds, ~Burial, [Next]_vars
  PROVE  Above' /\ Beside'
<1>1. ASSUME NEW c \in Clients
      PROVE  (\A n \in Nodes : c \in routes'[n] <=> c \in routes[n]) \/ Connect(c)
  <2>1. CASE routes' = routes
    BY <2>1
  <2>2. ASSUME NEW d \in Clients, Connect(d), d # c
        PROVE  \A n \in Nodes : c \in routes'[n] <=> c \in routes[n]
    BY <2>2, ConnectIs
  <2> QED BY <2>1, <2>2, RoutesStep
<1>2. Above'
  <2> SUFFICES ASSUME NEW c \in Clients, NEW x \in Chain[c], ~Dead(Parent[x])',
                      Marked(Parent[x], c)' \/ Coming(Up(x), c)'
               PROVE  IF x = c THEN Here(c)'
                      ELSE \/ ~Dead(x)' /\ Marked(x, c)'
                           \/ EndIn(Up(x), c)' \/ status'[x] = "down"
    BY DEF Above
  <2>1. CASE Connect(c)
    BY <2>1, ConnectMarks
  <2>2. CASE ~Connect(c)
    BY <1>1, <2>2, AboveStays
  <2> QED BY <2>1, <2>2
<1>3. Beside'
  <2> SUFFICES ASSUME NEW c \in Clients, NEW m \in Children, m \notin Chain[c],
                      ~Dead(m)', Marked(m, c)' \/ Coming(Down(m), c)'
               PROVE  Marked(Parent[m], c)' \/ EndIn(Down(m), c)' \/ Dead(Parent[m])'
    BY DEF Beside
  <2>1. CASE Connect(c)
    BY <2>1, ConnectMarks
  <2>2. CASE ~Connect(c)
    BY <1>1, <2>2, BesideStays
  <2> QED BY <2>1, <2>2
<1> QED BY <1>2, <1>3

----------------------------------------------------------------------------
(* Above and Beside: the burials *)

\* Lemma: after a burial a node knows of the clients it knew of, but for those
\* it has buried.
LEMMA FuneralMarks ==
  ASSUME NEW n \in Nodes, NEW cs, Cleaned(n, cs), NEW x \in Nodes, NEW c \in Clients
  PROVE  Marked(x, c)' <=> Marked(x, c) /\ ~(x = n /\ c \in cs)
<1>1. c \in routes'[x] <=> c \in routes[x] /\ ~(x = n /\ c \in cs)
  BY DEF Cleaned
<1>2. HasHistory(x, c)' <=> HasHistory(x, c) /\ ~(x = n /\ c \in cs)
  <2>1. \A g \in AllGroups : history'[x][g][c] =
          IF x = n /\ c \in cs THEN <<>> ELSE history[x][g][c]
    BY DEF Cleaned
  <2> QED BY <2>1 DEF HasHistory
<1> QED BY <1>1, <1>2 DEF Marked

\* Lemma: a burial keeps Above: the node that has buried a client has told the
\* next one above.
LEMMA FuneralAbove ==
  ASSUME TypeInv, Placed, HelloFirst, Outward, Onward, Routed, RootOn, Above,
         NEW n \in Nodes, NEW cs, Funeral(n, cs)
  PROVE  Above'
<1>0. Cleaned(n, cs) /\ ToldOthers(n, cs) /\ NoMore(n, cs) /\ Noticed(n, cs)
  BY DEF Funeral
<1> SUFFICES ASSUME NEW c \in Clients, NEW x \in Chain[c], ~Dead(Parent[x])',
                    Marked(Parent[x], c)' \/ Coming(Up(x), c)'
             PROVE  IF x = c THEN Here(c)'
                    ELSE \/ ~Dead(x)' /\ Marked(x, c)'
                         \/ EndIn(Up(x), c)' \/ status'[x] = "down"
  BY DEF Above
<1>1. c \in Ends /\ x \in Ends /\ (x # c => x \in Children /\ x \in Nodes)
  BY ClientEnds, ChainRises, ChainNodes, ChildEnds
<1>2. PICK p \in Nodes, l \in Links : p = Parent[x] /\ l = Up(x)
  BY <1>1, TreeAssumption, LinksDiffer
<1>3. l[1] = x /\ l[2] = p
  BY <1>2, LinkEnds
<1>4. ~Dead(p) /\ (Marked(p, c)' \/ Coming(l, c)')
  BY <1>2 DEF Dead, Onward
<1>5. (Marked(p, c) \/ Coming(l, c)) /\ ~(p = n /\ c \in cs)
  <2>1. Coming(l, c)' => Coming(l, c) /\ ~(p = n /\ c \in cs)
    BY <1>0, <1>3 DEF NoMore
  <2>2. Marked(p, c)' => Marked(p, c) /\ ~(p = n /\ c \in cs)
    BY <1>0, FuneralMarks
  <2> QED BY <1>4, <2>1, <2>2
<1>6. conn[c] # "off"
  BY <1>5, MarkedOn, ComingAway
<1>7. IF x = c THEN Here(c)
      ELSE (~Dead(x) /\ Marked(x, c)) \/ EndIn(l, c) \/ status[x] = "down"
  BY <1>2, <1>4, <1>5 DEF Above
<1>8. CASE x = c
  <2>1. conn'[c] = conn[c]
    BY <1>0, <1>2, <1>5, <1>8 DEF Noticed
  <2> QED BY <1>7, <1>8, <2>1 DEF Here
<1>9. CASE x # c /\ ~Dead(x) /\ Marked(x, c)
  <2>1. ~Dead(x)'
    <3>1. status'[x] = status[x] \/ status[x] = "down"
      BY <1>0, <1>1, <1>9 DEF Noticed
    <3> QED BY <1>9, <3>1 DEF Dead
  <2>2. CASE ~(x = n /\ c \in cs)
    BY <1>0, <1>1, <1>9, <2>1, <2>2, FuneralMarks
  <2>3. CASE x = n /\ c \in cs
    <3>1. n # Root /\ n \in Chain[c] /\ l = Up(n)
      BY <1>1, <1>2, <1>9, <2>3, ChildEnds
    <3>2. status[p] # "off"
      <4>1. CASE p = Root
        BY <4>1 DEF RootOn
      <4>2. CASE p # Root
        <5>1. p \in Chain[c] /\ p \in Children
          BY <1>1, <1>2, <4>2, ChainRises
        <5> QED BY <1>6, <5>1, NothingWhenOff
      <4> QED BY <4>1, <4>2
    <3>3. status[p] = "up"
      BY <1>4, <3>2, TypeInvIs DEF Dead
    <3>4. p \notin Clients
      BY ClientEnds
    <3>5. Open(l)
      BY <1>3, <3>3, <3>4 DEF Open
    <3>6. EndIn(Up(n), c)'
      BY <1>0, <2>3, <3>1, <3>5 DEF ToldOthers
    <3> QED BY <1>9, <2>3, <3>6
  <2> QED BY <2>2, <2>3
<1>10. CASE x # c /\ EndIn(l, c)
  <2>1. EndIn(l, c)'
    BY <1>0, <1>3, <1>5, <1>10 DEF ToldOthers
  <2> QED BY <1>2, <1>10, <2>1
<1>11. CASE x # c /\ status[x] = "down"
  <2>1. status'[x] = status[x] \/ (p = n /\ c \in cs)
    BY <1>0, <1>1, <1>2, <1>6, <1>11 DEF Noticed
  <2> QED BY <1>5, <1>11, <2>1
<1> QED BY <1>7, <1>8, <1>9, <1>10, <1>11

\* Lemma: and Beside: it has told those below.
LEMMA FuneralBeside ==
  ASSUME TypeInv, HelloFirst, Onward, Fresh, Beside,
         NEW n \in Nodes, NEW cs, Funeral(n, cs)
  PROVE  Beside'
<1>0. Cleaned(n, cs) /\ ToldOthers(n, cs) /\ NoMore(n, cs)
  BY DEF Funeral
<1> SUFFICES ASSUME NEW c \in Clients, NEW m \in Children, m \notin Chain[c],
                    ~Dead(m)', Marked(m, c)' \/ Coming(Down(m), c)'
             PROVE  Marked(Parent[m], c)' \/ EndIn(Down(m), c)' \/ Dead(Parent[m])'
  BY DEF Beside
<1>1. c \in Ends /\ m \in Ends /\ m \in Nodes /\ m # Root /\ m \notin Clients
  BY ClientEnds, ChildEnds
<1>2. PICK p \in Nodes, l \in Links : p = Parent[m] /\ l = Down(m)
  BY <1>1, TreeAssumption, LinksDiffer
<1>3. l[1] = p /\ l[2] = m
  BY <1>2, LinkEnds
<1>4. ~Dead(m) /\ (Marked(m, c)' \/ Coming(l, c)')
  BY <1>1, <1>2 DEF Dead, Onward
<1>5. (Marked(m, c) \/ Coming(l, c)) /\ ~(m = n /\ c \in cs)
  <2>1. Coming(l, c)' => Coming(l, c) /\ ~(m = n /\ c \in cs)
    BY <1>0, <1>3 DEF NoMore
  <2>2. Marked(m, c)' => Marked(m, c) /\ ~(m = n /\ c \in cs)
    BY <1>0, <1>1, FuneralMarks
  <2> QED BY <1>4, <2>1, <2>2
<1>6. Marked(p, c) \/ EndIn(l, c) \/ Dead(p)
  BY <1>2, <1>4, <1>5 DEF Beside
<1>7. CASE Marked(p, c) /\ ~(p = n /\ c \in cs)
  BY <1>0, <1>2, <1>7, FuneralMarks
<1>8. CASE p = n /\ c \in cs
  <2>1. m \in secoPPSet[p]
    <3>1. CASE c \in routes[m]
      <4>1. \E x \in Chain[c] : Parent[x] = m
        BY <1>1, <3>1, TypeInvIs
      <4> QED BY <1>1, <4>1, ChainRises
    <3>2. CASE c \notin routes[m]
      BY <1>2, <1>5, <3>2 DEF Fresh, Marked
    <3> QED BY <3>1, <3>2
  <2>2. status[m] = "up"
    <3>1. status[m] # "off"
      BY <1>2, <2>1 DEF HelloFirst
    <3> QED BY <1>1, <1>4, <3>1, TypeInvIs DEF Dead
  <2>3. Open(l)
    BY <1>1, <1>3, <2>2 DEF Open
  <2>4. EndIn(Down(m), c)'
    BY <1>0, <1>2, <1>8, <2>1, <2>3 DEF ToldOthers
  <2> QED BY <2>4
<1>9. CASE EndIn(l, c)
  <2>1. EndIn(l, c)'
    BY <1>0, <1>1, <1>3, <1>5, <1>9 DEF ToldOthers
  <2> QED BY <1>2, <2>1
<1>10. CASE Dead(p)
  BY <1>2, <1>10 DEF Onward, Dead
<1> QED BY <1>6, <1>7, <1>8, <1>9, <1>10

----------------------------------------------------------------------------
(* The theorem *)

\* Lemma: every step keeps the invariant.
LEMMA GoneInvStep ==
  ASSUME GoneInv, [Next]_vars
  PROVE  GoneInv'
<1>0. /\ EndInv /\ Home /\ Quit /\ Listed /\ Fresh /\ Routed /\ RootOn
      /\ Above /\ Beside
  BY DEF GoneInv
<1>1. /\ TypeInv /\ Placed /\ HelloFirst /\ Outward /\ RestKept /\ LookupOK
      /\ Ending
  BY <1>0 DEF EndInv
<1>2. EndInv'
  BY <1>0, EndInvStep
<1>3. TypeInv' /\ Onward /\ KindsOfSteps
  BY <1>1, <1>2, OnwardStep, StepsAreKinds DEF EndInv
<1>4. Home' /\ Quit' /\ Listed' /\ Fresh' /\ Routed'
  BY <1>0, <1>1, <1>3, HomeStep, QuitStep, ListedStep, FreshStep, RoutedStep
<1>5. RootOn'
  <2>1. Root \in Nodes
    BY DEF Nodes
  <2> QED BY <1>0, <1>3, <2>1 DEF RootOn, Onward
<1>6. Above' /\ Beside'
  <2>1. CASE Burial
    <3>1. PICK n \in Nodes, cs \in SUBSET Clients : Funeral(n, cs)
      BY <1>0, <1>1, <2>1, BurialIs DEF Funerals
    <3> QED BY <1>0, <1>1, <1>3, <3>1, FuneralAbove, FuneralBeside
  <2>2. CASE ~Burial
    <3>1. Steady /\ OtherKinds
      BY <1>0, <1>1, <2>2, Steadily, StepKinds
    <3> QED BY <1>0, <1>1, <1>3, <2>2, <3>1, StepsStay
  <2> QED BY <2>1, <2>2
<1> QED BY <1>2, <1>4, <1>5, <1>6 DEF GoneInv

\* Lemma: what is left of a client that has gone when all is settled.
LEMMA GoneInvShows ==
  ASSUME GoneInv
  PROVE  GoneLeavesNoTrace
<1> SUFFICES ASSUME NEW c \in Clients, NEW n \in Nodes, conn[c] = "gone",
                    Settled(c), status[n] = "up"
             PROVE  /\ c \notin local[n] \cup routes[n]
                    /\ \A g \in AllGroups :
                         c \notin members[n][g] /\ history[n][g][c] = <<>>
  BY DEF GoneLeavesNoTrace
<1>0. Home /\ Above /\ Beside
  BY DEF GoneInv
<1>1. c \in Ends /\ ~Here(c)
  BY ClientEnds DEF Here
<1>2. \A l \in Links : ~Coming(l, c) /\ ~EndIn(l, c)
  BY DEF Settled, Coming, EndIn, Tells, Marks, IsEnd
<1>3. /\ \A x \in Ends : Up(x) \in Links /\ Down(x) \in Links
      /\ \A m \in Children : m \in Ends /\ m \in Nodes /\ m # Root
  BY LinksDiffer, ChildEnds
<1>4. \A m \in Children :
        status[m] # "down" /\ (status[m] = "up" => status[Parent[m]] = "up")
  BY DEF Settled
\* Nobody above the client knows of it ...
<1> DEFINE D == {z \in Chain[c] : z = c \/ Dead(z) \/ ~Marked(z, c)}
<1>5. \A y \in D : ~Dead(Parent[y]) => ~Marked(Parent[y], c)
  <2> SUFFICES ASSUME NEW y \in D, ~Dead(Parent[y]), Marked(Parent[y], c)
               PROVE  FALSE
    OBVIOUS
  <2>1. y \in Ends /\ y \in Chain[c] /\ (y # c => y \in Children)
    BY <1>1, ChainRises, ChainNodes
  <2>2. IF y = c THEN Here(c)
        ELSE (~Dead(y) /\ Marked(y, c)) \/ EndIn(Up(y), c) \/ status[y] = "down"
    BY <1>0, <2>1 DEF Above
  <2> QED BY <1>1, <1>2, <1>3, <1>4, <2>1, <2>2
<1>6. Chain[c] \subseteq D
  <2>1. D \in SUBSET Ends /\ c \in D
    BY <1>1, ChainRises
  <2>2. Rising(D)
    <3> SUFFICES ASSUME NEW y \in D, Parent[y] # Root
                 PROVE  Parent[y] \in D
      BY DEF Rising
    <3>1. Parent[y] \in Chain[c]
      BY <1>1, ChainRises
    <3> QED BY <1>5, <3>1
  <2> HIDE DEF D
  <2> QED BY <1>1, <2>1, <2>2, ChainLeast
<1>7. \A m \in Children : m \in Chain[c] /\ status[m] = "up" => ~Marked(m, c)
  <2>1. \A m \in Children : m # c
    BY ClientEnds
  <2> QED BY <1>6, <2>1 DEF Dead
<1>8. status[Root] = "up" => ~Marked(Root, c)
  <2>1. PICK y \in Chain[c] : Parent[y] = Root
    BY <1>1, ChainTop
  <2>2. y \in D
    BY <1>6
  <2> HIDE DEF D
  <2> QED BY <1>5, <2>1, <2>2 DEF Dead
\* ... and so nobody elsewhere.
<1>9. ~Marked(n, c)
  <2> SUFFICES ASSUME Marked(n, c)
               PROVE  FALSE
    OBVIOUS
  <2>1. n \in Children /\ n \in Ends
    BY <1>3, <1>8 DEF Nodes
  <2> DEFINE E == {z \in Chain[n] : z \in Children /\ status[z] = "up"
                                    /\ Marked(z, c)}
  <2>2. \A y \in E : status[Parent[y]] = "up" /\ Marked(Parent[y], c)
    <3> SUFFICES ASSUME NEW y \in E
                 PROVE  status[Parent[y]] = "up" /\ Marked(Parent[y], c)
      OBVIOUS
    <3>1. /\ y \in Children /\ y \in Ends /\ status[y] = "up" /\ ~Dead(y)
          /\ Marked(y, c) /\ y \notin Chain[c]
      BY <1>3, <1>7 DEF Dead
    <3>2. status[Parent[y]] = "up" /\ ~Dead(Parent[y])
      BY <1>4, <3>1 DEF Dead
    <3>3. Marked(Parent[y], c) \/ EndIn(Down(y), c) \/ Dead(Parent[y])
      BY <1>0, <3>1 DEF Beside
    <3> QED BY <1>2, <1>3, <3>1, <3>2, <3>3
  <2>3. Chain[n] \subseteq E
    <3>1. E \in SUBSET Ends /\ n \in E
      BY <2>1, ChainRises
    <3>2. Rising(E)
      <4> SUFFICES ASSUME NEW y \in E, Parent[y] # Root
                   PROVE  Parent[y] \in E
        BY DEF Rising
      <4>1. Parent[y] \in Chain[n] /\ Parent[y] \in Children
        BY <2>1, ChainRises
      <4> QED BY <2>2, <4>1
    <3> HIDE DEF E
    <3> QED BY <2>1, <3>1, <3>2, ChainLeast
  <2>4. PICK y \in Chain[n] : Parent[y] = Root
    BY <2>1, ChainTop
  <2>5. y \in E
    BY <2>3
  <2> HIDE DEF E
  <2> QED BY <1>8, <2>2, <2>4, <2>5
<1>10. c \notin local[n] /\ \A g \in AllGroups : c \notin members[n][g]
  BY <1>0, <1>1 DEF Home, Dead
<1> QED BY <1>9, <1>10 DEF Marked, HasHistory

\* A client that has gone leaves no trace in any running node once nothing
\* about it is under way and no end of a node is unnoticed: no route, no
\* membership and no history, wherever it had connected and whoever died in the
\* meantime (cleanupClient, sendClientDisconnection, the end of
\* DownDataLink.run).
THEOREM GoneLeaveNothing == Spec => []GoneLeavesNoTrace
<1>1. Spec => []GoneInv
  BY GoneInvInit, GoneInvStep, PTL DEF Spec
<1> QED BY <1>1, GoneInvShows, PTL
=============================================================================
