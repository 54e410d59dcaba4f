---------------------------- MODULE SeCoEndProof ----------------------------
(***************************************************************************)
(* Proofs about SeCo: after the end of a client has been announced nothing *)
(* of it arrives, and the invariants about the tree that this rests on.    *)
(***************************************************************************)
EXTENDS SeCoProof

----------------------------------------------------------------------------
(* What every step keeps *)

Dead(n) == status[n] \in {"down", "gone"}

\* Nobody connects or starts twice, and nobody comes back.
Onward ==
  /\ \A c \in Clients : /\ conn[c] # "off" => conn'[c] # "off"
                        /\ conn[c] = "gone" => conn'[c] = "gone"
  /\ \A n \in Nodes : /\ status[n] \in {"down", "gone"}
                           => status'[n] \in {"down", "gone"}
                      /\ status'[n] = "off" => status[n] = "off"

\* Lemma: the steps that change neither conn nor status are of this kind ...
LEMMA OnwardSame ==
  ASSUME UNCHANGED <<conn, status>>
  PROVE  Onward
BY DEF Onward

\* ... and so are the others.
LEMMA OnwardStep ==
  ASSUME TypeInv, [Next]_vars
  PROVE  Onward
<1>0. /\ status \in [Nodes -> {"off", "up", "down", "gone"}]
      /\ conn \in [Clients -> {"off", "on", "closed", "gone"}]
  BY TypeInvIs
<1>1. CASE UNCHANGED vars
  BY <1>1, OnwardSame DEF vars
<1>2. ASSUME NEW c \in Clients, ClientLink(c)
      PROVE  Onward
  <2>1. CASE ClientGone(c)
    BY <1>0, <2>1 DEF ClientGone, Onward
  <2>2. CASE ~ClientGone(c)
    <3>1. UNCHANGED <<conn, status>>
      BY <1>2, <2>2 DEF ClientLink, RootJoin, KnownJoin, JoinStep, JoinReply,
         JoinHistory, JoinSend, DownReply, DownForward, leaveGroup,
         routeToGroup, Route, IgnoreMessage
    <3> QED BY <3>1, OnwardSame
  <2> QED BY <2>1, <2>2
<1>3. ASSUME NEW m \in Children, ChildLink(m)
      PROVE  Onward
  <2>1. CASE NodeGone(m)
    BY <1>0, <2>1 DEF NodeGone, Onward
  <2>2. CASE ~NodeGone(m)
    <3>1. UNCHANGED <<conn, status>>
      BY <1>3, <2>2 DEF ChildLink, synchronizeNewSeCo, DownReply, DownForward,
         routeToGroup, Route, DownGone
    <3> QED BY <3>1, OnwardSame
  <2> QED BY <2>1, <2>2
<1>4. ASSUME NEW m \in Children, Ended(m), status[m] = "up"
      PROVE  Onward
  BY <1>0, <1>4 DEF Ended, Onward
<1>5. ASSUME NEW m \in Children, UpLink(m)
      PROVE  Onward
  <2>1. CASE UpNoRoute(m)
    BY <1>4, <2>1 DEF UpNoRoute, Hears
  <2>2. CASE ~UpNoRoute(m)
    <3>1. UNCHANGED <<conn, status>>
      BY <1>5, <2>2 DEF UpLink, RouteToGroup, Route, UpGone, UpLookup, UpReply,
         UpForward
    <3> QED BY <3>1, OnwardSame
  <2> QED BY <2>1, <2>2
<1>6. ASSUME NEW c \in Clients,
             \/ Connect(c) \/ Request(c)
             \/ \E cmd \in Kinds, g \in Groups : Send(c, cmd, g)
             \/ ClientReceive(c) \/ Disconnect(c)
      PROVE  Onward
  <2>1. CASE Connect(c)
    BY <1>0, <2>1 DEF Connect, Onward
  <2>2. CASE Disconnect(c)
    BY <1>0, <2>2 DEF Disconnect, Onward
  <2>3. CASE UNCHANGED <<conn, status>>
    BY <2>3, OnwardSame
  <2> QED BY <1>6, <2>1, <2>2, <2>3 DEF Request, Send, ClientReceive
<1>7. ASSUME NEW m \in Children, NodeStart(m) \/ NodeFail(m)
      PROVE  Onward
  <2>1. CASE NodeStart(m)
    BY <1>0, <2>1 DEF NodeStart, Onward
  <2>2. CASE NodeFail(m)
    BY <1>4, <2>2 DEF NodeFail
  <2> QED BY <1>7, <2>1, <2>2
<1> QED BY <1>1, <1>2, <1>3, <1>5, <1>6, <1>7 DEF Next

----------------------------------------------------------------------------
(* Where the clients and the nodes are *)

\* The tables hold ends below the node, and a client that has connected has
\* done so through nodes that have said hello.
Placed ==
  /\ \A n \in Nodes : \A c \in local[n] : Parent[c] = n
  /\ \A n \in Nodes : \A m \in secoPPSet[n] : Parent[m] = n
  /\ \A m \in Children : \A c \in myClients[m] :
       m \in Chain[c] /\ conn[c] # "off"
  /\ \A c \in Clients : conn[c] # "off" =>
       \A m \in Chain[c] : m # c => m \in secoPPSet[Parent[m]]

\* Lemma: Placed holds initially.
LEMMA PlacedInit ==
  ASSUME Init
  PROVE  Placed
BY DEF Init, Placed

\* Lemma: Placed stays when the tables lose entries and nobody connects.
LEMMA PlacedLess ==
  ASSUME TypeInv, TypeInv', Placed, Onward,
         \A n \in Nodes : local'[n] \subseteq local[n],
         secoPPSet' = secoPPSet, myClients' = myClients,
         \A c \in Clients : conn'[c] # "off" => conn[c] # "off"
  PROVE  Placed'
<1> USE DEF Placed
<1>1. \A m \in Children : myClients[m] \in SUBSET Clients
  BY TypeInvIs
<1>2. \A n \in Nodes : \A c \in local'[n] : Parent[c] = n
  OBVIOUS
<1>3. \A m \in Children : \A c \in myClients'[m] :
        m \in Chain[c] /\ conn'[c] # "off"
  BY <1>1 DEF Onward
<1> QED BY <1>2, <1>3

\* Lemma: and every step keeps it.
LEMMA PlacedStep ==
  ASSUME TypeInv, TypeInv', Placed, Onward, [Next]_vars
  PROVE  Placed'
<1>0. /\ conn \in [Clients -> {"off", "on", "closed", "gone"}]
      /\ local \in [Nodes -> SUBSET Clients]
      /\ secoPPSet \in [Nodes -> SUBSET Children]
      /\ myClients \in [Children -> SUBSET Clients]
  BY TypeInvIs
<1>1. ASSUME UNCHANGED <<conn, local, secoPPSet, myClients>>
      PROVE  Placed'
  BY <1>1, PlacedLess
<1>2. ASSUME NEW c \in Clients, Connect(c)
      PROVE  Placed'
  <2> USE DEF Connect
  <2>1. c \in Ends /\ Parent[c] \in Nodes
    BY TreeAssumption DEF Ends
  <2>2. \A n \in Nodes : local'[n] = IF n = Parent[c] THEN local[n] \cup {c}
                                     ELSE local[n]
    BY <1>0, <1>2, <2>1
  <2>3. \A n \in Nodes : \A d \in local'[n] : Parent[d] = n
    <3> SUFFICES ASSUME NEW n \in Nodes, NEW d \in local'[n]
                 PROVE  Parent[d] = n
      OBVIOUS
    <3>1. d \in local[n] \/ (n = Parent[c] /\ d = c)
      BY <2>2
    <3> QED BY <3>1 DEF Placed
  <2>4. \A d \in Clients : conn'[d] = IF d = c THEN "on" ELSE conn[d]
    BY <1>0, <1>2
  <2>5. \A m \in Children : \A d \in myClients'[m] :
          m \in Chain[d] /\ conn'[d] # "off"
    <3> SUFFICES ASSUME NEW m \in Children, NEW d \in myClients'[m]
                 PROVE  m \in Chain[d] /\ conn'[d] # "off"
      OBVIOUS
    <3>1. \/ d \in myClients[m]
          \/ d = c /\ m \in Chain[c]
      BY <1>2
    <3>2. d \in Clients
      BY <1>0, <3>1
    <3> QED BY <2>4, <3>1, <3>2 DEF Placed
  <2>6. \A d \in Clients : conn'[d] # "off" =>
          \A m \in Chain[d] : m # d => m \in secoPPSet'[Parent[m]]
    <3>1. \A m \in Chain[c] : m # c => m \in secoPPSet[Parent[m]]
      BY <1>2 DEF Attached
    <3> QED BY <1>2, <2>4, <3>1 DEF Placed
  <2>7. \A n \in Nodes : \A m \in secoPPSet'[n] : Parent[m] = n
    BY <1>2 DEF Placed
  <2> QED BY <2>3, <2>5, <2>6, <2>7 DEF Placed
<1>3. ASSUME NEW m \in Children, synchronizeNewSeCo(m)
      PROVE  Placed'
  <2>1. \A n \in Nodes : secoPPSet'[n] =
          IF n = Parent[m] THEN secoPPSet[n] \cup {m} ELSE secoPPSet[n]
    BY <1>0, <1>3 DEF synchronizeNewSeCo
  <2>2. \A n \in Nodes : \A k \in secoPPSet'[n] : Parent[k] = n
    <3> SUFFICES ASSUME NEW n \in Nodes, NEW k \in secoPPSet'[n]
                 PROVE  Parent[k] = n
      OBVIOUS
    <3>1. k \in secoPPSet[n] \/ (n = Parent[m] /\ k = m)
      BY <2>1
    <3> QED BY <3>1 DEF Placed
  <2>3. ASSUME NEW c \in Clients, conn'[c] # "off", NEW k \in Chain[c], k # c
        PROVE  k \in secoPPSet'[Parent[k]]
    <3>1. c \in Ends
      BY DEF Ends
    <3>2. k \in Ends
      BY <3>1, ChainRises
    <3>3. Parent[k] \in Nodes
      BY <3>2, TreeAssumption
    <3>4. conn[c] # "off"
      BY <1>3, <2>3 DEF synchronizeNewSeCo
    <3>5. k \in secoPPSet[Parent[k]]
      BY <2>3, <3>4 DEF Placed
    <3> QED BY <2>1, <3>3, <3>5
  <2>4. UNCHANGED <<conn, local, myClients>>
    BY <1>3 DEF synchronizeNewSeCo
  <2> QED BY <2>2, <2>3, <2>4 DEF Placed
<1>4. ASSUME NEW n \in Nodes, NEW cs, CleanupTables(n, cs),
             secoPPSet' = secoPPSet, myClients' = myClients,
             \A c \in Clients : conn'[c] # "off" => conn[c] # "off"
      PROVE  Placed'
  BY <1>4, CleanupIs, PlacedLess
<1>5. ASSUME NEW c \in Clients, ClientLink(c)
      PROVE  Placed'
  <2>1. CASE ClientGone(c)
    <3>1. Parent[c] \in Nodes
      BY TreeAssumption DEF Ends
    <3>2. CleanupTables(Parent[c], {c}) /\ UNCHANGED <<secoPPSet, myClients>>
      BY <2>1 DEF ClientGone, Bury
    <3>3. \A d \in Clients : conn'[d] # "off" => conn[d] # "off"
      BY <1>0, <2>1 DEF ClientGone
    <3> QED BY <1>4, <3>1, <3>2, <3>3
  <2>2. CASE ~ClientGone(c)
    <3>1. UNCHANGED <<conn, local, secoPPSet, myClients>>
      BY <1>5, <2>2 DEF ClientLink, RootJoin, KnownJoin, JoinStep, JoinReply,
         JoinHistory, JoinSend, DownReply, DownForward, leaveGroup,
         routeToGroup, Route, IgnoreMessage, tables
    <3> QED BY <1>1, <3>1
  <2> QED BY <2>1, <2>2
<1>6. ASSUME NEW m \in Children, ChildLink(m)
      PROVE  Placed'
  <2>1. CASE synchronizeNewSeCo(m)
    BY <1>3, <2>1
  <2>2. CASE DownGone(m) \/ NodeGone(m)
    <3>1. Parent[m] \in Nodes
      BY TreeAssumption DEF Ends
    <3>2. PICK cs : CleanupTables(Parent[m], cs)
      BY <2>2 DEF DownGone, NodeGone, Bury
    <3>3. UNCHANGED <<secoPPSet, myClients, conn>>
      BY <2>2 DEF DownGone, NodeGone, Bury
    <3> QED BY <1>4, <3>1, <3>2, <3>3
  <2>3. CASE DownReply(m) \/ DownForward(m) \/ routeToGroup(m)
    BY <1>1, <2>3 DEF DownReply, DownForward, routeToGroup, Route, tables
  <2> QED BY <1>6, <2>1, <2>2, <2>3 DEF ChildLink
<1>7. ASSUME NEW m \in Children, Ended(m)
      PROVE  Placed'
  <2>1. UNCHANGED <<local, secoPPSet, myClients>>
    BY <1>7 DEF Ended, tables
  <2>2. \A c \in Clients : conn'[c] # "off" => conn[c] # "off"
    BY <1>7 DEF Ended
  <2> QED BY <2>1, <2>2, PlacedLess
<1>8. ASSUME NEW m \in Children, UpLink(m)
      PROVE  Placed'
  <2>1. CASE UpGone(m)
    <3>1. m \in Nodes
      BY DEF Nodes
    <3>2. PICK cs : CleanupTables(m, cs)
      BY <2>1 DEF UpGone, Bury
    <3>3. UNCHANGED <<secoPPSet, myClients, conn>>
      BY <2>1 DEF UpGone, Bury
    <3> QED BY <1>4, <3>1, <3>2, <3>3
  <2>2. CASE UpNoRoute(m)
    BY <1>7, <2>2 DEF UpNoRoute
  <2>3. CASE RouteToGroup(m) \/ UpLookup(m) \/ UpReply(m) \/ UpForward(m)
    BY <1>1, <2>3 DEF RouteToGroup, Route, UpLookup, UpReply, UpForward, tables
  <2> QED BY <1>8, <2>1, <2>2, <2>3 DEF UpLink
<1>9. ASSUME NEW c \in Clients,
             \/ Request(c) \/ ClientReceive(c)
             \/ \E cmd \in Kinds, g \in Groups : Send(c, cmd, g)
      PROVE  Placed'
  BY <1>1, <1>9 DEF Request, Send, ClientReceive, tables
<1>10. ASSUME NEW c \in Clients, Disconnect(c)
       PROVE  Placed'
  <2>1. UNCHANGED <<local, secoPPSet, myClients>>
    BY <1>10 DEF Disconnect, tables
  <2>2. \A d \in Clients : conn'[d] # "off" => conn[d] # "off"
    BY <1>0, <1>10 DEF Disconnect
  <2> QED BY <2>1, <2>2, PlacedLess
<1>11. ASSUME NEW m \in Children, NodeStart(m) \/ NodeFail(m)
       PROVE  Placed'
  <2>1. CASE NodeStart(m)
    BY <1>1, <2>1 DEF NodeStart, tables
  <2>2. CASE NodeFail(m)
    BY <1>7, <2>2 DEF NodeFail
  <2> QED BY <1>11, <2>1, <2>2
<1>12. CASE UNCHANGED vars
  BY <1>1, <1>12 DEF vars, tables
<1> QED BY <1>2, <1>5, <1>6, <1>8, <1>9, <1>10, <1>11, <1>12 DEF Next

----------------------------------------------------------------------------
(* What a step does to the queues *)

Cargoes == Packets \cup Hellos

\* Lemma: every packet of a queue was there, or is one of those sent, and the
\* order is kept.
LEMMA FlowPlaces ==
  ASSUME NEW q \in Queues, NEW links, NEW pkts \in Seq(Cargoes),
         FlowsFrom(q, links, pkts), NEW l \in Links
  PROVE  \E at \in [1..Len(queue'[l]) -> Nat] :
           /\ \A i, j \in 1..Len(queue'[l]) : i < j => at[i] < at[j]
           /\ \A i \in 1..Len(queue'[l]) :
                \/ at[i] \in 1..Len(q[l]) /\ queue'[l][i] = q[l][at[i]]
                \/ /\ l \in links /\ Open(l)
                   /\ \E u \in 1..Len(pkts) :
                        at[i] = Len(q[l]) + u /\ queue'[l][i] = pkts[u]
<1>1. PICK s, t : s = q[l] /\ t = queue'[l]
  OBVIOUS
<1>2. s \in Seq(Cargoes)
  BY <1>1 DEF Queues, Cargoes
<1>3. \/ Thins(t, s)
      \/ l \in links /\ Open(l) /\ Thins(t, s \o pkts)
  BY <1>1 DEF FlowsFrom
<1>4. Len(s) \in Nat /\ Len(pkts) \in Nat /\ Len(s \o pkts) = Len(s) + Len(pkts)
  BY <1>2
<1>5. CASE Thins(t, s)
  <2>1. PICK at \in [1..Len(t) -> 1..Len(s)] :
          /\ \A i, j \in 1..Len(t) : i < j => at[i] < at[j]
          /\ \A i \in 1..Len(t) : t[i] = s[at[i]]
    BY <1>5 DEF Thins
  <2>2. at \in [1..Len(t) -> Nat]
    BY <1>4, <2>1
  <2> QED BY <1>1, <2>1, <2>2
<1>6. CASE l \in links /\ Open(l) /\ Thins(t, s \o pkts)
  <2>1. PICK at \in [1..Len(t) -> 1..Len(s \o pkts)] :
          /\ \A i, j \in 1..Len(t) : i < j => at[i] < at[j]
          /\ \A i \in 1..Len(t) : t[i] = (s \o pkts)[at[i]]
    BY <1>6 DEF Thins
  <2>2. at \in [1..Len(t) -> Nat]
    BY <1>4, <2>1
  <2>3. ASSUME NEW i \in 1..Len(t)
        PROVE  \/ at[i] \in 1..Len(s) /\ t[i] = s[at[i]]
               \/ \E u \in 1..Len(pkts) : at[i] = Len(s) + u /\ t[i] = pkts[u]
    <3>1. at[i] \in 1..Len(s \o pkts) /\ t[i] = (s \o pkts)[at[i]]
      BY <2>1, <2>3
    <3>2. PICK k \in 1..Len(s \o pkts) : k = at[i]
      BY <3>1
    <3>3. \/ k \in 1..Len(s) /\ (s \o pkts)[k] = s[k]
          \/ \E u \in 1..Len(pkts) : k = Len(s) + u /\ (s \o pkts)[k] = pkts[u]
      <4>1. k \in Nat /\ k >= 1 /\ k <= Len(s) + Len(pkts)
        BY <1>4, <3>2
      <4>2. CASE k <= Len(s)
        BY <1>2, <1>4, <4>1, <4>2
      <4>3. CASE k > Len(s)
        <5>1. k - Len(s) \in 1..Len(pkts) /\ k = Len(s) + (k - Len(s))
          BY <1>4, <4>1, <4>3
        <5>2. (s \o pkts)[k] = pkts[k - Len(s)]
          BY <1>2, <1>4, <4>1, <4>3
        <5> QED BY <5>1, <5>2
      <4>4. k <= Len(s) \/ k > Len(s)
        BY <1>4, <4>1
      <4> QED BY <4>2, <4>3, <4>4
    <3> QED BY <3>1, <3>2, <3>3
  <2> QED BY <1>1, <1>6, <2>1, <2>2, <2>3
<1> QED BY <1>3, <1>5, <1>6

\* Lemma: Flows is FlowsFrom the queues as they are.
LEMMA FlowsIs ==
  ASSUME NEW links, NEW pkts, Flows(links, pkts)
  PROVE  FlowsFrom(queue, links, pkts)
BY DEF Flows, FlowsFrom

\* Lemma: where the packets of a queue come from.
LEMMA FlowHolds ==
  ASSUME TypeInv, NEW links, NEW pkts \in Seq(Cargoes), Flows(links, pkts),
         NEW l \in Links, NEW i \in 1..Len(queue'[l])
  PROVE  \/ \E k \in 1..Len(queue[l]) : queue'[l][i] = queue[l][k]
         \/ /\ l \in links /\ Open(l)
            /\ \E u \in 1..Len(pkts) : queue'[l][i] = pkts[u]
<1>1. queue \in Queues /\ FlowsFrom(queue, links, pkts)
  BY TypeInvIs, FlowsIs
<1>2. PICK at \in [1..Len(queue'[l]) -> Nat] :
        /\ \A a, j \in 1..Len(queue'[l]) : a < j => at[a] < at[j]
        /\ \A j \in 1..Len(queue'[l]) :
             \/ at[j] \in 1..Len(queue[l]) /\ queue'[l][j] = queue[l][at[j]]
             \/ /\ l \in links /\ Open(l)
                /\ \E u \in 1..Len(pkts) :
                     at[j] = Len(queue[l]) + u /\ queue'[l][j] = pkts[u]
  BY <1>1, FlowPlaces
<1> QED BY <1>2

\* Lemma: the sequences of the types that the queues hold.
LEMMA CargoSeqs ==
  /\ \A s \in Seq(Packets) : s \in Seq(Cargoes)
  /\ \A s \in Seq(Msgs) : s \in Seq(Cargoes)
  /\ \A p \in Notes : <<p>> \in Seq(Cargoes)
  /\ \A p \in Msgs : <<p>> \in Seq(Cargoes)
  /\ <<>> \in Seq(Cargoes)
BY DEF Cargoes, Packets

----------------------------------------------------------------------------
(* The first packet of a node *)

\* A node says hello in its first packet, once, and until its parent has read
\* it, it is not one of the parent's child nodes.
HelloFirst ==
  \A m \in Children :
    /\ \A i \in 1..Len(queue[Up(m)]) : queue[Up(m)][i].cmd = "HELLO_SECO" =>
         i = 1 /\ m \notin secoPPSet[Parent[m]] /\ status[m] # "off"
    /\ status[m] = "off" => m \notin secoPPSet[Parent[m]]

\* Lemma: HelloFirst holds initially.
LEMMA HelloFirstInit ==
  ASSUME Init
  PROVE  HelloFirst
<1>1. \A m \in Children : m \in Ends /\ Parent[m] \in Nodes /\ Up(m) \in Links
  BY TreeAssumption DEF Ends, Links
<1>2. \A m \in Children : queue[Up(m)] = <<>> /\ secoPPSet[Parent[m]] = {}
  BY <1>1 DEF Init
<1> QED BY <1>2 DEF HelloFirst

\* Lemma: the packets sent are no hellos.
LEMMA HelloFirstKept ==
  ASSUME TypeInv, TypeInv', HelloFirst, Onward, secoPPSet' = secoPPSet,
         NEW links, NEW pkts \in Seq(Packets), Flows(links, pkts)
  PROVE  HelloFirst'
<1>1. ASSUME NEW m \in Children, NEW i \in 1..Len(queue'[Up(m)]),
             queue'[Up(m)][i].cmd = "HELLO_SECO"
      PROVE  i = 1 /\ m \notin secoPPSet'[Parent[m]] /\ status'[m] # "off"
  <2>0. Up(m) \in Links /\ m \in Nodes
    BY LinksDiffer DEF Ends, Nodes
  <2>1. queue \in Queues /\ FlowsFrom(queue, links, pkts) /\ pkts \in Seq(Cargoes)
    BY TypeInvIs, FlowsIs, CargoSeqs
  <2>2. PICK at \in [1..Len(queue'[Up(m)]) -> Nat] :
          /\ \A a, j \in 1..Len(queue'[Up(m)]) : a < j => at[a] < at[j]
          /\ \A j \in 1..Len(queue'[Up(m)]) :
               \/ /\ at[j] \in 1..Len(queue[Up(m)])
                  /\ queue'[Up(m)][j] = queue[Up(m)][at[j]]
               \/ \E u \in 1..Len(pkts) :
                    /\ at[j] = Len(queue[Up(m)]) + u
                    /\ queue'[Up(m)][j] = pkts[u]
    BY <2>0, <2>1, FlowPlaces
  <2>3. \A u \in 1..Len(pkts) : pkts[u].cmd # "HELLO_SECO"
    <3> SUFFICES ASSUME NEW u \in 1..Len(pkts)
                 PROVE  pkts[u].cmd # "HELLO_SECO"
      OBVIOUS
    <3>1. pkts[u] \in Packets
      OBVIOUS
    <3>2. pkts[u].cmd \in MsgCommands \cup Asks \cup {"CLIENT_DISCONNECTED"}
      BY <3>1, PacketKinds DEF Packets
    <3> QED BY <3>2 DEF MsgCommands, Asks
  <2>4. at[i] \in 1..Len(queue[Up(m)]) /\ queue[Up(m)][at[i]].cmd = "HELLO_SECO"
    BY <1>1, <2>2, <2>3
  <2>5. at[i] = 1 /\ m \notin secoPPSet[Parent[m]] /\ status[m] # "off"
    BY <2>4 DEF HelloFirst
  <2>6. i = 1
    <3>1. Len(queue'[Up(m)]) \in Nat
      <4>1. queue'[Up(m)] \in Seq(Packets \cup Hellos)
        BY <2>0 DEF Flows, Queues
      <4> QED BY <4>1
    <3>2. CASE i > 1
      <4>1. 1 \in 1..Len(queue'[Up(m)]) /\ 1 < i
        BY <3>1, <3>2
      <4>2. at[1] < at[i] /\ at[1] \in Nat
        BY <2>2, <4>1
      <4>3. at[1] = 0
        BY <2>5, <4>2
      <4>4. Len(queue[Up(m)]) \in Nat
        <5>1. queue[Up(m)] \in Seq(Packets \cup Hellos)
          BY <2>0, <2>1 DEF Queues
        <5> QED BY <5>1
      <4>5. at[1] \in 1..Len(queue[Up(m)]) \/ \E u \in 1..Len(pkts) :
              at[1] = Len(queue[Up(m)]) + u
        BY <2>2, <4>1
      <4> QED BY <4>3, <4>4, <4>5
    <3> QED BY <3>1, <3>2
  <2> QED BY <2>0, <2>5, <2>6 DEF Onward
<1>2. ASSUME NEW m \in Children, status'[m] = "off"
      PROVE  m \notin secoPPSet'[Parent[m]]
  <2>1. m \in Nodes
    BY DEF Nodes
  <2> QED BY <1>2, <2>1 DEF Onward, HelloFirst
<1> QED BY <1>1, <1>2 DEF HelloFirst

----------------------------------------------------------------------------
(* Which way the packets go *)

IsFrom(p, s) == p.cmd \in MsgCommands /\ p.client = s
IsEnd(p, s) == p.cmd = "CLIENT_DISCONNECTED" /\ p.client = s
Bound(p) == p.cmd \in MsgCommands \cup {"CLIENT_DISCONNECTED"}

\* The link leads away from client s.
Away(l, s) ==
  \A x \in Ends : /\ l = Up(x) => x \in Chain[s]
                  /\ l = Down(x) /\ x \in Children => x \notin Chain[s]

\* What a client has sent, and the news of its end, go away from it, and no
\* node has heard of a client before it has connected.
Outward ==
  /\ \A l \in Links : \A i \in 1..Len(queue[l]) : Bound(queue[l][i]) =>
       /\ Away(l, queue[l][i].client)
       /\ conn[queue[l][i].client] # "off"
  /\ \A n \in Nodes, g \in AllGroups, s \in Clients :
       history[n][g][s] # <<>> => conn[s] # "off"

\* What a joinGroup has still to send is in the history of its node.
RestKept ==
  \A c \in Clients : \A i \in 1..Len(join[c].rest) :
    join[c].rest[i] \in
      Kept(Parent[c], join[c].rest[i].group, join[c].rest[i].client)

\* UpDataLink has looked up the way to the client that the next packet is for.
LookupOK ==
  \A m \in Children : lookup[m] \notin {"idle", "null"} =>
    \/ /\ queue[Down(m)] # <<>> /\ Head(queue[Down(m)]).cmd \in Asks
       /\ lookup[m] \in Chain[Head(queue[Down(m)]).client]
       /\ Parent[lookup[m]] = m
    \/ queue[Down(m)] = <<>> /\ Dead(Parent[m])

\* Lemmas: the links and their ends.
LEMMA LinkEnds ==
  ASSUME NEW x
  PROVE  Up(x)[1] = x /\ Up(x)[2] = Parent[x]
         /\ Down(x)[1] = Parent[x] /\ Down(x)[2] = x
BY DEF Up, Down

\* Lemma: clients are ends, not nodes.
LEMMA ClientEnds ==
  ASSUME NEW c \in Clients
  PROVE  /\ c \in Ends /\ c \notin Nodes /\ c \notin Children
         /\ Parent[c] \in Nodes
BY TreeAssumption DEF Ends, Nodes

\* Lemma: child nodes are ends and nodes.
LEMMA ChildEnds ==
  ASSUME NEW m \in Children
  PROVE  /\ m \in Ends /\ m \in Nodes /\ m \notin Clients /\ m # Root
         /\ Parent[m] \in Nodes
BY TreeAssumption DEF Ends, Nodes

\* Lemma: the link down to a client leads away from everybody.
LEMMA DownClientAway ==
  ASSUME NEW c \in Clients, NEW s
  PROVE  Away(Down(c), s)
<1>1. ASSUME NEW x \in Ends
      PROVE  /\ Down(c) # Up(x)
             /\ Down(c) = Down(x) => x \notin Children
  BY ClientEnds, LinksDiffer
<1> QED BY <1>1 DEF Away

\* Lemma: so does the one down to a child node that is not on the chain ...
LEMMA DownChildAway ==
  ASSUME NEW m \in Ends, NEW s, m \notin Chain[s]
  PROVE  Away(Down(m), s)
<1>1. ASSUME NEW x \in Ends
      PROVE  /\ Down(m) # Up(x)
             /\ Down(m) = Down(x) => x = m
  BY LinksDiffer
<1> QED BY <1>1 DEF Away

\* ... and the one up from a node that is.
LEMMA UpAway ==
  ASSUME NEW x \in Ends, NEW s, x \in Chain[s]
  PROVE  Away(Up(x), s)
<1>1. ASSUME NEW y \in Ends
      PROVE  /\ Up(x) # Down(y)
             /\ Up(x) = Up(y) => y = x
  BY LinksDiffer
<1> QED BY <1>1 DEF Away

\* Lemma: what a thread sends on, it sends from its node.
LEMMA DownTargetsFrom ==
  ASSUME TypeInv, Placed, NEW n \in Nodes, NEW x, NEW g,
         NEW l \in DownTargets(n, x, g)
  PROVE  l[1] = n
<1>1. local[n] \subseteq Clients /\ secoPPSet[n] \subseteq Children
  BY TypeInvIs
<1>2. \A c \in local[n] : Parent[c] = n
  BY DEF Placed
<1>3. \A m \in secoPPSet[n] : Parent[m] = n
  BY DEF Placed
<1>4. \/ \E c \in local[n] : l = Down(c)
      \/ \E m \in secoPPSet[n] : l = Down(m)
      \/ l = Up(n)
  BY DEF DownTargets
<1> QED BY <1>2, <1>3, <1>4, LinkEnds

\* Lemma: what a DownDataLink sends on comes from the far end of its link and
\* goes away from it.
LEMMA DownTargetsAway ==
  ASSUME TypeInv, Placed, NEW x \in Ends, NEW s \in Clients, x \in Chain[s],
         NEW n, n = Parent[x], NEW g, NEW l \in DownTargets(n, x, g)
  PROVE  l[1] = n /\ Away(l, s)
<1>1. n \in Nodes /\ s \in Ends
  BY TreeAssumption, ClientEnds
<1>2. local[n] \subseteq Clients /\ secoPPSet[n] \subseteq Children
  BY <1>1, TypeInvIs
<1>3. CASE \E c \in members[n][g] \cap local[n] : l = Down(c)
  <2>1. PICK c \in local[n] : l = Down(c)
    BY <1>3
  <2>2. c \in Clients /\ Parent[c] = n
    BY <1>1, <1>2, <2>1 DEF Placed
  <2> QED BY <2>1, <2>2, LinkEnds, DownClientAway
<1>4. CASE \E m \in secoPPSet[n] \ {x} : l = Down(m)
  <2>1. PICK m \in secoPPSet[n] \ {x} : l = Down(m)
    BY <1>4
  <2>2. m \in Ends /\ Parent[m] = n
    BY <1>1, <1>2, <2>1, ChildEnds DEF Placed
  <2>3. m \notin Chain[s]
    BY <1>1, <2>1, <2>2, ChainInjective
  <2> QED BY <2>1, <2>2, <2>3, LinkEnds, DownChildAway
<1>5. CASE n # Root /\ l = Up(n)
  <2>1. n \in Chain[s] /\ n \in Ends
    BY <1>1, <1>5, ChainRises
  <2> QED BY <1>5, <2>1, LinkEnds, UpAway
<1>6. \/ \E c \in members[n][g] \cap local[n] : l = Down(c)
      \/ \E m \in secoPPSet[n] \ {x} : l = Down(m)
      \/ n # Root /\ l = Up(n)
  BY DEF DownTargets
<1> QED BY <1>3, <1>4, <1>5, <1>6

\* Lemma: down to child nodes a node sends on only once they have said hello.
LEMMA TargetsGreeted ==
  ASSUME TypeInv, NEW n \in Nodes, NEW x, NEW g, NEW m \in Children
  PROVE  /\ Down(m) \in DownTargets(n, x, g) => m \in secoPPSet[n]
         /\ n # Root => (Down(m) \in UpTargets(n, g) => m \in secoPPSet[n])
<1>1. local[n] \subseteq Clients /\ secoPPSet[n] \subseteq Children
  BY TypeInvIs
<1>2. m \in Ends /\ m \notin Clients
  BY ChildEnds
<1>3. ASSUME NEW y \in Ends, Down(m) = Down(y)
      PROVE  m = y
  BY <1>2, <1>3, LinksDiffer
<1>4. ASSUME NEW c \in local[n]
      PROVE  Down(m) # Down(c)
  BY <1>1, <1>2, <1>3, ClientEnds
<1>5. ASSUME NEW k \in secoPPSet[n], Down(m) = Down(k)
      PROVE  m \in secoPPSet[n]
  BY <1>1, <1>3, <1>5, ChildEnds
<1>6. n # Root => Down(m) # Up(n)
  <2>1. n # Root => n \in Ends
    BY DEF Nodes, Ends
  <2> QED BY <1>2, <2>1, LinksDiffer
<1>7. ASSUME Down(m) \in DownTargets(n, x, g)
      PROVE  \/ \E c \in local[n] : Down(m) = Down(c)
             \/ \E k \in secoPPSet[n] : Down(m) = Down(k)
             \/ n # Root /\ Down(m) = Up(n)
  BY <1>7 DEF DownTargets
<1>8. ASSUME Down(m) \in UpTargets(n, g)
      PROVE  \/ \E c \in local[n] : Down(m) = Down(c)
             \/ \E k \in secoPPSet[n] : Down(m) = Down(k)
  BY <1>8 DEF UpTargets
<1> QED BY <1>4, <1>5, <1>6, <1>7, <1>8

\* Lemma: and what UpDataLink sends on.
LEMMA UpTargetsAway ==
  ASSUME TypeInv, Placed, NEW n \in Children, NEW s \in Clients, n \notin Chain[s],
         NEW g, NEW l \in UpTargets(n, g)
  PROVE  l[1] = n /\ Away(l, s)
<1>1. n \in Nodes /\ s \in Ends /\ n # Root
  BY ChildEnds, ClientEnds
<1>2. local[n] \subseteq Clients /\ secoPPSet[n] \subseteq Children
  BY <1>1, TypeInvIs
<1>3. CASE \E c \in members[n][g] \cap local[n] : l = Down(c)
  <2>1. PICK c \in local[n] : l = Down(c)
    BY <1>3
  <2>2. c \in Clients /\ Parent[c] = n
    BY <1>1, <1>2, <2>1 DEF Placed
  <2> QED BY <2>1, <2>2, LinkEnds, DownClientAway
<1>4. CASE \E m \in secoPPSet[n] : l = Down(m)
  <2>1. PICK m \in secoPPSet[n] : l = Down(m)
    BY <1>4
  <2>2. m \in Ends /\ Parent[m] = n
    BY <1>1, <1>2, <2>1, ChildEnds DEF Placed
  <2>3. m \notin Chain[s]
    BY <1>1, <2>2, ChainRises
  <2> QED BY <2>1, <2>2, <2>3, LinkEnds, DownChildAway
<1> QED BY <1>3, <1>4 DEF UpTargets

----------------------------------------------------------------------------
(* The kinds of steps *)

same == <<secoPPSet, history, got>>

\* The links start at a node or at a client that is connected.
Own(links) == \A l \in links : l[1] \in Nodes \/ conn[l[1]] = "on"

\* Requests and answers are sent, if anything.
Quietly ==
  /\ UNCHANGED same
  /\ \E links : \E pkts \in Seq(Packets) :
       /\ Flows(links, pkts) /\ Own(links)
       /\ \A u \in 1..Len(pkts) : pkts[u].cmd \in Asks

\* A client is sent histories of its node.
SendsHistory ==
  /\ UNCHANGED same
  /\ \E c \in Clients : \E pkts \in Seq(Packets) :
       /\ Flows({Down(c)}, pkts)
       /\ \A u \in 1..Len(pkts) :
            \/ pkts[u].cmd \in Asks
            \/ \E g \in AllGroups : /\ pkts[u] \in Kept(Parent[c], g, pkts[u].client)
                                    /\ pkts[u].client \in Clients

\* A new node is sent the histories of its parent.
Synchronizes == \E m \in Children : synchronizeNewSeCo(m)

\* A client sends a message.
Sends ==
  /\ UNCHANGED same
  /\ \E c \in Clients : \E p \in Msgs :
       p.client = c /\ conn[c] = "on" /\ Flows({Up(c)}, <<p>>)

\* Node n reads message p and sends it on.
Routes ==
  /\ UNCHANGED <<secoPPSet, got>>
  /\ \E n \in Nodes, k \in Links : \E p \in Msgs : \E targets :
       /\ k[2] = n /\ status[n] = "up"
       /\ 1 \in 1..Len(queue[k]) /\ p = queue[k][1]
       /\ Flows(targets, <<p>>)
       /\ \A l \in targets : l[1] = n /\ Away(l, p.client)
       /\ \A m \in Children : Down(m) \in targets => m \in secoPPSet[n]
       /\ \A x \in Nodes, g \in AllGroups, s \in Clients :
            history'[x][g][s] = history[x][g][s] \/ (x = n /\ s = p.client)
       /\ IF p.cmd = "NO_HISTORY_MSG" THEN history' = history
          ELSE \E g \in AllGroups : history'[n][g][p.client] # <<>>

\* Node n has read of the end of client s or has noticed it.
Learns(n, q, s) ==
  \/ \E k \in Links : /\ k[2] = n /\ q = Taken(k)
                      /\ 1 \in 1..Len(queue[k]) /\ IsEnd(queue[k][1], s)
  \/ \E x \in Chain[s] : /\ Parent[x] = n /\ q = [queue EXCEPT ![Up(x)] = <<>>]
                         /\ IF x = s THEN conn'[s] = "gone" ELSE Dead(x)

\* Node n buries the clients in cs and tells the others.
Buries ==
  /\ UNCHANGED <<secoPPSet, got>>
  /\ \E n \in Nodes : \E q \in Queues : \E cs \in SUBSET Clients : \E targets :
       \E news \in Obituaries(cs) :
         /\ status[n] = "up"
         /\ \A l \in Links : Thins(q[l], queue[l])
         /\ \A s \in cs : conn[s] # "off" /\ Learns(n, q, s)
         /\ Flows(targets, news) /\ FlowsFrom(q, targets, news)
         /\ \A l \in targets : l[1] = n /\ \A s \in cs : Away(l, s)
         /\ \A x \in Nodes, g \in AllGroups, s \in Clients : history'[x][g][s] =
              IF x = n /\ s \in cs THEN <<>> ELSE history[x][g][s]

Receives == \E c \in Clients : ClientReceive(c)

Starts == \E m \in Children : NodeStart(m)

\* The steps that bury somebody are these ...
Burial ==
  \/ \E m \in Children : DownGone(m) \/ UpGone(m) \/ NodeGone(m)
  \/ \E c \in Clients : ClientGone(c)

\* ... and the kinds of the others are these.
OtherKinds ==
  \/ Quietly \/ SendsHistory \/ Synchronizes \/ Sends \/ Routes
  \/ Receives \/ Starts

KindsOfSteps == Buries \/ OtherKinds

\* Lemma: a step that sends nothing, or one request or answer, is quiet.
LEMMA QuietlyNone ==
  ASSUME UNCHANGED same, Flows({}, <<>>)
  PROVE  Quietly
<1>1. <<>> \in Seq(Packets) /\ Len(<<>>) = 0
  OBVIOUS
<1>2. \A u \in 1..Len(<<>>) : <<>>[u].cmd \in Asks
  BY <1>1
<1>3. Own({})
  BY DEF Own
<1> QED BY <1>1, <1>2, <1>3, Zenon DEF Quietly

\* Lemma: so is one that sends a request or an answer.
LEMMA QuietlyOne ==
  ASSUME UNCHANGED same, NEW links, NEW p \in Notes, p.cmd \in Asks,
         Flows(links, <<p>>), Own(links)
  PROVE  Quietly
<1>1. p \in Packets
  BY PacketKinds
<1>2. <<p>> \in Seq(Packets) /\ Len(<<p>>) = 1 /\ <<p>>[1] = p
  BY <1>1
<1>3. \A u \in 1..Len(<<p>>) : <<p>>[u].cmd \in Asks
  BY <1>2
<1> QED BY <1>2, <1>3, Zenon DEF Quietly

\* Lemma: the links that answers and requests are sent over.
LEMMA OwnDown ==
  ASSUME NEW x \in Ends
  PROVE  Own({Down(x)}) /\ (x \in Children => Own({Up(x)}))
<1>1. Down(x)[1] \in Nodes
  BY LinkEnds, TreeAssumption
<1>2. x \in Children => Up(x)[1] \in Nodes
  BY LinkEnds, ChildEnds
<1> QED BY <1>1, <1>2 DEF Own

\* Lemma: so is a step that is answered with the history of a group ...
LEMMA SendsHistoryIf ==
  ASSUME TypeInv, UNCHANGED same, NEW c \in Clients, NEW p \in Notes,
         p.cmd \in Asks, NEW g \in AllGroups, NEW n, n = Parent[c],
         Flows({Down(c)}, <<p>> \o getMsgs(n, g))
  PROVE  SendsHistory
<1>1. n \in Nodes
  BY ClientEnds
<1>2. PICK msgs : msgs = getMsgs(n, g)
  OBVIOUS
<1>3. /\ msgs \in Seq(Msgs)
      /\ \A i \in 1..Len(msgs) : \E s \in Clients : msgs[i] \in Kept(n, g, s)
  BY <1>1, <1>2, HistoriesAre
<1>4. p \in Packets /\ <<p>> \in Seq(Packets) /\ msgs \in Seq(Packets)
  BY <1>3, PacketKinds, MsgsArePackets
<1>5. PICK pkts : pkts = <<p>> \o msgs
  OBVIOUS
<1>6. pkts \in Seq(Packets)
  BY <1>4, <1>5
<1>7. ASSUME NEW u \in 1..Len(pkts)
      PROVE  \/ pkts[u].cmd \in Asks
             \/ \E h \in AllGroups : /\ pkts[u] \in Kept(n, h, pkts[u].client)
                                     /\ pkts[u].client \in Clients
  <2>0. PICK one : one = <<p>>
    OBVIOUS
  <2>1. \/ u \in 1..Len(one) /\ pkts[u] = one[u]
        \/ \E v \in 1..Len(msgs) : u = Len(one) + v /\ pkts[u] = msgs[v]
    <3>1. u \in 1..Len(one \o msgs) /\ pkts = one \o msgs
      BY <1>5, <2>0
    <3> QED BY <1>4, <2>0, <3>1, ConcatPlaces
  <2>2. CASE pkts[u] = p
    BY <2>2
  <2>3. CASE \E v \in 1..Len(msgs) : pkts[u] = msgs[v]
    <3>1. PICK s \in Clients : pkts[u] \in Kept(n, g, s)
      BY <1>3, <2>3
    <3>2. pkts[u].client = s
      BY <1>1, <3>1, TypeInvIs DEF Kept
    <3> QED BY <3>1, <3>2
  <2>4. \A v \in 1..Len(one) : one[v] = p
    BY <2>0
  <2> QED BY <2>1, <2>2, <2>3, <2>4
<1>8. Flows({Down(c)}, pkts)
  BY <1>2, <1>5
<1> QED BY <1>6, <1>7, <1>8 DEF SendsHistory

\* Lemmas: the kind of each step that is not quiet.
LEMMA JoinSendKind ==
  ASSUME TypeInv, RestKept, NEW c \in Clients, JoinSend(c)
  PROVE  Quietly \/ SendsHistory
<1>1. UNCHANGED same
  BY DEF JoinSend, tables, same
<1>2. CASE Flows({}, <<>>)
  BY <1>1, <1>2, QuietlyNone
<1>3. CASE \E i \in 1..Len(join[c].rest) : Flows({Down(c)}, <<join[c].rest[i]>>)
  <2>1. PICK i \in 1..Len(join[c].rest) : Flows({Down(c)}, <<join[c].rest[i]>>)
    BY <1>3
  <2>2. PICK p : p = join[c].rest[i]
    OBVIOUS
  <2>3. join[c] \in JoinStates
    BY TypeInvIs
  <2>4. p \in Msgs
    BY <2>2, <2>3 DEF JoinStates
  <2>5. p \in Packets /\ p.client \in Clients /\ p.group \in AllGroups
    BY <2>4, PacketKinds DEF AllGroups
  <2>6. p \in Kept(Parent[c], p.group, p.client)
    BY <2>2 DEF RestKept
  <2>7. PICK pkts : pkts = <<p>>
    OBVIOUS
  <2>8. /\ pkts \in Seq(Packets) /\ \A u \in 1..Len(pkts) : pkts[u] = p
    BY <2>5, <2>7
  <2>9. \A u \in 1..Len(pkts) :
          \/ pkts[u].cmd \in Asks
          \/ \E g \in AllGroups : /\ pkts[u] \in Kept(Parent[c], g, pkts[u].client)
                                  /\ pkts[u].client \in Clients
    BY <2>5, <2>6, <2>8
  <2>10. Flows({Down(c)}, pkts)
    BY <2>1, <2>2, <2>7
  <2> QED BY <1>1, <2>8, <2>9, <2>10 DEF SendsHistory
<1> QED BY <1>2, <1>3, JoinSendTypes

\* Lemma: the root sends a history with the answer.
LEMMA RootJoinKind ==
  ASSUME TypeInv, NEW c \in Clients, RootJoin(c)
  PROVE  SendsHistory
<1>1. UNCHANGED same /\ Parent[c] = Root
  BY DEF RootJoin, same
<1> QED BY <1>1, RootJoinTypes, SendsHistoryIf

\* Lemma: so does UpDataLink to a client of its node.
LEMMA UpReplyKind ==
  ASSUME TypeInv, Placed, LookupOK, NEW m \in Children, UpReply(m)
  PROVE  Quietly \/ SendsHistory
<1>1. UNCHANGED same
  BY DEF UpReply, same
<1>2. PICK c : c = Head(queue[Down(m)]).client
  OBVIOUS
<1>3. c \in local[m] /\ lookup[m] \notin {"idle", "null"} /\ queue[Down(m)] # <<>>
  BY <1>2 DEF UpReply, Hears
<1>4. c \in Clients /\ Parent[c] = m
  BY <1>3, ChildEnds, TypeInvIs DEF Placed
<1>5. lookup[m] \in Chain[c] /\ Parent[lookup[m]] = m
  BY <1>2, <1>3 DEF LookupOK
<1>6. c \in Ends /\ c \in Chain[c]
  BY <1>4, ClientEnds, ChainRises
<1>7. lookup[m] = c
  BY <1>4, <1>5, <1>6, ChainInjective
<1>8. <<m, lookup[m]>> = Down(c)
  BY <1>4, <1>7 DEF Down
<1>9. PICK p \in Notes, g \in AllGroups :
        /\ p.cmd \in Asks
        /\ \/ Flows({Down(c)}, <<p>> \o getMsgs(m, g))
           \/ Flows({Down(c)}, <<p>>)
  BY <1>8, UpReplyTypes
<1>10. CASE Flows({Down(c)}, <<p>>)
  BY <1>1, <1>4, <1>9, <1>10, OwnDown, ClientEnds, QuietlyOne
<1>11. CASE Flows({Down(c)}, <<p>> \o getMsgs(m, g))
  BY <1>1, <1>4, <1>9, <1>11, SendsHistoryIf
<1> QED BY <1>9, <1>10, <1>11

\* Lemma: a client sends its own messages.
LEMMA SendKind ==
  ASSUME TypeInv, NEW c \in Clients, NEW cmd \in Kinds, NEW g \in Groups,
         Send(c, cmd, g)
  PROVE  Sends
<1>1. UNCHANGED same /\ conn[c] = "on"
  BY DEF Send, same, tables
<1> QED BY <1>1, SendTypes DEF Sends

\* Lemma: what is read from below or from above comes from there.
LEMMA ReadUpAway ==
  ASSUME TypeInv, Outward, NEW x \in Ends, NEW p, p = queue[Up(x)][1],
         1 \in 1..Len(queue[Up(x)]), Bound(p)
  PROVE  x \in Chain[p.client] /\ conn[p.client] # "off"
<1>1. Up(x) \in Links
  BY LinksDiffer
<1>2. Away(Up(x), p.client) /\ conn[p.client] # "off"
  BY <1>1 DEF Outward
<1> QED BY <1>2 DEF Away

\* Lemma: what comes from above is of nobody below.
LEMMA ReadDownAway ==
  ASSUME TypeInv, Outward, NEW m \in Children, NEW p, p = queue[Down(m)][1],
         1 \in 1..Len(queue[Down(m)]), Bound(p)
  PROVE  m \notin Chain[p.client] /\ conn[p.client] # "off"
<1>1. m \in Ends
  BY ChildEnds
<1>2. Down(m) \in Links
  BY <1>1, LinksDiffer
<1>3. Away(Down(m), p.client) /\ conn[p.client] # "off"
  BY <1>2 DEF Outward
<1> QED BY <1>1, <1>3 DEF Away

\* Lemma: the history after a message has been routed.
LEMMA RouteHistory ==
  ASSUME TypeInv, NEW n \in Nodes, NEW k, NEW p \in Msgs, NEW targets,
         Route(n, k, p, targets)
  PROVE  /\ UNCHANGED <<secoPPSet, got>>
         /\ \A x \in Nodes, g \in AllGroups, s \in Clients :
              history'[x][g][s] = history[x][g][s]
                \/ (x = n /\ g = p.group /\ s = p.client)
         /\ IF p.cmd = "NO_HISTORY_MSG" THEN history' = history
            ELSE \E g \in AllGroups : history'[n][g][p.client] # <<>>
<1>1. UNCHANGED <<secoPPSet, got>>
  BY DEF Route
<1>2. PICK h : \/ history' = history
               \/ history' = [history EXCEPT ![n][p.group][p.client] = h]
  BY Zenon DEF Route
<1>3. history \in [Nodes -> [AllGroups -> [Clients -> Seq(Msgs)]]]
  BY TypeInvIs
<1>4. p.group \in AllGroups /\ p.client \in Clients
  BY PacketKinds DEF AllGroups
<1>5. ASSUME NEW x \in Nodes, NEW g \in AllGroups, NEW s \in Clients
      PROVE  history'[x][g][s] = history[x][g][s]
               \/ (x = n /\ g = p.group /\ s = p.client)
  <2>1. CASE history' = history
    BY <2>1
  <2>2. CASE history' = [history EXCEPT ![n][p.group][p.client] = h]
    <3>1. history'[x] = IF x = n
            THEN [history[n] EXCEPT ![p.group][p.client] = h] ELSE history[x]
      BY <1>3, <2>2
    <3>2. history[n] \in [AllGroups -> [Clients -> Seq(Msgs)]]
      BY <1>3
    <3>3. [history[n] EXCEPT ![p.group][p.client] = h][g] = IF g = p.group
            THEN [history[n][g] EXCEPT ![p.client] = h] ELSE history[n][g]
      BY <1>4, <3>2
    <3>4. history[n][g] \in [Clients -> Seq(Msgs)]
      BY <3>2
    <3>5. s # p.client => [history[n][g] EXCEPT ![p.client] = h][s] = history[n][g][s]
      BY <3>4
    <3> QED BY <3>1, <3>3, <3>5
  <2> QED BY <1>2, <2>1, <2>2
<1>6. CASE p.cmd = "NO_HISTORY_MSG"
  <2>1. history' = history
    BY <1>6 DEF Route
  <2> QED BY <1>1, <1>5, <1>6, <2>1
<1>7. CASE p.cmd # "NO_HISTORY_MSG"
  <2>0. PICK old : old = history[n][p.group][p.client]
    OBVIOUS
  <2>a. PICK k2 : k2 = IF p.cmd = "SYNC_MSG" THEN <<p>> ELSE Append(old, p)
    OBVIOUS
  <2>1. /\ k2 = IF p.cmd = "SYNC_MSG" THEN <<p>> ELSE Append(old, p)
        /\ old = history[n][p.group][p.client]
        /\ history' = [history EXCEPT ![n][p.group][p.client] = k2]
    BY <1>7, <2>0, <2>a DEF Route
  <2>2. old \in Seq(Msgs) /\ history[n][p.group] \in [Clients -> Seq(Msgs)]
        /\ history[n] \in [AllGroups -> [Clients -> Seq(Msgs)]]
    BY <1>3, <1>4, <2>1
  <2>3. k2 # <<>>
    <3>1. Append(old, p) \in Seq(Msgs) /\ Len(Append(old, p)) = Len(old) + 1
          /\ Len(old) \in Nat
      BY <2>2
    <3>2. <<p>> # <<>> /\ Len(<<>>) = 0
      OBVIOUS
    <3>3. Append(old, p) # <<>>
      BY <3>1, <3>2
    <3> QED BY <2>1, <3>2, <3>3
  <2>4. history'[n] = [history[n] EXCEPT ![p.group][p.client] = k2]
    BY <1>3, <2>1
  <2>5. history'[n][p.group] = [history[n][p.group] EXCEPT ![p.client] = k2]
    BY <1>4, <2>2, <2>4
  <2>6. history'[n][p.group][p.client] = k2
    BY <1>4, <2>2, <2>5
  <2> QED BY <1>1, <1>4, <1>5, <1>7, <2>3, <2>6
<1> QED BY <1>6, <1>7

\* Lemma: messages that come from below are routed away from their senders.
LEMMA DownRouteKind ==
  ASSUME TypeInv, Placed, Outward, NEW x \in Ends, routeToGroup(x)
  PROVE  Routes
<1>1. PICK p \in Msgs :
        /\ p = queue[Up(x)][1] /\ 1 \in 1..Len(queue[Up(x)])
        /\ Route(Parent[x], Up(x), p, DownTargets(Parent[x], x, p.group))
        /\ Flows(DownTargets(Parent[x], x, p.group), <<p>>)
  BY DownRouteTypes
<1>2. /\ Up(x) \in Links /\ Parent[x] \in Nodes /\ status[Parent[x]] = "up"
      /\ Up(x)[2] = Parent[x]
  BY ReadsIs, LinkEnds DEF routeToGroup
<1>3. p.client \in Clients /\ Bound(p)
  BY PacketKinds DEF Bound
<1>4. x \in Chain[p.client]
  BY <1>1, <1>3, ReadUpAway
<1>5. PICK n, targets : n = Parent[x] /\ targets = DownTargets(n, x, p.group)
  OBVIOUS
<1>6. \A l \in targets : l[1] = n /\ Away(l, p.client)
  BY <1>3, <1>4, <1>5, DownTargetsAway
<1>7. Route(n, Up(x), p, targets) /\ Flows(targets, <<p>>) /\ n \in Nodes
  BY <1>1, <1>2, <1>5
<1>8. /\ UNCHANGED <<secoPPSet, got>>
      /\ \A y \in Nodes, g \in AllGroups, s \in Clients :
           history'[y][g][s] = history[y][g][s] \/ (y = n /\ s = p.client)
      /\ IF p.cmd = "NO_HISTORY_MSG" THEN history' = history
         ELSE \E g \in AllGroups : history'[n][g][p.client] # <<>>
  <2>1. PICK k : k = Up(x)
    OBVIOUS
  <2>2. Route(n, k, p, targets)
    BY <1>7, <2>1
  <2>3. /\ UNCHANGED <<secoPPSet, got>>
        /\ \A y \in Nodes, g \in AllGroups, s \in Clients :
             history'[y][g][s] = history[y][g][s]
               \/ (y = n /\ g = p.group /\ s = p.client)
        /\ IF p.cmd = "NO_HISTORY_MSG" THEN history' = history
           ELSE \E g \in AllGroups : history'[n][g][p.client] # <<>>
    BY <1>7, <2>2, RouteHistory
  <2> QED BY <2>3
<1>9. \A m \in Children : Down(m) \in targets => m \in secoPPSet[n]
  BY <1>5, <1>7, TargetsGreeted
<1> QED BY <1>1, <1>2, <1>5, <1>6, <1>7, <1>8, <1>9 DEF Routes

\* Lemma: and so are those from above.
LEMMA UpRouteKind ==
  ASSUME TypeInv, Placed, Outward, NEW m \in Children, RouteToGroup(m)
  PROVE  Routes
<1>1. PICK p \in Msgs :
        /\ p = queue[Down(m)][1] /\ 1 \in 1..Len(queue[Down(m)])
        /\ Route(m, Down(m), p, UpTargets(m, p.group))
        /\ Flows(UpTargets(m, p.group), <<p>>)
  BY UpRouteTypes
<1>2. Down(m) \in Links /\ m \in Nodes /\ status[m] = "up" /\ Down(m)[2] = m
  BY HearsIs, LinkEnds DEF RouteToGroup
<1>3. p.client \in Clients /\ Bound(p)
  BY PacketKinds DEF Bound
<1>4. m \notin Chain[p.client]
  BY <1>1, <1>3, ReadDownAway
<1>5. PICK targets : targets = UpTargets(m, p.group)
  OBVIOUS
<1>6. \A l \in targets : l[1] = m /\ Away(l, p.client)
  BY <1>3, <1>4, <1>5, UpTargetsAway
<1>7. /\ UNCHANGED <<secoPPSet, got>>
      /\ \A y \in Nodes, g \in AllGroups, s \in Clients :
           history'[y][g][s] = history[y][g][s] \/ (y = m /\ s = p.client)
      /\ IF p.cmd = "NO_HISTORY_MSG" THEN history' = history
         ELSE \E g \in AllGroups : history'[m][g][p.client] # <<>>
  <2>1. Route(m, Down(m), p, targets)
    BY <1>1, <1>5
  <2>2. PICK k : k = Down(m)
    OBVIOUS
  <2>3. Route(m, k, p, targets)
    BY <2>1, <2>2
  <2>4. /\ UNCHANGED <<secoPPSet, got>>
        /\ \A y \in Nodes, g \in AllGroups, s \in Clients :
             history'[y][g][s] = history[y][g][s]
               \/ (y = m /\ g = p.group /\ s = p.client)
        /\ IF p.cmd = "NO_HISTORY_MSG" THEN history' = history
           ELSE \E g \in AllGroups : history'[m][g][p.client] # <<>>
    BY <1>2, <2>3, RouteHistory
  <2> QED BY <2>4
<1>8. Flows(targets, <<p>>)
  BY <1>1, <1>5
<1>9. \A k \in Children : Down(k) \in targets => k \in secoPPSet[m]
  BY <1>2, <1>5, ChildEnds, TargetsGreeted
<1> QED BY <1>1, <1>2, <1>6, <1>7, <1>8, <1>9 DEF Routes

\* Lemma: a burial, once it is known how the node has learnt of it.
LEMMA BuriesIf ==
  ASSUME TypeInv, NEW n \in Nodes, status[n] = "up", NEW q \in Queues,
         \A l \in Links : Thins(q[l], queue[l]), NEW cs \in SUBSET Clients,
         \A s \in cs : conn[s] # "off" /\ Learns(n, q, s),
         NEW targets, \A l \in targets : l[1] = n /\ \A s \in cs : Away(l, s),
         Bury(n, q, cs, targets),
         \E news \in Obituaries(cs) :
           Flows(targets, news) /\ FlowsFrom(q, targets, news)
  PROVE  Buries
<1>1. PICK news \in Obituaries(cs) :
        Flows(targets, news) /\ FlowsFrom(q, targets, news)
  OBVIOUS
<1>2. CleanupTables(n, cs) /\ UNCHANGED <<secoPPSet, got>>
  BY DEF Bury
<1>3. \A x \in Nodes, g \in AllGroups, s \in Clients : history'[x][g][s] =
        IF x = n /\ s \in cs THEN <<>> ELSE history[x][g][s]
  BY <1>2, CleanupIs
<1>4. \E ws \in Obituaries(cs) :
         /\ status[n] = "up"
         /\ \A l \in Links : Thins(q[l], queue[l])
         /\ \A s \in cs : conn[s] # "off" /\ Learns(n, q, s)
         /\ Flows(targets, ws) /\ FlowsFrom(q, targets, ws)
         /\ \A l \in targets : l[1] = n /\ \A s \in cs : Away(l, s)
         /\ \A x \in Nodes, g \in AllGroups, s \in Clients : history'[x][g][s] =
              IF x = n /\ s \in cs THEN <<>> ELSE history[x][g][s]
  BY <1>1, <1>3
<1> QED BY <1>2, <1>4 DEF Buries

\* Lemma: the end of a client below is told to the others.
LEMMA DownGoneKind ==
  ASSUME TypeInv, Placed, Outward, NEW m \in Children, DownGone(m)
  PROVE  Buries
<1>1. PICK p \in Notes, q \in Queues :
        LET cs == {p.client}
            n == Parent[m]
            targets == DownTargets(n, m, DISCONNECTIONS) IN
        /\ p = queue[Up(m)][1] /\ 1 \in 1..Len(queue[Up(m)])
        /\ p.cmd = "CLIENT_DISCONNECTED"
        /\ q = Taken(Up(m)) /\ Bury(n, q, cs, targets)
        /\ \E news \in Obituaries(cs) :
             Flows(targets, news) /\ FlowsFrom(q, targets, news)
  BY DownGoneTypes
<1>2. PICK n, s, cs, targets :
        /\ n = Parent[m] /\ s = p.client /\ cs = {s}
        /\ targets = DownTargets(n, m, DISCONNECTIONS)
  OBVIOUS
<1>3. /\ p = queue[Up(m)][1] /\ 1 \in 1..Len(queue[Up(m)]) /\ IsEnd(p, s)
      /\ q = Taken(Up(m)) /\ Bury(n, q, cs, targets)
      /\ \E news \in Obituaries(cs) :
           Flows(targets, news) /\ FlowsFrom(q, targets, news)
  BY <1>1, <1>2 DEF IsEnd
<1>4. m \in Ends
  BY ChildEnds
<1>5. /\ Up(m) \in Links /\ n \in Nodes /\ status[n] = "up"
      /\ Up(m)[2] = n /\ queue[Up(m)] # <<>>
  BY <1>2, <1>4, ReadsIs, LinkEnds DEF DownGone
<1>6. s \in Clients /\ Bound(p)
  BY <1>2, <1>3, PacketKinds DEF Bound, IsEnd
<1>7. m \in Chain[s] /\ conn[s] # "off"
  BY <1>2, <1>3, <1>4, <1>6, ReadUpAway
<1>8. \A l \in targets : l[1] = n /\ Away(l, s)
  BY <1>2, <1>4, <1>6, <1>7, DownTargetsAway
<1>9. \A l \in Links : Thins(q[l], queue[l])
  BY <1>3, <1>5, TypeInvIs, TakenThins
<1>10. Learns(n, q, s)
  BY <1>3, <1>5 DEF Learns
<1>11. /\ cs \in SUBSET Clients
       /\ \A t \in cs : conn[t] # "off" /\ Learns(n, q, t)
       /\ \A l \in targets : l[1] = n /\ \A t \in cs : Away(l, t)
  BY <1>2, <1>6, <1>7, <1>8, <1>10
<1> QED BY <1>3, <1>5, <1>9, <1>11, BuriesIf

\* Lemma: the end of a client elsewhere is told to those below.
LEMMA UpGoneKind ==
  ASSUME TypeInv, Placed, Outward, NEW n \in Children, UpGone(n)
  PROVE  Buries
<1>1. PICK p \in Notes, q \in Queues :
        LET cs == {p.client}
            targets == UpTargets(n, DISCONNECTIONS) IN
        /\ p = queue[Down(n)][1] /\ 1 \in 1..Len(queue[Down(n)])
        /\ p.cmd = "CLIENT_DISCONNECTED"
        /\ q = Taken(Down(n)) /\ Bury(n, q, cs, targets)
        /\ \E news \in Obituaries(cs) :
             Flows(targets, news) /\ FlowsFrom(q, targets, news)
  BY UpGoneTypes
<1>2. PICK s, cs, targets :
        s = p.client /\ cs = {s} /\ targets = UpTargets(n, DISCONNECTIONS)
  OBVIOUS
<1>3. /\ p = queue[Down(n)][1] /\ 1 \in 1..Len(queue[Down(n)]) /\ IsEnd(p, s)
      /\ q = Taken(Down(n)) /\ Bury(n, q, cs, targets)
      /\ \E news \in Obituaries(cs) :
           Flows(targets, news) /\ FlowsFrom(q, targets, news)
  BY <1>1, <1>2 DEF IsEnd
<1>4. /\ Down(n) \in Links /\ n \in Nodes /\ status[n] = "up"
      /\ Down(n)[2] = n /\ queue[Down(n)] # <<>>
  BY HearsIs, LinkEnds DEF UpGone
<1>5. s \in Clients /\ Bound(p)
  BY <1>2, <1>3, PacketKinds DEF Bound, IsEnd
<1>6. n \notin Chain[s] /\ conn[s] # "off"
  BY <1>2, <1>3, <1>5, ReadDownAway
<1>7. \A l \in targets : l[1] = n /\ Away(l, s)
  BY <1>2, <1>5, <1>6, UpTargetsAway
<1>8. \A l \in Links : Thins(q[l], queue[l])
  BY <1>3, <1>4, TypeInvIs, TakenThins
<1>9. Learns(n, q, s)
  BY <1>3, <1>4 DEF Learns
<1>10. /\ cs \in SUBSET Clients
       /\ \A t \in cs : conn[t] # "off" /\ Learns(n, q, t)
       /\ \A l \in targets : l[1] = n /\ \A t \in cs : Away(l, t)
  BY <1>2, <1>5, <1>6, <1>7, <1>9
<1> QED BY <1>3, <1>4, <1>8, <1>10, BuriesIf

\* Lemma: the end of a client of the node itself.
LEMMA ClientGoneKind ==
  ASSUME TypeInv, Placed, NEW c \in Clients, ClientGone(c)
  PROVE  Buries
<1>1. PICK n, cs, targets :
        /\ n = Parent[c] /\ cs = {c}
        /\ targets = DownTargets(n, c, DISCONNECTIONS)
  OBVIOUS
<1>2. PICK q \in Queues :
        /\ q = [queue EXCEPT ![Up(c)] = <<>>] /\ Bury(n, q, cs, targets)
        /\ \E news \in Obituaries(cs) :
             Flows(targets, news) /\ FlowsFrom(q, targets, news)
  BY <1>1, ClientGoneTypes
<1>3. c \in Ends /\ n \in Nodes /\ Up(c) \in Links /\ c \in Chain[c]
  BY <1>1, ClientEnds, LinksDiffer, ChainRises
<1>4. status[n] = "up" /\ conn[c] = "closed" /\ conn'[c] = "gone"
  BY <1>1, TypeInvIs DEF ClientGone
<1>5. \A l \in targets : l[1] = n /\ Away(l, c)
  BY <1>1, <1>3, DownTargetsAway
<1>6. \A l \in Links : Thins(q[l], queue[l])
  BY <1>2, <1>3, TypeInvIs, EmptiedThins
<1>7. Learns(n, q, c)
  BY <1>1, <1>2, <1>3, <1>4 DEF Learns
<1>8. /\ cs \in SUBSET Clients
      /\ \A t \in cs : conn[t] # "off" /\ Learns(n, q, t)
      /\ \A l \in targets : l[1] = n /\ \A t \in cs : Away(l, t)
  BY <1>1, <1>4, <1>5, <1>7
<1> QED BY <1>2, <1>3, <1>4, <1>6, <1>8, BuriesIf

\* Lemma: and of the clients of a child node that has ended.
LEMMA NodeGoneKind ==
  ASSUME TypeInv, Placed, NEW m \in Children, NodeGone(m)
  PROVE  Buries
<1>1. PICK n, targets :
        n = Parent[m] /\ targets = DownTargets(n, m, DISCONNECTIONS)
  OBVIOUS
<1>2. PICK q \in Queues, cs \in SUBSET Clients :
        /\ cs = myClients[m]
        /\ q = [queue EXCEPT ![Up(m)] = <<>>] /\ Bury(n, q, cs, targets)
        /\ \E news \in Obituaries(cs) :
             Flows(targets, news) /\ FlowsFrom(q, targets, news)
  BY <1>1, NodeGoneTypes
<1>3. m \in Ends /\ n \in Nodes /\ Up(m) \in Links /\ m \notin Clients
  BY <1>1, ChildEnds, LinksDiffer
<1>4. status[n] = "up" /\ status[m] = "down"
  BY <1>1 DEF NodeGone
<1>5. \A s \in cs : s \in Clients /\ m \in Chain[s] /\ conn[s] # "off"
  BY <1>2 DEF Placed
<1>6. \A l \in targets : l[1] = n /\ \A s \in cs : Away(l, s)
  <2> SUFFICES ASSUME NEW l \in targets
               PROVE  l[1] = n /\ \A s \in cs : Away(l, s)
    OBVIOUS
  <2>1. \A s \in cs : l[1] = n /\ Away(l, s)
    BY <1>1, <1>3, <1>5, DownTargetsAway
  <2>2. l[1] = n
    BY <1>1, <1>3, DownTargetsFrom
  <2> QED BY <2>1, <2>2
<1>7. \A l \in Links : Thins(q[l], queue[l])
  BY <1>2, <1>3, TypeInvIs, EmptiedThins
<1>8. \A s \in cs : Learns(n, q, s)
  <2> SUFFICES ASSUME NEW s \in cs
               PROVE  Learns(n, q, s)
    OBVIOUS
  <2>1. m \in Chain[s] /\ m # s /\ Parent[m] = n /\ Dead(m)
    BY <1>1, <1>3, <1>4, <1>5 DEF Dead
  <2> QED BY <1>2, <2>1 DEF Learns
<1>9. \A s \in cs : conn[s] # "off" /\ Learns(n, q, s)
  BY <1>5, <1>8
<1> QED BY <1>2, <1>3, <1>4, <1>6, <1>7, <1>9, BuriesIf

\* Nothing is kept or buried: requests, answers and histories are sent, a
\* client receives, or a node starts ...
Calm == Quietly \/ SendsHistory \/ Synchronizes \/ Receives \/ Starts

\* ... a client sends a message, or a node routes one.
Sending ==
  \E c \in Clients, cmd \in Kinds, g \in Groups : Send(c, cmd, g)
Routing ==
  \/ \E x \in Ends : routeToGroup(x)
  \/ \E m \in Children : RouteToGroup(m)

\* Lemma: every step buries somebody or is one of these.
LEMMA StepCases ==
  ASSUME TypeInv, Placed, Outward, RestKept, LookupOK, [Next]_vars
  PROVE  Burial \/ Calm \/ Sending \/ Routing
<1> USE DEF Calm
<1>1. CASE UNCHANGED vars
  <2>1. UNCHANGED same /\ Flows({}, <<>>)
    BY <1>1, TypeInvIs, FlowsNot DEF vars, tables, same
  <2> QED BY <2>1, QuietlyNone
<1>2. ASSUME NEW c \in Clients, ClientLink(c)
      PROVE  Burial \/ Calm \/ Sending \/ Routing
  <2>0. c \in Ends
    BY ClientEnds
  <2>1. CASE RootJoin(c)
    BY <2>1, RootJoinKind
  <2>2. CASE KnownJoin(c)
    <3>1. UNCHANGED same
      BY <2>2 DEF KnownJoin, same
    <3> QED BY <2>2, <3>1, KnownJoinTypes, QuietlyNone
  <2>3. CASE JoinStep(c)
    <3>1. CASE JoinReply(c)
      <4>1. UNCHANGED same
        BY <3>1 DEF JoinReply, tables, same
      <4> QED BY <3>1, <4>1, <2>0, OwnDown,
               JoinReplyTypes, QuietlyOne
    <3>2. CASE JoinHistory(c)
      <4>1. UNCHANGED same
        BY <3>2 DEF JoinHistory, tables, same
      <4> QED BY <3>2, <4>1, JoinHistoryTypes, QuietlyNone
    <3>3. CASE JoinSend(c)
      BY <3>3, JoinSendKind
    <3> QED BY <2>3, <3>1, <3>2, <3>3 DEF JoinStep
  <2>4. CASE DownReply(c)
    <3>1. UNCHANGED same
      BY <2>4 DEF DownReply, same
    <3> QED BY <2>0, <2>4, <3>1, OwnDown,
             DownReplyTypes, QuietlyOne
  <2>5. CASE DownForward(c)
    <3>1. UNCHANGED same
      BY <2>5 DEF DownForward, tables, same
    <3>2. Own({Up(Parent[c])})
      BY <2>0, <2>5, TreeAssumption, OwnDown DEF DownForward, Nodes, Ends
    <3> QED BY <2>0, <2>5, <3>1, <3>2,
             DownForwardTypes, QuietlyOne
  <2>6. CASE leaveGroup(c)
    <3>1. UNCHANGED same
      BY <2>6 DEF leaveGroup, same
    <3> QED BY <2>6, <3>1, LeaveGroupTypes, QuietlyNone
  <2>7. CASE routeToGroup(c)
    BY <2>0, <2>7 DEF Routing
  <2>8. CASE IgnoreMessage(c)
    <3>1. UNCHANGED same
      BY <2>8 DEF IgnoreMessage, tables, same
    <3> QED BY <2>8, <3>1, IgnoreMessageTypes, QuietlyNone
  <2>9. CASE ClientGone(c)
    BY <2>9 DEF Burial
  <2> QED BY <1>2, <2>1, <2>2, <2>3, <2>4, <2>5, <2>6, <2>7, <2>8, <2>9
          DEF ClientLink
<1>3. ASSUME NEW m \in Children, ChildLink(m)
      PROVE  Burial \/ Calm \/ Sending \/ Routing
  <2>0. m \in Ends
    BY ChildEnds
  <2>1. CASE synchronizeNewSeCo(m)
    BY <2>1 DEF Synchronizes
  <2>2. CASE DownReply(m)
    <3>1. UNCHANGED same
      BY <2>2 DEF DownReply, same
    <3> QED BY <2>0, <2>2, <3>1, OwnDown,
             DownReplyTypes, QuietlyOne
  <2>3. CASE DownForward(m)
    <3>1. UNCHANGED same
      BY <2>3 DEF DownForward, tables, same
    <3>2. Own({Up(Parent[m])})
      BY <2>0, <2>3, TreeAssumption, OwnDown DEF DownForward, Nodes, Ends
    <3> QED BY <2>0, <2>3, <3>1, <3>2,
             DownForwardTypes, QuietlyOne
  <2>4. CASE routeToGroup(m)
    BY <2>0, <2>4 DEF Routing
  <2>5. CASE DownGone(m)
    BY <2>5 DEF Burial
  <2>6. CASE NodeGone(m)
    BY <2>6 DEF Burial
  <2> QED BY <1>3, <2>1, <2>2, <2>3, <2>4, <2>5, <2>6 DEF ChildLink
<1>4. ASSUME NEW m \in Children, Ended(m), exited' \subseteq Children
      PROVE  Burial \/ Calm \/ Sending \/ Routing
  <2>1. UNCHANGED same
    BY <1>4 DEF Ended, tables, same
  <2> QED BY <1>4, <2>1, EndedTypes, QuietlyNone
<1>5. ASSUME NEW m \in Children, UpLink(m)
      PROVE  Burial \/ Calm \/ Sending \/ Routing
  <2>1. CASE RouteToGroup(m)
    BY <2>1 DEF Routing
  <2>2. CASE UpGone(m)
    BY <2>2 DEF Burial
  <2>3. CASE UpLookup(m)
    <3>1. UNCHANGED same
      BY <2>3 DEF UpLookup, tables, same
    <3> QED BY <2>3, <3>1, UpLookupTypes, QuietlyNone
  <2>4. CASE UpReply(m)
    BY <2>4, UpReplyKind
  <2>5. CASE UpForward(m)
    <3>1. UNCHANGED same
      BY <2>5 DEF UpForward, tables, same
    <3>2. Own({<<m, lookup[m]>>})
      BY ChildEnds DEF Own
    <3> QED BY <2>5, <3>1, <3>2,
             UpForwardTypes, QuietlyOne
  <2>6. CASE UpNoRoute(m)
    <3>1. Ended(m) /\ exited' \subseteq Children
      BY <2>6, TypeInvIs DEF UpNoRoute
    <3> QED BY <1>4, <3>1
  <2> QED BY <1>5, <2>1, <2>2, <2>3, <2>4, <2>5, <2>6 DEF UpLink
<1>6. ASSUME NEW c \in Clients, Connect(c) \/ Disconnect(c)
      PROVE  Burial \/ Calm \/ Sending \/ Routing
  <2>1. UNCHANGED same
    BY <1>6 DEF Connect, Disconnect, tables, same
  <2> QED BY <1>6, <2>1, ConnectTypes, DisconnectTypes, QuietlyNone
<1>7. ASSUME NEW c \in Clients, Request(c)
      PROVE  Burial \/ Calm \/ Sending \/ Routing
  <2>1. UNCHANGED same
    BY <1>7 DEF Request, tables, same
  <2>2. Own({Up(c)})
    BY <1>7, LinkEnds DEF Own, Request
  <2> QED BY <1>7, <2>1, <2>2,
           RequestTypes, QuietlyOne
<1>8. ASSUME NEW m \in Children, NodeFail(m)
      PROVE  Burial \/ Calm \/ Sending \/ Routing
  <2>1. Ended(m) /\ exited' \subseteq Children
    BY <1>8, TypeInvIs DEF NodeFail
  <2> QED BY <1>4, <2>1
<1>9. ASSUME NEW c \in Clients, NEW cmd \in Kinds, NEW g \in Groups, Send(c, cmd, g)
      PROVE  Burial \/ Calm \/ Sending \/ Routing
  BY <1>9 DEF Sending
<1>10. ASSUME NEW c \in Clients, ClientReceive(c)
       PROVE  Burial \/ Calm \/ Sending \/ Routing
  BY <1>10 DEF Receives
<1>11. ASSUME NEW m \in Children, NodeStart(m)
       PROVE  Burial \/ Calm \/ Sending \/ Routing
  BY <1>11 DEF Starts
<1> QED BY <1>1, <1>2, <1>3, <1>5, <1>6, <1>7, <1>8, <1>9, <1>10, <1>11 DEF Next

\* Lemma: so every step buries somebody or is of one of these kinds.
LEMMA StepKinds ==
  ASSUME TypeInv, Placed, Outward, RestKept, LookupOK, [Next]_vars
  PROVE  Burial \/ OtherKinds
<1>1. CASE Sending
  BY <1>1, SendKind DEF Sending, OtherKinds
<1>2. CASE Routing
  BY <1>2, DownRouteKind, UpRouteKind DEF Routing, OtherKinds
<1>3. CASE Calm
  BY <1>3, Zenon DEF Calm, OtherKinds
<1> QED BY <1>1, <1>2, <1>3, StepCases

\* Lemma: and so, every step is of one of these kinds.
LEMMA StepsAreKinds ==
  ASSUME TypeInv, Placed, Outward, RestKept, LookupOK, [Next]_vars
  PROVE  KindsOfSteps
BY StepKinds, DownGoneKind, UpGoneKind, NodeGoneKind, ClientGoneKind
   DEF Burial, KindsOfSteps

\* Lemma: a node that starts says hello.
LEMMA NodeStartFlows ==
  ASSUME TypeInv, NEW m \in Children, NodeStart(m)
  PROVE  /\ UNCHANGED same /\ status[m] = "off"
         /\ \E hello \in Hellos : /\ Flows({Up(m)}, <<hello>>)
                                  /\ queue'[Up(m)] = <<hello>>
         /\ \A l \in Links : l # Up(m) => queue'[l] = queue[l]
<1>1. PICK hello : hello = Packet("HELLO_SECO", Root, DISCONNECTIONS, 0)
  OBVIOUS
<1>2. hello \in Hellos
  BY <1>1 DEF Packet, Hellos
<1>3. UNCHANGED same /\ status[m] = "off" /\ status[Parent[m]] = "up"
  BY DEF NodeStart, tables, same
<1>4. queue' = [queue EXCEPT ![Up(m)] = <<hello>>]
  BY <1>1 DEF NodeStart
<1>5. queue \in Queues /\ Up(m) \in Links /\ queue' \in Queues
  <2>1. TypeInv'
    BY NodeStartTypes
  <2>2. queue' \in Queues
    BY <2>1 DEF TypeInv
  <2> QED BY <2>2, TypeInvIs, LinksDiffer, ChildEnds
<1>6. /\ queue'[Up(m)] = <<hello>>
      /\ \A l \in Links : l # Up(m) => queue'[l] = queue[l]
  BY <1>4, <1>5 DEF Queues
<1>7. Parent[m] \notin Clients
  BY TreeAssumption, ChildEnds DEF Nodes, Ends
<1>8. Open(Up(m))
  BY <1>3, <1>7, LinkEnds DEF Open
<1>9. Thins(<<hello>>, queue[Up(m)] \o <<hello>>)
  <2>1. PICK s : s = queue[Up(m)]
    OBVIOUS
  <2>2. s \in Seq(Cargoes) /\ <<hello>> \in Seq(Cargoes)
    BY <1>2, <1>5, <2>1 DEF Queues, Cargoes
  <2>3. Thins(<<>>, s) /\ Thins(<<hello>>, <<hello>>) /\ <<>> \in Seq(Cargoes)
    BY <2>2, ThinsNone, ThinsSelf, CargoSeqs
  <2>4. Thins(<<>> \o <<hello>>, s \o <<hello>>)
    BY <2>2, <2>3, ThinsBoth
  <2>5. <<>> \o <<hello>> = <<hello>>
    OBVIOUS
  <2> QED BY <2>1, <2>4, <2>5
<1>10. Flows({Up(m)}, <<hello>>)
  <2>1. ASSUME NEW l \in Links
        PROVE  \/ Thins(queue'[l], queue[l])
               \/ /\ l \in {Up(m)} /\ Open(l)
                  /\ Thins(queue'[l], queue[l] \o <<hello>>)
    <3>1. CASE l = Up(m)
      BY <1>6, <1>8, <1>9, <3>1
    <3>2. CASE l # Up(m)
      BY <1>5, <1>6, <3>2, QueueThins
    <3> QED BY <3>1, <3>2
  <2> QED BY <1>5, <2>1 DEF Flows
<1> QED BY <1>2, <1>3, <1>6, <1>10

----------------------------------------------------------------------------
(* The invariants are kept *)

\* Lemma: every step keeps HelloFirst.
LEMMA HelloFirstStep ==
  ASSUME TypeInv, TypeInv', HelloFirst, Onward, KindsOfSteps
  PROVE  HelloFirst'
<1>1. ASSUME secoPPSet' = secoPPSet,
             \E links : \E pkts \in Seq(Packets) : Flows(links, pkts)
      PROVE  HelloFirst'
  BY <1>1, HelloFirstKept
<1>2. CASE Quietly
  BY <1>1, <1>2 DEF Quietly, same
<1>3. CASE SendsHistory
  BY <1>1, <1>3 DEF SendsHistory, same
<1>4. CASE Sends \/ Routes
  <2>1. secoPPSet' = secoPPSet
    BY <1>4 DEF Sends, Routes, same
  <2>a. PICK p \in Msgs : \E links : Flows(links, <<p>>)
    BY <1>4 DEF Sends, Routes
  <2>2. PICK links : Flows(links, <<p>>)
    BY <2>a
  <2>3. <<p>> \in Seq(Packets)
    BY PacketKinds
  <2> QED BY <1>1, <2>1, <2>2, <2>3
<1>5. CASE Buries
  <2>1. PICK cs, links : \E news \in Obituaries(cs) : Flows(links, news)
    BY <1>5 DEF Buries
  <2>2. PICK news \in Obituaries(cs) : Flows(links, news)
    BY <2>1
  <2>3. news \in Seq(Packets)
    BY DEF Obituaries, Packets
  <2> QED BY <1>1, <1>5, <2>2, <2>3 DEF Buries
<1>6. CASE Receives
  <2>1. PICK c \in Clients : ClientReceive(c)
    BY <1>6 DEF Receives
  <2>2. secoPPSet' = secoPPSet
    BY <2>1 DEF ClientReceive, tables
  <2>3. <<>> \in Seq(Packets)
    OBVIOUS
  <2> QED BY <1>1, <2>1, <2>2, <2>3, ClientReceiveTypes
<1>7. CASE Synchronizes
  <2>1. PICK k \in Children : synchronizeNewSeCo(k)
    BY <1>7 DEF Synchronizes
  <2>2. PICK n, msgs : n = Parent[k] /\ msgs = getAllMsgs(n)
    OBVIOUS
  <2>3. /\ k \in Ends /\ Up(k) \in Links /\ Down(k) \in Links /\ n \in Nodes
        /\ queue[Up(k)] # <<>> /\ Head(queue[Up(k)]).cmd = "HELLO_SECO"
    BY <2>1, <2>2, ChildEnds, ReadsIs DEF synchronizeNewSeCo
  <2>4. secoPPSet' = [secoPPSet EXCEPT ![n] = secoPPSet[n] \cup {k}]
    BY <2>1, <2>2 DEF synchronizeNewSeCo
  <2>5. queue' = Sent(Taken(Up(k)), {Down(k)}, msgs)
    BY <2>1, <2>2 DEF synchronizeNewSeCo
  <2>6. msgs \in Seq(Msgs) /\ msgs \in Seq(Packets)
    BY <2>2, <2>3, HistoriesAre, MsgsArePackets
  <2>7. queue \in Queues
    BY TypeInvIs
  <2>8. PICK q : q = Taken(Up(k))
    OBVIOUS
  <2>9. /\ q \in Queues
        /\ \A l \in Links : q[l] = IF l = Up(k) THEN Tail(queue[l]) ELSE queue[l]
    BY <2>3, <2>7, <2>8, TakenIs
  <2>10. \A l \in Links : queue'[l] =
           IF l \in {Down(k)} /\ Open(l) THEN q[l] \o msgs ELSE q[l]
    BY <2>5, <2>6, <2>8, <2>9, SentIs
  <2>11. ASSUME NEW m \in Children
         PROVE  queue'[Up(m)] = IF m = k THEN Tail(queue[Up(m)]) ELSE queue[Up(m)]
    <3>1. m \in Ends
      BY ChildEnds
    <3>2. Up(m) \in Links /\ Up(m) # Down(k) /\ (Up(m) = Up(k) => m = k)
      BY <2>3, <3>1, LinksDiffer
    <3> QED BY <2>9, <2>10, <3>2
  <2>12. queue[Up(k)][1].cmd = "HELLO_SECO" /\ 1 \in 1..Len(queue[Up(k)])
    BY <2>3, <2>7, HeadIs
  <2>13. status[k] # "off"
    BY <2>12 DEF HelloFirst
  <2>14. ASSUME NEW m \in Children
         PROVE  /\ \A i \in 1..Len(queue'[Up(m)]) :
                     queue'[Up(m)][i].cmd = "HELLO_SECO" =>
                       /\ i = 1 /\ m \notin secoPPSet'[Parent[m]]
                       /\ status'[m] # "off"
                /\ status'[m] = "off" => m \notin secoPPSet'[Parent[m]]
    <3>0. m \in Nodes /\ Parent[m] \in Nodes /\ m \in Ends /\ k \in Nodes
      BY ChildEnds
    <3>1. secoPPSet \in [Nodes -> SUBSET Children]
      BY TypeInvIs
    <3>2. CASE m = k
      <4>1. PICK s : s = queue[Up(k)]
        OBVIOUS
      <4>2. s \in Seq(Cargoes) /\ s # <<>>
        BY <2>3, <2>7, <4>1 DEF Queues, Cargoes
      <4>3. ASSUME NEW i \in 1..Len(Tail(s))
            PROVE  Tail(s)[i].cmd # "HELLO_SECO"
        <5>1. Tail(s)[i] = s[i + 1] /\ i + 1 \in 1..Len(s) /\ i + 1 # 1
          BY <4>2
        <5>2. PICK j : j = i + 1
          OBVIOUS
        <5>3. \A j2 \in 1..Len(queue[Up(k)]) :
                queue[Up(k)][j2].cmd = "HELLO_SECO" => j2 = 1
          BY DEF HelloFirst
        <5> QED BY <4>1, <5>1, <5>2, <5>3
      <4>4. status'[m] # "off"
        BY <2>13, <3>0, <3>2 DEF Onward
      <4> QED BY <2>11, <3>2, <4>1, <4>3, <4>4
    <3>3. CASE m # k
      <4>1. m \in secoPPSet'[Parent[m]] => m \in secoPPSet[Parent[m]]
        BY <2>3, <2>4, <3>0, <3>1, <3>3
      <4>2. queue'[Up(m)] = queue[Up(m)]
        BY <2>11, <3>3
      <4> QED BY <3>0, <4>1, <4>2 DEF HelloFirst, Onward
    <3> QED BY <3>2, <3>3
  <2> QED BY <2>14 DEF HelloFirst
<1>8. CASE Starts
  <2>1. PICK k \in Children : NodeStart(k)
    BY <1>8 DEF Starts
  <2>2. PICK hello \in Hellos : queue'[Up(k)] = <<hello>>
    BY <2>1, NodeStartFlows
  <2>3. /\ UNCHANGED same /\ status[k] = "off" /\ status'[k] = "up"
        /\ \A l \in Links : l # Up(k) => queue'[l] = queue[l]
    <3>1. k \in Nodes
      BY ChildEnds
    <3>2. status'[k] = "up"
      BY <2>1, <3>1, TypeInvIs DEF NodeStart
    <3> QED BY <2>1, <3>2, NodeStartFlows
  <2>4. ASSUME NEW m \in Children
        PROVE  /\ \A i \in 1..Len(queue'[Up(m)]) :
                    queue'[Up(m)][i].cmd = "HELLO_SECO" =>
                      /\ i = 1 /\ m \notin secoPPSet'[Parent[m]]
                      /\ status'[m] # "off"
               /\ status'[m] = "off" => m \notin secoPPSet'[Parent[m]]
    <3>0. m \in Nodes /\ m \in Ends /\ k \in Ends /\ Up(m) \in Links
      BY ChildEnds, LinksDiffer
    <3>1. secoPPSet' = secoPPSet
      BY <2>3 DEF same
    <3>2. CASE m = k
      <4>1. m \notin secoPPSet[Parent[m]]
        BY <2>3, <3>2 DEF HelloFirst
      <4>2. \A i \in 1..Len(<<hello>>) : i = 1
        OBVIOUS
      <4> QED BY <2>2, <2>3, <3>1, <3>2, <4>1, <4>2
    <3>3. CASE m # k
      <4>1. queue'[Up(m)] = queue[Up(m)]
        BY <2>3, <3>0, <3>3, LinksDiffer
      <4> QED BY <3>0, <3>1, <4>1 DEF HelloFirst, Onward
    <3> QED BY <3>2, <3>3
  <2> QED BY <2>4 DEF HelloFirst
<1> QED BY <1>2, <1>3, <1>4, <1>5, <1>6, <1>7, <1>8 DEF KindsOfSteps, OtherKinds

\* Lemma: Outward holds initially.
LEMMA OutwardInit ==
  ASSUME Init
  PROVE  Outward
<1>1. \A l \in Links : Len(queue[l]) = 0
  BY DEF Init
<1>2. \A n \in Nodes, g \in AllGroups, s \in Clients : history[n][g][s] = <<>>
  BY DEF Init
<1> QED BY <1>1, <1>2 DEF Outward

\* Lemma: Outward stays when what is sent goes away from its client.
LEMMA OutwardKept ==
  ASSUME TypeInv, TypeInv', Outward, Onward,
         NEW links, NEW pkts \in Seq(Cargoes), Flows(links, pkts),
         \A u \in 1..Len(pkts) : Bound(pkts[u]) =>
           /\ pkts[u].client \in Clients /\ conn[pkts[u].client] # "off"
           /\ \A l \in links : Away(l, pkts[u].client),
         \A n \in Nodes, g \in AllGroups, s \in Clients :
           history'[n][g][s] # <<>> => history[n][g][s] # <<>> \/ conn[s] # "off"
  PROVE  Outward'
<1>1. ASSUME NEW l \in Links, NEW i \in 1..Len(queue'[l]), Bound(queue'[l][i])
      PROVE  /\ Away(l, queue'[l][i].client)
             /\ conn'[queue'[l][i].client] # "off"
  <2>1. PICK p : p = queue'[l][i]
    OBVIOUS
  <2>2. \/ \E k \in 1..Len(queue[l]) : p = queue[l][k]
        \/ l \in links /\ \E u \in 1..Len(pkts) : p = pkts[u]
    BY <2>1, FlowHolds
  <2>3. Away(l, p.client) /\ conn[p.client] # "off"
    BY <1>1, <2>1, <2>2 DEF Outward
  <2>4. p.client \in Clients
    <3>1. queue' \in Queues
      BY DEF TypeInv
    <3>2. p \in Cargoes
      BY <2>1, <3>1 DEF Queues, Cargoes
    <3> QED BY <1>1, <2>1, <3>2, PacketKinds DEF Cargoes, Packets, Bound, MsgCommands
  <2> QED BY <2>1, <2>3, <2>4 DEF Onward
<1>2. \A n \in Nodes, g \in AllGroups, s \in Clients :
        history'[n][g][s] # <<>> => conn'[s] # "off"
  BY DEF Outward, Onward
<1> QED BY <1>1, <1>2 DEF Outward

\* Lemma: a message of the histories is its sender's, who has connected.
LEMMA KeptIs ==
  ASSUME TypeInv, Outward, NEW n \in Nodes, NEW g \in AllGroups, NEW s \in Clients,
         NEW p \in Kept(n, g, s)
  PROVE  p.client = s /\ p.group = g /\ conn[s] # "off" /\ history[n][g][s] # <<>>
<1>1. p.client = s /\ p.group = g
  BY TypeInvIs DEF Kept
<1>2. history[n][g][s] # <<>>
  BY DEF Kept, ToSet
<1> QED BY <1>1, <1>2 DEF Outward

\* Lemma: the histories that a new node gets go away from their senders, as
\* nobody can have connected through it.
LEMMA SynchronizeFacts ==
  ASSUME TypeInv, Placed, HelloFirst, Outward, NEW m \in Children,
         synchronizeNewSeCo(m)
  PROVE  /\ UNCHANGED <<history, got>> /\ status[Parent[m]] = "up"
         /\ \E pkts \in Seq(Packets) :
              /\ Flows({Down(m)}, pkts)
              /\ \A u \in 1..Len(pkts) :
                   /\ pkts[u].client \in Clients /\ conn[pkts[u].client] # "off"
                   /\ Away(Down(m), pkts[u].client)
                   /\ \E g \in AllGroups :
                        pkts[u] \in Kept(Parent[m], g, pkts[u].client)
                   /\ pkts[u].cmd \in MsgCommands
<1>1. PICK n, pkts : n = Parent[m] /\ pkts = getAllMsgs(n)
  OBVIOUS
<1>2. /\ m \in Ends /\ m \notin Clients /\ n \in Nodes /\ queue[Up(m)] # <<>>
      /\ status[n] = "up" /\ Head(queue[Up(m)]).cmd = "HELLO_SECO"
      /\ Up(m) \in Links
  BY <1>1, ChildEnds, ReadsIs DEF synchronizeNewSeCo
<1>3. UNCHANGED <<history, got>>
  BY DEF synchronizeNewSeCo
<1>4. /\ pkts \in Seq(Msgs) /\ pkts \in Seq(Packets)
      /\ \A i \in 1..Len(pkts) : \E g \in AllGroups, c \in Clients :
           pkts[i] \in Kept(n, g, c)
  BY <1>1, <1>2, HistoriesAre, MsgsArePackets
<1>5. m \notin secoPPSet[n]
  <2>1. Head(queue[Up(m)]) = queue[Up(m)][1] /\ 1 \in 1..Len(queue[Up(m)])
    BY <1>2, TypeInvIs, HeadIs
  <2> QED BY <1>1, <1>2, <2>1 DEF HelloFirst
<1>6. Flows({Down(m)}, pkts)
  BY <1>1, SynchronizeTypes
<1>7. ASSUME NEW u \in 1..Len(pkts)
      PROVE  /\ pkts[u].client \in Clients /\ conn[pkts[u].client] # "off"
             /\ Away(Down(m), pkts[u].client)
             /\ \E g \in AllGroups : pkts[u] \in Kept(n, g, pkts[u].client)
             /\ pkts[u].cmd \in MsgCommands
  <2>1. PICK g \in AllGroups, s \in Clients : pkts[u] \in Kept(n, g, s)
    BY <1>4
  <2>2. pkts[u].client = s /\ conn[s] # "off"
    BY <1>2, <2>1, KeptIs
  <2>3. m \notin Chain[s]
    BY <1>1, <1>2, <1>5, <2>2 DEF Placed
  <2>4. Away(Down(m), s)
    BY <1>2, <2>3, DownChildAway
  <2>5. pkts[u] \in Msgs
    BY <1>4
  <2> QED BY <2>1, <2>2, <2>4, <2>5, PacketKinds
<1> QED BY <1>1, <1>2, <1>3, <1>4, <1>6, <1>7

\* Lemma: and every step keeps it.
LEMMA OutwardStep ==
  ASSUME TypeInv, TypeInv', Placed, HelloFirst, Outward, Onward, KindsOfSteps
  PROVE  Outward'
<1>0. \A p \in Packets : p.cmd \in Asks => ~Bound(p)
  BY DEF Asks, Bound, MsgCommands
<1>1. ASSUME history' = history
      PROVE  \A n \in Nodes, g \in AllGroups, s \in Clients :
        history'[n][g][s] # <<>> => history[n][g][s] # <<>> \/ conn[s] # "off"
  BY <1>1
<1>2. CASE Quietly
  <2>1. PICK links : \E pkts \in Seq(Packets) :
          Flows(links, pkts) /\ \A u \in 1..Len(pkts) : pkts[u].cmd \in Asks
    BY <1>2 DEF Quietly
  <2>2. PICK pkts \in Seq(Packets) :
          Flows(links, pkts) /\ \A u \in 1..Len(pkts) : pkts[u].cmd \in Asks
    BY <2>1
  <2>3. \A u \in 1..Len(pkts) : ~Bound(pkts[u])
    BY <1>0, <2>2
  <2> QED BY <1>1, <1>2, <2>2, <2>3, CargoSeqs, OutwardKept DEF Quietly, same
<1>3. CASE SendsHistory
  <2>1. PICK c \in Clients, pkts \in Seq(Packets) :
          /\ Flows({Down(c)}, pkts)
          /\ \A u \in 1..Len(pkts) :
               \/ pkts[u].cmd \in Asks
               \/ \E g \in AllGroups :
                    /\ pkts[u] \in Kept(Parent[c], g, pkts[u].client)
                    /\ pkts[u].client \in Clients
    BY <1>3 DEF SendsHistory
  <2>2. ASSUME NEW u \in 1..Len(pkts), Bound(pkts[u])
        PROVE  /\ pkts[u].client \in Clients /\ conn[pkts[u].client] # "off"
               /\ \A l \in {Down(c)} : Away(l, pkts[u].client)
    <3>1. pkts[u].cmd \notin Asks
      BY <1>0, <2>2
    <3>2. PICK g \in AllGroups :
            /\ pkts[u] \in Kept(Parent[c], g, pkts[u].client)
            /\ pkts[u].client \in Clients
      BY <2>1, <3>1
    <3>3. conn[pkts[u].client] # "off"
      BY <3>2, ClientEnds, KeptIs
    <3> QED BY <3>2, <3>3, DownClientAway
  <2> QED BY <1>1, <1>3, <2>1, <2>2, CargoSeqs, OutwardKept DEF SendsHistory, same
<1>4. CASE Synchronizes
  <2>1. PICK m \in Children : synchronizeNewSeCo(m)
    BY <1>4 DEF Synchronizes
  <2>2. PICK pkts \in Seq(Packets) :
          /\ Flows({Down(m)}, pkts)
          /\ \A u \in 1..Len(pkts) :
               /\ pkts[u].client \in Clients /\ conn[pkts[u].client] # "off"
               /\ Away(Down(m), pkts[u].client)
    BY <2>1, SynchronizeFacts
  <2>3. history' = history
    BY <2>1, SynchronizeFacts
  <2> QED BY <1>1, <2>2, <2>3, CargoSeqs, OutwardKept
<1>5. CASE Sends
  <2>1. PICK c \in Clients, p \in Msgs :
          p.client = c /\ conn[c] = "on" /\ Flows({Up(c)}, <<p>>)
    BY <1>5 DEF Sends
  <2>2. c \in Ends /\ c \in Chain[c]
    BY ClientEnds, ChainRises
  <2>3. Away(Up(c), c)
    BY <2>2, UpAway
  <2>4. PICK pkts : pkts = <<p>>
    OBVIOUS
  <2>5. pkts \in Seq(Cargoes) /\ \A u \in 1..Len(pkts) : pkts[u] = p
    BY <2>4, CargoSeqs
  <2>6. Flows({Up(c)}, pkts)
    BY <2>1, <2>4
  <2>7. \A u \in 1..Len(pkts) : Bound(pkts[u]) =>
          /\ pkts[u].client \in Clients /\ conn[pkts[u].client] # "off"
          /\ \A l \in {Up(c)} : Away(l, pkts[u].client)
    BY <2>1, <2>3, <2>5
  <2> QED BY <1>1, <1>5, <2>5, <2>6, <2>7, OutwardKept DEF Sends, same
<1>6. CASE Routes
  <2>1. PICK n \in Nodes, k \in Links, p \in Msgs : \E targets :
          /\ 1 \in 1..Len(queue[k]) /\ p = queue[k][1]
          /\ Flows(targets, <<p>>)
          /\ \A l \in targets : l[1] = n /\ Away(l, p.client)
          /\ \A x \in Nodes, g \in AllGroups, s \in Clients :
               history'[x][g][s] = history[x][g][s] \/ (x = n /\ s = p.client)
    BY <1>6 DEF Routes
  <2>2. PICK targets :
          /\ 1 \in 1..Len(queue[k]) /\ p = queue[k][1]
          /\ Flows(targets, <<p>>)
          /\ \A l \in targets : l[1] = n /\ Away(l, p.client)
          /\ \A x \in Nodes, g \in AllGroups, s \in Clients :
               history'[x][g][s] = history[x][g][s] \/ (x = n /\ s = p.client)
    BY <2>1
  <2>3. p.client \in Clients /\ Bound(p)
    BY PacketKinds DEF Bound
  <2>4. conn[p.client] # "off"
    BY <2>2, <2>3 DEF Outward
  <2>5. PICK pkts : pkts = <<p>>
    OBVIOUS
  <2>6. pkts \in Seq(Cargoes) /\ \A u \in 1..Len(pkts) : pkts[u] = p
    BY <2>5, CargoSeqs
  <2>7. Flows(targets, pkts)
    BY <2>2, <2>5
  <2>8. \A u \in 1..Len(pkts) : Bound(pkts[u]) =>
          /\ pkts[u].client \in Clients /\ conn[pkts[u].client] # "off"
          /\ \A l \in targets : Away(l, pkts[u].client)
    BY <2>2, <2>3, <2>4, <2>6
  <2>9. \A x \in Nodes, g \in AllGroups, s \in Clients :
          history'[x][g][s] # <<>> => history[x][g][s] # <<>> \/ conn[s] # "off"
    BY <2>2, <2>4
  <2> QED BY <2>6, <2>7, <2>8, <2>9, OutwardKept
<1>7. CASE Buries
  <2>a. PICK n \in Nodes, q \in Queues, cs \in SUBSET Clients : \E targets :
          \E news \in Obituaries(cs) :
            /\ \A s \in cs : conn[s] # "off"
            /\ Flows(targets, news)
            /\ \A l \in targets : \A s \in cs : Away(l, s)
            /\ \A x \in Nodes, g \in AllGroups, s \in Clients :
                 history'[x][g][s] =
                   IF x = n /\ s \in cs THEN <<>> ELSE history[x][g][s]
    BY <1>7 DEF Buries
  <2>1. PICK targets : \E news \in Obituaries(cs) :
            /\ \A s \in cs : conn[s] # "off"
            /\ Flows(targets, news)
            /\ \A l \in targets : \A s \in cs : Away(l, s)
            /\ \A x \in Nodes, g \in AllGroups, s \in Clients :
                 history'[x][g][s] =
                   IF x = n /\ s \in cs THEN <<>> ELSE history[x][g][s]
    BY <2>a
  <2>2. PICK news \in Obituaries(cs) :
          /\ \A s \in cs : conn[s] # "off"
          /\ Flows(targets, news)
          /\ \A l \in targets : \A s \in cs : Away(l, s)
          /\ \A x \in Nodes, g \in AllGroups, s \in Clients :
               history'[x][g][s] =
                 IF x = n /\ s \in cs THEN <<>> ELSE history[x][g][s]
    BY <2>1
  <2>3. /\ news \in Seq(Cargoes)
        /\ \A u \in 1..Len(news) : news[u].client \in cs
    BY DEF Obituaries, Cargoes, Packets
  <2>4. \A u \in 1..Len(news) : Bound(news[u]) =>
          /\ news[u].client \in Clients /\ conn[news[u].client] # "off"
          /\ \A l \in targets : Away(l, news[u].client)
    BY <2>2, <2>3
  <2>5. \A x \in Nodes, g \in AllGroups, s \in Clients :
          history'[x][g][s] # <<>> => history[x][g][s] # <<>> \/ conn[s] # "off"
    BY <2>2
  <2> QED BY <2>2, <2>3, <2>4, <2>5, OutwardKept
<1>8. CASE Receives
  <2>1. PICK c \in Clients : ClientReceive(c)
    BY <1>8 DEF Receives
  <2>2. history' = history
    BY <2>1 DEF ClientReceive, tables
  <2>3. PICK pkts, links : pkts = <<>> /\ links = {}
    OBVIOUS
  <2>4. pkts \in Seq(Cargoes) /\ 1..Len(pkts) = {} /\ Flows(links, pkts)
    BY <2>1, <2>3, CargoSeqs, ClientReceiveTypes
  <2> QED BY <1>1, <2>2, <2>4, OutwardKept
<1>9. CASE Starts
  <2>1. PICK m \in Children : NodeStart(m)
    BY <1>9 DEF Starts
  <2>2. PICK hello \in Hellos : Flows({Up(m)}, <<hello>>)
    BY <2>1, NodeStartFlows
  <2>3. history' = history
    BY <2>1, NodeStartFlows DEF same
  <2>4. PICK pkts : pkts = <<hello>>
    OBVIOUS
  <2>5. pkts \in Seq(Cargoes) /\ \A u \in 1..Len(pkts) : ~Bound(pkts[u])
    BY <2>4 DEF Cargoes, Hellos, Bound, MsgCommands
  <2>6. Flows({Up(m)}, pkts)
    BY <2>2, <2>4
  <2> QED BY <1>1, <2>3, <2>5, <2>6, OutwardKept
<1> QED BY <1>2, <1>3, <1>4, <1>5, <1>6, <1>7, <1>8, <1>9 DEF KindsOfSteps, OtherKinds

\* Lemma: RestKept holds initially.
LEMMA RestKeptInit ==
  ASSUME Init
  PROVE  RestKept
<1>1. \A c \in Clients : join[c].rest = <<>> /\ Len(<<>>) = 0
  BY DEF Init, Idle
<1> QED BY <1>1 DEF RestKept

\* Lemma: what is left to send stays kept when none of it is new and no
\* history changes.
LEMMA RestThinner ==
  ASSUME TypeInv, RestKept, history' = history,
         \A c \in Clients : Thins(join'[c].rest, join[c].rest)
  PROVE  RestKept'
<1>1. ASSUME NEW c \in Clients, NEW i \in 1..Len(join'[c].rest)
      PROVE  join'[c].rest[i] \in ToSet(
               history'[Parent[c]][join'[c].rest[i].group][join'[c].rest[i].client])
  <2>1. PICK s, t : s = join[c].rest /\ t = join'[c].rest
    OBVIOUS
  <2>2. PICK at \in [1..Len(t) -> 1..Len(s)] :
          \A j \in 1..Len(t) : t[j] = s[at[j]]
    BY <2>1 DEF Thins
  <2>3. at[i] \in 1..Len(s) /\ t[i] = s[at[i]]
    BY <2>1, <2>2
  <2>4. PICK p : p = t[i]
    OBVIOUS
  <2>5. p \in Kept(Parent[c], p.group, p.client)
    BY <2>1, <2>3, <2>4 DEF RestKept
  <2> QED BY <2>1, <2>4, <2>5 DEF Kept
<1> QED BY <1>1 DEF RestKept, Kept

\* Lemma: nor when what leaves a history is deprecated.
LEMMA RestWithout ==
  ASSUME TypeInv, RestKept, NEW n \in Nodes, NEW D, join' = JoinWithout(n, D),
         \A x \in Nodes, g \in AllGroups, s \in Clients :
           \A p \in Kept(x, g, s) : p \in Kept(x, g, s)' \/ (x = n /\ p \in D)
  PROVE  RestKept'
<1>1. join \in [Clients -> JoinStates]
  BY TypeInvIs
<1>2. ASSUME NEW c \in Clients, NEW i \in 1..Len(join'[c].rest)
      PROVE  join'[c].rest[i] \in ToSet(
               history'[Parent[c]][join'[c].rest[i].group][join'[c].rest[i].client])
  <2>1. PICK s, t : s = join[c].rest /\ t = join'[c].rest
    OBVIOUS
  <2>2. t = IF Parent[c] = n THEN Purged(s, D) ELSE s
    BY <1>1, <2>1, JoinWithoutIs
  <2>3. s \in Seq(Msgs)
    <3>1. join[c] \in JoinStates
      BY <1>1
    <3> QED BY <2>1, <3>1 DEF JoinStates
  <2>4. /\ Thins(t, s)
        /\ Parent[c] = n => \A j \in 1..Len(t) : t[j] \notin D
    BY <2>2, <2>3, PurgedThins, ThinsSelf
  <2>5. PICK at \in [1..Len(t) -> 1..Len(s)] :
          \A j \in 1..Len(t) : t[j] = s[at[j]]
    BY <2>4 DEF Thins
  <2>6. at[i] \in 1..Len(s) /\ t[i] = s[at[i]]
    BY <2>1, <2>5
  <2>7. PICK p : p = t[i]
    OBVIOUS
  <2>8. p \in Kept(Parent[c], p.group, p.client)
    BY <2>1, <2>6, <2>7 DEF RestKept
  <2>9. p \in Msgs
    BY <2>3, <2>6, <2>7
  <2>10. p.group \in AllGroups /\ p.client \in Clients /\ Parent[c] \in Nodes
    BY <2>9, PacketKinds, ClientEnds DEF AllGroups
  <2>11. Parent[c] = n => p \notin D
    BY <2>1, <2>4, <2>7
  <2>12. p \in Kept(Parent[c], p.group, p.client)'
    BY <2>8, <2>10, <2>11
  <2> QED BY <2>1, <2>7, <2>12 DEF Kept
<1> QED BY <1>2 DEF RestKept, Kept

\* Lemma: a routed message: what the history loses is what SYNC_MSG cleans.
LEMMA RouteRest ==
  ASSUME TypeInv, RestKept, NEW n \in Nodes, NEW k, NEW p \in Msgs, NEW targets,
         Route(n, k, p, targets)
  PROVE  RestKept'
<1>1. PICK D : D = IF p.cmd = "SYNC_MSG" THEN Kept(n, p.group, p.client) ELSE {}
  OBVIOUS
<1>2. join' = JoinWithout(n, D)
  BY <1>1 DEF Route
<1>3. p.group \in AllGroups /\ p.client \in Clients
  BY PacketKinds DEF AllGroups
<1>4. \A x \in Nodes, g \in AllGroups, s \in Clients :
        history'[x][g][s] = history[x][g][s]
          \/ (x = n /\ g = p.group /\ s = p.client)
  BY RouteHistory
<1>5. \A u \in Kept(n, p.group, p.client) :
        u \in Kept(n, p.group, p.client)' \/ u \in D
  <2>1. CASE p.cmd = "SYNC_MSG"
    BY <1>1, <2>1
  <2>2. CASE p.cmd = "NO_HISTORY_MSG"
    <3>1. history' = history
      BY <2>2 DEF Route
    <3> QED BY <3>1 DEF Kept
  <2>3. CASE p.cmd \notin {"SYNC_MSG", "NO_HISTORY_MSG"}
    <3>1. PICK h : h = Append(history[n][p.group][p.client], p)
      OBVIOUS
    <3>2. history' = [history EXCEPT ![n][p.group][p.client] = h]
      BY <2>3, <3>1 DEF Route
    <3>3. history \in [Nodes -> [AllGroups -> [Clients -> Seq(Msgs)]]]
      BY TypeInvIs
    <3>4. history'[n] = [history[n] EXCEPT ![p.group][p.client] = h]
      BY <3>2, <3>3
    <3>5. history[n] \in [AllGroups -> [Clients -> Seq(Msgs)]]
      BY <3>3
    <3>6. history'[n][p.group] = [history[n][p.group] EXCEPT ![p.client] = h]
      BY <1>3, <3>4, <3>5
    <3>7. history[n][p.group] \in [Clients -> Seq(Msgs)]
      BY <1>3, <3>5
    <3>8. history'[n][p.group][p.client] = h
      BY <1>3, <3>6, <3>7
    <3>9. ToSet(h) = ToSet(history[n][p.group][p.client]) \cup {p}
      BY <1>3, <3>1, <3>7, AppendHolds
    <3> QED BY <3>8, <3>9 DEF Kept
  <2> QED BY <2>1, <2>2, <2>3
<1>6. \A x \in Nodes, g \in AllGroups, s \in Clients :
        \A u \in Kept(x, g, s) : u \in Kept(x, g, s)' \/ (x = n /\ u \in D)
  BY <1>4, <1>5 DEF Kept
<1> QED BY <1>2, <1>6, RestWithout

\* Lemma: a burial: what the histories lose is what cleanupClient marks.
LEMMA BuryRest ==
  ASSUME TypeInv, RestKept, NEW n \in Nodes, NEW q, NEW cs \in SUBSET Clients,
         NEW targets, Bury(n, q, cs, targets)
  PROVE  RestKept'
<1>1. PICK D : D = KeptFrom(n, cs)
  OBVIOUS
<1>2. join' = JoinWithout(n, D) /\ CleanupTables(n, cs)
  BY <1>1 DEF Bury
<1>3. \A x \in Nodes, g \in AllGroups, s \in Clients : history'[x][g][s] =
        IF x = n /\ s \in cs THEN <<>> ELSE history[x][g][s]
  BY <1>2, CleanupIs
<1>4. \A x \in Nodes, g \in AllGroups, s \in Clients :
        \A u \in Kept(x, g, s) : u \in Kept(x, g, s)' \/ (x = n /\ u \in D)
  <2> SUFFICES ASSUME NEW x \in Nodes, NEW g \in AllGroups, NEW s \in Clients,
                      NEW u \in Kept(x, g, s)
               PROVE  u \in Kept(x, g, s)' \/ (x = n /\ u \in D)
    OBVIOUS
  <2>1. CASE x = n /\ s \in cs
    BY <1>1, <2>1 DEF KeptFrom
  <2>2. CASE ~(x = n /\ s \in cs)
    BY <1>3, <2>2 DEF Kept
  <2> QED BY <2>1, <2>2
<1> QED BY <1>2, <1>4, RestWithout

\* Lemma: every step keeps RestKept.
LEMMA RestKeptStep ==
  ASSUME TypeInv, RestKept, [Next]_vars
  PROVE  RestKept'
<1>0. /\ join \in [Clients -> JoinStates]
      /\ \A c \in Clients : join[c].rest \in Seq(Msgs)
  <2>1. join \in [Clients -> JoinStates]
    BY TypeInvIs
  <2> QED BY <2>1 DEF JoinStates
<1>1. ASSUME history' = history,
             \A c \in Clients : join'[c].rest \in {<<>>, join[c].rest}
      PROVE  RestKept'
  <2>1. \A c \in Clients : Thins(join'[c].rest, join[c].rest)
    <3> SUFFICES ASSUME NEW c \in Clients
                 PROVE  Thins(join'[c].rest, join[c].rest)
      OBVIOUS
    <3>1. join'[c].rest = <<>> \/ join'[c].rest = join[c].rest
      BY <1>1
    <3> QED BY <1>0, <3>1, ThinsSelf, ThinsNone
  <2> QED BY <1>1, <2>1, RestThinner
<1>2. ASSUME UNCHANGED <<join, history>>
      PROVE  RestKept'
  BY <1>1, <1>2
<1>3. ASSUME NEW c \in Clients, JoinStep(c)
      PROVE  RestKept'
  <2>1. CASE JoinReply(c)
    <3>1. history' = history
      BY <2>1 DEF JoinReply, tables
    <3>2. join' = [join EXCEPT ![c].pc = "history"]
      BY <2>1 DEF JoinReply
    <3>3. join[c] \in JoinStates
      BY <1>0
    <3>4. [join[c] EXCEPT !.pc = "history"].rest = join[c].rest
      BY <3>3 DEF JoinStates
    <3>5. \A d \in Clients : join'[d].rest = join[d].rest
      BY <1>0, <3>2, <3>4
    <3> QED BY <1>1, <3>1, <3>5
  <2>2. CASE JoinHistory(c)
    <3>1. PICK n, g, msgs : n = Parent[c] /\ g = join[c].group /\ msgs = getMsgs(n, g)
      OBVIOUS
    <3>2. join[c] \in JoinStates /\ g \in AllGroups /\ n \in Nodes
      BY <1>0, <3>1, ClientEnds DEF JoinStates
    <3>3. history' = history
      BY <2>2 DEF JoinHistory, tables
    <3>4. join' = [join EXCEPT ![c] = [[@ EXCEPT !.pc = "send"] EXCEPT !.rest = msgs]]
      BY <2>2, <3>1 DEF JoinHistory
    <3>5. [[join[c] EXCEPT !.pc = "send"] EXCEPT !.rest = msgs].rest = msgs
      BY <3>2 DEF JoinStates
    <3>6. \A d \in Clients : join'[d].rest = IF d = c THEN msgs ELSE join[d].rest
      BY <1>0, <3>4, <3>5
    <3>7. /\ msgs \in Seq(Msgs)
          /\ \A i \in 1..Len(msgs) : \E s \in Clients : msgs[i] \in Kept(n, g, s)
      BY <3>1, <3>2, HistoriesAre
    <3>8. ASSUME NEW d \in Clients, NEW i \in 1..Len(join'[d].rest)
          PROVE  join'[d].rest[i] \in ToSet(
            history'[Parent[d]][join'[d].rest[i].group][join'[d].rest[i].client])
      <4>1. CASE d = c
        <5>1. PICK p : p = join'[d].rest[i]
          OBVIOUS
        <5>2. i \in 1..Len(msgs) /\ p = msgs[i]
          BY <3>6, <4>1, <5>1
        <5>3. PICK s \in Clients : p \in Kept(n, g, s)
          BY <3>7, <5>2
        <5>4. p.client = s /\ p.group = g
          BY <3>2, <5>3, TypeInvIs DEF Kept
        <5> QED BY <3>1, <3>3, <4>1, <5>1, <5>3, <5>4 DEF Kept
      <4>2. CASE d # c
        <5>1. join'[d].rest = join[d].rest
          BY <3>6, <4>2
        <5> QED BY <3>3, <5>1 DEF RestKept, Kept
      <4> QED BY <4>1, <4>2
    <3> QED BY <3>8 DEF RestKept, Kept
  <2>3. CASE JoinSend(c)
    <3>1. history' = history
      BY <2>3 DEF JoinSend, tables
    <3> QED BY <2>3, <3>1, JoinSendTypes, RestThinner
  <2> QED BY <1>3, <2>1, <2>2, <2>3 DEF JoinStep
<1>4. ASSUME NEW c \in Clients, ClientLink(c)
      PROVE  RestKept'
  <2>0. c \in Ends /\ Parent[c] \in Nodes
    BY ClientEnds
  <2>1. CASE KnownJoin(c)
    <3>1. history' = history
      BY <2>1 DEF KnownJoin
    <3>2. PICK g : join' = [join EXCEPT ![c] =
                              [pc |-> "reply", group |-> g, rest |-> <<>>]]
      BY <2>1 DEF KnownJoin
    <3>3. \A d \in Clients : join'[d].rest = IF d = c THEN <<>> ELSE join[d].rest
      BY <1>0, <3>2
    <3> QED BY <1>1, <3>1, <3>3
  <2>2. CASE routeToGroup(c)
    <3>1. PICK p \in Msgs :
            Route(Parent[c], Up(c), p, DownTargets(Parent[c], c, p.group))
      BY <2>0, <2>2, DownRouteTypes
    <3> QED BY <2>0, <3>1, RouteRest
  <2>3. CASE ClientGone(c)
    <3>1. {c} \in SUBSET Clients
      OBVIOUS
    <3>2. PICK cs, n, q, targets : /\ n = Parent[c] /\ cs = {c}
                                   /\ Bury(n, q, cs, targets)
      BY <2>3 DEF ClientGone
    <3> QED BY <2>0, <3>1, <3>2, BuryRest
  <2>4. CASE ~(KnownJoin(c) \/ routeToGroup(c) \/ ClientGone(c) \/ JoinStep(c))
    <3>1. UNCHANGED <<join, history>>
      BY <1>4, <2>4 DEF ClientLink, RootJoin, DownReply, DownForward, leaveGroup,
         IgnoreMessage, tables
    <3> QED BY <1>2, <3>1
  <2> QED BY <1>3, <2>1, <2>2, <2>3, <2>4
<1>5. ASSUME NEW m \in Children, ChildLink(m)
      PROVE  RestKept'
  <2>0. m \in Ends /\ Parent[m] \in Nodes
    BY ChildEnds
  <2>1. CASE routeToGroup(m)
    <3>1. PICK p \in Msgs :
            Route(Parent[m], Up(m), p, DownTargets(Parent[m], m, p.group))
      BY <2>0, <2>1, DownRouteTypes
    <3> QED BY <2>0, <3>1, RouteRest
  <2>2. CASE DownGone(m)
    <3>1. PICK p \in Notes, q \in Queues :
            Bury(Parent[m], q, {p.client}, DownTargets(Parent[m], m, DISCONNECTIONS))
      BY <2>2, DownGoneTypes
    <3>2. {p.client} \in SUBSET Clients
      BY PacketKinds
    <3> QED BY <2>0, <3>1, <3>2, BuryRest
  <2>3. CASE NodeGone(m)
    <3>1. PICK q \in Queues, cs \in SUBSET Clients :
            Bury(Parent[m], q, cs, DownTargets(Parent[m], m, DISCONNECTIONS))
      BY <2>3, NodeGoneTypes
    <3> QED BY <2>0, <3>1, BuryRest
  <2>4. CASE ~(routeToGroup(m) \/ DownGone(m) \/ NodeGone(m))
    <3>1. UNCHANGED <<join, history>>
      BY <1>5, <2>4 DEF ChildLink, synchronizeNewSeCo, DownReply, DownForward,
         tables
    <3> QED BY <1>2, <3>1
  <2> QED BY <2>1, <2>2, <2>3, <2>4
<1>6. ASSUME NEW m \in Children, Ended(m)
      PROVE  RestKept'
  <2>1. history' = history
    BY <1>6 DEF Ended, tables
  <2>2. \A c \in Clients : join'[c] = IF Parent[c] = m THEN Idle ELSE join[c]
    BY <1>6 DEF Ended
  <2>3. \A c \in Clients : join'[c].rest \in {<<>>, join[c].rest}
    BY <2>2 DEF Idle
  <2> QED BY <1>1, <2>1, <2>3
<1>7. ASSUME NEW m \in Children, UpLink(m)
      PROVE  RestKept'
  <2>0. m \in Nodes
    BY ChildEnds
  <2>1. CASE RouteToGroup(m)
    <3>1. PICK p \in Msgs : Route(m, Down(m), p, UpTargets(m, p.group))
      BY <2>1, UpRouteTypes
    <3> QED BY <2>0, <3>1, RouteRest
  <2>2. CASE UpGone(m)
    <3>1. PICK p \in Notes, q \in Queues :
            Bury(m, q, {p.client}, UpTargets(m, DISCONNECTIONS))
      BY <2>2, UpGoneTypes
    <3>2. {p.client} \in SUBSET Clients
      BY PacketKinds
    <3> QED BY <2>0, <3>1, <3>2, BuryRest
  <2>3. CASE UpNoRoute(m)
    BY <1>6, <2>3 DEF UpNoRoute
  <2>4. CASE ~(RouteToGroup(m) \/ UpGone(m) \/ UpNoRoute(m))
    <3>1. UNCHANGED <<join, history>>
      BY <1>7, <2>4 DEF UpLink, UpLookup, UpReply, UpForward, tables
    <3> QED BY <1>2, <3>1
  <2> QED BY <2>1, <2>2, <2>3, <2>4
<1>8. ASSUME NEW c \in Clients,
             \/ Connect(c) \/ Request(c) \/ ClientReceive(c) \/ Disconnect(c)
             \/ \E cmd \in Kinds, g \in Groups : Send(c, cmd, g)
      PROVE  RestKept'
  <2>1. UNCHANGED <<join, history>>
    BY <1>8 DEF Connect, Request, ClientReceive, Disconnect, Send, tables
  <2> QED BY <1>2, <2>1
<1>9. ASSUME NEW m \in Children, NodeStart(m) \/ NodeFail(m)
      PROVE  RestKept'
  <2>1. CASE NodeStart(m)
    BY <1>2, <2>1 DEF NodeStart, tables
  <2>2. CASE NodeFail(m)
    BY <1>6, <2>2 DEF NodeFail
  <2> QED BY <1>9, <2>1, <2>2
<1>10. CASE UNCHANGED vars
  BY <1>2, <1>10 DEF vars, tables
<1> QED BY <1>4, <1>5, <1>7, <1>8, <1>9, <1>10 DEF Next

\* Lemma: LookupOK holds initially.
LEMMA LookupInit ==
  ASSUME Init
  PROVE  LookupOK
BY DEF Init, LookupOK

\* Lemma: PPSender.run does not skip the first packet unless it is deprecated.
LEMMA SkippedHead ==
  ASSUME NEW S, NEW s \in Seq(S), NEW k \in 0..Len(s), NEW D, s # <<>>,
         Head(s) \notin D
  PROVE  Skipped(s, k, D) # <<>> /\ Head(Skipped(s, k, D)) = Head(s)
<1>0. Len(s) \in Nat /\ Len(s) >= 1 /\ Head(s) = s[1] /\ k \in Nat
  OBVIOUS
<1>1. PICK a, b, c : /\ a = SubSeq(s, 1, k) /\ b = SubSeq(s, k + 1, Len(s))
                     /\ c = Purged(b, D)
  OBVIOUS
<1>2. a \in Seq(S) /\ b \in Seq(S)
  BY <1>0, <1>1
<1>3. c \in Seq(S) /\ Sifts(c, b, D)
  BY <1>1, <1>2, PurgedSifts
<1>4. Skipped(s, k, D) = a \o c
  BY <1>1 DEF Skipped
<1>5. CASE k >= 1
  <2>1. Len(a) = k /\ a[1] = s[1]
    BY <1>0, <1>1, <1>5
  <2>2. a \o c # <<>> /\ Head(a \o c) = a[1]
    BY <1>2, <1>3, <1>5, <2>1
  <2> QED BY <1>0, <1>4, <2>1, <2>2
<1>6. CASE k = 0
  <2>1. a = <<>> /\ b = s
    BY <1>0, <1>1, <1>6
  <2>9. Sifts(c, s, D)
    BY <1>3, <2>1
  <2>2. PICK at \in [1..Len(c) -> 1..Len(s)] :
          /\ \A i, j \in 1..Len(c) : i < j => at[i] < at[j]
          /\ \A i \in 1..Len(c) : c[i] = s[at[i]]
          /\ \A j \in 1..Len(s) : s[j] \notin D <=> \E i \in 1..Len(c) : at[i] = j
    BY <2>9 DEF Sifts
  <2>3. PICK i \in 1..Len(c) : at[i] = 1
    BY <1>0, <2>2
  <2>4. Len(c) \in Nat /\ 1 \in 1..Len(c)
    BY <1>3, <2>3
  <2>5. i = 1
    <3>1. at[1] \in 1..Len(s)
      BY <2>2, <2>4
    <3>2. CASE 1 < i
      <4>1. at[1] < at[i]
        BY <2>2, <2>4, <3>2
      <4> QED BY <1>0, <2>3, <3>1, <4>1
    <3> QED BY <2>4, <3>2
  <2>6. c[1] = s[1]
    BY <2>2, <2>3, <2>4, <2>5
  <2>7. a \o c = c
    BY <1>3, <2>1
  <2>8. c # <<>> /\ Head(c) = c[1]
    BY <1>3, <2>4
  <2> QED BY <1>0, <1>4, <2>6, <2>7, <2>8
<1> QED BY <1>0, <1>5, <1>6

\* Lemma: nor do the deprecations of a node take another packet from the head.
LEMMA DeprecationsHead ==
  ASSUME NEW q \in Queues, NEW n, NEW D, NEW r \in Deprecations(q, n, D),
         NEW l \in Links
  PROVE  /\ q[l] = <<>> => r[l] = <<>>
         /\ q[l] # <<>> /\ Head(q[l]) \notin D =>
              r[l] # <<>> /\ Head(r[l]) = Head(q[l])
<1>1. q[l] \in Seq(Cargoes)
  BY DEF Queues, Cargoes
<1>2. r[l] = q[l] \/ \E k \in 0..Len(q[l]) : /\ r[l] = Skipped(q[l], k, D)
                                           /\ ToSet(q[l]) \cap D # {}
  <2>1. PICK touched : touched = {x \in Links : /\ x[1] = n
                                                /\ ToSet(q[x]) \cap D # {}}
    OBVIOUS
  <2>2. PICK k \in [touched -> UNION {0..Len(q[x]) : x \in touched}] :
          /\ \A x \in touched : k[x] <= Len(q[x])
          /\ r = [x \in Links |-> IF x \in touched THEN Skipped(q[x], k[x], D)
                                                   ELSE q[x]]
    BY <2>1 DEF Deprecations
  <2>3. CASE l \in touched
    <3>1. k[l] \in UNION {0..Len(q[x]) : x \in touched} /\ k[l] <= Len(q[l])
      BY <2>2, <2>3
    <3>2. PICK x \in touched : k[l] \in 0..Len(q[x])
      BY <3>1
    <3>3. Len(q[l]) \in Nat
      BY <1>1
    <3>4. k[l] \in Nat
      BY <3>2
    <3>5. k[l] \in 0..Len(q[l])
      BY <3>1, <3>3, <3>4
    <3>6. r[l] = Skipped(q[l], k[l], D)
      BY <2>2, <2>3
    <3> QED BY <2>1, <2>3, <3>5, <3>6
  <2>4. CASE l \notin touched
    BY <2>2, <2>4
  <2> QED BY <2>3, <2>4
<1>3. CASE r[l] = q[l]
  BY <1>3
<1>4. CASE \E k \in 0..Len(q[l]) : /\ r[l] = Skipped(q[l], k, D)
                                 /\ ToSet(q[l]) \cap D # {}
  <2>1. PICK s : s = q[l]
    OBVIOUS
  <2>2. PICK k \in 0..Len(s) : r[l] = Skipped(s, k, D)
    BY <1>4, <2>1
  <2>3. s # <<>>
    BY <1>4, <2>1 DEF ToSet
  <2>4. Head(s) \notin D => r[l] # <<>> /\ Head(r[l]) = Head(s)
    BY <1>1, <2>1, <2>2, <2>3, SkippedHead
  <2> QED BY <2>1, <2>3, <2>4
<1> QED BY <1>2, <1>3, <1>4

\* The next packet of every UpDataLink that has looked up a way is still the
\* same in q.
HeadKept(q) ==
  \A m \in Children : lookup'[m] \notin {"idle", "null"} =>
    /\ lookup'[m] = lookup[m]
    /\ queue[Down(m)] = <<>> => q[Down(m)] = <<>>
    /\ queue[Down(m)] # <<>> /\ Head(queue[Down(m)]).cmd \in Asks =>
         q[Down(m)] # <<>> /\ Head(q[Down(m)]) = Head(queue[Down(m)])

\* Lemma: then LookupOK stays if the nodes that send are alive.
LEMMA LookupKept ==
  ASSUME TypeInv, LookupOK, Onward, NEW q \in Queues, HeadKept(q),
         NEW links, NEW pkts \in Seq(Packets),
         \A l \in Links : queue'[l] = IF l \in links /\ Open(l)
                                      THEN q[l] \o pkts ELSE q[l],
         \A m \in Children : Down(m) \in links => ~Dead(Parent[m])
  PROVE  LookupOK'
<1>1. ASSUME NEW m \in Children, lookup'[m] \notin {"idle", "null"}
      PROVE  \/ /\ queue'[Down(m)] # <<>> /\ Head(queue'[Down(m)]).cmd \in Asks
                /\ lookup'[m] \in Chain[Head(queue'[Down(m)]).client]
                /\ Parent[lookup'[m]] = m
             \/ queue'[Down(m)] = <<>> /\ Dead(Parent[m])'
  <2>0. m \in Ends /\ Down(m) \in Links /\ Parent[m] \in Nodes
    BY ChildEnds, LinksDiffer
  <2>1. lookup'[m] = lookup[m]
    BY <1>1 DEF HeadKept
  <2>2. CASE queue[Down(m)] = <<>>
    <3>1. Dead(Parent[m])
      BY <1>1, <2>1, <2>2 DEF LookupOK
    <3>2. q[Down(m)] = <<>>
      BY <1>1, <2>2 DEF HeadKept
    <3>3. queue'[Down(m)] = <<>>
      BY <2>0, <3>1, <3>2
    <3>4. Dead(Parent[m])'
      BY <2>0, <3>1 DEF Onward, Dead
    <3> QED BY <3>3, <3>4
  <2>3. CASE queue[Down(m)] # <<>>
    <3>1. PICK p : p = Head(queue[Down(m)])
      OBVIOUS
    <3>2. p.cmd \in Asks /\ lookup[m] \in Chain[p.client] /\ Parent[lookup[m]] = m
      BY <1>1, <2>1, <2>3, <3>1 DEF LookupOK
    <3>3. q[Down(m)] # <<>> /\ Head(q[Down(m)]) = p
      BY <1>1, <2>3, <3>1, <3>2 DEF HeadKept
    <3>4. queue'[Down(m)] # <<>> /\ Head(queue'[Down(m)]) = p
      <4>1. PICK s : s = q[Down(m)]
        OBVIOUS
      <4>2. s \in Seq(Cargoes) /\ pkts \in Seq(Cargoes)
        BY <2>0, <4>1, CargoSeqs DEF Queues, Cargoes
      <4>3. s \o pkts # <<>> /\ Head(s \o pkts) = Head(s)
        BY <3>3, <4>1, <4>2
      <4> QED BY <2>0, <3>3, <4>1, <4>3
    <3> QED BY <2>1, <3>2, <3>4
  <2> QED BY <2>2, <2>3
<1> QED BY <1>1 DEF LookupOK

\* Lemmas: what a step does to the next packets.
LEMMA HeadSame ==
  ASSUME UNCHANGED lookup
  PROVE  HeadKept(queue)
BY DEF HeadKept

\* Lemma: a packet is taken that no UpDataLink has looked up.
LEMMA HeadTaken ==
  ASSUME TypeInv, NEW k \in Links, queue[k] # <<>>, NEW q, q = Taken(k),
         \A m \in Children : \/ lookup'[m] \in {"idle", "null"}
                             \/ lookup'[m] = lookup[m] /\ k # Down(m)
  PROVE  q \in Queues /\ HeadKept(q)
<1>1. /\ q \in Queues
      /\ \A l \in Links : q[l] = IF l = k THEN Tail(queue[l]) ELSE queue[l]
  BY TypeInvIs, TakenIs
<1>2. \A m \in Children : Down(m) \in Links
  BY ChildEnds, LinksDiffer
<1> QED BY <1>1, <1>2 DEF HeadKept

\* Lemma: an upward link is emptied.
LEMMA HeadEmptied ==
  ASSUME TypeInv, NEW k \in Links, NEW q, q = [queue EXCEPT ![k] = <<>>],
         UNCHANGED lookup, \A m \in Children : k # Down(m)
  PROVE  q \in Queues /\ HeadKept(q)
<1>0. queue \in Queues
  BY TypeInvIs
<1>1. /\ q \in Queues
      /\ \A l \in Links : q[l] = IF l = k THEN <<>> ELSE queue[l]
  BY <1>0, EmptiedIs
<1>2. \A m \in Children : Down(m) \in Links
  BY ChildEnds, LinksDiffer
<1> QED BY <1>1, <1>2 DEF HeadKept

\* Lemma: messages are marked deprecated.
LEMMA HeadDeprecated ==
  ASSUME NEW q \in Queues, HeadKept(q), NEW n, NEW D \in SUBSET Msgs,
         NEW r \in Deprecations(q, n, D)
  PROVE  r \in Queues /\ HeadKept(r)
<1>1. r \in Queues
  BY DeprecationsThin
<1>2. ASSUME NEW m \in Children, lookup'[m] \notin {"idle", "null"}
      PROVE  /\ lookup'[m] = lookup[m]
             /\ queue[Down(m)] = <<>> => r[Down(m)] = <<>>
             /\ queue[Down(m)] # <<>> /\ Head(queue[Down(m)]).cmd \in Asks =>
                  r[Down(m)] # <<>> /\ Head(r[Down(m)]) = Head(queue[Down(m)])
  <2>1. Down(m) \in Links
    BY ChildEnds, LinksDiffer
  <2>2. /\ q[Down(m)] = <<>> => r[Down(m)] = <<>>
        /\ q[Down(m)] # <<>> /\ Head(q[Down(m)]) \notin D =>
             r[Down(m)] # <<>> /\ Head(r[Down(m)]) = Head(q[Down(m)])
    BY <2>1, DeprecationsHead
  <2>3. Head(queue[Down(m)]).cmd \in Asks => Head(queue[Down(m)]) \notin D
    <3>1. \A p \in D : p.cmd \in MsgCommands
      BY PacketKinds
    <3> QED BY <3>1 DEF Asks, MsgCommands
  <2> QED BY <1>2, <2>2, <2>3 DEF HeadKept
<1> QED BY <1>1, <1>2 DEF HeadKept

\* Lemma: what is kept are messages.
LEMMA KeptAreMsgs ==
  ASSUME TypeInv, NEW n \in Nodes, NEW g \in AllGroups, NEW s \in Clients
  PROVE  Kept(n, g, s) \in SUBSET Msgs
<1>1. history[n][g][s] \in Seq(Msgs)
  BY TypeInvIs
<1> QED BY <1>1 DEF Kept, ToSet

\* Lemma: a step that sends after taking, or without.
LEMMA LookupSent ==
  ASSUME TypeInv, LookupOK, Onward, NEW q \in Queues, HeadKept(q),
         NEW links, NEW pkts \in Seq(Packets), queue' = Sent(q, links, pkts),
         \A m \in Children : Down(m) \in links => status[Parent[m]] = "up"
  PROVE  LookupOK'
<1>1. \A l \in Links : queue'[l] = IF l \in links /\ Open(l)
                                   THEN q[l] \o pkts ELSE q[l]
  BY SentIs
<1>2. \A m \in Children : Down(m) \in links => ~Dead(Parent[m])
  BY DEF Dead
<1> QED BY <1>1, <1>2, LookupKept

\* Lemma: or one that only takes.
LEMMA LookupNotSent ==
  ASSUME TypeInv, LookupOK, Onward, NEW q \in Queues, HeadKept(q), queue' = q
  PROVE  LookupOK'
<1>1. PICK links, pkts : links = {} /\ pkts = <<>>
  OBVIOUS
<1>2. pkts \in Seq(Packets)
  BY <1>1
<1>3. /\ \A l \in Links : queue'[l] = IF l \in links /\ Open(l)
                                      THEN q[l] \o pkts ELSE q[l]
      /\ \A m \in Children : Down(m) \in links => ~Dead(Parent[m])
  BY <1>1
<1> QED BY <1>2, <1>3, LookupKept

\* Lemma: or one that routes a message.
LEMMA LookupRoute ==
  ASSUME TypeInv, LookupOK, Onward, NEW n \in Nodes, status[n] = "up",
         NEW k \in Links, queue[k] # <<>>,
         \A m \in Children : lookup[m] \in {"idle", "null"} \/ k # Down(m),
         NEW p \in Msgs, NEW targets, Route(n, k, p, targets),
         \A m \in Children : Down(m) \in targets => Parent[m] = n
  PROVE  LookupOK'
<1>1. PICK D : D = IF p.cmd = "SYNC_MSG" THEN Kept(n, p.group, p.client) ELSE {}
  OBVIOUS
<1>2. PICK q, pkts : q = Taken(k) /\ pkts = <<p>>
  OBVIOUS
<1>3. PICK r \in Deprecations(q, n, D) : queue' = Sent(r, targets, pkts)
  BY <1>1, <1>2 DEF Route
<1>4. UNCHANGED lookup
  BY DEF Route
<1>5. q \in Queues /\ HeadKept(q)
  BY <1>2, <1>4, HeadTaken
<1>6. D \in SUBSET Msgs
  BY <1>1, PacketKinds, KeptAreMsgs DEF AllGroups
<1>7. r \in Queues /\ HeadKept(r)
  BY <1>3, <1>5, <1>6, HeadDeprecated
<1>8. pkts \in Seq(Packets)
  BY <1>2, PacketKinds
<1> QED BY <1>3, <1>7, <1>8, LookupSent

\* Lemma: or one that buries clients.
LEMMA LookupBury ==
  ASSUME TypeInv, LookupOK, Onward, NEW n \in Nodes, status[n] = "up",
         NEW q \in Queues, HeadKept(q), NEW cs \in SUBSET Clients,
         NEW targets, Bury(n, q, cs, targets),
         \A m \in Children : Down(m) \in targets => Parent[m] = n
  PROVE  LookupOK'
<1>1. PICK D : D = KeptFrom(n, cs)
  OBVIOUS
<1>2. D \in SUBSET Msgs
  BY <1>1, KeptAreMsgs DEF KeptFrom
<1>3. PICK order : order = SetToSeq(cs)
  OBVIOUS
<1>4. PICK news : news = [i \in 1..Len(order) |->
         Packet("CLIENT_DISCONNECTED", order[i], DISCONNECTIONS, 0)]
  OBVIOUS
<1>5. PICK r \in Deprecations(q, n, D) : queue' = Sent(r, targets, news)
  BY <1>1, <1>3, <1>4 DEF Bury
<1>6. r \in Queues /\ HeadKept(r)
  BY <1>2, <1>5, HeadDeprecated
<1>7. news \in Seq(Packets)
  <2>1. IsFiniteSet(cs)
    BY TreeAssumption, FS_Subset
  <2>2. order \in Seq(cs) /\ Len(order) \in Nat
    BY <1>3, <2>1, OrderOf
  <2>3. \A i \in 1..Len(order) :
          Packet("CLIENT_DISCONNECTED", order[i], DISCONNECTIONS, 0) \in Packets
    BY <2>2 DEF Packet, Packets, Notes, AllGroups
  <2> QED BY <1>4, <2>2, <2>3
<1> QED BY <1>5, <1>6, <1>7, LookupSent

\* Lemma: what UpDataLink sends, it sends from its node.
LEMMA UpTargetsFrom ==
  ASSUME TypeInv, Placed, NEW n \in Nodes, NEW g, NEW l \in UpTargets(n, g)
  PROVE  l[1] = n
<1>1. local[n] \subseteq Clients /\ secoPPSet[n] \subseteq Children
  BY TypeInvIs
<1>2. \A c \in local[n] : Parent[c] = n
  BY DEF Placed
<1>3. \A m \in secoPPSet[n] : Parent[m] = n
  BY DEF Placed
<1>4. \/ \E c \in local[n] : l = Down(c)
      \/ \E m \in secoPPSet[n] : l = Down(m)
  BY DEF UpTargets
<1> QED BY <1>2, <1>3, <1>4, LinkEnds

\* Lemma: the links of a child node are not those of a client, and the upward
\* ones are not the downward ones.
LEMMA ChildLinks ==
  ASSUME NEW m \in Children
  PROVE  /\ \A c \in Clients : Down(m) # Down(c)
         /\ \A x \in Ends : Down(m) # Up(x)
         /\ \A k \in Children : Down(m) = Down(k) => m = k
BY ChildEnds, ClientEnds, LinksDiffer

\* Lemma: the thread of a client keeps LookupOK.
LEMMA LookupClientStep ==
  ASSUME TypeInv, Placed, LookupOK, Onward, NEW c \in Clients, ClientLink(c)
  PROVE  LookupOK'
<1>0. c \in Ends /\ Parent[c] \in Nodes /\ queue \in Queues
  BY ClientEnds, TypeInvIs
<1>1. ASSUME NEW pkts \in Seq(Packets), NEW q \in Queues, HeadKept(q),
             queue' = Sent(q, {Down(c)}, pkts)
      PROVE  LookupOK'
  <2>1. \A m \in Children : Down(m) \notin {Down(c)}
    BY ChildLinks
  <2> QED BY <1>1, <2>1, LookupSent
<1>2. ASSUME NEW cmds, Reads(c, cmds), UNCHANGED lookup
      PROVE  /\ Up(c) \in Links /\ queue[Up(c)] # <<>>
             /\ Taken(Up(c)) \in Queues /\ HeadKept(Taken(Up(c)))
             /\ status[Parent[c]] = "up"
  <2>1. Up(c) \in Links /\ queue[Up(c)] # <<>> /\ status[Parent[c]] = "up"
    BY <1>0, <1>2, ReadsIs
  <2>2. \A m \in Children : Up(c) # Down(m)
    BY <1>0, ChildLinks
  <2> QED BY <1>2, <2>1, <2>2, HeadTaken
<1>3. CASE RootJoin(c)
  <2>1. PICK p, msgs, pkts : /\ p = Head(queue[Up(c)])
                             /\ msgs = getMsgs(Root, p.group)
                             /\ pkts = <<p>> \o msgs
    OBVIOUS
  <2>2. /\ UNCHANGED lookup /\ Reads(c, {"JOIN_GROUP"})
        /\ queue' = Sent(Taken(Up(c)), {Down(c)}, pkts)
    BY <1>3, <2>1 DEF RootJoin
  <2>3. p \in Packets /\ p.cmd = "JOIN_GROUP"
    BY <1>0, <2>1, <2>2, ReadsIs
  <2>4. p.group \in AllGroups
    BY <2>3, PacketKinds DEF MsgCommands
  <2>5. msgs \in Seq(Packets)
    BY <2>1, <2>4, HistoriesAre, MsgsArePackets DEF Nodes
  <2>6. pkts \in Seq(Packets)
    BY <2>1, <2>3, <2>5
  <2> QED BY <1>1, <1>2, <2>2, <2>6
<1>4. CASE KnownJoin(c)
  <2>1. UNCHANGED lookup /\ Reads(c, {"JOIN_GROUP"}) /\ queue' = Taken(Up(c))
    BY <1>4 DEF KnownJoin
  <2> QED BY <1>2, <2>1, LookupNotSent
<1>5. CASE JoinStep(c)
  <2>0. UNCHANGED lookup /\ HeadKept(queue)
    BY <1>5, HeadSame DEF JoinStep, JoinReply, JoinHistory, JoinSend
  <2>1. CASE JoinReply(c)
    <3>1. PICK p, pkts : /\ p = Packet("JOIN_GROUP", c, join[c].group, 0)
                         /\ pkts = <<p>>
      OBVIOUS
    <3>2. queue' = Sent(queue, {Down(c)}, pkts)
      BY <2>1, <3>1 DEF JoinReply
    <3>3. join[c] \in JoinStates
      BY TypeInvIs
    <3>4. pkts \in Seq(Packets)
      BY <3>1, <3>3 DEF Packet, Packets, Notes, Asks, JoinStates
    <3> QED BY <1>0, <1>1, <2>0, <3>2, <3>4
  <2>2. CASE JoinHistory(c)
    <3>1. queue' = queue
      BY <2>2 DEF JoinHistory
    <3> QED BY <1>0, <2>0, <3>1, LookupNotSent
  <2>3. CASE JoinSend(c)
    <3>1. PICK rest : rest = join[c].rest
      OBVIOUS
    <3>2. CASE rest = <<>>
      <4>1. queue' = queue
        BY <2>3, <3>1, <3>2 DEF JoinSend
      <4> QED BY <1>0, <2>0, <4>1, LookupNotSent
    <3>3. CASE rest # <<>>
      <4>1. PICK pkts : pkts = <<Head(rest)>>
        OBVIOUS
      <4>2. queue' = Sent(queue, {Down(c)}, pkts)
        BY <2>3, <3>1, <3>3, <4>1 DEF JoinSend
      <4>3. join[c] \in JoinStates
        BY TypeInvIs
      <4>4. rest \in Seq(Msgs)
        BY <3>1, <4>3 DEF JoinStates
      <4>5. Head(rest) \in Packets
        BY <3>3, <4>4 DEF Packets
      <4>6. pkts \in Seq(Packets)
        BY <4>1, <4>5
      <4> QED BY <1>0, <1>1, <2>0, <4>2, <4>6
    <3> QED BY <3>2, <3>3
  <2> QED BY <1>5, <2>1, <2>2, <2>3 DEF JoinStep
<1>6. CASE DownReply(c) \/ DownForward(c)
  <2>1. PICK p, pkts : p = Head(queue[Up(c)]) /\ pkts = <<p>>
    OBVIOUS
  <2>2. PICK cmds : Reads(c, cmds) /\ cmds \subseteq {"GET_GROUP_ID", "JOIN_GROUP"}
    <3>1. CASE DownForward(c)
      BY <3>1 DEF DownForward
    <3>2. CASE DownReply(c)
      BY <3>2 DEF DownReply
    <3> QED BY <1>6, <3>1, <3>2
  <2>3. "HELLO_SECO" \notin cmds
    BY <2>2
  <2>4. pkts \in Seq(Packets)
    BY <1>0, <2>1, <2>2, <2>3, ReadsIs
  <2>5. UNCHANGED lookup
    BY <1>6 DEF DownReply, DownForward
  <2>6. CASE DownReply(c)
    <3>1. queue' = Sent(Taken(Up(c)), {Down(c)}, pkts)
      BY <2>1, <2>6 DEF DownReply
    <3> QED BY <1>1, <1>2, <2>2, <2>4, <2>5, <3>1
  <2>7. CASE DownForward(c)
    <3>1. queue' = Sent(Taken(Up(c)), {Up(Parent[c])}, pkts) /\ Parent[c] # Root
      BY <2>1, <2>7 DEF DownForward
    <3>2. Parent[c] \in Children
      BY <1>0, <3>1 DEF Nodes
    <3>3. \A m \in Children : Down(m) \notin {Up(Parent[c])}
      BY <3>2, ChildLinks, ChildEnds
    <3>4. Taken(Up(c)) \in Queues /\ HeadKept(Taken(Up(c)))
      BY <1>2, <2>2, <2>5
    <3> QED BY <2>4, <3>1, <3>3, <3>4, LookupSent
  <2> QED BY <1>6, <2>6, <2>7
<1>7. CASE leaveGroup(c) \/ IgnoreMessage(c)
  <2>1. UNCHANGED lookup /\ (\E cmds : Reads(c, cmds)) /\ queue' = Taken(Up(c))
    BY <1>7 DEF leaveGroup, IgnoreMessage
  <2> QED BY <1>2, <2>1, LookupNotSent
<1>8. CASE routeToGroup(c)
  <2>a. PICK p \in Msgs :
          Route(Parent[c], Up(c), p, DownTargets(Parent[c], c, p.group))
    BY <1>0, <1>8, DownRouteTypes
  <2>1. PICK targets : targets = DownTargets(Parent[c], c, p.group)
                         /\ Route(Parent[c], Up(c), p, targets)
    BY <2>a
  <2>2. UNCHANGED lookup /\ Reads(c, MsgCommands)
    BY <1>8 DEF routeToGroup, Route
  <2>3. \A m \in Children : Down(m) \in targets => Parent[m] = Parent[c]
    BY <1>0, <2>1, DownTargetsFrom, LinkEnds
  <2>4. \A m \in Children : Up(c) # Down(m)
    BY <1>0, ChildLinks
  <2> QED BY <1>0, <1>2, <2>1, <2>2, <2>3, <2>4, LookupRoute
<1>9. CASE ClientGone(c)
  <2>1. PICK q, cs, targets :
          /\ q = [queue EXCEPT ![Up(c)] = <<>>] /\ cs = {c}
          /\ targets = DownTargets(Parent[c], c, DISCONNECTIONS)
          /\ Bury(Parent[c], q, cs, targets)
    BY <1>9 DEF ClientGone
  <2>2. UNCHANGED lookup /\ status[Parent[c]] = "up" /\ cs \in SUBSET Clients
    BY <1>9, <2>1 DEF ClientGone, Bury
  <2>3. \A m \in Children : Down(m) \in targets => Parent[m] = Parent[c]
    BY <1>0, <2>1, DownTargetsFrom, LinkEnds
  <2>4. \A m \in Children : Up(c) # Down(m)
    BY <1>0, ChildLinks
  <2>5. q \in Queues /\ HeadKept(q)
    BY <1>0, <2>1, <2>2, <2>4, LinksDiffer, HeadEmptied
  <2> QED BY <1>0, <2>1, <2>2, <2>3, <2>5, LookupBury
<1> QED BY <1>3, <1>4, <1>5, <1>6, <1>7, <1>8, <1>9 DEF ClientLink

\* Lemma: the thread of a child node keeps it.
LEMMA LookupChildStep ==
  ASSUME TypeInv, Placed, LookupOK, Onward, NEW m \in Children, ChildLink(m)
  PROVE  LookupOK'
<1>0. m \in Ends /\ Parent[m] \in Nodes /\ queue \in Queues
  BY ChildEnds, TypeInvIs
<1>1. ASSUME NEW pkts \in Seq(Packets), NEW q \in Queues, HeadKept(q),
             queue' = Sent(q, {Down(m)}, pkts), status[Parent[m]] = "up"
      PROVE  LookupOK'
  <2>1. \A k \in Children : Down(k) \in {Down(m)} => status[Parent[k]] = "up"
    BY <1>1, ChildLinks
  <2> QED BY <1>1, <2>1, LookupSent
<1>2. ASSUME NEW cmds, Reads(m, cmds), UNCHANGED lookup
      PROVE  /\ Up(m) \in Links /\ queue[Up(m)] # <<>>
             /\ Taken(Up(m)) \in Queues /\ HeadKept(Taken(Up(m)))
             /\ status[Parent[m]] = "up"
  <2>1. Up(m) \in Links /\ queue[Up(m)] # <<>> /\ status[Parent[m]] = "up"
    BY <1>0, <1>2, ReadsIs
  <2>2. \A k \in Children : Up(m) # Down(k)
    BY <1>0, ChildLinks
  <2> QED BY <1>2, <2>1, <2>2, HeadTaken
<1>3. CASE synchronizeNewSeCo(m)
  <2>1. PICK pkts : pkts = getAllMsgs(Parent[m])
    OBVIOUS
  <2>2. /\ UNCHANGED lookup /\ Reads(m, {"HELLO_SECO"})
        /\ queue' = Sent(Taken(Up(m)), {Down(m)}, pkts)
    BY <1>3, <2>1 DEF synchronizeNewSeCo
  <2>3. pkts \in Seq(Packets)
    BY <1>0, <2>1, HistoriesAre, MsgsArePackets
  <2> QED BY <1>1, <1>2, <2>2, <2>3
<1>4. CASE DownReply(m) \/ DownForward(m)
  <2>1. PICK p, pkts : p = Head(queue[Up(m)]) /\ pkts = <<p>>
    OBVIOUS
  <2>2. PICK cmds : Reads(m, cmds) /\ cmds \subseteq {"GET_GROUP_ID", "JOIN_GROUP"}
    <3>1. CASE DownForward(m)
      BY <3>1 DEF DownForward
    <3>2. CASE DownReply(m)
      BY <3>2 DEF DownReply
    <3> QED BY <1>4, <3>1, <3>2
  <2>3. "HELLO_SECO" \notin cmds
    BY <2>2
  <2>4. pkts \in Seq(Packets)
    BY <1>0, <2>1, <2>2, <2>3, ReadsIs
  <2>5. UNCHANGED lookup
    BY <1>4 DEF DownReply, DownForward
  <2>6. CASE DownReply(m)
    <3>1. queue' = Sent(Taken(Up(m)), {Down(m)}, pkts)
      BY <2>1, <2>6 DEF DownReply
    <3> QED BY <1>1, <1>2, <2>2, <2>4, <2>5, <3>1
  <2>7. CASE DownForward(m)
    <3>1. queue' = Sent(Taken(Up(m)), {Up(Parent[m])}, pkts) /\ Parent[m] # Root
      BY <2>1, <2>7 DEF DownForward
    <3>2. Parent[m] \in Children
      BY <1>0, <3>1 DEF Nodes
    <3>3. \A k \in Children : Down(k) \notin {Up(Parent[m])}
      BY <3>2, ChildLinks, ChildEnds
    <3>4. Taken(Up(m)) \in Queues /\ HeadKept(Taken(Up(m)))
      BY <1>2, <2>2, <2>5
    <3> QED BY <2>4, <3>1, <3>3, <3>4, LookupSent
  <2> QED BY <1>4, <2>6, <2>7
<1>5. CASE routeToGroup(m)
  <2>a. PICK p \in Msgs :
          Route(Parent[m], Up(m), p, DownTargets(Parent[m], m, p.group))
    BY <1>0, <1>5, DownRouteTypes
  <2>1. PICK targets : targets = DownTargets(Parent[m], m, p.group)
                         /\ Route(Parent[m], Up(m), p, targets)
    BY <2>a
  <2>2. UNCHANGED lookup /\ Reads(m, MsgCommands)
    BY <1>5 DEF routeToGroup, Route
  <2>3. \A k \in Children : Down(k) \in targets => Parent[k] = Parent[m]
    BY <1>0, <2>1, DownTargetsFrom, LinkEnds
  <2>4. \A k \in Children : Up(m) # Down(k)
    BY <1>0, ChildLinks
  <2> QED BY <1>0, <1>2, <2>1, <2>2, <2>3, <2>4, LookupRoute
<1>6. CASE DownGone(m)
  <2>a. PICK p \in Notes, q \in Queues :
          /\ q = Taken(Up(m))
          /\ Bury(Parent[m], q, {p.client},
                  DownTargets(Parent[m], m, DISCONNECTIONS))
    BY <1>6, DownGoneTypes
  <2>1. PICK cs, targets :
          /\ cs = {p.client} /\ targets = DownTargets(Parent[m], m, DISCONNECTIONS)
          /\ q = Taken(Up(m)) /\ Bury(Parent[m], q, cs, targets)
    BY <2>a
  <2>2. UNCHANGED lookup /\ Reads(m, {"CLIENT_DISCONNECTED"})
    BY <1>6 DEF DownGone, Bury
  <2>3. \A k \in Children : Down(k) \in targets => Parent[k] = Parent[m]
    BY <1>0, <2>1, DownTargetsFrom, LinkEnds
  <2>4. cs \in SUBSET Clients
    BY <2>1, PacketKinds
  <2>5. HeadKept(q) /\ status[Parent[m]] = "up"
    BY <1>2, <2>1, <2>2
  <2> QED BY <1>0, <2>1, <2>3, <2>4, <2>5, LookupBury
<1>7. CASE NodeGone(m)
  <2>a. PICK q \in Queues, cs \in SUBSET Clients :
          /\ q = [queue EXCEPT ![Up(m)] = <<>>]
          /\ Bury(Parent[m], q, cs, DownTargets(Parent[m], m, DISCONNECTIONS))
    BY <1>7, NodeGoneTypes
  <2>1. PICK targets :
          /\ targets = DownTargets(Parent[m], m, DISCONNECTIONS)
          /\ q = [queue EXCEPT ![Up(m)] = <<>>] /\ Bury(Parent[m], q, cs, targets)
    BY <2>a
  <2>2. UNCHANGED lookup /\ status[Parent[m]] = "up"
    BY <1>7 DEF NodeGone, Bury
  <2>3. \A k \in Children : Down(k) \in targets => Parent[k] = Parent[m]
    BY <1>0, <2>1, DownTargetsFrom, LinkEnds
  <2>4. \A k \in Children : Up(m) # Down(k)
    BY <1>0, ChildLinks
  <2>5. Up(m) \in Links
    BY <1>0, LinksDiffer
  <2>6. HeadKept(q)
    BY <2>1, <2>2, <2>4, <2>5, HeadEmptied
  <2> QED BY <1>0, <2>1, <2>2, <2>3, <2>6, LookupBury
<1> QED BY <1>3, <1>4, <1>5, <1>6, <1>7 DEF ChildLink

\* Lemma: a node that ends forgets the way, and its child nodes read nothing
\* more.
LEMMA LookupEnded ==
  ASSUME TypeInv, LookupOK, NEW m \in Children, Ended(m)
  PROVE  LookupOK'
<1>1. ASSUME NEW k \in Children, lookup'[k] \notin {"idle", "null"}
      PROVE  \/ /\ queue'[Down(k)] # <<>> /\ Head(queue'[Down(k)]).cmd \in Asks
                /\ lookup'[k] \in Chain[Head(queue'[Down(k)]).client]
                /\ Parent[lookup'[k]] = k
             \/ queue'[Down(k)] = <<>> /\ Dead(Parent[k])'
  <2>1. k # m /\ lookup'[k] = lookup[k]
    BY <1>1, TypeInvIs DEF Ended
  <2>2. Down(k) \in Links /\ Parent[k] \in Nodes /\ k \in Ends /\ m \in Ends
    BY ChildEnds, LinksDiffer
  <2>3. \A n \in Nodes : status'[n] = IF n = m THEN "down" ELSE status[n]
    BY TypeInvIs DEF Ended
  <2>4. CASE Parent[k] = m
    <3>1. Down(k)[1] = m /\ Down(k) # Up(m)
      BY <2>2, <2>4, LinkEnds, LinksDiffer
    <3>2. queue'[Down(k)] = <<>>
      BY <2>2, <3>1 DEF Ended
    <3>3. Dead(Parent[k])'
      BY <2>2, <2>3, <2>4 DEF Dead
    <3> QED BY <3>2, <3>3
  <2>5. CASE Parent[k] # m
    <3>1. Down(k)[1] # m /\ Down(k)[2] # m
      BY <2>1, <2>5, LinkEnds
    <3>2. queue'[Down(k)] = queue[Down(k)]
      BY <2>2, <3>1 DEF Ended
    <3>3. Dead(Parent[k]) => Dead(Parent[k])'
      BY <2>2, <2>3 DEF Dead
    <3> QED BY <1>1, <2>1, <3>2, <3>3 DEF LookupOK
  <2> QED BY <2>4, <2>5
<1> QED BY <1>1 DEF LookupOK

\* Lemma: the thread of the parent keeps it.
LEMMA LookupUpStep ==
  ASSUME TypeInv, Placed, LookupOK, Onward, NEW m \in Children, UpLink(m)
  PROVE  LookupOK'
<1>0. m \in Ends /\ m \in Nodes /\ queue \in Queues
  BY ChildEnds, TypeInvIs
<1>1. ASSUME NEW cmds, Hears(m, cmds),
             \/ lookup'[m] = "idle" /\ \A k \in Children \ {m} : lookup'[k] = lookup[k]
             \/ UNCHANGED lookup /\ cmds \cap Asks = {}
      PROVE  /\ Down(m) \in Links /\ queue[Down(m)] # <<>> /\ status[m] = "up"
             /\ Taken(Down(m)) \in Queues /\ HeadKept(Taken(Down(m)))
             /\ \A k \in Children : \/ lookup'[k] \in {"idle", "null"}
                                    \/ Down(m) # Down(k)
  <2>1. /\ Down(m) \in Links /\ queue[Down(m)] # <<>> /\ status[m] = "up"
        /\ Head(queue[Down(m)]).cmd \in cmds
    BY <1>1, HearsIs
  <2>2. lookup'[m] \in {"idle", "null"}
    BY <1>1, <2>1 DEF LookupOK
  <2>3. \A k \in Children : \/ lookup'[k] \in {"idle", "null"}
                            \/ lookup'[k] = lookup[k] /\ Down(m) # Down(k)
    BY <1>1, <2>2, ChildLinks
  <2> QED BY <2>1, <2>3, HeadTaken
<1>2. CASE RouteToGroup(m)
  <2>a. PICK p \in Msgs : Route(m, Down(m), p, UpTargets(m, p.group))
    BY <1>2, UpRouteTypes
  <2>1. PICK targets : targets = UpTargets(m, p.group)
                         /\ Route(m, Down(m), p, targets)
    BY <2>a
  <2>2. UNCHANGED lookup /\ Hears(m, MsgCommands) /\ MsgCommands \cap Asks = {}
    BY <1>2 DEF RouteToGroup, Route, MsgCommands, Asks
  <2>3. \A k \in Children : Down(k) \in targets => Parent[k] = m
    BY <1>0, <2>1, UpTargetsFrom, LinkEnds
  <2>4. /\ Down(m) \in Links /\ queue[Down(m)] # <<>> /\ status[m] = "up"
        /\ \A k \in Children : lookup[k] \in {"idle", "null"} \/ Down(m) # Down(k)
    BY <1>1, <2>2
  <2> QED BY <1>0, <2>1, <2>3, <2>4, LookupRoute
<1>3. CASE UpGone(m)
  <2>a. PICK p \in Notes, q \in Queues :
          q = Taken(Down(m)) /\ Bury(m, q, {p.client}, UpTargets(m, DISCONNECTIONS))
    BY <1>3, UpGoneTypes
  <2>1. PICK cs, targets :
          /\ cs = {p.client} /\ targets = UpTargets(m, DISCONNECTIONS)
          /\ q = Taken(Down(m)) /\ Bury(m, q, cs, targets)
    BY <2>a
  <2>2. /\ UNCHANGED lookup /\ Hears(m, {"CLIENT_DISCONNECTED"})
        /\ {"CLIENT_DISCONNECTED"} \cap Asks = {}
    BY <1>3 DEF UpGone, Bury, Asks
  <2>3. \A k \in Children : Down(k) \in targets => Parent[k] = m
    BY <1>0, <2>1, UpTargetsFrom, LinkEnds
  <2>4. cs \in SUBSET Clients
    BY <2>1, PacketKinds
  <2>5. HeadKept(q) /\ status[m] = "up"
    BY <1>1, <2>1, <2>2
  <2> QED BY <1>0, <2>1, <2>3, <2>4, <2>5, LookupBury
<1>4. CASE UpLookup(m)
  <2>1. PICK c : c = Head(queue[Down(m)]).client
    OBVIOUS
  <2>2. /\ Hears(m, {"JOIN_GROUP", "GET_GROUP_ID"}) /\ queue' = queue
        /\ lookup' = [lookup EXCEPT ![m] = IF c \in routes[m] THEN Toward(m, c)
                                                              ELSE "null"]
        /\ UNCHANGED status
    BY <1>4, <2>1 DEF UpLookup
  <2>3. /\ queue[Down(m)] # <<>>
        /\ Head(queue[Down(m)]).cmd \in {"JOIN_GROUP", "GET_GROUP_ID"}
    BY <2>2, HearsIs
  <2>4. ASSUME NEW k \in Children, lookup'[k] \notin {"idle", "null"}
        PROVE  \/ /\ queue[Down(k)] # <<>> /\ Head(queue[Down(k)]).cmd \in Asks
                  /\ lookup'[k] \in Chain[Head(queue[Down(k)]).client]
                  /\ Parent[lookup'[k]] = k
               \/ queue[Down(k)] = <<>> /\ Dead(Parent[k])
    <3>1. CASE k = m
      <4>1. c \in routes[m] /\ lookup'[m] = Toward(m, c)
        BY <2>2, <2>4, <3>1, TypeInvIs
      <4>2. \E x \in Chain[c] : Parent[x] = m
        BY <1>0, <4>1, TypeInvIs
      <4>3. Toward(m, c) \in Chain[c] /\ Parent[Toward(m, c)] = m
        BY <4>2 DEF Toward
      <4> QED BY <2>1, <2>3, <3>1, <4>1, <4>3 DEF Asks
    <3>2. CASE k # m
      <4>1. lookup'[k] = lookup[k]
        BY <2>2, <3>2, TypeInvIs
      <4> QED BY <2>4, <4>1 DEF LookupOK
    <3> QED BY <3>1, <3>2
  <2> QED BY <2>2, <2>4 DEF LookupOK, Dead
<1>5. CASE UpReply(m) \/ UpForward(m)
  <2>1. PICK p, links : p = Head(queue[Down(m)]) /\ links = {<<m, lookup[m]>>}
    OBVIOUS
  <2>2. /\ Hears(m, {"JOIN_GROUP", "GET_GROUP_ID"})
        /\ lookup' = [lookup EXCEPT ![m] = "idle"]
    BY <1>5 DEF UpReply, UpForward
  <2>3. /\ lookup'[m] = "idle"
        /\ \A k \in Children \ {m} : lookup'[k] = lookup[k]
    BY <2>2, TypeInvIs
  <2>4. p \in Packets /\ p.cmd \in {"JOIN_GROUP", "GET_GROUP_ID"}
    BY <2>1, <2>2, HearsIs
  <2>5. p.group \in AllGroups
    BY <2>4, PacketKinds DEF MsgCommands
  <2>6. PICK q : q = Taken(Down(m))
    OBVIOUS
  <2>7. q \in Queues /\ HeadKept(q) /\ status[m] = "up"
    BY <1>1, <2>2, <2>3, <2>6
  <2>8. \E pkts \in Seq(Packets) : queue' = Sent(q, links, pkts)
    <3>1. CASE UpForward(m)
      <4>1. PICK pkts : pkts = <<p>>
        OBVIOUS
      <4>2. queue' = Sent(q, links, pkts)
        BY <2>1, <2>6, <3>1, <4>1 DEF UpForward
      <4>3. pkts \in Seq(Packets)
        BY <2>4, <4>1
      <4> QED BY <4>2, <4>3
    <3>2. CASE UpReply(m)
      <4>1. PICK msgs : msgs = IF p.cmd = "JOIN_GROUP" THEN getMsgs(m, p.group)
                                                       ELSE <<>>
        OBVIOUS
      <4>2. queue' = Sent(q, links, <<p>> \o msgs)
        BY <2>1, <2>6, <3>2, <4>1 DEF UpReply
      <4>3. getMsgs(m, p.group) \in Seq(Packets)
        BY <1>0, <2>5, HistoriesAre, MsgsArePackets
      <4>4. msgs \in Seq(Packets)
        BY <4>1, <4>3
      <4>5. <<p>> \o msgs \in Seq(Packets)
        BY <2>4, <4>4
      <4> QED BY <4>2, <4>5
    <3> QED BY <1>5, <3>1, <3>2
  <2>9. \A k \in Children : Down(k) \in links => status[Parent[k]] = "up"
    BY <2>1, <2>7 DEF Down
  <2> QED BY <2>7, <2>8, <2>9, LookupSent
<1>6. CASE UpNoRoute(m)
  BY <1>6, LookupEnded DEF UpNoRoute
<1> QED BY <1>2, <1>3, <1>4, <1>5, <1>6 DEF UpLink

\* Lemma: and so does every step.
LEMMA LookupStep ==
  ASSUME TypeInv, Placed, LookupOK, Onward, [Next]_vars
  PROVE  LookupOK'
<1>0. queue \in Queues
  BY TypeInvIs
<1>1. ASSUME UNCHANGED <<queue, lookup>>
      PROVE  LookupOK'
  BY <1>0, <1>1, HeadSame, LookupNotSent
<1>2. ASSUME NEW c \in Clients, NEW p \in Packets, UNCHANGED lookup,
             queue' = Sent(queue, {Up(c)}, <<p>>)
      PROVE  LookupOK'
  <2>1. PICK links, pkts : links = {Up(c)} /\ pkts = <<p>>
    OBVIOUS
  <2>2. pkts \in Seq(Packets) /\ queue' = Sent(queue, links, pkts)
    BY <1>2, <2>1
  <2>3. \A m \in Children : Down(m) \notin links
    BY <2>1, ClientEnds, ChildLinks
  <2>4. HeadKept(queue)
    BY <1>2, HeadSame
  <2> QED BY <1>0, <2>2, <2>3, <2>4, LookupSent
<1>3. ASSUME NEW c \in Clients,
             \/ Connect(c) \/ Request(c) \/ ClientReceive(c) \/ Disconnect(c)
             \/ \E cmd \in Kinds, g \in Groups : Send(c, cmd, g)
      PROVE  LookupOK'
  <2>0. /\ Down(c) \in Links /\ Up(c) \in Links
        /\ \A m \in Children : Down(c) # Down(m)
    BY ClientEnds, LinksDiffer, ChildLinks
  <2>1. CASE Connect(c)
    BY <1>1, <2>1 DEF Connect
  <2>2. CASE Request(c)
    <3>1. PICK ask : ask = Requests[c][requests[c] + 1]
      OBVIOUS
    <3>2. PICK p : p = Packet(ask[1], c, ask[2], 0)
      OBVIOUS
    <3>3. /\ UNCHANGED lookup /\ queue' = Sent(queue, {Up(c)}, <<p>>)
          /\ requests[c] < Len(Requests[c])
      BY <2>2, <3>1, <3>2 DEF Request
    <3>4. p \in Packets
      <4>1. requests[c] \in Nat /\ Requests[c] \in Seq(Asks \X AllGroups)
        BY TypeInvIs, TreeAssumption
      <4>2. ask \in Asks \X AllGroups
        BY <3>1, <3>3, <4>1
      <4> QED BY <3>2, <4>2 DEF Packet, Packets, Notes
    <3> QED BY <1>2, <3>3, <3>4
  <2>3. CASE ClientReceive(c)
    <3>1. UNCHANGED lookup /\ queue[Down(c)] # <<>> /\ queue' = Taken(Down(c))
      BY <2>3 DEF ClientReceive
    <3>2. Taken(Down(c)) \in Queues /\ HeadKept(Taken(Down(c)))
      BY <2>0, <3>1, HeadTaken
    <3> QED BY <3>1, <3>2, LookupNotSent
  <2>4. CASE Disconnect(c)
    <3>1. PICK q : q = [queue EXCEPT ![Down(c)] = <<>>]
      OBVIOUS
    <3>2. UNCHANGED lookup /\ queue' = q
      BY <2>4, <3>1 DEF Disconnect
    <3>3. q \in Queues /\ HeadKept(q)
      BY <2>0, <3>1, <3>2, HeadEmptied
    <3> QED BY <3>2, <3>3, LookupNotSent
  <2>5. ASSUME NEW cmd \in Kinds, NEW g \in Groups, Send(c, cmd, g)
        PROVE  LookupOK'
    <3>1. PICK p : p = Packet(cmd, c, g, sends[c] + 1)
      OBVIOUS
    <3>2. UNCHANGED lookup /\ queue' = Sent(queue, {Up(c)}, <<p>>)
      BY <2>5, <3>1 DEF Send
    <3>3. p \in Packets
      <4>1. sends[c] \in Nat /\ cmd \in MsgCommands
        BY TypeInvIs, TreeAssumption
      <4> QED BY <3>1, <4>1 DEF Packet, Packets, Msgs
    <3> QED BY <1>2, <3>2, <3>3
  <2> QED BY <1>3, <2>1, <2>2, <2>3, <2>4, <2>5
<1>4. ASSUME NEW m \in Children, NodeStart(m)
      PROVE  LookupOK'
  <2>1. UNCHANGED lookup
    BY <1>4 DEF NodeStart
  <2>2. ASSUME NEW k \in Children
        PROVE  queue'[Down(k)] = queue[Down(k)]
    <3>1. Down(k) \in Links /\ Down(k) # Up(m)
      BY ChildEnds, LinksDiffer, ChildLinks
    <3> QED BY <1>4, <3>1, NodeStartFlows
  <2>3. \A k \in Children : Dead(Parent[k]) => Dead(Parent[k])'
    BY ChildEnds DEF Dead, Onward
  <2> QED BY <2>1, <2>2, <2>3 DEF LookupOK
<1>5. ASSUME NEW m \in Children, NodeFail(m)
      PROVE  LookupOK'
  BY <1>5, LookupEnded DEF NodeFail
<1>6. CASE UNCHANGED vars
  BY <1>1, <1>6 DEF vars
<1> QED BY <1>3, <1>4, <1>5, <1>6, LookupClientStep, LookupChildStep, LookupUpStep
        DEF Next

----------------------------------------------------------------------------
(* The nodes that have been told *)

\* F is a set of nodes that hold nothing of client s and to which nothing of it
\* can come any more ...
NothingKept(s, F) ==
  /\ \A n \in F, g \in AllGroups : history[n][g][s] = <<>>
  /\ \A l \in Links : l[2] \in F =>
       \A i \in 1..Len(queue[l]) : ~IsFrom(queue[l][i], s)

\* ... as its neighbours towards s are in it as well, or are dead ...
NobodyBehind(s, F) ==
  /\ \A x \in Chain[s] : Parent[x] \in F =>
       IF x = s THEN conn[s] = "gone" ELSE x \in F \/ Dead(x)
  /\ \A n \in (F \cap Children) \ Chain[s] : Parent[n] \in F \/ Dead(Parent[n])

\* ... all the nodes that have announced the end of s are in it, and nothing of
\* s follows the announcement, in a link or at a client.
LastInLinks(s, F) ==
  \A l \in Links : \A i \in 1..Len(queue[l]) : IsEnd(queue[l][i], s) =>
    /\ l[1] \in F
    /\ \A j \in i..Len(queue[l]) : ~IsFrom(queue[l][j], s)

LastReceived(s, F) ==
  \A c \in Clients : \A i \in 1..Len(got[c]) : IsEnd(got[c][i], s) =>
    /\ Parent[c] \in F
    /\ \A j \in i..Len(got[c]) : ~IsFrom(got[c][j], s)
    /\ \A j \in 1..Len(queue[Down(c)]) : ~IsFrom(queue[Down(c)][j], s)

HaveBeenTold(s, F) ==
  /\ NothingKept(s, F) /\ NobodyBehind(s, F)
  /\ LastInLinks(s, F) /\ LastReceived(s, F)

\* For every client there is such a set: it grows with the news of its end.
Ending == \A s \in Clients : \E F \in SUBSET Nodes : HaveBeenTold(s, F)

\* Lemma: Ending holds initially, with nobody told.
LEMMA EndingInit ==
  ASSUME Init
  PROVE  Ending
<1> SUFFICES ASSUME NEW s \in Clients
             PROVE  HaveBeenTold(s, {})
  BY DEF Ending
<1>1. NothingKept(s, {}) /\ NobodyBehind(s, {})
  BY DEF NothingKept, NobodyBehind
<1>2. LastInLinks(s, {})
  BY DEF Init, LastInLinks
<1>3. LastReceived(s, {})
  BY DEF Init, LastReceived
<1> QED BY <1>1, <1>2, <1>3 DEF HaveBeenTold

\* Lemma: above a client its chain has nodes only.
LEMMA ChainNodes ==
  ASSUME NEW s \in Clients, NEW x \in Chain[s], x # s
  PROVE  x \in Children
<1>1. s \in Ends /\ {s} \cup Children \in SUBSET Ends
  BY DEF Ends
<1>2. Rising({s} \cup Children)
  <2> SUFFICES ASSUME NEW y \in {s} \cup Children, Parent[y] # Root
               PROVE  Parent[y] \in Children
    BY DEF Rising
  <2> QED BY <1>1, TreeAssumption DEF Nodes
<1> QED BY <1>1, <1>2, ChainLeast

\* Lemma: one link into a node leads away from a client, not more.
LEMMA OneLinkAway ==
  ASSUME NEW s \in Clients, NEW k \in Links, NEW l \in Links, NEW n \in Nodes,
         k[2] = n, l[2] = n, Away(k, s), Away(l, s)
  PROVE  k = l
<1>0. s \in Ends
  BY ClientEnds
<1>1. \A x \in Ends : Up(x)[2] = Parent[x] /\ Down(x)[2] = x
  BY LinkEnds
<1>2. ASSUME NEW x \in Ends, NEW y \in Ends, Up(x)[2] = n, Down(y)[2] = n,
             Away(Up(x), s), Away(Down(y), s)
      PROVE  FALSE
  <2>1. Parent[x] = n /\ y = n
    BY <1>1, <1>2
  <2>2. n \in Children /\ n # Root
    BY <2>1, ClientEnds, TreeAssumption DEF Ends, Nodes
  <2>3. x \in Chain[s] /\ n \notin Chain[s]
    BY <1>2, <2>1, <2>2 DEF Away
  <2> QED BY <1>0, <2>1, <2>2, <2>3, ChainRises
<1>3. ASSUME NEW x \in Ends, NEW y \in Ends, Up(x)[2] = n, Up(y)[2] = n,
             Away(Up(x), s), Away(Up(y), s)
      PROVE  x = y
  <2>1. x \in Chain[s] /\ y \in Chain[s]
    BY <1>3 DEF Away
  <2>2. Parent[x] = Parent[y]
    BY <1>1, <1>3
  <2> QED BY <1>0, <2>1, <2>2, ChainInjective
<1>4. PICK x \in Ends : k = Up(x) \/ k = Down(x)
  BY DEF Links
<1>5. PICK y \in Ends : l = Up(y) \/ l = Down(y)
  BY DEF Links
<1>6. CASE k = Up(x) /\ l = Up(y)
  BY <1>3, <1>6
<1>7. CASE k = Down(x) /\ l = Down(y)
  BY <1>1, <1>7
<1>8. CASE (k = Up(x) /\ l = Down(y)) \/ (k = Down(x) /\ l = Up(y))
  BY <1>2, <1>8
<1> QED BY <1>4, <1>5, <1>6, <1>7, <1>8

\* No announcement of the end of s has gone over the link, and none can have
\* arrived at its far end.
Clear(l, s, F) ==
  /\ l[2] \notin F
  /\ \A i \in 1..Len(queue[l]) : ~IsEnd(queue[l][i], s)
  /\ \A c \in Clients : l = Down(c) => \A i \in 1..Len(got[c]) : ~IsEnd(got[c][i], s)

\* Lemmas: such are the links from a living node that has not been told ...
LEMMA NodeClear ==
  ASSUME NEW s \in Clients, NEW F \in SUBSET Nodes, HaveBeenTold(s, F),
         NEW n \in Nodes, n \notin F, status[n] = "up",
         NEW l \in Links, l[1] = n, Away(l, s)
  PROVE  Clear(l, s, F)
<1>1. \A i \in 1..Len(queue[l]) : ~IsEnd(queue[l][i], s)
  BY DEF HaveBeenTold, LastInLinks
<1>2. \A c \in Clients : l = Down(c) => \A i \in 1..Len(got[c]) : ~IsEnd(got[c][i], s)
  BY LinkEnds DEF HaveBeenTold, LastReceived
<1>3. l[2] \notin F
  <2>1. PICK x \in Ends : l = Up(x) \/ l = Down(x)
    BY DEF Links
  <2>2. CASE l = Up(x)
    <3>1. x \in Chain[s] /\ x = n /\ l[2] = Parent[x]
      BY <2>2, LinkEnds DEF Away
    <3>2. x # s
      BY <3>1, ClientEnds
    <3> QED BY <3>1, <3>2 DEF HaveBeenTold, NobodyBehind, Dead
  <2>3. CASE l = Down(x)
    <3>1. l[2] = x /\ Parent[x] = n
      BY <2>3, LinkEnds
    <3>2. CASE x \in Clients
      BY <3>1, <3>2, ClientEnds
    <3>3. CASE x \in Children
      <4>1. x \notin Chain[s]
        BY <2>3, <3>3 DEF Away
      <4> QED BY <3>1, <3>3, <4>1 DEF HaveBeenTold, NobodyBehind, Dead
    <3> QED BY <3>2, <3>3 DEF Ends
  <2> QED BY <2>1, <2>2, <2>3
<1> QED BY <1>1, <1>2, <1>3 DEF Clear

\* ... the link of s itself while it is connected ...
LEMMA ClientClear ==
  ASSUME NEW s \in Clients, NEW F \in SUBSET Nodes, HaveBeenTold(s, F),
         conn[s] = "on"
  PROVE  Clear(Up(s), s, F)
<1>0. s \in Ends /\ s \notin Nodes /\ Up(s) \in Links
  BY ClientEnds, LinksDiffer
<1>1. \A i \in 1..Len(queue[Up(s)]) : ~IsEnd(queue[Up(s)][i], s)
  BY <1>0, LinkEnds DEF HaveBeenTold, LastInLinks
<1>2. \A c \in Clients : Up(s) # Down(c)
  BY <1>0, ClientEnds, LinksDiffer
<1>3. Parent[s] \notin F
  BY <1>0, ChainRises DEF HaveBeenTold, NobodyBehind
<1> QED BY <1>1, <1>2, <1>3, LinkEnds DEF Clear

\* ... and the links to the clients of a node that has not been told.
LEMMA ClientDownClear ==
  ASSUME NEW s \in Clients, NEW F \in SUBSET Nodes, HaveBeenTold(s, F),
         NEW c \in Clients, Parent[c] \notin F
  PROVE  Clear(Down(c), s, F)
<1>0. c \in Ends /\ c \notin Nodes /\ Down(c) \in Links
  BY ClientEnds, LinksDiffer
<1>1. \A i \in 1..Len(queue[Down(c)]) : ~IsEnd(queue[Down(c)][i], s)
  BY <1>0, LinkEnds DEF HaveBeenTold, LastInLinks
<1>2. \A d \in Clients : Down(c) = Down(d) => d = c
  BY <1>0, ClientEnds, LinksDiffer
<1>3. \A i \in 1..Len(got[c]) : ~IsEnd(got[c][i], s)
  BY DEF HaveBeenTold, LastReceived
<1> QED BY <1>0, <1>1, <1>2, <1>3, LinkEnds DEF Clear

\* Lemma: a step that tells the nodes of G besides those of F, and sends
\* messages of s over clear links at most.
LEMMA ToldAfter ==
  ASSUME TypeInv, TypeInv', Onward, NEW s \in Clients,
         NEW F \in SUBSET Nodes, NEW G \in SUBSET Nodes, F \subseteq G,
         HaveBeenTold(s, F), got' = got,
         NEW q \in Queues, NEW links, NEW pkts \in Seq(Cargoes),
         Flows(links, pkts), FlowsFrom(q, links, pkts),
         \A n \in G, g \in AllGroups : history'[n][g][s] = <<>>,
         \A l \in Links : l[2] \in G \ F =>
           \A i \in 1..Len(q[l]) : ~IsFrom(q[l][i], s),
         \A x \in Chain[s] : Parent[x] \in G \ F =>
           IF x = s THEN conn'[s] = "gone" ELSE x \in G \/ Dead(x),
         \A n \in ((G \ F) \cap Children) \ Chain[s] :
           Parent[n] \in G \/ Dead(Parent[n]),
         \A u \in 1..Len(pkts) : IsEnd(pkts[u], s) =>
           \A l \in links : l[1] \in G,
         \/ \A u \in 1..Len(pkts) : ~IsFrom(pkts[u], s)
         \/ /\ G = F /\ \A u \in 1..Len(pkts) : ~IsEnd(pkts[u], s)
            /\ \A l \in links : l \in Links => Clear(l, s, F)
  PROVE  HaveBeenTold(s, G)'
<1>0. /\ queue \in Queues /\ queue' \in Queues /\ FlowsFrom(queue, links, pkts)
  BY TypeInvIs, FlowsIs DEF Flows
<1>a. /\ NothingKept(s, F) /\ NobodyBehind(s, F)
      /\ LastInLinks(s, F) /\ LastReceived(s, F)
  BY DEF HaveBeenTold
<1>1. ASSUME NEW l \in Links, l[2] \in G, NEW i \in 1..Len(queue'[l])
      PROVE  ~IsFrom(queue'[l][i], s)
  <2> SUFFICES ASSUME IsFrom(queue'[l][i], s)
               PROVE  FALSE
    OBVIOUS
  <2>1. CASE l[2] \in F
    <3>1. \/ \E k \in 1..Len(queue[l]) : queue'[l][i] = queue[l][k]
          \/ l \in links /\ \E u \in 1..Len(pkts) : queue'[l][i] = pkts[u]
      BY <1>1, FlowHolds
    <3>2. \A k \in 1..Len(queue[l]) : ~IsFrom(queue[l][k], s)
      BY <1>a, <2>1 DEF NothingKept
    <3>3. l \in links /\ \E u \in 1..Len(pkts) : IsFrom(pkts[u], s)
      BY <3>1, <3>2
    <3> QED BY <2>1, <3>3 DEF Clear
  <2>2. CASE l[2] \notin F
    <3>1. G # F /\ l[2] \in G \ F
      BY <1>1, <2>2
    <3>2. \A u \in 1..Len(pkts) : ~IsFrom(pkts[u], s)
      BY <3>1
    <3>3. \A k \in 1..Len(q[l]) : ~IsFrom(q[l][k], s)
      BY <3>1
    <3>4. \/ \E k \in 1..Len(q[l]) : queue'[l][i] = q[l][k]
          \/ \E u \in 1..Len(pkts) : queue'[l][i] = pkts[u]
      <4>1. PICK at \in [1..Len(queue'[l]) -> Nat] :
              /\ \A a, j \in 1..Len(queue'[l]) : a < j => at[a] < at[j]
              /\ \A j \in 1..Len(queue'[l]) :
                   \/ at[j] \in 1..Len(q[l]) /\ queue'[l][j] = q[l][at[j]]
                   \/ /\ l \in links /\ Open(l)
                      /\ \E u \in 1..Len(pkts) :
                           at[j] = Len(q[l]) + u /\ queue'[l][j] = pkts[u]
        BY FlowPlaces
      <4> QED BY <1>1, <4>1
    <3> QED BY <3>2, <3>3, <3>4
  <2> QED BY <2>1, <2>2
<1>2. ASSUME NEW l \in Links, NEW i \in 1..Len(queue'[l]), IsEnd(queue'[l][i], s)
      PROVE  l[1] \in G /\ \A j \in i..Len(queue'[l]) : ~IsFrom(queue'[l][j], s)
  <2>0. Len(queue'[l]) \in Nat /\ Len(queue[l]) \in Nat /\ Len(pkts) \in Nat
    <3>1. queue'[l] \in Seq(Packets \cup Hellos) /\ queue[l] \in Seq(Packets \cup Hellos)
      BY <1>0 DEF Queues
    <3> QED BY <3>1
  <2>1. PICK at \in [1..Len(queue'[l]) -> Nat] :
          /\ \A a, j \in 1..Len(queue'[l]) : a < j => at[a] < at[j]
          /\ \A j \in 1..Len(queue'[l]) :
               \/ at[j] \in 1..Len(queue[l]) /\ queue'[l][j] = queue[l][at[j]]
               \/ /\ l \in links /\ Open(l)
                  /\ \E u \in 1..Len(pkts) :
                       at[j] = Len(queue[l]) + u /\ queue'[l][j] = pkts[u]
    BY <1>0, FlowPlaces
  <2>2. l[1] \in G
    <3>1. CASE at[i] \in 1..Len(queue[l]) /\ queue'[l][i] = queue[l][at[i]]
      <4>1. IsEnd(queue[l][at[i]], s)
        BY <1>2, <3>1
      <4> QED BY <1>a, <3>1, <4>1 DEF LastInLinks
    <3>2. CASE l \in links /\ \E u \in 1..Len(pkts) : queue'[l][i] = pkts[u]
      BY <1>2, <3>2
    <3> QED BY <1>2, <2>1, <3>1, <3>2
  <2>3. ASSUME NEW j \in i..Len(queue'[l]), IsFrom(queue'[l][j], s)
        PROVE  FALSE
    <3>1. i # j
      BY <1>2, <2>3 DEF IsFrom, IsEnd, MsgCommands
    <3>2. j \in 1..Len(queue'[l]) /\ i < j
      BY <1>2, <2>0, <2>3, <3>1
    <3>3. at[i] < at[j] /\ at[i] \in Nat /\ at[j] \in Nat
      BY <1>2, <2>1, <3>2
    <3>4. \/ at[j] \in 1..Len(queue[l]) /\ queue'[l][j] = queue[l][at[j]]
          \/ l \in links /\ \E u \in 1..Len(pkts) : queue'[l][j] = pkts[u]
      BY <2>1, <3>2
    <3>5. CASE at[j] \in 1..Len(queue[l]) /\ queue'[l][j] = queue[l][at[j]]
      <4>1. \A u \in 1..Len(pkts) : at[i] # Len(queue[l]) + u
        BY <2>0, <3>3, <3>5
      <4>2. at[i] \in 1..Len(queue[l]) /\ queue'[l][i] = queue[l][at[i]]
        BY <1>2, <2>1, <4>1
      <4>3. IsEnd(queue[l][at[i]], s) /\ IsFrom(queue[l][at[j]], s)
        BY <1>2, <2>3, <3>5, <4>2
      <4>4. at[j] \in at[i]..Len(queue[l])
        BY <2>0, <3>3, <3>5, <4>2
      <4> QED BY <1>a, <4>2, <4>3, <4>4 DEF LastInLinks
    <3>6. CASE l \in links /\ \E u \in 1..Len(pkts) : queue'[l][j] = pkts[u]
      <4>1. \E u \in 1..Len(pkts) : IsFrom(pkts[u], s)
        BY <2>3, <3>6
      <4>2. /\ \A u \in 1..Len(pkts) : ~IsEnd(pkts[u], s)
            /\ Clear(l, s, F)
        BY <3>6, <4>1
      <4>3. \E k \in 1..Len(queue[l]) : queue'[l][i] = queue[l][k]
        BY <1>2, <2>1, <4>2
      <4> QED BY <1>2, <4>2, <4>3 DEF Clear
    <3> QED BY <3>4, <3>5, <3>6
  <2> QED BY <2>2, <2>3
<1>3. ASSUME NEW c \in Clients, NEW i \in 1..Len(got[c]), IsEnd(got[c][i], s)
      PROVE  /\ Parent[c] \in G
             /\ \A j \in i..Len(got[c]) : ~IsFrom(got[c][j], s)
             /\ \A j \in 1..Len(queue'[Down(c)]) : ~IsFrom(queue'[Down(c)][j], s)
  <2>0. Down(c) \in Links
    BY ClientEnds, LinksDiffer
  <2>1. /\ Parent[c] \in F
        /\ \A j \in i..Len(got[c]) : ~IsFrom(got[c][j], s)
        /\ \A j \in 1..Len(queue[Down(c)]) : ~IsFrom(queue[Down(c)][j], s)
    BY <1>a, <1>3 DEF LastReceived
  <2>2. ASSUME NEW j \in 1..Len(queue'[Down(c)]), IsFrom(queue'[Down(c)][j], s)
        PROVE  FALSE
    <3>1. \/ \E k \in 1..Len(queue[Down(c)]) :
               queue'[Down(c)][j] = queue[Down(c)][k]
          \/ Down(c) \in links /\ \E u \in 1..Len(pkts) :
               queue'[Down(c)][j] = pkts[u]
      BY <2>0, FlowHolds
    <3>2. Down(c) \in links /\ \E u \in 1..Len(pkts) : IsFrom(pkts[u], s)
      BY <2>1, <2>2, <3>1
    <3>3. Clear(Down(c), s, F)
      BY <2>0, <3>2
    <3> QED BY <1>3, <3>3 DEF Clear
  <2> QED BY <2>1, <2>2
<1>4. ASSUME NEW x \in Chain[s], Parent[x] \in G
      PROVE  IF x = s THEN conn'[s] = "gone" ELSE x \in G \/ Dead(x)'
  <2>1. IF x = s THEN conn'[s] = "gone" ELSE x \in G \/ Dead(x)
    <3>1. CASE Parent[x] \in F
      BY <1>a, <3>1 DEF NobodyBehind, Onward
    <3>2. CASE Parent[x] \notin F
      BY <1>4, <3>2
    <3> QED BY <3>1, <3>2
  <2>2. x # s => x \in Nodes
    BY ChainNodes DEF Nodes
  <2> QED BY <2>1, <2>2 DEF Dead, Onward
<1>5. ASSUME NEW n \in (G \cap Children) \ Chain[s]
      PROVE  Parent[n] \in G \/ Dead(Parent[n])'
  <2>1. Parent[n] \in G \/ Dead(Parent[n])
    BY <1>a DEF NobodyBehind
  <2>2. Parent[n] \in Nodes
    BY ChildEnds
  <2> QED BY <2>1, <2>2 DEF Dead, Onward
<1>6. NothingKept(s, G)'
  BY <1>1 DEF NothingKept
<1>7. NobodyBehind(s, G)'
  BY <1>4, <1>5 DEF NobodyBehind
<1>8. LastInLinks(s, G)'
  BY <1>2 DEF LastInLinks
<1>9. LastReceived(s, G)'
  BY <1>3 DEF LastReceived
<1> QED BY <1>6, <1>7, <1>8, <1>9 DEF HaveBeenTold

\* Lemmas: the steps, one kind at a time.
LEMMA EndingNothingNew ==
  ASSUME TypeInv, TypeInv', Onward, Ending,
         history' = history, got' = got,
         NEW links, NEW pkts \in Seq(Cargoes), Flows(links, pkts),
         \A u \in 1..Len(pkts) : ~Bound(pkts[u])
  PROVE  Ending'
<1> SUFFICES ASSUME NEW s \in Clients
             PROVE  \E F \in SUBSET Nodes : HaveBeenTold(s, F)'
  BY DEF Ending
<1>1. PICK F \in SUBSET Nodes : HaveBeenTold(s, F)
  BY DEF Ending
<1>2. \A n \in F, g \in AllGroups : history'[n][g][s] = <<>>
  BY <1>1 DEF HaveBeenTold, NothingKept
<1>3. queue \in Queues /\ FlowsFrom(queue, links, pkts)
  BY TypeInvIs, FlowsIs
<1>4. \A u \in 1..Len(pkts) : ~IsFrom(pkts[u], s) /\ ~IsEnd(pkts[u], s)
  BY DEF Bound, IsFrom, IsEnd
<1>5. HaveBeenTold(s, F)'
  BY <1>1, <1>2, <1>3, <1>4, ToldAfter
<1> QED BY <1>5

\* Lemma: some links get messages; of every client that any of them is from,
\* they come over clear links.
LEMMA EndingMessages ==
  ASSUME TypeInv, TypeInv', Onward, Ending, got' = got,
         NEW links, NEW pkts \in Seq(Cargoes), Flows(links, pkts),
         \A u \in 1..Len(pkts) : pkts[u].cmd # "CLIENT_DISCONNECTED",
         \A s \in Clients, F \in SUBSET Nodes : HaveBeenTold(s, F) =>
           /\ \A n \in F, g \in AllGroups : history'[n][g][s] = history[n][g][s]
           /\ \A u \in 1..Len(pkts) : IsFrom(pkts[u], s) =>
                \A l \in links : l \in Links => Clear(l, s, F)
  PROVE  Ending'
<1> SUFFICES ASSUME NEW s \in Clients
             PROVE  \E F \in SUBSET Nodes : HaveBeenTold(s, F)'
  BY DEF Ending
<1>1. PICK F \in SUBSET Nodes : HaveBeenTold(s, F)
  BY DEF Ending
<1>2. \A n \in F, g \in AllGroups : history'[n][g][s] = <<>>
  BY <1>1 DEF HaveBeenTold, NothingKept
<1>3. queue \in Queues /\ FlowsFrom(queue, links, pkts)
  BY TypeInvIs, FlowsIs
<1>4. \A u \in 1..Len(pkts) : ~IsEnd(pkts[u], s)
  BY DEF IsEnd
<1>5. \/ \A u \in 1..Len(pkts) : ~IsFrom(pkts[u], s)
      \/ \A l \in links : l \in Links => Clear(l, s, F)
  BY <1>1
<1>6. HaveBeenTold(s, F)'
  BY <1>1, <1>2, <1>3, <1>4, <1>5, ToldAfter
<1> QED BY <1>6

\* Lemma: requests and answers.
LEMMA EndingQuietly ==
  ASSUME TypeInv, TypeInv', Onward, Ending, Quietly
  PROVE  Ending'
<1>0. PICK links : \E pkts \in Seq(Packets) :
        Flows(links, pkts) /\ \A u \in 1..Len(pkts) : pkts[u].cmd \in Asks
  BY DEF Quietly
<1>1. PICK pkts \in Seq(Packets) :
        Flows(links, pkts) /\ \A u \in 1..Len(pkts) : pkts[u].cmd \in Asks
  BY <1>0
<1>2. pkts \in Seq(Cargoes) /\ \A u \in 1..Len(pkts) : ~Bound(pkts[u])
  BY <1>1, CargoSeqs DEF Bound, Asks, MsgCommands
<1>3. history' = history /\ got' = got
  BY DEF Quietly, same
<1> QED BY <1>1, <1>2, <1>3, EndingNothingNew

\* Lemma: a hello.
LEMMA EndingStarts ==
  ASSUME TypeInv, TypeInv', Onward, Ending, Starts
  PROVE  Ending'
<1>1. PICK m \in Children : NodeStart(m)
  BY DEF Starts
<1>2. PICK hello \in Hellos : Flows({Up(m)}, <<hello>>)
  BY <1>1, NodeStartFlows
<1>3. history' = history /\ got' = got
  BY <1>1, NodeStartFlows DEF same
<1>4. PICK pkts : pkts = <<hello>>
  OBVIOUS
<1>5. pkts \in Seq(Cargoes) /\ \A u \in 1..Len(pkts) : ~Bound(pkts[u])
  BY <1>4 DEF Cargoes, Hellos, Bound, MsgCommands
<1>6. Flows({Up(m)}, pkts)
  BY <1>2, <1>4
<1> QED BY <1>3, <1>5, <1>6, EndingNothingNew

\* Lemma: a history for a client: its node has not been told.
LEMMA EndingSendsHistory ==
  ASSUME TypeInv, TypeInv', Onward, Ending, SendsHistory
  PROVE  Ending'
<1>1. PICK c \in Clients, pkts \in Seq(Packets) :
        /\ Flows({Down(c)}, pkts)
        /\ \A u \in 1..Len(pkts) :
             \/ pkts[u].cmd \in Asks
             \/ \E g \in AllGroups : /\ pkts[u] \in Kept(Parent[c], g, pkts[u].client)
                                     /\ pkts[u].client \in Clients
  BY DEF SendsHistory
<1>2. history' = history /\ got' = got
  BY DEF SendsHistory, same
<1>3. pkts \in Seq(Cargoes) /\ Parent[c] \in Nodes
  BY CargoSeqs, ClientEnds
<1>4. ASSUME NEW u \in 1..Len(pkts)
      PROVE  pkts[u].cmd # "CLIENT_DISCONNECTED"
  <2>1. CASE pkts[u].cmd \in Asks
    BY <2>1 DEF Asks
  <2>2. CASE \E g \in AllGroups : /\ pkts[u] \in Kept(Parent[c], g, pkts[u].client)
                                  /\ pkts[u].client \in Clients
    <3>1. pkts[u] \in Msgs
      BY <1>3, <2>2, KeptAreMsgs
    <3> QED BY <3>1, PacketKinds DEF MsgCommands
  <2> QED BY <1>1, <2>1, <2>2
<1>5. ASSUME NEW s \in Clients, NEW F \in SUBSET Nodes, HaveBeenTold(s, F),
             NEW u \in 1..Len(pkts), IsFrom(pkts[u], s)
      PROVE  Clear(Down(c), s, F)
  <2>1. PICK g \in AllGroups : pkts[u] \in Kept(Parent[c], g, s)
    BY <1>1, <1>5 DEF IsFrom, Asks, MsgCommands
  <2>2. history[Parent[c]][g][s] # <<>>
    BY <2>1 DEF Kept, ToSet
  <2>3. Parent[c] \notin F
    BY <1>5, <2>2 DEF HaveBeenTold, NothingKept
  <2> QED BY <1>5, <2>3, ClientDownClear
<1> QED BY <1>1, <1>2, <1>3, <1>4, <1>5, EndingMessages

\* Lemma: the histories for a new node: its parent has not been told.
LEMMA EndingSynchronizes ==
  ASSUME TypeInv, TypeInv', Placed, HelloFirst, Outward, Onward, Ending,
         Synchronizes
  PROVE  Ending'
<1>1. PICK m \in Children : synchronizeNewSeCo(m)
  BY DEF Synchronizes
<1>2. PICK pkts \in Seq(Packets) :
        /\ Flows({Down(m)}, pkts)
        /\ \A u \in 1..Len(pkts) :
             /\ pkts[u].client \in Clients /\ conn[pkts[u].client] # "off"
             /\ Away(Down(m), pkts[u].client)
             /\ \E g \in AllGroups :
                  pkts[u] \in Kept(Parent[m], g, pkts[u].client)
             /\ pkts[u].cmd \in MsgCommands
  BY <1>1, SynchronizeFacts
<1>3. history' = history /\ got' = got /\ status[Parent[m]] = "up"
  BY <1>1, SynchronizeFacts
<1>4. pkts \in Seq(Cargoes) /\ Parent[m] \in Nodes /\ Down(m) \in Links
      /\ Down(m)[1] = Parent[m]
  BY CargoSeqs, ChildEnds, LinksDiffer, LinkEnds
<1>5. \A u \in 1..Len(pkts) : pkts[u].cmd # "CLIENT_DISCONNECTED"
  BY <1>2 DEF MsgCommands
<1>6. ASSUME NEW s \in Clients, NEW F \in SUBSET Nodes, HaveBeenTold(s, F),
             NEW u \in 1..Len(pkts), IsFrom(pkts[u], s)
      PROVE  Clear(Down(m), s, F)
  <2>1. Away(Down(m), s) /\ \E g \in AllGroups : pkts[u] \in Kept(Parent[m], g, s)
    BY <1>2, <1>6 DEF IsFrom
  <2>2. PICK g \in AllGroups : pkts[u] \in Kept(Parent[m], g, s)
    BY <2>1
  <2>3. history[Parent[m]][g][s] # <<>>
    BY <2>2 DEF Kept, ToSet
  <2>4. Parent[m] \notin F
    BY <1>6, <2>3 DEF HaveBeenTold, NothingKept
  <2> QED BY <1>3, <1>4, <1>6, <2>1, <2>4, NodeClear
<1> QED BY <1>2, <1>3, <1>4, <1>5, <1>6, EndingMessages

\* Lemma: a message of a client, which is still connected.
LEMMA EndingSends ==
  ASSUME TypeInv, TypeInv', Onward, Ending, Sends
  PROVE  Ending'
<1>1. PICK c \in Clients, p \in Msgs :
        p.client = c /\ conn[c] = "on" /\ Flows({Up(c)}, <<p>>)
  BY DEF Sends
<1>2. history' = history /\ got' = got
  BY DEF Sends, same
<1>3. PICK pkts : pkts = <<p>>
  OBVIOUS
<1>4. /\ pkts \in Seq(Cargoes) /\ Flows({Up(c)}, pkts)
      /\ \A u \in 1..Len(pkts) : pkts[u] = p
  BY <1>1, <1>3, CargoSeqs
<1>5. \A u \in 1..Len(pkts) : pkts[u].cmd # "CLIENT_DISCONNECTED"
  BY <1>4, PacketKinds DEF MsgCommands
<1>6. ASSUME NEW s \in Clients, NEW F \in SUBSET Nodes, HaveBeenTold(s, F),
             NEW u \in 1..Len(pkts), IsFrom(pkts[u], s)
      PROVE  Clear(Up(c), s, F)
  <2>1. c = s
    BY <1>1, <1>4, <1>6 DEF IsFrom
  <2> QED BY <1>1, <1>6, <2>1, ClientClear
<1> QED BY <1>2, <1>4, <1>5, <1>6, EndingMessages

\* Lemma: a message that is routed: it came, so the node has not been told.
LEMMA EndingRoutes ==
  ASSUME TypeInv, TypeInv', Outward, Onward, Ending, Routes
  PROVE  Ending'
<1>1. PICK n \in Nodes, k \in Links, p \in Msgs : \E targets :
        /\ k[2] = n /\ status[n] = "up"
        /\ 1 \in 1..Len(queue[k]) /\ p = queue[k][1]
        /\ Flows(targets, <<p>>)
        /\ \A l \in targets : l[1] = n /\ Away(l, p.client)
        /\ \A x \in Nodes, g \in AllGroups, s \in Clients :
             history'[x][g][s] = history[x][g][s] \/ (x = n /\ s = p.client)
  BY DEF Routes
<1>2. PICK targets :
        /\ k[2] = n /\ status[n] = "up"
        /\ 1 \in 1..Len(queue[k]) /\ p = queue[k][1]
        /\ Flows(targets, <<p>>)
        /\ \A l \in targets : l[1] = n /\ Away(l, p.client)
        /\ \A x \in Nodes, g \in AllGroups, s \in Clients :
             history'[x][g][s] = history[x][g][s] \/ (x = n /\ s = p.client)
  BY <1>1
<1>3. got' = got
  BY DEF Routes
<1>4. PICK pkts : pkts = <<p>>
  OBVIOUS
<1>5. /\ pkts \in Seq(Cargoes) /\ Flows(targets, pkts)
      /\ \A u \in 1..Len(pkts) : pkts[u] = p
  BY <1>2, <1>4, CargoSeqs
<1>6. p.cmd \in MsgCommands /\ p.cmd # "CLIENT_DISCONNECTED" /\ p.client \in Clients
  BY PacketKinds DEF MsgCommands
<1>7. \A u \in 1..Len(pkts) : pkts[u].cmd # "CLIENT_DISCONNECTED"
  BY <1>5, <1>6
<1>8. ASSUME NEW F \in SUBSET Nodes, HaveBeenTold(p.client, F)
      PROVE  n \notin F
  <2>1. IsFrom(queue[k][1], p.client)
    BY <1>2, <1>6 DEF IsFrom
  <2> QED BY <1>2, <1>8, <2>1 DEF HaveBeenTold, NothingKept
<1>9. ASSUME NEW s \in Clients, NEW F \in SUBSET Nodes, HaveBeenTold(s, F),
             NEW x \in F, NEW g \in AllGroups
      PROVE  history'[x][g][s] = history[x][g][s]
  BY <1>2, <1>8, <1>9
<1>10. ASSUME NEW s \in Clients, NEW F \in SUBSET Nodes, HaveBeenTold(s, F),
              NEW u \in 1..Len(pkts), IsFrom(pkts[u], s),
              NEW l \in targets, l \in Links
       PROVE  Clear(l, s, F)
  <2>1. s = p.client
    BY <1>5, <1>10 DEF IsFrom
  <2>2. n \notin F /\ l[1] = n /\ Away(l, s)
    BY <1>2, <1>8, <1>10, <2>1
  <2> QED BY <1>2, <1>10, <2>2, NodeClear
<1> QED BY <1>3, <1>5, <1>7, <1>9, <1>10, EndingMessages

\* Lemma: a packet of a thinner sequence is one of the sequence.
LEMMA ThinsHolds ==
  ASSUME NEW t, NEW s, Thins(t, s), NEW i \in 1..Len(t)
  PROVE  \E k \in 1..Len(s) : t[i] = s[k]
BY DEF Thins

\* Lemma: what a node has learnt, and from where: nothing of s comes to it any
\* more, and its neighbours towards s have been told or are dead.
LEMMA LearnsFacts ==
  ASSUME TypeInv, Outward, NEW s \in Clients, NEW F \in SUBSET Nodes,
         HaveBeenTold(s, F), NEW n \in Nodes, NEW q \in Queues,
         \A l \in Links : Thins(q[l], queue[l]), Learns(n, q, s)
  PROVE  /\ \A l \in Links : l[2] = n =>
              \A i \in 1..Len(q[l]) : ~IsFrom(q[l][i], s)
         /\ \A x \in Chain[s] : Parent[x] = n =>
              IF x = s THEN conn'[s] = "gone" ELSE x \in F \/ Dead(x)
         /\ n \in Children \ Chain[s] => Parent[n] \in F
<1>0. s \in Ends /\ s \notin Nodes /\ Chain[s] \in SUBSET Ends /\ queue \in Queues
  BY ClientEnds, ChainRises, TypeInvIs
<1>1. ASSUME NEW l \in Links, l[2] = n, NEW i \in 1..Len(q[l]), IsFrom(q[l][i], s)
      PROVE  Away(l, s)
  <2>1. PICK j \in 1..Len(queue[l]) : q[l][i] = queue[l][j]
    BY <1>1, ThinsHolds
  <2>2. Bound(queue[l][j]) /\ queue[l][j].client = s
    BY <1>1, <2>1 DEF IsFrom, Bound
  <2> QED BY <2>2 DEF Outward
<1>2. ASSUME NEW k \in Links, k[2] = n, q = Taken(k), 1 \in 1..Len(queue[k]),
             IsEnd(queue[k][1], s)
      PROVE  /\ \A l \in Links : l[2] = n =>
                  \A i \in 1..Len(q[l]) : ~IsFrom(q[l][i], s)
             /\ \A x \in Chain[s] : Parent[x] = n => x # s /\ x \in F
             /\ n \in Children \ Chain[s] => Parent[n] \in F
  <2>1. k[1] \in F /\ \A j \in 1..Len(queue[k]) : ~IsFrom(queue[k][j], s)
    BY <1>2 DEF HaveBeenTold, LastInLinks
  <2>2. Away(k, s)
    BY <1>2 DEF Outward, IsEnd, Bound
  <2>3. ASSUME NEW l \in Links, l[2] = n, NEW i \in 1..Len(q[l]),
               IsFrom(q[l][i], s)
        PROVE  FALSE
    <3>1. l = k
      BY <1>1, <1>2, <2>2, <2>3, OneLinkAway
    <3>2. \E j \in 1..Len(queue[l]) : q[l][i] = queue[l][j]
      BY <2>3, ThinsHolds
    <3> QED BY <2>1, <2>3, <3>1, <3>2
  <2>4. ASSUME NEW x \in Chain[s], Parent[x] = n
        PROVE  x # s /\ x \in F
    <3>1. x \in Ends /\ Up(x) \in Links /\ Up(x)[1] = x /\ Up(x)[2] = n
      BY <1>0, <2>4, LinksDiffer, LinkEnds
    <3>2. Up(x) = k
      BY <1>2, <2>2, <3>1, UpAway, OneLinkAway
    <3> QED BY <1>0, <2>1, <3>1, <3>2
  <2>5. ASSUME n \in Children, n \notin Chain[s]
        PROVE  Parent[n] \in F
    <3>1. n \in Ends /\ Down(n) \in Links /\ Down(n)[1] = Parent[n] /\ Down(n)[2] = n
      BY <2>5, ChildEnds, LinksDiffer, LinkEnds
    <3>2. Down(n) = k
      BY <1>2, <2>2, <2>5, <3>1, DownChildAway, OneLinkAway
    <3> QED BY <2>1, <3>1, <3>2
  <2> QED BY <2>3, <2>4, <2>5
<1>3. ASSUME NEW x \in Chain[s], Parent[x] = n, q = [queue EXCEPT ![Up(x)] = <<>>],
             IF x = s THEN conn'[s] = "gone" ELSE Dead(x)
      PROVE  /\ \A l \in Links : l[2] = n =>
                  \A i \in 1..Len(q[l]) : ~IsFrom(q[l][i], s)
             /\ \A y \in Chain[s] : Parent[y] = n =>
                  IF y = s THEN conn'[s] = "gone" ELSE y \in F \/ Dead(y)
             /\ n \in Children \ Chain[s] => Parent[n] \in F
  <2>1. x \in Ends /\ Up(x) \in Links /\ Up(x)[2] = n
    BY <1>0, <1>3, LinksDiffer, LinkEnds
  <2>2. q[Up(x)] = <<>>
    BY <1>0, <1>3, <2>1, EmptiedIs
  <2>3. ASSUME NEW l \in Links, l[2] = n, NEW i \in 1..Len(q[l]),
               IsFrom(q[l][i], s)
        PROVE  FALSE
    <3>1. l = Up(x)
      BY <1>1, <2>1, <2>3, UpAway, OneLinkAway
    <3> QED BY <2>2, <2>3, <3>1
  <2>4. \A y \in Chain[s] : Parent[y] = n => y = x
    BY <1>0, <1>3, ChainInjective
  <2>5. n \in Children => n \in Chain[s]
    BY <1>0, <1>3, ChainRises, ChildEnds
  <2> QED BY <1>3, <2>3, <2>4, <2>5
<1> QED BY <1>2, <1>3 DEF Learns

\* Lemma: a burial: the node has been told from now on.
LEMMA EndingBuries ==
  ASSUME TypeInv, TypeInv', Outward, Onward, Ending, Buries
  PROVE  Ending'
<1>a. PICK n \in Nodes, q \in Queues, cs \in SUBSET Clients : \E targets :
        \E news \in Obituaries(cs) :
          /\ \A l \in Links : Thins(q[l], queue[l])
          /\ \A s \in cs : Learns(n, q, s)
          /\ Flows(targets, news) /\ FlowsFrom(q, targets, news)
          /\ \A l \in targets : l[1] = n
          /\ \A x \in Nodes, g \in AllGroups, s \in Clients : history'[x][g][s] =
               IF x = n /\ s \in cs THEN <<>> ELSE history[x][g][s]
  BY DEF Buries
<1>1. PICK targets : \E news \in Obituaries(cs) :
          /\ \A l \in Links : Thins(q[l], queue[l])
          /\ \A s \in cs : Learns(n, q, s)
          /\ Flows(targets, news) /\ FlowsFrom(q, targets, news)
          /\ \A l \in targets : l[1] = n
          /\ \A x \in Nodes, g \in AllGroups, s \in Clients : history'[x][g][s] =
               IF x = n /\ s \in cs THEN <<>> ELSE history[x][g][s]
  BY <1>a
<1>2. PICK news \in Obituaries(cs) :
        /\ \A l \in Links : Thins(q[l], queue[l])
        /\ \A s \in cs : Learns(n, q, s)
        /\ Flows(targets, news) /\ FlowsFrom(q, targets, news)
        /\ \A l \in targets : l[1] = n
        /\ \A x \in Nodes, g \in AllGroups, s \in Clients : history'[x][g][s] =
             IF x = n /\ s \in cs THEN <<>> ELSE history[x][g][s]
  BY <1>1
<1>3. got' = got
  BY DEF Buries
<1>4. /\ news \in Seq(Cargoes)
      /\ \A u \in 1..Len(news) : /\ news[u].client \in cs
                                 /\ \A s \in Clients : ~IsFrom(news[u], s)
  BY DEF Obituaries, Cargoes, Packets, IsFrom, MsgCommands
<1> SUFFICES ASSUME NEW s \in Clients
             PROVE  \E F \in SUBSET Nodes : HaveBeenTold(s, F)'
  BY DEF Ending
<1>5. PICK F \in SUBSET Nodes : HaveBeenTold(s, F)
  BY DEF Ending
<1>6. \A x \in F, g \in AllGroups : history'[x][g][s] = <<>>
  BY <1>2, <1>5 DEF HaveBeenTold, NothingKept
<1>7. CASE s \notin cs
  <2>1. \A u \in 1..Len(news) : ~IsEnd(news[u], s)
    BY <1>4, <1>7 DEF IsEnd
  <2>2. HaveBeenTold(s, F)'
    BY <1>2, <1>3, <1>4, <1>5, <1>6, <2>1, ToldAfter
  <2> QED BY <2>2
<1>8. CASE s \in cs
  <2>1. PICK G \in SUBSET Nodes : G = F \cup {n}
    OBVIOUS
  <2>2. /\ \A l \in Links : l[2] = n =>
             \A i \in 1..Len(q[l]) : ~IsFrom(q[l][i], s)
        /\ \A x \in Chain[s] : Parent[x] = n =>
             IF x = s THEN conn'[s] = "gone" ELSE x \in F \/ Dead(x)
        /\ n \in Children \ Chain[s] => Parent[n] \in F
    BY <1>2, <1>5, <1>8, LearnsFacts
  <2>3. \A x \in G, g \in AllGroups : history'[x][g][s] = <<>>
    BY <1>2, <1>6, <1>8, <2>1
  <2>4. \A l \in Links : l[2] \in G \ F =>
          \A i \in 1..Len(q[l]) : ~IsFrom(q[l][i], s)
    BY <2>1, <2>2
  <2>5. \A x \in Chain[s] : Parent[x] \in G \ F =>
          IF x = s THEN conn'[s] = "gone" ELSE x \in G \/ Dead(x)
    BY <2>1, <2>2
  <2>6. \A x \in ((G \ F) \cap Children) \ Chain[s] :
          Parent[x] \in G \/ Dead(Parent[x])
    BY <2>1, <2>2
  <2>7. \A l \in targets : l[1] \in G
    BY <1>2, <2>1
  <2>8. F \subseteq G /\ \A u \in 1..Len(news) : ~IsFrom(news[u], s)
    BY <1>4, <2>1
  <2>9. HaveBeenTold(s, G)'
    BY <1>2, <1>3, <1>4, <1>5, <2>3, <2>4, <2>5, <2>6, <2>7, <2>8, ToldAfter
  <2> QED BY <2>9
<1> QED BY <1>7, <1>8

\* Lemma: a client receives a packet.
LEMMA EndingReceives ==
  ASSUME TypeInv, TypeInv', Onward, Ending, Receives
  PROVE  Ending'
<1>1. PICK c \in Clients : ClientReceive(c)
  BY DEF Receives
<1>2. PICK p : p = Head(queue[Down(c)])
  OBVIOUS
<1>3. Down(c) \in Links /\ c \in Ends /\ Down(c)[1] = Parent[c] /\ Down(c)[2] = c
      /\ c \notin Nodes
  BY ClientEnds, LinksDiffer, LinkEnds
<1>4. /\ queue[Down(c)] \in Seq(Packets \cup Hellos) /\ queue[Down(c)] # <<>>
      /\ queue \in Queues /\ got \in [Clients -> Seq(Packets)]
  BY <1>1, <1>3, TypeInvIs DEF ClientReceive, Queues
<1>5. /\ history' = history /\ queue' = Taken(Down(c))
      /\ got' = [got EXCEPT ![c] = Append(@, p)]
  BY <1>1, <1>2 DEF ClientReceive, tables
<1>6. \A l \in Links : queue'[l] = IF l = Down(c) THEN Tail(queue[l]) ELSE queue[l]
  BY <1>3, <1>4, <1>5, TakenIs
<1>7. \A d \in Clients : got'[d] = IF d = c THEN Append(got[c], p) ELSE got[d]
  BY <1>4, <1>5
<1>8. /\ p = queue[Down(c)][1] /\ 1 \in 1..Len(queue[Down(c)])
      /\ Len(queue[Down(c)]) \in Nat
      /\ Len(Tail(queue[Down(c)])) = Len(queue[Down(c)]) - 1
      /\ \A i \in 1..Len(Tail(queue[Down(c)])) :
           Tail(queue[Down(c)])[i] = queue[Down(c)][i + 1]
  BY <1>2, <1>4
<1>9. /\ Len(got[c]) \in Nat /\ Len(Append(got[c], p)) = Len(got[c]) + 1
      /\ \A i \in 1..Len(got[c]) : Append(got[c], p)[i] = got[c][i]
      /\ Append(got[c], p)[Len(got[c]) + 1] = p
  BY <1>4
<1> SUFFICES ASSUME NEW s \in Clients
             PROVE  \E F \in SUBSET Nodes : HaveBeenTold(s, F)'
  BY DEF Ending
<1>10. PICK F \in SUBSET Nodes : HaveBeenTold(s, F)
  BY DEF Ending
<1>11. NothingKept(s, F)'
  <2>1. \A l \in Links : l[2] \in F => queue'[l] = queue[l]
    BY <1>3, <1>6
  <2> QED BY <1>5, <1>10, <2>1 DEF HaveBeenTold, NothingKept
<1>12. NobodyBehind(s, F)'
  <2>1. UNCHANGED <<conn, status>>
    BY <1>1 DEF ClientReceive
  <2> QED BY <1>10, <2>1 DEF HaveBeenTold, NobodyBehind, Dead
<1>13. ASSUME NEW l \in Links, NEW i \in 1..Len(queue'[l]), IsEnd(queue'[l][i], s)
       PROVE  l[1] \in F /\ \A j \in i..Len(queue'[l]) : ~IsFrom(queue'[l][j], s)
  <2>1. CASE l # Down(c)
    BY <1>6, <1>10, <1>13, <2>1 DEF HaveBeenTold, LastInLinks
  <2>2. CASE l = Down(c)
    <3>1. queue'[l] = Tail(queue[l])
      BY <1>6, <2>2
    <3>2. i + 1 \in 1..Len(queue[l]) /\ queue'[l][i] = queue[l][i + 1]
      BY <1>8, <1>13, <2>2, <3>1
    <3>3. l[1] \in F /\ \A j \in (i + 1)..Len(queue[l]) : ~IsFrom(queue[l][j], s)
      BY <1>10, <1>13, <3>2 DEF HaveBeenTold, LastInLinks
    <3>4. \A j \in i..Len(queue'[l]) :
            j + 1 \in (i + 1)..Len(queue[l]) /\ queue'[l][j] = queue[l][j + 1]
      BY <1>8, <1>13, <2>2, <3>1
    <3> QED BY <3>3, <3>4
  <2> QED BY <2>1, <2>2
<1>14. ASSUME NEW d \in Clients, NEW i \in 1..Len(got'[d]), IsEnd(got'[d][i], s)
       PROVE  /\ Parent[d] \in F
              /\ \A j \in i..Len(got'[d]) : ~IsFrom(got'[d][j], s)
              /\ \A j \in 1..Len(queue'[Down(d)]) : ~IsFrom(queue'[Down(d)][j], s)
  <2>1. CASE d # c
    <3>1. got'[d] = got[d]
      BY <1>7, <2>1
    <3>2. Down(d) \in Links /\ Down(d) # Down(c)
      BY <1>3, <2>1, ClientEnds, LinksDiffer
    <3>3. queue'[Down(d)] = queue[Down(d)]
      BY <1>6, <3>2
    <3> QED BY <1>10, <1>14, <3>1, <3>3 DEF HaveBeenTold, LastReceived
  <2>2. CASE d = c
    <3>1. got'[c] = Append(got[c], p) /\ queue'[Down(c)] = Tail(queue[Down(c)])
      BY <1>3, <1>6, <1>7
    <3>2. CASE i \in 1..Len(got[c])
      <4>1. IsEnd(got[c][i], s)
        BY <1>9, <1>14, <2>2, <3>1, <3>2
      <4>2. /\ Parent[c] \in F
            /\ \A j \in i..Len(got[c]) : ~IsFrom(got[c][j], s)
            /\ \A j \in 1..Len(queue[Down(c)]) : ~IsFrom(queue[Down(c)][j], s)
        BY <1>10, <3>2, <4>1 DEF HaveBeenTold, LastReceived
      <4>3. ~IsFrom(p, s)
        BY <1>8, <4>2
      <4>4. \A j \in 1..Len(queue'[Down(c)]) : ~IsFrom(queue'[Down(c)][j], s)
        <5>1. \A j \in 1..Len(queue'[Down(c)]) : /\ j + 1 \in 1..Len(queue[Down(c)])
                /\ queue'[Down(c)][j] = queue[Down(c)][j + 1]
          BY <1>8, <3>1
        <5> QED BY <4>2, <5>1
      <4>5. \A j \in i..Len(got'[c]) : ~IsFrom(got'[c][j], s)
        <5>1. \A j \in i..Len(got'[c]) :
                \/ j \in i..Len(got[c]) /\ got'[c][j] = got[c][j]
                \/ got'[c][j] = p
          BY <1>9, <3>1, <3>2
        <5> QED BY <4>2, <4>3, <5>1
      <4> QED BY <2>2, <4>2, <4>4, <4>5
    <3>3. CASE i \notin 1..Len(got[c])
      <4>1. i = Len(got[c]) + 1 /\ got'[c][i] = p
        BY <1>9, <1>14, <2>2, <3>1, <3>3
      <4>2. IsEnd(queue[Down(c)][1], s)
        BY <1>8, <1>14, <2>2, <4>1
      <4>3. /\ Parent[c] \in F
            /\ \A j \in 1..Len(queue[Down(c)]) : ~IsFrom(queue[Down(c)][j], s)
        BY <1>3, <1>8, <1>10, <4>2 DEF HaveBeenTold, LastInLinks
      <4>4. \A j \in 1..Len(queue'[Down(c)]) : ~IsFrom(queue'[Down(c)][j], s)
        <5>1. \A j \in 1..Len(queue'[Down(c)]) : /\ j + 1 \in 1..Len(queue[Down(c)])
                /\ queue'[Down(c)][j] = queue[Down(c)][j + 1]
          BY <1>8, <3>1
        <5> QED BY <4>3, <5>1
      <4>5. \A j \in i..Len(got'[c]) : j = i
        BY <1>9, <3>1, <4>1
      <4>6. ~IsFrom(p, s)
        BY <1>8, <4>3
      <4> QED BY <2>2, <4>1, <4>3, <4>4, <4>5, <4>6
    <3> QED BY <3>2, <3>3
  <2> QED BY <2>1, <2>2
<1>15. LastInLinks(s, F)'
  BY <1>13 DEF LastInLinks
<1>16. LastReceived(s, F)'
  BY <1>14 DEF LastReceived
<1>17. HaveBeenTold(s, F)'
  BY <1>11, <1>12, <1>15, <1>16 DEF HaveBeenTold
<1> QED BY <1>17

\* Lemma: so every step keeps Ending.
LEMMA EndingStep ==
  ASSUME TypeInv, TypeInv', Placed, HelloFirst, Outward, Onward, Ending,
         KindsOfSteps
  PROVE  Ending'
BY EndingQuietly, EndingSendsHistory, EndingSynchronizes, EndingSends,
   EndingRoutes, EndingBuries, EndingReceives, EndingStarts DEF KindsOfSteps, OtherKinds

----------------------------------------------------------------------------
(* The theorem *)

EndInv ==
  /\ TypeInv /\ Placed /\ HelloFirst /\ Outward /\ RestKept /\ LookupOK
  /\ Ending

\* Lemma: the invariant holds initially.
LEMMA EndInvInit ==
  ASSUME Init
  PROVE  EndInv
BY TypeInit, PlacedInit, HelloFirstInit, OutwardInit, RestKeptInit, LookupInit,
   EndingInit DEF EndInv

\* Lemma: and every step keeps it.
LEMMA EndInvStep ==
  ASSUME EndInv, [Next]_vars
  PROVE  EndInv'
<1>0. /\ TypeInv /\ Placed /\ HelloFirst /\ Outward /\ RestKept /\ LookupOK
      /\ Ending
  BY DEF EndInv
<1>1. TypeInv'
  BY <1>0, TypeStep
<1>2. Onward /\ KindsOfSteps
  BY <1>0, OnwardStep, StepsAreKinds
<1>3. Placed' /\ RestKept' /\ LookupOK'
  BY <1>0, <1>1, <1>2, PlacedStep, RestKeptStep, LookupStep
<1>4. HelloFirst' /\ Outward' /\ Ending'
  BY <1>0, <1>1, <1>2, HelloFirstStep, OutwardStep, EndingStep
<1> QED BY <1>1, <1>3, <1>4 DEF EndInv

\* Lemma: what a client has received and what is on its way to it.
LEMMA EndInvShows ==
  ASSUME EndInv
  PROVE  NothingAfterTheEnd
<1>0. TypeInv /\ Ending
  BY DEF EndInv
<1> SUFFICES ASSUME NEW c \in Clients, NEW i \in 1..Len(Stream(c)),
                    NEW j \in 1..Len(Stream(c)), i < j,
                    Stream(c)[i].cmd = "CLIENT_DISCONNECTED",
                    Stream(c)[i].client = Stream(c)[j].client,
                    Stream(c)[j].cmd \in MsgCommands
             PROVE  FALSE
  BY DEF NothingAfterTheEnd
<1>1. PICK a, b : a = got[c] /\ b = queue[Down(c)]
  OBVIOUS
<1>2. Down(c) \in Links /\ c \in Ends
  BY ClientEnds, LinksDiffer
<1>3. a \in Seq(Cargoes) /\ b \in Seq(Cargoes) /\ Stream(c) = a \o b
  <2>1. got[c] \in Seq(Packets) /\ queue[Down(c)] \in Seq(Packets \cup Hellos)
    BY <1>0, <1>2, TypeInvIs DEF Queues
  <2> QED BY <1>1, <2>1, CargoSeqs DEF Cargoes, Stream
<1>4. Len(a) \in Nat /\ Len(b) \in Nat /\ i \in Nat /\ j \in Nat
  BY <1>3
<1>5. PICK s : s = Stream(c)[j].client
  OBVIOUS
<1>6. IsEnd(Stream(c)[i], s) /\ IsFrom(Stream(c)[j], s)
  BY <1>5 DEF IsEnd, IsFrom
<1>7. \/ i \in 1..Len(a) /\ Stream(c)[i] = a[i]
      \/ \E u \in 1..Len(b) : i = Len(a) + u /\ Stream(c)[i] = b[u]
  BY <1>3, ConcatPlaces
<1>8. \/ j \in 1..Len(a) /\ Stream(c)[j] = a[j]
      \/ \E u \in 1..Len(b) : j = Len(a) + u /\ Stream(c)[j] = b[u]
  BY <1>3, ConcatPlaces
<1>9. s \in Clients
  <2>1. Stream(c)[j] \in Cargoes
    BY <1>3, <1>8
  <2>2. Stream(c)[j] \notin Hellos
    BY PacketKinds DEF MsgCommands
  <2> QED BY <1>5, <2>1, <2>2, PacketKinds DEF Cargoes, Packets
<1>10. PICK F \in SUBSET Nodes : HaveBeenTold(s, F)
  BY <1>0, <1>9 DEF Ending
<1>11. CASE i \in 1..Len(a) /\ Stream(c)[i] = a[i]
  <2>1. IsEnd(got[c][i], s)
    BY <1>1, <1>6, <1>11
  <2>2. /\ \A k \in i..Len(got[c]) : ~IsFrom(got[c][k], s)
        /\ \A k \in 1..Len(queue[Down(c)]) : ~IsFrom(queue[Down(c)][k], s)
    BY <1>1, <1>10, <1>11, <2>1 DEF HaveBeenTold, LastReceived
  <2>3. CASE j \in 1..Len(a) /\ Stream(c)[j] = a[j]
    <3>1. j \in i..Len(got[c])
      BY <1>1, <1>4, <2>3
    <3> QED BY <1>1, <1>6, <2>2, <2>3, <3>1
  <2>4. CASE \E u \in 1..Len(b) : j = Len(a) + u /\ Stream(c)[j] = b[u]
    BY <1>1, <1>6, <2>2, <2>4
  <2> QED BY <1>8, <2>3, <2>4
<1>12. CASE \E u \in 1..Len(b) : i = Len(a) + u /\ Stream(c)[i] = b[u]
  <2>1. PICK u \in 1..Len(b) : i = Len(a) + u /\ Stream(c)[i] = b[u]
    BY <1>12
  <2>2. PICK v \in 1..Len(b) : j = Len(a) + v /\ Stream(c)[j] = b[v]
    BY <1>4, <1>8, <2>1
  <2>3. v \in u..Len(b)
    BY <1>4, <2>1, <2>2
  <2>4. \A k \in u..Len(queue[Down(c)]) : ~IsFrom(queue[Down(c)][k], s)
    BY <1>1, <1>2, <1>6, <1>10, <2>1 DEF HaveBeenTold, LastInLinks
  <2> QED BY <1>1, <1>6, <2>2, <2>3, <2>4
<1> QED BY <1>7, <1>11, <1>12

\* A client that has been told of the end of another receives nothing more from
\* it: whatever history is on its way when a node learns of the end is
\* deprecated, and no node that has learnt of it gets the messages from a
\* neighbour (cleanupClient, destroyMsgs, sendClientDisconnection).
THEOREM EndsAreLast == Spec => []NothingAfterTheEnd
<1>1. Spec => []EndInv
  BY EndInvInit, EndInvStep, PTL DEF Spec
<1> QED BY <1>1, EndInvShows, PTL
=============================================================================
