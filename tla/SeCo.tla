-------------------------------- MODULE SeCo --------------------------------
(***************************************************************************)
(* The session control tree (isabel.seco.server): SeCo nodes joined in a   *)
(* tree under a root, clients attached to nodes, groups with a history.    *)
(* A node runs one DownDataLink thread for every client and every child    *)
(* node, and (all but the root) one UpDataLink thread for its parent; they *)
(* share a State, whose monitor some handlers hold throughout and others   *)
(* take for one call at a time.                                            *)
(*                                                                         *)
(* A connection is a pair of FIFO queues.  A queue holds what the sender's *)
(* PPSender list and the wire hold together, oldest first.  The login of a *)
(* client is one step here (Connect).  A group stands for its name and for *)
(* its identifier: the root allocates one identifier for each name, under  *)
(* the monitor, and known says which nodes have the pair in groupCodes.    *)
(***************************************************************************)
EXTENDS Integers, Sequences, FiniteSets, SequencesExt

CONSTANTS Root,        \* the root node
          Children,    \* the other nodes
          Clients,
          Parent,      \* the node a client or another node connects to
          Groups,      \* the names of the groups clients talk in
          Senders,     \* clients with SEND_AND_RECEIVE, the others RECEIVE_ONLY
          Requests,    \* bound: the <<command, group>> a client asks for, in order
          MaxSends,    \* bound: messages of a client
          Kinds,       \* bound: the message commands that clients use
          MayFail      \* may a connection between nodes fail?

Nodes == {Root} \cup Children
Ends == Clients \cup Children
DISCONNECTIONS == "Disconnections"
AllGroups == Groups \cup {DISCONNECTIONS}
Asks == {"JOIN_GROUP", "GET_GROUP_ID", "LEAVE_GROUP"}
MsgCommands == {"MSG", "SYNC_MSG", "NO_HISTORY_MSG"}

ASSUME TreeAssumption ==
  /\ IsFiniteSet(Clients) /\ IsFiniteSet(Children) /\ IsFiniteSet(Groups)
  /\ Root \notin Ends
  /\ Clients \cap Children = {} /\ {"idle", "null"} \cap Ends = {}
  /\ Parent \in [Ends -> Nodes]
  /\ \E depth \in [Nodes -> 0..Cardinality(Children)] :
       \A m \in Children : depth[Parent[m]] < depth[m]
  /\ DISCONNECTIONS \notin Groups
  /\ Senders \subseteq Clients
  /\ Kinds \subseteq MsgCommands
  /\ Requests \in [Clients -> Seq(Asks \X AllGroups)]
  /\ MaxSends \in [Clients -> Nat]
  /\ MayFail \in BOOLEAN

Up(x) == <<x, Parent[x]>>
Down(x) == <<Parent[x], x>>
Links == {Up(x) : x \in Ends} \cup {Down(x) : x \in Ends}

\* The ends from x up to the node below the root: the least set that holds x
\* and, with an end, the node it connects to.
Rising(S) == \A y \in S : Parent[y] # Root => Parent[y] \in S
Chain == [x \in Ends |-> {y \in Ends : \A S \in SUBSET Ends :
                                        x \in S /\ Rising(S) => y \in S}]

\* Variant: the default route, client 0, for any client.
TowardParent(n, c) == Parent[n]

\* The neighbour through which node n reaches client c below it.
Toward(n, c) == CHOOSE x \in Chain[c] : Parent[x] = n

\* client is the sender of a message or request and the addressee of a reply.
Packet(cmd, c, g, n) == [cmd |-> cmd, client |-> c, group |-> g, n |-> n]

VARIABLES
  status,    \* of a node: "off", "up", "down" (process ended), "gone" (noticed)
  exited,    \* the nodes an exception in UpDataLink.run has ended
  conn,      \* of a client: "off", "on", "closed" by the client, "gone"
  queue,     \* the packets in each link
  join,      \* what a DownDataLink still has to do for an unlocked joinGroup
  lookup,    \* the PacketProcessor UpDataLink has looked up for a reply
  secoPPSet, \* State: the child nodes that said hello, never removed
  myClients, \* DownDataLink of a child node: the clients that came through it
  local,     \* State.myLocalClients
  routes,    \* the keys of State.cliPPT, but 0
  known,     \* the keys of State.groupCodes
  members,   \* State.groupMembers
  history,   \* State.history: by group and by sender
  got,       \* what each client has received
  requests,  \* how many requests each client has made
  sends      \* how many messages each client has sent

tables == <<secoPPSet, myClients, local, routes, known, members, history>>
counters == <<requests, sends>>
vars == <<status, exited, conn, queue, join, lookup, tables, got, counters>>

Idle == [pc |-> "idle", group |-> DISCONNECTIONS, rest |-> <<>>]

Init ==
  /\ status = [n \in Nodes |-> IF n = Root THEN "up" ELSE "off"]
  /\ exited = {}
  /\ conn = [c \in Clients |-> "off"]
  /\ queue = [l \in Links |-> <<>>]
  /\ join = [c \in Clients |-> Idle]
  /\ lookup = [m \in Children |-> "idle"]
  /\ secoPPSet = [n \in Nodes |-> {}]
  /\ myClients = [m \in Children |-> {}]
  /\ local = [n \in Nodes |-> {}]
  /\ routes = [n \in Nodes |-> {}]
  /\ known = [n \in Nodes |-> {DISCONNECTIONS}]
  /\ members = [n \in Nodes |-> [g \in AllGroups |-> {}]]
  /\ history = [n \in Nodes |-> [g \in AllGroups |-> [c \in Clients |-> <<>>]]]
  /\ got = [c \in Clients |-> <<>>]
  /\ requests = [c \in Clients |-> 0]
  /\ sends = [c \in Clients |-> 0]

-----------------------------------------------------------------------------
(* Queues *)

\* Somebody reads the link at its far end.
Open(l) == IF l[2] \in Clients THEN conn[l[2]] = "on" ELSE status[l[2]] = "up"

\* PacketProcessor.send: what goes to a closed connection is dropped.
Sent(q, links, pkts) ==
  [l \in Links |-> IF l \in links /\ Open(l) THEN q[l] \o pkts ELSE q[l]]

Taken(l) == [queue EXCEPT ![l] = Tail(@)]

Purged(pkts, deprecated) ==
  FlattenSeq([i \in 1..Len(pkts) |-> IF pkts[i] \in deprecated THEN <<>>
                                     ELSE <<pkts[i]>>])

\* PPSender.run skips the packets that were marked deprecated in its list.
\* Those that the thread had already written still arrive: up to position k.
Skipped(pkts, k, deprecated) ==
  SubSeq(pkts, 1, k) \o Purged(SubSeq(pkts, k + 1, Len(pkts)), deprecated)

\* The queues q may turn into when node n marks these packets deprecated.
Deprecations(q, n, deprecated) ==
  LET touched == {l \in Links : l[1] = n /\ ToSet(q[l]) \cap deprecated # {}}
      cuts == {k \in [touched -> UNION {0..Len(q[l]) : l \in touched}] :
                 \A l \in touched : k[l] <= Len(q[l])}
  IN {[l \in Links |-> IF l \in touched THEN Skipped(q[l], k[l], deprecated)
                                        ELSE q[l]] : k \in cuts}

\* Variant: deprecated packets are skipped in the list alone.
JoinWithAll(n, deprecated) == join

\* A history that a joinGroup is still sending loses them as well.
JoinWithout(n, deprecated) ==
  [c \in Clients |-> IF Parent[c] = n
     THEN [join[c] EXCEPT !.rest = Purged(@, deprecated)]
     ELSE join[c]]

-----------------------------------------------------------------------------
(* State *)

Kept(n, g, c) == ToSet(history[n][g][c])

\* State.getMsgs: each sender's messages in the order they were sent.
getMsgs(n, g) ==
  LET order == SetToSeq(Clients)
  IN FlattenSeq([i \in 1..Len(order) |-> history[n][g][order[i]]])

\* Variant: a new node gets one group's history.
getOneGroupsMsgs(n) == getMsgs(n, DISCONNECTIONS)

getAllMsgs(n) ==
  LET order == SetToSeq(AllGroups)
  IN FlattenSeq([i \in 1..Len(order) |-> getMsgs(n, order[i])])

\* Variant: cleanupClient without destroyMsgs.
CleanupButHistory(n, cs) ==
  /\ local' = [local EXCEPT ![n] = @ \ cs]
  /\ routes' = [routes EXCEPT ![n] = @ \ cs]
  /\ members' = [members EXCEPT ![n] = [g \in AllGroups |-> @[g] \ cs]]
  /\ UNCHANGED history

\* State.cleanupClient, for the clients in cs.
CleanupTables(n, cs) ==
  /\ local' = [local EXCEPT ![n] = @ \ cs]
  /\ routes' = [routes EXCEPT ![n] = @ \ cs]
  /\ members' = [members EXCEPT ![n] = [g \in AllGroups |-> @[g] \ cs]]
  /\ history' = [history EXCEPT ![n] =
       [g \in AllGroups |-> [c \in Clients |-> IF c \in cs THEN <<>> ELSE @[g][c]]]]

\* The packets that cleanupClient marks deprecated.
KeptFrom(n, cs) == UNION {Kept(n, g, c) : g \in AllGroups, c \in cs}

\* Variant: no copy for the client that sent the message.
DownTargetsNoEcho(n, x, g) ==
  {Down(c) : c \in (members[n][g] \cap local[n]) \ {x}}
    \cup {Down(m) : m \in secoPPSet[n] \ {x}}
    \cup IF n = Root THEN {} ELSE {Up(n)}

\* Variant: the node passes up what its own clients send, no more.
DownTargetsOwnUp(n, x, g) ==
  {Down(c) : c \in members[n][g] \cap local[n]}
    \cup {Down(m) : m \in secoPPSet[n] \ {x}}
    \cup IF n = Root \/ x \in Children THEN {} ELSE {Up(n)}

\* sendGroup of a DownDataLink of node n whose far end is x: the local
\* members, the child nodes but x, and the parent.
DownTargets(n, x, g) ==
  {Down(c) : c \in members[n][g] \cap local[n]}
    \cup {Down(m) : m \in secoPPSet[n] \ {x}}
    \cup IF n = Root THEN {} ELSE {Up(n)}

\* Variant: the child nodes only.
UpTargetsChildren(n, g) == {Down(m) : m \in secoPPSet[n]}

\* sendGroup of UpDataLink.
UpTargets(n, g) ==
  {Down(c) : c \in members[n][g] \cap local[n]}
    \cup {Down(m) : m \in secoPPSet[n]}

-----------------------------------------------------------------------------
(* The clients *)

\* Can an end reach the root, so that its login can have completed?
Attached(x) == \A m \in Chain[x] \ {x} : status[m] = "up" /\ m \in secoPPSet[Parent[m]]

\* HELLO and LOGIN of a client: every node above it has a route to it, and
\* the DownDataLink of every node above it has it in myClients.
Connect(c) ==
  /\ conn[c] = "off"
  /\ Attached(c)
  /\ conn' = [conn EXCEPT ![c] = "on"]
  /\ local' = [local EXCEPT ![Parent[c]] = @ \cup {c}]
  /\ routes' = [n \in Nodes |-> IF \E x \in Chain[c] : Parent[x] = n
                                THEN routes[n] \cup {c} ELSE routes[n]]
  /\ myClients' = [m \in Children |-> IF m \in Chain[c]
                                      THEN myClients[m] \cup {c} ELSE myClients[m]]
  /\ UNCHANGED <<status, exited, queue, join, lookup, secoPPSet, known, members,
                 history, got, counters>>

\* SeCoAccess.joinGroup, getGroupID, leaveGroup: none waits for an answer.
Request(c) ==
  LET ask == Requests[c][requests[c] + 1] IN
  /\ conn[c] = "on"
  /\ requests[c] < Len(Requests[c])
  /\ requests' = [requests EXCEPT ![c] = @ + 1]
  /\ queue' = Sent(queue, {Up(c)}, <<Packet(ask[1], c, ask[2], 0)>>)
  /\ UNCHANGED <<status, exited, conn, join, lookup, tables, got, sends>>

\* The client has the identifier of g in groupNames.
Knows(c, g) == \E i \in 1..Len(got[c]) :
  got[c][i].cmd \in {"JOIN_GROUP", "GET_GROUP_ID"} /\ got[c][i].group = g

\* The send methods of SeCoAccess, once they have the identifier of the group.
Send(c, cmd, g) ==
  /\ conn[c] = "on"
  /\ Knows(c, g)
  /\ sends[c] < MaxSends[c]
  /\ sends' = [sends EXCEPT ![c] = @ + 1]
  /\ queue' = Sent(queue, {Up(c)}, <<Packet(cmd, c, g, sends[c] + 1)>>)
  /\ UNCHANGED <<status, exited, conn, join, lookup, tables, got, requests>>

ClientReceive(c) ==
  /\ conn[c] = "on"
  /\ queue[Down(c)] # <<>>
  /\ got' = [got EXCEPT ![c] = Append(@, Head(queue[Down(c)]))]
  /\ queue' = Taken(Down(c))
  /\ UNCHANGED <<status, exited, conn, join, lookup, tables, counters>>

\* SeCoAccess.quit, or the connection fails.
Disconnect(c) ==
  /\ conn[c] = "on"
  /\ conn' = [conn EXCEPT ![c] = "closed"]
  /\ queue' = [queue EXCEPT ![Down(c)] = <<>>]
  /\ UNCHANGED <<status, exited, join, lookup, tables, got, counters>>

-----------------------------------------------------------------------------
(* DownDataLink: the thread of node Parent[x] that serves x, a client or a *)
(* child node.                                                             *)

\* x's thread is in receive() and the next packet is one of these commands.
Reads(x, cmds) ==
  /\ status[Parent[x]] = "up"
  /\ x \in Clients => join[x].pc = "idle"
  /\ queue[Up(x)] # <<>>
  /\ Head(queue[Up(x)]).cmd \in cmds

\* synchronizeNewSeCo: under the monitor, the new child gets all histories.
synchronizeNewSeCo(m) ==
  LET n == Parent[m] IN
  /\ Reads(m, {"HELLO_SECO"})
  /\ secoPPSet' = [secoPPSet EXCEPT ![n] = @ \cup {m}]
  /\ queue' = Sent(Taken(Up(m)), {Down(m)}, getAllMsgs(n))
  /\ UNCHANGED <<status, exited, conn, join, lookup, myClients, local, routes,
                 known, members, history, got, counters>>

\* Variant: the root joins without the monitor, as the other nodes do.
RootJoinUnlocked(c) ==
  LET p == Head(queue[Up(c)]) IN
  /\ Parent[c] = Root
  /\ Reads(c, {"JOIN_GROUP"})
  /\ known' = [known EXCEPT ![Root] = @ \cup {p.group}]
  /\ members' = [members EXCEPT ![Root][p.group] = @ \cup {c}]
  /\ join' = [join EXCEPT ![c] = [pc |-> "reply", group |-> p.group, rest |-> <<>>]]
  /\ queue' = Taken(Up(c))
  /\ UNCHANGED <<status, exited, conn, lookup, secoPPSet, myClients, local, routes,
                 history, got, counters>>

\* joinGroup at the root: declaration, membership, reply and history are one
\* step, under the monitor.
RootJoin(c) ==
  LET p == Head(queue[Up(c)]) IN
  /\ Parent[c] = Root
  /\ Reads(c, {"JOIN_GROUP"})
  /\ known' = [known EXCEPT ![Root] = @ \cup {p.group}]
  /\ members' = [members EXCEPT ![Root][p.group] = @ \cup {c}]
  /\ queue' = Sent(Taken(Up(c)), {Down(c)}, <<p>> \o getMsgs(Root, p.group))
  /\ UNCHANGED <<status, exited, conn, join, lookup, secoPPSet, myClients, local,
                 routes, history, got, counters>>

\* joinGroup of another node that knows the group: the monitor is taken for
\* each call alone.  First addGroupClient ...
KnownJoin(c) ==
  LET n == Parent[c]
      p == Head(queue[Up(c)]) IN
  /\ n # Root
  /\ Reads(c, {"JOIN_GROUP"})
  /\ p.group \in known[n]
  /\ members' = [members EXCEPT ![n][p.group] = @ \cup {c}]
  /\ join' = [join EXCEPT ![c] = [pc |-> "reply", group |-> p.group, rest |-> <<>>]]
  /\ queue' = Taken(Up(c))
  /\ UNCHANGED <<status, exited, conn, lookup, secoPPSet, myClients, local, routes,
                 known, history, got, counters>>

\* ... then the reply ...
JoinReply(c) ==
  /\ join[c].pc = "reply"
  /\ queue' = Sent(queue, {Down(c)}, <<Packet("JOIN_GROUP", c, join[c].group, 0)>>)
  /\ join' = [join EXCEPT ![c].pc = "history"]
  /\ UNCHANGED <<status, exited, conn, lookup, tables, got, counters>>

\* ... then sendClientHistory: getMsgs returns a copy ...
JoinHistory(c) ==
  /\ join[c].pc = "history"
  /\ join' = [join EXCEPT ![c].pc = "send",
                          ![c].rest = getMsgs(Parent[c], join[c].group)]
  /\ UNCHANGED <<status, exited, conn, queue, lookup, tables, got, counters>>

\* ... which is sent one packet at a time.
JoinSend(c) ==
  LET rest == join[c].rest IN
  /\ join[c].pc = "send"
  /\ queue' = IF rest = <<>> THEN queue ELSE Sent(queue, {Down(c)}, <<Head(rest)>>)
  /\ join' = [join EXCEPT ![c] = IF Len(rest) <= 1 THEN Idle
                                 ELSE [@ EXCEPT !.rest = Tail(rest)]]
  /\ UNCHANGED <<status, exited, conn, lookup, tables, got, counters>>

\* getGroupId for a client, and joinGroup and getGroupId for a child node,
\* where the group is known or this is the root.
DownReply(x) ==
  LET n == Parent[x]
      p == Head(queue[Up(x)]) IN
  /\ Reads(x, IF x \in Clients THEN {"GET_GROUP_ID"}
              ELSE {"GET_GROUP_ID", "JOIN_GROUP"})
  /\ n = Root \/ p.group \in known[n]
  /\ known' = [known EXCEPT ![n] = @ \cup {p.group}]
  /\ queue' = Sent(Taken(Up(x)), {Down(x)}, <<p>>)
  /\ UNCHANGED <<status, exited, conn, join, lookup, secoPPSet, myClients, local,
                 routes, members, history, got, counters>>

\* joinGroup and getGroupId of an unknown group: the request goes up.
DownForward(x) ==
  LET n == Parent[x]
      p == Head(queue[Up(x)]) IN
  /\ n # Root
  /\ Reads(x, {"GET_GROUP_ID", "JOIN_GROUP"})
  /\ p.group \notin known[n]
  /\ queue' = Sent(Taken(Up(x)), {Up(n)}, <<p>>)
  /\ UNCHANGED <<status, exited, conn, join, lookup, tables, got, counters>>

\* leaveGroup: without effect when the node does not know the group.
leaveGroup(c) ==
  LET n == Parent[c]
      p == Head(queue[Up(c)]) IN
  /\ Reads(c, {"LEAVE_GROUP"})
  /\ members' = IF p.group \in known[n]
                THEN [members EXCEPT ![n][p.group] = @ \ {c}] ELSE members
  /\ queue' = Taken(Up(c))
  /\ UNCHANGED <<status, exited, conn, join, lookup, secoPPSet, myClients, local,
                 routes, known, history, got, counters>>

\* What routeToGroup does at node n with message p from link l: a SYNC_MSG
\* cleans its sender's history, and with a MSG it is kept.
Route(n, l, p, targets) ==
  LET clean == IF p.cmd = "SYNC_MSG" THEN Kept(n, p.group, p.client) ELSE {}
      kept == IF p.cmd = "SYNC_MSG" THEN <<p>>
              ELSE Append(history[n][p.group][p.client], p)
  IN
  /\ history' = IF p.cmd = "NO_HISTORY_MSG" THEN history
                ELSE [history EXCEPT ![n][p.group][p.client] = kept]
  /\ join' = JoinWithout(n, clean)
  /\ \E q \in Deprecations(Taken(l), n, clean) : queue' = Sent(q, targets, <<p>>)
  /\ UNCHANGED <<status, exited, conn, lookup, secoPPSet, myClients, local, routes,
                 known, members, got, counters>>

\* routeToGroup, for a client that may send and for a child node.
routeToGroup(x) ==
  LET p == Head(queue[Up(x)]) IN
  /\ Reads(x, MsgCommands)
  /\ x \in Clients => x \in Senders
  /\ Route(Parent[x], Up(x), p, DownTargets(Parent[x], x, p.group))

\* The message of a client that may not send is ignored.
IgnoreMessage(c) ==
  /\ Reads(c, MsgCommands)
  /\ c \notin Senders
  /\ queue' = Taken(Up(c))
  /\ UNCHANGED <<status, exited, conn, join, lookup, tables, got, counters>>

\* cleanupClient of the clients in cs at node n, and the CLIENT_DISCONNECTED
\* of each of them to the targets.
Bury(n, q, cs, targets) ==
  LET dead == KeptFrom(n, cs)
      order == SetToSeq(cs)
      news == [i \in 1..Len(order) |->
                 Packet("CLIENT_DISCONNECTED", order[i], DISCONNECTIONS, 0)]
  IN
  /\ CleanupTables(n, cs)
  /\ join' = JoinWithout(n, dead)
  /\ \E r \in Deprecations(q, n, dead) : queue' = Sent(r, targets, news)
  /\ UNCHANGED <<exited, lookup, secoPPSet, myClients, known, got, counters>>

\* sendClientDisconnection of a DownDataLink that serves a child node.
DownGone(m) ==
  LET n == Parent[m] IN
  /\ Reads(m, {"CLIENT_DISCONNECTED"})
  /\ Bury(n, Taken(Up(m)), {Head(queue[Up(m)]).client},
          DownTargets(n, m, DISCONNECTIONS))
  /\ UNCHANGED <<status, conn>>

\* The thread of a client ends: on BYE or on a failed read, at whatever point
\* of what the client had sent.
ClientGone(c) ==
  LET n == Parent[c] IN
  /\ status[n] = "up"
  /\ conn[c] = "closed"
  /\ join[c].pc = "idle"
  /\ conn' = [conn EXCEPT ![c] = "gone"]
  /\ Bury(n, [queue EXCEPT ![Up(c)] = <<>>], {c}, DownTargets(n, c, DISCONNECTIONS))
  /\ UNCHANGED status

\* Variant: the end of a child node is not told to the others.
NodeGoneSilently(m) ==
  /\ status[Parent[m]] = "up"
  /\ status[m] = "down"
  /\ status' = [status EXCEPT ![m] = "gone"]
  /\ Bury(Parent[m], [queue EXCEPT ![Up(m)] = <<>>], myClients[m], {})
  /\ UNCHANGED conn

\* The thread of a child node ends: all clients that ever came through it go.
NodeGone(m) ==
  LET n == Parent[m] IN
  /\ status[n] = "up"
  /\ status[m] = "down"
  /\ status' = [status EXCEPT ![m] = "gone"]
  /\ Bury(n, [queue EXCEPT ![Up(m)] = <<>>], myClients[m],
          DownTargets(n, m, DISCONNECTIONS))
  /\ UNCHANGED conn

-----------------------------------------------------------------------------
(* UpDataLink: the thread of node m that serves its parent.                *)

Hears(m, cmds) ==
  /\ status[m] = "up"
  /\ queue[Down(m)] # <<>>
  /\ Head(queue[Down(m)]).cmd \in cmds

RouteToGroup(m) ==
  LET p == Head(queue[Down(m)]) IN
  /\ Hears(m, MsgCommands)
  /\ Route(m, Down(m), p, UpTargets(m, p.group))

UpGone(m) ==
  /\ Hears(m, {"CLIENT_DISCONNECTED"})
  /\ Bury(m, Taken(Down(m)), {Head(queue[Down(m)]).client},
          UpTargets(m, DISCONNECTIONS))
  /\ UNCHANGED <<status, conn>>

\* processJoinGroup and processGetGroupID read the route of the client before
\* they take the monitor.
UpLookup(m) ==
  LET c == Head(queue[Down(m)]).client IN
  /\ Hears(m, {"JOIN_GROUP", "GET_GROUP_ID"})
  /\ lookup[m] = "idle"
  /\ lookup' = [lookup EXCEPT ![m] = IF c \in routes[m] THEN Toward(m, c) ELSE "null"]
  /\ UNCHANGED <<status, exited, conn, queue, join, tables, got, counters>>

\* The client is local: the group is declared, and a JOIN_GROUP makes it a
\* member and sends it the history.
UpReply(m) ==
  LET p == Head(queue[Down(m)]) IN
  /\ Hears(m, {"JOIN_GROUP", "GET_GROUP_ID"})
  /\ lookup[m] \notin {"idle", "null"}
  /\ p.client \in local[m]
  /\ known' = [known EXCEPT ![m] = @ \cup {p.group}]
  /\ members' = IF p.cmd = "JOIN_GROUP"
                THEN [members EXCEPT ![m][p.group] = @ \cup {p.client}] ELSE members
  /\ queue' = Sent(Taken(Down(m)), {<<m, lookup[m]>>},
                   <<p>> \o IF p.cmd = "JOIN_GROUP" THEN getMsgs(m, p.group) ELSE <<>>)
  /\ lookup' = [lookup EXCEPT ![m] = "idle"]
  /\ UNCHANGED <<status, exited, conn, join, secoPPSet, myClients, local, routes,
                 history, got, counters>>

\* The client is not local: the reply goes down the route.
UpForward(m) ==
  LET p == Head(queue[Down(m)]) IN
  /\ Hears(m, {"JOIN_GROUP", "GET_GROUP_ID"})
  /\ lookup[m] \notin {"idle", "null"}
  /\ p.client \notin local[m]
  /\ queue' = Sent(Taken(Down(m)), {<<m, lookup[m]>>}, <<p>>)
  /\ lookup' = [lookup EXCEPT ![m] = "idle"]
  /\ UNCHANGED <<status, exited, conn, join, tables, got, counters>>

\* The process of node m ends, and with it all its connections; what it had
\* written to its parent may still be read.
Ended(m) ==
  /\ status' = [status EXCEPT ![m] = "down"]
  /\ conn' = [c \in Clients |-> IF Parent[c] = m /\ conn[c] # "off"
                                THEN "gone" ELSE conn[c]]
  /\ join' = [c \in Clients |-> IF Parent[c] = m THEN Idle ELSE join[c]]
  /\ lookup' = [lookup EXCEPT ![m] = "idle"]
  /\ queue' = [l \in Links |-> IF m \in {l[1], l[2]} /\ l # Up(m) THEN <<>>
                               ELSE queue[l]]
  /\ UNCHANGED <<tables, got, counters>>

\* There is no route: the null pointer ends UpDataLink.run, whose finally
\* clause exits the process.
UpNoRoute(m) ==
  /\ Hears(m, {"JOIN_GROUP", "GET_GROUP_ID"})
  /\ lookup[m] = "null"
  /\ exited' = exited \cup {m}
  /\ Ended(m)

\* SeCo.main of a node below the root: UpDataLink says hello first.
NodeStart(m) ==
  /\ status[m] = "off"
  /\ status[Parent[m]] = "up"
  /\ status' = [status EXCEPT ![m] = "up"]
  /\ queue' = [queue EXCEPT ![Up(m)] = <<Packet("HELLO_SECO", Root, DISCONNECTIONS, 0)>>]
  /\ UNCHANGED <<exited, conn, join, lookup, tables, got, counters>>

\* The connection to the parent fails: run ends and exits the process.
NodeFail(m) ==
  /\ status[m] = "up"
  /\ MayFail \/ status[Parent[m]] # "up"
  /\ Ended(m)
  /\ UNCHANGED exited

-----------------------------------------------------------------------------
JoinStep(c) == JoinReply(c) \/ JoinHistory(c) \/ JoinSend(c)

ClientLink(c) ==
  \/ RootJoin(c) \/ KnownJoin(c) \/ JoinStep(c) \/ DownReply(c) \/ DownForward(c)
  \/ leaveGroup(c) \/ routeToGroup(c) \/ IgnoreMessage(c) \/ ClientGone(c)

ChildLink(m) ==
  \/ synchronizeNewSeCo(m) \/ DownReply(m) \/ DownForward(m) \/ routeToGroup(m)
  \/ DownGone(m) \/ NodeGone(m)

UpLink(m) ==
  \/ RouteToGroup(m) \/ UpGone(m) \/ UpLookup(m) \/ UpReply(m) \/ UpForward(m)
  \/ UpNoRoute(m)

Next ==
  \/ \E c \in Clients :
       \/ Connect(c)
       \/ Request(c)
       \/ \E cmd \in Kinds, g \in Groups : Send(c, cmd, g)
       \/ ClientReceive(c)
       \/ Disconnect(c)
       \/ ClientLink(c)
  \/ \E m \in Children : NodeStart(m) \/ NodeFail(m) \/ ChildLink(m) \/ UpLink(m)

Spec == Init /\ [][Next]_vars

\* Every thread of a server keeps running, and every client reads.
Fairness ==
  /\ \A c \in Clients : WF_vars(ClientLink(c)) /\ WF_vars(ClientReceive(c))
  /\ \A m \in Children : WF_vars(ChildLink(m)) /\ WF_vars(UpLink(m))

FairSpec == Spec /\ Fairness

-----------------------------------------------------------------------------
(* Properties *)

Msgs == [cmd : MsgCommands, client : Clients, group : Groups, n : Nat]
Notes == [cmd : Asks \cup {"CLIENT_DISCONNECTED"}, client : Clients,
          group : AllGroups, n : {0}]
Hellos == [cmd : {"HELLO_SECO"}, client : {Root}, group : {DISCONNECTIONS}, n : {0}]

\* Every table and queue holds what the declarations of State, DownDataLink
\* and UpDataLink say; the histories hold messages of their group and sender.
TypeOK ==
  /\ status \in [Nodes -> {"off", "up", "down", "gone"}]
  /\ exited \subseteq Children
  /\ conn \in [Clients -> {"off", "on", "closed", "gone"}]
  /\ queue \in [Links -> Seq(Msgs \cup Notes \cup Hellos)]
  /\ join \in [Clients -> [pc : {"idle", "reply", "history", "send"},
                           group : AllGroups, rest : Seq(Msgs)]]
  /\ lookup \in [Children -> Ends \cup {"idle", "null"}]
  /\ secoPPSet \in [Nodes -> SUBSET Children]
  /\ myClients \in [Children -> SUBSET Clients]
  /\ local \in [Nodes -> SUBSET Clients]
  /\ routes \in [Nodes -> SUBSET Clients]
  /\ known \in [Nodes -> SUBSET AllGroups]
  /\ members \in [Nodes -> [AllGroups -> SUBSET Clients]]
  /\ history \in [Nodes -> [AllGroups -> [Clients -> Seq(Msgs)]]]
  /\ \A n \in Nodes, g \in AllGroups, c \in Clients :
       \A p \in Kept(n, g, c) : p.client = c /\ p.group = g
  /\ got \in [Clients -> Seq(Msgs \cup Notes)]
  /\ requests \in [Clients -> Nat]
  /\ sends \in [Clients -> Nat]

\* What client c has received or will receive over its link, in order.
Stream(c) == got[c] \o queue[Down(c)]

IsMsg(p, g) == p.cmd \in MsgCommands /\ p.group = g

\* The places in that stream of the messages of group g that come after the
\* last answer to a join.
SinceJoin(c, g) ==
  LET s == Stream(c) IN
  {i \in 1..Len(s) :
     /\ IsMsg(s[i], g)
     /\ \A j \in i..Len(s) : ~(s[j].cmd = "JOIN_GROUP" /\ s[j].group = g)}

Joining(c, g) == join[c].pc # "idle" /\ join[c].group = g

\* A member of a group holds every message of the history of its node: what
\* was sent before it joined comes with the history, what is sent afterwards
\* is routed to it, and nothing falls between the two (joinGroup,
\* sendClientHistory, routeToGroup).
MembersHoldHistory ==
  \A c \in Clients, g \in Groups :
    (conn[c] = "on" /\ c \in members[Parent[c]][g] /\ ~Joining(c, g))
      => \A s \in Clients :
           Kept(Parent[c], g, s) \subseteq {Stream(c)[i] : i \in SinceJoin(c, g)}

\* No message of a sender comes twice, or after a later one, since the join.
InSendingOrder(c) ==
  \A g \in Groups : LET s == Stream(c) IN
    \A i, j \in SinceJoin(c, g) :
      (i < j /\ s[i].client = s[j].client) => s[i].n < s[j].n

\* A client of the root receives each sender's messages in the order they
\* were sent and once, even if it joins while they are being routed: the root
\* joins under the monitor (joinGroup, routeToGroup).
RootClientsInOrder == \A c \in Clients : Parent[c] = Root => InSendingOrder(c)

\* No packet of the link changes a history.
Quiet(l) == \A i \in 1..Len(queue[l]) :
  queue[l][i].cmd \notin {"MSG", "SYNC_MSG", "CLIENT_DISCONNECTED", "HELLO_SECO"}

\* Two neighbouring nodes keep the same history whenever nothing that changes
\* one is under way between them, whoever sent, synchronised or left in the
\* meantime, and whenever the child connected (synchronizeNewSeCo, sendGroup,
\* cleanMsgs, cleanupClient, PPSender.run).
NeighboursAgree ==
  \A m \in Children :
    (/\ status[m] = "up" /\ status[Parent[m]] = "up"
     /\ Quiet(Up(m)) /\ Quiet(Down(m)))
      => history[m] = history[Parent[m]]

\* Nothing about client c is under way and no end of a node is unnoticed.
Settled(c) ==
  /\ \A l \in Links : \A i \in 1..Len(queue[l]) : queue[l][i].client # c
  /\ \A m \in Children : status[m] # "down" /\
                         (status[m] = "up" => status[Parent[m]] = "up")

\* A client that has gone leaves no trace in any running node: no route, no
\* membership, no history, whatever it had asked for or sent when it left or
\* when its node died (cleanupClient, the end of DownDataLink.run).
GoneLeavesNoTrace ==
  \A c \in Clients, n \in Nodes :
    (conn[c] = "gone" /\ Settled(c) /\ status[n] = "up")
      => /\ c \notin local[n] \cup routes[n]
         /\ \A g \in AllGroups : c \notin members[n][g] /\ history[n][g][c] = <<>>

\* A client that has been told of the end of another receives nothing more
\* from it: the history it may still be sent is deprecated (destroyMsgs).
NothingAfterTheEnd ==
  \A c \in Clients : LET s == Stream(c) IN
    \A i, j \in 1..Len(s) :
      (i < j /\ s[i].cmd = "CLIENT_DISCONNECTED" /\ s[i].client = s[j].client)
        => s[j].cmd \notin MsgCommands

\* Liveness: a message in the root's history reaches every member that stays,
\* unless its sender synchronises or leaves first.
Messages == {Packet(cmd, s, g, k) : cmd \in Kinds, s \in Senders, g \in Groups,
                                    k \in 1..Max({MaxSends[c] : c \in Clients})}
KeptReachesMembers ==
  \A c \in Clients : \A p \in Messages :
    (p \in Kept(Root, p.group, p.client) /\ c \in members[Parent[c]][p.group])
      ~> \/ p \in ToSet(got[c])
         \/ p \notin Kept(Root, p.group, p.client)
         \/ c \notin members[Parent[c]][p.group]
         \/ conn[c] # "on"

Told(c, s) == \E i \in 1..Len(got[c]) :
  got[c][i].cmd = "CLIENT_DISCONNECTED" /\ got[c][i].client = s

\* Liveness: a member of Disconnections that stays is told of the end of
\* every client that was there when it joined.
EndIsAnnounced ==
  \A c, s \in Clients :
    [](c # s /\ conn[s] = "on" /\ conn[c] = "on"
         /\ c \in members[Parent[c]][DISCONNECTIONS]
       => \/ [](conn[s] # "gone")
          \/ <>(\/ Told(c, s)
                \/ c \notin members[Parent[c]][DISCONNECTIONS]
                \/ conn[c] # "on"))

-----------------------------------------------------------------------------
(* What comments of the code say, and the code does not do *)

\* "manteniendo el orden temporal en el que cada cliente envio sus mensajes":
\* not for a client that joins a group its intermediate node knows already, as
\* a message routed during the join overtakes the history.
EveryClientInOrder ==
  \A c \in Clients, g \in Groups : LET s == Stream(c) IN
    \A i, j \in SinceJoin(c, g) :
      (i < j /\ s[i].client = s[j].client) => s[i].n <= s[j].n

\* "si el cliente es de otro nodo SeCo": a reply for a client that is not
\* local always has a route, and the node goes on.
NodesSurviveLeavers == exited = {}

\* LeaversAreOut does not hold either; no run keeps checking it, see the README.
\* The last that client c asked for group g was to leave it, and no request
\* or answer of c about g is left.
HasLeft(c, g) ==
  /\ \E i \in 1..requests[c] :
       /\ Requests[c][i] = <<"LEAVE_GROUP", g>>
       /\ \A j \in (i + 1)..requests[c] : Requests[c][j][2] # g
  /\ \A l \in Links : \A i \in 1..Len(queue[l]) :
       queue[l][i] \notin {Packet(cmd, c, g, 0) : cmd \in {"JOIN_GROUP", "LEAVE_GROUP"}}

\* "Hace que dejemos de recibir los mensajes enviados a dicho grupo": not when
\* the leave overtakes the answer to a join that went up to the root.
LeaversAreOut ==
  \A c \in Clients, g \in Groups :
    (conn[c] = "on" /\ HasLeft(c, g)) => c \notin members[Parent[c]][g]
=============================================================================
