---------------------------- MODULE IrouterLinks ----------------------------
(***************************************************************************)
(* The soft state between media routers (linkProtocol.cc).  A leaf asks    *)
(* its leader every 2 seconds for a link (linkHarbinger_t) and, with       *)
(* source-specific multicast, to be listed as a source                     *)
(* (mcastLinkHarbinger_t).  The leader keeps a task for every leaf that    *)
(* asks (linkOnDemandTask_t): every 8 seconds the task removes itself, the *)
(* link and the source unless a request has come since the last time.      *)
(* Every answer carries the list of sources; the leaf joins what is new in *)
(* it and leaves what is gone from it.                                     *)
(*                                                                         *)
(* A step of time is the 2 seconds between two requests.  All tasks of a   *)
(* router run in one thread, so a handler is one action.                   *)
(***************************************************************************)
EXTENDS Integers, FiniteSets

CONSTANTS Leader,    \* the router with -SSMcast and its own address
          Leaves,    \* the routers that are given its address
          Unicast,   \* the leaves that run a linkHarbinger_t too
          Inside,    \* <<a, b>>: the text of address a is part of that of b
          Period,    \* requests in a period of linkOnDemandTask_t
          MaxFaults, \* bound: losses, late units, crashes, deletions
          NULL       \* no task, no link

ASSUME LinksAssumption ==
  /\ Leader \notin Leaves
  /\ Unicast \subseteq Leaves
  /\ Period \in Nat \ {0}
  /\ MaxFaults \in Nat
  /\ \A active \in BOOLEAN, left \in 0..Period :
       NULL # [active |-> active, left |-> left]

Routers == {Leader} \cup Leaves
Kinds == {"NORMAL", "CONTROL"}
Tasks == [active : BOOLEAN, left : 0..Period]

VARIABLES
  up,      \* the leaves that run
  due,     \* requests still to be sent in this step of time
  net,     \* datagrams in flight
  remotes, \* the leader's remotesByAddress: the task of a leaf, or NULL
  links,   \* the leader's linkBinder: the type of the link of a leaf, or NULL
  server,  \* a leaf's flowServerTgt and mcastServerTgt: the answers it had
  uplink,  \* a leaf's link to the leader: its type, or NULL
  sources, \* irouterParam_t.multicastSources of every router
  joined,  \* the sources whose flows its socket has joined
  faults,  \* how much has gone wrong
  silent   \* history: steps since the last request of a leaf with a task

tableVars == <<remotes, links, silent>>
leafVars == <<up, server, uplink>>
sourceVars == <<sources, joined>>
vars == <<tableVars, leafVars, sourceVars, due, net, faults>>

----------------------------------------------------------------------------
(* Messages: linkMsg_t with the fields that matter *)

Requests == {"linkReq", "mcastLinkReq"}
Answers == {"linkAns", "mcastLinkAns"}

\* type is the type of a request or an answer of leaf l; list is its
\* multicastMsg as a set: a mcastLinkReq carries the leaf's own address.
Msg(type, l, list) == [type |-> type, leaf |-> l, list |-> list]
Messages ==
  [type : Requests \cup Answers, leaf : Leaves, list : SUBSET Routers]

\* The requests a leaf sends in a step of time.
Harbingers(l) ==
  {Msg("mcastLinkReq", l, {l})} \cup
  (IF l \in Unicast THEN {Msg("linkReq", l, {})} ELSE {})

----------------------------------------------------------------------------
(* The list of sources *)

\* strstr(list, source): source is found in a list that holds address a.
Occurs(source, a) == source = a \/ <<source, a>> \in Inside

\* What remains of the list of router r when the list of a message comes.
StillListedAll(r, list) == sources[r]
StillListed(r, list) ==
  IF r = Leader THEN sources[r]
  ELSE {s \in sources[r] : s = r \/ \E a \in list : Occurs(s, a)}

\* The addresses that router r joins, its own is not among them.
ToJoinOwn(r, list, kept) == list \ kept
ToJoin(r, list, kept) == (list \ kept) \ {r}

refreshMulticastSources(r, list) ==
  LET kept == StillListed(r, list)
  IN  /\ sources' = [sources EXCEPT ![r] = kept \cup list]
      /\ joined' = [joined EXCEPT
           ![r] = (@ \ (sources[r] \ kept)) \cup ToJoin(r, list, kept)]

\* The task of leaf l is dropped: its address is no longer a source.
WithSource(list, l) == list
WithoutSource(list, l) == list \ {l}

deleteMulticastSources(l) ==
  /\ sources' = [sources EXCEPT ![Leader] = WithoutSource(@, l)]
  /\ joined' = [joined EXCEPT ![Leader] = @ \ {l}]

----------------------------------------------------------------------------
(* The leader *)

NewTaskLonger == [active |-> TRUE, left |-> Period + 1]
NewTask == [active |-> TRUE, left |-> Period]
RejuvenatedNot(task) == task
Rejuvenated(task) == [task EXCEPT !.active = TRUE]
AgedNot == [active |-> TRUE, left |-> Period]
Aged == [active |-> FALSE, left |-> Period]

\* A request of leaf l rejuvenates its task, or creates one and a link of the
\* given kind: newLink returns the old link when there is one.
Accept(l, kind) ==
  /\ remotes' = [remotes EXCEPT
       ![l] = IF @ = NULL THEN NewTask ELSE Rejuvenated(@)]
  /\ links' = [links EXCEPT
       ![l] = IF remotes[l] = NULL /\ @ = NULL THEN kind ELSE @]
  /\ silent' = [silent EXCEPT ![l] = 0]

processConnectionRequest(m) ==
  /\ m \in net /\ m.type = "linkReq"
  /\ Accept(m.leaf, "NORMAL")
  /\ net' = (net \ {m}) \cup {Msg("linkAns", m.leaf, {})}
  /\ UNCHANGED <<leafVars, sourceVars, due, faults>>

processMcastConnectionRequest(m) ==
  /\ m \in net /\ m.type = "mcastLinkReq"
  /\ Accept(m.leaf, "CONTROL")
  /\ refreshMulticastSources(Leader, m.list)
  /\ net' = (net \ {m})
              \cup {Msg("mcastLinkAns", m.leaf, sources'[Leader])}
  /\ UNCHANGED <<leafVars, due, faults>>

\* The task of leaf l runs: a leaf that has asked since the last time stays
\* for one more period.
Survive(l) ==
  /\ remotes[l] # NULL /\ remotes[l].left = 0 /\ remotes[l].active
  /\ remotes' = [remotes EXCEPT ![l] = Aged]
  /\ UNCHANGED <<links, silent, leafVars, sourceVars, due, net, faults>>

\* removeTask destroys the task, and its destructor the link.
Drop(l) ==
  /\ remotes[l] # NULL /\ remotes[l].left = 0 /\ ~remotes[l].active
  /\ deleteMulticastSources(l)
  /\ remotes' = [remotes EXCEPT ![l] = NULL]
  /\ links' = [links EXCEPT ![l] = NULL]
  /\ silent' = [silent EXCEPT ![l] = 0]
  /\ UNCHANGED <<leafVars, due, net, faults>>

\* The operator deletes a link by ir7_delete_link; its task knows nothing.
DeleteLink(l) ==
  /\ faults < MaxFaults
  /\ links[l] # NULL
  /\ links' = [links EXCEPT ![l] = NULL]
  /\ faults' = faults + 1
  /\ UNCHANGED <<remotes, silent, leafVars, sourceVars, due, net>>

\* The leader's process ends and starts again, its list with its own address.
RestartLeader ==
  /\ faults < MaxFaults
  /\ remotes' = [l \in Leaves |-> NULL]
  /\ links' = [l \in Leaves |-> NULL]
  /\ silent' = [l \in Leaves |-> 0]
  /\ sources' = [sources EXCEPT ![Leader] = {Leader}]
  /\ joined' = [joined EXCEPT ![Leader] = {}]
  /\ faults' = faults + 1
  /\ UNCHANGED <<leafVars, due, net>>

----------------------------------------------------------------------------
(* A leaf *)

heartBeat(m) ==
  /\ m \in due
  /\ due' = due \ {m}
  /\ net' = net \cup {m}
  /\ UNCHANGED <<tableVars, leafVars, sourceVars, faults>>

\* The first answer of a type builds the link to the leader, unless the
\* answer of the other type has built it; it is kept for ever.
Answered(m, kind) ==
  /\ server' = [server EXCEPT ![m.leaf] = @ \cup {m.type}]
  /\ uplink' = [uplink EXCEPT
       ![m.leaf] = IF m.type \notin server[m.leaf] /\ @ = NULL
                   THEN kind ELSE @]
  /\ net' = net \ {m}
  /\ UNCHANGED <<tableVars, up, due, faults>>

processConnectionAnswer(m) ==
  /\ m \in net /\ m.type = "linkAns" /\ m.leaf \in up
  /\ Answered(m, "NORMAL")
  /\ UNCHANGED sourceVars

processMcastConnectionAnswer(m) ==
  /\ m \in net /\ m.type = "mcastLinkAns" /\ m.leaf \in up
  /\ refreshMulticastSources(m.leaf, m.list)
  /\ Answered(m, "CONTROL")

\* The process of leaf l ends, and may start again.
Crash(l) ==
  /\ faults < MaxFaults
  /\ l \in up
  /\ up' = up \ {l}
  /\ due' = {m \in due : m.leaf # l}
  /\ server' = [server EXCEPT ![l] = {}]
  /\ uplink' = [uplink EXCEPT ![l] = NULL]
  /\ sources' = [sources EXCEPT ![l] = {}]
  /\ joined' = [joined EXCEPT ![l] = {}]
  /\ faults' = faults + 1
  /\ UNCHANGED <<tableVars, net>>

Start(l) ==
  /\ l \in Leaves \ up
  /\ up' = up \cup {l}
  /\ due' = due \cup Harbingers(l)
  /\ UNCHANGED <<tableVars, server, uplink, sourceVars, net, faults>>

----------------------------------------------------------------------------
(* Time and the network *)

\* Two seconds pass: every task that had to run has run, and the leaves have
\* to ask again.  A datagram that is still in flight is late.
Tick ==
  /\ due = {}
  /\ \A l \in Leaves : remotes[l] # NULL => remotes[l].left > 0
  /\ IF net = {} THEN faults' = faults
     ELSE faults < MaxFaults /\ faults' = faults + 1
  /\ due' = UNION {Harbingers(l) : l \in up}
  /\ remotes' = [l \in Leaves |->
       IF remotes[l] = NULL THEN NULL ELSE [remotes[l] EXCEPT !.left = @ - 1]]
  /\ silent' = [l \in Leaves |->
       IF remotes[l] = NULL THEN 0 ELSE silent[l] + 1]
  /\ UNCHANGED <<links, leafVars, sourceVars, net>>

\* A datagram is lost, or reaches a leaf that does not run.
Lose(m) ==
  /\ m \in net
  /\ net' = net \ {m}
  /\ IF m.type \in Answers /\ m.leaf \notin up THEN faults' = faults
     ELSE faults < MaxFaults /\ faults' = faults + 1
  /\ UNCHANGED <<tableVars, leafVars, sourceVars, due>>

----------------------------------------------------------------------------

Init ==
  /\ up = Leaves
  /\ due = UNION {Harbingers(l) : l \in Leaves}
  /\ net = {}
  /\ remotes = [l \in Leaves |-> NULL]
  /\ links = [l \in Leaves |-> NULL]
  /\ server = [l \in Leaves |-> {}]
  /\ uplink = [l \in Leaves |-> NULL]
  /\ sources = [r \in Routers |-> IF r = Leader THEN {Leader} ELSE {}]
  /\ joined = [r \in Routers |-> {}]
  /\ faults = 0
  /\ silent = [l \in Leaves |-> 0]

Receive(m) ==
  \/ processConnectionRequest(m) \/ processMcastConnectionRequest(m)
  \/ processConnectionAnswer(m) \/ processMcastConnectionAnswer(m)

Next ==
  \/ \E m \in net : Receive(m) \/ Lose(m)
  \/ \E m \in due : heartBeat(m)
  \/ \E l \in Leaves : Survive(l) \/ Drop(l) \/ DeleteLink(l)
                       \/ Crash(l) \/ Start(l)
  \/ RestartLeader
  \/ Tick

Spec == Init /\ [][Next]_vars

\* The scheduler of a router runs every task that is due and reads every
\* datagram; time goes on.  A leaf that is down may stay down.
FairSpec ==
  /\ Spec
  /\ WF_vars(\E m \in net : Receive(m) \/ (m.leaf \notin up /\ Lose(m)))
  /\ WF_vars(\E m \in due : heartBeat(m))
  /\ WF_vars(\E l \in Leaves : Survive(l) \/ Drop(l))
  /\ WF_vars(Tick)

----------------------------------------------------------------------------
(* Properties *)

\* The variables have their types.
TypeOK ==
  /\ up \subseteq Leaves
  /\ due \subseteq Messages
  /\ net \subseteq Messages
  /\ remotes \in [Leaves -> Tasks \cup {NULL}]
  /\ links \in [Leaves -> Kinds \cup {NULL}]
  /\ server \in [Leaves -> SUBSET Answers]
  /\ uplink \in [Leaves -> Kinds \cup {NULL}]
  /\ sources \in [Routers -> SUBSET Routers]
  /\ joined \in [Routers -> SUBSET Routers]
  /\ faults \in 0..MaxFaults
  /\ silent \in [Leaves -> Nat]

\* What the leader holds for a leaf dies with the leaf's task: it lists no
\* source and keeps no link that no task will ever remove.
NothingOutlivesItsTask ==
  \A l \in Leaves :
    remotes[l] = NULL => links[l] = NULL /\ l \notin sources[Leader]

\* The memberships of every router's sockets are those its list stands for:
\* joins and leaves stay paired through answers, time-outs and restarts.
JoinedIsListed == \A r \in Routers : joined[r] = sources[r] \ {r}

\* A leaf that has stopped asking is forgotten within two periods.
SilentIsDropped ==
  \A l \in Leaves : remotes[l] # NULL => silent[l] <= 2 * Period

\* A leaf is dropped only after a whole period without a request, unless the
\* leader itself restarts: no Period - 1 losses in a row, nor an unlucky phase
\* of the two timers, cost it the link.
OnlyTheSilentAreDropped ==
  [][\A l \in Leaves :
       remotes[l] # NULL /\ remotes'[l] = NULL /\ faults' = faults
         => silent[l] >= Period]_vars

\* Once nothing goes wrong any more the leader lists exactly the leaves that
\* run, and every leaf lists them too; all a leaf may list beside them is an
\* address whose text is part of the address of one of them.
Running == {Leader} \cup up
Agreed ==
  /\ sources[Leader] = Running
  /\ \A l \in up :
       /\ Running \subseteq sources[l]
       /\ \A s \in sources[l] : \E a \in Running : Occurs(s, a)
Agreement == <>[]Agreed
=============================================================================
