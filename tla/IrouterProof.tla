---------------------------- MODULE IrouterProof ----------------------------
(***************************************************************************)
(* Proofs about IrouterLinks, for every set of leaves, every period and    *)
(* every number of faults: the types, that what the leader holds for a     *)
(* leaf dies with its task, that memberships follow the lists, and the two *)
(* bounds on when a leaf is dropped.                                       *)
(***************************************************************************)
EXTENDS IrouterLinks, TLAPS

\* A request for multicast carries the address of the leaf that sends it.
OwnAddress ==
  \A m \in net \cup due : m.type = "mcastLinkReq" => m.list = {m.leaf}

\* How long a leaf has been silent, by what its task has seen and the time
\* that is left: a request resets the age, the task's own run starts a period.
AgeOf(task, age) ==
  IF task.active THEN age <= Period - task.left
  ELSE Period - task.left <= age /\ age <= 2 * Period - task.left
Ages == \A l \in Leaves : remotes[l] # NULL => AgeOf(remotes[l], silent[l])

TypeInv == TypeOK /\ OwnAddress

\* No task is NULL, so that a leaf has a task or has none.
LEMMA NullIsNoTask == NULL \notin Tasks
BY LinksAssumption DEF Tasks

\* The task that has just run is a task.
LEMMA AgedIsTask == Aged \in Tasks /\ Aged # NULL
<1>1. Aged \in Tasks
  BY LinksAssumption DEF Aged, Tasks
<1> QED
  BY <1>1, NullIsNoTask

\* Time leaves a leaf with the task it has.
LEMMA TickTask ==
  ASSUME TypeOK, Tick, NEW l \in Leaves, remotes[l] # NULL
  PROVE  remotes'[l] \in Tasks /\ remotes'[l] # NULL
<1>1. remotes[l] \in Tasks /\ remotes[l].left > 0
  BY DEF Tick, TypeOK
<1>2. [remotes[l] EXCEPT !.left = @ - 1] \in Tasks
  BY <1>1, LinksAssumption DEF Tasks
<1>3. remotes'[l] = [remotes[l] EXCEPT !.left = @ - 1]
  BY DEF Tick
<1> QED
  BY <1>2, <1>3, NullIsNoTask

\* The disjuncts of Next, an action of the code each.
LEMMA StepCases ==
  ASSUME [Next]_vars
  PROVE  \/ \E m \in net : \/ processConnectionRequest(m)
                           \/ processMcastConnectionRequest(m)
                           \/ processConnectionAnswer(m)
                           \/ processMcastConnectionAnswer(m)
                           \/ Lose(m)
         \/ \E m \in due : heartBeat(m)
         \/ \E l \in Leaves : \/ Survive(l) \/ Drop(l) \/ DeleteLink(l)
                              \/ Crash(l) \/ Start(l)
         \/ RestartLeader
         \/ Tick
         \/ UNCHANGED vars
BY DEF Next, Receive

\* What a leaf sends is of the type of a message and holds its own address.
LEMMA HarbingersOK ==
  ASSUME NEW l \in Leaves
  PROVE  /\ Harbingers(l) \subseteq Messages
         /\ \A m \in Harbingers(l) :
              m.type = "mcastLinkReq" => m.list = {m.leaf}
BY DEF Harbingers, Msg, Messages, Requests, Routers

\* The base of the induction for the types.
LEMMA InitTypes == ASSUME Init PROVE TypeInv
<1>1. due \subseteq Messages /\ net = {}
  BY HarbingersOK DEF Init
<1>2. OwnAddress
  BY HarbingersOK DEF Init, OwnAddress
<1>3. faults \in 0..MaxFaults
  BY LinksAssumption DEF Init
<1>4. /\ sources \in [Routers -> SUBSET Routers]
      /\ joined \in [Routers -> SUBSET Routers]
  BY DEF Init, Routers
<1> QED
  BY <1>1, <1>2, <1>3, <1>4 DEF Init, TypeInv, TypeOK

\* The effect of a request on the leader's tables keeps their types.
LEMMA AcceptTypes ==
  ASSUME TypeOK, NEW l \in Leaves, NEW kind \in Kinds, Accept(l, kind)
  PROVE  /\ remotes' \in [Leaves -> Tasks \cup {NULL}]
         /\ links' \in [Leaves -> Kinds \cup {NULL}]
         /\ silent' \in [Leaves -> Nat]
<1>1. NewTask \in Tasks
  BY LinksAssumption DEF NewTask, Tasks
<1>2. ASSUME NEW t \in Tasks PROVE Rejuvenated(t) \in Tasks
  BY DEF Rejuvenated, Tasks
<1> QED
  BY <1>1, <1>2 DEF TypeOK, Accept

\* A message changes a list into a list.
LEMMA RefreshTypes ==
  ASSUME TypeOK, NEW r \in Routers, NEW list \in SUBSET Routers,
         refreshMulticastSources(r, list)
  PROVE  /\ sources' \in [Routers -> SUBSET Routers]
         /\ joined' \in [Routers -> SUBSET Routers]
<1>1. StillListed(r, list) \subseteq Routers
  BY DEF StillListed, TypeOK
<1> QED
  BY <1>1 DEF TypeOK, refreshMulticastSources, ToJoin

\* Its step, by action.
LEMMA NextTypes == ASSUME TypeInv, [Next]_vars PROVE TypeInv'
<1> USE DEF TypeInv
<1>0. Leaves \subseteq Routers /\ Leader \in Routers
  BY DEF Routers
<1>1. ASSUME NEW m \in net, processConnectionRequest(m) PROVE TypeInv'
  <2>1. m.leaf \in Leaves /\ m \in Messages
    BY DEF TypeOK, Messages
  <2>2. Msg("linkAns", m.leaf, {}) \in Messages
    BY <2>1 DEF Msg, Messages, Answers
  <2>3. OwnAddress'
    BY <1>1 DEF processConnectionRequest, OwnAddress, Msg
  <2>4. net' \subseteq Messages
    BY <1>1, <2>2 DEF processConnectionRequest, TypeOK
  <2> QED
    BY <1>1, <2>1, <2>3, <2>4, AcceptTypes
    DEF processConnectionRequest, TypeOK, Kinds, leafVars, sourceVars
<1>2. ASSUME NEW m \in net, processMcastConnectionRequest(m) PROVE TypeInv'
  <2>1. m.leaf \in Leaves /\ m.list \in SUBSET Routers
    BY DEF TypeOK, Messages
  <2>2. /\ sources' \in [Routers -> SUBSET Routers]
        /\ joined' \in [Routers -> SUBSET Routers]
    BY <1>2, <2>1, <1>0, RefreshTypes DEF processMcastConnectionRequest
  <2>3. Msg("mcastLinkAns", m.leaf, sources'[Leader]) \in Messages
    BY <2>1, <2>2, <1>0 DEF Msg, Messages, Answers
  <2>4. OwnAddress'
    BY <1>2 DEF processMcastConnectionRequest, OwnAddress, Msg
  <2>5. net' \subseteq Messages
    BY <1>2, <2>3 DEF processMcastConnectionRequest, TypeOK
  <2> QED
    BY <1>2, <2>1, <2>2, <2>4, <2>5, AcceptTypes
    DEF processMcastConnectionRequest, TypeOK, Kinds, leafVars
<1>3. ASSUME NEW m \in net, processConnectionAnswer(m) PROVE TypeInv'
  BY <1>3 DEF processConnectionAnswer, Answered, TypeOK, OwnAddress, Kinds,
              Answers, tableVars, sourceVars
<1>4. ASSUME NEW m \in net, processMcastConnectionAnswer(m) PROVE TypeInv'
  <2>1. m.leaf \in Routers /\ m.list \in SUBSET Routers
    BY <1>0 DEF TypeOK, Messages
  <2>2. /\ sources' \in [Routers -> SUBSET Routers]
        /\ joined' \in [Routers -> SUBSET Routers]
    BY <1>4, <2>1, RefreshTypes DEF processMcastConnectionAnswer
  <2> QED
    BY <1>4, <2>2 DEF processMcastConnectionAnswer, Answered, TypeOK,
                      OwnAddress, Kinds, Answers, tableVars
<1>5. ASSUME NEW m \in net, Lose(m) PROVE TypeInv'
  BY <1>5, LinksAssumption DEF Lose, TypeOK, OwnAddress, tableVars, leafVars,
                               sourceVars
<1>6. ASSUME NEW m \in due, heartBeat(m) PROVE TypeInv'
  BY <1>6 DEF heartBeat, TypeOK, OwnAddress, tableVars, leafVars, sourceVars
<1>7. ASSUME NEW l \in Leaves, Survive(l) PROVE TypeInv'
  BY <1>7, AgedIsTask DEF Survive, TypeOK, OwnAddress, leafVars, sourceVars
<1>8. ASSUME NEW l \in Leaves, Drop(l) PROVE TypeInv'
  BY <1>8, <1>0 DEF Drop, deleteMulticastSources, WithoutSource, TypeOK,
                    OwnAddress, leafVars
<1>9. ASSUME NEW l \in Leaves, DeleteLink(l) PROVE TypeInv'
  BY <1>9, LinksAssumption DEF DeleteLink, TypeOK, OwnAddress, leafVars,
                               sourceVars
<1>10. ASSUME NEW l \in Leaves, Crash(l) PROVE TypeInv'
  BY <1>10, <1>0, LinksAssumption DEF Crash, TypeOK, OwnAddress, tableVars
<1>11. ASSUME NEW l \in Leaves, Start(l) PROVE TypeInv'
  <2>1. due' \subseteq Messages /\ OwnAddress'
    BY <1>11, HarbingersOK DEF Start, TypeOK, OwnAddress
  <2> QED
    BY <1>11, <2>1 DEF Start, TypeOK, tableVars, sourceVars
<1>12. CASE RestartLeader
  BY <1>12, <1>0, LinksAssumption
     DEF RestartLeader, TypeOK, OwnAddress, leafVars
<1>13. CASE Tick
  <2>1. due' \subseteq Messages /\ OwnAddress'
    BY <1>13, HarbingersOK DEF Tick, TypeOK, OwnAddress
  <2>2. faults' \in 0..MaxFaults
    BY <1>13, LinksAssumption DEF Tick, TypeOK
  <2>3. ASSUME NEW l \in Leaves PROVE remotes'[l] \in Tasks \cup {NULL}
    BY <1>13, TickTask DEF Tick
  <2>4. remotes' \in [Leaves -> Tasks \cup {NULL}]
    BY <1>13, <2>3 DEF Tick
  <2> QED
    BY <1>13, <2>1, <2>2, <2>4 DEF Tick, TypeOK, leafVars, sourceVars
<1>14. CASE UNCHANGED vars
  BY <1>14 DEF vars, tableVars, leafVars, sourceVars, TypeOK, OwnAddress
<1> QED
  BY <1>1, <1>2, <1>3, <1>4, <1>5, <1>6, <1>7, <1>8, <1>9, <1>10, <1>11,
     <1>12, <1>13, <1>14, StepCases

\* Type correctness: every table, list and message keeps its type through
\* requests, answers, time-outs, crashes and restarts.
THEOREM TypeCorrect == Spec => []TypeOK
<1>1. Init => TypeInv
  BY InitTypes
<1>2. TypeInv /\ [Next]_vars => TypeInv'
  BY NextTypes
<1> QED
  BY <1>1, <1>2, PTL DEF Spec, TypeInv

----------------------------------------------------------------------------
(* What the leader holds for a leaf *)

\* A request leaves the leaf with a task.
LEMMA AcceptedHasTask ==
  ASSUME TypeOK, NEW l \in Leaves, NEW kind, Accept(l, kind)
  PROVE  /\ remotes'[l] # NULL
         /\ \A x \in Leaves \ {l} :
              remotes'[x] = remotes[x] /\ links'[x] = links[x]
<1>1. NewTask \in Tasks
  BY LinksAssumption DEF NewTask, Tasks
<1>2. ASSUME NEW t \in Tasks PROVE Rejuvenated(t) \in Tasks
  BY DEF Rejuvenated, Tasks
<1> QED
  BY <1>1, <1>2, NullIsNoTask DEF TypeOK, Accept

\* A step keeps what the leader holds for a leaf tied to the leaf's task: one
\* case for each action that touches the tables or the leader's list.
LEMMA NextHeld ==
  ASSUME TypeInv, NothingOutlivesItsTask, [Next]_vars
  PROVE  NothingOutlivesItsTask'
<1> USE DEF TypeInv
<1>0. Leader \in Routers /\ Leader \notin Leaves
  BY LinksAssumption DEF Routers
<1>1. ASSUME NEW m \in net, processConnectionRequest(m)
      PROVE  NothingOutlivesItsTask'
  <2>1. m.leaf \in Leaves
    BY DEF TypeOK, Messages
  <2>2. Accept(m.leaf, "NORMAL") /\ sources' = sources
    BY <1>1 DEF processConnectionRequest, sourceVars
  <2> QED
    BY <2>1, <2>2, AcceptedHasTask DEF NothingOutlivesItsTask
<1>2. ASSUME NEW m \in net, processMcastConnectionRequest(m)
      PROVE  NothingOutlivesItsTask'
  <2>1. m.leaf \in Leaves /\ m.list = {m.leaf}
    BY <1>2 DEF TypeOK, Messages, OwnAddress, processMcastConnectionRequest
  <2>2. Accept(m.leaf, "CONTROL")
    BY <1>2 DEF processMcastConnectionRequest
  <2>3. sources'[Leader] = sources[Leader] \cup {m.leaf}
    BY <1>2, <1>0, <2>1 DEF processMcastConnectionRequest, StillListed,
                            refreshMulticastSources, TypeOK
  <2> QED
    BY <2>1, <2>2, <2>3, AcceptedHasTask DEF NothingOutlivesItsTask
<1>3. ASSUME NEW m \in net, processConnectionAnswer(m)
      PROVE  NothingOutlivesItsTask'
  BY <1>3 DEF processConnectionAnswer, Answered, NothingOutlivesItsTask,
              tableVars, sourceVars
<1>4. ASSUME NEW m \in net, processMcastConnectionAnswer(m)
      PROVE  NothingOutlivesItsTask'
  <2>1. m.leaf \in Leaves /\ m.leaf # Leader
    BY <1>0 DEF TypeOK, Messages
  <2>2. sources'[Leader] = sources[Leader]
    BY <1>4, <1>0, <2>1 DEF processMcastConnectionAnswer,
                            refreshMulticastSources, TypeOK
  <2> QED
    BY <1>4, <2>2 DEF processMcastConnectionAnswer, Answered, tableVars,
                      NothingOutlivesItsTask
<1>5. ASSUME NEW m \in net, Lose(m) PROVE NothingOutlivesItsTask'
  BY <1>5 DEF Lose, NothingOutlivesItsTask, tableVars, sourceVars
<1>6. ASSUME NEW m \in due, heartBeat(m) PROVE NothingOutlivesItsTask'
  BY <1>6 DEF heartBeat, NothingOutlivesItsTask, tableVars, sourceVars
<1>7. ASSUME NEW l \in Leaves, Survive(l) PROVE NothingOutlivesItsTask'
  BY <1>7, AgedIsTask DEF Survive, NothingOutlivesItsTask, TypeOK,
                          sourceVars
<1>8. ASSUME NEW l \in Leaves, Drop(l) PROVE NothingOutlivesItsTask'
  BY <1>8, <1>0 DEF Drop, deleteMulticastSources, WithoutSource,
                    NothingOutlivesItsTask, TypeOK
<1>9. ASSUME NEW l \in Leaves, DeleteLink(l) PROVE NothingOutlivesItsTask'
  BY <1>9 DEF DeleteLink, NothingOutlivesItsTask, TypeOK, sourceVars
<1>10. ASSUME NEW l \in Leaves, Crash(l) PROVE NothingOutlivesItsTask'
  BY <1>10, <1>0 DEF Crash, NothingOutlivesItsTask, TypeOK, tableVars
<1>11. ASSUME NEW l \in Leaves, Start(l) PROVE NothingOutlivesItsTask'
  BY <1>11 DEF Start, NothingOutlivesItsTask, tableVars, sourceVars
<1>12. CASE RestartLeader
  BY <1>12, <1>0 DEF RestartLeader, NothingOutlivesItsTask, TypeOK
<1>13. CASE Tick
  <2>1. links' = links /\ sources' = sources
    BY <1>13 DEF Tick, sourceVars
  <2> QED
    BY <1>13, <2>1, TickTask DEF NothingOutlivesItsTask
<1>14. CASE UNCHANGED vars
  BY <1>14 DEF vars, tableVars, sourceVars, NothingOutlivesItsTask
<1> QED
  BY <1>1, <1>2, <1>3, <1>4, <1>5, <1>6, <1>7, <1>8, <1>9, <1>10, <1>11,
     <1>12, <1>13, <1>14, StepCases

\* Nothing the leader holds for a leaf outlives the task that removes it:
\* heartBeat, its destructor and refreshMulticastSources keep the task table,
\* the links and the list together through losses, crashes and restarts.
THEOREM NothingIsLeftBehind == Spec => []NothingOutlivesItsTask
<1>1. Init => TypeInv /\ NothingOutlivesItsTask
  <2>1. Init => NothingOutlivesItsTask
    BY LinksAssumption DEF Init, NothingOutlivesItsTask, Routers
  <2> QED
    BY <2>1, InitTypes
<1>2. TypeInv /\ NothingOutlivesItsTask /\ [Next]_vars
        => TypeInv' /\ NothingOutlivesItsTask'
  BY NextTypes, NextHeld
<1> QED
  BY <1>1, <1>2, PTL DEF Spec

----------------------------------------------------------------------------
(* Memberships *)

\* A list that comes keeps the memberships of its router what they should be.
LEMMA RefreshJoined ==
  ASSUME TypeOK, JoinedIsListed, NEW r \in Routers, NEW list,
         refreshMulticastSources(r, list)
  PROVE  JoinedIsListed'
<1>1. StillListed(r, list) \subseteq sources[r]
  BY DEF StillListed
<1>2. r \in sources[r] => r \in StillListed(r, list)
  BY DEF StillListed
<1>3. joined[r] = sources[r] \ {r}
  BY DEF JoinedIsListed
<1>4. sources'[r] = StillListed(r, list) \cup list
  BY DEF TypeOK, refreshMulticastSources
<1>5. joined'[r] = (joined[r] \ (sources[r] \ StillListed(r, list)))
                     \cup ((list \ StillListed(r, list)) \ {r})
  BY DEF TypeOK, refreshMulticastSources, ToJoin
<1>6. joined'[r] = sources'[r] \ {r}
  BY <1>1, <1>2, <1>3, <1>4, <1>5
<1>7. ASSUME NEW x \in Routers \ {r} PROVE joined'[x] = sources'[x] \ {x}
  BY DEF TypeOK, refreshMulticastSources, JoinedIsListed
<1> QED
  BY <1>6, <1>7 DEF JoinedIsListed

\* Every step keeps memberships and lists together.
LEMMA NextJoined ==
  ASSUME TypeInv, JoinedIsListed, [Next]_vars
  PROVE  JoinedIsListed'
<1> USE DEF TypeInv
<1>0. Leader \in Routers /\ Leaves \subseteq Routers
  BY DEF Routers
<1>1. ASSUME NEW m \in net, processMcastConnectionRequest(m)
      PROVE  JoinedIsListed'
  BY <1>1, <1>0, RefreshJoined DEF processMcastConnectionRequest
<1>2. ASSUME NEW m \in net, processMcastConnectionAnswer(m)
      PROVE  JoinedIsListed'
  <2>1. m.leaf \in Routers
    BY <1>0 DEF TypeOK, Messages
  <2> QED
    BY <1>2, <2>1, RefreshJoined DEF processMcastConnectionAnswer
<1>3. ASSUME NEW l \in Leaves, Drop(l) PROVE JoinedIsListed'
  <2>1. /\ sources'[Leader] = sources[Leader] \ {l}
        /\ joined'[Leader] = joined[Leader] \ {l}
    BY <1>3, <1>0 DEF Drop, deleteMulticastSources, WithoutSource, TypeOK
  <2>2. ASSUME NEW x \in Routers \ {Leader}
        PROVE  sources'[x] = sources[x] /\ joined'[x] = joined[x]
    BY <1>3 DEF Drop, deleteMulticastSources, TypeOK
  <2> QED
    BY <2>1, <2>2, <1>0 DEF JoinedIsListed
<1>4. ASSUME NEW l \in Leaves, Crash(l) PROVE JoinedIsListed'
  BY <1>4, <1>0 DEF Crash, JoinedIsListed, TypeOK
<1>5. CASE RestartLeader
  BY <1>5, <1>0 DEF RestartLeader, JoinedIsListed, TypeOK
<1>6. CASE UNCHANGED sourceVars
  BY <1>6 DEF sourceVars, JoinedIsListed
<1>7. ASSUME \/ \E m \in net : processConnectionRequest(m)
                  \/ processConnectionAnswer(m) \/ Lose(m)
             \/ \E m \in due : heartBeat(m)
             \/ \E l \in Leaves : Survive(l) \/ DeleteLink(l) \/ Start(l)
             \/ Tick \/ UNCHANGED vars
      PROVE  UNCHANGED sourceVars
  BY <1>7 DEF processConnectionRequest, processConnectionAnswer, Lose,
              heartBeat, Survive, DeleteLink, Start, Tick, vars, sourceVars
<1> QED
  BY <1>1, <1>2, <1>3, <1>4, <1>5, <1>6, <1>7, StepCases

\* Every router is a member of exactly the sources it lists beside itself:
\* joinSSM and leaveSSM are paired, whatever lists arrive in whatever order.
THEOREM MembershipsFollowTheList == Spec => []JoinedIsListed
<1>1. Init => TypeInv /\ JoinedIsListed
  <2>1. Init => JoinedIsListed
    BY DEF Init, JoinedIsListed
  <2> QED
    BY <2>1, InitTypes
<1>2. TypeInv /\ JoinedIsListed /\ [Next]_vars => TypeInv' /\ JoinedIsListed'
  BY NextTypes, NextJoined
<1> QED
  BY <1>1, <1>2, PTL DEF Spec

----------------------------------------------------------------------------
(* When a leaf is dropped *)

\* An age is kept by the passing of a step of time.
LEMMA OlderByOne ==
  ASSUME NEW t \in Tasks, t.left > 0, NEW age \in Nat, AgeOf(t, age)
  PROVE  AgeOf([t EXCEPT !.left = @ - 1], age + 1)
<1>1. t.left \in 0..Period /\ Period \in Nat /\ t.active \in BOOLEAN
  BY LinksAssumption DEF Tasks
<1>2. /\ [t EXCEPT !.left = @ - 1].left = t.left - 1
      /\ [t EXCEPT !.left = @ - 1].active = t.active
  BY DEF Tasks
<1> QED
  BY <1>1, <1>2 DEF AgeOf

\* A request makes the task of its leaf young.
LEMMA AcceptAges ==
  ASSUME TypeOK, Ages, NEW l \in Leaves, NEW kind, Accept(l, kind)
  PROVE  Ages'
<1>1. AgeOf(NewTask, 0)
  BY LinksAssumption DEF AgeOf, NewTask
<1>2. ASSUME NEW t \in Tasks PROVE AgeOf(Rejuvenated(t), 0)
  <2>1. Rejuvenated(t).active /\ Rejuvenated(t).left = t.left
    BY DEF Rejuvenated, Tasks
  <2>2. t.left \in 0..Period
    BY DEF Tasks
  <2> QED
    BY <2>1, <2>2, LinksAssumption DEF AgeOf
<1>3. AgeOf(remotes'[l], silent'[l])
  BY <1>1, <1>2 DEF Accept, TypeOK
<1>4. \A x \in Leaves \ {l} : remotes'[x] = remotes[x] /\ silent'[x] = silent[x]
  BY DEF Accept, TypeOK
<1> QED
  BY <1>3, <1>4 DEF Ages

\* Every step keeps the ages within their bounds.
LEMMA NextAges ==
  ASSUME TypeInv, Ages, [Next]_vars
  PROVE  Ages'
<1> USE DEF TypeInv
<1>1. ASSUME NEW m \in net,
             processConnectionRequest(m) \/ processMcastConnectionRequest(m)
      PROVE  Ages'
  <2>1. m.leaf \in Leaves
    BY DEF TypeOK, Messages
  <2> QED
    BY <1>1, <2>1, AcceptAges DEF processConnectionRequest,
                                  processMcastConnectionRequest
<1>2. ASSUME NEW l \in Leaves, Survive(l) PROVE Ages'
  <2>1. remotes[l] \in Tasks /\ silent[l] \in Nat
    BY <1>2 DEF Survive, TypeOK
  <2>2. silent[l] <= Period
    BY <1>2, <2>1, LinksAssumption DEF Survive, Ages, AgeOf
  <2>3. AgeOf(Aged, silent[l])
    BY <2>1, <2>2, LinksAssumption DEF AgeOf, Aged
  <2> QED
    BY <1>2, <2>3 DEF Survive, Ages, TypeOK
<1>3. ASSUME NEW l \in Leaves, Drop(l) PROVE Ages'
  BY <1>3 DEF Drop, Ages, TypeOK
<1>4. CASE RestartLeader
  BY <1>4 DEF RestartLeader, Ages
<1>5. CASE Tick
  <2>1. ASSUME NEW l \in Leaves, remotes'[l] # NULL
        PROVE  AgeOf(remotes'[l], silent'[l])
    <3>1. remotes[l] # NULL /\ remotes[l] \in Tasks /\ silent[l] \in Nat
      BY <1>5, <2>1 DEF Tick, TypeOK
    <3>2. remotes[l].left > 0 /\ AgeOf(remotes[l], silent[l])
      BY <1>5, <3>1 DEF Tick, Ages
    <3>3. AgeOf([remotes[l] EXCEPT !.left = @ - 1], silent[l] + 1)
      BY <3>1, <3>2, OlderByOne
    <3>4. /\ remotes'[l] = [remotes[l] EXCEPT !.left = @ - 1]
          /\ silent'[l] = silent[l] + 1
      BY <1>5, <3>1 DEF Tick
    <3> QED
      BY <3>3, <3>4
  <2> QED
    BY <2>1 DEF Ages
<1>6. CASE UNCHANGED <<remotes, silent>>
  BY <1>6 DEF Ages
<1>7. ASSUME \/ \E m \in net : processConnectionAnswer(m)
                  \/ processMcastConnectionAnswer(m) \/ Lose(m)
             \/ \E m \in due : heartBeat(m)
             \/ \E l \in Leaves : DeleteLink(l) \/ Crash(l) \/ Start(l)
             \/ UNCHANGED vars
      PROVE  UNCHANGED <<remotes, silent>>
  BY <1>7 DEF processConnectionAnswer, processMcastConnectionAnswer, Answered,
              Lose, heartBeat, DeleteLink, Crash, Start, vars, tableVars
<1> QED
  BY <1>1, <1>2, <1>3, <1>4, <1>5, <1>6, <1>7, StepCases

\* The ages hold in every behaviour.
LEMMA AgesHold == Spec => [](TypeInv /\ Ages)
<1>1. Init => TypeInv /\ Ages
  <2>1. Init => Ages
    BY DEF Init, Ages
  <2> QED
    BY <2>1, InitTypes
<1>2. TypeInv /\ Ages /\ [Next]_vars => TypeInv' /\ Ages'
  BY NextTypes, NextAges
<1> QED
  BY <1>1, <1>2, PTL DEF Spec

\* A leaf that stops asking is forgotten within two periods of its task, 16
\* seconds, whatever the phases of the timers and the losses before.
THEOREM SilentLeavesAreDropped == Spec => []SilentIsDropped
<1>1. TypeInv /\ Ages => SilentIsDropped
  <2> SUFFICES ASSUME TypeInv, Ages, NEW l \in Leaves, remotes[l] # NULL
               PROVE  silent[l] <= 2 * Period
    BY DEF SilentIsDropped
  <2>1. remotes[l] \in Tasks /\ silent[l] \in Nat
    BY DEF TypeInv, TypeOK
  <2>2. remotes[l].left \in 0..Period
    BY <2>1 DEF Tasks
  <2>3. AgeOf(remotes[l], silent[l])
    BY DEF Ages
  <2> QED
    BY <2>1, <2>2, <2>3, LinksAssumption DEF AgeOf
<1> QED
  BY <1>1, AgesHold, PTL

\* A leaf is dropped only after a whole period, 8 seconds, without a request.
THEOREM OnlyAfterSilence == Spec => OnlyTheSilentAreDropped
<1> DEFINE Late == \A l \in Leaves :
             remotes[l] # NULL /\ remotes'[l] = NULL /\ faults' = faults
               => silent[l] >= Period
<1>1. TypeInv /\ Ages /\ [Next]_vars => [Late]_vars
  <2> SUFFICES ASSUME TypeInv, Ages, [Next]_vars, NEW l \in Leaves,
                      remotes[l] # NULL, remotes'[l] = NULL, faults' = faults
               PROVE  silent[l] >= Period
    OBVIOUS
  <2> USE DEF TypeInv
  <2>0. remotes[l] \in Tasks /\ silent[l] \in Nat
    BY DEF TypeOK
  <2>1. ASSUME NEW x \in Leaves, Drop(x) PROVE silent[l] >= Period
    <3>1. x = l
      BY <2>1 DEF Drop, TypeOK
    <3>2. ~remotes[l].active /\ remotes[l].left = 0 /\ AgeOf(remotes[l], silent[l])
      BY <2>1, <3>1 DEF Drop, Ages
    <3> QED
      BY <3>2, <2>0, LinksAssumption DEF AgeOf
  <2>2. ASSUME NEW m \in net,
               processConnectionRequest(m) \/ processMcastConnectionRequest(m)
        PROVE  FALSE
    <3>1. m.leaf \in Leaves
      BY DEF TypeOK, Messages
    <3>2. \E kind : Accept(m.leaf, kind)
      BY <2>2 DEF processConnectionRequest, processMcastConnectionRequest
    <3> QED
      BY <3>1, <3>2, AcceptedHasTask
  <2>3. ASSUME NEW x \in Leaves, Survive(x) PROVE FALSE
    BY <2>3, AgedIsTask DEF Survive, TypeOK
  <2>4. CASE RestartLeader
    BY <2>4 DEF RestartLeader, TypeOK
  <2>5. CASE Tick
    BY <2>5, TickTask
  <2>6. ASSUME \/ \E m \in net : processConnectionAnswer(m)
                    \/ processMcastConnectionAnswer(m) \/ Lose(m)
               \/ \E m \in due : heartBeat(m)
               \/ \E x \in Leaves : DeleteLink(x) \/ Crash(x) \/ Start(x)
               \/ UNCHANGED vars
        PROVE  FALSE
    BY <2>6 DEF processConnectionAnswer, processMcastConnectionAnswer,
                Answered, Lose, heartBeat, DeleteLink, Crash, Start, vars,
                tableVars
  <2> QED
    BY <2>1, <2>2, <2>3, <2>4, <2>5, <2>6, StepCases
<1> QED
  BY <1>1, AgesHold, PTL DEF Spec, OnlyTheSilentAreDropped
=============================================================================
