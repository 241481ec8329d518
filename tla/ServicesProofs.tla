--------------------------- MODULE ServicesProofs ---------------------------
(***************************************************************************)
(* Proofs about Services, for any set of instances, any number of blocks   *)
(* and any range of ports: its types and its safety properties.            *)
(***************************************************************************)
EXTENDS Services, TLAPS

-----------------------------------------------------------------------------
(* The inductive invariant *)

\* No pass is being made while the node commits, a block that was begun is
\* within the bound, and a pass accounts for every running instance.
PassInv ==
    /\ call # NoCall => phase # "commit"
    /\ \/ phase \in {"state_hashes", "commit"}
       \/ phase = "transactions" /\ call # NoCall
       => block < MaxBlocks
    /\ NoneSkipped

\* What is left after before_commit is what passed it, and what is left after
\* state_hashes is what returned hashes.
HashesInv ==
    /\ phase \in {"state_hashes", "commit"} => instances \subseteq prepared
    /\ phase = "commit" => passed = instances

\* During a pass, a faulty service that still runs is about to be stopped;
\* only faulty ones are.
FaultsInv ==
    /\ toStop \subseteq broken
    /\ accepted \intersect broken \intersect instances \subseteq toStop
    /\ StoppedWasBroken

\* An API has its two ports to itself, below the ones that are still free.
HasPorts(i) == api[i] # "none"

PortsInv ==
    /\ \A i \in Instances : HasPorts(i) => port[i] + 1 < freePort
    /\ \A i, j \in Instances : HasPorts(i) /\ HasPorts(j) /\ i # j =>
        port[i] + 1 < port[j] \/ port[j] + 1 < port[i]

IInv ==
    /\ TypeOK
    /\ PassInv
    /\ HashesInv
    /\ FaultsInv
    /\ ListedIsAccepted
    /\ PortsInv

-----------------------------------------------------------------------------
(* The initial states *)

LEMMA InitIInv == Init => IInv
<1> SUFFICES ASSUME Init
             PROVE  IInv
    OBVIOUS
<1> USE DEF Init
<1>1. TypeOK
  <2>1. block \in 0..MaxBlocks /\ freePort \in Nat
    BY ServicesAssumption
  <2>2. port \in [Instances -> Nat]
    BY DEF NoPort
  <2>3. api \in [Instances -> {"none", "queued", "up", "half", "failed"}]
    OBVIOUS
  <2> QED
    BY <2>1, <2>2, <2>3 DEF TypeOK
<1>2. PassInv
    BY DEF PassInv, NoneSkipped
<1>3. HashesInv
    BY DEF HashesInv
<1>4. FaultsInv /\ ListedIsAccepted
    BY DEF FaultsInv, StoppedWasBroken, ListedIsAccepted
<1>5. PortsInv
    BY DEF PortsInv, HasPorts
<1> QED
    BY <1>1, <1>2, <1>3, <1>4, <1>5 DEF IInv

-----------------------------------------------------------------------------
(* Each part is preserved by every step *)

\* Types.
LEMMA NextTypeOK ==
    TypeOK /\ PassInv /\ [Next]_vars => TypeOK'
<1> SUFFICES ASSUME TypeOK, PassInv, [Next]_vars
             PROVE  TypeOK'
    OBVIOUS
<1> USE DEF TypeOK, NoCall,
           nodeVars, passVars, apiVars, historyVars
<1>1. ASSUME NEW i \in Instances, ConstructorRaises(i)
      PROVE  TypeOK'
    BY <1>1 DEF ConstructorRaises, NodeMay
<1>2. ASSUME NEW i \in Instances, StartWithoutApi(i)
      PROVE  TypeOK'
    BY <1>2 DEF StartWithoutApi, Constructed, NodeMay
<1>3. ASSUME NEW i \in Instances, StartWithApi(i)
      PROVE  TypeOK'
    BY <1>3 DEF StartWithApi, Constructed, NodeMay
<1>4. ASSUME NEW i \in Instances, WireApiFails(i)
      PROVE  TypeOK'
    BY <1>4 DEF WireApiFails, Constructed, NodeMay
<1>5. ASSUME NEW i \in Instances, ExecuteRaises(i)
      PROVE  TypeOK'
    BY <1>5 DEF ExecuteRaises, NodeMay
<1>6. ASSUME NEW i \in Instances, VisitReturns(i)
      PROVE  TypeOK'
    BY <1>6 DEF VisitReturns
<1>7. ASSUME NEW i \in Instances, VisitFails(i)
      PROVE  TypeOK'
    BY <1>7 DEF VisitFails
<1>8. ASSUME NEW i \in Instances, VisitWritesSnapshot(i)
      PROVE  TypeOK'
    BY <1>8 DEF VisitWritesSnapshot
<1>9. ASSUME NEW i \in Instances, StartApi(i)
      PROVE  TypeOK'
    BY <1>9 DEF StartApi
<1>10. CASE BeforeCommit
    BY <1>10 DEF BeforeCommit, BeginPass, NodeMay
<1>11. CASE StateHashes
    BY <1>11 DEF StateHashes, BeginPass, NodeMay
<1>12. CASE Commit
    BY <1>12, ServicesAssumption DEF Commit, NodeMay, PassInv
<1>13. CASE AfterCommit
    BY <1>13 DEF AfterCommit, BeginPass, NodeMay
<1>14. CASE EndPass
    BY <1>14 DEF EndPass, NextPhase, PassInv
<1>15. CASE UNCHANGED vars
    BY <1>15 DEF vars
<1> QED
    BY <1>1, <1>2, <1>3, <1>4, <1>5, <1>6, <1>7, <1>8,
       <1>9, <1>10, <1>11, <1>12, <1>13, <1>14, <1>15
    DEF Next, Pass, AddService, Visit

\* A pass: it starts with everyone to be visited, and each visit moves one.
LEMMA NextPassInv ==
    TypeOK /\ PassInv /\ [Next]_vars => PassInv'
<1> SUFFICES ASSUME TypeOK, PassInv, [Next]_vars
             PROVE  PassInv'
    OBVIOUS
<1> USE DEF TypeOK, PassInv, NoneSkipped, NoCall,
           nodeVars, passVars, apiVars, historyVars
<1>1. ASSUME NEW i \in Instances, ConstructorRaises(i)
      PROVE  PassInv'
    BY <1>1 DEF ConstructorRaises, NodeMay
<1>2. ASSUME NEW i \in Instances, StartWithoutApi(i)
      PROVE  PassInv'
    BY <1>2 DEF StartWithoutApi, Constructed, NodeMay
<1>3. ASSUME NEW i \in Instances, StartWithApi(i)
      PROVE  PassInv'
    BY <1>3 DEF StartWithApi, Constructed, NodeMay
<1>4. ASSUME NEW i \in Instances, WireApiFails(i)
      PROVE  PassInv'
    BY <1>4 DEF WireApiFails, Constructed, NodeMay
<1>5. ASSUME NEW i \in Instances, ExecuteRaises(i)
      PROVE  PassInv'
    BY <1>5 DEF ExecuteRaises, NodeMay
<1>6. ASSUME NEW i \in Instances, VisitReturns(i)
      PROVE  PassInv'
    BY <1>6 DEF VisitReturns
<1>7. ASSUME NEW i \in Instances, VisitFails(i)
      PROVE  PassInv'
    BY <1>7 DEF VisitFails
<1>8. ASSUME NEW i \in Instances, VisitWritesSnapshot(i)
      PROVE  PassInv'
    BY <1>8 DEF VisitWritesSnapshot
<1>9. ASSUME NEW i \in Instances, StartApi(i)
      PROVE  PassInv'
    BY <1>9 DEF StartApi
<1>10. CASE BeforeCommit
    BY <1>10 DEF BeforeCommit, BeginPass, NodeMay
<1>11. CASE StateHashes
    BY <1>11 DEF StateHashes, BeginPass, NodeMay
<1>12. CASE Commit
    BY <1>12 DEF Commit, NodeMay
<1>13. CASE AfterCommit
    BY <1>13 DEF AfterCommit, BeginPass, NodeMay
<1>14. CASE EndPass
    BY <1>14 DEF EndPass, NextPhase
<1>15. CASE UNCHANGED vars
    BY <1>15 DEF vars
<1> QED
    BY <1>1, <1>2, <1>3, <1>4, <1>5, <1>6, <1>7, <1>8,
       <1>9, <1>10, <1>11, <1>12, <1>13, <1>14, <1>15
    DEF Next, Pass, AddService, Visit

\* The end of a pass leaves the instances that passed it.
LEMMA NextHashesInv ==
    TypeOK /\ PassInv /\ HashesInv /\ [Next]_vars => HashesInv'
<1> SUFFICES ASSUME TypeOK, PassInv, HashesInv, [Next]_vars
             PROVE  HashesInv'
    OBVIOUS
<1> USE DEF TypeOK, PassInv, NoneSkipped, HashesInv, NoCall,
           nodeVars, passVars, apiVars, historyVars
<1>1. ASSUME NEW i \in Instances, ConstructorRaises(i)
      PROVE  HashesInv'
    BY <1>1 DEF ConstructorRaises, NodeMay
<1>2. ASSUME NEW i \in Instances, StartWithoutApi(i)
      PROVE  HashesInv'
    BY <1>2 DEF StartWithoutApi, Constructed, NodeMay
<1>3. ASSUME NEW i \in Instances, StartWithApi(i)
      PROVE  HashesInv'
    BY <1>3 DEF StartWithApi, Constructed, NodeMay
<1>4. ASSUME NEW i \in Instances, WireApiFails(i)
      PROVE  HashesInv'
    BY <1>4 DEF WireApiFails, Constructed, NodeMay
<1>5. ASSUME NEW i \in Instances, ExecuteRaises(i)
      PROVE  HashesInv'
    BY <1>5 DEF ExecuteRaises, NodeMay
<1>6. ASSUME NEW i \in Instances, VisitReturns(i)
      PROVE  HashesInv'
    BY <1>6 DEF VisitReturns
<1>7. ASSUME NEW i \in Instances, VisitFails(i)
      PROVE  HashesInv'
    BY <1>7 DEF VisitFails
<1>8. ASSUME NEW i \in Instances, VisitWritesSnapshot(i)
      PROVE  HashesInv'
    BY <1>8 DEF VisitWritesSnapshot
<1>9. ASSUME NEW i \in Instances, StartApi(i)
      PROVE  HashesInv'
    BY <1>9 DEF StartApi
<1>10. CASE BeforeCommit
    BY <1>10 DEF BeforeCommit, BeginPass, NodeMay
<1>11. CASE StateHashes
    BY <1>11 DEF StateHashes, BeginPass, NodeMay
<1>12. CASE Commit
    BY <1>12 DEF Commit, NodeMay
<1>13. CASE AfterCommit
    BY <1>13 DEF AfterCommit, BeginPass, NodeMay
<1>14. CASE EndPass
    BY <1>14 DEF EndPass, NextPhase
<1>15. CASE UNCHANGED vars
    BY <1>15 DEF vars
<1> QED
    BY <1>1, <1>2, <1>3, <1>4, <1>5, <1>6, <1>7, <1>8,
       <1>9, <1>10, <1>11, <1>12, <1>13, <1>14, <1>15
    DEF Next, Pass, AddService, Visit

\* A service becomes faulty where it is noted, or stopped at once.
LEMMA NextFaultsInv ==
    TypeOK /\ FaultsInv /\ [Next]_vars => FaultsInv'
<1> SUFFICES ASSUME TypeOK, FaultsInv, [Next]_vars
             PROVE  FaultsInv'
    OBVIOUS
<1> USE DEF TypeOK, FaultsInv, StoppedWasBroken, NoCall,
           nodeVars, passVars, apiVars, historyVars
<1>1. ASSUME NEW i \in Instances, ConstructorRaises(i)
      PROVE  FaultsInv'
    BY <1>1 DEF ConstructorRaises, NodeMay
<1>2. ASSUME NEW i \in Instances, StartWithoutApi(i)
      PROVE  FaultsInv'
    BY <1>2 DEF StartWithoutApi, Constructed, NodeMay
<1>3. ASSUME NEW i \in Instances, StartWithApi(i)
      PROVE  FaultsInv'
    BY <1>3 DEF StartWithApi, Constructed, NodeMay
<1>4. ASSUME NEW i \in Instances, WireApiFails(i)
      PROVE  FaultsInv'
    BY <1>4 DEF WireApiFails, Constructed, NodeMay
<1>5. ASSUME NEW i \in Instances, ExecuteRaises(i)
      PROVE  FaultsInv'
    BY <1>5 DEF ExecuteRaises, NodeMay
<1>6. ASSUME NEW i \in Instances, VisitReturns(i)
      PROVE  FaultsInv'
    BY <1>6 DEF VisitReturns
<1>7. ASSUME NEW i \in Instances, VisitFails(i)
      PROVE  FaultsInv'
    BY <1>7 DEF VisitFails
<1>8. ASSUME NEW i \in Instances, VisitWritesSnapshot(i)
      PROVE  FaultsInv'
    BY <1>8 DEF VisitWritesSnapshot
<1>9. ASSUME NEW i \in Instances, StartApi(i)
      PROVE  FaultsInv'
    BY <1>9 DEF StartApi
<1>10. CASE BeforeCommit
    BY <1>10 DEF BeforeCommit, BeginPass, NodeMay
<1>11. CASE StateHashes
    BY <1>11 DEF StateHashes, BeginPass, NodeMay
<1>12. CASE Commit
    BY <1>12 DEF Commit, NodeMay
<1>13. CASE AfterCommit
    BY <1>13 DEF AfterCommit, BeginPass, NodeMay
<1>14. CASE EndPass
    BY <1>14 DEF EndPass
<1>15. CASE UNCHANGED vars
    BY <1>15 DEF vars
<1> QED
    BY <1>1, <1>2, <1>3, <1>4, <1>5, <1>6, <1>7, <1>8,
       <1>9, <1>10, <1>11, <1>12, <1>13, <1>14, <1>15
    DEF Next, Pass, AddService, Visit

\* An API is listed together with the instance being accepted.
LEMMA NextListedIsAccepted ==
    TypeOK /\ ListedIsAccepted /\ [Next]_vars => ListedIsAccepted'
<1> SUFFICES ASSUME TypeOK, ListedIsAccepted, [Next]_vars
             PROVE  ListedIsAccepted'
    OBVIOUS
<1> USE DEF TypeOK, ListedIsAccepted,
           nodeVars, passVars, apiVars, historyVars
<1>1. ASSUME NEW i \in Instances, ConstructorRaises(i)
      PROVE  ListedIsAccepted'
    BY <1>1 DEF ConstructorRaises, NodeMay
<1>2. ASSUME NEW i \in Instances, StartWithoutApi(i)
      PROVE  ListedIsAccepted'
    BY <1>2 DEF StartWithoutApi, Constructed, NodeMay
<1>3. ASSUME NEW i \in Instances, StartWithApi(i)
      PROVE  ListedIsAccepted'
    BY <1>3 DEF StartWithApi, Constructed, NodeMay
<1>4. ASSUME NEW i \in Instances, WireApiFails(i)
      PROVE  ListedIsAccepted'
    BY <1>4 DEF WireApiFails, Constructed, NodeMay
<1>5. ASSUME NEW i \in Instances, ExecuteRaises(i)
      PROVE  ListedIsAccepted'
    BY <1>5 DEF ExecuteRaises, NodeMay
<1>6. ASSUME NEW i \in Instances, VisitReturns(i)
      PROVE  ListedIsAccepted'
    BY <1>6 DEF VisitReturns
<1>7. ASSUME NEW i \in Instances, VisitFails(i)
      PROVE  ListedIsAccepted'
    BY <1>7 DEF VisitFails
<1>8. ASSUME NEW i \in Instances, VisitWritesSnapshot(i)
      PROVE  ListedIsAccepted'
    BY <1>8 DEF VisitWritesSnapshot
<1>9. ASSUME NEW i \in Instances, StartApi(i)
      PROVE  ListedIsAccepted'
    BY <1>9 DEF StartApi
<1>10. CASE BeforeCommit
    BY <1>10 DEF BeforeCommit, BeginPass, NodeMay
<1>11. CASE StateHashes
    BY <1>11 DEF StateHashes, BeginPass, NodeMay
<1>12. CASE Commit
    BY <1>12 DEF Commit, NodeMay
<1>13. CASE AfterCommit
    BY <1>13 DEF AfterCommit, BeginPass, NodeMay
<1>14. CASE EndPass
    BY <1>14 DEF EndPass
<1>15. CASE UNCHANGED vars
    BY <1>15 DEF vars
<1> QED
    BY <1>1, <1>2, <1>3, <1>4, <1>5, <1>6, <1>7, <1>8,
       <1>9, <1>10, <1>11, <1>12, <1>13, <1>14, <1>15
    DEF Next, Pass, AddService, Visit

\* A new API takes ports above all others.
LEMMA NextPortsInv ==
    TypeOK /\ PortsInv /\ [Next]_vars => PortsInv'
<1> SUFFICES ASSUME TypeOK, PortsInv, [Next]_vars
             PROVE  PortsInv'
    OBVIOUS
<1> USE DEF TypeOK, PortsInv, HasPorts,
           nodeVars, passVars, apiVars, historyVars
<1>1. ASSUME NEW i \in Instances, ConstructorRaises(i)
      PROVE  PortsInv'
    BY <1>1 DEF ConstructorRaises, NodeMay
<1>2. ASSUME NEW i \in Instances, StartWithoutApi(i)
      PROVE  PortsInv'
    BY <1>2 DEF StartWithoutApi, Constructed, NodeMay
<1>3. ASSUME NEW i \in Instances, StartWithApi(i)
      PROVE  PortsInv'
    BY <1>3 DEF StartWithApi, Constructed, NodeMay
<1>4. ASSUME NEW i \in Instances, WireApiFails(i)
      PROVE  PortsInv'
    BY <1>4 DEF WireApiFails, Constructed, NodeMay
<1>5. ASSUME NEW i \in Instances, ExecuteRaises(i)
      PROVE  PortsInv'
    BY <1>5 DEF ExecuteRaises, NodeMay
<1>6. ASSUME NEW i \in Instances, VisitReturns(i)
      PROVE  PortsInv'
    BY <1>6 DEF VisitReturns
<1>7. ASSUME NEW i \in Instances, VisitFails(i)
      PROVE  PortsInv'
    BY <1>7 DEF VisitFails
<1>8. ASSUME NEW i \in Instances, VisitWritesSnapshot(i)
      PROVE  PortsInv'
    BY <1>8 DEF VisitWritesSnapshot
<1>9. ASSUME NEW i \in Instances, StartApi(i)
      PROVE  PortsInv'
    BY <1>9 DEF StartApi
<1>10. CASE BeforeCommit
    BY <1>10 DEF BeforeCommit, BeginPass, NodeMay
<1>11. CASE StateHashes
    BY <1>11 DEF StateHashes, BeginPass, NodeMay
<1>12. CASE Commit
    BY <1>12 DEF Commit, NodeMay
<1>13. CASE AfterCommit
    BY <1>13 DEF AfterCommit, BeginPass, NodeMay
<1>14. CASE EndPass
    BY <1>14 DEF EndPass
<1>15. CASE UNCHANGED vars
    BY <1>15 DEF vars
<1> QED
    BY <1>1, <1>2, <1>3, <1>4, <1>5, <1>6, <1>7, <1>8,
       <1>9, <1>10, <1>11, <1>12, <1>13, <1>14, <1>15
    DEF Next, Pass, AddService, Visit

LEMMA NextIInv == IInv /\ [Next]_vars => IInv'
BY NextTypeOK, NextPassInv, NextHashesInv, NextFaultsInv,
   NextListedIsAccepted, NextPortsInv
DEF IInv

-----------------------------------------------------------------------------
(* The theorems *)

\* The strengthening is an invariant of the services.
THEOREM InductiveInvariant == Spec => []IInv
BY InitIInv, NextIInv, PTL DEF Spec

\* Every variable of the services keeps its type, and no pass leaves an
\* instance to be stopped behind.
THEOREM TypeCorrect == Spec => []TypeOK
<1>1. IInv => TypeOK
    BY DEF IInv
<1> QED
    BY <1>1, InductiveInvariant, PTL

\* One service failing in a pass never keeps another from being called.
THEOREM PassesSkipNone == Spec => []NoneSkipped
<1>1. IInv => NoneSkipped
    BY DEF IInv, PassInv
<1> QED
    BY <1>1, InductiveInvariant, PTL

\* The state hash of a committed block covers exactly the running services,
\* all of which went through before_commit.
THEOREM HashesAreConsistent == Spec => []AggregatorIsConsistent
<1>1. IInv => AggregatorIsConsistent
    BY DEF IInv, HashesInv, AggregatorIsConsistent
<1> QED
    BY <1>1, InductiveInvariant, PTL

\* A service the node started is stopped only for an error of its own.
THEOREM OnlyFaultyAreStopped == Spec => []StoppedWasBroken
<1>1. IInv => StoppedWasBroken
    BY DEF IInv, FaultsInv
<1> QED
    BY <1>1, InductiveInvariant, PTL

\* A started service that raised an unexpected error is not running when the
\* node is back in control.
THEOREM FaultyAreStopped == Spec => []BrokenIsStopped
<1>1. IInv => BrokenIsStopped
    BY DEF IInv, FaultsInv, TypeOK, BrokenIsStopped
<1> QED
    BY <1>1, InductiveInvariant, PTL

\* A service whose start failed never appears among the APIs.
THEOREM FailedStartsAreNotListed == Spec => []ListedIsAccepted
<1>1. IInv => ListedIsAccepted
    BY DEF IInv
<1> QED
    BY <1>1, InductiveInvariant, PTL

\* No two APIs listen on the same port, for any number of services and any
\* range of ports.
THEOREM PortsAreNotShared == Spec => []PortsAreDistinct
<1>1. IInv => PortsAreDistinct
    BY DEF IInv, TypeOK, PortsInv, HasPorts, PortsAreDistinct, Listening
<1> QED
    BY <1>1, InductiveInvariant, PTL
=============================================================================
